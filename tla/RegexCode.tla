------------------------------- MODULE RegexCode -------------------------------
(***************************************************************************)
(* The texts and the instructions of Arsenal/Lex: what the code of an      *)
(* expression is, whoever compiled it, and what its instructions ask of a  *)
(* text.                                                                   *)
(*                                                                         *)
(* A text is a sequence of characters, of which "CR" and "LF" end lines;   *)
(* a class of characters is a set of them.  Code is a sequence of          *)
(* instructions, addressed from 1.                                         *)
(***************************************************************************)
EXTENDS Integers, SequencesExt, FiniteSetsExt

EOT == "end of text"

CharAt(text, i) == IF i \in 1 .. Len(text) THEN text[i] ELSE EOT

IsLineTerminator(c) == c \in {"CR", "LF"}
-------------------------------------------------------------------------------
\* What an instruction that consumes takes, and where one that only tests holds.
\* Under LEX_IGNORE_CASE the last of the three cases of __match_on_char takes any
\* character.
Accepts(e, c, flags) ==
  /\ c # EOT
  /\ \/ e.t = "char" /\ (c \in e.set \/ "IGNORE_CASE" \in flags)
     \/ e.t = "any" /\ ("SINGLE_LINE" \in flags \/ ~IsLineTerminator(c))

Holds(e, text, i) ==
  CASE e.t = "begin" -> i = 1
    [] e.t = "end" -> CharAt(text, i) = EOT
    [] e.t = "line begin" -> i = 1 \/ IsLineTerminator(CharAt(text, i - 1))
    [] e.t = "line end" -> CharAt(text, i) = EOT \/ IsLineTerminator(CharAt(text, i))
-------------------------------------------------------------------------------
\* __add_thread's walk over jumps and branches: the instructions reached from
\* each one, the preferred ones first, every way to one counted.
Leaves(c) ==
  LET L[pc \in DOMAIN c] ==
        CASE c[pc].op = "jmp" -> L[c[pc].left]
          [] c[pc].op = "branch" -> L[c[pc].left] \o L[c[pc].right]
          [] OTHER -> <<pc>>
  IN L

Plain == {"char", "any", "begin", "end", "line begin", "line end"}
Closers == {"match", "loop end", "ahead end"}
Openers == {"loop begin", "ahead begin"}

\* The activation that an instruction begins, or that runs it up to its end.
KindOf(op) == CASE op = "match" -> "match"
                [] op \in {"loop begin", "loop end"} -> "loop"
                [] op \in {"ahead begin", "ahead end"} -> "ahead"

\* The innermost repetition or look-ahead that the instruction is in.
Within(c, pc) ==
  LET around == {p \in 1 .. pc - 1 : c[p].op \in Openers /\ pc < c[p].left}
  IN IF around = {} THEN "match" ELSE KindOf(c[Max(around)].op)

\* What the machine asks of its code: every way on stays in the code and in its
\* repetition or look-ahead, of which only the end of its kind gets out; and no
\* way round leads over jumps and branches alone.  The code __emit_code makes is
\* like that if the body of each repetition without a count takes a character;
\* from (a*)* it makes a circle of branches, in which __add_thread never ends.
IsCode(c) ==
  /\ c \in Seq(ToSet(c))
  /\ 1 \in DOMAIN c /\ Within(c, 1) = "match"
  /\ \A pc \in DOMAIN c :
       LET i == c[pc]
           Like(q) == q \in DOMAIN c /\ Within(c, q) = Within(c, pc)
       IN /\ i.op \in Plain \cup Closers \cup Openers \cup {"jmp", "branch"}
          /\ i.op \in Plain => Like(pc + 1)
          /\ i.op \in Closers => Within(c, pc) = KindOf(i.op)
          /\ i.op \in Openers => /\ Like(i.left) /\ pc + 1 \in DOMAIN c
                               /\ Within(c, pc + 1) = KindOf(i.op)
          /\ i.op = "loop begin" => i.count \in Nat \ {0}
          /\ Leaves(c)[pc] \in Seq({q \in DOMAIN c : Within(c, q) = Within(c, pc)})
===============================================================================
