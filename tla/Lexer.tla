--------------------------------- MODULE Lexer ---------------------------------
(***************************************************************************)
(* lexMatch_t of Arsenal/Lex/match.c: a list of rules over an input.       *)
(* Lex_Match searches the enabled rules one after the other at the next    *)
(* position, the one of the highest priority first; a rule marked "skip"   *)
(* that matches makes it start over behind what was matched.  Between the  *)
(* calls the client skips, puts a token back, resets, and switches rules.  *)
(***************************************************************************)
EXTENDS RegexVM

CONSTANTS
  Lexers,   \* rule lists, the inputs each is given and a bound on the calls made:
            \* records [rules, inputs, calls], the rules sequences of
            \* [expr, value, priority, skip]
  FlagSets, \* values of match->flags
  Compile(_)  \* RGX_Compile: the code of an expression

ASSUME LexerAssumption ==
  \A l \in Lexers :
    /\ l.inputs # {} /\ l.calls \in Nat
    /\ \A s \in l.inputs : s \in Seq(ToSet(s))
    /\ l.rules \in Seq(ToSet(l.rules))
    /\ \A r \in ToSet(l.rules) :
         r.priority \in Int /\ r.skip \in BOOLEAN /\ IsCode(Compile(r.expr))

VARIABLES
  progs,       \* prog_set: each rule, with its code
  enable,      \* prog_set->enable
  client,      \* the inputs at hand and the calls that may still be made
  next, line, col, next_action, is_ok,  \* of lexMatch_t
  tok,         \* lexToken_t of the last call
  rule,        \* rule Lex_Match is at; 0 outside the call
  empties,     \* empty_match_cnt
  answer,      \* of the last Lex_Match; "none" if something else was called since
  from, wasok  \* history: next and is_ok when Lex_Match was called

place == <<next, line, col, next_action>>
vars == <<input, flags, code, frames, marks, mark,
          progs, enable, client, next, line, col, next_action, is_ok, tok,
          rule, empties, answer, from, wasok>>

NoTok == [index |-> 0, count |-> 0, line |-> 0, col |-> 0, value |-> 0]

\* Lex_SortProgSet: the highest priority first, and of equal ones the one
\* inserted first.
SortProgSet(rules) ==
  LET Before(j, k) == \/ rules[j].priority > rules[k].priority
                      \/ rules[j].priority = rules[k].priority /\ j < k
      At(n) == CHOOSE k \in DOMAIN rules :
                 Cardinality({j \in DOMAIN rules : Before(j, k)}) = n - 1
  IN [n \in DOMAIN rules |-> rules[At(n)]]

\* Lex_CreateMatch: each rule compiled, then the list sorted.
CreateMatch(rules) ==
  LET sorted == SortProgSet(rules)
  IN [n \in DOMAIN rules |->
        [code |-> Compile(sorted[n].expr), expr |-> sorted[n].expr,
         value |-> sorted[n].value, skip |-> sorted[n].skip]]

Init ==
  /\ VMInit
  /\ \E l \in Lexers :
       /\ progs = CreateMatch(l.rules)
       /\ enable = [r \in DOMAIN l.rules |-> TRUE]
       /\ client = [inputs |-> l.inputs, calls |-> l.calls]
       /\ input \in l.inputs
  /\ next = 1 /\ line = 0 /\ col = 0 /\ next_action = FALSE /\ is_ok = TRUE
  /\ tok = NoTok
  /\ rule = 0 /\ empties = 0 /\ answer = "none" /\ from = 1 /\ wasok = TRUE

Idle == rule = 0 /\ client.calls > 0
Spend == client' = [client EXCEPT !.calls = @ - 1]

Called ==
  /\ Idle /\ Spend
  /\ answer' = "none"
  /\ UNCHANGED <<code, frames, marks, mark, progs, rule, empties, from, wasok>>
-------------------------------------------------------------------------------
\* Lex_Match.
Match ==
  /\ Idle /\ Spend
  /\ rule' = 1 /\ empties' = 0 /\ answer' = "none"
  /\ from' = next /\ wasok' = is_ok
  /\ UNCHANGED <<input, flags, code, frames, marks, mark, progs, enable,
                 place, is_ok, tok>>

Answer(a) ==
  /\ answer' = a
  /\ rule' = 0 /\ empties' = 0
  /\ UNCHANGED <<input, flags, progs, enable, client, from, wasok>>

Trying == rule \in DOMAIN progs /\ frames = <<>>

SkipRule ==
  /\ Trying /\ ~enable[rule]
  /\ rule' = rule + 1
  /\ UNCHANGED <<vmvars, progs, enable, client, place, is_ok, tok, empties, answer, from, wasok>>

\* RGX_Match refuses once a match has failed.
Refused ==
  /\ Trying /\ enable[rule] /\ ~is_ok
  /\ Answer("not ready")
  /\ UNCHANGED <<code, frames, marks, mark, place, is_ok, tok>>

Search ==
  /\ Trying /\ enable[rule] /\ is_ok
  /\ StartSearch(progs[rule].code, Thread(1, next, line, col, next_action))
  /\ tok' = NoTok
  /\ UNCHANGED <<input, flags, progs, enable, client, place, is_ok, rule, empties,
                 answer, from, wasok>>

Step ==
  /\ VMStep
  /\ UNCHANGED <<progs, enable, client, place, is_ok, tok, rule, empties, answer, from,
                 wasok>>

NotFound ==
  /\ Stop(FALSE)
  /\ rule' = rule + 1
  /\ UNCHANGED <<input, flags, progs, enable, client, place, is_ok, tok, empties,
                 answer, from, wasok>>

\* The token of a search that ends at t.
TokenTo(t) == [index |-> next, count |-> t.sp - next, line |-> line, col |-> col,
               value |-> progs[rule].value]

\* The token of a search that succeeded, and the place behind it.
TakeToken(t) ==
  /\ tok' = TokenTo(t)
  /\ next' = t.sp /\ line' = t.line /\ col' = t.col /\ next_action' = t.act
  /\ UNCHANGED is_ok

GotToken ==
  /\ Stop(TRUE) /\ ~progs[rule].skip
  /\ TakeToken(Top.found[1])
  /\ Answer("yes")

\* Mutant: empty matches are not counted.
GotSkipUncounted ==
  /\ Stop(TRUE) /\ progs[rule].skip
  /\ TakeToken(Top.found[1])
  /\ rule' = 1
  /\ UNCHANGED <<input, flags, progs, enable, client, empties, answer, from, wasok>>

\* A rule to skip: from the first rule again, but not after a second empty match.
GotSkip ==
  /\ Stop(TRUE) /\ progs[rule].skip
  /\ TakeToken(Top.found[1])
  /\ LET n == IF Top.found[1].sp = next THEN empties + 1 ELSE empties
     IN IF n > 1 THEN Answer("empty match")
        ELSE /\ rule' = 1 /\ empties' = n
             /\ UNCHANGED <<input, flags, progs, enable, client, answer, from, wasok>>

\* Where RGX_CreateThreadList is called: for the lists of the search, and for
\* each activation of __loop and __lookahead.  The lists of a search are kept with
\* its rule; that they are there already is not told apart here.
MakesLists ==
  \/ Trying /\ enable[rule] /\ is_ok
  \/ Running /\ I.op \in Openers
  \/ Over("loop") /\ Top.found # <<>> /\ Top.times > 1

\* It fails.  All activations end (END_POINT), and with them Lex_Match, whose match
\* is not ready any more; an end found in an earlier round stays in the token.
NoMemory ==
  /\ MakesLists
  /\ Answer("no memory")
  /\ is_ok' = FALSE
  /\ tok' = IF frames = <<>> \/ frames[1].found = <<>> THEN NoTok
            ELSE TokenTo(frames[1].found[1])
  /\ frames' = <<>> /\ code' = <<>> /\ marks' = <<>> /\ mark' = 0
  /\ UNCHANGED place

\* No rule matched, or none was enabled.
Exhausted ==
  /\ rule > Len(progs)
  /\ LET disabled == \A r \in DOMAIN progs : ~enable[r]
     IN /\ Answer(IF disabled THEN "not ready" ELSE "no")
        /\ is_ok' = (is_ok /\ disabled)
  /\ UNCHANGED <<code, frames, marks, mark, place, tok>>
-------------------------------------------------------------------------------
\* Mutant: a return and its line feed are two ends of lines.
SkipOneEndsTwice(p) ==
  IF IsLineTerminator(CharAt(input, p.next))
  THEN [next |-> p.next + 1, line |-> p.line + 1, col |-> 0, act |-> FALSE]
  ELSE [next |-> p.next + 1, line |-> p.line, col |-> p.col + 1, act |-> p.act]

\* Lex_SkipN over one character.
SkipOne(p) ==
  LET c == CharAt(input, p.next)
  IN IF IsLineTerminator(c) /\ ~(c = "CR" /\ CharAt(input, p.next + 1) = "LF")
     THEN [next |-> p.next + 1, line |-> p.line + 1, col |-> 0, act |-> FALSE]
     ELSE [next |-> p.next + 1, line |-> p.line, col |-> p.col + 1,
           act |-> p.act \/ IsLineTerminator(c)]

SkipFrom(p, n) ==
  LET at[k \in 0 .. n] == IF k = 0 THEN p ELSE SkipOne(at[k - 1]) IN at[n]

SkipN(n) ==
  LET steps == IF Len(input) + 1 - next < n THEN Len(input) + 1 - next ELSE n
      p == SkipFrom([next |-> next, line |-> line, col |-> col, act |-> next_action], steps)
  IN /\ Called
     /\ next' = p.next /\ line' = p.line /\ col' = p.col /\ next_action' = p.act
     /\ UNCHANGED <<input, flags, enable, is_ok, tok>>

\* The first position of S from i on, or the end of the input.
FirstFrom(i, S) == Min({j \in S : j >= i} \cup {Len(input) + 1})

\* Lex_Skip: the rest of a word and the white space behind it.
Skip ==
  LET spaces == {k \in DOMAIN input : input[k] \in {" ", "CR", "LF"}}
      space == FirstFrom(next, spaces)
  IN SkipN(FirstFrom(space, DOMAIN input \ spaces) - next)

\* Lex_SkipTo, the token one character; Lex_TrySkipTo does it if there is one.
SkipTo(c) == SkipN(FirstFrom(next, {k \in DOMAIN input : input[k] = c}) - next)

\* Lex_PutBack of the last token; the end of the input cannot be put back.
PutBack ==
  /\ Called
  /\ tok # NoTok /\ tok.index <= Len(input)
  /\ next' = tok.index /\ line' = tok.line /\ col' = tok.col /\ next_action' = FALSE
  /\ UNCHANGED <<input, flags, enable, is_ok, tok>>

\* Lex_ResetInput; Lex_ResetMatchState is the same with the input there is.  A
\* token of another input is not put back any more.
ResetInput(s) ==
  /\ Called
  /\ input' = s
  /\ next' = 1 /\ line' = 0 /\ col' = 0 /\ next_action' = FALSE /\ is_ok' = TRUE
  /\ enable' = [r \in DOMAIN progs |-> TRUE]
  /\ tok' = IF s = input THEN tok ELSE NoTok
  /\ UNCHANGED flags

ClearError ==
  /\ Called
  /\ is_ok' = TRUE
  /\ UNCHANGED <<input, flags, enable, place, tok>>

\* Lex_EnableMatchRuleByValue.
EnableRule(value, on) ==
  /\ Called
  /\ enable' = [r \in DOMAIN progs |-> IF progs[r].value = value THEN on ELSE enable[r]]
  /\ UNCHANGED <<input, flags, place, is_ok, tok>>

\* Lex_EnableMatchAllRule and Lex_DisableMatchAllRule.
EnableAll(on) ==
  /\ Called
  /\ enable' = [r \in DOMAIN progs |-> on]
  /\ UNCHANGED <<input, flags, place, is_ok, tok>>

\* Lex_MatchFlags and Lex_MatchClearFlags.
MatchFlags(fs) ==
  /\ Called
  /\ flags' = fs
  /\ UNCHANGED <<input, enable, place, is_ok, tok>>
-------------------------------------------------------------------------------
LexMatch ==
  \/ SkipRule \/ Refused \/ Search \/ Step \/ NoMemory
  \/ NotFound \/ GotToken \/ GotSkip \/ Exhausted

Client ==
  \/ Match
  \/ \E n \in 1 .. 2 : SkipN(n)
  \/ Skip
  \/ \E c \in ToSet(input) : SkipTo(c)
  \/ PutBack
  \/ \E s \in client.inputs : ResetInput(s)
  \/ ClearError
  \/ \E r \in DOMAIN progs, on \in BOOLEAN : EnableRule(progs[r].value, on)
  \/ \E on \in BOOLEAN : EnableAll(on)
  \/ \E fs \in FlagSets : MatchFlags(fs)

Next == LexMatch \/ Client

\* A call runs to its end.
Spec == Init /\ [][Next]_vars /\ WF_vars(LexMatch)
-------------------------------------------------------------------------------
TypeOK ==
  /\ input \in client.inputs /\ client.calls \in Nat
  /\ enable \in [DOMAIN progs -> BOOLEAN]
  /\ next \in 1 .. Len(input) + 1
  /\ {line, col} \subseteq Nat /\ {next_action, is_ok} \subseteq BOOLEAN
  /\ rule \in 0 .. Len(progs) + 1 /\ empties \in 0 .. 1
  /\ answer \in {"none", "yes", "no", "empty match", "not ready", "no memory"}
  /\ \A f \in ToSet(frames) : /\ f.kind \in {"match", "loop", "ahead"} /\ f.times \in Nat \ {0}
                              /\ \A t \in ToSet(f.curr \o f.next) : t.pc \in DOMAIN code
  /\ \A pc \in DOMAIN marks : marks[pc] <= mark

\* A line ends with a line feed, or with a return that no line feed follows.
EndsLine(text, k) ==
  CharAt(text, k) = "LF" \/ (CharAt(text, k) = "CR" /\ CharAt(text, k + 1) # "LF")

Place(text, i) ==
  LET ends == {k \in 1 .. i - 1 : EndsLine(text, k)}
  IN <<Cardinality(ends), i - 1 - Max(ends \cup {0})>>

\* Line and column are those of the position, whatever mixture of matches,
\* skips, put-backs and searches led there: __check_is_newline in three loops
\* and Lex_SkipN count alike, also when a call ends between a return and its
\* line feed, and Lex_PutBack may forget which of the two came first.
CoordinatesMatchPosition ==
  /\ <<line, col>> = Place(input, next)
  /\ tok # NoTok => <<tok.line, tok.col>> = Place(input, tok.index)
  /\ \A n \in DOMAIN frames : \A t \in ToSet(frames[n].curr \o frames[n].next \o frames[n].found) :
       (\A k \in 1 .. n : frames[k].kind # "ahead") => <<t.line, t.col>> = Place(input, t.sp)

\* A round adds the threads of each instruction that consumes at most once, so
\* that a list holds no more of them than the code has ways on from its
\* instructions (the array behind it has room for 512, rgx.h:343).  Counted
\* repetitions and look-aheads, which start rounds of their own within a round,
\* break this: the marks of the round they interrupt no longer count.
ThreadsStayFew ==
  LET consumes == {pc \in DOMAIN code : code[pc].op \notin {"branch", "jmp", "match"}}
      ways == [pc \in consumes |-> Len(Leaves(code)[pc + 1])]
  IN (\A pc \in DOMAIN code : code[pc].op \notin Openers) =>
       \A f \in ToSet(frames) : Len(f.next) <= SumFunction(ways)

\* Lex_Match returns, also if a rule to skip matches nothing.
MatchReturns == rule # 0 ~> rule = 0
===============================================================================
