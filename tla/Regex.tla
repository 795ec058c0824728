--------------------------------- MODULE Regex ---------------------------------
(***************************************************************************)
(* The regular expressions of Arsenal/Lex: the trees rgx_parser.c builds,  *)
(* the code rgx_compile.c makes of a tree, and, as the reference for the   *)
(* machine that runs the code, where a tree may end and which end the      *)
(* greedy and lazy signs ask for.                                          *)
(***************************************************************************)
EXTENDS RegexCode

CONSTANT Infinite  \* the max of {m,}

-------------------------------------------------------------------------------
\* Trees.
Char(c) == [t |-> "char", set |-> {c}]
CharRange(S) == [t |-> "char", set |-> S]
AnyChar == [t |-> "any"]
Begin == [t |-> "begin"]
End == [t |-> "end"]
LineBegin == [t |-> "line begin"]
LineEnd == [t |-> "line end"]
Star(e, lazy) == [t |-> "star", of |-> e, lazy |-> lazy]
Plus(e, lazy) == [t |-> "plus", of |-> e, lazy |-> lazy]
Quest(e, lazy) == [t |-> "quest", of |-> e, lazy |-> lazy]
FixCount(e, n) == [t |-> "fix", of |-> e, count |-> n]
Ahead(e, negative) == [t |-> "ahead", of |-> e, negative |-> negative]

\* A factor more in a cat, an alternative more in a branch.
InsertToNode(type, e, f) == [t |-> type, left |-> e, right |-> f]

\* One alternative of an expression, and the expression.
Cat(es) == FoldLeft(LAMBDA e, f : InsertToNode("cat", e, f), es[1], Tail(es))
Branch(es) == FoldLeft(LAMBDA e, f : InsertToNode("branch", e, f), es[1], Tail(es))

\* e{min,max}, which the parser admits if min <= max and 0 < max.
LoopCount(e, min, max, lazy) ==
  CASE max = Infinite /\ min = 0 -> Star(e, lazy)
    [] max = Infinite /\ min > 0 -> Cat(<<FixCount(e, min), Star(e, lazy)>>)
    [] max # Infinite /\ min = max -> FixCount(e, min)
    [] max # Infinite /\ min = 0 /\ max > 0 -> FixCount(Quest(e, lazy), max)
    [] OTHER -> Cat(<<FixCount(e, min), FixCount(Quest(e, lazy), max - min)>>)
-------------------------------------------------------------------------------
\* Code: a sequence of instructions, addressed from 1.  "branch" prefers left.
Fork(greedy, l, r) ==
  [op |-> "branch", left |-> IF greedy THEN l ELSE r, right |-> IF greedy THEN r ELSE l]

Jump(l) == [op |-> "jmp", left |-> l]

\* The code of a tree whose first instruction has the address `at`.
RECURSIVE EmitCode(_, _)
EmitCode(e, at) ==
  CASE e.t \in {"char", "any", "begin", "end", "line begin", "line end", "match"} ->
         <<[op |-> e.t] @@ e>>
    [] e.t = "cat" ->
         LET L == EmitCode(e.left, at) IN L \o EmitCode(e.right, at + Len(L))
    [] e.t = "branch" ->
         LET L == EmitCode(e.left, at + 1)
             R == EmitCode(e.right, at + Len(L) + 2)
         IN <<Fork(TRUE, at + 1, at + Len(L) + 2)>> \o L
              \o <<Jump(at + Len(L) + 2 + Len(R))>> \o R
    [] e.t = "star" ->
         LET L == EmitCode(e.of, at + 1)
         IN <<Fork(~e.lazy, at + 1, at + Len(L) + 2)>> \o L \o <<Jump(at)>>
    [] e.t = "quest" ->
         LET L == EmitCode(e.of, at + 1)
         IN <<Fork(~e.lazy, at + 1, at + Len(L) + 1)>> \o L
    [] e.t = "plus" ->
         LET L == EmitCode(e.of, at)
         IN L \o <<Fork(~e.lazy, at, at + Len(L) + 1)>>
    [] e.t = "fix" ->
         LET L == EmitCode(e.of, at + 1)
         IN <<[op |-> "loop begin", left |-> at + Len(L) + 2, count |-> e.count]>>
              \o L \o <<[op |-> "loop end"]>>
    [] e.t = "ahead" ->
         LET L == EmitCode(e.of, at + 1)
         IN <<[op |-> "ahead begin", left |-> at + Len(L) + 2, negative |-> e.negative]>>
              \o L \o <<[op |-> "ahead end"]>>

\* RGX_Compile of the tree Lex_InsertRule stores: the expression, then "final".
CompileTree(e) == EmitCode(InsertToNode("cat", e, [t |-> "match"]), 1)

-------------------------------------------------------------------------------
\* The character an expression asks for.  The characters here have no other case,
\* so LEX_IGNORE_CASE asks for no other.
Fits(e, c, flags) ==
  IF e.t = "char" THEN c \in e.set
  ELSE c \notin {EOT} \cup (IF "SINGLE_LINE" \in flags THEN {} ELSE {"CR", "LF"})

\* The reference: the positions at which e, begun at i, may end, in the order in
\* which trying the preferred way first and coming back to the others finds them.
RECURSIVE Ends(_, _, _, _)
Ends(e, text, flags, i) ==
  LET From(f, js) == FlattenSeq([k \in DOMAIN js |-> Ends(f, text, flags, js[k])])
      Once == Ends(e.of, text, flags, i)
      Further == SelectSeq(Once, LAMBDA j : j > i)
      OneOf(greedy, more, less) == IF greedy THEN more \o less ELSE less \o more
  IN CASE e.t \in {"char", "any"} ->
            IF Fits(e, CharAt(text, i), flags) THEN <<i + 1>> ELSE <<>>
       [] e.t \in {"begin", "end", "line begin", "line end"} ->
            IF Holds(e, text, i) THEN <<i>> ELSE <<>>
       [] e.t = "cat" -> From(e.right, Ends(e.left, text, flags, i))
       [] e.t = "branch" ->
            Ends(e.left, text, flags, i) \o Ends(e.right, text, flags, i)
       [] e.t = "star" -> OneOf(~e.lazy, From(e, Further), <<i>>)
       [] e.t = "quest" -> OneOf(~e.lazy, Once, <<i>>)
       [] e.t = "plus" -> From(Star(e.of, e.lazy), Once)
       [] e.t = "fix" ->
            IF e.count = 1 THEN Once ELSE From(FixCount(e.of, e.count - 1), Once)
       [] e.t = "ahead" -> IF (Once # <<>>) # e.negative THEN <<i>> ELSE <<>>

\* Expressions whose threads all advance one character a step.
RECURSIVE Lockstep(_)
Lockstep(e) ==
  \/ e.t \in {"char", "any"}
  \/ e.t \in {"cat", "branch"} /\ Lockstep(e.left) /\ Lockstep(e.right)
  \/ e.t \in {"star", "plus", "quest"} /\ Lockstep(e.of)

\* Expressions that are one thread all along.
RECURSIVE Single(_)
Single(e) ==
  \/ e.t \in {"char", "any", "begin", "end", "line begin", "line end"}
  \/ e.t = "cat" /\ Single(e.left) /\ Single(e.right)
  \/ e.t = "fix" /\ Single(e.of)
  \/ e.t = "ahead" /\ Lockstep(e.of)

\* Expressions for which the machine is claimed to find the first end.
RECURSIVE Exact(_)
Exact(e) ==
  \/ Lockstep(e) \/ Single(e)
  \/ e.t = "cat" /\ \/ Single(e.left) /\ Exact(e.right)
                    \/ Exact(e.left) /\ Single(e.right)

\* What a search for e at i may come to: an end, or 0 for none.
Found(e, text, flags, i) ==
  LET js == Ends(e, text, flags, i)
  IN IF Exact(e) THEN {IF js = <<>> THEN 0 ELSE js[1]} ELSE ToSet(js) \cup {0}
===============================================================================
