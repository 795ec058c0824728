----------------------------- MODULE LexerPromise -----------------------------
(***************************************************************************)
(* What Lex_Match promises its caller, by the expressions of the rules and *)
(* not by their code.                                                      *)
(***************************************************************************)
EXTENDS Lexer, Regex

\* What Lex_Match may answer at position i after n empty matches of rules to
\* skip, by the reference for what a rule matches.
RECURSIVE Scans(_, _)
Scans(i, n) ==
  LET On == {r \in DOMAIN progs : enable[r]}
      At(r) == Found(progs[r].expr, input, flags, i)
      Hits == {h \in On \X (1 .. Len(input) + 1) :
                 h[2] \in At(h[1]) /\ \A q \in On : q < h[1] => 0 \in At(q)}
      Outcome(a, v, j) == {[answer |-> a, value |-> v, at |-> i, to |-> j]}
      After(r, j) == CASE ~progs[r].skip -> Outcome("yes", progs[r].value, j)
                       [] progs[r].skip /\ j > i -> Scans(j, n)
                       [] progs[r].skip /\ j = i /\ n = 0 -> Scans(i, 1)
                       [] OTHER -> Outcome("empty match", 0, i)
  IN UNION {After(h[1], h[2]) : h \in Hits}
     \cup (IF \A r \in On : 0 \in At(r) THEN Outcome("no", 0, i) ELSE {})
     \cup Outcome("no memory", 0, i)

\* Every call of Lex_Match answers what the rules promise (match.c:626): the
\* token is of the first enabled rule, in the order of priority and insertion,
\* that matches behind what the rules to skip take; it is as long as its
\* expression prefers; a failed match stays where it failed, also one that ran
\* out of memory in the middle of a search, and every call after it is refused in
\* place until the error is cleared.
ScansAsPromised ==
  [][rule # 0 /\ rule' = 0 =>
       IF ~wasok \/ \A r \in DOMAIN progs : ~enable[r]
       THEN answer' = "not ready" /\ next' = from /\ is_ok' = wasok
       ELSE \E o \in Scans(from, 0) :
              /\ answer' = o.answer /\ next' = o.to /\ is_ok' = (o.answer \notin {"no", "no memory"})
              /\ o.answer = "yes" =>
                   /\ tok'.index = o.at /\ tok'.count = o.to - o.at
                   /\ tok'.value = o.value]_vars
===============================================================================
