------------------------------- MODULE MCLalr -------------------------------
(***************************************************************************)
(* Small grammars for LalrBuild: two nonterminals, each with two           *)
(* rules, empty ones and recursion to the left, to the right and through   *)
(* each other included; "x" and "y" with precedence and associativity.     *)
(***************************************************************************)
EXTENDS LalrReference, Samples

BodiesS == {<<"A">>, <<"A", "x">>, <<"x", "S">>, <<"S", "x">>, <<"A", "A">>,
            <<"A", "S">>, <<"x", "A", "y">>, <<"S", "y", "S">>, <<>>}
BodiesA == {<<>>, <<"x">>, <<"A", "x">>, <<"x", "A">>, <<"S">>, <<"S", "y">>}

Pairs(bodies) == {p \in bodies \X bodies : p[1] # p[2]}

AllGrammars ==
  {[rules |-> <<R(Start, <<"S">>), R("S", s[1]), R("S", s[2]), R("A", a[1]), R("A", a[2])>>,
    terms |-> BuiltInTerms @@ ("x" :> Prec(1, "left")) @@ ("y" :> Prec(1, "right"))]
     : s \in Pairs(BodiesS), a \in Pairs(BodiesA)}

(***************************************************************************)
(* The grammars whose nonterminals all derive some sentence.  The code     *)
(* accepts others, but their LR(1) automaton, which drops the items with   *)
(* no lookahead, has other cores than the LR(0) one.                       *)
(***************************************************************************)
RECURSIVE Productive(_, _)
Productive(g, known) ==
  LET more == {A \in Heads(g) : \E r \in RulesOf(g, A) :
                 \A k \in DOMAIN g.rules[r].body :
                   g.rules[r].body[k] \in known \cup DOMAIN g.terms}
  IN  IF more = known THEN known ELSE Productive(g, more)

SmallGrammars == {g \in AllGrammars : Productive(g, {}) = Heads(g)}

(* Three reductions in one entry, the last with the precedence of "y". *)
ThreeReductions ==
  {[rules |-> <<R(Start, <<"S">>), R("S", <<"A">>), R("S", <<"B">>), R("S", <<"C">>),
                R("A", <<"x">>), R("B", <<"x">>),
                [R("C", <<"x">>) EXCEPT !.prec = "y"]>>,
    terms |-> BuiltInTerms @@ ("x" :> Prec(0, "nonassoc")) @@ ("y" :> Prec(1, "left"))]}

=============================================================================
