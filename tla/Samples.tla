------------------------------ MODULE Samples ------------------------------
(***************************************************************************)
(* How the sample grammars of the MC modules are written down.             *)
(***************************************************************************)
EXTENDS LRGenerator, Derivation, TLC

R(head, body) == [head |-> head, body |-> body, prec |-> NoPrec]
Prec(p, a)    == [prec |-> p, assoc |-> a]
Plain(names)  == [t \in names |-> [prec |-> 0, assoc |-> "nonassoc"]]
AllEOI(g, n)  == {Append(s, "EOI") : s \in Language(g, n)[g.rules[1].body[1]]}
AddedTerms(g) == DOMAIN g.terms \ {"error", DefPrec, "NEG"}
AllRules(g)   == DOMAIN g.rules \ {1}
FirstKid(g)   == [r \in DOMAIN g.rules |-> 0]

=============================================================================
