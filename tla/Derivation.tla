----------------------------- MODULE Derivation -----------------------------
(***************************************************************************)
(* What the parser generator is compared with: the language of a grammar,  *)
(* from the definition of a derivation, and the LR(1) automaton, from its  *)
(* textbook definition.  Nothing here is translated from the code.         *)
(***************************************************************************)
EXTENDS GrammarSets

(* The strings of at most n terminals that a string of symbols spells. *)
RECURSIVE Spelled(_, _, _, _)
Spelled(g, lang, s, n) ==
  IF s = <<>> THEN {<<>>}
  ELSE LET heads == IF IsTerm(g, Head(s)) THEN {<<Head(s)>>} ELSE lang[Head(s)]
           tails == Spelled(g, lang, Tail(s), n)
       IN  {w \in {h \o t : h \in heads, t \in tails} : Len(w) <= n}

RECURSIVE LanguageFrom(_, _, _)
LanguageFrom(g, lang, n) ==
  LET more == [A \in Heads(g) |->
                 UNION {Spelled(g, lang, g.rules[r].body, n) : r \in RulesOf(g, A)}]
  IN  IF more = lang THEN lang ELSE LanguageFrom(g, more, n)

(* The sentences of at most n terminals of every nonterminal. *)
Language(g, n) == LanguageFrom(g, [A \in Heads(g) |-> {}], n)

-----------------------------------------------------------------------------
(***************************************************************************)
(* The canonical LR(1) collection: items with one lookahead each.          *)
(***************************************************************************)
NextSymb(g, it) == g.rules[it.rule].body[it.dot + 1]
AtEnd(g, it)    == it.dot = Len(g.rules[it.rule].body)

RECURSIVE Closure1(_, _, _, _)
Closure1(g, empty, first, items) ==
  LET Predicted(it) ==
        IF AtEnd(g, it) THEN {}
        ELSE LET rest == SubSeq(g.rules[it.rule].body, it.dot + 2,
                                Len(g.rules[it.rule].body))
                 las  == SeqFirst(g, empty, first, rest \o <<it.la>>)
             IN  {[rule |-> r, dot |-> 0, la |-> t] :
                    r \in RulesOf(g, NextSymb(g, it)), t \in las}
      more == items \cup UNION {Predicted(it) : it \in items}
  IN  IF more = items THEN items ELSE Closure1(g, empty, first, more)

Moved1(g, items, X) ==
  {[it EXCEPT !.dot = @ + 1] :
     it \in {it \in items : ~AtEnd(g, it) /\ NextSymb(g, it) = X}}

RECURSIVE Collection(_, _, _, _)
Collection(g, empty, first, sets) ==
  LET symbs == Heads(g) \cup DOMAIN g.terms
      nexts == {Closure1(g, empty, first, Moved1(g, I, X)) : I \in sets, X \in symbs}
      more  == sets \cup (nexts \ {{}})
  IN  IF more = sets THEN sets ELSE Collection(g, empty, first, more)

LR1Collection(g) ==
  LET empty == CanEmpty(g)
      first == FirstSet(g)
  IN  Collection(g, empty, first,
        {Closure1(g, empty, first, {[rule |-> 1, dot |-> 0, la |-> EOI]})})

(* The LR(0) core of a set of LR(1) items. *)
Core(I) == {[rule |-> it.rule, dot |-> it.dot] : it \in I}

(***************************************************************************)
(* LALR(1) by definition: the lookaheads of an item, over the LR(1) states *)
(* with the same core.                                                     *)
(***************************************************************************)
MergedLookaheads(collection, items, it) ==
  {i.la : i \in {i \in UNION {I \in collection : Core(I) = items} :
                   i.rule = it.rule /\ i.dot = it.dot}}

=============================================================================
