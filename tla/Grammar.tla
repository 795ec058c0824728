------------------------------ MODULE Grammar ------------------------------
(***************************************************************************)
(* Context-free grammars as src/Arsenal/Parser/grammar.c keeps them.       *)
(*                                                                         *)
(* A grammar is a record:                                                  *)
(*   rules  a sequence of [head, body, prec]; rule 1 is the augmented rule *)
(*          %Start -> S that Parser_SetStartRule fills in (rule_num 0)     *)
(*   terms  the term list: a function from a terminal's name to its        *)
(*          precedence and associativity; it always has EOI, error and the *)
(*          default-precedence symbol                                      *)
(* A symbol is a string; it is a terminal when the term list has it.       *)
(* "prec" is the terminal named by %prec, or NoPrec.                       *)
(***************************************************************************)
EXTENDS Symbols, Naturals, Sequences, FiniteSets

NoPrec == ""

BuiltInTerms ==
  [t \in {EOI, ErrorT, DefPrec} |-> [prec |-> 0, assoc |-> "nonassoc"]]

IsTerm(g, s)  == s \in DOMAIN g.terms
IsNonTerm(g, s) == \E r \in DOMAIN g.rules : g.rules[r].head = s
Heads(g)      == {g.rules[r].head : r \in DOMAIN g.rules}
RulesOf(g, A) == {r \in DOMAIN g.rules : g.rules[r].head = A}

\* Mutant: %prec is ignored.
RulePrecTokPlain(g, r) ==
  LET body  == g.rules[r].body
      terms == {k \in DOMAIN body : IsTerm(g, body[k])}
  IN  IF terms = {} THEN DefPrec
      ELSE body[CHOOSE k \in terms : \A j \in terms : j <= k]

(***************************************************************************)
(* The terminal a rule takes its precedence from: the one %prec names,     *)
(* else the rightmost terminal of the body, else the default symbol.       *)
(***************************************************************************)
RulePrecTok(g, r) ==
  LET body  == g.rules[r].body
      terms == {k \in DOMAIN body : IsTerm(g, body[k])}
  IN  CASE g.rules[r].prec # NoPrec -> g.rules[r].prec
        [] g.rules[r].prec = NoPrec /\ terms # {} ->
             body[CHOOSE k \in terms : \A j \in terms : j <= k]
        [] OTHER -> DefPrec

RulePrec(g, r) == g.terms[RulePrecTok(g, r)].prec

(***************************************************************************)
(* Every nonterminal a body names has a rule: what                         *)
(* Parser_CheckIsValidGrammar refuses otherwise.                           *)
(***************************************************************************)
IsValidGrammar(g) ==
  /\ Len(g.rules) >= 2
  /\ \A r \in DOMAIN g.rules : \A k \in DOMAIN g.rules[r].body :
       IsTerm(g, g.rules[r].body[k]) \/ IsNonTerm(g, g.rules[r].body[k])

(***************************************************************************)
(* What the operations of grammar.c leave of a grammar a table is built    *)
(* for: the augmented rule has one symbol and its head is the head of no   *)
(* other rule, no head is a terminal, and %prec names a terminal.  That no *)
(* body names %Start is the client's part: only heads are refused it.      *)
(***************************************************************************)
IsGrammar(g) ==
  /\ IsValidGrammar(g)
  /\ DOMAIN BuiltInTerms \subseteq DOMAIN g.terms
  /\ \A t \in DOMAIN g.terms : /\ g.terms[t].prec \in Nat
                              /\ g.terms[t].assoc \in {"nonassoc", "left", "right"}
  /\ Len(g.rules) \in Nat /\ DOMAIN g.rules = 1 .. Len(g.rules)
  /\ Len(g.rules[1].body) = 1
  /\ \A r \in DOMAIN g.rules :
       LET body == g.rules[r].body IN
         /\ body \in Seq(Heads(g) \cup DOMAIN g.terms)
         /\ \A k \in DOMAIN body : body[k] # Start
         /\ g.rules[r].head = Start <=> r = 1
         /\ ~IsTerm(g, g.rules[r].head)
         /\ g.rules[r].prec \in DOMAIN g.terms \cup {NoPrec}

-----------------------------------------------------------------------------
(* First of one symbol, given First of the nonterminals. *)
SymbFirst(g, first, s) == IF IsTerm(g, s) THEN {s} ELSE first[s]

(***************************************************************************)
(* First of a string of symbols: symbol k contributes when all the symbols *)
(* before it can be empty.                                                 *)
(***************************************************************************)
SeqFirst(g, empty, first, s) ==
  UNION {SymbFirst(g, first, s[k]) :
           k \in {k \in DOMAIN s : \A j \in 1 .. k - 1 : s[j] \in empty}}

(* What follows position k of a body. *)
After(body, k) == SubSeq(body, k + 1, Len(body))
AllEmpty(empty, s) == \A k \in DOMAIN s : s[k] \in empty

=============================================================================
