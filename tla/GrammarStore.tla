----------------------------- MODULE GrammarStore -----------------------------
(***************************************************************************)
(* How a grammar is built (src/Arsenal/Parser/grammar.c): terminals, rules *)
(* and the head the augmented rule derives are inserted one call at a time,*)
(* any allocation of a call may fail, and the symbols are objects that     *)
(* rules and terms share by counting references (symbol.c).                *)
(*                                                                         *)
(* A rule arrives as a string that is scanned into symbols, or as a list   *)
(* of symbols that the client made; the steps between are in "call".       *)
(* Parser_ClearGrammar makes a second grammar and swaps it in, so there    *)
(* are two while it runs.                                                  *)
(***************************************************************************)
EXTENDS Symbols, SequencesExt, FiniteSetsExt, Integers, FiniteSets

CONSTANTS
  Names,         \* names a program may give to terminals and nonterminals
  Values,        \* token values it may ask for
  MinTokenVal,   \* PARSER_MIN_TOKENVAL
  Slack,         \* how far the array of rules grows: 4 in the code
  MaxRules,      \* bound: rules a program inserts
  MaxBody        \* bound: symbols in the bodies of all rules

ASSUME StoreAssumption == Slack \in Nat \ {0} /\ Values \subseteq Nat

VARIABLES
  symbs,    \* the symbols alive: from objects to [name, type, refs]
  grammar,  \* the client's grammar: [open, terms, rules, cap, symb_list]
  fresh,    \* the one that Parser_CreateGrammar is filling
  call      \* locals of the call in progress

vars == <<symbs, grammar, fresh, call>>

NoName == ""
BuiltIns == <<[name |-> EOI, val |-> 0], [name |-> ErrorT, val |-> 3],
              [name |-> DefPrec, val |-> 4]>>
StartSymb == 1   \* PARSER_StartSymb, made once; the library holds it

NoGrammar == [open |-> FALSE, terms |-> <<>>, rules |-> <<>>, cap |-> 0, symb_list |-> {}]
NoRule == [head |-> 0, body |-> <<>>, prec |-> NoName]
Idle == [doing |-> "none", by |-> "str", head |-> 0, body |-> <<>>, rule |-> NoRule]
-------------------------------------------------------------------------------
(* Symbols: Parser_CreateSymb, Parser_CopyNewSymb, Parser_DestroySymb.     *)

\* Any object that is not in use will do. A program's symbols are numbered apart
\* from those of a new grammar, so that clearing one renumbers nothing.
Unused(least) == Min((least .. least + Cardinality(DOMAIN symbs)) \ DOMAIN symbs)
TermSymb == Unused(2)
NewSymb  == Unused(2 + 2 * Len(BuiltIns))

With(o, name, type) ==
  [x \in DOMAIN symbs \cup {o} |->
     IF x = o THEN [name |-> name, type |-> type, refs |-> 1] ELSE symbs[x]]
Created(name, type) == With(NewSymb, name, type)

Copied(m, o) == [m EXCEPT ![o].refs = @ + 1]

\* How many of the places of h hold the symbol o.
Count(h, o) == Cardinality({p \in DOMAIN h : h[p] = o})

\* Each place of h gives its symbol up, and the last one frees it.
Destroyed(m, h) == [o \in {o \in DOMAIN m : m[o].refs # Count(h, o)} |->
                      [m[o] EXCEPT !.refs = @ - Count(h, o)]]

SameSymb(o, p) == symbs[o].type = symbs[p].type /\ symbs[o].name = symbs[p].name

SymbAt(r, k) == IF k = 0 THEN r.head ELSE r.body[k]
RuleSymbs(r) == IF r.head = 0 THEN <<>> ELSE [k \in 0 .. Len(r.body) |-> SymbAt(r, k)]

\* Where a grammar holds symbols: <<0, k>> is its k-th term, <<i, 0>> the head of
\* rule i and <<i, k>> the k-th of its body. Searches visit them in this order.
Places(g) == {<<0, k>> : k \in DOMAIN g.terms}
               \cup UNION {{<<i, k>> : k \in 0 .. Len(g.rules[i].body)} : i \in DOMAIN g.rules}
Before(p, q) == p[1] < q[1] \/ (p[1] = q[1] /\ p[2] < q[2])

Held(g) == [p \in Places(g) |-> IF p[1] = 0 THEN g.terms[p[2]].term
                                            ELSE SymbAt(g.rules[p[1]], p[2])]
Locals == RuleSymbs([head |-> call.head, body |-> call.body])

TermNames == {symbs[grammar.terms[k].term].name : k \in DOMAIN grammar.terms}
TermValues == {grammar.terms[k].val : k \in DOMAIN grammar.terms}

PlacesOf(n) == {p \in Places(grammar) : symbs[Held(grammar)[p]].name = n}
FirstOf(n) ==
  Held(grammar)[CHOOSE p \in PlacesOf(n) : \A q \in PlacesOf(n) : ~Before(q, p)]

\* __insert_rule enlarges the array of rules when it is full.
Grown(cap) == (cap + Slack) * 2
-------------------------------------------------------------------------------
Init ==
  /\ symbs = [o \in {StartSymb} |-> [name |-> Start, type |-> "nonterm", refs |-> 1]]
  /\ grammar = NoGrammar
  /\ fresh = NoGrammar
  /\ call = Idle

(* Parser_CreateGrammar, on its own or, with a grammar open, for            *)
(* Parser_ClearGrammar: three terms and the augmented rule, or none of it.  *)
CreateGrammar ==
  /\ call = Idle
  /\ call' = [Idle EXCEPT !.doing = "create"]
  /\ fresh' = [NoGrammar EXCEPT !.open = TRUE]
  /\ UNCHANGED <<symbs, grammar>>

InitTerm ==
  LET b == BuiltIns[Len(fresh.terms) + 1]
  IN  /\ call.doing = "create" /\ Len(fresh.terms) < Len(BuiltIns)
      /\ symbs' = With(TermSymb, b.name, "term")
      /\ fresh' = [fresh EXCEPT !.terms = Append(@, [term |-> TermSymb, val |-> b.val])]
      /\ UNCHANGED <<grammar, call>>

InitStart ==
  /\ call.doing = "create" /\ Len(fresh.terms) = Len(BuiltIns)
  /\ symbs' = Destroyed(Copied(symbs, StartSymb), Held(grammar))
  /\ grammar' = [fresh EXCEPT !.rules = <<[head |-> StartSymb, body |-> <<>>,
                                           prec |-> DefPrec]>>,
                              !.cap = Grown(0)]
  /\ fresh' = NoGrammar
  /\ call' = Idle

CreateFails ==
  /\ call.doing = "create"
  /\ symbs' = Destroyed(symbs, Held(fresh))
  /\ fresh' = NoGrammar
  /\ call' = Idle
  /\ UNCHANGED grammar

DestroyGrammar ==
  /\ call = Idle /\ grammar.open
  /\ symbs' = Destroyed(symbs, Held(grammar))
  /\ grammar' = NoGrammar
  /\ UNCHANGED <<fresh, call>>

\* Mutant: a name that rules use as a nonterminal may become a terminal.
InsertTermUsed(n, v) ==
  /\ call = Idle /\ grammar.open
  /\ v >= MinTokenVal
  /\ n \notin TermNames /\ v \notin TermValues
  /\ symbs' = Created(n, "term")
  /\ grammar' = [grammar EXCEPT !.terms = Append(@, [term |-> NewSymb, val |-> v])]
  /\ UNCHANGED <<fresh, call>>

(* Parser_InsertTerm: refusals and failures leave all as it was. *)
InsertTerm(n, v) ==
  /\ call = Idle /\ grammar.open
  /\ v >= MinTokenVal
  /\ n \notin TermNames /\ v \notin TermValues
  /\ PlacesOf(n) = {}
  /\ symbs' = Created(n, "term")
  /\ grammar' = [grammar EXCEPT !.terms = Append(@, [term |-> NewSymb, val |-> v])]
  /\ UNCHANGED <<fresh, call>>
-------------------------------------------------------------------------------
(* Parser_InsertRuleByStr and Parser_InsertRuleBySymbList.                 *)

BodySymbs ==
  Len(call.body) + Cardinality({p \in Places(grammar) : p[1] > 1 /\ p[2] > 0})

BeginRule(by, head) ==
  /\ call = Idle /\ grammar.open
  /\ Len(grammar.rules) <= MaxRules
  /\ by = "str" => head # Start     \* no identifier has a '%'
  /\ symbs' = Created(head, "nonterm")
  /\ call' = [Idle EXCEPT !.doing = "scan", !.by = by, !.head = NewSymb]
  /\ UNCHANGED <<grammar, fresh>>

\* The scan asks the term list what a name is; a client decides by itself.
ScanSymb(n) ==
  /\ call.doing = "scan" /\ BodySymbs < MaxBody
  /\ \E type \in {"term", "nonterm"} :
       /\ call.by = "str" => (type = "term" <=> n \in TermNames)
       /\ symbs' = Created(n, type)
  /\ call' = [call EXCEPT !.body = Append(@, NewSymb)]
  /\ UNCHANGED <<grammar, fresh>>

\* In a list the client may use a symbol twice.
ShareSymb ==
  /\ call.doing = "scan" /\ call.by = "list" /\ BodySymbs < MaxBody
  /\ \E o \in ToSet(Locals) :
       /\ symbs' = Copied(symbs, o)
       /\ call' = [call EXCEPT !.body = Append(@, o)]
  /\ UNCHANGED <<grammar, fresh>>

\* What Parser_CreateRule accepts, and the precedence it gives the rule.
IsError(o) == symbs[o].name = ErrorT
Acceptable(head, body, asked) ==
  /\ symbs[head].name \notin TermNames
  /\ asked \in TermNames \cup {NoName}
  /\ \A k \in DOMAIN body :
       symbs[body[k]].type = "term" <=> symbs[body[k]].name \in TermNames
  /\ \A j, k \in DOMAIN body : IsError(body[j]) /\ IsError(body[k]) => j = k

PrecTok(body, asked) ==
  LET terms == {k \in DOMAIN body : symbs[body[k]].type = "term"}
  IN  CASE asked # NoName -> asked
        [] asked = NoName /\ terms # {} -> symbs[body[Max(terms)]].name
        [] OTHER -> DefPrec

CreateRule(asked) ==
  /\ call.doing = "scan"
  /\ Acceptable(call.head, call.body, asked)
  /\ symbs' = Copied(symbs, call.head)
  /\ call' = [call EXCEPT !.doing = "copy",
                !.rule = [head |-> call.head, body |-> <<>>,
                          prec |-> PrecTok(call.body, asked)]]
  /\ UNCHANGED <<grammar, fresh>>

CopySymb ==
  LET o == call.body[Len(call.rule.body) + 1]
  IN  /\ call.doing = "copy" /\ Len(call.rule.body) < Len(call.body)
      /\ symbs' = Copied(symbs, o)
      /\ call' = [call EXCEPT !.rule.body = Append(@, o)]
      /\ UNCHANGED <<grammar, fresh>>

\* A call that gives up destroys its rule and the symbols it or the client made.
GiveUp ==
  /\ symbs' = Destroyed(Destroyed(symbs, RuleSymbs(call.rule)), Locals)
  /\ call' = Idle
  /\ UNCHANGED <<grammar, fresh>>

\* The text is no rule, the rule is refused, or memory runs out.
CreateRuleFails == call.doing \in {"scan", "copy"} /\ GiveUp

\* END_POINT: the rule keeps its own references. A client drops its own later.
RuleCreated ==
  /\ call.doing = "copy" /\ Len(call.rule.body) = Len(call.body)
  /\ IF call.by = "str"
     THEN /\ symbs' = Destroyed(symbs, Locals)
          /\ call' = [call EXCEPT !.doing = "insert", !.head = 0, !.body = <<>>]
     ELSE /\ call' = [call EXCEPT !.doing = "insert"]
          /\ UNCHANGED symbs
  /\ UNCHANGED <<grammar, fresh>>
-------------------------------------------------------------------------------
(* Parser_InsertRule *)

Conflicts(r) ==
  \/ symbs[r.head].name = Start
  \/ \E k \in DOMAIN r.body :
       LET n == symbs[r.body[k]].name
       IN  PlacesOf(n) # {} /\ ~SameSymb(r.body[k], FirstOf(n))

\* The first rule is also where the augmented rule starts.
First == Len(grammar.rules) = 1
StartSet == IF First THEN [grammar EXCEPT !.rules[1].body = Append(@, call.rule.head)]
                     ELSE grammar
StartCopied == IF First THEN Copied(symbs, call.rule.head) ELSE symbs
IsFull == Len(grammar.rules) = grammar.cap

\* Mutant: a refused rule is not destroyed.
InsertRefusedKept ==
  /\ call.doing = "insert" /\ (Conflicts(call.rule) \/ First)
  /\ symbs' = Destroyed(symbs, Locals)
  /\ call' = Idle
  /\ UNCHANGED <<grammar, fresh>>

\* Refused, or there is no room for the start symbol.
InsertRefused == call.doing = "insert" /\ (Conflicts(call.rule) \/ First) /\ GiveUp

\* The array of rules is full and there is no memory for a larger one.
InsertFails ==
  /\ call.doing = "insert" /\ ~Conflicts(call.rule) /\ IsFull
  /\ grammar' = StartSet
  /\ symbs' = Destroyed(Destroyed(StartCopied, RuleSymbs(call.rule)), Locals)
  /\ call' = Idle
  /\ UNCHANGED fresh

InsertRule ==
  /\ call.doing = "insert" /\ ~Conflicts(call.rule)
  /\ grammar' = [StartSet EXCEPT !.rules = Append(@, call.rule),
                                 !.cap = IF IsFull THEN Grown(@) ELSE @]
  /\ symbs' = Destroyed(StartCopied, Locals)
  /\ call' = Idle
  /\ UNCHANGED fresh
-------------------------------------------------------------------------------
HeadsNamed(n) == {i \in DOMAIN grammar.rules : symbs[grammar.rules[i].head].name = n}

\* Mutant: the augmented rule gets a symbol of its own.
SetStartRuleAnew(n) ==
  /\ call = Idle /\ grammar.open
  /\ n \notin TermNames /\ n # Start /\ HeadsNamed(n) # {}
  /\ symbs' = Destroyed(Created(n, "nonterm"), grammar.rules[1].body)
  /\ grammar' = [grammar EXCEPT !.rules[1].body = <<NewSymb>>]
  /\ UNCHANGED <<fresh, call>>

SetStartRule(n) ==
  /\ call = Idle /\ grammar.open
  /\ n \notin TermNames /\ n # Start /\ HeadsNamed(n) # {}
  /\ LET i == CHOOSE i \in HeadsNamed(n) : \A j \in HeadsNamed(n) : i <= j
         lhs == grammar.rules[i].head
     IN  /\ symbs' = Destroyed(Copied(symbs, lhs), grammar.rules[1].body)
         /\ grammar' = [grammar EXCEPT !.rules[1].body = <<lhs>>]
  /\ UNCHANGED <<fresh, call>>

(* Parser_GetSymbList lends one object for each symbol, the first of its     *)
(* kind and name, and counts nothing.                                        *)
Lent == {Held(grammar)[p] : p \in
           {p \in Places(grammar) :
              \A q \in Places(grammar) :
                 Before(q, p) => ~SameSymb(Held(grammar)[q], Held(grammar)[p])}}

GetSymbList ==
  /\ call = Idle /\ grammar.open
  /\ grammar' = [grammar EXCEPT !.symb_list = Lent]
  /\ UNCHANGED <<symbs, fresh, call>>
-------------------------------------------------------------------------------
Next ==
  \/ CreateGrammar \/ InitTerm \/ InitStart \/ CreateFails \/ DestroyGrammar
  \/ \E n \in Names, v \in Values : InsertTerm(n, v)
  \/ \E by \in {"str", "list"}, head \in Names \cup {Start} : BeginRule(by, head)
  \/ \E n \in Names \cup {ErrorT} : ScanSymb(n)
  \/ ShareSymb
  \/ \E asked \in Names \cup {NoName} : CreateRule(asked)
  \/ CopySymb \/ CreateRuleFails \/ RuleCreated
  \/ InsertRefused \/ InsertFails \/ InsertRule
  \/ \E n \in Names : SetStartRule(n)
  \/ GetSymbList

Spec == Init /\ [][Next]_vars
-------------------------------------------------------------------------------
Objects == DOMAIN symbs
IsRule(r) == /\ r.head \in Objects
             /\ ToSet(r.body) \subseteq Objects
             /\ r.prec \in Names \cup {EOI, ErrorT, DefPrec}
IsGrammar(g) == /\ g.open \in BOOLEAN
                /\ \A k \in DOMAIN g.terms : /\ g.terms[k].term \in Objects
                                             /\ g.terms[k].val \in Values \cup {0, 3, 4}
                /\ \A i \in DOMAIN g.rules : IsRule(g.rules[i])
                /\ Len(g.rules) <= g.cap

\* The type invariant.
TypeOK ==
  /\ \A o \in Objects : symbs[o].refs \in Nat \ {0}
  /\ IsGrammar(grammar) /\ IsGrammar(fresh)
  /\ call.rule # NoRule => IsRule(call.rule)
  /\ ToSet(Locals) \subseteq Objects

\* The count of a symbol is the number of places that hold it, at every step of
\* every call: no failure leaks one or frees one that is in use.
Owners(o) ==
  (IF o = StartSymb THEN 1 ELSE 0) + Count(Held(grammar), o) + Count(Held(fresh), o)
    + Count(Locals, o) + Count(RuleSymbs(call.rule), o)
SymbolsOwned == \A o \in Objects : symbs[o].refs = Owners(o)

\* Parser_InsertRule and Parser_SetStartRule assert it: the augmented rule has a
\* body when there is a rule, however earlier insertions failed.
StartInStep ==
  grammar.open => Len(grammar.rules[1].body) = IF First THEN 0 ELSE 1

StoreInv == TypeOK /\ SymbolsOwned /\ StartInStep

\* The list of Parser_GetSymbList counts no reference, yet what it lends stays
\* alive while the grammar changes: later rules, terminals and start symbols.
BorrowedAlive == grammar.symb_list \subseteq ToSet(Held(grammar))
-------------------------------------------------------------------------------
Shown(r) == [head |-> symbs[r.head].name,
             body |-> [k \in DOMAIN r.body |-> [name |-> symbs[r.body[k]].name,
                                                type |-> symbs[r.body[k]].type]],
             prec |-> r.prec]
ValueOf(n) == (CHOOSE t \in ToSet(grammar.terms) : symbs[t.term].name = n).val

TermVal ==
  IF grammar.open THEN [n \in TermNames |-> ValueOf(n)]
  ELSE [n \in {b.name : b \in ToSet(BuiltIns)} |->
          (CHOOSE b \in ToSet(BuiltIns) : b.name = n).val]
RulesShown == [i \in 1 .. Len(grammar.rules) - 1 |-> Shown(grammar.rules[i + 1])]
StartName == IF grammar.open /\ grammar.rules[1].body # <<>>
             THEN symbs[grammar.rules[1].body[1]].name ELSE NoName

Promise == INSTANCE GrammarPromise WITH
  open <- grammar.open, termVal <- TermVal, rules <- RulesShown, start <- StartName

\* Each call has its whole effect or none, and no order of calls makes one name
\* a terminal and a nonterminal.
ImplementsGrammarPromise == Promise!GSpec
===============================================================================
