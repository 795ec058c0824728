---------------------------- MODULE GrammarPromise ----------------------------
(***************************************************************************)
(* What the calls that build a grammar promise their callers: each takes   *)
(* effect at once or, when it refuses or runs out of memory, not at all.   *)
(* A name is a terminal or a nonterminal, never both, however the calls    *)
(* are ordered.                                                            *)
(***************************************************************************)
EXTENDS Symbols, Integers, Sequences

CONSTANTS MinTokenVal   \* PARSER_MIN_TOKENVAL: smaller ones are reserved

VARIABLES
  open,     \* the grammar exists
  termVal,  \* terminals: a function from their names to their token values
  rules,    \* its rules, the augmented one left out: [head, body, prec], the
            \* body a sequence of [name, type]
  start     \* the head the augmented rule derives, NoStart if there is none yet

gvars == <<open, termVal, rules, start>>

NoStart == ""

BuiltInVal == [t \in {EOI, ErrorT, DefPrec} |->
                 CASE t = EOI -> 0 [] t = ErrorT -> 3 [] t = DefPrec -> 4]

TermNames == DOMAIN termVal
NamesIn(r) == {r.head} \cup {r.body[k].name : k \in DOMAIN r.body}
AllNames == TermNames \cup {Start} \cup UNION {NamesIn(rules[i]) : i \in DOMAIN rules}
HeadNames == {rules[i].head : i \in DOMAIN rules}

KindsAgree(r) ==
  /\ r.head \notin TermNames
  /\ \A k \in DOMAIN r.body : (r.body[k].type = "term") = (r.body[k].name \in TermNames)

Errors(r) == {k \in DOMAIN r.body : r.body[k].name = ErrorT}

Acceptable(r) ==
  /\ KindsAgree(r)
  /\ r.head # Start
  /\ r.prec \in TermNames
  /\ \A j, k \in Errors(r) : j = k
-------------------------------------------------------------------------------
GInit ==
  /\ open = FALSE
  /\ termVal = BuiltInVal
  /\ rules = <<>>
  /\ start = NoStart

\* A new grammar, and one that was cleared, has the built-in terminals only.
Emptied == termVal' = BuiltInVal /\ rules' = <<>> /\ start' = NoStart

OpenGrammar == ~open /\ open' = TRUE /\ Emptied
ClearGrammar == open /\ UNCHANGED open /\ Emptied
CloseGrammar == open /\ open' = FALSE /\ Emptied

\* The term that a step adds is its only freedom; so is the rule below.
AddTerm ==
  /\ open
  /\ \E n \in DOMAIN termVal' \ TermNames :
       /\ n \notin AllNames
       /\ DOMAIN termVal' = TermNames \cup {n}
       /\ \A t \in TermNames : termVal'[t] = termVal[t] /\ termVal[t] # termVal'[n]
       /\ termVal'[n] \in Nat /\ termVal'[n] >= MinTokenVal
  /\ UNCHANGED <<open, rules, start>>

AddRule ==
  /\ open
  /\ Len(rules') = Len(rules) + 1
  /\ LET r == rules'[Len(rules')]
     IN  /\ rules' = Append(rules, r)
         /\ Acceptable(r)
         /\ start' = IF rules = <<>> THEN r.head ELSE start
  /\ UNCHANGED <<open, termVal>>

SetStart ==
  /\ open
  /\ start' \in HeadNames
  /\ UNCHANGED <<open, termVal, rules>>

GNext == OpenGrammar \/ ClearGrammar \/ CloseGrammar \/ AddTerm \/ AddRule \/ SetStart

GSpec == GInit /\ [][GNext]_gvars
-------------------------------------------------------------------------------
\* A name is a terminal everywhere or nowhere, so a symbol found by its name is
\* the symbol meant; no two terminals share a token value; each rule has the
\* precedence of a terminal that exists; and the augmented rule derives the head
\* of a rule.
OneKindPerName == \A i \in DOMAIN rules : KindsAgree(rules[i])
ValuesDistinct == \A s, t \in TermNames : termVal[s] = termVal[t] => s = t
PrecsExist == \A i \in DOMAIN rules : rules[i].prec \in TermNames
StartIsHead == IF rules = <<>> THEN start = NoStart ELSE start \in HeadNames

GrammarKept == OneKindPerName /\ ValuesDistinct /\ PrecsExist /\ StartIsHead
===============================================================================
