---------------------------- MODULE ParserTable ----------------------------
(***************************************************************************)
(* What parser.c relies on of the table it is given, by the configurations *)
(* of the states it was made from (all_config of lalrState_t, which the    *)
(* parser itself never reads).  A table is a record with                   *)
(*   rules    a sequence of [head, body]; rule 1 is augmented              *)
(*   terms    the terminals a client may add, EOI among them               *)
(*   action   [<<state, terminal>> -> [type, rule, to, count]]             *)
(*   goto     [<<state, nonterminal>> -> state, or 0 for none]             *)
(*   configs  [state -> its items, [rule, dot]]                            *)
(***************************************************************************)
EXTENDS Symbols, Naturals, Sequences

StartState == 1            \* state 0 of the code

StatesOf(l)  == DOMAIN l.configs
Symbols(l)   == l.terms \cup {ErrorT} \cup {l.rules[r].head : r \in DOMAIN l.rules}
Item(r, k)   == [rule |-> r, dot |-> k]
BodyOf(l, r) == l.rules[r].body

\* __build_goto: past their first symbol, a state holds the configurations
\* that moved on over X in the state before it, and no others.
MovesTo(l, s, X, to) ==
  /\ to \in StatesOf(l) \ {StartState}
  /\ \A it \in l.configs[to] :
       it.dot > 0 => /\ BodyOf(l, it.rule)[it.dot] = X
                     /\ Item(it.rule, it.dot - 1) \in l.configs[s]

\* __build_actions and __create_action_table.
ActionFits(l, s, t, act) ==
  /\ act.type \in {"shift", "reduce", "accept", "error"}
  /\ act.type = "shift" => MovesTo(l, s, t, act.to)
  /\ act.type = "reduce" => /\ act.rule \in DOMAIN l.rules \ {1}
                            /\ act.count = Len(BodyOf(l, act.rule))
                            /\ Item(act.rule, act.count) \in l.configs[s]
  /\ act.type = "accept" => t = EOI /\ Item(1, 1) \in l.configs[s]

\* __calc_lr0_closure: there is a goto for every head a state predicts.
ConfigFits(l, s, it) ==
  /\ it.rule \in DOMAIN l.rules /\ it.dot \in 0 .. Len(BodyOf(l, it.rule))
  /\ it = Item(it.rule, it.dot)
  /\ s = StartState => it.dot = 0
  /\ it = Item(1, 0) => s = StartState
  /\ it.dot = 0 /\ it.rule # 1 =>
       LET X == l.rules[it.rule].head IN MovesTo(l, s, X, l.goto[<<s, X>>])

TableFits(l) ==
  /\ EOI \in l.terms /\ ErrorT \notin l.terms
  /\ \A r \in DOMAIN l.rules : BodyOf(l, r) \in Seq(Symbols(l))
  /\ StartState \in StatesOf(l) /\ 0 \notin StatesOf(l)
  /\ \A s \in StatesOf(l) :
       /\ \A t \in l.terms \cup {ErrorT} : ActionFits(l, s, t, l.action[<<s, t>>])
       /\ \A it \in l.configs[s] : ConfigFits(l, s, it)

=============================================================================
