------------------------------ MODULE LRTable ------------------------------
(***************************************************************************)
(* The parser generator: the LR(0) automaton, the LALR(1) and SLR(1)       *)
(* lookaheads and the action table with its conflict resolution            *)
(* (src/Arsenal/Parser/lalr_build.c, lalr_config.c, lalr_state.c and       *)
(* lr_action.c).                                                           *)
(*                                                                         *)
(* An lalrConfig_t is an item [rule, dot]; a state is its basis (kernel),  *)
(* the set of items it was built from, since Parser_FindStateByBasis keeps *)
(* one state per basis.                                                    *)
(***************************************************************************)
EXTENDS Grammar, SequencesExt

StartKernel == {[rule |-> 1, dot |-> 0]}

Body(g, it)      == g.rules[it.rule].body
Completed(g, it) == it.dot = Len(Body(g, it))
OnSymb(g, it)    == Body(g, it)[it.dot + 1]
Advance(it)      == [it EXCEPT !.dot = @ + 1]

(* Parser_CompConfig: by rule, then by position. *)
Before(i, j) == i.rule < j.rule \/ (i.rule = j.rule /\ i.dot < j.dot)

(* Parser_SortConfigList: the configurations of a state in table order. *)
Sorted(items) ==
  [n \in 1 .. Cardinality(items) |->
     CHOOSE it \in items : Cardinality({j \in items : Before(j, it)}) = n - 1]

-----------------------------------------------------------------------------
(***************************************************************************)
(* __calc_lr0_closure, the items; its lookahead part is Generated below.   *)
(* A turn that adds something adds a rule's first item, so there are no    *)
(* more turns than rules.                                                  *)
(***************************************************************************)
PredictedBy(g, it) ==
  {[rule |-> r, dot |-> 0] :
     r \in IF Completed(g, it) THEN {} ELSE RulesOf(g, OnSymb(g, it))}
WithPredicted(g, items) == UNION {{it} \cup PredictedBy(g, it) : it \in items}

Closure(g, items) ==
  LET turns[n \in 0 .. Len(g.rules)] ==
        IF n = 0 THEN items ELSE WithPredicted(g, turns[n - 1])
  IN  turns[Len(g.rules)]

(* The symbols a set of items moves on, and the basis it moves to. *)
MovesOn(g, items) == {OnSymb(g, it) : it \in {it \in items : ~Completed(g, it)}}
Moved(g, items, X) ==
  {Advance(it) : it \in {it \in items : ~Completed(g, it) /\ OnSymb(g, it) = X}}

(***************************************************************************)
(* The configuration __build_goto meets first on a symbol: the one the     *)
(* shift action keeps, whose rule gives the shift its precedence.          *)
(***************************************************************************)
ShiftConfig(g, items, X) ==
  CHOOSE it \in items :
    /\ ~Completed(g, it) /\ OnSymb(g, it) = X
    /\ \A j \in items : ~Completed(g, j) /\ OnSymb(g, j) = X => ~Before(j, it)

-----------------------------------------------------------------------------
(***************************************************************************)
(* The configurations of the automaton, and between them the links along   *)
(* which follow sets are propagated: inside a state, from an item to those *)
(* its symbol predicts, when what comes after the symbol can be empty; and *)
(* between states, from an item to the item it moves to.                   *)
(***************************************************************************)
Configs(g, kernels) ==
  UNION {{<<K, it>> : it \in Closure(g, K)} : K \in kernels}

Rest(g, it) == After(Body(g, it), it.dot + 1)

\* Mutant: what can be empty after the symbol stops the link.
ForwardAtEnd(g, empty, c) ==
  LET it == c[2]
  IN  IF Completed(g, it) THEN {}
      ELSE {<<Moved(g, Closure(g, c[1]), OnSymb(g, it)), Advance(it)>>}
             \cup (IF Rest(g, it) = <<>>
                   THEN {<<c[1], [rule |-> r, dot |-> 0]>> :
                           r \in RulesOf(g, OnSymb(g, it))}
                   ELSE {})

\* Mutant: no links to the next state.
ForwardInside(g, empty, c) ==
  LET it == c[2]
  IN  IF Completed(g, it) \/ ~AllEmpty(empty, Rest(g, it)) THEN {}
      ELSE {<<c[1], [rule |-> r, dot |-> 0]>> : r \in RulesOf(g, OnSymb(g, it))}

Forward(g, empty, c) ==
  LET it == c[2]
  IN  IF Completed(g, it) THEN {}
      ELSE {<<Moved(g, Closure(g, c[1]), OnSymb(g, it)), Advance(it)>>}
             \cup (IF AllEmpty(empty, Rest(g, it))
                   THEN {<<c[1], [rule |-> r, dot |-> 0]>> :
                           r \in RulesOf(g, OnSymb(g, it))}
                   ELSE {})

(* The terminals the closure itself puts into a follow set, and EOI's place. *)
Generated(g, empty, first, c) ==
  (IF c = <<StartKernel, [rule |-> 1, dot |-> 0]>> THEN {EOI} ELSE {})
    \cup (IF c[2].dot # 0 THEN {}
          ELSE UNION {SeqFirst(g, empty, first, Rest(g, it)) :
                 it \in {it \in Closure(g, c[1]) :
                           /\ ~Completed(g, it)
                           /\ OnSymb(g, it) = g.rules[c[2].rule].head}})

-----------------------------------------------------------------------------
(***************************************************************************)
(* __insert_action_to_action_list: the list of actions of one table entry, *)
(* whose head is the action the parser takes and whose tail the conflicts  *)
(* that are reported.                                                      *)
(***************************************************************************)
AfterHead(list, act) == <<Head(list), act>> \o Tail(list)
\* Mutant: the higher precedence is put behind the lower.
OverwrittenNever(list, act) == AfterHead(list, act)
Overwritten(list, act) == <<act>> \o Tail(list)

InsertAction(list, act, assoc) ==
  IF list = <<>> THEN <<act>>
  ELSE LET curr == Head(list) IN
    CASE curr.type = "shift" /\ act.type = "shift" -> list
      [] curr.type = "accept"   -> AfterHead(list, act)
      [] OTHER ->
         CASE act.prec > curr.prec -> Overwritten(list, act)
           [] act.prec < curr.prec -> list
           [] act.prec = curr.prec /\ assoc = "nonassoc" ->
                IF curr.type # "shift" THEN <<act>> \o list ELSE AfterHead(list, act)
           [] act.prec = curr.prec /\ assoc = "left" ->
                CASE curr.type = "shift" /\ act.type = "reduce" -> Overwritten(list, act)
                  [] curr.type = "reduce" /\ act.type # "reduce" -> list
                  [] OTHER -> AfterHead(list, act)
           [] act.prec = curr.prec /\ assoc = "right" ->
                CASE curr.type = "reduce" /\ act.type = "shift" -> Overwritten(list, act)
                  [] curr.type = "shift" /\ act.type # "shift" -> list
                  [] OTHER -> AfterHead(list, act)

(***************************************************************************)
(* The actions that compete for one entry, in the order                    *)
(* __create_action_table meets them: the shift __build_goto recorded, then *)
(* the reductions __build_actions or __build_slr_actions appended.         *)
(***************************************************************************)
ShiftAction(g, items, to, t) ==
  LET r == ShiftConfig(g, items, t).rule
  IN  [type |-> "shift", rule |-> r, prec |-> RulePrec(g, r), to |-> to, count |-> 0]

ReduceAction(g, it) ==
  [type  |-> IF g.rules[it.rule].head = Start THEN "accept" ELSE "reduce",
   rule  |-> it.rule, prec |-> RulePrec(g, it.rule), to |-> 0,
   count |-> Len(Body(g, it))]

Candidates(g, states, follow, n, t) ==
  LET items == Closure(g, states[n])
      done  == Sorted({it \in items : Completed(g, it) /\ t \in follow[<<states[n], it>>]})
      shift == IF t \in MovesOn(g, items)
               THEN LET K == Moved(g, items, t)
                    IN  <<ShiftAction(g, items,
                            CHOOSE m \in DOMAIN states : states[m] = K, t)>>
               ELSE <<>>
  IN  shift \o [k \in DOMAIN done |-> ReduceAction(g, done[k])]

ActionList(g, acts, t) ==
  LET kept[n \in 0 .. Len(acts)] ==
        IF n = 0 THEN <<>> ELSE InsertAction(kept[n - 1], acts[n], g.terms[t].assoc)
  IN  kept[Len(acts)]

ErrorAction == [type |-> "error", rule |-> 0, prec |-> 0, to |-> 0, count |-> 0]

(***************************************************************************)
(* __create_action_table: the states, the action lists and the goto table. *)
(* A missing goto is 0 (-1 in the code).                                   *)
(***************************************************************************)
Table(g, states, follow) ==
  LET lists == [e \in (DOMAIN states) \X (DOMAIN g.terms) |->
                   ActionList(g, Candidates(g, states, follow, e[1], e[2]), e[2])]
  IN  [states |-> states,
       lists  |-> lists,
       action |-> [e \in DOMAIN lists |->
                     IF lists[e] = <<>> THEN ErrorAction ELSE Head(lists[e])],
       goto   |-> [e \in (DOMAIN states) \X Heads(g) |->
                     LET K == Moved(g, Closure(g, states[e[1]]), e[2])
                     IN  IF K = {} THEN 0
                         ELSE CHOOSE m \in DOMAIN states : states[m] = K]]

=============================================================================
