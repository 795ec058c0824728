----------------------------- MODULE LalrBuild -----------------------------
(***************************************************************************)
(* Parser_Create_LALR_State (lalr_build.c): how the automaton is built.    *)
(*                                                                         *)
(* __build_state and __build_goto call each other: a new state is inserted *)
(* into the set and its moves are built, depth first, before the next move *)
(* of the state it was reached from.  The stack holds the states whose     *)
(* __build_goto runs, each with the configurations it has not moved on yet *)
(* (is_completed).                                                         *)
(*                                                                         *)
(* Then __build_propagation_links links the configurations and sweeps over *)
(* all of them: every configuration that is not completed adds its follow  *)
(* set to those its forward links name.  Parser_UnionBitSet reports a      *)
(* change whenever the two sets DIFFER, not only when the target grew, so  *)
(* a configuration may be taken up again for nothing; that the sweeps      *)
(* still end is a property of the links.                                   *)
(***************************************************************************)
EXTENDS LRTable

CONSTANTS
  Grammars,  \* the grammars a table is built for
  Empty(_),  \* which nonterminals of a grammar derive the empty string
  First(_)   \* its First sets

ASSUME GrammarsAssumption == \A g \in Grammars : IsGrammar(g)

VARIABLES
  grammar,
  firstSet,   \* first_set: what is empty, and First
  set,        \* lalrStateSet_t: the states, each by its basis
  allConfig,  \* state->all_config
  stack,      \* the calls of __build_goto: [state, left]
  stage,      \* states, sweeps, done
  forward,    \* config->forward
  follow,     \* config->follow_set
  completed,  \* the configurations with is_completed
  cursor,     \* the place of the sweep: it goes on behind it
  changed     \* whether this sweep changed (or seemed to change) a set

automaton == <<set, allConfig, stack>>
lookaheads == <<forward, follow, completed, cursor, changed>>
buildVars == <<grammar, firstSet, stage, automaton, lookaheads>>

(* __build_goto is entered: no configuration has been moved on. *)
EnterGoto(n, items) ==
  [state |-> n, left |-> {it \in items : ~Completed(grammar, it)}]

(* A configuration is named by its state and its item; places are in order. *)
Places == UNION {{n} \X allConfig[n] : n \in DOMAIN set}
At(p)  == <<set[p[1]], p[2]>>
Behind(p, q) == p[1] > q[1] \/ (p[1] = q[1] /\ Before(q[2], p[2]))
FirstPlace   == <<0, [rule |-> 0, dot |-> 0]>>

BuildInit ==
  /\ grammar \in Grammars
  /\ firstSet = [empty |-> Empty(grammar), first |-> First(grammar)]
  /\ stage = "states"
  /\ set = <<StartKernel>> /\ allConfig = <<Closure(grammar, StartKernel)>>
  /\ stack = <<EnterGoto(1, Closure(grammar, StartKernel))>>
  /\ forward = <<>> /\ follow = <<>>
  /\ completed = {} /\ cursor = FirstPlace /\ changed = FALSE

-----------------------------------------------------------------------------
(* The call of __build_goto that runs, and the configuration it is at. *)
Building == stage = "states" /\ stack # <<>>
Call     == Last(stack)
IsNext(it) == \A j \in Call.left : ~Before(j, it)

(* Where a configuration moves to; all that move with it are done then. *)
Goto(it)   == Moved(grammar, allConfig[Call.state], OnSymb(grammar, it))
Marked(it) == [stack EXCEPT ![Len(stack)].left =
                 {j \in @ : OnSymb(grammar, j) # OnSymb(grammar, it)}]

(* Parser_FindStateByBasis finds the state the move leads to. *)
GotoFound(it) ==
  /\ IsNext(it) /\ Goto(it) \in ToSet(set)
  /\ stack' = Marked(it)
  /\ UNCHANGED <<grammar, firstSet, stage, set, allConfig, lookaheads>>

(* The move leads to a new state, whose moves are built first. *)
GotoNew(it) ==
  /\ IsNext(it) /\ Goto(it) \notin ToSet(set)
  /\ set' = Append(set, Goto(it))
  /\ allConfig' = Append(allConfig, Closure(grammar, Goto(it)))
  /\ stack' = Append(Marked(it), EnterGoto(Len(set) + 1, Closure(grammar, Goto(it))))
  /\ UNCHANGED <<grammar, firstSet, stage, lookaheads>>

(* __build_goto returns. *)
GotoReturns ==
  /\ Building /\ Call.left = {}
  /\ stack' = Front(stack)
  /\ UNCHANGED <<grammar, firstSet, stage, set, allConfig, lookaheads>>

(* The links are complete and nothing is propagated yet. *)
Link ==
  /\ stage = "states" /\ stack = <<>>
  /\ stage' = "sweeps"
  /\ LET all == {At(p) : p \in Places}
     IN  /\ forward' = [c \in all |-> Forward(grammar, firstSet.empty, c)]
         /\ follow'  = [c \in all |-> Generated(grammar, firstSet.empty, firstSet.first, c)]
  /\ UNCHANGED <<grammar, firstSet, automaton, completed, cursor, changed>>

-----------------------------------------------------------------------------
\* Mutant: any union counts as a change.
SeemsChangedAlways(src, dest) == src # {}

(* Parser_UnionBitSet's answer: the source has bits and the sets differ. *)
SeemsChanged(src, dest) == src # {} /\ src # dest

IsPending(p) == Behind(p, cursor) /\ At(p) \notin completed

Visit(p) ==
  /\ stage = "sweeps" /\ IsPending(p)
  /\ \A q \in Places : IsPending(q) => ~Behind(p, q)
  /\ LET again == {d \in forward[At(p)] : SeemsChanged(follow[At(p)], follow[d])}
     IN  /\ follow' = [d \in DOMAIN follow |->
                         IF d \in forward[At(p)] THEN follow[d] \cup follow[At(p)]
                         ELSE follow[d]]
         /\ completed' = (completed \ again) \cup {At(p)}
         /\ changed' = (changed \/ again # {})
  /\ cursor' = p
  /\ UNCHANGED <<grammar, firstSet, stage, automaton, forward>>

EndSweep ==
  /\ stage = "sweeps" /\ \A p \in Places : ~IsPending(p)
  /\ cursor' = FirstPlace /\ changed' = FALSE
  /\ stage' = IF changed THEN "sweeps" ELSE "done"
  /\ UNCHANGED <<grammar, firstSet, automaton, forward, follow, completed>>

BuildNext ==
  \/ Building /\ \E it \in Call.left : GotoFound(it) \/ GotoNew(it)
  \/ GotoReturns
  \/ Link
  \/ \E p \in Places : Visit(p)
  \/ EndSweep
BuildSpec == BuildInit /\ [][BuildNext]_buildVars
FairBuildSpec == BuildSpec /\ WF_buildVars(BuildNext)

-----------------------------------------------------------------------------
Competing(n, t) == Candidates(grammar, set, follow, n, t)

(* The action taken has the highest precedence, then associativity decides. *)
Decided(acts, assoc, head) ==
  LET top == {act \in ToSet(acts) : act.prec = head.prec}
  IN  head.type # "accept" =>
        /\ \A act \in ToSet(acts) : act.prec <= head.prec
        /\ (assoc = "left" /\ \E act \in top : act.type = "reduce") => head.type = "reduce"
        /\ (assoc = "right" /\ \E act \in top : act.type = "shift") => head.type = "shift"

(* Two actions that neither precedence nor associativity decides between. *)
Undecided(acts, assoc) ==
  LET best == {n \in DOMAIN acts : \A m \in DOMAIN acts : acts[m].prec <= acts[n].prec}
      reds == {n \in best : acts[n].type = "reduce"}
  IN  CASE assoc = "left"     -> \E i, j \in reds : i # j
        [] assoc = "right"    -> reds = best /\ \E i, j \in reds : i # j
        [] assoc = "nonassoc" -> \E i, j \in best : i # j

(***************************************************************************)
(* Conflict resolution, whatever the order the actions were inserted in:   *)
(* the action taken has the highest precedence of those that competed,     *)
(* unless the entry accepts, and associativity decides a shift against a   *)
(* reduction of the same precedence; and a conflict is reported for an     *)
(* entry (its list is longer than one) just when, at some moment of the    *)
(* insertion, two of the actions met so far had the highest precedence and *)
(* nothing decided between them: a later action may take the entry from    *)
(* both, what is reported stays.                                           *)
(***************************************************************************)
ConflictsResolved ==
  stage = "done" =>
    \A n \in DOMAIN set, t \in DOMAIN grammar.terms :
      LET acts  == Competing(n, t)
          assoc == grammar.terms[t].assoc
          list  == ActionList(grammar, acts, t)
      IN  /\ acts # <<>> => Decided(acts, assoc, Head(list))
          /\ (\A k \in DOMAIN acts : acts[k].type # "accept") =>
               (Len(list) > 1 <=>
                  \E k \in DOMAIN acts : Undecided(SubSeq(acts, 1, k), assoc))

(***************************************************************************)
(* "What has the higher precedence replaces what has the lower" (the       *)
(* comment before __insert_action_to_action_list): an entry that does not  *)
(* accept keeps, and reports as a conflict, nothing of lower precedence    *)
(* than the action it takes.                                               *)
(***************************************************************************)
HigherReplacesLower ==
  stage = "done" =>
    \A n \in DOMAIN set, t \in DOMAIN grammar.terms :
      LET list == ActionList(grammar, Competing(n, t), t) IN
        \A k \in DOMAIN list : list[1].type # "accept" => list[k].prec >= list[1].prec

(***************************************************************************)
(* Building a table ends: every move is built, then the sweeps reach one   *)
(* that changes nothing.                                                   *)
(***************************************************************************)
PropagationEnds == <>(stage = "done")

=============================================================================
