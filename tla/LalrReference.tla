--------------------------- MODULE LalrReference ---------------------------
(***************************************************************************)
(* LalrBuild compared with the LALR(1) and SLR(1) lookaheads by definition *)
(***************************************************************************)
EXTENDS LalrBuild, LRGenerator, Derivation

(***************************************************************************)
(* When the sweeps end, every follow set is the LALR(1) lookahead set of   *)
(* its item by definition: the union, over the canonical LR(1) states with *)
(* the same core, of the lookaheads of that item.  Nothing is missing (a   *)
(* legal sentence would be refused) and nothing is extra (a conflict would *)
(* be invented).  And it refines the SLR(1) set Parser_CalcFollowSet       *)
(* gives: both modes use one automaton, and SLR never reduces less.        *)
(* Parser_CollectState, which numbers the states of the table, finds the   *)
(* states there are.                                                       *)
(***************************************************************************)
FollowIsLALR ==
  stage = "done" =>
    LET collection == LR1Collection(grammar)
        slr == SLRFollow(grammar, ToSet(set))
    IN  /\ ToSet(CollectState(grammar)) = ToSet(set)
        /\ \A c \in DOMAIN follow :
             /\ follow[c] = MergedLookaheads(collection, Closure(grammar, c[1]), c[2])
             /\ Completed(grammar, c[2]) => follow[c] \subseteq slr[c]

=============================================================================
