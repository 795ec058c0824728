---------------------------- MODULE LRGenerator ----------------------------
(***************************************************************************)
(* The table of a grammar computed in one go, for the parsers that use it  *)
(* and for comparison: Parser_CollectState numbers the states, the links   *)
(* propagate until nothing changes.                                        *)
(***************************************************************************)
EXTENDS LRTable, GrammarSets

(* The moves of a state in the order __build_goto inserts them. *)
MoveOrder(g, items) ==
  LET firsts == Sorted({ShiftConfig(g, items, X) : X \in MovesOn(g, items)})
  IN  [n \in DOMAIN firsts |-> OnSymb(g, firsts[n])]

(***************************************************************************)
(* Parser_CollectState: the states reachable from the start, breadth       *)
(* first; a state's number is its place in this sequence (from 1).         *)
(***************************************************************************)
RECURSIVE CollectFrom(_, _, _)
CollectFrom(g, found, n) ==
  IF n > Len(found) THEN found
  ELSE LET items == Closure(g, found[n])
           order == MoveOrder(g, items)
           Add(seen, X) == LET K == Moved(g, items, X)
                           IN  IF K \in ToSet(seen) THEN seen ELSE Append(seen, K)
       IN  CollectFrom(g, FoldLeft(Add, found, order), n + 1)

CollectState(g) == CollectFrom(g, <<StartKernel>>, 1)

(* What __build_propagation_links leaves in the follow sets. *)
RECURSIVE Propagate(_, _)
Propagate(fwd, follow) ==
  LET more == [c \in DOMAIN follow |->
                 follow[c] \cup UNION {follow[d] : d \in {d \in DOMAIN follow :
                                                            c \in fwd[d]}}]
  IN  IF more = follow THEN follow ELSE Propagate(fwd, more)

LALRFollow(g, kernels) ==
  LET empty == CanEmpty(g)
      first == FirstSet(g)
      all   == Configs(g, kernels)
  IN  Propagate([c \in all |-> Forward(g, empty, c)],
                [c \in all |-> Generated(g, empty, first, c)])

(* SLR: a completed item reduces on the Follow set of its head. *)
SLRFollow(g, kernels) ==
  LET follow == FollowSet(g)
  IN  [c \in Configs(g, kernels) |-> follow[g.rules[c[2].rule].head]]

LALRTable(g) ==
  LET states == CollectState(g) IN Table(g, states, LALRFollow(g, ToSet(states)))
SLRTable(g) ==
  LET states == CollectState(g) IN Table(g, states, SLRFollow(g, ToSet(states)))

=============================================================================
