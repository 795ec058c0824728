------------------------------ MODULE Allocator -------------------------------
(***************************************************************************)
(* What a heap promises its callers: the regions they hold never overlap,  *)
(* and nothing but their own free or the end of the heap changes them.     *)
(***************************************************************************)
EXTENDS Integers

CONSTANTS Pages, Sizes

VARIABLE live    \* the regions callers hold: [page, at, size]

Regions == [page : Pages, at : Nat, size : Sizes]

Disjoint(r, s) ==
  \/ r.page # s.page
  \/ r.at + r.size <= s.at
  \/ s.at + s.size <= r.at

AInit == live = {}

Allocate(r) ==
  /\ \A s \in live : Disjoint(r, s)
  /\ live' = live \cup {r}

\* A region of live, released by its holder.
ReleaseOne == \E r \in live : live' = live \ {r}

\* The step that adds one region to live: what it adds is the only freedom.
AllocateOne ==
  /\ live \subseteq live'
  /\ \E r \in live' \ live : r \in Regions /\ Allocate(r)

ReleaseAll == live' = {}

ANext == AllocateOne \/ ReleaseOne \/ ReleaseAll

ASpec == AInit /\ [][ANext]_live
===============================================================================
