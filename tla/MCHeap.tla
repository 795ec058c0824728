-------------------------------- MODULE MCHeap --------------------------------
(* Heap with every call of its interface, on a few pages of a few units.   *)
EXTENDS Heap, TLC

\* Blocks of two medium sizes, each page holding up to four.
Medium == [units |-> 13, small |-> {}, medium |-> {3, 4}, large |-> {}, smallest |-> 3]

\* Blocks of every kind, reallocated into one another; a large one takes no more
\* units than a medium one.
Mixed == [units |-> 4, small |-> {2, 3}, medium |-> {4}, large |-> {4}, smallest |-> 4]

MediumOrMixed == {Medium, Mixed}

\* No page differs from another: nothing is compared but equal or not.
SamePages == Permutations(Pages)
===============================================================================
