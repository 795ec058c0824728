--------------------------------- MODULE Heap ---------------------------------
(***************************************************************************)
(* arHeap_t of Arsenal/Common/heap.c.  Small blocks are cut off the end of *)
(* a current page and recycled through one free list per size class.       *)
(* Medium blocks are carved out of pages whose blocks form a chain and     *)
(* whose free blocks form a free list; a page is in the list of pages with *)
(* room or in the list of full ones.  A large block has a page to itself.  *)
(*                                                                         *)
(* Sizes and offsets are in units of the alignment and include a block's   *)
(* header.  The doubly linked lists of pages and of free blocks are        *)
(* sequences; the chain of a page's blocks keeps its prev and next fields. *)
(* malloc may fail at any time: the call then returns NULL and has changed *)
(* nothing, which is a stuttering step.                                    *)
(***************************************************************************)
EXTENDS Integers, Sequences, FiniteSets, SequencesExt

CONSTANTS
  Pages,    \* the pages malloc can return
  Layouts   \* the sizes a program uses: records, as in HeapAssumption

ASSUME HeapAssumption ==
  /\ IsFiniteSet(Pages)
  /\ \A l \in Layouts :
       /\ l.units \in Nat \ {0}               \* data_size of a page of AR_PAGE_SIZE
       /\ l.small \subseteq 1..l.units         \* sizes of small blocks
       /\ l.smallest \in 1..l.units            \* AR_MEDIUM_SMALLEST_SIZE
       /\ l.medium \subseteq l.smallest..l.units
       /\ l.large \subseteq Nat \ {0}

VARIABLES
  layout,      \* the sizes of this program, which never change
  kind,        \* what each page is used for, "none" if it is not allocated
  extent,      \* page->data_size
  blk,         \* the blocks of each page, by the offset they start at
  freeList,    \* page->first_free and the next_free of its blocks
  largest,     \* page->largest_free
  smallFree,   \* small_first_free[]: for each size, freed blocks
  smallCur,    \* small_cur_page
  smallOff,    \* small_cur_page_offset
  smallUsed,   \* small_first_used_page and on
  mediumFree,  \* medium_first_free_page .. medium_last_free_page
  mediumUsed,  \* medium_first_used_page and on
  largeUsed,   \* large_first_used_page and on
  allocated,   \* page_allocated
  memUsed,     \* actual_mem_used
  moving,      \* the block AR_ReallocFromHeap has copied and must free
  open         \* FALSE once AR_DestroyHeap has run

pageVars == <<kind, extent, allocated, memUsed>>
smallVars == <<smallFree, smallCur, smallOff, smallUsed>>
mediumVars == <<freeList, largest, mediumFree, mediumUsed>>
vars == <<layout, pageVars, blk, smallVars, mediumVars, largeUsed, moving, open>>

PageUnits == layout.units
SmallSizes == layout.small
MediumSizes == layout.medium
LargeSizes == layout.large
Smallest == layout.smallest

Offsets == 0..(PageUnits - 1)
None == -1

\* mediumEntry_t.  A small block uses size and free only.
NoBlock == [size |-> 0, free |-> FALSE, prev |-> None, next |-> None]
UsedBlock(n) == [NoBlock EXCEPT !.size = n]
FreeBlock(n) == [NoBlock EXCEPT !.size = n, !.free = TRUE]
NoBlocks == [o \in Offsets |-> NoBlock]

Places == Pages \X Offsets
NoPlace == <<>>

Init ==
  \E p \in Pages :
    /\ layout \in Layouts
    /\ kind = [q \in Pages |-> IF q = p THEN "small" ELSE "none"]
    /\ extent = [q \in Pages |-> IF q = p THEN PageUnits ELSE 0]
    /\ blk = [q \in Pages |-> NoBlocks]
    /\ freeList = [q \in Pages |-> <<>>]
    /\ largest = [q \in Pages |-> 0]
    /\ smallFree = [n \in SmallSizes |-> <<>>]
    /\ smallCur = p
    /\ smallOff = 0
    /\ smallUsed = <<>>
    /\ mediumFree = <<>>
    /\ mediumUsed = <<>>
    /\ largeUsed = <<>>
    /\ allocated = 1
    /\ memUsed = PageUnits
    /\ moving = NoPlace
    /\ open = TRUE

Live(x) == blk[x[1]][x[2]].size > 0 /\ ~blk[x[1]][x[2]].free

\* AllocatePage: malloc returns some page that is not in use.
AllocatePage(p, k, n) ==
  /\ kind[p] = "none"
  /\ kind' = [kind EXCEPT ![p] = k]
  /\ extent' = [extent EXCEPT ![p] = n]
  /\ allocated' = allocated + 1
  /\ memUsed' = memUsed + n

\* Mutant: actual_mem_used keeps the size of the page.
FreePageStillUsed(p) ==
  /\ kind' = [kind EXCEPT ![p] = "none"]
  /\ extent' = [extent EXCEPT ![p] = 0]
  /\ allocated' = allocated - 1
  /\ UNCHANGED memUsed

FreePage(p) ==
  /\ kind' = [kind EXCEPT ![p] = "none"]
  /\ extent' = [extent EXCEPT ![p] = 0]
  /\ allocated' = allocated - 1
  /\ memUsed' = memUsed - extent[p]

-------------------------------------------------------------------------------
(* Small blocks.                                                            *)

\* SmallAllocate takes the block freed last among those of its size.
SmallReuse(n) ==
  /\ smallFree[n] # <<>>
  /\ LET x == Head(smallFree[n])
     IN blk' = [blk EXCEPT ![x[1]][x[2]].free = FALSE]
  /\ smallFree' = [smallFree EXCEPT ![n] = Tail(@)]
  /\ UNCHANGED <<pageVars, smallCur, smallOff, smallUsed, mediumVars, largeUsed>>

\* Mutant: small_cur_page_offset stays where it is.
SmallCutUnmoved(n) ==
  /\ smallFree[n] = <<>>
  /\ n <= extent[smallCur] - smallOff
  /\ blk' = [blk EXCEPT ![smallCur][smallOff] = UsedBlock(n)]
  /\ UNCHANGED <<pageVars, smallVars, mediumVars, largeUsed>>

\* ... or cuts one off the current page ...
SmallCut(n) ==
  /\ smallFree[n] = <<>>
  /\ n <= extent[smallCur] - smallOff
  /\ blk' = [blk EXCEPT ![smallCur][smallOff] = UsedBlock(n)]
  /\ smallOff' = smallOff + n
  /\ UNCHANGED <<pageVars, smallFree, smallCur, smallUsed, mediumVars, largeUsed>>

\* ... or retires that page, wasting its rest, and cuts one off a new page.
SmallNewPage(n) ==
  /\ smallFree[n] = <<>>
  /\ n > extent[smallCur] - smallOff
  /\ \E p \in Pages :
       /\ AllocatePage(p, "small", PageUnits)
       /\ blk' = [blk EXCEPT ![p] = [NoBlocks EXCEPT ![0] = UsedBlock(n)]]
       /\ smallUsed' = <<smallCur>> \o smallUsed
       /\ smallCur' = p
  /\ smallOff' = n
  /\ UNCHANGED <<smallFree, mediumVars, largeUsed>>

SmallAllocate(n) == SmallReuse(n) \/ SmallCut(n) \/ SmallNewPage(n)

SmallFree(x) ==
  /\ blk' = [blk EXCEPT ![x[1]][x[2]].free = TRUE]
  /\ smallFree' = [smallFree EXCEPT ![blk[x[1]][x[2]].size] = <<x>> \o @]
  /\ UNCHANGED <<pageVars, smallCur, smallOff, smallUsed, mediumVars, largeUsed>>

-------------------------------------------------------------------------------
(* Medium blocks.  The functions below work on the medium part of a page:  *)
(* its blocks b, its free list fl and its largest_free lg.                 *)

Unlink(s, x) == RemoveAt(s, CHOOSE i \in DOMAIN s : s[i] = x)

MediumPage(p) == [b |-> blk[p], fl |-> freeList[p], lg |-> largest[p]]
FreshPage == [b |-> [NoBlocks EXCEPT ![0] = FreeBlock(PageUnits)],
              fl |-> <<0>>, lg |-> PageUnits]

\* x.prev = e, where there is a block x.
Backlink(b, x, e) ==
  [o \in Offsets |-> IF o = x THEN [b[o] EXCEPT !.prev = e] ELSE b[o]]

\* MediumAllocDataFromPage: the end of the first free block becomes a block of
\* its own, and what remains of it is still the first free block ...
CutOff(pg, n) ==
  LET best == Head(pg.fl)
      rest == pg.b[best].size - n
      nw == best + rest
  IN [b |-> Backlink([pg.b EXCEPT
               ![best] = [@ EXCEPT !.size = rest, !.next = nw],
               ![nw] = [size |-> n, free |-> FALSE, prev |-> best, next |-> pg.b[best].next]],
               pg.b[best].next, nw),
      fl |-> pg.fl, lg |-> rest, at |-> nw]

\* ... or it is used up, and largest_free is 0 whatever else is free.
TakeAll(pg) ==
  LET best == Head(pg.fl)
  IN [b |-> [pg.b EXCEPT ![best].free = FALSE], fl |-> Tail(pg.fl),
      lg |-> 0, at |-> best]

MediumAllocDataFromPage(pg, n) ==
  IF pg.b[Head(pg.fl)].size >= n + Smallest THEN CutOff(pg, n) ELSE TakeAll(pg)

\* n units are carved out of page p of the list pages.  The page goes to the
\* front of that list, or to the used pages if it has no room left.
CarveFrom(p, pg, pages, n) ==
  LET new == MediumAllocDataFromPage(pg, n)
  IN /\ blk' = [blk EXCEPT ![p] = new.b]
     /\ freeList' = [freeList EXCEPT ![p] = new.fl]
     /\ largest' = [largest EXCEPT ![p] = new.lg]
     /\ IF new.lg < Smallest
        THEN /\ mediumFree' = Unlink(pages, p)
             /\ mediumUsed' = <<p>> \o mediumUsed
        ELSE /\ mediumFree' = <<p>> \o Unlink(pages, p)
             /\ UNCHANGED mediumUsed

HasRoom(i, n) == largest[mediumFree[i]] >= n

MediumAllocate(n) ==
  /\ \/ \* the first page of the list that has room
        \E i \in DOMAIN mediumFree :
          /\ HasRoom(i, n)
          /\ \A j \in 1..(i - 1) : ~HasRoom(j, n)
          /\ CarveFrom(mediumFree[i], MediumPage(mediumFree[i]), mediumFree, n)
          /\ UNCHANGED pageVars
     \/ \* no page has room: a new one at the front of the list
        /\ \A i \in DOMAIN mediumFree : ~HasRoom(i, n)
        /\ \E p \in Pages :
             /\ AllocatePage(p, "medium", PageUnits)
             /\ CarveFrom(p, FreshPage, <<p>> \o mediumFree, n)
  /\ UNCHANGED <<smallVars, largeUsed>>

\* Block d takes in e, which is next to it.
Absorb(b, d, e) ==
  Backlink([b EXCEPT ![d].size = @ + b[e].size, ![d].next = b[e].next, ![e] = NoBlock],
           b[e].next, d)

\* The first half of MediumFree: block e is merged into a free block before it,
\* or put in front of the free list.
MergeBefore(pg, e) ==
  LET d == pg.b[e].prev
  IN IF d # None /\ pg.b[d].free
     THEN [b |-> Absorb(pg.b, d, e), fl |-> pg.fl, at |-> d]
     ELSE [b |-> [pg.b EXCEPT ![e].free = TRUE], fl |-> <<e>> \o pg.fl, at |-> e]

\* Mutant: the merged block stays in the free list.
MergeBehindListed(pg) ==
  LET e == pg.at
      d == pg.b[e].next
  IN IF d # None /\ pg.b[d].free
     THEN [b |-> Absorb(pg.b, e, d), fl |-> pg.fl, at |-> e]
     ELSE pg

\* The second half: a free block behind it is merged into it.
MergeBehind(pg) ==
  LET e == pg.at
      d == pg.b[e].next
  IN IF d # None /\ pg.b[d].free
     THEN [b |-> Absorb(pg.b, e, d), fl |-> Unlink(pg.fl, d), at |-> e]
     ELSE pg

\* Mutant: the block grows where it is in the free list.
StayBehind(pg) ==
  [b |-> pg.b, fl |-> pg.fl, at |-> pg.at, lg |-> pg.b[Head(pg.fl)].size]

\* Last, a block larger than the first free one takes its place.
PutLargerFirst(pg) ==
  LET e == pg.at
      fl == IF pg.b[e].size > pg.b[Head(pg.fl)].size
            THEN <<e>> \o Unlink(pg.fl, e) ELSE pg.fl
  IN [b |-> pg.b, fl |-> fl, at |-> e, lg |-> pg.b[Head(fl)].size]

\* A page that had no room is linked to the end of the list of those that do;
\* one that is all free goes back to the system.
MediumFree(x) ==
  LET p == x[1]
      new == PutLargerFirst(MergeBehind(MergeBefore(MediumPage(p), x[2])))
      pages == IF largest[p] >= Smallest THEN mediumFree ELSE Append(mediumFree, p)
  IN /\ mediumUsed' = IF largest[p] >= Smallest THEN mediumUsed ELSE Unlink(mediumUsed, p)
     /\ IF new.b[new.at].size = extent[p]
        THEN /\ FreePage(p)
             /\ blk' = [blk EXCEPT ![p] = NoBlocks]
             /\ freeList' = [freeList EXCEPT ![p] = <<>>]
             /\ largest' = [largest EXCEPT ![p] = 0]
             /\ mediumFree' = Unlink(pages, p)
        ELSE /\ blk' = [blk EXCEPT ![p] = new.b]
             /\ freeList' = [freeList EXCEPT ![p] = new.fl]
             /\ largest' = [largest EXCEPT ![p] = new.lg]
             /\ mediumFree' = pages
             /\ UNCHANGED pageVars
     /\ UNCHANGED <<smallVars, largeUsed>>

-------------------------------------------------------------------------------
(* Large blocks.                                                            *)

LargeAllocate(n) ==
  /\ \E p \in Pages :
       /\ AllocatePage(p, "large", n)
       /\ blk' = [blk EXCEPT ![p][0] = UsedBlock(n)]
       /\ largeUsed' = <<p>> \o largeUsed
  /\ UNCHANGED <<smallVars, mediumVars>>

LargeFree(x) ==
  /\ largeUsed' = Unlink(largeUsed, x[1])
  /\ FreePage(x[1])
  /\ blk' = [blk EXCEPT ![x[1]] = NoBlocks]
  /\ UNCHANGED <<smallVars, mediumVars>>

-------------------------------------------------------------------------------
(* The interface.                                                           *)

\* The headers differ, so a medium block may take as many units as a large one.
AllocAs(k, n) ==
  \/ k = "small" /\ n \in SmallSizes /\ SmallAllocate(n)
  \/ k = "medium" /\ n \in MediumSizes /\ MediumAllocate(n)
  \/ k = "large" /\ n \in LargeSizes /\ LargeAllocate(n)

Alloc(n) == \E k \in {"small", "medium", "large"} : AllocAs(k, n)

\* The byte before the block tells AR_FreeToHeap where it came from.
Free(x) ==
  \/ kind[x[1]] = "small" /\ SmallFree(x)
  \/ kind[x[1]] = "medium" /\ MediumFree(x)
  \/ kind[x[1]] = "large" /\ LargeFree(x)

Idle == open /\ moving = NoPlace

AR_AllocFromHeap(n) ==
  /\ Idle
  /\ Alloc(n)
  /\ UNCHANGED <<moving, open>>

AR_FreeToHeap(x) ==
  /\ Idle
  /\ Live(x)
  /\ Free(x)
  /\ UNCHANGED <<moving, open>>

\* Block x may be too small for a request that takes n units as a block of kind k.
\* The rounding in SmallRealloc moves small blocks to others of the same size, and
\* LargeRealloc compares bytes.  A medium block with the room for a large request
\* stays where it is, which is a stuttering step.
Outgrows(x, k, n) ==
  LET size == blk[x[1]][x[2]].size
  IN \/ kind[x[1]] = "small" /\ (k = "small" => n >= size)
     \/ kind[x[1]] = "medium" /\ k # "small" /\ (k = "medium" => n > size)
     \/ kind[x[1]] = "large" /\ k = "large" /\ n >= size

\* AR_ReallocFromHeap does nothing when the block is large enough; otherwise it
\* allocates a new one, copies, and frees the old one.  If there is no memory for
\* it, the copy to NULL ends the program: no step of the model.
AR_ReallocFromHeap(x, n) ==
  /\ Idle
  /\ Live(x)
  /\ \E k \in {"small", "medium", "large"} : Outgrows(x, k, n) /\ AllocAs(k, n)
  /\ moving' = x
  /\ UNCHANGED open

ReallocFrees ==
  /\ moving # NoPlace
  /\ Free(moving)
  /\ moving' = NoPlace
  /\ UNCHANGED open

\* The pages AR_DestroyHeap finds by walking its lists.
Walk == <<smallCur>> \o smallUsed \o mediumFree \o mediumUsed \o largeUsed

\* The heap and all blocks in it are gone.
AR_DestroyHeap ==
  /\ Idle
  /\ kind' = [p \in Pages |-> IF p \in ToSet(Walk) THEN "none" ELSE kind[p]]
  /\ allocated' = allocated - Len(Walk)
  /\ memUsed' = memUsed - SumFunction([i \in DOMAIN Walk |-> extent[Walk[i]]])
  /\ open' = FALSE
  /\ UNCHANGED <<extent, blk, smallVars, mediumVars, largeUsed, moving>>

Next ==
  /\ \/ \E n \in SmallSizes \cup MediumSizes \cup LargeSizes :
          \/ AR_AllocFromHeap(n)
          \/ \E x \in Places : AR_ReallocFromHeap(x, n)
     \/ \E x \in Places : AR_FreeToHeap(x)
     \/ ReallocFrees
     \/ AR_DestroyHeap
  /\ UNCHANGED layout

Spec == Init /\ [][Next]_vars

-------------------------------------------------------------------------------
(* Properties.                                                             *)

PagesOf(k) == {p \in Pages : kind[p] = k}
Starts(p) == {o \in Offsets : blk[p][o].size > 0}
FreeStarts(p) == {o \in Starts(p) : blk[p][o].free}

\* The type of every field of arHeap_t, of its pages and of their blocks.
TypeOK ==
  /\ layout \in Layouts
  /\ kind \in [Pages -> {"none", "small", "medium", "large"}]
  /\ extent \in [Pages -> Nat]
  /\ blk \in [Pages -> [Offsets -> [size : Nat, free : BOOLEAN,
                                    prev : Offsets \cup {None},
                                    next : Offsets \cup {None}]]]
  /\ freeList \in [Pages -> Seq(Offsets)]
  /\ largest \in [Pages -> 0..PageUnits]
  /\ smallFree \in [SmallSizes -> Seq(Places)]
  /\ smallCur \in Pages
  /\ smallOff \in 0..PageUnits
  /\ {smallUsed, mediumFree, mediumUsed, largeUsed} \subseteq Seq(Pages)
  /\ allocated \in Nat
  /\ moving \in Places \cup {NoPlace}
  /\ open \in BOOLEAN

\* The blocks of a medium page fill it without gap or overlap, in the order of
\* their prev and next fields, and no two free ones are neighbours, whatever was
\* split and merged before.
Tiled ==
  \A p \in PagesOf("medium") :
    /\ 0 \in Starts(p) /\ blk[p][0].prev = None
    /\ \A o \in Starts(p) :
         LET end == o + blk[p][o].size
         IN \/ end = PageUnits /\ blk[p][o].next = None
            \/ /\ end \in Starts(p)
               /\ blk[p][o].next = end
               /\ blk[p][end].prev = o
    /\ \A o \in FreeStarts(p) : blk[p][o].next \notin FreeStarts(p)

\* The free list of a medium page holds its free blocks, each once; the page is
\* in the list that its largest_free says, by which MediumFree decides where to
\* unlink it from; and a page in the list of those with room can serve a request
\* for largest_free, as MediumAllocDataFromPage asserts.
FreeListExact ==
  \A p \in PagesOf("medium") :
    /\ IsInjective(freeList[p]) /\ ToSet(freeList[p]) = FreeStarts(p)
    /\ p \in ToSet(mediumFree) <=> largest[p] >= Smallest
    /\ p \in ToSet(mediumFree) => /\ freeList[p] # <<>>
                                  /\ largest[p] = blk[p][Head(freeList[p])].size
    /\ FreeStarts(p) # {0} \/ blk[p][0].size < PageUnits

\* The free lists of small blocks hold the freed ones, each once, by size, and
\* no block reaches past its page or the part of the current page handed out.
SmallListsExact ==
  /\ \A n \in SmallSizes :
       /\ IsInjective(smallFree[n])
       /\ ToSet(smallFree[n]) =
            {x \in Places : /\ kind[x[1]] = "small" /\ blk[x[1]][x[2]].free
                            /\ blk[x[1]][x[2]].size = n}
  /\ \A o \in Starts(smallCur) : o + blk[smallCur][o].size <= smallOff

\* Every page and every small block is accounted for: an allocated page is
\* linked in exactly one list, the one of its kind, page_allocated counts them,
\* and the free lists of small blocks are exact; after AR_DestroyHeap no page is
\* left and page_allocated is zero, as it asserts, even with blocks of every
\* kind still allocated.
PagesLinkedOnce ==
  /\ ~open => PagesOf("none") = Pages /\ allocated = 0
  /\ open =>
    /\ IsInjective(Walk)
    /\ ToSet(<<smallCur>> \o smallUsed) = PagesOf("small")
    /\ ToSet(mediumFree \o mediumUsed) = PagesOf("medium")
    /\ ToSet(largeUsed) = PagesOf("large")
    /\ allocated = Len(Walk)
    /\ SmallListsExact

\* A long sequence of allocations, reallocations and frees of every kind, in any
\* order, leaves the chains of blocks, the free lists, the page lists and the
\* count of pages in agreement.
HeapInv == TypeOK /\ Tiled /\ FreeListExact /\ PagesLinkedOnce

\* actual_mem_used is the size of the pages in use; zero, as AR_DestroyHeap
\* asserts, once it has run.
MemoryCounted ==
  memUsed = IF open THEN SumFunctionOnSet(extent, Pages) ELSE 0

\* A medium block that is freed can be had again without a new page: its page is
\* gone or offers a first block at least as large.
FreedIsOffered ==
  [][\A x \in Places :
       (kind[x[1]] = "medium" /\ Live(x) /\ ~Live(x)' /\ open') =>
          \/ kind[x[1]]' = "none"
          \/ /\ x[1] \in ToSet(mediumFree')
             /\ largest[x[1]]' >= blk[x[1]][x[2]].size]_vars

\* The blocks of callers never overlap and no call but their own free changes
\* them: the heap is an allocator in the sense of Allocator.
LiveRegions ==
  {[page |-> x[1], at |-> x[2], size |-> blk[x[1]][x[2]].size] :
     x \in {y \in Places : kind[y[1]] # "none" /\ Live(y)}}
Abstract == INSTANCE Allocator WITH live <- LiveRegions, Sizes <- Nat
ImplementsAllocator == Abstract!ASpec
===============================================================================
