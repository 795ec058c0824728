------------------------------ MODULE HeapProofs ------------------------------
(* The chains of blocks, the free lists, the page lists and the page count of *)
(* a heap agree, its memory is counted exactly, and the heap implements       *)
(* Allocator, for any number of pages, any sizes and any sequence of calls.   *)
EXTENDS Heap, SeqLemmas

-------------------------------------------------------------------------------
(* The blocks of one page, by the offset they start at. *)
Entries == [size : Nat, free : BOOLEAN, prev : Offsets \cup {None}, next : Offsets \cup {None}]
Blocks == [Offsets -> Entries]

Used(b)   == {o \in DOMAIN b : b[o].size > 0}
FreeIn(b) == {o \in Used(b) : b[o].free}
LiveIn(b) == {o \in Used(b) : ~b[o].free}

\* No two blocks overlap, whether or not one is next to the other.
Apart(b) == \A o, q \in Used(b) : o < q => o + b[o].size <= q

\* The chain of a medium page of u units, none of whose blocks is below m.
Chain(u, m, b) ==
  /\ 0 \in Used(b) /\ b[0].prev = None
  /\ \A o \in Used(b) :
       /\ b[o].size >= m
       /\ \/ o + b[o].size = u /\ b[o].next = None
          \/ /\ o + b[o].size \in Used(b)
             /\ b[o].next = o + b[o].size
             /\ b[o + b[o].size].prev = o
       /\ o # 0 => b[o].prev \in Used(b) /\ b[b[o].prev].next = o
  /\ Apart(b)

\* No free block but those of X is followed by a free one.
NoTwoFree(b, X) == \A o \in FreeIn(b) \ X : b[o].next \notin FreeIn(b)

Listed(b, fl) == fl \in Seq(Offsets) /\ IsInjective(fl) /\ ToSet(fl) = FreeIn(b)

\* The callers' blocks in b1 are those in b, without those of gone, with those
\* of come, and as large.
Lives(b, b1, gone, come) ==
  /\ LiveIn(b1) = (LiveIn(b) \ gone) \cup come
  /\ \A o \in LiveIn(b) \ gone : b1[o].size = b[o].size

LEMMA Units ==
  ASSUME layout \in Layouts
  PROVE  /\ PageUnits \in Nat \ {0} /\ Smallest \in 1 .. PageUnits
         /\ SmallSizes \subseteq 1 .. PageUnits /\ MediumSizes \subseteq Smallest .. PageUnits
         /\ LargeSizes \subseteq Nat \ {0}
         /\ Offsets = 0 .. (PageUnits - 1) /\ 0 \in Offsets /\ None \notin Offsets
<1>1. /\ PageUnits \in Nat \ {0} /\ Smallest \in 1 .. PageUnits
      /\ SmallSizes \subseteq 1 .. PageUnits /\ MediumSizes \subseteq Smallest .. PageUnits
      /\ LargeSizes \subseteq Nat \ {0}
  BY HeapAssumption DEF PageUnits, Smallest, SmallSizes, MediumSizes, LargeSizes
<1>2. QED
  BY <1>1 DEF Offsets, None

LEMMA EntryIn ==
  ASSUME NEW n \in Nat, NEW f \in BOOLEAN,
         NEW p \in Offsets \cup {None}, NEW x \in Offsets \cup {None}
  PROVE  [size |-> n, free |-> f, prev |-> p, next |-> x] \in Entries
  BY DEF Entries

LEMMA ChainFacts ==
  ASSUME layout \in Layouts, NEW b \in Blocks, Chain(PageUnits, Smallest, b), NEW o \in Used(b)
  PROVE  /\ o \in Offsets /\ o \in Nat /\ b[o].size \in Nat \ {0} /\ o + b[o].size <= PageUnits
         /\ \/ b[o].next = None /\ o + b[o].size = PageUnits
            \/ /\ b[o].next \in Used(b) /\ b[o].next = o + b[o].size
               /\ b[b[o].next].prev = o
         /\ \/ b[o].prev = None /\ o = 0
            \/ b[o].prev \in Used(b) /\ b[b[o].prev].next = o
<1>1. /\ \A q \in Used(b) : q \in Offsets /\ q \in Nat /\ b[q].size \in Nat \ {0}
                            /\ q <= PageUnits - 1
      /\ PageUnits \in Nat
  BY Units DEF Blocks, Entries, Used
<1>2. /\ \/ o + b[o].size = PageUnits /\ b[o].next = None
         \/ /\ o + b[o].size \in Used(b)
            /\ b[o].next = o + b[o].size
            /\ b[o + b[o].size].prev = o
      /\ o # 0 => b[o].prev \in Used(b) /\ b[b[o].prev].next = o
      /\ b[0].prev = None
  BY DEF Chain
<1>3. QED
  BY <1>1, <1>2

-------------------------------------------------------------------------------
(* Carving a block out of a page. *)

\* What MediumAllocDataFromPage leaves of a page with blocks b.
Carved(b, new) ==
  /\ new.b \in Blocks /\ Chain(PageUnits, Smallest, new.b)
  /\ NoTwoFree(new.b, {}) /\ Listed(new.b, new.fl)
  /\ FreeIn(new.b) # {0} \/ new.b[0].size < PageUnits
  /\ new.lg \in 0 .. PageUnits
  /\ new.lg >= Smallest => new.fl # <<>> /\ new.lg = new.b[Head(new.fl)].size
  /\ new.at \in Offsets \ LiveIn(b) /\ Lives(b, new.b, {}, {new.at})

\* Blocks c are b with the last n units of the free block best cut off, at nw.
IsCut(b, c, best, nw, n) ==
  /\ c \in Blocks
  /\ c[best].size = nw - best /\ c[best].next = nw
  /\ c[nw].size = n /\ ~c[nw].free /\ c[nw].prev = best /\ c[nw].next = b[best].next
  /\ b[best].next \in Offsets => c[b[best].next].prev = nw
  /\ \A o \in Offsets \ {nw} :
       /\ c[o].free = b[o].free
       /\ o # best => c[o].size = b[o].size /\ c[o].next = b[o].next
       /\ o # b[best].next => c[o].prev = b[o].prev

LEMMA CutFields ==
  ASSUME layout \in Layouts, NEW b \in Blocks, NEW n \in Nat, NEW best \in Offsets,
         NEW rest \in Nat, NEW nw \in Offsets, nw = best + rest,
         NEW x \in Offsets \cup {None}, x = b[best].next, nw # best, x # nw, x # best
  PROVE  IsCut(b, Backlink([b EXCEPT ![best] = [@ EXCEPT !.size = rest, !.next = nw],
                                     ![nw] = [size |-> n, free |-> FALSE,
                                              prev |-> best, next |-> x]], x, nw), best, nw, n)
<1> DEFINE at  == [size |-> n, free |-> FALSE, prev |-> best, next |-> x]
           mid == [b EXCEPT ![best] = [@ EXCEPT !.size = rest, !.next = nw], ![nw] = at]
           c   == Backlink(mid, x, nw)
<1>1. at \in Entries
  BY EntryIn
<1>2. at.size = n /\ ~at.free /\ at.prev = best /\ at.next = x
  OBVIOUS
<1> HIDE DEF at
<1>3. /\ mid[nw] = at /\ mid[best] = [b[best] EXCEPT !.size = rest, !.next = nw]
      /\ \A o \in Offsets : o # nw /\ o # best => mid[o] = b[o]
  BY DEF Blocks
<1> HIDE DEF mid
<1>4. \A o \in Offsets : b[o] \in Entries
  BY DEF Blocks
<1>5. /\ mid[best] \in Entries /\ mid[best].size = rest /\ mid[best].next = nw
      /\ mid[best].prev = b[best].prev /\ mid[best].free = b[best].free
  BY <1>3, <1>4 DEF Entries
<1>6. \A o \in Offsets : mid[o] \in Entries
  BY <1>1, <1>3, <1>4, <1>5
<1>7. c = [o \in Offsets |-> IF o = x THEN [mid[o] EXCEPT !.prev = nw] ELSE mid[o]]
  BY DEF Backlink
<1> HIDE DEF c
<1>8. \A o \in Offsets :
        /\ c[o] \in Entries
        /\ c[o].size = mid[o].size /\ c[o].next = mid[o].next /\ c[o].free = mid[o].free
        /\ o = x => c[o].prev = nw
        /\ o # x => c[o].prev = mid[o].prev
  BY <1>6, <1>7 DEF Entries
<1>9. c \in Blocks
  BY <1>7, <1>8 DEF Blocks
<1>10. rest = nw - best
  BY DEF Offsets
<1>11. /\ c[best].size = nw - best /\ c[best].next = nw
       /\ c[nw].size = n /\ c[nw].prev = best /\ c[nw].next = x
       /\ x \in Offsets => c[x].prev = nw
  BY <1>2, <1>3, <1>5, <1>8, <1>10
<1>12. ~c[nw].free
  BY <1>2, <1>3, <1>8
<1>13. \A o \in Offsets \ {nw} :
        /\ c[o].free = b[o].free
        /\ o # best => c[o].size = b[o].size /\ c[o].next = b[o].next
        /\ o # x => c[o].prev = b[o].prev
  <2> TAKE o \in Offsets \ {nw}
  <2>1. /\ c[o].size = mid[o].size /\ c[o].next = mid[o].next /\ c[o].free = mid[o].free
        /\ o # x => c[o].prev = mid[o].prev
    BY <1>8
  <2>2. CASE o = best
    BY <1>5, <2>1, <2>2
  <2>3. CASE o # best
    BY <1>3, <2>1, <2>3
  <2>4. QED
    BY <2>2, <2>3
<1>14. IsCut(b, c, best, nw, n)
  BY <1>9, <1>11, <1>12, <1>13 DEF IsCut
<1>15. QED
  BY <1>14 DEF c, mid, at

LEMMA CutKeeps ==
  ASSUME layout \in Layouts, NEW b \in Blocks, NEW c, NEW best \in FreeIn(b), NEW nw \in Nat,
         NEW n \in Nat \ {0}, n >= Smallest, nw - best >= Smallest,
         nw + n = best + b[best].size, IsCut(b, c, best, nw, n),
         Chain(PageUnits, Smallest, b), NoTwoFree(b, {})
  PROVE  /\ nw \in Offsets \ Used(b)
         /\ FreeIn(c) = FreeIn(b) /\ LiveIn(c) = LiveIn(b) \cup {nw}
         /\ Chain(PageUnits, Smallest, c) /\ NoTwoFree(c, {})
         /\ c[0].size < PageUnits
         /\ \A o \in LiveIn(b) : c[o].size = b[o].size
<1> DEFINE x == b[best].next
           rest == nw - best
<1>1. /\ PageUnits \in Nat /\ Smallest \in Nat \ {0}
      /\ Offsets = 0 .. (PageUnits - 1) /\ None \notin Offsets
  BY Units
<1>2. \A o \in Used(b) : /\ o \in Offsets /\ o \in Nat /\ b[o].size \in Nat \ {0}
                         /\ o + b[o].size <= PageUnits /\ b[o].size >= Smallest
  BY ChainFacts DEF Chain
<1>3. best \in Used(b) /\ b[best].free /\ best \in Nat /\ best \in Offsets
  BY <1>2 DEF FreeIn
<1>4. \A u, v \in Used(b) : u < v => u + b[u].size <= v
  BY DEF Chain, Apart
<1>5. /\ rest \in Nat \ {0} /\ rest < b[best].size /\ nw = best + rest /\ best < nw /\ nw # 0
      /\ nw \in Offsets
  BY <1>1, <1>2, <1>3
<1>6. nw \notin Used(b)
  BY <1>2, <1>3, <1>4, <1>5
<1>7. \/ x = None /\ nw + n = PageUnits
      \/ x \in Used(b) /\ x = nw + n /\ b[x].prev = best
  BY <1>3, ChainFacts
<1>8. x # nw /\ x # best
  BY <1>1, <1>2, <1>3, <1>5, <1>6, <1>7
<1>9. /\ c \in Blocks /\ DOMAIN b = Offsets /\ DOMAIN c = Offsets
      /\ c[best].size = rest /\ c[best].next = nw
      /\ c[nw].size = n /\ ~c[nw].free /\ c[nw].prev = best /\ c[nw].next = x
      /\ x \in Offsets => c[x].prev = nw
      /\ \A o \in Offsets \ {nw} :
           /\ c[o].free = b[o].free
           /\ o # best => c[o].size = b[o].size /\ c[o].next = b[o].next
           /\ o # x => c[o].prev = b[o].prev
  BY DEF IsCut, Blocks
<1>10. \A o \in Used(b) : o \in Offsets \ {nw}
  BY <1>2, <1>6
<1> HIDE DEF x, rest
<1>11. Used(c) = Used(b) \cup {nw}
  <2>1. \A o \in Offsets : c[o].size > 0 <=> b[o].size > 0 \/ o = nw
    BY <1>2, <1>3, <1>5, <1>9
  <2>2. QED
    BY <1>5, <1>9, <2>1 DEF Used
<1>12. FreeIn(c) = FreeIn(b) /\ LiveIn(c) = LiveIn(b) \cup {nw}
  BY <1>6, <1>9, <1>10, <1>11 DEF FreeIn, LiveIn
<1>13. \A o \in Used(c) :
        \/ o + c[o].size = PageUnits /\ c[o].next = None
        \/ /\ o + c[o].size \in Used(c)
           /\ c[o].next = o + c[o].size
           /\ c[o + c[o].size].prev = o
  <2> TAKE o \in Used(c)
  <2>1. CASE o = best
    <3>1. c[o].size = rest /\ c[o].next = nw /\ c[nw].prev = o /\ o + rest = nw
      BY <1>5, <1>9, <2>1
    <3>2. nw \in Used(c)
      BY <1>11
    <3>3. o + c[o].size = nw
      BY <3>1
    <3>4. QED
      BY <3>1, <3>2, <3>3
  <2>2. CASE o = nw
    <3>1. c[o].size = n /\ c[o].next = x
      BY <1>9, <2>2
    <3>2. x \in Used(b) => c[x].prev = nw /\ x \in Used(c)
      BY <1>9, <1>10, <1>11
    <3>3. QED
      BY <1>7, <2>2, <3>1, <3>2
  <2>3. CASE o # best /\ o # nw
    <3>1. o \in Used(b) /\ c[o].size = b[o].size /\ c[o].next = b[o].next
      BY <1>9, <1>10, <1>11, <2>3
    <3>2. CASE b[o].next = None /\ o + b[o].size = PageUnits
      BY <3>1, <3>2
    <3>3. CASE /\ b[o].next \in Used(b) /\ b[o].next = o + b[o].size
               /\ b[b[o].next].prev = o
      <4>1. b[o].next # x
        BY <1>1, <1>7, <1>10, <2>3, <3>3
      <4>2. c[b[o].next].prev = o
        BY <1>9, <1>10, <3>3, <4>1 DEF x
      <4>3. QED
        BY <1>11, <3>1, <3>3, <4>2
    <3>4. QED
      BY <3>1, <3>2, <3>3, ChainFacts
  <2>4. QED
    BY <2>1, <2>2, <2>3
<1>14. \A o \in Used(c) : o # 0 => c[o].prev \in Used(c) /\ c[c[o].prev].next = o
  <2> SUFFICES ASSUME NEW o \in Used(c), o # 0
               PROVE  c[o].prev \in Used(c) /\ c[c[o].prev].next = o
    OBVIOUS
  <2>1. CASE o = x
    <3>1. c[o].prev = nw /\ c[nw].next = x
      BY <1>9, <1>5, <1>7, <1>10, <1>11, <2>1
    <3>2. QED
      BY <1>11, <2>1, <3>1
  <2>2. CASE o = nw
    BY <1>3, <1>9, <1>11, <2>2
  <2>3. CASE o # x /\ o # nw
    <3>1. o \in Used(b) /\ c[o].prev = b[o].prev
      BY <1>9, <1>10, <1>11, <2>3
    <3>2. b[o].prev \in Used(b) /\ b[b[o].prev].next = o
      BY <3>1 DEF Chain
    <3>3. b[o].prev # best
      BY <2>3, <3>2 DEF x
    <3>4. c[b[o].prev].next = o
      BY <1>9, <1>10, <3>2, <3>3
    <3>5. QED
      BY <1>11, <3>1, <3>2, <3>4
  <2>4. QED
    BY <2>1, <2>2, <2>3
<1>15. Apart(c)
  <2> SUFFICES ASSUME NEW o \in Used(c), NEW q \in Used(c), o < q PROVE o + c[o].size <= q
    BY DEF Apart
  <2>1. o \in Offsets /\ q \in Offsets /\ o \in Nat /\ q \in Nat
    BY <1>2, <1>5, <1>11
  <2>2. CASE o = nw
    <3>1. q \in Used(b) /\ best < q /\ c[o].size = n
      BY <1>3, <1>5, <1>9, <1>11, <2>1, <2>2
    <3>2. best + b[best].size <= q
      BY <1>3, <1>4, <3>1
    <3>3. QED
      BY <1>3, <2>1, <2>2, <3>1, <3>2
  <2>3. CASE o = best
    <3>1. c[o].size = rest /\ o + rest = nw
      BY <1>5, <1>9, <2>3
    <3>2. CASE q = nw
      BY <2>1, <2>3, <3>1, <3>2
    <3>3. CASE q # nw
      <4>1. best + b[best].size <= q
        BY <1>3, <1>4, <1>11, <2>3, <3>3
      <4>2. best + rest <= best + b[best].size
        BY <1>2, <1>3, <1>5
      <4>3. QED
        BY <1>2, <1>3, <1>5, <2>1, <2>3, <3>1, <4>1, <4>2
    <3>4. QED
      BY <3>2, <3>3
  <2>4. CASE o # nw /\ o # best
    <3>1. o \in Used(b) /\ c[o].size = b[o].size /\ b[o].size \in Nat
      BY <1>2, <1>9, <1>11, <2>1, <2>4
    <3>2. CASE q # nw
      BY <1>4, <1>11, <3>1, <3>2
    <3>3. CASE q = nw
      <4>1. o < best
        <5>1. best < o => best + b[best].size <= o
          BY <1>3, <1>4, <3>1
        <5>2. nw < best + b[best].size /\ o < nw
          BY <1>2, <1>3, <1>5, <3>3
        <5>3. QED
          BY <1>2, <1>3, <2>1, <2>4, <5>1, <5>2
      <4>2. o + b[o].size <= best
        BY <1>3, <1>4, <3>1, <4>1
      <4>3. QED
        BY <1>3, <1>5, <2>1, <3>1, <3>3, <4>2
    <3>4. QED
      BY <3>2, <3>3
  <2>5. QED
    BY <2>2, <2>3, <2>4
<1>16. 0 \in Used(c) /\ c[0].prev = None
  <2>1. 0 \in Used(b) /\ b[0].prev = None
    BY DEF Chain
  <2>2. 0 # x
    BY <1>5, <1>7, <1>1
  <2>3. QED
    BY <1>9, <1>10, <1>11, <2>1, <2>2
<1>17. \A o \in Used(c) : c[o].size >= Smallest
  <2> TAKE o \in Used(c)
  <2>1. CASE o = nw
    BY <1>9, <2>1
  <2>2. CASE o = best
    BY <1>9, <2>2 DEF rest
  <2>3. CASE o # nw /\ o # best
    BY <1>2, <1>9, <1>10, <1>11, <2>3
  <2>4. QED
    BY <2>1, <2>2, <2>3
<1>18. Chain(PageUnits, Smallest, c)
  BY <1>13, <1>14, <1>15, <1>16, <1>17 DEF Chain
<1>19. NoTwoFree(c, {})
  <2> SUFFICES ASSUME NEW o \in FreeIn(c) PROVE c[o].next \notin FreeIn(c)
    BY DEF NoTwoFree
  <2>1. o \in FreeIn(b) /\ o \in Used(b) /\ b[o].next \notin FreeIn(b)
    BY <1>12 DEF NoTwoFree, FreeIn
  <2>2. nw \notin FreeIn(b)
    BY <1>6 DEF FreeIn
  <2>3. c[o].next = nw \/ c[o].next = b[o].next
    BY <1>9, <1>10, <2>1
  <2>4. QED
    BY <1>12, <2>1, <2>2, <2>3
<1>20. c[0].size < PageUnits
  <2>1. 0 \in Used(b) /\ 0 # nw /\ 0 \in Offsets
    BY <1>2, <1>5 DEF Chain
  <2>2. CASE best = 0
    <3>1. c[0].size = rest /\ rest < b[0].size /\ b[0].size <= PageUnits
      BY <1>1, <1>2, <1>5, <1>9, <2>1, <2>2
    <3>2. QED
      BY <1>1, <1>2, <1>5, <2>1, <3>1
  <2>3. CASE best # 0
    <3>1. 0 < best /\ c[0].size = b[0].size
      BY <1>3, <1>9, <2>1, <2>3
    <3>2. 0 + b[0].size <= best
      BY <1>3, <1>4, <2>1, <3>1
    <3>3. best + b[best].size <= PageUnits /\ b[best].size \in Nat \ {0} /\ b[0].size \in Nat
      BY <1>2, <1>3, <2>1
    <3>4. QED
      BY <1>1, <1>3, <3>1, <3>2, <3>3
  <2>4. QED
    BY <2>2, <2>3
<1>21. \A o \in LiveIn(b) : c[o].size = b[o].size
  <2>1. \A o \in LiveIn(b) : o \in Used(b) /\ o # best
    BY <1>3 DEF LiveIn
  <2>2. QED
    BY <1>9, <1>10, <2>1
<1>22. QED
  BY <1>5, <1>6, <1>12, <1>18, <1>19, <1>20, <1>21

\* A page that MediumAllocDataFromPage may be called on for n units.
CanServe(b, fl, n) ==
  /\ b \in Blocks /\ Chain(PageUnits, Smallest, b)
  /\ NoTwoFree(b, {}) /\ Listed(b, fl)
  /\ fl # <<>> /\ b[Head(fl)].size >= n

LEMMA CutOffOK ==
  ASSUME layout \in Layouts, NEW b, NEW fl, NEW lg,
         NEW n \in Nat \ {0}, n >= Smallest,
         CanServe(b, fl, n), b[Head(fl)].size >= n + Smallest
  PROVE  Carved(b, CutOff([b |-> b, fl |-> fl, lg |-> lg], n))
<1> DEFINE new  == CutOff([b |-> b, fl |-> fl, lg |-> lg], n)
           best == Head(fl)
           rest == b[best].size - n
           nw   == best + rest
           x    == b[best].next
           c    == Backlink([b EXCEPT ![best] = [@ EXCEPT !.size = rest, !.next = nw],
                                      ![nw] = [size |-> n, free |-> FALSE,
                                               prev |-> best, next |-> x]], x, nw)
<1>1. /\ b \in Blocks /\ Chain(PageUnits, Smallest, b) /\ NoTwoFree(b, {}) /\ Listed(b, fl)
      /\ fl # <<>> /\ best \in FreeIn(b) /\ best \in Used(b)
  BY TailFacts DEF CanServe, Listed, FreeIn
<1>2. /\ PageUnits \in Nat /\ Smallest \in Nat \ {0}
      /\ Offsets = 0 .. (PageUnits - 1) /\ None \notin Offsets
  BY Units
<1>3. /\ best \in Offsets /\ best \in Nat /\ b[best].size \in Nat \ {0}
      /\ best + b[best].size <= PageUnits
      /\ x = None \/ (x \in Used(b) /\ x = best + b[best].size)
  BY <1>1, ChainFacts
<1> DEFINE size == b[best].size
<1>s. size \in Nat \ {0} /\ best + size <= PageUnits /\ size >= n + Smallest /\ best \in Nat
  BY <1>3
<1> HIDE DEF size, best
<1>4. /\ rest \in Nat /\ rest >= Smallest /\ rest <= PageUnits /\ rest < b[best].size
      /\ nw \in Nat /\ nw \in Offsets
      /\ best < nw /\ nw - best >= Smallest /\ nw + n = best + b[best].size
      /\ nw < best + b[best].size /\ nw - best = rest
  <2>1. rest = size - n
    BY DEF size
  <2>2. rest \in Nat /\ rest >= Smallest /\ rest <= PageUnits /\ rest < size
    BY <1>2, <1>s, <2>1
  <2> HIDE DEF rest
  <2>3. /\ nw \in Nat /\ nw <= PageUnits - 1 /\ best < nw /\ nw - best >= Smallest
        /\ nw + n = best + size /\ nw < best + size /\ nw - best = rest
    BY <1>2, <1>s, <2>1, <2>2
  <2>4. QED
    BY <1>2, <2>2, <2>3 DEF size
<1> HIDE DEF nw, x, rest
<1>5. x \in Offsets \cup {None} /\ x # nw /\ x # best /\ nw # best
  <2>1. CASE x = None
    BY <1>2, <1>3, <1>4, <2>1
  <2>2. CASE x \in Used(b) /\ x = best + b[best].size
    BY <1>1, <1>3, <1>4, <2>2, ChainFacts
  <2>3. QED
    BY <1>3, <2>1, <2>2
<1>6. new.b = c /\ new.fl = fl /\ new.lg = rest /\ new.at = nw
  BY DEF CutOff, best, nw, x, rest
<1> HIDE DEF new, c
<1>7. IsCut(b, c, best, nw, n)
  BY <1>1, <1>3, <1>4, <1>5, CutFields DEF c, x, nw
<1>8. /\ nw \in Offsets \ Used(b)
      /\ FreeIn(c) = FreeIn(b) /\ LiveIn(c) = LiveIn(b) \cup {nw}
      /\ Chain(PageUnits, Smallest, c) /\ NoTwoFree(c, {})
      /\ c[0].size < PageUnits
      /\ \A o \in LiveIn(b) : c[o].size = b[o].size
  BY <1>1, <1>4, <1>7, CutKeeps
<1>9. c \in Blocks /\ c[best].size = rest /\ c[nw].size = n
  BY <1>4, <1>7 DEF IsCut
<1>10. Listed(c, fl) /\ Lives(b, c, {}, {nw}) /\ nw \in Offsets \ LiveIn(b)
  BY <1>1, <1>8 DEF Listed, Lives, LiveIn
<1>11. rest \in 0 .. PageUnits
  BY <1>2, <1>4
<1>12. QED
  BY <1>1, <1>6, <1>8, <1>9, <1>10, <1>11 DEF Carved, new, best

LEMMA TakeAllOK ==
  ASSUME layout \in Layouts, NEW b, NEW fl, NEW lg, NEW n \in Nat \ {0}, CanServe(b, fl, n)
  PROVE  Carved(b, TakeAll([b |-> b, fl |-> fl, lg |-> lg])) /\ b[Head(fl)].size >= n
<1> DEFINE new  == TakeAll([b |-> b, fl |-> fl, lg |-> lg])
           best == Head(fl)
           c    == [b EXCEPT ![best].free = FALSE]
<1>1. /\ b \in Blocks /\ Chain(PageUnits, Smallest, b) /\ NoTwoFree(b, {})
      /\ fl \in Seq(Offsets) /\ IsInjective(fl) /\ ToSet(fl) = FreeIn(b) /\ fl # <<>>
      /\ b[best].size >= n
  BY DEF CanServe, Listed
<1>2. /\ best \in Offsets /\ best \in FreeIn(b)
      /\ Tail(fl) \in Seq(Offsets) /\ IsInjective(Tail(fl)) /\ ToSet(Tail(fl)) = FreeIn(b) \ {best}
  BY <1>1, TailFacts
<1>3. /\ new.b = c /\ new.fl = Tail(fl) /\ new.lg = 0 /\ new.at = best
  BY DEF TakeAll
<1>4. PageUnits \in Nat /\ Smallest \in Nat \ {0} /\ DOMAIN b = Offsets
  BY <1>1, Units DEF Blocks
<1>5. \A o \in Offsets : b[o] \in Entries
  BY <1>1 DEF Blocks
<1>6. /\ c \in Blocks /\ DOMAIN c = Offsets /\ ~c[best].free
      /\ \A o \in Offsets : /\ c[o].size = b[o].size /\ c[o].next = b[o].next
                            /\ c[o].prev = b[o].prev
                            /\ o # best => c[o].free = b[o].free
  <2>1. \A o \in Offsets : c[o] = IF o = best THEN [b[o] EXCEPT !.free = FALSE] ELSE b[o]
    BY <1>4
  <2> HIDE DEF c
  <2>2. /\ c[best] \in Entries /\ ~c[best].free /\ c[best].size = b[best].size
        /\ c[best].next = b[best].next /\ c[best].prev = b[best].prev
    BY <1>2, <1>5, <2>1 DEF Entries
  <2>3. \A o \in Offsets : o # best => c[o] = b[o]
    BY <2>1
  <2>4. \A o \in Offsets : c[o] \in Entries
    BY <1>5, <2>2, <2>3
  <2>5. DOMAIN c = Offsets /\ c = [o \in Offsets |-> c[o]]
    BY <1>1 DEF c, Blocks
  <2> HIDE DEF best
  <2>6. c \in Blocks
    BY <2>4, <2>5 DEF Blocks
  <2>7. QED
    BY <2>2, <2>3, <2>5, <2>6
<1> HIDE DEF c, best, new
<1>7. Used(c) = Used(b)
  BY <1>4, <1>6 DEF Used
<1>8. \A o \in Used(b) : o \in Offsets /\ o + b[o].size \in Used(b) => o + b[o].size \in Offsets
  BY <1>4 DEF Used
<1>9. Chain(PageUnits, Smallest, c)
  <2>1. 0 \in Used(b) /\ 0 \in Offsets
    BY <1>1, <1>4 DEF Chain, Used
  <2>2. \A o \in Used(b) : b[o].prev \in Used(b) => b[o].prev \in Offsets
    BY <1>4 DEF Used
  <2>3. Apart(c)
    <3>1. \A o \in Used(c) : o \in Used(b) /\ c[o].size = b[o].size
      BY <1>4, <1>6, <1>7 DEF Used
    <3>2. Apart(b)
      BY <1>1 DEF Chain
    <3>3. QED
      BY <3>1, <3>2 DEF Apart
  <2>4. QED
    BY <1>1, <1>6, <1>7, <1>8, <2>1, <2>2, <2>3, <1>4 DEF Chain, Used
<1>10. FreeIn(c) = FreeIn(b) \ {best} /\ LiveIn(c) = LiveIn(b) \cup {best} /\ best \notin LiveIn(b)
  BY <1>2, <1>4, <1>6, <1>7 DEF FreeIn, LiveIn, Used
<1>11. NoTwoFree(c, {})
  <2>1. \A o \in FreeIn(b) : o \in Offsets /\ b[o].next \notin FreeIn(b)
    BY <1>1, <1>4 DEF NoTwoFree, FreeIn, Used
  <2>2. QED
    BY <1>6, <1>10, <2>1 DEF NoTwoFree
<1>12. FreeIn(c) # {0} \/ c[0].size < PageUnits
  <2> SUFFICES ASSUME FreeIn(c) = {0} PROVE c[0].size < PageUnits
    OBVIOUS
  <2>1. 0 # best /\ 0 \in Used(b) /\ best \in Used(b) /\ best \in Nat /\ 0 < best
        /\ b[best].size \in Nat \ {0} /\ best + b[best].size <= PageUnits /\ b[0].size \in Nat
    <3>1. best \in Used(b) /\ 0 \in Used(b) /\ 0 # best
      BY <1>2, <1>10 DEF FreeIn
    <3>2. QED
      BY <1>1, <3>1, ChainFacts
  <2>2. 0 + b[0].size <= best
    BY <1>1, <2>1 DEF Chain, Apart
  <2>3. 0 \in Offsets
    BY Units
  <2>4. QED
    BY <1>4, <1>6, <2>1, <2>2, <2>3
<1>13. Lives(b, c, {}, {best})
  <2>1. \A o \in LiveIn(b) : o \in Offsets
    BY <1>4 DEF LiveIn, Used
  <2>2. QED
    BY <1>6, <1>10, <2>1 DEF Lives
<1>14. Listed(c, Tail(fl))
  BY <1>2, <1>10 DEF Listed
<1>15. 0 \in 0 .. PageUnits /\ ~(0 >= Smallest)
  BY <1>4
<1>16. Carved(b, new)
  BY <1>2, <1>3, <1>6, <1>9, <1>10, <1>11, <1>12, <1>13, <1>14, <1>15 DEF Carved
<1>17. QED
  BY <1>1, <1>16 DEF new, best

\* MediumAllocDataFromPage keeps all it relies on, whichever way it carves.
LEMMA CarveOK ==
  ASSUME layout \in Layouts, NEW b, NEW fl, NEW lg,
         NEW n \in Nat \ {0}, n >= Smallest, CanServe(b, fl, n)
  PROVE  Carved(b, MediumAllocDataFromPage([b |-> b, fl |-> fl, lg |-> lg], n))
  BY CutOffOK, TakeAllOK DEF MediumAllocDataFromPage

LEMMA AllFree ==
  ASSUME NEW n \in Nat
  PROVE  /\ FreeBlock(n) \in Entries /\ FreeBlock(n).size = n /\ FreeBlock(n).free
         /\ FreeBlock(n).prev = None /\ FreeBlock(n).next = None
<1>1. NoBlock \in Entries /\ NoBlock.prev = None /\ NoBlock.next = None
  BY EntryIn DEF NoBlock
<1>2. FreeBlock(n) = [NoBlock EXCEPT !.size = n, !.free = TRUE]
  BY DEF FreeBlock
<1>3. QED
  BY <1>1, <1>2 DEF Entries

LEMMA FreshOK ==
  ASSUME layout \in Layouts, NEW n \in Nat, n <= PageUnits
  PROVE  CanServe(FreshPage.b, FreshPage.fl, n) /\ LiveIn(FreshPage.b) = {}
<1> DEFINE b == FreshPage.b
<1>1. /\ PageUnits \in Nat \ {0} /\ Smallest \in 1 .. PageUnits
      /\ Offsets = 0 .. (PageUnits - 1) /\ 0 \in Offsets /\ None \notin Offsets
  BY Units
<1>2. NoBlock \in Entries /\ NoBlock.size = 0
  BY EntryIn DEF NoBlock
<1>3. /\ FreeBlock(PageUnits) \in Entries /\ FreeBlock(PageUnits).size = PageUnits
      /\ FreeBlock(PageUnits).free
      /\ FreeBlock(PageUnits).prev = None /\ FreeBlock(PageUnits).next = None
  BY <1>1, AllFree
<1>4. /\ b = [o \in Offsets |-> IF o = 0 THEN FreeBlock(PageUnits) ELSE NoBlock]
      /\ FreshPage.fl = <<0>>
  BY <1>1 DEF FreshPage, NoBlocks
<1> HIDE DEF b
<1>5. b \in Blocks /\ DOMAIN b = Offsets /\ b[0] = FreeBlock(PageUnits)
      /\ \A o \in Offsets : o # 0 => b[o].size = 0
  BY <1>1, <1>2, <1>3, <1>4 DEF Blocks
<1>6. Used(b) = {0}
  <2>1. b[0].size > 0
    <3>1. b[0].size = PageUnits
      BY <1>3, <1>5
    <3>2. QED
      BY <1>1, <3>1
  <2>2. \A o \in Offsets : o # 0 => ~(b[o].size > 0)
    BY <1>5
  <2>3. QED
    BY <1>1, <1>5, <2>1, <2>2 DEF Used
<1>7. FreeIn(b) = {0} /\ LiveIn(b) = {}
  BY <1>3, <1>5, <1>6 DEF FreeIn, LiveIn
<1>8. Chain(PageUnits, Smallest, b) /\ NoTwoFree(b, {})
  <2>1. Apart(b)
    BY <1>6 DEF Apart
  <2>2. b[0].size = PageUnits /\ b[0].prev = None /\ b[0].next = None
    BY <1>3, <1>5
  <2>3. NoTwoFree(b, {})
    BY <1>1, <1>7, <2>2 DEF NoTwoFree
  <2>4. PageUnits >= Smallest /\ 0 + PageUnits = PageUnits
    BY <1>1
  <2>5. Chain(PageUnits, Smallest, b)
    BY <1>6, <2>1, <2>2, <2>4 DEF Chain
  <2>6. QED
    BY <2>3, <2>5
<1>9. Listed(b, <<0>>) /\ <<0>> # <<>> /\ Head(<<0>>) = 0
  BY <1>1, <1>7 DEF Listed, IsInjective, ToSet
<1>10. b[0].size >= n
  BY <1>1, <1>3, <1>5
<1>11. CanServe(b, <<0>>, n)
  BY <1>5, <1>8, <1>9, <1>10 DEF CanServe
<1>12. QED
  BY <1>4, <1>7, <1>11 DEF b

-------------------------------------------------------------------------------
(* Merging two blocks of a page. *)

\* Blocks c are b with block e, which lies behind block d, taken into d.
IsMerge(b, c, d, e) ==
  /\ c \in Blocks /\ c[e].size = 0
  /\ c[d].size = b[d].size + b[e].size /\ c[d].next = b[e].next
  /\ b[e].next \in Offsets => c[b[e].next].prev = d
  /\ \A o \in Offsets \ {e} :
       /\ c[o].free = b[o].free
       /\ o # d => c[o].size = b[o].size /\ c[o].next = b[o].next
       /\ o # b[e].next => c[o].prev = b[o].prev

LEMMA AbsorbFields ==
  ASSUME layout \in Layouts, NEW b \in Blocks, NEW d \in Offsets, NEW e \in Offsets,
         d # e, b[e].next # d, b[e].next # e
  PROVE  IsMerge(b, Absorb(b, d, e), d, e)
<1> DEFINE x   == b[e].next
           sum == b[d].size + b[e].size
           mid == [b EXCEPT ![d].size = @ + b[e].size, ![d].next = x, ![e] = NoBlock]
           c   == Backlink(mid, x, d)
<1>1. NoBlock \in Entries /\ NoBlock.size = 0
  BY EntryIn DEF NoBlock
<1>2. \A o \in Offsets : b[o] \in Entries
  BY DEF Blocks
<1>3. /\ mid[e] = NoBlock /\ mid[d] = [b[d] EXCEPT !.size = sum, !.next = x]
      /\ \A o \in Offsets : o # d /\ o # e => mid[o] = b[o]
  BY DEF Blocks, Entries
<1>4. sum \in Nat /\ x \in Offsets \cup {None}
  BY <1>2 DEF Entries
<1> HIDE DEF mid, sum
<1>5. /\ mid[d] \in Entries /\ mid[d].size = sum /\ mid[d].next = x
      /\ mid[d].prev = b[d].prev /\ mid[d].free = b[d].free
  BY <1>2, <1>3, <1>4 DEF Entries
<1>6. \A o \in Offsets : mid[o] \in Entries
  BY <1>1, <1>2, <1>3, <1>5
<1>7. c = [o \in Offsets |-> IF o = x THEN [mid[o] EXCEPT !.prev = d] ELSE mid[o]]
  BY DEF Backlink
<1> HIDE DEF c, x
<1>8. \A o \in Offsets :
        /\ c[o] \in Entries
        /\ c[o].size = mid[o].size /\ c[o].next = mid[o].next /\ c[o].free = mid[o].free
        /\ o = x => c[o].prev = d
        /\ o # x => c[o].prev = mid[o].prev
  BY <1>6, <1>7 DEF Entries
<1>9. c \in Blocks
  BY <1>7, <1>8 DEF Blocks
<1>10. /\ c[e].size = 0 /\ c[d].size = sum /\ c[d].next = x
       /\ x \in Offsets => c[x].prev = d
  BY <1>1, <1>3, <1>5, <1>8
<1>11. \A o \in Offsets \ {e} :
         /\ c[o].free = b[o].free
         /\ o # d => c[o].size = b[o].size /\ c[o].next = b[o].next
         /\ o # x => c[o].prev = b[o].prev
  <2>1. \A o \in Offsets \ {e} :
          /\ mid[o].free = b[o].free /\ mid[o].prev = b[o].prev
          /\ o # d => mid[o].size = b[o].size /\ mid[o].next = b[o].next
    BY <1>3, <1>5
  <2>2. QED
    BY <1>8, <2>1
<1>12. IsMerge(b, c, d, e)
  BY <1>9, <1>10, <1>11 DEF IsMerge, sum, x
<1>13. QED
  BY <1>12 DEF c, mid, x, Absorb

LEMMA MergeKeeps ==
  ASSUME layout \in Layouts, NEW b \in Blocks, NEW c, NEW d \in Used(b), NEW e \in Used(b),
         b[d].next = e, IsMerge(b, c, d, e), Chain(PageUnits, Smallest, b)
  PROVE  /\ e # d /\ Used(c) = Used(b) \ {e}
         /\ FreeIn(c) = FreeIn(b) \ {e} /\ LiveIn(c) = LiveIn(b) \ {e}
         /\ Chain(PageUnits, Smallest, c)
         /\ \A o \in Used(b) \ {d, e} : c[o].size = b[o].size /\ c[o].next = b[o].next
<1> DEFINE x == b[e].next
           sum == b[d].size + b[e].size
<1>1. /\ PageUnits \in Nat /\ Smallest \in Nat \ {0}
      /\ Offsets = 0 .. (PageUnits - 1) /\ None \notin Offsets
  BY Units
<1>2. \A o \in Used(b) : /\ o \in Offsets /\ o \in Nat /\ b[o].size \in Nat \ {0}
                         /\ o + b[o].size <= PageUnits /\ b[o].size >= Smallest
  BY ChainFacts DEF Chain
<1>3. e = d + b[d].size /\ b[e].prev = d
  BY <1>1, <1>2, ChainFacts
<1>4. \A u, v \in Used(b) : u < v => u + b[u].size <= v
  BY DEF Chain, Apart
<1>5. /\ sum \in Nat \ {0} /\ d + sum = e + b[e].size /\ d < e /\ e # 0 /\ sum >= Smallest
  <2>1. /\ b[d].size \in Nat \ {0} /\ b[e].size \in Nat \ {0} /\ d \in Nat /\ e \in Nat
        /\ b[d].size >= Smallest
    BY <1>2
  <2>2. sum \in Nat \ {0} /\ sum >= Smallest
    <3>1. \A m, n \in Nat \ {0} : m >= Smallest => m + n \in Nat \ {0} /\ m + n >= Smallest
      BY <1>1
    <3>2. QED
      BY <2>1, <3>1
  <2>3. d + sum = e + b[e].size
    BY <1>3, <2>1
  <2>4. d < e /\ e # 0
    BY <1>3, <2>1
  <2>5. QED
    BY <2>2, <2>3, <2>4
<1>6. \/ x = None /\ d + sum = PageUnits
      \/ x \in Used(b) /\ x = d + sum /\ b[x].prev = e
  BY <1>5, ChainFacts
<1>7. x # d /\ x # e
  <2>1. d \in Nat /\ e \in Nat /\ d # None /\ e # None /\ b[e].size \in Nat \ {0}
    BY <1>1, <1>2
  <2>2. x = None \/ x = e + b[e].size
    BY <1>5, <1>6
  <2>3. b[e].size \in Nat \ {0} /\ d < e
    BY <1>2, <1>5
  <2> HIDE DEF x
  <2>4. QED
    BY <2>1, <2>2, <2>3
<1>8. /\ c \in Blocks /\ DOMAIN b = Offsets /\ DOMAIN c = Offsets /\ c[e].size = 0
      /\ c[d].size = sum /\ c[d].next = x
      /\ x \in Offsets => c[x].prev = d
      /\ \A o \in Offsets \ {e} :
           /\ c[o].free = b[o].free
           /\ o # d => c[o].size = b[o].size /\ c[o].next = b[o].next
           /\ o # x => c[o].prev = b[o].prev
  BY DEF IsMerge, Blocks
<1> HIDE DEF x, sum
<1>9. Used(c) = Used(b) \ {e}
  <2>1. \A o \in Offsets : c[o].size > 0 <=> b[o].size > 0 /\ o # e
    BY <1>2, <1>5, <1>8
  <2>2. QED
    BY <1>8, <2>1 DEF Used
<1>10. \A o \in Used(c) : o \in Used(b) /\ o \in Offsets \ {e}
  BY <1>2, <1>9
<1>11. FreeIn(c) = FreeIn(b) \ {e} /\ LiveIn(c) = LiveIn(b) \ {e}
  BY <1>8, <1>9, <1>10 DEF FreeIn, LiveIn
<1>12. \A o \in Used(c) :
        \/ o + c[o].size = PageUnits /\ c[o].next = None
        \/ /\ o + c[o].size \in Used(c)
           /\ c[o].next = o + c[o].size
           /\ c[o + c[o].size].prev = o
  <2> TAKE o \in Used(c)
  <2>1. CASE o = d
    <3>1. c[o].size = sum /\ c[o].next = x
      BY <1>8, <2>1
    <3>2. x \in Used(b) => c[x].prev = d /\ x \in Used(c)
      BY <1>2, <1>7, <1>8, <1>9
    <3>3. QED
      BY <1>6, <2>1, <3>1, <3>2
  <2>2. CASE o # d
    <3>1. o \in Used(b) /\ c[o].size = b[o].size /\ c[o].next = b[o].next
      BY <1>8, <1>10, <2>2
    <3>2. CASE b[o].next = None /\ o + b[o].size = PageUnits
      BY <3>1, <3>2
    <3>3. CASE /\ b[o].next \in Used(b) /\ b[o].next = o + b[o].size
               /\ b[b[o].next].prev = o
      <4>1. b[o].next # e
        BY <1>3, <2>2, <3>3
      <4>2. b[o].next # x
        <5>1. x \in Used(b) => b[x].prev = e
          BY <1>1, <1>2, <1>6
        <5>2. QED
          BY <1>10, <3>3, <5>1
      <4>3. c[b[o].next].prev = o
        BY <1>2, <1>8, <3>3, <4>1, <4>2
      <4>4. QED
        BY <1>9, <3>1, <3>3, <4>1, <4>3
    <3>4. QED
      BY <3>1, <3>2, <3>3, ChainFacts
  <2>3. QED
    BY <2>1, <2>2
<1>13. \A o \in Used(c) : o # 0 => c[o].prev \in Used(c) /\ c[c[o].prev].next = o
  <2> SUFFICES ASSUME NEW o \in Used(c), o # 0
               PROVE  c[o].prev \in Used(c) /\ c[c[o].prev].next = o
    OBVIOUS
  <2>1. CASE o = x
    <3>1. c[o].prev = d /\ c[d].next = x
      BY <1>8, <1>10, <2>1
    <3>2. d \in Used(c)
      BY <1>5, <1>9, <1>2
    <3>3. QED
      BY <2>1, <3>1, <3>2
  <2>2. CASE o # x
    <3>1. o \in Used(b) /\ c[o].prev = b[o].prev
      BY <1>8, <1>10, <2>2
    <3>2. b[o].prev \in Used(b) /\ b[b[o].prev].next = o
      BY <3>1 DEF Chain
    <3>3. b[o].prev # e /\ b[o].prev # d
      BY <1>10, <2>2, <3>2 DEF x
    <3>4. c[b[o].prev].next = o
      BY <1>2, <1>8, <3>2, <3>3
    <3>5. QED
      BY <1>9, <3>1, <3>2, <3>3, <3>4
  <2>3. QED
    BY <2>1, <2>2
<1>14. Apart(c)
  <2> SUFFICES ASSUME NEW o \in Used(c), NEW q \in Used(c), o < q PROVE o + c[o].size <= q
    BY DEF Apart
  <2>1. o \in Used(b) /\ q \in Used(b) /\ o \in Nat /\ q \in Nat /\ o # e /\ q # e
    BY <1>2, <1>10
  <2>2. CASE o = d
    <3>1. d + b[d].size <= q
      BY <1>4, <2>1, <2>2
    <3>2. e < q
      BY <1>2, <1>3, <2>1, <3>1
    <3>3. e + b[e].size <= q
      BY <1>4, <2>1, <3>2
    <3>4. QED
      BY <1>5, <1>8, <2>2, <3>3
  <2>3. CASE o # d
    BY <1>4, <1>8, <1>10, <2>1, <2>3
  <2>4. QED
    BY <2>2, <2>3
<1>15. 0 \in Used(c) /\ c[0].prev = None
  <2>1. 0 \in Used(b) /\ b[0].prev = None /\ 0 \in Used(c)
    BY <1>5, <1>9 DEF Chain
  <2>2. 0 # x
    BY <1>1, <1>2, <1>5, <1>6
  <2>3. QED
    BY <1>8, <1>10, <2>1, <2>2
<1>16. \A o \in Used(c) : c[o].size >= Smallest
  <2> TAKE o \in Used(c)
  <2>1. CASE o = d
    BY <1>5, <1>8, <2>1
  <2>2. CASE o # d
    BY <1>2, <1>8, <1>10, <2>2
  <2>3. QED
    BY <2>1, <2>2
<1>17. Chain(PageUnits, Smallest, c)
  BY <1>12, <1>13, <1>14, <1>15, <1>16 DEF Chain
<1>18. \A o \in Used(b) \ {d, e} : c[o].size = b[o].size /\ c[o].next = b[o].next
  BY <1>2, <1>8
<1>19. e # d
  BY <1>2, <1>5
<1>20. QED
  BY <1>9, <1>11, <1>17, <1>18, <1>19

LEMMA UnlinkFacts ==
  ASSUME NEW S, NEW s \in Seq(S), IsInjective(s), NEW x \in ToSet(s)
  PROVE  /\ Unlink(s, x) \in Seq(S) /\ IsInjective(Unlink(s, x))
         /\ ToSet(Unlink(s, x)) = ToSet(s) \ {x}
         /\ Len(Unlink(s, x)) = Len(s) - 1
<1> DEFINE k == CHOOSE i \in DOMAIN s : s[i] = x
<1>1. \E i \in DOMAIN s : s[i] = x
  BY DEF ToSet
<1>2. k \in DOMAIN s /\ s[k] = x
  BY <1>1
<1>3. Unlink(s, x) = RemoveAt(s, k)
  BY DEF Unlink
<1> HIDE DEF k
<1>4. QED
  BY <1>2, <1>3, RemoveAtFacts

\* What is left of a page with blocks b once its block e has been freed and put
\* or merged into block pg.at; free blocks may be neighbours behind those of X.
Freed(b, e, pg, X) ==
  /\ pg.b \in Blocks /\ Chain(PageUnits, Smallest, pg.b)
  /\ NoTwoFree(pg.b, X) /\ Listed(pg.b, pg.fl)
  /\ pg.at \in FreeIn(pg.b) /\ pg.b[pg.at].size >= b[e].size
  /\ Lives(b, pg.b, {e}, {})

LEMMA MergeBeforeOK ==
  ASSUME layout \in Layouts, NEW b \in Blocks, NEW fl, NEW lg, NEW e \in LiveIn(b),
         Chain(PageUnits, Smallest, b), NoTwoFree(b, {}), Listed(b, fl)
  PROVE  LET new == MergeBefore([b |-> b, fl |-> fl, lg |-> lg], e)
         IN  Freed(b, e, new, {new.at})
<1> DEFINE new == MergeBefore([b |-> b, fl |-> fl, lg |-> lg], e)
           d   == b[e].prev
<1>1. /\ e \in Used(b) /\ ~b[e].free /\ e \in Offsets /\ e \notin FreeIn(b)
      /\ b[e].size \in Nat \ {0}
  BY ChainFacts DEF LiveIn, FreeIn
<1>2. \A o \in Used(b) : o \in Offsets /\ o \in Nat /\ b[o].size \in Nat \ {0}
  BY ChainFacts
<1>3. DOMAIN b = Offsets /\ None \notin Offsets
  BY Units DEF Blocks
<1>4. CASE d # None /\ b[d].free
  <2> DEFINE c == Absorb(b, d, e)
  <2>1. /\ new.b = c /\ new.fl = fl /\ new.at = d
    BY <1>4 DEF MergeBefore
  <2>2. d \in Used(b) /\ b[d].next = e /\ d \in FreeIn(b) /\ d \in Offsets
    BY <1>1, <1>2, <1>4, ChainFacts DEF FreeIn
  <2>3. e = d + b[d].size /\ (b[e].next = None \/ b[e].next = e + b[e].size)
    BY <1>1, <1>2, <1>3, <2>2, ChainFacts
  <2>4. d # e /\ b[e].next # d /\ b[e].next # e
    <3>1. d \in Nat /\ e \in Nat /\ b[d].size \in Nat \ {0} /\ d # None /\ e # None
      BY <1>1, <1>2, <1>3, <2>2
    <3>2. QED
      BY <1>1, <2>3, <3>1
  <2> HIDE DEF new, c, d
  <2>5. IsMerge(b, c, d, e)
    BY <1>1, <2>2, <2>4, AbsorbFields DEF c
  <2>6. /\ FreeIn(c) = FreeIn(b) \ {e} /\ LiveIn(c) = LiveIn(b) \ {e}
        /\ Chain(PageUnits, Smallest, c)
        /\ \A o \in Used(b) \ {d, e} : c[o].size = b[o].size /\ c[o].next = b[o].next
    <3>1. FreeIn(c) = FreeIn(b) \ {e}
      BY <1>1, <2>2, <2>5, MergeKeeps
    <3>2. LiveIn(c) = LiveIn(b) \ {e}
      BY <1>1, <2>2, <2>5, MergeKeeps
    <3>3. Chain(PageUnits, Smallest, c)
      BY <1>1, <2>2, <2>5, MergeKeeps
    <3>4. \A o \in Used(b) \ {d, e} : c[o].size = b[o].size /\ c[o].next = b[o].next
      BY <1>1, <2>2, <2>5, MergeKeeps
    <3>5. QED
      BY <3>1, <3>2, <3>3, <3>4
  <2>7. FreeIn(c) = FreeIn(b)
    BY <1>1, <2>6
  <2>8. c \in Blocks /\ c[d].size >= b[e].size
    <3>1. c \in Blocks /\ c[d].size = b[d].size + b[e].size
      BY <2>5 DEF IsMerge
    <3>2. b[d].size \in Nat
      BY <1>2, <2>2
    <3>3. QED
      BY <1>1, <3>1, <3>2
  <2>9. NoTwoFree(c, {d})
    <3>1. \A o \in FreeIn(b) : o \in Used(b) /\ o # e /\ b[o].next \notin FreeIn(b)
      BY <1>1 DEF NoTwoFree, FreeIn
    <3>2. QED
      BY <2>6, <2>7, <3>1 DEF NoTwoFree
  <2>10. Lives(b, c, {e}, {})
    <3>1. \A o \in LiveIn(b) : o \in Used(b) /\ o # d
      BY <1>4 DEF LiveIn
    <3>2. QED
      BY <2>6, <3>1 DEF Lives
  <2>11. Listed(c, fl)
    BY <2>7 DEF Listed
  <2>12. Freed(b, e, new, {new.at})
    BY <2>1, <2>2, <2>6, <2>7, <2>8, <2>9, <2>10, <2>11 DEF Freed
  <2>13. QED
    BY <2>12 DEF new
<1>5. CASE ~(d # None /\ b[d].free)
  <2> DEFINE c == [b EXCEPT ![e].free = TRUE]
  <2>1. /\ new.b = c /\ new.fl = <<e>> \o fl /\ new.at = e
    BY <1>5 DEF MergeBefore
  <2>2. \A o \in Offsets : b[o] \in Entries
    BY DEF Blocks
  <2>3. c[e] = [b[e] EXCEPT !.free = TRUE] /\ \A o \in Offsets : o # e => c[o] = b[o]
    BY <1>1 DEF Blocks
  <2>4. DOMAIN c = Offsets /\ c = [o \in Offsets |-> c[o]]
    BY DEF Blocks
  <2> HIDE DEF new, c
  <2>5. /\ c[e] \in Entries /\ c[e].free /\ c[e].size = b[e].size /\ c[e].next = b[e].next
        /\ c[e].prev = b[e].prev
    BY <1>1, <2>2, <2>3 DEF Entries
  <2>6. c \in Blocks
    <3>1. \A o \in Offsets : c[o] \in Entries
      BY <2>2, <2>3, <2>5
    <3>2. QED
      BY <2>4, <3>1 DEF Blocks
  <2>7. \A o \in Offsets : /\ c[o].size = b[o].size /\ c[o].next = b[o].next
                           /\ c[o].prev = b[o].prev
                           /\ o # e => c[o].free = b[o].free
    BY <2>3, <2>5
  <2>8. Used(c) = Used(b)
    BY <1>3, <2>4, <2>7 DEF Used
  <2>9. Chain(PageUnits, Smallest, c)
    BY <1>2, <1>3, <2>7, <2>8 DEF Chain, Apart
  <2>10. FreeIn(c) = FreeIn(b) \cup {e} /\ LiveIn(c) = LiveIn(b) \ {e}
    BY <1>1, <1>2, <2>5, <2>7, <2>8 DEF FreeIn, LiveIn
  <2>11. NoTwoFree(c, {e})
    <3> SUFFICES ASSUME NEW o \in FreeIn(b), o # e PROVE c[o].next \notin FreeIn(c)
      BY <2>10 DEF NoTwoFree
    <3>1. o \in Used(b) /\ b[o].free /\ b[o].next \notin FreeIn(b) /\ c[o].next = b[o].next
      BY <1>2, <2>7 DEF NoTwoFree, FreeIn
    <3>2. b[o].next # e
      <4>1. b[o].next = e => d = o
        BY <1>1, <1>3, <3>1, ChainFacts
      <4>2. o # None
        BY <1>2, <1>3, <3>1
      <4>3. QED
        BY <1>5, <3>1, <4>1, <4>2
    <3>3. QED
      BY <2>10, <3>1, <3>2
  <2>12. Listed(c, <<e>> \o fl)
    BY <1>1, <2>10, ConsFacts DEF Listed
  <2>13. Lives(b, c, {e}, {})
    BY <1>2, <2>7, <2>10 DEF Lives, LiveIn
  <2>14. b[e].size >= b[e].size
    BY <1>1
  <2>15. Freed(b, e, new, {new.at})
    BY <2>1, <2>5, <2>6, <2>9, <2>10, <2>11, <2>12, <2>13, <2>14 DEF Freed
  <2>16. QED
    BY <2>15 DEF new
<1>6. QED
  BY <1>4, <1>5

LEMMA MergeBehindOK ==
  ASSUME layout \in Layouts, NEW b, NEW e, NEW pg, Freed(b, e, pg, {pg.at}),
         b[e].size \in Nat
  PROVE  Freed(b, e, MergeBehind(pg), {}) /\ MergeBehind(pg).at = pg.at
<1> DEFINE new == MergeBehind(pg)
           u   == pg.b
           at  == pg.at
           d   == u[at].next
           c   == Absorb(u, at, d)
<1> USE DEF Freed
<1>1. /\ u \in Blocks /\ Chain(PageUnits, Smallest, u) /\ NoTwoFree(u, {at}) /\ Listed(u, pg.fl)
      /\ at \in FreeIn(u) /\ u[at].size >= b[e].size /\ Lives(b, u, {e}, {})
  OBVIOUS
<1>2. new = IF d # None /\ u[d].free THEN [b |-> c, fl |-> Unlink(pg.fl, d), at |-> at] ELSE pg
  BY DEF MergeBehind
<1> HIDE DEF new, u, at, d, c, Freed
<1>3. /\ at \in Used(u) /\ at \in Offsets /\ None \notin Offsets
      /\ \A o \in Used(u) : o \in Offsets /\ o \in Nat /\ u[o].size \in Nat \ {0}
  BY <1>1, ChainFacts, Units DEF FreeIn
<1>4. \/ d = None
      \/ d \in Used(u) /\ d = at + u[at].size
  BY <1>1, <1>3, ChainFacts DEF d
<1>5. CASE d # None /\ u[d].free
  <2>1. d \in FreeIn(u) /\ d \in Used(u) /\ d \in Offsets
    BY <1>3, <1>4, <1>5 DEF FreeIn
  <2>2. u[d].next = None \/ u[d].next = d + u[d].size
    BY <1>1, <2>1, ChainFacts
  <2>3. d # at /\ u[d].next # d /\ u[d].next # at
    <3>1. at \in Nat /\ d \in Nat /\ u[d].size \in Nat \ {0} /\ u[at].size \in Nat \ {0}
          /\ at # None /\ d # None
      BY <1>3, <2>1
    <3>2. QED
      BY <1>4, <2>2, <3>1
  <2>4. IsMerge(u, c, at, d)
    BY <1>1, <1>3, <2>1, <2>3, AbsorbFields DEF c
  <2>5. /\ FreeIn(c) = FreeIn(u) \ {d} /\ LiveIn(c) = LiveIn(u) \ {d}
        /\ Chain(PageUnits, Smallest, c)
        /\ \A o \in Used(u) \ {at, d} : c[o].size = u[o].size /\ c[o].next = u[o].next
    BY <1>1, <1>3, <2>1, <2>4, MergeKeeps DEF d
  <2>6. c \in Blocks /\ c[at].size >= b[e].size /\ c[at].next = u[d].next
    <3>1. c \in Blocks /\ c[at].size = u[at].size + u[d].size /\ c[at].next = u[d].next
      BY <2>4 DEF IsMerge
    <3>2. u[at].size \in Nat /\ u[d].size \in Nat
      BY <1>3, <2>1
    <3>3. QED
      BY <1>1, <3>1, <3>2
  <2>7. NoTwoFree(c, {})
    <3>1. \A o \in FreeIn(u) : o \in Used(u) /\ (o # at => u[o].next \notin FreeIn(u))
      BY <1>1 DEF NoTwoFree, FreeIn
    <3>2. u[d].next \notin FreeIn(u)
      BY <2>1, <2>3, <3>1
    <3>3. \A o \in FreeIn(c) : c[o].next \notin FreeIn(c)
      BY <2>5, <2>6, <3>1, <3>2
    <3>4. QED
      BY <3>3 DEF NoTwoFree
  <2>8. LiveIn(c) = LiveIn(u) /\ \A o \in LiveIn(u) : c[o].size = u[o].size
    <3>1. \A o \in LiveIn(u) : o \in Used(u) /\ o \notin FreeIn(u)
      BY DEF LiveIn, FreeIn
    <3>2. QED
      BY <1>1, <2>1, <2>5, <3>1
  <2>9. Lives(b, c, {e}, {})
    BY <1>1, <2>8 DEF Lives
  <2>10. Listed(c, Unlink(pg.fl, d))
    BY <1>1, <2>1, <2>5, UnlinkFacts DEF Listed
  <2>11. new.b = c /\ new.fl = Unlink(pg.fl, d) /\ new.at = at
    BY <1>2, <1>5
  <2>12. at \in FreeIn(c)
    BY <1>1, <2>3, <2>5
  <2>13. Freed(b, e, new, {}) /\ new.at = at
    BY <2>5, <2>6, <2>7, <2>9, <2>10, <2>11, <2>12 DEF Freed
  <2>14. QED
    BY <2>13 DEF new, at
<1>6. CASE ~(d # None /\ u[d].free)
  <2>1. d \notin FreeIn(u)
    BY <1>3, <1>4, <1>6 DEF FreeIn
  <2>2. NoTwoFree(u, {})
    BY <1>1, <2>1 DEF NoTwoFree, d
  <2>3. new = pg
    BY <1>2, <1>6
  <2>4. QED
    BY <1>1, <2>2, <2>3 DEF Freed, new, u, at
<1>7. QED
  BY <1>5, <1>6

LEMMA PutLargerFirstOK ==
  ASSUME layout \in Layouts, NEW b, NEW e, NEW pg, Freed(b, e, pg, {}), b[e].size \in Nat
  PROVE  LET new == PutLargerFirst(pg)
         IN  /\ Freed(b, e, new, {}) /\ new.at = pg.at /\ new.fl # <<>>
             /\ new.lg = new.b[Head(new.fl)].size
             /\ new.lg >= b[e].size /\ new.lg >= Smallest /\ new.lg <= PageUnits /\ new.lg \in Nat
<1> DEFINE new == PutLargerFirst(pg)
           u   == pg.b
           at  == pg.at
           fl  == IF u[at].size > u[Head(pg.fl)].size THEN <<at>> \o Unlink(pg.fl, at) ELSE pg.fl
<1>1. /\ u \in Blocks /\ Chain(PageUnits, Smallest, u) /\ Listed(u, pg.fl)
      /\ at \in FreeIn(u) /\ u[at].size >= b[e].size
  BY DEF Freed
<1>2. new.b = u /\ new.fl = fl /\ new.at = at /\ new.lg = u[Head(fl)].size
  BY DEF PutLargerFirst
<1> HIDE DEF new, u, at, fl
<1>3. pg.fl \in Seq(Offsets) /\ IsInjective(pg.fl) /\ ToSet(pg.fl) = FreeIn(u)
  BY <1>1 DEF Listed
<1>4. pg.fl # <<>>
  BY <1>1, <1>3 DEF ToSet
<1>5. \A o \in Used(u) : /\ o \in Offsets /\ u[o].size \in Nat /\ u[o].size >= Smallest
                         /\ u[o].size <= PageUnits
  <2> TAKE o \in Used(u)
  <2>1. /\ o \in Offsets /\ o \in Nat /\ u[o].size \in Nat /\ o + u[o].size <= PageUnits
        /\ PageUnits \in Nat
    BY <1>1, ChainFacts, Units
  <2>2. u[o].size >= Smallest
    BY <1>1 DEF Chain
  <2>3. QED
    BY <2>1, <2>2
<1>6. at \in Used(u) /\ Head(pg.fl) \in Used(u) /\ FreeIn(u) \subseteq Offsets
  BY <1>1, <1>3, <1>4, <1>5, TailFacts DEF FreeIn
<1>7. Listed(u, fl) /\ fl # <<>> /\ Head(fl) \in FreeIn(u) /\ u[Head(fl)].size >= u[at].size
  <2>1. CASE u[at].size > u[Head(pg.fl)].size
    <3>1. /\ Unlink(pg.fl, at) \in Seq(Offsets) /\ IsInjective(Unlink(pg.fl, at))
          /\ ToSet(Unlink(pg.fl, at)) = FreeIn(u) \ {at}
      BY <1>1, <1>3, UnlinkFacts
    <3>2. fl = <<at>> \o Unlink(pg.fl, at)
      BY <2>1 DEF fl
    <3>3. Listed(u, fl)
      <4> DEFINE rest == Unlink(pg.fl, at)
      <4>1. at \in Offsets /\ at \notin ToSet(rest)
        BY <1>1, <1>6, <3>1
      <4> HIDE DEF rest
      <4>2. /\ <<at>> \o rest \in Seq(Offsets) /\ IsInjective(<<at>> \o rest)
            /\ ToSet(<<at>> \o rest) = (FreeIn(u) \ {at}) \cup {at}
        BY <3>1, <4>1, ConsFacts DEF rest
      <4>3. QED
        BY <1>1, <3>2, <4>2 DEF Listed, rest
    <3>4. fl # <<>> /\ Head(fl) = at
      BY <3>1, <3>2
    <3>5. QED
      BY <1>1, <1>5, <1>6, <3>3, <3>4
  <2>2. CASE ~(u[at].size > u[Head(pg.fl)].size)
    <3>1. fl = pg.fl
      BY <2>2 DEF fl
    <3>2. u[Head(pg.fl)].size >= u[at].size
      BY <1>5, <1>6, <2>2
    <3>3. QED
      BY <1>1, <1>3, <1>4, <3>1, <3>2, TailFacts
  <2>3. QED
    BY <2>1, <2>2
<1>8. /\ u[Head(fl)].size \in Nat /\ u[Head(fl)].size >= Smallest
      /\ u[Head(fl)].size <= PageUnits /\ u[Head(fl)].size >= b[e].size
  <2>1. Head(fl) \in Used(u)
    BY <1>7 DEF FreeIn
  <2>2. u[Head(fl)].size \in Nat /\ u[at].size \in Nat
    BY <1>5, <1>6, <2>1
  <2>3. QED
    BY <1>1, <1>5, <1>7, <2>1, <2>2
<1>9. Freed(b, e, new, {})
  BY <1>2, <1>7 DEF Freed, u, at
<1>10. QED
  BY <1>2, <1>7, <1>8, <1>9 DEF new, at

\* What AR_FreeToHeap leaves of a medium page: either all of it is free, and
\* only that block was in use, or its first free block has room for the next call.
LEMMA FreeBlockOK ==
  ASSUME layout \in Layouts, NEW b \in Blocks, NEW fl, NEW lg, NEW e \in LiveIn(b),
         Chain(PageUnits, Smallest, b), NoTwoFree(b, {}), Listed(b, fl)
  PROVE  LET new == PutLargerFirst(MergeBehind(MergeBefore([b |-> b, fl |-> fl, lg |-> lg], e)))
         IN  /\ Freed(b, e, new, {}) /\ new.fl # <<>>
             /\ new.lg = new.b[Head(new.fl)].size
             /\ new.lg >= b[e].size /\ new.lg >= Smallest /\ new.lg \in 0 .. PageUnits
             /\ new.b[new.at].size = PageUnits => LiveIn(b) = {e}
             /\ new.b[new.at].size # PageUnits => \/ FreeIn(new.b) # {0}
                                                  \/ new.b[0].size < PageUnits
<1> DEFINE m1  == MergeBefore([b |-> b, fl |-> fl, lg |-> lg], e)
           m2  == MergeBehind(m1)
           new == PutLargerFirst(m2)
<1>1. Freed(b, e, m1, {m1.at})
  BY MergeBeforeOK
<1>2. b[e].size \in Nat /\ PageUnits \in Nat
  BY ChainFacts, Units DEF LiveIn
<1> HIDE DEF m1
<1>3. Freed(b, e, m2, {})
  BY <1>1, <1>2, MergeBehindOK
<1> HIDE DEF m2
<1>4. /\ Freed(b, e, new, {}) /\ new.fl # <<>>
      /\ new.lg = new.b[Head(new.fl)].size
      /\ new.lg >= b[e].size /\ new.lg >= Smallest /\ new.lg <= PageUnits /\ new.lg \in Nat
  BY <1>2, <1>3, PutLargerFirstOK
<1> DEFINE u == new.b
           at == new.at
<1> HIDE DEF new
<1>5. /\ u \in Blocks /\ Chain(PageUnits, Smallest, u) /\ at \in FreeIn(u) /\ at \in Used(u)
      /\ u[at].free /\ Lives(b, u, {e}, {}) /\ Apart(u)
  BY <1>4 DEF Freed, FreeIn, Chain
<1> HIDE DEF u, at
<1>6. \A o \in Used(u) : o \in Nat /\ u[o].size \in Nat \ {0} /\ o + u[o].size <= PageUnits
  BY <1>5, ChainFacts
<1>7. ASSUME u[at].size = PageUnits PROVE LiveIn(b) = {e}
  <2>1. at = 0
    BY <1>2, <1>5, <1>6, <1>7
  <2>2. \A o \in Used(u) : o = at
    <3> SUFFICES ASSUME NEW o \in Used(u), o # 0 PROVE FALSE
      BY <2>1
    <3>1. 0 < o
      BY <1>6
    <3>2. 0 + u[0].size <= o
      BY <1>5, <2>1, <3>1 DEF Apart
    <3>3. QED
      BY <1>2, <1>6, <1>7, <2>1, <3>2
  <2>3. LiveIn(u) = {}
    BY <1>5, <2>2 DEF LiveIn
  <2>4. QED
    BY <1>5, <2>3 DEF Lives
<1>8. ASSUME u[at].size # PageUnits PROVE FreeIn(u) # {0} \/ u[0].size < PageUnits
  <2> SUFFICES ASSUME FreeIn(u) = {0} PROVE u[0].size < PageUnits
    OBVIOUS
  <2>1. at = 0 /\ 0 + u[0].size <= PageUnits
    BY <1>5, <1>6
  <2>2. QED
    BY <1>2, <1>5, <1>6, <1>8, <2>1
<1>9. new.lg \in 0 .. PageUnits
  BY <1>2, <1>4
<1>10. QED
  BY <1>4, <1>7, <1>8, <1>9 DEF new, m2, m1, u, at

-------------------------------------------------------------------------------
(* The invariant. *)

\* A medium page of u units, x its extent, b its blocks, fl its free list and lg
\* its largest_free, for blocks of m units and more; room says whether the page
\* is in the list of those that have room.
MediumFits(u, m, x, b, fl, lg, room) ==
  /\ x = u /\ Chain(u, m, b) /\ NoTwoFree(b, {})
  /\ IsInjective(fl) /\ ToSet(fl) = FreeIn(b)
  /\ FreeIn(b) # {0} \/ b[0].size < u
  /\ room <=> lg >= m
  /\ lg >= m => fl # <<>> /\ lg = b[Head(fl)].size

MediumPart ==
  /\ \A p \in Pages :
       kind[p] = "medium" =>
         MediumFits(PageUnits, Smallest, extent[p], blk[p], freeList[p], largest[p],
                    p \in ToSet(mediumFree))
  /\ IsInjective(mediumFree) /\ IsInjective(mediumUsed)
  /\ \A p \in Pages : ~(p \in ToSet(mediumFree) /\ p \in ToSet(mediumUsed))
  /\ \A p \in Pages : kind[p] = "medium" <=> p \in ToSet(mediumFree) \/ p \in ToSet(mediumUsed)

SmallFits(u, sizes, x, b) ==
  /\ x = u /\ Apart(b)
  /\ \A o \in Used(b) : b[o].size \in sizes

SmallPart ==
  /\ \A p \in Pages : kind[p] = "small" => SmallFits(PageUnits, SmallSizes, extent[p], blk[p])
  /\ \A n \in SmallSizes :
       /\ IsInjective(smallFree[n])
       /\ \A x \in Places :
            x \in ToSet(smallFree[n]) <=>
              kind[x[1]] = "small" /\ blk[x[1]][x[2]].free /\ blk[x[1]][x[2]].size = n
  /\ \A o \in Used(blk[smallCur]) : o + blk[smallCur][o].size <= smallOff
  /\ IsInjective(smallUsed) /\ smallCur \notin ToSet(smallUsed)
  /\ \A p \in Pages : kind[p] = "small" <=> p = smallCur \/ p \in ToSet(smallUsed)

LargeFits(b) == Used(b) = {0} /\ ~b[0].free

LargePart ==
  /\ \A p \in Pages : kind[p] = "large" => LargeFits(blk[p])
  /\ IsInjective(largeUsed)
  /\ \A p \in Pages : kind[p] = "large" <=> p \in ToSet(largeUsed)

NonePart == \A p \in Pages : kind[p] = "none" => blk[p] = NoBlocks

PageTypes ==
  /\ kind \in [Pages -> {"none", "small", "medium", "large"}]
  /\ extent \in [Pages -> Nat]
  /\ blk \in [Pages -> Blocks]
  /\ allocated = 1 + Len(smallUsed) + Len(mediumFree) + Len(mediumUsed) + Len(largeUsed)
SmallTypes ==
  /\ smallFree \in [SmallSizes -> Seq(Places)]
  /\ smallCur \in Pages
  /\ smallOff \in 0 .. PageUnits
  /\ smallUsed \in Seq(Pages)
MediumTypes ==
  /\ freeList \in [Pages -> Seq(Offsets)]
  /\ largest \in [Pages -> 0 .. PageUnits]
  /\ mediumFree \in Seq(Pages)
  /\ mediumUsed \in Seq(Pages)

\* What holds as long as the heap is open.
Shape ==
  /\ PageTypes /\ SmallTypes /\ MediumTypes /\ largeUsed \in Seq(Pages)
  /\ MediumPart /\ SmallPart /\ LargePart /\ NonePart

IInv ==
  /\ TypeOK
  /\ open => Shape /\ (moving # NoPlace => Live(moving))
  /\ ~open => moving = NoPlace /\ PagesOf("none") = Pages /\ allocated = 0

\* Only the blocks of page p change, and of callers' blocks only those in gone
\* and come.
Touches(p, gone, come) ==
  /\ \A q \in Pages \ {p} : blk'[q] = blk[q]
  /\ Lives(blk[p], blk'[p], gone, come)

\* A block is handed out that no caller had, or taken back from one.
HandsOut == \E p \in Pages, o \in Offsets : o \notin LiveIn(blk[p]) /\ Touches(p, {}, {o})
TakesBack(x) == Touches(x[1], {x[2]}, {})

LEMMA Same ==
  ASSUME layout' = layout
  PROVE  /\ PageUnits' = PageUnits /\ Smallest' = Smallest /\ SmallSizes' = SmallSizes
         /\ Offsets' = Offsets /\ Places' = Places /\ Blocks' = Blocks /\ NoBlocks' = NoBlocks
  BY DEF PageUnits, Smallest, SmallSizes, Offsets, Places, Blocks, Entries, NoBlocks

-------------------------------------------------------------------------------
(* A step that leaves the pages of one kind alone leaves its part alone. *)

\* Pages of kind k are those they were, and nothing about them has changed.
Alone(k) == \A p \in Pages : /\ kind'[p] = k <=> kind[p] = k
                             /\ kind[p] = k => blk'[p] = blk[p] /\ extent'[p] = extent[p]

LEMMA MediumAlone ==
  ASSUME MediumPart, MediumTypes, layout' = layout, Alone("medium"), UNCHANGED mediumVars
  PROVE  MediumPart' /\ MediumTypes'
  BY Same DEF MediumPart, MediumTypes, Alone, mediumVars

LEMMA SmallAlone ==
  ASSUME SmallPart, SmallTypes, layout' = layout, Alone("small"), UNCHANGED smallVars
  PROVE  SmallPart' /\ SmallTypes'
<1>1. /\ smallFree' = smallFree /\ smallCur' = smallCur /\ smallOff' = smallOff
      /\ smallUsed' = smallUsed
  BY DEF smallVars
<1>2. blk'[smallCur] = blk[smallCur]
  BY DEF Alone, SmallTypes, SmallPart
<1>3. \A x \in Places : x[1] \in Pages
  BY DEF Places
<1>4. SmallTypes'
  BY <1>1, Same DEF SmallTypes
<1>5. SmallPart'
  BY <1>1, <1>2, <1>3, Same DEF SmallPart, Alone
<1>6. QED
  BY <1>4, <1>5

LEMMA LargeAlone ==
  ASSUME LargePart, Alone("large"), UNCHANGED largeUsed
  PROVE  LargePart'
  BY DEF LargePart, Alone

-------------------------------------------------------------------------------
(* Small blocks. *)

LEMMA ConsLen ==
  ASSUME NEW S, NEW s \in Seq(S), NEW x \in S
  PROVE  Len(<<x>> \o s) = Len(s) + 1 /\ Len(s) \in Nat
  OBVIOUS

LEMMA FlagOff ==
  ASSUME NEW b \in Blocks, NEW o \in Offsets
  PROVE  LET c == [b EXCEPT ![o].free = FALSE]
         IN  /\ c \in Blocks /\ ~c[o].free /\ Used(c) = Used(b)
             /\ \A q \in Offsets : /\ c[q].size = b[q].size
                                   /\ q # o => c[q] = b[q]
<1> DEFINE c == [b EXCEPT ![o].free = FALSE]
<1>1. \A q \in Offsets : b[q] \in Entries
  BY DEF Blocks
<1>2. c[o] = [b[o] EXCEPT !.free = FALSE] /\ \A q \in Offsets : q # o => c[q] = b[q]
  BY DEF Blocks
<1>3. DOMAIN c = Offsets /\ DOMAIN b = Offsets /\ c = [q \in Offsets |-> c[q]]
  BY DEF Blocks
<1> HIDE DEF c
<1>4. c[o] \in Entries /\ ~c[o].free /\ c[o].size = b[o].size
  BY <1>1, <1>2 DEF Entries
<1>5. \A q \in Offsets : c[q] \in Entries /\ c[q].size = b[q].size
  BY <1>1, <1>2, <1>4
<1>6. c \in Blocks
  BY <1>3, <1>5 DEF Blocks
<1>7. Used(c) = Used(b)
  BY <1>3, <1>5 DEF Used
<1>8. QED
  BY <1>2, <1>4, <1>5, <1>6, <1>7 DEF c

LEMMA FlagOn ==
  ASSUME NEW b \in Blocks, NEW o \in Offsets
  PROVE  LET c == [b EXCEPT ![o].free = TRUE]
         IN  /\ c \in Blocks /\ c[o].free /\ Used(c) = Used(b)
             /\ \A q \in Offsets : /\ c[q].size = b[q].size
                                   /\ q # o => c[q] = b[q]
<1> DEFINE c == [b EXCEPT ![o].free = TRUE]
<1>1. \A q \in Offsets : b[q] \in Entries
  BY DEF Blocks
<1>2. c[o] = [b[o] EXCEPT !.free = TRUE] /\ \A q \in Offsets : q # o => c[q] = b[q]
  BY DEF Blocks
<1>3. DOMAIN c = Offsets /\ DOMAIN b = Offsets /\ c = [q \in Offsets |-> c[q]]
  BY DEF Blocks
<1> HIDE DEF c
<1>4. c[o] \in Entries /\ c[o].free /\ c[o].size = b[o].size
  BY <1>1, <1>2 DEF Entries
<1>5. \A q \in Offsets : c[q] \in Entries /\ c[q].size = b[q].size
  BY <1>1, <1>2, <1>4
<1>6. c \in Blocks
  BY <1>3, <1>5 DEF Blocks
<1>7. Used(c) = Used(b)
  BY <1>3, <1>5 DEF Used
<1>8. QED
  BY <1>2, <1>4, <1>5, <1>6, <1>7 DEF c

LEMMA SetBlock ==
  ASSUME NEW b \in Blocks, NEW o \in Offsets, NEW v \in Entries, v.size > 0
  PROVE  LET c == [b EXCEPT ![o] = v]
         IN  /\ c \in Blocks /\ c[o] = v
             /\ \A q : q \in Used(c) <=> q \in Used(b) \/ q = o
             /\ \A q \in Offsets : q # o => c[q] = b[q]
<1> DEFINE c == [b EXCEPT ![o] = v]
<1>1. c \in Blocks /\ c[o] = v /\ DOMAIN c = Offsets /\ DOMAIN b = Offsets
      /\ \A q \in Offsets : q # o => c[q] = b[q]
  BY DEF Blocks
<1> HIDE DEF c
<1>2. Used(c) = Used(b) \cup {o}
  BY <1>1 DEF Used
<1>3. QED
  BY <1>1, <1>2 DEF c

LEMMA HandedOut ==
  ASSUME NEW n \in Nat \ {0}
  PROVE  /\ UsedBlock(n) \in Entries /\ UsedBlock(n).size = n /\ ~UsedBlock(n).free
         /\ UsedBlock(n).size > 0
<1>1. NoBlock \in Entries /\ ~NoBlock.free
  BY EntryIn DEF NoBlock
<1>2. UsedBlock(n) = [NoBlock EXCEPT !.size = n]
  BY DEF UsedBlock
<1>3. QED
  BY <1>1, <1>2 DEF Entries

LEMMA NoBlocksFacts == NoBlocks \in Blocks /\ Used(NoBlocks) = {} /\ LiveIn(NoBlocks) = {}
                       /\ \A o \in Offsets : NoBlocks[o].size = 0 /\ ~NoBlocks[o].free
<1>1. /\ NoBlock \in Entries /\ NoBlock.size = 0
      /\ ~NoBlock.free
  BY EntryIn DEF NoBlock
<1>2. /\ NoBlocks \in Blocks /\ DOMAIN NoBlocks = Offsets
      /\ \A o \in Offsets : NoBlocks[o].size = 0 /\ ~NoBlocks[o].free
  BY <1>1 DEF NoBlocks, Blocks
<1>3. \A o \in Offsets : ~(NoBlocks[o].size > 0)
  BY <1>2
<1>4. Used(NoBlocks) = {}
  BY <1>2, <1>3 DEF Used
<1>5. QED
  BY <1>2, <1>4 DEF LiveIn

\* Block o of a page changes hands: nothing but its free mark does.
LEMMA FlagLives ==
  ASSUME NEW b \in Blocks, NEW c \in Blocks, NEW o \in Used(b), Used(c) = Used(b),
         \A q \in Offsets : c[q].size = b[q].size /\ (q # o => c[q] = b[q])
  PROVE  /\ ~c[o].free => Lives(b, c, {}, {o})
         /\ c[o].free => Lives(b, c, {o}, {})
         /\ Apart(b) => Apart(c)
<1>1. Used(b) \subseteq Offsets /\ o \in Offsets
  BY DEF Blocks, Used
<1>2. \A q \in LiveIn(b) : c[q].size = b[q].size
  BY <1>1 DEF LiveIn
<1>3. ~c[o].free => LiveIn(c) = LiveIn(b) \cup {o}
  BY <1>1 DEF LiveIn
<1>4. c[o].free => LiveIn(c) = LiveIn(b) \ {o}
  BY <1>1 DEF LiveIn
<1>5. Apart(b) => Apart(c)
  BY <1>1 DEF Apart
<1>6. QED
  BY <1>2, <1>3, <1>4, <1>5 DEF Lives

LEMMA SmallReuseOK ==
  ASSUME layout \in Layouts, Shape, layout' = layout, NEW n \in SmallSizes, SmallReuse(n)
  PROVE  Shape' /\ HandsOut
<1> DEFINE x == Head(smallFree[n])
           p == x[1]
           o == x[2]
           c == [blk[p] EXCEPT ![o].free = FALSE]
<1> USE DEF Shape
<1>1. /\ smallFree \in [SmallSizes -> Seq(Places)] /\ smallFree[n] # <<>>
      /\ smallFree' = [smallFree EXCEPT ![n] = Tail(smallFree[n])]
      /\ blk' = [blk EXCEPT ![p][o].free = FALSE] /\ blk \in [Pages -> Blocks]
      /\ UNCHANGED <<kind, extent, allocated, smallCur, smallOff, smallUsed, largeUsed>>
      /\ UNCHANGED mediumVars
      /\ smallCur \in Pages
      /\ Len(smallUsed)' = Len(smallUsed) /\ Len(mediumFree)' = Len(mediumFree)
      /\ Len(mediumUsed)' = Len(mediumUsed) /\ Len(largeUsed)' = Len(largeUsed)
  BY DEF SmallReuse, SmallTypes, PageTypes, pageVars, mediumVars
<1>2. /\ x \in Places /\ x \in ToSet(smallFree[n])
      /\ Tail(smallFree[n]) \in Seq(Places)
      /\ IsInjective(Tail(smallFree[n])) /\ ToSet(Tail(smallFree[n])) = ToSet(smallFree[n]) \ {x}
  <2>1. IsInjective(smallFree[n]) /\ smallFree[n] \in Seq(Places)
    BY <1>1 DEF SmallPart
  <2>2. QED
    BY <1>1, <2>1, TailFacts
<1> HIDE DEF Shape, x
<1>3. p \in Pages /\ o \in Offsets /\ x = <<p, o>>
  BY <1>2 DEF Places
<1> HIDE DEF p, o
<1>4. kind[p] = "small" /\ blk[p][o].free /\ blk[p][o].size = n
  BY <1>1, <1>2 DEF Shape, SmallPart, p, o
<1>5. blk[p] \in Blocks /\ o \in Used(blk[p]) /\ n \in Nat \ {0}
  <2>1. n \in Nat \ {0} /\ blk[p] \in Blocks
    BY <1>1, <1>3, Units
  <2>2. QED
    BY <1>3, <1>4, <2>1 DEF Used, Blocks
<1>6. /\ c \in Blocks /\ ~c[o].free /\ Used(c) = Used(blk[p])
      /\ \A q \in Offsets : c[q].size = blk[p][q].size /\ (q # o => c[q] = blk[p][q])
  BY <1>3, <1>5, FlagOff
<1>7. blk'[p] = c /\ blk' = [blk EXCEPT ![p] = c]
  BY <1>1, <1>3
<1>8. blk' \in [Pages -> Blocks] /\ \A q \in Pages \ {p} : blk'[q] = blk[q]
  BY <1>1, <1>3, <1>6, <1>7
<1> HIDE DEF c
<1>9. Lives(blk[p], c, {}, {o}) /\ Apart(blk[p]) /\ Apart(c) /\ o \notin LiveIn(blk[p])
  <2>1. Apart(blk[p])
    BY <1>3, <1>4 DEF Shape, SmallPart, SmallFits
  <2>2. ~c[o].free
    BY <1>6
  <2>3. o \notin LiveIn(blk[p])
    BY <1>4 DEF LiveIn
  <2>4. QED
    BY <1>5, <1>6, <2>1, <2>2, <2>3, FlagLives
<1>10. HandsOut
  BY <1>3, <1>7, <1>8, <1>9 DEF HandsOut, Touches
<1>11. Alone("medium") /\ Alone("large") /\ Alone("none")
  BY <1>1, <1>4, <1>8 DEF Alone
<1>12. MediumPart' /\ MediumTypes' /\ LargePart'
  BY <1>1, <1>11, MediumAlone, LargeAlone DEF Shape
<1>13. NonePart'
  BY <1>11, Same DEF Shape, NonePart, Alone
<1>14. PageTypes' /\ SmallTypes' /\ largeUsed' \in Seq(Pages)
  <2>1. smallFree' \in [SmallSizes -> Seq(Places)]
    BY <1>1, <1>2
  <2>2. QED
    BY <1>1, <1>8, <2>1, Same DEF Shape, PageTypes, SmallTypes
<1>15. SmallPart'
  <2>1. \A q \in Pages : kind[q] = "small" => SmallFits(PageUnits, SmallSizes, extent[q], blk'[q])
    <3>1. SmallFits(PageUnits, SmallSizes, extent[p], c)
      <4>1. SmallFits(PageUnits, SmallSizes, extent[p], blk[p])
        BY <1>3, <1>4 DEF Shape, SmallPart
      <4>2. Used(c) \subseteq Offsets
        BY <1>6 DEF Used, Blocks
      <4>3. QED
        BY <1>6, <1>9, <4>1, <4>2 DEF SmallFits
    <3>2. QED
      BY <1>7, <1>8, <3>1 DEF Shape, SmallPart
  <2>2. ASSUME NEW m \in SmallSizes
        PROVE  /\ IsInjective(smallFree'[m])
               /\ \A y \in Places :
                    y \in ToSet(smallFree'[m]) <=>
                      kind[y[1]] = "small" /\ blk'[y[1]][y[2]].free /\ blk'[y[1]][y[2]].size = m
    <3>1. /\ IsInjective(smallFree[m])
          /\ \A y \in Places :
               y \in ToSet(smallFree[m]) <=>
                 kind[y[1]] = "small" /\ blk[y[1]][y[2]].free /\ blk[y[1]][y[2]].size = m
      BY DEF Shape, SmallPart
    <3>2. IsInjective(smallFree'[m]) /\ ToSet(smallFree'[m]) = ToSet(smallFree[m]) \ {x}
      <4>1. CASE m = n
        BY <1>1, <1>2, <4>1
      <4>2. CASE m # n
        <5>1. smallFree'[m] = smallFree[m]
          BY <1>1, <4>2
        <5>2. x \notin ToSet(smallFree[m])
          BY <1>2, <1>4, <3>1, <4>2 DEF p, o
        <5>3. QED
          BY <3>1, <5>1, <5>2
      <4>3. QED
        BY <4>1, <4>2
    <3>3. \A y \in Places : /\ y[1] \in Pages /\ y[2] \in Offsets
                            /\ y # x => y[1] # p \/ y[2] # o
      BY <1>3 DEF Places
    <3>4. \A y \in Places : y # x => blk'[y[1]][y[2]] = blk[y[1]][y[2]]
      BY <1>6, <1>7, <1>8, <3>3
    <3>5. ~blk'[x[1]][x[2]].free
      BY <1>6, <1>7 DEF p, o
    <3>6. QED
      BY <3>1, <3>2, <3>4, <3>5
  <2>3. \A q \in Used(blk'[smallCur]) : q + blk'[smallCur][q].size <= smallOff
    <3>1. \A q \in Used(blk[smallCur]) : q + blk[smallCur][q].size <= smallOff
      BY DEF Shape, SmallPart
    <3>2. CASE smallCur = p
      <4>1. Used(c) \subseteq Offsets
        BY <1>6 DEF Used, Blocks
      <4>2. QED
        BY <1>6, <1>7, <3>1, <3>2, <4>1
    <3>3. CASE smallCur # p
      BY <1>1, <1>8, <3>1, <3>3
    <3>4. QED
      BY <3>2, <3>3
  <2>4. /\ IsInjective(smallUsed) /\ smallCur \notin ToSet(smallUsed)
        /\ \A q \in Pages : kind[q] = "small" <=> q = smallCur \/ q \in ToSet(smallUsed)
    BY DEF Shape, SmallPart
  <2>5. /\ kind' = kind /\ extent' = extent /\ smallCur' = smallCur /\ smallOff' = smallOff
        /\ smallUsed' = smallUsed
    BY <1>1
  <2>6. QED
    BY <2>1, <2>2, <2>3, <2>4, <2>5, Same DEF SmallPart
<1>16. QED
  BY <1>10, <1>12, <1>13, <1>14, <1>15 DEF Shape

LEMMA SmallCutOK ==
  ASSUME layout \in Layouts, Shape, layout' = layout, NEW n \in SmallSizes, SmallCut(n)
  PROVE  Shape' /\ HandsOut
<1> DEFINE p == smallCur
           o == smallOff
           v == UsedBlock(n)
           c == [blk[p] EXCEPT ![o] = v]
<1>1. /\ smallFree' = smallFree /\ smallOff' = o + n /\ blk \in [Pages -> Blocks]
      /\ UNCHANGED <<kind, extent, allocated, smallCur, smallUsed, largeUsed>>
      /\ UNCHANGED mediumVars
      /\ p \in Pages /\ o \in 0 .. PageUnits /\ n <= extent[p] - o
      /\ Len(smallUsed)' = Len(smallUsed) /\ Len(mediumFree)' = Len(mediumFree)
      /\ Len(mediumUsed)' = Len(mediumUsed) /\ Len(largeUsed)' = Len(largeUsed)
  BY DEF Shape, SmallCut, SmallTypes, PageTypes, pageVars, mediumVars
<1>2. blk' = [blk EXCEPT ![p] = c]
  BY <1>1 DEF SmallCut
<1>3. kind[p] = "small" /\ SmallFits(PageUnits, SmallSizes, extent[p], blk[p])
  BY <1>1 DEF Shape, SmallPart
<1> HIDE DEF p, o, c
<1>4. n \in Nat \ {0} /\ PageUnits \in Nat /\ Offsets = 0 .. (PageUnits - 1) /\ blk[p] \in Blocks
  BY <1>1, Units
<1>5. extent[p] = PageUnits /\ Apart(blk[p])
      /\ \A q \in Used(blk[p]) : blk[p][q].size \in SmallSizes
  BY <1>3 DEF SmallFits
<1>6. o \in Offsets /\ o \in Nat /\ o + n \in 0 .. PageUnits
  BY <1>1, <1>4, <1>5
<1>7. \A q \in Used(blk[p]) : /\ q \in Offsets /\ q \in Nat /\ blk[p][q].size \in Nat \ {0}
                              /\ q + blk[p][q].size <= o /\ q < o
  <2> TAKE q \in Used(blk[p])
  <2>1. q \in Offsets
    BY <1>4 DEF Used, Blocks
  <2>2. q + blk[p][q].size <= o
    BY DEF Shape, SmallPart, p, o
  <2>3. blk[p][q].size \in Nat \ {0}
    BY <1>5, Units
  <2>4. QED
    BY <1>4, <1>6, <2>1, <2>2, <2>3
<1>8. /\ c \in Blocks /\ c[o].size = n /\ ~c[o].free /\ Used(c) = Used(blk[p]) \cup {o}
      /\ \A q \in Offsets : q # o => c[q] = blk[p][q]
  <2>1. v \in Entries /\ v.size = n /\ ~v.free /\ v.size > 0
    BY <1>4, HandedOut
  <2> HIDE DEF v
  <2>2. /\ c \in Blocks /\ c[o] = v /\ Used(c) = Used(blk[p]) \cup {o}
        /\ \A q \in Offsets : q # o => c[q] = blk[p][q]
    <3>1. c \in Blocks
      BY <1>4, <1>6, <2>1, SetBlock DEF c
    <3>2. c[o] = v
      BY <1>4, <1>6 DEF c, Blocks
    <3>3. \A q : q \in Used(c) <=> q \in Used(blk[p]) \/ q = o
      BY <1>4, <1>6, <2>1, SetBlock DEF c
    <3>4. \A q \in Offsets : q # o => c[q] = blk[p][q]
      BY <1>4, <1>6, <2>1, SetBlock DEF c
    <3>5. QED
      BY <3>1, <3>2, <3>3, <3>4
  <2>3. QED
    BY <2>1, <2>2
<1>9. /\ blk'[p] = c /\ \A q \in Pages \ {p} : blk'[q] = blk[q]
      /\ blk' \in [Pages -> Blocks]
  BY <1>1, <1>2, <1>8
<1>10. o \notin Used(blk[p]) /\ \A q \in Used(blk[p]) : c[q] = blk[p][q]
  BY <1>6, <1>7, <1>8
<1>11. Apart(c)
  <2> SUFFICES ASSUME NEW u \in Used(c), NEW w \in Used(c), u < w PROVE u + c[u].size <= w
    BY DEF Apart
  <2>1. u \in Used(blk[p]) /\ c[u] = blk[p][u]
    <3>1. u # o
      BY <1>6, <1>7, <1>8
    <3>2. QED
      BY <1>8, <1>10, <3>1
  <2>2. CASE w = o
    BY <1>7, <2>1, <2>2
  <2>3. CASE w # o
    BY <1>5, <1>8, <2>1, <2>3 DEF Apart
  <2>4. QED
    BY <2>2, <2>3
<1>12. Lives(blk[p], c, {}, {o}) /\ o \notin LiveIn(blk[p])
  <2>1. LiveIn(c) = LiveIn(blk[p]) \cup {o}
    BY <1>8, <1>10 DEF LiveIn
  <2>2. QED
    BY <1>10, <2>1 DEF Lives, LiveIn
<1>13. HandsOut
  BY <1>1, <1>6, <1>9, <1>12 DEF HandsOut, Touches
<1>14. Alone("medium") /\ Alone("large") /\ Alone("none")
  BY <1>1, <1>3, <1>9 DEF Alone
<1>15. MediumPart' /\ MediumTypes' /\ LargePart'
  BY <1>1, <1>14, MediumAlone, LargeAlone DEF Shape
<1>16. NonePart'
  BY <1>14, Same DEF Shape, NonePart, Alone
<1>17. PageTypes' /\ SmallTypes' /\ largeUsed' \in Seq(Pages)
  BY <1>1, <1>6, <1>9, Same DEF Shape, PageTypes, SmallTypes
<1>18. SmallPart'
  <2>1. \A q \in Pages : kind[q] = "small" => SmallFits(PageUnits, SmallSizes, extent[q], blk'[q])
    <3>1. SmallFits(PageUnits, SmallSizes, extent[p], c)
      BY <1>5, <1>8, <1>10, <1>11 DEF SmallFits
    <3>2. QED
      BY <1>9, <3>1 DEF Shape, SmallPart
  <2>2. ASSUME NEW m \in SmallSizes
        PROVE  /\ IsInjective(smallFree[m])
               /\ \A y \in Places :
                    y \in ToSet(smallFree[m]) <=>
                      kind[y[1]] = "small" /\ blk'[y[1]][y[2]].free /\ blk'[y[1]][y[2]].size = m
    <3>1. /\ IsInjective(smallFree[m])
          /\ \A y \in Places :
               y \in ToSet(smallFree[m]) <=>
                 kind[y[1]] = "small" /\ blk[y[1]][y[2]].free /\ blk[y[1]][y[2]].size = m
      BY DEF Shape, SmallPart
    <3>2. \A y \in Places : /\ y[1] \in Pages /\ y[2] \in Offsets
      BY DEF Places
    <3>3. \A y \in Places : y[1] # p \/ y[2] # o => blk'[y[1]][y[2]] = blk[y[1]][y[2]]
      BY <1>8, <1>9, <3>2
    <3>4. ~blk'[p][o].free /\ blk[p][o].size # m
      <4>1. m > 0 /\ ~(blk[p][o].size > 0)
        BY <1>4, <1>6, <1>10, Units DEF Used, Blocks
      <4>2. QED
        BY <1>8, <1>9, <4>1
    <3>5. QED
      BY <3>1, <3>3, <3>4
  <2>3. \A q \in Used(blk'[p]) : q + blk'[p][q].size <= o + n
    <3> SUFFICES ASSUME NEW q \in Used(c) PROVE q + c[q].size <= o + n
      BY <1>9
    <3>1. CASE q = o
      BY <1>4, <1>6, <1>8, <3>1
    <3>2. CASE q # o
      <4>1. q \in Used(blk[p]) /\ c[q] = blk[p][q]
        BY <1>8, <1>10, <3>2
      <4>2. QED
        BY <1>4, <1>6, <1>7, <4>1
    <3>3. QED
      BY <3>1, <3>2
  <2>4. /\ IsInjective(smallUsed) /\ smallCur \notin ToSet(smallUsed)
        /\ \A q \in Pages : kind[q] = "small" <=> q = smallCur \/ q \in ToSet(smallUsed)
    BY DEF Shape, SmallPart
  <2>5. /\ kind' = kind /\ extent' = extent /\ smallCur' = smallCur /\ smallOff' = o + n
        /\ smallUsed' = smallUsed /\ smallFree' = smallFree
    BY <1>1
  <2>6. QED
    BY <2>1, <2>2, <2>3, <2>4, <2>5, Same DEF SmallPart, p
<1>19. QED
  BY <1>13, <1>15, <1>16, <1>17, <1>18 DEF Shape

\* A page malloc returns is put to use for k, and nothing else changes kind.
LEMMA NewPage ==
  ASSUME PageTypes, NEW p \in Pages, NEW k \in {"small", "medium", "large"}, NEW n \in Nat,
         AllocatePage(p, k, n), NEW c, blk' = [blk EXCEPT ![p] = c], c \in Blocks, NonePart,
         layout' = layout
  PROVE  /\ kind[p] = "none" /\ kind'[p] = k /\ extent'[p] = n /\ blk'[p] = c
         /\ \A q \in Pages \ {p} : kind'[q] = kind[q] /\ extent'[q] = extent[q] /\ blk'[q] = blk[q]
         /\ kind' \in [Pages -> {"none", "small", "medium", "large"}]
         /\ extent' \in [Pages -> Nat] /\ blk' \in [Pages -> Blocks]
         /\ allocated' = allocated + 1
         /\ blk[p] = NoBlocks /\ NonePart'
         /\ \A j \in {"small", "medium", "large"} : j # k => Alone(j)
<1>1. /\ kind[p] = "none" /\ kind' = [kind EXCEPT ![p] = k] /\ extent' = [extent EXCEPT ![p] = n]
      /\ allocated' = allocated + 1 /\ kind \in [Pages -> {"none", "small", "medium", "large"}]
      /\ extent \in [Pages -> Nat] /\ blk \in [Pages -> Blocks]
  BY DEF AllocatePage, PageTypes
<1>2. /\ kind'[p] = k /\ extent'[p] = n /\ blk'[p] = c
      /\ \A q \in Pages \ {p} : kind'[q] = kind[q] /\ extent'[q] = extent[q] /\ blk'[q] = blk[q]
      /\ kind' \in [Pages -> {"none", "small", "medium", "large"}]
      /\ extent' \in [Pages -> Nat] /\ blk' \in [Pages -> Blocks]
  BY <1>1
<1>3. blk[p] = NoBlocks
  BY <1>1 DEF NonePart
<1>4. NonePart'
  BY <1>1, <1>2, Same DEF NonePart
<1>5. \A j \in {"small", "medium", "large"} : j # k => Alone(j)
  BY <1>1, <1>2 DEF Alone
<1>6. QED
  BY <1>1, <1>2, <1>3, <1>4, <1>5

LEMMA SmallNewPageOK ==
  ASSUME layout \in Layouts, Shape, layout' = layout, NEW n \in SmallSizes, SmallNewPage(n)
  PROVE  Shape' /\ HandsOut
<1> DEFINE v == UsedBlock(n)
           c == [NoBlocks EXCEPT ![0] = v]
<1>1. PICK p \in Pages : /\ AllocatePage(p, "small", PageUnits) /\ blk' = [blk EXCEPT ![p] = c]
                         /\ smallUsed' = <<smallCur>> \o smallUsed /\ smallCur' = p
  BY DEF SmallNewPage
<1>2. /\ smallFree' = smallFree /\ smallOff' = n
      /\ UNCHANGED mediumVars /\ UNCHANGED largeUsed
      /\ smallCur \in Pages /\ smallUsed \in Seq(Pages) /\ largeUsed \in Seq(Pages)
  BY DEF Shape, SmallNewPage, SmallTypes
<1>3. n \in Nat \ {0} /\ n <= PageUnits /\ PageUnits \in Nat /\ 0 \in Offsets
  BY Units
<1>4. /\ c \in Blocks /\ c[0].size = n /\ ~c[0].free /\ Used(c) = {0}
      /\ \A q \in Offsets : q # 0 => c[q].size = 0
  <2>1. NoBlocks \in Blocks /\ Used(NoBlocks) = {} /\ \A q \in Offsets : NoBlocks[q].size = 0
    BY NoBlocksFacts
  <2>2. v \in Entries /\ v.size = n /\ ~v.free /\ v.size > 0
    BY <1>3, HandedOut
  <2> HIDE DEF v
  <2>3. /\ c \in Blocks /\ c[0] = v /\ Used(c) = Used(NoBlocks) \cup {0}
        /\ \A q \in Offsets : q # 0 => c[q] = NoBlocks[q]
    <3>1. c \in Blocks
      BY <1>3, <2>1, <2>2, SetBlock
    <3>2. c[0] = v
      BY <1>3, <2>1 DEF Blocks
    <3>3. \A q : q \in Used(c) <=> q \in Used(NoBlocks) \/ q = 0
      BY <1>3, <2>1, <2>2, SetBlock
    <3>4. \A q \in Offsets : q # 0 => c[q] = NoBlocks[q]
      BY <1>3, <2>1, <2>2, SetBlock
    <3>5. QED
      BY <3>1, <3>2, <3>3, <3>4
  <2> HIDE DEF c
  <2>4. QED
    BY <2>1, <2>2, <2>3
<1> HIDE DEF c
<1>5. /\ kind[p] = "none" /\ kind'[p] = "small" /\ extent'[p] = PageUnits /\ blk'[p] = c
      /\ \A q \in Pages \ {p} : kind'[q] = kind[q] /\ extent'[q] = extent[q] /\ blk'[q] = blk[q]
      /\ kind' \in [Pages -> {"none", "small", "medium", "large"}]
      /\ extent' \in [Pages -> Nat] /\ blk' \in [Pages -> Blocks]
      /\ allocated' = allocated + 1
      /\ blk[p] = NoBlocks /\ NonePart'
      /\ \A j \in {"small", "medium", "large"} : j # "small" => Alone(j)
  BY <1>1, <1>3, <1>4, NewPage DEF Shape
<1>6. Alone("medium") /\ Alone("large")
  BY <1>5
<1>7. MediumPart' /\ MediumTypes' /\ LargePart'
  BY <1>2, <1>6, MediumAlone, LargeAlone DEF Shape
<1>8. HandsOut
  <2>1. LiveIn(blk[p]) = {} /\ LiveIn(c) = {0}
    BY <1>4, <1>5, NoBlocksFacts DEF LiveIn
  <2>2. QED
    BY <1>3, <1>5, <2>1 DEF HandsOut, Touches, Lives
<1>9. /\ smallUsed' \in Seq(Pages) /\ ToSet(smallUsed') = ToSet(smallUsed) \cup {smallCur}
      /\ IsInjective(smallUsed') /\ Len(smallUsed') = Len(smallUsed) + 1
  <2>1. IsInjective(smallUsed) /\ smallCur \notin ToSet(smallUsed)
    BY DEF Shape, SmallPart
  <2>2. QED
    BY <1>1, <1>2, <2>1, ConsFacts, ConsLen
<1>10. PageTypes'
  <2>1. UNCHANGED <<mediumFree, mediumUsed, largeUsed>>
    BY <1>2 DEF mediumVars
  <2>2. allocated = 1 + Len(smallUsed) + Len(mediumFree) + Len(mediumUsed) + Len(largeUsed)
    BY DEF Shape, PageTypes
  <2>3. /\ Len(smallUsed) \in Nat /\ Len(mediumFree) \in Nat /\ Len(mediumUsed) \in Nat
        /\ Len(largeUsed) \in Nat
    BY <1>2 DEF Shape, MediumTypes
  <2>4. allocated' = 1 + Len(smallUsed') + Len(mediumFree') + Len(mediumUsed') + Len(largeUsed')
    BY <1>5, <1>9, <2>1, <2>2, <2>3
  <2>5. QED
    BY <1>5, <2>4, Same DEF PageTypes
<1>11. SmallTypes' /\ largeUsed' \in Seq(Pages)
  <2>1. smallFree \in [SmallSizes -> Seq(Places)]
    BY DEF Shape, SmallTypes
  <2>2. n \in 0 .. PageUnits
    BY <1>3
  <2>3. QED
    BY <1>1, <1>2, <1>9, <2>1, <2>2, Same DEF SmallTypes
<1>12. SmallPart'
  <2>1. \A q \in Pages : kind'[q] = "small" =>
          SmallFits(PageUnits, SmallSizes, extent'[q], blk'[q])
    <3>1. SmallFits(PageUnits, SmallSizes, extent'[p], c)
      BY <1>4, <1>5 DEF SmallFits, Apart
    <3>2. QED
      BY <1>5, <3>1 DEF Shape, SmallPart
  <2>2. ASSUME NEW m \in SmallSizes
        PROVE  /\ IsInjective(smallFree[m])
               /\ \A y \in Places :
                    y \in ToSet(smallFree[m]) <=>
                      kind'[y[1]] = "small" /\ blk'[y[1]][y[2]].free /\ blk'[y[1]][y[2]].size = m
    <3>1. /\ IsInjective(smallFree[m])
          /\ \A y \in Places :
               y \in ToSet(smallFree[m]) <=>
                 kind[y[1]] = "small" /\ blk[y[1]][y[2]].free /\ blk[y[1]][y[2]].size = m
      BY DEF Shape, SmallPart
    <3>2. \A y \in Places : /\ y[1] \in Pages /\ y[2] \in Offsets
      BY DEF Places
    <3>3. \A y \in Places : y[1] # p => blk'[y[1]] = blk[y[1]] /\ kind'[y[1]] = kind[y[1]]
      BY <1>5, <3>2
    <3>4. \A u \in Offsets : ~(c[u].free /\ c[u].size = m)
      <4>1. m # 0
        BY Units
      <4>2. QED
        BY <1>4, <4>1
    <3>5. QED
      BY <1>5, <3>1, <3>2, <3>3, <3>4
  <2>3. \A q \in Used(blk'[p]) : q + blk'[p][q].size <= n
    BY <1>3, <1>4, <1>5
  <2>4. \A q \in Pages : kind[q] = "small" <=> q = smallCur \/ q \in ToSet(smallUsed)
    BY DEF Shape, SmallPart
  <2>5. IsInjective(smallUsed') /\ p \notin ToSet(smallUsed')
        /\ \A q \in Pages : kind'[q] = "small" <=> q = p \/ q \in ToSet(smallUsed')
    BY <1>2, <1>5, <1>9, <2>4
  <2>6. /\ smallCur' = p /\ smallOff' = n /\ smallFree' = smallFree
    BY <1>1, <1>2
  <2>7. QED
    BY <2>1, <2>2, <2>3, <2>5, <2>6, Same DEF SmallPart
<1>13. QED
  BY <1>5, <1>7, <1>8, <1>10, <1>11, <1>12 DEF Shape

LEMMA SmallFreeOK ==
  ASSUME layout \in Layouts, Shape, layout' = layout, NEW x \in Places, Live(x),
         kind[x[1]] = "small", SmallFree(x)
  PROVE  Shape' /\ TakesBack(x)
<1> DEFINE p == x[1]
           o == x[2]
           n == blk[p][o].size
           c == [blk[p] EXCEPT ![o].free = TRUE]
<1>1. /\ smallFree \in [SmallSizes -> Seq(Places)]
      /\ smallFree' = [smallFree EXCEPT ![n] = <<x>> \o smallFree[n]]
      /\ blk' = [blk EXCEPT ![p][o].free = TRUE] /\ blk \in [Pages -> Blocks]
      /\ UNCHANGED <<kind, extent, allocated, smallCur, smallOff, smallUsed, largeUsed>>
      /\ UNCHANGED mediumVars
      /\ smallCur \in Pages
      /\ Len(smallUsed)' = Len(smallUsed) /\ Len(mediumFree)' = Len(mediumFree)
      /\ Len(mediumUsed)' = Len(mediumUsed) /\ Len(largeUsed)' = Len(largeUsed)
  BY DEF Shape, SmallFree, SmallTypes, PageTypes, pageVars, mediumVars
<1>2. p \in Pages /\ o \in Offsets /\ x = <<p, o>>
  BY DEF Places
<1>3. kind[p] = "small" /\ n > 0 /\ ~blk[p][o].free
  BY DEF Live
<1> HIDE DEF p, o
<1>4. blk[p] \in Blocks /\ o \in Used(blk[p])
  BY <1>1, <1>2, <1>3 DEF Used, Blocks
<1>5. Apart(blk[p]) /\ \A q \in Used(blk[p]) : blk[p][q].size \in SmallSizes
  BY <1>2, <1>3 DEF Shape, SmallPart, SmallFits
<1>6. n \in SmallSizes
  BY <1>4, <1>5
<1>7. /\ c \in Blocks /\ c[o].free /\ Used(c) = Used(blk[p])
      /\ \A q \in Offsets : c[q].size = blk[p][q].size /\ (q # o => c[q] = blk[p][q])
  BY <1>2, <1>4, FlagOn
<1>8. blk'[p] = c /\ blk' = [blk EXCEPT ![p] = c]
  BY <1>1, <1>2
<1>9. blk' \in [Pages -> Blocks] /\ \A q \in Pages \ {p} : blk'[q] = blk[q]
  BY <1>1, <1>2, <1>7, <1>8
<1> HIDE DEF c, n
<1>10. Lives(blk[p], c, {o}, {}) /\ Apart(c)
  BY <1>4, <1>5, <1>7, FlagLives
<1>11. TakesBack(x)
  BY <1>8, <1>9, <1>10 DEF TakesBack, Touches, p, o
<1>12. Alone("medium") /\ Alone("large") /\ Alone("none")
  BY <1>1, <1>3, <1>9 DEF Alone
<1>13. MediumPart' /\ MediumTypes' /\ LargePart'
  BY <1>1, <1>12, MediumAlone, LargeAlone DEF Shape
<1>14. NonePart'
  BY <1>12, Same DEF Shape, NonePart, Alone
<1>15. /\ <<x>> \o smallFree[n] \in Seq(Places) /\ IsInjective(<<x>> \o smallFree[n])
       /\ ToSet(<<x>> \o smallFree[n]) = ToSet(smallFree[n]) \cup {x}
  <2>1. IsInjective(smallFree[n]) /\ smallFree[n] \in Seq(Places) /\ x \notin ToSet(smallFree[n])
    BY <1>1, <1>3, <1>6 DEF Shape, SmallPart, p, o
  <2>2. QED
    BY <2>1, ConsFacts
<1>16. PageTypes' /\ SmallTypes' /\ largeUsed' \in Seq(Pages)
  <2>1. smallFree' \in [SmallSizes -> Seq(Places)]
    BY <1>1, <1>15
  <2>2. QED
    BY <1>1, <1>9, <2>1, Same DEF Shape, PageTypes, SmallTypes
<1>17. SmallPart'
  <2>1. \A q \in Pages : kind[q] = "small" => SmallFits(PageUnits, SmallSizes, extent[q], blk'[q])
    <3>1. SmallFits(PageUnits, SmallSizes, extent[p], c)
      <4>1. SmallFits(PageUnits, SmallSizes, extent[p], blk[p])
        BY <1>2, <1>3 DEF Shape, SmallPart
      <4>2. Used(c) \subseteq Offsets
        BY <1>7 DEF Used, Blocks
      <4>3. QED
        BY <1>7, <1>10, <4>1, <4>2 DEF SmallFits
    <3>2. QED
      BY <1>8, <1>9, <3>1 DEF Shape, SmallPart
  <2>2. ASSUME NEW m \in SmallSizes
        PROVE  /\ IsInjective(smallFree'[m])
               /\ \A y \in Places :
                    y \in ToSet(smallFree'[m]) <=>
                      kind[y[1]] = "small" /\ blk'[y[1]][y[2]].free /\ blk'[y[1]][y[2]].size = m
    <3>1. /\ IsInjective(smallFree[m])
          /\ \A y \in Places :
               y \in ToSet(smallFree[m]) <=>
                 kind[y[1]] = "small" /\ blk[y[1]][y[2]].free /\ blk[y[1]][y[2]].size = m
      BY DEF Shape, SmallPart
    <3>2. IsInjective(smallFree'[m])
          /\ ToSet(smallFree'[m]) = IF m = n THEN ToSet(smallFree[m]) \cup {x} ELSE ToSet(smallFree[m])
      BY <1>1, <1>6, <1>15, <3>1
    <3>3. \A y \in Places : /\ y[1] \in Pages /\ y[2] \in Offsets
                            /\ y # x => y[1] # p \/ y[2] # o
      BY <1>2 DEF Places
    <3>4. \A y \in Places : y # x => blk'[y[1]][y[2]] = blk[y[1]][y[2]]
      BY <1>7, <1>8, <1>9, <3>3
    <3>5. blk'[x[1]][x[2]].free /\ blk'[x[1]][x[2]].size = n /\ kind[x[1]] = "small"
          /\ ~blk[x[1]][x[2]].free
      BY <1>2, <1>3, <1>7, <1>8 DEF p, o, n
    <3>6. QED
      BY <3>1, <3>2, <3>4, <3>5
  <2>3. \A q \in Used(blk'[smallCur]) : q + blk'[smallCur][q].size <= smallOff
    <3>1. \A q \in Used(blk[smallCur]) : q + blk[smallCur][q].size <= smallOff
      BY DEF Shape, SmallPart
    <3>2. CASE smallCur = p
      <4>1. Used(c) \subseteq Offsets
        BY <1>7 DEF Used, Blocks
      <4>2. QED
        BY <1>7, <1>8, <3>1, <3>2, <4>1
    <3>3. CASE smallCur # p
      BY <1>1, <1>9, <3>1, <3>3
    <3>4. QED
      BY <3>2, <3>3
  <2>4. /\ IsInjective(smallUsed) /\ smallCur \notin ToSet(smallUsed)
        /\ \A q \in Pages : kind[q] = "small" <=> q = smallCur \/ q \in ToSet(smallUsed)
    BY DEF Shape, SmallPart
  <2>5. /\ kind' = kind /\ extent' = extent /\ smallCur' = smallCur /\ smallOff' = smallOff
        /\ smallUsed' = smallUsed
    BY <1>1
  <2>6. QED
    BY <2>1, <2>2, <2>3, <2>4, <2>5, Same DEF SmallPart
<1>18. QED
  BY <1>11, <1>13, <1>14, <1>16, <1>17 DEF Shape

-------------------------------------------------------------------------------
(* Medium blocks. *)

LEMMA AppendLen ==
  ASSUME NEW S, NEW s \in Seq(S), NEW x \in S
  PROVE  Len(Append(s, x)) = Len(s) + 1
  OBVIOUS

\* page_allocated counts the pages of all lists.
Counted(a, s, f, u, l) == a = 1 + Len(s) + Len(f) + Len(u) + Len(l)

LEMMA CountStep ==
  ASSUME NEW a, NEW s \in Seq(Pages), NEW f \in Seq(Pages), NEW u \in Seq(Pages),
         NEW l \in Seq(Pages), NEW f1, NEW u1, Counted(a, s, f, u, l),
         Len(f1) \in Nat, Len(u1) \in Nat
  PROVE  /\ Len(f1) + Len(u1) = Len(f) + Len(u) => Counted(a, s, f1, u1, l)
         /\ Len(f1) + Len(u1) = (Len(f) + 1) + Len(u) => Counted(a + 1, s, f1, u1, l)
         /\ (Len(f1) + Len(u1)) + 1 = Len(f) + Len(u) => Counted(a - 1, s, f1, u1, l)
<1> DEFINE ls == Len(s)
           lf == Len(f)
           lu == Len(u)
           ll == Len(l)
           lf1 == Len(f1)
           lu1 == Len(u1)
<1>1. ls \in Nat /\ lf \in Nat /\ lu \in Nat /\ ll \in Nat /\ lf1 \in Nat /\ lu1 \in Nat
  OBVIOUS
<1>2. a = 1 + ls + lf + lu + ll
  BY DEF Counted
<1> HIDE DEF ls, lf, lu, ll, lf1, lu1
<1>3. /\ lf1 + lu1 = lf + lu => a = 1 + ls + lf1 + lu1 + ll
      /\ lf1 + lu1 = (lf + 1) + lu => a + 1 = 1 + ls + lf1 + lu1 + ll
      /\ (lf1 + lu1) + 1 = lf + lu => a - 1 = 1 + ls + lf1 + lu1 + ll
  BY <1>1, <1>2
<1>4. QED
  BY <1>3 DEF ls, lf, lu, ll, lf1, lu1, Counted

LEMMA CountLarge ==
  ASSUME NEW a, NEW s \in Seq(Pages), NEW f \in Seq(Pages), NEW u \in Seq(Pages),
         NEW l \in Seq(Pages), NEW l1 \in Seq(Pages), Counted(a, s, f, u, l)
  PROVE  /\ Len(l1) = Len(l) + 1 => Counted(a + 1, s, f, u, l1)
         /\ Len(l1) = Len(l) - 1 => Counted(a - 1, s, f, u, l1)
<1> DEFINE ls == Len(s)
           lf == Len(f)
           lu == Len(u)
           ll == Len(l)
           l2 == Len(l1)
<1>1. ls \in Nat /\ lf \in Nat /\ lu \in Nat /\ ll \in Nat /\ l2 \in Nat
  OBVIOUS
<1>2. a = 1 + ls + lf + lu + ll
  BY DEF Counted
<1> HIDE DEF ls, lf, lu, ll, l2
<1>3. /\ l2 = ll + 1 => a + 1 = 1 + ls + lf + lu + l2
      /\ l2 = ll - 1 => a - 1 = 1 + ls + lf + lu + l2
  BY <1>1, <1>2
<1>4. QED
  BY <1>3 DEF ls, lf, lu, ll, l2, Counted

\* a and u are the page lists after a block was carved out of page p of pages,
\* which is then full or not.
IsRelist(p, pages, used, full, a, u) ==
  /\ a = IF full THEN Unlink(pages, p) ELSE <<p>> \o Unlink(pages, p)
  /\ u = IF full THEN <<p>> \o used ELSE used

LEMMA Relisted ==
  ASSUME NEW p \in Pages, NEW pages \in Seq(Pages), NEW used \in Seq(Pages), NEW lg, NEW m,
         NEW a, NEW u, IsRelist(p, pages, used, lg < m, a, u),
         IsInjective(pages), IsInjective(used), p \in ToSet(pages), p \notin ToSet(used)
  PROVE  /\ a \in Seq(Pages) /\ u \in Seq(Pages) /\ IsInjective(a) /\ IsInjective(u)
         /\ \A q : q \in ToSet(a) <=> q \in ToSet(pages) /\ (q # p \/ ~(lg < m))
         /\ \A q : q \in ToSet(u) <=> q \in ToSet(used) \/ (q = p /\ lg < m)
         /\ Len(a) + Len(u) = Len(pages) + Len(used)
         /\ Len(a) \in Nat /\ Len(u) \in Nat
<1> DEFINE r == Unlink(pages, p)
<1>1. r \in Seq(Pages) /\ IsInjective(r) /\ ToSet(r) = ToSet(pages) \ {p} /\ Len(r) = Len(pages) - 1
  BY UnlinkFacts
<1> HIDE DEF r
<1>2. Len(pages) \in Nat /\ Len(used) \in Nat
  OBVIOUS
<1>3. /\ <<p>> \o r \in Seq(Pages) /\ IsInjective(<<p>> \o r) /\ ToSet(<<p>> \o r) = ToSet(r) \cup {p}
      /\ Len(<<p>> \o r) = Len(pages)
  <2>1. p \notin ToSet(r)
    BY <1>1
  <2>2. Len(<<p>> \o r) = Len(r) + 1
    BY <1>1, ConsLen
  <2>3. QED
    BY <1>1, <1>2, <2>1, <2>2, ConsFacts
<1>4. /\ <<p>> \o used \in Seq(Pages) /\ IsInjective(<<p>> \o used)
      /\ ToSet(<<p>> \o used) = ToSet(used) \cup {p}
      /\ Len(<<p>> \o used) = Len(used) + 1
  BY ConsFacts, ConsLen
<1>5. CASE lg < m
  <2>1. a = r /\ u = <<p>> \o used
    BY <1>5 DEF r, IsRelist
  <2>2. Len(a) + Len(u) = Len(pages) + Len(used) /\ Len(a) \in Nat /\ Len(u) \in Nat
    <3> DEFINE la == Len(a)
               lu == Len(u)
               lp == Len(pages)
               ls == Len(used)
    <3>1. la = lp - 1 /\ lu = ls + 1 /\ la \in Nat /\ lp \in Nat /\ ls \in Nat
      BY <1>1, <1>2, <1>4, <2>1
    <3> HIDE DEF la, lu, lp, ls
    <3>2. la + lu = lp + ls /\ la \in Nat /\ lu \in Nat
      BY <3>1
    <3>3. QED
      BY <3>2 DEF la, lu, lp, ls
  <2>3. QED
    BY <1>1, <1>4, <1>5, <2>1, <2>2
<1>6. CASE ~(lg < m)
  <2>1. a = <<p>> \o r /\ u = used
    BY <1>6 DEF r, IsRelist
  <2>2. Len(a) + Len(u) = Len(pages) + Len(used) /\ Len(a) \in Nat /\ Len(u) \in Nat
    BY <1>2, <1>3, <2>1
  <2>3. QED
    BY <1>1, <1>3, <1>6, <2>1, <2>2
<1>7. QED
  BY <1>5, <1>6

LEMMA CarveShape ==
  ASSUME layout \in Layouts, layout' = layout, MediumPart, MediumTypes, blk \in [Pages -> Blocks],
         NEW p \in Pages, NEW pg, NEW b, NEW n, Carved(b, MediumAllocDataFromPage(pg, n)),
         NEW pages \in Seq(Pages), IsInjective(pages),
         \A q : q \in ToSet(pages) <=> q \in ToSet(mediumFree) \/ q = p,
         p \notin ToSet(mediumUsed), CarveFrom(p, pg, pages, n),
         kind'[p] = "medium", extent'[p] = PageUnits,
         \A q \in Pages \ {p} : kind'[q] = kind[q] /\ extent'[q] = extent[q]
  PROVE  /\ MediumPart' /\ MediumTypes'
         /\ blk' \in [Pages -> Blocks] /\ \A q \in Pages \ {p} : blk'[q] = blk[q]
         /\ \E o \in Offsets : o \notin LiveIn(b) /\ Lives(b, blk'[p], {}, {o})
         /\ Len(mediumFree') + Len(mediumUsed') = Len(pages) + Len(mediumUsed)
         /\ Len(mediumFree') \in Nat /\ Len(mediumUsed') \in Nat
<1> DEFINE new == MediumAllocDataFromPage(pg, n)
           full == new.lg < Smallest
<1>1. /\ blk' = [blk EXCEPT ![p] = new.b]
      /\ freeList' = [freeList EXCEPT ![p] = new.fl]
      /\ largest' = [largest EXCEPT ![p] = new.lg]
      /\ mediumFree' = IF full THEN Unlink(pages, p) ELSE <<p>> \o Unlink(pages, p)
      /\ mediumUsed' = IF full THEN <<p>> \o mediumUsed ELSE mediumUsed
  BY DEF CarveFrom
<1>2. Carved(b, new)
  OBVIOUS
<1> HIDE DEF new
<1>3. /\ new.b \in Blocks /\ Chain(PageUnits, Smallest, new.b)
      /\ NoTwoFree(new.b, {}) /\ Listed(new.b, new.fl)
      /\ FreeIn(new.b) # {0} \/ new.b[0].size < PageUnits
      /\ new.lg \in 0 .. PageUnits
      /\ new.lg >= Smallest => new.fl # <<>> /\ new.lg = new.b[Head(new.fl)].size
      /\ new.at \in Offsets \ LiveIn(b) /\ Lives(b, new.b, {}, {new.at})
  BY <1>2 DEF Carved
<1>4. new.fl \in Seq(Offsets) /\ IsInjective(new.fl) /\ ToSet(new.fl) = FreeIn(new.b)
  BY <1>3 DEF Listed
<1>5. /\ blk'[p] = new.b /\ freeList'[p] = new.fl /\ largest'[p] = new.lg
      /\ \A q \in Pages \ {p} : /\ blk'[q] = blk[q] /\ freeList'[q] = freeList[q]
                                /\ largest'[q] = largest[q]
      /\ blk' \in [Pages -> Blocks] /\ freeList' \in [Pages -> Seq(Offsets)]
      /\ largest' \in [Pages -> 0 .. PageUnits]
  BY <1>1, <1>3, <1>4 DEF MediumTypes
<1>6. /\ mediumFree \in Seq(Pages) /\ mediumUsed \in Seq(Pages)
      /\ IsInjective(mediumFree) /\ IsInjective(mediumUsed)
      /\ \A q \in Pages : ~(q \in ToSet(mediumFree) /\ q \in ToSet(mediumUsed))
      /\ \A q \in Pages : kind[q] = "medium" <=> q \in ToSet(mediumFree) \/ q \in ToSet(mediumUsed)
  BY DEF MediumPart, MediumTypes
<1>7. /\ mediumFree' \in Seq(Pages) /\ mediumUsed' \in Seq(Pages)
      /\ IsInjective(mediumFree') /\ IsInjective(mediumUsed')
      /\ \A q : q \in ToSet(mediumFree') <=> q \in ToSet(pages) /\ (q # p \/ ~full)
      /\ \A q : q \in ToSet(mediumUsed') <=> q \in ToSet(mediumUsed) \/ (q = p /\ full)
      /\ Len(mediumFree') + Len(mediumUsed') = Len(pages) + Len(mediumUsed)
      /\ Len(mediumFree') \in Nat /\ Len(mediumUsed') \in Nat
  <2>1. p \in ToSet(pages)
    OBVIOUS
  <2>2. p \notin ToSet(mediumUsed)
    OBVIOUS
  <2> DEFINE lg == new.lg
  <2>3. IsRelist(p, pages, mediumUsed, lg < Smallest, mediumFree', mediumUsed')
    BY <1>1 DEF IsRelist
  <2> HIDE DEF lg
  <2>4. /\ mediumFree' \in Seq(Pages) /\ mediumUsed' \in Seq(Pages)
        /\ IsInjective(mediumFree') /\ IsInjective(mediumUsed')
        /\ \A q : q \in ToSet(mediumFree') <=> q \in ToSet(pages) /\ (q # p \/ ~(lg < Smallest))
        /\ \A q : q \in ToSet(mediumUsed') <=> q \in ToSet(mediumUsed) \/ (q = p /\ lg < Smallest)
        /\ Len(mediumFree') + Len(mediumUsed') = Len(pages) + Len(mediumUsed)
        /\ Len(mediumFree') \in Nat /\ Len(mediumUsed') \in Nat
    <3>1. mediumUsed \in Seq(Pages) /\ IsInjective(mediumUsed) /\ IsInjective(pages)
      BY <1>6
    <3> HIDE DEF new
    <3>2. QED
      BY <2>1, <2>2, <2>3, <3>1, Relisted
  <2>5. QED
    BY <2>4 DEF lg
<1>8. ~full <=> new.lg >= Smallest
  BY <1>3, Units
<1> HIDE DEF full
<1>9. MediumTypes'
  BY <1>5, <1>7, Same DEF MediumTypes
<1>10. MediumPart'
  <2>1. \A q \in Pages : q # p => (q \in ToSet(mediumFree') <=> q \in ToSet(mediumFree))
    BY <1>7
  <2>2. p \in ToSet(mediumFree') <=> new.lg >= Smallest
    BY <1>7, <1>8
  <2>3. MediumFits(PageUnits, Smallest, extent'[p], new.b, new.fl, new.lg, p \in ToSet(mediumFree'))
    BY <1>3, <1>4, <2>2 DEF MediumFits
  <2>4. \A q \in Pages :
          kind'[q] = "medium" =>
            MediumFits(PageUnits, Smallest, extent'[q], blk'[q], freeList'[q], largest'[q],
                       q \in ToSet(mediumFree'))
    <3> SUFFICES ASSUME NEW q \in Pages, kind'[q] = "medium"
                 PROVE  MediumFits(PageUnits, Smallest, extent'[q], blk'[q], freeList'[q],
                                   largest'[q], q \in ToSet(mediumFree'))
      OBVIOUS
    <3>1. CASE q = p
      BY <1>5, <2>3, <3>1
    <3>2. CASE q # p
      <4>1. MediumFits(PageUnits, Smallest, extent[q], blk[q], freeList[q], largest[q],
                       q \in ToSet(mediumFree))
        BY <3>2 DEF MediumPart
      <4>2. QED
        BY <1>5, <2>1, <3>2, <4>1 DEF MediumFits
    <3>3. QED
      BY <3>1, <3>2
  <2>5. \A q \in Pages : ~(q \in ToSet(mediumFree') /\ q \in ToSet(mediumUsed'))
    BY <1>6, <1>7
  <2>6. \A q \in Pages : kind'[q] = "medium" <=> q \in ToSet(mediumFree') \/ q \in ToSet(mediumUsed')
    BY <1>6, <1>7
  <2>7. QED
    BY <1>7, <2>4, <2>5, <2>6, Same DEF MediumPart
<1>11. \E o \in Offsets : o \notin LiveIn(b) /\ Lives(b, blk'[p], {}, {o})
  BY <1>3, <1>5
<1>12. QED
  BY <1>5, <1>7, <1>9, <1>10, <1>11

LEMMA MediumAllocateOK ==
  ASSUME layout \in Layouts, Shape, layout' = layout, NEW n \in MediumSizes, MediumAllocate(n)
  PROVE  Shape' /\ HandsOut
<1>1. /\ blk \in [Pages -> Blocks] /\ MediumPart /\ MediumTypes
      /\ mediumFree \in Seq(Pages) /\ mediumUsed \in Seq(Pages) /\ smallUsed \in Seq(Pages)
      /\ largeUsed \in Seq(Pages)
      /\ Counted(allocated, smallUsed, mediumFree, mediumUsed, largeUsed)
      /\ UNCHANGED smallVars /\ UNCHANGED largeUsed /\ smallUsed' = smallUsed
  BY DEF Shape, PageTypes, MediumTypes, SmallTypes, MediumAllocate, smallVars, Counted
<1>2. /\ IsInjective(mediumFree) /\ IsInjective(mediumUsed)
      /\ \A q \in Pages : ~(q \in ToSet(mediumFree) /\ q \in ToSet(mediumUsed))
      /\ \A q \in Pages : kind[q] = "medium" <=> q \in ToSet(mediumFree) \/ q \in ToSet(mediumUsed)
  BY <1>1 DEF MediumPart
<1>3. n \in Nat \ {0} /\ n >= Smallest /\ n <= PageUnits /\ PageUnits \in Nat
  BY Units
<1>4. /\ Len(mediumFree) \in Nat /\ Len(mediumUsed) \in Nat /\ Len(smallUsed) \in Nat
      /\ Len(largeUsed) \in Nat
  BY <1>1
<1>5. CASE \E i \in DOMAIN mediumFree :
             /\ HasRoom(i, n)
             /\ CarveFrom(mediumFree[i], MediumPage(mediumFree[i]), mediumFree, n)
             /\ UNCHANGED pageVars
  <2>1. PICK i \in DOMAIN mediumFree :
             /\ largest[mediumFree[i]] >= n
             /\ CarveFrom(mediumFree[i], MediumPage(mediumFree[i]), mediumFree, n)
             /\ UNCHANGED pageVars
    BY <1>5 DEF HasRoom
  <2> DEFINE p == mediumFree[i]
             b == blk[p]
             fl == freeList[p]
  <2>2. p \in Pages /\ p \in ToSet(mediumFree)
    BY <1>1 DEF ToSet
  <2>3. /\ kind' = kind /\ extent' = extent /\ allocated' = allocated
    BY <2>1 DEF pageVars
  <2> HIDE DEF p
  <2>4. /\ kind[p] = "medium"
        /\ MediumFits(PageUnits, Smallest, extent[p], b, fl, largest[p], p \in ToSet(mediumFree))
        /\ largest[p] >= n /\ largest[p] \in Nat
    BY <1>1, <1>2, <1>3, <2>1, <2>2 DEF MediumPart, MediumTypes, p
  <2>5. largest[p] >= Smallest
    BY <2>2, <2>4 DEF MediumFits
  <2>6. CanServe(b, fl, n) /\ extent[p] = PageUnits
    <3>1. b \in Blocks /\ fl \in Seq(Offsets)
      BY <1>1, <2>2 DEF MediumTypes
    <3>2. QED
      BY <2>4, <2>5, <3>1 DEF CanServe, MediumFits, Listed
  <2>7. Carved(b, MediumAllocDataFromPage(MediumPage(p), n))
    BY <1>3, <2>6, CarveOK DEF MediumPage
  <2>8. CarveFrom(p, MediumPage(p), mediumFree, n)
    BY <2>1 DEF p
  <2>9. p \notin ToSet(mediumUsed) /\ \A q : q \in ToSet(mediumFree) <=> q \in ToSet(mediumFree) \/ q = p
    BY <1>2, <2>2
  <2>10. /\ kind'[p] = "medium" /\ extent'[p] = PageUnits
         /\ \A q \in Pages \ {p} : kind'[q] = kind[q] /\ extent'[q] = extent[q]
    BY <2>3, <2>4, <2>6
  <2>11. /\ MediumPart' /\ MediumTypes'
         /\ blk' \in [Pages -> Blocks] /\ \A q \in Pages \ {p} : blk'[q] = blk[q]
         /\ \E o \in Offsets : o \notin LiveIn(b) /\ Lives(b, blk'[p], {}, {o})
         /\ Len(mediumFree') + Len(mediumUsed') = Len(mediumFree) + Len(mediumUsed)
         /\ Len(mediumFree') \in Nat /\ Len(mediumUsed') \in Nat
    BY <1>1, <1>2, <2>2, <2>7, <2>8, <2>9, <2>10, CarveShape
  <2>12. Alone("small") /\ Alone("large") /\ Alone("none")
    BY <2>3, <2>4, <2>11 DEF Alone
  <2>13. PageTypes'
    <3>1. Counted(allocated, smallUsed, mediumFree', mediumUsed', largeUsed)
      BY <1>1, <1>4, <2>11, CountStep
    <3>2. Counted(allocated', smallUsed', mediumFree', mediumUsed', largeUsed')
      BY <1>1, <2>3, <3>1
    <3>3. QED
      BY <2>3, <2>11, <3>2, Same DEF Shape, PageTypes, Counted
  <2>14. SmallPart' /\ SmallTypes' /\ LargePart' /\ largeUsed' \in Seq(Pages)
    BY <1>1, <2>12, SmallAlone, LargeAlone DEF Shape
  <2>15. NonePart'
    BY <2>12, Same DEF Shape, NonePart, Alone
  <2>16. HandsOut
    BY <2>2, <2>11 DEF HandsOut, Touches
  <2>17. QED
    BY <2>11, <2>13, <2>14, <2>15, <2>16 DEF Shape
<1>6. CASE \E p \in Pages : /\ AllocatePage(p, "medium", PageUnits)
                            /\ CarveFrom(p, FreshPage, <<p>> \o mediumFree, n)
  <2>1. PICK p \in Pages : /\ AllocatePage(p, "medium", PageUnits)
                           /\ CarveFrom(p, FreshPage, <<p>> \o mediumFree, n)
    BY <1>6
  <2> DEFINE new == MediumAllocDataFromPage(FreshPage, n)
             pages == <<p>> \o mediumFree
  <2>2. CanServe(FreshPage.b, FreshPage.fl, n) /\ LiveIn(FreshPage.b) = {}
    BY <1>3, FreshOK
  <2>3. FreshPage = [b |-> FreshPage.b, fl |-> FreshPage.fl, lg |-> FreshPage.lg]
    BY DEF FreshPage
  <2>4. Carved(FreshPage.b, new)
    BY <1>3, <2>2, <2>3, CarveOK
  <2>5. blk' = [blk EXCEPT ![p] = new.b] /\ new.b \in Blocks
    BY <2>1, <2>4 DEF CarveFrom, Carved
  <2> HIDE DEF new
  <2>6. /\ kind[p] = "none" /\ kind'[p] = "medium" /\ extent'[p] = PageUnits
        /\ \A q \in Pages \ {p} : kind'[q] = kind[q] /\ extent'[q] = extent[q] /\ blk'[q] = blk[q]
        /\ kind' \in [Pages -> {"none", "small", "medium", "large"}]
        /\ extent' \in [Pages -> Nat]
        /\ allocated' = allocated + 1
        /\ blk[p] = NoBlocks /\ NonePart'
        /\ \A j \in {"small", "medium", "large"} : j # "medium" => Alone(j)
    BY <1>3, <2>1, <2>5, NewPage DEF Shape
  <2>7. p \notin ToSet(mediumFree) /\ p \notin ToSet(mediumUsed)
    BY <1>2, <2>6
  <2>8. /\ pages \in Seq(Pages) /\ IsInjective(pages) /\ ToSet(pages) = ToSet(mediumFree) \cup {p}
        /\ Len(pages) = Len(mediumFree) + 1
    BY <1>1, <1>2, <2>7, ConsFacts, ConsLen
  <2>9. CarveFrom(p, FreshPage, pages, n)
    BY <2>1
  <2> HIDE DEF pages
  <2>10. \A q : q \in ToSet(pages) <=> q \in ToSet(mediumFree) \/ q = p
    BY <2>8
  <2>11. Carved(FreshPage.b, MediumAllocDataFromPage(FreshPage, n))
    BY <2>4 DEF new
  <2>12. \A q \in Pages \ {p} : kind'[q] = kind[q] /\ extent'[q] = extent[q]
    BY <2>6
  <2>13. /\ MediumPart' /\ MediumTypes'
         /\ blk' \in [Pages -> Blocks]
         /\ \E o \in Offsets : o \notin LiveIn(FreshPage.b) /\ Lives(FreshPage.b, blk'[p], {}, {o})
         /\ Len(mediumFree') + Len(mediumUsed') = Len(pages) + Len(mediumUsed)
         /\ Len(mediumFree') \in Nat /\ Len(mediumUsed') \in Nat
    <3> DEFINE fb == FreshPage.b
    <3>1. Carved(fb, MediumAllocDataFromPage(FreshPage, n))
      BY <2>11
    <3>2. kind'[p] = "medium" /\ extent'[p] = PageUnits
      BY <2>6
    <3> HIDE DEF fb
    <3>3. /\ MediumPart' /\ MediumTypes'
          /\ blk' \in [Pages -> Blocks] /\ \A q \in Pages \ {p} : blk'[q] = blk[q]
          /\ \E o \in Offsets : o \notin LiveIn(fb) /\ Lives(fb, blk'[p], {}, {o})
          /\ Len(mediumFree') + Len(mediumUsed') = Len(pages) + Len(mediumUsed)
          /\ Len(mediumFree') \in Nat /\ Len(mediumUsed') \in Nat
      BY <1>1, <2>7, <2>8, <2>9, <2>10, <2>12, <3>1, <3>2, CarveShape
    <3>4. QED
      BY <3>3 DEF fb
  <2>14. Alone("small") /\ Alone("large")
    BY <2>6
  <2>15. SmallPart' /\ SmallTypes' /\ LargePart' /\ largeUsed' \in Seq(Pages)
    BY <1>1, <2>14, SmallAlone, LargeAlone DEF Shape
  <2>16. PageTypes'
    <3>1. Counted(allocated + 1, smallUsed, mediumFree', mediumUsed', largeUsed)
      <4>1. Len(mediumFree') + Len(mediumUsed') = (Len(mediumFree) + 1) + Len(mediumUsed)
        BY <2>8, <2>13
      <4>2. QED
        BY <1>1, <1>4, <2>13, <4>1, CountStep
    <3>2. Counted(allocated', smallUsed', mediumFree', mediumUsed', largeUsed')
      BY <1>1, <2>6, <3>1
    <3>3. QED
      BY <2>6, <2>13, <3>2, Same DEF PageTypes, Counted
  <2>17. HandsOut
    <3>1. PICK o \in Offsets : Lives(FreshPage.b, blk'[p], {}, {o})
      BY <2>13
    <3>2. LiveIn(blk[p]) = {} /\ LiveIn(blk'[p]) = {o}
      BY <2>2, <2>6, <3>1, NoBlocksFacts DEF Lives
    <3>3. Touches(p, {}, {o})
      BY <2>6, <3>2 DEF Touches, Lives
    <3>4. QED
      BY <3>2, <3>3 DEF HandsOut
  <2>18. QED
    BY <2>6, <2>13, <2>15, <2>16, <2>17 DEF Shape
<1>7. QED
  BY <1>5, <1>6 DEF MediumAllocate


\* The page lists after a block of page p was freed, before an all free page is
\* unlinked; room says whether the page is in the list of those that have some.
IsRoomList(p, mf, mu, room, a, u) ==
  /\ a = IF room THEN mf ELSE Append(mf, p)
  /\ u = IF room THEN mu ELSE Unlink(mu, p)

LEMMA RoomListed ==
  ASSUME NEW p \in Pages, NEW mf \in Seq(Pages), NEW mu \in Seq(Pages), NEW lg, NEW m,
         NEW a, NEW u, IsRoomList(p, mf, mu, lg >= m, a, u),
         IsInjective(mf), IsInjective(mu), ~(p \in ToSet(mf) /\ p \in ToSet(mu)),
         p \in ToSet(mf) \/ p \in ToSet(mu), p \in ToSet(mf) <=> lg >= m
  PROVE  /\ a \in Seq(Pages) /\ u \in Seq(Pages) /\ IsInjective(a) /\ IsInjective(u)
         /\ ToSet(a) = ToSet(mf) \cup {p} /\ ToSet(u) = ToSet(mu) \ {p}
         /\ Len(a) + Len(u) = Len(mf) + Len(mu)
         /\ Len(a) \in Nat /\ Len(u) \in Nat
<1>1. CASE lg >= m
  <2>1. a = mf /\ u = mu
    BY <1>1 DEF IsRoomList
  <2>2. p \in ToSet(mf) /\ p \notin ToSet(mu)
    BY <1>1
  <2>3. Len(mf) \in Nat /\ Len(mu) \in Nat
    OBVIOUS
  <2>4. QED
    BY <2>1, <2>2, <2>3
<1>2. CASE ~(lg >= m)
  <2>1. a = Append(mf, p) /\ u = Unlink(mu, p)
    BY <1>2 DEF IsRoomList
  <2>2. p \notin ToSet(mf) /\ p \in ToSet(mu)
    BY <1>2
  <2>3. /\ u \in Seq(Pages) /\ IsInjective(u) /\ ToSet(u) = ToSet(mu) \ {p}
        /\ Len(u) = Len(mu) - 1
    BY <2>1, <2>2, UnlinkFacts
  <2>4. a \in Seq(Pages) /\ ToSet(a) = ToSet(mf) \cup {p} /\ IsInjective(a)
    BY <2>1, <2>2, AppendFacts
  <2>5. Len(a) = Len(mf) + 1
    BY <2>1, AppendLen
  <2>6. Len(a) + Len(u) = Len(mf) + Len(mu) /\ Len(a) \in Nat /\ Len(u) \in Nat
    <3> DEFINE la == Len(a)
               lu == Len(u)
               lf == Len(mf)
               ls == Len(mu)
    <3>1. la = lf + 1 /\ lu = ls - 1 /\ lu \in Nat /\ lf \in Nat /\ ls \in Nat
      BY <2>3, <2>5
    <3> HIDE DEF la, lu, lf, ls
    <3>2. la + lu = lf + ls /\ la \in Nat /\ lu \in Nat
      BY <3>1
    <3>3. QED
      BY <3>2 DEF la, lu, lf, ls
  <2>7. QED
    BY <2>3, <2>4, <2>6
<1>3. QED
  BY <1>1, <1>2

LEMMA DropPage ==
  ASSUME PageTypes, NEW p \in Pages, kind[p] # "none", FreePage(p),
         blk' = [blk EXCEPT ![p] = NoBlocks], NonePart, layout' = layout
  PROVE  /\ kind'[p] = "none" /\ blk'[p] = NoBlocks
         /\ \A q \in Pages \ {p} : kind'[q] = kind[q] /\ extent'[q] = extent[q] /\ blk'[q] = blk[q]
         /\ kind' \in [Pages -> {"none", "small", "medium", "large"}]
         /\ extent' \in [Pages -> Nat] /\ blk' \in [Pages -> Blocks]
         /\ allocated' = allocated - 1
         /\ NonePart'
         /\ \A j \in {"small", "medium", "large"} : j # kind[p] => Alone(j)
<1>1. /\ kind' = [kind EXCEPT ![p] = "none"] /\ extent' = [extent EXCEPT ![p] = 0]
      /\ allocated' = allocated - 1 /\ kind \in [Pages -> {"none", "small", "medium", "large"}]
      /\ extent \in [Pages -> Nat] /\ blk \in [Pages -> Blocks] /\ NoBlocks \in Blocks
  BY NoBlocksFacts DEF FreePage, PageTypes
<1>2. /\ kind'[p] = "none" /\ blk'[p] = NoBlocks
      /\ \A q \in Pages \ {p} : kind'[q] = kind[q] /\ extent'[q] = extent[q] /\ blk'[q] = blk[q]
      /\ kind' \in [Pages -> {"none", "small", "medium", "large"}]
      /\ extent' \in [Pages -> Nat] /\ blk' \in [Pages -> Blocks]
  BY <1>1
<1>3. NonePart'
  BY <1>1, <1>2, Same DEF NonePart
<1>4. \A j \in {"small", "medium", "large"} : j # kind[p] => Alone(j)
  BY <1>1, <1>2 DEF Alone
<1>5. QED
  BY <1>1, <1>2, <1>3, <1>4

\* The page of a medium block that was freed is gone, or has room for it.
Offered(x) ==
  \/ kind'[x[1]] = "none"
  \/ x[1] \in ToSet(mediumFree') /\ largest'[x[1]] >= blk[x[1]][x[2]].size

LEMMA MediumFreeOK ==
  ASSUME layout \in Layouts, Shape, layout' = layout, NEW x \in Places, Live(x),
         kind[x[1]] = "medium", MediumFree(x)
  PROVE  Shape' /\ TakesBack(x) /\ Offered(x)
<1> DEFINE p == x[1]
           e == x[2]
           b == blk[p]
           fl == freeList[p]
           new == PutLargerFirst(MergeBehind(MergeBefore(MediumPage(p), e)))
           pages == IF largest[p] >= Smallest THEN mediumFree ELSE Append(mediumFree, p)
<1>1. p \in Pages /\ e \in Offsets
  BY DEF Places
<1>2. kind[p] = "medium" /\ b[e].size > 0 /\ ~b[e].free
  BY DEF Live
<1>3. /\ mediumUsed' = IF largest[p] >= Smallest THEN mediumUsed ELSE Unlink(mediumUsed, p)
      /\ \/ /\ new.b[new.at].size = extent[p]
            /\ FreePage(p)
            /\ blk' = [blk EXCEPT ![p] = NoBlocks]
            /\ freeList' = [freeList EXCEPT ![p] = <<>>]
            /\ largest' = [largest EXCEPT ![p] = 0]
            /\ mediumFree' = Unlink(pages, p)
         \/ /\ new.b[new.at].size # extent[p]
            /\ blk' = [blk EXCEPT ![p] = new.b]
            /\ freeList' = [freeList EXCEPT ![p] = new.fl]
            /\ largest' = [largest EXCEPT ![p] = new.lg]
            /\ mediumFree' = pages
            /\ UNCHANGED pageVars
      /\ UNCHANGED smallVars /\ UNCHANGED largeUsed /\ smallUsed' = smallUsed
  BY DEF MediumFree, smallVars
<1>4. MediumPage(p) = [b |-> b, fl |-> fl, lg |-> largest[p]]
  BY DEF MediumPage
<1>5. /\ blk \in [Pages -> Blocks] /\ MediumPart /\ MediumTypes /\ NonePart /\ PageTypes
      /\ mediumFree \in Seq(Pages) /\ mediumUsed \in Seq(Pages) /\ smallUsed \in Seq(Pages)
      /\ largeUsed \in Seq(Pages) /\ freeList \in [Pages -> Seq(Offsets)]
      /\ largest \in [Pages -> 0 .. PageUnits]
      /\ Counted(allocated, smallUsed, mediumFree, mediumUsed, largeUsed)
  BY DEF Shape, PageTypes, MediumTypes, SmallTypes, Counted
<1>6. /\ IsInjective(mediumFree) /\ IsInjective(mediumUsed)
      /\ \A q \in Pages : ~(q \in ToSet(mediumFree) /\ q \in ToSet(mediumUsed))
      /\ \A q \in Pages : kind[q] = "medium" <=> q \in ToSet(mediumFree) \/ q \in ToSet(mediumUsed)
  BY <1>5 DEF MediumPart
<1>7. MediumFits(PageUnits, Smallest, extent[p], b, fl, largest[p], p \in ToSet(mediumFree))
  BY <1>1, <1>2, <1>5 DEF MediumPart
<1>8. IsRoomList(p, mediumFree, mediumUsed, largest[p] >= Smallest, pages, mediumUsed')
  BY <1>3 DEF IsRoomList
<1> HIDE DEF p, e, pages
<1>9. b \in Blocks /\ fl \in Seq(Offsets) /\ e \in LiveIn(b)
  BY <1>1, <1>2, <1>5 DEF LiveIn, Used, Blocks
<1>10. extent[p] = PageUnits /\ Chain(PageUnits, Smallest, b) /\ NoTwoFree(b, {}) /\ Listed(b, fl)
       /\ (p \in ToSet(mediumFree) <=> largest[p] >= Smallest)
  BY <1>7, <1>9 DEF MediumFits, Listed
<1>11. /\ Freed(b, e, new, {}) /\ new.fl # <<>>
       /\ new.lg = new.b[Head(new.fl)].size
       /\ new.lg >= b[e].size /\ new.lg >= Smallest /\ new.lg \in 0 .. PageUnits
       /\ new.b[new.at].size = PageUnits => LiveIn(b) = {e}
       /\ new.b[new.at].size # PageUnits => \/ FreeIn(new.b) # {0}
                                            \/ new.b[0].size < PageUnits
  <2> HIDE DEF b, fl
  <2>1. LET nw == PutLargerFirst(MergeBehind(MergeBefore([b |-> b, fl |-> fl, lg |-> largest[p]], e)))
        IN  /\ Freed(b, e, nw, {}) /\ nw.fl # <<>>
            /\ nw.lg = nw.b[Head(nw.fl)].size
            /\ nw.lg >= b[e].size /\ nw.lg >= Smallest /\ nw.lg \in 0 .. PageUnits
            /\ nw.b[nw.at].size = PageUnits => LiveIn(b) = {e}
            /\ nw.b[nw.at].size # PageUnits => \/ FreeIn(nw.b) # {0}
                                               \/ nw.b[0].size < PageUnits
    BY <1>9, <1>10, FreeBlockOK
  <2>2. QED
    BY <1>4, <2>1
<1> HIDE DEF new
<1>12. /\ pages \in Seq(Pages) /\ mediumUsed' \in Seq(Pages)
       /\ IsInjective(pages) /\ IsInjective(mediumUsed')
       /\ ToSet(pages) = ToSet(mediumFree) \cup {p} /\ ToSet(mediumUsed') = ToSet(mediumUsed) \ {p}
       /\ Len(pages) + Len(mediumUsed') = Len(mediumFree) + Len(mediumUsed)
       /\ Len(pages) \in Nat /\ Len(mediumUsed') \in Nat
  <2> DEFINE lg == largest[p]
  <2>1. IsRoomList(p, mediumFree, mediumUsed, lg >= Smallest, pages, mediumUsed')
    BY <1>8
  <2>2. /\ ~(p \in ToSet(mediumFree) /\ p \in ToSet(mediumUsed))
        /\ p \in ToSet(mediumFree) \/ p \in ToSet(mediumUsed)
        /\ p \in ToSet(mediumFree) <=> lg >= Smallest
    BY <1>1, <1>2, <1>6, <1>10
  <2> HIDE DEF lg
  <2>3. QED
    BY <1>1, <1>5, <1>6, <2>1, <2>2, RoomListed
<1>13. CASE new.b[new.at].size = extent[p]
  <2>1. /\ FreePage(p) /\ blk' = [blk EXCEPT ![p] = NoBlocks]
        /\ freeList' = [freeList EXCEPT ![p] = <<>>] /\ largest' = [largest EXCEPT ![p] = 0]
        /\ mediumFree' = Unlink(pages, p)
    BY <1>3, <1>13
  <2>2. LiveIn(b) = {e}
    BY <1>10, <1>11, <1>13
  <2>3. /\ kind'[p] = "none" /\ blk'[p] = NoBlocks
        /\ \A q \in Pages \ {p} : kind'[q] = kind[q] /\ extent'[q] = extent[q] /\ blk'[q] = blk[q]
        /\ kind' \in [Pages -> {"none", "small", "medium", "large"}]
        /\ extent' \in [Pages -> Nat] /\ blk' \in [Pages -> Blocks]
        /\ allocated' = allocated - 1
        /\ NonePart'
        /\ \A j \in {"small", "medium", "large"} : j # kind[p] => Alone(j)
    BY <1>1, <1>2, <1>5, <2>1, DropPage
  <2>4. /\ \A q \in Pages \ {p} : freeList'[q] = freeList[q] /\ largest'[q] = largest[q]
        /\ freeList' \in [Pages -> Seq(Offsets)] /\ largest' \in [Pages -> 0 .. PageUnits]
    <3>1. <<>> \in Seq(Offsets) /\ 0 \in 0 .. PageUnits
      BY Units
    <3>2. QED
      BY <1>5, <2>1, <3>1
  <2>5. /\ mediumFree' \in Seq(Pages) /\ IsInjective(mediumFree')
        /\ ToSet(mediumFree') = ToSet(pages) \ {p} /\ Len(mediumFree') = Len(pages) - 1
    BY <1>12, <2>1, UnlinkFacts
  <2>6. MediumTypes'
    BY <1>12, <2>4, <2>5, Same DEF MediumTypes
  <2>7. MediumPart'
    <3>1. \A q \in Pages : q # p => (q \in ToSet(mediumFree') <=> q \in ToSet(mediumFree))
      BY <1>12, <2>5
    <3>2. \A q \in Pages :
            kind'[q] = "medium" =>
              MediumFits(PageUnits, Smallest, extent'[q], blk'[q], freeList'[q], largest'[q],
                         q \in ToSet(mediumFree'))
      <4> SUFFICES ASSUME NEW q \in Pages, kind'[q] = "medium"
                   PROVE  MediumFits(PageUnits, Smallest, extent'[q], blk'[q], freeList'[q],
                                     largest'[q], q \in ToSet(mediumFree'))
        OBVIOUS
      <4>1. q # p /\ kind[q] = "medium"
        BY <2>3
      <4>2. MediumFits(PageUnits, Smallest, extent[q], blk[q], freeList[q], largest[q],
                       q \in ToSet(mediumFree))
        BY <1>5, <4>1 DEF MediumPart
      <4>3. QED
        BY <2>3, <2>4, <3>1, <4>1, <4>2 DEF MediumFits
    <3>3. \A q \in Pages : ~(q \in ToSet(mediumFree') /\ q \in ToSet(mediumUsed'))
      BY <1>6, <1>12, <2>5
    <3>4. \A q \in Pages : kind'[q] = "medium" <=> q \in ToSet(mediumFree') \/ q \in ToSet(mediumUsed')
      BY <1>6, <1>12, <2>3, <2>5
    <3>5. QED
      BY <1>12, <2>5, <3>2, <3>3, <3>4, Same DEF MediumPart
  <2>8. Alone("small") /\ Alone("large")
    BY <1>2, <2>3
  <2>9. SmallPart' /\ SmallTypes' /\ LargePart' /\ largeUsed' \in Seq(Pages)
    BY <1>3, <1>5, <2>8, SmallAlone, LargeAlone DEF Shape
  <2>10. PageTypes'
    <3>1. Counted(allocated - 1, smallUsed, mediumFree', mediumUsed', largeUsed)
      <4>1. (Len(mediumFree') + Len(mediumUsed')) + 1 = Len(mediumFree) + Len(mediumUsed)
        <5> DEFINE la == Len(mediumFree')
                   lp == Len(pages)
                   lu == Len(mediumUsed')
                   s  == Len(mediumFree) + Len(mediumUsed)
        <5>1. la = lp - 1 /\ lp + lu = s /\ lp \in Nat /\ lu \in Nat
          BY <1>12, <2>5
        <5> HIDE DEF la, lp, lu, s
        <5>2. (la + lu) + 1 = s
          BY <5>1
        <5>3. QED
          BY <5>2 DEF la, lu, s
      <4>2. Len(mediumFree') \in Nat
        BY <2>5
      <4>3. QED
        BY <1>5, <1>12, <4>1, <4>2, CountStep
    <3>2. Counted(allocated', smallUsed', mediumFree', mediumUsed', largeUsed')
      BY <1>3, <2>3, <3>1
    <3>3. QED
      BY <2>3, <3>2, Same DEF PageTypes, Counted
  <2>11. TakesBack(x)
    <3>1. Lives(b, blk'[p], {e}, {})
      BY <2>2, <2>3, NoBlocksFacts DEF Lives
    <3>2. QED
      BY <2>3, <3>1 DEF TakesBack, Touches, p, e
  <2>12. Offered(x)
    BY <2>3 DEF Offered, p
  <2>13. QED
    BY <2>3, <2>6, <2>7, <2>9, <2>10, <2>11, <2>12 DEF Shape
<1>14. CASE new.b[new.at].size # extent[p]
  <2>1. /\ blk' = [blk EXCEPT ![p] = new.b] /\ freeList' = [freeList EXCEPT ![p] = new.fl]
        /\ largest' = [largest EXCEPT ![p] = new.lg] /\ mediumFree' = pages
        /\ kind' = kind /\ extent' = extent /\ allocated' = allocated
    BY <1>3, <1>14 DEF pageVars
  <2>2. /\ new.b \in Blocks /\ Chain(PageUnits, Smallest, new.b) /\ NoTwoFree(new.b, {})
        /\ new.fl \in Seq(Offsets) /\ IsInjective(new.fl) /\ ToSet(new.fl) = FreeIn(new.b)
        /\ Lives(b, new.b, {e}, {})
    BY <1>11 DEF Freed, Listed
  <2>3. /\ blk'[p] = new.b /\ freeList'[p] = new.fl /\ largest'[p] = new.lg
        /\ \A q \in Pages \ {p} : /\ blk'[q] = blk[q] /\ freeList'[q] = freeList[q]
                                  /\ largest'[q] = largest[q]
        /\ blk' \in [Pages -> Blocks] /\ freeList' \in [Pages -> Seq(Offsets)]
        /\ largest' \in [Pages -> 0 .. PageUnits]
    BY <1>1, <1>5, <1>11, <2>1, <2>2
  <2>4. MediumTypes'
    BY <1>12, <2>1, <2>3, Same DEF MediumTypes
  <2>5. MediumPart'
    <3>1. \A q \in Pages : q # p => (q \in ToSet(mediumFree') <=> q \in ToSet(mediumFree))
      BY <1>12, <2>1
    <3>2. p \in ToSet(mediumFree') /\ new.lg >= Smallest
      BY <1>11, <1>12, <2>1
    <3>3. FreeIn(new.b) # {0} \/ new.b[0].size < PageUnits
      BY <1>10, <1>11, <1>14
    <3>4. MediumFits(PageUnits, Smallest, extent'[p], new.b, new.fl, new.lg, p \in ToSet(mediumFree'))
      BY <1>10, <1>11, <2>1, <2>2, <3>2, <3>3 DEF MediumFits
    <3>5. \A q \in Pages :
            kind'[q] = "medium" =>
              MediumFits(PageUnits, Smallest, extent'[q], blk'[q], freeList'[q], largest'[q],
                         q \in ToSet(mediumFree'))
      <4> SUFFICES ASSUME NEW q \in Pages, kind'[q] = "medium"
                   PROVE  MediumFits(PageUnits, Smallest, extent'[q], blk'[q], freeList'[q],
                                     largest'[q], q \in ToSet(mediumFree'))
        OBVIOUS
      <4>1. CASE q = p
        BY <2>3, <3>4, <4>1
      <4>2. CASE q # p
        <5>1. MediumFits(PageUnits, Smallest, extent[q], blk[q], freeList[q], largest[q],
                         q \in ToSet(mediumFree))
          BY <1>5, <2>1, <4>2 DEF MediumPart
        <5>2. QED
          BY <2>1, <2>3, <3>1, <4>2, <5>1 DEF MediumFits
      <4>3. QED
        BY <4>1, <4>2
    <3>6. \A q \in Pages : ~(q \in ToSet(mediumFree') /\ q \in ToSet(mediumUsed'))
      BY <1>6, <1>12, <2>1
    <3>7. \A q \in Pages : kind'[q] = "medium" <=> q \in ToSet(mediumFree') \/ q \in ToSet(mediumUsed')
      BY <1>2, <1>6, <1>12, <2>1
    <3>8. QED
      BY <1>12, <2>1, <3>5, <3>6, <3>7, Same DEF MediumPart
  <2>6. Alone("small") /\ Alone("large") /\ Alone("none")
    BY <1>2, <2>1, <2>3 DEF Alone
  <2>7. SmallPart' /\ SmallTypes' /\ LargePart' /\ largeUsed' \in Seq(Pages)
    BY <1>3, <1>5, <2>6, SmallAlone, LargeAlone DEF Shape
  <2>8. NonePart'
    BY <1>5, <2>6, Same DEF NonePart, Alone
  <2>9. PageTypes'
    <3>1. Counted(allocated, smallUsed, mediumFree', mediumUsed', largeUsed)
      BY <1>5, <1>12, <2>1, CountStep
    <3>2. Counted(allocated', smallUsed', mediumFree', mediumUsed', largeUsed')
      BY <1>3, <2>1, <3>1
    <3>3. QED
      BY <1>5, <2>1, <2>3, <3>2, Same DEF PageTypes, Counted
  <2>10. TakesBack(x)
    <3>1. Lives(b, blk'[p], {e}, {})
      BY <2>2, <2>3
    <3>2. QED
      BY <2>3, <3>1 DEF TakesBack, Touches, p, e
  <2>11. Offered(x)
    <3>1. p \in ToSet(mediumFree') /\ largest'[p] >= b[e].size
      BY <1>11, <1>12, <2>1, <2>3
    <3>2. QED
      BY <3>1 DEF Offered, p, e
  <2>12. QED
    BY <2>4, <2>5, <2>7, <2>8, <2>9, <2>10, <2>11 DEF Shape
<1>15. QED
  BY <1>13, <1>14

-------------------------------------------------------------------------------
(* Large blocks. *)

LEMMA LargeAllocateOK ==
  ASSUME layout \in Layouts, Shape, layout' = layout, NEW n \in LargeSizes, LargeAllocate(n)
  PROVE  Shape' /\ HandsOut
<1> DEFINE v == UsedBlock(n)
           c == [NoBlocks EXCEPT ![0] = v]
<1>1. PICK p \in Pages : /\ AllocatePage(p, "large", n) /\ blk' = [blk EXCEPT ![p][0] = v]
                         /\ largeUsed' = <<p>> \o largeUsed
  BY DEF LargeAllocate
<1>2. /\ UNCHANGED smallVars /\ UNCHANGED mediumVars /\ smallUsed' = smallUsed
      /\ mediumFree' = mediumFree /\ mediumUsed' = mediumUsed
      /\ PageTypes /\ SmallPart /\ SmallTypes /\ MediumPart /\ MediumTypes /\ LargePart
      /\ NonePart /\ largeUsed \in Seq(Pages) /\ smallUsed \in Seq(Pages)
      /\ mediumFree \in Seq(Pages) /\ mediumUsed \in Seq(Pages)
      /\ blk \in [Pages -> Blocks]
  BY DEF Shape, LargeAllocate, smallVars, mediumVars, SmallTypes, MediumTypes, PageTypes
<1>3. n \in Nat \ {0} /\ 0 \in Offsets
  BY Units
<1>4. kind[p] = "none" /\ blk[p] = NoBlocks
  BY <1>1, <1>2 DEF AllocatePage, NonePart
<1>5. blk' = [blk EXCEPT ![p] = c]
  BY <1>1, <1>4
<1>6. /\ c \in Blocks /\ ~c[0].free /\ Used(c) = {0}
  <2>1. NoBlocks \in Blocks /\ Used(NoBlocks) = {}
    BY NoBlocksFacts
  <2>2. v \in Entries /\ v.size = n /\ ~v.free /\ v.size > 0
    BY <1>3, HandedOut
  <2> HIDE DEF v
  <2>3. c \in Blocks
    BY <1>3, <2>1, <2>2, SetBlock
  <2>4. c[0] = v
    BY <1>3, <2>1 DEF Blocks
  <2>5. \A q : q \in Used(c) <=> q \in Used(NoBlocks) \/ q = 0
    BY <1>3, <2>1, <2>2, SetBlock
  <2> HIDE DEF c
  <2>6. QED
    BY <2>1, <2>2, <2>3, <2>4, <2>5
<1> HIDE DEF c, v
<1>7. /\ kind[p] = "none" /\ kind'[p] = "large" /\ extent'[p] = n /\ blk'[p] = c
      /\ \A q \in Pages \ {p} : kind'[q] = kind[q] /\ extent'[q] = extent[q] /\ blk'[q] = blk[q]
      /\ kind' \in [Pages -> {"none", "small", "medium", "large"}]
      /\ extent' \in [Pages -> Nat] /\ blk' \in [Pages -> Blocks]
      /\ allocated' = allocated + 1
      /\ blk[p] = NoBlocks /\ NonePart'
      /\ \A j \in {"small", "medium", "large"} : j # "large" => Alone(j)
  BY <1>1, <1>2, <1>3, <1>5, <1>6, NewPage
<1>8. Alone("small") /\ Alone("medium")
  BY <1>7
<1>9. SmallPart' /\ SmallTypes' /\ MediumPart' /\ MediumTypes'
  BY <1>2, <1>8, SmallAlone, MediumAlone
<1>10. p \notin ToSet(largeUsed) /\ IsInjective(largeUsed)
  BY <1>2, <1>7 DEF LargePart
<1>11. /\ largeUsed' \in Seq(Pages) /\ IsInjective(largeUsed')
       /\ ToSet(largeUsed') = ToSet(largeUsed) \cup {p} /\ Len(largeUsed') = Len(largeUsed) + 1
       /\ Len(largeUsed) \in Nat
  BY <1>1, <1>2, <1>10, ConsFacts, ConsLen
<1>12. LargePart'
  <2>1. LargeFits(c)
    BY <1>6 DEF LargeFits
  <2>2. \A q \in Pages : kind'[q] = "large" => LargeFits(blk'[q])
    BY <1>2, <1>7, <2>1 DEF LargePart
  <2>3. \A q \in Pages : kind'[q] = "large" <=> q \in ToSet(largeUsed')
    BY <1>2, <1>7, <1>11 DEF LargePart
  <2>4. QED
    BY <1>11, <2>2, <2>3 DEF LargePart
<1>13. PageTypes'
  <2>1. Counted(allocated, smallUsed, mediumFree, mediumUsed, largeUsed)
    BY <1>2 DEF PageTypes, Counted
  <2>2. Counted(allocated + 1, smallUsed, mediumFree, mediumUsed, largeUsed')
    BY <1>2, <1>11, <2>1, CountLarge
  <2>3. Counted(allocated', smallUsed', mediumFree', mediumUsed', largeUsed')
    BY <1>2, <1>7, <2>2
  <2>4. QED
    BY <1>7, <2>3, Same DEF PageTypes, Counted
<1>14. HandsOut
  <2>1. LiveIn(blk[p]) = {} /\ LiveIn(blk'[p]) = {0}
    BY <1>6, <1>7, NoBlocksFacts DEF LiveIn
  <2>2. QED
    BY <1>3, <1>7, <2>1 DEF HandsOut, Touches, Lives
<1>15. QED
  BY <1>7, <1>9, <1>11, <1>12, <1>13, <1>14 DEF Shape

LEMMA LargeFreeOK ==
  ASSUME layout \in Layouts, Shape, layout' = layout, NEW x \in Places, Live(x),
         kind[x[1]] = "large", LargeFree(x)
  PROVE  Shape' /\ TakesBack(x)
<1> DEFINE p == x[1]
           e == x[2]
<1>1. p \in Pages /\ e \in Offsets
  BY DEF Places
<1>2. kind[p] = "large" /\ blk[p][e].size > 0
  BY DEF Live
<1>3. /\ largeUsed' = Unlink(largeUsed, p) /\ FreePage(p) /\ blk' = [blk EXCEPT ![p] = NoBlocks]
      /\ UNCHANGED smallVars /\ UNCHANGED mediumVars /\ smallUsed' = smallUsed
      /\ mediumFree' = mediumFree /\ mediumUsed' = mediumUsed
      /\ PageTypes /\ SmallPart /\ SmallTypes /\ MediumPart /\ MediumTypes /\ LargePart
      /\ NonePart /\ largeUsed \in Seq(Pages) /\ smallUsed \in Seq(Pages)
      /\ mediumFree \in Seq(Pages) /\ mediumUsed \in Seq(Pages)
      /\ blk \in [Pages -> Blocks]
  BY DEF Shape, LargeFree, smallVars, mediumVars, SmallTypes, MediumTypes, PageTypes
<1> HIDE DEF p, e
<1>4. /\ kind'[p] = "none" /\ blk'[p] = NoBlocks
      /\ \A q \in Pages \ {p} : kind'[q] = kind[q] /\ extent'[q] = extent[q] /\ blk'[q] = blk[q]
      /\ kind' \in [Pages -> {"none", "small", "medium", "large"}]
      /\ extent' \in [Pages -> Nat] /\ blk' \in [Pages -> Blocks]
      /\ allocated' = allocated - 1
      /\ NonePart'
      /\ \A j \in {"small", "medium", "large"} : j # kind[p] => Alone(j)
  BY <1>1, <1>2, <1>3, DropPage
<1>5. Alone("small") /\ Alone("medium")
  BY <1>2, <1>4
<1>6. SmallPart' /\ SmallTypes' /\ MediumPart' /\ MediumTypes'
  BY <1>3, <1>5, SmallAlone, MediumAlone
<1>7. p \in ToSet(largeUsed) /\ IsInjective(largeUsed) /\ LargeFits(blk[p])
  BY <1>1, <1>2, <1>3 DEF LargePart
<1>8. /\ largeUsed' \in Seq(Pages) /\ IsInjective(largeUsed')
      /\ ToSet(largeUsed') = ToSet(largeUsed) \ {p} /\ Len(largeUsed') = Len(largeUsed) - 1
      /\ Len(largeUsed) \in Nat /\ Len(largeUsed') \in Nat
  BY <1>3, <1>7, UnlinkFacts
<1>9. LargePart'
  BY <1>3, <1>4, <1>8 DEF LargePart
<1>10. PageTypes'
  <2>1. Counted(allocated, smallUsed, mediumFree, mediumUsed, largeUsed)
    BY <1>3 DEF PageTypes, Counted
  <2>2. Counted(allocated - 1, smallUsed, mediumFree, mediumUsed, largeUsed')
    BY <1>3, <1>8, <2>1, CountLarge
  <2>3. Counted(allocated', smallUsed', mediumFree', mediumUsed', largeUsed')
    BY <1>3, <1>4, <2>2
  <2>4. QED
    BY <1>4, <2>3, Same DEF PageTypes, Counted
<1>11. TakesBack(x)
  <2>1. LiveIn(blk[p]) = {0} /\ e = 0
    BY <1>1, <1>2, <1>3, <1>7 DEF LargeFits, LiveIn, Used, Blocks
  <2>2. Lives(blk[p], blk'[p], {e}, {})
    BY <1>4, <2>1, NoBlocksFacts DEF Lives
  <2>3. QED
    BY <1>4, <2>2 DEF TakesBack, Touches, p, e
<1>12. QED
  BY <1>4, <1>6, <1>8, <1>9, <1>10, <1>11 DEF Shape

-------------------------------------------------------------------------------
(* The pages AR_DestroyHeap finds are those that are allocated. *)

LEMMA WalkFacts ==
  ASSUME Shape
  PROVE  /\ Walk \in Seq(Pages) /\ IsInjective(Walk) /\ Len(Walk) = allocated
         /\ ToSet(Walk) = {p \in Pages : kind[p] # "none"}
<1>1. /\ smallCur \in Pages /\ smallUsed \in Seq(Pages) /\ IsInjective(smallUsed)
      /\ smallCur \notin ToSet(smallUsed)
      /\ \A p \in Pages : kind[p] = "small" <=> p = smallCur \/ p \in ToSet(smallUsed)
  BY DEF Shape, SmallTypes, SmallPart
<1>2. /\ mediumFree \in Seq(Pages) /\ mediumUsed \in Seq(Pages)
      /\ IsInjective(mediumFree) /\ IsInjective(mediumUsed)
      /\ \A p \in Pages : ~(p \in ToSet(mediumFree) /\ p \in ToSet(mediumUsed))
      /\ \A p \in Pages : kind[p] = "medium" <=> p \in ToSet(mediumFree) \/ p \in ToSet(mediumUsed)
  BY DEF Shape, MediumTypes, MediumPart
<1>3. /\ largeUsed \in Seq(Pages) /\ IsInjective(largeUsed)
      /\ \A p \in Pages : kind[p] = "large" <=> p \in ToSet(largeUsed)
  BY DEF Shape, LargePart
<1>4. /\ kind \in [Pages -> {"none", "small", "medium", "large"}]
      /\ Counted(allocated, smallUsed, mediumFree, mediumUsed, largeUsed)
  BY DEF Shape, PageTypes, Counted
<1>5. /\ ToSet(smallUsed) \subseteq Pages /\ ToSet(mediumFree) \subseteq Pages
      /\ ToSet(mediumUsed) \subseteq Pages /\ ToSet(largeUsed) \subseteq Pages
  BY <1>1, <1>2, <1>3 DEF ToSet
<1> DEFINE s1 == <<smallCur>> \o smallUsed
           s2 == s1 \o mediumFree
           s3 == s2 \o mediumUsed
           s4 == s3 \o largeUsed
<1>6. /\ s1 \in Seq(Pages) /\ IsInjective(s1) /\ Len(s1) = Len(smallUsed) + 1
      /\ ToSet(s1) = {p \in Pages : kind[p] = "small"}
  <2>1. /\ s1 \in Seq(Pages) /\ IsInjective(s1) /\ ToSet(s1) = ToSet(smallUsed) \cup {smallCur}
        /\ Len(s1) = Len(smallUsed) + 1
    BY <1>1, ConsFacts, ConsLen
  <2>2. QED
    BY <1>1, <1>5, <2>1
<1> HIDE DEF s1
<1>7. /\ s2 \in Seq(Pages) /\ IsInjective(s2) /\ Len(s2) = Len(s1) + Len(mediumFree)
      /\ ToSet(s2) = ToSet(s1) \cup ToSet(mediumFree)
  <2>1. ToSet(s1) \cap ToSet(mediumFree) = {}
    BY <1>2, <1>6
  <2>2. QED
    BY <1>2, <1>6, <2>1, ConcatFacts
<1> HIDE DEF s2
<1>8. /\ s3 \in Seq(Pages) /\ IsInjective(s3) /\ Len(s3) = Len(s2) + Len(mediumUsed)
      /\ ToSet(s3) = {p \in Pages : kind[p] \in {"small", "medium"}}
  <2>1. ToSet(s2) \cap ToSet(mediumUsed) = {}
    BY <1>2, <1>5, <1>6, <1>7
  <2>2. /\ s3 \in Seq(Pages) /\ IsInjective(s3) /\ Len(s3) = Len(s2) + Len(mediumUsed)
        /\ ToSet(s3) = ToSet(s2) \cup ToSet(mediumUsed)
    BY <1>2, <1>7, <2>1, ConcatFacts
  <2>3. QED
    BY <1>2, <1>5, <1>6, <1>7, <2>2
<1> HIDE DEF s3
<1>9. /\ s4 \in Seq(Pages) /\ IsInjective(s4) /\ Len(s4) = Len(s3) + Len(largeUsed)
      /\ ToSet(s4) = {p \in Pages : kind[p] # "none"}
  <2>1. ToSet(s3) \cap ToSet(largeUsed) = {}
    BY <1>3, <1>8
  <2>2. /\ s4 \in Seq(Pages) /\ IsInjective(s4) /\ Len(s4) = Len(s3) + Len(largeUsed)
        /\ ToSet(s4) = ToSet(s3) \cup ToSet(largeUsed)
    BY <1>3, <1>8, <2>1, ConcatFacts
  <2>3. ToSet(largeUsed) = {p \in Pages : kind[p] = "large"}
    BY <1>3, <1>5
  <2>4. {p \in Pages : kind[p] # "none"} =
          {p \in Pages : kind[p] \in {"small", "medium"}} \cup {p \in Pages : kind[p] = "large"}
    BY <1>4
  <2>5. QED
    BY <1>8, <2>2, <2>3, <2>4
<1>10. Walk = s4
  BY DEF Walk, s1, s2, s3
<1>11. Len(s4) = allocated
  <2> DEFINE l0 == Len(smallUsed)
             l1 == Len(s1)
             l2 == Len(s2)
             l3 == Len(s3)
             l4 == Len(s4)
             lf == Len(mediumFree)
             lu == Len(mediumUsed)
             ll == Len(largeUsed)
  <2>1. l0 \in Nat /\ lf \in Nat /\ lu \in Nat /\ ll \in Nat
    BY <1>1, <1>2, <1>3
  <2>2. l1 = l0 + 1 /\ l2 = l1 + lf /\ l3 = l2 + lu /\ l4 = l3 + ll
    BY <1>6, <1>7, <1>8, <1>9
  <2>3. allocated = 1 + l0 + lf + lu + ll
    BY <1>4 DEF Counted
  <2> HIDE DEF l0, l1, l2, l3, l4, lf, lu, ll
  <2>4. l4 = allocated
    BY <2>1, <2>2, <2>3
  <2>5. QED
    BY <2>4 DEF l4
<1>12. QED
  BY <1>9, <1>10, <1>11

LEMMA TypesOfShape ==
  layout \in Layouts /\ Shape /\ moving \in Places \cup {NoPlace} /\ open \in BOOLEAN => TypeOK
<1> SUFFICES ASSUME layout \in Layouts, Shape, moving \in Places \cup {NoPlace}, open \in BOOLEAN
             PROVE  TypeOK
  OBVIOUS
<1>1. allocated \in Nat
  <2> DEFINE l0 == Len(smallUsed)
             lf == Len(mediumFree)
             lu == Len(mediumUsed)
             ll == Len(largeUsed)
  <2>1. l0 \in Nat /\ lf \in Nat /\ lu \in Nat /\ ll \in Nat
    BY DEF Shape, SmallTypes, MediumTypes
  <2>2. allocated = 1 + l0 + lf + lu + ll
    BY DEF Shape, PageTypes
  <2> HIDE DEF l0, lf, lu, ll
  <2>3. QED
    BY <2>1, <2>2
<1>2. /\ kind \in [Pages -> {"none", "small", "medium", "large"}]
      /\ extent \in [Pages -> Nat] /\ blk \in [Pages -> [Offsets -> Entries]]
  BY DEF Shape, PageTypes, Blocks
<1>3. QED
  BY <1>1, <1>2 DEF Shape, SmallTypes, MediumTypes, TypeOK, Entries

-------------------------------------------------------------------------------
(* The invariant holds at first and is kept by every step. *)

LEMMA Begin == Init => IInv
<1> SUFFICES ASSUME Init PROVE IInv
  OBVIOUS
<1>1. PICK p \in Pages :
        /\ kind = [q \in Pages |-> IF q = p THEN "small" ELSE "none"]
        /\ extent = [q \in Pages |-> IF q = p THEN PageUnits ELSE 0]
        /\ smallCur = p
  BY DEF Init
<1>2. /\ layout \in Layouts /\ blk = [q \in Pages |-> NoBlocks]
      /\ freeList = [q \in Pages |-> <<>>] /\ largest = [q \in Pages |-> 0]
      /\ smallFree = [n \in SmallSizes |-> <<>>] /\ smallOff = 0
      /\ smallUsed = <<>> /\ mediumFree = <<>> /\ mediumUsed = <<>> /\ largeUsed = <<>>
      /\ allocated = 1 /\ moving = NoPlace /\ open = TRUE
  BY DEF Init
<1>3. PageUnits \in Nat \ {0} /\ 0 \in 0 .. PageUnits
  BY <1>2, Units
<1>4. NoBlocks \in Blocks /\ Used(NoBlocks) = {} /\ \A o \in Offsets : ~NoBlocks[o].free
  BY NoBlocksFacts
<1>5. \A S : <<>> \in Seq(S) /\ IsInjective(<<>>) /\ ToSet(<<>>) = {} /\ Len(<<>>) = 0
  BY DEF IsInjective, ToSet
<1>6. PageTypes
  <2>1. allocated = 1 + Len(smallUsed) + Len(mediumFree) + Len(mediumUsed) + Len(largeUsed)
    BY <1>2, <1>5
  <2>2. QED
    BY <1>1, <1>2, <1>3, <1>4, <2>1 DEF PageTypes
<1>7. SmallTypes /\ MediumTypes /\ largeUsed \in Seq(Pages)
  BY <1>1, <1>2, <1>3, <1>5 DEF SmallTypes, MediumTypes
<1>8. MediumPart
  BY <1>1, <1>2, <1>5 DEF MediumPart
<1>9. SmallPart
  <2>1. \A q \in Pages : kind[q] = "small" => SmallFits(PageUnits, SmallSizes, extent[q], blk[q])
    BY <1>1, <1>2, <1>4 DEF SmallFits, Apart
  <2>2. \A n \in SmallSizes : smallFree[n] = <<>>
    BY <1>2
  <2>3. \A x \in Places : ~blk[x[1]][x[2]].free
    BY <1>2, <1>4 DEF Places
  <2>4. \A q \in Pages : kind[q] = "small" <=> q = smallCur
    BY <1>1
  <2>5. QED
    BY <1>1, <1>2, <1>4, <1>5, <2>1, <2>2, <2>3, <2>4 DEF SmallPart
<1>10. LargePart
  BY <1>1, <1>2, <1>5 DEF LargePart
<1>11. NonePart
  BY <1>2 DEF NonePart
<1>12. Shape
  BY <1>6, <1>7, <1>8, <1>9, <1>10, <1>11 DEF Shape
<1>13. TypeOK
  BY <1>2, <1>12, TypesOfShape
<1>14. QED
  BY <1>2, <1>12, <1>13 DEF IInv

LEMMA AllocOK ==
  ASSUME layout \in Layouts, Shape, layout' = layout,
         NEW n \in SmallSizes \cup MediumSizes \cup LargeSizes, Alloc(n)
  PROVE  Shape' /\ HandsOut
  BY SmallReuseOK, SmallCutOK, SmallNewPageOK, MediumAllocateOK, LargeAllocateOK
     DEF Alloc, AllocAs, SmallAllocate

LEMMA FreeOK ==
  ASSUME layout \in Layouts, Shape, layout' = layout, NEW x \in Places, Live(x), Free(x)
  PROVE  Shape' /\ TakesBack(x) /\ (kind[x[1]] = "medium" => Offered(x))
<1>1. CASE kind[x[1]] = "small" /\ SmallFree(x)
  BY <1>1, SmallFreeOK
<1>2. CASE kind[x[1]] = "medium" /\ MediumFree(x)
  BY <1>2, MediumFreeOK
<1>3. CASE kind[x[1]] = "large" /\ LargeFree(x)
  BY <1>3, LargeFreeOK
<1>4. QED
  BY <1>1, <1>2, <1>3 DEF Free

\* A block is live if it is one of the callers' blocks of its page.
LEMMA LiveIs ==
  ASSUME blk \in [Pages -> Blocks], NEW x \in Places
  PROVE  Live(x) <=> x[2] \in LiveIn(blk[x[1]])
<1>1. x[1] \in Pages /\ x[2] \in Offsets
  BY DEF Places
<1>2. DOMAIN blk[x[1]] = Offsets
  BY <1>1 DEF Blocks
<1>3. QED
  BY <1>1, <1>2 DEF Live, LiveIn, Used

\* A block that is live stays so when another is handed out.
LEMMA StaysLive ==
  ASSUME blk \in [Pages -> Blocks], blk' \in [Pages -> Blocks], layout' = layout,
         HandsOut, NEW x \in Places, Live(x)
  PROVE  Live(x)'
<1>1. x[1] \in Pages /\ x[2] \in Offsets
  BY DEF Places
<1>2. x[2] \in LiveIn(blk[x[1]])
  BY LiveIs
<1>3. PICK p \in Pages, o \in Offsets : Touches(p, {}, {o})
  BY DEF HandsOut
<1>4. x[2] \in LiveIn(blk'[x[1]])
  BY <1>1, <1>2, <1>3 DEF Touches, Lives
<1>5. DOMAIN blk'[x[1]] = Offsets
  BY <1>1, Same DEF Blocks
<1>6. QED
  BY <1>4, <1>5 DEF Live, LiveIn, Used

\* What a step does, as far as callers see it.
Destroyed ==
  /\ \A p \in Pages : kind'[p] = "none"
  /\ ~open' /\ allocated' = 0

LEMMA DestroyOK ==
  ASSUME TypeOK, Shape, layout' = layout, AR_DestroyHeap
  PROVE  Destroyed /\ TypeOK'
<1>1. /\ ToSet(Walk) = {p \in Pages : kind[p] # "none"} /\ Len(Walk) = allocated
      /\ allocated \in Nat
  <2>1. Walk \in Seq(Pages) /\ Len(Walk) \in Nat
    BY WalkFacts
  <2>2. QED
    BY <2>1, WalkFacts
<1>2. /\ kind' = [p \in Pages |-> IF p \in ToSet(Walk) THEN "none" ELSE kind[p]]
      /\ allocated' = allocated - Len(Walk) /\ open' = FALSE
      /\ UNCHANGED <<extent, blk, freeList, largest, smallFree, smallCur, smallOff, smallUsed,
                     mediumFree, mediumUsed, largeUsed, moving>>
  BY DEF AR_DestroyHeap, smallVars, mediumVars
<1>3. Destroyed
  BY <1>1, <1>2 DEF Destroyed
<1>4. kind' \in [Pages -> {"none", "small", "medium", "large"}]
  BY <1>2 DEF TypeOK
<1>5. allocated' \in Nat
  BY <1>3 DEF Destroyed
<1>6. TypeOK'
  <2>1. open' \in BOOLEAN
    BY <1>2, Zenon
  <2>2. QED
    BY <1>2, <1>4, <1>5, <2>1, Same DEF TypeOK, NoPlace
<1>7. QED
  BY <1>3, <1>6

\* Every step hands out one block, takes back one, or ends the heap; Shape lasts
\* until then.
LEMMA StepIs ==
  ASSUME IInv, Next
  PROVE  /\ layout' = layout /\ layout \in Layouts /\ open /\ Shape
         /\ \/ Shape' /\ HandsOut /\ open' = open /\ moving = NoPlace
               /\ \/ moving' = moving
                  \/ \E x \in Places : Live(x) /\ moving' = x
            \/ \E x \in Places :
                 /\ Live(x) /\ Shape' /\ TakesBack(x) /\ (kind[x[1]] = "medium" => Offered(x))
                 /\ open' = open /\ moving' = NoPlace
            \/ Destroyed /\ TypeOK' /\ moving' = NoPlace
<1>1. /\ layout' = layout /\ layout \in Layouts
      /\ moving \in Places \cup {NoPlace} /\ open \in BOOLEAN
      /\ ~open => moving = NoPlace
      /\ open => Shape /\ (moving # NoPlace => Live(moving))
  BY DEF Next, IInv, TypeOK
<1>2. CASE \E n \in SmallSizes \cup MediumSizes \cup LargeSizes : AR_AllocFromHeap(n)
  <2>1. PICK n \in SmallSizes \cup MediumSizes \cup LargeSizes : AR_AllocFromHeap(n)
    BY <1>2
  <2>2. open /\ moving = NoPlace /\ Alloc(n) /\ moving' = moving /\ open' = open
    BY <2>1 DEF AR_AllocFromHeap, Idle
  <2>3. Shape /\ Shape' /\ HandsOut
    BY <1>1, <2>2, AllocOK
  <2>4. QED
    BY <1>1, <2>2, <2>3
<1>3. CASE \E n \in SmallSizes \cup MediumSizes \cup LargeSizes, x \in Places : AR_ReallocFromHeap(x, n)
  <2>1. PICK n \in SmallSizes \cup MediumSizes \cup LargeSizes, x \in Places : AR_ReallocFromHeap(x, n)
    BY <1>3
  <2>2. open /\ moving = NoPlace /\ Alloc(n) /\ Live(x) /\ moving' = x /\ open' = open
    BY <2>1 DEF AR_ReallocFromHeap, Alloc, Idle
  <2>3. Shape /\ Shape' /\ HandsOut
    BY <1>1, <2>2, AllocOK
  <2>4. QED
    BY <1>1, <2>2, <2>3
<1>4. CASE \E x \in Places : AR_FreeToHeap(x)
  <2>1. PICK x \in Places : AR_FreeToHeap(x)
    BY <1>4
  <2>2. open /\ moving = NoPlace /\ Free(x) /\ Live(x) /\ moving' = NoPlace /\ open' = open
    BY <2>1 DEF AR_FreeToHeap, Idle
  <2>3. Shape /\ Shape' /\ TakesBack(x) /\ (kind[x[1]] = "medium" => Offered(x))
    BY <1>1, <2>2, FreeOK
  <2>4. QED
    BY <1>1, <2>2, <2>3
<1>5. CASE ReallocFrees
  <2>1. moving # NoPlace /\ Free(moving) /\ moving' = NoPlace /\ open' = open
    BY <1>5 DEF ReallocFrees
  <2>2. open /\ Shape /\ Live(moving) /\ moving \in Places
    BY <1>1, <2>1
  <2>3. Shape' /\ TakesBack(moving) /\ (kind[moving[1]] = "medium" => Offered(moving))
    BY <1>1, <2>1, <2>2, FreeOK
  <2>4. QED
    BY <1>1, <2>1, <2>2, <2>3
<1>6. CASE AR_DestroyHeap
  <2>1. open /\ moving = NoPlace /\ moving' = moving
    BY <1>6 DEF AR_DestroyHeap, Idle
  <2>2. Shape /\ Destroyed /\ TypeOK'
    BY <1>1, <1>6, <2>1, DestroyOK DEF IInv
  <2>3. QED
    BY <1>1, <2>1, <2>2
<1>7. QED
  BY <1>2, <1>3, <1>4, <1>5, <1>6 DEF Next

LEMMA StepKeeps == IInv /\ [Next]_vars => IInv'
<1> SUFFICES ASSUME IInv, [Next]_vars PROVE IInv'
  OBVIOUS
<1>1. CASE UNCHANGED vars
  <2>1. /\ UNCHANGED <<layout, kind, extent, blk, freeList, largest, smallFree, smallCur, smallOff,
                       smallUsed, mediumFree, mediumUsed, largeUsed, allocated, moving, open>>
        /\ UNCHANGED mediumVars /\ UNCHANGED smallVars
    BY <1>1 DEF vars, pageVars, smallVars, mediumVars
  <2>2. TypeOK'
    BY <2>1, Same DEF IInv, TypeOK
  <2>3. \A j \in {"none", "small", "medium", "large"} : Alone(j)
    BY <2>1 DEF Alone
  <2>4. ASSUME open PROVE Shape'
    <3>1. MediumPart' /\ MediumTypes' /\ SmallPart' /\ SmallTypes' /\ LargePart'
      BY <2>1, <2>3, <2>4, MediumAlone, SmallAlone, LargeAlone DEF IInv, Shape
    <3>2. NonePart' /\ PageTypes' /\ largeUsed' \in Seq(Pages)
      BY <2>1, <2>4, Same DEF IInv, Shape, NonePart, PageTypes
    <3>3. QED
      BY <3>1, <3>2 DEF Shape
  <2>5. Live(moving)' = Live(moving)
    BY <2>1 DEF Live
  <2>6. PagesOf("none")' = PagesOf("none")
    BY <2>1 DEF PagesOf
  <2>7. QED
    BY <2>1, <2>2, <2>4, <2>5, <2>6 DEF IInv
<1>2. CASE Next
  <2>1. /\ layout' = layout /\ layout \in Layouts /\ open /\ Shape
    BY <1>2, StepIs
  <2>2. layout' \in Layouts /\ Places' = Places /\ moving \in Places \cup {NoPlace} /\ open \in BOOLEAN
    BY <2>1, Same DEF IInv, TypeOK
  <2>3. CASE Shape' /\ HandsOut /\ open' = open /\ moving = NoPlace
             /\ \/ moving' = moving
                \/ \E x \in Places : Live(x) /\ moving' = x
    <3>1. moving' \in Places \cup {NoPlace}
      BY <2>2, <2>3
    <3>2. TypeOK'
      <4>1. (layout \in Layouts /\ Shape /\ moving \in Places \cup {NoPlace} /\ open \in BOOLEAN)'
        BY <2>1, <2>2, <2>3, <3>1 DEF NoPlace
      <4>2. QED
        BY <4>1, TypesOfShape, PTL
    <3>3. moving' # NoPlace => Live(moving)'
      <4>1. SUFFICES ASSUME moving' # NoPlace PROVE Live(moving)'
        OBVIOUS
      <4>2. PICK x \in Places : Live(x) /\ moving' = x
        BY <2>3, <4>1
      <4>3. Live(x)'
        <5>1. blk \in [Pages -> Blocks] /\ blk' \in [Pages -> Blocks]
          BY <2>1, <2>3, Same DEF Shape, PageTypes
        <5>2. QED
          BY <2>1, <2>3, <4>2, <5>1, StaysLive
      <4>4. QED
        BY <4>2, <4>3 DEF Live
    <3>4. QED
      BY <2>1, <2>3, <3>2, <3>3 DEF IInv, NoPlace
  <2>4. CASE \E x \in Places :
               /\ Live(x) /\ Shape' /\ TakesBack(x) /\ (kind[x[1]] = "medium" => Offered(x))
               /\ open' = open /\ moving' = NoPlace
    <3>1. Shape' /\ open' = open /\ moving' = NoPlace
      BY <2>4
    <3>2. TypeOK'
      <4>1. (layout \in Layouts /\ Shape /\ moving \in Places \cup {NoPlace} /\ open \in BOOLEAN)'
        BY <2>1, <2>2, <3>1 DEF NoPlace
      <4>2. QED
        BY <4>1, TypesOfShape, PTL
    <3>3. QED
      BY <2>1, <3>1, <3>2 DEF IInv, NoPlace
  <2>5. CASE Destroyed /\ TypeOK' /\ moving' = NoPlace
    <3>1. PagesOf("none")' = Pages
      BY <2>5 DEF Destroyed, PagesOf
    <3>2. QED
      BY <2>5, <3>1 DEF Destroyed, IInv, NoPlace
  <2>6. QED
    BY <1>2, <2>3, <2>4, <2>5, StepIs
<1>3. QED
  BY <1>1, <1>2

LEMMA Invariance == Spec => []IInv
<1>1. QED
  BY Begin, StepKeeps, PTL DEF Spec

-------------------------------------------------------------------------------
(* What the invariant says about the heap. *)

LEMMA TiledOK ==
  ASSUME IInv
  PROVE  Tiled
<1> SUFFICES ASSUME NEW p \in Pages, kind[p] = "medium"
             PROVE  /\ 0 \in Starts(p) /\ blk[p][0].prev = None
                    /\ \A o \in Starts(p) :
                         LET end == o + blk[p][o].size
                         IN \/ end = PageUnits /\ blk[p][o].next = None
                            \/ /\ end \in Starts(p)
                               /\ blk[p][o].next = end
                               /\ blk[p][end].prev = o
                    /\ \A o \in FreeStarts(p) : blk[p][o].next \notin FreeStarts(p)
  BY DEF Tiled, PagesOf
<1>1. open
  BY DEF IInv, PagesOf
<1>2. Chain(PageUnits, Smallest, blk[p]) /\ NoTwoFree(blk[p], {}) /\ blk[p] \in Blocks
  BY <1>1 DEF IInv, Shape, MediumPart, MediumFits, PageTypes
<1>3. Starts(p) = Used(blk[p]) /\ FreeStarts(p) = FreeIn(blk[p])
  BY <1>2 DEF Starts, FreeStarts, Used, FreeIn, Blocks
<1>4. QED
  BY <1>2, <1>3 DEF Chain, NoTwoFree

LEMMA FreeListOK ==
  ASSUME IInv
  PROVE  FreeListExact
<1> SUFFICES ASSUME NEW p \in Pages, kind[p] = "medium"
             PROVE  /\ IsInjective(freeList[p]) /\ ToSet(freeList[p]) = FreeStarts(p)
                    /\ p \in ToSet(mediumFree) <=> largest[p] >= Smallest
                    /\ p \in ToSet(mediumFree) => /\ freeList[p] # <<>>
                                                  /\ largest[p] = blk[p][Head(freeList[p])].size
                    /\ FreeStarts(p) # {0} \/ blk[p][0].size < PageUnits
  BY DEF FreeListExact, PagesOf
<1>1. open
  BY DEF IInv, PagesOf
<1>2. /\ MediumFits(PageUnits, Smallest, extent[p], blk[p], freeList[p], largest[p],
                    p \in ToSet(mediumFree))
      /\ blk[p] \in Blocks
  BY <1>1 DEF IInv, Shape, MediumPart, PageTypes
<1>3. FreeStarts(p) = FreeIn(blk[p])
  BY <1>2 DEF Starts, FreeStarts, Used, FreeIn, Blocks
<1>4. QED
  BY <1>2, <1>3 DEF MediumFits

LEMMA SmallListsOK ==
  ASSUME Shape
  PROVE  SmallListsExact
<1>1. ASSUME NEW n \in SmallSizes
      PROVE  /\ IsInjective(smallFree[n])
             /\ ToSet(smallFree[n]) =
                  {x \in Places : /\ kind[x[1]] = "small" /\ blk[x[1]][x[2]].free
                                  /\ blk[x[1]][x[2]].size = n}
  <2>1. /\ IsInjective(smallFree[n]) /\ smallFree[n] \in Seq(Places)
        /\ \A x \in Places :
             x \in ToSet(smallFree[n]) <=>
               kind[x[1]] = "small" /\ blk[x[1]][x[2]].free /\ blk[x[1]][x[2]].size = n
    BY DEF Shape, SmallPart, SmallTypes
  <2>2. ToSet(smallFree[n]) \subseteq Places
    BY <2>1 DEF ToSet
  <2>3. QED
    BY <2>1, <2>2
<1>2. ASSUME NEW o \in Starts(smallCur)
      PROVE  o + blk[smallCur][o].size <= smallOff
  <2>1. smallCur \in Pages /\ blk[smallCur] \in Blocks
    BY DEF Shape, SmallTypes, PageTypes
  <2>2. o \in Used(blk[smallCur])
    BY <2>1 DEF Starts, Used, Blocks
  <2>3. QED
    BY <2>2 DEF Shape, SmallPart
<1>3. QED
  BY <1>1, <1>2 DEF SmallListsExact

LEMMA PagesOK ==
  ASSUME IInv
  PROVE  PagesLinkedOnce
<1>1. ASSUME ~open PROVE PagesOf("none") = Pages /\ allocated = 0
  BY <1>1 DEF IInv
<1>2. ASSUME open
      PROVE  /\ IsInjective(Walk)
             /\ ToSet(<<smallCur>> \o smallUsed) = PagesOf("small")
             /\ ToSet(mediumFree \o mediumUsed) = PagesOf("medium")
             /\ ToSet(largeUsed) = PagesOf("large")
             /\ allocated = Len(Walk)
             /\ SmallListsExact
  <2>1. Shape
    BY <1>2 DEF IInv
  <2>2. IsInjective(Walk) /\ allocated = Len(Walk) /\ SmallListsExact
    BY <2>1, WalkFacts, SmallListsOK
  <2>3. ToSet(<<smallCur>> \o smallUsed) = PagesOf("small")
    <3>1. /\ smallCur \in Pages /\ smallUsed \in Seq(Pages)
          /\ \A p \in Pages : kind[p] = "small" <=> p = smallCur \/ p \in ToSet(smallUsed)
      BY <2>1 DEF Shape, SmallTypes, SmallPart
    <3>2. ToSet(<<smallCur>> \o smallUsed) = ToSet(smallUsed) \cup {smallCur}
      BY <3>1, ConsFacts
    <3>3. ToSet(smallUsed) \subseteq Pages
      BY <3>1 DEF ToSet
    <3>4. QED
      BY <3>1, <3>2, <3>3 DEF PagesOf
  <2>4. ToSet(mediumFree \o mediumUsed) = PagesOf("medium")
    <3>1. /\ mediumFree \in Seq(Pages) /\ mediumUsed \in Seq(Pages)
          /\ \A p \in Pages : kind[p] = "medium" <=> p \in ToSet(mediumFree) \/ p \in ToSet(mediumUsed)
      BY <2>1 DEF Shape, MediumTypes, MediumPart
    <3>2. ToSet(mediumFree \o mediumUsed) = ToSet(mediumFree) \cup ToSet(mediumUsed)
      BY <3>1, ConcatFacts
    <3>3. ToSet(mediumFree) \subseteq Pages /\ ToSet(mediumUsed) \subseteq Pages
      BY <3>1 DEF ToSet
    <3>4. QED
      BY <3>1, <3>2, <3>3 DEF PagesOf
  <2>5. ToSet(largeUsed) = PagesOf("large")
    <3>1. /\ largeUsed \in Seq(Pages)
          /\ \A p \in Pages : kind[p] = "large" <=> p \in ToSet(largeUsed)
      BY <2>1 DEF Shape, LargePart
    <3>2. ToSet(largeUsed) \subseteq Pages
      BY <3>1 DEF ToSet
    <3>3. QED
      BY <3>1, <3>2 DEF PagesOf
  <2>6. QED
    BY <2>2, <2>3, <2>4, <2>5
<1>3. QED
  BY <1>1, <1>2 DEF PagesLinkedOnce

\* The chains of blocks, the free lists, the page lists and page_allocated agree
\* after every sequence of AR_AllocFromHeap, AR_ReallocFromHeap and
\* AR_FreeToHeap, and AR_DestroyHeap leaves no page behind.
THEOREM HeapSafety == Spec => []HeapInv
<1>1. IInv => HeapInv
  BY TiledOK, FreeListOK, PagesOK DEF IInv, HeapInv
<1>2. QED
  BY <1>1, Invariance, PTL

-------------------------------------------------------------------------------
(* What a step does to the blocks callers hold. *)

LEMMA OnlyTaken ==
  ASSUME blk \in [Pages -> Blocks], blk' \in [Pages -> Blocks], layout' = layout,
         NEW x \in Places, TakesBack(x), NEW y \in Places, Live(y), ~Live(y)'
  PROVE  y[1] = x[1] /\ y[2] = x[2]
<1>1. y[1] \in Pages /\ y[2] \in Offsets
  BY DEF Places
<1>2. y[2] \in LiveIn(blk[y[1]])
  BY LiveIs
<1>3. y[2] \notin LiveIn(blk'[y[1]])
  <2>1. DOMAIN blk'[y[1]] = Offsets
    BY <1>1, Same DEF Blocks
  <2>2. QED
    BY <1>1, <2>1 DEF Live, LiveIn, Used
<1>4. QED
  BY <1>1, <1>2, <1>3 DEF TakesBack, Touches, Lives

\* A medium block given back by AR_FreeToHeap or by AR_ReallocFromHeap can be
\* had again without a new page.
THEOREM FreedBlocksAreOffered == Spec => FreedIsOffered
<1> DEFINE A == \A x \in Places :
                  (kind[x[1]] = "medium" /\ Live(x) /\ ~Live(x)' /\ open') =>
                     \/ kind[x[1]]' = "none"
                     \/ /\ x[1] \in ToSet(mediumFree')
                        /\ largest[x[1]]' >= blk[x[1]][x[2]].size
<1>1. IInv /\ [Next]_vars => [A]_vars
  <2> SUFFICES ASSUME IInv, Next PROVE A
    OBVIOUS
  <2> SUFFICES ASSUME NEW y \in Places, kind[y[1]] = "medium", Live(y), ~Live(y)', open'
               PROVE  \/ kind'[y[1]] = "none"
                      \/ y[1] \in ToSet(mediumFree') /\ largest'[y[1]] >= blk[y[1]][y[2]].size
    OBVIOUS
  <2>1. layout' = layout /\ Shape
    BY StepIs
  <2>2. CASE Shape' /\ HandsOut
    <3>1. blk \in [Pages -> Blocks] /\ blk' \in [Pages -> Blocks]
      BY <2>1, <2>2, Same DEF Shape, PageTypes
    <3>2. QED
      BY <2>1, <2>2, <3>1, StaysLive
  <2>3. CASE \E x \in Places : Shape' /\ TakesBack(x) /\ (kind[x[1]] = "medium" => Offered(x))
    <3>1. PICK x \in Places : Shape' /\ TakesBack(x) /\ (kind[x[1]] = "medium" => Offered(x))
      BY <2>3
    <3>2. blk \in [Pages -> Blocks] /\ blk' \in [Pages -> Blocks]
      BY <2>1, <3>1, Same DEF Shape, PageTypes
    <3>3. y[1] = x[1] /\ y[2] = x[2]
      BY <2>1, <3>1, <3>2, OnlyTaken
    <3>4. QED
      BY <3>1, <3>3 DEF Offered
  <2>4. CASE Destroyed
    BY <2>4 DEF Destroyed
  <2>5. QED
    BY <2>2, <2>3, <2>4, StepIs
<1>2. QED
  BY <1>1, Invariance, PTL DEF Spec, FreedIsOffered

-------------------------------------------------------------------------------
(* The heap implements Allocator. *)

Region(b, p, o) == [page |-> p, at |-> o, size |-> b[p][o].size]

\* The blocks of a page do not overlap.
BlocksApart == \A p \in Pages : Apart(blk[p]) /\ blk[p] \in Blocks

LEMMA AllApart == layout \in Layouts /\ Shape => BlocksApart
<1> SUFFICES ASSUME layout \in Layouts, Shape, NEW p \in Pages
             PROVE  Apart(blk[p]) /\ blk[p] \in Blocks
  BY DEF BlocksApart
<1>1. blk[p] \in Blocks /\ kind[p] \in {"none", "small", "medium", "large"}
  BY DEF Shape, PageTypes
<1>2. CASE kind[p] = "none"
  BY <1>1, <1>2, NoBlocksFacts DEF Shape, NonePart, Apart
<1>3. CASE kind[p] = "small"
  BY <1>1, <1>3 DEF Shape, SmallPart, SmallFits
<1>4. CASE kind[p] = "medium"
  BY <1>1, <1>4 DEF Shape, MediumPart, MediumFits, Chain
<1>5. CASE kind[p] = "large"
  <2>1. Used(blk[p]) = {0}
    BY <1>5 DEF Shape, LargePart, LargeFits
  <2>2. QED
    BY <1>1, <2>1 DEF Apart
<1>6. QED
  BY <1>1, <1>2, <1>3, <1>4, <1>5

\* The callers' blocks on pages of kinds k with blocks b.
RegionsIn(k, b) ==
  {Region(b, x[1], x[2]) :
     x \in {y \in Places : /\ k[y[1]] # "none"
                           /\ b[y[1]][y[2]].size > 0 /\ ~b[y[1]][y[2]].free}}

LEMMA RegionsAre ==
  ASSUME NEW k, NEW b \in [Pages -> Blocks], \A p \in Pages : k[p] = "none" => b[p] = NoBlocks
  PROVE  \A r : r \in RegionsIn(k, b) <=> \E p \in Pages : \E o \in LiveIn(b[p]) : r = Region(b, p, o)
<1>1. \A p \in Pages : DOMAIN b[p] = Offsets
  BY DEF Blocks
<1>2. ASSUME NEW r \in RegionsIn(k, b)
      PROVE  \E p \in Pages : \E o \in LiveIn(b[p]) : r = Region(b, p, o)
  <2>1. PICK x \in Places : /\ b[x[1]][x[2]].size > 0 /\ ~b[x[1]][x[2]].free
                            /\ r = Region(b, x[1], x[2])
    BY DEF RegionsIn
  <2>2. x[1] \in Pages /\ x[2] \in Offsets
    BY DEF Places
  <2>3. x[2] \in LiveIn(b[x[1]])
    BY <1>1, <2>1, <2>2 DEF LiveIn, Used
  <2>4. QED
    BY <2>1, <2>2, <2>3
<1>3. ASSUME NEW p \in Pages, NEW o \in LiveIn(b[p])
      PROVE  Region(b, p, o) \in RegionsIn(k, b)
  <2>1. o \in Offsets /\ b[p][o].size > 0 /\ ~b[p][o].free
    BY <1>1 DEF LiveIn, Used
  <2>2. LiveIn(b[p]) # {}
    OBVIOUS
  <2>3. k[p] # "none"
    BY <2>2, NoBlocksFacts
  <2>4. <<p, o>> \in Places /\ <<p, o>>[1] = p /\ <<p, o>>[2] = o
    BY <2>1 DEF Places
  <2>5. QED
    BY <2>1, <2>3, <2>4 DEF RegionsIn
<1>4. QED
  BY <1>2, <1>3

LEMMA RegionsNow ==
  ASSUME Shape
  PROVE  \A r : r \in LiveRegions <=> \E p \in Pages : \E o \in LiveIn(blk[p]) : r = Region(blk, p, o)
<1>1. blk \in [Pages -> Blocks] /\ \A p \in Pages : kind[p] = "none" => blk[p] = NoBlocks
  BY DEF Shape, PageTypes, NonePart
<1>2. LiveRegions = RegionsIn(kind, blk)
  BY DEF LiveRegions, Live, RegionsIn, Region
<1>3. QED
  BY <1>1, <1>2, RegionsAre

LEMMA RegionsNext ==
  ASSUME Shape', layout' = layout
  PROVE  \A r : r \in LiveRegions' <=> \E p \in Pages : \E o \in LiveIn(blk'[p]) : r = Region(blk', p, o)
<1>1. blk' \in [Pages -> Blocks] /\ \A p \in Pages : kind'[p] = "none" => blk'[p] = NoBlocks
  BY Same DEF Shape, PageTypes, NonePart
<1>2. LiveRegions' = RegionsIn(kind', blk')
  BY Same DEF LiveRegions, Live, RegionsIn, Region
<1>3. QED
  BY <1>1, <1>2, RegionsAre

LEMMA HandsOutOne ==
  ASSUME layout \in Layouts, layout' = layout, Shape, Shape', HandsOut
  PROVE  Abstract!AllocateOne
<1>1. PICK p \in Pages, o \in Offsets : o \notin LiveIn(blk[p]) /\ Touches(p, {}, {o})
  BY DEF HandsOut
<1>2. /\ \A q \in Pages \ {p} : blk'[q] = blk[q]
      /\ LiveIn(blk'[p]) = LiveIn(blk[p]) \cup {o}
      /\ \A i \in LiveIn(blk[p]) : blk'[p][i].size = blk[p][i].size
  BY <1>1 DEF Touches, Lives
<1> DEFINE r == Region(blk', p, o)
<1>3. /\ \A s : s \in LiveRegions <=> \E q \in Pages : \E i \in LiveIn(blk[q]) : s = Region(blk, q, i)
      /\ \A s : s \in LiveRegions' <=> \E q \in Pages : \E i \in LiveIn(blk'[q]) : s = Region(blk', q, i)
  BY RegionsNow, RegionsNext
<1>4. \A q \in Pages : \A i \in LiveIn(blk[q]) : /\ i \in LiveIn(blk'[q])
                                             /\ Region(blk', q, i) = Region(blk, q, i)
  BY <1>2 DEF Region
<1>5. \A q \in Pages : \A i \in LiveIn(blk'[q]) : \/ Region(blk', q, i) = r
                                              \/ /\ i \in LiveIn(blk[q])
                                                 /\ Region(blk', q, i) = Region(blk, q, i)
  BY <1>2 DEF Region
<1>6. r \in LiveRegions' /\ r \notin LiveRegions
  <2>1. r \in LiveRegions'
    BY <1>2, <1>3
  <2>2. \A q \in Pages : \A i \in LiveIn(blk[q]) : r # Region(blk, q, i)
    BY <1>1 DEF Region
  <2>3. QED
    BY <1>3, <2>1, <2>2
<1>7. LiveRegions' = LiveRegions \cup {r}
  <2> HIDE DEF r
  <2>1. \A s \in LiveRegions' : s \in LiveRegions \/ s = r
    BY <1>3, <1>5
  <2>2. \A s \in LiveRegions : s \in LiveRegions'
    BY <1>3, <1>4
  <2>3. QED
    BY <1>6, <2>1, <2>2
<1>8. /\ Apart(blk'[p]) /\ blk'[p] \in Blocks
  <2>1. (layout \in Layouts /\ Shape)'
    OBVIOUS
  <2>2. BlocksApart'
    BY <2>1, AllApart, PTL
  <2>3. QED
    BY <2>2, Same DEF BlocksApart
<1>9. PageUnits \in Nat /\ Offsets = 0 .. (PageUnits - 1)
  BY Units
<1>10. blk'[p][o].size \in Nat /\ o \in Nat
  BY <1>8, <1>9 DEF Blocks, Entries
<1>11. r \in Abstract!Regions
  BY <1>10 DEF Abstract!Regions, Region
<1>12. \A s \in LiveRegions : Abstract!Disjoint(r, s)
  <2> SUFFICES ASSUME NEW q \in Pages, NEW i \in LiveIn(blk[q])
               PROVE  Abstract!Disjoint(r, Region(blk, q, i))
    BY <1>3
  <2>1. CASE q # p
    BY <2>1 DEF Abstract!Disjoint, Region
  <2>2. CASE q = p
    <3>1. i \in Used(blk'[p]) /\ o \in Used(blk'[p]) /\ i # o /\ i \in Nat /\ o \in Nat
      BY <1>1, <1>2, <1>8, <1>9, <2>2 DEF LiveIn, Used, Blocks
    <3>2. \/ o < i /\ o + blk'[p][o].size <= i
          \/ i < o /\ i + blk'[p][i].size <= o
      BY <1>8, <3>1 DEF Apart
    <3>3. blk'[p][i].size = blk[q][i].size
      BY <1>2, <2>2
    <3>4. QED
      BY <3>2, <3>3 DEF Abstract!Disjoint, Region
  <2>3. QED
    BY <2>1, <2>2
<1> HIDE DEF r
<1>13. QED
  BY <1>6, <1>7, <1>11, <1>12 DEF Abstract!AllocateOne, Abstract!Allocate

LEMMA TakesBackOne ==
  ASSUME layout \in Layouts, layout' = layout, Shape, Shape', NEW x \in Places, Live(x),
         TakesBack(x)
  PROVE  Abstract!ReleaseOne
<1> DEFINE p == x[1]
           o == x[2]
           r == Region(blk, p, o)
<1>1. p \in Pages /\ o \in LiveIn(blk[p])
  BY LiveIs DEF Places, Shape, PageTypes
<1>2. /\ \A q \in Pages \ {p} : blk'[q] = blk[q]
      /\ LiveIn(blk'[p]) = LiveIn(blk[p]) \ {o}
      /\ \A i \in LiveIn(blk[p]) \ {o} : blk'[p][i].size = blk[p][i].size
  BY DEF TakesBack, Touches, Lives
<1>3. /\ \A s : s \in LiveRegions <=> \E q \in Pages : \E i \in LiveIn(blk[q]) : s = Region(blk, q, i)
      /\ \A s : s \in LiveRegions' <=> \E q \in Pages : \E i \in LiveIn(blk'[q]) : s = Region(blk', q, i)
  BY RegionsNow, RegionsNext
<1> HIDE DEF p, o
<1>4. \A q \in Pages : \A i \in LiveIn(blk'[q]) : /\ i \in LiveIn(blk[q]) /\ (q # p \/ i # o)
                                              /\ Region(blk', q, i) = Region(blk, q, i)
  BY <1>2 DEF Region
<1>5. \A q \in Pages : \A i \in LiveIn(blk[q]) : \/ Region(blk, q, i) = r
                                             \/ /\ i \in LiveIn(blk'[q])
                                                /\ Region(blk', q, i) = Region(blk, q, i)
  BY <1>2 DEF Region
<1>6. \A q, i : q # p \/ i # o => Region(blk, q, i) # r
  BY DEF Region
<1>7. r \in LiveRegions
  BY <1>1, <1>3
<1> HIDE DEF r
<1>8. LiveRegions' = LiveRegions \ {r}
  <2>1. \A s \in LiveRegions' : s \in LiveRegions /\ s # r
    BY <1>3, <1>4, <1>6
  <2>2. \A s \in LiveRegions : s # r => s \in LiveRegions'
    BY <1>3, <1>5
  <2>3. QED
    BY <2>1, <2>2
<1>9. QED
  BY <1>7, <1>8 DEF Abstract!ReleaseOne

\* The blocks of callers never overlap, and only their own free, or the end of
\* the heap, takes them away: arHeap_t implements Allocator.
THEOREM HeapRefinesAllocator == Spec => ImplementsAllocator
<1>1. Init => Abstract!AInit
  <2> SUFFICES ASSUME Init PROVE LiveRegions = {}
    BY DEF Abstract!AInit
  <2>1. \A x \in Places : ~Live(x)
    <3>1. blk = [q \in Pages |-> NoBlocks]
      BY DEF Init
    <3>2. \A o \in Offsets : NoBlocks[o].size = 0
      BY NoBlocksFacts
    <3>3. QED
      BY <3>1, <3>2 DEF Live, Places
  <2>2. QED
    BY <2>1 DEF LiveRegions
<1>2. IInv /\ [Next]_vars => [Abstract!ANext]_LiveRegions
  <2> SUFFICES ASSUME IInv, [Next]_vars PROVE [Abstract!ANext]_LiveRegions
    OBVIOUS
  <2>1. CASE UNCHANGED vars
    BY <2>1 DEF vars, pageVars, LiveRegions, Live, Places, Offsets, PageUnits
  <2>2. CASE Next
    <3>1. layout' = layout /\ layout \in Layouts /\ Shape
      BY <2>2, StepIs
    <3>2. CASE Shape' /\ HandsOut
      BY <3>1, <3>2, HandsOutOne DEF Abstract!ANext
    <3>3. CASE \E x \in Places : Live(x) /\ Shape' /\ TakesBack(x)
      BY <3>1, <3>3, TakesBackOne DEF Abstract!ANext
    <3>4. CASE Destroyed
      <4>1. \A x \in Places' : kind'[x[1]] = "none"
        BY <3>4 DEF Destroyed, Places
      <4>2. LiveRegions' = {}
        BY <4>1 DEF LiveRegions
      <4>3. QED
        BY <4>2 DEF Abstract!ANext, Abstract!ReleaseAll
    <3>5. QED
      BY <2>2, <3>2, <3>3, <3>4, StepIs
  <2>3. QED
    BY <2>1, <2>2
<1>3. QED
  BY <1>1, <1>2, Invariance, PTL DEF Spec, ImplementsAllocator, Abstract!ASpec
-------------------------------------------------------------------------------
(* actual_mem_used. *)

MemInv ==
  /\ open => /\ memUsed = SumFunctionOnSet(extent, Pages)
             /\ \A p \in Pages : kind[p] = "none" => extent[p] = 0
  /\ ~open => memUsed = 0

\* What a call does to the pages: nothing, or one is allocated, or one given back.
PagesMove ==
  \/ UNCHANGED pageVars
  \/ \E p \in Pages, k \in {"small", "medium", "large"}, n \in Nat : AllocatePage(p, k, n)
  \/ \E p \in Pages : FreePage(p)

LEMMA AllocMoves ==
  ASSUME layout \in Layouts, NEW n \in SmallSizes \cup MediumSizes \cup LargeSizes, Alloc(n)
  PROVE  PagesMove
<1>1. PageUnits \in Nat /\ n \in Nat
  BY Units
<1>2. CASE SmallAllocate(n)
  BY <1>1, <1>2 DEF SmallAllocate, SmallReuse, SmallCut, SmallNewPage, PagesMove
<1>3. CASE MediumAllocate(n)
  BY <1>1, <1>3 DEF MediumAllocate, PagesMove
<1>4. CASE LargeAllocate(n)
  BY <1>1, <1>4 DEF LargeAllocate, PagesMove
<1>5. QED
  BY <1>2, <1>3, <1>4 DEF Alloc, AllocAs

LEMMA FreeMoves ==
  ASSUME NEW x \in Places, Free(x)
  PROVE  PagesMove
<1>1. x[1] \in Pages
  BY DEF Places
<1>2. CASE SmallFree(x)
  BY <1>2 DEF SmallFree, PagesMove
<1>3. CASE MediumFree(x)
  BY <1>1, <1>3 DEF MediumFree, PagesMove
<1>4. CASE LargeFree(x)
  BY <1>1, <1>4 DEF LargeFree, PagesMove
<1>5. QED
  BY <1>2, <1>3, <1>4 DEF Free

LEMMA MovesCounted ==
  ASSUME Shape, open, MemInv, PagesMove, open' = open
  PROVE  MemInv'
<1>1. /\ kind \in [Pages -> {"none", "small", "medium", "large"}]
      /\ extent \in [Pages -> Int] /\ \A p \in Pages : extent[p] \in Nat
      /\ memUsed = SumFunctionOnSet(extent, Pages)
      /\ \A p \in Pages : kind[p] = "none" => extent[p] = 0
  BY DEF Shape, PageTypes, MemInv
<1>2. IsFiniteSet(Pages)
  BY HeapAssumption
<1>3. SUFFICES /\ memUsed' = SumFunctionOnSet(extent', Pages)
               /\ \A p \in Pages : kind'[p] = "none" => extent'[p] = 0
  BY DEF MemInv
<1>4. CASE UNCHANGED pageVars
  BY <1>1, <1>4 DEF pageVars
<1>5. ASSUME NEW p \in Pages, NEW k \in {"small", "medium", "large"}, NEW n \in Nat,
             AllocatePage(p, k, n)
      PROVE  /\ memUsed' = SumFunctionOnSet(extent', Pages)
             /\ \A q \in Pages : kind'[q] = "none" => extent'[q] = 0
  <2>1. /\ kind[p] = "none" /\ kind' = [kind EXCEPT ![p] = k]
        /\ extent' = [extent EXCEPT ![p] = n] /\ memUsed' = memUsed + n
    BY <1>5 DEF AllocatePage
  <2>2. SumFunctionOnSet(extent', Pages) = SumFunctionOnSet(extent, Pages) - extent[p] + n
    <3>1. extent' \in [Pages -> Int] /\ extent'[p] = n /\ \A q \in Pages \ {p} : extent'[q] = extent[q]
      BY <1>1, <2>1
    <3>2. QED
      BY <1>1, <1>2, <3>1, SumChanged
  <2>3. extent[p] = 0 /\ SumFunctionOnSet(extent, Pages) \in Int
    BY <1>1, <1>2, <2>1, SumRemove
  <2>4. QED
    BY <1>1, <2>1, <2>2, <2>3
<1>6. ASSUME NEW p \in Pages, FreePage(p)
      PROVE  /\ memUsed' = SumFunctionOnSet(extent', Pages)
             /\ \A q \in Pages : kind'[q] = "none" => extent'[q] = 0
  <2>1. /\ kind' = [kind EXCEPT ![p] = "none"]
        /\ extent' = [extent EXCEPT ![p] = 0] /\ memUsed' = memUsed - extent[p]
    BY <1>6 DEF FreePage
  <2>2. SumFunctionOnSet(extent', Pages) = SumFunctionOnSet(extent, Pages) - extent[p] + 0
    <3>1. extent' \in [Pages -> Int] /\ extent'[p] = 0 /\ \A q \in Pages \ {p} : extent'[q] = extent[q]
      BY <1>1, <2>1
    <3>2. QED
      BY <1>1, <1>2, <3>1, SumChanged
  <2>3. extent[p] \in Int /\ SumFunctionOnSet(extent, Pages) \in Int
    BY <1>1, <1>2, SumRemove
  <2>4. QED
    BY <1>1, <2>1, <2>2, <2>3
<1>7. QED
  BY <1>4, <1>5, <1>6 DEF PagesMove

\* The pages AR_DestroyHeap finds are all that memory is counted for.
LEMMA DestroyCounted ==
  ASSUME Shape, open, MemInv, AR_DestroyHeap
  PROVE  MemInv'
<1> DEFINE Found == {p \in Pages : kind[p] # "none"}
<1>1. /\ extent \in [Pages -> Int]
      /\ memUsed = SumFunctionOnSet(extent, Pages)
      /\ \A p \in Pages : p \notin Found => extent[p] = 0
  BY DEF Shape, PageTypes, MemInv
<1>2. IsFiniteSet(Pages)
  BY HeapAssumption
<1>3. Walk \in Seq(Pages) /\ IsInjective(Walk) /\ ToSet(Walk) = Found
  BY WalkFacts
<1>4. memUsed' = memUsed - SumFunction([i \in DOMAIN Walk |-> extent[Walk[i]]]) /\ open' = FALSE
  BY DEF AR_DestroyHeap
<1>5. SumFunction([i \in DOMAIN Walk |-> extent[Walk[i]]]) = SumFunctionOnSet(extent, Found)
  BY <1>1, <1>2, <1>3, SumAlong
<1>6. SumFunctionOnSet(extent, Pages) = SumFunctionOnSet(extent, Found)
  <2>1. Found \in SUBSET Pages /\ \A p \in Pages \ Found : extent[p] = 0
    BY <1>1
  <2> HIDE DEF Found
  <2>2. QED
    BY <1>1, <1>2, <2>1, SumWithout
<1>7. SumFunctionOnSet(extent, Pages) \in Int
  BY <1>1, <1>2, SumRemove
<1>8. QED
  BY <1>1, <1>4, <1>5, <1>6, <1>7 DEF MemInv

LEMMA MemBegins == Init => MemInv
<1> SUFFICES ASSUME Init PROVE MemInv
  OBVIOUS
<1>1. PICK p \in Pages :
        /\ layout \in Layouts
        /\ kind = [q \in Pages |-> IF q = p THEN "small" ELSE "none"]
        /\ extent = [q \in Pages |-> IF q = p THEN PageUnits ELSE 0]
        /\ memUsed = PageUnits /\ open = TRUE
  BY DEF Init
<1>2. PageUnits \in Nat /\ IsFiniteSet(Pages)
  BY <1>1, Units, HeapAssumption
<1> DEFINE zero == [q \in Pages |-> 0]
<1>3. SumFunctionOnSet(zero, Pages) = 0
  <2>1. zero \in [Pages -> Int] /\ {} \in SUBSET Pages /\ \A q \in Pages \ {} : zero[q] = 0
    OBVIOUS
  <2> HIDE DEF zero
  <2>2. SumFunctionOnSet(zero, Pages) = SumFunctionOnSet(zero, {})
    BY <1>2, <2>1, SumWithout
  <2>3. QED
    BY <1>2, <2>1, <2>2, SumRemove
<1>4. /\ extent \in [Pages -> Int] /\ extent[p] = PageUnits /\ zero \in [Pages -> Int]
      /\ zero[p] = 0 /\ \A q \in Pages \ {p} : extent[q] = zero[q]
  BY <1>1, <1>2
<1>5. SumFunctionOnSet(extent, Pages) = SumFunctionOnSet(zero, Pages) - zero[p] + PageUnits
  <2> HIDE DEF zero
  <2> QED BY <1>2, <1>4, SumChanged
<1>6. memUsed = SumFunctionOnSet(extent, Pages)
  <2> HIDE DEF zero
  <2> QED BY <1>1, <1>2, <1>3, <1>4, <1>5
<1>7. \A q \in Pages : kind[q] = "none" => extent[q] = 0
  BY <1>1
<1>8. QED
  BY <1>1, <1>6, <1>7 DEF MemInv

LEMMA MemStep == IInv /\ MemInv /\ [Next]_vars => MemInv'
<1> SUFFICES ASSUME IInv, MemInv, [Next]_vars PROVE MemInv'
  OBVIOUS
<1>1. CASE UNCHANGED vars
  BY <1>1 DEF vars, pageVars, MemInv
<1>2. CASE Next
  <2>1. /\ layout \in Layouts /\ moving \in Places \cup {NoPlace} /\ open \in BOOLEAN
        /\ open => Shape
        /\ ~open => moving = NoPlace
    BY DEF IInv, TypeOK
  <2>2. CASE AR_DestroyHeap
    <3>1. open
      BY <2>2 DEF AR_DestroyHeap, Idle
    <3>2. QED
      BY <2>1, <2>2, <3>1, DestroyCounted
  <2>3. CASE \E n \in SmallSizes \cup MediumSizes \cup LargeSizes :
               \/ AR_AllocFromHeap(n)
               \/ \E x \in Places : AR_ReallocFromHeap(x, n)
    <3>1. PICK n \in SmallSizes \cup MediumSizes \cup LargeSizes : Alloc(n) /\ open /\ open' = open
      BY <2>3 DEF AR_AllocFromHeap, AR_ReallocFromHeap, Alloc, Idle
    <3>2. QED
      BY <2>1, <3>1, AllocMoves, MovesCounted
  <2>4. CASE \E x \in Places : AR_FreeToHeap(x)
    <3>1. PICK x \in Places : Free(x) /\ open /\ open' = open
      BY <2>4 DEF AR_FreeToHeap, Idle
    <3>2. QED
      BY <2>1, <3>1, FreeMoves, MovesCounted
  <2>5. CASE ReallocFrees
    <3>1. moving \in Places /\ Free(moving) /\ open /\ open' = open
      BY <2>1, <2>5 DEF ReallocFrees
    <3>2. QED
      BY <2>1, <3>1, FreeMoves, MovesCounted
  <2>6. QED
    BY <1>2, <2>2, <2>3, <2>4, <2>5 DEF Next
<1>3. QED
  BY <1>1, <1>2

\* actual_mem_used is the memory of the pages in use, whatever was allocated,
\* split, merged and given back; AR_DestroyHeap finds all of it.
THEOREM MemoryIsCounted == Spec => []MemoryCounted
<1>1. MemInv /\ IInv => MemoryCounted
  BY DEF MemInv, MemoryCounted, IInv, TypeOK
<1>2. QED
  BY <1>1, MemBegins, MemStep, Invariance, PTL DEF Spec
===============================================================================
