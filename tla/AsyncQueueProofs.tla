--------------------------- MODULE AsyncQueueProofs ---------------------------
(* The safety invariants of AsyncQueue and its implementation of             *)
(* HandoffQueue, for every set of threads, items and events, every cache     *)
(* size and every set of library calls that may fail.  What is said of a     *)
(* queue in which a getter has gone astray (Sound) is proved of every step,  *)
(* what is said until then (Handoff) of the steps that leave astray FALSE.   *)
EXTENDS AsyncQueue, SeqLemmas, FiniteSetTheorems

Sound == TypeOK /\ DataOrWaiters /\ LockScope /\ EventHasOneOwner /\ CacheCountExact

Handoff == WaitLine /\ SetIffServed /\ OnePlacePerItem

LEMMA Parts ==
  /\ QueueInv <=> Sound /\ Blame /\ Handoff
  /\ astray => Handoff
BY DEF QueueInv, Sound, Handoff, WaitLine, SetIffServed, OnePlacePerItem

LEMMA Astray == astray' => Handoff'
BY DEF Handoff, WaitLine, SetIffServed, OnePlacePerItem

\* What a step of one thread's program counter does to the derived predicates.
LEMMA Moved ==
  ASSUME TypeOK, NEW t \in Threads, NEW l, Goto(t, l)
  PROVE  /\ \A u \in Threads : pc'[u] = IF u = t THEN l ELSE pc[u]
         /\ \A u \in Threads \ {t} : Waiting(u)' <=> Waiting(u)
         /\ Waiting(t)' <=> l \in {"wait", "expired", "failed"}
         /\ pc[t] # "unlink" /\ l # "unlink" => (Unlinking' <=> Unlinking)
<1>1. \A u \in Threads : pc'[u] = IF u = t THEN l ELSE pc[u]
  BY DEF TypeOK, Goto
<1>2. QED
  BY <1>1 DEF Waiting, Unlinking

\* While nobody, or a thread before its unlink, holds the lock, nobody is
\* between signalling and unlinking a waiter.
LEMMA NotUnlinking ==
  ASSUME Sound
  PROVE  /\ mutex = NULL => ~Unlinking
         /\ \A t \in Threads : pc[t] \in Holding /\ pc[t] # "unlink" => ~Unlinking
         /\ \A t, u \in Threads : pc[t] \in Holding /\ pc[u] \in Holding => t = u
         /\ ~Unlinking => blocked = waitq
         /\ Unlinking => blocked = Tail(waitq) /\ waitq # <<>>
BY AsyncQueueAssumption DEF Sound, LockScope, Holding, Unlinking, blocked

LEMMA BlockedLine ==
  ASSUME QueueInv, ~astray
  PROVE  /\ blocked \in Seq(Threads) /\ IsInjective(blocked)
         /\ ToSet(blocked) \subseteq Threads /\ ToSet(waitq) \subseteq Threads
         /\ ToSet(blocked) \subseteq ToSet(waitq)
<1>1. waitq \in Seq(Threads) /\ IsInjective(waitq)
  BY DEF QueueInv, TypeOK, WaitLine
<1>2. blocked \in Seq(Threads) /\ IsInjective(blocked) /\ ToSet(blocked) \subseteq ToSet(waitq)
  BY <1>1, Parts, NotUnlinking, TailFacts
<1>3. ToSet(waitq) \subseteq Threads
  BY <1>1, ElementOfSeq DEF ToSet
<1>4. QED
  BY <1>2, <1>3

\* A step that keeps the line, the infos of the served getters and the places
\* of the items, and moves nobody into or out of a wait or a put.
LEMMA QuietHandoff ==
  ASSUME QueueInv, ~astray, UNCHANGED <<waitq, infoData, dataq, fate, arg>>,
         Unlinking' <=> Unlinking,
         \A u \in Threads : Waiting(u)' <=> Waiting(u),
         \A u \in Threads : pc'[u] = "signal" => pc[u] = "signal"
  PROVE  /\ blocked' = blocked
         /\ \A u \in Threads : Served(u)' <=> Served(u)
         /\ WaitLine'
         /\ OnePlacePerItem'
<1>1. blocked' = blocked
  BY DEF blocked
<1>2. ToSet(blocked)' = ToSet(blocked) /\ ToSet(dataq)' = ToSet(dataq)
  BY <1>1 DEF ToSet
<1>3. \A u \in Threads : Served(u)' <=> Served(u)
  BY <1>2 DEF Served
<1>4. \A u \in Threads, x \in Items : Handed(u, x)' <=> Handed(u, x)
  BY <1>3 DEF Handed
<1>5. IsInjective(waitq)' /\ IsInjective(dataq)'
  BY DEF QueueInv, WaitLine, OnePlacePerItem, IsInjective
<1>6. WaitLine'
  <2>1. \A u \in ToSet(blocked)' : Waiting(u)'
    BY <1>2, BlockedLine DEF QueueInv, WaitLine
  <2>2. QED
    BY <1>3, <1>5, <2>1 DEF QueueInv, WaitLine
<1>7. OnePlacePerItem'
  BY <1>2, <1>4, <1>5 DEF QueueInv, OnePlacePerItem
<1>8. QED
  BY <1>1, <1>3, <1>6, <1>7

\* A step that changes no event, moves nobody into a wait or to registration
\* and serves nobody.
LEMMA QuietFlags ==
  ASSUME QueueInv, ~astray, UNCHANGED <<infoEvent, event, cached>>,
         \A u \in Threads : /\ Waiting(u)' => Waiting(u)
                            /\ Waiting(u)' => (Served(u)' <=> Served(u))
                            /\ pc'[u] = "register" => pc[u] = "register"
  PROVE  SetIffServed'
BY DEF QueueInv, SetIffServed

LEMMA InitInv == Init => QueueInv
<1> SUFFICES ASSUME Init PROVE QueueInv
  OBVIOUS
<1> USE AsyncQueueAssumption DEF Init
<1>1. TypeOK
  <2>1. dataq \in Seq(Items) /\ waitq \in Seq(Threads)
    BY EmptySeq
  <2>2. cachedCnt \in 0..CacheSize
    OBVIOUS
  <2>3. QED
    BY <2>1, <2>2 DEF TypeOK
<1>2. DataOrWaiters /\ LockScope /\ Blame
  BY DEF DataOrWaiters, LockScope, Holding, Blame
<1>3. blocked = <<>> /\ ToSet(<<>>) = {} /\ IsInjective(<<>>)
  BY DEF blocked, Unlinking, ToSet, IsInjective
<1>4. \A t \in Threads : ~Waiting(t) /\ ~Served(t)
  BY DEF Served, Waiting
<1>5. WaitLine /\ OnePlacePerItem /\ SetIffServed
  BY <1>3, <1>4 DEF WaitLine, OnePlacePerItem, SetIffServed, Handed
<1>6. EventHasOneOwner
  BY DEF EventHasOneOwner, Holds, Getting
<1>7. CacheCountExact
  <2>1. {i \in Slots : cached[i] # NULL} = {}
    OBVIOUS
  <2>2. QED
    BY <2>1, FS_EmptySet DEF CacheCountExact
<1>8. QED
  BY <1>1, <1>2, <1>5, <1>6, <1>7 DEF QueueInv

\* Nobody picks or releases an event and none is created or destroyed.
LEMMA QuietEvents ==
  ASSUME Sound, UNCHANGED <<infoEvent, cached, cachedCnt, open>>,
         \A e \in Events : event'[e] = "none" <=> event[e] = "none",
         \A u \in Threads : pc'[u] \in Getting <=> pc[u] \in Getting
  PROVE  EventHasOneOwner' /\ CacheCountExact'
<1>1. \A u \in Threads, e \in Events : Holds(u, e)' <=> Holds(u, e)
  BY DEF Holds
<1>2. EventHasOneOwner'
  BY <1>1 DEF Sound, EventHasOneOwner
<1>3. QED
  BY <1>2 DEF Sound, CacheCountExact

\* Setting the flag of an event that may be gone.
LEMMA Raised ==
  ASSUME Sound, NEW k, NEW v \in {"set", "left"},
         \/ event' = [event EXCEPT ![k] = IF @ = "none" THEN @ ELSE v]
         \/ event' = [event EXCEPT ![k] = IF @ = "reset" THEN v ELSE @]
  PROVE  /\ event' \in [Events -> {"none", "reset", "set", "left"}]
         /\ \A e \in Events : e # k => event'[e] = event[e]
         /\ \A e \in Events : event'[e] = "none" <=> event[e] = "none"
         /\ \A e \in Events : event'[e] = event[e] \/ event'[e] = v
BY DEF Sound, TypeOK

\* The slots in use, and what the two searches of the cache find.
Occupied == {i \in Slots : cached[i] # NULL}

LEMMA CacheSearch ==
  ASSUME Sound, open
  PROVE  /\ IsFiniteSet(Occupied) /\ cachedCnt = Cardinality(Occupied)
         /\ cachedCnt > 0 => FirstCached \in Slots /\ cached[FirstCached] # NULL
         /\ cachedCnt # CacheSize => FirstFree \in Slots /\ cached[FirstFree] = NULL
<1> USE AsyncQueueAssumption
<1>1. IsFiniteSet(Slots) /\ Cardinality(Slots) = CacheSize /\ Slots \subseteq Nat
  BY FS_Interval DEF Slots
<1>2. /\ Occupied \subseteq Slots /\ IsFiniteSet(Occupied)
      /\ cachedCnt = Cardinality(Occupied)
  BY <1>1, FS_Subset DEF Occupied, Sound, CacheCountExact
<1>3. ASSUME cachedCnt > 0
      PROVE  FirstCached \in Slots /\ cached[FirstCached] # NULL
  <2>1. Occupied # {}
    BY <1>2, <1>3, FS_EmptySet
  <2>2. \E i \in Occupied : \A j \in Occupied : i <= j
    BY <1>1, <1>2, <2>1, LeastOf
  <2>3. QED
    BY <2>2 DEF FirstCached, Occupied
<1>4. ASSUME cachedCnt # CacheSize
      PROVE  FirstFree \in Slots /\ cached[FirstFree] = NULL
  <2>1. Slots \ Occupied # {}
    BY <1>1, <1>2, <1>4
  <2>2. \E i \in Slots \ Occupied : \A j \in Slots \ Occupied : i <= j
    BY <1>1, <2>1, LeastOf
  <2>3. QED
    BY <2>2 DEF FirstFree, Occupied
<1>5. QED
  BY <1>2, <1>3, <1>4

-------------------------------------------------------------------------------
(* Put.                                                                    *)

LEMMA PutDataInv ==
  ASSUME QueueInv, NEW t \in Threads, NEW x \in Items, NEW front \in BOOLEAN,
         PutData(t, x, front)
  PROVE  QueueInv'
<1> USE AsyncQueueAssumption DEF PutData, Enter, Fate
<1> Sound /\ Blame /\ Handoff
  BY Parts
<1> USE DEF Sound
<1>1. /\ \A u \in Threads : Waiting(u)' <=> Waiting(u)
      /\ Unlinking' <=> Unlinking
      /\ \A u \in Threads : Served(u)' <=> Served(u)
      /\ blocked' = blocked
  BY DEF Waiting, Unlinking, Served, blocked, ToSet
<1>2. dataq \in Seq(Items)
  BY DEF TypeOK
<1>3. \/ /\ dataq' \in Seq(Items) /\ fate' = [fate EXCEPT ![x] = "sent"]
         /\ ToSet(dataq') = ToSet(dataq) \cup {x}
         /\ IsInjective(dataq) /\ x \notin ToSet(dataq) => IsInjective(dataq')
      \/ dataq' = dataq /\ fate' = [fate EXCEPT ![x] = "refused"]
  <2>1. /\ <<x>> \o dataq \in Seq(Items)
        /\ ToSet(<<x>> \o dataq) = ToSet(dataq) \cup {x}
        /\ IsInjective(dataq) /\ x \notin ToSet(dataq) => IsInjective(<<x>> \o dataq)
    BY <1>2, ConsFacts
  <2>2. /\ Append(dataq, x) \in Seq(Items)
        /\ ToSet(Append(dataq, x)) = ToSet(dataq) \cup {x}
        /\ IsInjective(dataq) /\ x \notin ToSet(dataq) => IsInjective(Append(dataq, x))
    BY <1>2, AppendFacts
  <2>3. CASE front
    BY <2>1, <2>3
  <2>4. CASE ~front
    BY <2>2, <2>4
  <2>5. QED
    BY <2>3, <2>4
<1>4. TypeOK'
  BY <1>3 DEF TypeOK
<1>5. DataOrWaiters' /\ LockScope' /\ Blame'
  BY DEF TypeOK, DataOrWaiters, LockScope, Holding, Blame
<1>6. EventHasOneOwner' /\ CacheCountExact'
  BY QuietEvents
<1>7. ASSUME ~astray PROVE Handoff'
  <2> USE <1>7 DEF Handoff
  <2>1. /\ IsInjective(dataq) /\ x \notin ToSet(dataq)
        /\ \A u \in Threads : ~Handed(u, x)
    BY DEF OnePlacePerItem, Unsent
  <2>2. WaitLine'
    BY <1>1, BlockedLine DEF WaitLine, IsInjective, ToSet, LockScope, Holding
  <2>3. SetIffServed'
    BY <1>1, QuietFlags
  <2>4. OnePlacePerItem'
    <3>1. \A u \in Threads, y \in Items : Handed(u, y)' <=> Handed(u, y)
      BY <1>1 DEF Handed
    <3>2. \A y \in Items : fate'[y] = IF y = x THEN fate'[x] ELSE fate[y]
      BY <1>3 DEF TypeOK
    <3>3. QED
      BY <1>3, <2>1, <3>1, <3>2 DEF OnePlacePerItem, TypeOK
  <2>5. QED
    BY <2>2, <2>3, <2>4
<1>8. QED
  BY <1>4, <1>5, <1>6, <1>7, Parts, Astray DEF QueueInv, Handoff

LEMMA PutFillInv ==
  ASSUME QueueInv, NEW t \in Threads, NEW x \in Items, PutFill(t, x)
  PROVE  QueueInv'
<1> USE AsyncQueueAssumption DEF PutFill, Enter, Goto
<1> Sound /\ Blame /\ Handoff
  BY Parts
<1> USE DEF Sound
<1> DEFINE w == Head(waitq)
<1>1. /\ ~Unlinking /\ ~Unlinking' /\ blocked = waitq /\ blocked' = blocked
      /\ \A u \in Threads : Waiting(u)' <=> Waiting(u)
      /\ \A u \in Threads : pc'[u] = IF u = t THEN "signal" ELSE pc[u]
  <2>1. \A u \in Threads : pc'[u] = IF u = t THEN "signal" ELSE pc[u]
    BY DEF TypeOK
  <2>2. ~Unlinking /\ blocked = waitq
    BY NotUnlinking DEF Holding
  <2>3. QED
    BY <2>1, <2>2 DEF Unlinking, blocked, Waiting
<1>2. w \in Threads /\ w \in ToSet(waitq)
  BY TailFacts DEF TypeOK
<1>3. /\ \A u \in Threads : Served(u)' <=> Served(u)
      /\ ~Served(w)
      /\ \A u \in Threads : infoData'[u] = IF u = w THEN x ELSE infoData[u]
  BY <1>1, <1>2 DEF Served, ToSet, TypeOK
<1>4. TypeOK'
  BY <1>2 DEF TypeOK, Holding
<1>5. DataOrWaiters' /\ LockScope' /\ Blame'
  BY <1>1, <1>3, <1>2 DEF TypeOK, DataOrWaiters, LockScope, Holding, Unsent, Blame
<1>6. EventHasOneOwner' /\ CacheCountExact'
  BY <1>1, QuietEvents DEF Getting
<1>7. ASSUME ~astray PROVE Handoff'
  <2> USE <1>7 DEF Handoff
  <2>1. SetIffServed'
    BY <1>1, <1>3, QuietFlags
  <2>2. \A u \in Threads : pc'[u] = "signal" => u = t /\ arg'[u] = x
    BY <1>1 DEF LockScope, Holding, TypeOK
  <2>3. WaitLine'
    BY <1>1, <1>2, <1>3, <2>2, BlockedLine DEF WaitLine, IsInjective, ToSet, Unsent
  <2>4. \A u \in Threads, y \in Items : Handed(u, y)' <=> Handed(u, y)
    BY <1>3 DEF Handed
  <2>5. OnePlacePerItem'
    BY <2>4 DEF OnePlacePerItem
  <2>6. QED
    BY <2>1, <2>3, <2>5
<1>8. QED
  BY <1>4, <1>5, <1>6, <1>7, Parts, Astray DEF QueueInv, Handoff

LEMMA PutSignalInv ==
  ASSUME QueueInv, NEW t \in Threads, PutSignal(t)
  PROVE  QueueInv'
<1> USE AsyncQueueAssumption DEF PutSignal, Goto, Fate
<1> Sound /\ Blame /\ Handoff
  BY Parts
<1> USE DEF Sound
<1> DEFINE w == Head(waitq)
<1>1. /\ ~Unlinking /\ Unlinking' /\ blocked = waitq /\ blocked' = Tail(waitq)
      /\ \A u \in Threads : Waiting(u)' <=> Waiting(u)
      /\ \A u \in Threads : pc'[u] = IF u = t THEN "unlink" ELSE pc[u]
      /\ waitq # <<>>
  <2>1. \A u \in Threads : pc'[u] = IF u = t THEN "unlink" ELSE pc[u]
    BY DEF TypeOK
  <2>2. ~Unlinking /\ blocked = waitq /\ waitq # <<>>
    BY NotUnlinking DEF Holding, LockScope
  <2>3. QED
    BY <2>1, <2>2 DEF Unlinking, blocked, Waiting
<1>2. /\ event' \in [Events -> {"none", "reset", "set", "left"}]
      /\ \A e \in Events : e # infoEvent[w] => event'[e] = event[e]
      /\ \A e \in Events : event'[e] = "none" <=> event[e] = "none"
      /\ \A e \in Events : event'[e] = event[e] \/ event'[e] = "set"
  BY Raised
<1>3. TypeOK'
  BY <1>2 DEF TypeOK, Holding
<1>4. DataOrWaiters' /\ LockScope' /\ Blame'
  BY <1>1, <1>2, NotUnlinking DEF TypeOK, DataOrWaiters, LockScope, Holding, Blame
<1>5. EventHasOneOwner' /\ CacheCountExact'
  BY <1>1, <1>2, QuietEvents DEF Getting
<1>6. ASSUME ~astray PROVE Handoff'
  <2> USE <1>6 DEF Handoff
  <2>1. /\ w \in Threads /\ w \in ToSet(waitq)
        /\ ToSet(blocked') = ToSet(waitq) \ {w} /\ blocked' \in Seq(Threads)
        /\ IsInjective(blocked')
    BY <1>1, TailFacts DEF TypeOK, WaitLine
  <2>2. /\ Waiting(w) /\ ~Served(w) /\ infoData[w] = arg[t] /\ arg[t] \in Items
        /\ fate[arg[t]] = "fresh"
    BY <1>1, <2>1 DEF WaitLine, Served, LockScope, TypeOK
  <2>3. \A u \in Threads : Served(u)' <=> Served(u) \/ u = w
    BY <1>1, <2>1, <2>2 DEF Served, ToSet
  <2>4. /\ infoEvent[w] \in Events /\ event'[infoEvent[w]] = "set"
        /\ \A u \in Threads : pc[u] \in Getting => infoEvent[u] \in Events
        /\ \A u \in Threads : pc[u] \in Getting /\ u # w => infoEvent[u] # infoEvent[w]
        /\ \A i \in Slots : cached[i] # infoEvent[w]
    <3>1. \A u \in Threads : pc[u] \in Getting => infoEvent[u] \in Events
      BY DEF EventHasOneOwner, TypeOK
    <3>2. pc[w] \in Getting /\ Holds(w, infoEvent[w])
      BY <2>1, <2>2 DEF Waiting, Getting, Holds
    <3>3. \A u \in Threads : pc[u] \in Getting /\ u # w => infoEvent[u] # infoEvent[w]
      BY <2>1, <3>1, <3>2 DEF EventHasOneOwner, Holds
    <3>4. event[infoEvent[w]] # "none" /\ \A i \in Slots : cached[i] # infoEvent[w]
      BY <2>1, <3>1, <3>2 DEF EventHasOneOwner
    <3>5. event'[infoEvent[w]] = "set"
      BY <2>1, <3>1, <3>2, <3>4 DEF TypeOK
    <3>6. QED
      BY <2>1, <3>1, <3>2, <3>3, <3>4, <3>5
  <2>5. WaitLine'
    <3>1. \A u \in Threads : pc'[u] # "signal"
      BY <1>1, NotUnlinking DEF Holding
    <3>2. IsInjective(waitq') /\ \A u \in ToSet(blocked') : Waiting(u)'
      BY <1>1, <2>1, BlockedLine DEF WaitLine, IsInjective, ToSet
    <3>3. \A u \in Threads : Served(u)' => infoData'[u] # NULL
      BY <2>2, <2>3 DEF WaitLine
    <3>4. QED
      BY <3>1, <3>2, <3>3 DEF WaitLine, ToSet
  <2>6. SetIffServed'
    <3>1. \A u \in Threads : Waiting(u) => pc[u] \in Getting
      BY DEF Waiting, Getting
    <3>2. \A u \in Threads : Waiting(u)' => (event'[infoEvent'[u]] = "set" <=> Served(u)')
      BY <1>1, <1>2, <2>3, <2>4, <3>1 DEF SetIffServed
    <3>3. \A u \in Threads : pc'[u] # "register"
      BY <1>1, NotUnlinking DEF Holding
    <3>4. \A i \in Slots : cached'[i] # NULL => event'[cached'[i]] = "reset"
      BY <1>2, <2>4 DEF SetIffServed, TypeOK
    <3>5. QED
      BY <3>2, <3>3, <3>4 DEF SetIffServed
  <2>7. OnePlacePerItem'
    <3>1. \A u \in Threads, y \in Items :
            Handed(u, y)' <=> Handed(u, y) \/ (u = w /\ y = arg[t])
      BY <2>2, <2>3 DEF Handed
    <3>2. \A y \in Items : fate'[y] = IF y = arg[t] THEN "sent" ELSE fate[y]
      BY <2>2 DEF TypeOK
    <3>3. QED
      BY <2>1, <2>2, <3>1, <3>2 DEF OnePlacePerItem
  <2>8. QED
    BY <2>5, <2>6, <2>7
<1>7. QED
  BY <1>3, <1>4, <1>5, <1>6, Parts, Astray DEF QueueInv, Handoff

\* A refused put leaves the line as it was; the flag of the first waiter may be
\* up, but is not taken for that of a put that succeeded.
LEMMA PutRefusedInv ==
  ASSUME QueueInv, NEW t \in Threads, PutSignalFails(t) \/ PutBroadcastFails(t)
  PROVE  QueueInv'
<1> USE AsyncQueueAssumption DEF PutSignalFails, PutBroadcastFails, PutRefused, Goto, Fate
<1> Sound /\ Blame /\ Handoff
  BY Parts
<1> USE DEF Sound
<1> DEFINE w == Head(waitq)
<1>1. /\ pc[t] = "signal" /\ pc' = [pc EXCEPT ![t] = "idle"]
      /\ mutex' = NULL /\ arg' = [arg EXCEPT ![t] = NULL]
      /\ fate' = [fate EXCEPT ![arg[t]] = "refused"]
      /\ UNCHANGED <<dataq, waitq, infoEvent, infoData, cached, cachedCnt, timed, open,
                     astray>>
  OBVIOUS
<1>2. /\ event' \in [Events -> {"none", "reset", "set", "left"}]
      /\ \A e \in Events : event'[e] = "none" <=> event[e] = "none"
      /\ \A e \in Events : event'[e] = event[e] \/ (event'[e] = "left" /\ "broadcast" \in Faults)
      /\ \A e \in Events : e # infoEvent[w] => event'[e] = event[e]
      /\ \A e \in Events : event'[e] = "set" <=> event[e] = "set"
  <2>1. CASE PutSignalFails(t)
    <3>1. event' = event
      BY <2>1
    <3>2. event \in [Events -> {"none", "reset", "set", "left"}]
      BY DEF TypeOK
    <3> HIDE DEF Sound, PutSignalFails, PutBroadcastFails, PutRefused
    <3>3. QED
      BY <3>1, <3>2
  <2>2. CASE PutBroadcastFails(t)
    <3>1. /\ event' = [event EXCEPT ![infoEvent[w]] = IF @ = "reset" THEN "left" ELSE @]
          /\ "broadcast" \in Faults
      BY <2>2
    <3>2. \A e \in Events :
            event'[e] = IF e = infoEvent[w] /\ event[e] = "reset" THEN "left" ELSE event[e]
      BY <3>1 DEF TypeOK
    <3>3. event' \in [Events -> {"none", "reset", "set", "left"}]
      BY <3>1 DEF TypeOK
    <3>4. QED
      BY <3>1, <3>2, <3>3
  <2>3. QED
    BY <2>1, <2>2
<1>3. /\ ~Unlinking /\ ~Unlinking' /\ blocked = waitq /\ blocked' = blocked
      /\ \A u \in Threads : Waiting(u)' <=> Waiting(u)
      /\ \A u \in Threads : pc'[u] = IF u = t THEN "idle" ELSE pc[u]
  <2>1. \A u \in Threads : pc'[u] = IF u = t THEN "idle" ELSE pc[u]
    BY <1>1 DEF TypeOK
  <2>2. ~Unlinking /\ blocked = waitq
    BY <1>1, NotUnlinking DEF Holding
  <2>3. QED
    BY <1>1, <2>1, <2>2 DEF Unlinking, blocked, Waiting
<1> HIDE DEF PutSignalFails, PutBroadcastFails, PutRefused
<1>4. TypeOK'
  BY <1>1, <1>2 DEF TypeOK
<1>5. DataOrWaiters' /\ LockScope' /\ Blame'
  BY <1>1, <1>2, <1>3, NotUnlinking DEF TypeOK, DataOrWaiters, LockScope, Holding, Blame
<1>6. EventHasOneOwner' /\ CacheCountExact'
  BY <1>1, <1>2, <1>3, QuietEvents DEF Getting
<1>7. ASSUME ~astray PROVE Handoff'
  <2> USE <1>7 DEF Handoff
  <2>1. /\ \A u \in Threads : Served(u)' <=> Served(u)
        /\ \A u \in Threads, y \in Items : Handed(u, y)' <=> Handed(u, y)
    BY <1>1, <1>3 DEF Served, Handed, ToSet
  <2>2. arg[t] \in Items /\ fate[arg[t]] = "fresh"
    BY <1>1 DEF LockScope, WaitLine, TypeOK
  <2>3. \A u \in Threads : pc'[u] \notin {"signal", "register"}
    BY <1>1, <1>3, NotUnlinking DEF Holding
  <2>4. WaitLine'
    BY <1>1, <1>3, <2>1, <2>3, BlockedLine DEF WaitLine, IsInjective, ToSet
  <2>5. /\ \A u \in Threads : Waiting(u) => infoEvent[u] \in Events
        /\ \A i \in Slots : cached[i] # NULL => cached[i] \in Events /\ cached[i] # infoEvent[w]
    <3>1. w \in Threads /\ Waiting(w)
      BY <1>1, <1>3, TailFacts DEF LockScope, WaitLine, TypeOK
    <3>2. \A u \in Threads : Waiting(u) => infoEvent[u] \in Events /\ Holds(u, infoEvent[u])
      BY DEF EventHasOneOwner, Waiting, Getting, Holds, TypeOK
    <3>3. QED
      BY <3>1, <3>2 DEF EventHasOneOwner, TypeOK
  <2>6. SetIffServed'
    BY <1>1, <1>2, <1>3, <2>1, <2>3, <2>5 DEF SetIffServed
  <2>7. OnePlacePerItem'
    BY <1>1, <2>1, <2>2 DEF OnePlacePerItem, TypeOK
  <2>8. QED
    BY <2>4, <2>6, <2>7
<1>8. QED
  BY <1>1, <1>4, <1>5, <1>6, <1>7, Parts, Astray DEF QueueInv, Handoff

LEMMA PutUnlinkInv ==
  ASSUME QueueInv, NEW t \in Threads, PutUnlink(t)
  PROVE  QueueInv'
<1> USE AsyncQueueAssumption DEF PutUnlink, Goto
<1> Sound /\ Blame /\ Handoff
  BY Parts
<1> USE DEF Sound
<1>1. /\ Unlinking /\ blocked = Tail(waitq) /\ waitq # <<>>
      /\ \A u \in Threads : pc'[u] = IF u = t THEN "idle" ELSE pc[u]
      /\ \A u \in Threads : Waiting(u)' <=> Waiting(u)
  <2>1. Unlinking
    BY DEF Unlinking
  <2>2. \A u \in Threads : pc'[u] = IF u = t THEN "idle" ELSE pc[u]
    BY DEF TypeOK
  <2>3. QED
    BY <2>1, <2>2, NotUnlinking DEF Waiting
<1>2. ~Unlinking' /\ blocked' = blocked
  BY <1>1, NotUnlinking DEF Unlinking, Holding, blocked
<1>3. TypeOK'
  BY <1>1, TailFacts DEF TypeOK
<1>4. DataOrWaiters' /\ LockScope' /\ Blame'
  BY <1>1, NotUnlinking DEF TypeOK, DataOrWaiters, LockScope, Holding, Blame
<1>5. EventHasOneOwner' /\ CacheCountExact'
  BY <1>1, QuietEvents DEF Getting
<1>6. ASSUME ~astray PROVE Handoff'
  <2> USE <1>6 DEF Handoff
  <2>1. /\ waitq' \in Seq(Threads) /\ IsInjective(waitq')
        /\ ToSet(blocked)' = ToSet(blocked) /\ ToSet(blocked) \subseteq Threads
    BY <1>1, <1>2, TailFacts, BlockedLine DEF TypeOK, WaitLine, ToSet
  <2>2. /\ \A u \in Threads : Served(u)' <=> Served(u)
        /\ \A u \in Threads, y \in Items : Handed(u, y)' <=> Handed(u, y)
    BY <1>1, <2>1 DEF Served, Handed
  <2>3. \A u \in Threads : pc'[u] \notin {"signal", "register"}
    BY <1>1, NotUnlinking DEF Holding
  <2>4. WaitLine'
    BY <1>1, <2>1, <2>2, <2>3 DEF WaitLine
  <2>5. SetIffServed'
    BY <1>1, <2>2, <2>3, QuietFlags
  <2>6. OnePlacePerItem'
    BY <2>2 DEF OnePlacePerItem
  <2>7. QED
    BY <2>4, <2>5, <2>6
<1>7. QED
  BY <1>3, <1>4, <1>5, <1>6, Parts, Astray DEF QueueInv, Handoff

-------------------------------------------------------------------------------
(* Get.                                                                    *)

LEMMA GetDataInv ==
  ASSUME QueueInv, NEW t \in Threads, GetData(t)
  PROVE  QueueInv'
<1> USE AsyncQueueAssumption DEF GetData, Enter, Fate
<1> Sound /\ Blame /\ Handoff
  BY Parts
<1> USE DEF Sound
<1> DEFINE x == Head(dataq)
<1>1. /\ \A u \in Threads : Waiting(u)' <=> Waiting(u)
      /\ \A u \in Threads : Served(u)' <=> Served(u)
      /\ blocked' = blocked
  BY DEF Waiting, Unlinking, Served, blocked, ToSet
<1>2. /\ x \in Items /\ x \in ToSet(dataq) /\ dataq' \in Seq(Items)
      /\ IsInjective(dataq) => /\ ToSet(dataq') = ToSet(dataq) \ {x}
                               /\ IsInjective(dataq')
  BY TailFacts DEF TypeOK
<1>3. TypeOK'
  BY <1>2 DEF TypeOK
<1>4. DataOrWaiters' /\ LockScope' /\ Blame'
  BY <1>2 DEF TypeOK, DataOrWaiters, LockScope, Holding, Blame
<1>5. EventHasOneOwner' /\ CacheCountExact'
  BY QuietEvents
<1>6. ASSUME ~astray PROVE Handoff'
  <2> USE <1>6 DEF Handoff
  <2>1. WaitLine'
    BY <1>1, BlockedLine DEF WaitLine, IsInjective, ToSet, LockScope, Holding
  <2>2. SetIffServed'
    BY <1>1, QuietFlags
  <2>3. OnePlacePerItem'
    <3>1. \A u \in Threads, y \in Items : Handed(u, y)' <=> Handed(u, y)
      BY <1>1 DEF Handed
    <3>2. \A y \in Items : fate'[y] = IF y = x THEN "received" ELSE fate[y]
      BY <1>2 DEF TypeOK
    <3>3. QED
      BY <1>2, <3>1, <3>2 DEF OnePlacePerItem
  <2>4. QED
    BY <2>1, <2>2, <2>3
<1>7. QED
  BY <1>3, <1>4, <1>5, <1>6, Parts, Astray DEF QueueInv, Handoff

LEMMA GetEmptyInv ==
  ASSUME QueueInv, NEW t \in Threads, NEW withTimeout \in BOOLEAN,
         GetEmpty(t, withTimeout)
  PROVE  QueueInv'
<1> USE AsyncQueueAssumption DEF GetEmpty, Enter
<1> Sound /\ Blame /\ Handoff
  BY Parts
<1> USE DEF Sound
<1>1. /\ \A u \in Threads : pc'[u] = IF u = t THEN "pick" ELSE pc[u]
      /\ \A u \in Threads : Waiting(u)' <=> Waiting(u)
      /\ Unlinking' <=> Unlinking
  BY Moved DEF Waiting
<1> USE DEF Goto
<1>2. TypeOK'
  BY DEF TypeOK, Holding
<1>3. DataOrWaiters' /\ LockScope' /\ Blame'
  BY <1>1 DEF TypeOK, DataOrWaiters, LockScope, Holding, Blame
<1>4. EventHasOneOwner' /\ CacheCountExact'
  BY <1>1, QuietEvents DEF Getting
<1>5. ASSUME ~astray PROVE Handoff'
  BY <1>1, <1>5, QuietHandoff, QuietFlags DEF Handoff
<1>6. QED
  BY <1>2, <1>3, <1>4, <1>5, Parts, Astray DEF QueueInv, Handoff

LEMMA PickCachedInv ==
  ASSUME QueueInv, NEW t \in Threads, PickCached(t)
  PROVE  QueueInv'
<1> USE AsyncQueueAssumption DEF PickCached
<1> Sound /\ Blame /\ Handoff
  BY Parts
<1> USE DEF Sound
<1> DEFINE f == FirstCached
           e == cached[f]
<1>1. /\ \A u \in Threads : pc'[u] = IF u = t THEN "register" ELSE pc[u]
      /\ \A u \in Threads : Waiting(u)' <=> Waiting(u)
      /\ Unlinking' <=> Unlinking
  BY Moved DEF Waiting
<1> USE DEF Goto
<1>2. open
  BY DEF LockScope
<1>3. /\ f \in Slots /\ e \in Events
      /\ IsFiniteSet(Occupied) /\ cachedCnt = Cardinality(Occupied)
  BY <1>2, CacheSearch DEF TypeOK
<1> HIDE DEF f
<1>4. /\ infoEvent' = [infoEvent EXCEPT ![t] = e]
      /\ cached' = [cached EXCEPT ![f] = NULL]
  BY DEF f
<1>5. TypeOK'
  BY <1>3, <1>4 DEF TypeOK, Getting
<1>6. DataOrWaiters' /\ LockScope' /\ Blame'
  BY <1>1, <1>3, <1>4 DEF TypeOK, DataOrWaiters, LockScope, Holding, Blame
<1>7. /\ \A u \in Threads : infoEvent'[u] = IF u = t THEN e ELSE infoEvent[u]
      /\ \A i \in Slots : cached'[i] = IF i = f THEN NULL ELSE cached[i]
  BY <1>4 DEF TypeOK
<1>8. EventHasOneOwner'
  <2>1. \A u \in Threads, d \in Events :
          Holds(u, d)' <=> IF u = t THEN d = e ELSE Holds(u, d)
    BY <1>1, <1>7 DEF Holds, Getting
  <2>2. \A u \in Threads : pc'[u] \in Getting => infoEvent'[u] # NULL
    BY <1>1, <1>3, <1>7 DEF EventHasOneOwner, Getting
  <2>3. \A d \in Events, i \in Slots : cached'[i] = d <=> cached[i] = d /\ i # f
    BY <1>3, <1>7
  <2>4. \A i, j \in Slots : cached'[i] = cached'[j] => i = j \/ cached'[i] = NULL
    BY <1>7 DEF EventHasOneOwner
  <2>5. \A u \in Threads : ~Holds(t, e) /\ ~Holds(u, e)
    BY <1>3 DEF EventHasOneOwner
  <2>6. \A i \in Slots : cached[i] = e => i = f
    BY <1>3 DEF EventHasOneOwner
  <2>7. \A d \in Events : ~Holds(t, d)
    BY DEF Holds, Getting
  <2>8. \A d \in Events :
          event'[d] # "none" <=> \/ \E u \in Threads : Holds(u, d)'
                                \/ \E i \in Slots : cached'[i] = d
    <3> TAKE d \in Events
    <3>1. CASE d = e
      BY <3>1, <1>3, <2>1 DEF EventHasOneOwner
    <3>2. CASE d # e
      BY <3>2, <2>1, <2>3, <2>7 DEF EventHasOneOwner
    <3>3. QED
      BY <3>1, <3>2
  <2>9. \A u, v \in Threads, d \in Events : Holds(u, d)' /\ Holds(v, d)' => u = v
    BY <2>1, <2>5 DEF EventHasOneOwner
  <2>10. \A u \in Threads, d \in Events, i \in Slots : Holds(u, d)' => cached'[i] # d
    BY <2>1, <2>3, <2>6 DEF EventHasOneOwner
  <2>11. QED
    BY <2>2, <2>4, <2>8, <2>9, <2>10 DEF EventHasOneOwner
<1>9. CacheCountExact'
  <2>1. {i \in Slots : cached'[i] # NULL} = Occupied \ {f} /\ f \in Occupied
    BY <1>3, <1>7 DEF Occupied
  <2>2. QED
    BY <2>1, <1>3, FS_RemoveElement DEF CacheCountExact
<1>10. ASSUME ~astray PROVE Handoff'
  <2> USE <1>10 DEF Handoff
  <2>1. \A u \in Threads : Waiting(u) => u # t
    BY DEF Waiting
  <2>2. WaitLine' /\ OnePlacePerItem' /\ \A u \in Threads : Served(u)' <=> Served(u)
    BY <1>1, QuietHandoff
  <2>3. \A u \in Threads : pc'[u] = "register" => u = t
    BY <1>1, NotUnlinking DEF Holding
  <2>4. SetIffServed'
    BY <1>1, <1>3, <1>7, <2>1, <2>2, <2>3 DEF SetIffServed
  <2>5. QED
    BY <2>2, <2>4
<1>11. QED
  BY <1>5, <1>6, <1>8, <1>9, <1>10, Parts, Astray DEF QueueInv, Handoff

LEMMA PickNewInv ==
  ASSUME QueueInv, NEW t \in Threads, PickNew(t)
  PROVE  QueueInv'
<1> USE AsyncQueueAssumption DEF PickNew
<1> Sound /\ Blame /\ Handoff
  BY Parts
<1> USE DEF Sound
<1>1. /\ \A u \in Threads : pc'[u] = IF u = t THEN "register" ELSE pc[u]
      /\ \A u \in Threads : Waiting(u)' <=> Waiting(u)
      /\ Unlinking' <=> Unlinking
  BY Moved DEF Waiting
<1> USE DEF Goto
<1>2. PICK e \in Events : /\ event[e] = "none"
                          /\ event' = [event EXCEPT ![e] = "reset"]
                          /\ infoEvent' = [infoEvent EXCEPT ![t] = e]
  OBVIOUS
<1>3. TypeOK'
  BY <1>2 DEF TypeOK, Getting
<1>4. /\ \A u \in Threads : infoEvent'[u] = IF u = t THEN e ELSE infoEvent[u]
      /\ \A d \in Events : event'[d] = IF d = e THEN "reset" ELSE event[d]
      /\ \A u \in Threads : ~Holds(u, e)
      /\ \A i \in Slots : cached[i] # e
  BY <1>2 DEF TypeOK, EventHasOneOwner
<1>5. DataOrWaiters' /\ LockScope' /\ Blame'
  BY <1>1, <1>2, <1>4, NotUnlinking DEF TypeOK, DataOrWaiters, LockScope, Holding, Blame
<1>6. EventHasOneOwner'
  <2>1. \A u \in Threads, d \in Events :
          Holds(u, d)' <=> IF u = t THEN d = e ELSE Holds(u, d)
    BY <1>1, <1>4 DEF Holds, Getting
  <2>2. \A u \in Threads : pc'[u] \in Getting => infoEvent'[u] # NULL
    BY <1>1, <1>2, <1>4 DEF EventHasOneOwner, Getting
  <2>3. \A d \in Events : ~Holds(t, d)
    BY DEF Holds, Getting
  <2>4. \A d \in Events :
          event'[d] # "none" <=> \/ \E u \in Threads : Holds(u, d)'
                                \/ \E i \in Slots : cached'[i] = d
    BY <1>4, <2>1, <2>3 DEF EventHasOneOwner
  <2>5. \A u, v \in Threads, d \in Events : Holds(u, d)' /\ Holds(v, d)' => u = v
    BY <1>4, <2>1 DEF EventHasOneOwner
  <2>6. \A u \in Threads, d \in Events, i \in Slots : Holds(u, d)' => cached'[i] # d
    BY <1>4, <2>1 DEF EventHasOneOwner
  <2>7. \A i, j \in Slots : cached'[i] = cached'[j] => i = j \/ cached'[i] = NULL
    BY DEF EventHasOneOwner
  <2>8. QED
    BY <2>2, <2>4, <2>5, <2>6, <2>7 DEF EventHasOneOwner
<1>7. CacheCountExact'
  BY DEF CacheCountExact
<1>8. ASSUME ~astray PROVE Handoff'
  <2> USE <1>8 DEF Handoff
  <2>1. WaitLine' /\ OnePlacePerItem' /\ \A u \in Threads : Served(u)' <=> Served(u)
    BY <1>1, QuietHandoff
  <2>2. \A u \in Threads : Waiting(u) => /\ infoEvent[u] \in Events /\ Holds(u, infoEvent[u])
                                         /\ u # t
    BY DEF Waiting, EventHasOneOwner, Getting, TypeOK, Holds
  <2>3. \A u \in Threads : pc'[u] = "register" => u = t
    BY <1>1, NotUnlinking DEF Holding
  <2>4. \A u \in Threads : Waiting(u)' => (event'[infoEvent'[u]] = "set" <=> Served(u)')
    BY <1>1, <1>4, <2>1, <2>2 DEF SetIffServed
  <2>5. \A i \in Slots : cached'[i] # NULL => event'[cached'[i]] = "reset"
    BY <1>4 DEF SetIffServed, TypeOK
  <2>6. SetIffServed'
    BY <1>2, <1>4, <2>3, <2>4, <2>5 DEF SetIffServed
  <2>7. QED
    BY <2>1, <2>6
<1>9. QED
  BY <1>3, <1>5, <1>6, <1>7, <1>8, Parts, Astray DEF QueueInv, Handoff

LEMMA PickFailsInv ==
  ASSUME QueueInv, NEW t \in Threads, PickFails(t)
  PROVE  QueueInv'
<1> USE AsyncQueueAssumption DEF PickFails
<1> Sound /\ Blame /\ Handoff
  BY Parts
<1> USE DEF Sound
<1>1. /\ \A u \in Threads : pc'[u] = IF u = t THEN "idle" ELSE pc[u]
      /\ \A u \in Threads : Waiting(u)' <=> Waiting(u)
      /\ Unlinking' <=> Unlinking
  BY Moved DEF Waiting
<1> USE DEF Goto
<1>2. TypeOK'
  BY DEF TypeOK
<1>3. DataOrWaiters' /\ LockScope' /\ Blame'
  BY <1>1, NotUnlinking DEF TypeOK, DataOrWaiters, LockScope, Holding, Blame
<1>4. EventHasOneOwner' /\ CacheCountExact'
  BY <1>1, QuietEvents DEF Getting
<1>5. ASSUME ~astray PROVE Handoff'
  BY <1>1, <1>5, QuietHandoff, QuietFlags DEF Handoff
<1>6. QED
  BY <1>2, <1>3, <1>4, <1>5, Parts, Astray DEF QueueInv, Handoff

LEMMA RegisterInv ==
  ASSUME QueueInv, NEW t \in Threads, Register(t)
  PROVE  QueueInv'
<1> USE AsyncQueueAssumption DEF Register, Goto
<1> Sound /\ Blame /\ Handoff
  BY Parts
<1> USE DEF Sound
<1>1. \A u \in Threads : pc'[u] = IF u = t THEN "wait" ELSE pc[u]
  BY DEF TypeOK
<1>2. ~Unlinking /\ blocked = waitq /\ ~Unlinking' /\ blocked' = waitq'
  <2>1. ~Unlinking /\ blocked = waitq
    BY NotUnlinking DEF Holding
  <2>2. QED
    BY <1>1, <2>1 DEF Unlinking, blocked
<1>3. waitq' \in Seq(Threads) /\ waitq' # <<>>
  BY AppendFacts DEF TypeOK
<1>4. TypeOK'
  BY <1>3 DEF TypeOK, Getting
<1>5. DataOrWaiters' /\ LockScope' /\ Blame'
  BY <1>1, NotUnlinking DEF TypeOK, DataOrWaiters, LockScope, Holding, Blame
<1>6. EventHasOneOwner' /\ CacheCountExact'
  BY <1>1, QuietEvents DEF Getting
<1>7. ASSUME ~astray PROVE Handoff'
  <2> USE <1>7 DEF Handoff
  <2>1. /\ t \notin ToSet(waitq) /\ IsInjective(waitq')
        /\ ToSet(waitq') = ToSet(waitq) \cup {t}
    <3>1. t \notin ToSet(waitq)
      BY <1>2 DEF WaitLine, Waiting
    <3>2. QED
      BY <3>1, AppendFacts DEF TypeOK, WaitLine
  <2>2. /\ \A u \in Threads : Waiting(u)' <=> Waiting(u) \/ u = t
        /\ ~Waiting(t)
    BY <1>1 DEF Waiting
  <2>3. \A u \in Threads : Served(u)' <=> Served(u)
    <3>1. ToSet(blocked)' = ToSet(waitq') /\ ToSet(blocked) = ToSet(waitq)
      BY <1>2 DEF ToSet
    <3>2. \A u \in Threads : u \in ToSet(blocked)' <=> u \in ToSet(blocked) \/ u = t
      BY <2>1, <3>1
    <3>3. QED
      BY <3>2, <2>2 DEF Served
  <2>4. \A u \in Threads, y \in Items : Handed(u, y)' <=> Handed(u, y)
    BY <2>2, <2>3 DEF Handed, Served, TypeOK
  <2>5. \A u \in Threads : pc'[u] \notin {"signal", "register"}
    BY <1>1, NotUnlinking DEF Holding
  <2>6. WaitLine'
    <3>1. \A u \in ToSet(blocked)' : Waiting(u)'
      BY <1>2, <2>1, <2>2, BlockedLine DEF WaitLine, ToSet
    <3>2. \A u \in Threads : Served(u)' => infoData'[u] # NULL
      BY <2>2, <2>3 DEF WaitLine, Served, TypeOK
    <3>3. QED
      BY <2>1, <2>5, <3>1, <3>2 DEF WaitLine
  <2>7. SetIffServed'
    BY <2>2, <2>3, <2>5 DEF SetIffServed, Served
  <2>8. OnePlacePerItem'
    BY <2>4 DEF OnePlacePerItem
  <2>9. QED
    BY <2>6, <2>7, <2>8
<1>8. QED
  BY <1>4, <1>5, <1>6, <1>7, Parts, Astray DEF QueueInv, Handoff

LEMMA RegisterFailsInv ==
  ASSUME QueueInv, NEW t \in Threads, RegisterFails(t)
  PROVE  QueueInv'
<1> USE AsyncQueueAssumption DEF RegisterFails
<1> Sound /\ Blame /\ Handoff
  BY Parts
<1> USE DEF Sound
<1>1. /\ \A u \in Threads : pc'[u] = IF u = t THEN "release" ELSE pc[u]
      /\ \A u \in Threads : Waiting(u)' <=> Waiting(u)
      /\ Unlinking' <=> Unlinking
  BY Moved DEF Waiting
<1> USE DEF Goto
<1>2. TypeOK'
  BY DEF TypeOK, Getting
<1>3. DataOrWaiters' /\ LockScope' /\ Blame'
  BY <1>1, NotUnlinking DEF TypeOK, DataOrWaiters, LockScope, Holding, Blame
<1>4. EventHasOneOwner' /\ CacheCountExact'
  BY <1>1, QuietEvents DEF Getting
<1>5. ASSUME ~astray PROVE Handoff'
  BY <1>1, <1>5, QuietHandoff, QuietFlags DEF Handoff
<1>6. QED
  BY <1>2, <1>3, <1>4, <1>5, Parts, Astray DEF QueueInv, Handoff

LEMMA WaitOverInv ==
  ASSUME QueueInv, NEW t \in Threads, Expire(t) \/ WaitFails(t)
  PROVE  QueueInv'
<1> USE AsyncQueueAssumption
<1> Sound /\ Blame /\ Handoff
  BY Parts
<1> USE DEF Sound
<1>1. PICK l \in {"expired", "failed"} : Goto(t, l)
  BY DEF Expire, WaitFails
<1>2. /\ pc[t] = "wait"
      /\ UNCHANGED <<mutex, dataq, waitq, infoEvent, infoData, event, cached,
                     cachedCnt, arg, timed, open, fate, astray>>
  BY DEF Expire, WaitFails
<1>3. /\ \A u \in Threads : pc'[u] = IF u = t THEN l ELSE pc[u]
      /\ \A u \in Threads : Waiting(u)' <=> Waiting(u)
      /\ Unlinking' <=> Unlinking
  BY <1>1, <1>2, Moved DEF Waiting
<1>4. TypeOK'
  BY <1>1, <1>2 DEF TypeOK, Getting, Goto
<1>5. DataOrWaiters' /\ LockScope' /\ Blame'
  BY <1>2, <1>3 DEF TypeOK, DataOrWaiters, LockScope, Holding, Blame
<1>6. EventHasOneOwner' /\ CacheCountExact'
  BY <1>2, <1>3, QuietEvents DEF Getting
<1>7. ASSUME ~astray PROVE Handoff'
  BY <1>2, <1>3, <1>7, QuietHandoff, QuietFlags DEF Handoff
<1>8. QED
  BY <1>2, <1>4, <1>5, <1>6, <1>7, Parts, Astray DEF QueueInv, Handoff

\* A getter that returns while nobody is astray has been served: a flag that is
\* up belongs to a put that succeeded, or the getter goes astray with it.
LEMMA ReturnInv ==
  ASSUME QueueInv, NEW t \in Threads, NEW flag \in {"set", "left"}, Return(t, flag)
  PROVE  QueueInv'
<1> USE AsyncQueueAssumption DEF Return, Leaves
<1> Sound /\ Blame /\ Handoff
  BY Parts
<1> USE DEF Sound
<1>1. /\ \A u \in Threads : pc'[u] = IF u = t THEN "release" ELSE pc[u]
      /\ \A u \in Threads : Waiting(u)' <=> Waiting(u) /\ u # t
      /\ Unlinking' <=> Unlinking
      /\ blocked' = blocked
      /\ Waiting(t)
  BY Moved DEF Waiting, blocked
<1> USE DEF Goto
<1>2. TypeOK'
  BY DEF TypeOK, Getting
<1>3. DataOrWaiters' /\ LockScope'
  BY <1>1 DEF TypeOK, DataOrWaiters, LockScope, Holding
<1>4. EventHasOneOwner' /\ CacheCountExact'
  BY <1>1, QuietEvents DEF Getting
<1>5. ASSUME ~astray, t \in ToSet(blocked) PROVE "broadcast" \in Faults
  <2>1. ~Served(t) /\ infoEvent[t] \in Events
    BY <1>1, <1>5 DEF Served, EventHasOneOwner, Getting, TypeOK
  <2>2. flag = "left"
    BY <1>1, <1>5, <2>1 DEF SetIffServed, Handoff
  <2>3. QED
    BY <2>1, <2>2 DEF Blame
<1>6. Blame'
  BY <1>5 DEF Blame
<1>7. ASSUME ~astray' PROVE Handoff'
  <2> USE DEF Handoff
  <2>1. ~astray /\ t \notin ToSet(blocked)
    BY <1>7
  <2>2. Served(t) /\ infoData[t] \in Items /\ Handed(t, infoData[t])
    BY <1>1, <2>1 DEF Served, WaitLine, TypeOK, Handed
  <2>3. /\ \A u \in Threads : Served(u)' <=> Served(u) /\ u # t
        /\ \A u \in Threads, y \in Items : Handed(u, y)' <=> Handed(u, y) /\ u # t
    BY <1>1 DEF Served, Handed, ToSet
  <2>4. fate[infoData[t]] = "sent"
    BY <2>1, <2>2 DEF OnePlacePerItem
  <2>5. WaitLine'
    <3>1. \A u \in ToSet(blocked)' : Waiting(u)'
      BY <1>1, <2>1, <2>2, BlockedLine DEF WaitLine, ToSet, Served
    <3>2. \A p \in Threads : pc'[p] = "signal" =>
             fate'[arg'[p]] = "fresh" /\ infoData'[Head(waitq')] = arg'[p]
      BY <1>1, <2>1, <2>4 DEF WaitLine, LockScope, TypeOK
    <3>3. QED
      BY <2>1, <2>3, <3>1, <3>2 DEF WaitLine, IsInjective
  <2>6. SetIffServed'
    BY <1>1, <2>1, <2>3 DEF SetIffServed
  <2>7. OnePlacePerItem'
    <3>1. /\ \A y \in Items : fate'[y] = IF y = infoData[t] THEN "received" ELSE fate[y]
          /\ \A y \in Items : Handed(t, y) => y = infoData[t]
      BY DEF Handed
    <3>2. QED
      BY <2>1, <2>2, <2>3, <3>1 DEF OnePlacePerItem
  <2>8. QED
    BY <2>5, <2>6, <2>7
<1>8. QED
  BY <1>2, <1>3, <1>4, <1>6, <1>7, Parts, Astray DEF QueueInv, Handoff

LEMMA WithdrawInv ==
  ASSUME QueueInv, NEW t \in Threads, Withdraw(t)
  PROVE  QueueInv'
<1> USE AsyncQueueAssumption DEF Withdraw, Leaves
<1> Sound /\ Blame /\ Handoff
  BY Parts
<1> USE DEF Sound
<1>1. /\ \A u \in Threads : pc'[u] = IF u = t THEN "release" ELSE pc[u]
      /\ \A u \in Threads : Waiting(u)' <=> Waiting(u) /\ u # t
      /\ ~Unlinking /\ ~Unlinking' /\ blocked = waitq /\ blocked' = waitq'
      /\ Waiting(t)
  BY Moved, NotUnlinking DEF Waiting, blocked
<1> USE DEF Goto
<1>2. \/ /\ \E i \in DOMAIN waitq : waitq[i] = t /\ waitq' = RemoveAt(waitq, i)
         /\ t \in ToSet(waitq) /\ fate' = fate
      \/ /\ t \notin ToSet(waitq) /\ waitq' = waitq
         /\ \E f \in {"received", "lost"} :
              fate' = [x \in Items |-> IF x = infoData[t] THEN f ELSE fate[x]]
  BY DEF ToSet
<1>3. /\ waitq' \in Seq(Threads) /\ (waitq = <<>> => waitq' = <<>>)
      /\ fate' \in [Items -> {"fresh", "sent", "refused", "received", "lost", "cleared"}]
  BY <1>2, RemoveAtSeq DEF TypeOK
<1>4. TypeOK'
  BY <1>3 DEF TypeOK, Getting
<1>5. DataOrWaiters' /\ LockScope' /\ Blame'
  BY <1>1, <1>3 DEF TypeOK, DataOrWaiters, LockScope, Holding, Blame
<1>6. EventHasOneOwner' /\ CacheCountExact'
  BY <1>1, QuietEvents DEF Getting
<1>7. ASSUME ~astray PROVE Handoff'
  <2> USE <1>7 DEF Handoff
  <2>1. ToSet(blocked) = ToSet(waitq) /\ ToSet(blocked)' = ToSet(waitq')
    BY <1>1 DEF ToSet
  <2>2. \A p \in Threads : pc'[p] \notin {"signal", "register"}
    BY <1>1 DEF LockScope, Holding
  <2>3. CASE t \in ToSet(waitq)
    <3>1. PICK i \in DOMAIN waitq : waitq[i] = t /\ waitq' = RemoveAt(waitq, i)
      BY <1>2, <2>3
    <3>2. IsInjective(waitq') /\ ToSet(waitq') = ToSet(waitq) \ {t} /\ fate' = fate
      BY <1>2, <2>3, <3>1, RemoveAtFacts DEF TypeOK, WaitLine
    <3>3. \A u \in Threads : Served(u)' <=> Served(u)
      BY <1>1, <2>1, <2>3, <3>2 DEF Served
    <3>4. WaitLine'
      <4>1. \A u \in ToSet(blocked)' : Waiting(u)'
        BY <1>1, <2>1, <3>2, BlockedLine DEF WaitLine
      <4>2. QED
        BY <2>2, <3>2, <3>3, <4>1 DEF WaitLine
    <3>5. SetIffServed'
      BY <1>1, <3>3, QuietFlags
    <3>6. OnePlacePerItem'
      BY <3>2, <3>3 DEF OnePlacePerItem, Handed
    <3>7. QED
      BY <3>4, <3>5, <3>6
  <2>4. CASE t \notin ToSet(waitq)
    <3>1. Served(t) /\ infoData[t] \in Items /\ Handed(t, infoData[t]) /\ waitq' = waitq
      BY <1>1, <1>2, <2>1, <2>4 DEF Served, WaitLine, TypeOK, Handed
    <3>2. PICK f \in {"received", "lost"} :
            fate' = [x \in Items |-> IF x = infoData[t] THEN f ELSE fate[x]]
      BY <1>2, <2>4
    <3>3. /\ \A u \in Threads : Served(u)' <=> Served(u) /\ u # t
          /\ \A u \in Threads, y \in Items : Handed(u, y)' <=> Handed(u, y) /\ u # t
      BY <1>1, <2>1, <3>1 DEF Served, Handed
    <3>4. WaitLine'
      <4>1. \A u \in ToSet(blocked)' : Waiting(u)'
        BY <1>1, <2>1, <2>4, <3>1, BlockedLine DEF WaitLine
      <4>2. QED
        BY <2>2, <3>1, <3>3, <4>1 DEF WaitLine
    <3>5. SetIffServed'
      BY <1>1, <3>3, QuietFlags
    <3>6. OnePlacePerItem'
      <4>1. /\ \A y \in Items : fate'[y] = IF y = infoData[t] THEN f ELSE fate[y]
            /\ \A y \in Items : Handed(t, y) => y = infoData[t]
        BY <3>2 DEF Handed
      <4>2. QED
        BY <3>1, <3>3, <4>1 DEF OnePlacePerItem
    <3>7. QED
      BY <3>4, <3>5, <3>6
  <2>5. QED
    BY <2>3, <2>4
<1>8. QED
  BY <1>4, <1>5, <1>6, <1>7, Parts, Astray DEF QueueInv, Handoff

LEMMA ReleaseInv ==
  ASSUME QueueInv, NEW t \in Threads, Release(t)
  PROVE  QueueInv'
<1> USE AsyncQueueAssumption DEF Release
<1> Sound /\ Blame /\ Handoff
  BY Parts
<1> USE DEF Sound
<1> DEFINE e == infoEvent[t]
           f == FirstFree
<1>1. /\ \A u \in Threads : pc'[u] = IF u = t THEN "idle" ELSE pc[u]
      /\ \A u \in Threads : Waiting(u)' <=> Waiting(u)
      /\ Unlinking' <=> Unlinking
      /\ blocked' = blocked /\ ~Waiting(t)
  BY Moved DEF Waiting, blocked
<1> USE DEF Goto
<1>2. open /\ e \in Events
  BY DEF LockScope, EventHasOneOwner, Getting, TypeOK
<1>3. /\ infoEvent' \in [Threads -> Events \cup {NULL}]
      /\ \A u \in Threads \ {t} : infoEvent'[u] = infoEvent[u]
      /\ \A u \in Threads : infoData'[u] = IF u = t THEN NULL ELSE infoData[u]
  BY DEF TypeOK
<1>4. /\ IsFiniteSet(Occupied) /\ cachedCnt = Cardinality(Occupied)
      /\ cachedCnt # CacheSize => f \in Slots /\ cached[f] = NULL
  BY <1>2, CacheSearch
<1>5. \/ /\ cachedCnt = CacheSize
         /\ event' = [event EXCEPT ![e] = "none"]
         /\ UNCHANGED <<cached, cachedCnt, astray>>
      \/ /\ cachedCnt # CacheSize
         /\ \/ event' = [event EXCEPT ![e] = "reset"] /\ UNCHANGED astray
            \/ "reset" \in Faults /\ UNCHANGED event /\ astray' = (astray \/ event[e] # "reset")
         /\ cached' = [cached EXCEPT ![f] = e]
         /\ cachedCnt' = cachedCnt + 1
  OBVIOUS
<1> HIDE DEF f
<1>6. /\ \A d \in Events \ {e} : event'[d] = event[d]
      /\ event' \in [Events -> {"none", "reset", "set", "left"}]
      /\ event'[e] = event[e] \/ event'[e] \in {"none", "reset"}
      /\ astray' \in BOOLEAN /\ (astray' => astray \/ "reset" \in Faults)
  <2>1. astray' \in BOOLEAN /\ (astray' => astray \/ "reset" \in Faults)
    <3>1. \/ astray' = astray
          \/ "reset" \in Faults /\ astray' = (astray \/ event[e] # "reset")
      BY <1>5
    <3>2. astray \in BOOLEAN /\ (astray \/ event[e] # "reset") \in BOOLEAN
      BY DEF TypeOK
    <3> HIDE DEF Sound, Release, e
    <3>3. CASE astray' = astray
      BY <3>2, <3>3
    <3>4. CASE "reset" \in Faults /\ astray' = (astray \/ event[e] # "reset")
      <4>1. astray' \in BOOLEAN
        BY <3>2, <3>4
      <4>2. QED
        BY <4>1, <3>4
    <3>5. QED
      BY <3>1, <3>3, <3>4
  <2>2. event' = event \/ \E v \in {"none", "reset"} : event' = [event EXCEPT ![e] = v]
    BY <1>5
  <2>3. event \in [Events -> {"none", "reset", "set", "left"}]
    BY DEF TypeOK
  <2> HIDE DEF Sound, Release, e
  <2>4. QED
    BY <1>2, <2>1, <2>2, <2>3
<1>7. TypeOK'
  BY <1>2, <1>3, <1>4, <1>5, <1>6 DEF TypeOK
<1>8. DataOrWaiters' /\ LockScope' /\ Blame'
  <2>1. DataOrWaiters' /\ LockScope'
    BY <1>1 DEF TypeOK, DataOrWaiters, LockScope, Holding
  <2>2. Blame'
    BY <1>2, <1>6 DEF Blame
  <2>3. QED
    BY <2>1, <2>2
<1>9. /\ \A u \in Threads, d \in Events : Holds(u, d)' <=> Holds(u, d) /\ u # t
      /\ Holds(t, e) /\ event[e] # "none"
      /\ \A u \in Threads : Holds(u, e) => u = t
      /\ \A u \in Threads : pc'[u] \in Getting => infoEvent'[u] # NULL
      /\ \A i \in Slots : cached[i] # e
      /\ \A d \in Events : Holds(t, d) => d = e
  <2>1. \A u \in Threads, d \in Events : Holds(u, d)' <=> Holds(u, d) /\ u # t
    BY <1>1, <1>3 DEF Holds, Getting
  <2>2. Holds(t, e) /\ \A d \in Events : Holds(t, d) => d = e
    BY DEF Holds, Getting
  <2>3. \A u \in Threads : pc'[u] \in Getting => infoEvent'[u] # NULL
    BY <1>1, <1>3 DEF EventHasOneOwner, Getting
  <2>4. QED
    BY <1>2, <2>1, <2>2, <2>3 DEF EventHasOneOwner
<1>10. /\ EventHasOneOwner' /\ CacheCountExact'
       /\ ~astray' => ~astray
       /\ \A i \in Slots : \/ cached'[i] = cached[i] /\ cached[i] # e
                           \/ ~astray' => event'[cached'[i]] = "reset"
  <2>1. CASE cachedCnt = CacheSize
    <3>1. event'[e] = "none" /\ UNCHANGED <<cached, cachedCnt, astray>>
      BY <1>2, <1>5, <2>1 DEF TypeOK
    <3>2. \A d \in Events :
            event'[d] # "none" <=> \/ \E u \in Threads : Holds(u, d)'
                                  \/ \E i \in Slots : cached'[i] = d
      <4> TAKE d \in Events
      <4>1. CASE d = e
        BY <4>1, <1>2, <1>9, <3>1
      <4>2. CASE d # e
        BY <4>2, <1>6, <1>9, <3>1 DEF EventHasOneOwner
      <4>3. QED
        BY <4>1, <4>2
    <3>3. \A u \in Threads, d \in Events, i \in Slots : Holds(u, d)' => cached'[i] # d
      BY <1>9, <3>1 DEF EventHasOneOwner
    <3>4. \A u, v \in Threads, d \in Events : Holds(u, d)' /\ Holds(v, d)' => u = v
      BY <1>9 DEF EventHasOneOwner
    <3>5. \A i, j \in Slots : cached'[i] = cached'[j] => i = j \/ cached'[i] = NULL
      BY <3>1 DEF EventHasOneOwner
    <3>6. EventHasOneOwner'
      BY <3>2, <3>3, <3>4, <3>5, <1>9 DEF EventHasOneOwner
    <3>7. CacheCountExact'
      BY <3>1 DEF CacheCountExact
    <3>8. QED
      BY <3>1, <3>6, <3>7, <1>9
  <2>2. CASE cachedCnt # CacheSize
    <3>1. /\ f \in Slots /\ cached[f] = NULL /\ cachedCnt' = cachedCnt + 1
          /\ \A i \in Slots : cached'[i] = IF i = f THEN e ELSE cached[i]
          /\ event'[e] # "none"
          /\ ~astray' => ~astray /\ event'[e] = "reset"
      BY <1>2, <1>4, <1>5, <1>9, <2>2 DEF TypeOK
    <3>2. \A d \in Events :
            event'[d] # "none" <=> \/ \E u \in Threads : Holds(u, d)'
                                  \/ \E i \in Slots : cached'[i] = d
      <4> TAKE d \in Events
      <4>1. CASE d = e
        BY <4>1, <3>1
      <4>2. CASE d # e
        <5>1. \A i \in Slots : cached'[i] = d <=> cached[i] = d
          BY <1>2, <4>2, <3>1
        <5>2. \A u \in Threads : Holds(u, d)' <=> Holds(u, d)
          BY <4>2, <1>9
        <5>3. QED
          BY <4>2, <5>1, <5>2, <1>6 DEF EventHasOneOwner
      <4>3. QED
        BY <4>1, <4>2
    <3>3. \A i, j \in Slots : cached'[i] = cached'[j] => i = j \/ cached'[i] = NULL
      BY <1>2, <1>9, <3>1 DEF EventHasOneOwner
    <3>4. \A u \in Threads, d \in Events, i \in Slots : Holds(u, d)' => cached'[i] # d
      BY <1>9, <3>1 DEF EventHasOneOwner
    <3>5. \A u, v \in Threads, d \in Events : Holds(u, d)' /\ Holds(v, d)' => u = v
      BY <1>9 DEF EventHasOneOwner
    <3>6. EventHasOneOwner'
      BY <3>2, <3>3, <3>4, <3>5, <1>9 DEF EventHasOneOwner
    <3>7. CacheCountExact'
      <4>1. {i \in Slots : cached'[i] # NULL} = Occupied \cup {f} /\ f \notin Occupied
        BY <1>2, <3>1 DEF Occupied
      <4>2. Cardinality({i \in Slots : cached'[i] # NULL}) = Cardinality(Occupied) + 1
        BY <4>1, <1>4, FS_AddElement
      <4>3. QED
        BY <4>2, <3>1, <1>4 DEF CacheCountExact
    <3>8. QED
      BY <3>1, <3>6, <3>7, <1>9
  <2>3. QED
    BY <2>1, <2>2
<1>11. ASSUME ~astray' PROVE Handoff'
  <2> ~astray
    BY <1>10, <1>11
  <2> USE DEF Handoff
  <2>1. /\ \A u \in Threads : Served(u)' <=> Served(u)
        /\ \A u \in Threads, y \in Items : Handed(u, y)' <=> Handed(u, y)
    BY <1>1, <1>3 DEF Served, Handed, ToSet
  <2>2. \A p \in Threads : pc[p] = "signal" => Head(waitq) # t
    BY <1>1, NotUnlinking, TailFacts DEF LockScope, WaitLine, Holding, TypeOK
  <2>3. WaitLine'
    <3>1. \A u \in ToSet(blocked)' : Waiting(u)'
      BY <1>1, BlockedLine DEF WaitLine, ToSet
    <3>2. \A u \in Threads : Served(u)' => infoData'[u] # NULL
      BY <1>1, <1>3, <2>1 DEF WaitLine, Served
    <3>3. \A p \in Threads : pc'[p] = "signal" =>
             fate'[arg'[p]] = "fresh" /\ infoData'[Head(waitq')] = arg'[p]
      <4>1. waitq # <<>> => Head(waitq) \in Threads
        BY TailFacts DEF TypeOK
      <4>2. QED
        BY <1>1, <1>3, <2>2, <4>1 DEF WaitLine, LockScope
    <3>4. QED
      BY <3>1, <3>2, <3>3 DEF WaitLine, IsInjective
  <2>4. SetIffServed'
    <3>1. \A u \in Threads : u # t /\ pc[u] \in Getting =>
             infoEvent[u] \in Events /\ Holds(u, infoEvent[u]) /\ infoEvent[u] # e
      BY <1>9 DEF EventHasOneOwner, TypeOK, Holds
    <3>2. \A u \in Threads : Waiting(u) \/ pc[u] = "register" => u # t /\ pc[u] \in Getting
      BY DEF Waiting, Getting
    <3>3. \A u \in Threads : Waiting(u)' => (event'[infoEvent'[u]] = "set" <=> Served(u)')
      BY <1>1, <1>3, <1>6, <2>1, <3>1, <3>2 DEF SetIffServed
    <3>4. \A u \in Threads : pc'[u] = "register" => event'[infoEvent'[u]] = "reset"
      BY <1>1, <1>3, <1>6, <3>1, <3>2 DEF SetIffServed
    <3>5. \A i \in Slots : cached'[i] # NULL => event'[cached'[i]] = "reset"
      BY <1>6, <1>10, <1>11 DEF SetIffServed, TypeOK
    <3>6. QED
      BY <3>3, <3>4, <3>5 DEF SetIffServed
  <2>5. OnePlacePerItem'
    BY <2>1 DEF OnePlacePerItem
  <2>6. QED
    BY <2>3, <2>4, <2>5
<1>12. QED
  BY <1>7, <1>8, <1>10, <1>11, Parts, Astray DEF QueueInv, Handoff

-------------------------------------------------------------------------------
(* Peek, clear and tear-down.                                              *)

LEMMA PeekTestInv ==
  ASSUME QueueInv, NEW t \in Threads, PeekTest(t)
  PROVE  QueueInv'
<1> USE AsyncQueueAssumption DEF PeekTest, Enter
<1> Sound /\ Blame /\ Handoff
  BY Parts
<1> USE DEF Sound
<1>1. /\ \A u \in Threads : pc'[u] = IF u = t THEN "peek" ELSE pc[u]
      /\ \A u \in Threads : Waiting(u)' <=> Waiting(u)
      /\ Unlinking' <=> Unlinking
  BY Moved DEF Waiting
<1> USE DEF Goto
<1>2. TypeOK'
  BY DEF TypeOK
<1>3. DataOrWaiters' /\ LockScope' /\ Blame'
  BY <1>1 DEF TypeOK, DataOrWaiters, LockScope, Holding, Blame
<1>4. EventHasOneOwner' /\ CacheCountExact'
  BY <1>1, QuietEvents DEF Getting
<1>5. ASSUME ~astray PROVE Handoff'
  BY <1>1, <1>5, QuietHandoff, QuietFlags DEF Handoff
<1>6. QED
  BY <1>2, <1>3, <1>4, <1>5, Parts, Astray DEF QueueInv, Handoff

LEMMA PeekReadInv ==
  ASSUME QueueInv, NEW t \in Threads, PeekRead(t)
  PROVE  QueueInv'
<1> USE AsyncQueueAssumption DEF PeekRead
<1> Sound /\ Blame /\ Handoff
  BY Parts
<1> USE DEF Sound
<1>1. PICK l \in {"idle", "aborted"} : Goto(t, l)
  OBVIOUS
<1>2. /\ \A u \in Threads : pc'[u] = IF u = t THEN l ELSE pc[u]
      /\ \A u \in Threads : Waiting(u)' <=> Waiting(u)
      /\ Unlinking' <=> Unlinking
  BY <1>1, Moved DEF Waiting
<1>3. TypeOK'
  BY <1>1 DEF TypeOK, Goto
<1>4. DataOrWaiters' /\ LockScope' /\ Blame'
  BY <1>2 DEF TypeOK, DataOrWaiters, LockScope, Holding, Blame
<1>5. EventHasOneOwner' /\ CacheCountExact'
  BY <1>2, QuietEvents DEF Getting
<1>6. ASSUME ~astray PROVE Handoff'
  BY <1>2, <1>6, QuietHandoff, QuietFlags DEF Handoff
<1>7. QED
  BY <1>3, <1>4, <1>5, <1>6, Parts, Astray DEF QueueInv, Handoff

\* Emptying the queue of data, whoever does it while the lock is free.
LEMMA Emptied ==
  ASSUME QueueInv, ~astray, mutex = NULL, dataq' = <<>>,
         fate' = [x \in Items |-> IF x \in ToSet(dataq) THEN "cleared" ELSE fate[x]],
         UNCHANGED <<mutex, waitq, infoData, pc, arg>>
  PROVE  /\ WaitLine' /\ OnePlacePerItem'
         /\ \A u \in Threads : (Waiting(u)' <=> Waiting(u)) /\ (Served(u)' <=> Served(u))
<1> USE AsyncQueueAssumption DEF QueueInv
<1>1. /\ \A u \in Threads : Waiting(u)' <=> Waiting(u)
      /\ \A u \in Threads : Served(u)' <=> Served(u)
      /\ blocked' = blocked /\ ToSet(blocked)' = ToSet(blocked)
  BY DEF Waiting, Unlinking, Served, blocked, ToSet
<1>2. \A u \in Threads, x \in Items : Handed(u, x)' <=> Handed(u, x)
  BY <1>1 DEF Handed
<1>3. ToSet(dataq') = {} /\ IsInjective(dataq')
  BY DEF ToSet, IsInjective
<1>4. WaitLine'
  <2>1. \A u \in ToSet(blocked)' : Waiting(u)'
    BY <1>1, BlockedLine DEF WaitLine
  <2>2. \A u \in Threads : pc'[u] # "signal"
    BY DEF LockScope, Holding
  <2>3. QED
    BY <1>1, <2>1, <2>2 DEF WaitLine, IsInjective
<1>5. OnePlacePerItem'
  BY <1>2, <1>3 DEF OnePlacePerItem
<1>6. QED
  BY <1>1, <1>4, <1>5

LEMMA ClearDataInv ==
  ASSUME QueueInv, NEW t \in Threads, ClearData(t)
  PROVE  QueueInv'
<1> USE AsyncQueueAssumption DEF ClearData, Enter
<1> Sound /\ Blame /\ Handoff
  BY Parts
<1> USE DEF Sound
<1>1. TypeOK'
  BY EmptySeq DEF TypeOK
<1>2. DataOrWaiters' /\ LockScope' /\ Blame'
  BY DEF TypeOK, DataOrWaiters, LockScope, Holding, Blame
<1>3. EventHasOneOwner' /\ CacheCountExact'
  BY QuietEvents
<1>4. ASSUME ~astray PROVE Handoff'
  <2>1. /\ WaitLine' /\ OnePlacePerItem'
        /\ \A u \in Threads : (Waiting(u)' <=> Waiting(u)) /\ (Served(u)' <=> Served(u))
    BY <1>4, Emptied
  <2>2. SetIffServed'
    BY <1>4, <2>1, QuietFlags
  <2>3. QED
    BY <2>1, <2>2 DEF Handoff
<1>5. QED
  BY <1>1, <1>2, <1>3, <1>4, Parts, Astray DEF QueueInv, Handoff

LEMMA UnInitInv == QueueInv /\ UnInit => QueueInv'
<1> SUFFICES ASSUME QueueInv, UnInit PROVE QueueInv'
  OBVIOUS
<1> USE AsyncQueueAssumption DEF UnInit
<1> Sound /\ Blame /\ Handoff
  BY Parts
<1> USE DEF Sound
<1>1. mutex = NULL /\ \A u \in Threads : pc[u] = "idle"
  BY DEF LockScope, Holding, TypeOK
<1>2. TypeOK'
  <2>1. event' \in [Events -> {"none", "reset", "set", "left"}]
    BY DEF TypeOK
  <2>2. cached' \in [Slots -> Events \cup {NULL}] /\ cachedCnt' \in 0..CacheSize
    BY DEF TypeOK
  <2>3. fate' \in [Items -> {"fresh", "sent", "refused", "received", "lost", "cleared"}]
    BY DEF TypeOK
  <2>4. dataq' \in Seq(Items) /\ waitq' \in Seq(Threads) /\ open' = FALSE
    BY EmptySeq
  <2>5. QED
    BY <2>1, <2>2, <2>3, <2>4 DEF TypeOK
<1>3. DataOrWaiters' /\ LockScope' /\ Blame'
  <2>1. DataOrWaiters' /\ LockScope'
    BY <1>1 DEF TypeOK, DataOrWaiters, LockScope, Holding
  <2>2. Blame'
    BY DEF Blame
  <2>3. QED
    BY <2>1, <2>2
<1>4. /\ 1..cachedCnt \subseteq Slots
      /\ \A i \in Slots : cached'[i] = IF i \in 1..cachedCnt THEN NULL ELSE cached[i]
      /\ \A e \in Events :
           event'[e] = IF \E i \in 1..cachedCnt : cached[i] = e THEN "none" ELSE event[e]
  BY DEF TypeOK, Slots
<1>5. EventHasOneOwner'
  <2>1. \A u \in Threads, e \in Events : ~Holds(u, e) /\ ~Holds(u, e)'
    BY <1>1 DEF Holds, Getting
  <2>2. \A e \in Events : event'[e] # "none" <=> \E i \in Slots : cached'[i] = e
    BY <1>4, <2>1 DEF EventHasOneOwner
  <2>3. \A i, j \in Slots : cached'[i] = cached'[j] => i = j \/ cached'[i] = NULL
    BY <1>4 DEF EventHasOneOwner
  <2>4. QED
    BY <1>1, <2>1, <2>2, <2>3 DEF EventHasOneOwner, Getting
<1>6. CacheCountExact'
  BY DEF CacheCountExact
<1>7. ASSUME ~astray PROVE Handoff'
  <2> USE <1>7 DEF Handoff
  <2>1. waitq = <<>>
    <3>1. blocked = waitq /\ \A u \in Threads : ~Waiting(u)
      BY <1>1, NotUnlinking DEF Waiting
    <3>2. QED
      BY <3>1, BlockedLine, TailFacts DEF WaitLine, TypeOK
  <2>2. /\ WaitLine' /\ OnePlacePerItem'
        /\ \A u \in Threads : (Waiting(u)' <=> Waiting(u)) /\ (Served(u)' <=> Served(u))
    BY <1>1, <2>1, Emptied
  <2>3. \A i \in Slots : cached'[i] # NULL => event'[cached'[i]] = "reset"
    <3>1. \A i \in Slots : cached'[i] # NULL =>
             cached'[i] = cached[i] /\ cached[i] \in Events /\ i \notin 1..cachedCnt
      BY <1>4 DEF TypeOK
    <3>2. QED
      BY <1>4, <3>1 DEF SetIffServed, EventHasOneOwner
  <2>4. SetIffServed'
    BY <1>1, <2>3 DEF SetIffServed, Waiting
  <2>5. QED
    BY <2>2, <2>4
<1>8. QED
  BY <1>2, <1>3, <1>5, <1>6, <1>7, Parts, Astray DEF QueueInv, Handoff

-------------------------------------------------------------------------------
(* The theorems.                                                           *)

LEMMA NextInv == QueueInv /\ [Next]_vars => QueueInv'
<1> SUFFICES ASSUME QueueInv, [Next]_vars PROVE QueueInv'
  OBVIOUS
<1>1. ASSUME NEW t \in Threads, Call(t) PROVE QueueInv'
  BY <1>1, PutDataInv, PutFillInv, GetDataInv, GetEmptyInv, PeekTestInv, ClearDataInv
     DEF Call
<1>2. ASSUME NEW t \in Threads, Proceed(t) PROVE QueueInv'
  BY <1>2, PutSignalInv, PutRefusedInv, PutUnlinkInv, PickCachedInv, PickNewInv,
     PickFailsInv, RegisterInv, RegisterFailsInv, ReturnInv, WithdrawInv, ReleaseInv,
     PeekReadInv DEF Proceed, Wake
<1>3. ASSUME NEW t \in Threads, Expire(t) \/ WaitFails(t) \/ WakeUncalled(t) PROVE QueueInv'
  BY <1>3, WaitOverInv, ReturnInv DEF WakeUncalled
<1>4. CASE UnInit
  BY <1>4, UnInitInv
<1>5. CASE UNCHANGED vars
  <2> Sound /\ Blame /\ Handoff
    BY Parts
  <2>1. Sound' /\ Blame'
    <3>1. EventHasOneOwner' /\ CacheCountExact'
      BY <1>5, QuietEvents DEF vars
    <3>2. TypeOK' /\ DataOrWaiters' /\ LockScope' /\ Blame'
      BY <1>5 DEF vars, Sound, TypeOK, DataOrWaiters, LockScope, Blame
    <3>3. QED
      BY <3>1, <3>2 DEF Sound
  <2>2. ASSUME ~astray PROVE Handoff'
    <3>1. /\ UNCHANGED <<waitq, infoData, dataq, fate, arg, infoEvent, event, cached>>
          /\ Unlinking' <=> Unlinking
          /\ \A u \in Threads : Waiting(u)' <=> Waiting(u)
          /\ pc' = pc
      BY <1>5 DEF vars, Unlinking, Waiting
    <3>2. WaitLine' /\ OnePlacePerItem' /\ \A u \in Threads : Served(u)' <=> Served(u)
      BY <2>2, <3>1, QuietHandoff
    <3>3. SetIffServed'
      BY <2>2, <3>1, <3>2, QuietFlags
    <3>4. QED
      BY <3>2, <3>3 DEF Handoff
  <2>3. QED
    BY <1>5, <2>1, <2>2, Parts, Astray DEF vars, QueueInv, Sound, Handoff
<1>6. QED
  BY <1>1, <1>2, <1>3, <1>4, <1>5 DEF Next

\* The inductive invariant holds of every queue, whatever the interleaving and
\* whichever library call fails: lock discipline, events and cache always, and
\* the line of waiters, the flags and the items until a getter goes astray, which
\* only a failed broadcast or a failed reset can make happen.
THEOREM SpecInv == Spec => []QueueInv
<1>1. Init => QueueInv
  BY InitInv
<1>2. QueueInv /\ [Next]_vars => QueueInv'
  BY NextInv
<1>3. QED
  BY <1>1, <1>2, PTL DEF Spec

\* The variables of the queue keep their types.
THEOREM TypeCorrect == Spec => []TypeOK
<1>1. QueueInv => TypeOK
  BY DEF QueueInv
<1>2. QED
  BY <1>1, SpecInv, PTL

\* Data nodes and registered waiters never coexist, not even once a getter has
\* left its node behind.
THEOREM NeverBothQueues == Spec => []DataOrWaiters
<1>1. QueueInv => DataOrWaiters
  BY DEF QueueInv
<1>2. QED
  BY <1>1, SpecInv, PTL

\* Until a getter goes astray an accepted item is in exactly one place until it
\* is received: the race between a put and the timeout of the waiter it serves
\* neither loses nor duplicates it, and a refused item is never received.
THEOREM ItemsKept == Spec => []OnePlacePerItem
<1>1. QueueInv => OnePlacePerItem
  BY DEF QueueInv
<1>2. QED
  BY <1>1, SpecInv, PTL

\* Until a getter goes astray a sleeping getter's event is "set" exactly when a
\* put has served it; the flag of a failed broadcast is told apart ("left").
THEOREM WakeupsExact == Spec => []SetIffServed
<1>1. QueueInv => SetIffServed
  BY DEF QueueInv
<1>2. QED
  BY <1>1, SpecInv, PTL

\* Every live event belongs to one getter or to one slot of the cache, always:
\* the writes through the info of a getter that has left included.
THEOREM EventsOwned == Spec => []EventHasOneOwner
<1>1. QueueInv => EventHasOneOwner
  BY DEF QueueInv
<1>2. QED
  BY <1>1, SpecInv, PTL

\* Where neither AR_SetEvent's broadcast nor AR_ResetEvent fails no getter ever
\* goes astray, so that what holds until then holds for good.
THEOREM NeverAstray ==
  ASSUME Faults \cap {"broadcast", "reset"} = {}
  PROVE  Spec => []~astray
<1>1. QueueInv => ~astray
  BY DEF QueueInv, Blame
<1>2. QED
  BY <1>1, SpecInv, PTL

-------------------------------------------------------------------------------
(* Peek.                                                                   *)

\* Only the sole consumer peeks, so what it found in its first critical section
\* is still there in the second.
PeekSound ==
  \A t \in Threads : /\ pc[t] # "aborted"
                     /\ pc[t] = "peek" => Consumers = {t} /\ dataq # <<>>

LEMMA PeekSoundStep == QueueInv /\ PeekSound /\ [Next]_vars => PeekSound'
<1> SUFFICES ASSUME QueueInv, PeekSound, [Next]_vars PROVE PeekSound'
  OBVIOUS
<1> USE DEF PeekSound
<1>1. ASSUME NEW t \in Threads, Call(t) PROVE PeekSound'
  <2>1. CASE \E x \in Items, front \in BOOLEAN : PutData(t, x, front)
    <3>1. pc' = pc /\ (dataq # <<>> => dataq' # <<>>)
      <4>1. \A x \in Items : Append(dataq, x) # <<>> /\ <<x>> \o dataq # <<>>
        <5> TAKE x \in Items
        <5>1. dataq \in Seq(Items)
          BY DEF QueueInv, TypeOK
        <5>2. Len(Append(dataq, x)) > 0 /\ Len(<<x>> \o dataq) > 0
          BY <5>1
        <5>3. QED
          BY <5>2
      <4>2. QED
        BY <2>1, <4>1 DEF PutData
    <3>2. QED
      BY <3>1
  <2>2. CASE \E x \in Items : PutFill(t, x)
    BY <2>2 DEF PutFill, Goto, QueueInv, TypeOK
  <2>3. CASE t \in Consumers /\ (GetData(t) \/ ClearData(t))
    BY <2>3 DEF GetData, ClearData, Enter
  <2>4. CASE \E withTimeout \in BOOLEAN : GetEmpty(t, withTimeout)
    BY <2>4 DEF GetEmpty, Goto, QueueInv, TypeOK
  <2>5. CASE Consumers = {t} /\ PeekTest(t)
    BY <2>5 DEF PeekTest, Goto, QueueInv, TypeOK
  <2>6. QED
    BY <1>1, <2>1, <2>2, <2>3, <2>4, <2>5 DEF Call
<1>2. ASSUME NEW t \in Threads, Proceed(t) PROVE PeekSound'
  <2>1. CASE PeekRead(t)
    BY <2>1 DEF PeekRead, Goto, QueueInv, TypeOK, DataOrWaiters
  <2>2. CASE ~PeekRead(t)
    <3>1. dataq' = dataq /\ \E l \in {"idle", "unlink", "register", "wait", "release"} : Goto(t, l)
      BY <1>2, <2>2 DEF Proceed, PutSignal, PutSignalFails, PutBroadcastFails, PutRefused,
         PutUnlink, PickCached, PickNew, PickFails, Register, RegisterFails, Wake, Return,
         Withdraw, Release
    <3>2. QED
      BY <3>1 DEF Goto, QueueInv, TypeOK
  <2>3. QED
    BY <2>1, <2>2
<1>3. ASSUME NEW t \in Threads, Expire(t) \/ WaitFails(t) \/ WakeUncalled(t) PROVE PeekSound'
  BY <1>3 DEF Expire, WaitFails, WakeUncalled, Return, Goto, QueueInv, TypeOK
<1>4. CASE UnInit
  BY <1>4 DEF UnInit
<1>5. CASE UNCHANGED vars
  BY <1>5 DEF vars
<1>6. QED
  BY <1>1, <1>2, <1>3, <1>4, <1>5 DEF Next

\* The assertions of AR_PeekFromAsyncQueue hold for a single consumer.
THEOREM PeekSafe == Spec => []PeekAssertionsHold
<1>1. Init => PeekSound
  BY DEF Init, PeekSound
<1>2. QueueInv /\ PeekSound /\ [Next]_vars => PeekSound'
  BY PeekSoundStep
<1>3. PeekSound => PeekAssertionsHold
  BY DEF PeekSound, PeekAssertionsHold
<1>4. QED
  BY <1>1, <1>2, <1>3, SpecInv, PTL DEF Spec

-------------------------------------------------------------------------------
(* Tear-down.                                                              *)

\* The getters that hold an event.  A slot is only ever filled when the slots
\* below it are occupied, so its index never exceeds the number of live events.
EventHolders == {t \in Threads : pc[t] \in Getting}

CacheDense ==
  IF open
    THEN \A i \in Slots : cached[i] # NULL => i <= cachedCnt + Cardinality(EventHolders)
    ELSE \A e \in Events : event[e] = "none"

LEMMA HoldersFinite ==
  ASSUME QueueInv
  PROVE  IsFiniteSet(EventHolders) /\ Cardinality(EventHolders) \in Nat /\ cachedCnt \in Nat
<1>1. EventHolders \subseteq Threads /\ IsFiniteSet(Threads)
  BY AsyncQueueAssumption DEF EventHolders
<1>2. IsFiniteSet(EventHolders)
  BY <1>1, FS_Subset
<1>3. cachedCnt \in Nat
  BY AsyncQueueAssumption DEF QueueInv, TypeOK
<1>4. QED
  BY <1>2, <1>3, FS_CardinalityType

\* The first free slot comes directly after occupied ones.
LEMMA FirstFreeBound ==
  ASSUME QueueInv, open, cachedCnt # CacheSize
  PROVE  FirstFree \in Slots /\ FirstFree <= cachedCnt + 1
<1> USE AsyncQueueAssumption
<1> DEFINE f == FirstFree
<1> Sound
  BY Parts
<1>1. f \in Slots /\ \A j \in Slots : cached[j] = NULL => f <= j
  <2>1. FirstFree \in Slots /\ cached[FirstFree] = NULL
    BY CacheSearch
  <2>2. Slots \subseteq Nat /\ Slots \ Occupied # {}
    BY <2>1 DEF Slots, Occupied
  <2>3. \E i \in Slots \ Occupied : \A j \in Slots \ Occupied : i <= j
    BY <2>2, LeastOf
  <2>4. QED
    BY <2>1, <2>3 DEF FirstFree, Occupied
<1>2. 1..(f - 1) \subseteq Occupied
  BY <1>1 DEF Slots, Occupied
<1>3. IsFiniteSet(Occupied) /\ cachedCnt = Cardinality(Occupied)
  BY CacheSearch
<1>4. Cardinality(1..(f - 1)) = f - 1 /\ f \in Nat \ {0}
  <2>1. f \in Nat \ {0}
    BY <1>1 DEF Slots
  <2> HIDE DEF f
  <2>2. QED
    BY <2>1, FS_Interval
<1>5. Cardinality(1..(f - 1)) <= Cardinality(Occupied)
  BY <1>2, <1>3, FS_Subset
<1>6. cachedCnt \in Nat
  BY HoldersFinite
<1>7. QED
  BY <1>1, <1>3, <1>4, <1>5, <1>6

\* Picking an event adds its getter to the holders, releasing it removes it.
LEMMA HolderAdded ==
  ASSUME QueueInv, NEW t \in Threads, pc[t] \notin Getting,
         NEW l \in Getting, Goto(t, l)
  PROVE  Cardinality(EventHolders') = Cardinality(EventHolders) + 1
<1>1. EventHolders' = EventHolders \cup {t} /\ t \notin EventHolders
  BY DEF EventHolders, QueueInv, TypeOK, Goto
<1>2. QED
  BY <1>1, HoldersFinite, FS_AddElement

LEMMA HolderRemoved ==
  ASSUME QueueInv, NEW t \in Threads, pc[t] \in Getting,
         NEW l, l \notin Getting, Goto(t, l)
  PROVE  Cardinality(EventHolders') = Cardinality(EventHolders) - 1
<1>1. EventHolders' = EventHolders \ {t} /\ t \in EventHolders
  BY DEF EventHolders, QueueInv, TypeOK, Goto
<1>2. QED
  BY <1>1, HoldersFinite, FS_RemoveElement

LEMMA HoldersKept ==
  ASSUME QueueInv, NEW t \in Threads, NEW l, Goto(t, l), l \in Getting <=> pc[t] \in Getting
  PROVE  EventHolders' = EventHolders
BY DEF EventHolders, QueueInv, TypeOK, Goto

LEMMA CacheDenseStep == QueueInv /\ CacheDense /\ [Next]_vars => CacheDense'
<1> SUFFICES ASSUME QueueInv, CacheDense, [Next]_vars PROVE CacheDense'
  OBVIOUS
<1> USE AsyncQueueAssumption
<1> Sound
  BY Parts
<1>1. /\ Cardinality(EventHolders) \in Nat /\ cachedCnt \in Nat /\ Slots \subseteq Nat
      /\ ~open => \A u \in Threads : pc[u] = "idle"
  BY HoldersFinite DEF Slots, Sound, LockScope
<1>2. CASE /\ EventHolders' = EventHolders /\ UNCHANGED <<cached, cachedCnt, open>>
           /\ open \/ event' = event
  BY <1>2 DEF CacheDense
<1>3. ASSUME NEW t \in Threads, PickCached(t) PROVE CacheDense'
  <2>1. open /\ pc[t] \notin Getting
    BY <1>1, <1>3 DEF PickCached, Getting
  <2>2. FirstCached \in Slots
    BY <1>3, <2>1, CacheSearch DEF PickCached
  <2>3. Cardinality(EventHolders') = Cardinality(EventHolders) + 1
    BY <1>3, <2>1, HolderAdded DEF PickCached, Getting
  <2>4. /\ \A i \in Slots : cached'[i] # NULL => cached[i] # NULL
        /\ cachedCnt' = cachedCnt - 1 /\ open'
    BY <1>3, <2>1 DEF PickCached, Sound, TypeOK
  <2>5. \A i \in Slots : cached'[i] # NULL => i <= cachedCnt + Cardinality(EventHolders)
    BY <2>1, <2>4 DEF CacheDense
  <2>6. cachedCnt' + Cardinality(EventHolders') = cachedCnt + Cardinality(EventHolders)
    BY <1>1, <2>3, <2>4
  <2>7. QED
    BY <2>4, <2>5, <2>6 DEF CacheDense
<1>4. ASSUME NEW t \in Threads, PickNew(t) PROVE CacheDense'
  <2>1. open
    BY <1>1, <1>4 DEF PickNew
  <2>2. Occupied = {}
    BY <1>4, <2>1, CacheSearch, FS_EmptySet DEF PickNew
  <2>3. QED
    BY <1>4, <2>1, <2>2 DEF CacheDense, PickNew, Occupied
<1>5. ASSUME NEW t \in Threads, Release(t) PROVE CacheDense'
  <2>1. open /\ pc[t] \in Getting
    BY <1>1, <1>5 DEF Release, Getting
  <2>2. Cardinality(EventHolders') = Cardinality(EventHolders) - 1
    BY <1>5, <2>1, HolderRemoved DEF Release, Getting
  <2>3. Cardinality(EventHolders) # 0
    <3>1. t \in EventHolders /\ IsFiniteSet(EventHolders)
      BY <2>1, HoldersFinite DEF EventHolders
    <3>2. QED
      BY <3>1, FS_EmptySet
  <2>4. CASE cachedCnt = CacheSize
    BY <1>1, <1>5, <2>1, <2>2, <2>3, <2>4 DEF CacheDense, Release, Slots
  <2>5. CASE cachedCnt # CacheSize
    <3>1. FirstFree \in Slots /\ FirstFree <= cachedCnt + 1
      BY <2>1, <2>5, FirstFreeBound
    <3>2. /\ cachedCnt' = cachedCnt + 1 /\ open'
          /\ cached' = [cached EXCEPT ![FirstFree] = infoEvent[t]]
      BY <1>5, <2>1, <2>5 DEF Release
    <3>3. \A i \in Slots : cached'[i] # NULL => i = FirstFree \/ cached[i] # NULL
      BY <3>2 DEF Sound, TypeOK
    <3>4. \A i \in Slots : cached'[i] # NULL => i <= cachedCnt + Cardinality(EventHolders)
      BY <1>1, <2>1, <2>3, <3>1, <3>3 DEF CacheDense
    <3>5. QED
      BY <1>1, <2>2, <3>2, <3>4 DEF CacheDense
  <2>6. QED
    BY <2>4, <2>5
<1>6. CASE UnInit
  <2>1. EventHolders = {}
    BY <1>1, <1>6 DEF UnInit, EventHolders, Getting
  <2>2. Cardinality(EventHolders) = 0
    BY <2>1, FS_EmptySet
  <2>3. \A i \in Slots : cached[i] # NULL => i \in 1..cachedCnt
    BY <1>1, <1>6, <2>2 DEF UnInit, CacheDense, Slots
  <2>4. \A e \in Events : event[e] # "none" => \E i \in 1..cachedCnt : cached[i] = e
    <3>1. \A u \in Threads, e \in Events : ~Holds(u, e)
      BY <1>6 DEF UnInit, Holds, Getting
    <3>2. QED
      BY <2>3, <3>1 DEF Sound, EventHasOneOwner
  <2>5. QED
    BY <1>6, <2>4 DEF UnInit, CacheDense
<1>7. ASSUME NEW t \in Threads, Call(t) PROVE CacheDense'
  <2>1. UNCHANGED <<event, cached, cachedCnt, open>>
    BY <1>7 DEF Call, PutData, PutFill, GetData, GetEmpty, PeekTest, ClearData
  <2>2. pc' = pc \/ (pc[t] = "idle" /\ \E l \in {"signal", "pick", "peek"} : Goto(t, l))
    BY <1>7 DEF Call, PutData, PutFill, GetData, GetEmpty, PeekTest, ClearData, Enter
  <2>3. EventHolders' = EventHolders
    BY <2>2, HoldersKept DEF EventHolders, Getting
  <2>4. QED
    BY <1>2, <2>1, <2>3
<1>8. ASSUME NEW t \in Threads,
             \/ PutSignal(t) \/ PutSignalFails(t) \/ PutBroadcastFails(t) \/ PutUnlink(t)
             \/ PickFails(t) \/ Register(t) \/ RegisterFails(t) \/ Wake(t) \/ Withdraw(t)
             \/ PeekRead(t) \/ Expire(t) \/ WaitFails(t) \/ WakeUncalled(t)
      PROVE  CacheDense'
  <2>1. UNCHANGED <<cached, cachedCnt, open>> /\ pc[t] # "idle"
    BY <1>8 DEF PutSignal, PutSignalFails, PutBroadcastFails, PutRefused, PutUnlink,
       PickFails, Register, RegisterFails, Wake, Return, Withdraw, PeekRead, Expire,
       WaitFails, WakeUncalled
  <2>2. \/ pc[t] \in {"signal", "unlink", "pick", "peek"}
           /\ \E l \in {"unlink", "idle", "aborted"} : Goto(t, l)
        \/ pc[t] \in {"register", "wait", "expired", "failed"}
           /\ \E l \in {"wait", "release", "expired", "failed"} : Goto(t, l)
    BY <1>8 DEF PutSignal, PutSignalFails, PutBroadcastFails, PutRefused, PutUnlink,
       PickFails, Register, RegisterFails, Wake, Return, Withdraw, PeekRead, Expire,
       WaitFails, WakeUncalled
  <2>3. EventHolders' = EventHolders
    BY <2>2, HoldersKept DEF Getting
  <2>4. QED
    BY <1>1, <1>2, <2>1, <2>3
<1>9. CASE UNCHANGED vars
  BY <1>2, <1>9 DEF vars, EventHolders
<1>10. QED
  BY <1>3, <1>4, <1>5, <1>6, <1>7, <1>8, <1>9 DEF Next, Proceed

\* Tear-down frees every event, although its loop stops at cached_event_cnt and
\* whether or not a getter has gone astray.
THEOREM NothingLeaks == Spec => []NoEventLeak
<1>1. Init => CacheDense
  BY DEF Init, CacheDense
<1>2. QueueInv /\ CacheDense /\ [Next]_vars => CacheDense'
  BY CacheDenseStep
<1>3. CacheDense => NoEventLeak
  BY DEF CacheDense, NoEventLeak
<1>4. QED
  BY <1>1, <1>2, <1>3, SpecInv, PTL DEF Spec

-------------------------------------------------------------------------------
(* Until a getter goes astray AsyncQueue implements HandoffQueue: each step  *)
(* of the code is one step of the atomic queue or changes nothing of it.  A  *)
(* put takes effect when it sets the event of the waiter it serves, not when *)
(* it unlinks it.                                                            *)

\* Nothing of the atomic queue changes.
Silent == UNCHANGED <<dataq, blocked, Inbox, fate>>

\* A step that keeps the line of waiters and the items of the served getters,
\* and moves nobody into or out of a wait, leaves blocked and Inbox alone.
LEMMA SameLine ==
  ASSUME waitq' = waitq, Unlinking' <=> Unlinking,
         \A u \in Threads : Waiting(u)' <=> Waiting(u),
         \A u \in Threads : Served(u) => infoData'[u] = infoData[u]
  PROVE  blocked' = blocked /\ Inbox' = Inbox
<1>1. blocked' = blocked
  BY DEF blocked
<1>2. \A u \in Threads : Served(u)' <=> Served(u)
  BY <1>1 DEF Served, ToSet
<1>3. QED
  BY <1>1, <1>2 DEF Inbox

LEMMA QuietSteps ==
  ASSUME QueueInv, NEW t \in Threads,
         \/ \E w \in BOOLEAN : GetEmpty(t, w)
         \/ PickCached(t) \/ PickNew(t) \/ PickFails(t) \/ RegisterFails(t)
         \/ Expire(t) \/ WaitFails(t) \/ PeekTest(t) \/ PeekRead(t)
  PROVE  Silent
<1>1. /\ UNCHANGED <<dataq, waitq, infoData, fate>>
      /\ \/ pc[t] = "idle" /\ Goto(t, "pick")
         \/ pc[t] = "pick" /\ \E l \in {"register", "idle"} : Goto(t, l)
         \/ pc[t] = "register" /\ Goto(t, "release")
         \/ pc[t] = "wait" /\ \E l \in {"expired", "failed"} : Goto(t, l)
         \/ pc[t] = "idle" /\ Goto(t, "peek")
         \/ pc[t] = "peek" /\ \E l \in {"idle", "aborted"} : Goto(t, l)
  BY DEF GetEmpty, Enter, PickCached, PickNew, PickFails, RegisterFails, Expire,
         WaitFails, PeekTest, PeekRead
<1>2. PICK l \in {"pick", "register", "idle", "release", "expired", "failed",
                  "peek", "aborted"} :
        /\ Goto(t, l)
        /\ pc[t] # "unlink"
        /\ l \in {"expired", "failed"} <=> pc[t] = "wait"
        /\ pc[t] \notin {"expired", "failed"}
  BY <1>1
<1>3. (Unlinking' <=> Unlinking) /\ \A u \in Threads : Waiting(u)' <=> Waiting(u)
  BY <1>2, Moved DEF Waiting, QueueInv
<1>4. QED
  BY <1>1, <1>3, SameLine DEF Silent

LEMMA PutDataRefines ==
  ASSUME QueueInv, NEW t \in Threads, NEW x \in Items, NEW front \in BOOLEAN,
         PutData(t, x, front)
  PROVE  Atomic!Offer(x) \/ Atomic!Refuse(x)
<1> USE AsyncQueueAssumption DEF PutData, Enter, Fate, Atomic!Fate
<1>1. blocked' = blocked /\ Inbox' = Inbox /\ blocked = <<>>
  <2>1. (Unlinking' <=> Unlinking) /\ \A u \in Threads : Waiting(u)' <=> Waiting(u)
    BY DEF Unlinking, Waiting
  <2>2. QED
    BY <2>1, SameLine, NotUnlinking, Parts
<1>2. CASE dataq' = (IF front THEN <<x>> \o dataq ELSE Append(dataq, x)) /\ Fate(x, "sent")
  BY <1>1, <1>2 DEF Atomic!Offer, Unsent
<1>3. CASE Fate(x, "refused") /\ UNCHANGED dataq
  BY <1>1, <1>3 DEF Atomic!Refuse, Unsent
<1>4. QED
  BY <1>2, <1>3

LEMMA PutFillRefines ==
  ASSUME QueueInv, NEW t \in Threads, NEW x \in Items, PutFill(t, x)
  PROVE  Silent
<1> USE AsyncQueueAssumption DEF PutFill, Enter
<1>1. (Unlinking' <=> Unlinking) /\ \A u \in Threads : Waiting(u)' <=> Waiting(u)
  BY Moved DEF QueueInv, Waiting
<1>2. Head(waitq) \in ToSet(waitq) /\ blocked = waitq
  BY TailFacts, NotUnlinking, Parts DEF QueueInv, TypeOK
<1>3. \A u \in Threads : Served(u) => infoData'[u] = infoData[u]
  BY <1>2 DEF Served, QueueInv, TypeOK
<1>4. QED
  BY <1>1, <1>3, SameLine DEF Silent

LEMMA PutSignalRefines ==
  ASSUME QueueInv, ~astray, NEW t \in Threads, PutSignal(t)
  PROVE  arg[t] \in Items /\ Atomic!Offer(arg[t])
<1> USE AsyncQueueAssumption DEF QueueInv, PutSignal, Goto
<1> DEFINE w == Head(waitq)
<1>1. /\ blocked = waitq /\ blocked' = Tail(waitq) /\ waitq # <<>>
      /\ \A u \in Threads : Waiting(u)' <=> Waiting(u)
  <2>1. \A u \in Threads : pc'[u] = IF u = t THEN "unlink" ELSE pc[u]
    BY DEF TypeOK
  <2>2. ~Unlinking /\ blocked = waitq /\ waitq # <<>>
    BY NotUnlinking, Parts DEF Holding, LockScope
  <2>3. QED
    BY <2>1, <2>2 DEF Unlinking, blocked, Waiting
<1>2. /\ w \in Threads /\ w \in ToSet(waitq) /\ Waiting(w)
      /\ ToSet(blocked)' = ToSet(waitq) \ {w} /\ ToSet(blocked) = ToSet(waitq)
  <2>1. ToSet(blocked)' = ToSet(Tail(waitq)) /\ ToSet(blocked) = ToSet(waitq)
    BY <1>1 DEF ToSet
  <2>2. QED
    BY <1>1, <2>1, TailFacts DEF TypeOK, WaitLine
<1>3. infoData[w] = arg[t] /\ arg[t] \in Items /\ fate[arg[t]] = "fresh"
  BY DEF LockScope, TypeOK, WaitLine
<1>4. \A u \in Threads : Served(u)' <=> Served(u) \/ u = w
  BY <1>1, <1>2 DEF Served
<1>5. Inbox' = [Inbox EXCEPT ![w] = arg[t]]
  BY <1>2, <1>3, <1>4 DEF Inbox
<1>6. QED
  BY <1>1, <1>3, <1>5 DEF Atomic!Offer, Atomic!Fate, Fate

\* A refused put is one whether or not its broadcast left a flag up.
LEMMA PutRefusedRefines ==
  ASSUME QueueInv, ~astray, NEW t \in Threads, PutSignalFails(t) \/ PutBroadcastFails(t)
  PROVE  arg[t] \in Items /\ Atomic!Refuse(arg[t])
<1> USE AsyncQueueAssumption DEF QueueInv
<1>0. PutRefused(t)
  BY DEF PutSignalFails, PutBroadcastFails
<1> USE DEF PutRefused
<1>1. (Unlinking' <=> Unlinking) /\ \A u \in Threads : Waiting(u)' <=> Waiting(u)
  BY <1>0, Moved DEF Waiting
<1>2. blocked' = blocked /\ Inbox' = Inbox
  BY <1>0, <1>1, SameLine
<1>3. arg[t] \in Items /\ fate[arg[t]] = "fresh"
  BY <1>0 DEF LockScope, TypeOK, WaitLine
<1>4. QED
  BY <1>0, <1>2, <1>3 DEF Atomic!Refuse, Atomic!Fate, Fate

LEMMA PutUnlinkRefines ==
  ASSUME QueueInv, NEW t \in Threads, PutUnlink(t)
  PROVE  Silent
<1> USE AsyncQueueAssumption DEF QueueInv, PutUnlink, Goto
<1>1. \A u \in Threads : pc'[u] = IF u = t THEN "idle" ELSE pc[u]
  BY DEF TypeOK
<1>2. Unlinking /\ ~Unlinking'
  BY <1>1, NotUnlinking, Parts DEF Unlinking, Holding
<1>3. blocked' = blocked
  BY <1>2 DEF blocked
<1>4. \A u \in Threads : Served(u)' <=> Served(u)
  BY <1>1, <1>3 DEF Served, Waiting, ToSet
<1>5. QED
  BY <1>3, <1>4 DEF Silent, Inbox

LEMMA GetDataRefines ==
  ASSUME QueueInv, NEW t \in Threads, GetData(t)
  PROVE  Atomic!Take
<1> USE DEF GetData, Enter
<1>1. (Unlinking' <=> Unlinking) /\ \A u \in Threads : Waiting(u)' <=> Waiting(u)
  BY DEF Unlinking, Waiting
<1>2. blocked' = blocked /\ Inbox' = Inbox
  BY <1>1, SameLine
<1>3. QED
  BY <1>2 DEF Atomic!Take, Atomic!Fate, Fate

LEMMA RegisterRefines ==
  ASSUME QueueInv, ~astray, NEW t \in Threads, Register(t)
  PROVE  Atomic!Block(t)
<1> USE AsyncQueueAssumption DEF QueueInv, Register, Goto
<1>1. \A u \in Threads : pc'[u] = IF u = t THEN "wait" ELSE pc[u]
  BY DEF TypeOK
<1>2. blocked = waitq /\ blocked' = Append(blocked, t)
  <2>1. ~Unlinking /\ blocked = waitq
    BY NotUnlinking, Parts DEF Holding
  <2>2. QED
    BY <1>1, <2>1 DEF Unlinking, blocked
<1>3. t \notin ToSet(blocked) /\ ToSet(blocked)' = ToSet(blocked) \cup {t}
  <2>1. t \notin ToSet(blocked)
    BY DEF WaitLine, Waiting
  <2>2. ToSet(blocked)' = ToSet(Append(blocked, t))
    BY <1>2 DEF ToSet
  <2>3. QED
    BY <2>1, <2>2, BlockedLine, AppendFacts
<1>4. \A u \in Threads : (Served(u)' <=> Served(u)) /\ ~(Served(u) /\ u = t)
  BY <1>1, <1>3 DEF Served, Waiting
<1>5. Inbox' = Inbox /\ Inbox[t] = NULL
  BY <1>4 DEF Inbox, TypeOK
<1>6. QED
  BY <1>2, <1>3, <1>5 DEF Atomic!Block, LockScope, ToSet, Atomic!ToSet

\* A served getter that leaves its wait empties its inbox.
LEMMA LeavesInbox ==
  ASSUME QueueInv, ~astray, NEW t \in Threads, Goto(t, "release"), pc[t] # "unlink",
         Served(t), UNCHANGED <<waitq, infoData>>, NEW f, Leaves(t, f)
  PROVE  /\ blocked' = blocked
         /\ Inbox' = [Inbox EXCEPT ![t] = NULL]
         /\ Inbox[t] # NULL
         /\ fate' = [fate EXCEPT ![Inbox[t]] = f]
<1>1. /\ Unlinking' <=> Unlinking
      /\ \A u \in Threads : Waiting(u)' <=> Waiting(u) /\ u # t
  BY Moved DEF QueueInv, Waiting
<1>2. blocked' = blocked
  BY <1>1 DEF blocked
<1>3. \A u \in Threads : Served(u)' <=> Served(u) /\ u # t
  BY <1>1, <1>2 DEF Served, ToSet
<1>4. Inbox[t] = infoData[t] /\ Inbox[t] # NULL /\ Inbox' = [Inbox EXCEPT ![t] = NULL]
  BY <1>2, <1>3 DEF Inbox, QueueInv, WaitLine
<1>5. fate' = [fate EXCEPT ![infoData[t]] = f]
  BY DEF Leaves, QueueInv, TypeOK
<1>6. QED
  BY <1>2, <1>4, <1>5

LEMMA ReturnRefines ==
  ASSUME QueueInv, ~astray', NEW t \in Threads, NEW flag, Return(t, flag)
  PROVE  Atomic!Collect(t)
<1> USE DEF Return
<1>1. Served(t) /\ ~astray
  BY DEF Served, Waiting
<1>2. QED
  BY <1>1, LeavesInbox DEF Atomic!Collect, Atomic!Fate

LEMMA WithdrawRefines ==
  ASSUME QueueInv, ~astray, NEW t \in Threads, Withdraw(t)
  PROVE  Atomic!GiveUp(t) \/ Atomic!Collect(t) \/ Atomic!Forfeit(t)
<1> USE AsyncQueueAssumption DEF Withdraw
<1>1. /\ blocked = waitq /\ blocked' = waitq' /\ Waiting(t)
      /\ \A u \in Threads : Waiting(u)' <=> Waiting(u) /\ u # t
  BY Moved, NotUnlinking, Parts DEF QueueInv, Waiting, blocked
<1>2. ToSet(blocked) = ToSet(waitq) /\ ToSet(blocked)' = ToSet(waitq')
  BY <1>1 DEF ToSet
<1>3. CASE t \in ToSet(waitq)
  <2>1. PICK i \in DOMAIN waitq : waitq[i] = t /\ waitq' = RemoveAt(waitq, i)
    BY <1>3
  <2>2. ToSet(waitq') = ToSet(waitq) \ {t} /\ fate' = fate
    BY <1>3, <2>1, RemoveAtFacts DEF QueueInv, TypeOK, WaitLine
  <2>3. \A u \in Threads : Served(u)' <=> Served(u)
    BY <1>1, <1>2, <1>3, <2>2 DEF Served
  <2>4. QED
    BY <1>1, <2>1, <2>2, <2>3 DEF Atomic!GiveUp, Inbox, RemoveAt, Atomic!RemoveAt
<1>4. CASE t \notin ToSet(waitq)
  <2>1. Served(t) /\ waitq' = waitq
    BY <1>1, <1>2, <1>4 DEF Served, ToSet
  <2>2. Leaves(t, "received") \/ Leaves(t, "lost")
    BY <1>4 DEF ToSet
  <2>3. QED
    BY <2>1, <2>2, LeavesInbox DEF Atomic!Collect, Atomic!Forfeit, Atomic!Fate
<1>5. QED
  BY <1>3, <1>4

LEMMA ReleaseRefines ==
  ASSUME QueueInv, NEW t \in Threads, Release(t)
  PROVE  Silent
<1> USE AsyncQueueAssumption DEF Release
<1>1. (Unlinking' <=> Unlinking) /\ \A u \in Threads : Waiting(u)' <=> Waiting(u)
  BY Moved DEF QueueInv, Waiting
<1>2. \A u \in Threads : Served(u) => infoData'[u] = infoData[u]
  BY DEF Served, Waiting, QueueInv, TypeOK
<1>3. QED
  BY <1>1, <1>2, SameLine DEF Silent

LEMMA ClearRefines ==
  ASSUME QueueInv, ~astray, UnInit \/ \E t \in Threads : ClearData(t)
  PROVE  Atomic!Clear
<1>1. (Unlinking' <=> Unlinking) /\ \A u \in Threads : Waiting(u)' <=> Waiting(u)
  BY DEF UnInit, ClearData, Unlinking, Waiting
<1>2. waitq' = waitq
  <2>1. CASE UnInit
    <3>1. blocked = waitq /\ \A u \in Threads : ~Waiting(u)
      BY <2>1, NotUnlinking, Parts DEF UnInit, Unlinking, Waiting
    <3>2. waitq = <<>>
      BY <3>1, BlockedLine, TailFacts DEF QueueInv, WaitLine, TypeOK
    <3>3. QED
      BY <2>1, <3>2 DEF UnInit
  <2>2. QED
    BY <2>1 DEF ClearData
<1>3. blocked' = blocked /\ Inbox' = Inbox
  BY <1>1, <1>2, SameLine DEF UnInit, ClearData
<1>4. QED
  BY <1>3 DEF UnInit, ClearData, Atomic!Clear, ToSet, Atomic!ToSet

LEMMA InitRefines == Init => Atomic!HInit
<1> SUFFICES ASSUME Init PROVE Atomic!HInit
  OBVIOUS
<1>1. blocked = <<>>
  BY DEF Init, blocked, Unlinking
<1>2. \A t \in Threads : ~Served(t)
  BY DEF Init, Served, Waiting
<1>3. QED
  BY <1>1, <1>2 DEF Init, Atomic!HInit, Inbox

\* Who has gone astray stays astray.
LEMMA AstrayStays == [Next]_vars /\ ~astray' => ~astray
BY DEF Next, vars, Call, Proceed, PutData, PutFill, PutSignal, PutSignalFails,
       PutBroadcastFails, PutRefused, PutUnlink, GetData, GetEmpty, PickCached, PickNew,
       PickFails, Register, RegisterFails, Wake, WakeUncalled, Return, Expire, WaitFails,
       Withdraw, Release, PeekTest, PeekRead, ClearData, UnInit

LEMMA NextRefines == QueueInv /\ [Next]_vars => [astray' \/ Atomic!HNext]_(Atomic!hvars)
<1> SUFFICES ASSUME QueueInv, [Next]_vars, ~astray' PROVE Atomic!HNext \/ Silent
  BY DEF Silent, Atomic!hvars
<1> ~astray
  BY AstrayStays
<1>1. ASSUME NEW t \in Threads, Call(t) PROVE Atomic!HNext \/ Silent
  BY <1>1, PutDataRefines, PutFillRefines, GetDataRefines, QuietSteps, ClearRefines
     DEF Call, Atomic!HNext
<1>2. ASSUME NEW t \in Threads, Proceed(t) PROVE Atomic!HNext \/ Silent
  BY <1>2, PutSignalRefines, PutRefusedRefines, PutUnlinkRefines, QuietSteps,
     RegisterRefines, ReturnRefines, WithdrawRefines, ReleaseRefines
     DEF Proceed, Wake, Atomic!HNext
<1>3. ASSUME NEW t \in Threads, Expire(t) \/ WaitFails(t) \/ WakeUncalled(t)
      PROVE  Atomic!HNext \/ Silent
  BY <1>3, QuietSteps, ReturnRefines DEF WakeUncalled, Atomic!HNext
<1>4. CASE UnInit
  BY <1>4, ClearRefines DEF Atomic!HNext
<1>5. CASE UNCHANGED vars
  BY <1>5 DEF vars, Silent, blocked, Unlinking, Inbox, Served, Waiting, ToSet
<1>6. QED
  BY <1>1, <1>2, <1>3, <1>4, <1>5 DEF Next

\* Until a getter goes astray arAsyncQueue_t behaves as the atomic queue: first
\* come first served for the getters, no item lost, duplicated, overtaken or
\* received though it was refused, whatever the interleaving of the lock-free
\* parts of a get with the puts and whichever library calls fail.
THEOREM Refinement == Spec => ImplementsHandoffQueue
<1>1. Init => Atomic!HInit
  BY InitRefines
<1>2. QueueInv /\ [Next]_vars => [astray' \/ Atomic!HNext]_(Atomic!hvars)
  BY NextRefines
<1>3. Spec => []QueueInv
  BY SpecInv
<1>4. QED
  BY <1>1, <1>2, <1>3, PTL DEF Spec, ImplementsHandoffQueue

\* Where neither AR_SetEvent's broadcast nor AR_ResetEvent fails, every
\* behaviour of arAsyncQueue_t is one of the atomic queue from end to end.
THEOREM PlainRefinement ==
  ASSUME Faults \cap {"broadcast", "reset"} = {}
  PROVE  Spec => Atomic!HSpec
<1>1. Init => Atomic!HInit
  BY InitRefines
<1>2. QueueInv /\ ~astray' /\ [Next]_vars => [Atomic!HNext]_(Atomic!hvars)
  BY NextRefines DEF Atomic!hvars
<1>3. Spec => []~astray
  BY NeverAstray
<1>4. QED
  BY <1>1, <1>2, <1>3, SpecInv, PTL DEF Spec, Atomic!HSpec
===============================================================================
