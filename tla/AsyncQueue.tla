------------------------------ MODULE AsyncQueue ------------------------------
(***************************************************************************)
(* arAsyncQueue_t of Arsenal/Common/thread.c: a queue of data nodes and a  *)
(* queue of waiters guarded by one spin lock, and a small cache of events  *)
(* guarded by another.  A getter that finds no data registers an           *)
(* asyncWaitInfo_t that lives on its own stack and sleeps on the event in  *)
(* it; a put fills the info of the oldest waiter, sets its event and only  *)
(* then unlinks the waiter, all of it under `mutex`, while the waiter may  *)
(* already be running again.                                               *)
(*                                                                         *)
(* A critical section in which another thread can interfere is split into  *)
(* steps that hold `mutex`; one that no other thread can observe half done *)
(* is one action guarded by mutex = NULL.  The sections of                 *)
(* cached_event_mutex, and AR_SetEvent's of the event's own lock, touch    *)
(* nothing that is read outside them and are atomic here.                  *)
(*                                                                         *)
(* AR_SetEvent raises the flag before it broadcasts, so a put can be       *)
(* refused with the flag of a linked getter up.  A getter that returns on  *)
(* that flag leaves its node behind, with a pointer into a frame that is   *)
(* gone: what follows is modelled under the assumption that a thread's     *)
(* frame is always in the same place and keeps what was in it, and a write *)
(* into an event that has been freed has no effect.                        *)
(***************************************************************************)
EXTENDS Naturals, Sequences, FiniteSets, SequencesExt

CONSTANTS
  Threads,    \* callers of the queue
  Consumers,  \* those of them that take items out
  Items,      \* the data pointers callers put, each at most once
  Events,     \* heap blocks an arEvent_t can occupy
  CacheSize,  \* AR_ASYNCQUEUE_MAX_WAIT_EVENT
  MaxLine,    \* bound of the model: once astray, a getter joins a shorter line only
  Faults,     \* library calls that may fail: "memory", "event" (creating one),
              \* "lock" and "broadcast" of AR_SetEvent, "reset", "wait"
  NULL

ASSUME AsyncQueueAssumption ==
  /\ CacheSize \in Nat /\ MaxLine \in Nat
  /\ IsFiniteSet(Threads) /\ Consumers \subseteq Threads
  /\ Faults \subseteq {"memory", "event", "lock", "broadcast", "reset", "wait"}
  /\ NULL \notin Threads \cup Items \cup Events

VARIABLES
  mutex,       \* the thread that holds queue->mutex, or NULL
  dataq,       \* data_head .. data_tail
  waitq,       \* wait_head .. wait_tail: the threads whose info is linked
  infoEvent,   \* the event a getter holds (info.event)
  infoData,    \* info.data
  event,       \* each event: "none" (not allocated), "reset", "set", or "left":
               \* its flag is up, but the AR_SetEvent that raised it failed
  cached,      \* cached_events[]
  cachedCnt,   \* cached_event_cnt
  pc,          \* where each thread is
  arg,         \* the data of a put in progress
  timed,       \* whether the getter called the variant with a timeout
  open,        \* FALSE once AR_UnInitAsyncQueue has run
  fate,        \* history: what became of each item (until astray)
  astray       \* history: a getter has returned while its info was linked, or
               \* an event went to the cache with its flag up

vars == <<mutex, dataq, waitq, infoEvent, infoData, event, cached, cachedCnt,
          pc, arg, timed, open, fate, astray>>

Slots == 1..CacheSize

\* The program counters of a thread that holds mutex, and those of a getter
\* whose info exists.
Holding == {"signal", "unlink", "pick", "register"}
Getting == {"register", "wait", "expired", "failed", "release"}

Init ==
  /\ mutex = NULL
  /\ dataq = <<>>
  /\ waitq = <<>>
  /\ infoEvent = [t \in Threads |-> NULL]
  /\ infoData = [t \in Threads |-> NULL]
  /\ event = [e \in Events |-> "none"]
  /\ cached = [i \in Slots |-> NULL]
  /\ cachedCnt = 0
  /\ pc = [t \in Threads |-> "idle"]
  /\ arg = [t \in Threads |-> NULL]
  /\ timed = [t \in Threads |-> FALSE]
  /\ open = TRUE
  /\ fate = [x \in Items |-> "fresh"]
  /\ astray = FALSE

Goto(t, l) == pc' = [pc EXCEPT ![t] = l]
Fate(x, f) == fate' = [fate EXCEPT ![x] = f]

\* The waiter that a put has signalled but not yet unlinked is no longer
\* waiting: blocked is the line of those that are.
Unlinking == \E p \in Threads : pc[p] = "unlink"
blocked == IF Unlinking THEN Tail(waitq) ELSE waitq

\* An idle thread makes a call and wins the spin lock.
Enter(t) == open /\ pc[t] = "idle" /\ mutex = NULL

\* The caller owns x until its put is over.
Unsent(x) == fate[x] = "fresh" /\ \A t \in Threads : arg[t] # x

-------------------------------------------------------------------------------
(* AR_PutToAsyncQueue and AR_PutToAsyncQueueFront.                          *)

\* Mutant: the put does not look for waiters before it queues its item.
PutBlindly(t, x, front) ==
  /\ Enter(t)
  /\ Unsent(x)
  /\ dataq' = IF front THEN <<x>> \o dataq ELSE Append(dataq, x)
  /\ Fate(x, "sent")
  /\ UNCHANGED <<mutex, waitq, infoEvent, infoData, event, cached, cachedCnt,
                 pc, arg, timed, open, astray>>

\* Nobody waits: the item joins the queue, or the node cannot be allocated.
PutData(t, x, front) ==
  /\ Enter(t)
  /\ Unsent(x)
  /\ waitq = <<>>
  /\ \/ /\ dataq' = IF front THEN <<x>> \o dataq ELSE Append(dataq, x)
        /\ Fate(x, "sent")
     \/ /\ "memory" \in Faults
        /\ Fate(x, "refused")
        /\ UNCHANGED dataq
  /\ UNCHANGED <<mutex, waitq, infoEvent, infoData, event, cached, cachedCnt,
                 pc, arg, timed, open, astray>>

\* info = __top_wait(queue); info->data = data.  The getter may have left.
PutFill(t, x) ==
  /\ Enter(t)
  /\ Unsent(x)
  /\ waitq # <<>>
  /\ mutex' = t
  /\ arg' = [arg EXCEPT ![t] = x]
  /\ infoData' = [infoData EXCEPT ![Head(waitq)] = x]
  /\ Goto(t, "signal")
  /\ UNCHANGED <<dataq, waitq, infoEvent, event, cached, cachedCnt, timed,
                 open, fate, astray>>

\* Mutant: the waiter is unlinked but its event was never set.
PutForgetsSignal(t) ==
  /\ pc[t] = "signal"
  /\ Fate(arg[t], "sent")
  /\ Goto(t, "unlink")
  /\ UNCHANGED <<mutex, dataq, waitq, infoEvent, infoData, event, cached,
                 cachedCnt, arg, timed, open, astray>>

\* AR_SetEvent(info->event): from here on the waiter can run.
PutSignal(t) ==
  /\ pc[t] = "signal"
  /\ event' = [event EXCEPT ![infoEvent[Head(waitq)]] = IF @ = "none" THEN @ ELSE "set"]
  /\ Fate(arg[t], "sent")
  /\ Goto(t, "unlink")
  /\ UNCHANGED <<mutex, dataq, waitq, infoEvent, infoData, cached, cachedCnt,
                 arg, timed, open, astray>>

\* AR_SetEvent fails: a warning, the caller keeps its item, and the waiter stays
\* linked with that item in its info.
PutRefused(t) ==
  /\ pc[t] = "signal"
  /\ Fate(arg[t], "refused")
  /\ arg' = [arg EXCEPT ![t] = NULL]
  /\ mutex' = NULL
  /\ Goto(t, "idle")
  /\ UNCHANGED <<dataq, waitq, infoEvent, infoData, cached, cachedCnt, timed, open,
                 astray>>

\* AR_SetEvent cannot lock the event and has done nothing.
PutSignalFails(t) == "lock" \in Faults /\ PutRefused(t) /\ UNCHANGED event

\* The broadcast of AR_SetEvent fails after the flag went up.
PutBroadcastFails(t) ==
  /\ "broadcast" \in Faults
  /\ PutRefused(t)
  /\ event' = [event EXCEPT ![infoEvent[Head(waitq)]] = IF @ = "reset" THEN "left" ELSE @]

\* __pop_wait(queue), AR_UnLockSpinLock.
PutUnlink(t) ==
  /\ pc[t] = "unlink"
  /\ waitq' = Tail(waitq)
  /\ arg' = [arg EXCEPT ![t] = NULL]
  /\ mutex' = NULL
  /\ Goto(t, "idle")
  /\ UNCHANGED <<dataq, infoEvent, infoData, event, cached, cachedCnt, timed,
                 open, fate, astray>>

-------------------------------------------------------------------------------
(* AR_GetFromAsyncQueue and AR_GetFromAsyncQueueWithTimeout.                *)

\* There is data: __pop_data and return.
GetData(t) ==
  /\ Enter(t)
  /\ dataq # <<>>
  /\ dataq' = Tail(dataq)
  /\ Fate(Head(dataq), "received")
  /\ UNCHANGED <<mutex, waitq, infoEvent, infoData, event, cached, cachedCnt,
                 pc, arg, timed, open, astray>>

\* No data: the getter goes for an event, still holding mutex.  With a timeout
\* of zero or less it would return AR_E_TIMEOUT and change nothing.  Getters that
\* have gone astray may leave any number of nodes in the line, hence the bound.
GetEmpty(t, withTimeout) ==
  /\ Enter(t)
  /\ astray => Len(waitq) < MaxLine
  /\ dataq = <<>>
  /\ mutex' = t
  /\ timed' = [timed EXCEPT ![t] = withTimeout]
  /\ Goto(t, "pick")
  /\ UNCHANGED <<dataq, waitq, infoEvent, infoData, event, cached, cachedCnt,
                 arg, open, fate, astray>>

\* The lowest occupied slot of cached_events[].
FirstCached == CHOOSE i \in Slots : /\ cached[i] # NULL
                                    /\ \A j \in Slots : cached[j] # NULL => i <= j

\* Mutant: the event stays in its slot when a getter takes it.
PickShared(t) ==
  /\ pc[t] = "pick"
  /\ cachedCnt > 0
  /\ infoEvent' = [infoEvent EXCEPT ![t] = cached[FirstCached]]
  /\ cachedCnt' = cachedCnt - 1
  /\ Goto(t, "register")
  /\ UNCHANGED <<mutex, dataq, waitq, infoData, event, cached, arg, timed, open,
                 fate, astray>>

\* __get_asyncqueue_cached_events: reuse a cached event.
PickCached(t) ==
  /\ pc[t] = "pick"
  /\ cachedCnt > 0
  /\ infoEvent' = [infoEvent EXCEPT ![t] = cached[FirstCached]]
  /\ cached' = [cached EXCEPT ![FirstCached] = NULL]
  /\ cachedCnt' = cachedCnt - 1
  /\ Goto(t, "register")
  /\ UNCHANGED <<mutex, dataq, waitq, infoData, event, arg, timed, open, fate, astray>>

\* __get_asyncqueue_cached_events: the cache is empty, AR_CreateEvent(false).
PickNew(t) ==
  /\ pc[t] = "pick"
  /\ cachedCnt = 0
  /\ \E e \in Events :
       /\ event[e] = "none"
       /\ event' = [event EXCEPT ![e] = "reset"]
       /\ infoEvent' = [infoEvent EXCEPT ![t] = e]
  /\ Goto(t, "register")
  /\ UNCHANGED <<mutex, dataq, waitq, infoData, cached, cachedCnt, arg, timed,
                 open, fate, astray>>

\* AR_CreateEvent returns NULL: AR_E_SYS.
PickFails(t) ==
  /\ pc[t] = "pick"
  /\ cachedCnt = 0
  /\ "event" \in Faults
  /\ mutex' = NULL
  /\ timed' = [timed EXCEPT ![t] = FALSE]
  /\ Goto(t, "idle")
  /\ UNCHANGED <<dataq, waitq, infoEvent, infoData, event, cached, cachedCnt,
                 arg, open, fate, astray>>

\* Mutant: the newest waiter is served first.
RegisterInFront(t) ==
  /\ pc[t] = "register"
  /\ infoData' = [infoData EXCEPT ![t] = NULL]
  /\ waitq' = <<t>> \o waitq
  /\ mutex' = NULL
  /\ Goto(t, "wait")
  /\ UNCHANGED <<dataq, infoEvent, event, cached, cachedCnt, arg, timed, open,
                 fate, astray>>

\* __push_wait(queue, &info), AR_UnLockSpinLock.
Register(t) ==
  /\ pc[t] = "register"
  /\ infoData' = [infoData EXCEPT ![t] = NULL]
  /\ waitq' = Append(waitq, t)
  /\ mutex' = NULL
  /\ Goto(t, "wait")
  /\ UNCHANGED <<dataq, infoEvent, event, cached, cachedCnt, arg, timed, open,
                 fate, astray>>

\* __push_wait cannot allocate its node: AR_E_NOMEM by way of END_POINT.
RegisterFails(t) ==
  /\ pc[t] = "register"
  /\ "memory" \in Faults
  /\ mutex' = NULL
  /\ Goto(t, "release")
  /\ UNCHANGED <<dataq, waitq, infoEvent, infoData, event, cached, cachedCnt,
                 arg, timed, open, fate, astray>>

\* The item of a getter's info, if a put filled it, leaves the queue.
Leaves(t, f) == fate' = [x \in Items |-> IF x = infoData[t] THEN f ELSE fate[x]]

\* AR_WaitEvent or AR_WaitEventWithTimeout returns AR_S_YES; the event is a
\* manual-reset one and stays set.  *pdata = info.data without the lock, and
\* without a look at whether the info is still linked.
Return(t, flag) ==
  /\ pc[t] = "wait"
  /\ event[infoEvent[t]] = flag
  /\ Leaves(t, "received")
  /\ astray' = (astray \/ t \in ToSet(blocked))
  /\ Goto(t, "release")
  /\ UNCHANGED <<mutex, dataq, waitq, infoEvent, infoData, event, cached,
                 cachedCnt, arg, timed, open>>

Wake(t) == Return(t, "set")

\* The flag that a failed broadcast left up is seen by a getter that has not
\* gone to sleep yet or wakes for no reason.
WakeUncalled(t) == Return(t, "left")

\* AR_WaitEventWithTimeout returns AR_E_TIMEOUT, which it also may when the
\* event has just been set.
Expire(t) ==
  /\ pc[t] = "wait"
  /\ timed[t]
  /\ Goto(t, "expired")
  /\ UNCHANGED <<mutex, dataq, waitq, infoEvent, infoData, event, cached,
                 cachedCnt, arg, timed, open, fate, astray>>

\* The wait itself fails.
WaitFails(t) ==
  /\ pc[t] = "wait"
  /\ "wait" \in Faults
  /\ Goto(t, "failed")
  /\ UNCHANGED <<mutex, dataq, waitq, infoEvent, infoData, event, cached,
                 cachedCnt, arg, timed, open, fate, astray>>

\* Mutant: a timeout is a timeout, whether or not a put came first.
WithdrawDeaf(t) ==
  /\ pc[t] \in {"expired", "failed"}
  /\ mutex = NULL
  /\ waitq' = SelectSeq(waitq, LAMBDA u : u # t)
  /\ Goto(t, "release")
  /\ UNCHANGED <<mutex, dataq, infoEvent, infoData, event, cached, cachedCnt,
                 arg, timed, open, fate, astray>>

\* __remove_wait_node(queue, &info) under mutex: the first node with this info;
\* where there is none a put came first.  After a timeout the item of that put
\* is the result; after a failed wait it is dropped.
Withdraw(t) ==
  /\ pc[t] \in {"expired", "failed"}
  /\ mutex = NULL
  /\ \/ /\ \E i \in DOMAIN waitq :
             /\ waitq[i] = t /\ \A j \in 1..(i - 1) : waitq[j] # t
             /\ waitq' = RemoveAt(waitq, i)
        /\ UNCHANGED fate
     \/ /\ t \notin ToSet(waitq)
        /\ Leaves(t, IF pc[t] = "expired" THEN "received" ELSE "lost")
        /\ UNCHANGED waitq
  /\ Goto(t, "release")
  /\ UNCHANGED <<mutex, dataq, infoEvent, infoData, event, cached, cachedCnt,
                 arg, timed, open, astray>>

\* Mutant: the search for a free slot starts at the end of the array.
LastFree == CHOOSE i \in Slots : /\ cached[i] = NULL
                                 /\ \A j \in Slots : cached[j] = NULL => i >= j

\* The lowest free slot of cached_events[].
FirstFree == CHOOSE i \in Slots : /\ cached[i] = NULL
                                  /\ \A j \in Slots : cached[j] = NULL => i <= j

\* Mutant: the event goes back to the cache without AR_ResetEvent.
ReleaseUnreset(t) ==
  /\ pc[t] = "release"
  /\ cachedCnt # CacheSize
  /\ cached' = [cached EXCEPT ![FirstFree] = infoEvent[t]]
  /\ cachedCnt' = cachedCnt + 1
  /\ infoEvent' = [infoEvent EXCEPT ![t] = NULL]
  /\ infoData' = [infoData EXCEPT ![t] = NULL]
  /\ timed' = [timed EXCEPT ![t] = FALSE]
  /\ Goto(t, "idle")
  /\ UNCHANGED <<mutex, dataq, waitq, event, arg, open, fate, astray>>

\* __put_asyncqueue_cached_events and return: the event is destroyed where the
\* cache is full, or else cached after AR_ResetEvent, whose failure nobody looks
\* at.  An info that is still linked goes on naming the event.
Release(t) ==
  /\ pc[t] = "release"
  /\ \/ /\ cachedCnt = CacheSize
        /\ event' = [event EXCEPT ![infoEvent[t]] = "none"]
        /\ UNCHANGED <<cached, cachedCnt, astray>>
     \/ /\ cachedCnt # CacheSize
        /\ \/ event' = [event EXCEPT ![infoEvent[t]] = "reset"] /\ UNCHANGED astray
           \/ /\ "reset" \in Faults
              /\ astray' = (astray \/ event[infoEvent[t]] # "reset")
              /\ UNCHANGED event
        /\ cached' = [cached EXCEPT ![FirstFree] = infoEvent[t]]
        /\ cachedCnt' = cachedCnt + 1
  /\ infoEvent' = [infoEvent EXCEPT ![t] = IF t \in ToSet(blocked) THEN @ ELSE NULL]
  /\ infoData' = [infoData EXCEPT ![t] = NULL]
  /\ timed' = [timed EXCEPT ![t] = FALSE]
  /\ Goto(t, "idle")
  /\ UNCHANGED <<mutex, dataq, waitq, arg, open, fate>>

-------------------------------------------------------------------------------
(* AR_PeekFromAsyncQueue, AR_ClearAsyncQueue, AR_UnInitAsyncQueue.          *)

\* Mutant: the test for data is skipped.
PeekUntested(t) ==
  /\ Enter(t)
  /\ Goto(t, "peek")
  /\ UNCHANGED <<mutex, dataq, waitq, infoEvent, infoData, event, cached,
                 cachedCnt, arg, timed, open, fate, astray>>

\* AR_AsyncQueueIsEmpty answered no, and its lock is released again.
PeekTest(t) ==
  /\ Enter(t)
  /\ dataq # <<>>
  /\ Goto(t, "peek")
  /\ UNCHANGED <<mutex, dataq, waitq, infoEvent, infoData, event, cached,
                 cachedCnt, arg, timed, open, fate, astray>>

\* The second critical section: two assertions, then data_head->data.
PeekRead(t) ==
  /\ pc[t] = "peek"
  /\ mutex = NULL
  /\ Goto(t, IF waitq = <<>> /\ dataq # <<>> THEN "idle" ELSE "aborted")
  /\ UNCHANGED <<mutex, dataq, waitq, infoEvent, infoData, event, cached,
                 cachedCnt, arg, timed, open, fate, astray>>

\* Every data node is freed; waiters are left alone.
ClearData(t) ==
  /\ Enter(t)
  /\ dataq # <<>>
  /\ dataq' = <<>>
  /\ fate' = [x \in Items |-> IF x \in ToSet(dataq) THEN "cleared" ELSE fate[x]]
  /\ UNCHANGED <<mutex, waitq, infoEvent, infoData, event, cached, cachedCnt,
                 pc, arg, timed, open, astray>>

\* Called once nobody uses the queue: the loop over cached_events[] stops at
\* cached_event_cnt, not at the end of the array.  Nodes of getters that have
\* left are freed, where assertions are off.
UnInit ==
  /\ open
  /\ \A t \in Threads : pc[t] = "idle"
  /\ event' = [e \in Events |->
                 IF \E i \in 1..cachedCnt : cached[i] = e THEN "none" ELSE event[e]]
  /\ cached' = [i \in Slots |-> IF i <= cachedCnt THEN NULL ELSE cached[i]]
  /\ cachedCnt' = 0
  /\ waitq' = <<>>
  /\ dataq' = <<>>
  /\ fate' = [x \in Items |-> IF x \in ToSet(dataq) THEN "cleared" ELSE fate[x]]
  /\ open' = FALSE
  /\ UNCHANGED <<mutex, infoEvent, infoData, pc, arg, timed, astray>>

-------------------------------------------------------------------------------
\* The calls a client may or may not make.  AR_PeekFromAsyncQueue "can only be
\* used in single consumer model" (common.h:1336).
Call(t) ==
  \/ \E x \in Items : \/ \E front \in BOOLEAN : PutData(t, x, front)
                      \/ PutFill(t, x)
  \/ /\ t \in Consumers
     /\ \/ GetData(t)
        \/ \E withTimeout \in BOOLEAN : GetEmpty(t, withTimeout)
        \/ ClearData(t)
  \/ Consumers = {t} /\ PeekTest(t)

\* The steps of a call under way, which the scheduler takes sooner or later.
Proceed(t) ==
  \/ PutSignal(t) \/ PutSignalFails(t) \/ PutBroadcastFails(t) \/ PutUnlink(t)
  \/ PickCached(t) \/ PickNew(t) \/ PickFails(t)
  \/ Register(t) \/ RegisterFails(t)
  \/ Wake(t) \/ Withdraw(t) \/ Release(t)
  \/ PeekRead(t)

Next ==
  \/ \E t \in Threads : \/ Call(t) \/ Proceed(t)
                       \/ Expire(t) \/ WaitFails(t) \/ WakeUncalled(t)
  \/ UnInit

Spec == Init /\ [][Next]_vars

\* Running threads keep running, and a timed wait ends.
Fairness == \A t \in Threads : WF_vars(Proceed(t)) /\ WF_vars(Expire(t))

FairSpec == Spec /\ Fairness

-------------------------------------------------------------------------------
(* Properties.                                                             *)

\* Getters that sleep or are on their way out of a wait; those of them that a
\* put has served; and the item it served them.
Waiting(t) == pc[t] \in {"wait", "expired", "failed"}
Served(t) == Waiting(t) /\ t \notin ToSet(blocked)
Handed(t, x) == Served(t) /\ infoData[t] = x

\* The type of every variable of arAsyncQueue_t and of its callers.
TypeOK ==
  /\ mutex \in Threads \cup {NULL}
  /\ dataq \in Seq(Items)
  /\ waitq \in Seq(Threads)
  /\ infoEvent \in [Threads -> Events \cup {NULL}]
  /\ infoData \in [Threads -> Items \cup {NULL}]
  /\ event \in [Events -> {"none", "reset", "set", "left"}]
  /\ cached \in [Slots -> Events \cup {NULL}]
  /\ cachedCnt \in 0..CacheSize
  /\ pc \in [Threads -> Holding \cup Getting \cup {"idle", "peek", "aborted"}]
  /\ arg \in [Threads -> Items \cup {NULL}]
  /\ timed \in [Threads -> BOOLEAN]
  /\ open \in BOOLEAN
  /\ fate \in [Items -> {"fresh", "sent", "refused", "received", "lost", "cleared"}]
  /\ astray \in BOOLEAN

\* Data and waiters are never queued at the same time: a put never parks an
\* item beside a getter that sleeps for one (thread.c:679-698 and 428-467).
DataOrWaiters == dataq = <<>> \/ waitq = <<>>

\* Until a getter has gone astray: an item that a put accepted is in one data
\* node or in the info of one served getter until somebody receives it; an item
\* in either place was accepted and has not been received, refused or cleared.
\* This is what the second look after a timeout (thread.c:475-491) and
\* top-before-pop in put are for.
OnePlacePerItem ==
  ~astray =>
    /\ \A x \in Items :
         fate[x] = "sent" <=> \/ x \in ToSet(dataq)
                              \/ \E t \in Threads : Handed(t, x)
    /\ IsInjective(dataq)
    /\ \A x \in Items, t, u \in Threads :
         Handed(t, x) => x \notin ToSet(dataq) /\ (Handed(u, x) => u = t)

\* Until a getter has gone astray: no lost and no stale wake-up.  The event a
\* waiting getter sleeps on is "set" exactly when a put has served that getter,
\* even though events are reused through the cache, where they are reset, and a
\* refused put leaves its item in an info, and may leave the flag up ("left").
SetIffServed ==
  ~astray =>
    /\ \A t \in Threads : Waiting(t) => (event[infoEvent[t]] = "set" <=> Served(t))
    /\ \A t \in Threads : pc[t] = "register" => event[infoEvent[t]] = "reset"
    /\ \A i \in Slots : cached[i] # NULL => event[cached[i]] = "reset"

\* A getter holds an event between picking it and releasing it.
Holds(t, e) == pc[t] \in Getting /\ infoEvent[t] = e

\* Every allocated event has one owner, the getter that holds it or the slot of
\* the cache it is in, and what they have is allocated.  A put that writes to an
\* event through the info of a getter that has left does not change that.
EventHasOneOwner ==
  /\ \A t \in Threads : pc[t] \in Getting => infoEvent[t] # NULL
  /\ \A t, u \in Threads, e \in Events : Holds(t, e) /\ Holds(u, e) => t = u
  /\ \A i, j \in Slots : cached[i] = cached[j] => i = j \/ cached[i] = NULL
  /\ \A t \in Threads, e \in Events, i \in Slots : Holds(t, e) => cached[i] # e
  /\ \A e \in Events :
       event[e] # "none" <=> \/ \E t \in Threads : Holds(t, e)
                             \/ \E i \in Slots : cached[i] = e

\* cached_event_cnt counts the occupied slots although the array gets holes, so
\* the searches of the two cache functions find what they look for.
CacheCountExact == open => cachedCnt = Cardinality({i \in Slots : cached[i] # NULL})

\* Who holds the lock, and what that thread has established about the queue.
LockScope ==
  /\ \A t \in Threads : mutex = t <=> pc[t] \in Holding
  /\ \A t \in Threads :
       /\ pc[t] \in {"pick", "register"} => dataq = <<>>
       /\ pc[t] \in {"signal", "unlink"} <=> arg[t] # NULL
       /\ pc[t] \in {"signal", "unlink"} => waitq # <<>>
  /\ ~open => \A t \in Threads : pc[t] = "idle"

\* Until a getter has gone astray: every linked info belongs to a getter that
\* waits, once; a put under way fills the first of them and still owns its item;
\* a served getter has its item.
WaitLine ==
  ~astray =>
    /\ IsInjective(waitq)
    /\ \A t \in ToSet(blocked) : Waiting(t)
    /\ \A t \in Threads :
         /\ Served(t) => infoData[t] # NULL
         /\ pc[t] = "signal" => /\ fate[arg[t]] = "fresh"
                                /\ infoData[Head(waitq)] = arg[t]

\* A getter can only go astray on an event that a failed call has left up.
Blame ==
  /\ astray => Faults \cap {"broadcast", "reset"} # {}
  /\ \A e \in Events : event[e] = "left" => "broadcast" \in Faults

\* The inductive invariant behind the safety properties.
QueueInv ==
  /\ TypeOK
  /\ DataOrWaiters
  /\ LockScope
  /\ EventHasOneOwner
  /\ CacheCountExact
  /\ Blame
  /\ WaitLine
  /\ SetIffServed
  /\ OnePlacePerItem

\* AR_UnInitAsyncQueue frees every event, though its loop visits only the first
\* cached_event_cnt slots (thread.c:340-347): when all getters have returned,
\* the slots in use are the first ones.
NoEventLeak == ~open => \A e \in Events : event[e] = "none"

\* Until a getter goes astray, every behaviour of the queue is one of the atomic
\* queue of HandoffQueue, failed broadcasts and resets included.
Inbox == [t \in Threads |-> IF Served(t) THEN infoData[t] ELSE NULL]
Atomic == INSTANCE HandoffQueue WITH queue <- dataq, inbox <- Inbox
ImplementsHandoffQueue ==
  Atomic!HInit /\ [][astray' \/ Atomic!HNext]_(Atomic!hvars)

\* A getter without a timeout returns once a put has served it, whatever the
\* others do: it needs no spin lock that they contend for.  A getter with a
\* timeout returns too, unless the others keep taking the spin lock for ever:
\* it is a plain test-and-set lock and promises nobody a turn.
WaitEnds ==
  \A t \in Threads :
    /\ (pc[t] = "wait" /\ ~timed[t] /\ Served(t)) ~> (pc[t] = "idle")
    /\ \/ []<>(mutex # NULL)
       \/ (Waiting(t) /\ timed[t]) ~> (pc[t] = "idle")

\* The two assertions of AR_PeekFromAsyncQueue (thread.c:627-628) hold in its
\* second critical section, although it tested for data in the first one and
\* puts, refused puts and failed waits may come between or before.
PeekAssertionsHold == \A t \in Threads : pc[t] # "aborted"
===============================================================================
