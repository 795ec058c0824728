-------------------------------- MODULE Threads --------------------------------
(***************************************************************************)
(* arThread_t of Arsenal/Common/thread_posix.h: a handle that owns a       *)
(* pthread and a manual-reset event `done`, which the thread sets when its *)
(* function has returned and which AR_JoinThread waits for.  Client        *)
(* threads create, join and destroy; the functions of the threads they     *)
(* create, and the clients, meet at one more event, the gate.              *)
(*                                                                         *)
(* A child is named once, and so are its handle and its `done`; the names  *)
(* are taken in a fixed order, for they mean nothing.  pthread identifiers *)
(* are drawn from Ids: one is free again when its thread has been          *)
(* reclaimed, by a join or, if it was detached, by its exit.               *)
(***************************************************************************)
EXTENDS Events, FiniteSets

CONSTANTS
  Clients,   \* threads that were there from the start
  Children,  \* threads the clients create
  Gate,      \* the event all of them may use
  Ids,       \* values of pthread_t
  FuncCalls, \* what a child's function may call on the gate
  Budgets    \* how many threads are created, joined and destroyed and how many
             \* calls made on the gate: records, one for each kind of client

Spendings == {"create", "join", "destroy", "gate"}

ASSUME ThreadsAssumption ==
  /\ Threads = Clients \cup Children /\ Clients \cap Children = {}
  /\ Evts = Children \cup {Gate} /\ Gate \notin Children
  /\ FuncCalls \subseteq Calls
  /\ Budgets \subseteq [Spendings -> Nat]
  /\ Cardinality(Ids) >= Cardinality(Children)

VARIABLES
  pc,       \* what a client is doing; how far a child has come
  who,      \* the child whose handle a client works on
  left,     \* what is left of the budget
  handle,   \* each arThread_t: "none", "used" or "freed"
  tid,      \* thd->thd
  os,       \* each pthread: "none", "live", "exited" or "reclaimed"
  detached  \* pthreads nobody can join any more

tvars == <<pc, who, left, handle, tid, os, detached>>
vars == <<kind, state, mtx, at, op, on, got, faults,
          pc, who, left, handle, tid, os, detached>>

Init ==
  /\ EventsInit
  /\ kind[Gate] # "none" /\ \A c \in Children : kind[c] = "none"
  /\ pc = [t \in Threads |-> IF t \in Clients THEN "idle" ELSE "unborn"]
  /\ who = [m \in Clients |-> NULL]
  /\ left \in Budgets
  /\ handle = [c \in Children |-> "none"]
  /\ tid = [c \in Children |-> NULL]
  /\ os = [c \in Children |-> "none"]
  /\ detached = {}

Goto(t, l) == pc' = [pc EXCEPT ![t] = l]

Idle(m) == Goto(m, "idle") /\ who' = [who EXCEPT ![m] = NULL]

Spend(what) == left[what] > 0 /\ left' = [left EXCEPT ![what] = @ - 1]

Unreclaimed(i) == {c \in Children : tid[c] = i /\ os[c] \in {"live", "exited"}}
-------------------------------------------------------------------------------
\* AR_CreateThread: the handle, its event, its thread.  Whatever fails, what
\* was made before is given back at FAILED_POINT.
NewHandle(m) == LET c == CHOOSE x \in Children : handle[x] = "none" IN
  /\ pc[m] = "idle" /\ Spend("create")
  /\ \E x \in Children : handle[x] = "none"
  /\ handle' = [handle EXCEPT ![c] = "used"]
  /\ who' = [who EXCEPT ![m] = c]
  /\ Goto(m, "new event")
  /\ UNCHANGED <<evars, tid, os, detached>>

NewDone(m) ==
  /\ pc[m] = "new event"
  /\ CreateEvent(who[m], "manual")
  /\ Goto(m, "spawn")
  /\ UNCHANGED <<who, left, handle, tid, os, detached>>

Spawn(m) ==
  /\ pc[m] = "spawn"
  /\ \E i \in Ids :
       /\ Unreclaimed(i) = {}
       /\ tid' = [tid EXCEPT ![who[m]] = i]
  /\ os' = [os EXCEPT ![who[m]] = "live"]
  /\ pc' = [pc EXCEPT ![m] = "idle", ![who[m]] = "func"]
  /\ who' = [who EXCEPT ![m] = NULL]
  /\ UNCHANGED <<evars, left, handle, detached>>

\* AR_CreateEvent or pthread_create fails.
CreateFails(m) ==
  /\ \/ pc[m] = "new event" /\ UNCHANGED evars
     \/ pc[m] = "spawn" /\ DestroyEvent(who[m])
  /\ handle' = [handle EXCEPT ![who[m]] = "freed"]
  /\ Idle(m)
  /\ UNCHANGED <<left, tid, os, detached>>
-------------------------------------------------------------------------------
\* The callers' contract: a handle is used between its creation and its
\* destruction, and destroyed once, when nobody else is joining it.
Usable(c) ==
  /\ handle[c] = "used" /\ os[c] # "none"
  /\ \A m \in Clients : who[m] = c => pc[m] = "join"

\* AR_JoinThread and AR_JoinThreadWithTimeout.
Join(m, c) ==
  /\ pc[m] = "idle" /\ Spend("join") /\ Usable(c)
  /\ \E call \in Waits : Enter(m, call, c)
  /\ who' = [who EXCEPT ![m] = c]
  /\ Goto(m, "join")
  /\ UNCHANGED <<handle, tid, os, detached>>

\* A call on the gate: AR_SetEvent, AR_ResetEvent, AR_WaitEvent, ...
UseGate(m) ==
  /\ pc[m] = "idle" /\ Spend("gate")
  /\ \E call \in Calls : Enter(m, call, Gate)
  /\ Goto(m, "gate")
  /\ UNCHANGED <<who, handle, tid, os, detached>>

Returned(m) ==
  /\ pc[m] \in {"join", "gate"} /\ TakeAnswer(m)
  /\ Idle(m)
  /\ UNCHANGED <<left, handle, tid, os, detached>>

\* Mutant: AR_DestroyThread trusts pthread_join alone.
DestroyWithoutDone(m, c) ==
  /\ pc[m] = "idle" /\ Spend("destroy") /\ Usable(c)
  /\ \A n \in Clients : who[n] # c
  /\ who' = [who EXCEPT ![m] = c]
  /\ Goto(m, "pthread_join")
  /\ UNCHANGED <<evars, handle, tid, os, detached>>

\* AR_DestroyThread: AR_JoinThread (its answer is ignored), pthread_join,
\* pthread_detach, AR_DestroyEvent, AR_DEL.
Destroy(m, c) ==
  /\ pc[m] = "idle" /\ Spend("destroy") /\ Usable(c)
  /\ \A n \in Clients : who[n] # c
  /\ Enter(m, "wait", c)
  /\ who' = [who EXCEPT ![m] = c]
  /\ Goto(m, "destroy")
  /\ UNCHANGED <<handle, tid, os, detached>>

\* Mutant: AR_DestroyThread gives the handle back once `done` has been waited
\* for; what pthread_join then reads from it is no identifier.
FreesHandleFirst(m) ==
  /\ pc[m] = "destroy" /\ TakeAnswer(m)
  /\ handle' = [handle EXCEPT ![who[m]] = "freed"]
  /\ tid' = [tid EXCEPT ![who[m]] = "overwritten"]
  /\ Goto(m, "pthread_join")
  /\ UNCHANGED <<who, left, os, detached>>

DoneWaited(m) ==
  /\ pc[m] = "destroy" /\ TakeAnswer(m)
  /\ Goto(m, "pthread_join")
  /\ UNCHANGED <<who, left, handle, tid, os, detached>>

\* Mutant: AR_DestroyThread takes AR_JoinThread for enough and only detaches.
NoPthreadJoin(m) ==
  /\ pc[m] = "pthread_join"
  /\ Goto(m, "pthread_detach")
  /\ UNCHANGED <<evars, who, left, handle, tid, os, detached>>

\* pthread_join: waits for the thread that has the identifier now, and
\* reports an error when there is none or it is detached.
PthreadJoin(m) ==
  /\ pc[m] = "pthread_join"
  /\ LET holder == Unreclaimed(tid[who[m]]) \ detached
     IN \/ holder = {} /\ UNCHANGED os
        \/ \E c \in holder : /\ os[c] = "exited"
                             /\ os' = [os EXCEPT ![c] = "reclaimed"]
  /\ Goto(m, "pthread_detach")
  /\ UNCHANGED <<evars, who, left, handle, tid, detached>>

\* pthread_detach of the same identifier, whoever has it by now.
PthreadDetach(m) ==
  /\ pc[m] = "pthread_detach"
  /\ LET holder == Unreclaimed(tid[who[m]])
     IN /\ detached' = detached \cup holder
        /\ os' = [c \in Children |-> IF c \in holder /\ os[c] = "exited"
                                     THEN "reclaimed" ELSE os[c]]
  /\ Goto(m, "free")
  /\ UNCHANGED <<evars, who, left, handle, tid>>

FreeHandle(m) ==
  /\ pc[m] = "free"
  /\ DestroyEvent(who[m])
  /\ handle' = [handle EXCEPT ![who[m]] = "freed"]
  /\ Idle(m)
  /\ UNCHANGED <<left, tid, os, detached>>
-------------------------------------------------------------------------------
\* __entry: the function, AR_SetEvent(thd->done), the end of the thread.  The
\* function makes one call on the gate or none.
Func(c) ==
  /\ pc[c] = "func"
  /\ \/ Spend("gate") /\ (\E call \in FuncCalls : Enter(c, call, Gate)) /\ Goto(c, "in func")
     \/ UNCHANGED <<evars, left>> /\ Goto(c, "returned")
  /\ UNCHANGED <<who, handle, tid, os, detached>>

FuncReturns(c) ==
  /\ pc[c] = "in func" /\ TakeAnswer(c)
  /\ Goto(c, "returned")
  /\ UNCHANGED <<who, left, handle, tid, os, detached>>

SetDone(c) ==
  /\ pc[c] = "returned"
  /\ Enter(c, "set", c)
  /\ Goto(c, "signal")
  /\ UNCHANGED <<who, left, handle, tid, os, detached>>

Exit(c) ==
  /\ pc[c] = "signal" /\ TakeAnswer(c)
  /\ os' = [os EXCEPT ![c] = IF c \in detached THEN "reclaimed" ELSE "exited"]
  /\ Goto(c, "gone")
  /\ UNCHANGED <<who, left, handle, tid, detached>>
-------------------------------------------------------------------------------
Create(m) == NewHandle(m) \/ NewDone(m) \/ Spawn(m) \/ CreateFails(m)

Finish(m) ==
  \/ Returned(m) \/ DoneWaited(m) \/ PthreadJoin(m) \/ PthreadDetach(m) \/ FreeHandle(m)

Next ==
  \/ \E t \in Threads : EventStep(t) /\ UNCHANGED tvars
  \/ \E m \in Clients :
       \/ Create(m) \/ UseGate(m) \/ Finish(m)
       \/ \E c \in Children : Join(m, c) \/ Destroy(m, c)
  \/ \E c \in Children : Func(c) \/ FuncReturns(c) \/ SetDone(c) \/ Exit(c)

Spec == Init /\ [][Next]_vars

\* A thread that can run does: the scheduler is fair to every thread, and a
\* mutex nobody keeps is got in the end (each thread makes finitely many calls).
Fairness ==
  /\ \A t \in Threads : WF_vars(Runs(t) /\ UNCHANGED tvars)
  /\ \A m \in Clients : WF_vars(Finish(m))
  /\ \A c \in Children : WF_vars(SetDone(c) \/ Exit(c))

FairSpec == Spec /\ Fairness
-------------------------------------------------------------------------------
TypeOK ==
  /\ EventsTypeOK
  /\ pc \in [Threads -> {"idle", "new event", "spawn", "join", "gate", "destroy",
                         "pthread_join", "pthread_detach", "free",
                         "unborn", "func", "in func", "returned", "signal", "gone"}]
  /\ who \in [Clients -> Children \cup {NULL}]
  /\ left \in [Spendings -> Nat]
  /\ handle \in [Children -> {"none", "used", "freed"}]
  /\ tid \in [Children -> Ids \cup {NULL}]
  /\ os \in [Children -> {"none", "live", "exited", "reclaimed"}]
  /\ detached \subseteq Children

\* AR_JoinThread answers AR_S_YES only when the thread's function has returned
\* and the thread has left its handle's event for good.
JoinedHasRun ==
  \A m \in Clients :
    (pc[m] \in {"join", "destroy"} /\ got[m] = "yes") =>
      /\ pc[who[m]] \in {"signal", "gone"}
      /\ at[who[m]] = "out"

\* Until it has set its `done` a thread has a handle to read it from, and an
\* event goes only when no thread is inside a call on it: AR_JoinThread sees to
\* that also when the pthread_join after it misses the thread.
HandleOutlivesThread ==
  \A c \in Children :
    /\ InUse(c) => kind[c] # "none"
    /\ pc[c] \in {"func", "in func", "returned"} => handle[c] = "used" /\ kind[c] # "none"

\* A thread hit by the pthread_detach of another handle, whose thread had the
\* same identifier and has been reclaimed.  It has set its `done` and leaves
\* __entry, and its exit reclaims it.
DetachedByMistake(c) ==
  /\ pc[c] = "signal" /\ os[c] = "live" /\ c \in detached
  /\ \E d \in Children \ {c} : tid[d] = tid[c] /\ os[d] = "reclaimed"

\* AR_CreateThread and AR_DestroyThread keep handle, event and thread together,
\* also when a creation fails half way: when no client is creating it, a handle
\* in use has its event and its thread; a handle that is not in use has no
\* event; and a freed one leaves no thread behind that has yet to be joined.
\* Its thread has been reclaimed, or was detached by mistake before
\* pthread_join could find it: that one may still be running its last step.
NothingLeftBehind ==
  \A c \in Children :
    (\A m \in Clients : who[m] = c => pc[m] \notin {"new event", "spawn"}) =>
      /\ (handle[c] = "used") = (kind[c] # "none")
      /\ handle[c] = "used" => os[c] # "none"
      /\ handle[c] = "freed" => os[c] \in {"none", "reclaimed"} \/ DetachedByMistake(c)

\* Every call on an event takes effect in one step (see SignalEvent).
ImplementsSignalEvent == Signals!SSpec

\* A join of a thread that has set its `done` returns.
JoinEnds ==
  \A m \in Clients, c \in Children :
    (pc[m] = "join" /\ who[m] = c /\ state[c]) ~> pc[m] # "join"

\* "If you join after the success of this function call is actually redundant,
\* so returns 3 it's not matter, the resources occupied by thread has been
\* released" (thread_posix.h:180): the pthread_detach that follows the
\* pthread_join finds no thread to detach.
DetachIsRedundant == detached = {}
===============================================================================
