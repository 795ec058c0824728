-------------------------------- MODULE Events --------------------------------
(***************************************************************************)
(* arEvent_t of Arsenal/Common/thread_posix.h: a flag guarded by a pthread *)
(* mutex, with a condition variable its waiters sleep on.  A call is       *)
(* entered, takes the mutex, reads or writes the flag, and lets the mutex  *)
(* go; a waiter that finds the flag lowered gives the mutex up and sleeps  *)
(* in one step, and takes the mutex again before it looks a second time.   *)
(* A waiter may wake for no reason and a timed one at its deadline, at any *)
(* moment, also when the flag has just been raised.                        *)
(*                                                                         *)
(* This module holds the calls; the modules that extend it say who makes   *)
(* them.  AR_TryWaitEvent is a timed wait with a deadline that has passed. *)
(***************************************************************************)
EXTENDS Naturals

CONSTANTS
  Threads,  \* threads of the process
  Evts,     \* heap blocks an arEvent_t can occupy
  MayFail,  \* pthread calls of which one fails, once: <<"lock", e>>,
            \* <<"broadcast", e>>, or <<"wake", e>> for a spurious wake-up
  NULL

ASSUME EventsAssumption ==
  /\ MayFail \subseteq {"lock", "broadcast", "wake"} \X Evts
  /\ NULL \notin Threads \cup Evts

VARIABLES
  kind,   \* is_auto_reset of each event: "auto" or "manual"; "none": no event
  state,  \* evt->state
  mtx,    \* the thread that holds evt->mtx, or NULL
  at,     \* where a thread is in its call: "out" when in none
  op,     \* its call, "none" when the answer has been taken
  on,     \* the event of that call, or NULL
  got,    \* its answer; "timeout" also stands for rc = ETIMEDOUT
  faults  \* history: the pthread calls that failed, <<call, event>>

evars == <<kind, state, mtx, at, op, on, got, faults>>

Calls == {"set", "reset", "wait", "timedwait"}
Waits == {"wait", "timedwait"}

EventsInit ==
  /\ kind \in [Evts -> {"none", "auto", "manual"}]
  /\ state = [e \in Evts |-> FALSE]
  /\ mtx = [e \in Evts |-> NULL]
  /\ at = [t \in Threads |-> "out"]
  /\ op = [t \in Threads |-> "none"]
  /\ on = [t \in Threads |-> NULL]
  /\ got = [t \in Threads |-> "none"]
  /\ faults = {}

Fault(call, e) ==
  /\ <<call, e>> \in MayFail /\ faults = {}
  /\ faults' = {<<call, e>>}

Asleep(e) == {t \in Threads : at[t] = "asleep" /\ on[t] = e}

Enter(t, call, e) ==
  /\ at[t] = "out" /\ op[t] = "none" /\ kind[e] # "none"
  /\ at' = [at EXCEPT ![t] = "lock"]
  /\ op' = [op EXCEPT ![t] = call]
  /\ on' = [on EXCEPT ![t] = e]
  /\ UNCHANGED <<kind, state, mtx, got, faults>>

\* The caller takes the answer of a call that has returned.
TakeAnswer(t) ==
  /\ at[t] = "out" /\ op[t] # "none"
  /\ op' = [op EXCEPT ![t] = "none"]
  /\ on' = [on EXCEPT ![t] = NULL]
  /\ got' = [got EXCEPT ![t] = "none"]
  /\ UNCHANGED <<kind, state, mtx, at, faults>>

\* pthread_mutex_lock, and the end of pthread_cond_wait.
Acquire(t) ==
  /\ at[t] \in {"lock", "relock"} /\ mtx[on[t]] = NULL
  /\ mtx' = [mtx EXCEPT ![on[t]] = t]
  /\ at' = [at EXCEPT ![t] = "locked"]
  /\ UNCHANGED <<kind, state, op, on, got, faults>>

LockFails(t) ==
  /\ at[t] = "lock" /\ Fault("lock", on[t])
  /\ at' = [at EXCEPT ![t] = "out"]
  /\ got' = [got EXCEPT ![t] = "error"]
  /\ UNCHANGED <<kind, state, mtx, op, on>>

\* The call is over: answer o, the flag left at b, the mutex released.
Leave(t, o, b) ==
  /\ state' = [state EXCEPT ![on[t]] = b]
  /\ mtx' = [mtx EXCEPT ![on[t]] = NULL]
  /\ got' = [got EXCEPT ![t] = o]
  /\ UNCHANGED <<kind, op, on>>

\* Mutant: AR_SetEvent wakes one waiter, and no more (pthread_cond_signal).
SetEventWakesOne(t) ==
  /\ at[t] = "locked" /\ op[t] = "set"
  /\ LET first == IF Asleep(on[t]) = {} THEN {} ELSE {CHOOSE u \in Asleep(on[t]) : TRUE}
     IN at' = [u \in Threads |-> CASE u = t -> "out"
                                   [] u \in first -> "relock"
                                   [] OTHER -> at[u]]
  /\ Leave(t, "yes", TRUE)
  /\ UNCHANGED faults

\* Mutant: AR_SetEvent does not wake anybody.
SetEventSilently(t) ==
  /\ at[t] = "locked" /\ op[t] = "set"
  /\ at' = [at EXCEPT ![t] = "out"]
  /\ Leave(t, "yes", TRUE)
  /\ UNCHANGED faults

\* AR_SetEvent under the mutex: evt->state = true, then the broadcast.
SetEvent(t) ==
  /\ at[t] = "locked" /\ op[t] = "set"
  /\ at' = [u \in Threads |-> CASE u = t -> "out"
                                [] u \in Asleep(on[t]) -> "relock"
                                [] OTHER -> at[u]]
  /\ Leave(t, "yes", TRUE)
  /\ UNCHANGED faults

\* The broadcast fails: its error is returned and the flag stays raised.
BroadcastFails(t) ==
  /\ at[t] = "locked" /\ op[t] = "set" /\ Fault("broadcast", on[t])
  /\ at' = [at EXCEPT ![t] = "out"]
  /\ Leave(t, "error", TRUE)

ResetEvent(t) ==
  /\ at[t] = "locked" /\ op[t] = "reset"
  /\ at' = [at EXCEPT ![t] = "out"]
  /\ Leave(t, "yes", FALSE)
  /\ UNCHANGED faults

\* Mutant: a timed wait whose deadline has passed answers AR_S_YES.
TestForgetsDeadline(t) ==
  /\ at[t] = "locked" /\ op[t] \in Waits
  /\ \/ /\ got[t] = "timeout" \/ state[on[t]]
        /\ at' = [at EXCEPT ![t] = "out"]
        /\ Leave(t, "yes", state[on[t]] /\ kind[on[t]] # "auto")
     \/ /\ got[t] = "none" /\ ~state[on[t]]
        /\ at' = [at EXCEPT ![t] = "lowered"]
        /\ UNCHANGED <<kind, state, mtx, op, on, got>>
  /\ UNCHANGED faults

\* Mutant: the flag of an auto-reset event is lowered whether or not the wait
\* got it before its deadline.
TestAlwaysLowers(t) ==
  /\ at[t] = "locked" /\ op[t] \in Waits
  /\ \/ /\ got[t] = "timeout" \/ state[on[t]]
        /\ at' = [at EXCEPT ![t] = "out"]
        /\ Leave(t, IF got[t] = "timeout" THEN "timeout" ELSE "yes",
                 state[on[t]] /\ kind[on[t]] # "auto")
     \/ /\ got[t] = "none" /\ ~state[on[t]]
        /\ at' = [at EXCEPT ![t] = "lowered"]
        /\ UNCHANGED <<kind, state, mtx, op, on, got>>
  /\ UNCHANGED faults

\* The test of both waits' loops.  A wait that finds the flag raised takes it
\* with it if the event is auto-reset; after ETIMEDOUT the loop is left without
\* another look at the flag.
Test(t) ==
  /\ at[t] = "locked" /\ op[t] \in Waits
  /\ \/ /\ got[t] = "none" /\ state[on[t]]
        /\ at' = [at EXCEPT ![t] = "out"]
        /\ Leave(t, "yes", kind[on[t]] # "auto")
     \/ /\ got[t] = "none" /\ ~state[on[t]]
        /\ at' = [at EXCEPT ![t] = "lowered"]
        /\ UNCHANGED <<kind, state, mtx, op, on, got>>
     \/ /\ got[t] = "timeout"
        /\ at' = [at EXCEPT ![t] = "out"]
        /\ Leave(t, "timeout", state[on[t]])
  /\ UNCHANGED faults

\* pthread_cond_wait and pthread_cond_timedwait: release and sleep in one step.
Sleep(t) ==
  /\ at[t] = "lowered"
  /\ mtx' = [mtx EXCEPT ![on[t]] = NULL]
  /\ at' = [at EXCEPT ![t] = "asleep"]
  /\ UNCHANGED <<kind, state, op, on, got, faults>>

SpuriousWake(t) ==
  /\ at[t] = "asleep" /\ Fault("wake", on[t])
  /\ at' = [at EXCEPT ![t] = "relock"]
  /\ UNCHANGED <<kind, state, mtx, op, on, got>>

TimedOut(t) ==
  /\ at[t] = "asleep" /\ op[t] = "timedwait"
  /\ at' = [at EXCEPT ![t] = "relock"]
  /\ got' = [got EXCEPT ![t] = "timeout"]
  /\ UNCHANGED <<kind, state, mtx, op, on, faults>>

\* The step of a call that is the thread's own and cannot fail.
Runs(t) == Acquire(t) \/ SetEvent(t) \/ ResetEvent(t) \/ Test(t) \/ Sleep(t)

EventStep(t) ==
  Runs(t) \/ LockFails(t) \/ BroadcastFails(t) \/ SpuriousWake(t) \/ TimedOut(t)

CreateEvent(e, k) ==
  /\ kind[e] = "none"
  /\ kind' = [kind EXCEPT ![e] = k]
  /\ state' = [state EXCEPT ![e] = FALSE]
  /\ mtx' = [mtx EXCEPT ![e] = NULL]
  /\ UNCHANGED <<at, op, on, got, faults>>

\* A thread inside a call on an event reads and writes its memory.
InUse(e) == \E t \in Threads : at[t] # "out" /\ on[t] = e

DestroyEvent(e) ==
  /\ kind[e] # "none"
  /\ kind' = [kind EXCEPT ![e] = "none"]
  /\ UNCHANGED <<state, mtx, at, op, on, got, faults>>

\* Threads that keep the contract of these calls: an event is used while it
\* exists and destroyed when no call is using it.
EventsNext ==
  \/ \E t \in Threads : \/ EventStep(t) \/ TakeAnswer(t)
                       \/ \E call \in Calls, e \in Evts : Enter(t, call, e)
  \/ \E e \in Evts : \/ \E k \in {"auto", "manual"} : CreateEvent(e, k)
                     \/ ~InUse(e) /\ DestroyEvent(e)

EventsSpec == EventsInit /\ [][EventsNext]_evars
-------------------------------------------------------------------------------
EventsTypeOK ==
  /\ kind \in [Evts -> {"none", "auto", "manual"}]
  /\ state \in [Evts -> BOOLEAN]
  /\ mtx \in [Evts -> Threads \cup {NULL}]
  /\ at \in [Threads -> {"out", "lock", "relock", "locked", "lowered", "asleep"}]
  /\ op \in [Threads -> Calls \cup {"none"}]
  /\ on \in [Threads -> Evts \cup {NULL}]
  /\ got \in [Threads -> {"none", "yes", "timeout", "error"}]
  /\ faults \subseteq MayFail

\* No wake-up is lost (AR_SetEvent, AR_WaitEvent): nobody sleeps, or is about
\* to sleep, on an event that is signalled, unless the very broadcast that
\* should have woken it failed.
NoLostWakeup ==
  \A t \in Threads :
    (at[t] \in {"lowered", "asleep"} /\ state[on[t]]) => <<"broadcast", on[t]>> \in faults

\* The detailed event implements the abstract one.
Signals == INSTANCE SignalEvent WITH
  mode <- kind, signal <- state, pending <- op, target <- on, outcome <- got
===============================================================================
