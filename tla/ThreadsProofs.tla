----------------------------- MODULE ThreadsProofs -----------------------------
(* What the calls on events keep, for any set of threads and events and any   *)
(* single failure, when the threads keep the contract that EventsNext states: *)
(* no wake-up is lost, and the calls implement those of SignalEvent.          *)
(*                                                                            *)
(* Then the clients of Threads, which keep that contract, for any clients,    *)
(* children, identifiers and budgets: so no wake-up is lost, every call on an *)
(* event takes effect in one step, joins tell the truth, no handle goes before *)
(* its thread has done with it, and none leaves a thread behind.              *)
EXTENDS Threads, TLAPS

-------------------------------------------------------------------------------
(* Events, whoever calls them.  No assumption on the threads of Threads is    *)
(* cited here.                                                                *)


\* How far a call has come, and what it has answered by then.
CallOK(t) ==
  /\ op[t] = "none" <=> on[t] = NULL
  /\ op[t] = "none" => at[t] = "out" /\ got[t] = "none"
  /\ op[t] # "none" /\ at[t] = "out" => got[t] # "none"
  /\ at[t] \in {"relock", "locked"} => got[t] \in {"none", "timeout"}
  /\ at[t] \in {"lock", "lowered", "asleep"} => got[t] = "none"
  /\ at[t] \in {"lowered", "asleep"} => op[t] \in Waits
  /\ got[t] = "timeout" => op[t] = "timedwait"

CallsOK == \A t \in Threads : CallOK(t)

\* A thread between taking and releasing a mutex has it.
MutexHeld == \A t \in Threads : at[t] \in {"locked", "lowered"} => mtx[on[t]] = t

\* A call uses an event that exists.
EventsLive == \A t \in Threads : at[t] # "out" => kind[on[t]] # "none"

EInv == EventsTypeOK /\ CallsOK /\ MutexHeld /\ EventsLive /\ NoLostWakeup

LEMMA EventsInitOK == EventsInit => EInv
BY EventsAssumption
   DEF EventsInit, EInv, EventsTypeOK, CallsOK, CallOK, MutexHeld, EventsLive,
       NoLostWakeup, Waits, Calls

\* The event of a call.
LEMMA OnEvent ==
  ASSUME EInv, NEW t \in Threads, at[t] # "out"
  PROVE  on[t] \in Evts /\ op[t] \in Calls /\ op[t] # "none"
BY DEF EInv, EventsTypeOK, CallsOK, CallOK, Calls

LEMMA EnterOK ==
  ASSUME EInv, NEW t \in Threads, NEW call \in Calls, NEW e \in Evts, Enter(t, call, e)
  PROVE  EInv'
<1>1. /\ at[t] = "out" /\ op[t] = "none" /\ got[t] = "none" /\ kind[e] # "none"
      /\ \A u \in Threads : /\ at'[u] = IF u = t THEN "lock" ELSE at[u]
                            /\ op'[u] = IF u = t THEN call ELSE op[u]
                            /\ on'[u] = IF u = t THEN e ELSE on[u]
      /\ UNCHANGED <<kind, state, mtx, got, faults>>
  BY DEF Enter, EInv, EventsTypeOK, CallsOK, CallOK
<1>2. EventsTypeOK'
  BY DEF Enter, EInv, EventsTypeOK
<1>3. CallsOK'
  BY <1>1, EventsAssumption DEF EInv, CallsOK, CallOK, Calls, Waits
<1>4. MutexHeld' /\ EventsLive' /\ NoLostWakeup'
  BY <1>1 DEF EInv, MutexHeld, EventsLive, NoLostWakeup
<1>5. QED
  BY <1>2, <1>3, <1>4 DEF EInv

LEMMA TakeAnswerOK ==
  ASSUME EInv, NEW t \in Threads, TakeAnswer(t)
  PROVE  EInv'
<1>1. /\ at[t] = "out" /\ op[t] # "none"
      /\ \A u \in Threads : /\ op'[u] = IF u = t THEN "none" ELSE op[u]
                            /\ on'[u] = IF u = t THEN NULL ELSE on[u]
                            /\ got'[u] = IF u = t THEN "none" ELSE got[u]
      /\ UNCHANGED <<kind, state, mtx, at, faults>>
  BY DEF TakeAnswer, EInv, EventsTypeOK
<1>2. EventsTypeOK'
  BY DEF TakeAnswer, EInv, EventsTypeOK
<1>3. CallsOK'
  BY <1>1 DEF EInv, CallsOK, CallOK, Waits
<1>4. MutexHeld' /\ EventsLive' /\ NoLostWakeup'
  BY <1>1 DEF EInv, MutexHeld, EventsLive, NoLostWakeup
<1>5. QED
  BY <1>2, <1>3, <1>4 DEF EInv

LEMMA AcquireOK ==
  ASSUME EInv, NEW t \in Threads, Acquire(t)
  PROVE  EInv'
<1>1. /\ at[t] \in {"lock", "relock"} /\ mtx[on[t]] = NULL
      /\ \A u \in Threads : at'[u] = IF u = t THEN "locked" ELSE at[u]
      /\ \A e \in Evts : mtx'[e] = IF e = on[t] THEN t ELSE mtx[e]
      /\ UNCHANGED <<kind, state, op, on, got, faults>>
  BY DEF Acquire, EInv, EventsTypeOK
<1>2. EventsTypeOK'
  BY DEF Acquire, EInv, EventsTypeOK
<1>3. CallsOK'
  BY <1>1 DEF EInv, CallsOK, CallOK, Waits
<1>4. MutexHeld'
  BY <1>1, OnEvent, EventsAssumption DEF EInv, MutexHeld
<1>5. EventsLive' /\ NoLostWakeup'
  BY <1>1 DEF EInv, EventsLive, NoLostWakeup
<1>6. QED
  BY <1>2, <1>3, <1>4, <1>5 DEF EInv

LEMMA LockFailsOK ==
  ASSUME EInv, NEW t \in Threads, LockFails(t)
  PROVE  EInv'
<1>1. /\ at[t] = "lock" /\ faults = {} /\ faults' \subseteq MayFail
      /\ \A u \in Threads : /\ at'[u] = IF u = t THEN "out" ELSE at[u]
                            /\ got'[u] = IF u = t THEN "error" ELSE got[u]
      /\ UNCHANGED <<kind, state, mtx, op, on>>
  BY DEF LockFails, Fault, EInv, EventsTypeOK
<1>2. EventsTypeOK'
  BY <1>1 DEF LockFails, EInv, EventsTypeOK
<1>3. CallsOK'
  BY <1>1, OnEvent DEF EInv, CallsOK, CallOK, Waits
<1>4. MutexHeld' /\ EventsLive' /\ NoLostWakeup'
  BY <1>1 DEF EInv, MutexHeld, EventsLive, NoLostWakeup
<1>5. QED
  BY <1>2, <1>3, <1>4 DEF EInv

\* A call that leaves: the mutex goes, the others keep theirs.
LEMMA LeaveOK ==
  ASSUME EInv, NEW t \in Threads, at[t] = "locked",
         NEW o \in {"yes", "timeout", "error"}, NEW b \in BOOLEAN,
         o = "timeout" => op[t] = "timedwait",
         Leave(t, o, b), faults' \subseteq MayFail, faults \subseteq faults',
         at' \in [Threads -> {"out", "lock", "relock", "locked", "lowered", "asleep"}],
         \A u \in Threads : \/ at'[u] = (IF u = t THEN "out" ELSE at[u])
                            \/ u # t /\ at[u] = "asleep" /\ at'[u] = "relock",
         b => \/ state[on[t]]
              \/ \A u \in Threads : at'[u] = "asleep" => on[u] # on[t]
              \/ <<"broadcast", on[t]>> \in faults'
  PROVE  EInv'
<1>1. on[t] \in Evts /\ op[t] \in Calls /\ op[t] # "none"
  BY OnEvent
<1>2. /\ \A u \in Threads : got'[u] = IF u = t THEN o ELSE got[u]
      /\ \A e \in Evts : /\ mtx'[e] = IF e = on[t] THEN NULL ELSE mtx[e]
                         /\ state'[e] = IF e = on[t] THEN b ELSE state[e]
      /\ UNCHANGED <<kind, op, on>>
  BY <1>1 DEF Leave, EInv, EventsTypeOK
<1>3. EventsTypeOK'
  BY DEF Leave, EInv, EventsTypeOK
<1>4. CallsOK'
  BY <1>1, <1>2 DEF EInv, CallsOK, CallOK, Waits
<1>5. MutexHeld' /\ EventsLive'
  BY <1>2, OnEvent DEF EInv, MutexHeld, EventsLive
<1>6. NoLostWakeup'
  <2> SUFFICES ASSUME NEW u \in Threads, at'[u] \in {"lowered", "asleep"}, state'[on[u]]
               PROVE  <<"broadcast", on[u]>> \in faults'
    BY <1>2 DEF NoLostWakeup
  <2>1. u # t /\ at[u] = at'[u] /\ on[u] \in Evts
    BY OnEvent
  <2>2. CASE on[u] = on[t]
    <3>1. at[u] = "asleep"
      BY <2>1, <2>2 DEF EInv, MutexHeld
    <3>2. QED
      BY <2>1, <2>2, <3>1, <1>2 DEF EInv, NoLostWakeup
  <2>3. CASE on[u] # on[t]
    BY <2>1, <2>3, <1>2 DEF EInv, NoLostWakeup
  <2>4. QED
    BY <2>2, <2>3
<1>7. QED
  BY <1>3, <1>4, <1>5, <1>6 DEF EInv

LEMMA SetEventOK ==
  ASSUME EInv, NEW t \in Threads, SetEvent(t)
  PROVE  EInv'
<1>1. /\ at[t] = "locked" /\ Leave(t, "yes", TRUE) /\ UNCHANGED <<on, faults>>
      /\ at' = [u \in Threads |-> CASE u = t -> "out"
                                    [] u \in Asleep(on[t]) -> "relock"
                                    [] OTHER -> at[u]]
  BY DEF SetEvent, Leave
<1>2. \A u \in Threads :
        at'[u] = IF u = t THEN "out"
                 ELSE IF at[u] = "asleep" /\ on[u] = on[t] THEN "relock" ELSE at[u]
  BY <1>1 DEF Asleep
<1>3. at' \in [Threads -> {"out", "lock", "relock", "locked", "lowered", "asleep"}]
  BY <1>1, <1>2 DEF EInv, EventsTypeOK
<1>4. faults' \subseteq MayFail /\ faults \subseteq faults'
  BY <1>1 DEF EInv, EventsTypeOK
<1>5. QED
  BY <1>1, <1>2, <1>3, <1>4, LeaveOK

LEMMA BroadcastFailsOK ==
  ASSUME EInv, NEW t \in Threads, BroadcastFails(t)
  PROVE  EInv'
<1>1. /\ at[t] = "locked" /\ Leave(t, "error", TRUE)
      /\ <<"broadcast", on[t]>> \in faults'
      /\ faults' \subseteq MayFail /\ faults \subseteq faults'
      /\ \A u \in Threads : at'[u] = IF u = t THEN "out" ELSE at[u]
      /\ at' \in [Threads -> {"out", "lock", "relock", "locked", "lowered", "asleep"}]
  BY DEF BroadcastFails, Fault, EInv, EventsTypeOK
<1>2. QED
  BY <1>1, LeaveOK

LEMMA ResetEventOK ==
  ASSUME EInv, NEW t \in Threads, ResetEvent(t)
  PROVE  EInv'
<1>1. /\ at[t] = "locked" /\ Leave(t, "yes", FALSE)
      /\ faults' \subseteq MayFail /\ faults \subseteq faults'
      /\ \A u \in Threads : at'[u] = IF u = t THEN "out" ELSE at[u]
      /\ at' \in [Threads -> {"out", "lock", "relock", "locked", "lowered", "asleep"}]
  BY DEF ResetEvent, EInv, EventsTypeOK
<1>2. QED
  BY <1>1, LeaveOK

LEMMA TestOK ==
  ASSUME EInv, NEW t \in Threads, Test(t)
  PROVE  EInv'
<1>1. /\ at[t] = "locked" /\ on[t] \in Evts /\ state[on[t]] \in BOOLEAN
      /\ faults' \subseteq MayFail /\ faults \subseteq faults'
  BY OnEvent DEF Test, EInv, EventsTypeOK
<1>2. ASSUME NEW o \in {"yes", "timeout"}, NEW b \in BOOLEAN, Leave(t, o, b),
             o = "timeout" => got[t] = "timeout", b => state[on[t]],
             at' = [at EXCEPT ![t] = "out"]
      PROVE  EInv'
  <2>1. /\ \A u \in Threads : at'[u] = IF u = t THEN "out" ELSE at[u]
        /\ at' \in [Threads -> {"out", "lock", "relock", "locked", "lowered", "asleep"}]
    BY <1>2 DEF EInv, EventsTypeOK
  <2>2. o = "timeout" => op[t] = "timedwait"
    BY <1>2 DEF EInv, CallsOK, CallOK
  <2>3. /\ o \in {"yes", "timeout", "error"} /\ Leave(t, o, b)
        /\ b => \/ state[on[t]]
                \/ \A u \in Threads : at'[u] = "asleep" => on[u] # on[t]
                \/ <<"broadcast", on[t]>> \in faults'
    BY <1>2
  <2>4. \A u \in Threads :
          \/ at'[u] = (IF u = t THEN "out" ELSE at[u])
          \/ u # t /\ at[u] = "asleep" /\ at'[u] = "relock"
    BY <2>1
  <2>5. at[t] = "locked" /\ faults' \subseteq MayFail /\ faults \subseteq faults'
    BY <1>1
  <2>6. at' \in [Threads -> {"out", "lock", "relock", "locked", "lowered", "asleep"}]
    BY <2>1
  <2>7. QED
    BY <2>2, <2>3, <2>4, <2>5, <2>6, LeaveOK
<1>3. CASE got[t] = "none" /\ state[on[t]]
  <2>1. Leave(t, "yes", kind[on[t]] # "auto") /\ at' = [at EXCEPT ![t] = "out"]
    BY <1>3 DEF Test
  <2>2. QED
    BY <2>1, <1>2, <1>3
<1>4. CASE got[t] = "timeout"
  <2>1. Leave(t, "timeout", state[on[t]]) /\ at' = [at EXCEPT ![t] = "out"]
    BY <1>4 DEF Test
  <2>2. QED
    BY <2>1, <1>1, <1>2, <1>4
<1>5. CASE got[t] = "none" /\ ~state[on[t]]
  <2>1. /\ op[t] \in Waits
        /\ \A u \in Threads : at'[u] = IF u = t THEN "lowered" ELSE at[u]
        /\ UNCHANGED <<kind, state, mtx, op, on, got, faults>>
    BY <1>5 DEF Test, EInv, EventsTypeOK
  <2>2. EventsTypeOK'
    BY <1>5 DEF Test, EInv, EventsTypeOK
  <2>3. CallsOK'
    BY <2>1, <1>1, <1>5 DEF EInv, CallsOK, CallOK, Waits
  <2>4. MutexHeld' /\ EventsLive' /\ NoLostWakeup'
    BY <2>1, <1>1, <1>5 DEF EInv, MutexHeld, EventsLive, NoLostWakeup
  <2>5. QED
    BY <2>2, <2>3, <2>4 DEF EInv
<1>6. QED
  BY <1>3, <1>4, <1>5 DEF Test

LEMMA SleepOK ==
  ASSUME EInv, NEW t \in Threads, Sleep(t)
  PROVE  EInv'
<1>1. /\ at[t] = "lowered" /\ mtx[on[t]] = t
      /\ \A u \in Threads : at'[u] = IF u = t THEN "asleep" ELSE at[u]
      /\ \A e \in Evts : mtx'[e] = IF e = on[t] THEN NULL ELSE mtx[e]
      /\ UNCHANGED <<kind, state, op, on, got, faults>>
  BY DEF Sleep, EInv, EventsTypeOK, MutexHeld
<1>2. EventsTypeOK'
  BY DEF Sleep, EInv, EventsTypeOK
<1>3. CallsOK'
  BY <1>1 DEF EInv, CallsOK, CallOK
<1>4. MutexHeld'
  BY <1>1, OnEvent DEF EInv, MutexHeld
<1>5. EventsLive' /\ NoLostWakeup'
  BY <1>1 DEF EInv, EventsLive, NoLostWakeup
<1>6. QED
  BY <1>2, <1>3, <1>4, <1>5 DEF EInv

LEMMA WakeOK ==
  ASSUME EInv, NEW t \in Threads, SpuriousWake(t) \/ TimedOut(t)
  PROVE  EInv'
<1>1. /\ at[t] = "asleep" /\ UNCHANGED <<kind, state, mtx, op, on>>
      /\ \A u \in Threads : at'[u] = IF u = t THEN "relock" ELSE at[u]
      /\ at' \in [Threads -> {"out", "lock", "relock", "locked", "lowered", "asleep"}]
  BY DEF SpuriousWake, TimedOut, EInv, EventsTypeOK
<1>2. /\ got' \in [Threads -> {"none", "yes", "timeout", "error"}]
      /\ \A u \in Threads : u # t => got'[u] = got[u]
      /\ got'[t] \in {"none", "timeout"} /\ (got'[t] = "timeout" => op[t] = "timedwait")
  BY DEF SpuriousWake, TimedOut, EInv, EventsTypeOK, CallsOK, CallOK
<1>3. faults' \subseteq MayFail /\ faults \subseteq faults'
  BY DEF SpuriousWake, TimedOut, Fault, EInv, EventsTypeOK
<1>4. EventsTypeOK'
  BY <1>1, <1>2, <1>3 DEF EInv, EventsTypeOK
<1>5. CallsOK'
  BY <1>1, <1>2 DEF EInv, CallsOK, CallOK, Waits
<1>6. MutexHeld' /\ EventsLive' /\ NoLostWakeup'
  BY <1>1, <1>3 DEF EInv, MutexHeld, EventsLive, NoLostWakeup
<1>7. QED
  BY <1>4, <1>5, <1>6 DEF EInv

LEMMA CreateEventOK ==
  ASSUME EInv, NEW e \in Evts, NEW k \in {"auto", "manual"}, CreateEvent(e, k)
  PROVE  EInv'
<1>1. /\ kind[e] = "none" /\ UNCHANGED <<at, op, on, got, faults>>
      /\ \A d \in Evts : /\ kind'[d] = IF d = e THEN k ELSE kind[d]
                         /\ state'[d] = IF d = e THEN FALSE ELSE state[d]
                         /\ mtx'[d] = IF d = e THEN NULL ELSE mtx[d]
  BY DEF CreateEvent, EInv, EventsTypeOK
<1>2. EventsTypeOK'
  BY DEF CreateEvent, EInv, EventsTypeOK
<1>3. CallsOK'
  BY <1>1 DEF EInv, CallsOK, CallOK
<1>4. MutexHeld' /\ EventsLive' /\ NoLostWakeup'
  BY <1>1, OnEvent DEF EInv, MutexHeld, EventsLive, NoLostWakeup
<1>5. QED
  BY <1>2, <1>3, <1>4 DEF EInv

LEMMA DestroyEventOK ==
  ASSUME EInv, NEW e \in Evts, ~InUse(e), DestroyEvent(e)
  PROVE  EInv'
<1>1. /\ UNCHANGED <<state, mtx, at, op, on, got, faults>>
      /\ \A d \in Evts : kind'[d] = IF d = e THEN "none" ELSE kind[d]
  BY DEF DestroyEvent, EInv, EventsTypeOK
<1>2. EventsTypeOK'
  BY DEF DestroyEvent, EInv, EventsTypeOK
<1>3. CallsOK' /\ MutexHeld' /\ NoLostWakeup'
  BY <1>1 DEF EInv, CallsOK, CallOK, MutexHeld, NoLostWakeup
<1>4. EventsLive'
  BY <1>1, OnEvent DEF EInv, EventsLive, InUse
<1>5. QED
  BY <1>2, <1>3, <1>4 DEF EInv

LEMMA EventsStepOK == EInv /\ [EventsNext]_evars => EInv'
<1> SUFFICES ASSUME EInv, [EventsNext]_evars PROVE EInv'
  OBVIOUS
<1>1. CASE UNCHANGED evars
  BY <1>1 DEF evars, EInv, EventsTypeOK, CallsOK, CallOK, MutexHeld, EventsLive, NoLostWakeup
<1>2. ASSUME NEW t \in Threads, EventStep(t) PROVE EInv'
  BY <1>2, AcquireOK, SetEventOK, ResetEventOK, TestOK, SleepOK, LockFailsOK,
     BroadcastFailsOK, WakeOK DEF EventStep, Runs
<1>3. QED
  BY <1>1, <1>2, EnterOK, TakeAnswerOK, CreateEventOK, DestroyEventOK DEF EventsNext

LEMMA EventsInvariant == EventsSpec => []EInv
BY EventsInitOK, EventsStepOK, PTL DEF EventsSpec

(* No wake-up is lost: AR_SetEvent and the loops of the waits, whoever calls   *)
(* them and in whatever order.                                                *)
THEOREM WakeupsKept == EventsSpec => []NoLostWakeup
<1>1. EInv => NoLostWakeup
  BY DEF EInv
<1>2. QED
  BY <1>1, EventsInvariant, PTL

-------------------------------------------------------------------------------
\* The steps of SignalEvent that a call's steps are.
LEMMA CallRefines ==
  ASSUME EInv, NEW t \in Threads, EventStep(t)
  PROVE  Signals!SNext \/ UNCHANGED Signals!svars
<1>1. CASE Acquire(t) \/ Sleep(t) \/ SpuriousWake(t)
  BY <1>1 DEF Acquire, Sleep, SpuriousWake, Signals!svars
<1>2. ASSUME op[t] # "none", got[t] = "none" PROVE Signals!Undecided(t)
  BY <1>2 DEF Signals!Undecided
<1>3. CASE LockFails(t)
  <2>1. Signals!Refuse(t)
    BY <1>2, <1>3, OnEvent DEF LockFails, EInv, CallsOK, CallOK, Signals!Refuse,
       Signals!Decide
  <2>2. QED
    BY <2>1 DEF Signals!SNext
<1>4. CASE SetEvent(t) \/ BroadcastFails(t)
  <2>1. got[t] = "none" /\ op[t] = "set"
    BY <1>4 DEF SetEvent, BroadcastFails, EInv, CallsOK, CallOK
  <2>2. Signals!Raise(t)
    BY <1>2, <1>4, <2>1 DEF SetEvent, BroadcastFails, Leave, Signals!Raise, Signals!Decide
  <2>3. QED
    BY <2>2 DEF Signals!SNext
<1>5. CASE ResetEvent(t)
  <2>1. got[t] = "none" /\ op[t] = "reset"
    BY <1>5 DEF ResetEvent, EInv, CallsOK, CallOK
  <2>2. Signals!Lower(t)
    BY <1>2, <1>5, <2>1 DEF ResetEvent, Leave, Signals!Lower, Signals!Decide
  <2>3. QED
    BY <2>2 DEF Signals!SNext
<1>6. CASE Test(t)
  <2>1. CASE got[t] = "none" /\ state[on[t]]
    <3>1. Signals!Pass(t)
      BY <1>2, <1>6, <2>1 DEF Test, Waits, Leave, Signals!Pass, Signals!Decide
    <3>2. QED
      BY <3>1 DEF Signals!SNext
  <2>2. CASE got[t] = "none" /\ ~state[on[t]]
    BY <1>6, <2>2 DEF Test, Signals!svars
  <2>3. CASE got[t] = "timeout"
    <3>1. Leave(t, "timeout", state[on[t]])
      BY <1>6, <2>3 DEF Test
    <3>2. state' = state /\ got' = got
      BY <2>3, <3>1 DEF Leave, EInv, EventsTypeOK
    <3>3. QED
      BY <3>1, <3>2 DEF Leave, Signals!svars
  <2>4. QED
    BY <1>6, <2>1, <2>2, <2>3 DEF Test
<1>7. CASE TimedOut(t)
  <2>1. got[t] = "none"
    BY <1>7 DEF TimedOut, EInv, CallsOK, CallOK
  <2>2. Signals!GiveUp(t)
    BY <1>2, <1>7, <2>1 DEF TimedOut, Signals!GiveUp, Signals!Decide
  <2>3. QED
    BY <2>2 DEF Signals!SNext
<1>8. QED
  BY <1>1, <1>3, <1>4, <1>5, <1>6, <1>7 DEF EventStep, Runs

LEMMA StepRefines ==
  ASSUME EInv, [EventsNext]_evars
  PROVE  [Signals!SNext]_(Signals!svars)
<1>1. CASE UNCHANGED evars
  BY <1>1 DEF evars, Signals!svars
<1>2. ASSUME NEW t \in Threads, NEW call \in Calls, NEW e \in Evts, Enter(t, call, e)
      PROVE  Signals!SNext
  <2>1. Signals!Ask(t, call, e)
    BY <1>2 DEF Enter, Signals!Ask
  <2>2. QED
    BY <2>1 DEF Calls, Signals!SNext
<1>3. ASSUME NEW t \in Threads, TakeAnswer(t) PROVE Signals!SNext
  <2>1. Signals!Return(t)
    BY <1>3 DEF TakeAnswer, EInv, CallsOK, CallOK, Signals!Return
  <2>2. QED
    BY <2>1 DEF Signals!SNext
<1>4. ASSUME NEW e \in Evts, NEW k \in {"auto", "manual"}, CreateEvent(e, k)
      PROVE  Signals!SNext
  <2>1. Signals!Make(e)
    BY <1>4 DEF CreateEvent, Signals!Make
  <2>2. QED
    BY <2>1 DEF Signals!SNext
<1>5. ASSUME NEW e \in Evts, ~InUse(e), DestroyEvent(e) PROVE Signals!SNext
  <2>1. \A t \in Threads : on[t] = e => got[t] # "none"
    BY <1>5, EventsAssumption DEF InUse, EInv, CallsOK, CallOK
  <2>2. Signals!Drop(e)
    BY <1>5, <2>1 DEF DestroyEvent, Signals!Drop
  <2>3. QED
    BY <2>2 DEF Signals!SNext
<1>6. QED
  BY <1>1, <1>2, <1>3, <1>4, <1>5, CallRefines DEF EventsNext

(* Every call on an event takes effect in one step: also a set that races a    *)
(* deadline, and waits that take one signal from each other.                  *)
THEOREM EventsRefinement == EventsSpec => Signals!SSpec
<1>1. EventsInit => Signals!SInit
  BY DEF EventsInit, Signals!SInit
<1>2. EInv /\ [EventsNext]_evars => [Signals!SNext]_(Signals!svars)
  BY StepRefines
<1>3. QED
  BY <1>1, <1>2, EventsInvariant, PTL DEF EventsSpec, Signals!SSpec

-------------------------------------------------------------------------------
(* Threads that create, join and destroy each other.                          *)


\* Assumed: the mutex of a `done` can be locked.  AR_DestroyThread ignores the
\* answer of AR_JoinThread, and relies on it.
DoneLocks == \A c \in Children : <<"lock", c>> \notin MayFail

Works == {"new event", "spawn", "join", "destroy", "pthread_join", "pthread_detach", "free"}
Owns  == Works \ {"join"}
Ends  == {"pthread_join", "pthread_detach", "free"}
Making(m) == pc[m] \in {"new event", "spawn"}

\* The thread has set its `done` and left the call.
Done(c) == pc[c] \in {"signal", "gone"} /\ at[c] = "out"

\* A client and the handle it works on: whoever makes or destroys it is alone.
ClientOK(m) ==
  /\ pc[m] \in Works \cup {"idle", "gate"}
  /\ pc[m] \in Works <=> who[m] # NULL
  /\ pc[m] \in {"join", "gate", "destroy"} <=> op[m] # "none"
  /\ pc[m] = "gate" => on[m] = Gate
  /\ pc[m] \in {"join", "destroy"} => on[m] = who[m] /\ op[m] \in Waits
  /\ pc[m] \in Works => handle[who[m]] = "used"
  /\ pc[m] \in Owns => \A n \in Clients : who[n] = who[m] => n = m
  /\ pc[m] \in {"join", "destroy"} /\ got[m] = "yes" => Done(who[m])
  /\ pc[m] = "destroy" => op[m] = "wait" /\ got[m] # "error"
  /\ pc[m] \in Ends => Done(who[m])
  /\ pc[m] = "new event" => kind[who[m]] = "none"
  /\ pc[m] = "spawn" => kind[who[m]] # "none"
  /\ Making(m) => pc[who[m]] = "unborn"

\* A child, its handle and its `done`.
ChildOK(c) ==
  /\ pc[c] \in {"unborn", "func", "in func", "returned", "signal", "gone"}
  /\ pc[c] \in {"in func", "signal"} <=> op[c] # "none"
  /\ pc[c] = "in func" => on[c] = Gate
  /\ pc[c] = "signal" => on[c] = c /\ op[c] = "set"
  /\ state[c] => Done(c)
  /\ kind[c] # "auto"
  /\ os[c] = "none" <=> pc[c] = "unborn"
  /\ handle[c] = "none" => pc[c] = "unborn"
  /\ handle[c] = "freed" => pc[c] = "unborn" \/ Done(c)
  /\ handle[c] # "used" => kind[c] = "none"
  /\ handle[c] = "used" /\ (\A m \in Clients : who[m] = c => ~Making(m)) =>
       kind[c] # "none" /\ pc[c] # "unborn"

ClientsOK  == \A m \in Clients : ClientOK(m)
ChildrenOK == \A c \in Children : ChildOK(c)

IInv == TypeOK /\ EInv /\ ClientsOK /\ ChildrenOK

\* Names of threads and events.
LEMMA Names ==
  /\ Clients \subseteq Threads /\ Children \subseteq Threads
  /\ Children \subseteq Evts /\ Gate \in Evts
  /\ \A c \in Children : c # NULL /\ c # Gate /\ c \notin Clients
  /\ Gate # NULL
BY ThreadsAssumption, EventsAssumption

LEMMA InitOK == Init => IInv
<1> SUFFICES ASSUME Init PROVE IInv
  OBVIOUS
<1>1. EInv
  BY EventsInitOK DEF Init
<1>2. TypeOK
  <2>1. left \in [Spendings -> Nat]
    BY ThreadsAssumption DEF Init
  <2>2. QED
    BY <1>1, <2>1, Names DEF Init, TypeOK, EInv
<1>3. ClientsOK /\ ChildrenOK
  BY Names DEF Init, EventsInit, ClientsOK, ClientOK, ChildrenOK, ChildOK, Making, Works, Owns, Ends
<1>4. QED
  BY <1>1, <1>2, <1>3 DEF IInv

\* What a step inside a call does to the rest.
LEMMA EventStepFacts ==
  ASSUME EInv, NEW t \in Threads, EventStep(t)
  PROVE  /\ at[t] # "out" /\ UNCHANGED <<kind, op, on>>
         /\ \A u \in Threads : at[u] = "out" => at'[u] = "out"
         /\ \A u \in Threads : u # t => got'[u] = got[u]
         /\ got'[t] = "yes" => got[t] = "yes" \/ op[t] \in {"set", "reset"} \/ state[on[t]]
         /\ got'[t] = "error" =>
              got[t] = "error" \/ op[t] = "set" \/ <<"lock", on[t]>> \in MayFail
         /\ \A e \in Evts : state'[e] /\ ~state[e] =>
              e = on[t] /\ op[t] = "set" /\ at'[t] = "out"
<1>1. on[t] \in Evts /\ at[t] # "out"
  BY OnEvent DEF EventStep, Runs, Acquire, SetEvent, ResetEvent, Test, Sleep, LockFails,
     BroadcastFails, SpuriousWake, TimedOut
<1>2. ASSUME NEW o, NEW b \in BOOLEAN, Leave(t, o, b)
      PROVE  /\ UNCHANGED <<kind, op, on>> /\ \A u \in Threads : u # t => got'[u] = got[u]
             /\ got'[t] = o /\ \A e \in Evts : state'[e] = IF e = on[t] THEN b ELSE state[e]
  BY <1>1, <1>2 DEF Leave, EInv, EventsTypeOK
<1>3. CASE Acquire(t) \/ Sleep(t) \/ SpuriousWake(t) \/ TimedOut(t)
  BY <1>3, <1>1 DEF Acquire, Sleep, SpuriousWake, TimedOut, EInv, EventsTypeOK
<1>4. CASE LockFails(t)
  <2>1. /\ <<"lock", on[t]>> \in MayFail /\ UNCHANGED <<kind, state, op, on>>
        /\ at' = [at EXCEPT ![t] = "out"] /\ got' = [got EXCEPT ![t] = "error"]
    BY <1>4 DEF LockFails, Fault
  <2>2. QED
    BY <1>1, <2>1 DEF EInv, EventsTypeOK
<1>5. CASE SetEvent(t) \/ BroadcastFails(t)
  <2>1. op[t] = "set" /\ at'[t] = "out" /\ \A u \in Threads : at[u] = "out" => at'[u] = "out"
    BY <1>5 DEF SetEvent, BroadcastFails, Asleep, EInv, EventsTypeOK
  <2>2. \E o \in {"yes", "error"} : Leave(t, o, TRUE)
    BY <1>5 DEF SetEvent, BroadcastFails
  <2>3. QED
    BY <1>1, <1>2, <2>1, <2>2
<1>6. CASE ResetEvent(t)
  <2>1. op[t] = "reset" /\ Leave(t, "yes", FALSE) /\ \A u \in Threads : at[u] = "out" => at'[u] = "out"
    BY <1>6 DEF ResetEvent, EInv, EventsTypeOK
  <2>2. \A e \in Evts : state'[e] => state[e]
    BY <1>2, <2>1
  <2>3. UNCHANGED <<kind, op, on>> /\ got'[t] = "yes" /\ \A u \in Threads : u # t => got'[u] = got[u]
    BY <1>2, <2>1
  <2>4. QED
    BY <1>1, <2>1, <2>2, <2>3
<1>7. CASE Test(t)
  <2>1. state[on[t]] \in BOOLEAN
    BY <1>1 DEF EInv, EventsTypeOK
  <2>2. \A u \in Threads : at[u] = "out" => at'[u] = "out"
    BY <1>7, <1>1 DEF Test, EInv, EventsTypeOK
  <2>3. \/ UNCHANGED <<kind, op, on, got, state>>
        \/ state[on[t]] /\ \E b \in BOOLEAN : Leave(t, "yes", b)
        \/ Leave(t, "timeout", state[on[t]])
    BY <1>7 DEF Test
  <2>4. QED
    BY <1>1, <1>2, <2>1, <2>2, <2>3
<1>8. QED
  BY <1>3, <1>4, <1>5, <1>6, <1>7 DEF EventStep, Runs

\* A call's steps do not disturb clients or children.
LEMMA EventStepOK ==
  ASSUME DoneLocks, IInv, NEW t \in Threads, EventStep(t), UNCHANGED tvars
  PROVE  IInv' /\ EventsNext
<1>1. EventsNext
  BY DEF EventsNext
<1>2. EInv'
  BY <1>1, EventsStepOK DEF IInv
<1>3. TypeOK'
  BY <1>2 DEF IInv, TypeOK, EInv, tvars
<1>4. /\ at[t] # "out" /\ UNCHANGED <<kind, op, on, pc, who, handle, os>>
      /\ \A u \in Threads : at[u] = "out" => at'[u] = "out"
      /\ \A u \in Threads : u # t => got'[u] = got[u]
      /\ got'[t] = "yes" => got[t] = "yes" \/ op[t] \in {"set", "reset"} \/ state[on[t]]
      /\ got'[t] = "error" =>
           got[t] = "error" \/ op[t] = "set" \/ <<"lock", on[t]>> \in MayFail
      /\ \A e \in Evts : state'[e] /\ ~state[e] =>
           e = on[t] /\ op[t] = "set" /\ at'[t] = "out"
  BY EventStepFacts DEF IInv, tvars
<1>5. \A c \in Children : Done(c) => Done(c)'
  BY <1>4, Names DEF Done
<1>6. ChildrenOK'
  <2> SUFFICES ASSUME NEW c \in Children PROVE ChildOK(c)'
    BY DEF ChildrenOK
  <2>1. state'[c] => Done(c)'
    <3> SUFFICES ASSUME state'[c], ~state[c] PROVE Done(c)'
      BY <1>5 DEF IInv, ChildrenOK, ChildOK
    <3>1. c = on[t] /\ op[t] = "set" /\ at'[t] = "out"
      BY <1>4, Names
    <3>2. t \notin Clients
      BY <3>1, Names DEF IInv, ClientsOK, ClientOK, Waits
    <3>3. t \in Children /\ ChildOK(t)
      BY <3>2, ThreadsAssumption DEF IInv, ChildrenOK
    <3>4. t = c /\ pc[t] = "signal"
      BY <3>1, <3>3, Names DEF ChildOK
    <3>5. QED
      BY <3>1, <3>4, <1>4 DEF Done
  <2>2. QED
    BY <2>1, <1>4, <1>5 DEF IInv, ChildrenOK, ChildOK, Making
<1>7. ClientsOK'
  <2> SUFFICES ASSUME NEW m \in Clients PROVE ClientOK(m)'
    BY DEF ClientsOK
  <2>1. ClientOK(m) /\ m \in Threads /\ (pc[m] \in Works => who[m] \in Children)
    <3>1. ClientOK(m) /\ who[m] \in Children \cup {NULL}
      BY DEF IInv, ClientsOK, TypeOK
    <3>2. pc[m] \in Works <=> who[m] # NULL
      BY <3>1 DEF ClientOK
    <3>3. QED
      BY <3>1, <3>2, Names
  <2>2. pc[m] \in {"join", "destroy"} /\ got'[m] = "yes" => Done(who[m])'
    <3> SUFFICES ASSUME pc[m] \in {"join", "destroy"}, got'[m] = "yes" PROVE Done(who[m])'
      OBVIOUS
    <3>1. on[m] = who[m] /\ op[m] \in Waits /\ who[m] \in Children
      BY <2>1 DEF ClientOK, Works
    <3>2. got[m] = "yes" \/ state[who[m]]
      BY <1>4, <2>1, <3>1 DEF Waits
    <3>3. Done(who[m])
      BY <2>1, <3>1, <3>2 DEF ClientOK, IInv, ChildrenOK, ChildOK
    <3>4. QED
      BY <1>4, <1>5, <3>1, <3>3 DEF Done
  <2>3. pc[m] = "destroy" => got'[m] # "error"
    <3> SUFFICES ASSUME pc[m] = "destroy" PROVE got'[m] # "error"
      OBVIOUS
    <3>1. on[m] \in Children /\ op[m] = "wait" /\ got[m] # "error"
      BY <2>1 DEF ClientOK, Works
    <3>2. QED
      BY <1>4, <2>1, <3>1 DEF DoneLocks
  <2>4. pc[m] \in Ends => Done(who[m])'
    BY <2>1, <1>4, <1>5 DEF ClientOK, Ends, Works, Done
  <2>5. QED
    BY <2>1, <2>2, <2>3, <2>4, <1>4 DEF ClientOK, Making
<1>8. QED
  BY <1>1, <1>2, <1>3, <1>6, <1>7 DEF IInv

-------------------------------------------------------------------------------
\* A client at work, and its handle.
LEMMA AtWork ==
  ASSUME IInv, NEW m \in Clients
  PROVE  /\ ClientOK(m) /\ m \in Threads /\ m \notin Children
         /\ who[m] \in Children \cup {NULL}
         /\ pc[m] \in Works => who[m] \in Children /\ ChildOK(who[m])
         /\ pc[m] \in Owns => \A n \in Clients \ {m} : who[n] # who[m]
<1>1. ClientOK(m) /\ who[m] \in Children \cup {NULL} /\ m \in Threads /\ m \notin Children
  BY Names DEF IInv, ClientsOK, TypeOK
<1>2. pc[m] \in Works => who[m] \in Children
  BY <1>1, Names DEF ClientOK
<1>3. pc[m] \in Owns => \A n \in Clients \ {m} : who[n] # who[m]
  BY <1>1 DEF ClientOK
<1>4. QED
  BY <1>1, <1>2, <1>3 DEF IInv, ChildrenOK

\* Nobody is inside a call on a `done` whose handle is being made or freed.
LEMMA DoneUnused ==
  ASSUME IInv, NEW m \in Clients, pc[m] \in {"spawn", "free"}
  PROVE  ~InUse(who[m])
<1> SUFFICES ASSUME NEW t \in Threads, at[t] # "out", on[t] = who[m] PROVE FALSE
  BY DEF InUse
<1>1. /\ who[m] \in Children /\ pc[m] \in Owns /\ pc[m] \notin {"join", "gate", "destroy"}
      /\ who[m] # Gate
      /\ \A n \in Clients \ {m} : who[n] # who[m]
      /\ pc[m] = "spawn" => pc[who[m]] = "unborn"
      /\ pc[m] = "free" => Done(who[m])
  BY AtWork, Names DEF Works, Owns, Ends, ClientOK, Making
<1>2. op[t] # "none"
  BY DEF IInv, EInv, CallsOK, CallOK
<1>3. CASE t \in Clients
  <2>1. ClientOK(t)
    BY <1>3, AtWork
  <2>2. t # m /\ who[t] # who[m]
    BY <1>1, <1>2, <1>3, <2>1 DEF ClientOK
  <2>3. on[t] \in {Gate, who[t]}
    BY <1>2, <2>1 DEF ClientOK
  <2>4. QED
    BY <1>1, <2>2, <2>3
<1>4. CASE t \in Children
  <2>1. ChildOK(t)
    BY <1>4 DEF IInv, ChildrenOK
  <2>2. t = who[m] /\ pc[t] = "signal"
    BY <1>1, <1>2, <2>1 DEF ChildOK
  <2>3. QED
    BY <1>1, <2>2 DEF Done
<1>5. QED
  BY <1>3, <1>4, ThreadsAssumption

LEMMA SpendOK ==
  ASSUME TypeOK, NEW what \in Spendings, Spend(what)
  PROVE  left' \in [Spendings -> Nat]
<1>1. left \in [Spendings -> Nat]
  BY DEF TypeOK
<1>2. left[what] \in Nat /\ left[what] > 0 /\ left' = [left EXCEPT ![what] = left[what] - 1]
  BY <1>1 DEF Spend
<1>3. left[what] - 1 \in Nat
  BY <1>2
<1>4. QED
  BY <1>1, <1>2, <1>3

\* What another client's handle needs to keep.
ChildKept(d) ==
  /\ handle'[d] = handle[d] /\ kind'[d] = kind[d]
  /\ pc[d] = "unborn" => pc'[d] = "unborn"
  /\ Done(d) => Done(d)'

LEMMA OthersOK ==
  ASSUME IInv, NEW t \in Threads,
         \A n \in Clients \ {t} : /\ pc'[n] = pc[n] /\ who'[n] = who[n] /\ op'[n] = op[n]
                                  /\ on'[n] = on[n] /\ got'[n] = got[n],
         \A n \in Clients \ {t} : pc[n] \in Works => ChildKept(who[n]),
         t \in Clients => \A n \in Clients \ {t} : pc[n] \in Owns => who[n] # who'[t]
  PROVE  \A n \in Clients \ {t} : ClientOK(n)'
<1> SUFFICES ASSUME NEW n \in Clients \ {t} PROVE ClientOK(n)'
  OBVIOUS
<1>1. ClientOK(n) /\ pc'[n] = pc[n] /\ who'[n] = who[n] /\ op'[n] = op[n] /\ on'[n] = on[n]
      /\ got'[n] = got[n]
  BY DEF IInv, ClientsOK
<1>2. pc[n] \in Works /\ Done(who[n]) => Done(who[n])'
  BY <1>1 DEF ChildKept, Done
<1>3. pc[n] \in Owns => \A k \in Clients : who'[k] = who'[n] => k = n
  BY <1>1 DEF ClientOK
<1>4. pc[n] \in Works => /\ handle'[who[n]] = handle[who[n]] /\ kind'[who[n]] = kind[who[n]]
                         /\ pc[who[n]] = "unborn" => pc'[who[n]] = "unborn"
  BY DEF ChildKept
<1>5. QED
  BY <1>1, <1>2, <1>3, <1>4 DEF ClientOK, Making, Works, Owns, Ends

LEMMA ChildStays ==
  ASSUME IInv, NEW d \in Children,
         handle'[d] = handle[d], kind'[d] = kind[d], state'[d] = state[d], pc'[d] = pc[d],
         op'[d] = op[d], on'[d] = on[d], at[d] = "out" => at'[d] = "out",
         os'[d] = "none" <=> os[d] = "none",
         \A n \in Clients : who[n] = d /\ Making(n) => who'[n] = d /\ Making(n)'
  PROVE  ChildOK(d)' /\ ChildKept(d)
<1>1. ChildOK(d)
  BY DEF IInv, ChildrenOK
<1>2. Done(d) => Done(d)'
  BY DEF Done
<1>3. QED
  BY <1>1, <1>2 DEF ChildOK, ChildKept

\* A client's step that makes no call and changes no event.
LEMMA QuietOK ==
  ASSUME IInv, UNCHANGED evars PROVE EInv' /\ EventsTypeOK'
BY DEF IInv, evars, EInv, EventsTypeOK, CallsOK, CallOK, MutexHeld, EventsLive, NoLostWakeup

LEMMA NewHandleOK ==
  ASSUME IInv, NEW m \in Clients, NewHandle(m)
  PROVE  IInv' /\ UNCHANGED evars
<1>1. PICK c \in Children :
        /\ handle[c] = "none" /\ who' = [who EXCEPT ![m] = c]
        /\ handle' = [handle EXCEPT ![c] = "used"]
  <2> DEFINE x == CHOOSE x \in Children : handle[x] = "none"
  <2>1. x \in Children /\ handle[x] = "none"
    BY DEF NewHandle
  <2>2. QED
    BY <2>1 DEF NewHandle
<1>2. /\ pc[m] = "idle" /\ Spend("create") /\ UNCHANGED <<tid, os, detached>> /\ UNCHANGED evars
      /\ pc' = [pc EXCEPT ![m] = "new event"]
  BY DEF NewHandle, Goto
<1>3. m \in Threads /\ m \notin Children /\ who[m] = NULL /\ op[m] = "none" /\ c # NULL
  BY <1>1, <1>2, AtWork, Names DEF ClientOK, Works
<1>4. /\ \A t \in Threads : pc'[t] = IF t = m THEN "new event" ELSE pc[t]
      /\ \A n \in Clients : who'[n] = IF n = m THEN c ELSE who[n]
      /\ \A d \in Children : handle'[d] = IF d = c THEN "used" ELSE handle[d]
      /\ UNCHANGED <<kind, state, mtx, at, op, on, got, faults, os>>
  BY <1>1, <1>2, <1>3 DEF IInv, TypeOK, evars
<1>5. EInv' /\ EventsTypeOK'
  BY <1>2, QuietOK
<1>6. TypeOK'
  BY <1>1, <1>2, <1>3, <1>5, SpendOK DEF IInv, TypeOK, Spendings
<1>7. ChildOK(c) /\ kind[c] = "none" /\ pc[c] = "unborn" /\ pc'[c] = pc[c]
  BY <1>1, <1>3, <1>4, Names DEF IInv, ChildrenOK, ChildOK
<1>8. \A n \in Clients : who[n] # c
  BY <1>1, <1>3, AtWork DEF ClientOK
<1>9. ASSUME NEW d \in Children, d # c PROVE ChildOK(d)' /\ ChildKept(d)
  <2>1. \A n \in Clients : who[n] = d /\ Making(n) => who'[n] = d /\ Making(n)'
    BY <1>2, <1>4, Names DEF Making
  <2>2. QED
    BY <1>3, <1>4, <1>9, <2>1, ChildStays, Names
<1>10. ChildOK(c)'
  <2>1. handle'[c] = "used" /\ who'[m] = c /\ Making(m)'
    BY <1>1, <1>3, <1>4 DEF Making
  <2>2. QED
    BY <2>1, <1>1, <1>4, <1>7 DEF ChildOK, Done, Making
<1>11. ClientOK(m)'
  <2>1. /\ pc'[m] = "new event" /\ who'[m] = c /\ op'[m] = "none" /\ handle'[c] = "used"
        /\ kind'[c] = "none" /\ pc'[c] = "unborn"
    BY <1>1, <1>3, <1>4, <1>7
  <2>2. \A n \in Clients : who'[n] = c => n = m
    BY <1>4, <1>8
  <2>3. QED
    BY <2>1, <2>2, <1>3 DEF ClientOK, Making, Works, Owns, Ends
<1>12. \A n \in Clients \ {m} : ClientOK(n)'
  <2>1. \A n \in Clients \ {m} : pc[n] \in Works => ChildKept(who[n])
    BY <1>8, <1>9, AtWork
  <2>2. QED
    BY <1>3, <1>4, <1>8, <2>1, OthersOK, Names
<1>13. QED
  <2>1. ClientsOK'
    BY <1>11, <1>12 DEF ClientsOK
  <2>2. ChildrenOK'
    BY <1>9, <1>10 DEF ChildrenOK
  <2>3. QED
    BY <1>2, <1>5, <1>6, <2>1, <2>2 DEF IInv

\* The calls of a client or a child are steps of EventsNext.
LEMMA EnterStep ==
  ASSUME IInv, NEW t \in Threads, NEW call \in Calls, NEW e \in Evts, Enter(t, call, e)
  PROVE  /\ EventsNext /\ EInv' /\ EventsTypeOK'
         /\ at[t] = "out" /\ op[t] = "none" /\ at'[t] = "lock"
         /\ op'[t] = call /\ on'[t] = e /\ got'[t] = "none"
         /\ \A u \in Threads \ {t} : /\ at'[u] = at[u] /\ op'[u] = op[u] /\ on'[u] = on[u]
                                     /\ got'[u] = got[u]
         /\ UNCHANGED <<kind, state>>
<1>1. EventsNext
  BY DEF EventsNext
<1>2. EInv' /\ EventsTypeOK'
  BY <1>1, EventsStepOK DEF IInv, EInv
<1>3. got[t] = "none"
  BY DEF Enter, IInv, EInv, CallsOK, CallOK
<1>4. QED
  BY <1>1, <1>2, <1>3 DEF Enter, IInv, EInv, EventsTypeOK

LEMMA AnswerStep ==
  ASSUME IInv, NEW t \in Threads, TakeAnswer(t)
  PROVE  /\ EventsNext /\ EInv' /\ EventsTypeOK'
         /\ at[t] = "out" /\ op[t] # "none" /\ got[t] # "none" /\ at' = at
         /\ op'[t] = "none" /\ got'[t] = "none"
         /\ \A u \in Threads \ {t} : /\ op'[u] = op[u] /\ on'[u] = on[u] /\ got'[u] = got[u]
         /\ UNCHANGED <<kind, state>>
<1>1. EventsNext
  BY DEF EventsNext
<1>2. EInv' /\ EventsTypeOK'
  BY <1>1, EventsStepOK DEF IInv, EInv
<1>3. got[t] # "none"
  BY DEF TakeAnswer, IInv, EInv, CallsOK, CallOK
<1>4. QED
  BY <1>1, <1>2, <1>3 DEF TakeAnswer, IInv, EInv, EventsTypeOK

\* A client that neither makes nor frees a handle disturbs no other client and
\* no child.
LEMMA MoveOK ==
  ASSUME IInv, NEW m \in Clients, ~Making(m), EInv', TypeOK', ClientOK(m)',
         \A t \in Threads \ {m} : /\ pc'[t] = pc[t] /\ at'[t] = at[t] /\ op'[t] = op[t]
                                  /\ on'[t] = on[t] /\ got'[t] = got[t],
         \A n \in Clients \ {m} : who'[n] = who[n],
         \A n \in Clients \ {m} : pc[n] \in Owns => who[n] # who'[m],
         UNCHANGED <<handle, kind, state>>,
         \A d \in Children : os'[d] = "none" <=> os[d] = "none"
  PROVE  IInv'
<1>1. ASSUME NEW d \in Children PROVE ChildOK(d)' /\ ChildKept(d)
  <2>1. \A n \in Clients : who[n] = d /\ Making(n) => who'[n] = d /\ Making(n)'
    BY Names DEF Making
  <2>2. d \in Threads \ {m}
    BY Names
  <2>3. QED
    BY <2>1, <2>2, ChildStays
<1>2. \A n \in Clients \ {m} : pc[n] \in Works => ChildKept(who[n])
  BY <1>1, AtWork
<1>3. \A n \in Clients \ {m} : ClientOK(n)'
  BY <1>2, OthersOK, Names
<1>4. ClientsOK'
  BY <1>3 DEF ClientsOK
<1>5. ChildrenOK'
  BY <1>1 DEF ChildrenOK
<1>6. QED
  BY <1>4, <1>5 DEF IInv

LEMMA JoinOK ==
  ASSUME IInv, NEW m \in Clients, NEW c \in Children, Join(m, c) \/ Destroy(m, c)
  PROVE  IInv' /\ EventsNext
<1>1. PICK call \in Waits, l \in {"join", "destroy"} :
        /\ Enter(m, call, c) /\ pc' = [pc EXCEPT ![m] = l]
        /\ l = "destroy" => call = "wait" /\ \A n \in Clients : who[n] # c
        /\ l = "join" => \A n \in Clients : who[n] = c => pc[n] = "join"
  BY DEF Join, Destroy, Goto, Usable, Waits
<1>2. /\ pc[m] = "idle" /\ handle[c] = "used" /\ who' = [who EXCEPT ![m] = c]
      /\ UNCHANGED <<handle, tid, os, detached>>
      /\ Spend("join") \/ Spend("destroy")
  BY DEF Join, Destroy, Usable
<1>3. call \in Calls /\ c \in Evts /\ m \in Threads /\ c # NULL
  BY Names DEF Waits, Calls
<1>4. /\ EventsNext /\ EInv' /\ EventsTypeOK'
      /\ op'[m] = call /\ on'[m] = c /\ got'[m] = "none"
      /\ \A u \in Threads \ {m} : /\ at'[u] = at[u] /\ op'[u] = op[u] /\ on'[u] = on[u]
                                  /\ got'[u] = got[u]
      /\ UNCHANGED <<kind, state>>
  BY <1>1, <1>3, EnterStep
<1>5. /\ \A t \in Threads : pc'[t] = IF t = m THEN l ELSE pc[t]
      /\ \A n \in Clients : who'[n] = IF n = m THEN c ELSE who[n]
  BY <1>1, <1>2 DEF IInv, TypeOK
<1>6. TypeOK'
  BY <1>1, <1>2, <1>3, <1>4, SpendOK DEF IInv, TypeOK, Spendings
<1>7. \A n \in Clients \ {m} : pc[n] \in Owns => who[n] # c
  BY <1>1 DEF Owns
<1>8. ClientOK(m)'
  <2>1. /\ pc'[m] = l /\ who'[m] = c /\ handle'[c] = "used"
        /\ l \in {"join", "destroy"} /\ call \in Waits /\ call # "none"
    BY <1>1, <1>2, <1>3, <1>5 DEF Waits
  <2>2. l = "destroy" => \A n \in Clients : who'[n] = c => n = m
    BY <1>1, <1>5
  <2>3. QED
    BY <2>1, <2>2, <1>1, <1>3, <1>4 DEF ClientOK, Making, Works, Owns, Ends
<1>9. IInv'
  <2>1. ~Making(m) /\ who'[m] = c
    BY <1>2, <1>5 DEF Making
  <2>2. \A t \in Threads \ {m} : /\ pc'[t] = pc[t] /\ at'[t] = at[t] /\ op'[t] = op[t]
                                 /\ on'[t] = on[t] /\ got'[t] = got[t]
    BY <1>4, <1>5
  <2>3. /\ \A n \in Clients \ {m} : who'[n] = who[n]
        /\ \A n \in Clients \ {m} : pc[n] \in Owns => who[n] # who'[m]
    BY <1>5, <1>7, <2>1
  <2>4. UNCHANGED <<handle, kind, state>> /\ \A d \in Children : os'[d] = "none" <=> os[d] = "none"
    BY <1>2, <1>4
  <2>5. QED
    BY <1>4, <1>6, <1>8, <2>1, <2>2, <2>3, <2>4, MoveOK
<1>10. QED
  BY <1>4, <1>9

LEMMA UseGateOK ==
  ASSUME IInv, NEW m \in Clients, UseGate(m)
  PROVE  IInv' /\ EventsNext
<1>1. PICK call \in Calls : Enter(m, call, Gate)
  BY DEF UseGate
<1>2. /\ pc[m] = "idle" /\ pc' = [pc EXCEPT ![m] = "gate"] /\ Spend("gate")
      /\ UNCHANGED <<who, handle, tid, os, detached>>
  BY DEF UseGate, Goto
<1>3. Gate \in Evts /\ m \in Threads /\ who[m] = NULL /\ call # "none"
  BY <1>2, AtWork, Names DEF ClientOK, Works, Calls
<1>4. /\ EventsNext /\ EInv' /\ EventsTypeOK'
      /\ op'[m] = call /\ on'[m] = Gate /\ got'[m] = "none"
      /\ \A u \in Threads \ {m} : /\ at'[u] = at[u] /\ op'[u] = op[u] /\ on'[u] = on[u]
                                  /\ got'[u] = got[u]
      /\ UNCHANGED <<kind, state>>
  BY <1>1, <1>3, EnterStep
<1>5. \A t \in Threads : pc'[t] = IF t = m THEN "gate" ELSE pc[t]
  BY <1>2 DEF IInv, TypeOK
<1>6. TypeOK'
  BY <1>2, <1>3, <1>4, SpendOK DEF IInv, TypeOK, Spendings
<1>7. ClientOK(m)'
  <2>1. pc'[m] = "gate" /\ who'[m] = NULL /\ op'[m] # "none" /\ on'[m] = Gate
    BY <1>2, <1>3, <1>4, <1>5
  <2>2. QED
    BY <2>1 DEF ClientOK, Making, Works, Owns, Ends
<1>8. \A n \in Clients \ {m} : pc[n] \in Owns => who[n] # who'[m]
  BY <1>2, <1>3, AtWork DEF ClientOK, Owns
<1>9. IInv'
  BY <1>2, <1>3, <1>4, <1>5, <1>6, <1>7, <1>8, MoveOK DEF Making
<1>10. QED
  BY <1>4, <1>9

\* The client's call returned, and it goes on to l with the same handle or none.
LEMMA AnswerOK ==
  ASSUME IInv, NEW m \in Clients, TakeAnswer(m), NEW l, NEW w,
         \/ l = "idle" /\ w = NULL
         \/ pc[m] = "destroy" /\ l = "pthread_join" /\ w = who[m],
         pc' = [pc EXCEPT ![m] = l], who' = [who EXCEPT ![m] = w],
         UNCHANGED <<left, handle, tid, os, detached>>
  PROVE  IInv' /\ EventsNext
<1>1. /\ m \in Threads /\ ClientOK(m) /\ who[m] \in Children \cup {NULL}
      /\ pc[m] \in Works => who[m] \in Children
      /\ pc[m] \in Owns => \A n \in Clients \ {m} : who[n] # who[m]
  BY AtWork
<1>2. /\ EventsNext /\ EInv' /\ EventsTypeOK'
      /\ op[m] # "none" /\ got[m] # "none" /\ at' = at
      /\ op'[m] = "none" /\ got'[m] = "none"
      /\ \A u \in Threads \ {m} : op'[u] = op[u] /\ on'[u] = on[u] /\ got'[u] = got[u]
      /\ UNCHANGED <<kind, state>>
  BY <1>1, AnswerStep
<1>3. w \in Children \cup {NULL} /\ l \in {"idle", "pthread_join"}
  BY <1>1
<1>4. /\ \A t \in Threads : pc'[t] = IF t = m THEN l ELSE pc[t]
      /\ \A n \in Clients : who'[n] = IF n = m THEN w ELSE who[n]
  BY DEF IInv, TypeOK
<1>5. TypeOK'
  BY <1>1, <1>2, <1>3 DEF IInv, TypeOK
<1>6. ~Making(m) /\ pc[m] \in {"join", "gate", "destroy"}
  BY <1>1, <1>2 DEF ClientOK, Making
<1>7. \A n \in Clients \ {m} : pc[n] \in Owns => who[n] # w
  <2>1. CASE w = NULL
    BY <2>1, AtWork DEF ClientOK, Owns
  <2>2. CASE pc[m] = "destroy" /\ w = who[m]
    BY <2>2, <1>1 DEF Owns, Works
  <2>3. QED
    BY <2>1, <2>2
<1>8. ClientOK(m)'
  <2>1. CASE l = "idle"
    BY <2>1, <1>1, <1>2, <1>4 DEF ClientOK, Making, Works, Owns, Ends
  <2>2. CASE l = "pthread_join"
    <3>1. pc[m] = "destroy" /\ w = who[m] /\ who[m] \in Children /\ who[m] # NULL
      BY <2>2, <1>1, Names DEF Works
    <3>2. got[m] \in {"yes", "timeout"} /\ op[m] = "wait"
      BY <3>1, <1>1, <1>2 DEF ClientOK, IInv, EInv, EventsTypeOK
    <3>3. got[m] = "yes"
      BY <3>2, <1>1 DEF IInv, EInv, CallsOK, CallOK
    <3>4. Done(who[m]) /\ handle[who[m]] = "used"
      BY <3>1, <3>3, <1>1 DEF ClientOK, Works
    <3>5. who'[m] = who[m] /\ who[m] \in Threads /\ who[m] # m
      BY <3>1, <1>4, Names
    <3>6. Done(who[m])'
      BY <3>4, <3>5, <1>2, <1>4 DEF Done
    <3>7. \A n \in Clients : who'[n] = who[m] => n = m
      BY <3>1, <1>1, <1>4 DEF Owns, Works
    <3>8. /\ pc'[m] = "pthread_join" /\ who'[m] # NULL /\ op'[m] = "none"
          /\ handle'[who'[m]] = "used"
      BY <2>2, <3>1, <3>4, <3>5, <1>1, <1>2, <1>4
    <3>9. \A n \in Clients : who'[n] = who'[m] => n = m
      BY <3>5, <3>7
    <3>10. QED
      BY <3>6, <3>8, <3>9 DEF ClientOK, Making, Works, Owns, Ends
  <2>3. QED
    BY <2>1, <2>2
<1>9. IInv'
  BY <1>1, <1>2, <1>4, <1>5, <1>6, <1>7, <1>8, MoveOK
<1>10. QED
  BY <1>2, <1>9

LEMMA EndMoveOK ==
  ASSUME IInv, NEW m \in Clients, PthreadJoin(m) \/ PthreadDetach(m)
  PROVE  IInv' /\ UNCHANGED evars
<1>1. PICK l \in {"pthread_detach", "free"} : pc' = [pc EXCEPT ![m] = l]
  BY DEF PthreadJoin, PthreadDetach, Goto
<1>2. /\ pc[m] \in {"pthread_join", "pthread_detach"}
      /\ UNCHANGED <<who, left, handle, tid>> /\ UNCHANGED evars
  BY DEF PthreadJoin, PthreadDetach
<1>3. /\ os' \in [Children -> {"none", "live", "exited", "reclaimed"}]
      /\ \A d \in Children : os'[d] = "none" <=> os[d] = "none"
      /\ detached' \subseteq Children
  <2>1. CASE PthreadJoin(m)
    BY <2>1 DEF PthreadJoin, Unreclaimed, IInv, TypeOK
  <2>2. CASE PthreadDetach(m)
    BY <2>2 DEF PthreadDetach, Unreclaimed, IInv, TypeOK
  <2>3. QED
    BY <2>1, <2>2
<1>4. EInv' /\ EventsTypeOK'
  BY <1>2, QuietOK
<1>5. m \in Threads /\ ClientOK(m) /\ who[m] \in Children /\ who[m] \in Threads \ {m}
  BY <1>2, AtWork, Names DEF Works
<1>6. /\ \A t \in Threads : pc'[t] = IF t = m THEN l ELSE pc[t]
      /\ UNCHANGED <<kind, state, at, op, on, got>>
  BY <1>1, <1>2 DEF IInv, TypeOK, evars
<1>7. TypeOK'
  BY <1>1, <1>2, <1>3, <1>4 DEF IInv, TypeOK
<1>8. ClientOK(m)'
  BY <1>2, <1>5, <1>6 DEF ClientOK, Making, Works, Owns, Ends, Done
<1>9. \A n \in Clients \ {m} : pc[n] \in Owns => who[n] # who'[m]
  BY <1>2, AtWork DEF Owns, Works
<1>10. IInv'
  BY <1>2, <1>3, <1>4, <1>5, <1>6, <1>7, <1>8, <1>9, MoveOK DEF Making
<1>11. QED
  BY <1>2, <1>10

\* A handle that is being made or freed changes: what only its client sees.
LEMMA OwnMoveOK ==
  ASSUME IInv, NEW m \in Clients, NEW c \in Children, pc[m] \in Owns, who[m] = c,
         EInv', TypeOK', ClientOK(m)', ChildOK(c)',
         who'[m] \in {c, NULL},
         \A t \in Threads \ {m, c} : pc'[t] = pc[t],
         \A n \in Clients \ {m} : who'[n] = who[n],
         \A d \in Children \ {c} : /\ handle'[d] = handle[d] /\ kind'[d] = kind[d]
                                        /\ state'[d] = state[d] /\ os'[d] = os[d],
         UNCHANGED <<at, op, on, got>>
  PROVE  IInv'
<1>1. \A n \in Clients \ {m} : who[n] # c
  BY AtWork DEF Owns
<1>2. ASSUME NEW d \in Children, d # c PROVE ChildOK(d)' /\ ChildKept(d)
  <2>1. \A n \in Clients : who[n] = d /\ Making(n) => who'[n] = d /\ Making(n)'
    BY <1>1, <1>2, Names DEF Making
  <2>2. pc'[d] = pc[d]
    BY <1>2, Names
  <2>3. QED
    BY <1>2, <2>1, <2>2, ChildStays
<1>3. \A n \in Clients \ {m} : pc[n] \in Works => ChildKept(who[n])
  BY <1>1, <1>2, AtWork
<1>4. \A n \in Clients \ {m} : n \in Threads \ {m, c}
  BY <1>1, Names
<1>5. \A n \in Clients \ {m} : pc[n] \in Owns => who[n] # who'[m]
  BY <1>1, AtWork, Names DEF Owns
<1>6. \A n \in Clients \ {m} : ClientOK(n)'
  BY <1>3, <1>4, <1>5, OthersOK, Names
<1>7. ClientsOK'
  BY <1>6 DEF ClientsOK
<1>8. ChildrenOK'
  <2> SUFFICES ASSUME NEW d \in Children PROVE ChildOK(d)'
    BY DEF ChildrenOK
  <2>1. CASE d # c
    BY <2>1, <1>2
  <2>2. CASE d = c
    BY <2>2
  <2>3. QED
    BY <2>1, <2>2
<1>9. QED
  BY <1>7, <1>8 DEF IInv

LEMMA NewDoneOK ==
  ASSUME IInv, NEW m \in Clients, NewDone(m)
  PROVE  IInv' /\ EventsNext
<1>1. PICK c \in Children : c = who[m]
  BY AtWork DEF NewDone, Works
<1>2. /\ pc[m] = "new event" /\ CreateEvent(c, "manual") /\ pc' = [pc EXCEPT ![m] = "spawn"]
      /\ UNCHANGED <<who, left, handle, tid, os, detached>>
  BY <1>1 DEF NewDone, Goto
<1>3. /\ m \in Threads \ {c} /\ c \in Threads /\ c \in Evts /\ c # NULL /\ ClientOK(m) /\ ChildOK(c)
      /\ \A n \in Clients \ {m} : who[n] # c
  BY <1>1, <1>2, AtWork, Names DEF Works, Owns
<1>4. EventsNext /\ EInv' /\ EventsTypeOK'
  <2>1. EventsNext
    BY <1>2, <1>3 DEF EventsNext
  <2>2. QED
    BY <2>1, EventsStepOK DEF IInv, EInv
<1>5. /\ \A t \in Threads : pc'[t] = IF t = m THEN "spawn" ELSE pc[t]
      /\ \A e \in Evts : /\ kind'[e] = IF e = c THEN "manual" ELSE kind[e]
                         /\ state'[e] = IF e = c THEN FALSE ELSE state[e]
      /\ UNCHANGED <<at, op, on, got>>
  BY <1>2 DEF CreateEvent, IInv, TypeOK, EventsTypeOK
<1>6. TypeOK'
  BY <1>2, <1>4 DEF IInv, TypeOK
<1>7. ClientOK(m)'
  <2>1. /\ pc'[m] = "spawn" /\ who'[m] = c /\ op'[m] = "none" /\ handle'[c] = "used"
        /\ kind'[c] # "none" /\ pc'[c] = "unborn"
    BY <1>1, <1>2, <1>3, <1>5 DEF ClientOK, Works, Making
  <2>2. \A n \in Clients : who'[n] = c => n = m
    BY <1>2, <1>3
  <2>3. QED
    BY <2>1, <2>2, <1>3 DEF ClientOK, Making, Works, Owns, Ends
<1>8. ChildOK(c)'
  <2>1. handle'[c] = "used" /\ pc'[c] = "unborn" /\ kind'[c] = "manual" /\ state'[c] = FALSE
    BY <1>1, <1>2, <1>3, <1>5 DEF ClientOK, Works, Making
  <2>2. who'[m] = c /\ pc'[m] = "spawn"
    BY <1>1, <1>2, <1>3, <1>5
  <2>3. QED
    BY <2>1, <2>2, <1>2, <1>3, <1>5 DEF ChildOK, Making
<1>9. IInv'
  <2>1. pc[m] \in Owns /\ who'[m] \in {c, NULL}
    BY <1>1, <1>2 DEF Owns, Works
  <2>2. /\ \A t \in Threads \ {m, c} : pc'[t] = pc[t]
        /\ \A n \in Clients \ {m} : who'[n] = who[n]
        /\ \A d \in Children \ {c} : /\ handle'[d] = handle[d] /\ kind'[d] = kind[d]
                                     /\ state'[d] = state[d] /\ os'[d] = os[d]
    BY <1>2, <1>5, Names
  <2>3. QED
    BY <2>1, <2>2, <1>1, <1>4, <1>5, <1>6, <1>7, <1>8, OwnMoveOK
<1>10. QED
  BY <1>4, <1>9

LEMMA SpawnOK ==
  ASSUME IInv, NEW m \in Clients, Spawn(m)
  PROVE  IInv' /\ UNCHANGED evars
<1>1. PICK c \in Children : c = who[m]
  BY AtWork DEF Spawn, Works
<1>2. /\ pc[m] = "spawn" /\ os' = [os EXCEPT ![c] = "live"]
      /\ pc' = [pc EXCEPT ![m] = "idle", ![c] = "func"] /\ who' = [who EXCEPT ![m] = NULL]
      /\ \E i \in Ids : tid' = [tid EXCEPT ![c] = i]
      /\ UNCHANGED <<left, handle, detached>> /\ UNCHANGED evars
  BY <1>1 DEF Spawn
<1>3. /\ m \in Threads \ {c} /\ c \in Threads \ {m} /\ c # NULL /\ ClientOK(m) /\ ChildOK(c)
      /\ \A n \in Clients \ {m} : who[n] # c
  BY <1>1, <1>2, AtWork, Names DEF Works, Owns
<1>4. EInv' /\ EventsTypeOK'
  BY <1>2, QuietOK
<1>5. /\ \A t \in Threads : pc'[t] = IF t = m THEN "idle" ELSE IF t = c THEN "func" ELSE pc[t]
      /\ \A n \in Clients : who'[n] = IF n = m THEN NULL ELSE who[n]
      /\ \A d \in Children : os'[d] = IF d = c THEN "live" ELSE os[d]
      /\ UNCHANGED <<kind, state, at, op, on, got>>
  BY <1>2, <1>3 DEF IInv, TypeOK, evars
<1>6. TypeOK'
  BY <1>2, <1>3, <1>4 DEF IInv, TypeOK
<1>7. ClientOK(m)'
  <2>1. pc'[m] = "idle" /\ who'[m] = NULL /\ op'[m] = "none"
    BY <1>2, <1>3, <1>5 DEF ClientOK
  <2>2. QED
    BY <2>1 DEF ClientOK, Making, Works, Owns, Ends
<1>8. ChildOK(c)'
  <2>1. /\ handle'[c] = "used" /\ pc[c] = "unborn" /\ pc'[c] = "func" /\ kind'[c] # "none"
        /\ os'[c] = "live"
    BY <1>1, <1>2, <1>3, <1>5 DEF ClientOK, Works, Making
  <2>2. QED
    BY <2>1, <1>3, <1>5 DEF ChildOK, Done
<1>9. IInv'
  <2>1. pc[m] \in Owns /\ who'[m] \in {c, NULL}
    BY <1>2, <1>5 DEF Owns, Works
  <2>2. /\ \A t \in Threads \ {m, c} : pc'[t] = pc[t]
        /\ \A n \in Clients \ {m} : who'[n] = who[n]
        /\ \A d \in Children \ {c} : /\ handle'[d] = handle[d] /\ kind'[d] = kind[d]
                                     /\ state'[d] = state[d] /\ os'[d] = os[d]
    BY <1>2, <1>5
  <2>3. QED
    BY <2>1, <2>2, <1>1, <1>4, <1>5, <1>6, <1>7, <1>8, OwnMoveOK
<1>10. QED
  BY <1>2, <1>9

LEMMA GiveBackOK ==
  ASSUME IInv, NEW m \in Clients, CreateFails(m) \/ FreeHandle(m)
  PROVE  IInv' /\ [EventsNext]_evars
<1>1. PICK c \in Children : c = who[m]
  BY AtWork DEF CreateFails, FreeHandle, Works
<1>2. /\ pc[m] \in {"new event", "spawn", "free"}
      /\ handle' = [handle EXCEPT ![c] = "freed"]
      /\ pc' = [pc EXCEPT ![m] = "idle"] /\ who' = [who EXCEPT ![m] = NULL]
      /\ UNCHANGED <<left, tid, os, detached>>
      /\ \/ pc[m] = "new event" /\ UNCHANGED evars
         \/ pc[m] \in {"spawn", "free"} /\ DestroyEvent(c)
  BY <1>1 DEF CreateFails, FreeHandle, Idle, Goto
<1>3. /\ m \in Threads \ {c} /\ c \in Threads \ {m} /\ c # NULL /\ c \in Evts
      /\ ClientOK(m) /\ ChildOK(c)
      /\ \A n \in Clients \ {m} : who[n] # c
  BY <1>1, <1>2, AtWork, Names DEF Works, Owns
<1>4. [EventsNext]_evars /\ EInv' /\ EventsTypeOK'
  <2>1. pc[m] \in {"spawn", "free"} => ~InUse(c)
    BY <1>1, DoneUnused
  <2>2. [EventsNext]_evars
    BY <1>2, <1>3, <2>1 DEF EventsNext
  <2>3. QED
    BY <2>2, EventsStepOK DEF IInv, EInv
<1>5. /\ \A t \in Threads : pc'[t] = IF t = m THEN "idle" ELSE pc[t]
      /\ \A n \in Clients : who'[n] = IF n = m THEN NULL ELSE who[n]
      /\ \A d \in Children : handle'[d] = IF d = c THEN "freed" ELSE handle[d]
      /\ UNCHANGED <<state, at, op, on, got>>
      /\ \A e \in Evts : kind'[e] = IF e = c THEN "none" ELSE kind[e]
  <2>1. pc[m] = "new event" => kind[c] = "none"
    BY <1>1, <1>3 DEF ClientOK
  <2>2. \A e \in Evts : kind'[e] = IF e = c THEN "none" ELSE kind[e]
    BY <2>1, <1>2 DEF DestroyEvent, evars, IInv, TypeOK, EventsTypeOK
  <2>3. UNCHANGED <<state, at, op, on, got>>
    BY <1>2 DEF DestroyEvent, evars
  <2>4. QED
    BY <2>2, <2>3, <1>2 DEF IInv, TypeOK
<1>6. TypeOK'
  BY <1>2, <1>3, <1>4 DEF IInv, TypeOK
<1>7. ClientOK(m)'
  <2>1. pc'[m] = "idle" /\ who'[m] = NULL /\ op'[m] = "none"
    BY <1>2, <1>3, <1>5 DEF ClientOK
  <2>2. QED
    BY <2>1 DEF ClientOK, Making, Works, Owns, Ends
<1>8. ChildOK(c)'
  <2>1. pc[c] = "unborn" \/ Done(c)
    BY <1>1, <1>2, <1>3 DEF ClientOK, Making, Ends
  <2>2. handle'[c] = "freed" /\ kind'[c] = "none" /\ pc'[c] = pc[c]
    BY <1>3, <1>5
  <2>3. QED
    BY <2>1, <2>2, <1>2, <1>3, <1>5 DEF ChildOK, Done
<1>9. IInv'
  <2>1. pc[m] \in Owns /\ who'[m] \in {c, NULL}
    BY <1>2, <1>5 DEF Owns, Works
  <2>2. /\ \A t \in Threads \ {m, c} : pc'[t] = pc[t]
        /\ \A n \in Clients \ {m} : who'[n] = who[n]
        /\ \A d \in Children \ {c} : /\ handle'[d] = handle[d] /\ kind'[d] = kind[d]
                                     /\ state'[d] = state[d] /\ os'[d] = os[d]
    BY <1>2, <1>5, Names
  <2>3. QED
    BY <2>1, <2>2, <1>1, <1>4, <1>5, <1>6, <1>7, <1>8, OwnMoveOK
<1>10. QED
  BY <1>4, <1>9

\* A child's own step.
LEMMA ChildMoveOK ==
  ASSUME IInv, NEW c \in Children, pc[c] # "unborn", EInv', TypeOK', ChildOK(c)',
         Done(c) => Done(c)',
         \A t \in Threads \ {c} : /\ pc'[t] = pc[t] /\ at'[t] = at[t] /\ op'[t] = op[t]
                                  /\ on'[t] = on[t] /\ got'[t] = got[t],
         \A d \in Children \ {c} : os'[d] = os[d],
         UNCHANGED <<who, handle, kind, state>>
  PROVE  IInv'
<1>1. \A n \in Clients : n \in Threads \ {c}
  BY Names
<1>2. ASSUME NEW d \in Children, d # c PROVE ChildOK(d)' /\ ChildKept(d)
  <2>1. \A n \in Clients : who[n] = d /\ Making(n) => who'[n] = d /\ Making(n)'
    BY <1>1 DEF Making
  <2>2. d \in Threads \ {c} /\ os'[d] = os[d]
    BY <1>2, Names
  <2>3. QED
    BY <2>1, <2>2, ChildStays
<1>3. ChildKept(c)
  BY DEF ChildKept
<1>4. \A n \in Clients : pc[n] \in Works => ChildKept(who[n])
  BY <1>2, <1>3, AtWork
<1>5. \A n \in Clients \ {c} : ClientOK(n)'
  BY <1>1, <1>4, OthersOK, Names
<1>6. ClientsOK'
  BY <1>1, <1>5 DEF ClientsOK
<1>7. ChildrenOK'
  <2> SUFFICES ASSUME NEW d \in Children PROVE ChildOK(d)'
    BY DEF ChildrenOK
  <2>1. CASE d # c
    BY <2>1, <1>2
  <2>2. CASE d = c
    BY <2>2
  <2>3. QED
    BY <2>1, <2>2
<1>8. QED
  BY <1>6, <1>7 DEF IInv

LEMMA FuncSkipsOK ==
  ASSUME IInv, NEW c \in Children, pc[c] = "func", UNCHANGED <<evars, left>>,
         pc' = [pc EXCEPT ![c] = "returned"], UNCHANGED <<who, handle, tid, os, detached>>
  PROVE  IInv'
<1>1. c \in Threads /\ ChildOK(c)
  BY Names DEF IInv, ChildrenOK
<1>2. EInv' /\ EventsTypeOK'
  BY QuietOK
<1>3. /\ \A t \in Threads : pc'[t] = IF t = c THEN "returned" ELSE pc[t]
      /\ UNCHANGED <<kind, state, at, op, on, got>>
  BY DEF IInv, TypeOK, evars
<1>4. TypeOK'
  BY <1>2 DEF IInv, TypeOK
<1>5. ~Done(c)
  BY DEF Done
<1>6. ChildOK(c)'
  <2>1. c \notin Clients /\ \A n \in Clients : pc'[n] = pc[n]
    BY <1>3, Names
  <2>2. ~state[c] /\ op[c] = "none" /\ pc'[c] = "returned"
    BY <1>1, <1>3, <1>5 DEF ChildOK
  <2>3. QED
    BY <1>1, <1>3, <1>5, <2>1, <2>2 DEF ChildOK, Done, Making
<1>7. QED
  BY <1>1, <1>2, <1>3, <1>4, <1>5, <1>6, ChildMoveOK

LEMMA ChildCallOK ==
  ASSUME IInv, NEW c \in Children, NEW call \in Calls, NEW e \in {Gate, c}, Enter(c, call, e),
         NEW l,
         \/ pc[c] = "func" /\ l = "in func" /\ e = Gate
         \/ pc[c] = "returned" /\ l = "signal" /\ e = c /\ call = "set",
         pc' = [pc EXCEPT ![c] = l], left' \in [Spendings -> Nat],
         UNCHANGED <<who, handle, tid, os, detached>>
  PROVE  IInv' /\ EventsNext
<1>1. c \in Threads /\ e \in Evts /\ ChildOK(c) /\ call # "none" /\ l \in {"in func", "signal"}
  BY Names DEF IInv, ChildrenOK, Calls
<1>2. /\ EventsNext /\ EInv' /\ EventsTypeOK'
      /\ op'[c] = call /\ on'[c] = e /\ UNCHANGED <<kind, state>>
      /\ \A u \in Threads \ {c} : /\ at'[u] = at[u] /\ op'[u] = op[u] /\ on'[u] = on[u]
                                  /\ got'[u] = got[u]
  BY <1>1, EnterStep
<1>3. \A t \in Threads : pc'[t] = IF t = c THEN l ELSE pc[t]
  BY DEF IInv, TypeOK
<1>4. TypeOK'
  BY <1>1, <1>2 DEF IInv, TypeOK
<1>5. ~Done(c)
  BY DEF Done
<1>6. ChildOK(c)'
  <2>1. c \notin Clients /\ \A n \in Clients : pc'[n] = pc[n]
    BY <1>3, Names
  <2>2. ~state[c] /\ pc'[c] = l
    BY <1>1, <1>3, <1>5 DEF ChildOK
  <2>3. QED
    BY <1>1, <1>2, <1>5, <2>1, <2>2 DEF ChildOK, Done, Making
<1>7. IInv'
  BY <1>1, <1>2, <1>3, <1>4, <1>5, <1>6, ChildMoveOK
<1>8. QED
  BY <1>2, <1>7

LEMMA ChildAnswerOK ==
  ASSUME IInv, NEW c \in Children, FuncReturns(c) \/ Exit(c)
  PROVE  IInv' /\ EventsNext
<1>1. PICK l \in {"returned", "gone"} :
        /\ pc' = [pc EXCEPT ![c] = l] /\ (pc[c] = "in func" <=> l = "returned")
        /\ pc[c] = "signal" <=> l = "gone"
  BY DEF FuncReturns, Exit, Goto
<1>2. /\ TakeAnswer(c) /\ pc[c] \in {"in func", "signal"}
      /\ UNCHANGED <<who, left, handle, tid, detached>>
      /\ \/ os' = os
         \/ \E o \in {"reclaimed", "exited"} : os' = [os EXCEPT ![c] = o]
  BY DEF FuncReturns, Exit
<1>3. c \in Threads /\ ChildOK(c)
  BY Names DEF IInv, ChildrenOK
<1>4. /\ EventsNext /\ EInv' /\ EventsTypeOK'
      /\ at[c] = "out" /\ at' = at /\ op'[c] = "none" /\ UNCHANGED <<kind, state>>
      /\ \A u \in Threads \ {c} : op'[u] = op[u] /\ on'[u] = on[u] /\ got'[u] = got[u]
  BY <1>2, <1>3, AnswerStep
<1>5. /\ \A t \in Threads : pc'[t] = IF t = c THEN l ELSE pc[t]
      /\ \A d \in Children \ {c} : os'[d] = os[d]
      /\ os'[c] # "none" \/ os'[c] = os[c]
  BY <1>1, <1>2 DEF IInv, TypeOK
<1>6. TypeOK'
  BY <1>1, <1>2, <1>4 DEF IInv, TypeOK
<1>7. Done(c) => Done(c)'
  BY <1>1, <1>3, <1>4, <1>5 DEF Done
<1>8. ChildOK(c)'
  <2>1. \A n \in Clients : pc'[n] = pc[n]
    BY <1>5, Names
  <2>2. /\ pc'[c] = l /\ pc[c] # "unborn" /\ os[c] # "none" /\ os'[c] # "none"
        /\ state'[c] = state[c] /\ kind'[c] = kind[c] /\ handle'[c] = handle[c]
    BY <1>2, <1>3, <1>4, <1>5 DEF ChildOK
  <2>3. (state'[c] => Done(c)') /\ (handle'[c] = "freed" => Done(c)')
    BY <1>3, <1>7, <2>2 DEF ChildOK
  <2>4. QED
    BY <1>2, <1>3, <1>4, <2>1, <2>2, <2>3 DEF ChildOK, Making
<1>9. IInv'
  BY <1>2, <1>3, <1>4, <1>5, <1>6, <1>7, <1>8, ChildMoveOK
<1>10. QED
  BY <1>4, <1>9

-------------------------------------------------------------------------------
LEMMA StepOK ==
  ASSUME DoneLocks, IInv, [Next]_vars
  PROVE  IInv' /\ [EventsNext]_evars
<1>1. CASE UNCHANGED vars
  <2>1. EInv' /\ EventsTypeOK' /\ UNCHANGED evars
    BY <1>1, QuietOK DEF vars, evars
  <2>2. UNCHANGED <<kind, state, at, op, on, got>> /\ UNCHANGED <<pc, who, left, handle, tid, os, detached>>
    BY <1>1 DEF vars
  <2>3. TypeOK'
    BY <2>1, <2>2 DEF IInv, TypeOK
  <2>4. ClientsOK'
    <3> SUFFICES ASSUME NEW m \in Clients PROVE ClientOK(m)'
      BY DEF ClientsOK
    <3>1. ClientOK(m)
      BY DEF IInv, ClientsOK
    <3>2. \A c : Done(c)' = Done(c)
      BY <2>2 DEF Done
    <3>3. QED
      BY <2>2, <3>1, <3>2 DEF ClientOK, Making
  <2>5. ChildrenOK'
    <3> SUFFICES ASSUME NEW c \in Children PROVE ChildOK(c)'
      BY DEF ChildrenOK
    <3>1. ChildOK(c)
      BY DEF IInv, ChildrenOK
    <3>2. Done(c)' = Done(c) /\ \A m : Making(m)' = Making(m)
      BY <2>2 DEF Done, Making
    <3>3. QED
      BY <2>2, <3>1, <3>2 DEF ChildOK
  <2>6. QED
    BY <2>1, <2>3, <2>4, <2>5 DEF IInv
<1>2. ASSUME NEW t \in Threads, EventStep(t), UNCHANGED tvars PROVE IInv' /\ [EventsNext]_evars
  BY <1>2, EventStepOK
<1>3. ASSUME NEW m \in Clients, Create(m) \/ UseGate(m) \/ Finish(m)
      PROVE  IInv' /\ [EventsNext]_evars
  <2>1. CASE Returned(m)
    <3>1. /\ TakeAnswer(m) /\ pc' = [pc EXCEPT ![m] = "idle"] /\ who' = [who EXCEPT ![m] = NULL]
          /\ UNCHANGED <<left, handle, tid, os, detached>>
      BY <2>1 DEF Returned, Idle, Goto
    <3>2. QED
      BY <3>1, AnswerOK
  <2>2. CASE DoneWaited(m)
    <3>1. /\ TakeAnswer(m) /\ pc' = [pc EXCEPT ![m] = "pthread_join"] /\ pc[m] = "destroy"
          /\ UNCHANGED <<who, left, handle, tid, os, detached>>
      BY <2>2 DEF DoneWaited, Goto
    <3>2. who' = [who EXCEPT ![m] = who[m]]
      BY <3>1 DEF IInv, TypeOK
    <3>3. QED
      BY <3>1, <3>2, AnswerOK
  <2>3. CASE PthreadJoin(m) \/ PthreadDetach(m)
    BY <2>3, EndMoveOK
  <2>4. CASE CreateFails(m) \/ FreeHandle(m)
    BY <2>4, GiveBackOK
  <2>5. CASE NewHandle(m) \/ Spawn(m)
    BY <2>5, NewHandleOK, SpawnOK
  <2>6. CASE NewDone(m) \/ UseGate(m)
    BY <2>6, NewDoneOK, UseGateOK
  <2>7. QED
    BY <1>3, <2>1, <2>2, <2>3, <2>4, <2>5, <2>6 DEF Create, Finish
<1>4. ASSUME NEW m \in Clients, NEW c \in Children, Join(m, c) \/ Destroy(m, c)
      PROVE  IInv' /\ [EventsNext]_evars
  BY <1>4, JoinOK
<1>5. ASSUME NEW c \in Children, Func(c) \/ FuncReturns(c) \/ SetDone(c) \/ Exit(c)
      PROVE  IInv' /\ [EventsNext]_evars
  <2>1. CASE FuncReturns(c) \/ Exit(c)
    BY <2>1, ChildAnswerOK
  <2>2. CASE SetDone(c)
    <3>1. /\ Enter(c, "set", c) /\ pc[c] = "returned" /\ pc' = [pc EXCEPT ![c] = "signal"]
          /\ UNCHANGED <<who, left, handle, tid, os, detached>>
      BY <2>2 DEF SetDone, Goto
    <3>2. left' \in [Spendings -> Nat] /\ "set" \in Calls
      BY <3>1 DEF IInv, TypeOK, Calls
    <3>3. QED
      BY <3>1, <3>2, ChildCallOK
  <2>3. CASE Func(c)
    <3>1. pc[c] = "func" /\ UNCHANGED <<who, handle, tid, os, detached>>
      BY <2>3 DEF Func
    <3>2. CASE UNCHANGED <<evars, left>> /\ pc' = [pc EXCEPT ![c] = "returned"]
      BY <3>1, <3>2, FuncSkipsOK
    <3>3. ASSUME NEW call \in FuncCalls, Enter(c, call, Gate), Spend("gate"),
                 pc' = [pc EXCEPT ![c] = "in func"]
          PROVE  IInv' /\ EventsNext
      <4>1. left' \in [Spendings -> Nat] /\ call \in Calls
        BY <3>3, SpendOK, ThreadsAssumption DEF IInv, Spendings
      <4>2. QED
        BY <3>1, <3>3, <4>1, ChildCallOK
    <3>4. QED
      BY <2>3, <3>2, <3>3 DEF Func, Goto
  <2>4. QED
    BY <1>5, <2>1, <2>2, <2>3
<1>6. QED
  BY <1>1, <1>2, <1>3, <1>4, <1>5 DEF Next

LEMMA Invariance == ASSUME DoneLocks PROVE Spec => []IInv
<1>1. IInv /\ [Next]_vars => IInv'
  BY StepOK
<1>2. QED
  BY <1>1, InitOK, PTL DEF Spec

(* The clients and children of Threads keep the contract of the calls on      *)
(* events.                                                                    *)
THEOREM ThreadsUseEvents == ASSUME DoneLocks PROVE Spec => EventsSpec
<1>1. Init => EventsInit
  BY DEF Init
<1>2. IInv /\ [Next]_vars => [EventsNext]_evars
  BY StepOK
<1>3. QED
  BY <1>1, <1>2, Invariance, PTL DEF Spec, EventsSpec

(* No wake-up is lost, and calls on events are atomic, in the program that     *)
(* creates, joins and destroys threads.                                       *)
THEOREM ThreadsWakeupsKept == ASSUME DoneLocks PROVE Spec => []NoLostWakeup
BY ThreadsUseEvents, WakeupsKept, PTL

(* Each call on an event takes effect in one step between its entry and its    *)
(* answer, also when it is made for AR_CreateThread, AR_JoinThread,           *)
(* AR_DestroyThread or a thread's entry function.                             *)
THEOREM ThreadsRefinement == ASSUME DoneLocks PROVE Spec => ImplementsSignalEvent
BY ThreadsUseEvents, EventsRefinement, PTL DEF ImplementsSignalEvent

(* Types: a handle, an identifier and a pthread state are what the code's      *)
(* fields can hold, at every point of creation, join and destruction.         *)
THEOREM ThreadsTypeCorrect == ASSUME DoneLocks PROVE Spec => []TypeOK
<1>1. IInv => TypeOK
  BY DEF IInv
<1>2. QED
  BY <1>1, Invariance, PTL

(* AR_JoinThread that answers AR_S_YES has waited for the thread's function.   *)
THEOREM JoinsTellTheTruth == ASSUME DoneLocks PROVE Spec => []JoinedHasRun
<1>1. IInv => JoinedHasRun
  BY DEF IInv, ClientsOK, ClientOK, JoinedHasRun, Done
<1>2. QED
  BY <1>1, Invariance, PTL

(* AR_DestroyThread frees no handle and no event that its thread, or a joiner, *)
(* still uses.                                                                *)
THEOREM HandlesOutlive == ASSUME DoneLocks PROVE Spec => []HandleOutlivesThread
<1>1. IInv => HandleOutlivesThread
  <2> SUFFICES ASSUME IInv, NEW c \in Children
               PROVE  /\ InUse(c) => kind[c] # "none"
                      /\ pc[c] \in {"func", "in func", "returned"} =>
                           handle[c] = "used" /\ kind[c] # "none"
    BY DEF HandleOutlivesThread
  <2>1. InUse(c) => kind[c] # "none"
    BY DEF InUse, IInv, EInv, EventsLive
  <2>2. ASSUME pc[c] \in {"func", "in func", "returned"}
        PROVE  handle[c] = "used" /\ kind[c] # "none"
    <3>1. ChildOK(c) /\ handle[c] \in {"none", "used", "freed"}
      BY DEF IInv, ChildrenOK, TypeOK
    <3>2. handle[c] = "used"
      BY <2>2, <3>1 DEF ChildOK, Done
    <3>3. \A m \in Clients : who[m] = c => ~Making(m)
      BY <2>2 DEF IInv, ClientsOK, ClientOK
    <3>4. QED
      BY <3>1, <3>2, <3>3 DEF ChildOK
  <2>3. QED
    BY <2>1, <2>2
<1>2. QED
  BY <1>1, Invariance, PTL

(* What becomes of the threads.  PInv holds on top of IInv: a thread that is  *)
(* detached has been taken for another that had its identifier, and who       *)
(* destroys a handle comes past pthread_join only with a thread that has been *)
(* reclaimed or will be when it exits.                                        *)

Reaped(c) == os[c] = "reclaimed" \/ (os[c] = "live" /\ c \in detached)

\* Another thread had the identifier of this one, and is gone.
Namesake(c) == \E d \in Children \ {c} : tid[d] = tid[c] /\ os[d] = "reclaimed"

Running(c) == pc[c] \in {"func", "in func", "returned", "signal"}

PthreadOK(c) ==
  /\ os[c] = "live" <=> Running(c)
  /\ c \in detached => os[c] \in {"live", "reclaimed"} /\ Namesake(c)
  /\ handle[c] = "freed" => os[c] = "none" \/ Reaped(c)

Unjoined(c) == os[c] \in {"live", "exited"}

OneHolder ==
  \A c, d \in Children : Unjoined(c) /\ Unjoined(d) /\ tid[c] = tid[d] => c = d

PastJoin == \A m \in Clients : pc[m] \in {"pthread_detach", "free"} => Reaped(who[m])

PInv == (\A c \in Children : PthreadOK(c)) /\ OneHolder /\ PastJoin

LEMMA PInitOK == Init => PInv
BY Names DEF Init, PInv, PthreadOK, Running, OneHolder, Unjoined, PastJoin

\* A step that leaves the threads of the system alone.
LEMMA PQuietOK ==
  ASSUME PInv, UNCHANGED <<tid, os, detached>>,
         \A c \in Children : Running(c)' <=> Running(c),
         \A c \in Children : handle'[c] = "freed" => \/ handle[c] = "freed"
                                                     \/ os[c] = "none" \/ Reaped(c),
         \A m \in Clients : pc'[m] \in {"pthread_detach", "free"} =>
                              pc'[m] = pc[m] /\ who'[m] = who[m]
  PROVE  PInv'
<1>1. \A c : /\ Reaped(c)' = Reaped(c) /\ Unjoined(c)' = Unjoined(c)
             /\ Namesake(c)' = Namesake(c)
  BY DEF Reaped, Unjoined, Namesake
<1>2. ASSUME NEW c \in Children PROVE PthreadOK(c)'
  <2>1. PthreadOK(c)
    BY DEF PInv
  <2>2. QED
    BY <1>1, <2>1 DEF PthreadOK
<1>3. OneHolder'
  BY <1>1 DEF PInv, OneHolder
<1>4. PastJoin'
  BY <1>1 DEF PInv, PastJoin
<1>5. QED
  BY <1>2, <1>3, <1>4 DEF PInv

LEMMA PSpawnOK ==
  ASSUME IInv, PInv, NEW m \in Clients, Spawn(m)
  PROVE  PInv'
<1>1. PICK i \in Ids : Unreclaimed(i) = {} /\ tid' = [tid EXCEPT ![who[m]] = i]
  BY DEF Spawn
<1>2. PICK x \in Children : x = who[m]
  BY AtWork DEF Spawn, Works
<1>3. /\ \A c \in Children : /\ os'[c] = IF c = x THEN "live" ELSE os[c]
                             /\ tid'[c] = IF c = x THEN i ELSE tid[c]
                             /\ c # x => pc'[c] = pc[c]
      /\ pc'[x] = "func" /\ UNCHANGED <<handle, detached>>
      /\ \A n \in Clients : pc'[n] = (IF n = m THEN "idle" ELSE pc[n]) /\ (n # m => who'[n] = who[n])
  BY <1>1, <1>2, Names DEF Spawn, IInv, TypeOK
<1>4. os[x] = "none" /\ x \notin detached /\ handle[x] = "used"
  <2>1. ClientOK(m) /\ ChildOK(x) /\ PthreadOK(x)
    BY <1>2, AtWork DEF PInv, Spawn, Works
  <2>2. QED
    BY <1>2, <2>1 DEF ClientOK, ChildOK, PthreadOK, Making, Works, Spawn
<1>5. \A c \in Children : /\ Reaped(c) => Reaped(c)' /\ c # x
                          /\ c # x => (Unjoined(c)' = Unjoined(c))
                          /\ c # x /\ Namesake(c) => Namesake(c)'
  <2>1. \A c \in Children : (Reaped(c) => Reaped(c)' /\ c # x) /\ (c # x => (Unjoined(c)' = Unjoined(c)))
    BY <1>3, <1>4 DEF Reaped, Unjoined
  <2>2. ASSUME NEW c \in Children, c # x, Namesake(c) PROVE Namesake(c)'
    <3>1. PICK d \in Children \ {c} : tid[d] = tid[c] /\ os[d] = "reclaimed"
      BY <2>2 DEF Namesake
    <3>2. d # x /\ tid'[d] = tid[d] /\ tid'[c] = tid[c] /\ os'[d] = os[d]
      BY <1>3, <1>4, <2>2, <3>1
    <3>3. QED
      BY <3>1, <3>2 DEF Namesake
  <2>3. QED
    BY <2>1, <2>2
<1>6. ASSUME NEW c \in Children PROVE PthreadOK(c)'
  <2>1. PthreadOK(c)
    BY DEF PInv
  <2>2. CASE c = x
    BY <1>3, <1>4, <2>2 DEF PthreadOK, Running
  <2>3. CASE c # x
    BY <1>3, <1>5, <2>1, <2>3 DEF PthreadOK, Running
  <2>4. QED
    BY <2>2, <2>3
<1>7. OneHolder'
  <2> SUFFICES ASSUME NEW c \in Children, NEW d \in Children,
                      Unjoined(c)', Unjoined(d)', tid'[c] = tid'[d]
               PROVE  c = d
    BY DEF OneHolder
  <2>1. \A e \in Children : Unjoined(e) => tid[e] # i
    BY <1>1 DEF Unreclaimed, Unjoined
  <2>2. CASE c # x /\ d # x
    BY <1>3, <1>5, <2>2 DEF PInv, OneHolder
  <2>3. CASE c = x \/ d = x
    BY <1>3, <1>5, <2>1, <2>3
  <2>4. QED
    BY <2>2, <2>3
<1>8. PastJoin'
  <2> SUFFICES ASSUME NEW n \in Clients, pc'[n] \in {"pthread_detach", "free"}
               PROVE  Reaped(who[n])'
    BY DEF PastJoin
  <2>1. n # m /\ pc[n] = pc'[n] /\ who'[n] = who[n]
    BY <1>3
  <2>2. who[n] \in Children /\ Reaped(who[n])
    BY <2>1, AtWork DEF PInv, PastJoin, Works
  <2>3. QED
    BY <1>5, <2>1, <2>2
<1>9. QED
  BY <1>6, <1>7, <1>8 DEF PInv

\* pthread_join and pthread_detach, and the end of a thread: what is reaped
\* stays so, and no identifier changes hands.
LEMMA PReapOK ==
  ASSUME PInv, UNCHANGED <<tid, handle>>, detached \subseteq detached',
         \A c \in Children : Unjoined(c)' => Unjoined(c),
         \A c \in Children : os[c] = "reclaimed" => os'[c] = "reclaimed",
         \A c \in Children : Reaped(c) => Reaped(c)',
         \A c \in Children : os[c] = "none" => os'[c] = "none",
         \A c \in Children : os'[c] = "live" <=> Running(c)',
         \A c \in Children : c \in detached' => os'[c] \in {"live", "reclaimed"},
         \A c \in Children : c \in detached' => c \in detached \/ Namesake(c),
         \A m \in Clients : pc'[m] \in {"pthread_detach", "free"} =>
                              \/ pc'[m] = pc[m] /\ who'[m] = who[m] /\ who[m] \in Children
                              \/ Reaped(who[m])'
  PROVE  PInv'
<1>1. ASSUME NEW c \in Children PROVE PthreadOK(c)'
  <2>1. PthreadOK(c)
    BY DEF PInv
  <2>2. Namesake(c) => Namesake(c)'
    BY DEF Namesake
  <2>3. c \in detached' => os'[c] \in {"live", "reclaimed"} /\ Namesake(c)'
    BY <2>1, <2>2 DEF PthreadOK
  <2>4. os'[c] = "live" <=> Running(c)'
    OBVIOUS
  <2>5. handle'[c] = "freed" => os'[c] = "none" \/ Reaped(c)'
    BY <2>1 DEF PthreadOK
  <2>6. QED
    BY <2>3, <2>4, <2>5 DEF PthreadOK
<1>2. OneHolder'
  BY DEF PInv, OneHolder
<1>3. PastJoin'
  BY DEF PInv, PastJoin
<1>4. QED
  BY <1>1, <1>2, <1>3 DEF PInv

LEMMA PJoinOK ==
  ASSUME IInv, PInv, NEW m \in Clients, PthreadJoin(m)
  PROVE  PInv'
<1>1. /\ pc[m] = "pthread_join" /\ pc' = [pc EXCEPT ![m] = "pthread_detach"]
      /\ UNCHANGED <<who, handle, tid, detached>>
  BY DEF PthreadJoin, Goto
<1>2. PICK x \in Children : x = who[m]
  BY <1>1, AtWork DEF Works
<1>3. /\ \A n \in Clients : pc'[n] = IF n = m THEN "pthread_detach" ELSE pc[n]
      /\ \A c \in Children : pc'[c] = pc[c]
  BY <1>1, Names DEF IInv, TypeOK
<1>4. os[x] # "none" /\ PthreadOK(x)
  <2>1. ClientOK(m) /\ ChildOK(x)
    BY <1>1, <1>2, AtWork DEF Works
  <2>2. QED
    BY <1>1, <1>2, <2>1 DEF ClientOK, ChildOK, Ends, Done, PInv
<1>5. \A c \in Children : \/ os'[c] = os[c]
                          \/ os[c] = "exited" /\ c \notin detached /\ os'[c] = "reclaimed"
  <2>1. CASE UNCHANGED os
    BY <2>1
  <2>2. ASSUME NEW c \in Unreclaimed(tid[who[m]]) \ detached, os[c] = "exited",
               os' = [os EXCEPT ![c] = "reclaimed"]
        PROVE  \A d \in Children :
                 \/ os'[d] = os[d]
                 \/ os[d] = "exited" /\ d \notin detached /\ os'[d] = "reclaimed"
    <3>1. c \in Children /\ c \notin detached /\ os[c] = "exited"
      BY <2>2 DEF Unreclaimed
    <3>2. \A d \in Children : os'[d] = IF d = c THEN "reclaimed" ELSE os[d]
      BY <2>2 DEF IInv, TypeOK
    <3>3. QED
      BY <3>1, <3>2
  <2>3. QED
    BY <2>1, <2>2 DEF PthreadJoin
<1>6. Reaped(x)'
  <2>1. CASE x \in detached
    BY <1>1, <1>4, <1>5, <2>1 DEF PthreadOK, Reaped
  <2>2. CASE x \notin detached /\ Unjoined(x)
    <3>1. x \in Unreclaimed(tid[who[m]]) \ detached
      BY <1>2, <2>2 DEF Unreclaimed, Unjoined
    <3>2. PICK c \in Unreclaimed(tid[who[m]]) \ detached : os' = [os EXCEPT ![c] = "reclaimed"]
      BY <3>1 DEF PthreadJoin
    <3>3. c \in Children /\ Unjoined(c) /\ tid[c] = tid[x]
      BY <1>2, <3>2 DEF Unreclaimed, Unjoined
    <3>4. c = x
      BY <2>2, <3>3 DEF PInv, OneHolder
    <3>5. QED
      BY <3>2, <3>3, <3>4 DEF Reaped, IInv, TypeOK
  <2>3. CASE ~Unjoined(x)
    <3>1. os[x] = "reclaimed"
      BY <1>4, <2>3 DEF Unjoined, IInv, TypeOK
    <3>2. QED
      BY <1>5, <3>1 DEF Reaped
  <2>4. QED
    BY <2>1, <2>2, <2>3
<1>7. \A c \in Children : Reaped(c) => Reaped(c)'
  BY <1>1, <1>5 DEF Reaped
<1>8. \A c \in Children : Unjoined(c)' => Unjoined(c)
  BY <1>5 DEF Unjoined
<1>9. \A n \in Clients : pc'[n] \in {"pthread_detach", "free"} =>
                           \/ pc'[n] = pc[n] /\ who'[n] = who[n] /\ who[n] \in Children
                           \/ Reaped(who[n])'
  <2> SUFFICES ASSUME NEW n \in Clients, pc'[n] \in {"pthread_detach", "free"}, n # m
               PROVE  pc'[n] = pc[n] /\ who'[n] = who[n] /\ who[n] \in Children
    BY <1>1, <1>2, <1>6 DEF Reaped
  <2>1. pc'[n] = pc[n] /\ who'[n] = who[n]
    BY <1>1, <1>3
  <2>2. QED
    BY <2>1, AtWork DEF Works
<1>10. \A c \in Children : c \in detached => os'[c] \in {"live", "reclaimed"}
  BY <1>5 DEF PInv, PthreadOK
<1>11. /\ \A c \in Children : os[c] = "reclaimed" => os'[c] = "reclaimed"
       /\ \A c \in Children : os[c] = "none" => os'[c] = "none"
       /\ \A c \in Children : os'[c] = "live" <=> Running(c)'
  BY <1>3, <1>5 DEF PInv, PthreadOK, Running
<1>12. QED
  BY <1>1, <1>7, <1>8, <1>9, <1>10, <1>11, PReapOK

LEMMA PDetachOK ==
  ASSUME IInv, PInv, NEW m \in Clients, PthreadDetach(m)
  PROVE  PInv'
<1>1. /\ pc[m] = "pthread_detach" /\ pc' = [pc EXCEPT ![m] = "free"]
      /\ UNCHANGED <<who, handle, tid>>
      /\ detached' = detached \cup Unreclaimed(tid[who[m]])
  BY DEF PthreadDetach, Goto
<1>2. PICK x \in Children : x = who[m]
  BY <1>1, AtWork DEF Works
<1>3. /\ \A n \in Clients : pc'[n] = IF n = m THEN "free" ELSE pc[n]
      /\ \A c \in Children : pc'[c] = pc[c]
  BY <1>1, Names DEF IInv, TypeOK
<1>4. Reaped(x)
  BY <1>1, <1>2 DEF PInv, PastJoin
<1>5. \A c \in Children :
        os'[c] = IF c \in Unreclaimed(tid[x]) /\ os[c] = "exited" THEN "reclaimed" ELSE os[c]
  BY <1>2 DEF PthreadDetach
<1>6. ASSUME NEW c \in Children, c \in Unreclaimed(tid[x]), c \notin detached
      PROVE  Namesake(c)
  <2>1. Unjoined(c) /\ tid[c] = tid[x]
    BY <1>6 DEF Unreclaimed, Unjoined
  <2>2. c # x
    BY <1>4, <1>6, <2>1 DEF Reaped, Unjoined
  <2>3. ~Unjoined(x)
    BY <2>1, <2>2 DEF PInv, OneHolder
  <2>4. QED
    BY <1>4, <2>1, <2>2, <2>3 DEF Reaped, Unjoined, Namesake
<1>7. \A c \in Children : Reaped(c) => Reaped(c)'
  BY <1>1, <1>5 DEF Reaped
<1>8. \A c \in Children : Unjoined(c)' => Unjoined(c)
  BY <1>5 DEF Unjoined
<1>9. \A c \in Children : c \in detached' => os'[c] \in {"live", "reclaimed"}
  <2> SUFFICES ASSUME NEW c \in Children, c \in detached' PROVE os'[c] \in {"live", "reclaimed"}
    OBVIOUS
  <2>1. CASE c \in detached
    BY <1>5, <2>1 DEF PInv, PthreadOK
  <2>2. CASE c \in Unreclaimed(tid[x])
    BY <1>5, <2>2 DEF Unreclaimed
  <2>3. QED
    BY <1>1, <1>2, <2>1, <2>2
<1>10. \A c \in Children : c \in detached' => c \in detached \/ Namesake(c)
  BY <1>1, <1>2, <1>6
<1>11. \A n \in Clients : pc'[n] \in {"pthread_detach", "free"} =>
                            \/ pc'[n] = pc[n] /\ who'[n] = who[n] /\ who[n] \in Children
                            \/ Reaped(who[n])'
  <2> SUFFICES ASSUME NEW n \in Clients, pc'[n] \in {"pthread_detach", "free"}, n # m
               PROVE  pc'[n] = pc[n] /\ who'[n] = who[n] /\ who[n] \in Children
    BY <1>1, <1>2, <1>4, <1>7 DEF Reaped
  <2>1. pc'[n] = pc[n] /\ who'[n] = who[n]
    BY <1>1, <1>3
  <2>2. QED
    BY <2>1, AtWork DEF Works
<1>12. /\ \A c \in Children : os[c] = "reclaimed" => os'[c] = "reclaimed"
       /\ \A c \in Children : os[c] = "none" => os'[c] = "none"
       /\ \A c \in Children : os'[c] = "live" <=> Running(c)'
  BY <1>3, <1>5 DEF Unreclaimed, PInv, PthreadOK, Running
<1>13. detached \subseteq detached'
  BY <1>1
<1>14. QED
  BY <1>1, <1>7, <1>8, <1>9, <1>10, <1>11, <1>12, <1>13, PReapOK

LEMMA PExitOK ==
  ASSUME IInv, PInv, NEW c \in Children, Exit(c)
  PROVE  PInv'
<1>1. /\ pc[c] = "signal" /\ pc' = [pc EXCEPT ![c] = "gone"]
      /\ os' = [os EXCEPT ![c] = IF c \in detached THEN "reclaimed" ELSE "exited"]
      /\ UNCHANGED <<who, handle, tid, detached>>
  BY DEF Exit, Goto
<1>2. /\ \A t \in Threads : pc'[t] = IF t = c THEN "gone" ELSE pc[t]
      /\ \A d \in Children :
           os'[d] = IF d = c THEN (IF c \in detached THEN "reclaimed" ELSE "exited") ELSE os[d]
  BY <1>1 DEF IInv, TypeOK
<1>3. os[c] = "live"
  BY <1>1 DEF PInv, PthreadOK, Running
<1>4. /\ \A d \in Children : Reaped(d) => Reaped(d)'
      /\ \A d \in Children : Unjoined(d)' => Unjoined(d)
  BY <1>1, <1>2, <1>3 DEF Reaped, Unjoined
<1>5. \A d \in Children : os'[d] = "live" <=> Running(d)'
  BY <1>2, Names DEF PInv, PthreadOK, Running
<1>6. \A d \in Children : d \in detached' => os'[d] \in {"live", "reclaimed"}
  BY <1>1, <1>2 DEF PInv, PthreadOK
<1>7. \A m \in Clients : pc'[m] \in {"pthread_detach", "free"} =>
                           pc'[m] = pc[m] /\ who'[m] = who[m] /\ who[m] \in Children
  BY <1>1, <1>2, AtWork, Names DEF Works
<1>8. /\ \A d \in Children : os[d] = "reclaimed" => os'[d] = "reclaimed"
      /\ \A d \in Children : os[d] = "none" => os'[d] = "none"
      /\ \A d \in Children : d \in detached' => d \in detached
  BY <1>1, <1>2, <1>3
<1>9. QED
  BY <1>1, <1>4, <1>5, <1>6, <1>7, <1>8, PReapOK

\* The other steps: what each does to the handle, and where it leaves whom.
LEMMA PGiveBackOK ==
  ASSUME IInv, PInv, NEW m \in Clients, CreateFails(m) \/ FreeHandle(m)
  PROVE  PInv'
<1>1. /\ pc[m] \in {"new event", "spawn", "free"} /\ UNCHANGED <<tid, os, detached>>
      /\ pc' = [pc EXCEPT ![m] = "idle"] /\ who' = [who EXCEPT ![m] = NULL]
      /\ handle' = [handle EXCEPT ![who[m]] = "freed"]
  BY DEF CreateFails, FreeHandle, Idle, Goto
<1>2. who[m] \in Children /\ ClientOK(m) /\ ChildOK(who[m]) /\ m \in Threads \ Children
  BY <1>1, AtWork DEF Works
<1>3. os[who[m]] = "none" \/ Reaped(who[m])
  <2>1. CASE pc[m] = "free"
    BY <2>1 DEF PInv, PastJoin
  <2>2. CASE Making(m)
    BY <1>2, <2>2 DEF ClientOK, ChildOK
  <2>3. QED
    BY <1>1, <2>1, <2>2 DEF Making
<1>4. /\ \A c \in Children : Running(c)' <=> Running(c)
      /\ \A c \in Children : handle'[c] = "freed" => \/ handle[c] = "freed"
                                                     \/ os[c] = "none" \/ Reaped(c)
      /\ \A n \in Clients : pc'[n] \in {"pthread_detach", "free"} =>
                              pc'[n] = pc[n] /\ who'[n] = who[n]
  BY <1>1, <1>2, <1>3, Names DEF IInv, TypeOK, Running
<1>5. QED
  BY <1>1, <1>4, PQuietOK

LEMMA PClientOK ==
  ASSUME IInv, PInv, NEW m \in Clients, NEW c \in Children \cup {NULL},
         UNCHANGED <<tid, os, detached>>,
         \A d \in Children : handle'[d] = "freed" => handle[d] = "freed",
         who' = [who EXCEPT ![m] = c] \/ who' = who,
         NEW l \in {"idle", "new event", "spawn", "join", "gate", "destroy", "pthread_join"},
         pc' = [pc EXCEPT ![m] = l]
  PROVE  PInv'
<1>1. m \in Threads \ Children
  BY Names
<1>2. \A d \in Children : Running(d)' <=> Running(d)
  BY <1>1, Names DEF Running, IInv, TypeOK
<1>3. \A n \in Clients : pc'[n] \in {"pthread_detach", "free"} =>
                           pc'[n] = pc[n] /\ who'[n] = who[n]
  BY <1>1, Names DEF IInv, TypeOK
<1>4. QED
  BY <1>2, <1>3, PQuietOK

LEMMA PChildOK ==
  ASSUME IInv, PInv, NEW c \in Children, pc[c] \in {"func", "in func", "returned"},
         UNCHANGED <<who, handle, tid, os, detached>>,
         NEW l \in {"in func", "returned", "signal"}, pc' = [pc EXCEPT ![c] = l]
  PROVE  PInv'
<1>1. \A t \in Threads : pc'[t] = IF t = c THEN l ELSE pc[t]
  BY DEF IInv, TypeOK
<1>2. \A d \in Children : Running(d)' <=> Running(d)
  <2> SUFFICES ASSUME NEW d \in Children PROVE Running(d)' <=> Running(d)
    OBVIOUS
  <2>1. CASE d = c
    <3>1. /\ pc'[d] \in {"in func", "returned", "signal"}
          /\ pc[d] \in {"func", "in func", "returned"}
      BY <1>1, <2>1, Names
    <3>2. QED
      BY <3>1 DEF Running
  <2>2. CASE d # c
    <3>1. pc'[d] = pc[d]
      BY <1>1, <2>2, Names
    <3>2. QED
      BY <3>1 DEF Running
  <2>3. QED
    BY <2>1, <2>2
<1>3. \A n \in Clients : pc'[n] = pc[n] /\ who'[n] = who[n]
  BY <1>1, Names
<1>4. QED
  BY <1>2, <1>3, PQuietOK

LEMMA PStepOK ==
  ASSUME IInv, PInv, [Next]_vars
  PROVE  PInv'
<1>1. ASSUME UNCHANGED tvars PROVE PInv'
  <2>1. UNCHANGED <<pc, who, handle, tid, os, detached>>
    BY <1>1 DEF tvars
  <2>2. \A c : Running(c)' <=> Running(c)
    BY <2>1 DEF Running
  <2>3. QED
    BY <2>1, <2>2, PQuietOK
<1>2. ASSUME NEW m \in Clients, Create(m) \/ UseGate(m) \/ Finish(m) PROVE PInv'
  <2>1. CASE NewHandle(m)
    <3> DEFINE c == CHOOSE x \in Children : handle[x] = "none"
    <3>1. c \in Children
      BY <2>1 DEF NewHandle
    <3>2. /\ handle' = [handle EXCEPT ![c] = "used"] /\ who' = [who EXCEPT ![m] = c]
          /\ pc' = [pc EXCEPT ![m] = "new event"] /\ UNCHANGED <<tid, os, detached>>
      BY <2>1 DEF NewHandle, Goto
    <3>3. \A d \in Children : handle'[d] = "freed" => handle[d] = "freed"
      BY <3>2 DEF IInv, TypeOK
    <3>4. QED
      BY <3>1, <3>2, <3>3, PClientOK
  <2>2. CASE NewDone(m) \/ UseGate(m) \/ Returned(m) \/ DoneWaited(m)
    <3>1. PICK l \in {"idle", "spawn", "gate", "pthread_join"} : pc' = [pc EXCEPT ![m] = l]
      BY <2>2 DEF NewDone, UseGate, Returned, DoneWaited, Goto, Idle
    <3>2. /\ who' = [who EXCEPT ![m] = NULL] \/ who' = who
          /\ UNCHANGED <<handle, tid, os, detached>>
      BY <2>2 DEF NewDone, UseGate, Returned, DoneWaited, Goto, Idle
    <3>3. QED
      BY <3>1, <3>2, PClientOK
  <2>3. QED
    BY <1>2, <2>1, <2>2, PSpawnOK, PGiveBackOK, PJoinOK, PDetachOK DEF Create, Finish
<1>3. ASSUME NEW m \in Clients, NEW c \in Children, Join(m, c) \/ Destroy(m, c) PROVE PInv'
  <2>1. PICK l \in {"join", "destroy"} : pc' = [pc EXCEPT ![m] = l]
    BY <1>3 DEF Join, Destroy, Goto
  <2>2. who' = [who EXCEPT ![m] = c] /\ UNCHANGED <<handle, tid, os, detached>>
    BY <1>3 DEF Join, Destroy
  <2>3. QED
    BY <2>1, <2>2, PClientOK
<1>4. ASSUME NEW c \in Children, Func(c) \/ FuncReturns(c) \/ SetDone(c) PROVE PInv'
  <2>1. PICK l \in {"in func", "returned", "signal"} : pc' = [pc EXCEPT ![c] = l]
    BY <1>4 DEF Func, FuncReturns, SetDone, Goto
  <2>2. pc[c] \in {"func", "in func", "returned"} /\ UNCHANGED <<who, handle, tid, os, detached>>
    BY <1>4 DEF Func, FuncReturns, SetDone
  <2>3. QED
    BY <2>1, <2>2, PChildOK
<1>5. QED
  <2>1. CASE UNCHANGED vars
    BY <2>1, <1>1 DEF vars, tvars
  <2>2. CASE Next
    BY <2>2, <1>1, <1>2, <1>3, <1>4, PExitOK DEF Next
  <2>3. QED
    BY <2>1, <2>2

(* A handle, its event and its thread come and go together: what a freed       *)
(* handle leaves is at most a thread that the pthread_detach of a namesake hit *)
(* before its own pthread_join, on its last step.                              *)
THEOREM NothingIsLeft == ASSUME DoneLocks PROVE Spec => []NothingLeftBehind
<1>1. ASSUME IInv, PInv, NEW c \in Children,
             \A m \in Clients : who[m] = c => pc[m] \notin {"new event", "spawn"}
      PROVE  /\ (handle[c] = "used") = (kind[c] # "none")
             /\ handle[c] = "used" => os[c] # "none"
             /\ handle[c] = "freed" => os[c] \in {"none", "reclaimed"} \/ DetachedByMistake(c)
  <2>1. ChildOK(c) /\ PthreadOK(c) /\ handle[c] \in {"none", "used", "freed"}
    BY <1>1 DEF IInv, ChildrenOK, TypeOK, PInv
  <2>2. /\ (handle[c] = "used") = (kind[c] # "none")
        /\ handle[c] = "used" => os[c] # "none"
    BY <1>1, <2>1 DEF ChildOK, Making
  <2>3. ASSUME handle[c] = "freed", os[c] \notin {"none", "reclaimed"}
        PROVE  DetachedByMistake(c)
    <3>1. os[c] = "live" /\ c \in detached /\ Namesake(c) /\ Running(c)
      BY <2>1, <2>3 DEF PthreadOK, Reaped
    <3>2. pc[c] = "signal"
      BY <2>1, <2>3, <3>1 DEF ChildOK, Done, Running
    <3>3. QED
      BY <3>1, <3>2 DEF DetachedByMistake, Namesake
  <2>4. QED
    BY <2>2, <2>3
<1>2. IInv /\ PInv => NothingLeftBehind
  BY <1>1 DEF NothingLeftBehind
<1>3. IInv /\ PInv /\ [Next]_vars => PInv'
  BY PStepOK
<1>4. QED
  BY <1>2, <1>3, PInitOK, Invariance, PTL DEF Spec
===============================================================================
