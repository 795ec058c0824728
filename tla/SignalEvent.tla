----------------------------- MODULE SignalEvent -----------------------------
(***************************************************************************)
(* What an arEvent_t promises, every call taking effect in one step: a     *)
(* flag that a set raises and a reset lowers, and that a wait needs raised *)
(* at the instant it succeeds.  The wait that succeeds on an auto-reset    *)
(* event takes the signal with it; a wait that gives up takes nothing.     *)
(***************************************************************************)
EXTENDS Naturals

CONSTANTS Threads, Evts, NULL

VARIABLES
  mode,     \* each event: "none" (does not exist), "auto" or "manual"
  signal,   \* is the event signalled
  pending,  \* the call a thread is in, or "none"
  target,   \* the event of that call, or NULL
  outcome   \* what that call answered, "none" while it is undecided

svars == <<mode, signal, pending, target, outcome>>

SInit ==
  /\ mode \in [Evts -> {"none", "auto", "manual"}]
  /\ signal = [e \in Evts |-> FALSE]
  /\ pending = [t \in Threads |-> "none"]
  /\ target = [t \in Threads |-> NULL]
  /\ outcome = [t \in Threads |-> "none"]

Undecided(t) == pending[t] # "none" /\ outcome[t] = "none"

Decide(t, o) ==
  /\ outcome' = [outcome EXCEPT ![t] = o]
  /\ UNCHANGED <<mode, pending, target>>

Ask(t, call, e) ==
  /\ pending[t] = "none" /\ mode[e] # "none"
  /\ pending' = [pending EXCEPT ![t] = call]
  /\ target' = [target EXCEPT ![t] = e]
  /\ UNCHANGED <<mode, signal, outcome>>

\* A set, also one that reports an error, leaves the event signalled.
Raise(t) ==
  /\ Undecided(t) /\ pending[t] = "set"
  /\ signal' = [signal EXCEPT ![target[t]] = TRUE]
  /\ \E o \in {"yes", "error"} : Decide(t, o)

Lower(t) ==
  /\ Undecided(t) /\ pending[t] = "reset"
  /\ signal' = [signal EXCEPT ![target[t]] = FALSE]
  /\ Decide(t, "yes")

Pass(t) ==
  /\ Undecided(t) /\ pending[t] \in {"wait", "timedwait"}
  /\ signal[target[t]]
  /\ signal' = [signal EXCEPT ![target[t]] = mode[target[t]] # "auto"]
  /\ Decide(t, "yes")

GiveUp(t) ==
  /\ Undecided(t) /\ pending[t] = "timedwait"
  /\ UNCHANGED signal
  /\ Decide(t, "timeout")

\* The call is refused: nothing happened.
Refuse(t) ==
  /\ Undecided(t)
  /\ UNCHANGED signal
  /\ Decide(t, "error")

Return(t) ==
  /\ outcome[t] # "none"
  /\ pending' = [pending EXCEPT ![t] = "none"]
  /\ target' = [target EXCEPT ![t] = NULL]
  /\ outcome' = [outcome EXCEPT ![t] = "none"]
  /\ UNCHANGED <<mode, signal>>

\* An event comes into being lowered and goes when no call is using it.
Make(e) ==
  /\ mode[e] = "none"
  /\ \E k \in {"auto", "manual"} : mode' = [mode EXCEPT ![e] = k]
  /\ signal' = [signal EXCEPT ![e] = FALSE]
  /\ UNCHANGED <<pending, target, outcome>>

Drop(e) ==
  /\ mode[e] # "none"
  /\ \A t \in Threads : target[t] = e => outcome[t] # "none"
  /\ mode' = [mode EXCEPT ![e] = "none"]
  /\ UNCHANGED <<signal, pending, target, outcome>>

SNext ==
  \/ \E t \in Threads :
       \/ \E c \in {"set", "reset", "wait", "timedwait"}, e \in Evts : Ask(t, c, e)
       \/ Raise(t) \/ Lower(t) \/ Pass(t) \/ GiveUp(t) \/ Return(t) \/ Refuse(t)
  \/ \E e \in Evts : Make(e) \/ Drop(e)

SSpec == SInit /\ [][SNext]_svars
===============================================================================
