------------------------------- MODULE MCThreads -------------------------------
(* Instances of Threads for TLC. *)
EXTENDS Threads, TLC

\* Clients that create, join and destroy threads; clients that meet a thread at
\* the gate.
Lifecycles == {[create |-> 2, join |-> 1, destroy |-> 2, gate |-> 0]}
Meetings == {[create |-> 1, join |-> 0, destroy |-> 0, gate |-> 3]}

\* The pthread calls that fail.
Failing == {"lock", "broadcast", "wake"} \X {Gate}
LifecyclesAndMeetings == Lifecycles \cup Meetings
===============================================================================
