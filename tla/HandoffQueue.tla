----------------------------- MODULE HandoffQueue -----------------------------
(***************************************************************************)
(* What arAsyncQueue_t promises its callers, with every call atomic: a     *)
(* double-ended queue of items and a line of blocked getters.  A put that  *)
(* meets a blocked getter hands its item to the one that has waited        *)
(* longest; otherwise the item joins the queue.  An accepted item is       *)
(* received by exactly one getter unless the queue is cleared.  A getter   *)
(* may give up only while nothing has been handed to it.                   *)
(***************************************************************************)
EXTENDS Naturals, Sequences, SequencesExt

CONSTANTS Threads,  \* callers of the queue
          Items,    \* what is put, each at most once
          NULL      \* the empty inbox

VARIABLES
  queue,    \* items nobody has claimed, next one first
  blocked,  \* getters that wait, longest first
  inbox,    \* the item handed to a getter that has not returned yet
  fate      \* what became of each item

hvars == <<queue, blocked, inbox, fate>>

HInit ==
  /\ queue = <<>>
  /\ blocked = <<>>
  /\ inbox = [t \in Threads |-> NULL]
  /\ fate = [x \in Items |-> "fresh"]

Fate(x, f) == fate' = [fate EXCEPT ![x] = f]

\* A put: to the longest-waiting getter if there is one, else to the queue.
Offer(x) ==
  /\ fate[x] = "fresh"
  /\ Fate(x, "sent")
  /\ \/ /\ blocked # <<>>
        /\ inbox' = [inbox EXCEPT ![Head(blocked)] = x]
        /\ blocked' = Tail(blocked)
        /\ UNCHANGED queue
     \/ /\ blocked = <<>>
        /\ queue' \in {Append(queue, x), <<x>> \o queue}
        /\ UNCHANGED <<blocked, inbox>>

\* A put that reports an error leaves no trace of its item.
Refuse(x) ==
  /\ fate[x] = "fresh"
  /\ Fate(x, "refused")
  /\ UNCHANGED <<queue, blocked, inbox>>

Take ==
  /\ queue # <<>>
  /\ Fate(Head(queue), "received")
  /\ queue' = Tail(queue)
  /\ UNCHANGED <<blocked, inbox>>

Block(t) ==
  /\ queue = <<>>
  /\ inbox[t] = NULL
  /\ t \notin ToSet(blocked)
  /\ blocked' = Append(blocked, t)
  /\ UNCHANGED <<queue, inbox, fate>>

GiveUp(t) ==
  /\ \E i \in DOMAIN blocked : /\ blocked[i] = t
                               /\ blocked' = RemoveAt(blocked, i)
  /\ UNCHANGED <<queue, inbox, fate>>

\* The blocked getter returns with the item handed to it.
Collect(t) ==
  /\ inbox[t] # NULL
  /\ Fate(inbox[t], "received")
  /\ inbox' = [inbox EXCEPT ![t] = NULL]
  /\ UNCHANGED <<queue, blocked>>

\* The getter's wait itself failed after the hand-off: the item goes with it.
Forfeit(t) ==
  /\ inbox[t] # NULL
  /\ Fate(inbox[t], "lost")
  /\ inbox' = [inbox EXCEPT ![t] = NULL]
  /\ UNCHANGED <<queue, blocked>>

Clear ==
  /\ queue' = <<>>
  /\ fate' = [x \in Items |-> IF x \in ToSet(queue) THEN "cleared" ELSE fate[x]]
  /\ UNCHANGED <<blocked, inbox>>

HNext ==
  \/ \E x \in Items : Offer(x) \/ Refuse(x)
  \/ Take
  \/ \E t \in Threads : Block(t) \/ GiveUp(t) \/ Collect(t) \/ Forfeit(t)
  \/ Clear

HSpec == HInit /\ [][HNext]_hvars
===============================================================================
