---------------------------- MODULE ReliableQueue ----------------------------
(***************************************************************************)
(* What the upload promises: an at-least-once queue.  Data sets, numbered  *)
(* as they are accepted, are delivered in this order, the next one not     *)
(* before the last one has been confirmed; until then it may be delivered  *)
(* again.  The promise ends when the queue is cut.                         *)
(***************************************************************************)
EXTENDS Naturals, Sequences

VARIABLES
  accepted,   \* how many data sets have been accepted
  delivered,  \* the numbers of those delivered, repetitions included
  confirmed,  \* how many have been confirmed
  cut

vars == <<accepted, delivered, confirmed, cut>>

Init == accepted = 0 /\ delivered = <<>> /\ confirmed = 0 /\ cut = FALSE

Accept == accepted' = accepted + 1 /\ UNCHANGED <<delivered, confirmed, cut>>

Deliver ==
  /\ confirmed < accepted
  /\ delivered' = Append(delivered, confirmed + 1)
  /\ UNCHANGED <<accepted, confirmed, cut>>

Confirm ==
  /\ \E i \in DOMAIN delivered : delivered[i] = confirmed + 1
  /\ confirmed' = confirmed + 1
  /\ UNCHANGED <<accepted, delivered, cut>>

Next == cut' \/ Accept \/ Deliver \/ Confirm

Spec == Init /\ [][Next]_vars
=============================================================================
