----------------------------- MODULE AtomicStore -----------------------------
(***************************************************************************)
(* What the two-phase commit is for: the databases that are up act as one  *)
(* store, which executes the operation it is asked for as a whole, or, if  *)
(* it cannot, not at all.                                                  *)
(***************************************************************************)
EXTENDS DatabaseStore

VARIABLES
  data,      \* what is stored
  op, batch  \* the operation asked for, and its data

vars == <<data, op, batch>>

Init == data = EmptyMap /\ op = "create" /\ batch = EmptyMap

\* What the vote has to find out.
Possible ==
  /\ DOMAIN batch # {}
  /\ \/ op = "create" /\ DOMAIN batch \cap DOMAIN data = {}
     \/ op \in {"update", "delete"} /\ FirstKey(batch) \in DOMAIN data

Execute ==
  /\ Possible
  /\ data' = HandleCall(op, data, batch).store
  /\ UNCHANGED <<op, batch>>

Ask == UNCHANGED data

Next == Execute \/ Ask

Spec == Init /\ [][Next]_vars
=============================================================================
