------------------------------ MODULE RemoteCall ------------------------------
(***************************************************************************)
(* What the remote calls of the program promise, whatever carries them:    *)
(* a call is executed at most once, as one indivisible step, between the   *)
(* moment it is issued and the moment it returns.  The caller of one that  *)
(* fails does not know which: it may have been executed, it may be         *)
(* executed yet, or never.  One whose handler throws has been executed in  *)
(* part, and says so.                                                      *)
(*                                                                         *)
(* The promise ends when two calls are under way in one database and one   *)
(* of them writes: they may meet in its map, which has no mutex, and then  *)
(* anything may happen.                                                    *)
(*                                                                         *)
(* A call is a record with a database ip, an operation op with its data, a *)
(* place at, and, once executed, the result ret; a caller may add fields.  *)
(***************************************************************************)
EXTENDS DatabaseStore

CONSTANT Databases

VARIABLES
  store,  \* the data of each database
  up,     \* the databases that are running
  calls,  \* the calls issued that have neither returned nor been given up
  intact  \* no two calls have met in the map of a database

vars == <<store, up, calls, intact>>

Init ==
  /\ store = [d \in Databases |-> EmptyMap]
  /\ up = Databases
  /\ calls = {}
  /\ intact = TRUE

Issue ==
  /\ \E c \in calls' \ calls : c.at = "call" /\ calls' = calls \cup {c}
  /\ UNCHANGED <<store, up, intact>>

\* The handler returns, or throws.
Outcomes(c) ==
  {HandleCall(c.op, store[c.ip], c.data)} \cup ThrowingCall(c.op, store[c.ip], c.data)

\* Nobody learns the result of a call that has been abandoned.
Execute(c) ==
  /\ c.ip \in up
  /\ \E result \in Outcomes(c) :
       /\ store' = [store EXCEPT ![c.ip] = result.store]
       /\ \/ /\ c.at = "call"
             /\ calls' = (calls \ {c})
                           \cup {[c EXCEPT !.at = "executed", !.ret = result.ret]}
          \/ /\ c.at = "abandoned"
             /\ calls' = calls \ {c}
  /\ UNCHANGED <<up, intact>>

Return(c) ==
  /\ c.at = "executed"
  /\ calls' = calls \ {c}
  /\ UNCHANGED <<store, up, intact>>

Fail(c) ==
  /\ c.at \in {"call", "executed"}
  /\ \/ calls' = calls \ {c}
     \/ c.at = "call" /\ calls' = (calls \ {c}) \cup {[c EXCEPT !.at = "abandoned"]}
  /\ UNCHANGED <<store, up, intact>>

\* A database that ends keeps nothing, and stays down.
Crash(d) ==
  /\ d \in up
  /\ up' = up \ {d}
  /\ calls' = {c \in calls : c.ip # d \/ c.at # "abandoned"}
  /\ UNCHANGED <<store, intact>>

\* Two calls meet in the map of a database.
Race ==
  /\ \E c, d \in calls :
       /\ c # d /\ c.ip = d.ip /\ c.ip \in up
       /\ {c.at, d.at} \subseteq {"call", "abandoned"}
       /\ c.op \in {"create", "update", "delete"}
  /\ intact' = FALSE
  /\ UNCHANGED <<up, calls>>

Next ==
  \/ Issue
  \/ \E c \in calls : Execute(c) \/ Return(c) \/ Fail(c)
  \/ \E d \in Databases : Crash(d)
  \/ Race
  \/ ~intact /\ ~intact'

Spec == Init /\ [][Next]_vars
=============================================================================
