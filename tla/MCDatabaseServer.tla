--------------------------- MODULE MCDatabaseServer ---------------------------
(***************************************************************************)
(* A small instance of a database and its clients for TLC.                 *)
(***************************************************************************)
EXTENDS DatabaseServerProperties, TLC

DataSet(temperature) == <<Port, "ip", 1, <<temperature, 0, 0>>>>

One == "a" :> DataSet(1)
Two == "a" :> DataSet(2) @@ "b" :> DataSet(2)

\* Creates of one data set, and of it and another one with other values; the other
\* operations for the key they share, and an update that changes its value.
MCInputs ==
  ({"create"} \X {One, Two})
    \cup ({"isUpdatePossible", "isDeletePossible", "delete", "read", "ping"} \X {One})
    \cup ({"isCreatePossible", "update", "readAll"} \X {Two})
=============================================================================
