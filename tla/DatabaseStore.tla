---------------------------- MODULE DatabaseStore ----------------------------
(***************************************************************************)
(* The handlers of database/Database.cpp as functions of the map           *)
(* sensorMetadataCollection, each taken as one indivisible step.           *)
(*                                                                         *)
(* A std::map<string, SensorMetadata> is a function whose domain is the    *)
(* set of its keys.  A key is the text "ip:timestamp", here a model value. *)
(***************************************************************************)
EXTENDS Integers

EmptyMap == [i \in {} |-> 0]

\* All the maps with keys in I and values in V.
MapsOf(I, V) == UNION {[D -> V] : D \in SUBSET I}

\* std::map::insert of every pair of g: a key that is present keeps its value.
InsertAll(f, g) ==
  [i \in DOMAIN f \cup DOMAIN g |-> IF i \in DOMAIN f THEN f[i] ELSE g[i]]

\* m.begin()->first: one of the keys, the same one for everybody who asks.
FirstKey(m) == CHOOSE i \in DOMAIN m : TRUE

-----------------------------------------------------------------------------
\* What a handler leaves in the collection, and what it returns.

isCreatePossible(m, received) ==
  [store |-> m,
   ret   |-> IF DOMAIN received = {} \/ DOMAIN received \cap DOMAIN m # {}
               THEN -1 ELSE 0]

isUpdatePossible(m, id) == [store |-> m, ret |-> IF id \in DOMAIN m THEN 0 ELSE -1]

isDeletePossible(m, id) == [store |-> m, ret |-> IF id \in DOMAIN m THEN 0 ELSE -1]

\* The keys already present are skipped, the others are inserted.
createSensorMetadata(m, received) ==
  [store |-> InsertAll(m, received),
   ret   |-> IF DOMAIN received = {} THEN -1
             ELSE IF DOMAIN received \cap DOMAIN m # {} THEN -3 ELSE 0]

updateSensorMetadata(m, id, metadata) ==
  [store |-> IF id \in DOMAIN m THEN [m EXCEPT ![id] = metadata] ELSE m,
   ret   |-> IF id \in DOMAIN m THEN 0 ELSE -2]

deleteSensorMetadata(m, id) ==
  [store |-> [i \in DOMAIN m \ {id} |-> m[i]],
   ret   |-> IF id \in DOMAIN m THEN 0 ELSE -2]

\* The read hands back the data set; what its caller looks at is the port,
\* positive in a stored data set, -2 when there is none.
Port == 1
readSensorMetadata(m, id) ==
  [store |-> m, ret |-> IF id \in DOMAIN m THEN Port ELSE -2]

\* Nothing in the program calls readAll, and nothing is said of what it returns.
readAll(m) == [store |-> m, ret |-> 0]

\* The call a client thread makes for each of the operation names it is given.
HandleCall(op, m, data) ==
  LET id == FirstKey(data)
  IN  [isCreatePossible |-> isCreatePossible(m, data),
       create           |-> createSensorMetadata(m, data),
       isUpdatePossible |-> isUpdatePossible(m, id),
       update           |-> updateSensorMetadata(m, id, data[id]),
       isDeletePossible |-> isDeletePossible(m, id),
       delete           |-> deleteSensorMetadata(m, id),
       read             |-> readSensorMetadata(m, id),
       readAll          |-> readAll(m)][op]

\* A handler that allocates memory may throw a std::bad_alloc instead.  It has changed
\* nothing then; but a create inserts one pair after the other, and leaves those it has
\* inserted.
ThrowingOps == {"create", "update", "read", "readAll"}
Thrown == -100

PartsOf(received) == {[i \in part |-> received[i]] : part \in SUBSET DOMAIN received}

ThrowingCall(op, m, data) ==
  {[store |-> left, ret |-> Thrown] :
     left \in CASE op = "create"                     -> {InsertAll(m, part) : part \in PartsOf(data)}
                [] op \in ThrowingOps \ {"create"} -> {m}
                [] OTHER                            -> {}}
=============================================================================
