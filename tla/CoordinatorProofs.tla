-------------------------- MODULE CoordinatorProofs --------------------------
(***************************************************************************)
(* Proofs about the two-phase commit, for every number of databases, every *)
(* limit of timeouts and every set of data.                                *)
(***************************************************************************)
EXTENDS CoordinatorProperties, SequenceTheorems, TLAPS

-----------------------------------------------------------------------------
(* Maps and database handlers *)

\* A map with keys in I and values in V, without the union of MapsOf.
LEMMA MapsOfMember ==
  ASSUME NEW I, NEW V, NEW m
  PROVE  m \in MapsOf(I, V) <=> DOMAIN m \subseteq I /\ m \in [DOMAIN m -> V]
BY DEF MapsOf

LEMMA EmptyMapIsMap ==
  ASSUME NEW I, NEW V
  PROVE  EmptyMap \in MapsOf(I, V) /\ DOMAIN EmptyMap = {}
<1>1. DOMAIN EmptyMap = {} /\ EmptyMap \in [{} -> V]
  BY DEF EmptyMap
<1> QED BY <1>1, MapsOfMember

LEMMA InsertAllIsMap ==
  ASSUME NEW I, NEW V, NEW f \in MapsOf(I, V), NEW g \in MapsOf(I, V)
  PROVE  InsertAll(f, g) \in MapsOf(I, V)
<1>1. DOMAIN f \subseteq I /\ f \in [DOMAIN f -> V]
  BY MapsOfMember
<1>2. DOMAIN g \subseteq I /\ g \in [DOMAIN g -> V]
  BY MapsOfMember
<1>3. InsertAll(f, g) \in [DOMAIN f \cup DOMAIN g -> V]
  BY <1>1, <1>2 DEF InsertAll
<1>4. DOMAIN InsertAll(f, g) = DOMAIN f \cup DOMAIN g
  BY DEF InsertAll
<1> QED BY <1>1, <1>2, <1>3, <1>4, MapsOfMember

LEMMA FirstKeyInMap ==
  ASSUME NEW m, DOMAIN m # {}
  PROVE  FirstKey(m) \in DOMAIN m
BY DEF FirstKey

\* Whatever call a database is given, its collection stays a map and the result
\* is one of those the callers know.
LEMMA HandleCallType ==
  ASSUME NEW I, NEW V, NEW m \in MapsOf(I, V), NEW data \in MapsOf(I, V),
         DOMAIN data # {}, NEW op \in Ops
  PROVE  /\ HandleCall(op, m, data).store \in MapsOf(I, V)
         /\ HandleCall(op, m, data).ret \in Results
<1> DEFINE id == FirstKey(data)
<1>1. id \in DOMAIN data /\ id \in I /\ data[id] \in V
  BY FirstKeyInMap, MapsOfMember
<1>2. DOMAIN m \subseteq I /\ m \in [DOMAIN m -> V]
  BY MapsOfMember
<1>3. CASE op \in {"isCreatePossible", "isUpdatePossible", "isDeletePossible", "read"}
  BY <1>3 DEF HandleCall, isCreatePossible, isUpdatePossible, isDeletePossible,
     readSensorMetadata, Results
<1>4. CASE op = "create"
  BY <1>4, InsertAllIsMap DEF HandleCall, createSensorMetadata, Results
<1>5. CASE op = "update"
  <2>1. (IF id \in DOMAIN m THEN [m EXCEPT ![id] = data[id]] ELSE m) \in [DOMAIN m -> V]
    BY <1>1, <1>2
  <2>2. (IF id \in DOMAIN m THEN [m EXCEPT ![id] = data[id]] ELSE m) \in MapsOf(I, V)
    BY <2>1, <1>2, MapsOfMember
  <2> QED BY <1>5, <2>2 DEF HandleCall, updateSensorMetadata, Results
<1>6. CASE op = "delete"
  <2>1. [i \in DOMAIN m \ {id} |-> m[i]] \in [DOMAIN m \ {id} -> V]
    BY <1>2
  <2>2. [i \in DOMAIN m \ {id} |-> m[i]] \in MapsOf(I, V)
    BY <2>1, <1>2, MapsOfMember
  <2> QED BY <1>6, <2>2 DEF HandleCall, deleteSensorMetadata, Results
<1> QED BY <1>3, <1>4, <1>5, <1>6 DEF Ops, VoteOps, CommitOps

-----------------------------------------------------------------------------
(* The inductive invariant *)

\* The four invariants below hold together: the type of a count of timeouts
\* rests on CursorReachable, the type of a store on BatchNeverEmpty, and that
\* one on QueueCounted.
IInv == TypeOK /\ QueueCounted /\ BatchNeverEmpty /\ CursorReachable

\* A loop goes on to a later database, a reachable one, or ends.
LEMMA NextReachableType ==
  ASSUME NEW c \in 0..NumDatabases, NEW n \in NextReachable(c)
  PROVE  /\ n \in 1..(NumDatabases + 1) /\ n > c
         /\ n = NumDatabases + 1 \/ Reachable(n)
BY CoordinatorAssumption DEF NextReachable, Reachable

LEMMA TryWaitsType ==
  ASSUME NEW n \in Nat, NEW k \in Nat
  PROVE  TryWaits(n, k) \in Nat
BY DEF TryWaits

\* The batch made of a non-empty sequence of posts is a non-empty map.
LEMMA BatchOfType ==
  ASSUME NEW posts \in Seq([id : Ids, value : Values]), NEW batch \in BatchOf(posts)
  PROVE  /\ batch \in Batches
         /\ Len(posts) > 0 => DOMAIN batch # {}
<1> DEFINE keys == {posts[k].id : k \in DOMAIN posts}
<1>1. batch \in [keys -> Values]
  BY DEF BatchOf
<1>2. \A k \in DOMAIN posts : posts[k].id \in Ids
  <2>1. \A k \in DOMAIN posts : posts[k] \in [id : Ids, value : Values]
    <3>1. DOMAIN posts = 1..Len(posts)
      OBVIOUS
    <3> QED BY <3>1, ElementOfSeq
  <2> QED BY <2>1
<1>3. keys \subseteq Ids
  BY <1>2
<1>4. Len(posts) > 0 => posts[1].id \in keys
  OBVIOUS
<1> QED BY <1>1, <1>3, <1>4, MapsOfMember DEF Batches

THEOREM InitIInv == Init => IInv
<1> SUFFICES ASSUME Init PROVE IInv
  OBVIOUS
<1> USE CoordinatorAssumption DEF Init
<1>1. QueueType /\ QueueCounted
  BY DEF QueueType, QueueCounted
<1>2. ControllerType
  BY EmptyMapIsMap DEF ControllerType, CurrentOp, VoteFor, Ops, VoteOps, Batches
<1>3. SharedType
  <2>1. EmptyMap \in [DOMAIN EmptyMap -> {"zero", "future", "past"}]
    BY DEF EmptyMap
  <2>2. DOMAIN timestamps \subseteq Keys
    BY EmptyMapIsMap
  <2>3. timestamps \in [DOMAIN timestamps -> {"zero", "future", "past"}]
    BY <2>1
  <2>4. numberOfTimeouts \in [Databases -> 0..(MaxTimeouts + 1)]
    OBVIOUS
  <2>5. votingResult \in [Databases -> Results] /\ portRead \in Results
    BY DEF Results, Port
  <2> QED BY <2>2, <2>3, <2>4, <2>5 DEF SharedType, Results
<1>4. threads \subseteq Thread /\ BatchNeverEmpty
  BY DEF BatchNeverEmpty
<1>5. DatabaseType
  BY EmptyMapIsMap DEF DatabaseType, Batches
<1>6. CursorReachable
  <2>1. pc = "top"
    OBVIOUS
  <2> QED BY <2>1 DEF CursorReachable
<1> QED BY <1>1, <1>2, <1>3, <1>4, <1>5, <1>6 DEF IInv, TypeOK

LEMMA ResetType ==
  ASSUME ResetFeedbackMaps, UNCHANGED <<numberOfTimeouts, semaphore, ready>>, SharedType
  PROVE  SharedType'
BY DEF ResetFeedbackMaps, SharedType, Results, Port, EmptyMap

\* The controller's cursor moves to a reachable database, or to the end.
LEMMA LoopGoesOn ==
  ASSUME NEW c \in 0..NumDatabases, cursor' \in NextReachable(c),
         UNCHANGED numberOfTimeouts
  PROVE  cursor' \in 1..(NumDatabases + 1) /\ (AtEnd \/ Reachable(cursor))'
BY NextReachableType DEF AtEnd, Reachable

\* After a database has answered or timed out, its count is changed, and the
\* cursor is at another one.
LEMMA LoopGoesOnAfter ==
  ASSUME SharedType, cursor \in Databases, NEW n \in 0..(MaxTimeouts + 1),
         cursor' \in NextReachable(cursor),
         numberOfTimeouts' = [numberOfTimeouts EXCEPT ![cursor] = n]
  PROVE  /\ cursor' \in 1..(NumDatabases + 1) /\ (AtEnd \/ Reachable(cursor))'
         /\ numberOfTimeouts' \in [Databases -> 0..(MaxTimeouts + 1)]
<1>1. cursor \in 0..NumDatabases /\ cursor \in 1..NumDatabases
  BY CoordinatorAssumption DEF Databases
<1>2. /\ cursor' \in 1..(NumDatabases + 1) /\ cursor' # cursor
      /\ cursor' = NumDatabases + 1 \/ Reachable(cursor')
  BY <1>1, NextReachableType
<1>3. /\ numberOfTimeouts' \in [Databases -> 0..(MaxTimeouts + 1)]
      /\ cursor' # NumDatabases + 1 => numberOfTimeouts'[cursor'] = numberOfTimeouts[cursor']
  BY <1>2 DEF SharedType, Databases
<1> QED BY <1>2, <1>3 DEF AtEnd, Reachable

\* The invariant is kept by every step of the controller.
LEMMA ControllerIInv ==
  ASSUME IInv, Controller
  PROVE  IInv'
<1>0. /\ QueueType /\ ControllerType /\ SharedType /\ threads \subseteq Thread
      /\ DatabaseType /\ QueueCounted /\ BatchNeverEmpty /\ CursorReachable
      /\ NumDatabases \in Nat \ {0} /\ MaxTimeouts \in Nat
  BY CoordinatorAssumption DEF IInv, TypeOK
<1>1. CASE Stop
  <2>1. QueueType' /\ QueueCounted'
    BY <1>0, <1>1 DEF Stop, QueueType, QueueCounted, queueVars
  <2>2. ControllerType'
    BY <1>0, <1>1 DEF Stop, ControllerType, CurrentOp, roundVars
  <2>3. SharedType'
    BY <1>0, <1>1 DEF Stop, SharedType, feedbackVars
  <2>4. threads' \subseteq Thread
    BY <1>0, <1>1 DEF Stop
  <2>5. DatabaseType'
    BY <1>0, <1>1 DEF Stop, DatabaseType, databaseVars
  <2>6. BatchNeverEmpty' /\ CursorReachable'
    BY <1>0, <1>1 DEF Stop, BatchNeverEmpty, CursorReachable, Reachable, AtEnd, roundVars
  <2> QED BY <2>1, <2>2, <2>3, <2>4, <2>5, <2>6 DEF IInv, TypeOK
<1>2. CASE BeginIteration
  <2>1. QueueType' /\ QueueCounted'
    BY <1>0, <1>2 DEF BeginIteration, QueueType, QueueCounted, queueVars
  <2>2. ControllerType'
    BY <1>0, <1>2 DEF BeginIteration, ControllerType, CurrentOp, roundVars
  <2>3. SharedType'
    BY <1>0, <1>2 DEF BeginIteration, SharedType, feedbackVars
  <2>4. threads' \subseteq Thread
    BY <1>0, <1>2 DEF BeginIteration
  <2>5. DatabaseType'
    BY <1>0, <1>2 DEF BeginIteration, DatabaseType, databaseVars
  <2>6. BatchNeverEmpty' /\ CursorReachable'
    BY <1>0, <1>2 DEF BeginIteration, BatchNeverEmpty, CursorReachable, Reachable, AtEnd, roundVars
  <2> QED BY <2>1, <2>2, <2>3, <2>4, <2>5, <2>6 DEF IInv, TypeOK
<1>3. CASE AwaitData
  <2>1. QueueType' /\ QueueCounted'
    BY <1>0, <1>3 DEF AwaitData, QueueType, QueueCounted, queueVars
  <2>2. ControllerType'
    BY <1>0, <1>3 DEF AwaitData, ControllerType, CurrentOp, roundVars
  <2>3. SharedType'
    BY <1>0, <1>3 DEF AwaitData, SharedType, feedbackVars
  <2>4. threads' \subseteq Thread
    BY <1>0, <1>3 DEF AwaitData
  <2>5. DatabaseType'
    BY <1>0, <1>3 DEF AwaitData, DatabaseType, databaseVars
  <2>6. BatchNeverEmpty' /\ CursorReachable'
    BY <1>0, <1>3 DEF AwaitData, BatchNeverEmpty, CursorReachable, Reachable, AtEnd, roundVars
  <2> QED BY <2>1, <2>2, <2>3, <2>4, <2>5, <2>6 DEF IInv, TypeOK
<1>4. CASE CollectData
  <2>0. cursor' \in 1..(NumDatabases + 1) /\ (AtEnd \/ Reachable(cursor))'
    BY <1>0, <1>4, LoopGoesOn DEF CollectData
  <2>b. dataToSend' \in Batches /\ DOMAIN dataToSend' # {}
    <3>1. Len(sensorMetadatas) > 0
      BY <1>0, <1>4 DEF CollectData, QueueType, QueueCounted
    <3> QED BY <1>0, <1>4, <3>1, BatchOfType DEF CollectData, QueueType
  <2>1. QueueType' /\ QueueCounted'
    BY <1>0, <1>4 DEF CollectData, QueueType, QueueCounted, queueVars, TryWaits
  <2>2. ControllerType'
    BY <1>0, <1>4, <2>0, <2>b DEF CollectData, ControllerType, CurrentOp, roundVars, VoteFor, Ops, VoteOps
  <2>3. SharedType'
    BY <1>0, <1>4 DEF CollectData, SharedType, feedbackVars
  <2>4. threads' \subseteq Thread
    BY <1>0, <1>4 DEF CollectData
  <2>5. DatabaseType'
    BY <1>0, <1>4 DEF CollectData, DatabaseType, databaseVars
  <2>6. BatchNeverEmpty' /\ CursorReachable'
    BY <1>0, <1>4, <2>0, <2>b DEF CollectData, BatchNeverEmpty, CursorReachable, Reachable, AtEnd, roundVars
  <2> QED BY <2>1, <2>2, <2>3, <2>4, <2>5, <2>6 DEF IInv, TypeOK
<1>5. CASE StartThread
  <2> DEFINE t == [ip |-> cursor, req |-> requestID, op |-> CurrentOp,
                   data |-> dataToSend, at |-> "prepare", count |-> 0, ret |-> 0,
                   late |-> FALSE]
  <2>0. t \in Thread /\ DOMAIN t.data # {}
    BY <1>0, <1>5 DEF StartThread, Thread, Results, Databases, ControllerType,
       BatchNeverEmpty, AtEnd
  <2>a. threads' = threads \cup {t}
    BY <1>5 DEF StartThread
  <2> HIDE DEF t
  <2>1. QueueType' /\ QueueCounted'
    BY <1>0, <1>5 DEF StartThread, QueueType, QueueCounted, queueVars
  <2>2. ControllerType'
    BY <1>0, <1>5 DEF StartThread, ControllerType, CurrentOp, roundVars
  <2>3. SharedType'
    BY <1>0, <1>5 DEF StartThread, SharedType, feedbackVars
  <2>4. threads' \subseteq Thread
    BY <1>0, <1>5, <2>0, <2>a DEF StartThread
  <2>5. DatabaseType'
    BY <1>0, <1>5 DEF StartThread, DatabaseType, databaseVars
  <2>6. BatchNeverEmpty' /\ CursorReachable'
    BY <1>0, <1>5, <2>0, <2>a DEF StartThread, BatchNeverEmpty, CursorReachable, Reachable, AtEnd, roundVars
  <2> QED BY <2>1, <2>2, <2>3, <2>4, <2>5, <2>6 DEF IInv, TypeOK
<1>6. CASE ThreadIsReady
  <2>0. cursor' \in 1..(NumDatabases + 1) /\ (AtEnd \/ Reachable(cursor))'
    <3>1. cursor \in 1..NumDatabases /\ Reachable(cursor)
      BY <1>0, <1>6 DEF ThreadIsReady, ControllerType, CursorReachable, AtEnd
    <3>2. CASE cursor' \in NextReachable(cursor)
      BY <1>0, <1>6, <3>1, <3>2, LoopGoesOn DEF ThreadIsReady
    <3>3. CASE UNCHANGED cursor
      BY <1>0, <1>6, <3>1, <3>3 DEF ThreadIsReady, Reachable
    <3> QED BY <1>6, <3>2, <3>3 DEF ThreadIsReady
  <2>a. pc = "ready" /\ pc' \in {"timedwait", "execute"} /\ UNCHANGED queueVars
    BY <1>6 DEF ThreadIsReady
  <2>1. QueueType' /\ QueueCounted'
    BY <1>0, <1>6, <2>a DEF ThreadIsReady, QueueType, QueueCounted, queueVars
  <2>2. ControllerType'
    BY <1>0, <1>6, <2>0 DEF ThreadIsReady, ControllerType, CurrentOp, roundVars
  <2>3. SharedType'
    BY <1>0, <1>6 DEF ThreadIsReady, SharedType, feedbackVars
  <2>4. threads' \subseteq Thread
    BY <1>0, <1>6 DEF ThreadIsReady
  <2>5. DatabaseType'
    BY <1>0, <1>6 DEF ThreadIsReady, DatabaseType, databaseVars
  <2>6. BatchNeverEmpty' /\ CursorReachable'
    BY <1>0, <1>6, <2>0 DEF ThreadIsReady, BatchNeverEmpty, CursorReachable, Reachable, AtEnd, roundVars
  <2> QED BY <2>1, <2>2, <2>3, <2>4, <2>5, <2>6 DEF IInv, TypeOK
<1>7. CASE AllStarted
  <2>0. cursor' \in 1..(NumDatabases + 1) /\ (AtEnd \/ Reachable(cursor))'
    BY <1>0, <1>7, LoopGoesOn DEF AllStarted, ControllerType, AtEnd
  <2>1. QueueType' /\ QueueCounted'
    BY <1>0, <1>7 DEF AllStarted, QueueType, QueueCounted, queueVars
  <2>2. ControllerType'
    BY <1>0, <1>7, <2>0 DEF AllStarted, ControllerType, CurrentOp, roundVars
  <2>3. SharedType'
    BY <1>0, <1>7 DEF AllStarted, SharedType, feedbackVars
  <2>4. threads' \subseteq Thread
    BY <1>0, <1>7 DEF AllStarted
  <2>5. DatabaseType'
    BY <1>0, <1>7 DEF AllStarted, DatabaseType, databaseVars
  <2>6. BatchNeverEmpty' /\ CursorReachable'
    BY <1>0, <1>7, <2>0 DEF AllStarted, BatchNeverEmpty, CursorReachable, Reachable, AtEnd, roundVars
  <2> QED BY <2>1, <2>2, <2>3, <2>4, <2>5, <2>6 DEF IInv, TypeOK
<1>8. CASE SetDeadline
  <2>0. cursor \in Databases
    BY <1>0, <1>8 DEF SetDeadline, ControllerType, AtEnd, Databases
  <2>b. /\ DOMAIN timestamps' \subseteq Keys
        /\ timestamps' \in [DOMAIN timestamps' -> {"zero", "future", "past"}]
    <3>1. DOMAIN timestamps' = DOMAIN timestamps \cup {<<cursor, requestID>>}
      BY <1>8 DEF SetDeadline
    <3>2. <<cursor, requestID>> \in Keys
      BY <1>0, <2>0 DEF Keys, ControllerType
    <3>3. ASSUME NEW k \in DOMAIN timestamps'
          PROVE  timestamps'[k] \in {"zero", "future", "past"}
      BY <1>0, <1>8, <3>1 DEF SetDeadline, SharedType
    <3>4. timestamps' = [k \in DOMAIN timestamps' |-> timestamps'[k]]
      BY <1>8 DEF SetDeadline
    <3> QED BY <1>0, <3>1, <3>2, <3>3, <3>4 DEF SharedType
  <2>a. threads' \subseteq Thread /\ \A u \in threads' : DOMAIN u.data # {}
    <3>1. ASSUME NEW t \in threads
          PROVE  /\ [t EXCEPT !.late = FALSE] \in Thread
                 /\ [t EXCEPT !.late = FALSE].data = t.data
      BY <1>0 DEF Thread
    <3> QED BY <1>0, <1>8, <3>1 DEF SetDeadline, BatchNeverEmpty
  <2>1. QueueType' /\ QueueCounted'
    BY <1>0, <1>8 DEF SetDeadline, QueueType, QueueCounted, queueVars
  <2>2. ControllerType'
    BY <1>0, <1>8 DEF SetDeadline, ControllerType, CurrentOp, roundVars
  <2>3. SharedType'
    BY <1>0, <1>8, <2>b DEF SetDeadline, SharedType, feedbackVars
  <2>4. threads' \subseteq Thread
    BY <1>0, <1>8, <2>a DEF SetDeadline
  <2>5. DatabaseType'
    BY <1>0, <1>8 DEF SetDeadline, DatabaseType, databaseVars
  <2>6. BatchNeverEmpty' /\ CursorReachable'
    BY <1>0, <1>8, <2>a DEF SetDeadline, BatchNeverEmpty, CursorReachable, Reachable, AtEnd, roundVars
  <2> QED BY <2>1, <2>2, <2>3, <2>4, <2>5, <2>6 DEF IInv, TypeOK
<1>9. CASE GetAnswer
  <2>0. /\ cursor' \in 1..(NumDatabases + 1) /\ (AtEnd \/ Reachable(cursor))'
        /\ numberOfTimeouts' \in [Databases -> 0..(MaxTimeouts + 1)]
    <3>1. cursor \in Databases /\ cursor \in 0..NumDatabases
      BY <1>0, <1>9 DEF GetAnswer, ControllerType, CursorReachable, AtEnd, Databases
    <3>2. CASE UNCHANGED numberOfTimeouts
      BY <1>0, <1>9, <3>1, <3>2, LoopGoesOn DEF GetAnswer, SharedType
    <3>3. CASE numberOfTimeouts' = [numberOfTimeouts EXCEPT ![cursor] = 0]
      <4>1. 0 \in 0..(MaxTimeouts + 1) /\ cursor' \in NextReachable(cursor)
        BY <1>0, <1>9 DEF GetAnswer
      <4> QED BY <1>0, <3>1, <3>3, <4>1, LoopGoesOnAfter
    <3> QED BY <1>9, <3>2, <3>3 DEF GetAnswer
  <2>1. QueueType' /\ QueueCounted'
    BY <1>0, <1>9 DEF GetAnswer, QueueType, QueueCounted, queueVars
  <2>2. ControllerType'
    BY <1>0, <1>9, <2>0 DEF GetAnswer, ControllerType, CurrentOp, roundVars
  <2>3. SharedType'
    BY <1>0, <1>9, <2>0 DEF GetAnswer, SharedType, feedbackVars
  <2>4. threads' \subseteq Thread
    BY <1>0, <1>9 DEF GetAnswer
  <2>5. DatabaseType'
    BY <1>0, <1>9 DEF GetAnswer, DatabaseType, databaseVars
  <2>6. BatchNeverEmpty' /\ CursorReachable'
    BY <1>0, <1>9, <2>0 DEF GetAnswer, BatchNeverEmpty, CursorReachable, Reachable, AtEnd, roundVars
  <2> QED BY <2>1, <2>2, <2>3, <2>4, <2>5, <2>6 DEF IInv, TypeOK
<1>10. CASE TimeOut
  <2>0. /\ pc = "timedwait" /\ pc' = "timedout"
        /\ UNCHANGED <<queueVars, roundVars, stage, cursor, readDeadline, numberOfTimeouts,
                       semaphore, feedbackVars, ready, threads, databaseVars>>
    BY <1>10 DEF TimeOut
  <2>1. QueueType' /\ QueueCounted'
    BY <1>0, <1>10, <2>0 DEF QueueType, QueueCounted, queueVars
  <2>2. ControllerType'
    BY <1>0, <1>10, <2>0 DEF ControllerType, CurrentOp, roundVars
  <2>3. SharedType'
    BY <1>0, <1>10, <2>0 DEF SharedType, feedbackVars
  <2>4. threads' \subseteq Thread
    BY <1>0, <1>10, <2>0
  <2>5. DatabaseType'
    BY <1>0, <1>10, <2>0 DEF DatabaseType, databaseVars
  <2>6. BatchNeverEmpty' /\ CursorReachable'
    BY <1>0, <1>10, <2>0 DEF BatchNeverEmpty, CursorReachable, Reachable, AtEnd, roundVars
  <2> QED BY <2>1, <2>2, <2>3, <2>4, <2>5, <2>6 DEF IInv, TypeOK
<1>11. CASE RecordTimeout
  <2> DEFINE n == numberOfTimeouts[cursor] + 1
  <2>a. cursor \in Databases /\ n \in 0..(MaxTimeouts + 1)
    BY <1>0, <1>11 DEF RecordTimeout, ControllerType, CursorReachable, AtEnd, Databases,
       Reachable, SharedType
  <2>b. /\ numberOfTimeouts' = [numberOfTimeouts EXCEPT ![cursor] = n]
        /\ cursor' \in NextReachable(cursor)
    BY <1>11 DEF RecordTimeout
  <2> HIDE DEF n
  <2>0. /\ cursor' \in 1..(NumDatabases + 1) /\ (AtEnd \/ Reachable(cursor))'
        /\ numberOfTimeouts' \in [Databases -> 0..(MaxTimeouts + 1)]
    BY <1>0, <2>a, <2>b, LoopGoesOnAfter
  <2>1. QueueType' /\ QueueCounted'
    BY <1>0, <1>11 DEF RecordTimeout, QueueType, QueueCounted, queueVars
  <2>2. ControllerType'
    BY <1>0, <1>11, <2>0 DEF RecordTimeout, ControllerType, CurrentOp, roundVars
  <2>3. SharedType'
    BY <1>0, <1>11, <2>0, <2>a DEF RecordTimeout, SharedType, feedbackVars, Results
  <2>4. threads' \subseteq Thread
    BY <1>0, <1>11 DEF RecordTimeout
  <2>5. DatabaseType'
    BY <1>0, <1>11 DEF RecordTimeout, DatabaseType, databaseVars
  <2>6. BatchNeverEmpty' /\ CursorReachable'
    BY <1>0, <1>11, <2>0 DEF RecordTimeout, BatchNeverEmpty, CursorReachable, Reachable, AtEnd, roundVars
  <2> QED BY <2>1, <2>2, <2>3, <2>4, <2>5, <2>6 DEF IInv, TypeOK
<1>12. CASE AllAnswered
  <2>0. cursor' \in 1..(NumDatabases + 1) /\ (AtEnd \/ Reachable(cursor))'
    BY <1>0, <1>12, LoopGoesOn DEF AllAnswered, ControllerType, AtEnd
  <2>1. QueueType' /\ QueueCounted'
    BY <1>0, <1>12 DEF AllAnswered, QueueType, QueueCounted, queueVars
  <2>2. ControllerType'
    BY <1>0, <1>12, <2>0 DEF AllAnswered, ControllerType, CurrentOp, roundVars
  <2>3. SharedType'
    BY <1>0, <1>12 DEF AllAnswered, SharedType, feedbackVars
  <2>4. threads' \subseteq Thread
    BY <1>0, <1>12 DEF AllAnswered
  <2>5. DatabaseType'
    BY <1>0, <1>12 DEF AllAnswered, DatabaseType, databaseVars
  <2>6. BatchNeverEmpty' /\ CursorReachable'
    BY <1>0, <1>12, <2>0 DEF AllAnswered, BatchNeverEmpty, CursorReachable, Reachable, AtEnd, roundVars
  <2> QED BY <2>1, <2>2, <2>3, <2>4, <2>5, <2>6 DEF IInv, TypeOK
<1>13. CASE AcceptVote
  <2>0. cursor' \in 1..(NumDatabases + 1) /\ (AtEnd \/ Reachable(cursor))'
    BY <1>0, <1>13, LoopGoesOn DEF AcceptVote, ControllerType, AtEnd
  <2>1. QueueType' /\ QueueCounted'
    BY <1>0, <1>13 DEF AcceptVote, QueueType, QueueCounted, queueVars
  <2>2. ControllerType'
    BY <1>0, <1>13, <2>0 DEF AcceptVote, ControllerType, CurrentOp, roundVars
  <2>3. SharedType'
    BY <1>0, <1>13 DEF AcceptVote, SharedType, feedbackVars
  <2>4. threads' \subseteq Thread
    BY <1>0, <1>13 DEF AcceptVote
  <2>5. DatabaseType'
    BY <1>0, <1>13 DEF AcceptVote, DatabaseType, databaseVars
  <2>6. BatchNeverEmpty' /\ CursorReachable'
    BY <1>0, <1>13, <2>0 DEF AcceptVote, BatchNeverEmpty, CursorReachable, Reachable, AtEnd, roundVars
  <2> QED BY <2>1, <2>2, <2>3, <2>4, <2>5, <2>6 DEF IInv, TypeOK
<1>14. CASE Abort
  <2>1. QueueType' /\ QueueCounted'
    BY <1>0, <1>14 DEF Abort, QueueType, QueueCounted, queueVars
  <2>2. ControllerType'
    BY <1>0, <1>14, InsertAllIsMap DEF Abort, ControllerType, CurrentOp, roundVars, Batches
  <2>3. SharedType'
    BY <1>0, <1>14, ResetType DEF Abort, SharedType, feedbackVars
  <2>4. threads' \subseteq Thread
    BY <1>0, <1>14 DEF Abort
  <2>5. DatabaseType'
    BY <1>0, <1>14 DEF Abort, DatabaseType, databaseVars
  <2>6. BatchNeverEmpty' /\ CursorReachable'
    BY <1>0, <1>14 DEF Abort, BatchNeverEmpty, CursorReachable, Reachable, AtEnd, roundVars
  <2> QED BY <2>1, <2>2, <2>3, <2>4, <2>5, <2>6 DEF IInv, TypeOK
<1>15. CASE ExitUnvoted
  <2>1. QueueType' /\ QueueCounted'
    BY <1>0, <1>15 DEF ExitUnvoted, QueueType, QueueCounted, queueVars
  <2>2. ControllerType'
    BY <1>0, <1>15 DEF ExitUnvoted, ControllerType, CurrentOp, roundVars
  <2>3. SharedType'
    BY <1>0, <1>15 DEF ExitUnvoted, SharedType, feedbackVars
  <2>4. threads' \subseteq Thread
    BY <1>0, <1>15 DEF ExitUnvoted
  <2>5. DatabaseType'
    BY <1>0, <1>15 DEF ExitUnvoted, DatabaseType, databaseVars
  <2>6. BatchNeverEmpty' /\ CursorReachable'
    BY <1>0, <1>15 DEF ExitUnvoted, BatchNeverEmpty, CursorReachable, Reachable, AtEnd, roundVars
  <2> QED BY <2>1, <2>2, <2>3, <2>4, <2>5, <2>6 DEF IInv, TypeOK
<1>16. CASE Commit
  <2>0. cursor' \in 1..(NumDatabases + 1) /\ (AtEnd \/ Reachable(cursor))'
    BY <1>0, <1>16, LoopGoesOn DEF Commit
  <2>1. QueueType' /\ QueueCounted'
    BY <1>0, <1>16 DEF Commit, QueueType, QueueCounted, queueVars
  <2>2. ControllerType'
    BY <1>0, <1>16, <2>0 DEF Commit, ControllerType, CurrentOp, roundVars, Ops, CommitOps
  <2>3. SharedType'
    BY <1>0, <1>16 DEF Commit, SharedType, feedbackVars
  <2>4. threads' \subseteq Thread
    BY <1>0, <1>16 DEF Commit
  <2>5. DatabaseType'
    BY <1>0, <1>16 DEF Commit, DatabaseType, databaseVars
  <2>6. BatchNeverEmpty' /\ CursorReachable'
    BY <1>0, <1>16, <2>0 DEF Commit, BatchNeverEmpty, CursorReachable, Reachable, AtEnd, roundVars
  <2> QED BY <2>1, <2>2, <2>3, <2>4, <2>5, <2>6 DEF IInv, TypeOK
<1>17. CASE FinishCreate
  <2>0. /\ cursor' \in 1..(NumDatabases + 1)
        /\ pc' = "execute" => (AtEnd \/ Reachable(cursor))'
    BY <1>0, <1>17, LoopGoesOn DEF FinishCreate, ControllerType
  <2>a. /\ command' \in {"create", "update", "delete", "read"}
        /\ stage' \in {"vote", "commit"} /\ CurrentOp' \in Ops
    BY <1>0, <1>17 DEF FinishCreate, ControllerType, CurrentOp, VoteFor, Ops, VoteOps,
       CommitOps
  <2>b. buffer' \in Batches
    BY <1>17, EmptyMapIsMap DEF FinishCreate, Batches
  <2>1. QueueType' /\ QueueCounted'
    BY <1>0, <1>17 DEF FinishCreate, QueueType, QueueCounted, queueVars
  <2>2. ControllerType'
    BY <1>0, <1>17, <2>0, <2>a, <2>b DEF FinishCreate, ControllerType, CurrentOp, roundVars
  <2>3. SharedType'
    BY <1>0, <1>17, ResetType DEF FinishCreate, SharedType, feedbackVars
  <2>4. threads' \subseteq Thread
    BY <1>0, <1>17 DEF FinishCreate
  <2>5. DatabaseType'
    BY <1>0, <1>17 DEF FinishCreate, DatabaseType, databaseVars
  <2>6. BatchNeverEmpty' /\ CursorReachable'
    BY <1>0, <1>17, <2>0 DEF FinishCreate, BatchNeverEmpty, CursorReachable, Reachable, AtEnd, roundVars
  <2> QED BY <2>1, <2>2, <2>3, <2>4, <2>5, <2>6 DEF IInv, TypeOK
<1>18. CASE FinishOther
  <2>1. QueueType' /\ QueueCounted'
    BY <1>0, <1>18 DEF FinishOther, QueueType, QueueCounted, queueVars
  <2>2. ControllerType'
    BY <1>0, <1>18 DEF FinishOther, ControllerType, CurrentOp, roundVars
  <2>3. SharedType'
    BY <1>0, <1>18, ResetType DEF FinishOther, SharedType, feedbackVars
  <2>4. threads' \subseteq Thread
    BY <1>0, <1>18 DEF FinishOther
  <2>5. DatabaseType'
    BY <1>0, <1>18 DEF FinishOther, DatabaseType, databaseVars
  <2>6. BatchNeverEmpty' /\ CursorReachable'
    BY <1>0, <1>18 DEF FinishOther, BatchNeverEmpty, CursorReachable, Reachable, AtEnd, roundVars
  <2> QED BY <2>1, <2>2, <2>3, <2>4, <2>5, <2>6 DEF IInv, TypeOK
<1> QED BY <1>1, <1>2, <1>3, <1>4, <1>5, <1>6, <1>7, <1>8, <1>9, <1>10, <1>11, <1>12, <1>13, <1>14, <1>15, <1>16, <1>17, <1>18 DEF Controller

\* What the steps of a thread have in common: of the controller's state they
\* change nothing, and the thread that goes on has its type and a batch.
LEMMA ThreadGoesOn ==
  ASSUME IInv, NEW t \in threads, NEW u \in Thread, u.data = t.data, Replace(t, u)
  PROVE  threads' \subseteq Thread /\ \A v \in threads' : DOMAIN v.data # {}
BY DEF Replace, IInv, TypeOK, BatchNeverEmpty

LEMMA ThreadStepIInv ==
  ASSUME IInv, NEW t \in threads, ThreadStep(t)
  PROVE  IInv'
<1> USE DEF IInv, TypeOK, QueueType, ControllerType, SharedType, DatabaseType,
        QueueCounted, BatchNeverEmpty, CursorReachable, CurrentOp, Reachable, AtEnd,
        queueVars, roundVars, feedbackVars, databaseVars
<1>0. /\ t \in Thread /\ t.ip \in Databases /\ t.req \in Nat /\ <<t.ip, t.req>> \in Keys
      /\ t.op \in Ops /\ t.data \in Batches /\ t.count \in Nat /\ t.ret \in Results
      /\ DOMAIN t.data # {}
  BY DEF Thread, Keys
<1>1. CASE Prepare(t)
  <2>1. SharedType'
    <3>1. [k \in {<<t.ip, t.req>>} |-> "zero"] \in MapsOf(Keys, {"zero", "future", "past"})
      BY <1>0, MapsOfMember
    <3>2. timestamps \in MapsOf(Keys, {"zero", "future", "past"})
      BY MapsOfMember
    <3>3. timestamps' \in MapsOf(Keys, {"zero", "future", "past"})
      BY <1>1, <3>1, <3>2, InsertAllIsMap DEF Prepare
    <3>4. /\ DOMAIN timestamps' \subseteq Keys
          /\ timestamps' \in [DOMAIN timestamps' -> {"zero", "future", "past"}]
      BY <3>3, MapsOfMember
    <3> QED BY <1>1, <3>4 DEF Prepare
  <2>2. semaphore[t.ip] \in Nat
    BY <1>0
  <2>3. [t EXCEPT !.at = "drain", !.count = semaphore[t.ip]] \in Thread
    BY <2>2 DEF Thread
  <2>4. threads' \subseteq Thread /\ \A v \in threads' : DOMAIN v.data # {}
    BY <1>1, <2>3, ThreadGoesOn DEF Prepare, Thread
  <2> QED BY <1>1, <2>1, <2>4 DEF Prepare
<1>2. CASE Drain(t)
  <2>1. SharedType'
    <3>1. TryWaits(semaphore[t.ip], t.count) \in Nat
      BY <1>0, TryWaitsType
    <3>2. semaphore' \in [Databases -> Nat]
      BY <1>2, <3>1 DEF Drain
    <3> QED BY <1>2, <3>2 DEF Drain
  <2>2. [t EXCEPT !.at = "call", !.count = 0] \in Thread
    BY DEF Thread
  <2>3. threads' \subseteq Thread /\ \A v \in threads' : DOMAIN v.data # {}
    BY <1>2, <2>2, ThreadGoesOn DEF Drain, Thread
  <2> QED BY <1>2, <2>1, <2>3 DEF Drain
<1>3. CASE Execute(t)
  <2> DEFINE result == HandleCall(t.op, store[t.ip], t.data)
  <2>1. result.store \in Batches /\ result.ret \in Results
    BY <1>0, HandleCallType DEF Batches
  <2>2. DatabaseType'
    BY <1>0, <1>3, <2>1 DEF Execute
  <2>3. [t EXCEPT !.at = "executed", !.ret = result.ret] \in Thread
    BY <2>1 DEF Thread
  <2>4. threads' \subseteq Thread /\ \A v \in threads' : DOMAIN v.data # {}
    <3>1. CASE t.at = "call"
      BY <1>3, <2>3, <3>1, ThreadGoesOn DEF Execute, Thread
    <3>2. CASE t.at = "abandoned"
      BY <1>3, <3>2 DEF Execute
    <3> QED BY <1>3, <3>1, <3>2 DEF Execute
  <2> HIDE DEF result
  <2> QED BY <1>3, <2>2, <2>4 DEF Execute
<1>4. CASE Return(t)
  <2>1. SharedType'
    BY <1>0, <1>4 DEF Return
  <2> DEFINE late == /\ t.op \in VoteOps
                     /\ <<t.ip, t.req>> \in DOMAIN timestamps
                     /\ timestamps[<<t.ip, t.req>>] = "past"
  <2>2. [t EXCEPT !.at = "answered", !.late = late] \in Thread
    BY DEF Thread
  <2>3. threads' \subseteq Thread /\ \A v \in threads' : DOMAIN v.data # {}
    BY <1>4, <2>2, ThreadGoesOn DEF Return, Thread
  <2> QED BY <1>4, <2>1, <2>3 DEF Return
<1>5. CASE RecordVote(t)
  <2>1. SharedType'
    <3>1. [k \in {<<t.ip, t.req>>} |-> "zero"] \in MapsOf(Keys, {"zero", "future", "past"})
      BY <1>0, MapsOfMember
    <3>2. timestamps \in MapsOf(Keys, {"zero", "future", "past"})
      BY MapsOfMember
    <3>3. timestamps' \in MapsOf(Keys, {"zero", "future", "past"})
      BY <1>5, <3>1, <3>2, InsertAllIsMap DEF RecordVote
    <3>4. /\ DOMAIN timestamps' \subseteq Keys
          /\ timestamps' \in [DOMAIN timestamps' -> {"zero", "future", "past"}]
      BY <3>3, MapsOfMember
    <3>5. /\ votingResult' \in [Databases -> Results]
          /\ semaphore' \in [Databases -> Nat]
      <4>1. CASE UNCHANGED <<votingResult, semaphore>>
        BY <4>1
      <4>2. CASE /\ votingResult' = [votingResult EXCEPT ![t.ip] = t.ret]
                 /\ semaphore' = [semaphore EXCEPT ![t.ip] = @ + 1]
        BY <1>0, <4>2
      <4> QED BY <1>5, <4>1, <4>2 DEF RecordVote
    <3> QED BY <1>5, <3>4, <3>5 DEF RecordVote
  <2> QED BY <1>5, <2>1 DEF RecordVote
<1>6. CASE Signal(t)
  <2>1. SharedType'
    BY <1>0, <1>6 DEF Signal
  <2> QED BY <1>6, <2>1 DEF Signal
<1>7. CASE ConnectionFails(t)
  <2>1. SharedType'
    BY <1>0, <1>7 DEF ConnectionFails, Results
  <2>2. [t EXCEPT !.at = "abandoned"] \in Thread
    BY DEF Thread
  <2>3. threads' \subseteq Thread /\ \A v \in threads' : DOMAIN v.data # {}
    BY <1>7, <2>2, ThreadGoesOn DEF ConnectionFails, Thread
  <2> QED BY <1>7, <2>1, <2>3 DEF ConnectionFails
<1> QED BY <1>1, <1>2, <1>3, <1>4, <1>5, <1>6, <1>7 DEF ThreadStep

\* The invariant is inductive.
THEOREM StepIInv == IInv /\ [Next]_vars => IInv'
<1> SUFFICES ASSUME IInv, [Next]_vars PROVE IInv'
  OBVIOUS
<1>1. ASSUME NEW id \in Ids, NEW value \in Values, Post(id, value) PROVE IInv'
  <2>1. QueueType' /\ QueueCounted'
    <3>1. /\ sensorMetadatas' \in Seq([id : Ids, value : Values])
          /\ Len(sensorMetadatas') = Len(sensorMetadatas) + 1
      BY <1>1 DEF Post, IInv, TypeOK, QueueType
    <3> QED BY <1>1, <3>1, CoordinatorAssumption
        DEF Post, IInv, TypeOK, QueueType, QueueCounted
  <2> QED BY <1>1, <2>1
      DEF Post, IInv, TypeOK, ControllerType, CurrentOp, SharedType, DatabaseType,
          BatchNeverEmpty, CursorReachable, Reachable, AtEnd, roundVars, feedbackVars,
          databaseVars
<1>2. CASE Controller
  BY <1>2, ControllerIInv
<1>3. ASSUME NEW t \in threads, ThreadStep(t) PROVE IInv'
  BY <1>3, ThreadStepIInv
<1>4. ASSUME NEW k \in DOMAIN timestamps, DeadlinePasses(k) PROVE IInv'
  <2>1. SharedType'
    BY <1>4 DEF DeadlinePasses, IInv, TypeOK, SharedType, feedbackVars
  <2> QED BY <1>4, <2>1
      DEF DeadlinePasses, IInv, TypeOK, QueueType, ControllerType, CurrentOp,
          DatabaseType, QueueCounted, BatchNeverEmpty, CursorReachable, Reachable, AtEnd,
          queueVars, roundVars, databaseVars
<1>5. CASE ReadDeadlinePasses
  BY <1>5
  DEF ReadDeadlinePasses, IInv, TypeOK, QueueType, ControllerType, CurrentOp, SharedType,
      DatabaseType, QueueCounted, BatchNeverEmpty, CursorReachable, Reachable, AtEnd,
      queueVars, roundVars, feedbackVars, databaseVars
<1>6. ASSUME NEW d \in Databases, Crash(d) PROVE IInv'
  <2>1. DatabaseType'
    BY <1>6 DEF Crash, IInv, TypeOK, DatabaseType
  <2> QED BY <1>6, <2>1
      DEF Crash, IInv, TypeOK, QueueType, ControllerType, CurrentOp, SharedType,
          QueueCounted, BatchNeverEmpty, CursorReachable, Reachable, AtEnd,
          queueVars, roundVars, feedbackVars
<1>7. CASE UNCHANGED vars
  BY <1>7
  DEF vars, IInv, TypeOK, QueueType, ControllerType, CurrentOp, SharedType,
      DatabaseType, QueueCounted, BatchNeverEmpty, CursorReachable, Reachable, AtEnd,
      queueVars, roundVars, feedbackVars, databaseVars
<1> QED
  BY <1>1, <1>2, <1>3, <1>4, <1>5, <1>6, <1>7 DEF Next

\* In every state of every execution the four invariants hold.
THEOREM Invariance == Spec => []IInv
BY InitIInv, StepIInv, PTL DEF Spec

\* Every variable has its type, and no database is charged with more than
\* MaxTimeouts + 1 timeouts in a row.
THEOREM TypeCorrect == Spec => []TypeOK
<1>1. IInv => TypeOK
  BY DEF IInv
<1> QED BY <1>1, Invariance, PTL

\* The permits of the semaphore are the data sets of the vector, so the
\* controller neither starts on nothing nor sleeps beside waiting data.
THEOREM QueueIsCounted == Spec => []QueueCounted
<1>1. IInv => QueueCounted
  BY DEF IInv
<1> QED BY <1>1, Invariance, PTL

\* dataToSend.begin() is never the end of an empty map.
THEOREM NoEmptyBatch == Spec => []BatchNeverEmpty
<1>1. IInv => BatchNeverEmpty
  BY DEF IInv
<1> QED BY <1>1, Invariance, PTL

\* The controller only ever deals with reachable databases.
THEOREM CursorIsReachable == Spec => []CursorReachable
<1>1. IInv => CursorReachable
  BY DEF IInv
<1> QED BY <1>1, Invariance, PTL

-----------------------------------------------------------------------------
(* The handshake between the controller and the thread it has started *)

\* From its call on, what a thread does makes no thread that is being started.
LEMMA CallStepThreads ==
  ASSUME threads \subseteq Thread, NEW t \in threads,
         Execute(t) \/ Return(t) \/ RecordVote(t) \/ Signal(t) \/ ConnectionFails(t)
  PROVE  /\ t.at \notin {"prepare", "drain"}
         /\ \E u : /\ u.at \notin {"prepare", "drain"}
                  /\ threads' \in {threads \ {t}, (threads \ {t}) \cup {u}}
<1>1. CASE Execute(t)
  <2> DEFINE u == [t EXCEPT !.at = "executed",
                            !.ret = HandleCall(t.op, store[t.ip], t.data).ret]
  <2>1. threads' \in {threads \ {t}, (threads \ {t}) \cup {u}} /\ t.at \notin {"prepare", "drain"}
    BY <1>1 DEF Execute, Replace
  <2>2. u.at = "executed"
    BY DEF Thread
  <2> QED BY <2>1, <2>2
<1>2. CASE Return(t)
  <2> DEFINE u == [t EXCEPT !.at = "answered",
                            !.late = /\ t.op \in VoteOps
                                     /\ <<t.ip, t.req>> \in DOMAIN timestamps
                                     /\ timestamps[<<t.ip, t.req>>] = "past"]
  <2>1. threads' = (threads \ {t}) \cup {u} /\ t.at \notin {"prepare", "drain"}
    BY <1>2 DEF Return, Replace
  <2>2. u.at = "answered"
    BY DEF Thread
  <2> QED BY <2>1, <2>2
<1>3. CASE RecordVote(t) \/ Signal(t)
  BY <1>3 DEF RecordVote, Signal
<1>4. CASE ConnectionFails(t)
  <2> DEFINE u == [t EXCEPT !.at = "abandoned"]
  <2>1. threads' \in {threads \ {t}, (threads \ {t}) \cup {u}} /\ t.at \notin {"prepare", "drain"}
    BY <1>4 DEF ConnectionFails, Replace
  <2>2. u.at = "abandoned"
    BY DEF Thread
  <2> QED BY <2>1, <2>2
<1> QED BY <1>1, <1>2, <1>3, <1>4

LEMMA StepHandshake == IInv /\ Handshake /\ [Next]_vars => Handshake'
<1> SUFFICES ASSUME IInv, Handshake, [Next]_vars PROVE Handshake'
  OBVIOUS
<1>0. threads \subseteq Thread /\ ready \in Nat
  BY DEF IInv, TypeOK, SharedType
\* Most steps leave the threads, the semaphore and the controller's place in the
\* handshake alone.
<1>a. ASSUME UNCHANGED <<threads, ready>>, pc # "ready", pc' # "ready"
      PROVE  Handshake'
  BY <1>a DEF Handshake, Starting
<1>b. ASSUME UNCHANGED <<threads, ready, pc, cursor, requestID>>
      PROVE  Handshake'
  BY <1>b DEF Handshake, Starting
<1>c. ASSUME Starting' = Starting, UNCHANGED <<ready, pc, cursor, requestID>>
      PROVE  Handshake'
  BY <1>c DEF Handshake
<1>1. ASSUME NEW id \in Ids, NEW value \in Values, Post(id, value) PROVE Handshake'
  BY <1>1, <1>b DEF Post, roundVars
<1>2. CASE \/ Stop \/ BeginIteration \/ AwaitData \/ CollectData \/ AllStarted
           \/ GetAnswer \/ TimeOut \/ RecordTimeout \/ AllAnswered \/ AcceptVote
           \/ Abort \/ ExitUnvoted \/ Commit \/ FinishCreate \/ FinishOther
  <2>1. CASE Stop \/ BeginIteration \/ AwaitData \/ CollectData
    BY <1>a, <2>1 DEF Stop, BeginIteration, AwaitData, CollectData
  <2>2. CASE AllStarted \/ GetAnswer \/ TimeOut \/ RecordTimeout
    BY <1>a, <2>2 DEF AllStarted, GetAnswer, TimeOut, RecordTimeout
  <2>3. CASE AllAnswered \/ AcceptVote \/ Abort \/ ExitUnvoted
    BY <1>a, <2>3 DEF AllAnswered, AcceptVote, Abort, ExitUnvoted
  <2>4. CASE Commit \/ FinishCreate \/ FinishOther
    BY <1>a, <2>4 DEF Commit, FinishCreate, FinishOther
  <2> QED BY <1>2, <2>1, <2>2, <2>3, <2>4
<1>3. CASE StartThread
  <2> DEFINE t == [ip |-> cursor, req |-> requestID, op |-> CurrentOp,
                   data |-> dataToSend, at |-> "prepare", count |-> 0, ret |-> 0,
                   late |-> FALSE]
  <2>1. Starting = {} /\ ready = 0
    BY <1>3 DEF StartThread, Handshake
  <2>2. threads' = threads \cup {t} /\ pc' = "ready" /\ UNCHANGED <<ready, cursor, requestID>>
    BY <1>3 DEF StartThread, roundVars
  <2>3. Starting' = {t}
    BY <2>1, <2>2 DEF Starting
  <2> QED BY <2>1, <2>2, <2>3 DEF Handshake
<1>4. CASE ThreadIsReady
  <2>1. Starting = {} /\ ready = 1
    BY <1>4 DEF ThreadIsReady, Handshake
  <2>2. Starting' = Starting /\ ready' = 0 /\ pc' # "ready"
    BY <1>4, <2>1 DEF ThreadIsReady, Starting
  <2> QED BY <2>1, <2>2 DEF Handshake
<1>5. CASE SetDeadline
  <2>1. pc # "ready" /\ pc' # "ready" /\ UNCHANGED ready
    BY <1>5 DEF SetDeadline
  <2>2. Starting = {}
    BY <2>1 DEF Handshake
  <2>3. \A u \in threads' : \E t \in threads : u.at = t.at
    BY <1>0, <1>5 DEF SetDeadline, Thread
  <2>4. Starting' = {}
    BY <2>2, <2>3 DEF Starting
  <2> QED BY <2>1, <2>2, <2>4 DEF Handshake
<1>6. ASSUME NEW t \in threads, Prepare(t) PROVE Handshake'
  <2> DEFINE u == [t EXCEPT !.at = "drain", !.count = semaphore[t.ip]]
  <2>1. t \in Starting /\ Starting = {t}
    BY <1>6 DEF Prepare, Starting, Handshake
  <2>2. u.at = "drain" /\ u.ip = t.ip /\ u.req = t.req
    BY <1>0 DEF Thread
  <2>3. /\ threads' = (threads \ {t}) \cup {u}
        /\ UNCHANGED <<pc, ready, cursor, requestID>>
    BY <1>6 DEF Prepare, Replace, roundVars
  <2> HIDE DEF u
  <2>4. Starting' = {u}
    BY <2>1, <2>2, <2>3 DEF Starting
  <2> QED BY <2>1, <2>2, <2>3, <2>4 DEF Handshake
<1>7. ASSUME NEW t \in threads, Drain(t) PROVE Handshake'
  <2> DEFINE u == [t EXCEPT !.at = "call", !.count = 0]
  <2>1. t \in Starting /\ Starting = {t} /\ pc = "ready" /\ ready = 0
    BY <1>7 DEF Drain, Starting, Handshake
  <2>2. u.at = "call"
    BY <1>0 DEF Thread
  <2>3. threads' = (threads \ {t}) \cup {u} /\ UNCHANGED pc /\ ready' = 1
    BY <1>7, <2>1 DEF Drain, Replace
  <2> HIDE DEF u
  <2>4. Starting' = {}
    BY <2>1, <2>2, <2>3 DEF Starting
  <2> QED BY <2>1, <2>3, <2>4 DEF Handshake
<1>8. ASSUME NEW t \in threads,
             Execute(t) \/ Return(t) \/ RecordVote(t) \/ Signal(t) \/ ConnectionFails(t)
      PROVE  Handshake'
  <2>1. UNCHANGED <<ready, pc, cursor, requestID>>
    BY <1>8 DEF Execute, Return, RecordVote, Signal, ConnectionFails, roundVars
  <2>2. Starting' = Starting
    BY <1>0, <1>8, CallStepThreads DEF Starting
  <2> QED BY <1>c, <2>1, <2>2
<1>10. ASSUME NEW k \in DOMAIN timestamps, DeadlinePasses(k) PROVE Handshake'
  BY <1>10, <1>b DEF DeadlinePasses, roundVars
<1>11. CASE ReadDeadlinePasses
  BY <1>11, <1>b DEF ReadDeadlinePasses, roundVars
<1>12. ASSUME NEW d \in Databases, Crash(d) PROVE Handshake'
  <2>1. Starting' = Starting /\ UNCHANGED <<ready, pc, cursor, requestID>>
    BY <1>12 DEF Crash, Starting, roundVars
  <2> QED BY <1>c, <2>1
<1>13. CASE UNCHANGED vars
  BY <1>13, <1>b DEF vars, roundVars
<1> QED
  BY <1>1, <1>2, <1>3, <1>4, <1>5, <1>6, <1>7, <1>8, <1>10, <1>11, <1>12,
     <1>13 DEF Next, Controller, ThreadStep

\* The semaphore threadIsReadyToSendDataToTheDatabases is posted exactly once for
\* each thread the controller starts, by this thread, however late others are.
THEOREM HandshakeHolds == Spec => []Handshake
<1>1. Init => Handshake
  BY DEF Init, Handshake, Starting
<1> QED BY <1>1, Invariance, StepHandshake, PTL DEF Spec

-----------------------------------------------------------------------------
(* A database that is excluded stays so *)

LEMMA StepExcluded ==
  ASSUME IInv, [Next]_vars, NEW d \in Databases, ~Reachable(d)
  PROVE  /\ ~Reachable(d)'
         /\ \A t \in threads' : t.ip = d /\ t.at = "prepare" => t \in threads
<1> DEFINE Excluded == /\ ~Reachable(d)'
                       /\ \A t \in threads' : t.ip = d /\ t.at = "prepare" => t \in threads
<1>0. /\ threads \subseteq Thread /\ SharedType /\ CursorReachable
      /\ cursor \in 1..(NumDatabases + 1) /\ NumDatabases \in Nat
  BY CoordinatorAssumption DEF IInv, TypeOK, ControllerType
<1>a. ASSUME UNCHANGED <<threads, numberOfTimeouts>> PROVE Excluded
  BY <1>a DEF Reachable
<1>1. ASSUME NEW id \in Ids, NEW value \in Values, Post(id, value) PROVE Excluded
  BY <1>1, <1>a DEF Post
<1>2. CASE \/ Stop \/ BeginIteration \/ AwaitData \/ CollectData \/ ThreadIsReady
           \/ AllStarted \/ TimeOut \/ AllAnswered \/ AcceptVote
           \/ Abort \/ ExitUnvoted \/ Commit \/ FinishCreate \/ FinishOther
  <2>1. CASE Stop \/ BeginIteration \/ AwaitData \/ CollectData \/ ThreadIsReady
    BY <1>a, <2>1 DEF Stop, BeginIteration, AwaitData, CollectData, ThreadIsReady
  <2>2. CASE AllStarted \/ TimeOut \/ AllAnswered \/ AcceptVote
    BY <1>a, <2>2 DEF AllStarted, TimeOut, AllAnswered, AcceptVote
  <2>3. CASE Abort \/ ExitUnvoted \/ Commit \/ FinishCreate \/ FinishOther
    BY <1>a, <2>3 DEF Abort, ExitUnvoted, Commit, FinishCreate, FinishOther
  <2> QED BY <1>2, <2>1, <2>2, <2>3
<1>3. CASE StartThread
  <2>1. d # cursor
    BY <1>0, <1>3 DEF StartThread, CursorReachable
  <2> QED BY <1>3, <2>1 DEF StartThread, Reachable
<1>4. CASE SetDeadline
  <2>1. d # cursor
    <3>1. AtEnd \/ Reachable(cursor)
      BY <1>0, <1>4 DEF SetDeadline, CursorReachable
    <3> QED BY <1>4, <3>1 DEF SetDeadline
  <2>2. ASSUME NEW u \in threads', u.ip = d PROVE u \in threads
    <3>1. PICK t \in threads : u = IF t.ip = cursor /\ t.req = requestID
                                     THEN [t EXCEPT !.late = FALSE] ELSE t
      BY <1>4 DEF SetDeadline
    <3>2. u.ip = t.ip
      BY <1>0, <3>1 DEF Thread
    <3> QED BY <2>1, <2>2, <3>1, <3>2
  <2> QED BY <1>4, <2>2 DEF SetDeadline, Reachable
<1>5. CASE GetAnswer \/ RecordTimeout
  <2>1. d # cursor
    <3>1. AtEnd \/ Reachable(cursor)
      BY <1>0, <1>5 DEF GetAnswer, RecordTimeout, CursorReachable
    <3>2. ~AtEnd
      BY <1>0, <1>5 DEF GetAnswer, RecordTimeout, CursorReachable
    <3> QED BY <3>1, <3>2
  <2>2. numberOfTimeouts'[d] = numberOfTimeouts[d] /\ UNCHANGED threads
    BY <1>0, <1>5, <2>1 DEF GetAnswer, RecordTimeout, SharedType
  <2> QED BY <2>2 DEF Reachable
<1>6. ASSUME NEW t \in threads, Prepare(t) PROVE Excluded
  <2> DEFINE u == [t EXCEPT !.at = "drain", !.count = semaphore[t.ip]]
  <2>1. u.at = "drain" /\ threads' = (threads \ {t}) \cup {u} /\ UNCHANGED numberOfTimeouts
    BY <1>0, <1>6 DEF Prepare, Replace, Thread
  <2> HIDE DEF u
  <2> QED BY <2>1 DEF Reachable
<1>7. ASSUME NEW t \in threads, Drain(t) PROVE Excluded
  <2> DEFINE u == [t EXCEPT !.at = "call", !.count = 0]
  <2>1. u.at = "call" /\ threads' = (threads \ {t}) \cup {u} /\ UNCHANGED numberOfTimeouts
    BY <1>0, <1>7 DEF Drain, Replace, Thread
  <2> HIDE DEF u
  <2> QED BY <2>1 DEF Reachable
<1>8. ASSUME NEW t \in threads,
             Execute(t) \/ Return(t) \/ RecordVote(t) \/ Signal(t) \/ ConnectionFails(t)
      PROVE  Excluded
  <2>1. UNCHANGED numberOfTimeouts
    BY <1>8 DEF Execute, Return, RecordVote, Signal, ConnectionFails
  <2> QED BY <1>0, <1>8, <2>1, CallStepThreads DEF Reachable
<1>11. ASSUME NEW k \in DOMAIN timestamps, DeadlinePasses(k) PROVE Excluded
  BY <1>11, <1>a DEF DeadlinePasses
<1>12. CASE ReadDeadlinePasses
  BY <1>12, <1>a DEF ReadDeadlinePasses
<1>13. ASSUME NEW e \in Databases, Crash(e) PROVE Excluded
  BY <1>13 DEF Crash, Reachable
<1>14. CASE UNCHANGED vars
  BY <1>14, <1>a DEF vars
<1> QED
  BY <1>1, <1>2, <1>3, <1>4, <1>5, <1>6, <1>7, <1>8, <1>11, <1>12,
     <1>13, <1>14 DEF Next, Controller, ThreadStep

\* Once a database has missed too many deadlines in a row it is given no call
\* any more, and no late answer of it brings it back.
THEOREM ExclusionIsFinal == Spec => ExcludedForGood
<1>1. IInv /\ [Next]_vars =>
        [\A d \in Databases : ~Reachable(d) =>
           /\ ~Reachable(d)'
           /\ \A t \in threads' : t.ip = d /\ t.at = "prepare" => t \in threads]_vars
  BY StepExcluded
<1> QED BY <1>1, Invariance, PTL DEF Spec, ExcludedForGood

-----------------------------------------------------------------------------
(* The threads make remote calls: the two-phase commit needs nothing else of its
   databases. *)

InCall == {"call", "executed", "abandoned"}
RemoteCalls == {t \in threads : t.at \in InCall}

\* A thread compares times only when its call is over: until then nothing
\* distinguishes it from another one of the same request.
LateWhenAnswered == \A t \in threads : t.at # "answered" => t.late = FALSE

\* One thread goes on as another record, or ends.
LEMMA ThreadChanges ==
  ASSUME LateWhenAnswered, NEW t \in threads, NEW u,
         threads' = (threads \ {t}) \cup {u} \/ threads' = threads \ {t},
         u.at # "answered" => u.late = FALSE
  PROVE  LateWhenAnswered'
BY DEF LateWhenAnswered

\* The same, for the records the actions make.
LEMMA ThreadRecord ==
  ASSUME NEW t \in Thread, NEW at, NEW count, NEW ret, NEW late
  PROVE  /\ [t EXCEPT !.at = at, !.count = count].at = at
         /\ [t EXCEPT !.at = at, !.count = count].late = t.late
         /\ [t EXCEPT !.at = at, !.ret = ret].at = at
         /\ [t EXCEPT !.at = at, !.ret = ret].late = t.late
         /\ [t EXCEPT !.at = at, !.late = late].at = at
         /\ [t EXCEPT !.at = at].at = at
         /\ [t EXCEPT !.at = at].late = t.late
         /\ [t EXCEPT !.late = late].at = t.at
         /\ [t EXCEPT !.late = late].late = late
         /\ t.late = late => [t EXCEPT !.late = late] = t
BY DEF Thread

LEMMA StepLate == IInv /\ LateWhenAnswered /\ [Next]_vars => LateWhenAnswered'
<1> SUFFICES ASSUME IInv, LateWhenAnswered, [Next]_vars PROVE LateWhenAnswered'
  OBVIOUS
<1>0. threads \subseteq Thread
  BY DEF IInv, TypeOK
<1>a. ASSUME UNCHANGED threads PROVE LateWhenAnswered'
  BY <1>a DEF LateWhenAnswered
<1>1. ASSUME NEW id \in Ids, NEW value \in Values, Post(id, value) PROVE LateWhenAnswered'
  BY <1>1, <1>a DEF Post
<1>2. CASE \/ Stop \/ BeginIteration \/ AwaitData \/ CollectData \/ ThreadIsReady
           \/ AllStarted \/ GetAnswer \/ TimeOut \/ RecordTimeout \/ AllAnswered
  BY <1>2, <1>a
  DEF Stop, BeginIteration, AwaitData, CollectData, ThreadIsReady, AllStarted, GetAnswer,
      TimeOut, RecordTimeout, AllAnswered
<1>3. CASE AcceptVote \/ Abort \/ ExitUnvoted \/ Commit \/ FinishCreate \/ FinishOther
  BY <1>3, <1>a DEF AcceptVote, Abort, ExitUnvoted, Commit, FinishCreate, FinishOther
<1>4. CASE StartThread
  BY <1>4 DEF StartThread, LateWhenAnswered
<1>5. CASE SetDeadline
  <2> SUFFICES ASSUME NEW u \in threads', u.at # "answered" PROVE u.late = FALSE
    BY DEF LateWhenAnswered
  <2>1. PICK t \in threads : u = IF t.ip = cursor /\ t.req = requestID
                                   THEN [t EXCEPT !.late = FALSE] ELSE t
    BY <1>5 DEF SetDeadline
  <2> QED BY <1>0, <2>1, ThreadRecord DEF LateWhenAnswered
<1>6. ASSUME NEW t \in threads, ThreadStep(t) PROVE LateWhenAnswered'
  <2>0. t \in Thread /\ (t.at # "answered" => t.late = FALSE)
    BY <1>0 DEF LateWhenAnswered
  <2>1. CASE Prepare(t)
    <3> DEFINE u == [t EXCEPT !.at = "drain", !.count = semaphore[t.ip]]
    <3>1. threads' = (threads \ {t}) \cup {u}
      BY <2>1 DEF Prepare, Replace
    <3>2. u.late = FALSE
      BY <2>0, <2>1, ThreadRecord DEF Prepare
    <3> HIDE DEF u
    <3> QED BY <3>1, <3>2, ThreadChanges
  <2>2. CASE Drain(t)
    <3> DEFINE u == [t EXCEPT !.at = "call", !.count = 0]
    <3>1. threads' = (threads \ {t}) \cup {u}
      BY <2>2 DEF Drain, Replace
    <3>2. u.late = FALSE
      BY <2>0, <2>2, ThreadRecord DEF Drain
    <3> HIDE DEF u
    <3> QED BY <3>1, <3>2, ThreadChanges
  <2>3. CASE Execute(t)
    <3> DEFINE u == [t EXCEPT !.at = "executed",
                              !.ret = HandleCall(t.op, store[t.ip], t.data).ret]
    <3>1. threads' = (threads \ {t}) \cup {u} \/ threads' = threads \ {t}
      BY <2>3 DEF Execute, Replace
    <3>2. u.late = FALSE
      BY <2>0, <2>3, ThreadRecord DEF Execute
    <3> HIDE DEF u
    <3> QED BY <3>1, <3>2, ThreadChanges
  <2>4. CASE Return(t)
    <3> DEFINE u == [t EXCEPT !.at = "answered",
                              !.late = /\ t.op \in VoteOps
                                       /\ <<t.ip, t.req>> \in DOMAIN timestamps
                                       /\ timestamps[<<t.ip, t.req>>] = "past"]
    <3>1. threads' = (threads \ {t}) \cup {u}
      BY <2>4 DEF Return, Replace
    <3>2. u.at = "answered"
      BY <2>0 DEF Thread
    <3> HIDE DEF u
    <3> QED BY <3>1, <3>2, ThreadChanges
  <2>5. CASE RecordVote(t) \/ Signal(t)
    BY <2>5 DEF RecordVote, Signal, LateWhenAnswered
  <2>6. CASE ConnectionFails(t)
    <3> DEFINE u == [t EXCEPT !.at = "abandoned"]
    <3>1. threads' = (threads \ {t}) \cup {u} \/ threads' = threads \ {t}
      BY <2>6 DEF ConnectionFails, Replace
    <3>2. u.late = FALSE
      BY <2>0, <2>6, ThreadRecord DEF ConnectionFails
    <3> HIDE DEF u
    <3> QED BY <3>1, <3>2, ThreadChanges
  <2> QED BY <1>6, <2>1, <2>2, <2>3, <2>4, <2>5, <2>6 DEF ThreadStep
<1>7. ASSUME NEW k \in DOMAIN timestamps, DeadlinePasses(k) PROVE LateWhenAnswered'
  BY <1>7, <1>a DEF DeadlinePasses
<1>8. CASE ReadDeadlinePasses
  BY <1>8, <1>a DEF ReadDeadlinePasses
<1>9. ASSUME NEW d \in Databases, Crash(d) PROVE LateWhenAnswered'
  BY <1>9 DEF Crash, LateWhenAnswered
<1>10. CASE UNCHANGED vars
  BY <1>10, <1>a DEF vars
<1> QED
  BY <1>1, <1>2, <1>3, <1>4, <1>5, <1>6, <1>7, <1>8, <1>9, <1>10 DEF Next, Controller

-----------------------------------------------------------------------------
(* The steps, as remote calls *)

\* Both modules mean the same handlers.
LEMMA SameEmptyMap == Remote!EmptyMap = EmptyMap
BY DEF Remote!EmptyMap, EmptyMap

LEMMA SameHandlers ==
  ASSUME NEW op, NEW m, NEW data
  PROVE  Remote!HandleCall(op, m, data) = HandleCall(op, m, data)
BY DEF Remote!HandleCall, HandleCall, Remote!FirstKey, FirstKey, Remote!InsertAll, InsertAll,
   Remote!isCreatePossible, isCreatePossible, Remote!isUpdatePossible, isUpdatePossible,
   Remote!isDeletePossible, isDeletePossible, Remote!createSensorMetadata,
   createSensorMetadata, Remote!updateSensorMetadata, updateSensorMetadata,
   Remote!deleteSensorMetadata, deleteSensorMetadata, Remote!readSensorMetadata,
   readSensorMetadata, Remote!Port, Port, Remote!readAll, readAll

LEMMA SameCalls ==
  ASSUME UNCHANGED <<store, up>>, RemoteCalls' = RemoteCalls
  PROVE  [Remote!Next]_(Remote!vars)
BY DEF Remote!vars, RemoteCalls, InCall

\* A thread that begins its call issues it, ...
LEMMA DrainIssues ==
  ASSUME threads \subseteq Thread, NEW t \in threads, Drain(t)
  PROVE  [Remote!Next]_(Remote!vars)
<1> DEFINE u == [t EXCEPT !.at = "call", !.count = 0]
<1>1. threads' = (threads \ {t}) \cup {u} /\ t.at = "drain" /\ u.at = "call"
  BY ThreadRecord DEF Drain, Replace
<1>2. UNCHANGED <<store, up>>
  BY DEF Drain, databaseVars
<1> HIDE DEF u
<1>3. RemoteCalls' = RemoteCalls \cup {u}
  BY <1>1 DEF RemoteCalls, InCall
<1>4. CASE u \in RemoteCalls
  BY <1>2, <1>3, <1>4, SameCalls
<1>5. CASE u \notin RemoteCalls
  <2>1. Remote!Issue
    BY <1>1, <1>2, <1>3, <1>5 DEF Remote!Issue, RemoteCalls, InCall
  <2> QED BY <2>1 DEF Remote!Next
<1> QED BY <1>4, <1>5

\* ... the database executes it, ...
LEMMA ExecuteExecutes ==
  ASSUME threads \subseteq Thread, NEW t \in threads, Execute(t)
  PROVE  [Remote!Next]_(Remote!vars)
<1> DEFINE result == HandleCall(t.op, store[t.ip], t.data)
           u == [t EXCEPT !.at = "executed", !.ret = result.ret]
<1>1. /\ t.ip \in up /\ t \in RemoteCalls
      /\ store' = [store EXCEPT ![t.ip] = result.store] /\ UNCHANGED up
  BY DEF Execute, RemoteCalls, InCall
<1>2. \/ t.at = "call" /\ threads' = (threads \ {t}) \cup {u}
      \/ t.at = "abandoned" /\ threads' = threads \ {t}
  BY DEF Execute, Replace
<1>3. u.at = "executed"
  BY ThreadRecord
<1> HIDE DEF u
<1>4. \/ t.at = "call" /\ RemoteCalls' = (RemoteCalls \ {t}) \cup {u}
      \/ t.at = "abandoned" /\ RemoteCalls' = RemoteCalls \ {t}
  BY <1>2, <1>3 DEF RemoteCalls, InCall
<1>5. result \in Remote!Outcomes(t)
  BY SameHandlers DEF Remote!Outcomes
<1> HIDE DEF result
<1>6. Remote!Execute(t)
  BY <1>1, <1>4, <1>5 DEF Remote!Execute, RemoteCalls, InCall, u
<1> QED BY <1>1, <1>6 DEF Remote!Next, RemoteCalls, InCall

\* ... and it returns, ...
LEMMA ReturnReturns ==
  ASSUME threads \subseteq Thread, NEW t \in threads, Return(t)
  PROVE  [Remote!Next]_(Remote!vars)
<1> DEFINE u == [t EXCEPT !.at = "answered",
                          !.late = /\ t.op \in VoteOps
                                   /\ <<t.ip, t.req>> \in DOMAIN timestamps
                                   /\ timestamps[<<t.ip, t.req>>] = "past"]
<1>1. threads' = (threads \ {t}) \cup {u} /\ t.at = "executed" /\ u.at = "answered"
  BY DEF Return, Replace, Thread
<1>2. UNCHANGED <<store, up>>
  BY DEF Return, databaseVars
<1> HIDE DEF u
<1>3. t \in RemoteCalls /\ RemoteCalls' = RemoteCalls \ {t}
  BY <1>1 DEF RemoteCalls, InCall
<1>4. Remote!Return(t)
  BY <1>1, <1>2, <1>3 DEF Remote!Return, RemoteCalls, InCall
<1> QED BY <1>3, <1>4 DEF Remote!Next, RemoteCalls, InCall

\* ... or fails.
LEMMA FailureFails ==
  ASSUME threads \subseteq Thread, NEW t \in threads, ConnectionFails(t)
  PROVE  [Remote!Next]_(Remote!vars)
<1> DEFINE u == [t EXCEPT !.at = "abandoned"]
<1>1. /\ t.at \in {"call", "executed"} /\ u.at = "abandoned"
      /\ \/ threads' = threads \ {t}
         \/ t.at = "call" /\ threads' = (threads \ {t}) \cup {u}
  BY DEF ConnectionFails, Replace, Thread
<1>2. UNCHANGED <<store, up>>
  BY DEF ConnectionFails, databaseVars
<1> HIDE DEF u
<1>3. /\ t \in RemoteCalls
      /\ \/ RemoteCalls' = RemoteCalls \ {t}
         \/ t.at = "call" /\ RemoteCalls' = (RemoteCalls \ {t}) \cup {u}
  BY <1>1 DEF RemoteCalls, InCall
<1>4. Remote!Fail(t)
  BY <1>1, <1>2, <1>3 DEF Remote!Fail, RemoteCalls, InCall, u
<1> QED BY <1>3, <1>4 DEF Remote!Next, RemoteCalls, InCall

LEMMA CrashCrashes ==
  ASSUME NEW d \in Databases, Crash(d)
  PROVE  [Remote!Next]_(Remote!vars)
<1>1. Remote!Crash(d)
  BY DEF Crash, Remote!Crash
<1> QED BY <1>1 DEF Remote!Next

LEMMA StepRemote ==
  IInv /\ LateWhenAnswered /\ [Next]_vars => [Remote!Next]_(Remote!vars)
<1> SUFFICES ASSUME IInv, LateWhenAnswered, [Next]_vars PROVE [Remote!Next]_(Remote!vars)
  OBVIOUS
<1>0. threads \subseteq Thread
  BY DEF IInv, TypeOK
<1>a. ASSUME UNCHANGED <<threads, databaseVars>> PROVE [Remote!Next]_(Remote!vars)
  BY <1>a, SameCalls DEF RemoteCalls, databaseVars
<1>1. ASSUME NEW id \in Ids, NEW value \in Values, Post(id, value)
      PROVE  [Remote!Next]_(Remote!vars)
  BY <1>1, <1>a DEF Post
<1>2. CASE \/ Stop \/ BeginIteration \/ AwaitData \/ CollectData \/ ThreadIsReady
           \/ AllStarted \/ GetAnswer \/ TimeOut \/ RecordTimeout \/ AllAnswered
  BY <1>2, <1>a
  DEF Stop, BeginIteration, AwaitData, CollectData, ThreadIsReady, AllStarted, GetAnswer,
      TimeOut, RecordTimeout, AllAnswered
<1>3. CASE AcceptVote \/ Abort \/ ExitUnvoted \/ Commit \/ FinishCreate \/ FinishOther
  BY <1>3, <1>a DEF AcceptVote, Abort, ExitUnvoted, Commit, FinishCreate, FinishOther
<1>4. CASE StartThread
  <2>1. RemoteCalls' = RemoteCalls /\ UNCHANGED <<store, up>>
    BY <1>4 DEF StartThread, RemoteCalls, InCall, databaseVars
  <2> QED BY <2>1, SameCalls
<1>5. CASE SetDeadline
  <2> DEFINE Timed(t) == IF t.ip = cursor /\ t.req = requestID
                           THEN [t EXCEPT !.late = FALSE] ELSE t
  <2>1. threads' = {Timed(t) : t \in threads} /\ UNCHANGED <<store, up>>
    BY <1>5 DEF SetDeadline, databaseVars
  <2>2. ASSUME NEW t \in threads
        PROVE  Timed(t).at = t.at /\ (t.at \in InCall => Timed(t) = t)
    BY <1>0, ThreadRecord DEF LateWhenAnswered, InCall
  <2> HIDE DEF Timed
  <2>3. RemoteCalls' = RemoteCalls
    BY <2>1, <2>2 DEF RemoteCalls
  <2> QED BY <2>1, <2>3, SameCalls
<1>6. ASSUME NEW t \in threads, Prepare(t) PROVE [Remote!Next]_(Remote!vars)
  <2> DEFINE u == [t EXCEPT !.at = "drain", !.count = semaphore[t.ip]]
  <2>1. /\ threads' = (threads \ {t}) \cup {u} /\ t.at = "prepare" /\ u.at = "drain"
        /\ UNCHANGED <<store, up>>
    BY <1>0, <1>6, ThreadRecord DEF Prepare, Replace, databaseVars
  <2> HIDE DEF u
  <2>2. RemoteCalls' = RemoteCalls
    BY <2>1 DEF RemoteCalls, InCall
  <2> QED BY <2>1, <2>2, SameCalls
<1>7. ASSUME NEW t \in threads, RecordVote(t) \/ Signal(t) PROVE [Remote!Next]_(Remote!vars)
  <2>1. RemoteCalls' = RemoteCalls /\ UNCHANGED <<store, up>>
    BY <1>7 DEF RecordVote, Signal, RemoteCalls, InCall, databaseVars
  <2> QED BY <2>1, SameCalls
<1>8. ASSUME NEW t \in threads, Drain(t) \/ Execute(t) \/ Return(t) \/ ConnectionFails(t)
      PROVE  [Remote!Next]_(Remote!vars)
  BY <1>0, <1>8, DrainIssues, ExecuteExecutes, ReturnReturns, FailureFails
<1>9. ASSUME NEW k \in DOMAIN timestamps, DeadlinePasses(k) PROVE [Remote!Next]_(Remote!vars)
  BY <1>9, <1>a DEF DeadlinePasses
<1>10. CASE ReadDeadlinePasses
  BY <1>10, <1>a DEF ReadDeadlinePasses
<1>11. ASSUME NEW d \in Databases, Crash(d) PROVE [Remote!Next]_(Remote!vars)
  BY <1>11, CrashCrashes
<1>12. CASE UNCHANGED vars
  BY <1>12, <1>a DEF vars
<1> QED
  BY <1>1, <1>2, <1>3, <1>4, <1>5, <1>6, <1>7, <1>8, <1>9, <1>10, <1>11, <1>12
  DEF Next, Controller, ThreadStep

\* Whatever number of databases, requests and late threads: between the web server
\* and its databases there is nothing but remote calls, executed at most once each.
THEOREM RemoteCallsMade == Spec => MakesRemoteCalls
<1>1. Init => LateWhenAnswered
  BY DEF Init, LateWhenAnswered
<1>2. Init => Remote!Init
  BY SameEmptyMap DEF Init, Remote!Init, databaseVars
<1>3. Spec => []LateWhenAnswered
  BY <1>1, Invariance, StepLate, PTL DEF Spec
<1> QED BY <1>2, <1>3, Invariance, StepRemote, PTL DEF Spec, MakesRemoteCalls, Remote!Spec
=============================================================================
