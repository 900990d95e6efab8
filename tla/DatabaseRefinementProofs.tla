----------------------- MODULE DatabaseRefinementProofs -----------------------
(***************************************************************************)
(* A database, the generated code in front of it, and the client threads   *)
(* at the other end of its connections implement module RemoteCall.        *)
(***************************************************************************)
EXTENDS DatabaseServerProofs

\* Both modules mean the same handlers.
LEMMA SameHandlers ==
  ASSUME NEW op, NEW m, NEW data
  PROVE  /\ Remote!HandleCall(op, m, data) = HandleCall(op, m, data)
         /\ Remote!ThrowingCall(op, m, data) = ThrowingCall(op, m, data)
<1>1. Remote!HandleCall(op, m, data) = HandleCall(op, m, data)
  BY DEF Remote!HandleCall, HandleCall, Remote!FirstKey, FirstKey, Remote!InsertAll, InsertAll,
     Remote!isCreatePossible, isCreatePossible, Remote!isUpdatePossible, isUpdatePossible,
     Remote!isDeletePossible, isDeletePossible, Remote!createSensorMetadata,
     createSensorMetadata, Remote!updateSensorMetadata, updateSensorMetadata,
     Remote!deleteSensorMetadata, deleteSensorMetadata, Remote!readSensorMetadata,
     readSensorMetadata, Remote!Port, Port, Remote!readAll, readAll
<1>2. Remote!ThrowingCall(op, m, data) = ThrowingCall(op, m, data)
  BY DEF Remote!ThrowingCall, ThrowingCall, Remote!ThrowingOps, ThrowingOps, Remote!Thrown, Thrown,
     Remote!PartsOf, PartsOf, Remote!InsertAll, InsertAll
<1> QED BY <1>1, <1>2

LEMMA SameCalls ==
  ASSUME UNCHANGED <<collection, process, intact>>, RemoteCalls' = RemoteCalls
  PROVE  [Remote!Next]_(Remote!vars)
BY DEF Remote!vars

LEMMA CallFields ==
  ASSUME NEW n
  PROVE  /\ RemoteCallOf(n).number = n /\ RemoteCallOf(n).ip = 1
         /\ RemoteCallOf(n).op = client[n].op /\ RemoteCallOf(n).data = client[n].data
BY DEF RemoteCallOf

\* A step of one connection issues, ends or changes one call.
LEMMA OneCall ==
  ASSUME NEW n \in Clients, Elsewhere(n), UNCHANGED process
  PROVE  RemoteCalls' = (IF Live(n) THEN RemoteCalls \ {RemoteCallOf(n)} ELSE RemoteCalls)
                          \cup (IF Live(n)' THEN {RemoteCallOf(n)'} ELSE {})
<1>1. ASSUME NEW m \in Clients, m # n
      PROVE  (Live(m)' <=> Live(m)) /\ RemoteCallOf(m)' = RemoteCallOf(m)
  <2>1. client'[m] = client[m] /\ replies'[m] = replies[m]
    BY <1>1 DEF Elsewhere
  <2> QED BY <2>1 DEF Live, RemoteCallOf, Executed, ResultOf
<1>2. \A m \in Clients : m # n => RemoteCallOf(m) # RemoteCallOf(n)
  BY CallFields
<1> DEFINE Calls == {RemoteCallOf(m) : m \in {m \in Clients : Live(m) /\ m # n}}
<1>3. RemoteCalls = Calls \cup (IF Live(n) THEN {RemoteCallOf(n)} ELSE {})
  BY DEF RemoteCalls
<1>4. RemoteCalls' = Calls \cup (IF Live(n)' THEN {RemoteCallOf(n)'} ELSE {})
  BY <1>1 DEF RemoteCalls
<1>5. RemoteCallOf(n) \notin Calls
  BY <1>2
<1> HIDE DEF Calls
<1> QED BY <1>3, <1>4, <1>5

LEMMA NewCall ==
  ASSUME NEW n \in Clients, ~Live(n)
  PROVE  RemoteCallOf(n)' \notin RemoteCalls
<1>1. RemoteCallOf(n)'.number = n
  BY DEF RemoteCallOf
<1> QED BY <1>1, CallFields DEF RemoteCalls

\* A client issues a call, ...
LEMMA CallIssues ==
  ASSUME IInv, NEW n \in Clients, NEW input \in Inputs, Call(n, input[1], input[2])
  PROVE  [Remote!Next]_(Remote!vars)
<1>0. GlobalInv /\ PlaceInv(n) /\ Elsewhere(n) /\ client[n].at = "idle"
      /\ UNCHANGED <<collection, process, intact, replies>>
  BY CallIInv DEF IInv, ConnectionInv, Call, databaseVars
<1>1. client'[n] = [at |-> "waiting", op |-> input[1], data |-> input[2]]
  BY <1>0 DEF Call, GlobalInv
<1>2. ~Live(n) /\ replies'[n] = NoFrame
  BY <1>0 DEF Live, PlaceInv
<1>3. RemoteCalls' = RemoteCalls \cup (IF Live(n)' THEN {RemoteCallOf(n)'} ELSE {})
  BY <1>0, <1>2, OneCall
<1>4. RemoteCallOf(n)'.at = "call" /\ RemoteCallOf(n)' \notin RemoteCalls
  BY <1>1, <1>2, NewCall DEF RemoteCallOf, Executed
<1>5. CASE Live(n)'
  <2>1. Remote!Issue
    BY <1>0, <1>3, <1>4, <1>5 DEF Remote!Issue
  <2> QED BY <2>1 DEF Remote!Next
<1>6. CASE ~Live(n)'
  BY <1>0, <1>3, <1>6, SameCalls
<1> QED BY <1>5, <1>6

\* ... its server thread executes it, or its caller having gone, finishes it: the
\* handler has left and returned what the operation leaves and returns, or thrown, ...
LEMMA ReplyExecutes ==
  ASSUME IInv, NEW n \in Clients, process = "running", thread[n].at # "none",
         client[n].op # "ping", Elsewhere(n), UNCHANGED <<process, intact>>,
         NEW message, message # NoFrame,
         NEW result \in {HandleCall(client[n].op, collection, client[n].data)}
                          \cup ThrowingCall(client[n].op, collection, client[n].data),
         Reply(n, result.store, message),
         client'[n] = client[n] /\ replies'[n] = message => ResultOf(n)' = result.ret
  PROVE  [Remote!Next]_(Remote!vars)
<1> DEFINE c == RemoteCallOf(n)
<1>0. /\ GlobalInv /\ replies[n] = NoFrame /\ client[n].at \in {"waiting", "failed"}
  BY DEF IInv, ConnectionInv, PlaceInv, Pending, Reply
<1>1. /\ c.ip = 1 /\ c.op = client[n].op /\ c.data = client[n].data
      /\ client[n].at = "waiting" => c.at = "call" /\ c.ret = 0
      /\ client[n].at = "failed" => c.at = "abandoned"
  BY <1>0 DEF RemoteCallOf, Executed
<1>2. collection' = result.store
  BY DEF Reply
<1>5. result \in Remote!Outcomes(c)
  BY <1>1, SameHandlers DEF Remote!Outcomes
<1>3. CASE client[n].at = "waiting" /\ UNCHANGED client /\ replies'[n] = message
  <2>3. ResultOf(n)' = result.ret
    BY <1>3
  <2>4. Executed(n)'
    BY <1>3 DEF Executed
  <2>5. c' = [c EXCEPT !.at = "executed", !.ret = result.ret]
    <3>1. c = [ip |-> 1, number |-> n, op |-> client[n].op, data |-> client[n].data,
               at |-> "call", ret |-> 0]
      BY <1>0, <1>3 DEF RemoteCallOf, Executed
    <3>2. c' = [ip |-> 1, number |-> n, op |-> client[n].op, data |-> client[n].data,
                at |-> "executed", ret |-> result.ret]
      <4>1. client'[n] = client[n] /\ client'[n].at # "failed"
        BY <1>3
      <4> QED BY <2>3, <2>4, <4>1 DEF RemoteCallOf
    <3> DEFINE d == [c EXCEPT !.at = "executed"]
    <3>3. d = [ip |-> 1, number |-> n, op |-> client[n].op, data |-> client[n].data,
               at |-> "executed", ret |-> 0]
      BY <3>1
    <3>4. [c EXCEPT !.at = "executed", !.ret = result.ret] = [d EXCEPT !.ret = result.ret]
      BY <3>1
    <3> HIDE DEF d
    <3>5. [d EXCEPT !.ret = result.ret]
            = [ip |-> 1, number |-> n, op |-> client[n].op, data |-> client[n].data,
               at |-> "executed", ret |-> result.ret]
      BY <3>3
    <3> QED BY <3>2, <3>4, <3>5
  <2>6. Live(n) /\ Live(n)' /\ c \in RemoteCalls
    BY <1>0, <1>3 DEF Live, RemoteCalls
  <2> HIDE DEF c
  <2>7. RemoteCalls' = (RemoteCalls \ {c}) \cup {[c EXCEPT !.at = "executed", !.ret = result.ret]}
    BY <2>5, <2>6, OneCall DEF c
  <2>8. Remote!Execute(c)
    BY <1>1, <1>2, <1>3, <1>5, <2>7 DEF Remote!Execute
  <2> QED BY <2>6, <2>8 DEF Remote!Next
<1>4. CASE client[n].at = "failed" /\ client' = [client EXCEPT ![n] = NoClient]
  <2>1. client'[n].at = "idle"
    BY <1>0, <1>4 DEF GlobalInv, NoClient
  <2>2. Live(n) /\ ~Live(n)' /\ c \in RemoteCalls
    BY <1>0, <1>4, <2>1 DEF Live, RemoteCalls
  <2> HIDE DEF c
  <2>3. RemoteCalls' = RemoteCalls \ {c}
    BY <2>2, OneCall DEF c
  <2>4. Remote!Execute(c)
    BY <1>1, <1>2, <1>4, <1>5, <2>3 DEF Remote!Execute
  <2> QED BY <2>2, <2>4 DEF Remote!Next
<1> QED BY <1>0, <1>3, <1>4 DEF Reply, GlobalInv

LEMMA ReturnsExecutes ==
  ASSUME IInv, NEW n \in Clients, process = "running", thread[n].at # "none",
         NEW outcome, Returns(n, outcome), Performs(n, outcome)
  PROVE  [Remote!Next]_(Remote!vars)
<1> DEFINE result == HandleCall(client[n].op, collection, client[n].data)
           message == ReplyMessage(MethodFor[client[n].op], outcome.ret)
           received == Received(MethodFor[client[n].op], message)
<1>0. /\ client[n].op \in Ops \ {"ping"} /\ Stored(collection) /\ client[n].data \in Sent
      /\ thread[n].method = MethodFor[client[n].op] /\ outcome.store = result.store
  BY DEF IInv, GlobalInv, ConnectionInv, RecordsInv, PlaceInv, CallInv, Pending, Performs
<1>1. Elsewhere(n) /\ UNCHANGED <<process, intact>>
  BY <1>0, ReturnsIInv, HandlersStore
<1>2. Reply(n, result.store, message) /\ message # NoFrame
  BY <1>0, FramesAreFrames DEF Returns
<1>3. received.ends = "result"
  BY <1>0, ReplyIsResult
<1>4. client[n].op \in ServerOps => received.result = outcome.ret
  BY ResultArrives DEF Performs
<1>6. client[n].op = "readAll" => result.ret = 0
  BY DEF HandleCall, readAll
<1> HIDE DEF result, message
<1>7. ASSUME client'[n] = client[n], replies'[n] = message PROVE ResultOf(n)' = result.ret
  <2>1. ResultOf(n)' = IF received.ends # "result" THEN Thrown
                    ELSE CASE client[n].op = "read"    -> received.result[1]
                           [] client[n].op = "readAll" -> 0
                           [] OTHER                    -> received.result
    BY <1>7 DEF ResultOf
  <2> HIDE DEF received
  <2>2. CASE client[n].op = "readAll"
    BY <1>3, <1>6, <2>1, <2>2
  <2>3. CASE client[n].op \in ServerOps
    BY <1>3, <1>4, <2>1, <2>3 DEF Performs, ServerOps, CommitOps, result
  <2> QED BY <1>0, <2>2, <2>3 DEF Ops
<1> QED BY <1>0, <1>1, <1>2, <1>7, ReplyExecutes DEF result

LEMMA ThrowsExecutes ==
  ASSUME IInv, NEW n \in Clients, process = "running", thread[n].at # "none",
         NEW left, Throws(n, left), ThrowPerforms(n, left)
  PROVE  [Remote!Next]_(Remote!vars)
<1> DEFINE message == ExceptionMessage(MethodFor[client[n].op].name)
           result == [store |-> left, ret |-> Thrown]
<1>0. /\ client[n].op \in Ops /\ Stored(collection) /\ client[n].data \in Sent
      /\ thread[n].method = MethodFor[client[n].op]
      /\ result \in ThrowingCall(client[n].op, collection, client[n].data)
  BY DEF IInv, GlobalInv, ConnectionInv, RecordsInv, PlaceInv, CallInv, Pending, ThrowPerforms
<1>1. client[n].op # "ping"
  BY <1>0 DEF ThrowingCall, ThrowingOps
<1>2. result.store = left /\ result.ret = Thrown
  OBVIOUS
<1>3. Elsewhere(n) /\ UNCHANGED <<process, intact>>
  BY <1>0, <1>2, ThrowsIInv, ThrowsStore
<1>4. Reply(n, left, message) /\ message # NoFrame
  BY <1>0, FramesAreFrames DEF Throws
<1>5. ASSUME client'[n] = client[n], replies'[n] = message PROVE ResultOf(n)' = Thrown
  <2>1. Received(MethodFor[client[n].op], message).ends = "exception"
    BY ExceptionIsException
  <2> HIDE DEF message
  <2> QED BY <1>5, <2>1 DEF ResultOf
<1> HIDE DEF result, message
<1> QED BY <1>0, <1>1, <1>2, <1>3, <1>4, <1>5, ReplyExecutes

\* ... it returns, ...
LEMMA ReceiveReturns ==
  ASSUME IInv, NEW n \in Clients, Receive(n)
  PROVE  [Remote!Next]_(Remote!vars)
<1>0. /\ Elsewhere(n) /\ UNCHANGED <<collection, process, intact>> /\ client[n].at = "waiting"
      /\ replies[n] # NoFrame /\ RecordsInv(n)
      /\ client'[n] = NoClient \/ client'[n] = [client[n] EXCEPT !.at = "uncaught"]
  BY ReceiveIInv DEF IInv, ConnectionInv, Receive, databaseVars
<1>1. ~Live(n)'
  BY <1>0 DEF Live, NoClient, RecordsInv
<1>2. CASE Live(n)
  <2>1. RemoteCallOf(n).at = "executed" /\ RemoteCallOf(n) \in RemoteCalls
    BY <1>0, <1>2 DEF RemoteCallOf, Executed, RemoteCalls
  <2>2. RemoteCalls' = RemoteCalls \ {RemoteCallOf(n)}
    BY <1>0, <1>1, <1>2, OneCall
  <2>3. Remote!Return(RemoteCallOf(n))
    BY <1>0, <2>1, <2>2 DEF Remote!Return
  <2> QED BY <2>1, <2>3 DEF Remote!Next
<1>3. CASE ~Live(n)
  <2>1. RemoteCalls' = RemoteCalls
    BY <1>0, <1>1, <1>3, OneCall
  <2> QED BY <1>0, <2>1, SameCalls
<1> QED BY <1>2, <1>3

\* ... or its connection breaks.
LEMMA BreakFails ==
  ASSUME IInv, NEW n \in Clients, Break(n)
  PROVE  [Remote!Next]_(Remote!vars)
<1> DEFINE c == RemoteCallOf(n)
<1>0. /\ Elsewhere(n) /\ UNCHANGED <<collection, process, intact>> /\ client[n].at = "waiting"
      /\ GlobalInv /\ RecordsInv(n) /\ PlaceInv(n)
  BY BreakIInv DEF IInv, ConnectionInv, Break, databaseVars
<1>1. replies'[n] = NoFrame
  BY <1>0 DEF Break, GlobalInv
<1>2. c.at \in {"call", "executed"}
  BY <1>0 DEF RemoteCallOf
<1>3. CASE ~Live(n)
  <2>1. client'[n].op = client[n].op \/ client'[n] = NoClient
    BY <1>0 DEF Break, GlobalInv, RecordsInv
  <2>2. ~Live(n)'
    BY <1>0, <1>3, <2>1 DEF Live, NoClient
  <2>3. RemoteCalls' = RemoteCalls
    BY <1>0, <1>3, <2>2, OneCall
  <2> QED BY <1>0, <2>3, SameCalls
<1>4. CASE Live(n) /\ ~Live(n)'
  <2>1. RemoteCalls' = RemoteCalls \ {c} /\ c \in RemoteCalls
    BY <1>0, <1>4, OneCall DEF RemoteCalls
  <2> HIDE DEF c
  <2> QED BY <1>0, <1>2, <2>1 DEF Remote!Next, Remote!Fail
<1>5. CASE Live(n) /\ Live(n)'
  <2>1. /\ Pending(n) /\ client'[n] = [client[n] EXCEPT !.at = "failed"]
    BY <1>0, <1>5 DEF Break, GlobalInv, Live, NoClient
  <2>2. replies[n] = NoFrame
    BY <1>0, <2>1 DEF PlaceInv
  <2>3. c.at = "call" /\ c' = [c EXCEPT !.at = "abandoned"]
    BY <1>0, <1>1, <2>1, <2>2 DEF RemoteCallOf, Executed, RecordsInv
  <2>4. c \in RemoteCalls
    BY <1>5 DEF RemoteCalls
  <2> HIDE DEF c
  <2>5. RemoteCalls' = (RemoteCalls \ {c}) \cup {[c EXCEPT !.at = "abandoned"]}
    BY <1>0, <1>5, <2>3, OneCall DEF c
  <2> QED BY <1>0, <2>3, <2>4, <2>5 DEF Remote!Next, Remote!Fail
<1> QED BY <1>3, <1>4, <1>5

\* Steps of a call that nobody sees.
LEMMA NothingSeen ==
  ASSUME UNCHANGED <<collection, process, intact, client, replies>>
  PROVE  [Remote!Next]_(Remote!vars)
<1>1. RemoteCalls' = RemoteCalls
  BY DEF RemoteCalls, Live, RemoteCallOf, Executed, ResultOf
<1> QED BY <1>1, SameCalls

LEMMA PingIsNoCall ==
  ASSUME IInv, NEW n \in Clients, process_ping(n)
  PROVE  [Remote!Next]_(Remote!vars)
<1>1. PICK outcome : Returns(n, outcome) /\ outcome.store = collection
  BY PingReturns
<1>2. thread[n].at # "none" /\ client[n].op = "ping" /\ GlobalInv
  BY PingReturns DEF IInv
<1>3. Elsewhere(n) /\ UNCHANGED <<collection, process, intact>>
  BY <1>1, <1>2, ReturnsIInv DEF GlobalInv, Returns, Reply
<1>4. client'[n].op = "ping"
  BY <1>1, <1>2 DEF Returns, Reply, GlobalInv, NoClient
<1>5. RemoteCalls' = RemoteCalls
  BY <1>2, <1>3, <1>4, OneCall DEF Live
<1> QED BY <1>3, <1>5, SameCalls

\* A thread enters the map; two that meet there are a race.
LEMMA EnterRaces ==
  ASSUME IInv, NEW n \in Clients, Enter(n) \/ Vote(n)
  PROVE  [Remote!Next]_(Remote!vars)
<1>1. /\ process = "running" /\ EnterMap(n) /\ thread[n].at # "none"
      /\ UNCHANGED <<process, client, replies>> /\ IInv' /\ thread'[n].at = "map"
  BY EnterIInv DEF Enter, Vote, Handles
<1>2. CASE UNCHANGED <<collection, intact>>
  BY <1>1, <1>2, NothingSeen
<1>3. CASE Meets(n) /\ intact' = FALSE
  <2>1. PICK m \in Clients \ {n} : thread[m].at = "map" /\ Conflict(thread[n], thread[m])
    BY <1>3 DEF Meets
  <2>2. client[n].op # "ping" /\ client[m].op # "ping"
    <3>1. CallInv(n)' /\ CallInv(m)
      BY <1>1, <2>1 DEF IInv, ConnectionInv
    <3>2. client'[n] = client[n]
      BY <1>1
    <3> QED BY <1>1, <2>1, <3>1, <3>2 DEF CallInv
  <2>3. ASSUME NEW k \in {n, m}
        PROVE  /\ RemoteCallOf(k) \in RemoteCalls /\ RemoteCallOf(k).at \in {"call", "abandoned"}
               /\ client[k].op \in Ops /\ thread[k].method = MethodFor[client[k].op]
    <3>1. RecordsInv(k) /\ PlaceInv(k) /\ CallInv(k) /\ thread[k].at # "none" /\ k \in Clients
      BY <1>1, <2>1 DEF IInv, ConnectionInv
    <3>2. replies[k] = NoFrame /\ client[k].at \in {"waiting", "failed"}
      BY <3>1 DEF PlaceInv, Pending, RecordsInv
    <3>3. Live(k)
      BY <1>1, <2>2, <3>2 DEF Live
    <3>4. RemoteCallOf(k).at \in {"call", "abandoned"}
      BY <3>2 DEF RemoteCallOf, Executed
    <3> QED BY <3>1, <3>3, <3>4 DEF RemoteCalls, CallInv, RecordsInv
  <2>4. {thread[n].method, thread[m].method} \cap {Create, Update, Delete} # {}
    BY <2>1 DEF Conflict, TreeMethods
  <2>5. PICK k \in {n, m} : thread[k].method \in {Create, Update, Delete}
    BY <2>4
  <2>6. client[k].op \in {"create", "update", "delete"}
    BY <2>3, <2>5, MethodsDiffer
  <2>7. PICK l \in {n, m} : l # k
    BY <2>1
  <2>8. RemoteCalls' = RemoteCalls
    BY <1>1 DEF RemoteCalls, Live, RemoteCallOf, Executed, ResultOf
  <2>9. Remote!Race
    <3>1. RemoteCallOf(k) # RemoteCallOf(l)
      BY <2>7, CallFields
    <3>2. /\ RemoteCallOf(k) \in RemoteCalls /\ RemoteCallOf(l) \in RemoteCalls
          /\ RemoteCallOf(k).ip = 1 /\ RemoteCallOf(l).ip = 1
          /\ {RemoteCallOf(k).at, RemoteCallOf(l).at} \subseteq {"call", "abandoned"}
          /\ RemoteCallOf(k).op \in {"create", "update", "delete"}
      BY <2>3, <2>6, CallFields
    <3> QED BY <1>1, <1>3, <2>8, <3>1, <3>2 DEF Remote!Race
  <2> QED BY <2>9 DEF Remote!Next
<1> QED BY <1>1, <1>2, <1>3 DEF EnterMap

\* The end of the process, for calls without a caller and all to come.
LEMMA EndCrashes ==
  ASSUME IInv, NEW n \in Clients, Ends(n)
  PROVE  [Remote!Next]_(Remote!vars)
<1>0. /\ process = "running" /\ process' # "running"
      /\ UNCHANGED <<collection, intact, client, replies>>
  BY EndIInv
<1>1. \A m \in Clients : /\ RemoteCallOf(m)' = RemoteCallOf(m)
                         /\ RemoteCallOf(m).ip = 1
                         /\ RemoteCallOf(m).at = "abandoned" <=> client[m].at = "failed"
                         /\ Live(m)' <=> Live(m) /\ client[m].at # "failed"
  <2> SUFFICES ASSUME NEW m \in Clients
               PROVE  /\ RemoteCallOf(m)' = RemoteCallOf(m)
                      /\ RemoteCallOf(m).ip = 1
                      /\ RemoteCallOf(m).at = "abandoned" <=> client[m].at = "failed"
                      /\ Live(m)' <=> Live(m) /\ client[m].at # "failed"
    OBVIOUS
  <2>1. RemoteCallOf(m)' = RemoteCallOf(m)
    BY <1>0 DEF RemoteCallOf, Executed, ResultOf
  <2>2. RemoteCallOf(m).at = "abandoned" <=> client[m].at = "failed"
    <3>1. RemoteCallOf(m).at = CASE client[m].at = "failed" -> "abandoned"
                                 [] Executed(m)             -> "executed"
                                 [] OTHER                   -> "call"
      BY DEF RemoteCallOf
    <3>2. client[m].at = "failed" => ~Executed(m)
      BY DEF IInv, ConnectionInv, PlaceInv, Executed
    <3> QED BY <3>1, <3>2 DEF Executed
  <2>3. Live(m)' <=> Live(m) /\ client[m].at # "failed"
    BY <1>0 DEF Live
  <2> QED BY <2>1, <2>2, <2>3, CallFields
<1>2. RemoteCalls' = {c \in RemoteCalls : c.ip # 1 \/ c.at # "abandoned"}
  BY <1>1 DEF RemoteCalls
<1>3. Remote!Crash(1)
  BY <1>0, <1>2 DEF Remote!Crash
<1> QED BY <1>3 DEF Remote!Next

\* Nothing is promised of what follows once threads have met in the map.
LEMMA NothingPromised ==
  ASSUME IInv, [Next]_vars, ~intact
  PROVE  [Remote!Next]_(Remote!vars)
<1>1. UNCHANGED intact \/ intact' = FALSE
  <2>1. CASE UNCHANGED vars
    BY <2>1 DEF vars, databaseVars
  <2>2. ASSUME NEW n \in Clients,
               \/ \E input \in Inputs : Call(n, input[1], input[2])
               \/ Receive(n) \/ Break(n) \/ dispatchCall(n)
        PROVE  UNCHANGED intact
    BY <2>2 DEF Call, Receive, Break, dispatchCall, databaseVars
  <2>3. ASSUME NEW n \in Clients, Enter(n) \/ Vote(n) PROVE UNCHANGED intact \/ intact' = FALSE
    BY <2>3 DEF Enter, Vote, EnterMap
  <2>4. ASSUME NEW n \in Clients, ReadCounter(n) \/ WriteCounter(n) \/ Delay(n) \/ WakeUp(n)
        PROVE  UNCHANGED intact
    BY <2>4, WithinVote
  <2>5. ASSUME NEW n \in Clients, Ends(n) PROVE UNCHANGED intact
    BY <2>5, EndIInv
  <2>6. ASSUME NEW n \in Clients,
               \/ process_ping(n) \/ process_updateSensorMetadata(n) \/ process_deleteSensorMetadata(n)
               \/ process_readSensorMetadata(n) \/ process_createSensorMetadata(n)
               \/ process_isUpdatePossible(n) \/ process_isDeletePossible(n)
               \/ process_isCreatePossible(n) \/ ((process_readAll(n) \/ Undefined(n)) /\ ~Crash)
        PROVE  UNCHANGED intact
    BY <2>6, HandlerFinishes, FinishIInv
  <2>7. ASSUME NEW n \in Clients, ServerThread(n) \/ Undefined(n)
        PROVE  UNCHANGED intact \/ intact' = FALSE
    BY <2>2, <2>3, <2>4, <2>5, <2>6, <2>7 DEF ServerThread, Ends
  <2> QED BY <2>1, <2>2, <2>7 DEF Next
<1> QED BY <1>1 DEF Remote!Next

LEMMA StepRemote == IInv /\ [Next]_vars => [Remote!Next]_(Remote!vars)
<1> SUFFICES ASSUME IInv, [Next]_vars, intact PROVE [Remote!Next]_(Remote!vars)
  BY NothingPromised
<1>1. CASE UNCHANGED vars
  BY <1>1, NothingSeen DEF vars, databaseVars
<1>2. ASSUME NEW n \in Clients, NEW input \in Inputs, Call(n, input[1], input[2])
      PROVE  [Remote!Next]_(Remote!vars)
  BY <1>2, CallIssues
<1>3. ASSUME NEW n \in Clients, Receive(n) \/ Break(n) PROVE [Remote!Next]_(Remote!vars)
  BY <1>3, ReceiveReturns, BreakFails
<1>4. ASSUME NEW n \in Clients, ServerThread(n) PROVE [Remote!Next]_(Remote!vars)
  <2>1. CASE dispatchCall(n)
    BY <2>1, dispatchIInv, NothingSeen DEF dispatchCall, databaseVars
  <2>2. CASE \/ process_updateSensorMetadata(n) \/ process_deleteSensorMetadata(n)
             \/ process_readSensorMetadata(n) \/ process_createSensorMetadata(n)
             \/ process_isUpdatePossible(n) \/ process_isDeletePossible(n)
             \/ process_isCreatePossible(n) \/ (process_readAll(n) /\ ~Crash)
    <3>1. /\ process = "running" /\ thread[n].at # "none"
          /\ \/ \E outcome : Returns(n, outcome) /\ Performs(n, outcome)
             \/ \E left : Throws(n, left) /\ ThrowPerforms(n, left)
      BY <2>2, HandlerPerforms
    <3> QED BY <3>1, ReturnsExecutes, ThrowsExecutes
  <2>3. CASE process_ping(n)
    BY <2>3, PingIsNoCall
  <2>4. CASE Enter(n) \/ Vote(n)
    BY <2>4, EnterRaces
  <2>5. CASE ReadCounter(n) \/ WriteCounter(n) \/ Delay(n) \/ WakeUp(n)
    BY <2>5, WithinVote, NothingSeen
  <2>6. CASE Exit(n) \/ (process_readAll(n) /\ Crash)
    BY <2>6, EndCrashes DEF Ends
  <2> QED BY <1>4, <2>1, <2>2, <2>3, <2>4, <2>5, <2>6 DEF ServerThread
<1>5. ASSUME NEW n \in Clients PROVE ~Undefined(n)
  BY DEF Undefined
<1> QED BY <1>1, <1>2, <1>3, <1>4, <1>5 DEF Next

\* For every number of connections, all data and calls that overlap as they may, those
\* of a web server that has given up on a slow database included: a call is executed by
\* the database at most once, with the arguments it was made with, as a whole or up to
\* where its handler throws, and what it returns is what the handler returned.  That
\* holds until two calls meet in the map, one of them a create, update or delete.
THEOREM RemoteCallImplemented == Spec => ImplementsRemoteCall
<1>1. Init => Remote!Init
  <2> SUFFICES ASSUME Init PROVE Remote!Init
    OBVIOUS
  <2>1. \A n \in Clients : ~Live(n)
    BY DEF Init, Live, NoClient
  <2>2. RemoteCalls = {}
    BY <2>1 DEF RemoteCalls
  <2> QED BY <2>2 DEF Init, Remote!Init, EmptyMap, Remote!EmptyMap
<1> QED BY <1>1, Invariance, StepRemote, PTL DEF Spec, ImplementsRemoteCall, Remote!Spec
=============================================================================
