------------------------- MODULE DatabaseServerProofs -------------------------
(***************************************************************************)
(* Proofs about a database and the generated code in front of it, for      *)
(* every number of clients and votes and all data.                         *)
(***************************************************************************)
EXTENDS DatabaseServerProperties, FiniteSetTheorems, TLAPS

-----------------------------------------------------------------------------
(* What is written is what is read *)

LEMMA StructArrives ==
  ASSUME NEW types, NEW values, NEW none
  PROVE  ReadStruct(types, WriteStruct(types, values), none) = [i \in DOMAIN types |-> values[i]]
BY DEF ReadStruct, WriteStruct

LEMMA SensorDataArrives ==
  ASSUME NEW d, d = [i \in 1..3 |-> d[i]]
  PROVE  ReadStruct(SensorData, WriteStruct(SensorData, d), NoSensorData) = d
<1>1. DOMAIN SensorData = 1..3
  BY DEF SensorData
<1> QED BY <1>1, StructArrives

LEMMA MetadataArrives ==
  ASSUME NEW m, IsSensorMetadata(m)
  PROVE  SensorMetadata_read(SensorMetadata_write(m)) = m
<1> DEFINE sent == [m EXCEPT ![4] = WriteStruct(SensorData, m[4])]
           none == [NoSensorMetadata EXCEPT ![4] = <<>>]
           received == ReadStruct(SensorMetadata, WriteStruct(SensorMetadata, sent), none)
<1>1. m[4] = [i \in 1..3 |-> m[4][i]] /\ DOMAIN m = 1..4 /\ m = [i \in 1..4 |-> m[i]]
  BY DEF IsSensorMetadata
<1>2. /\ DOMAIN sent = 1..4 /\ sent[4] = WriteStruct(SensorData, m[4])
      /\ \A i \in 1..3 : sent[i] = m[i]
  BY <1>1
<1>3. DOMAIN SensorMetadata = 1..4
  BY DEF SensorMetadata
<1> HIDE DEF sent, none
<1>4. received = [i \in 1..4 |-> sent[i]]
  BY <1>3, StructArrives
<1> HIDE DEF received
<1>5. [received EXCEPT ![4] = ReadStruct(SensorData, received[4], NoSensorData)] = m
  <2>1. ReadStruct(SensorData, received[4], NoSensorData) = m[4]
    BY <1>1, <1>2, <1>4, SensorDataArrives
  <2>2. \A i \in 1..3 : received[i] = m[i]
    BY <1>2, <1>4
  <2> QED BY <1>1, <1>4, <2>1, <2>2
<1> QED BY <1>5 DEF SensorMetadata_read, SensorMetadata_write, received, none, sent

\* The values of each type that are sent.
Sendable(type, value) ==
  /\ type = "STRUCT" => IsSensorMetadata(value)
  /\ type = "MAP" => /\ value = [k \in DOMAIN value |-> value[k]]
                     /\ \A k \in DOMAIN value : IsSensorMetadata(value[k])

LEMMA ValueArrives ==
  ASSUME NEW type \in {"STRING", "I32", "STRUCT", "MAP"}, NEW value, Sendable(type, value)
  PROVE  Unwire(type, Wire(type, value)) = value
<1>1. CASE type = "STRUCT"
  BY <1>1, MetadataArrives DEF Wire, Unwire, Sendable
<1>2. CASE type = "MAP"
  <2>1. Wire(type, value) = [k \in DOMAIN value |-> SensorMetadata_write(value[k])]
    BY <1>2 DEF Wire
  <2>2. Unwire(type, Wire(type, value))
          = [k \in DOMAIN value |-> SensorMetadata_read(SensorMetadata_write(value[k]))]
    BY <1>2, <2>1 DEF Unwire
  <2>3. \A k \in DOMAIN value : SensorMetadata_read(SensorMetadata_write(value[k])) = value[k]
    BY <1>2, MetadataArrives DEF Sendable
  <2> QED BY <1>2, <2>2, <2>3 DEF Sendable
<1>3. CASE type \notin {"STRUCT", "MAP"}
  BY <1>3 DEF Wire, Unwire
<1> QED BY <1>1, <1>2, <1>3

LEMMA ArgumentsArrive ==
  ASSUME NEW method, NEW args,
         args = [i \in DOMAIN method.args |-> args[i]],
         \A i \in DOMAIN method.args : /\ method.args[i] \in {"STRING", "I32", "STRUCT", "MAP"}
                                       /\ Sendable(method.args[i], args[i])
  PROVE  ArgsOf(method, CallMessage(method, args)) = args
<1> DEFINE wires == [i \in DOMAIN method.args |-> Wire(method.args[i], args[i])]
           none == [i \in DOMAIN method.args |-> NoValue[method.args[i]]]
           read == ReadStruct(method.args, CallMessage(method, args).body, none)
<1>1. CallMessage(method, args).body = WriteStruct(method.args, wires)
  BY DEF CallMessage, Message
<1>2. read = [i \in DOMAIN method.args |-> Wire(method.args[i], args[i])]
  BY <1>1, StructArrives
<1>3. \A i \in DOMAIN method.args : Unwire(method.args[i], read[i]) = args[i]
  BY <1>2, ValueArrives
<1>4. ArgsOf(method, CallMessage(method, args)) = [i \in DOMAIN method.args |-> Unwire(method.args[i], read[i])]
  BY DEF ArgsOf
<1> HIDE DEF read, wires, none
<1>5. ArgsOf(method, CallMessage(method, args)) = [i \in DOMAIN method.args |-> args[i]]
  BY <1>3, <1>4
<1> QED BY <1>5

LEMMA SentIsSendable ==
  ASSUME NEW data \in Sent
  PROVE  /\ DOMAIN data # {} /\ FirstKey(data) \in DOMAIN data
         /\ data = [id \in DOMAIN data |-> data[id]]
         /\ \A id \in DOMAIN data : IsSensorMetadata(data[id]) /\ data[id][1] = Port
<1>1. PICK input \in Inputs : data = input[2]
  BY DEF Sent
<1> QED BY <1>1, DatabaseServerAssumption DEF FirstKey

\* A thread of the server hands its handler what the client was given.
LEMMA CallArrives ==
  ASSUME NEW op \in Ops, NEW data \in Sent
  PROVE  ArgsOf(MethodFor[op], CallMessage(MethodFor[op], ArgumentsFor(op, data)))
           = ArgumentsFor(op, data)
<1> DEFINE id == FirstKey(data)
<1>0. /\ IsSensorMetadata(data[id]) /\ data = [i \in DOMAIN data |-> data[i]]
      /\ \A i \in DOMAIN data : IsSensorMetadata(data[i])
  BY SentIsSendable
<1> HIDE DEF id
<1>1. CASE op \in {"isCreatePossible", "create"}
  <2>1. MethodFor[op].args = <<"MAP">> /\ ArgumentsFor(op, data) = <<data>>
    BY <1>1 DEF MethodFor, ArgumentsFor, CreateVote, Create, Method, isCreatePossible_args,
       createSensorMetadata_args
  <2> QED BY <1>0, <2>1, ArgumentsArrive DEF Sendable
<1>2. CASE op = "update"
  <2>1. MethodFor[op].args = <<"STRING", "STRUCT">> /\ ArgumentsFor(op, data) = <<id, data[id]>>
    BY <1>2 DEF MethodFor, ArgumentsFor, Update, Method, updateSensorMetadata_args, id
  <2> QED BY <1>0, <2>1, ArgumentsArrive DEF Sendable
<1>3. CASE op \in {"isUpdatePossible", "isDeletePossible", "delete", "read"}
  <2>1. MethodFor[op].args = <<"STRING">> /\ ArgumentsFor(op, data) = <<id>>
    BY <1>3 DEF MethodFor, ArgumentsFor, UpdateVote, DeleteVote, Delete, Read, Method,
       isUpdatePossible_args, isDeletePossible_args, deleteSensorMetadata_args,
       readSensorMetadata_args, id
  <2> QED BY <2>1, ArgumentsArrive DEF Sendable
<1>4. CASE op = "ping"
  <2>1. MethodFor[op].args = <<>> /\ ArgumentsFor(op, data) = <<>>
    BY <1>4 DEF MethodFor, ArgumentsFor, Ping, Method, ping_args
  <2>2. DOMAIN MethodFor[op].args = {}
    BY <2>1
  <2>3. ArgumentsFor(op, data) = [i \in DOMAIN MethodFor[op].args |-> ArgumentsFor(op, data)[i]]
    BY <2>1
  <2> QED BY <2>2, <2>3, ArgumentsArrive
<1>5. CASE op = "readAll"
  <2>1. MethodFor[op].args = <<"I32">> /\ ArgumentsFor(op, data) = <<Cardinality(DOMAIN data)>>
    BY <1>5 DEF MethodFor, ArgumentsFor, ReadAll, Method, readAll_args
  <2> QED BY <2>1, ArgumentsArrive DEF Sendable
<1> QED BY <1>1, <1>2, <1>3, <1>4, <1>5 DEF Ops, ServerOps, CommitOps

\* What a handler returns is taken for a result, what it throws for an exception, ...
LEMMA ReplyIsResult ==
  ASSUME NEW op \in Ops, NEW ret
  PROVE  Received(MethodFor[op], ReplyMessage(MethodFor[op], ret)).ends = "result"
<1> DEFINE method == MethodFor[op]
           message == ReplyMessage(method, ret)
<1>1. message.type = "REPLY" /\ message.name = method.name
  BY DEF ReplyMessage, Message
<1>2. method.result # "VOID" =>
        0 \in DOMAIN message.body /\ message.body[0].type = method.result
  BY DEF ReplyMessage, Message
<1> HIDE DEF message, method
<1> QED BY <1>1, <1>2 DEF Received, message, method

LEMMA ExceptionIsException ==
  ASSUME NEW method, NEW name
  PROVE  Received(method, ExceptionMessage(name)).ends = "exception"
<1>1. ExceptionMessage(name).type = "EXCEPTION"
  BY DEF ExceptionMessage, Message
<1> QED BY <1>1 DEF Received

\* ... and the result is, of the operations of the web server, what the handler returned.
LEMMA ResultArrives ==
  ASSUME NEW op \in ServerOps, NEW ret, op = "read" => IsSensorMetadata(ret)
  PROVE  Received(MethodFor[op], ReplyMessage(MethodFor[op], ret)).result = ret
<1> DEFINE method == MethodFor[op]
           message == ReplyMessage(method, ret)
<1>1. IF op = "read" THEN method.result = "STRUCT" ELSE method.result = "I32"
  BY DEF MethodFor, ServerOps, CommitOps, Read, CreateVote, UpdateVote, DeleteVote, Create, Update,
     Delete, Method, readSensorMetadata_result, isCreatePossible_result, isUpdatePossible_result,
     isDeletePossible_result, createSensorMetadata_result, updateSensorMetadata_result,
     deleteSensorMetadata_result
<1>2. Unwire(method.result, Wire(method.result, ret)) = ret
  BY <1>1, ValueArrives DEF Sendable
<1>3. /\ message.type = "REPLY" /\ message.name = method.name /\ 0 \in DOMAIN message.body
      /\ message.body[0] = [type |-> method.result, value |-> Wire(method.result, ret)]
  BY <1>1 DEF ReplyMessage, Message
<1> HIDE DEF message, method
<1> QED BY <1>1, <1>2, <1>3 DEF Received, message, method

-----------------------------------------------------------------------------
(* The inductive invariant *)

\* What is stored has been sent.
Stored(m) ==
  /\ m = [i \in DOMAIN m |-> m[i]]
  /\ \A i \in DOMAIN m : \E data \in Sent : i \in DOMAIN data /\ m[i] = data[i]

GlobalInv ==
  /\ Stored(collection)
  /\ numberOfCreateRequest \in Int /\ votes \in 0..MaxVotes
  /\ process \in {"running", "ended", "crashed"} /\ intact \in BOOLEAN
  /\ client = [n \in Clients |-> client[n]] /\ thread = [n \in Clients |-> thread[n]]
  /\ requests = [n \in Clients |-> requests[n]] /\ replies = [n \in Clients |-> replies[n]]

RecordsInv(n) ==
  /\ client[n] = [at |-> client[n].at, op |-> client[n].op, data |-> client[n].data]
  /\ thread[n] = [at |-> thread[n].at, method |-> thread[n].method,
                  args |-> thread[n].args, number |-> thread[n].number]
  /\ client[n].at \in {"idle", "waiting", "failed", "uncaught"}
  /\ client[n].op \in Ops /\ client[n].data \in Sent \cup {EmptyMap}
  /\ thread[n].at \in {"none", "handle", "count", "delay", "sleep", "limit", "map"}
  /\ thread[n].number \in Int

\* A call is in one place: in the request, in the server thread, or in the reply.
PlaceInv(n) ==
  /\ client[n].at \in {"idle", "uncaught"} => ~Pending(n) /\ replies[n] = NoFrame
  /\ client[n].at = "waiting" => Pending(n) \/ replies[n] # NoFrame
  /\ client[n].at = "failed" => Pending(n)
  /\ requests[n] # NoFrame => thread[n].at = "none"
  /\ replies[n] # NoFrame => ~Pending(n)
  /\ n \in thrown => client[n].at = "uncaught" \/ replies[n] # NoFrame
  /\ client[n].at = "uncaught" => n \in thrown

\* The message answers the call of n: its handler has returned something, or thrown.
Answers(n, message, throws) ==
  \/ throws /\ message = ExceptionMessage(MethodFor[client[n].op].name)
  \/ ~throws /\ \E ret : message = ReplyMessage(MethodFor[client[n].op], ret)

\* Whatever has become of the call, it is still this call.
CallInv(n) ==
  /\ client[n].at # "idle" => client[n].data \in Sent
  /\ requests[n] # NoFrame =>
       requests[n] = CallMessage(MethodFor[client[n].op], ArgumentsFor(client[n].op, client[n].data))
  /\ thread[n].at # "none" =>
       /\ thread[n].method = MethodFor[client[n].op]
       /\ thread[n].args = ArgumentsFor(client[n].op, client[n].data)
  /\ thread[n].at = "map" => client[n].op # "ping"
  /\ replies[n] # NoFrame => Answers(n, replies[n], n \in thrown)

ConnectionInv(n) == RecordsInv(n) /\ PlaceInv(n) /\ CallInv(n)

IInv == GlobalInv /\ \A n \in Clients : ConnectionInv(n)

\* A method is known by its name.
LEMMA MethodsDiffer ==
  ASSUME NEW op \in Ops
  PROVE  /\ MethodFor[op] \in Methods /\ MethodFor[op].name # "none"
         /\ \A method \in Methods : method.name = MethodFor[op].name => method = MethodFor[op]
         /\ MethodFor[op] = CreateVote => op = "isCreatePossible"
         /\ MethodFor[op] = UpdateVote => op = "isUpdatePossible"
         /\ MethodFor[op] = DeleteVote => op = "isDeletePossible"
         /\ MethodFor[op] = Create => op = "create"
         /\ MethodFor[op] = Update => op = "update"
         /\ MethodFor[op] = Delete => op = "delete"
         /\ MethodFor[op] = Read => op = "read"
         /\ MethodFor[op] = Ping => op = "ping"
         /\ MethodFor[op] = ReadAll => op = "readAll"
<1> DEFINE names == [isCreatePossible |-> "isCreatePossible", isUpdatePossible |-> "isUpdatePossible",
                     isDeletePossible |-> "isDeletePossible", create |-> "createSensorMetadata",
                     update |-> "updateSensorMetadata", delete |-> "deleteSensorMetadata",
                     read |-> "readSensorMetadata", ping |-> "ping", readAll |-> "readAll"]
<1>1. /\ CreateVote.name = "isCreatePossible" /\ UpdateVote.name = "isUpdatePossible"
      /\ DeleteVote.name = "isDeletePossible" /\ Create.name = "createSensorMetadata"
      /\ Update.name = "updateSensorMetadata" /\ Delete.name = "deleteSensorMetadata"
      /\ Read.name = "readSensorMetadata" /\ Ping.name = "ping" /\ ReadAll.name = "readAll"
  BY DEF CreateVote, UpdateVote, DeleteVote, Create, Update, Delete, Read, Ping, ReadAll, Method
<1>3. MethodFor[op] \in Methods /\ MethodFor[op].name = names[op] /\ op \in DOMAIN names
  BY <1>1 DEF MethodFor, Methods, Ops, ServerOps, CommitOps
<1>4. \A m1, m2 \in Methods : m1.name = m2.name => m1 = m2
  BY <1>1 DEF Methods
<1>5. \A x \in DOMAIN names : names[x] # "none"
  OBVIOUS
<1>6. \A x, y \in DOMAIN names : names[x] = names[y] => x = y
  OBVIOUS
<1>7. /\ CreateVote.name = names["isCreatePossible"] /\ UpdateVote.name = names["isUpdatePossible"]
      /\ DeleteVote.name = names["isDeletePossible"] /\ Create.name = names["create"]
      /\ Update.name = names["update"] /\ Delete.name = names["delete"]
      /\ Read.name = names["read"] /\ Ping.name = names["ping"]
      /\ ReadAll.name = names["readAll"]
      /\ {"isCreatePossible", "isUpdatePossible", "isDeletePossible", "create", "update",
          "delete", "read", "ping", "readAll"} = DOMAIN names
  BY <1>1
<1> HIDE DEF names
<1> QED BY <1>3, <1>4, <1>5, <1>6, <1>7

LEMMA FramesAreFrames ==
  ASSUME NEW op \in Ops, NEW x
  PROVE  /\ CallMessage(MethodFor[op], x) # NoFrame /\ ReplyMessage(MethodFor[op], x) # NoFrame
         /\ ExceptionMessage(MethodFor[op].name) # NoFrame
BY MethodsDiffer DEF CallMessage, ReplyMessage, ExceptionMessage, Message, NoFrame

THEOREM InitIInv == Init => IInv
<1> SUFFICES ASSUME Init PROVE IInv
  OBVIOUS
<1>1. GlobalInv
  BY DatabaseServerAssumption DEF Init, GlobalInv, Stored, EmptyMap
<1>2. ASSUME NEW n \in Clients PROVE ConnectionInv(n)
  <2>1. /\ client[n] = NoClient /\ thread[n] = NoThread /\ requests[n] = NoFrame /\ replies[n] = NoFrame
        /\ n \notin thrown
    BY DEF Init
  <2> QED BY <2>1 DEF ConnectionInv, RecordsInv, PlaceInv, CallInv, Pending, NoClient, NoThread, Ops
<1> QED BY <1>1, <1>2 DEF IInv

\* A step is one of one connection.
Elsewhere(n) ==
  \A m \in Clients \ {n} :
    /\ client'[m] = client[m] /\ thread'[m] = thread[m]
    /\ requests'[m] = requests[m] /\ replies'[m] = replies[m]
    /\ m \in thrown' <=> m \in thrown

LEMMA OneConnection ==
  ASSUME IInv, NEW n \in Clients, Elsewhere(n), GlobalInv', ConnectionInv(n)'
  PROVE  IInv'
<1>1. ASSUME NEW m \in Clients, m # n PROVE ConnectionInv(m)'
  <2>1. /\ client'[m] = client[m] /\ thread'[m] = thread[m]
        /\ requests'[m] = requests[m] /\ replies'[m] = replies[m]
        /\ m \in thrown' <=> m \in thrown
    BY <1>1 DEF Elsewhere
  <2>2. ConnectionInv(m)
    BY DEF IInv
  <2> QED BY <2>1, <2>2 DEF ConnectionInv, RecordsInv, PlaceInv, CallInv, Answers, Pending
<1> QED BY <1>1 DEF IInv

LEMMA CallIInv ==
  ASSUME IInv, NEW n \in Clients, NEW input \in Inputs, Call(n, input[1], input[2])
  PROVE  IInv' /\ Elsewhere(n) /\ input[1] \in Ops
<1> DEFINE op == input[1]  data == input[2]
<1>1. op \in Ops /\ data \in Sent
  BY DatabaseServerAssumption DEF Sent
<1> HIDE DEF op, data
<1>0. GlobalInv /\ ConnectionInv(n) /\ Call(n, op, data)
  BY DEF IInv, op, data
<1>2. GlobalInv' /\ Elsewhere(n)
  <2>1. /\ \E c : client' = [client EXCEPT ![n] = c]
        /\ \E r : requests' = [requests EXCEPT ![n] = r]
        /\ votes' \in 0..MaxVotes /\ UNCHANGED <<databaseVars, thread, replies, thrown>>
    <3>1. votes' \in 0..MaxVotes
      BY <1>0, DatabaseServerAssumption DEF Call, GlobalInv
    <3> QED BY <1>0, <3>1 DEF Call
  <2> QED BY <1>0, <2>1 DEF GlobalInv, Elsewhere, databaseVars
<1>3. /\ client'[n] = [at |-> "waiting", op |-> op, data |-> data]
      /\ requests'[n] = CallMessage(MethodFor[op], ArgumentsFor(op, data))
      /\ thread'[n] = thread[n] /\ replies'[n] = replies[n] /\ client[n].at = "idle"
      /\ thrown' = thrown
  BY <1>0 DEF Call, GlobalInv
<1>4. ConnectionInv(n)'
  BY <1>0, <1>1, <1>3, FramesAreFrames DEF ConnectionInv, RecordsInv, PlaceInv, CallInv, Pending
<1> QED BY <1>1, <1>2, <1>4, OneConnection DEF op

LEMMA ReceiveIInv ==
  ASSUME IInv, NEW n \in Clients, Receive(n)
  PROVE  /\ IInv' /\ Elsewhere(n)
         /\ client'[n] = NoClient \/ client'[n] = [client[n] EXCEPT !.at = "uncaught"]
<1> DEFINE received == Received(MethodFor[client[n].op], replies[n])
<1>0. /\ GlobalInv /\ RecordsInv(n) /\ PlaceInv(n) /\ CallInv(n)
      /\ client[n].at = "waiting" /\ replies[n] # NoFrame
  BY DEF IInv, ConnectionInv, Receive
<1>2. received.ends = IF n \in thrown THEN "exception" ELSE "result"
  <2>1. CASE n \in thrown
    BY <1>0, <2>1, ExceptionIsException DEF CallInv, Answers
  <2>2. CASE n \notin thrown
    BY <1>0, <2>2, ReplyIsResult DEF CallInv, Answers, RecordsInv
  <2> QED BY <2>1, <2>2
<1> HIDE DEF received
<1>3. GlobalInv' /\ Elsewhere(n)
  <2>1. /\ \E c : client' = [client EXCEPT ![n] = c]
        /\ \E r : replies' = [replies EXCEPT ![n] = r]
        /\ UNCHANGED <<databaseVars, thread, requests, historyVars>>
    BY DEF Receive
  <2> QED BY <1>0, <2>1 DEF GlobalInv, Elsewhere, databaseVars, historyVars
<1>4. /\ client'[n] = IF n \in thrown THEN [client[n] EXCEPT !.at = "uncaught"] ELSE NoClient
      /\ replies'[n] = NoFrame /\ thrown' = thrown
      /\ thread'[n] = thread[n] /\ requests'[n] = requests[n]
  BY <1>0, <1>2 DEF Receive, GlobalInv, historyVars, received
<1>5. ConnectionInv(n)'
  <2>1. ~Pending(n)
    BY <1>0 DEF PlaceInv
  <2> QED BY <1>0, <1>4, <2>1
      DEF ConnectionInv, RecordsInv, PlaceInv, CallInv, Pending, NoClient, Ops
<1> QED BY <1>3, <1>4, <1>5, OneConnection

LEMMA BreakIInv ==
  ASSUME IInv, NEW n \in Clients, Break(n)
  PROVE  IInv' /\ Elsewhere(n)
<1>0. GlobalInv /\ ConnectionInv(n)
  BY DEF IInv
<1>1. GlobalInv' /\ Elsewhere(n)
  BY <1>0 DEF Break, GlobalInv, Elsewhere, databaseVars
<1>2. /\ thread'[n] = thread[n] /\ replies'[n] = NoFrame /\ client[n].at = "waiting"
      /\ n \notin thrown'
  BY <1>0 DEF Break, GlobalInv
<1>3. \/ Pending(n) /\ client'[n] = [client[n] EXCEPT !.at = "failed"] /\ requests'[n] = requests[n]
      \/ thread[n].at = "none" /\ client'[n] = NoClient /\ requests'[n] = NoFrame
  BY <1>0 DEF Break, GlobalInv
<1>4. ConnectionInv(n)'
  BY <1>0, <1>2, <1>3 DEF ConnectionInv, RecordsInv, PlaceInv, CallInv, Pending, NoClient, Ops
<1> QED BY <1>1, <1>4, OneConnection

LEMMA dispatchIInv ==
  ASSUME IInv, NEW n \in Clients, dispatchCall(n)
  PROVE  /\ IInv' /\ UNCHANGED <<client, replies>> /\ thread'[n].at = "handle"
         /\ Elsewhere(n)
<1> DEFINE op == client[n].op  data == client[n].data
<1>0. /\ GlobalInv /\ RecordsInv(n) /\ PlaceInv(n) /\ CallInv(n)
      /\ requests[n] # NoFrame /\ op \in Ops
  BY DEF IInv, ConnectionInv, dispatchCall, RecordsInv
<1>1. requests[n] = CallMessage(MethodFor[op], ArgumentsFor(op, data)) /\ data \in Sent
  BY <1>0 DEF CallInv, PlaceInv, Pending, RecordsInv
<1> HIDE DEF op, data
<1>2. requests[n].name = MethodFor[op].name
  BY <1>1 DEF CallMessage, Message
<1>3. PICK method \in Methods :
        /\ requests[n].name = method.name
        /\ thread' = [thread EXCEPT ![n] = [NoThread EXCEPT
                        !.at = "handle", !.method = method, !.args = ArgsOf(method, requests[n])]]
        /\ UNCHANGED replies
  BY <1>0, <1>2, MethodsDiffer DEF dispatchCall
<1>4. method = MethodFor[op] /\ ArgsOf(method, requests[n]) = ArgumentsFor(op, data)
  BY <1>0, <1>1, <1>2, <1>3, MethodsDiffer, CallArrives
<1>5. /\ thread'[n] = [at |-> "handle", method |-> MethodFor[op],
                       args |-> ArgumentsFor(op, data), number |-> 0]
      /\ requests'[n] = NoFrame /\ UNCHANGED <<client, replies, thrown>>
  BY <1>0, <1>3, <1>4 DEF dispatchCall, GlobalInv, NoThread, historyVars
<1>6. GlobalInv' /\ Elsewhere(n)
  BY <1>0, <1>3 DEF dispatchCall, GlobalInv, Elsewhere, databaseVars, historyVars
<1>7. ConnectionInv(n)'
  BY <1>0, <1>5 DEF ConnectionInv, RecordsInv, PlaceInv, CallInv, Answers, Pending, op, data
<1> QED BY <1>5, <1>6, <1>7, OneConnection

-----------------------------------------------------------------------------
(* The handlers *)

\* What the handler of n leaves and returns is what the operation of module
\* DatabaseStore leaves and returns; of a data set that was read, its port.
Performs(n, outcome) ==
  LET result == HandleCall(client[n].op, collection, client[n].data)
  IN  /\ client[n].op # "ping"
      /\ outcome.store = result.store
      /\ CASE client[n].op = "read"    -> IsSensorMetadata(outcome.ret) /\ outcome.ret[1] = result.ret
           [] client[n].op = "readAll" -> TRUE
           [] OTHER                    -> outcome.ret = result.ret

\* One that throws leaves what module DatabaseStore says.
ThrowPerforms(n, left) ==
  [store |-> left, ret |-> Thrown] \in ThrowingCall(client[n].op, collection, client[n].data)

LEMMA StoredDataSet ==
  ASSUME Stored(collection), NEW i \in DOMAIN collection
  PROVE  IsSensorMetadata(collection[i]) /\ collection[i][1] = Port
<1>1. PICK data \in Sent : i \in DOMAIN data /\ collection[i] = data[i]
  BY DEF Stored
<1> QED BY <1>1, SentIsSendable

LEMMA NoDataSet ==
  IsSensorMetadata(NotFound) /\ NotFound[1] = -2
<1> DEFINE m == [NoSensorMetadata EXCEPT ![1] = -2]
<1>0. /\ NoSensorMetadata = [i \in 1..4 |-> NoSensorMetadata[i]]
      /\ NoSensorMetadata[4] = [i \in 1..3 |-> NoSensorMetadata[4][i]]
  BY DEF NoSensorMetadata, NoSensorData
<1>1. DOMAIN m = 1..4 /\ m[1] = -2 /\ m[4] = [i \in 1..3 |-> m[4][i]]
  BY <1>0
<1>2. m = [i \in DOMAIN m |-> m[i]] /\ m[4] = [i \in 1..3 |-> m[4][i]]
  <2>1. m = [i \in DOMAIN m |-> m[i]]
    OBVIOUS
  <2>2. m[4] = [i \in 1..3 |-> m[4][i]]
    BY <1>1
  <2> QED BY <2>1, <2>2
<1> HIDE DEF m
<1>3. IsSensorMetadata(m) /\ m[1] = -2
  BY <1>1, <1>2 DEF IsSensorMetadata
<1> QED BY <1>3 DEF m, NotFound

LEMMA HandlerPerforms ==
  ASSUME IInv, NEW n \in Clients,
         \/ process_updateSensorMetadata(n) \/ process_deleteSensorMetadata(n)
         \/ process_readSensorMetadata(n) \/ process_createSensorMetadata(n)
         \/ process_isUpdatePossible(n) \/ process_isDeletePossible(n)
         \/ process_isCreatePossible(n) \/ (process_readAll(n) /\ ~Crash)
  PROVE  /\ process = "running" /\ thread[n].at # "none"
         /\ \/ \E outcome : Returns(n, outcome) /\ Performs(n, outcome)
            \/ \E left : Throws(n, left) /\ ThrowPerforms(n, left)
<1> DEFINE op == client[n].op  data == client[n].data  id == FirstKey(data)  args == thread[n].args
<1>0. Stored(collection) /\ RecordsInv(n) /\ CallInv(n) /\ op \in Ops
  BY DEF IInv, GlobalInv, ConnectionInv, RecordsInv
<1>1. ASSUME NEW method, InMap(n, method)
      PROVE  /\ process = "running" /\ thread[n].at # "none" /\ method = MethodFor[op]
             /\ args = ArgumentsFor(op, data)
  BY <1>0, <1>1 DEF InMap, Handles, CallInv
<1>2. CASE process_updateSensorMetadata(n)
  <2>1. /\ process = "running" /\ thread[n].at # "none" /\ Update = MethodFor[op]
        /\ args = ArgumentsFor(op, data)
    BY <1>1, <1>2 DEF process_updateSensorMetadata
  <2>2. op = "update"
    BY <1>0, <2>1, MethodsDiffer
  <2>3. args[1] = id /\ args[2] = data[id]
    BY <2>1, <2>2 DEF ArgumentsFor
  <2> DEFINE outcome == updateSensorMetadata(collection, args[1], args[2])
  <2>4. Returns(n, outcome) \/ Throws(n, collection)
    BY <1>2 DEF process_updateSensorMetadata
  <2>5. Performs(n, outcome)
    BY <2>2, <2>3 DEF Performs, HandleCall
  <2>6. ThrowPerforms(n, collection)
    BY <2>2 DEF ThrowPerforms, ThrowingCall, ThrowingOps
  <2> QED BY <2>1, <2>4, <2>5, <2>6
<1>3. CASE process_deleteSensorMetadata(n)
  <2>1. /\ process = "running" /\ thread[n].at # "none" /\ Delete = MethodFor[op]
        /\ args = ArgumentsFor(op, data)
    BY <1>1, <1>3 DEF process_deleteSensorMetadata
  <2>2. op = "delete"
    BY <1>0, <2>1, MethodsDiffer
  <2>3. args[1] = id
    BY <2>1, <2>2 DEF ArgumentsFor
  <2> DEFINE outcome == deleteSensorMetadata(collection, args[1])
  <2>4. Returns(n, outcome)
    BY <1>3 DEF process_deleteSensorMetadata
  <2>5. Performs(n, outcome)
    BY <2>2, <2>3 DEF Performs, HandleCall
  <2> QED BY <2>1, <2>4, <2>5
<1>4. CASE process_readSensorMetadata(n)
  <2>1. /\ process = "running" /\ thread[n].at # "none" /\ Read = MethodFor[op]
        /\ args = ArgumentsFor(op, data)
    BY <1>1, <1>4 DEF process_readSensorMetadata
  <2>2. op = "read"
    BY <1>0, <2>1, MethodsDiffer
  <2>3. args[1] = id
    BY <2>1, <2>2 DEF ArgumentsFor
  <2> DEFINE ret == IF id \in DOMAIN collection THEN collection[id] ELSE NotFound
             outcome == [store |-> collection, ret |-> ret]
  <2>4. Returns(n, outcome) \/ Throws(n, collection)
    BY <1>4, <2>3 DEF process_readSensorMetadata
  <2>5. /\ IsSensorMetadata(ret)
        /\ ret[1] = IF id \in DOMAIN collection THEN Port ELSE -2
    <3>1. CASE id \in DOMAIN collection
      BY <1>0, <3>1, StoredDataSet
    <3>2. CASE id \notin DOMAIN collection
      BY <3>2, NoDataSet
    <3> QED BY <3>1, <3>2
  <2>6. Performs(n, outcome)
    BY <2>2, <2>5 DEF Performs, HandleCall, readSensorMetadata
  <2>7. ThrowPerforms(n, collection)
    BY <2>2 DEF ThrowPerforms, ThrowingCall, ThrowingOps
  <2> QED BY <2>1, <2>4, <2>6, <2>7
<1>5. CASE process_createSensorMetadata(n)
  <2>1. /\ process = "running" /\ thread[n].at # "none" /\ Create = MethodFor[op]
        /\ args = ArgumentsFor(op, data)
    BY <1>1, <1>5 DEF process_createSensorMetadata
  <2>2. op = "create"
    BY <1>0, <2>1, MethodsDiffer
  <2>3. args[1] = data
    BY <2>1, <2>2 DEF ArgumentsFor
  <2> DEFINE outcome == createSensorMetadata(collection, args[1])
  <2>4. \/ Returns(n, outcome)
        \/ \E part \in PartsOf(args[1]) : Throws(n, InsertAll(collection, part))
    BY <1>5 DEF process_createSensorMetadata
  <2>5. Performs(n, outcome)
    BY <2>2, <2>3 DEF Performs, HandleCall
  <2>6. \A part \in PartsOf(args[1]) : ThrowPerforms(n, InsertAll(collection, part))
    BY <2>2, <2>3 DEF ThrowPerforms, ThrowingCall, ThrowingOps
  <2> QED BY <2>1, <2>4, <2>5, <2>6
<1>6. CASE process_isUpdatePossible(n)
  <2>1. /\ process = "running" /\ thread[n].at # "none" /\ UpdateVote = MethodFor[op]
        /\ args = ArgumentsFor(op, data)
    BY <1>1, <1>6 DEF process_isUpdatePossible
  <2>2. op = "isUpdatePossible"
    BY <1>0, <2>1, MethodsDiffer
  <2>3. args[1] = id
    BY <2>1, <2>2 DEF ArgumentsFor
  <2> DEFINE outcome == isUpdatePossible(collection, args[1])
  <2>4. Returns(n, outcome)
    BY <1>6 DEF process_isUpdatePossible
  <2>5. Performs(n, outcome)
    BY <2>2, <2>3 DEF Performs, HandleCall
  <2> QED BY <2>1, <2>4, <2>5
<1>7. CASE process_isDeletePossible(n)
  <2>1. /\ process = "running" /\ thread[n].at # "none" /\ DeleteVote = MethodFor[op]
        /\ args = ArgumentsFor(op, data)
    BY <1>1, <1>7 DEF process_isDeletePossible
  <2>2. op = "isDeletePossible"
    BY <1>0, <2>1, MethodsDiffer
  <2>3. args[1] = id
    BY <2>1, <2>2 DEF ArgumentsFor
  <2> DEFINE outcome == isDeletePossible(collection, args[1])
  <2>4. Returns(n, outcome)
    BY <1>7 DEF process_isDeletePossible
  <2>5. Performs(n, outcome)
    BY <2>2, <2>3 DEF Performs, HandleCall
  <2> QED BY <2>1, <2>4, <2>5
<1>8. CASE process_isCreatePossible(n)
  <2>1. /\ process = "running" /\ thread[n].at # "none" /\ CreateVote = MethodFor[op]
        /\ args = ArgumentsFor(op, data)
    BY <1>1, <1>8 DEF process_isCreatePossible
  <2>2. op = "isCreatePossible"
    BY <1>0, <2>1, MethodsDiffer
  <2>3. args[1] = data
    BY <2>1, <2>2 DEF ArgumentsFor
  <2> DEFINE outcome == isCreatePossible(collection, args[1])
  <2>4. Returns(n, outcome)
    BY <1>8 DEF process_isCreatePossible
  <2>5. Performs(n, outcome)
    BY <2>2, <2>3 DEF Performs, HandleCall
  <2> QED BY <2>1, <2>4, <2>5
<1>9. CASE process_readAll(n) /\ ~Crash
  <2>1. /\ process = "running" /\ thread[n].at # "none" /\ ReadAll = MethodFor[op]
    BY <1>1, <1>9 DEF process_readAll
  <2>2. op = "readAll"
    BY <1>0, <2>1, MethodsDiffer
  <2>3. \/ \E rows : Returns(n, [store |-> collection, ret |-> [i \in rows |-> collection[i]]])
        \/ Throws(n, collection)
    BY <1>9 DEF process_readAll
  <2>4. \A ret : Performs(n, [store |-> collection, ret |-> ret])
    BY <2>2 DEF Performs, HandleCall, readAll
  <2>5. ThrowPerforms(n, collection)
    BY <2>2 DEF ThrowPerforms, ThrowingCall, ThrowingOps
  <2> QED BY <2>1, <2>3, <2>4, <2>5
<1> QED BY <1>2, <1>3, <1>4, <1>5, <1>6, <1>7, <1>8, <1>9

\* ping leaves the collection as it is.
LEMMA PingReturns ==
  ASSUME IInv, NEW n \in Clients, process_ping(n)
  PROVE  /\ process = "running" /\ thread[n].at # "none" /\ client[n].op = "ping"
         /\ \E outcome : Returns(n, outcome) /\ outcome.store = collection
<1>0. RecordsInv(n) /\ CallInv(n)
  BY DEF IInv, ConnectionInv
<1>1. process = "running" /\ thread[n].at # "none" /\ Ping = MethodFor[client[n].op]
  BY <1>0 DEF process_ping, Handles, CallInv
<1>2. client[n].op = "ping"
  BY <1>0, <1>1, MethodsDiffer DEF RecordsInv
<1> QED BY <1>1, <1>2 DEF process_ping

\* What an operation leaves of stored data is stored data.
LEMMA HandlersStore ==
  ASSUME NEW op \in Ops \ {"ping"}, NEW data \in Sent, Stored(collection)
  PROVE  Stored(HandleCall(op, collection, data).store)
<1> DEFINE id == FirstKey(data)  left == HandleCall(op, collection, data).store
<1>1. id \in DOMAIN data /\ collection = [i \in DOMAIN collection |-> collection[i]]
  BY SentIsSendable DEF Stored
<1>2. CASE op = "create"
  <2>1. left = InsertAll(collection, data)
    BY <1>2 DEF HandleCall, createSensorMetadata
  <2> HIDE DEF left
  <2> QED BY <2>1 DEF Stored, InsertAll, left
<1>3. CASE op = "update"
  <2>1. left = IF id \in DOMAIN collection THEN [collection EXCEPT ![id] = data[id]] ELSE collection
    BY <1>3 DEF HandleCall, updateSensorMetadata
  <2> HIDE DEF id, left
  <2>2. CASE id \notin DOMAIN collection
    BY <2>1, <2>2 DEF left
  <2>3. CASE id \in DOMAIN collection
    <3>1. DOMAIN left = DOMAIN collection /\ left[id] = data[id]
          /\ \A i \in DOMAIN collection \ {id} : left[i] = collection[i]
      BY <2>1, <2>3
    <3>2. left = [i \in DOMAIN left |-> left[i]]
      BY <1>1, <2>1, <2>3
    <3>3. Stored(left)
      BY <1>1, <3>1, <3>2 DEF Stored
    <3> QED BY <3>3 DEF left
  <2> QED BY <2>2, <2>3
<1>4. CASE op = "delete"
  <2>1. left = [i \in DOMAIN collection \ {id} |-> collection[i]]
    BY <1>4 DEF HandleCall, deleteSensorMetadata
  <2> HIDE DEF left, id
  <2> QED BY <2>1 DEF Stored, left
<1>5. CASE op \in Ops \ (CommitOps \cup {"ping"})
  <2>1. left = collection
    BY <1>5 DEF HandleCall, Ops, ServerOps, CommitOps, isCreatePossible, isUpdatePossible,
       isDeletePossible, readSensorMetadata, readAll
  <2> HIDE DEF left
  <2> QED BY <2>1 DEF left
<1> QED BY <1>2, <1>3, <1>4, <1>5 DEF Ops, ServerOps, CommitOps

LEMMA ThrowsStore ==
  ASSUME NEW op, NEW data \in Sent, Stored(collection),
         NEW result \in ThrowingCall(op, collection, data)
  PROVE  Stored(result.store)
<1>1. CASE op = "create"
  <2>1. PICK part \in PartsOf(data) : result = [store |-> InsertAll(collection, part), ret |-> Thrown]
    BY <1>1 DEF ThrowingCall
  <2>2. DOMAIN part \subseteq DOMAIN data /\ \A i \in DOMAIN part : part[i] = data[i]
    BY DEF PartsOf
  <2>3. Stored(InsertAll(collection, part))
    BY <2>2 DEF Stored, InsertAll
  <2> QED BY <2>1, <2>3
<1>2. CASE op # "create"
  <2>1. result = [store |-> collection, ret |-> Thrown]
    BY <1>2 DEF ThrowingCall, ThrowingOps
  <2> QED BY <2>1
<1> QED BY <1>1, <1>2

\* The reply to the call of n is written, whatever has come of it.
LEMMA ReplyIInv ==
  ASSUME IInv, NEW n \in Clients, NEW left, NEW message,
         thread[n].at # "none", Reply(n, left, message), Stored(left),
         client[n].at = "waiting" => Answers(n, message, n \in thrown'),
         client[n].at = "failed" => n \notin thrown',
         \A m \in Clients \ {n} : m \in thrown' <=> m \in thrown
  PROVE  /\ IInv' /\ Elsewhere(n) /\ thread'[n] = NoThread /\ requests'[n] = NoFrame
         /\ UNCHANGED <<numberOfCreateRequest, process, votes>>
<1>0. /\ GlobalInv /\ RecordsInv(n) /\ PlaceInv(n) /\ CallInv(n)
      /\ requests[n] = NoFrame /\ replies[n] = NoFrame
  BY DEF IInv, ConnectionInv, PlaceInv, Pending
<1>1. /\ thread'[n] = NoThread /\ requests'[n] = NoFrame
      /\ UNCHANGED <<numberOfCreateRequest, process, intact, requests, votes>>
  BY <1>0 DEF Reply, GlobalInv
<1>2. GlobalInv' /\ Elsewhere(n)
  <2>1. /\ client' = client \/ client' = [client EXCEPT ![n] = NoClient]
        /\ thread' = [thread EXCEPT ![n] = NoThread] /\ collection' = left
    BY DEF Reply
  <2>2. replies' = replies \/ \E r : replies' = [replies EXCEPT ![n] = r]
    BY DEF Reply
  <2> QED BY <1>0, <1>1, <2>1, <2>2 DEF GlobalInv, Elsewhere
<1>3. CASE client[n].at = "waiting" /\ UNCHANGED client
  <2>1. replies'[n] = message
    BY <1>0, <1>3 DEF Reply, GlobalInv
  <2>2. Answers(n, message, n \in thrown') /\ message # NoFrame
    BY <1>0, <1>3, FramesAreFrames DEF Answers, RecordsInv
  <2>3. ConnectionInv(n)'
    <3>1. RecordsInv(n)'
      BY <1>0, <1>1, <1>3 DEF RecordsInv, NoThread
    <3>2. PlaceInv(n)'
      BY <1>0, <1>1, <1>3, <2>1, <2>2 DEF PlaceInv, Pending, NoThread
    <3>3. CallInv(n)'
      BY <1>0, <1>1, <1>3, <2>1, <2>2 DEF CallInv, Answers, NoThread
    <3> QED BY <3>1, <3>2, <3>3 DEF ConnectionInv
  <2> QED BY <1>1, <1>2, <2>3, OneConnection
<1>4. CASE client[n].at = "failed" /\ client' = [client EXCEPT ![n] = NoClient] /\ UNCHANGED replies
  <2>1. client'[n] = NoClient /\ replies'[n] = NoFrame
    BY <1>0, <1>4 DEF GlobalInv
  <2>2. ConnectionInv(n)'
    BY <1>0, <1>1, <1>4, <2>1
       DEF ConnectionInv, RecordsInv, PlaceInv, CallInv, Pending, NoThread, NoClient, Ops
  <2> QED BY <1>1, <1>2, <2>2, OneConnection
<1> QED BY <1>3, <1>4 DEF Reply

\* A handler returns something, ...
LEMMA ReturnsIInv ==
  ASSUME IInv, NEW n \in Clients, NEW outcome,
         thread[n].at # "none", Returns(n, outcome), Stored(outcome.store)
  PROVE  /\ IInv' /\ Elsewhere(n) /\ thread'[n] = NoThread /\ requests'[n] = NoFrame
         /\ UNCHANGED <<numberOfCreateRequest, process, votes, intact>>
<1> DEFINE message == ReplyMessage(thread[n].method, outcome.ret)
<1>1. CallInv(n) /\ PlaceInv(n)
  BY DEF IInv, ConnectionInv
<1>2. n \notin thrown
  BY <1>1 DEF PlaceInv, Pending
<1>3. message = ReplyMessage(MethodFor[client[n].op], outcome.ret)
  BY <1>1 DEF CallInv
<1>4. /\ Reply(n, outcome.store, message) /\ thrown' = thrown /\ intact' = intact
      /\ Answers(n, message, n \in thrown')
  BY <1>2, <1>3 DEF Returns, Reply, Answers
<1> HIDE DEF message
<1> QED BY <1>2, <1>4, ReplyIInv

\* ... or it throws.
LEMMA ThrowsIInv ==
  ASSUME IInv, NEW n \in Clients, NEW left,
         thread[n].at # "none", Throws(n, left), Stored(left)
  PROVE  /\ IInv' /\ Elsewhere(n) /\ thread'[n] = NoThread /\ requests'[n] = NoFrame
         /\ UNCHANGED <<numberOfCreateRequest, process, votes, intact>>
<1> DEFINE message == ExceptionMessage(thread[n].method.name)
<1>1. CallInv(n) /\ PlaceInv(n)
  BY DEF IInv, ConnectionInv
<1>2. n \notin thrown
  BY <1>1 DEF PlaceInv, Pending
<1>3. message = ExceptionMessage(MethodFor[client[n].op].name)
  BY <1>1 DEF CallInv
<1>4. /\ Reply(n, left, message) /\ intact' = intact
      /\ thrown' = IF client[n].at = "waiting" THEN thrown \cup {n} ELSE thrown
  BY DEF Throws, Reply
<1> HIDE DEF message
<1>5. client[n].at = "waiting" => Answers(n, message, n \in thrown')
  BY <1>3, <1>4 DEF Answers
<1> QED BY <1>2, <1>4, <1>5, ReplyIInv

\* A step within isCreatePossible.
LEMMA WithinVote ==
  ASSUME IInv, NEW n \in Clients,
         ReadCounter(n) \/ WriteCounter(n) \/ Delay(n) \/ WakeUp(n)
  PROVE  /\ IInv' /\ Elsewhere(n) /\ UNCHANGED <<collection, process, intact, client, requests, replies, votes>>
         /\ process = "running" /\ client[n].op = "isCreatePossible" /\ thread'[n].at # "none"
         /\ thread[n].at # "none"
<1>0. GlobalInv /\ RecordsInv(n) /\ PlaceInv(n) /\ CallInv(n)
  BY DEF IInv, ConnectionInv
<1>1. /\ process = "running" /\ thread[n].method = CreateVote /\ thread[n].at # "none"
      /\ UNCHANGED <<collection, process, intact, client, requests, replies, votes, thrown>>
  BY DEF ReadCounter, WriteCounter, Delay, WakeUp, Handles, databaseVars, historyVars
<1>2. client[n].op = "isCreatePossible"
  BY <1>0, <1>1, MethodsDiffer DEF RecordsInv, CallInv
<1>3. \E place \in {"count", "delay", "sleep", "limit"}, k \in Int :
        thread' = [thread EXCEPT ![n].at = place, ![n].number = k]
  <2>1. CASE ReadCounter(n)
    BY <1>0, <2>1 DEF ReadCounter, GlobalInv
  <2>2. CASE ~ReadCounter(n)
    <3>1. PICK place \in {"count", "delay", "sleep", "limit"} : thread' = [thread EXCEPT ![n].at = place]
      BY <2>2 DEF WriteCounter, Delay, WakeUp, GoTo
    <3>2. thread' = [thread EXCEPT ![n].at = place, ![n].number = thread[n].number]
      BY <1>0, <3>1 DEF GlobalInv, RecordsInv
    <3> QED BY <1>0, <3>2 DEF RecordsInv
  <2> QED BY <2>1, <2>2
<1>4. PICK place \in {"count", "delay", "sleep", "limit"} :
        \E k \in Int : thread' = [thread EXCEPT ![n].at = place, ![n].number = k]
  BY <1>3
<1>5. PICK k \in Int : thread' = [thread EXCEPT ![n].at = place, ![n].number = k]
  BY <1>4
<1>6. thread'[n] = [at |-> place, method |-> thread[n].method, args |-> thread[n].args, number |-> k]
  BY <1>0, <1>5 DEF GlobalInv, RecordsInv
<1>7. numberOfCreateRequest' \in Int
  BY <1>0 DEF ReadCounter, WriteCounter, Delay, WakeUp, databaseVars, GlobalInv, RecordsInv
<1>8. GlobalInv' /\ Elsewhere(n)
  BY <1>0, <1>1, <1>5, <1>7 DEF GlobalInv, Elsewhere
<1>9. ConnectionInv(n)'
  BY <1>0, <1>1, <1>6 DEF ConnectionInv, RecordsInv, PlaceInv, CallInv, Answers, Pending
<1> QED BY <1>1, <1>2, <1>6, <1>8, <1>9, OneConnection

\* A handler begins to use the map.
LEMMA EnterIInv ==
  ASSUME IInv, NEW n \in Clients, Enter(n) \/ Vote(n)
  PROVE  /\ IInv' /\ Elsewhere(n) /\ process = "running" /\ thread[n].at \in {"handle", "limit"}
         /\ thread'[n].at = "map"
         /\ UNCHANGED <<numberOfCreateRequest, process, client, requests, replies, votes, thrown>>
<1>0. GlobalInv /\ RecordsInv(n) /\ PlaceInv(n) /\ CallInv(n)
  BY DEF IInv, ConnectionInv
<1>1. /\ process = "running" /\ thread[n].at \in {"handle", "limit"} /\ EnterMap(n)
  BY DEF Enter, Vote, Handles
<1>2. /\ thread' = [thread EXCEPT ![n].at = "map"]
      /\ UNCHANGED <<numberOfCreateRequest, process, client, requests, replies, votes, thrown>>
  BY <1>1 DEF EnterMap, historyVars
<1>3. thread'[n] = [at |-> "map", method |-> thread[n].method, args |-> thread[n].args,
                    number |-> thread[n].number]
  BY <1>0, <1>2 DEF GlobalInv, RecordsInv
<1>7. client[n].op # "ping"
  <2>1. thread[n].method # Ping \/ thread[n].method = CreateVote
    BY DEF Enter, Vote, Handles
  <2>2. thread[n].method = MethodFor[client[n].op] /\ client[n].op \in Ops
    BY <1>0, <1>1 DEF CallInv, RecordsInv
  <2>3. MethodFor["ping"] = Ping
    BY DEF MethodFor
  <2> QED BY <2>1, <2>2, <2>3, MethodsDiffer
<1>4. Stored(collection)' /\ intact' \in BOOLEAN
  <2>1. CASE UNCHANGED <<collection, intact>>
    BY <1>0, <2>1 DEF GlobalInv
  <2>2. CASE collection' = EmptyMap /\ intact' = FALSE
    BY <2>2 DEF Stored, EmptyMap
  <2> QED BY <1>1, <2>1, <2>2 DEF EnterMap
<1>5. GlobalInv' /\ Elsewhere(n)
  BY <1>0, <1>2, <1>4 DEF GlobalInv, Elsewhere
<1>6. ConnectionInv(n)'
  BY <1>0, <1>1, <1>2, <1>3, <1>7
     DEF ConnectionInv, RecordsInv, PlaceInv, CallInv, Answers, Pending
<1> QED BY <1>1, <1>2, <1>3, <1>5, <1>6, OneConnection

\* The steps that end the process.
Ends(n) == Exit(n) \/ ((process_readAll(n) \/ Undefined(n)) /\ Crash)

LEMMA EndIInv ==
  ASSUME IInv, NEW n \in Clients, Ends(n)
  PROVE  /\ IInv' /\ Elsewhere(n) /\ process = "running" /\ process' \in {"ended", "crashed"}
         /\ UNCHANGED <<collection, numberOfCreateRequest, intact, thread, client, requests, replies, votes>>
<1>1. /\ process = "running" /\ process' \in {"ended", "crashed"}
      /\ UNCHANGED <<collection, numberOfCreateRequest, intact, thread, client, requests, replies,
                     votes, thrown>>
  BY DEF Ends, Exit, Crash, process_readAll, Undefined, InMap, Handles, historyVars
<1>2. GlobalInv' /\ \A m \in Clients : ConnectionInv(m)'
  BY <1>1 DEF IInv, GlobalInv, ConnectionInv, RecordsInv, PlaceInv, CallInv, Answers, Pending
<1> QED BY <1>1, <1>2 DEF IInv, Elsewhere

\* The steps that end a call, in a handler or in what has become of it.
Finishes(n) ==
  \/ \E outcome : Returns(n, outcome) /\ (Performs(n, outcome) \/ outcome.store = collection)
  \/ \E left : Throws(n, left) /\ (ThrowPerforms(n, left) \/ left = collection)

LEMMA FinishIInv ==
  ASSUME IInv, NEW n \in Clients, thread[n].at # "none", Finishes(n)
  PROVE  /\ IInv' /\ Elsewhere(n) /\ thread'[n] = NoThread /\ requests'[n] = NoFrame
         /\ UNCHANGED <<numberOfCreateRequest, process, votes, intact>>
<1>0. /\ Stored(collection) /\ client[n].data \in Sent /\ client[n].op \in Ops
  BY DEF IInv, GlobalInv, ConnectionInv, RecordsInv, PlaceInv, CallInv, Pending
<1>1. ASSUME NEW outcome, Returns(n, outcome), Performs(n, outcome) \/ outcome.store = collection
      PROVE  Stored(outcome.store)
  BY <1>0, <1>1, HandlersStore DEF Performs
<1>2. ASSUME NEW left, Throws(n, left), ThrowPerforms(n, left) \/ left = collection
      PROVE  Stored(left)
  <2>1. CASE ThrowPerforms(n, left)
    <3>1. Stored([store |-> left, ret |-> Thrown].store)
      BY <1>0, <2>1, ThrowsStore DEF ThrowPerforms
    <3> QED BY <3>1
  <2> QED BY <1>0, <1>2, <2>1
<1> QED BY <1>1, <1>2, ReturnsIInv, ThrowsIInv DEF Finishes

LEMMA HandlerFinishes ==
  ASSUME IInv, NEW n \in Clients,
         \/ process_ping(n) \/ process_updateSensorMetadata(n) \/ process_deleteSensorMetadata(n)
         \/ process_readSensorMetadata(n) \/ process_createSensorMetadata(n)
         \/ process_isUpdatePossible(n) \/ process_isDeletePossible(n)
         \/ process_isCreatePossible(n) \/ ((process_readAll(n) \/ Undefined(n)) /\ ~Crash)
  PROVE  thread[n].at # "none" /\ Finishes(n)
<1>1. CASE Undefined(n) /\ ~Crash
  <2>1. thread[n].at # "none"
    BY <1>1 DEF Undefined
  <2>2. \/ \E ret : Returns(n, [store |-> collection, ret |-> ret])
        \/ Throws(n, collection)
    BY <1>1 DEF Undefined
  <2>3. \A ret : [store |-> collection, ret |-> ret].store = collection
    OBVIOUS
  <2> QED BY <2>1, <2>2, <2>3 DEF Finishes
<1>2. CASE process_ping(n)
  BY <1>2, PingReturns DEF Finishes
<1>3. CASE \/ process_updateSensorMetadata(n) \/ process_deleteSensorMetadata(n)
           \/ process_readSensorMetadata(n) \/ process_createSensorMetadata(n)
           \/ process_isUpdatePossible(n) \/ process_isDeletePossible(n)
           \/ process_isCreatePossible(n) \/ (process_readAll(n) /\ ~Crash)
  <2>1. /\ thread[n].at # "none"
        /\ \/ \E outcome : Returns(n, outcome) /\ Performs(n, outcome)
           \/ \E left : Throws(n, left) /\ ThrowPerforms(n, left)
    BY <1>3, HandlerPerforms
  <2> QED BY <2>1 DEF Finishes
<1> QED BY <1>1, <1>2, <1>3

LEMMA StepIInv == IInv /\ [Next]_vars => IInv'
<1> SUFFICES ASSUME IInv, [Next]_vars PROVE IInv'
  OBVIOUS
<1>1. CASE UNCHANGED vars
  <2>1. GlobalInv' /\ \A m \in Clients : ConnectionInv(m)'
    BY <1>1 DEF vars, databaseVars, historyVars, IInv, GlobalInv, ConnectionInv, RecordsInv,
       PlaceInv, CallInv, Answers, Pending
  <2> QED BY <2>1 DEF IInv
<1>2. ASSUME NEW n \in Clients, NEW input \in Inputs, Call(n, input[1], input[2]) PROVE IInv'
  BY <1>2, CallIInv
<1>3. ASSUME NEW n \in Clients, Receive(n) \/ Break(n) PROVE IInv'
  BY <1>3, ReceiveIInv, BreakIInv
<1>4. ASSUME NEW n \in Clients, ServerThread(n) \/ Undefined(n) PROVE IInv'
  <2>1. CASE dispatchCall(n)
    BY <2>1, dispatchIInv
  <2>2. CASE \/ process_ping(n) \/ process_updateSensorMetadata(n)
             \/ process_deleteSensorMetadata(n) \/ process_readSensorMetadata(n)
             \/ process_createSensorMetadata(n) \/ process_isUpdatePossible(n)
             \/ process_isDeletePossible(n) \/ process_isCreatePossible(n)
             \/ ((process_readAll(n) \/ Undefined(n)) /\ ~Crash)
    BY <2>2, HandlerFinishes, FinishIInv
  <2>3. CASE Enter(n) \/ Vote(n)
    BY <2>3, EnterIInv
  <2>4. CASE ReadCounter(n) \/ WriteCounter(n) \/ Delay(n) \/ WakeUp(n)
    BY <2>4, WithinVote
  <2>5. CASE Exit(n) \/ ((process_readAll(n) \/ Undefined(n)) /\ Crash)
    BY <2>5, EndIInv DEF Ends
  <2> QED BY <1>4, <2>1, <2>2, <2>3, <2>4, <2>5 DEF ServerThread
<1> QED BY <1>1, <1>2, <1>3, <1>4 DEF Next

THEOREM Invariance == Spec => []IInv
BY InitIInv, StepIInv, PTL DEF Spec

\* A TApplicationException leaves a thread of the web server only if the handler of its
\* call has thrown; whatever a handler returns, the client takes for a result, and
\* whatever it throws, for an exception.
THEOREM UncaughtIsThrown == Spec => []UncaughtWasThrown
<1>1. IInv => UncaughtWasThrown
  <2> SUFFICES ASSUME IInv, NEW n \in Clients
               PROVE  /\ client[n].at = "uncaught" => n \in thrown
                      /\ replies[n] # NoFrame =>
                           Received(MethodFor[client[n].op], replies[n]).ends
                             = IF n \in thrown THEN "exception" ELSE "result"
    BY DEF UncaughtWasThrown
  <2>1. RecordsInv(n) /\ PlaceInv(n) /\ CallInv(n)
    BY DEF IInv, ConnectionInv
  <2>2. CASE n \in thrown
    BY <2>1, <2>2, ExceptionIsException DEF PlaceInv, CallInv, Answers
  <2>3. CASE n \notin thrown
    BY <2>1, <2>3, ReplyIsResult DEF PlaceInv, CallInv, Answers, RecordsInv
  <2> QED BY <2>2, <2>3
<1> QED BY <1>1, Invariance, PTL

-----------------------------------------------------------------------------
(* The counter of the votes *)

\* The vote of n has not been counted yet.
IsUnwritten(n) ==
  client[n].op = "isCreatePossible" /\ (requests[n] # NoFrame \/ thread[n].at \in {"handle", "count"})

Unwritten == {n \in Clients : IsUnwritten(n)}

\* A number the counter has, or is about to have, counts none of the votes that are
\* still to be counted.
Counts(number) ==
  number \in Int /\ number >= -1 /\ number + 1 + Cardinality(Unwritten) <= votes

CountInv ==
  /\ Counts(numberOfCreateRequest)
  /\ \A n \in Clients : thread[n].at = "count" =>
       client[n].op = "isCreatePossible" /\ Counts(thread[n].number)
  /\ EndsAtTheLimit

LEMMA UnwrittenFinite == IsFiniteSet(Unwritten) /\ Cardinality(Unwritten) \in Nat
<1>1. IsFiniteSet(Clients)
  BY DatabaseServerAssumption, FS_Interval DEF Clients
<1> QED BY <1>1, FS_Subset, FS_CardinalityType DEF Unwritten

\* A step of one connection changes what is uncounted by its own vote.
LEMMA UnwrittenChanges ==
  ASSUME NEW n \in Clients, Elsewhere(n)
  PROVE  Cardinality(Unwritten') =
           Cardinality(Unwritten) + (IF IsUnwritten(n)' THEN 1 ELSE 0) - (IF IsUnwritten(n) THEN 1 ELSE 0)
<1>1. \A m \in Clients \ {n} : IsUnwritten(m)' <=> IsUnwritten(m)
  BY DEF Elsewhere, IsUnwritten
<1>2. IsFiniteSet(Unwritten) /\ Cardinality(Unwritten) \in Nat
  BY UnwrittenFinite
<1>3. CASE IsUnwritten(n)' <=> IsUnwritten(n)
  <2>1. Unwritten' = Unwritten
    BY <1>1, <1>3 DEF Unwritten
  <2> QED BY <1>2, <1>3, <2>1
<1>4. CASE IsUnwritten(n)' /\ ~IsUnwritten(n)
  <2>1. Unwritten' = Unwritten \cup {n} /\ n \notin Unwritten
    BY <1>1, <1>4 DEF Unwritten
  <2>2. Cardinality(Unwritten') = Cardinality(Unwritten) + 1
    BY <1>2, <2>1, FS_AddElement
  <2> QED BY <1>2, <1>4, <2>2
<1>5. CASE ~IsUnwritten(n)' /\ IsUnwritten(n)
  <2>1. Unwritten' = Unwritten \ {n} /\ n \in Unwritten
    BY <1>1, <1>5 DEF Unwritten
  <2>2. Cardinality(Unwritten') = Cardinality(Unwritten) - 1
    BY <1>2, <2>1, FS_RemoveElement
  <2> QED BY <1>2, <1>5, <2>2
<1> QED BY <1>3, <1>4, <1>5

\* Steps that leave the counter alone, and make no vote.
LEMMA CounterKept ==
  ASSUME IInv, CountInv, NEW n \in Clients, Elsewhere(n),
         UNCHANGED <<numberOfCreateRequest, votes>>,
         IsUnwritten(n)' => IsUnwritten(n),
         thread'[n].at = "count" =>
           /\ client'[n].op = "isCreatePossible"
           /\ \/ thread[n].at = "count" /\ thread'[n].number = thread[n].number
              \/ thread'[n].number = numberOfCreateRequest,
         process' = "ended" => process = "ended" \/ numberOfCreateRequest >= LastCreateRequest
  PROVE  CountInv'
<1>1. Cardinality(Unwritten') <= Cardinality(Unwritten)
      /\ Cardinality(Unwritten') \in Nat /\ Cardinality(Unwritten) \in Nat
  <2>1. Cardinality(Unwritten') =
           Cardinality(Unwritten) + (IF IsUnwritten(n)' THEN 1 ELSE 0) - (IF IsUnwritten(n) THEN 1 ELSE 0)
    BY UnwrittenChanges
  <2>2. Cardinality(Unwritten) \in Nat /\ (IsUnwritten(n) => Cardinality(Unwritten) > 0)
    BY UnwrittenFinite, FS_EmptySet DEF Unwritten
  <2> HIDE DEF Unwritten, IsUnwritten
  <2> QED BY <2>1, <2>2
<1>2. votes \in Int /\ LastCreateRequest \in Nat
  BY DatabaseServerAssumption DEF IInv, GlobalInv
<1>3. ASSUME NEW number, Counts(number) PROVE Counts(number)'
  BY <1>1, <1>2, <1>3 DEF Counts
<1>4. ASSUME NEW m \in Clients, thread'[m].at = "count"
      PROVE  client'[m].op = "isCreatePossible" /\ Counts(thread[m].number)'
  <2>1. CASE m = n
    <3>1. Counts(thread'[n].number)
      BY <1>4, <2>1 DEF CountInv
    <3> QED BY <1>3, <1>4, <2>1, <3>1 DEF Counts
  <2>2. CASE m # n
    <3>1. client'[m] = client[m] /\ thread'[m] = thread[m]
      BY <2>2 DEF Elsewhere
    <3>2. Counts(thread'[m].number) /\ client'[m].op = "isCreatePossible"
      BY <1>4, <3>1 DEF CountInv
    <3> QED BY <1>3, <3>2 DEF Counts
  <2> QED BY <2>1, <2>2
<1>5. Counts(numberOfCreateRequest)'
  BY <1>3 DEF CountInv, Counts
<1>6. EndsAtTheLimit'
  BY <1>1, <1>2 DEF CountInv, Counts, EndsAtTheLimit
<1> QED BY <1>4, <1>5, <1>6 DEF CountInv

LEMMA CallCounts ==
  ASSUME IInv, CountInv, NEW n \in Clients, NEW input \in Inputs, Call(n, input[1], input[2])
  PROVE  CountInv'
<1>0. /\ Elsewhere(n) /\ client[n].at = "idle" /\ client' = [client EXCEPT ![n] =
           [at |-> "waiting", op |-> input[1], data |-> input[2]]]
      /\ ~Pending(n) /\ UNCHANGED <<databaseVars, thread>>
      /\ GlobalInv
  <2>1. PlaceInv(n) /\ GlobalInv
    BY DEF IInv, ConnectionInv
  <2> QED BY <2>1, CallIInv DEF Call, PlaceInv
<1>1. /\ client'[n].op = input[1] /\ thread'[n].at = "none" /\ ~IsUnwritten(n)
      /\ IsUnwritten(n)' => input[1] = "isCreatePossible"
  BY <1>0 DEF GlobalInv, Pending, IsUnwritten
<1>2. CASE input[1] # "isCreatePossible"
  <2>1. ~IsUnwritten(n)' /\ UNCHANGED <<numberOfCreateRequest, votes, process>>
    BY <1>0, <1>1, <1>2 DEF Call, databaseVars
  <2> QED BY <1>0, <1>1, <2>1, CounterKept
<1>3. CASE input[1] = "isCreatePossible"
  <2>1. votes' = votes + 1 /\ votes \in Int
    BY <1>0, <1>3 DEF Call, GlobalInv
  <2>2. /\ Cardinality(Unwritten') \in Nat /\ Cardinality(Unwritten) \in Nat
        /\ Cardinality(Unwritten') <= Cardinality(Unwritten) + 1
    <3>1. Cardinality(Unwritten') =
           Cardinality(Unwritten) + (IF IsUnwritten(n)' THEN 1 ELSE 0) - (IF IsUnwritten(n) THEN 1 ELSE 0)
      BY <1>0, UnwrittenChanges
    <3>2. Cardinality(Unwritten) \in Nat
      BY UnwrittenFinite
    <3> HIDE DEF Unwritten
    <3> QED BY <1>1, <3>1, <3>2
  <2>3. ASSUME NEW number, Counts(number) PROVE Counts(number)'
    BY <2>1, <2>2, <2>3 DEF Counts
  <2>4. Counts(numberOfCreateRequest)'
    BY <1>0, <2>3 DEF CountInv, Counts, databaseVars
  <2>5. ASSUME NEW m \in Clients, thread'[m].at = "count"
        PROVE  client'[m].op = "isCreatePossible" /\ Counts(thread[m].number)'
    <3>1. m # n /\ thread'[m] = thread[m] /\ client'[m] = client[m]
      BY <1>0, <1>1, <2>5 DEF Elsewhere
    <3>2. client[m].op = "isCreatePossible" /\ Counts(thread[m].number)
      BY <2>5, <3>1 DEF CountInv
    <3> QED BY <2>3, <3>1, <3>2 DEF Counts
  <2>6. EndsAtTheLimit'
    BY <1>0, <2>1, DatabaseServerAssumption DEF CountInv, EndsAtTheLimit, databaseVars
  <2> QED BY <2>4, <2>5, <2>6 DEF CountInv
<1> QED BY <1>2, <1>3

\* The write that loses no vote counts one that has not been counted.
LEMMA WriteCounts ==
  ASSUME IInv, CountInv, NEW n \in Clients, WriteCounter(n)
  PROVE  CountInv'
<1>0. /\ Elsewhere(n) /\ UNCHANGED <<process, client, requests, votes>>
      /\ client[n].op = "isCreatePossible" /\ GlobalInv /\ PlaceInv(n) /\ RecordsInv(n)
      /\ thread[n].at = "count" /\ Counts(thread[n].number)
      /\ numberOfCreateRequest' = thread[n].number + 1
  <2>1. thread[n].at = "count"
    BY DEF WriteCounter, Handles
  <2> QED BY <2>1, WithinVote DEF IInv, ConnectionInv, WriteCounter, CountInv
<1>1. IsUnwritten(n) /\ ~IsUnwritten(n)' /\ thread'[n].at = "delay"
  <2>1. thread'[n].at = "delay"
    BY <1>0 DEF WriteCounter, GoTo, GlobalInv, RecordsInv
  <2>2. requests[n] = NoFrame
    BY <1>0 DEF PlaceInv
  <2> QED BY <1>0, <2>1, <2>2 DEF IsUnwritten
<1>2. /\ Cardinality(Unwritten') = Cardinality(Unwritten) - 1
      /\ Cardinality(Unwritten) \in Nat /\ Cardinality(Unwritten') \in Nat
  <2>1. Cardinality(Unwritten') =
         Cardinality(Unwritten) + (IF IsUnwritten(n)' THEN 1 ELSE 0) - (IF IsUnwritten(n) THEN 1 ELSE 0)
    BY <1>0, UnwrittenChanges
  <2>2. Cardinality(Unwritten) \in Nat /\ Cardinality(Unwritten) # 0
    BY <1>1, UnwrittenFinite, FS_EmptySet DEF Unwritten
  <2> HIDE DEF Unwritten
  <2> QED BY <1>1, <2>1, <2>2
<1>3. ASSUME NEW number, Counts(number) PROVE Counts(number)'
  BY <1>0, <1>2, <1>3 DEF Counts, GlobalInv
<1>4. Counts(numberOfCreateRequest)'
  BY <1>0, <1>2 DEF Counts, GlobalInv
<1>5. ASSUME NEW m \in Clients, thread'[m].at = "count"
      PROVE  client'[m].op = "isCreatePossible" /\ Counts(thread[m].number)'
  <2>1. m # n /\ thread'[m] = thread[m] /\ client'[m] = client[m]
    BY <1>0, <1>1, <1>5 DEF Elsewhere
  <2>2. client[m].op = "isCreatePossible" /\ Counts(thread[m].number)
    BY <1>5, <2>1 DEF CountInv
  <2> QED BY <1>3, <2>1, <2>2 DEF Counts
<1>6. EndsAtTheLimit'
  BY <1>0 DEF CountInv, EndsAtTheLimit
<1> QED BY <1>4, <1>5, <1>6 DEF CountInv

LEMMA StepCountInv == IInv /\ CountInv /\ [Next]_vars => CountInv'
<1> SUFFICES ASSUME IInv, CountInv, [Next]_vars PROVE CountInv'
  OBVIOUS
<1>1. CASE UNCHANGED vars
  BY <1>1 DEF vars, databaseVars, historyVars, CountInv, Counts, Unwritten, IsUnwritten,
     EndsAtTheLimit
<1>2. ASSUME NEW n \in Clients, NEW input \in Inputs, Call(n, input[1], input[2]) PROVE CountInv'
  BY <1>2, CallCounts
<1>3. ASSUME NEW n \in Clients PROVE GlobalInv /\ RecordsInv(n) /\ PlaceInv(n) /\ CallInv(n)
  BY DEF IInv, ConnectionInv
<1>4. ASSUME NEW n \in Clients, Receive(n) PROVE CountInv'
  <2>1. /\ Elsewhere(n)
        /\ UNCHANGED <<thread, requests, numberOfCreateRequest, votes, process>>
    BY <1>4, ReceiveIInv DEF Receive, databaseVars, historyVars
  <2>2. replies[n] # NoFrame
    BY <1>4 DEF Receive
  <2>3. requests[n] = NoFrame /\ thread[n].at = "none"
    BY <1>3, <2>2 DEF PlaceInv, Pending
  <2>4. thread'[n] = thread[n] /\ requests'[n] = requests[n]
    BY <2>1
  <2> QED BY <2>1, <2>3, <2>4, CounterKept DEF IsUnwritten
<1>5. ASSUME NEW n \in Clients, Break(n) PROVE CountInv'
  <2>1. /\ Elsewhere(n) /\ UNCHANGED <<thread, numberOfCreateRequest, votes, process>>
    BY <1>5, BreakIInv DEF Break, databaseVars
  <2>2. CASE UNCHANGED requests /\ client' = [client EXCEPT ![n].at = "failed"]
    <3>1. client'[n].op = client[n].op
      BY <1>3, <2>2 DEF GlobalInv, RecordsInv
    <3>2. thread[n].at = "count" => client[n].op = "isCreatePossible"
      BY DEF CountInv
    <3> QED BY <2>1, <2>2, <3>1, <3>2, CounterKept DEF IsUnwritten
  <2>3. CASE thread[n].at = "none" /\ requests' = [requests EXCEPT ![n] = NoFrame]
    <3>1. requests'[n] = NoFrame
      BY <1>3, <2>3 DEF GlobalInv
    <3> QED BY <2>1, <2>3, <3>1, CounterKept DEF IsUnwritten
  <2> QED BY <1>5, <2>2, <2>3 DEF Break
<1>6. ASSUME NEW n \in Clients, dispatchCall(n) PROVE CountInv'
  <2>1. /\ Elsewhere(n) /\ UNCHANGED <<client, numberOfCreateRequest, votes, process>>
        /\ thread'[n].at = "handle" /\ requests[n] # NoFrame
    BY <1>6, dispatchIInv DEF dispatchCall, databaseVars, historyVars
  <2> QED BY <2>1, CounterKept DEF IsUnwritten
<1>7. ASSUME NEW n \in Clients, Finishes(n), thread[n].at # "none" PROVE CountInv'
  <2>1. /\ Elsewhere(n) /\ thread'[n].at = "none" /\ requests'[n] = NoFrame
        /\ UNCHANGED <<numberOfCreateRequest, votes, process>>
    BY <1>7, FinishIInv DEF NoThread
  <2> QED BY <2>1, CounterKept DEF IsUnwritten
<1>8. ASSUME NEW n \in Clients, ReadCounter(n) \/ Delay(n) \/ WakeUp(n) PROVE CountInv'
  <2>1. /\ Elsewhere(n) /\ UNCHANGED <<client, requests, numberOfCreateRequest, votes, process>>
        /\ client[n].op = "isCreatePossible"
    BY <1>8, WithinVote DEF ReadCounter, Delay, WakeUp, databaseVars, historyVars
  <2>2. CASE ReadCounter(n)
    <3>0. /\ thread' = [thread EXCEPT ![n].at = "count", ![n].number = numberOfCreateRequest]
          /\ thread[n].at = "handle"
      BY <2>2 DEF ReadCounter, Handles
    <3>1. thread'[n].at = "count" /\ thread'[n].number = numberOfCreateRequest /\ thread[n].at = "handle"
      <4>1. /\ thread = [m \in Clients |-> thread[m]]
            /\ thread[n] = [at |-> thread[n].at, method |-> thread[n].method,
                            args |-> thread[n].args, number |-> thread[n].number]
        BY <1>3 DEF GlobalInv, RecordsInv
      <4> QED BY <3>0, <4>1
    <3> QED BY <2>1, <3>1, CounterKept DEF IsUnwritten
  <2>3. CASE Delay(n) \/ WakeUp(n)
    <3>1. thread'[n].at \in {"sleep", "limit"}
      BY <1>3, <2>3 DEF Delay, WakeUp, GoTo, GlobalInv, RecordsInv
    <3> QED BY <2>1, <3>1, CounterKept DEF IsUnwritten
  <2> QED BY <1>8, <2>2, <2>3
<1>9. ASSUME NEW n \in Clients, Ends(n) PROVE CountInv'
  <2>1. /\ Elsewhere(n) /\ UNCHANGED <<thread, client, requests, numberOfCreateRequest, votes>>
    BY <1>9, EndIInv
  <2>2. process' = "ended" => numberOfCreateRequest >= LastCreateRequest
    BY <1>9 DEF Ends, Exit, AtLimit, Crash
  <2>3. thread[n].at = "count" => client[n].op = "isCreatePossible"
    BY DEF CountInv
  <2> QED BY <2>1, <2>2, <2>3, CounterKept DEF IsUnwritten
<1>10. ASSUME NEW n \in Clients, Enter(n) \/ Vote(n) PROVE CountInv'
  <2>1. /\ Elsewhere(n) /\ UNCHANGED <<client, requests, numberOfCreateRequest, votes, process>>
        /\ thread'[n].at = "map"
    BY <1>10, EnterIInv
  <2> QED BY <2>1, CounterKept DEF IsUnwritten
<1>11. ASSUME NEW n \in Clients, ServerThread(n) \/ Undefined(n) PROVE CountInv'
  <2>1. CASE \/ process_ping(n) \/ process_updateSensorMetadata(n)
             \/ process_deleteSensorMetadata(n) \/ process_readSensorMetadata(n)
             \/ process_createSensorMetadata(n) \/ process_isUpdatePossible(n)
             \/ process_isDeletePossible(n) \/ process_isCreatePossible(n)
             \/ ((process_readAll(n) \/ Undefined(n)) /\ ~Crash)
    BY <1>7, <2>1, HandlerFinishes
  <2>2. CASE Exit(n) \/ ((process_readAll(n) \/ Undefined(n)) /\ Crash)
    BY <1>9, <2>2 DEF Ends
  <2>3. CASE WriteCounter(n)
    BY <2>3, WriteCounts
  <2> QED BY <1>6, <1>8, <1>10, <1>11, <2>1, <2>2, <2>3 DEF ServerThread
<1> QED BY <1>1, <1>2, <1>4, <1>5, <1>11 DEF Next

LEMMA InitCountInv == Init => CountInv
<1> SUFFICES ASSUME Init PROVE CountInv
  OBVIOUS
<1>1. Unwritten = {}
  BY DEF Init, Unwritten, IsUnwritten, NoClient
<1>2. Cardinality(Unwritten) = 0
  BY <1>1, FS_EmptySet
<1> QED BY <1>2 DEF Init, CountInv, Counts, EndsAtTheLimit, NoThread

LEMMA CountInvariance == Spec => [](IInv /\ CountInv)
<1>1. IInv /\ CountInv /\ [Next]_vars => (IInv /\ CountInv)'
  BY StepIInv, StepCountInv
<1>2. Init => IInv /\ CountInv
  BY InitIInv, InitCountInv
<1> QED BY <1>1, <1>2, PTL DEF Spec

\* The slow database does not end before the fifth vote on a create, although votes
\* that overlap lose each other's increments and look at the counter late.
THEOREM EndsLate == Spec => []EndsAtTheLimit
<1>1. CountInv => EndsAtTheLimit
  BY DEF CountInv
<1> QED BY <1>1, CountInvariance, PTL

\* What a server thread works on is the call of its client, with its arguments; what is
\* stored has been sent; and the counter counts no vote twice.
THEOREM TypeCorrect == Spec => []TypeOK
<1>1. IInv /\ CountInv => TypeOK
  <2> SUFFICES ASSUME IInv, CountInv PROVE TypeOK
    OBVIOUS
  <2>1. numberOfCreateRequest \in -1..MaxVotes
    <3>1. Cardinality(Unwritten) \in Nat
      BY UnwrittenFinite
    <3> QED BY <3>1, DatabaseServerAssumption DEF CountInv, Counts, IInv, GlobalInv
  <2>2. \A n \in Clients : RecordsInv(n) /\ CallInv(n)
    BY DEF IInv, ConnectionInv
  <2>3. Stored(collection) /\ process \in {"running", "ended", "crashed"}
    BY DEF IInv, GlobalInv
  <2> QED BY <2>1, <2>2, <2>3 DEF RecordsInv, CallInv, Stored, TypeOK
<1> QED BY <1>1, CountInvariance, PTL
=============================================================================
