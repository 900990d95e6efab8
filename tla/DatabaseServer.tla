---------------------------- MODULE DatabaseServer ----------------------------
(***************************************************************************)
(* One database process (database/Database.cpp): a TThreadedServer that    *)
(* gives each connection a thread of its own, the DatabaseProcessor that   *)
(* thread runs, and the handlers it calls; and, at the other end of the    *)
(* connections, the DatabaseClient (both of gen-cpp/Database.cpp) of each  *)
(* thread newInteractWithDatabase of the web server, which opens a         *)
(* connection for one call.  Client, connection and server thread share a  *)
(* number, which later ones may have again.                                *)
(*                                                                         *)
(* The handlers use the map without a mutex.  Calls overlap: the web       *)
(* server has long given up on one while the database sleeps in its vote.  *)
(* That is harmless as long as no two of them are in the map at the same   *)
(* time and one of them writes; if they are, C++ leaves everything that    *)
(* follows undefined, and here any result may follow, or none (Undefined). *)
(***************************************************************************)
EXTENDS DatabaseMessages, DatabaseStore, FiniteSets

CONSTANTS
  Slow,               \* is this the database that delays answers, 10.5.0.200?
  LastCreateRequest,  \* the number of the vote at which it exits (4 in the code)
  Inputs,             \* the operations called, with the data they are given
  MaxClients,         \* bound: connections at a time
  MaxVotes            \* bound: calls of isCreatePossible

Clients == 1..MaxClients
CommitOps == {"create", "update", "delete"}

\* The operations of the web server, and the two methods nothing in the program calls.
ServerOps == CommitOps \cup {"isCreatePossible", "isUpdatePossible", "isDeletePossible", "read"}
Ops == ServerOps \cup {"ping", "readAll"}

\* Of the data: a batch is never empty (BatchNeverEmpty of CoordinatorProperties), and
\* what is stored has a port.
ASSUME DatabaseServerAssumption ==
  /\ Slow \in BOOLEAN /\ LastCreateRequest \in Nat
  /\ MaxClients \in Nat /\ MaxVotes \in Nat
  /\ \A input \in Inputs :
       /\ input[1] \in Ops /\ DOMAIN input[2] # {}
       /\ input[2] = [id \in DOMAIN input[2] |-> input[2][id]]
       /\ \A id \in DOMAIN input[2] :
            IsSensorMetadata(input[2][id]) /\ input[2][id][1] = Port

VARIABLES
  collection,           \* sensorMetadataCollection
  numberOfCreateRequest,
  process,              \* "running", or how the process has come to its end
  thread,               \* the server thread of each connection
  client,               \* the client of each connection
  requests, replies,    \* the frame under way in each direction, or NoFrame
  intact,               \* no two threads have met in the map, one of them to write
  votes,                \* history: how often isCreatePossible has been called
  thrown                \* history: the connections whose client is about to learn, or has
                        \* learnt, that the handler has thrown

databaseVars == <<collection, numberOfCreateRequest, process, intact>>
historyVars == <<votes, thrown>>
vars == <<databaseVars, thread, client, requests, replies, historyVars>>

NoFrame == Message("none", "none", <<>>)
NoThread == [at |-> "none", method |-> Ping, args |-> <<>>, number |-> 0]
NoClient == [at |-> "idle", op |-> "ping", data |-> EmptyMap]

Init ==
  /\ collection = EmptyMap /\ numberOfCreateRequest = -1 /\ process = "running"
  /\ intact = TRUE
  /\ thread = [n \in Clients |-> NoThread] /\ client = [n \in Clients |-> NoClient]
  /\ requests = [n \in Clients |-> NoFrame] /\ replies = [n \in Clients |-> NoFrame]
  /\ votes = 0 /\ thrown = {}

-----------------------------------------------------------------------------
\* The clients.  (Definitions named "Wrong..." are not part of the model: each is what
\* a plausible slip would make of the definition that follows it.)

\* The method a thread calls for the operation it was given, and its arguments.
MethodFor ==
  [isCreatePossible |-> CreateVote, isUpdatePossible |-> UpdateVote,
   isDeletePossible |-> DeleteVote, create |-> Create, update |-> Update,
   delete |-> Delete, read |-> Read, ping |-> Ping, readAll |-> ReadAll]

ArgumentsFor(op, data) ==
  LET id == FirstKey(data)
  IN  CASE op \in {"isCreatePossible", "create"} -> <<data>>
        [] op = "update"  -> <<id, data[id]>>
        [] op = "readAll" -> <<Cardinality(DOMAIN data)>>
        [] op = "ping"    -> <<>>
        [] OTHER          -> <<id>>

\* The database has the call of n, or will get it.
Pending(n) == requests[n] # NoFrame \/ thread[n].at # "none"

\* An exception that leaves a thread of the web server ends it, with all its clients.
WebServerRuns == \A n \in Clients : client[n].at # "uncaught"

\* open(), and send_<method> for an operation.  (A database that has ended refuses
\* the connection, and nothing more comes of the call.)
Call(n, op, data) ==
  /\ process = "running" /\ WebServerRuns /\ client[n].at = "idle"
  /\ \/ op # "isCreatePossible" /\ UNCHANGED votes
     \/ op = "isCreatePossible" /\ votes < MaxVotes /\ votes' = votes + 1
  /\ client' = [client EXCEPT ![n] = [at |-> "waiting", op |-> op, data |-> data]]
  /\ requests' = [requests EXCEPT ![n] = CallMessage(MethodFor[op], ArgumentsFor(op, data))]
  /\ UNCHANGED <<databaseVars, thread, replies, thrown>>

\* recv_<method> reads the reply, and the thread closes the connection.  Only a
\* TTransportException is caught in newInteractWithDatabase.
Receive(n) ==
  /\ WebServerRuns /\ client[n].at = "waiting" /\ replies[n] # NoFrame
  /\ LET received == Received(MethodFor[client[n].op], replies[n])
     IN  client' = [client EXCEPT ![n] =
           CASE received.ends = "result"    -> NoClient
             [] received.ends = "exception" -> [@ EXCEPT !.at = "uncaught"]
             [] received.ends = "never"     -> @]
  /\ replies' = [replies EXCEPT ![n] = NoFrame]
  /\ UNCHANGED <<databaseVars, thread, requests, historyVars>>

\* The connection breaks: TTransportException for the client.  The server thread
\* goes on with the request, if that has not been lost too.  (Arguments that cannot be
\* read, and a result that cannot be written, end the connection as well: they are
\* outside the try block of process_<method>.)
Break(n) ==
  /\ client[n].at = "waiting"
  /\ replies' = [replies EXCEPT ![n] = NoFrame]
  /\ \/ /\ Pending(n)
        /\ client' = [client EXCEPT ![n].at = "failed"]
        /\ UNCHANGED requests
     \/ /\ thread[n].at = "none"
        /\ client' = [client EXCEPT ![n] = NoClient]
        /\ requests' = [requests EXCEPT ![n] = NoFrame]
  /\ thrown' = thrown \ {n}
  /\ UNCHANGED <<databaseVars, thread, votes>>

-----------------------------------------------------------------------------
\* The server threads.

WrongDispatchCall(n) ==
  /\ process = "running" /\ thread[n].at = "none" /\ requests[n] # NoFrame
  /\ \E method \in Methods :
       /\ requests[n].name = method.name
       /\ thread' = [thread EXCEPT ![n] = [NoThread EXCEPT
                       !.at = "handle", !.method = method, !.args = ArgsOf(method, requests[n])]]
  /\ UNCHANGED <<databaseVars, client, requests, replies, historyVars>>

\* dispatchCall looks for the method in processMap, and process_<method> reads its
\* arguments.
dispatchCall(n) ==
  /\ process = "running" /\ thread[n].at = "none" /\ requests[n] # NoFrame
  /\ \/ \E method \in Methods :
          /\ requests[n].name = method.name
          /\ thread' = [thread EXCEPT ![n] = [NoThread EXCEPT
                          !.at = "handle", !.method = method, !.args = ArgsOf(method, requests[n])]]
          /\ UNCHANGED replies
     \/ /\ \A method \in Methods : requests[n].name # method.name
        /\ replies' = [replies EXCEPT ![n] = ExceptionMessage(requests[n].name)]
        /\ UNCHANGED thread
  /\ requests' = [requests EXCEPT ![n] = NoFrame]
  /\ UNCHANGED <<databaseVars, client, historyVars>>

\* The thread calls the handler of this method, at this place in it.
Handles(n, method, place) ==
  process = "running" /\ thread[n].method = method /\ thread[n].at = place

\* A call uses the map; the votes look at its keys only.  Create and delete change the
\* tree, update a data set in it.
TreeMethods == {Create, Delete}

Conflict(s, t) ==
  \/ {s.method, t.method} \cap TreeMethods # {}
  \/ /\ {s.method, t.method} \subseteq {Update, Read} /\ {s.method, t.method} # {Read}
     /\ s.args[1] = t.args[1]
  \/ {s.method, t.method} = {Update, ReadAll}

Meets(n) ==
  \E m \in Clients \ {n} : thread[m].at = "map" /\ Conflict(thread[n], thread[m])

\* The handler of n begins to use the map.  Nothing is said of the map, and no step looks
\* at it, once two have met there.
EnterMap(n) ==
  /\ thread' = [thread EXCEPT ![n].at = "map"]
  /\ \/ ~Meets(n) /\ UNCHANGED <<collection, intact>>
     \/ Meets(n) /\ collection' = EmptyMap /\ intact' = FALSE
  /\ UNCHANGED <<numberOfCreateRequest, process, client, requests, replies, historyVars>>

Enter(n) ==
  \E method \in Methods \ {Ping, CreateVote} : Handles(n, method, "handle") /\ EnterMap(n)

\* The call of n ends: this is what it leaves in the collection, and the message is
\* written to a client that may have gone.  The thread ends with its connection.
Reply(n, left, message) ==
  /\ collection' = left
  /\ \/ /\ client[n].at = "waiting"
        /\ replies' = [replies EXCEPT ![n] = message]
        /\ UNCHANGED client
     \/ /\ client[n].at = "failed"
        /\ client' = [client EXCEPT ![n] = NoClient]
        /\ UNCHANGED replies
  /\ thread' = [thread EXCEPT ![n] = NoThread]
  /\ UNCHANGED <<numberOfCreateRequest, process, intact, requests, votes>>

\* The handler returns, ...
Returns(n, outcome) ==
  /\ Reply(n, outcome.store, ReplyMessage(thread[n].method, outcome.ret))
  /\ UNCHANGED thrown

\* ... or process_<method> catches a std::exception that it has thrown.
Throws(n, left) ==
  /\ Reply(n, left, ExceptionMessage(thread[n].method.name))
  /\ thrown' = IF client[n].at = "waiting" THEN thrown \cup {n} ELSE thrown

\* The handler is alone in the map, or with others that do it no harm.
InMap(n, method) == Handles(n, method, "map") /\ intact

process_ping(n) ==
  Handles(n, Ping, "handle") /\ Returns(n, [store |-> collection, ret |-> 0])

process_updateSensorMetadata(n) ==
  /\ InMap(n, Update)
  /\ \/ Returns(n, updateSensorMetadata(collection, thread[n].args[1], thread[n].args[2]))
     \/ Throws(n, collection)

process_deleteSensorMetadata(n) ==
  /\ InMap(n, Delete)
  /\ Returns(n, deleteSensorMetadata(collection, thread[n].args[1]))

\* What a read returns if there is no such data set: one that only has a port.
NotFound == [NoSensorMetadata EXCEPT ![1] = -2]

process_readSensorMetadata(n) ==
  /\ InMap(n, Read)
  /\ \/ LET id == thread[n].args[1]
        IN  Returns(n, [store |-> collection,
                        ret   |-> IF id \in DOMAIN collection THEN collection[id] ELSE NotFound])
     \/ Throws(n, collection)

process_createSensorMetadata(n) ==
  /\ InMap(n, Create)
  /\ \/ Returns(n, createSensorMetadata(collection, thread[n].args[1]))
     \/ \E part \in PartsOf(thread[n].args[1]) : Throws(n, InsertAll(collection, part))

process_isUpdatePossible(n) ==
  /\ InMap(n, UpdateVote)
  /\ Returns(n, isUpdatePossible(collection, thread[n].args[1]))

process_isDeletePossible(n) ==
  /\ InMap(n, DeleteVote)
  /\ Returns(n, isDeletePossible(collection, thread[n].args[1]))

\* readAll goes backwards from the last element to the one before the first, which
\* for a std::map is undefined.  In libstdc++ an empty map has no last element to
\* start from; the element before the first is the first itself if that is the root
\* of the tree, as it is in a map of one element and may be in one of two, and
\* end() otherwise.
RowsRead(numberOfRows) ==
  LET size   == Cardinality(DOMAIN collection)
      counts == CASE size = 1 -> {0} [] size = 2 -> {1, 2} [] OTHER -> {size}
      Limit(count) == IF numberOfRows > 0 /\ numberOfRows < count THEN numberOfRows ELSE count
  IN  {rows \in SUBSET DOMAIN collection : \E count \in counts : Cardinality(rows) = Limit(count)}

Crash ==
  /\ process' = "crashed"
  /\ UNCHANGED <<collection, numberOfCreateRequest, intact, thread, client, requests, replies,
                 historyVars>>

process_readAll(n) ==
  /\ InMap(n, ReadAll)
  /\ \/ /\ DOMAIN collection # {}
        /\ \/ \E rows \in RowsRead(thread[n].args[1]) :
                Returns(n, [store |-> collection, ret |-> [i \in rows |-> collection[i]]])
           \/ Throws(n, collection)
     \/ DOMAIN collection = {} /\ Crash

-----------------------------------------------------------------------------
\* isCreatePossible counts the votes, to delay some answers and to end the process.
\* The counter is a plain int of all server threads.

GoTo(n, place) == thread' = [thread EXCEPT ![n].at = place]

\* ++numberOfCreateRequest: it is read, ...
ReadCounter(n) ==
  /\ Handles(n, CreateVote, "handle")
  /\ thread' = [thread EXCEPT ![n].at = "count", ![n].number = numberOfCreateRequest]
  /\ UNCHANGED <<databaseVars, client, requests, replies, historyVars>>

WrongWriteCounter(n) ==
  /\ Handles(n, CreateVote, "count")
  /\ numberOfCreateRequest' = thread[n].number + 2
  /\ GoTo(n, "delay")
  /\ UNCHANGED <<collection, process, intact, client, requests, replies, historyVars>>

\* ... and written; a vote of another thread in between is not counted.
WriteCounter(n) ==
  /\ Handles(n, CreateVote, "count")
  /\ numberOfCreateRequest' = thread[n].number + 1
  /\ GoTo(n, "delay")
  /\ UNCHANGED <<collection, process, intact, client, requests, replies, historyVars>>

\* Every second answer comes after ten seconds.
Delay(n) ==
  /\ Handles(n, CreateVote, "delay")
  /\ GoTo(n, IF Slow /\ numberOfCreateRequest % 2 = 1 THEN "sleep" ELSE "limit")
  /\ UNCHANGED <<databaseVars, client, requests, replies, historyVars>>

WrongWakeUp(n) ==
  /\ Handles(n, CreateVote, "sleep") /\ numberOfCreateRequest % 2 = 0
  /\ GoTo(n, "limit")
  /\ UNCHANGED <<databaseVars, client, requests, replies, historyVars>>

WakeUp(n) ==
  /\ Handles(n, CreateVote, "sleep")
  /\ GoTo(n, "limit")
  /\ UNCHANGED <<databaseVars, client, requests, replies, historyVars>>

AtLimit == Slow /\ numberOfCreateRequest >= LastCreateRequest

\* exit(-1)
Exit(n) ==
  /\ Handles(n, CreateVote, "limit") /\ AtLimit
  /\ process' = "ended"
  /\ UNCHANGED <<collection, numberOfCreateRequest, intact, thread, client, requests, replies,
                 historyVars>>

\* Only then does the vote look into the map.
Vote(n) ==
  Handles(n, CreateVote, "limit") /\ ~AtLimit /\ EnterMap(n)

process_isCreatePossible(n) ==
  /\ InMap(n, CreateVote)
  /\ Returns(n, isCreatePossible(collection, thread[n].args[1]))

-----------------------------------------------------------------------------
\* What the handlers do once threads have met in the map: they hang, end the process,
\* throw, or return whatever they find.

DataSets == UNION {{input[2][id] : id \in DOMAIN input[2]} : input \in Inputs} \cup {NotFound}
Keys == UNION {DOMAIN input[2] : input \in Inputs}

AnyResult(type) ==
  CASE type = "I32"    -> {0, -1, -2, -3}
    [] type = "STRUCT" -> DataSets
    [] type = "MAP"    -> MapsOf(Keys, DataSets)
    [] OTHER           -> {0}

Undefined(n) ==
  /\ process = "running" /\ thread[n].at = "map" /\ ~intact
  /\ \/ \E ret \in AnyResult(thread[n].method.result) :
          Returns(n, [store |-> collection, ret |-> ret])
     \/ Throws(n, collection)
     \/ Crash

-----------------------------------------------------------------------------
ServerThread(n) ==
  \/ dispatchCall(n) \/ Enter(n)
  \/ process_ping(n) \/ process_updateSensorMetadata(n) \/ process_deleteSensorMetadata(n)
  \/ process_readSensorMetadata(n) \/ process_createSensorMetadata(n)
  \/ process_readAll(n) \/ process_isUpdatePossible(n) \/ process_isDeletePossible(n)
  \/ ReadCounter(n) \/ WriteCounter(n) \/ Delay(n) \/ WakeUp(n) \/ Exit(n)
  \/ Vote(n) \/ process_isCreatePossible(n)

Next ==
  \E n \in Clients :
    \/ \E input \in Inputs : Call(n, input[1], input[2])
    \/ Receive(n) \/ Break(n)
    \/ ServerThread(n) \/ Undefined(n)

Spec == Init /\ [][Next]_vars
=============================================================================
