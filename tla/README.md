# A verification of the sensor network

The program (`src/src`, C++) is a distributed data logger. Sensors produce
measurements; a gateway polls them over UDP and posts each data set over HTTP to
a web server; the web server stores the data in three replicated databases, over
Thrift, with a two-phase commit.

    UDP sensor  <--UDP-->  gateway  --HTTP-->  web server  --Thrift-->  database x 3
    MQTT sensor --broker--> MQTT adapter <--UDP--> gateway

This directory holds TLA+ modules for it, the configurations TLC checks them
with, and theorems that TLAPS proves. They follow a data set from the sensor to
the replicas, in four parts; the first three meet at a queue each, the third and
the fourth at the remote calls:

* **polling** - from the sensors' buffers, through broker and adapter, into the
  gateway's queue (`Polling`);
* **upload** - from the gateway's queue, over a connection that may break, to
  the vector of the web server (`Upload`);
* **commit** - from this vector, with a two-phase commit, into the three
  databases (`Coordinator`, `DatabaseStore`);
* **remote calls** - from a client thread, through the generated Thrift client,
  the messages and the generated processor, into the handlers of one database,
  and back (`DatabaseServer`, `DatabaseMessages`).

## The system

| Component | State it keeps | Operations | Talks to |
|---|---|---|---|
| **Web server, commit controller** (`webserver/Webserver.cpp` 360-608, 751-841) | request number, rotation counters, batch in work, `buffer`, per database: timeouts in a row, vote, commit result, semaphore, deadlines | one endless loop: collect the posted data, vote, evaluate, commit; after three creates an update, a delete or a read | starts one detached thread per database and operation; waits on its semaphore with a timeout |
| **Web server, client threads** (612-749) | the call they make | drain the database's semaphore, signal the controller, call the database, enter the result, post the semaphore | Thrift to a database; all result maps are globals shared with the controller |
| **Web server, HTTP session** (115-257) | one `requestBuffer` for all connections | `handle_read` parses a POST, appends the data set and posts a semaphore; `handle_write` reads again | the gateway; hands data sets to the controller |
| **Database** (`database/Database.cpp`) | `sensorMetadataCollection`, a map without a mutex; `numberOfCreateRequest`, a plain `int` of all threads | create, read, update, delete, and a vote for each of the first, third and fourth; `ping` and `readAll`, which nobody calls; the one at 10.5.0.200 delays every second vote on a create and ends at the fifth | one server thread per connection |
| **Gateway** (`gateway/Gateway.cpp`) | queue of data sets to send, per sensor a semaphore and a timeout counter | one polling thread per sensor, a UDP receiver, an uploader that reconnects and sends again | sensors and adapter (UDP), web server (HTTP) |
| **UDP sensor** (`sensors/Sensor.cpp`) | buffer of at most 50 values, the oldest dropped | generate; reply with the oldest value and remove it | gateway |
| **MQTT sensor** (`mqtt_sensor/mqtt_sensor.cpp`) | the same buffer, and a semaphore counting generated values | generate; publish the oldest | broker |
| **MQTT adapter** (`mqtt_adapter/mqtt_adapter.cpp`) | FIFO of messages of all MQTT sensors | buffer a message; answer a UDP request with the first | broker, gateway |
| **Generated Thrift code** (`gen-cpp`) | per connection: the frame under way in each direction, and where server thread and client are | client: `send_` and `recv_` of each method; processor: `dispatchCall`, `process_` of each method; `read` and `write` of each struct | between a client thread of the web server and a database |

### What is hard about it

* **Late threads.** A client thread whose deadline has passed is not stopped. It
  comes back while the controller serves later requests, and writes the very
  maps and posts the very semaphores that these requests use.
* **Three clocks.** The deadline is judged by the controller's `sem_timedwait`,
  by the thread's own comparison of two clock readings, and by a zero timestamp
  that means "no deadline yet" - also after `resetFeedbackMaps` has cleared it.
* **Semaphores as messages.** One semaphore per database says "answered"; it is
  drained by a loop of `sem_trywait` whose length was read before. One semaphore
  for all threads says "ready".
* **Partial failure.** A connection can fail in one database at the commit.
* **Counters that depend on each other** over many requests: the rotation of
  operations, aborts that `continue`, the exclusion of a database.
* **Late replies.** A UDP reply may come after its poll has been given up, before
  or after the next request is sent; only a comparison of numbers sorts it out,
  and the semaphore it posts does not carry the number.
* **Retry without a reply.** A request is sent again when the connection broke,
  though the web server may have taken it.
* **A stream read as messages.** `handle_read` gets some bytes of a request, into
  a buffer nothing clears, and all sessions share what they have collected.
* **Buffers and their semaphores.** A full buffer drops a value, and its
  semaphore still counts it; a data set that could not be sent stays in the
  queue, and its permit is gone.
* **At most once, or not known.** A call whose connection breaks may have been
  executed, may be executed yet, or never; nobody sends it again and nobody asks.
* **Two peers of one interface.** What the processor writes, the client has to
  read: under the same field numbers, with the same types, a result also when it
  is 0. Any other exception than `TTransportException` ends the web server.
* **A counter of several threads.** The votes on a create are counted with `++` on
  a plain `int`, and a vote that has slept compares what others have made of it.
* **Producer and consumer.** The HTTP thread fills the vector that the
  controller empties, with a semaphore counting its elements.

`PROJECT.json` lists each hazard at the line where it bites, with the property
that watches it.

### What makes each component correct

* *Controller and client threads*: no batch is empty, no posted data set is
  overlooked; the start of a thread is never confused by another thread; votes
  are complete and are about this request; an excluded database stays excluded;
  replicas agree; every request ends; what is posted is stored.
* *HTTP session*: each posted data set is parsed exactly once, and every post
  is answered.
* *Database*: two overlapping calls do not corrupt the map; a vote predicts the
  operation; it ends at the fifth vote and not before.
* *Generated code*: a call is executed at most once, with the arguments it was
  given, and its result is the one the handler returned; it ends, if the threads
  and the network go on.
* *Gateway*: a poll is answered by its own reply; what a sensor sent is posted
  at least once, and removed from the queue only when acknowledged.
* *Sensors and adapter*: a take finds a value; the order is kept; the answer to
  a request is data of the sensor asked.

## The modules

| Module | What it holds |
|---|---|
| `DatabaseStore` | the handlers of `Database.cpp` as functions of the map |
| `Coordinator` | the controller, the client threads, the databases, the clock: all of the two-phase commit |
| `CoordinatorProperties` | assumptions (`Prompt`, `Reliable`), fairness, type invariant, safety and liveness properties |
| `CoordinatorClaims` | what a comment of the code says and the code does not keep |
| `CoordinatorProofs` | theorems about `Coordinator`; its client threads make remote calls |
| `PromptProofs` | theorems about `Coordinator` when calls end before their deadline |
| `ReliableProofs` | theorems about `Coordinator` when, besides, connections fail only where a database is down: the databases act as one store |
| `AtomicStore` | abstract: what the two-phase commit is for, databases that act as one |
| `RemoteCall` | abstract: what a remote call promises, whatever carries it |
| `DatabaseMessages` | the generated structs, calls and replies, as they are written and read |
| `DatabaseServer` | one database with its server threads, the processor, the handlers, and the clients at the other end of the connections |
| `DatabaseServerProperties` | their type invariant, properties and fairness, and the mapping to `RemoteCall` |
| `DatabaseServerProofs`, `DatabaseRefinementProofs` | theorems about `DatabaseServer`: its invariants, and that it implements `RemoteCall` |
| `Polling` | sensors, broker, adapter, UDP network, the gateway's polling threads and reply handler |
| `PollingProperties` | their type invariant, safety and action properties |
| `PollingProofs`, `OrderProofs` | theorems about `Polling`: its types and the sensors' buffers; the order of the data, and that none is lost |
| `Upload` | the gateway's uploader, the TCP connection, the web server's sessions |
| `UploadProperties` | their properties, and two refuted comments |
| `UploadProofs` | theorems about `Upload`; it implements `ReliableQueue` |
| `ReliableQueue` | abstract: what the upload promises, a queue that delivers at least once |
| `MCCoordinator`, `MCPolling`, `MCUpload`, `MCDatabaseServer` | the modules TLC runs |

`Coordinator` and `DatabaseServer` EXTEND `DatabaseStore`. The parts are not
composed into one specification. The first three meet at queues: each ends in an action that appends to a queue (`TakeReply` of
`Polling`, `HandleComplete` of `Upload`), and the next begins with an action
that fills this queue freely (`Enqueue` of `Upload`, `Post` of `Coordinator`),
which allows more than the part before it can do. The commit and the database
meet in an abstract specification, `RemoteCall`: what `Coordinator` does with its
databases is allowed by it (`MakesRemoteCalls`), and what a database and the
generated code do implements it (`ImplementsRemoteCall`). Both are proved. So the
one-step `Execute` of `Coordinator` stands for the whole way of a call through the
generated code, with two assumptions that only `DatabaseServer` does without: that
no handler throws, and that no two calls, one of which writes, meet in the map of a
database (see *Calls that overlap* below).

### State and actions of `Coordinator`

The variables are the program's: the globals of `Webserver.cpp` under their own
names or shortened (`votingResult` is `votingResultByDatabase`, and so on; the
`VARIABLES` declaration gives each one), the controller's locals, the set of
client threads with their arguments and locals, and the map of each database.
`pc` is the controller's place. `cursor` is the iterator of its loops over the
databases; it always stands on a *reachable* database, or past the last one.

| Code | Actions |
|---|---|
| `session::handle_read`, a complete message | `Post` |
| `controlDatabaseInteraction`, head of the loop | `Stop`, `BeginIteration`, `AwaitData`, `CollectData` |
| `executeCommandOnEachReachableDatabase`, and the read loop | `StartThread`, `ThreadIsReady`, `AllStarted` |
| `waitForResponseOfEachThread`, and the read loop | `SetDeadline`, `GetAnswer`, `TimeOut`, `RecordTimeout`, `AllAnswered` |
| `evaluateVotingResult`, the `try` blocks | `AcceptVote`, `ExitUnvoted`, `Abort`, `Commit` |
| the ends of the two `try` blocks | `FinishCreate`, `FinishOther` |
| `newInteractWithDatabase` | `Prepare`, `Drain`, `Return`, `RecordVote`, `Signal`, `ConnectionFails` |
| a handler of the database, with all that is between | `Execute` |
| `CLOCK_REALTIME` reaching a deadline | `DeadlinePasses`, `ReadDeadlinePasses` |
| `exit(-1)` in a database | `Crash` |

A thread whose connection fails ends. The call it has made may remain in the
database, to be executed later: it stays in `threads`, as `"abandoned"`, until the
database executes it or ends.

A deadline is one of `"zero"`, `"future"`, `"past"`; a clock reading is modelled
by its comparison with the deadline (`late`), taken when the code reads the
clock and used when it compares. A deadline set after the reading makes the
reading early again (`SetDeadline`).

Steps of the code that are joined, and why nothing is lost:

* *Local steps of the controller*, e.g. the iteration's end with the next
  iteration's test: no other thread reads or writes what they touch.
* *`CollectData`* runs under the mutex that `Post` needs.
* *`GetAnswer`* joins `sem_timedwait` and the `sem_post` that gives the permit
  back. A client thread drains only between `Prepare` and `Drain`, and the
  controller is then in `"ready"` (theorem `HandshakeHolds`), so no one sees the
  semaphore in between but a thread's `sem_post`, which commutes.
* *`Drain`* joins the loop of `sem_trywait` with the `sem_post` of `ready`.
  What may interleave with the loop is a late `sem_post` on the same semaphore;
  the interesting outcome, a permit that is left over, arises from a post
  between `sem_getvalue` (in `Prepare`) and the loop. A post during the loop has
  the same effect as one before it or after it.
* *`resetFeedbackMaps`* is one step. A late thread that writes between two of
  its loops leaves the state it would leave by writing before (its write is
  reset) or after (its write stays), each of which the model allows, for each
  map: a thread writes one of the maps in one step of its own.

Not in the state: the interaction counters (printed only), the printed text,
and the value of `TIMEOUT_IN_SECONDS` (a
`long`, so 4.5 is 4): time is only an order of events.

### State and actions of `Polling`

A data set is the number its sensor generated it with, a request or reply a
record of the fields the code compares. `handling` is the reply `handleReply`
has accepted but not yet entered: the comparison (line 304) and the posting
(line 307) are two steps, with the poller free to go on between them.

| Code | Actions |
|---|---|
| `generateSensorData`, of either kind of sensor | `generateSensorData` (with `PushBounded`, `SignalNewData`) |
| `main` of the MQTT sensor | `AwaitNewData`, `PublishData`, `TakeFromEmpty` |
| broker, adapter `on_message` | `on_message`, `LoseMessage` |
| adapter `generateUDPReply`, sensor `generateReply` | `generateUDPReply`, `generateReply` |
| the UDP network | `LoseRequest`, `LoseReply` |
| `simulateUDPSocket` | `SendRequest`, `GotAnswer`, `TimeOut`, `WakeUp` |
| `handleReply` | `ReceiveReply`, `TakeReply` |

Two history variables: `undisturbed` says that at this sensor nothing has been
dropped, lost or late so far, `answered` is the number of the last reply taken.

What is simplified, and why:

* `TakeReply` joins the `sem_post` with the push into the queue: the poller that
  gets the permit does not look at the queue, and the uploader waits for a
  semaphore of its own, posted after the push.
* The network delivers late and in any order, and loses; it does not duplicate.
* Every sensor is polled. The data of an MQTT sensor that is not in
  the gateway's list would make `handleReply` look up a semaphore that is not
  there. The list in the source (lines 66-68) holds two MQTT sensors; UDP
  sensors are commented out there, and modelled because the code is complete.
* A reply is sent with the data it was made with. The code hands a local array
  to an asynchronous send (adapter and sensor, `replyChar`), so this assumes the
  bytes are copied before the function returns.
* Values, timestamps and the measurements of round trips are left out.

The adapter answers a request with the oldest message *of any sensor*
(`generateUDPReply`): the reply carries the number of one poller's request and
the address of another sensor. It is taken if the two pollers happen to be at
the same number, and thrown away otherwise. The model has this, and the reason
why `OrderKept`, `NothingLost` and `AnswerIsCurrent` are about UDP sensors.

### State and actions of `Upload`

A data set is its number in the queue. A POST is three units - its header, its
content up to the last field, this last field - because that is where the
parsing differs when a request is cut: without the whole content nothing is
parsed, and a content may be filled up with what follows it.

| Code | Actions |
|---|---|
| `handleReply`, the push | `Enqueue` |
| `sendRequestsToWebserver` | `Connect`, `TakeFirst`, `SendRequest`, `ReadReply`, `ConnectionLost`, `Reconnect` (with `NextTry`, `Refused`) |
| `server::start_accept`, `handle_accept`, `delete this` | `Open`, `Close` |
| `session::handle_read`, with the parsing | `HandleComplete`, `HandleIncomplete` |
| `session::handle_write` | `HandleWrite` |
| the network | `Break`, `NetworkFails`, and the number of units a read gets |

`receiveBuffer` is `data_` of the session. Nothing initialises it, so a new
session has zeros or what an earlier session left in the same memory
(`OldMemory`), and a read shorter than an earlier one leaves the rest of that
behind what it got (`Received`), because the code appends `data_` up to its first
zero byte and not up to `bytes_transferred`. The history variable `split` says
that a request has arrived in parts; without that none of it does harm, which
is what `DeliveredInOrder` says.

What is simplified: requests are of one length (a shorter one would leave the
last digits of a longer one behind it, which the next search for a header skips);
the gateway's loop that reads a reply up to ten times and then gives up, and the
exceptions of its parser (`Gateway.cpp` 409-440), are left out, because what it reads
is always a whole reply to one whole request (`Exchange`, an invariant of
`UploadProofs`); a request that is read in place of another may leave the fields of
one data set with the timestamp of another (`Garbled`);
the reply, a local array given to an asynchronous write (lines 201-208), is
sent as it was made; the answer of the web server is as long as what it has just
read, which is what the code makes of it, and has status 200, the only one it
writes; a web server that is not up yet is a failure of the network.

### State and actions of `DatabaseServer`

A client thread of the web server opens a connection for each call, makes the
call and closes it; the database's `TThreadedServer` gives the connection a
thread. Client, connection and server thread are one number `n`: `client[n]` is
the `DatabaseClient`, `requests[n]` and `replies[n]` are the frames under way,
`thread[n]` is the server thread with the method it has dispatched and the
arguments it has read.

| Code | Actions |
|---|---|
| `open`, `DatabaseClient::send_...` | `Call` |
| `DatabaseClient::recv_...`, `close` | `Receive` |
| the connection fails | `Break` |
| `DatabaseProcessor::dispatchCall`, `..._args::read` | `dispatchCall` |
| a handler gets to the map | `Enter` (with `EnterMap`), `Vote` in `isCreatePossible` |
| `process_...`, with the handler it calls and `..._result::write` | `process_...`, one for each method (with `Returns`) |
| `catch (const std::exception&)` of `process_...` | the same, with `Throws` |
| `isCreatePossible`, the counter, the delay, the end | `ReadCounter`, `WriteCounter`, `Delay`, `WakeUp`, `Exit` |
| a handler, once threads have met in the map | `Undefined` |

`DatabaseMessages` holds what the compiler generated: for each method the types
of its arguments and of its result, and how structs are written and read. A field
is taken only under the number and with the type the reader knows, everything
else is skipped; a result is in field 0; a method the processor does not have, or a
handler that has thrown, is answered with an exception. Bytes and lengths are left
out.

What is simplified, and why:

* *Calls that overlap.* `Call` has no guard but the number of connections: the web
  server that has given up on the vote of the slow database (4 s against 10 s) goes on
  with its next calls, and each gets a thread. The map has no mutex. A thread is
  at `"map"` from when it begins to use the map until it has its result. Two threads
  there at once do no harm when they read, or when an update and a read are about
  different keys; when one of them inserts, erases, or writes what the other uses
  (`Conflict`), C++ leaves all that follows undefined. From then on (`intact` is FALSE)
  the handlers may return anything, throw, hang or end the process (`Undefined`), and
  nothing is said of the map, which the model no longer looks at.
* *A handler is one step*, from entering the map to returning, but for
  `isCreatePossible`, which counts and sleeps before it looks at the map. While the map
  is intact no thread in it sees or changes what another one changes there, and
  `ImplementsRemoteCall` shows that each call takes effect at one moment.
* *Handlers that throw.* Those that allocate memory may throw `std::bad_alloc`:
  `ThrowingCall` says for which operations, and that a create may have inserted some of
  its pairs by then. The processor turns the exception into a message of type
  `T_EXCEPTION`, the client turns that into a `TApplicationException`, and as
  `newInteractWithDatabase` catches only `TTransportException`, this ends the web
  server (`"uncaught"`, after which no client goes on).
* *`std::bad_alloc` elsewhere*, in the serialisation or the server threads, is left out.
* *The counter* is read and written in two steps: a race of two votes loses one
  increment. The comment at line 177 says "every third", the code delays every
  second vote (`% 2`); the model follows the code.
* *`readAll`* steps back from the first element of a map. The model has what
  libstdc++ does then: nothing for an empty map but a crash, and otherwise one
  element or all of them, by the shape of the tree. Nobody calls it.
* *Frames* arrive whole or not at all: `TFramedTransport`.

## The abstract specifications

* `RemoteCall` - calls are issued; each is executed at most once, as one
  indivisible step, before it returns, as a whole or up to where its handler throws;
  one that fails may have been executed or not, and may be executed yet. The promise
  ends (`Race`) only if two calls, at least one of which writes, are under way in one
  database at the same time and meet in its map. `Coordinator` maps its threads
  between call and answer to it, under `Spec`. `DatabaseServer` maps its connections to it (with one
  database): a call is executed when its reply is written, or, if its client has
  gone, when the handler returns.
* `AtomicStore` - one store; an operation that is possible is executed as a whole,
  one that is not possible changes nothing. Under `ReliableSpec` `Coordinator`
  implements it: `TheStore` is what the databases that are up hold, and while
  an operation is carried out in one after the other, what they will hold.
* `ReliableQueue` - data sets are delivered in the order they were accepted, the
  next one not before the last one has been confirmed, at least once. `Upload`
  implements it as long as no request is cut.

## The runs

The runs of the commit use `MCCoordinator`. Bounds: `MaxRequests` request
numbers, `MaxPosts` data sets, and, where calls may stay unanswered, at most
`MaxInFlight` threads when a deadline passes. `OthersEvery` is 1 instead of the
code's 3 so that the other operations come within few requests, `MaxTimeouts` 1
or 0 instead of 3 so that databases are excluded within few requests; `Failing`
are the databases that may end. Deadlock is not checked in any run: the
controller really stops (all databases down), really exits (a vote is missing)
and waits for ever when no more data is posted; the uploader stops when it
cannot connect, a silent session and its client wait for each other for ever;
a database ends; and the bounds end every behaviour. That nothing else blocks is
what `RequestsEnd`, `EverythingStored`, `EverythingUploaded` and `CallsEnd` say.

| Run | Specification | Shows |
|---|---|---|
| `async` | `Spec`, 1 database that may end, 6 requests | no assumption on databases or network, late threads around through create, update, delete and read: types, the counted queue, no empty batch, the ready handshake, that an excluded database never comes back, and that the threads make remote calls as `RemoteCall` describes them |
| `prompt` | `PromptSpec`, 2 databases, 6 requests | a call is answered or fails before its deadline: one call per database at a time, votes complete, commits only after a unanimous vote on this request, no loop stops at an excluded database |
| `reliable` | `ReliableSpec`, the code's 3 databases, one may end | connections fail only when a database is down: replicas agree between requests, a finished create is everywhere, a read reports what the asked database holds; the databases act as one store (`ActsAsOneStore`) |
| `termination` | `FairSpec`, 2 databases, 6 requests | liveness without any assumption on databases or network: a request once begun ends, whether a create, an update, a delete or a read, with the waits of each |
| `live` | `LiveSpec` | liveness with databases that answer and fresh keys: what is posted is stored in every database |
| `polling` | `Spec`, a UDP and an MQTT sensor | a UDP sensor's data is taken in order and once; all of it, as long as nothing is dropped or late; a permit is then for the poll that takes it; the MQTT semaphore covers its buffer |
| `upload` | `FairSpec`, 3 data sets, 4 failures | each data set that is erased the web server has taken, at worst with the timestamp of another one; the one erased is the one sent, no permit without a data set; with whole requests the order is kept, the queue is a `ReliableQueue`, and everything arrives |
| `server` | `FairSpec` of `DatabaseServer`, 2 connections at a time, 3 votes | a database that delays and ends, calls of all nine methods that overlap, throw, break, are abandoned and may meet in the map: a server thread has the arguments its client was given; an exception ends the web server only if a handler has thrown; the process ends at the limit and not before; it implements `RemoteCall`; every call ends |

Four runs have a property that a comment of the code states and the code does
not keep; TLC finds the behaviour (`findings` of `PROJECT.json` quotes the
comments):

| Run | The comment | What happens |
|---|---|---|
| `voted` | `Webserver.cpp` line 816, "hasn't voted yet, but should have" | a late thread of a *create* posts the semaphore without a look at the time; the controller takes it for the vote, finds 1, and the web server exits |
| `retried` | `Webserver.cpp` line 478, "Trying with buffer next iteration" | `buffer` is written and cleared but never read: the data of an aborted create is lost |
| `sent_again` | `Gateway.cpp` line 479, "try to send the same data again" | after the last try the loop waits for a permit, and that of this data set is used: the queue stays one longer than its semaphore |
| `read_ends` | `Gateway.cpp` line 410, "if read fails it will throw" | the web server has got a part of a request and neither answers nor reads; the connection is fine, and the gateway reads for ever |

More of this kind, seen with TLC but kept without a run of their own:
`UnanimousVote` holds under `PromptSpec` and fails under `Spec` (a late vote
finds a zero timestamp and is entered for a later request, line 448);
`CreatedInAll` holds under `ReliableSpec` and fails under `PromptSpec` (one
connection fails at the commit, line 744, and no one repairs the replicas);
`ReadReportsTheStore` is about reads that no late thread disturbs: one that is late
writes the same global data set (line 573), and what is printed is its answer; a permit
that outlives a dropped data set of an MQTT sensor lets it take from an empty buffer,
which ends the sensor, and `PermitsCoverBuffer` allows that; an abort when the rotation counter stands at 3
skips its test for `== 3`, and the next create resets it, so that update,
delete and read are skipped (lines 482, 604); at line 243 of `Gateway.cpp` the
comment "so it came a reply in time" does not hold, because a reply that comes
after its poll has timed out posts the semaphore, and the next poll takes the
permit at once, without an answer of its own (`AnswerIsCurrent` is only about sensors
that have not been disturbed); `OrderKept` fails if a request is
tried twice, because both tries have the same number. And once the
controller has stopped, because all databases are excluded, the sessions still
accept posts and the vector grows without bound (line 412).

### Why the bounds are enough

*Commit.* The hazards need a late thread of one request and one or two later
requests: three request numbers give a vote, a commit of the same request, and
the vote of the next; six with `OthersEvery = 1` give the whole rotation update,
delete, read. Two databases are needed for a vote that is not unanimous and for
the loops that skip an excluded one; three are the code's number. Two keys give
batches with one and with two data sets, two posts with the same key, and
duplicates between batches. In `termination` a database is excluded at its first
timeout (`MaxTimeouts` 0), so that both, one after the other, drop out in the middle of
any operation; three posts are three creates, each followed by one of the other
operations; fewer than seven threads are ever in flight, so that `MaxInFlight = 9`
keeps nothing from timing out.

*Polling.* `Capacity` is 2 instead of 50 and each sensor generates 3 data sets,
so that each buffer overflows once; `NumberOfTries` is the code's 1; two polls
(numbers 0 and 1) of the UDP sensor are a late reply and the poll it
disturbs. The MQTT sensor is polled once: what comes after the adapter's buffer
is the same for both. For `OrderKept` and `PermitsCoverBuffer` the theorems show
that no larger instance differs.

*Upload.* `MaxTries` is the code's 3, four failures use up all tries of a data
set once and leave one more; three data sets are one being sent, one behind it,
one before it.

*Remote calls.* Two connections are two votes that race for the counter, or a
call beside an abandoned one whose number is used again. `LastCreateRequest` is 1
instead of 4 and three votes are made: the count is reached, is missed by a lost
increment, and is passed by a vote that has slept. Two connections are also enough for
two calls that meet in the map. The inputs are a create of
one data set and one of it and another one with other values (so that a create
is refused, or overwrites nothing), and the other operations for the key they
share.

TLC's coverage shows every action and every alternative taken by the passing
runs.

### Fairness

`SchedulingFairness`: weak fairness of the controller thread, of the local steps
of a client thread before its call, and of the clock. The operating system
schedules runnable threads, and a semaphore operation that stays possible is
done. The network and the databases get no fairness here: a call may stay
unanswered for ever, as TCP without a socket timeout allows.
`ServerFairness`, used in `LiveSpec` only, adds that a database executes and
answers the calls it has got, and that the thread then enters the answer.
Posting is never fair: the gateway may stop at any time.

In `Upload`, weak fairness of the uploading thread and of the session's
handlers: both are threads the system schedules, and a read returns when there
is something to read, as TCP delivers what is sent while the connection holds.
`Enqueue` and `Break` are not fair. `EverythingUploaded` assumes that no request
is cut and that there are fewer failures than tries; without the first the
session may fall silent, without the second the uploader stops or loses a
permit. In `DatabaseServer`, weak fairness of every server thread, of every
client that has a reply, and, when the database or the web server has ended, of the
end of its connections: the host closes them. Nothing is assumed of a thread that is
in the map after a race (`Undefined` is not fair). `Break` is not fair otherwise, and `Call` never
is. `Polling` has no fairness and no liveness property: UDP promises nothing.

## What is proved

Everything below is for every value of the constants, from the assumptions of
the modules alone: `CoordinatorAssumption`, `PollingAssumption`,
`UploadAssumption` (the numbers are natural numbers; there is at least one
database, one try, one place in a buffer; no sensor is of both kinds) and
`DatabaseServerAssumption` (operations are those the program has; a batch is not
empty, which is theorem `NoEmptyBatch` of the other side; a data set has the
fields of a `SensorMetadata`, with a port, the value `Port`).

| Theorem | States |
|---|---|
| `CoordinatorProofs!TypeCorrect` | `Spec => []TypeOK` |
| `CoordinatorProofs!QueueIsCounted` | `Spec => []QueueCounted` |
| `CoordinatorProofs!NoEmptyBatch` | `Spec => []BatchNeverEmpty` |
| `CoordinatorProofs!CursorIsReachable` | `Spec => []CursorReachable` |
| `CoordinatorProofs!HandshakeHolds` | `Spec => []Handshake` |
| `CoordinatorProofs!ExclusionIsFinal` | `Spec => ExcludedForGood` |
| `PromptProofs!OneCallAtATime` | `PromptSpec => []OneCallPerDatabase` |
| `PromptProofs!NobodyUnvoted` | `PromptSpec => []VotedWhenEvaluated` |
| `PromptProofs!VotesAreUnanimous` | `PromptSpec => []UnanimousVote` |
| `CoordinatorProofs!RemoteCallsMade` | `Spec => MakesRemoteCalls` |
| `ReliableProofs!ReplicasAreEqual` | `ReliableSpec => []ReplicasAgree` |
| `ReliableProofs!StoredInAll` | `ReliableSpec => []CreatedInAll` |
| `ReliableProofs!ReadIsOfTheStore` | `ReliableSpec => []ReadReportsTheStore` |
| `ReliableProofs!OneStoreForAll` | `Failing # Databases` gives `ReliableSpec => ActsAsOneStore` |
| `DatabaseServerProofs!TypeCorrect` | `Spec => []TypeOK` |
| `DatabaseServerProofs!UncaughtIsThrown` | `Spec => []UncaughtWasThrown` |
| `DatabaseServerProofs!EndsLate` | `Spec => []EndsAtTheLimit` |
| `DatabaseRefinementProofs!RemoteCallImplemented` | `Spec => ImplementsRemoteCall` |
| `PollingProofs!TypesKept` | `Spec => []TypeOK` |
| `OrderProofs!DataInOrder` | `NumberOfTries = 1` gives `Spec => []OrderKept` |
| `OrderProofs!NothingIsLost` | `Spec => []NothingLost` |
| `OrderProofs!AnswersAreCurrent` | `Spec => AnswerIsCurrent` |
| `PollingProofs!PermitsCover` | `Spec => []PermitsCoverBuffer` |
| `UploadProofs!TypeCorrect` | `Spec => []TypeOK` |
| `UploadProofs!PermitsAreBacked` | `Spec => []PermitsBacked` |
| `UploadProofs!SentIsErased` | `Spec => []HeadIsSent` |
| `UploadProofs!ErasedIsTaken` | `Spec => []ErasedWasTaken` |
| `UploadProofs!WholeInOrder` | `Spec => []DeliveredInOrder` |
| `UploadProofs!UploadIsAQueue` | `Spec => ImplementsQueue` |

### Commit

The argument. `TypeOK` alone is not inductive. That a timeout count stays within
`0..MaxTimeouts + 1` needs that only reachable databases are charged
(`CursorReachable`). That a database's map stays a map of keys to values needs
that the key an operation picks, `begin()->first`, exists, that is that no
batch is empty (`BatchNeverEmpty`); no batch is empty because the controller's
`sem_wait` guarantees a data set in the vector (`QueueCounted`). The inductive
invariant is therefore

    IInv == TypeOK /\ QueueCounted /\ BatchNeverEmpty /\ CursorReachable

with one lemma for the controller's actions and one for the threads' actions
(`ControllerIInv`, `ThreadStepIInv`), each with a step per action. `Handshake`
is inductive relative to `IInv`. `ExcludedForGood` is an action property: it
follows from `IInv` step by step, because a count changes only at the cursor and
the cursor stands on reachable databases.

### Commit with prompt databases

`PromptInv` relates the controller's place, the one thread of each database, and
the semaphore of this database:

* `ThreadInv` - every thread works for the request and the stage being served, at
  a reachable database the controller has started a thread for and has not waited
  for yet (`PlaceInv`); from its call on the semaphore of this database is at 0;
  a thread that has a vote of 0 has it from a database that has given it;
* `OneCallPerDatabase`;
* `DeadlineInv` - a deadline that has passed has no thread. This is where `Prompt`
  enters;
* `VoteInv` - a semaphore that is posted after this round's thread has taken it
  down means a vote that is entered, or a timeout entered as a negative vote; what
  the controller has waited for is entered; a 0 was given by the database;
* `UnanimousVote`, and `StageInv` (a read is not voted on).

The controller gets a semaphore only when the thread of its database is gone
(`ThreadInv`: as long as there is one, the semaphore is at 0), and times out only
when it is gone (`DeadlineInv`); so when its loop has passed a database, nobody is
at work there, and when all loops are over there are no threads (`NoThreads`).
That is why no late thread disturbs a later request. The start of a thread needs
`Handshake`: the semaphore is read and taken down by this thread alone.

### Commit with reliable databases

With `ReliableSpec` a connection fails only where a database has ended. On top of
`PromptInv`, `ReliableInv` says what the databases hold:

* `TimelyInv` - no thread is late or given up, and each works with the operation
  and the data being served, so that what it executes is what was voted on;
* `AliveInv` - a database that is up has never missed a deadline: it has answered,
  or a thread is under way to it. So none that is up is ever excluded, and a
  commit reaches all of them;
* `VotedInv` - who has agreed to this request can execute it. The vote is older
  than the execution, and holds because no store changes in between;
* `ReadInv` - the answer of the only thread of a read, and the global variable once
  the semaphore is posted, are what the database that is asked holds;
* `StoreInv` - all databases that are up have the same `View`: what they hold, or,
  while an operation is executed in one after the other, what they will hold.
  Where no thread is to come any more (`Pending`), the view is the store itself.

`ReplicasAreEqual` is `StoreInv` between requests, when nobody commits. `StoredInAll`
adds what a create leaves in a map, and for `OneStoreForAll` the view is the one
store: it changes in one step, when the controller decides to execute, where `VotedInv`
says that the operation is possible; a handler that executes leaves it alone, because
an operation that has been executed is no longer pending. `Failing # Databases` says
that one database at least does not end by itself, as two of the three in the code.
With none left there is no store to speak of: `TheStore` would be any value. The
other three theorems do without it.

### Remote calls

`RemoteCallsMade` goes through the actions of `Coordinator`: a thread gets to its
call (`Drain`) by issuing it, `Execute`, `Return`, `ConnectionFails` and `Crash`
are steps of `RemoteCall`, the others do not touch the calls. A deadline that is
set changes the field `late` of a thread; it changes no call, because that field
is FALSE until the answer is there (`LateWhenAnswered`, the invariant it needs
beside the types).

`RemoteCallImplemented` rests on the invariant of `DatabaseServerProofs`: what is
under way and what the server thread has is determined by the client's call
(a request is `CallMessage` of its operation, a reply one of its method), and the
handler a thread runs is the one of this method. The serialisation is proved to
lose nothing: what `..._args::read` makes of what `send_...` wrote, and what
`recv_...` makes of what `..._result::write` wrote, is what was written, for each
of the nine methods, while an exception is never taken for a result. From this follow
`TypeCorrect` and `UncaughtIsThrown` - the latter also for whatever a handler
returns after a race - and each `process_...` step is the `Execute` of `RemoteCall`, by
the definition of `HandleCall` where the handler returns and of `ThrowingCall` where it
throws. A thread that meets another one in the map is a step `Race`: both calls are
still to be executed and one of them writes (`EnterRaces`). What follows a race is
allowed by `RemoteCall` without more.

`EndsLate` counts: with `votes` calls made, the counter is at most `votes - 1`, less
the calls that have not yet written it. A lost increment only makes it smaller.

### Polling

`PermitsCover` rests on the types of the sensors' variables and on the bound of
the buffers: only with at most `Capacity` data sets does a push into a full buffer
leave its length, so that the permit it adds is one too many and not one too few.

`TypesKept` needs a little more than `TypeOK`: the adapter holds data of MQTT sensors
alone, the broker is a function on them, and a polling thread that goes on has a try
left (`PollingType`).

`DataInOrder` needs that what is still under way comes *after* what was taken.
Its invariant `OrderInv` has, for each UDP sensor, three parts:

* `Numbered` - every request has its own number, not above the poller's (below
  it, while the poller is about to send), and at most one reply;
* `BufferAscends` - the buffer is ascending, and whatever has left it is smaller
  than all of it;
* `TakenAscends` - what was taken is ascending, smaller than the reply being
  handled, and both are smaller than every reply the handler would still take.

The third survives a new request because by `Numbered` no reply under way has
the new number: there is nothing the handler would take. It survives an answer
because by `BufferAscends` the answer is larger than everything before it; and it
survives `ReceiveReply` because at most one reply has the expected number. That a
request is tried once is used where a number stands for a request: with two
tries the theorem is false.

`NothingIsLost` and `AnswersAreCurrent` hold for any number of tries, because they are
about a sensor that is `undisturbed`. Then each poll is one exchange, and exactly one
of four things is there of it: nothing yet, the request, its reply (on its way or with
the handler), or the permit for it (`Exchange`). So the polling thread cannot time
out without something being late, no reply is thrown away, and no permit is left over. `AllThere`
counts along: what has been taken are the numbers from 1 to `Before`, and the rest -
the data on its way followed by the buffer - are the numbers after that, in
sequence. A poll that is tried again has been disturbed, so that two requests with one
number do not occur here.

### Upload

`ErasedWasTaken` says of every data set that has left the queue that it is among
those the web server has taken: itself, or, when its request was cut and filled up with
the end of another one, its fields (`Garbled`). It is not inductive, because a reply in
the connection allows an erasure later. The types and the queue need that all that is
in the connection is at most one request's worth (`OneRequest`), that a closed connection
is empty (`Drained`), and that a thread that goes on has a try left (`TriesLeft`). For
the data set itself the invariant is `CutInv`, whose parts hold however requests are
cut:

* `HeaderFirst`, `HeaderLast` - where a header may stand: first in the memory a session
  reads into, and, in the `requestBuffer` of all sessions, only where nothing follows it
  but another header or the fields of the data set that is to be erased next;
* `Exchange` - what is in an open connection is nothing, the whole request, the whole
  reply to it, or parts of both that are too short to be taken for a reply; and when
  the whole reply is there, the data set it is for has been taken.

The reply is as long as what was read last, so that a whole reply means that
the request was read at once; then its header is found, behind whatever was in
`requestBuffer`, and by `HeaderLast` what is parsed is the data set sent or its fields with
another timestamp. That it is this data set which is erased is `SentIsErased`
and `QueueInOrder` (below).

`WholeInOrder` and `UploadIsAQueue` are about requests that arrive in one piece. Their
invariant `WholeInv` says what is lost as soon as one does not:

* `QueueInOrder` - the queue is the interval of numbers after the last one confirmed
  (always, also when requests are cut);
* `Intact` - the web server is up, `requestBuffer` is empty, the session is not
  silent, the memory it reads into is empty or holds one whole request, and what is
  in the connection is nothing or the whole request of the uploader;
* `InOrder` - what the web server has taken, repetitions aside, are the numbers up to
  the last one confirmed or the one after it, and that one is there if a reply is on
  its way.

With `OneRequest` a read then gets one whole request of the same length as what the
memory held, overwrites it (`ReadInOnePiece`), and the parsing finds it, only it, and
nothing behind it (`WholeRequest`). So `HandleComplete` is the `Deliver` of
`ReliableQueue`, `ReadReply` its `Confirm`, `Enqueue` its `Accept`, every step that
cuts a request the end of its promise, and every other one a stutter.

### What is only model-checked

Liveness: `RequestsEnd`, `EverythingStored`, `EverythingUploaded` and `CallsEnd`. The
prover has no rule for fairness and no `ENABLED`. Every invariant, action property
and refinement that a passing run checks is proved. The refuted comments are
counterexamples, not theorems.

## What is not modelled, and the plan

What the plan has left: the parts of the liveness properties that are safety, as
invariants with proofs - that a controller which waits always has a thread under way,
a permit or a deadline to come, and that an uploader which waits for a reply with
whole requests only has one to come.

Left out for good:

* `DatabaseConcurrentClient` in `gen-cpp/Database.cpp` (2791-3540): generated, and
  used by nothing in the program, which has a client of its own per thread;
* in the generated code, printing, `swap`, copying, the hooks of an event handler
  (none is set) and the skeleton of a server;
* what C++ does after two threads have met in a database's map: it is undefined, and
  the model allows anything;
* handlers that throw, as seen by the commit: `Coordinator` has databases that answer,
  stay silent, or fail; an exception ends the web server in any case;
* the interaction counters of the web server (lines 83-85), incremented and
  printed only, and all printed text;
* the `.bac` files, earlier versions kept beside the code.
