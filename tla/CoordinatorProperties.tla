------------------------ MODULE CoordinatorProperties ------------------------
(***************************************************************************)
(* What the two-phase commit of module Coordinator guarantees, and under   *)
(* which assumptions about the databases and the network it does.          *)
(***************************************************************************)
EXTENDS Coordinator

(***************************************************************************)
(* Assumptions.  Spec makes none: a call may be answered at any time, or   *)
(* never.                                                                  *)
(***************************************************************************)

\* A call is answered, or fails, before its deadline, and is not left running.
Prompt ==
  /\ \A k \in DOMAIN timestamps : DeadlinePasses(k) => \A t \in threads : t.ip # k[1]
  /\ ReadDeadlinePasses => \A t \in threads : t.ip # cursor

\* A connection fails only when the database is down.
Reliable == \A t \in threads : ConnectionFails(t) => t.ip \notin up

\* Every data set posted has a key of its own, the number of the post.
FreshKeys == \A id \in Ids, value \in Values : Post(id, value) => id = posted + 1

PromptSpec == Init /\ [][Next /\ Prompt]_vars
ReliableSpec == Init /\ [][Next /\ Prompt /\ Reliable]_vars

(***************************************************************************)
(* Fairness.  Threads are scheduled, and clocks go on.  Nothing is assumed *)
(* of the network, unless ServerFairness says that calls are answered.     *)
(***************************************************************************)
SchedulingFairness ==
  /\ WF_vars(Controller)
  /\ WF_vars(\E t \in threads : Prepare(t) \/ Drain(t))
  /\ WF_vars(\E k \in DOMAIN timestamps : DeadlinePasses(k))
  /\ WF_vars(ReadDeadlinePasses)

ServerFairness ==
  \A d \in Databases :
    WF_vars(\E t \in threads :
              t.ip = d /\ (Execute(t) \/ Return(t) \/ RecordVote(t) \/ Signal(t)))

FairSpec == Spec /\ SchedulingFairness
LiveSpec ==
  /\ Init /\ [][Next /\ Prompt /\ Reliable /\ FreshKeys]_vars
  /\ WF_vars(Controller)
  /\ WF_vars(\E t \in threads : Prepare(t) \/ Drain(t))
  /\ ServerFairness

-----------------------------------------------------------------------------
Results == {-3, -2, -1, 0, Port}  \* what a handler returns

Thread ==
  [ip : Databases, req : Nat, op : Ops, data : Batches,
   at : {"prepare", "drain", "call", "executed", "answered", "abandoned"},
   count : Nat, ret : Results, late : BOOLEAN]

QueueType ==
  /\ sensorMetadatas \in Seq([id : Ids, value : Values])
  /\ available \in Nat /\ posted \in 0..MaxPosts

ControllerType ==
  /\ pc \in {"top", "wait", "collect", "execute", "ready", "deadline", "timedwait",
             "timedout", "evaluate", "report", "stopped", "exited"}
  /\ requestID \in Nat
  /\ command \in {"create", "update", "delete", "read"}
  /\ stage \in {"vote", "commit"} /\ CurrentOp \in Ops
  /\ cursor \in 1..(NumDatabases + 1)
  /\ dataToSend \in Batches /\ buffer \in Batches
  /\ timeToExecute \in Nat /\ executionOrder \in 1..3
  /\ readDeadline \in {"none", "future", "past"}

SharedType ==
  /\ numberOfTimeouts \in [Databases -> 0..(MaxTimeouts + 1)]
  /\ semaphore \in [Databases -> Nat]
  /\ votingResult \in [Databases -> Results]
  /\ commitResult \in [Databases -> Results]
  /\ DOMAIN timestamps \subseteq Keys
  /\ timestamps \in [DOMAIN timestamps -> {"zero", "future", "past"}]
  /\ ready \in Nat /\ portRead \in Results

DatabaseType ==
  /\ store \in [Databases -> Batches] /\ up \subseteq Databases
  /\ yesVotes \subseteq Keys

\* Every variable has its type; in particular no database collects more than
\* MaxTimeouts + 1 timeouts in a row.
TypeOK ==
  QueueType /\ ControllerType /\ SharedType /\ threads \subseteq Thread /\ DatabaseType

-----------------------------------------------------------------------------
(* Under Spec *)

\* The semaphore counts the data sets of the vector at every moment except
\* between the controller's sem_wait and its draining of the vector: the
\* sem_trywait loop of lines 425-430 takes back exactly what was posted.
QueueCounted ==
  Len(sensorMetadatas) = available + (IF pc = "collect" THEN 1 ELSE 0)

\* While a command is served there is data to serve, so that
\* dataToSend.begin()->first, which every operation but create evaluates, is a
\* data set: in the threads too, which may outlive the request.
BatchNeverEmpty ==
  /\ pc \in {"execute", "ready", "deadline", "timedwait", "timedout", "evaluate", "report"}
       => DOMAIN dataToSend # {}
  /\ \A t \in threads : DOMAIN t.data # {}

\* The controller starts a thread for, waits for and counts the timeouts of no
\* database but a reachable one: a count changes only while it stands there.
CursorReachable ==
  /\ pc \in {"execute", "ready", "deadline", "timedwait", "timedout", "evaluate"}
       => AtEnd \/ Reachable(cursor)
  /\ pc \in {"ready", "timedwait", "timedout"} => ~AtEnd

\* The handshake of threadIsReadyToSendDataToTheDatabases: while a thread takes
\* the semaphore of its database down, the controller waits for this thread and
\* no other does the same; late threads never post the semaphore it waits for.
Starting == {t \in threads : t.at \in {"prepare", "drain"}}

Handshake ==
  /\ \A t \in Starting : pc = "ready" /\ ready = 0 /\ t.ip = cursor /\ t.req = requestID
  /\ \A t, u \in Starting : t = u
  /\ pc = "ready" => ready = 1 \/ Starting # {}
  /\ pc # "ready" => ready = 0

\* A database that has missed too many deadlines in a row stays excluded: its
\* late answers do not bring it back, and it is given no new thread.
ExcludedForGood ==
  [][\A d \in Databases : ~Reachable(d) =>
       /\ ~Reachable(d)'
       /\ \A t \in threads' : t.ip = d /\ t.at = "prepare" => t \in threads]_vars

-----------------------------------------------------------------------------
(* Under PromptSpec *)

\* A database works on one call at a time, which its unsynchronised map needs:
\* Database.cpp guards sensorMetadataCollection by no mutex.
OneCallPerDatabase ==
  \A t, u \in threads : t.ip = u.ip => t = u

\* "A database hasn't voted yet, but should have at this point of code!" is
\* never reached: whenever votes are evaluated, each of them has been given.
VotedWhenEvaluated ==
  pc = "evaluate" => \A d \in Databases : Reachable(d) => votingResult[d] # 1

\* "Once the code is here, there IS an unanimous vote": an operation is executed
\* only after each reachable database has agreed to this very request.
UnanimousVote ==
  pc \in {"execute", "ready", "deadline", "timedwait", "timedout"}
    /\ stage = "commit" /\ command # "read"
    => \A d \in Databases : Reachable(d) => <<d, requestID>> \in yesVotes

-----------------------------------------------------------------------------
(* Under ReliableSpec *)

\* Between requests all databases that are up hold the same data.
ReplicasAgree ==
  pc \in {"top", "wait", "collect"} =>
    \A d, e \in up : store[d] = store[e]

\* "If vote successfull, then create in all databases": when the create process
\* is finished, every database still up has the data.
CreatedInAll ==
  pc = "report" /\ command = "create" =>
    \A d \in up : Reachable(d) => \A i \in DOMAIN dataToSend : i \in DOMAIN store[d]

\* The answer the read loop reports is the one of the database it has asked.
ReadReportsTheStore ==
  pc = "timedwait" /\ command = "read" /\ semaphore[cursor] > 0 =>
    portRead = readSensorMetadata(store[cursor], FirstKey(dataToSend)).ret

(***************************************************************************)
(* Refinements                                                             *)
(***************************************************************************)

\* Under Spec: between the threads and the databases there is nothing but remote calls
\* as module RemoteCall describes them, so that what holds here holds for any
\* implementation of them, such as module DatabaseServer, as long as no handler throws
\* and no two calls meet in the map of a database.
Remote == INSTANCE RemoteCall WITH
  calls  <- {t \in threads : t.at \in {"call", "executed", "abandoned"}},
  intact <- TRUE

MakesRemoteCalls == Remote!Spec

\* Under ReliableSpec: the databases that are up act as one store.  An operation takes
\* place at once in all of them when the vote on it has ended, whoever of them has
\* executed it by then.
Committing ==
  stage = "commit" /\ command # "read"
    /\ pc \in {"execute", "ready", "deadline", "timedwait", "timedout", "report"}

TheStore ==
  LET d == CHOOSE d \in up : TRUE
  IN  IF Committing THEN HandleCall(command, store[d], dataToSend).store ELSE store[d]

OneStore == INSTANCE AtomicStore WITH
  data <- TheStore, op <- command, batch <- dataToSend

ActsAsOneStore == OneStore!Spec

-----------------------------------------------------------------------------
\* Under FairSpec: a request that has begun ends, be it a create, an update, a delete or
\* a read, though the databases may never answer.  Every semaphore the controller waits
\* for is posted or times out: those of executeCommandOnEachReachableDatabase and
\* waitForResponseOfEachThread, and the read loop's own (lines 550 and 557-568).
RequestsEnd ==
  pc \in {"execute", "ready", "deadline", "timedwait"}
    ~> pc \in {"top", "stopped", "exited"}

\* Under LiveSpec: whatever the gateway has posted is at some time in every
\* database, however the posts fall into the controller's batches.
EverythingStored ==
  \A i \in Ids :
    <>(posted >= i) => <>(\A d \in Databases : i \in DOMAIN store[d])
=============================================================================
