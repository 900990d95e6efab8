----------------------------- MODULE Coordinator -----------------------------
(***************************************************************************)
(* The two-phase commit of the web server (webserver/Webserver.cpp): the   *)
(* controller thread controlDatabaseInteraction, the detached threads      *)
(* newInteractWithDatabase it starts for every database and operation, and *)
(* the databases those threads call (module DatabaseStore).                *)
(*                                                                         *)
(* A thread that has missed its deadline is not stopped: it goes on while  *)
(* the controller serves later requests, and the semaphores and result     *)
(* maps it writes are the ones those later requests use.                   *)
(***************************************************************************)
EXTENDS Integers, Sequences, FiniteSets, DatabaseStore

CONSTANTS
  NumDatabases,  \* length of the vector databases
  MaxTimeouts,   \* MAXIMUM_NUMBER_OF_ALLOWED_TIMEOUTS_BEHIND_EACH_OTHER
  OthersEvery,   \* creates between two other operations (3 in the code)
  Ids,           \* the keys of data sets, "ip:timestamp" in the code
  Values,        \* what a data set holds beside its key
  Failing,       \* the databases whose process may end (10.5.0.200 in the code)
  MaxRequests,   \* bound: request numbers the controller hands out
  MaxPosts,      \* bound: data sets the gateway posts
  MaxInFlight    \* bound: threads in flight when a deadline passes

ASSUME CoordinatorAssumption ==
  /\ NumDatabases \in Nat \ {0}
  /\ MaxTimeouts \in Nat
  /\ OthersEvery \in Nat \ {0}
  /\ Failing \subseteq 1..NumDatabases
  /\ MaxRequests \in Nat
  /\ MaxPosts \in Nat
  /\ MaxInFlight \in Nat

Databases == 1..NumDatabases  \* in the order the maps keyed by ip iterate
VoteOps == {"isCreatePossible", "isUpdatePossible", "isDeletePossible"}
CommitOps == {"create", "update", "delete"}
Ops == VoteOps \cup CommitOps \cup {"read"}
Keys == Databases \X Nat  \* "ip-requestID"
Batches == MapsOf(Ids, Values)

VARIABLES
  \* the data posted by the gateway
  sensorMetadatas,   \* the vector sensorMetadatas
  available,         \* semaphore numberOfAvailableDataToSendToDatabase
  posted,            \* how many data sets have been posted
  \* locals of controlDatabaseInteraction
  pc, requestID, command, stage, cursor, dataToSend, buffer,
  timeToExecute,     \* timeToExecuteOtherOperations
  executionOrder,
  readDeadline,      \* the local timespec of the read loop
  \* globals shared by the controller and the threads
  numberOfTimeouts,  \* numberOfTimeoutsBehindEachOtherByDatabase
  semaphore,         \* semaphoreByDatabase
  votingResult,      \* votingResultByDatabase
  commitResult,      \* resultAfterCommitOperationByDatabase
  timestamps,        \* timestampWhenTimoutIsOccuredByDatabase
  ready,             \* semaphore threadIsReadyToSendDataToTheDatabases
  portRead,          \* sensorMetadataFromDatabase.port
  threads,           \* the threads running newInteractWithDatabase
  \* the databases
  store,             \* sensorMetadataCollection of each database
  up,                \* the database processes still running
  yesVotes           \* history: who answered 0 to the vote of which request

queueVars == <<sensorMetadatas, available, posted>>
roundVars == <<requestID, command, dataToSend, buffer, timeToExecute, executionOrder>>
feedbackVars == <<votingResult, commitResult, timestamps, portRead>>
databaseVars == <<store, up, yesVotes>>
vars == <<queueVars, pc, roundVars, stage, cursor, readDeadline, numberOfTimeouts,
          semaphore, feedbackVars, ready, threads, databaseVars>>

-----------------------------------------------------------------------------
\* (The definitions named "Wrong..." are not part of the model: each is what a
\* plausible slip would make of the definition that follows it.)

WrongTryWaits(n, k) == n

\* A semaphore at n after k calls of sem_trywait.
TryWaits(n, k) == IF n <= k THEN 0 ELSE n - k

WrongReachable(d) == numberOfTimeouts[d] <= MaxTimeouts + 1

\* A database is skipped, and never called again, once it has missed more
\* deadlines in a row than are allowed.
Reachable(d) == numberOfTimeouts[d] <= MaxTimeouts

WrongNextReachable(c) == {c + 1}

\* Where a loop over the reachable databases goes on after c: the next of them,
\* or its end NumDatabases + 1.  (A set of one number.)
NextReachable(c) ==
  {n \in (c + 1)..(NumDatabases + 1) :
     /\ n = NumDatabases + 1 \/ Reachable(n)
     /\ \A d \in (c + 1)..(n - 1) : ~Reachable(d)}

AtEnd == cursor = NumDatabases + 1

\* The operation the threads started now are given.
VoteFor == [create |-> "isCreatePossible",
            update |-> "isUpdatePossible",
            delete |-> "isDeletePossible"]
CurrentOp == IF stage = "commit" THEN command ELSE VoteFor[command]

WrongBatchOf(posts) == {[i \in {posts[1].id} |-> posts[1].value]}

\* dataToSend of a sequence of posts: of a key posted twice the later data set
\* remains.  (A set of one batch.)
BatchOf(posts) ==
  {batch \in [{posts[k].id : k \in DOMAIN posts} -> Values] :
     \A i \in DOMAIN batch : \E k \in DOMAIN posts :
       /\ posts[k] = [id |-> i, value |-> batch[i]]
       /\ \A l \in DOMAIN posts : l > k => posts[l].id # i}

\* resetFeedbackMaps
ResetFeedbackMaps ==
  /\ votingResult' = [d \in Databases |-> 1]
  /\ commitResult' = [d \in Databases |-> 0]
  /\ timestamps' = EmptyMap
  /\ portRead' = 0

Running == pc # "exited"

-----------------------------------------------------------------------------
Init ==
  /\ sensorMetadatas = <<>> /\ available = 0 /\ posted = 0
  /\ pc = "top" /\ requestID = 0 /\ command = "create" /\ stage = "vote"
  /\ cursor = 1 /\ dataToSend = EmptyMap /\ buffer = EmptyMap
  /\ timeToExecute = 0 /\ executionOrder = 1 /\ readDeadline = "none"
  /\ numberOfTimeouts = [d \in Databases |-> 0]
  /\ semaphore = [d \in Databases |-> 1]
  /\ votingResult = [d \in Databases |-> 1]
  /\ commitResult = [d \in Databases |-> 0]
  /\ timestamps = EmptyMap /\ ready = 0 /\ portRead = 0 /\ threads = {}
  /\ store = [d \in Databases |-> EmptyMap] /\ up = Databases /\ yesVotes = {}

\* session::handle_read has a complete POST: it stores the data set and posts
\* the semaphore, both under mtxSensorMetadatas.
Post(id, value) ==
  /\ Running /\ posted < MaxPosts
  /\ posted' = posted + 1
  /\ sensorMetadatas' = Append(sensorMetadatas, [id |-> id, value |-> value])
  /\ available' = available + 1
  /\ UNCHANGED <<pc, roundVars, stage, cursor, readDeadline, numberOfTimeouts,
                 semaphore, feedbackVars, ready, threads, databaseVars>>

-----------------------------------------------------------------------------
\* The controller.  Its local steps that nobody can observe are joined.

AllDatabasesDown == \A d \in Databases : ~Reachable(d)

\* "All databases are down": the controller thread ends.
Stop ==
  /\ pc = "top" /\ AllDatabasesDown
  /\ pc' = "stopped"
  /\ UNCHANGED <<queueVars, roundVars, stage, cursor, readDeadline, numberOfTimeouts,
                 semaphore, feedbackVars, ready, threads, databaseVars>>

\* A request may be followed by a second one in the same iteration, so two
\* numbers have to be left.
BeginIteration ==
  /\ pc = "top" /\ ~AllDatabasesDown
  /\ requestID + 2 <= MaxRequests
  /\ requestID' = requestID + 1
  /\ pc' = "wait"
  /\ UNCHANGED <<queueVars, command, dataToSend, buffer, timeToExecute, executionOrder,
                 stage, cursor, readDeadline, numberOfTimeouts, semaphore, feedbackVars,
                 ready, threads, databaseVars>>

\* sem_wait(numberOfAvailableDataToSendToDatabase)
AwaitData ==
  /\ pc = "wait" /\ available > 0
  /\ available' = available - 1
  /\ pc' = "collect"
  /\ UNCHANGED <<sensorMetadatas, posted, roundVars, stage, cursor, readDeadline,
                 numberOfTimeouts, semaphore, feedbackVars, ready, threads, databaseVars>>

\* Every posted data set goes into dataToSend, with one sem_trywait for each.
CollectData ==
  /\ pc = "collect"
  /\ dataToSend' \in BatchOf(sensorMetadatas)
  /\ available' = TryWaits(available, Len(sensorMetadatas))
  /\ sensorMetadatas' = <<>>
  /\ timeToExecute' = timeToExecute + 1
  /\ command' = "create" /\ stage' = "vote"
  /\ cursor' \in NextReachable(0) /\ pc' = "execute"
  /\ UNCHANGED <<posted, requestID, buffer, executionOrder, readDeadline,
                 numberOfTimeouts, semaphore, feedbackVars, ready, threads, databaseVars>>

\* executeCommandOnEachReachableDatabase: a thread for the next database.
StartThread ==
  /\ pc = "execute" /\ ~AtEnd
  /\ threads' = threads \cup
       {[ip |-> cursor, req |-> requestID, op |-> CurrentOp, data |-> dataToSend,
         at |-> "prepare", count |-> 0, ret |-> 0, late |-> FALSE]}
  /\ pc' = "ready"
  /\ UNCHANGED <<queueVars, roundVars, stage, cursor, readDeadline, numberOfTimeouts,
                 semaphore, feedbackVars, ready, databaseVars>>

\* sem_wait(threadIsReadyToSendDataToTheDatabases).  The read command waits for
\* the answer before it starts the thread of the next database.
ThreadIsReady ==
  /\ pc = "ready" /\ ready > 0
  /\ ready' = ready - 1
  /\ \/ /\ command = "read"
        /\ readDeadline' = "future" /\ pc' = "timedwait"
        /\ UNCHANGED cursor
     \/ /\ command # "read"
        /\ cursor' \in NextReachable(cursor) /\ pc' = "execute"
        /\ UNCHANGED readDeadline
  /\ UNCHANGED <<queueVars, roundVars, stage, numberOfTimeouts, semaphore,
                 feedbackVars, threads, databaseVars>>

AllStarted ==
  /\ pc = "execute" /\ AtEnd /\ command # "read"
  /\ cursor' \in NextReachable(0) /\ pc' = "deadline"
  /\ UNCHANGED <<queueVars, roundVars, stage, readDeadline, numberOfTimeouts,
                 semaphore, feedbackVars, ready, threads, databaseVars>>

\* waitForResponseOfEachThread sets the deadline of the next database.  A clock
\* read before is earlier than this deadline, whoever read it.
SetDeadline ==
  /\ pc = "deadline" /\ ~AtEnd
  /\ timestamps' = [k \in DOMAIN timestamps \cup {<<cursor, requestID>>} |->
                      IF k = <<cursor, requestID>> THEN "future" ELSE timestamps[k]]
  /\ threads' = {IF t.ip = cursor /\ t.req = requestID
                   THEN [t EXCEPT !.late = FALSE] ELSE t : t \in threads}
  /\ pc' = "timedwait"
  /\ UNCHANGED <<queueVars, roundVars, stage, cursor, readDeadline, numberOfTimeouts,
                 semaphore, votingResult, commitResult, portRead, ready, databaseVars>>

\* sem_timedwait gets the semaphore, which is posted back.  Only
\* waitForResponseOfEachThread resets the count of timeouts.
GetAnswer ==
  /\ pc = "timedwait" /\ semaphore[cursor] > 0
  /\ \/ /\ command = "read"
        /\ readDeadline' = "none" /\ pc' = "execute"
        /\ UNCHANGED numberOfTimeouts
     \/ /\ command # "read"
        /\ numberOfTimeouts' = [numberOfTimeouts EXCEPT ![cursor] = 0]
        /\ pc' = "deadline"
        /\ UNCHANGED readDeadline
  /\ cursor' \in NextReachable(cursor)
  /\ UNCHANGED <<queueVars, roundVars, stage, semaphore, feedbackVars, ready,
                 threads, databaseVars>>

DeadlineMissed ==
  IF command = "read" THEN readDeadline = "past"
  ELSE timestamps[<<cursor, requestID>>] = "past"

\* sem_timedwait returns ETIMEDOUT, which it does only for a semaphore at 0.
TimeOut ==
  /\ pc = "timedwait" /\ semaphore[cursor] = 0 /\ DeadlineMissed
  /\ pc' = "timedout"
  /\ UNCHANGED <<queueVars, roundVars, stage, cursor, readDeadline, numberOfTimeouts,
                 semaphore, feedbackVars, ready, threads, databaseVars>>

\* The timeout is entered in the maps, and the semaphore posted; the read loop
\* does neither of the last two.
RecordTimeout ==
  /\ pc = "timedout"
  /\ numberOfTimeouts' = [numberOfTimeouts EXCEPT ![cursor] = @ + 1]
  /\ \/ /\ command = "read"
        /\ readDeadline' = "none" /\ pc' = "execute"
        /\ UNCHANGED <<votingResult, commitResult, semaphore>>
     \/ /\ command # "read"
        /\ votingResult' = [votingResult EXCEPT ![cursor] = -1]
        /\ commitResult' = [commitResult EXCEPT ![cursor] = -1]
        /\ semaphore' = [semaphore EXCEPT ![cursor] = @ + 1]
        /\ pc' = "deadline"
        /\ UNCHANGED readDeadline
  /\ cursor' \in NextReachable(cursor)
  /\ UNCHANGED <<queueVars, roundVars, stage, timestamps, portRead, ready, threads,
                 databaseVars>>

AllAnswered ==
  /\ pc = "deadline" /\ AtEnd
  /\ cursor' \in NextReachable(0)
  /\ pc' = IF stage = "vote" THEN "evaluate" ELSE "report"
  /\ UNCHANGED <<queueVars, roundVars, stage, readDeadline, numberOfTimeouts,
                 semaphore, feedbackVars, ready, threads, databaseVars>>

WrongAcceptVote ==
  /\ pc = "evaluate" /\ ~AtEnd /\ votingResult[cursor] <= 0
  /\ cursor' \in NextReachable(cursor)
  /\ UNCHANGED <<queueVars, pc, roundVars, stage, readDeadline, numberOfTimeouts,
                 semaphore, feedbackVars, ready, threads, databaseVars>>

\* evaluateVotingResult looks at the vote of the next database: 0 goes on.
AcceptVote ==
  /\ pc = "evaluate" /\ ~AtEnd /\ votingResult[cursor] = 0
  /\ cursor' \in NextReachable(cursor)
  /\ UNCHANGED <<queueVars, pc, roundVars, stage, readDeadline, numberOfTimeouts,
                 semaphore, feedbackVars, ready, threads, databaseVars>>

\* A negative vote is thrown and caught: the data of a create is kept in
\* buffer, the maps are reset, and the iteration is left with continue.
Abort ==
  /\ pc = "evaluate" /\ ~AtEnd /\ votingResult[cursor] < 0
  /\ buffer' = IF command = "create" THEN InsertAll(buffer, dataToSend) ELSE buffer
  /\ ResetFeedbackMaps
  /\ pc' = "top"
  /\ UNCHANGED <<queueVars, requestID, command, dataToSend, timeToExecute,
                 executionOrder, stage, cursor, readDeadline, numberOfTimeouts,
                 semaphore, ready, threads, databaseVars>>

\* "A database hasn't voted yet": exit(-1) ends the whole process.
ExitUnvoted ==
  /\ pc = "evaluate" /\ ~AtEnd /\ votingResult[cursor] > 0
  /\ pc' = "exited"
  /\ UNCHANGED <<queueVars, roundVars, stage, cursor, readDeadline, numberOfTimeouts,
                 semaphore, feedbackVars, ready, threads, databaseVars>>

WrongCommit ==
  /\ pc = "evaluate" /\ AtEnd
  /\ stage' = "commit"
  /\ cursor' \in NextReachable(1) /\ pc' = "execute"
  /\ UNCHANGED <<queueVars, roundVars, readDeadline, numberOfTimeouts, semaphore,
                 feedbackVars, ready, threads, databaseVars>>

\* The vote was unanimous: the operation itself is executed.
Commit ==
  /\ pc = "evaluate" /\ AtEnd
  /\ stage' = "commit"
  /\ cursor' \in NextReachable(0) /\ pc' = "execute"
  /\ UNCHANGED <<queueVars, roundVars, readDeadline, numberOfTimeouts, semaphore,
                 feedbackVars, ready, threads, databaseVars>>

\* The create process is finished; after OthersEvery creates an update, a
\* delete or a read of the same data follows under a request number of its own.
FinishCreate ==
  /\ pc = "report" /\ command = "create"
  /\ buffer' = EmptyMap
  /\ ResetFeedbackMaps
  /\ \/ /\ timeToExecute = OthersEvery
        /\ requestID' = requestID + 1
        /\ command' = <<"update", "delete", "read">>[executionOrder]
        /\ stage' = IF executionOrder = 3 THEN "commit" ELSE "vote"
        /\ cursor' \in NextReachable(0) /\ pc' = "execute"
        /\ UNCHANGED timeToExecute
     \/ /\ timeToExecute # OthersEvery
        /\ timeToExecute' = IF timeToExecute > OthersEvery THEN 0 ELSE timeToExecute
        /\ pc' = "top"
        /\ UNCHANGED <<requestID, command, stage, cursor>>
  /\ UNCHANGED <<queueVars, dataToSend, executionOrder, readDeadline,
                 numberOfTimeouts, semaphore, ready, threads, databaseVars>>

\* The update, the delete or the last read is done.
FinishOther ==
  /\ \/ pc = "report" /\ command \in {"update", "delete"}
     \/ pc = "execute" /\ AtEnd /\ command = "read"
  /\ ResetFeedbackMaps
  /\ executionOrder' = IF executionOrder = 3 THEN 1 ELSE executionOrder + 1
  /\ timeToExecute' = 0
  /\ pc' = "top"
  /\ UNCHANGED <<queueVars, requestID, command, dataToSend, buffer, stage, cursor,
                 readDeadline, numberOfTimeouts, semaphore, ready, threads, databaseVars>>

Controller ==
  \/ Stop \/ BeginIteration \/ AwaitData \/ CollectData
  \/ StartThread \/ ThreadIsReady \/ AllStarted
  \/ SetDeadline \/ GetAnswer \/ TimeOut \/ RecordTimeout \/ AllAnswered
  \/ AcceptVote \/ Abort \/ ExitUnvoted \/ Commit \/ FinishCreate \/ FinishOther

-----------------------------------------------------------------------------
\* The threads running newInteractWithDatabase.  (Of one whose connection has failed
\* the call may remain, "abandoned", in the database.)

Replace(t, u) == threads' = (threads \ {t}) \cup {u}

\* A zero timestamp is entered unless there is one, and the semaphore read.
Prepare(t) ==
  /\ Running /\ t.at = "prepare"
  /\ timestamps' = InsertAll(timestamps, [k \in {<<t.ip, t.req>>} |-> "zero"])
  /\ Replace(t, [t EXCEPT !.at = "drain", !.count = semaphore[t.ip]])
  /\ UNCHANGED <<queueVars, pc, roundVars, stage, cursor, readDeadline,
                 numberOfTimeouts, semaphore, votingResult, commitResult, portRead,
                 ready, databaseVars>>

WrongDrain(t) ==
  /\ Running /\ t.at = "drain"
  /\ semaphore' = [semaphore EXCEPT ![t.ip] = TryWaits(@, t.count)]
  /\ Replace(t, [t EXCEPT !.at = "call", !.count = 0])
  /\ UNCHANGED <<queueVars, pc, roundVars, stage, cursor, readDeadline, ready,
                 numberOfTimeouts, feedbackVars, databaseVars>>

\* As many sem_trywait as the semaphore read counted; then the controller is
\* told to go on.
Drain(t) ==
  /\ Running /\ t.at = "drain"
  /\ semaphore' = [semaphore EXCEPT ![t.ip] = TryWaits(@, t.count)]
  /\ ready' = ready + 1
  /\ Replace(t, [t EXCEPT !.at = "call", !.count = 0])
  /\ UNCHANGED <<queueVars, pc, roundVars, stage, cursor, readDeadline,
                 numberOfTimeouts, feedbackVars, databaseVars>>

\* The database executes the call, whatever has become of the web server or of
\* the connection.
Execute(t) ==
  /\ t.at \in {"call", "abandoned"} /\ t.ip \in up
  /\ LET result == HandleCall(t.op, store[t.ip], t.data)
     IN  /\ store' = [store EXCEPT ![t.ip] = result.store]
         /\ \/ /\ t.at = "call"
               /\ Replace(t, [t EXCEPT !.at = "executed", !.ret = result.ret])
               /\ yesVotes' = IF t.op \in VoteOps /\ result.ret = 0
                                THEN yesVotes \cup {<<t.ip, t.req>>} ELSE yesVotes
            \/ /\ t.at = "abandoned"
               /\ threads' = threads \ {t} /\ UNCHANGED yesVotes
  /\ UNCHANGED <<queueVars, pc, roundVars, stage, cursor, readDeadline,
                 numberOfTimeouts, semaphore, feedbackVars, ready, up>>

WrongReturn(t) ==
  /\ Running /\ t.at = "executed"
  /\ Replace(t, [t EXCEPT !.at = "answered"])
  /\ commitResult' = IF t.op \notin VoteOps
                       THEN [commitResult EXCEPT ![t.ip] = t.ret] ELSE commitResult
  /\ UNCHANGED <<queueVars, pc, roundVars, stage, cursor, readDeadline, portRead,
                 numberOfTimeouts, semaphore, votingResult, timestamps, ready,
                 databaseVars>>

\* The answer reaches the thread.  A voting thread reads the clock; the others
\* write the result into the global variable, whoever is waiting for it now.
Return(t) ==
  /\ Running /\ t.at = "executed"
  /\ Replace(t, [t EXCEPT !.at = "answered",
                          !.late = /\ t.op \in VoteOps
                                   /\ <<t.ip, t.req>> \in DOMAIN timestamps
                                   /\ timestamps[<<t.ip, t.req>>] = "past"])
  /\ commitResult' = IF t.op \in CommitOps
                       THEN [commitResult EXCEPT ![t.ip] = t.ret] ELSE commitResult
  /\ portRead' = IF t.op = "read" THEN t.ret ELSE portRead
  /\ UNCHANGED <<queueVars, pc, roundVars, stage, cursor, readDeadline,
                 numberOfTimeouts, semaphore, votingResult, timestamps, ready,
                 databaseVars>>

\* The timestamp a thread finds under its key: operator[] makes a zero one.
TimestampOf(t) ==
  IF <<t.ip, t.req>> \in DOMAIN timestamps THEN timestamps[<<t.ip, t.req>>] ELSE "zero"

\* A vote is entered if its timestamp is after the clock read, or zero.
RecordVote(t) ==
  /\ Running /\ t.at = "answered" /\ t.op \in VoteOps
  /\ timestamps' = InsertAll(timestamps, [k \in {<<t.ip, t.req>>} |-> "zero"])
  /\ \/ /\ ~t.late \/ TimestampOf(t) = "zero"
        /\ votingResult' = [votingResult EXCEPT ![t.ip] = t.ret]
        /\ semaphore' = [semaphore EXCEPT ![t.ip] = @ + 1]
     \/ /\ t.late /\ TimestampOf(t) # "zero"
        /\ UNCHANGED <<votingResult, semaphore>>
  /\ threads' = threads \ {t}
  /\ UNCHANGED <<queueVars, pc, roundVars, stage, cursor, readDeadline,
                 numberOfTimeouts, commitResult, portRead, ready, databaseVars>>

WrongSignal(t) ==
  /\ Running /\ t.at = "answered" /\ t.op \notin VoteOps
  /\ semaphore' = [semaphore EXCEPT ![t.ip] = @ + 1]
  /\ numberOfTimeouts' = [numberOfTimeouts EXCEPT ![t.ip] = 0]
  /\ threads' = threads \ {t}
  /\ UNCHANGED <<queueVars, pc, roundVars, stage, cursor, readDeadline,
                 feedbackVars, ready, databaseVars>>

\* The other operations post the semaphore without a look at the time.
Signal(t) ==
  /\ Running /\ t.at = "answered" /\ t.op \notin VoteOps
  /\ semaphore' = [semaphore EXCEPT ![t.ip] = @ + 1]
  /\ threads' = threads \ {t}
  /\ UNCHANGED <<queueVars, pc, roundVars, stage, cursor, readDeadline,
                 numberOfTimeouts, feedbackVars, ready, databaseVars>>

WrongConnectionFails(t) ==
  /\ Running /\ t.at \in {"call", "executed"}
  /\ commitResult' = [commitResult EXCEPT ![t.ip] = -1]
  /\ portRead' = -2
  /\ ready' = ready + 1
  /\ threads' = threads \ {t}
  /\ UNCHANGED <<queueVars, pc, roundVars, stage, cursor, readDeadline,
                 numberOfTimeouts, semaphore, votingResult, timestamps, databaseVars>>

RetryingConnectionFails(t) ==
  /\ Running /\ t.at \in {"call", "executed"}
  /\ commitResult' = [commitResult EXCEPT ![t.ip] = -1]
  /\ portRead' = -2
  /\ Replace(t, [t EXCEPT !.at = "call", !.ret = 0])
  /\ UNCHANGED <<queueVars, pc, roundVars, stage, cursor, readDeadline,
                 numberOfTimeouts, semaphore, votingResult, timestamps, ready,
                 databaseVars>>

\* TTransportException: the connection is refused, or breaks before the answer;
\* a call the database already has is executed all the same.
ConnectionFails(t) ==
  /\ Running /\ t.at \in {"call", "executed"}
  /\ commitResult' = [commitResult EXCEPT ![t.ip] = -1]
  /\ portRead' = -2
  /\ \/ threads' = threads \ {t}
     \/ t.at = "call" /\ t.ip \in up /\ Replace(t, [t EXCEPT !.at = "abandoned"])
  /\ UNCHANGED <<queueVars, pc, roundVars, stage, cursor, readDeadline,
                 numberOfTimeouts, semaphore, votingResult, timestamps, ready,
                 databaseVars>>

ThreadStep(t) ==
  \/ Prepare(t) \/ Drain(t) \/ Execute(t) \/ Return(t) \/ RecordVote(t)
  \/ Signal(t) \/ ConnectionFails(t)

-----------------------------------------------------------------------------
\* Time, and the end of a database process.

DeadlinePasses(k) ==
  /\ Running /\ timestamps[k] = "future" /\ Cardinality(threads) <= MaxInFlight
  /\ timestamps' = [timestamps EXCEPT ![k] = "past"]
  /\ UNCHANGED <<queueVars, pc, roundVars, stage, cursor, readDeadline,
                 numberOfTimeouts, semaphore, votingResult, commitResult, portRead,
                 ready, threads, databaseVars>>

ReadDeadlinePasses ==
  /\ Running /\ readDeadline = "future" /\ Cardinality(threads) <= MaxInFlight
  /\ readDeadline' = "past"
  /\ UNCHANGED <<queueVars, pc, roundVars, stage, cursor, numberOfTimeouts, semaphore,
                 feedbackVars, ready, threads, databaseVars>>

\* A database process ends (isCreatePossible calls exit) and stays down, and with
\* it the calls that nobody waits for.
Crash(d) ==
  /\ d \in up \cap Failing
  /\ up' = up \ {d}
  /\ threads' = {t \in threads : t.ip # d \/ t.at # "abandoned"}
  /\ UNCHANGED <<queueVars, pc, roundVars, stage, cursor, readDeadline,
                 numberOfTimeouts, semaphore, feedbackVars, ready, store, yesVotes>>

Next ==
  \/ \E id \in Ids, value \in Values : Post(id, value)
  \/ Controller
  \/ \E t \in threads : ThreadStep(t)
  \/ \E k \in DOMAIN timestamps : DeadlinePasses(k)
  \/ ReadDeadlinePasses
  \/ \E d \in Databases : Crash(d)

Spec == Init /\ [][Next]_vars
=============================================================================
