---------------------------- MODULE ReliableProofs ----------------------------
(***************************************************************************)
(* Proofs about the two-phase commit when calls end before their deadline  *)
(* and connections fail only where a database is down: the databases that  *)
(* are up act as one store.                                                *)
(***************************************************************************)
EXTENDS PromptProofs

-----------------------------------------------------------------------------
(* The inductive invariant, beside PromptInv *)

\* No thread is late or given up, and each has the operation and the data that are
\* being served.  A deadline passes only when nobody is under way to its database.
TimelyInv ==
  /\ \A t \in threads :
       t.at # "abandoned" /\ t.late = FALSE /\ t.op = CurrentOp /\ t.data = dataToSend
  /\ pc \in {"top", "wait", "collect"} => timestamps = EmptyMap
  /\ stage = "vote" => \A k \in DOMAIN timestamps :
       /\ timestamps[k] = "past" => NoThreadAt(k[1])
       /\ pc \in {"execute", "ready"} => timestamps[k] = "zero"

\* A database that is up has never missed a deadline: its answer is there, or a
\* thread is under way to get it.
AliveInv ==
  /\ \A d \in up : numberOfTimeouts[d] = 0 /\ (semaphore[d] > 0 \/ ~NoThreadAt(d))
  /\ pc = "timedout" => cursor \notin up

\* A request is voted on, or executed.
Serving == {"execute", "ready", "deadline", "timedwait", "timedout", "evaluate"}

\* A database has agreed to this request only if it can execute it.
VotedInv ==
  /\ \A y \in yesVotes : y[2] <= requestID /\ (pc \in {"wait", "collect"} => y[2] < requestID)
  /\ stage = "vote" /\ pc \in Serving
       => \A d \in Databases : <<d, requestID>> \in yesVotes =>
            HandleCall(CurrentOp, store[d], dataToSend).ret = 0

\* What the database that is asked answers.
ReadResult == readSensorMetadata(store[cursor], FirstKey(dataToSend)).ret

ReadInv ==
  command = "read" =>
    /\ \A t \in threads : /\ t.at = "executed" => t.ret = ReadResult
                          /\ t.at = "answered" => portRead = ReadResult
    /\ /\ pc = "timedwait" \/ (pc = "ready" /\ Starting = {})
       /\ semaphore[cursor] > 0
       => portRead = ReadResult

\* What database d holds, or will hold when it has executed the operation.
View(d) ==
  IF Committing THEN HandleCall(command, store[d], dataToSend).store ELSE store[d]

\* The operation has not been executed by d yet.
Pending(d) ==
  \/ pc = "execute" /\ d >= cursor
  \/ pc = "ready" /\ d > cursor
  \/ \E t \in threads : t.ip = d /\ t.at \in {"prepare", "drain", "call"}

StoreInv ==
  /\ \A d, e \in up : View(d) = View(e)
  /\ Committing => \A d \in up : Pending(d) \/ store[d] = View(d)
  /\ pc = "report" => stage = "commit" /\ command # "read"

Base == IInv /\ Handshake /\ PromptInv
ReliableInv == TimelyInv /\ AliveInv /\ VotedInv /\ ReadInv /\ StoreInv

-----------------------------------------------------------------------------
(* Steps in general *)

LEMMA NoDomain == DOMAIN EmptyMap = {}
BY DEF EmptyMap

\* The controller between requests, and as long as it votes or reports, is alone.
LEMMA Alone ==
  ASSUME Base,
         \/ Stop \/ BeginIteration \/ AwaitData \/ CollectData \/ AllAnswered
         \/ AcceptVote \/ Abort \/ ExitUnvoted \/ Commit \/ FinishCreate \/ FinishOther
  PROVE  threads = {} /\ threads' = {}
<1>1. \/ pc \notin {"execute", "ready", "deadline", "timedwait", "timedout"}
      \/ pc = "execute" /\ command = "read"
      \/ pc = "deadline" /\ AtEnd
  BY DEF Stop, BeginIteration, AwaitData, CollectData, AllAnswered, AcceptVote, Abort,
     ExitUnvoted, Commit, FinishCreate, FinishOther
<1>2. threads = {}
  BY <1>1, NoThreads DEF Base
<1>3. threads' = threads
  BY DEF Stop, BeginIteration, AwaitData, CollectData, AllAnswered, AcceptVote, Abort,
     ExitUnvoted, Commit, FinishCreate, FinishOther
<1> QED BY <1>2, <1>3

\* A deadline that is set changes no other field of a thread than late.
LEMMA SetDeadlineThreads ==
  ASSUME Base, SetDeadline
  PROVE  /\ \A v \in threads' : \E t \in threads :
              /\ v.ip = t.ip /\ v.req = t.req /\ v.op = t.op /\ v.data = t.data
              /\ v.at = t.at /\ v.ret = t.ret /\ (t.late = FALSE => v.late = FALSE)
         /\ \A t \in threads : \E v \in threads' : v.ip = t.ip /\ v.at = t.at
<1> DEFINE Early(t) == IF t.ip = cursor /\ t.req = requestID
                         THEN [t EXCEPT !.late = FALSE] ELSE t
<1>1. threads' = {Early(t) : t \in threads}
  BY DEF SetDeadline
<1>2. ASSUME NEW t \in threads
      PROVE  /\ Early(t).ip = t.ip /\ Early(t).req = t.req /\ Early(t).op = t.op
             /\ Early(t).data = t.data /\ Early(t).at = t.at /\ Early(t).ret = t.ret
             /\ t.late = FALSE => Early(t).late = FALSE
  <2>1. /\ Early(t).ip = t.ip /\ Early(t).req = t.req /\ Early(t).op = t.op
        /\ Early(t).data = t.data /\ Early(t).at = t.at /\ Early(t).ret = t.ret
    BY DEF Base, IInv, TypeOK, Thread
  <2>2. t \in Thread
    BY DEF Base, IInv, TypeOK
  <2>3. t.late = FALSE => [t EXCEPT !.late = FALSE] = t
    BY <2>2, ThreadRecord
  <2>4. t.late = FALSE => Early(t) = t
    BY <2>3
  <2>5. ASSUME t.late = FALSE PROVE Early(t).late = FALSE
    <3>1. Early(t) = t
      BY <2>4, <2>5
    <3> QED BY <2>5, <3>1
  <2> QED BY <2>1, <2>5
<1> HIDE DEF Early
<1>3. ASSUME NEW v \in threads'
      PROVE  \E t \in threads :
               /\ v.ip = t.ip /\ v.req = t.req /\ v.op = t.op /\ v.data = t.data
               /\ v.at = t.at /\ v.ret = t.ret /\ (t.late = FALSE => v.late = FALSE)
  <2>1. PICK t \in threads : v = Early(t)
    BY <1>1
  <2>2. /\ v.ip = t.ip /\ v.req = t.req /\ v.op = t.op /\ v.data = t.data
        /\ v.at = t.at /\ v.ret = t.ret
    BY <1>2, <2>1
  <2>3. t.late = FALSE => v.late = FALSE
    BY <1>2, <2>1, Zenon
  <2> QED BY <2>2, <2>3, Zenon
<1>4. ASSUME NEW t \in threads
      PROVE  \E v \in threads' : v.ip = t.ip /\ v.at = t.at
  <2>1. Early(t) \in threads' /\ Early(t).ip = t.ip /\ Early(t).at = t.at
    BY <1>1, <1>2
  <2> QED BY <2>1
<1> QED BY <1>3, <1>4, Zenon

-----------------------------------------------------------------------------
(* Nobody is late *)

LEMMA TimelyAlone ==
  ASSUME Base, TimelyInv,
         \/ Stop \/ BeginIteration \/ AwaitData \/ CollectData \/ AllAnswered
         \/ AcceptVote \/ Abort \/ ExitUnvoted \/ Commit \/ FinishCreate \/ FinishOther
  PROVE  TimelyInv'
<1>1. threads' = {}
  BY Alone
<1>2. CASE timestamps' = EmptyMap
  BY <1>1, <1>2, NoDomain DEF TimelyInv
<1>3. CASE timestamps' # EmptyMap
  <2>1. CASE Stop \/ BeginIteration \/ AwaitData \/ CollectData
    <3>1. pc \in {"top", "wait", "collect"} /\ timestamps' = timestamps
      BY <2>1 DEF Stop, BeginIteration, AwaitData, CollectData, feedbackVars
    <3> QED BY <1>3, <3>1 DEF TimelyInv
  <2>2. CASE Abort \/ FinishCreate \/ FinishOther
    BY <1>3, <2>2 DEF Abort, FinishCreate, FinishOther, ResetFeedbackMaps
  <2>3. CASE AllAnswered \/ AcceptVote \/ ExitUnvoted
    <3>1. pc' \in {"evaluate", "report", "exited"}
      BY <2>3 DEF AllAnswered, AcceptVote, ExitUnvoted
    <3> QED BY <1>1, <3>1 DEF TimelyInv, NoThreadAt
  <2>4. CASE Commit
    BY <1>1, <2>4 DEF Commit, TimelyInv
  <2> QED BY <2>1, <2>2, <2>3, <2>4
<1> QED BY <1>2, <1>3

\* Steps that leave the threads and the deadlines alone.
LEMMA TimelyMoves ==
  ASSUME TimelyInv, UNCHANGED <<threads, timestamps, stage, command, dataToSend>>,
         pc' \in {"top", "wait", "collect"} => pc = pc',
         stage = "vote" /\ pc' \in {"execute", "ready"} => pc \in {"execute", "ready"}
  PROVE  TimelyInv'
BY DEF TimelyInv, CurrentOp, NoThreadAt

LEMMA TimelyController ==
  ASSUME Base, TimelyInv,
         \/ ThreadIsReady \/ AllStarted \/ GetAnswer \/ TimeOut \/ RecordTimeout
  PROVE  TimelyInv'
<1>1. UNCHANGED <<threads, timestamps, stage, command, dataToSend>>
  BY DEF ThreadIsReady, AllStarted, GetAnswer, TimeOut, RecordTimeout, roundVars, feedbackVars
<1>2. pc' \notin {"top", "wait", "collect"}
  BY DEF ThreadIsReady, AllStarted, GetAnswer, TimeOut, RecordTimeout
<1>3. stage = "vote" => command # "read"
  BY DEF Base, PromptInv, StageInv
<1>4. stage = "vote" /\ pc' \in {"execute", "ready"} => pc \in {"execute", "ready"}
  BY <1>3 DEF ThreadIsReady, AllStarted, GetAnswer, TimeOut, RecordTimeout
<1> QED BY <1>1, <1>2, <1>4, TimelyMoves

LEMMA TimelyStart ==
  ASSUME Base, TimelyInv, StartThread
  PROVE  TimelyInv'
<1> DEFINE n == [ip |-> cursor, req |-> requestID, op |-> CurrentOp, data |-> dataToSend,
                 at |-> "prepare", count |-> 0, ret |-> 0, late |-> FALSE]
<1>1. /\ threads' = threads \cup {n} /\ pc = "execute" /\ pc' = "ready"
      /\ UNCHANGED <<timestamps, stage, command, dataToSend>> /\ CurrentOp' = CurrentOp
  BY DEF StartThread, roundVars, feedbackVars, CurrentOp
<1>2. n.at # "abandoned" /\ n.late = FALSE /\ n.op = CurrentOp /\ n.data = dataToSend
  OBVIOUS
<1> HIDE DEF n
<1> QED BY <1>1, <1>2 DEF TimelyInv, NoThreadAt

LEMMA TimelyDeadline ==
  ASSUME Base, TimelyInv, SetDeadline
  PROVE  TimelyInv'
<1>1. /\ pc = "deadline" /\ pc' = "timedwait" /\ UNCHANGED <<stage, command, dataToSend>>
      /\ timestamps' = [k \in DOMAIN timestamps \cup {<<cursor, requestID>>} |->
                          IF k = <<cursor, requestID>> THEN "future" ELSE timestamps[k]]
  BY DEF SetDeadline, roundVars
<1>2. \A v \in threads' : \E t \in threads :
        /\ v.ip = t.ip /\ v.req = t.req /\ v.op = t.op /\ v.data = t.data
        /\ v.at = t.at /\ v.ret = t.ret /\ (t.late = FALSE => v.late = FALSE)
  BY SetDeadlineThreads
<1>3. ASSUME NEW v \in threads'
      PROVE  v.at # "abandoned" /\ v.late = FALSE /\ v.op = CurrentOp' /\ v.data = dataToSend'
  BY <1>1, <1>2 DEF TimelyInv, CurrentOp
<1>4. ASSUME NEW k \in DOMAIN timestamps', stage = "vote", timestamps'[k] = "past"
      PROVE  NoThreadAt(k[1])'
  <2>1. k \in DOMAIN timestamps /\ timestamps[k] = "past"
    BY <1>1, <1>4
  <2>2. NoThreadAt(k[1])
    BY <1>4, <2>1 DEF TimelyInv
  <2> QED BY <1>2, <2>2 DEF NoThreadAt
<1> QED BY <1>1, <1>3, <1>4 DEF TimelyInv

\* What a step of a thread t is then: t becomes u, or ends.
Becomes(t, u) ==
  /\ u.ip = t.ip /\ u.req = t.req /\ u.op = t.op /\ u.data = t.data
  /\ u.at # "abandoned" /\ u.late = FALSE
  /\ UNCHANGED <<pc, stage, command, cursor, requestID, dataToSend, numberOfTimeouts, up>>
  /\ \/ timestamps' = timestamps
     \/ timestamps' = InsertAll(timestamps, [k \in {<<t.ip, t.req>>} |-> "zero"])
  /\ \/ /\ t.at = "prepare" /\ u.at = "drain" /\ Replace(t, u)
        /\ UNCHANGED <<semaphore, store, yesVotes, portRead>>
     \/ /\ t.at = "drain" /\ u.at = "call" /\ Replace(t, u)
        /\ semaphore' = [semaphore EXCEPT ![t.ip] = 0]
        /\ UNCHANGED <<store, yesVotes, portRead>>
     \/ /\ t.at = "call" /\ t.ip \in up /\ u.at = "executed" /\ Replace(t, u)
        /\ u.ret = HandleCall(t.op, store[t.ip], t.data).ret
        /\ store' = [store EXCEPT ![t.ip] = HandleCall(t.op, store[t.ip], t.data).store]
        /\ yesVotes' = IF t.op \in VoteOps /\ u.ret = 0
                         THEN yesVotes \cup {<<t.ip, t.req>>} ELSE yesVotes
        /\ UNCHANGED <<semaphore, portRead>>
     \/ /\ t.at = "executed" /\ u.at = "answered" /\ Replace(t, u)
        /\ portRead' = IF t.op = "read" THEN t.ret ELSE portRead
        /\ UNCHANGED <<semaphore, store, yesVotes>>
     \/ /\ t.at = "answered" /\ threads' = threads \ {t}
        /\ semaphore' = [semaphore EXCEPT ![t.ip] = @ + 1]
        /\ UNCHANGED <<store, yesVotes, portRead>>
     \/ /\ t.at \in {"call", "executed"} /\ t.ip \notin up /\ threads' = threads \ {t}
        /\ portRead' = -2
        /\ UNCHANGED <<semaphore, store, yesVotes>>

LEMMA ThreadStepIs ==
  ASSUME Base, TimelyInv, Reliable, NEW t \in threads, ThreadStep(t)
  PROVE  \E u : Becomes(t, u)
<1>1. /\ t \in Thread /\ t.at # "abandoned" /\ t.late = FALSE
      /\ semaphore \in [Databases -> Nat] /\ t.ip \in Databases
  BY DEF Base, IInv, TypeOK, SharedType, Thread, TimelyInv
<1>2. CASE Prepare(t)
  <2> DEFINE u == [t EXCEPT !.at = "drain", !.count = semaphore[t.ip]]
  <2>1. /\ u.ip = t.ip /\ u.req = t.req /\ u.op = t.op /\ u.data = t.data /\ u.at = "drain"
    BY <1>1 DEF Thread
  <2>2. u.late = FALSE
    BY <1>1, ThreadRecord
  <2>3. /\ t.at = "prepare" /\ Replace(t, u)
        /\ timestamps' = InsertAll(timestamps, [k \in {<<t.ip, t.req>>} |-> "zero"])
        /\ UNCHANGED <<pc, stage, command, cursor, requestID, dataToSend, numberOfTimeouts, up,
                       semaphore, store, yesVotes, portRead>>
    BY <1>2 DEF Prepare, roundVars, databaseVars
  <2> HIDE DEF u
  <2> QED BY <2>1, <2>2, <2>3 DEF Becomes
<1>3. CASE Drain(t)
  <2> DEFINE u == [t EXCEPT !.at = "call", !.count = 0]
  <2>1. /\ u.ip = t.ip /\ u.req = t.req /\ u.op = t.op /\ u.data = t.data /\ u.at = "call"
    BY <1>1 DEF Thread
  <2>2. u.late = FALSE
    BY <1>1, ThreadRecord
  <2>3. /\ t.at = "drain" /\ Replace(t, u)
        /\ semaphore' = [semaphore EXCEPT ![t.ip] = TryWaits(@, t.count)]
        /\ UNCHANGED <<pc, stage, command, cursor, requestID, dataToSend, numberOfTimeouts, up,
                       timestamps, store, yesVotes, portRead>>
    BY <1>3 DEF Drain, roundVars, databaseVars, feedbackVars
  <2>4. TryWaits(semaphore[t.ip], t.count) = 0
    <3>1. t.count = semaphore[t.ip]
      BY <2>3, ThreadFacts DEF Base, ThreadInv
    <3>2. semaphore[t.ip] \in Nat
      BY <1>1
    <3> QED BY <3>1, <3>2 DEF TryWaits
  <2>5. semaphore' = [semaphore EXCEPT ![t.ip] = 0]
    BY <2>3, <2>4
  <2> HIDE DEF u
  <2> QED BY <2>1, <2>2, <2>3, <2>5 DEF Becomes
<1>4. CASE Execute(t)
  <2>0. PICK ret : ret = HandleCall(t.op, store[t.ip], t.data).ret
    OBVIOUS
  <2> DEFINE u == [t EXCEPT !.at = "executed", !.ret = ret]
  <2>1. /\ u.ip = t.ip /\ u.req = t.req /\ u.op = t.op /\ u.data = t.data /\ u.at = "executed"
        /\ u.ret = ret
    BY <1>1 DEF Thread
  <2>2. u.late = FALSE
    BY <1>1, ThreadRecord
  <2>3. /\ t.at = "call" /\ t.ip \in up /\ Replace(t, u)
        /\ store' = [store EXCEPT ![t.ip] = HandleCall(t.op, store[t.ip], t.data).store]
        /\ yesVotes' = IF t.op \in VoteOps /\ ret = 0
                         THEN yesVotes \cup {<<t.ip, t.req>>} ELSE yesVotes
        /\ UNCHANGED <<pc, stage, command, cursor, requestID, dataToSend, numberOfTimeouts, up,
                       timestamps, semaphore, portRead>>
    BY <1>1, <1>4, <2>0 DEF Execute, roundVars, feedbackVars
  <2> HIDE DEF u
  <2> QED BY <2>0, <2>1, <2>2, <2>3 DEF Becomes
<1>5. CASE Return(t)
  <2> DEFINE late == /\ t.op \in VoteOps
                     /\ <<t.ip, t.req>> \in DOMAIN timestamps
                     /\ timestamps[<<t.ip, t.req>>] = "past"
             u == [t EXCEPT !.at = "answered", !.late = late]
  <2>1. /\ t.at = "executed" /\ Replace(t, u)
        /\ portRead' = IF t.op = "read" THEN t.ret ELSE portRead
        /\ UNCHANGED <<pc, stage, command, cursor, requestID, dataToSend, numberOfTimeouts, up,
                       timestamps, semaphore, store, yesVotes>>
    BY <1>5 DEF Return, roundVars, databaseVars
  <2>2. late = FALSE
    <3>1. t.op \in VoteOps => stage = "vote"
      BY ThreadFacts DEF Base, ThreadInv
    <3>2. ~NoThreadAt(t.ip)
      BY DEF NoThreadAt
    <3>3. ~late
      BY <3>1, <3>2 DEF TimelyInv
    <3> QED BY <3>3
  <2> HIDE DEF late
  <2>3. u.ip = t.ip /\ u.req = t.req /\ u.op = t.op /\ u.data = t.data /\ u.at = "answered"
    BY <1>1 DEF Thread
  <2>4. u.late = FALSE
    <3>1. [t EXCEPT !.at = "answered", !.late = FALSE].late = FALSE
      BY <1>1 DEF Thread
    <3> QED BY <2>2, <3>1
  <2> HIDE DEF u
  <2> QED BY <2>1, <2>3, <2>4 DEF Becomes
<1>6. CASE RecordVote(t) \/ Signal(t)
  <2>1. /\ t.at = "answered" /\ threads' = threads \ {t}
        /\ semaphore' = [semaphore EXCEPT ![t.ip] = @ + 1]
        /\ UNCHANGED <<pc, stage, command, cursor, requestID, dataToSend, numberOfTimeouts, up,
                       store, yesVotes, portRead>>
        /\ \/ timestamps' = timestamps
           \/ timestamps' = InsertAll(timestamps, [k \in {<<t.ip, t.req>>} |-> "zero"])
    BY <1>1, <1>6 DEF RecordVote, Signal, roundVars, databaseVars, feedbackVars
  <2> QED BY <1>1, <2>1 DEF Becomes
<1>7. CASE ConnectionFails(t)
  <2>1. t.ip \notin up
    BY <1>7 DEF Reliable
  <2>2. /\ t.at \in {"call", "executed"} /\ threads' = threads \ {t} /\ portRead' = -2
        /\ UNCHANGED <<pc, stage, command, cursor, requestID, dataToSend, numberOfTimeouts, up,
                       timestamps, semaphore, store, yesVotes>>
    BY <1>7, <2>1 DEF ConnectionFails, roundVars, databaseVars
  <2> QED BY <1>1, <2>1, <2>2 DEF Becomes
<1> QED BY <1>2, <1>3, <1>4, <1>5, <1>6, <1>7 DEF ThreadStep

LEMMA TimelyThread ==
  ASSUME Base, TimelyInv, NEW t \in threads, NEW u, Becomes(t, u)
  PROVE  TimelyInv'
<1>1. /\ pc \notin {"top", "wait", "collect"}
      /\ threads' \in {threads \ {t}, (threads \ {t}) \cup {u}}
      /\ UNCHANGED <<pc, stage, command, dataToSend>> /\ CurrentOp' = CurrentOp
  BY ThreadFacts DEF Base, PlaceInv, Becomes, Replace, CurrentOp
<1>2. u.at # "abandoned" /\ u.late = FALSE /\ u.op = t.op /\ u.data = t.data /\ u.ip = t.ip
  BY DEF Becomes
<1>3. ASSUME NEW v \in threads'
      PROVE  v.at # "abandoned" /\ v.late = FALSE /\ v.op = CurrentOp' /\ v.data = dataToSend'
  <2>1. v \in threads \/ v = u
    BY <1>1
  <2> QED BY <1>1, <1>2, <2>1 DEF TimelyInv
<1>4. ASSUME NEW k \in DOMAIN timestamps'
      PROVE  \/ timestamps'[k] = "zero"
             \/ k \in DOMAIN timestamps /\ timestamps'[k] = timestamps[k]
  BY <1>4 DEF InsertAll, Becomes
<1>5. \A d : NoThreadAt(d) => NoThreadAt(d)'
  BY <1>1, <1>2 DEF NoThreadAt
<1> QED BY <1>1, <1>3, <1>4, <1>5 DEF TimelyInv

LEMMA TimelyTime ==
  ASSUME Base, TimelyInv, NEW k \in DOMAIN timestamps, DeadlinePasses(k), Prompt
  PROVE  TimelyInv'
<1>1. /\ timestamps' = [timestamps EXCEPT ![k] = "past"] /\ timestamps[k] = "future"
      /\ UNCHANGED <<pc, stage, command, dataToSend, threads>>
  BY DEF DeadlinePasses, roundVars
<1>2. NoThreadAt(k[1])
  BY DEF Prompt, NoThreadAt
<1>3. pc \notin {"top", "wait", "collect"} /\ (stage = "vote" => pc \notin {"execute", "ready"})
  BY <1>1, NoDomain DEF TimelyInv
<1>4. ASSUME NEW j \in DOMAIN timestamps', timestamps'[j] = "past", stage = "vote"
      PROVE  NoThreadAt(j[1])
  BY <1>1, <1>2, <1>4 DEF TimelyInv
<1> QED BY <1>1, <1>3, <1>4 DEF TimelyInv, CurrentOp, NoThreadAt

\* A database that ends takes no call with it: none has been given up.
LEMMA CrashIs ==
  ASSUME TimelyInv, NEW d \in Databases, Crash(d)
  PROVE  /\ threads' = threads /\ up' = up \ {d}
         /\ UNCHANGED <<pc, stage, command, cursor, requestID, dataToSend, numberOfTimeouts,
                        semaphore, timestamps, portRead, store, yesVotes>>
<1>1. threads' = {t \in threads : t.ip # d \/ t.at # "abandoned"}
  BY DEF Crash
<1>2. threads' = threads
  BY <1>1 DEF TimelyInv
<1> QED BY <1>2 DEF Crash, roundVars, feedbackVars

LEMMA StepTimely ==
  ASSUME Base, TimelyInv, [Next /\ Prompt /\ Reliable]_vars
  PROVE  TimelyInv'
<1>1. ASSUME UNCHANGED <<pc, threads, timestamps, stage, command, dataToSend>>
      PROVE  TimelyInv'
  BY <1>1, TimelyMoves
<1>2. CASE UNCHANGED vars
  BY <1>1, <1>2 DEF vars, roundVars, feedbackVars
<1>3. ASSUME NEW id \in Ids, NEW value \in Values, Post(id, value) PROVE TimelyInv'
  BY <1>1, <1>3 DEF Post, roundVars, feedbackVars
<1>4. CASE Controller
  BY <1>4, TimelyAlone, TimelyController, TimelyStart, TimelyDeadline DEF Controller
<1>5. ASSUME NEW t \in threads, ThreadStep(t), Reliable PROVE TimelyInv'
  BY <1>5, ThreadStepIs, TimelyThread
<1>6. ASSUME NEW k \in DOMAIN timestamps, DeadlinePasses(k), Prompt PROVE TimelyInv'
  BY <1>6, TimelyTime
<1>7. CASE ReadDeadlinePasses
  BY <1>1, <1>7 DEF ReadDeadlinePasses, roundVars, feedbackVars
<1>8. ASSUME NEW d \in Databases, Crash(d) PROVE TimelyInv'
  BY <1>1, <1>8, CrashIs
<1> QED BY <1>2, <1>3, <1>4, <1>5, <1>6, <1>7, <1>8 DEF Next

-----------------------------------------------------------------------------
(* A database that is up misses no deadline *)

LEMMA AliveKept ==
  ASSUME AliveInv, up' \subseteq up, UNCHANGED <<numberOfTimeouts, semaphore>>,
         \A d \in up : NoThreadAt(d)' => NoThreadAt(d),
         pc' = "timedout" => cursor' \notin up'
  PROVE  AliveInv'
BY DEF AliveInv

LEMMA AliveController ==
  ASSUME Base, AliveInv, Controller
  PROVE  AliveInv'
<1>0. up' = up /\ up \subseteq Databases
  BY DEF Base, IInv, TypeOK, DatabaseType, Controller, Stop, BeginIteration, AwaitData,
     CollectData, StartThread, ThreadIsReady, AllStarted, SetDeadline, GetAnswer, TimeOut,
     RecordTimeout, AllAnswered, AcceptVote, Abort, ExitUnvoted, Commit, FinishCreate,
     FinishOther, databaseVars
<1>a. numberOfTimeouts \in [Databases -> 0..(MaxTimeouts + 1)] /\ semaphore \in [Databases -> Nat]
  BY DEF Base, IInv, TypeOK, SharedType
<1>1. CASE Stop \/ BeginIteration \/ AwaitData \/ CollectData
  <2>1. UNCHANGED <<numberOfTimeouts, semaphore, threads>> /\ pc' # "timedout"
    BY <1>1 DEF Stop, BeginIteration, AwaitData, CollectData
  <2> QED BY <1>0, <2>1, AliveKept DEF NoThreadAt
<1>2. CASE ThreadIsReady \/ AllStarted
  <2>1. UNCHANGED <<numberOfTimeouts, semaphore, threads>> /\ pc' # "timedout"
    BY <1>2 DEF ThreadIsReady, AllStarted
  <2> QED BY <1>0, <2>1, AliveKept DEF NoThreadAt
<1>3. CASE AllAnswered \/ AcceptVote \/ Abort \/ ExitUnvoted \/ Commit
  <2>1. /\ UNCHANGED <<numberOfTimeouts, semaphore, threads>>
        /\ pc' = "timedout" => pc = "timedout" /\ cursor' = cursor
    BY <1>3 DEF AllAnswered, AcceptVote, Abort, ExitUnvoted, Commit
  <2>2. pc' = "timedout" => cursor' \notin up'
    BY <1>0, <2>1 DEF AliveInv
  <2> QED BY <1>0, <2>1, <2>2, AliveKept DEF NoThreadAt
<1>4. CASE FinishCreate \/ FinishOther
  <2>1. UNCHANGED <<numberOfTimeouts, semaphore, threads>> /\ pc' # "timedout"
    BY <1>4 DEF FinishCreate, FinishOther
  <2> QED BY <1>0, <2>1, AliveKept DEF NoThreadAt
<1>5. CASE StartThread
  <2>1. /\ UNCHANGED <<numberOfTimeouts, semaphore>> /\ pc' # "timedout"
        /\ threads \subseteq threads'
    BY <1>5 DEF StartThread
  <2> QED BY <1>0, <2>1, AliveKept DEF NoThreadAt
<1>6. CASE SetDeadline
  <2>1. UNCHANGED <<numberOfTimeouts, semaphore>> /\ pc' # "timedout"
    BY <1>6 DEF SetDeadline
  <2>2. \A t \in threads : \E v \in threads' : v.ip = t.ip
    BY <1>6, SetDeadlineThreads
  <2> QED BY <1>0, <2>1, <2>2, AliveKept DEF NoThreadAt
<1>7. CASE GetAnswer
  <2>1. /\ UNCHANGED <<semaphore, threads>> /\ pc' # "timedout"
        /\ \/ UNCHANGED numberOfTimeouts
           \/ numberOfTimeouts' = [numberOfTimeouts EXCEPT ![cursor] = 0]
    BY <1>7 DEF GetAnswer
  <2> QED BY <1>0, <1>a, <2>1 DEF AliveInv, NoThreadAt
<1>8. CASE TimeOut
  <2>1. /\ UNCHANGED <<numberOfTimeouts, semaphore, threads, cursor>>
        /\ pc = "timedwait" /\ semaphore[cursor] = 0 /\ DeadlineMissed
    BY <1>8 DEF TimeOut
  <2>2. NoThreadAt(cursor)
    BY <2>1 DEF DeadlineMissed, Base, PromptInv, DeadlineInv
  <2>3. cursor \notin up
    BY <2>1, <2>2 DEF AliveInv
  <2> QED BY <1>0, <2>1, <2>3, AliveKept DEF NoThreadAt
<1>9. CASE RecordTimeout
  <2>1. /\ pc = "timedout" /\ pc' # "timedout" /\ UNCHANGED threads
        /\ numberOfTimeouts' = [numberOfTimeouts EXCEPT ![cursor] = @ + 1]
        /\ \/ UNCHANGED semaphore
           \/ semaphore' = [semaphore EXCEPT ![cursor] = @ + 1]
    BY <1>9 DEF RecordTimeout
  <2>2. cursor \notin up
    BY <2>1 DEF AliveInv
  <2>3. \A d \in up : numberOfTimeouts'[d] = numberOfTimeouts[d] /\ semaphore'[d] = semaphore[d]
    BY <1>0, <1>a, <2>1, <2>2
  <2> QED BY <1>0, <2>1, <2>3 DEF AliveInv, NoThreadAt
<1> QED BY <1>1, <1>2, <1>3, <1>4, <1>5, <1>6, <1>7, <1>8, <1>9 DEF Controller

LEMMA AliveThread ==
  ASSUME Base, AliveInv, NEW t \in threads, NEW u, Becomes(t, u)
  PROVE  AliveInv'
<1>1. UNCHANGED <<pc, cursor, numberOfTimeouts, up>> /\ up \subseteq Databases /\ u.ip = t.ip
  BY DEF Becomes, Base, IInv, TypeOK, DatabaseType
<1>2. semaphore \in [Databases -> Nat] /\ t.ip \in Databases
  BY ThreadFacts DEF Base, IInv, TypeOK, SharedType
<1>3. threads' \in {threads \ {t}, (threads \ {t}) \cup {u}}
      /\ \A d \in Databases : d # t.ip => semaphore'[d] = semaphore[d]
  BY <1>2 DEF Becomes, Replace
<1>4. ASSUME NEW d \in up PROVE semaphore'[d] > 0 \/ ~NoThreadAt(d)'
  <2>1. CASE d = t.ip
    <3>1. \/ u \in threads'
          \/ semaphore' = [semaphore EXCEPT ![t.ip] = @ + 1]
      BY <2>1 DEF Becomes, Replace
    <3> QED BY <1>1, <1>2, <2>1, <3>1 DEF NoThreadAt
  <2>2. CASE d # t.ip
    <3>1. semaphore'[d] = semaphore[d] /\ (NoThreadAt(d)' => NoThreadAt(d))
      BY <1>1, <1>3, <2>2 DEF NoThreadAt
    <3> QED BY <3>1 DEF AliveInv
  <2> QED BY <2>1, <2>2
<1> QED BY <1>1, <1>4 DEF AliveInv

LEMMA StepAlive ==
  ASSUME Base, TimelyInv, AliveInv, [Next /\ Prompt /\ Reliable]_vars
  PROVE  AliveInv'
<1>1. ASSUME UNCHANGED <<numberOfTimeouts, semaphore, threads, pc, cursor>>, up' \subseteq up
      PROVE  AliveInv'
  BY <1>1, AliveKept DEF NoThreadAt, AliveInv
<1>2. CASE UNCHANGED vars
  BY <1>1, <1>2 DEF vars, databaseVars
<1>3. ASSUME NEW id \in Ids, NEW value \in Values, Post(id, value) PROVE AliveInv'
  BY <1>1, <1>3 DEF Post, databaseVars
<1>4. CASE Controller
  BY <1>4, AliveController
<1>5. ASSUME NEW t \in threads, ThreadStep(t), Reliable PROVE AliveInv'
  BY <1>5, ThreadStepIs, AliveThread
<1>6. ASSUME NEW k \in DOMAIN timestamps, DeadlinePasses(k) PROVE AliveInv'
  BY <1>1, <1>6 DEF DeadlinePasses, databaseVars
<1>7. CASE ReadDeadlinePasses
  BY <1>1, <1>7 DEF ReadDeadlinePasses, databaseVars
<1>8. ASSUME NEW d \in Databases, Crash(d) PROVE AliveInv'
  BY <1>1, <1>8, CrashIs
<1> QED BY <1>2, <1>3, <1>4, <1>5, <1>6, <1>7, <1>8 DEF Next

-----------------------------------------------------------------------------
(* The operations of a database *)

\* A vote and a read leave a store as it is.
LEMMA AskingLeaves ==
  ASSUME NEW op \in VoteOps \cup {"read"}, NEW m, NEW data
  PROVE  HandleCall(op, m, data).store = m
BY DEF VoteOps, HandleCall, isCreatePossible, isUpdatePossible, isDeletePossible,
   readSensorMetadata

\* What has been executed once changes nothing when it is executed again.
LEMMA TwiceIsOnce ==
  ASSUME NEW op \in CommitOps, NEW m, NEW data
  PROVE  LET s == HandleCall(op, m, data).store IN HandleCall(op, s, data).store = s
<1> DEFINE id == FirstKey(data)
<1>1. CASE op = "create"
  <2>1. InsertAll(InsertAll(m, data), data) = InsertAll(m, data)
    BY DEF InsertAll
  <2> QED BY <1>1, <2>1 DEF HandleCall, createSensorMetadata
<1>2. CASE op = "update"
  <2> DEFINE set(f) == IF id \in DOMAIN f THEN [f EXCEPT ![id] = data[id]] ELSE f
  <2>1. \A f : HandleCall("update", f, data).store = set(f)
    BY DEF HandleCall, updateSensorMetadata
  <2>2. set(set(m)) = set(m)
    OBVIOUS
  <2> QED BY <1>2, <2>1, <2>2
<1>3. CASE op = "delete"
  <2> DEFINE del(f) == [i \in DOMAIN f \ {id} |-> f[i]]
  <2>1. \A f : HandleCall("delete", f, data).store = del(f)
    BY DEF HandleCall, deleteSensorMetadata
  <2>2. del(del(m)) = del(m)
    <3>1. DOMAIN del(del(m)) = DOMAIN del(m)
      OBVIOUS
    <3> QED BY <3>1
  <2> QED BY <1>3, <2>1, <2>2
<1> QED BY <1>1, <1>2, <1>3 DEF CommitOps

\* A create leaves every key it is given in the store.
LEMMA CreateStores ==
  ASSUME NEW m, NEW data
  PROVE  DOMAIN data \subseteq DOMAIN HandleCall("create", m, data).store
BY DEF HandleCall, createSensorMetadata, InsertAll

\* What a vote of 0 says of the operation it is about.
LEMMA VoteSays ==
  ASSUME NEW op \in {"create", "update", "delete"}, NEW m, NEW data,
         HandleCall(VoteFor[op], m, data).ret = 0
  PROVE  \/ op = "create" /\ DOMAIN data \cap DOMAIN m = {}
         \/ op \in {"update", "delete"} /\ FirstKey(data) \in DOMAIN m
<1>1. CASE op = "create"
  BY <1>1 DEF VoteFor, HandleCall, isCreatePossible
<1>2. CASE op = "update"
  BY <1>2 DEF VoteFor, HandleCall, isUpdatePossible
<1>3. CASE op = "delete"
  BY <1>3 DEF VoteFor, HandleCall, isDeletePossible
<1> QED BY <1>1, <1>2, <1>3

-----------------------------------------------------------------------------
(* Whoever agrees can execute *)

LEMMA VotedKept ==
  ASSUME VotedInv, UNCHANGED <<yesVotes, requestID, store>>,
         pc' \in {"wait", "collect"} => pc \in {"wait", "collect"},
         stage' = "vote" /\ pc' \in Serving =>
           pc \in Serving /\ UNCHANGED <<stage, command, dataToSend>>
  PROVE  VotedInv'
BY DEF VotedInv, Serving, CurrentOp

\* A request begins under a number nobody has agreed to.
LEMMA VotedFresh ==
  ASSUME UNCHANGED yesVotes, \A y \in yesVotes : y[2] \in Nat /\ y[2] < requestID',
         requestID' \in Int
  PROVE  VotedInv'
<1>1. \A y \in yesVotes : y[2] # requestID'
  <2> SUFFICES ASSUME NEW y \in yesVotes, y[2] = requestID' PROVE FALSE
    OBVIOUS
  <2>1. requestID' < requestID'
    OBVIOUS
  <2> QED BY <2>1
<1>2. \A d \in Databases : <<d, requestID'>> \notin yesVotes
  BY <1>1
<1>3. \A y \in yesVotes' : y[2] <= requestID' /\ y[2] < requestID'
  OBVIOUS
<1>4. \A d \in Databases : <<d, requestID'>> \notin yesVotes'
  BY <1>2
<1>5. (\A d \in Databases : <<d, requestID>> \in yesVotes =>
          HandleCall(CurrentOp, store[d], dataToSend).ret = 0)'
  BY <1>4
<1>6. (\A y \in yesVotes : y[2] <= requestID /\ (pc \in {"wait", "collect"} => y[2] < requestID))'
  BY <1>3
<1> QED BY <1>5, <1>6 DEF VotedInv

LEMMA VotedController ==
  ASSUME Base, VotedInv, Controller
  PROVE  VotedInv'
<1>0. requestID \in Nat /\ yesVotes \subseteq Keys /\ \A y \in yesVotes : y[2] \in Nat
  BY DEF Base, IInv, TypeOK, ControllerType, DatabaseType, Keys
<1>1. CASE Stop \/ AwaitData
  <2>1. /\ UNCHANGED <<yesVotes, requestID, store>> /\ pc' \in {"stopped", "collect"}
        /\ pc' = "collect" => pc = "wait"
    BY <1>1 DEF Stop, AwaitData, roundVars, databaseVars
  <2> QED BY <2>1, VotedKept DEF Serving
<1>2. CASE BeginIteration
  <2>1. requestID' = requestID + 1 /\ yesVotes' = yesVotes
    BY <1>2 DEF BeginIteration, databaseVars
  <2>2. \A y \in yesVotes : y[2] < requestID'
    BY <1>0, <2>1 DEF VotedInv
  <2> QED BY <1>0, <2>1, <2>2, VotedFresh
<1>3. CASE CollectData
  <2>1. pc = "collect" /\ requestID' = requestID /\ yesVotes' = yesVotes
    BY <1>3 DEF CollectData, databaseVars
  <2>2. \A y \in yesVotes : y[2] < requestID'
    BY <2>1 DEF VotedInv
  <2> QED BY <1>0, <2>1, <2>2, VotedFresh
<1>4. CASE StartThread \/ ThreadIsReady \/ AllStarted \/ SetDeadline
  <2>1. /\ UNCHANGED <<yesVotes, requestID, store, stage, command, dataToSend>>
        /\ pc \in Serving /\ pc' \in Serving
    BY <1>4 DEF StartThread, ThreadIsReady, AllStarted, SetDeadline, roundVars, databaseVars,
       Serving
  <2> QED BY <2>1, VotedKept DEF Serving
<1>5. CASE GetAnswer \/ TimeOut \/ RecordTimeout \/ AcceptVote
  <2>1. /\ UNCHANGED <<yesVotes, requestID, store, stage, command, dataToSend>>
        /\ pc \in Serving /\ pc' \in Serving
    BY <1>5 DEF GetAnswer, TimeOut, RecordTimeout, AcceptVote, roundVars, databaseVars, Serving
  <2> QED BY <2>1, VotedKept DEF Serving
<1>6. CASE AllAnswered \/ Commit \/ ExitUnvoted
  <2>1. /\ UNCHANGED <<yesVotes, requestID, store, command, dataToSend>> /\ pc \in Serving
        /\ pc' \notin {"wait", "collect"} /\ (stage' = "vote" => stage = "vote")
    BY <1>6 DEF AllAnswered, Commit, ExitUnvoted, roundVars, databaseVars, Serving
  <2>2. stage \in {"vote", "commit"}
    BY DEF Base, IInv, TypeOK, ControllerType
  <2> QED BY <2>1, <2>2, VotedKept
<1>7. CASE Abort \/ FinishOther
  <2>1. UNCHANGED <<yesVotes, requestID, store>> /\ pc' = "top"
    BY <1>7 DEF Abort, FinishOther, databaseVars
  <2> QED BY <2>1, VotedKept DEF Serving
<1>8. CASE FinishCreate
  <2>1. CASE UNCHANGED requestID /\ pc' = "top"
    <3>1. UNCHANGED <<yesVotes, store>>
      BY <1>8 DEF FinishCreate, databaseVars
    <3> QED BY <2>1, <3>1, VotedKept DEF Serving
  <2>2. CASE requestID' = requestID + 1
    <3>1. yesVotes' = yesVotes
      BY <1>8 DEF FinishCreate, databaseVars
    <3>2. \A y \in yesVotes : y[2] < requestID'
      BY <1>0, <2>2 DEF VotedInv
    <3> QED BY <1>0, <2>2, <3>1, <3>2, VotedFresh
  <2> QED BY <1>8, <2>1, <2>2 DEF FinishCreate
<1> QED BY <1>1, <1>2, <1>3, <1>4, <1>5, <1>6, <1>7, <1>8 DEF Controller

LEMMA VotedThread ==
  ASSUME Base, TimelyInv, VotedInv, NEW t \in threads, NEW u, Becomes(t, u)
  PROVE  VotedInv'
<1>0. /\ t.req = requestID /\ t.ip \in Databases /\ requestID \in Nat
      /\ (t.op \in VoteOps <=> stage = "vote") /\ t.op = CurrentOp /\ t.data = dataToSend
      /\ pc \notin {"wait", "collect"} /\ store \in [Databases -> Batches]
  BY ThreadFacts DEF Base, ThreadInv, PlaceInv, TimelyInv, IInv, TypeOK, ControllerType,
     DatabaseType
<1>1. UNCHANGED <<pc, stage, command, requestID, dataToSend>> /\ CurrentOp' = CurrentOp
  BY DEF Becomes, CurrentOp
<1>2. CASE UNCHANGED <<yesVotes, store>>
  BY <1>1, <1>2, VotedKept
<1>3. CASE /\ u.ret = HandleCall(t.op, store[t.ip], t.data).ret
           /\ store' = [store EXCEPT ![t.ip] = HandleCall(t.op, store[t.ip], t.data).store]
           /\ yesVotes' = IF t.op \in VoteOps /\ u.ret = 0
                            THEN yesVotes \cup {<<t.ip, t.req>>} ELSE yesVotes
  <2>1. \A y \in yesVotes' : y[2] <= requestID
    BY <1>0, <1>3 DEF VotedInv
  <2>2. ASSUME stage = "vote", pc \in Serving, NEW d \in Databases,
               <<d, requestID>> \in yesVotes'
        PROVE  HandleCall(CurrentOp, store'[d], dataToSend).ret = 0
    <3>1. HandleCall(t.op, store[t.ip], t.data).store = store[t.ip]
      BY <1>0, <2>2, AskingLeaves
    <3>2. store' = store
      BY <1>0, <1>3, <3>1
    <3>3. CASE <<d, requestID>> \in yesVotes
      BY <2>2, <3>2, <3>3 DEF VotedInv, Serving
    <3>4. CASE <<d, requestID>> \notin yesVotes
      <4>1. d = t.ip /\ u.ret = 0
        BY <1>3, <2>2, <3>4
      <4> QED BY <1>0, <1>3, <3>2, <4>1
    <3> QED BY <3>3, <3>4
  <2> QED BY <1>0, <1>1, <2>1, <2>2 DEF VotedInv, Serving
<1> QED BY <1>2, <1>3 DEF Becomes

LEMMA StepVoted ==
  ASSUME Base, TimelyInv, VotedInv, [Next /\ Prompt /\ Reliable]_vars
  PROVE  VotedInv'
<1>1. ASSUME UNCHANGED <<yesVotes, requestID, store, pc, stage, command, dataToSend>>
      PROVE  VotedInv'
  BY <1>1, VotedKept
<1>2. CASE UNCHANGED vars
  BY <1>1, <1>2 DEF vars, databaseVars, roundVars
<1>3. ASSUME NEW id \in Ids, NEW value \in Values, Post(id, value) PROVE VotedInv'
  BY <1>1, <1>3 DEF Post, databaseVars, roundVars
<1>4. CASE Controller
  BY <1>4, VotedController
<1>5. ASSUME NEW t \in threads, ThreadStep(t), Reliable PROVE VotedInv'
  BY <1>5, ThreadStepIs, VotedThread
<1>6. ASSUME NEW k \in DOMAIN timestamps, DeadlinePasses(k) PROVE VotedInv'
  BY <1>1, <1>6 DEF DeadlinePasses, databaseVars, roundVars
<1>7. CASE ReadDeadlinePasses
  BY <1>1, <1>7 DEF ReadDeadlinePasses, databaseVars, roundVars
<1>8. ASSUME NEW d \in Databases, Crash(d) PROVE VotedInv'
  BY <1>1, <1>8, CrashIs
<1> QED BY <1>2, <1>3, <1>4, <1>5, <1>6, <1>7, <1>8 DEF Next

-----------------------------------------------------------------------------
(* The answer of a read *)

\* Before and after the wait for an answer.
LEMMA ReadQuiet ==
  ASSUME command' = "read" => threads' = {} /\ pc' \notin {"ready", "timedwait"}
  PROVE  ReadInv'
BY DEF ReadInv

LEMMA ReadKept ==
  ASSUME ReadInv, UNCHANGED <<command, threads, portRead, cursor, dataToSend, store, semaphore>>,
         pc' = pc \/ pc' = "timedout"
  PROVE  ReadInv'
<1>1. ReadResult' = ReadResult /\ Starting' = Starting
  BY DEF ReadResult, Starting
<1> QED BY <1>1 DEF ReadInv

LEMMA ReadController ==
  ASSUME Base, ReadInv, Controller
  PROVE  ReadInv'
<1>1. CASE \/ Stop \/ BeginIteration \/ AwaitData \/ CollectData \/ AllAnswered
           \/ AcceptVote \/ Abort \/ ExitUnvoted \/ Commit \/ FinishCreate \/ FinishOther
  <2>1. threads' = {}
    BY <1>1, Alone
  <2>2. pc' \notin {"ready", "timedwait"}
    BY <1>1 DEF Stop, BeginIteration, AwaitData, CollectData, AllAnswered, AcceptVote, Abort,
       ExitUnvoted, Commit, FinishCreate, FinishOther
  <2> QED BY <2>1, <2>2, ReadQuiet
<1>2. CASE StartThread
  <2> DEFINE n == [ip |-> cursor, req |-> requestID, op |-> CurrentOp, data |-> dataToSend,
                   at |-> "prepare", count |-> 0, ret |-> 0, late |-> FALSE]
  <2>1. /\ threads' = threads \cup {n} /\ pc = "execute" /\ pc' = "ready"
        /\ command' = command
    BY <1>2 DEF StartThread, roundVars
  <2>2. n.at = "prepare"
    OBVIOUS
  <2> HIDE DEF n
  <2>3. n \in Starting'
    BY <2>1, <2>2 DEF Starting
  <2>4. command = "read" => threads = {}
    BY <2>1, NoThreads DEF Base
  <2> QED BY <2>1, <2>2, <2>3, <2>4 DEF ReadInv
<1>3. CASE ThreadIsReady
  <2>1. /\ pc = "ready" /\ Starting = {} /\ command' = command
        /\ UNCHANGED <<threads, portRead, dataToSend, store, semaphore>>
        /\ command = "read" => pc' = "timedwait" /\ cursor' = cursor
    BY <1>3 DEF ThreadIsReady, Base, Handshake, roundVars, feedbackVars, databaseVars
  <2>2. command = "read" => ReadResult' = ReadResult
    BY <2>1 DEF ReadResult
  <2> QED BY <2>1, <2>2 DEF ReadInv
<1>4. CASE AllStarted \/ SetDeadline
  <2>1. command' # "read"
    BY <1>4 DEF AllStarted, SetDeadline, roundVars, Base, PromptInv, StageInv
  <2> QED BY <2>1, ReadQuiet
<1>5. CASE GetAnswer
  <2>1. /\ pc = "timedwait" /\ semaphore[cursor] > 0 /\ threads' = threads
        /\ command' = command /\ (command = "read" => pc' = "execute")
    BY <1>5 DEF GetAnswer, roundVars
  <2>2. ASSUME command = "read", NEW t \in threads PROVE FALSE
    <3>1. t.ip = cursor /\ t.at \notin {"prepare", "drain"}
      BY <2>1, <2>2, ThreadFacts, NobodyStarts DEF PlaceInv, Base
    <3>2. semaphore[t.ip] = 0
      BY <3>1, ThreadFacts DEF ThreadInv, Base
    <3> QED BY <2>1, <3>1, <3>2
  <2> QED BY <2>1, <2>2, ReadQuiet
<1>6. CASE TimeOut
  <2>1. UNCHANGED <<command, threads, portRead, cursor, dataToSend, store, semaphore>>
        /\ pc' = "timedout"
    BY <1>6 DEF TimeOut, roundVars, feedbackVars, databaseVars
  <2> QED BY <2>1, ReadKept
<1>7. CASE RecordTimeout
  <2>1. /\ pc = "timedout" /\ threads' = threads /\ command' = command
        /\ pc' \in {"execute", "deadline"}
    BY <1>7 DEF RecordTimeout, roundVars
  <2>2. command = "read" => threads = {}
    BY <2>1, ThreadFacts DEF PlaceInv, Base
  <2> QED BY <2>1, <2>2, ReadQuiet
<1> QED BY <1>1, <1>2, <1>3, <1>4, <1>5, <1>6, <1>7 DEF Controller

LEMMA ReadThread ==
  ASSUME Base, TimelyInv, ReadInv, NEW t \in threads, NEW u, Becomes(t, u)
  PROVE  ReadInv'
<1>0. UNCHANGED <<pc, stage, command, cursor, dataToSend>>
  BY DEF Becomes
<1> SUFFICES ASSUME command = "read" PROVE ReadInv'
  BY <1>0, ReadQuiet
<1>1. /\ stage = "commit" /\ t.op = "read" /\ t.data = dataToSend
      /\ pc \in {"ready", "timedwait"} /\ t.ip = cursor /\ cursor \in Databases
      /\ semaphore \in [Databases -> Nat] /\ store \in [Databases -> Batches]
  BY ThreadFacts DEF Base, PromptInv, StageInv, PlaceInv, TimelyInv, CurrentOp, IInv, TypeOK,
     SharedType, DatabaseType
<1>2. threads = {t}
  <2>1. \A v \in threads : v.ip = cursor
    BY <1>1, ThreadFacts DEF Base, PromptInv, StageInv, PlaceInv
  <2> QED BY <1>1, <2>1 DEF Base, PromptInv, OneCallPerDatabase
<1>3. store' = store /\ ReadResult' = ReadResult
  <2>1. HandleCall(t.op, store[t.ip], t.data).store = store[t.ip]
    <3>1. t.op \in VoteOps \cup {"read"}
      BY <1>1
    <3> QED BY <3>1, AskingLeaves
  <2>2. \/ store' = store
        \/ store' = [store EXCEPT ![t.ip] = HandleCall(t.op, store[t.ip], t.data).store]
    BY DEF Becomes
  <2>3. store' = store
    BY <1>1, <2>1, <2>2
  <2> QED BY <1>0, <2>3 DEF ReadResult
<1>4. t.at \notin {"prepare", "drain"} => semaphore[cursor] = 0
  BY <1>1, ThreadFacts DEF Base, ThreadInv
<1>5. CASE t.at = "prepare" /\ u.at = "drain" /\ Replace(t, u)
  <2>1. threads' = {u} /\ u \in Starting' /\ pc = "ready"
    BY <1>2, <1>5 DEF Replace, Starting, Base, Handshake
  <2> QED BY <1>0, <1>5, <2>1 DEF ReadInv
<1>6. CASE /\ t.at = "drain" /\ u.at = "call" /\ Replace(t, u)
           /\ semaphore' = [semaphore EXCEPT ![t.ip] = 0]
  <2>1. threads' = {u} /\ semaphore'[cursor'] = 0
    BY <1>0, <1>1, <1>2, <1>6 DEF Replace
  <2>2. \A v \in threads' : v.at \notin {"executed", "answered"}
    BY <1>6, <2>1
  <2>3. ~(semaphore'[cursor'] > 0)
    BY <2>1
  <2> QED BY <2>2, <2>3 DEF ReadInv
<1>7. CASE /\ t.at = "call" /\ u.at = "executed" /\ Replace(t, u) /\ semaphore' = semaphore
           /\ u.ret = HandleCall(t.op, store[t.ip], t.data).ret
  <2>1. threads' = {u} /\ semaphore'[cursor'] = 0
    BY <1>0, <1>2, <1>4, <1>7 DEF Replace
  <2>2. u.ret = ReadResult
    BY <1>1, <1>7 DEF ReadResult, HandleCall
  <2> QED BY <1>3, <1>7, <2>1, <2>2 DEF ReadInv
<1>8. CASE /\ t.at = "executed" /\ u.at = "answered" /\ Replace(t, u) /\ semaphore' = semaphore
           /\ portRead' = IF t.op = "read" THEN t.ret ELSE portRead
  <2>1. threads' = {u} /\ semaphore'[cursor'] = 0
    BY <1>0, <1>2, <1>4, <1>8 DEF Replace
  <2>2. portRead' = ReadResult
    BY <1>1, <1>8 DEF ReadInv
  <2> QED BY <1>3, <1>8, <2>1, <2>2 DEF ReadInv
<1>9. CASE t.at = "answered" /\ threads' = threads \ {t} /\ portRead' = portRead
  <2>1. threads' = {} /\ portRead' = ReadResult
    BY <1>2, <1>9 DEF ReadInv
  <2> QED BY <1>3, <2>1 DEF ReadInv
<1>10. CASE /\ t.at \in {"call", "executed"} /\ threads' = threads \ {t}
            /\ semaphore' = semaphore
  <2>1. threads' = {} /\ semaphore'[cursor'] = 0
    BY <1>0, <1>2, <1>4, <1>10
  <2> QED BY <2>1 DEF ReadInv
<1> QED BY <1>5, <1>6, <1>7, <1>8, <1>9, <1>10 DEF Becomes

LEMMA StepRead ==
  ASSUME Base, TimelyInv, ReadInv, [Next /\ Prompt /\ Reliable]_vars
  PROVE  ReadInv'
<1>1. ASSUME UNCHANGED <<pc, command, threads, portRead, cursor, dataToSend, store, semaphore>>
      PROVE  ReadInv'
  BY <1>1, ReadKept
<1>2. CASE UNCHANGED vars
  BY <1>1, <1>2 DEF vars, databaseVars, roundVars, feedbackVars
<1>3. ASSUME NEW id \in Ids, NEW value \in Values, Post(id, value) PROVE ReadInv'
  BY <1>1, <1>3 DEF Post, databaseVars, roundVars, feedbackVars
<1>4. CASE Controller
  BY <1>4, ReadController
<1>5. ASSUME NEW t \in threads, ThreadStep(t), Reliable PROVE ReadInv'
  BY <1>5, ThreadStepIs, ReadThread
<1>6. ASSUME NEW k \in DOMAIN timestamps, DeadlinePasses(k) PROVE ReadInv'
  BY <1>1, <1>6 DEF DeadlinePasses, databaseVars, roundVars
<1>7. CASE ReadDeadlinePasses
  BY <1>1, <1>7 DEF ReadDeadlinePasses, databaseVars, roundVars, feedbackVars
<1>8. ASSUME NEW d \in Databases, Crash(d) PROVE ReadInv'
  BY <1>1, <1>8, CrashIs
<1> QED BY <1>2, <1>3, <1>4, <1>5, <1>6, <1>7, <1>8 DEF Next

-----------------------------------------------------------------------------
(* One store *)

\* Nobody who looks at the databases that are up sees a change.
ViewsKept == up' \subseteq up /\ \A d \in up' : View(d)' = View(d)

LEMMA UpIsReachable ==
  ASSUME Base, AliveInv, NEW d \in up
  PROVE  d \in Databases /\ Reachable(d)
BY CoordinatorAssumption DEF Base, IInv, TypeOK, DatabaseType, AliveInv, Reachable

\* Steps that go on with the operation, or stay out of it.
LEMMA StoreMoves ==
  ASSUME StoreInv, up' \subseteq up, UNCHANGED <<store, command, dataToSend>>,
         Committing' <=> Committing,
         Committing => \A d \in up' : Pending(d) => Pending(d)',
         pc' = "report" => stage' = "commit" /\ command' # "read"
  PROVE  ViewsKept /\ StoreInv'
<1>1. \A d : View(d)' = View(d)
  BY DEF View
<1> QED BY <1>1 DEF StoreInv, ViewsKept

\* The controller between requests.
LEMMA StoreIdle ==
  ASSUME StoreInv, up' \subseteq up, UNCHANGED store, ~Committing, ~Committing', pc' # "report"
  PROVE  ViewsKept /\ StoreInv'
<1>1. \A d : View(d)' = View(d)
  BY DEF View
<1> QED BY <1>1 DEF StoreInv, ViewsKept

\* The operation has been executed by all.
LEMMA StoreDone ==
  ASSUME Base, StoreInv, FinishCreate \/ FinishOther
  PROVE  ViewsKept /\ StoreInv'
<1>1. UNCHANGED <<store, up>> /\ pc' # "report"
  BY DEF FinishCreate, FinishOther, databaseVars
<1>2. ~Committing'
  <2>1. executionOrder \in 1..3
    BY DEF Base, IInv, TypeOK, ControllerType
  <2>2. \/ pc' = "top"
        \/ /\ command' = <<"update", "delete", "read">>[executionOrder]
           /\ stage' = IF executionOrder = 3 THEN "commit" ELSE "vote"
    BY DEF FinishCreate, FinishOther
  <2> QED BY <2>1, <2>2 DEF Committing
<1>3. CASE pc = "report"
  <2>1. threads = {} /\ Committing
    BY <1>3, NoThreads DEF Base, StoreInv, Committing
  <2>2. \A d \in up : store[d] = View(d)
    BY <1>3, <2>1 DEF StoreInv, Pending
  <2>3. \A d \in up : View(d)' = store[d]
    BY <1>1, <1>2 DEF View
  <2> QED BY <1>1, <1>2, <2>2, <2>3 DEF StoreInv, ViewsKept
<1>4. CASE pc = "execute" /\ command = "read"
  <2>1. ~Committing
    BY <1>4 DEF Committing
  <2> QED BY <1>1, <1>2, <2>1, StoreIdle
<1> QED BY <1>3, <1>4 DEF FinishCreate, FinishOther

LEMMA StoreController ==
  ASSUME Base, AliveInv, StoreInv, Controller, ~Commit
  PROVE  ViewsKept /\ StoreInv'
<1>1. CASE Stop \/ BeginIteration \/ AwaitData \/ CollectData
  <2>1. UNCHANGED <<store, up>> /\ ~Committing /\ ~Committing' /\ pc' # "report"
    BY <1>1 DEF Stop, BeginIteration, AwaitData, CollectData, databaseVars, Committing
  <2> QED BY <2>1, StoreIdle
<1>2. CASE AcceptVote \/ Abort \/ ExitUnvoted
  <2>1. UNCHANGED <<store, up>> /\ ~Committing /\ ~Committing' /\ pc' # "report"
    BY <1>2 DEF AcceptVote, Abort, ExitUnvoted, databaseVars, Committing
  <2> QED BY <2>1, StoreIdle
<1>3. CASE FinishCreate \/ FinishOther
  BY <1>3, StoreDone
<1>4. CASE AllAnswered
  <2>1. /\ pc = "deadline" /\ AtEnd /\ command # "read"
        /\ pc' = IF stage = "vote" THEN "evaluate" ELSE "report"
        /\ UNCHANGED <<store, up, command, dataToSend, stage, threads>>
        /\ stage \in {"vote", "commit"}
    BY <1>4 DEF AllAnswered, roundVars, databaseVars, Base, PromptInv, StageInv, IInv, TypeOK,
       ControllerType
  <2>2. threads = {}
    BY <2>1, NoThreads DEF Base
  <2>3. \A d \in up : ~Pending(d)
    BY <2>1, <2>2 DEF Pending
  <2>4. Committing' <=> Committing
    BY <2>1 DEF Committing
  <2> QED BY <2>1, <2>3, <2>4, StoreMoves
<1>5. CASE StartThread
  <2> DEFINE n == [ip |-> cursor, req |-> requestID, op |-> CurrentOp, data |-> dataToSend,
                   at |-> "prepare", count |-> 0, ret |-> 0, late |-> FALSE]
  <2>1. /\ pc = "execute" /\ pc' = "ready" /\ threads' = threads \cup {n}
        /\ UNCHANGED <<store, up, command, dataToSend, stage, cursor>>
    BY <1>5 DEF StartThread, roundVars, databaseVars
  <2>2. n.ip = cursor /\ n.at = "prepare"
    OBVIOUS
  <2> HIDE DEF n
  <2>3. ASSUME NEW d \in up, Pending(d) PROVE Pending(d)'
    <3>1. d \in Databases /\ d \in Int /\ cursor \in Int
      BY UpIsReachable, CursorFacts, Numbers DEF Base
    <3> QED BY <2>1, <2>2, <2>3, <3>1 DEF Pending
  <2>4. Committing' <=> Committing
    BY <2>1 DEF Committing
  <2> QED BY <2>1, <2>3, <2>4, StoreMoves
<1>6. CASE ThreadIsReady
  <2>1. /\ pc = "ready" /\ UNCHANGED <<store, up, command, dataToSend, stage, threads>>
        /\ \/ command = "read" /\ pc' = "timedwait"
           \/ command # "read" /\ pc' = "execute" /\ cursor' \in NextReachable(cursor)
    BY <1>6 DEF ThreadIsReady, roundVars, databaseVars
  <2>2. ASSUME Committing, NEW d \in up, Pending(d) PROVE Pending(d)'
    <3>1. command # "read" /\ cursor \in 0..NumDatabases
      BY <2>1, <2>2, CursorFacts DEF Committing, Base
    <3>2. d > cursor => d >= cursor'
      BY <2>1, <3>1, LoopPasses, UpIsReachable
    <3> QED BY <2>1, <2>2, <3>1, <3>2 DEF Pending
  <2>3. Committing' <=> Committing
    BY <2>1 DEF Committing
  <2>4. pc' # "report"
    BY <2>1
  <2> QED BY <2>1, <2>2, <2>3, <2>4, StoreMoves
<1>7. CASE AllStarted
  <2>1. /\ pc = "execute" /\ pc' = "deadline" /\ cursor = NumDatabases + 1
        /\ UNCHANGED <<store, up, command, dataToSend, stage, threads>>
    BY <1>7 DEF AllStarted, AtEnd, roundVars, databaseVars
  <2>2. ASSUME NEW d \in up, Pending(d) PROVE Pending(d)'
    <3>1. ~(d >= cursor)
      BY <2>1, UpIsReachable, Numbers
    <3> QED BY <2>1, <2>2, <3>1 DEF Pending
  <2>3. Committing' <=> Committing
    BY <2>1 DEF Committing
  <2> QED BY <2>1, <2>2, <2>3, StoreMoves
<1>8. CASE SetDeadline
  <2>1. /\ pc = "deadline" /\ pc' = "timedwait"
        /\ UNCHANGED <<store, up, command, dataToSend, stage>>
    BY <1>8 DEF SetDeadline, roundVars, databaseVars
  <2>2. ASSUME NEW d \in up, Pending(d) PROVE Pending(d)'
    <3>1. PICK t \in threads : t.ip = d /\ t.at \in {"prepare", "drain", "call"}
      BY <2>1, <2>2 DEF Pending
    <3>2. PICK v \in threads' : v.ip = t.ip /\ v.at = t.at
      BY <1>8, SetDeadlineThreads
    <3> QED BY <3>1, <3>2 DEF Pending
  <2>3. Committing' <=> Committing
    BY <2>1 DEF Committing
  <2> QED BY <2>1, <2>2, <2>3, StoreMoves
<1>9. CASE GetAnswer \/ TimeOut \/ RecordTimeout
  <2>1. /\ pc \in {"timedwait", "timedout"} /\ pc' \in {"execute", "deadline", "timedout"}
        /\ UNCHANGED <<store, up, command, dataToSend, stage, threads>>
    BY <1>9 DEF GetAnswer, TimeOut, RecordTimeout, roundVars, databaseVars
  <2>2. \A d : Pending(d) => Pending(d)'
    BY <2>1 DEF Pending
  <2>3. Committing' <=> Committing
    BY <2>1 DEF Committing
  <2>4. pc' # "report"
    BY <2>1
  <2> QED BY <2>1, <2>2, <2>3, <2>4, StoreMoves
<1> QED BY <1>1, <1>2, <1>3, <1>4, <1>5, <1>6, <1>7, <1>8, <1>9 DEF Controller

\* The operation takes place: nobody has executed it, everybody will.
LEMMA StoreCommits ==
  ASSUME Base, AliveInv, StoreInv, Commit
  PROVE  /\ StoreInv' /\ up' = up /\ UNCHANGED <<command, dataToSend>> /\ command # "read"
         /\ \A d \in up : View(d)' = HandleCall(command, View(d), dataToSend).store
         /\ \A d \in up : View(d) = store[d]
<1>1. /\ pc = "evaluate" /\ pc' = "execute" /\ stage' = "commit" /\ cursor' \in NextReachable(0)
      /\ UNCHANGED <<store, up, command, dataToSend, threads>> /\ command # "read"
  BY DEF Commit, roundVars, databaseVars, Base, PromptInv, StageInv
<1>2. ~Committing /\ Committing'
  BY <1>1 DEF Committing
<1>3. \A d : View(d) = store[d] /\ View(d)' = HandleCall(command, store[d], dataToSend).store
  BY <1>1, <1>2 DEF View
<1>4. ASSUME NEW d \in up PROVE Pending(d)'
  <2>1. d >= cursor'
    BY <1>1, LoopPasses, UpIsReachable, Numbers
  <2> QED BY <1>1, <2>1 DEF Pending
<1> QED BY <1>1, <1>3, <1>4 DEF StoreInv

LEMMA StoreThread ==
  ASSUME Base, TimelyInv, StoreInv, NEW t \in threads, NEW u, Becomes(t, u)
  PROVE  ViewsKept /\ StoreInv'
<1>1. /\ UNCHANGED <<pc, stage, command, cursor, dataToSend, up>> /\ (Committing' <=> Committing)
      /\ threads' \in {threads \ {t}, (threads \ {t}) \cup {u}} /\ u.ip = t.ip
  BY DEF Becomes, Committing, Replace
<1>2. /\ t.ip \in Databases /\ store \in [Databases -> Batches] /\ pc # "report"
      /\ t.op = CurrentOp /\ t.data = dataToSend /\ up \subseteq Databases
      /\ pc \in {"execute", "ready", "deadline", "timedwait", "timedout"}
      /\ (t.op \in VoteOps <=> stage = "vote") /\ stage \in {"vote", "commit"}
      /\ command \in {"create", "update", "delete", "read"}
  BY ThreadFacts DEF Base, IInv, TypeOK, DatabaseType, ControllerType, ThreadInv, PlaceInv, TimelyInv
<1>3. ASSUME NEW d \in Databases, d # t.ip PROVE Pending(d) => Pending(d)'
  BY <1>1, <1>3 DEF Pending
<1>4. CASE store' = store
  <2>1. ASSUME Committing, NEW d \in up, Pending(d) PROVE Pending(d)' \/ store[d] = View(d)
    <3>1. CASE d # t.ip
      BY <1>2, <1>3, <2>1, <3>1
    <3>2. CASE d = t.ip /\ t.at \in {"prepare", "drain"}
      <4>1. u \in threads' /\ u.at \in {"prepare", "drain", "call"}
        BY <3>2 DEF Becomes, Replace
      <4> QED BY <1>1, <3>2, <4>1 DEF Pending
    <3>3. CASE d = t.ip /\ t.at \notin {"prepare", "drain"}
      <4>1. CASE t.at = "call"
        <5>1. store' = [store EXCEPT ![t.ip] = HandleCall(t.op, store[t.ip], t.data).store]
          BY <2>1, <3>3, <4>1 DEF Becomes
        <5>2. store[d] = HandleCall(t.op, store[d], t.data).store
          BY <1>2, <1>4, <3>3, <5>1
        <5>3. t.op = command
          BY <1>2, <2>1 DEF CurrentOp, Committing
        <5> QED BY <1>2, <2>1, <5>2, <5>3 DEF View
      <4>2. CASE t.at # "call"
        <5>1. \A v \in threads : v.ip = d => v.at \notin {"prepare", "drain", "call"}
          BY <3>3, <4>2 DEF Base, PromptInv, OneCallPerDatabase
        <5>2. (pc = "execute" /\ d >= cursor) \/ (pc = "ready" /\ d > cursor)
          BY <2>1, <5>1 DEF Pending
        <5> QED BY <1>1, <5>2 DEF Pending
      <4> QED BY <4>1, <4>2
    <3> QED BY <3>1, <3>2, <3>3
  <2>2. \A d : View(d)' = View(d)
    BY <1>1, <1>4 DEF View
  <2> QED BY <1>1, <1>2, <1>4, <2>1, <2>2 DEF StoreInv, ViewsKept
<1>5. CASE /\ store' = [store EXCEPT ![t.ip] = HandleCall(t.op, store[t.ip], t.data).store]
           /\ store' # store
  <2>1. t.op \notin VoteOps \cup {"read"}
    BY <1>2, <1>5, AskingLeaves
  <2>2. stage = "commit" /\ t.op = command /\ command \in CommitOps /\ Committing
    BY <1>2, <2>1 DEF CurrentOp, CommitOps, Committing
  <2>3. store'[t.ip] = HandleCall(command, store[t.ip], dataToSend).store
    BY <1>2, <1>5, <2>2
  <2>4. View(t.ip)' = View(t.ip) /\ store'[t.ip] = View(t.ip)
    <3>1. HandleCall(command, store'[t.ip], dataToSend).store = store'[t.ip]
      BY <2>2, <2>3, TwiceIsOnce
    <3>2. View(t.ip)' = HandleCall(command, store'[t.ip], dataToSend).store
      BY <1>1, <2>2 DEF View
    <3> QED BY <2>2, <2>3, <3>1, <3>2 DEF View
  <2>5. ASSUME NEW d \in Databases, d # t.ip PROVE View(d)' = View(d) /\ store'[d] = store[d]
    BY <1>1, <1>2, <1>5, <2>5 DEF View
  <2>6. \A d \in up' : View(d)' = View(d)
    BY <1>1, <1>2, <2>4, <2>5
  <2>7. ASSUME NEW d \in up PROVE Pending(d)' \/ store'[d] = View(d)'
    <3>1. CASE d = t.ip
      BY <2>4, <3>1
    <3>2. CASE d # t.ip
      BY <1>2, <1>3, <2>2, <2>5, <3>2 DEF StoreInv
    <3> QED BY <3>1, <3>2
  <2> QED BY <1>1, <1>2, <2>6, <2>7 DEF StoreInv, ViewsKept
<1> QED BY <1>4, <1>5 DEF Becomes

LEMMA StepStore ==
  ASSUME Base, TimelyInv, AliveInv, StoreInv, [Next /\ Prompt /\ Reliable]_vars
  PROVE  StoreInv' /\ (Commit \/ ViewsKept)
<1>1. ASSUME UNCHANGED <<pc, stage, command, dataToSend, store, threads, cursor>>, up' \subseteq up
      PROVE  ViewsKept /\ StoreInv'
  <2>1. Committing' <=> Committing
    BY <1>1 DEF Committing
  <2>2. \A d : Pending(d)' <=> Pending(d)
    BY <1>1 DEF Pending
  <2>3. pc' = "report" => stage' = "commit" /\ command' # "read"
    BY <1>1 DEF StoreInv
  <2> QED BY <1>1, <2>1, <2>2, <2>3, StoreMoves
<1>2. CASE UNCHANGED vars
  BY <1>1, <1>2 DEF vars, databaseVars, roundVars
<1>3. ASSUME NEW id \in Ids, NEW value \in Values, Post(id, value) PROVE ViewsKept /\ StoreInv'
  BY <1>1, <1>3 DEF Post, databaseVars, roundVars
<1>4. CASE Controller
  BY <1>4, StoreController, StoreCommits
<1>5. ASSUME NEW t \in threads, ThreadStep(t), Reliable PROVE ViewsKept /\ StoreInv'
  BY <1>5, ThreadStepIs, StoreThread
<1>6. ASSUME NEW k \in DOMAIN timestamps, DeadlinePasses(k) PROVE ViewsKept /\ StoreInv'
  BY <1>1, <1>6 DEF DeadlinePasses, databaseVars, roundVars
<1>7. CASE ReadDeadlinePasses
  BY <1>1, <1>7 DEF ReadDeadlinePasses, databaseVars, roundVars
<1>8. ASSUME NEW d \in Databases, Crash(d) PROVE ViewsKept /\ StoreInv'
  BY <1>1, <1>8, CrashIs
<1> QED BY <1>2, <1>3, <1>4, <1>5, <1>6, <1>7, <1>8 DEF Next

-----------------------------------------------------------------------------
(* The theorems *)

LEMMA InitReliable == Init => ReliableInv
<1> SUFFICES ASSUME Init PROVE ReliableInv
  OBVIOUS
<1>1. /\ threads = {} /\ timestamps = EmptyMap /\ pc = "top" /\ command = "create"
      /\ stage = "vote" /\ yesVotes = {} /\ up = Databases
      /\ store = [d \in Databases |-> EmptyMap] /\ semaphore = [d \in Databases |-> 1]
      /\ numberOfTimeouts = [d \in Databases |-> 0]
  BY DEF Init
<1>2. TimelyInv
  BY <1>1, NoDomain DEF TimelyInv
<1>3. AliveInv
  BY <1>1 DEF AliveInv
<1>4. VotedInv
  BY <1>1 DEF VotedInv, Serving
<1>5. ReadInv
  BY <1>1 DEF ReadInv
<1>6. StoreInv
  BY <1>1 DEF StoreInv, View, Committing
<1> QED BY <1>2, <1>3, <1>4, <1>5, <1>6 DEF ReliableInv

THEOREM ReliableInvariance == ReliableSpec => [](Base /\ ReliableInv)
<1>1. Init => Base /\ ReliableInv
  <2>1. Init => Handshake
    BY DEF Init, Handshake, Starting
  <2> QED BY <2>1, InitIInv, InitPrompt, InitReliable DEF Base
<1>2. Base /\ ReliableInv /\ [Next /\ Prompt /\ Reliable]_vars => (Base /\ ReliableInv)'
  <2> SUFFICES ASSUME Base, ReliableInv, [Next /\ Prompt /\ Reliable]_vars
               PROVE  Base' /\ ReliableInv'
    OBVIOUS
  <2>1. [Next]_vars /\ [Next /\ Prompt]_vars
    OBVIOUS
  <2>2. Base'
    BY <2>1, StepIInv, StepHandshake, StepPrompt DEF Base
  <2>3. ReliableInv'
    BY StepTimely, StepAlive, StepVoted, StepRead, StepStore DEF ReliableInv
  <2> QED BY <2>2, <2>3
<1> QED BY <1>1, <1>2, PTL DEF ReliableSpec

\* If the databases that are up answer in time, they hold the same data between
\* requests, however many there are and whichever of them have ended.
THEOREM ReplicasAreEqual == ReliableSpec => []ReplicasAgree
<1>1. ReliableInv => ReplicasAgree
  <2> SUFFICES ASSUME ReliableInv, pc \in {"top", "wait", "collect"}, NEW d \in up, NEW e \in up
               PROVE  store[d] = store[e]
    BY DEF ReplicasAgree
  <2>1. ~Committing
    BY DEF Committing
  <2> QED BY <2>1 DEF ReliableInv, StoreInv, View
<1> QED BY <1>1, ReliableInvariance, PTL

\* Then "if vote successfull, then create in all databases" is true.
THEOREM StoredInAll == ReliableSpec => []CreatedInAll
<1>1. Base /\ ReliableInv => CreatedInAll
  <2> SUFFICES ASSUME Base, ReliableInv, pc = "report", command = "create", NEW d \in up
               PROVE  DOMAIN dataToSend \subseteq DOMAIN store[d]
    BY DEF CreatedInAll
  <2>1. threads = {} /\ Committing
    BY NoThreads DEF Base, ReliableInv, StoreInv, Committing
  <2>2. store[d] = View(d)
    BY <2>1 DEF ReliableInv, StoreInv, Pending
  <2>3. store[d] = HandleCall("create", store[d], dataToSend).store
    BY <2>1, <2>2 DEF View
  <2> QED BY <2>3, CreateStores
<1> QED BY <1>1, ReliableInvariance, PTL

\* Then the port the read loop reports is the one stored in the database it has asked,
\* although every read thread writes the same global variable.
THEOREM ReadIsOfTheStore == ReliableSpec => []ReadReportsTheStore
<1>1. ReliableInv => ReadReportsTheStore
  BY DEF ReliableInv, ReadInv, ReadResult, ReadReportsTheStore
<1> QED BY <1>1, ReliableInvariance, PTL

\* A database that does not end by itself does not end.
StillUp == Databases \ Failing \subseteq up

LEMMA SameStoreMap == OneStore!EmptyMap = EmptyMap
BY DEF OneStore!EmptyMap, EmptyMap

LEMMA SameOperations ==
  ASSUME NEW op, NEW m, NEW data
  PROVE  OneStore!HandleCall(op, m, data) = HandleCall(op, m, data)
BY DEF OneStore!HandleCall, HandleCall, OneStore!FirstKey, FirstKey, OneStore!InsertAll, InsertAll,
   OneStore!isCreatePossible, isCreatePossible, OneStore!isUpdatePossible, isUpdatePossible,
   OneStore!isDeletePossible, isDeletePossible, OneStore!createSensorMetadata,
   createSensorMetadata, OneStore!updateSensorMetadata, updateSensorMetadata,
   OneStore!deleteSensorMetadata, deleteSensorMetadata, OneStore!readSensorMetadata,
   readSensorMetadata, OneStore!Port, Port, OneStore!readAll, readAll

\* The store is the one of any database that is up.
LEMMA StoreIsView ==
  ASSUME StoreInv, NEW d \in up
  PROVE  TheStore = View(d)
<1> DEFINE e == CHOOSE x \in up : TRUE
<1>1. e \in up /\ TheStore = View(e)
  BY DEF TheStore, View
<1> HIDE DEF e
<1> QED BY <1>1 DEF StoreInv

LEMMA StoreIsViewAfter ==
  ASSUME StoreInv', NEW d \in up'
  PROVE  TheStore' = View(d)'
<1>1. PICK e : e = CHOOSE x \in up' : TRUE
  OBVIOUS
<1>2. e \in up' /\ TheStore' = View(e)'
  BY <1>1 DEF TheStore, View
<1> QED BY <1>2 DEF StoreInv

\* The operation takes place in the step after the last vote, when it is possible.
LEMMA CommitExecutes ==
  ASSUME Base, ReliableInv, ReliableInv', Commit, NEW d \in up
  PROVE  OneStore!Execute
<1>1. /\ StoreInv' /\ up' = up /\ UNCHANGED <<command, dataToSend>> /\ command # "read"
      /\ View(d)' = HandleCall(command, View(d), dataToSend).store /\ View(d) = store[d]
  BY StoreCommits DEF ReliableInv
<1>2. TheStore = store[d] /\ TheStore' = HandleCall(command, TheStore, dataToSend).store
  <2>1. TheStore = View(d)
    BY StoreIsView DEF ReliableInv
  <2>2. TheStore' = View(d)'
    BY <1>1, StoreIsViewAfter
  <2> QED BY <1>1, <2>1, <2>2
<1>3. DOMAIN dataToSend # {} /\ pc = "evaluate" /\ AtEnd /\ stage = "vote"
  BY DEF Commit, Base, IInv, BatchNeverEmpty, PromptInv, StageInv
<1>4. HandleCall(VoteFor[command], store[d], dataToSend).ret = 0
  <2>1. d \in Databases /\ Reachable(d)
    BY UpIsReachable DEF ReliableInv
  <2>2. d < cursor
    BY <1>3, <2>1, Numbers DEF AtEnd
  <2>3. <<d, requestID>> \in yesVotes
    BY <1>3, <2>1, <2>2 DEF Base, PromptInv, VoteInv
  <2> QED BY <1>3, <2>1, <2>3 DEF ReliableInv, VotedInv, Serving, CurrentOp
<1>5. command \in {"create", "update", "delete"}
  BY <1>1 DEF Base, IInv, TypeOK, ControllerType
<1>6. OneStore!Possible
  <2>1. \/ command = "create" /\ DOMAIN dataToSend \cap DOMAIN store[d] = {}
        \/ command \in {"update", "delete"} /\ FirstKey(dataToSend) \in DOMAIN store[d]
    BY <1>4, <1>5, VoteSays
  <2>2. OneStore!FirstKey(dataToSend) = FirstKey(dataToSend)
    BY DEF OneStore!FirstKey, FirstKey
  <2> QED BY <1>2, <1>3, <2>1, <2>2 DEF OneStore!Possible
<1> QED BY <1>1, <1>2, <1>6, SameOperations DEF OneStore!Execute

LEMMA StepOneStore ==
  ASSUME Base, ReliableInv, ReliableInv', StillUp', Failing # Databases,
         [Next /\ Prompt /\ Reliable]_vars
  PROVE  [OneStore!Next]_(OneStore!vars)
<1>1. PICK d \in up' : TRUE
  <2>1. Databases \ Failing # {}
    BY CoordinatorAssumption DEF Databases
  <2> QED BY <2>1 DEF StillUp
<1>2. CASE Commit
  <2>1. d \in up
    BY <1>1, <1>2, StoreCommits DEF ReliableInv
  <2> QED BY <1>2, <2>1, CommitExecutes DEF OneStore!Next
<1>3. CASE ViewsKept
  <2>1. d \in up /\ View(d)' = View(d)
    BY <1>1, <1>3 DEF ViewsKept
  <2>2. TheStore = View(d)
    BY <2>1, StoreIsView DEF ReliableInv
  <2>3. TheStore' = View(d)'
    BY <1>1, StoreIsViewAfter DEF ReliableInv
  <2>4. OneStore!Ask
    BY <2>1, <2>2, <2>3 DEF OneStore!Ask
  <2> QED BY <2>4 DEF OneStore!Next
<1> QED BY <1>2, <1>3, StepStore DEF ReliableInv

LEMMA StepStillUp == StillUp /\ [Next]_vars => StillUp'
<1> SUFFICES ASSUME StillUp, [Next]_vars PROVE StillUp'
  OBVIOUS
<1>1. ASSUME UNCHANGED up PROVE StillUp'
  BY <1>1 DEF StillUp
<1>2. ASSUME NEW d \in Databases, Crash(d) PROVE StillUp'
  BY <1>2 DEF Crash, StillUp
<1>3. CASE UNCHANGED vars
  BY <1>1, <1>3 DEF vars, databaseVars
<1>4. ASSUME NEW id \in Ids, NEW value \in Values, Post(id, value) PROVE StillUp'
  BY <1>1, <1>4 DEF Post, databaseVars
<1>5. CASE Controller
  BY <1>1, <1>5 DEF Controller, Stop, BeginIteration, AwaitData,
     CollectData, StartThread, ThreadIsReady, AllStarted, SetDeadline, GetAnswer, TimeOut,
     RecordTimeout, AllAnswered, AcceptVote, Abort, ExitUnvoted, Commit, FinishCreate,
     FinishOther, databaseVars
<1>6. ASSUME NEW t \in threads, ThreadStep(t) PROVE StillUp'
  BY <1>1, <1>6 DEF ThreadStep, Prepare, Drain, Execute, Return, RecordVote, Signal,
     ConnectionFails, databaseVars
<1>7. ASSUME NEW k \in DOMAIN timestamps, DeadlinePasses(k) PROVE StillUp'
  BY <1>1, <1>7 DEF DeadlinePasses, databaseVars
<1>8. CASE ReadDeadlinePasses
  BY <1>1, <1>8 DEF ReadDeadlinePasses, databaseVars
<1> QED BY <1>2, <1>3, <1>4, <1>5, <1>6, <1>7, <1>8 DEF Next

\* If there is a database that does not end, as two of the three in the code, then
\* those that are up act as one store, in which each operation takes place at once,
\* after a vote that has found it possible, or not at all.
THEOREM OneStoreForAll ==
  ASSUME Failing # Databases
  PROVE  ReliableSpec => ActsAsOneStore
<1>1. Init => StillUp
  BY DEF Init, StillUp
<1>2. ReliableSpec => []StillUp
  <2>1. StillUp /\ [Next /\ Prompt /\ Reliable]_vars => StillUp'
    BY StepStillUp
  <2> QED BY <1>1, <2>1, PTL DEF ReliableSpec
<1>3. Init => OneStore!Init
  <2> SUFFICES ASSUME Init PROVE OneStore!Init
    OBVIOUS
  <2>1. up # {} /\ up = Databases
    BY CoordinatorAssumption DEF Init, Databases
  <2>2. ~Committing /\ \A d \in Databases : store[d] = EmptyMap
    BY DEF Init, Committing
  <2>3. TheStore = EmptyMap
    BY <2>1, <2>2 DEF TheStore
  <2> QED BY <2>3, SameStoreMap DEF Init, OneStore!Init
<1>4. /\ Base /\ ReliableInv /\ ReliableInv' /\ StillUp' /\ [Next /\ Prompt /\ Reliable]_vars
      => [OneStore!Next]_(OneStore!vars)
  BY StepOneStore
<1> QED BY <1>2, <1>3, <1>4, ReliableInvariance, PTL DEF ReliableSpec, ActsAsOneStore, OneStore!Spec
=============================================================================
