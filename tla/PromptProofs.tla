----------------------------- MODULE PromptProofs -----------------------------
(***************************************************************************)
(* Proofs about the two-phase commit when calls are answered, or fail,     *)
(* before their deadline: what the comments of the web server promise, and *)
(* what the databases need of it.                                          *)
(***************************************************************************)
EXTENDS CoordinatorProofs

\* A thread works for the request being served, in the order of the controller's
\* loops: it is at a database the controller has started a thread for and has not
\* waited for yet.
PlaceInv(t) ==
  \/ pc = "execute" /\ command # "read" /\ t.ip < cursor
  \/ pc = "ready" /\ (t.ip = cursor \/ (command # "read" /\ t.ip < cursor))
  \/ pc = "deadline" /\ t.ip >= cursor
  \/ pc = "timedwait" /\ (t.ip = cursor \/ (command # "read" /\ t.ip > cursor))
  \/ pc = "timedout" /\ command # "read" /\ t.ip > cursor

\* The semaphore of a database is down while its thread is under way, and a vote
\* that has been given is known.
ThreadInv(t) ==
  /\ t.req = requestID /\ Reachable(t.ip)
  /\ t.op \in VoteOps <=> stage = "vote"
  /\ PlaceInv(t)
  /\ t.at = "drain" => t.count = semaphore[t.ip]
  /\ t.at \notin {"prepare", "drain"} => semaphore[t.ip] = 0
  /\ t.at \in {"executed", "answered"} /\ t.op \in VoteOps =>
       /\ t.ret \in {-1, 0}
       /\ t.ret = 0 => <<t.ip, t.req>> \in yesVotes

NoThreadAt(d) == \A t \in threads : t.ip # d

\* A deadline that has passed has no thread.
DeadlineInv ==
  pc = "timedwait" =>
    IF command = "read" THEN readDeadline = "past" => NoThreadAt(cursor)
    ELSE /\ <<cursor, requestID>> \in DOMAIN timestamps
         /\ timestamps[<<cursor, requestID>>] = "past" => NoThreadAt(cursor)

\* The semaphore of d, if posted, has been posted in this round.
Drained(d) ==
  \/ pc \in {"deadline", "timedwait", "timedout"}
  \/ pc = "execute" /\ d < cursor
  \/ pc = "ready" /\ (d < cursor \/ (d = cursor /\ Starting = {}))

VoteInv(d) ==
  /\ pc \in {"top", "wait", "collect"} => votingResult[d] = 1
  /\ stage = "vote" =>
       /\ votingResult[d] = 0 => <<d, requestID>> \in yesVotes
       /\ Reachable(d) /\ Drained(d) /\ semaphore[d] > 0 => votingResult[d] # 1
       /\ Reachable(d) /\ d < cursor /\ pc \in {"deadline", "timedwait", "timedout"}
            => votingResult[d] # 1
  /\ pc = "evaluate" /\ Reachable(d) =>
       votingResult[d] # 1 /\ (d < cursor => votingResult[d] = 0)

StageInv ==
  /\ command = "read" => stage = "commit"
  /\ pc = "evaluate" => stage = "vote"
  /\ pc = "deadline" => command # "read"

PromptInv ==
  /\ \A t \in threads : ThreadInv(t)
  /\ OneCallPerDatabase /\ DeadlineInv /\ StageInv
  /\ \A d \in Databases : VoteInv(d)
  /\ UnanimousVote

-----------------------------------------------------------------------------
(* The loops of the controller *)

LEMMA Numbers ==
  NumDatabases \in Nat \ {0} /\ Databases = 1..NumDatabases
BY CoordinatorAssumption DEF Databases

\* A loop passes over no reachable database.
LEMMA LoopPasses ==
  ASSUME NEW c \in 0..NumDatabases, NEW n \in NextReachable(c)
  PROVE  /\ n \in 1..(NumDatabases + 1) /\ n > c
         /\ \A d \in Databases : Reachable(d) => (d > c => d >= n) /\ (d < n => d <= c)
<1>1. n \in 1..(NumDatabases + 1) /\ n > c
  BY NextReachableType
<1>2. ASSUME NEW d \in Databases, Reachable(d), d > c, d < n PROVE FALSE
  <2>1. d \in (c + 1)..(n - 1)
    BY <1>1, <1>2, Numbers
  <2> QED BY <1>2, <2>1 DEF NextReachable
<1> QED BY <1>1, <1>2, Numbers

\* Outside the loops there are no threads.
LEMMA NoThreads ==
  ASSUME IInv, PromptInv,
         \/ pc \notin {"execute", "ready", "deadline", "timedwait", "timedout"}
         \/ pc = "execute" /\ command = "read"
         \/ pc = "deadline" /\ AtEnd
  PROVE  threads = {}
<1> SUFFICES ASSUME NEW t \in threads PROVE FALSE
  OBVIOUS
<1>1. PlaceInv(t) /\ t.ip \in Databases
  BY DEF PromptInv, ThreadInv, IInv, TypeOK, Thread
<1> QED BY <1>1, Numbers DEF PlaceInv, AtEnd

LEMMA NobodyStarts ==
  ASSUME Handshake, pc # "ready", NEW t \in threads
  PROVE  t.at \notin {"prepare", "drain"}
BY DEF Handshake, Starting

\* What the invariant is about.
LEMMA Unaffected ==
  ASSUME PromptInv,
         UNCHANGED <<pc, cursor, requestID, command, stage, numberOfTimeouts, semaphore,
                     votingResult, yesVotes, timestamps, readDeadline, threads>>
  PROVE  PromptInv'
<1>1. ASSUME NEW t \in threads' PROVE ThreadInv(t)'
  BY DEF PromptInv, ThreadInv, PlaceInv, Reachable
<1>2. OneCallPerDatabase' /\ DeadlineInv' /\ StageInv' /\ UnanimousVote'
  BY DEF PromptInv, OneCallPerDatabase, DeadlineInv, NoThreadAt, StageInv, UnanimousVote, Reachable
<1>3. ASSUME NEW d \in Databases PROVE VoteInv(d)'
  BY DEF PromptInv, VoteInv, Drained, Starting, Reachable
<1> QED BY <1>1, <1>2, <1>3 DEF PromptInv

\* The controller between requests, and at their beginning and end.
LEMMA Quiet ==
  ASSUME threads' = {}, pc' # "timedwait", StageInv', UnanimousVote',
         \A d \in Databases : VoteInv(d)'
  PROVE  PromptInv'
BY DEF PromptInv, OneCallPerDatabase, DeadlineInv

LEMMA BetweenRequests ==
  ASSUME IInv, PromptInv, Stop \/ BeginIteration \/ AwaitData
  PROVE  PromptInv'
<1>1. /\ pc \in {"top", "wait"} /\ pc' \in {"stopped", "wait", "collect"}
      /\ UNCHANGED <<command, stage, votingResult, threads>>
  BY DEF Stop, BeginIteration, AwaitData, roundVars, feedbackVars
<1>2. threads' = {}
  BY <1>1, NoThreads
<1>3. ASSUME NEW d \in Databases PROVE VoteInv(d)'
  <2>1. votingResult'[d] = 1
    BY <1>1 DEF PromptInv, VoteInv
  <2> QED BY <1>1, <2>1 DEF VoteInv, Drained
<1>4. StageInv' /\ UnanimousVote'
  BY <1>1 DEF PromptInv, StageInv, UnanimousVote
<1> QED BY <1>1, <1>2, <1>3, <1>4, Quiet

LEMMA CollectDataPrompt ==
  ASSUME IInv, PromptInv, CollectData
  PROVE  PromptInv'
<1>1. /\ pc = "collect" /\ pc' = "execute" /\ command' = "create" /\ stage' = "vote"
      /\ cursor' \in NextReachable(0) /\ UNCHANGED <<votingResult, threads, numberOfTimeouts>>
  BY DEF CollectData, feedbackVars
<1>2. threads' = {}
  BY <1>1, NoThreads
<1>3. ASSUME NEW d \in Databases PROVE VoteInv(d)'
  <2>1. votingResult'[d] = 1
    BY <1>1 DEF PromptInv, VoteInv
  <2>2. Reachable(d)' => ~(d < cursor')
    BY <1>1, LoopPasses, Numbers DEF Reachable
  <2> QED BY <1>1, <2>1, <2>2 DEF VoteInv, Drained
<1>4. StageInv' /\ UnanimousVote'
  BY <1>1 DEF StageInv, UnanimousVote
<1> QED BY <1>1, <1>2, <1>3, <1>4, Quiet

LEMMA RequestEnds ==
  ASSUME IInv, PromptInv, Abort \/ FinishCreate \/ FinishOther
  PROVE  PromptInv'
<1>1. /\ ResetFeedbackMaps /\ UNCHANGED <<threads, numberOfTimeouts>>
      /\ \/ pc \in {"evaluate", "report"}
         \/ pc = "execute" /\ command = "read"
  BY DEF Abort, FinishCreate, FinishOther
<1>2. threads' = {} /\ \A d \in Databases : votingResult'[d] = 1
  BY <1>1, NoThreads DEF ResetFeedbackMaps
<1>3. CASE pc' = "top" /\ UNCHANGED <<command, stage>>
  <2>1. \A d \in Databases : VoteInv(d)'
    BY <1>2, <1>3 DEF VoteInv, Drained
  <2>2. StageInv' /\ UnanimousVote'
    BY <1>3 DEF PromptInv, StageInv, UnanimousVote
  <2> QED BY <1>2, <1>3, <2>1, <2>2, Quiet
<1>4. CASE /\ pc' = "execute" /\ cursor' \in NextReachable(0)
           /\ command' = <<"update", "delete", "read">>[executionOrder]
           /\ stage' = IF executionOrder = 3 THEN "commit" ELSE "vote"
  <2>1. executionOrder \in 1..3
    BY DEF IInv, TypeOK, ControllerType
  <2>2. command' = "read" <=> stage' = "commit"
    BY <1>4, <2>1
  <2>3. ASSUME NEW d \in Databases PROVE VoteInv(d)'
    <3>1. Reachable(d)' => ~(d < cursor')
      BY <1>1, <1>4, LoopPasses, Numbers DEF Reachable
    <3> QED BY <1>2, <1>4, <3>1 DEF VoteInv, Drained
  <2>4. StageInv' /\ UnanimousVote'
    BY <1>4, <2>2 DEF StageInv, UnanimousVote
  <2> QED BY <1>2, <1>4, <2>3, <2>4, Quiet
<1> QED BY <1>3, <1>4 DEF Abort, FinishCreate, FinishOther

LEMMA Evaluation ==
  ASSUME IInv, PromptInv, AcceptVote \/ ExitUnvoted \/ Commit
  PROVE  PromptInv'
<1>1. /\ pc = "evaluate" /\ UNCHANGED <<threads, numberOfTimeouts, votingResult, yesVotes>>
      /\ UNCHANGED <<command, requestID>> /\ cursor \in 1..(NumDatabases + 1)
  BY DEF AcceptVote, ExitUnvoted, Commit, feedbackVars, databaseVars, roundVars, IInv, TypeOK,
     ControllerType
<1>2. threads' = {} /\ stage = "vote"
  BY <1>1, NoThreads DEF PromptInv, StageInv
<1>3. CASE AcceptVote
  <2>1. /\ cursor' \in NextReachable(cursor) /\ cursor \in 0..NumDatabases
        /\ votingResult[cursor] = 0 /\ UNCHANGED <<pc, stage>>
    BY <1>1, <1>3, Numbers DEF AcceptVote, AtEnd
  <2>2. ASSUME NEW d \in Databases PROVE VoteInv(d)'
    <3>1. Reachable(d) /\ d < cursor' => d <= cursor
      BY <2>1, LoopPasses
    <3>3. VoteInv(d)
      BY DEF PromptInv
    <3>2. ASSUME Reachable(d), d < cursor' PROVE votingResult[d] = 0
      <4>1. d = cursor \/ d < cursor
        BY <2>1, <3>1, <3>2, Numbers
      <4> QED BY <1>1, <2>1, <3>2, <3>3, <4>1 DEF VoteInv
    <3>4. stage' = "vote" /\ pc' = "evaluate" /\ votingResult' = votingResult
          /\ yesVotes' = yesVotes /\ requestID' = requestID /\ (Reachable(d)' <=> Reachable(d))
      BY <1>1, <1>2, <2>1 DEF Reachable
    <3> QED BY <1>1, <1>2, <3>2, <3>3, <3>4 DEF VoteInv, Drained
  <2>3. StageInv' /\ UnanimousVote'
    BY <1>1, <2>1 DEF PromptInv, StageInv, UnanimousVote
  <2> QED BY <1>1, <1>2, <2>1, <2>2, <2>3, Quiet
<1>4. CASE ExitUnvoted
  <2>1. pc' = "exited" /\ UNCHANGED stage
    BY <1>4 DEF ExitUnvoted
  <2>2. ASSUME NEW d \in Databases PROVE VoteInv(d)'
    BY <1>1, <2>1 DEF PromptInv, VoteInv, Drained, Reachable
  <2>3. StageInv' /\ UnanimousVote'
    BY <1>1, <2>1 DEF PromptInv, StageInv, UnanimousVote
  <2> QED BY <1>2, <2>1, <2>2, <2>3, Quiet
<1>5. CASE Commit
  <2>1. pc' = "execute" /\ stage' = "commit" /\ AtEnd
    BY <1>5 DEF Commit
  <2>2. ASSUME NEW d \in Databases PROVE VoteInv(d)'
    BY <2>1 DEF VoteInv
  <2>3. ASSUME NEW d \in Databases, Reachable(d)' PROVE <<d, requestID'>> \in yesVotes'
    <3>1. Reachable(d) /\ d < cursor
      BY <1>1, <2>1, <2>3, Numbers DEF Reachable, AtEnd
    <3> QED BY <1>1, <1>2, <3>1 DEF PromptInv, VoteInv
  <2>4. StageInv' /\ UnanimousVote'
    BY <2>1, <2>3 DEF StageInv, UnanimousVote
  <2> QED BY <1>2, <2>1, <2>2, <2>4, Quiet
<1> QED BY <1>3, <1>4, <1>5

-----------------------------------------------------------------------------
(* The controller among the threads *)

\* Steps that leave the threads alone, and only move the controller along them.
LEMMA ControllerMoves ==
  ASSUME PromptInv, UNCHANGED <<threads, requestID, stage, yesVotes>>,
         \A t \in threads :
           Reachable(t.ip)' /\ PlaceInv(t)' /\ semaphore'[t.ip] = semaphore[t.ip],
         DeadlineInv', StageInv', UnanimousVote', \A d \in Databases : VoteInv(d)'
  PROVE  PromptInv'
<1>1. ASSUME NEW t \in threads' PROVE ThreadInv(t)'
  <2>1. ThreadInv(t) /\ Reachable(t.ip)' /\ PlaceInv(t)' /\ semaphore'[t.ip] = semaphore[t.ip]
    BY DEF PromptInv
  <2> QED BY <2>1 DEF ThreadInv
<1>2. OneCallPerDatabase'
  BY DEF PromptInv, OneCallPerDatabase
<1> QED BY <1>1, <1>2 DEF PromptInv

LEMMA ThreadFacts ==
  ASSUME IInv, PromptInv, NEW t \in threads
  PROVE  /\ t.ip \in Databases /\ t.ip \in 0..NumDatabases /\ t.ip \in Int
         /\ Reachable(t.ip) /\ PlaceInv(t) /\ ThreadInv(t)
<1>1. t.ip \in Databases
  BY DEF IInv, TypeOK, Thread
<1> QED BY <1>1, Numbers DEF PromptInv, ThreadInv

LEMMA CursorFacts ==
  ASSUME IInv
  PROVE  /\ cursor \in 1..(NumDatabases + 1) /\ cursor \in Int
         /\ ~AtEnd => cursor \in Databases
         /\ pc \in {"ready", "timedwait", "timedout"} =>
              cursor \in Databases /\ cursor \in 0..NumDatabases /\ Reachable(cursor)
<1>1. cursor \in 1..(NumDatabases + 1)
  BY DEF IInv, TypeOK, ControllerType
<1>2. pc \in {"ready", "timedwait", "timedout"} => ~AtEnd /\ Reachable(cursor)
  BY DEF IInv, CursorReachable
<1> QED BY <1>1, <1>2, Numbers DEF AtEnd

LEMMA StartThreadPrompt ==
  ASSUME IInv, PromptInv, StartThread
  PROVE  PromptInv'
<1> DEFINE n == [ip |-> cursor, req |-> requestID, op |-> CurrentOp, data |-> dataToSend,
                 at |-> "prepare", count |-> 0, ret |-> 0, late |-> FALSE]
<1>1. /\ pc = "execute" /\ pc' = "ready" /\ threads' = threads \cup {n}
      /\ UNCHANGED <<requestID, command, stage, cursor, numberOfTimeouts, semaphore,
                     votingResult, yesVotes>>
  BY DEF StartThread, roundVars, feedbackVars, databaseVars
<1>2. cursor \in Databases /\ Reachable(cursor)
  <2>1. ~AtEnd /\ pc = "execute"
    BY DEF StartThread
  <2>2. AtEnd \/ Reachable(cursor)
    BY <2>1 DEF IInv, CursorReachable
  <2>3. cursor \in Databases
    BY <2>1, CursorFacts
  <2> QED BY <2>1, <2>2, <2>3
<1>3. \A t \in threads : command # "read" /\ t.ip < cursor
  BY <1>1, ThreadFacts DEF PlaceInv
<1>4. n.ip = cursor /\ n.req = requestID /\ n.at = "prepare" /\ n.op = CurrentOp
  OBVIOUS
<1>5. CurrentOp \in VoteOps <=> stage = "vote"
  BY DEF CurrentOp, VoteFor, VoteOps, IInv, TypeOK, ControllerType, PromptInv, StageInv
<1> HIDE DEF n
<1>6. ASSUME NEW t \in threads' PROVE ThreadInv(t)'
  <2>1. CASE t \in threads
    BY <1>1, <1>3, <2>1, ThreadFacts DEF ThreadInv, PlaceInv, Reachable
  <2>2. CASE t = n
    BY <1>1, <1>2, <1>4, <1>5, <2>2 DEF ThreadInv, PlaceInv, Reachable
  <2> QED BY <1>1, <2>1, <2>2
<1>7. OneCallPerDatabase'
  <2>1. \A t \in threads : t.ip # n.ip
    BY <1>2, <1>3, <1>4, ThreadFacts, Numbers
  <2> QED BY <1>1, <2>1 DEF PromptInv, OneCallPerDatabase
<1>8. ASSUME NEW d \in Databases PROVE VoteInv(d)'
  <2>1. Drained(d)' => Drained(d)
    <3>1. n \in Starting'
      BY <1>1, <1>4 DEF Starting
    <3> QED BY <1>1, <3>1 DEF Drained
  <2>2. Reachable(d)' <=> Reachable(d)
    BY <1>1 DEF Reachable
  <2>3. VoteInv(d)
    BY DEF PromptInv
  <2> QED BY <1>1, <2>1, <2>2, <2>3 DEF VoteInv
<1>9. DeadlineInv' /\ StageInv' /\ UnanimousVote'
  BY <1>1 DEF PromptInv, DeadlineInv, StageInv, UnanimousVote, Reachable
<1> QED BY <1>6, <1>7, <1>8, <1>9 DEF PromptInv

LEMMA ThreadIsReadyPrompt ==
  ASSUME IInv, Handshake, PromptInv, ThreadIsReady
  PROVE  PromptInv'
<1>1. /\ pc = "ready" /\ Starting = {} /\ cursor \in Databases /\ cursor \in 0..NumDatabases
      /\ UNCHANGED <<requestID, command, stage, numberOfTimeouts, semaphore, votingResult,
                     yesVotes, threads>>
  BY CursorFacts DEF ThreadIsReady, Handshake, roundVars, feedbackVars, databaseVars
<1>2. \A d \in Databases : Reachable(d)' <=> Reachable(d)
  BY <1>1 DEF Reachable
<1>3. CASE /\ command = "read" /\ readDeadline' = "future" /\ pc' = "timedwait"
           /\ cursor' = cursor
  <2>1. ASSUME NEW t \in threads PROVE Reachable(t.ip)' /\ PlaceInv(t)'
    BY <1>1, <1>2, <1>3, <2>1, ThreadFacts DEF PlaceInv
  <2>2. DeadlineInv' /\ StageInv' /\ UnanimousVote'
    BY <1>1, <1>3 DEF PromptInv, DeadlineInv, StageInv, UnanimousVote
  <2>3. ASSUME NEW d \in Databases PROVE VoteInv(d)'
    BY <1>1, <1>3 DEF PromptInv, StageInv, VoteInv
  <2> QED BY <1>1, <2>1, <2>2, <2>3, ControllerMoves
<1>4. CASE command # "read" /\ cursor' \in NextReachable(cursor) /\ pc' = "execute"
  <2>1. cursor' \in 1..(NumDatabases + 1) /\ cursor' > cursor
    BY <1>1, <1>4, LoopPasses
  <2>2. ASSUME NEW t \in threads PROVE Reachable(t.ip)' /\ PlaceInv(t)'
    BY <1>1, <1>2, <1>4, <2>1, <2>2, ThreadFacts, Numbers DEF PlaceInv
  <2>3. DeadlineInv' /\ StageInv' /\ UnanimousVote'
    BY <1>1, <1>2, <1>4 DEF PromptInv, DeadlineInv, StageInv, UnanimousVote
  <2>4. ASSUME NEW d \in Databases PROVE VoteInv(d)'
    <3>1. Reachable(d) /\ Drained(d)' => Drained(d)
      <4>1. Reachable(d) /\ d < cursor' => d = cursor \/ d < cursor
        BY <1>1, <1>4, LoopPasses, Numbers
      <4> QED BY <1>1, <1>4, <4>1 DEF Drained
    <3>2. VoteInv(d)
      BY DEF PromptInv
    <3> QED BY <1>1, <1>2, <1>4, <3>1, <3>2 DEF VoteInv
  <2> QED BY <1>1, <2>2, <2>3, <2>4, ControllerMoves
<1> QED BY <1>3, <1>4 DEF ThreadIsReady

LEMMA AllStartedPrompt ==
  ASSUME IInv, PromptInv, AllStarted
  PROVE  PromptInv'
<1>1. /\ pc = "execute" /\ pc' = "deadline" /\ command # "read" /\ cursor = NumDatabases + 1
      /\ cursor' \in NextReachable(0)
      /\ UNCHANGED <<requestID, command, stage, numberOfTimeouts, semaphore, votingResult,
                     yesVotes, threads>>
  BY DEF AllStarted, AtEnd, roundVars, feedbackVars, databaseVars
<1>2. \A d \in Databases : Reachable(d)' <=> Reachable(d)
  BY <1>1 DEF Reachable
<1>3. \A d \in Databases : Reachable(d) => d >= cursor' /\ ~(d < cursor')
  BY <1>1, LoopPasses, Numbers
<1>4. ASSUME NEW t \in threads PROVE Reachable(t.ip)' /\ PlaceInv(t)'
  BY <1>1, <1>2, <1>3, ThreadFacts DEF PlaceInv
<1>5. DeadlineInv' /\ StageInv' /\ UnanimousVote'
  BY <1>1, <1>2 DEF PromptInv, DeadlineInv, StageInv, UnanimousVote
<1>6. ASSUME NEW d \in Databases PROVE VoteInv(d)'
  <2>1. Drained(d) /\ VoteInv(d)
    BY <1>1, Numbers DEF Drained, PromptInv
  <2> QED BY <1>1, <1>2, <1>3, <2>1 DEF VoteInv
<1> QED BY <1>1, <1>4, <1>5, <1>6, ControllerMoves

LEMMA SetDeadlinePrompt ==
  ASSUME IInv, PromptInv, SetDeadline
  PROVE  PromptInv'
<1> DEFINE k == <<cursor, requestID>>
           Early(t) == IF t.ip = cursor /\ t.req = requestID
                         THEN [t EXCEPT !.late = FALSE] ELSE t
<1>1. /\ pc = "deadline" /\ pc' = "timedwait" /\ command # "read"
      /\ threads' = {Early(t) : t \in threads}
      /\ timestamps' = [j \in DOMAIN timestamps \cup {k} |->
                          IF j = k THEN "future" ELSE timestamps[j]]
      /\ UNCHANGED <<requestID, command, stage, cursor, numberOfTimeouts, semaphore,
                     votingResult, yesVotes>>
  BY DEF SetDeadline, roundVars, databaseVars, PromptInv, StageInv
<1>2. ASSUME NEW t \in threads
      PROVE  /\ Early(t).ip = t.ip /\ Early(t).req = t.req /\ Early(t).op = t.op
             /\ Early(t).at = t.at /\ Early(t).count = t.count /\ Early(t).ret = t.ret
  BY DEF IInv, TypeOK, Thread
<1> HIDE DEF Early
<1>3. ASSUME NEW u \in threads' PROVE ThreadInv(u)'
  <2>1. PICK t \in threads : u = Early(t)
    BY <1>1
  <2>2. /\ u.ip = t.ip /\ u.req = t.req /\ u.op = t.op /\ u.at = t.at /\ u.count = t.count
        /\ u.ret = t.ret
    BY <1>2, <2>1
  <2>3. PlaceInv(u)'
    <3>1. t.ip = cursor \/ t.ip > cursor
      BY <1>1, ThreadFacts, CursorFacts DEF PlaceInv
    <3> QED BY <1>1, <2>2, <3>1 DEF PlaceInv
  <2>4. ThreadInv(t)
    BY DEF PromptInv
  <2> QED BY <1>1, <2>2, <2>3, <2>4 DEF ThreadInv, Reachable
<1>4. OneCallPerDatabase'
  <2> SUFFICES ASSUME NEW u \in threads', NEW v \in threads', u.ip = v.ip PROVE u = v
    BY DEF OneCallPerDatabase
  <2>1. PICK t \in threads : u = Early(t)
    BY <1>1
  <2>2. PICK w \in threads : v = Early(w)
    BY <1>1
  <2>3. t = w
    BY <1>2, <2>1, <2>2 DEF PromptInv, OneCallPerDatabase
  <2> QED BY <2>1, <2>2, <2>3
<1>5. DeadlineInv'
  <2>1. k \in DOMAIN timestamps' /\ timestamps'[k] = "future"
    BY <1>1
  <2> QED BY <1>1, <2>1 DEF DeadlineInv
<1>6. StageInv' /\ UnanimousVote'
  BY <1>1 DEF PromptInv, StageInv, UnanimousVote, Reachable
<1>7. ASSUME NEW d \in Databases PROVE VoteInv(d)'
  BY <1>1 DEF PromptInv, VoteInv, Drained, Reachable
<1> QED BY <1>3, <1>4, <1>5, <1>6, <1>7 DEF PromptInv

LEMMA GetAnswerPrompt ==
  ASSUME IInv, Handshake, PromptInv, GetAnswer
  PROVE  PromptInv'
<1>1. /\ pc = "timedwait" /\ semaphore[cursor] > 0 /\ cursor \in Databases
      /\ cursor \in 0..NumDatabases /\ Reachable(cursor) /\ cursor' \in NextReachable(cursor)
      /\ UNCHANGED <<requestID, command, stage, semaphore, votingResult, yesVotes, threads>>
  BY CursorFacts DEF GetAnswer, roundVars, feedbackVars, databaseVars
<1>2. NoThreadAt(cursor)
  <2>1. ASSUME NEW t \in threads PROVE semaphore[t.ip] = 0
    BY <1>1, <2>1, NobodyStarts, ThreadFacts DEF ThreadInv
  <2> QED BY <1>1, <2>1 DEF NoThreadAt
<1>3. CASE command = "read" /\ pc' = "execute" /\ UNCHANGED numberOfTimeouts
  <2>1. threads' = {} /\ stage = "commit"
    BY <1>1, <1>2, <1>3, ThreadFacts DEF NoThreadAt, PlaceInv, PromptInv, StageInv
  <2>2. StageInv' /\ UnanimousVote'
    BY <1>1, <1>3, <2>1 DEF StageInv, UnanimousVote
  <2>3. ASSUME NEW d \in Databases PROVE VoteInv(d)'
    BY <1>1, <1>3, <2>1 DEF VoteInv
  <2> QED BY <1>3, <2>1, <2>2, <2>3, Quiet
<1>4. CASE /\ command # "read" /\ pc' = "deadline"
           /\ numberOfTimeouts' = [numberOfTimeouts EXCEPT ![cursor] = 0]
  <2>1. \A d \in Databases : (Reachable(d)' => Reachable(d)) /\ (Reachable(d) => Reachable(d)')
    <3>1. numberOfTimeouts \in [Databases -> 0..(MaxTimeouts + 1)] /\ MaxTimeouts \in Nat
      BY CoordinatorAssumption DEF IInv, TypeOK, SharedType
    <3> QED BY <1>1, <1>4, <3>1 DEF Reachable
  <2>2. ASSUME NEW t \in threads PROVE Reachable(t.ip)' /\ PlaceInv(t)'
    <3>1. t.ip > cursor /\ Reachable(t.ip) /\ t.ip \in Databases
      BY <1>1, <1>2, ThreadFacts DEF NoThreadAt, PlaceInv
    <3>2. t.ip >= cursor'
      BY <1>1, <3>1, LoopPasses
    <3> QED BY <1>4, <2>1, <3>1, <3>2 DEF PlaceInv
  <2>3. DeadlineInv' /\ StageInv' /\ UnanimousVote'
    BY <1>1, <1>4, <2>1 DEF PromptInv, DeadlineInv, StageInv, UnanimousVote
  <2>4. ASSUME NEW d \in Databases PROVE VoteInv(d)'
    <3>1. VoteInv(d) /\ Drained(d)
      BY <1>1 DEF PromptInv, Drained
    <3>2. ASSUME Reachable(d), stage = "vote", d < cursor' PROVE votingResult[d] # 1
      <4>1. d = cursor \/ d < cursor
        BY <1>1, <3>2, LoopPasses, Numbers
      <4> QED BY <1>1, <3>1, <3>2, <4>1 DEF VoteInv
    <3> QED BY <1>1, <1>4, <2>1, <3>1, <3>2 DEF VoteInv
  <2> QED BY <1>1, <2>2, <2>3, <2>4, ControllerMoves
<1> QED BY <1>3, <1>4 DEF GetAnswer

LEMMA TimeOutPrompt ==
  ASSUME IInv, PromptInv, TimeOut
  PROVE  PromptInv'
<1>1. /\ pc = "timedwait" /\ pc' = "timedout" /\ DeadlineMissed
      /\ UNCHANGED <<requestID, command, stage, cursor, numberOfTimeouts, semaphore,
                     votingResult, yesVotes, threads>>
  BY DEF TimeOut, roundVars, feedbackVars, databaseVars
<1>2. NoThreadAt(cursor)
  BY <1>1 DEF DeadlineMissed, PromptInv, DeadlineInv
<1>3. ASSUME NEW t \in threads PROVE Reachable(t.ip)' /\ PlaceInv(t)'
  BY <1>1, <1>2, ThreadFacts DEF NoThreadAt, PlaceInv, Reachable
<1>4. DeadlineInv' /\ StageInv' /\ UnanimousVote'
  BY <1>1 DEF PromptInv, DeadlineInv, StageInv, UnanimousVote, Reachable
<1>5. ASSUME NEW d \in Databases PROVE VoteInv(d)'
  BY <1>1 DEF PromptInv, VoteInv, Drained, Reachable
<1> QED BY <1>1, <1>3, <1>4, <1>5, ControllerMoves

LEMMA RecordTimeoutPrompt ==
  ASSUME IInv, PromptInv, RecordTimeout
  PROVE  PromptInv'
<1>1. /\ pc = "timedout" /\ cursor \in Databases /\ cursor \in 0..NumDatabases
      /\ Reachable(cursor) /\ cursor' \in NextReachable(cursor)
      /\ numberOfTimeouts' = [numberOfTimeouts EXCEPT ![cursor] = @ + 1]
      /\ UNCHANGED <<requestID, command, stage, yesVotes, threads>>
  BY CursorFacts DEF RecordTimeout, roundVars, databaseVars
<1>2. \A d \in Databases : (Reachable(d)' => Reachable(d))
                           /\ (d # cursor => (Reachable(d) => Reachable(d)'))
  <2>1. numberOfTimeouts \in [Databases -> 0..(MaxTimeouts + 1)] /\ MaxTimeouts \in Nat
    BY CoordinatorAssumption DEF IInv, TypeOK, SharedType
  <2> QED BY <1>1, <2>1 DEF Reachable
<1>3. CASE command = "read" /\ pc' = "execute" /\ UNCHANGED <<votingResult, semaphore>>
  <2>1. threads' = {} /\ stage = "commit"
    BY <1>1, <1>3, ThreadFacts DEF PlaceInv, PromptInv, StageInv
  <2>2. StageInv' /\ UnanimousVote'
    BY <1>1, <1>3, <2>1 DEF StageInv, UnanimousVote
  <2>3. ASSUME NEW d \in Databases PROVE VoteInv(d)'
    BY <1>1, <1>3, <2>1 DEF VoteInv
  <2> QED BY <1>3, <2>1, <2>2, <2>3, Quiet
<1>4. CASE /\ command # "read" /\ pc' = "deadline"
           /\ votingResult' = [votingResult EXCEPT ![cursor] = -1]
           /\ semaphore' = [semaphore EXCEPT ![cursor] = @ + 1]
  <2>0. votingResult \in [Databases -> Results] /\ semaphore \in [Databases -> Nat]
    BY DEF IInv, TypeOK, SharedType
  <2>1. ASSUME NEW t \in threads
        PROVE  Reachable(t.ip)' /\ PlaceInv(t)' /\ semaphore'[t.ip] = semaphore[t.ip]
    <3>1. t.ip > cursor /\ t.ip # cursor /\ Reachable(t.ip) /\ t.ip \in Databases
      BY <1>1, ThreadFacts, Numbers DEF PlaceInv
    <3>2. t.ip >= cursor'
      BY <1>1, <3>1, LoopPasses
    <3> QED BY <1>2, <1>4, <2>0, <3>1, <3>2 DEF PlaceInv
  <2>2. DeadlineInv' /\ StageInv' /\ UnanimousVote'
    BY <1>1, <1>2, <1>4 DEF PromptInv, DeadlineInv, StageInv, UnanimousVote
  <2>3. ASSUME NEW d \in Databases PROVE VoteInv(d)'
    <3>1. VoteInv(d) /\ Drained(d)
      BY <1>1 DEF PromptInv, Drained
    <3>2. CASE d = cursor
      <4>1. votingResult'[d] = -1
        BY <1>1, <1>4, <2>0, <3>2
      <4> QED BY <1>4, <4>1 DEF VoteInv
    <3>3. CASE d # cursor
      <4>1. votingResult'[d] = votingResult[d] /\ semaphore'[d] = semaphore[d]
        BY <1>4, <2>0, <3>3
      <4>2. Reachable(d) /\ d < cursor' => d < cursor
        BY <1>1, <3>3, LoopPasses, Numbers
      <4> QED BY <1>1, <1>2, <1>4, <3>1, <4>1, <4>2 DEF VoteInv
    <3> QED BY <3>2, <3>3
  <2> QED BY <1>1, <2>1, <2>2, <2>3, ControllerMoves
<1> QED BY <1>3, <1>4 DEF RecordTimeout

LEMMA AllAnsweredPrompt ==
  ASSUME IInv, PromptInv, AllAnswered
  PROVE  PromptInv'
<1>1. /\ pc = "deadline" /\ AtEnd /\ cursor = NumDatabases + 1
      /\ cursor' \in NextReachable(0)
      /\ pc' = IF stage = "vote" THEN "evaluate" ELSE "report"
      /\ UNCHANGED <<requestID, command, stage, numberOfTimeouts, votingResult, yesVotes,
                     threads>>
  BY DEF AllAnswered, AtEnd, roundVars, feedbackVars, databaseVars
<1>2. threads' = {}
  BY <1>1, NoThreads
<1>3. StageInv' /\ UnanimousVote'
  BY <1>1 DEF PromptInv, StageInv, UnanimousVote
<1>4. ASSUME NEW d \in Databases PROVE VoteInv(d)'
  <2>1. Reachable(d) => ~(d < cursor')
    BY <1>1, LoopPasses, Numbers
  <2>2. VoteInv(d) /\ d < cursor /\ (Reachable(d)' => Reachable(d))
    BY <1>1, Numbers DEF PromptInv, Reachable
  <2>3. stage = "vote" /\ Reachable(d) => votingResult[d] # 1
    BY <1>1, <2>2 DEF VoteInv
  <2> QED BY <1>1, <2>1, <2>2, <2>3 DEF VoteInv, Drained
<1> QED BY <1>1, <1>2, <1>3, <1>4, Quiet

-----------------------------------------------------------------------------
(* The threads *)

\* A step of one thread, which ends or becomes u: the others are at other
\* databases, and notice nothing.
LEMMA ThreadMoves ==
  ASSUME IInv, PromptInv, NEW t \in threads, NEW u, u.ip = t.ip,
         threads' \in {threads \ {t}, (threads \ {t}) \cup {u}},
         u \in threads' => ThreadInv(u)',
         UNCHANGED <<pc, cursor, requestID, command, stage, numberOfTimeouts, readDeadline>>,
         \A d \in Databases : d # t.ip => semaphore'[d] = semaphore[d],
         yesVotes \subseteq yesVotes', DOMAIN timestamps \subseteq DOMAIN timestamps',
         \A k \in DOMAIN timestamps : timestamps'[k] = timestamps[k],
         \A d \in Databases : VoteInv(d)'
  PROVE  PromptInv'
<1>1. ASSUME NEW v \in threads, v # t PROVE ThreadInv(v)'
  <2>1. v.ip # t.ip /\ v.ip \in Databases /\ ThreadInv(v)
    BY <1>1, ThreadFacts DEF PromptInv, OneCallPerDatabase
  <2>2. semaphore'[v.ip] = semaphore[v.ip]
    BY <2>1
  <2>3. PlaceInv(v)' /\ Reachable(v.ip)'
    BY <2>1 DEF ThreadInv, PlaceInv, Reachable
  <2> QED BY <2>1, <2>2, <2>3 DEF ThreadInv
<1>2. ASSUME NEW v \in threads' PROVE ThreadInv(v)'
  <2>1. v = u \/ (v \in threads /\ v # t)
    OBVIOUS
  <2> QED BY <1>1, <2>1
<1>3. OneCallPerDatabase'
  <2>1. ASSUME NEW v \in threads, v # t PROVE v.ip # t.ip
    BY <2>1 DEF PromptInv, OneCallPerDatabase
  <2> QED BY <2>1 DEF PromptInv, OneCallPerDatabase
<1>4. DeadlineInv'
  <2>1. NoThreadAt(cursor) => NoThreadAt(cursor)'
    BY DEF NoThreadAt
  <2>2. DeadlineInv
    BY DEF PromptInv
  <2> QED BY <2>1, <2>2 DEF DeadlineInv
<1>5. StageInv'
  BY DEF PromptInv, StageInv
<1>6. UnanimousVote'
  BY DEF PromptInv, UnanimousVote, Reachable
<1> QED BY <1>2, <1>3, <1>4, <1>5, <1>6 DEF PromptInv

\* No vote is given, and no thread has taken the semaphore of its database down.
LEMMA VoteKept ==
  ASSUME PromptInv, NEW d \in Databases,
         UNCHANGED <<pc, cursor, requestID, stage, numberOfTimeouts, semaphore, votingResult>>,
         yesVotes \subseteq yesVotes', Starting' = {} => Starting = {}
  PROVE  VoteInv(d)'
<1>1. Drained(d)' => Drained(d)
  BY DEF Drained
<1>2. VoteInv(d) /\ (Reachable(d)' <=> Reachable(d))
  BY DEF PromptInv, Reachable
<1> QED BY <1>1, <1>2 DEF VoteInv

LEMMA InsertAllExtends ==
  ASSUME NEW f, NEW g
  PROVE  /\ DOMAIN f \subseteq DOMAIN InsertAll(f, g)
         /\ \A k \in DOMAIN f : InsertAll(f, g)[k] = f[k]
BY DEF InsertAll

LEMMA PreparePrompt ==
  ASSUME IInv, Handshake, PromptInv, NEW t \in threads, Prepare(t)
  PROVE  PromptInv'
<1>0. PICK u : u = [t EXCEPT !.at = "drain", !.count = semaphore[t.ip]]
  OBVIOUS
<1>1. /\ u.ip = t.ip /\ u.req = t.req /\ u.op = t.op /\ u.at = "drain"
      /\ u.count = semaphore[t.ip]
  BY <1>0 DEF IInv, TypeOK, Thread
<1>2. /\ threads' = (threads \ {t}) \cup {u}
      /\ UNCHANGED <<pc, cursor, requestID, command, stage, numberOfTimeouts, readDeadline,
                     semaphore, votingResult, yesVotes>>
      /\ timestamps' = InsertAll(timestamps, [k \in {<<t.ip, t.req>>} |-> "zero"])
  BY <1>0 DEF Prepare, Replace, roundVars, databaseVars
<1>3. ThreadInv(u)'
  BY <1>1, <1>2, ThreadFacts DEF ThreadInv, PlaceInv, Reachable
<1>4. u \in Starting'
  BY <1>1, <1>2 DEF Starting
<1>5. \A d \in Databases : VoteInv(d)'
  BY <1>2, <1>4, VoteKept
<1> QED BY <1>1, <1>2, <1>3, <1>5, ThreadMoves, InsertAllExtends

LEMMA DrainPrompt ==
  ASSUME IInv, Handshake, PromptInv, NEW t \in threads, Drain(t)
  PROVE  PromptInv'
<1> DEFINE u == [t EXCEPT !.at = "call", !.count = 0]
<1>1. u.ip = t.ip /\ u.req = t.req /\ u.op = t.op /\ u.at = "call"
  BY DEF IInv, TypeOK, Thread
<1>2. /\ threads' = (threads \ {t}) \cup {u} /\ t.at = "drain"
      /\ UNCHANGED <<pc, cursor, requestID, command, stage, numberOfTimeouts, readDeadline,
                     votingResult, yesVotes, timestamps>>
      /\ semaphore' = [semaphore EXCEPT ![t.ip] = TryWaits(@, t.count)]
  BY DEF Drain, Replace, roundVars, feedbackVars, databaseVars
<1> HIDE DEF u
<1>3. /\ pc = "ready" /\ t.ip = cursor /\ t.ip \in Databases /\ t.count = semaphore[t.ip]
      /\ semaphore \in [Databases -> Nat]
  BY <1>2, ThreadFacts DEF Handshake, Starting, ThreadInv, IInv, TypeOK, SharedType
<1>4. semaphore'[t.ip] = 0 /\ \A d \in Databases : d # t.ip => semaphore'[d] = semaphore[d]
  BY <1>2, <1>3 DEF TryWaits
<1>5. ThreadInv(u)'
  BY <1>1, <1>2, <1>4, ThreadFacts DEF ThreadInv, PlaceInv, Reachable
<1>6. ASSUME NEW d \in Databases PROVE VoteInv(d)'
  <2>1. VoteInv(d)
    BY DEF PromptInv
  <2>2. CASE d = t.ip
    BY <1>2, <1>3, <1>4, <2>1, <2>2 DEF VoteInv
  <2>3. CASE d # t.ip
    <3>1. Drained(d)' => Drained(d)
      BY <1>2, <1>3, <2>3 DEF Drained
    <3>2. semaphore'[d] = semaphore[d] /\ (Reachable(d)' <=> Reachable(d))
      BY <1>2, <1>4, <2>3 DEF Reachable
    <3> QED BY <1>2, <1>3, <2>1, <3>1, <3>2 DEF VoteInv
  <2> QED BY <2>2, <2>3
<1> QED BY <1>1, <1>2, <1>4, <1>5, <1>6, ThreadMoves

\* A database votes 0 or -1.
LEMMA Votes ==
  ASSUME NEW op \in VoteOps, NEW m, NEW data
  PROVE  HandleCall(op, m, data).ret \in {-1, 0}
BY DEF VoteOps, HandleCall, isCreatePossible, isUpdatePossible, isDeletePossible

LEMMA ExecutePrompt ==
  ASSUME IInv, Handshake, PromptInv, NEW t \in threads, Execute(t)
  PROVE  PromptInv'
<1>0. PICK ret : ret = HandleCall(t.op, store[t.ip], t.data).ret
  OBVIOUS
<1> DEFINE u == [t EXCEPT !.at = "executed", !.ret = ret]
<1>1. u.ip = t.ip /\ u.req = t.req /\ u.op = t.op /\ u.at = "executed" /\ u.ret = ret
  BY DEF IInv, TypeOK, Thread
<1>2. /\ t.at \in {"call", "abandoned"}
      /\ \/ /\ threads' = (threads \ {t}) \cup {u}
            /\ yesVotes' = IF t.op \in VoteOps /\ ret = 0
                             THEN yesVotes \cup {<<t.ip, t.req>>} ELSE yesVotes
         \/ threads' = threads \ {t} /\ UNCHANGED yesVotes
      /\ UNCHANGED <<pc, cursor, requestID, command, stage, numberOfTimeouts, readDeadline,
                     semaphore, votingResult, timestamps>>
  BY <1>0 DEF Execute, Replace, roundVars, feedbackVars
<1>3. t.op \in VoteOps => ret \in {-1, 0}
  BY <1>0, Votes
<1> HIDE DEF u
<1>4. yesVotes \subseteq yesVotes'
  BY <1>2
<1>5. Starting' = {} => Starting = {}
  BY <1>2 DEF Starting
<1>6. \A d \in Databases : VoteInv(d)'
  BY <1>2, <1>4, <1>5, VoteKept
<1>7. CASE u \in threads' /\ u \notin threads
  <2>1. /\ threads' = (threads \ {t}) \cup {u}
        /\ t.op \in VoteOps /\ ret = 0 => <<t.ip, t.req>> \in yesVotes'
    BY <1>2, <1>7
  <2>2. ThreadInv(u)'
    BY <1>1, <1>2, <1>3, <2>1, ThreadFacts DEF ThreadInv, PlaceInv, Reachable
  <2> QED BY <1>1, <1>2, <1>4, <1>6, <2>1, <2>2, ThreadMoves
<1>8. CASE u \in threads \/ u \notin threads'
  <2>1. threads' = threads \ {t}
    <3>1. u # t
      BY <1>1, <1>2
    <3>2. u \notin threads
      BY <1>1, <1>8, <3>1 DEF PromptInv, OneCallPerDatabase
    <3> QED BY <1>2, <1>8, <3>2
  <2> QED BY <1>2, <1>4, <1>6, <2>1, ThreadMoves
<1> QED BY <1>7, <1>8

LEMMA ReturnPrompt ==
  ASSUME IInv, Handshake, PromptInv, NEW t \in threads, Return(t)
  PROVE  PromptInv'
<1>0. PICK u : u = [t EXCEPT !.at = "answered",
                             !.late = /\ t.op \in VoteOps
                                      /\ <<t.ip, t.req>> \in DOMAIN timestamps
                                      /\ timestamps[<<t.ip, t.req>>] = "past"]
  OBVIOUS
<1>1. u.ip = t.ip /\ u.req = t.req /\ u.op = t.op /\ u.at = "answered" /\ u.ret = t.ret
  BY <1>0 DEF IInv, TypeOK, Thread
<1>2. /\ threads' = (threads \ {t}) \cup {u} /\ t.at = "executed"
      /\ UNCHANGED <<pc, cursor, requestID, command, stage, numberOfTimeouts, readDeadline,
                     semaphore, votingResult, timestamps, yesVotes>>
  BY <1>0 DEF Return, Replace, roundVars, databaseVars
<1>3. ThreadInv(u)'
  BY <1>1, <1>2, ThreadFacts DEF ThreadInv, PlaceInv, Reachable
<1>4. Starting' = {} => Starting = {}
  BY <1>2 DEF Starting
<1>5. \A d \in Databases : VoteInv(d)'
  BY <1>2, <1>4, VoteKept
<1> QED BY <1>1, <1>2, <1>3, <1>5, ThreadMoves

LEMMA RecordVotePrompt ==
  ASSUME IInv, Handshake, PromptInv, NEW t \in threads, RecordVote(t)
  PROVE  PromptInv'
<1>1. /\ threads' = threads \ {t} /\ t.at = "answered" /\ t.op \in VoteOps
      /\ timestamps' = InsertAll(timestamps, [k \in {<<t.ip, t.req>>} |-> "zero"])
      /\ \/ /\ votingResult' = [votingResult EXCEPT ![t.ip] = t.ret]
            /\ semaphore' = [semaphore EXCEPT ![t.ip] = @ + 1]
         \/ UNCHANGED <<votingResult, semaphore>>
      /\ UNCHANGED <<pc, cursor, requestID, command, stage, numberOfTimeouts, readDeadline,
                     yesVotes>>
  BY DEF RecordVote, roundVars, databaseVars
<1>2. votingResult \in [Databases -> Results] /\ semaphore \in [Databases -> Nat]
  BY DEF IInv, TypeOK, SharedType
<1>3. \A d \in Databases : d # t.ip => /\ semaphore'[d] = semaphore[d]
                                        /\ votingResult'[d] = votingResult[d]
  BY <1>1, <1>2
<1>4. ASSUME NEW d \in Databases PROVE VoteInv(d)'
  <2>1. VoteInv(d)
    BY DEF PromptInv
  <2>2. Drained(d)' => Drained(d)
    <3>1. Starting' = {} => Starting = {}
      BY <1>1 DEF Starting
    <3> QED BY <1>1, <3>1 DEF Drained
  <2>3. Reachable(d)' <=> Reachable(d)
    BY <1>1 DEF Reachable
  <2>4. CASE semaphore'[d] = semaphore[d] /\ votingResult'[d] = votingResult[d]
    BY <1>1, <2>1, <2>2, <2>3, <2>4 DEF VoteInv
  <2>5. CASE d = t.ip /\ votingResult'[d] = t.ret
    <3>1. t.ret \in {-1, 0} /\ (t.ret = 0 => <<d, requestID>> \in yesVotes)
      BY <1>1, <2>5, ThreadFacts DEF ThreadInv
    <3>2. pc \in {"execute", "ready", "deadline", "timedwait", "timedout"}
      BY ThreadFacts DEF PlaceInv
    <3> QED BY <1>1, <2>5, <3>1, <3>2 DEF VoteInv
  <2> QED BY <1>1, <1>2, <1>3, <2>4, <2>5
<1> QED BY <1>1, <1>3, <1>4, ThreadMoves, InsertAllExtends

LEMMA SignalPrompt ==
  ASSUME IInv, Handshake, PromptInv, NEW t \in threads, Signal(t)
  PROVE  PromptInv'
<1>1. /\ threads' = threads \ {t} /\ t.op \notin VoteOps
      /\ semaphore' = [semaphore EXCEPT ![t.ip] = @ + 1]
      /\ UNCHANGED <<pc, cursor, requestID, command, stage, numberOfTimeouts, readDeadline,
                     votingResult, timestamps, yesVotes>>
  BY DEF Signal, roundVars, feedbackVars, databaseVars
<1>2. stage # "vote" /\ pc \in {"execute", "ready", "deadline", "timedwait", "timedout"}
  BY <1>1, ThreadFacts DEF ThreadInv, PlaceInv
<1>3. \A d \in Databases : d # t.ip => semaphore'[d] = semaphore[d]
  BY <1>1 DEF IInv, TypeOK, SharedType
<1>4. \A d \in Databases : VoteInv(d)'
  BY <1>1, <1>2 DEF VoteInv
<1> QED BY <1>1, <1>3, <1>4, ThreadMoves

LEMMA ConnectionFailsPrompt ==
  ASSUME IInv, Handshake, PromptInv, NEW t \in threads, ConnectionFails(t)
  PROVE  PromptInv'
<1> DEFINE u == [t EXCEPT !.at = "abandoned"]
<1>1. u.ip = t.ip /\ u.req = t.req /\ u.op = t.op /\ u.at = "abandoned"
  BY DEF IInv, TypeOK, Thread
<1>2. /\ threads' \in {threads \ {t}, (threads \ {t}) \cup {u}} /\ t.at \in {"call", "executed"}
      /\ UNCHANGED <<pc, cursor, requestID, command, stage, numberOfTimeouts, readDeadline,
                     semaphore, votingResult, timestamps, yesVotes>>
  BY DEF ConnectionFails, Replace, roundVars, databaseVars
<1> HIDE DEF u
<1>3. ThreadInv(u)'
  BY <1>1, <1>2, ThreadFacts DEF ThreadInv, PlaceInv, Reachable
<1>4. Starting' = {} => Starting = {}
  BY <1>2 DEF Starting
<1>5. \A d \in Databases : VoteInv(d)'
  BY <1>2, <1>4, VoteKept
<1> QED BY <1>1, <1>2, <1>3, <1>5, ThreadMoves

-----------------------------------------------------------------------------
(* Time, and the end of a database *)

LEMMA DeadlinePassesPrompt ==
  ASSUME IInv, PromptInv, NEW k \in DOMAIN timestamps, DeadlinePasses(k), NoThreadAt(k[1])
  PROVE  PromptInv'
<1>1. /\ timestamps' = [timestamps EXCEPT ![k] = "past"]
      /\ UNCHANGED <<pc, cursor, requestID, command, stage, numberOfTimeouts, readDeadline,
                     semaphore, votingResult, yesVotes, threads>>
  BY DEF DeadlinePasses, roundVars, databaseVars
<1>2. DeadlineInv'
  <2> DEFINE j == <<cursor, requestID>>
  <2>1. SUFFICES ASSUME pc = "timedwait" PROVE DeadlineInv'
    BY <1>1 DEF DeadlineInv
  <2>2. CASE command = "read"
    BY <1>1, <2>1, <2>2 DEF PromptInv, DeadlineInv, NoThreadAt
  <2>3. CASE command # "read"
    <3>1. j \in DOMAIN timestamps /\ (timestamps[j] = "past" => NoThreadAt(cursor))
      BY <2>1, <2>3 DEF PromptInv, DeadlineInv
    <3>2. DOMAIN timestamps' = DOMAIN timestamps /\ (j # k => timestamps'[j] = timestamps[j])
      BY <1>1, <3>1 DEF IInv, TypeOK, SharedType
    <3>3. j = k => NoThreadAt(cursor)
      OBVIOUS
    <3>4. timestamps'[j] = "past" => NoThreadAt(cursor)
      BY <3>1, <3>2, <3>3
    <3>5. NoThreadAt(cursor)' <=> NoThreadAt(cursor)
      BY <1>1 DEF NoThreadAt
    <3> QED BY <1>1, <2>3, <3>1, <3>2, <3>4, <3>5 DEF DeadlineInv
  <2> QED BY <2>2, <2>3
<1>3. ASSUME NEW t \in threads PROVE Reachable(t.ip)' /\ PlaceInv(t)'
  BY <1>1, ThreadFacts DEF PlaceInv, Reachable
<1>4. StageInv' /\ UnanimousVote'
  BY <1>1 DEF PromptInv, StageInv, UnanimousVote, Reachable
<1>5. Starting' = Starting
  BY <1>1 DEF Starting
<1>6. \A d \in Databases : VoteInv(d)'
  BY <1>1, <1>5, VoteKept
<1> QED BY <1>1, <1>2, <1>3, <1>4, <1>6, ControllerMoves

LEMMA ReadDeadlinePassesPrompt ==
  ASSUME IInv, PromptInv, ReadDeadlinePasses, NoThreadAt(cursor)
  PROVE  PromptInv'
<1>1. UNCHANGED <<pc, cursor, requestID, command, stage, numberOfTimeouts, semaphore,
                  votingResult, yesVotes, timestamps, threads>>
  BY DEF ReadDeadlinePasses, roundVars, feedbackVars, databaseVars
<1>2. NoThreadAt(cursor)'
  BY <1>1 DEF NoThreadAt
<1>3. DeadlineInv'
  BY <1>1, <1>2 DEF PromptInv, DeadlineInv
<1>4. ASSUME NEW t \in threads PROVE Reachable(t.ip)' /\ PlaceInv(t)'
  BY <1>1, ThreadFacts DEF PlaceInv, Reachable
<1>5. StageInv' /\ UnanimousVote'
  BY <1>1 DEF PromptInv, StageInv, UnanimousVote, Reachable
<1>6. Starting' = Starting
  BY <1>1 DEF Starting
<1>7. \A d \in Databases : VoteInv(d)'
  BY <1>1, <1>6, VoteKept
<1> QED BY <1>1, <1>3, <1>4, <1>5, <1>7, ControllerMoves

LEMMA CrashPrompt ==
  ASSUME IInv, PromptInv, NEW c \in Databases, Crash(c)
  PROVE  PromptInv'
<1>1. /\ threads' = {t \in threads : t.ip # c \/ t.at # "abandoned"}
      /\ UNCHANGED <<pc, cursor, requestID, command, stage, numberOfTimeouts, readDeadline,
                     semaphore, votingResult, yesVotes, timestamps>>
  BY DEF Crash, roundVars, feedbackVars
<1>2. ASSUME NEW t \in threads' PROVE ThreadInv(t)'
  <2>1. t \in threads
    BY <1>1
  <2> QED BY <1>1, <2>1, ThreadFacts DEF ThreadInv, PlaceInv, Reachable
<1>3. OneCallPerDatabase' /\ StageInv' /\ UnanimousVote'
  BY <1>1 DEF PromptInv, OneCallPerDatabase, StageInv, UnanimousVote, Reachable
<1>4. DeadlineInv'
  <2>1. NoThreadAt(cursor) => NoThreadAt(cursor)'
    BY <1>1 DEF NoThreadAt
  <2>2. DeadlineInv
    BY DEF PromptInv
  <2> QED BY <1>1, <2>1, <2>2 DEF DeadlineInv
<1>5. Starting' = Starting
  BY <1>1 DEF Starting
<1>6. \A d \in Databases : VoteInv(d)'
  BY <1>1, <1>5, VoteKept
<1> QED BY <1>2, <1>3, <1>4, <1>6 DEF PromptInv

-----------------------------------------------------------------------------
(* The invariant *)

LEMMA InitPrompt == Init => PromptInv
<1> SUFFICES ASSUME Init PROVE PromptInv
  OBVIOUS
<1>1. threads = {} /\ pc = "top" /\ command = "create" /\ stage = "vote"
  BY DEF Init
<1>2. \A d \in Databases : VoteInv(d)
  BY DEF Init, VoteInv, Drained
<1> QED
  BY <1>1, <1>2 DEF PromptInv, OneCallPerDatabase, DeadlineInv, StageInv, UnanimousVote

LEMMA StepPrompt == IInv /\ Handshake /\ PromptInv /\ [Next /\ Prompt]_vars => PromptInv'
<1> SUFFICES ASSUME IInv, Handshake, PromptInv, [Next /\ Prompt]_vars PROVE PromptInv'
  OBVIOUS
<1>1. CASE UNCHANGED vars
  BY <1>1, Unaffected DEF vars, roundVars, feedbackVars, databaseVars
<1>2. ASSUME NEW id \in Ids, NEW value \in Values, Post(id, value) PROVE PromptInv'
  BY <1>2, Unaffected DEF Post, roundVars, feedbackVars, databaseVars
<1>3. CASE Controller
  <2>1. CASE Stop \/ BeginIteration \/ AwaitData \/ CollectData
    BY <2>1, BetweenRequests, CollectDataPrompt
  <2>2. CASE StartThread \/ ThreadIsReady \/ AllStarted \/ SetDeadline
    BY <2>2, StartThreadPrompt, ThreadIsReadyPrompt, AllStartedPrompt, SetDeadlinePrompt
  <2>3. CASE GetAnswer \/ TimeOut \/ RecordTimeout \/ AllAnswered
    BY <2>3, GetAnswerPrompt, TimeOutPrompt, RecordTimeoutPrompt, AllAnsweredPrompt
  <2>4. CASE AcceptVote \/ Abort \/ ExitUnvoted \/ Commit \/ FinishCreate \/ FinishOther
    BY <2>4, Evaluation, RequestEnds
  <2> QED BY <1>3, <2>1, <2>2, <2>3, <2>4 DEF Controller
<1>4. ASSUME NEW t \in threads, ThreadStep(t) PROVE PromptInv'
  BY <1>4, PreparePrompt, DrainPrompt, ExecutePrompt, ReturnPrompt, RecordVotePrompt,
     SignalPrompt, ConnectionFailsPrompt DEF ThreadStep
<1>5. ASSUME NEW k \in DOMAIN timestamps, DeadlinePasses(k), Prompt PROVE PromptInv'
  <2>1. NoThreadAt(k[1])
    BY <1>5 DEF Prompt, NoThreadAt
  <2> QED BY <1>5, <2>1, DeadlinePassesPrompt
<1>6. CASE ReadDeadlinePasses /\ Prompt
  <2>1. NoThreadAt(cursor)
    BY <1>6 DEF Prompt, NoThreadAt
  <2> QED BY <1>6, <2>1, ReadDeadlinePassesPrompt
<1>7. ASSUME NEW d \in Databases, Crash(d) PROVE PromptInv'
  BY <1>7, CrashPrompt
<1> QED BY <1>1, <1>2, <1>3, <1>4, <1>5, <1>6, <1>7 DEF Next

THEOREM PromptInvariance == PromptSpec => [](IInv /\ Handshake /\ PromptInv)
<1>1. Init => IInv /\ Handshake /\ PromptInv
  <2>1. Init => Handshake
    BY DEF Init, Handshake, Starting
  <2> QED BY <2>1, InitIInv, InitPrompt
<1>2. IInv /\ Handshake /\ PromptInv /\ [Next /\ Prompt]_vars
        => (IInv /\ Handshake /\ PromptInv)'
  <2> SUFFICES ASSUME IInv, Handshake, PromptInv, [Next /\ Prompt]_vars
               PROVE  IInv' /\ Handshake' /\ PromptInv'
    OBVIOUS
  <2>1. [Next]_vars
    OBVIOUS
  <2> QED BY <2>1, StepIInv, StepHandshake, StepPrompt
<1> QED BY <1>1, <1>2, PTL DEF PromptSpec

\* A database whose calls are answered or fail before their deadline never works
\* on two of them: the controller waits for the first before it makes the second.
THEOREM OneCallAtATime == PromptSpec => []OneCallPerDatabase
<1>1. PromptInv => OneCallPerDatabase
  BY DEF PromptInv
<1> QED BY <1>1, PromptInvariance, PTL

\* Then every reachable database has voted, or its timeout is entered as a
\* negative vote, when evaluateVotingResult looks: exit(-1) is not reached.
THEOREM NobodyUnvoted == PromptSpec => []VotedWhenEvaluated
<1>1. PromptInv => VotedWhenEvaluated
  BY DEF PromptInv, VoteInv, VotedWhenEvaluated
<1> QED BY <1>1, PromptInvariance, PTL

\* Then an operation is executed only after each reachable database has agreed to
\* this very request, with an answer given in its voting round.
THEOREM VotesAreUnanimous == PromptSpec => []UnanimousVote
<1>1. PromptInv => UnanimousVote
  BY DEF PromptInv
<1> QED BY <1>1, PromptInvariance, PTL
=============================================================================
