----------------------- MODULE DatabaseServerProperties -----------------------
(***************************************************************************)
(* What a database, and the generated code in front of it, guarantee.      *)
(***************************************************************************)
EXTENDS DatabaseServer

(***************************************************************************)
(* Fairness.  The threads of both processes are scheduled, and a database  *)
(* or web server that has ended is noticed: its host closes the            *)
(* connections.  Nothing is assumed of the network otherwise, and nothing  *)
(* of threads that have met in the map.                                    *)
(***************************************************************************)
Fairness ==
  \A n \in Clients :
    /\ WF_vars(ServerThread(n))
    /\ WF_vars(Receive(n))
    /\ WF_vars((process # "running" \/ ~WebServerRuns) /\ Break(n))

FairSpec == Spec /\ Fairness

Sent == {input[2] : input \in Inputs}

\* Every variable has its type, and a server thread works for the call its client has
\* made, with the arguments it was given.
TypeOK ==
  /\ \A i \in DOMAIN collection : \E data \in Sent : i \in DOMAIN data /\ collection[i] = data[i]
  /\ numberOfCreateRequest \in -1..MaxVotes
  /\ process \in {"running", "ended", "crashed"}
  /\ \A n \in Clients :
       /\ client[n].at \in {"idle", "waiting", "failed", "uncaught"}
       /\ client[n].op \in Ops /\ client[n].data \in Sent \cup {EmptyMap}
       /\ thread[n].at \in {"none", "handle", "count", "delay", "sleep", "limit", "map"}
       /\ thread[n].at # "none" =>
            /\ thread[n].method = MethodFor[client[n].op]
            /\ thread[n].args = ArgumentsFor(client[n].op, client[n].data)

\* newInteractWithDatabase catches nothing but a TTransportException, and a
\* TApplicationException of recv_<method> ends the whole web server.  It comes of a
\* handler that has thrown, never of what a handler returns, whatever that is; and
\* what one has thrown, its client never takes for a result.
UncaughtWasThrown ==
  \A n \in Clients :
    /\ client[n].at = "uncaught" => n \in thrown
    /\ replies[n] # NoFrame =>
         Received(MethodFor[client[n].op], replies[n]).ends
           = IF n \in thrown THEN "exception" ELSE "result"

\* "ICH BEENDE MICH": the process ends at the fifth vote on a create at the
\* earliest, though votes lose each other's increments and a vote that has slept
\* compares a number that later votes have raised.
EndsAtTheLimit ==
  process = "ended" => votes > LastCreateRequest

\* A call ends, with a result or with an exception, unless threads have met in the map.
CallsEnd ==
  \A n \in Clients : client[n].at = "waiting" ~> client[n].at # "waiting" \/ ~intact

-----------------------------------------------------------------------------
\* A database implements the remote calls the two-phase commit relies on: each is
\* executed once, as a whole or up to where its handler throws, before it returns, or at
\* most once if it fails; until two threads, one of which writes, meet in the map.

Executed(n) == replies[n] # NoFrame

\* The result the caller looks at: of a data set that was read, its port.
ResultOf(n) ==
  LET received == Received(MethodFor[client[n].op], replies[n])
  IN  IF received.ends # "result" THEN Thrown
      ELSE CASE client[n].op = "read"    -> received.result[1]
             [] client[n].op = "readAll" -> 0
             [] OTHER                    -> received.result

\* The call of n is still to return, or to be executed.
Live(n) ==
  /\ client[n].op # "ping"
  /\ \/ client[n].at = "waiting"
     \/ client[n].at = "failed" /\ process = "running"

RemoteCallOf(n) ==
  [ip |-> 1, number |-> n, op |-> client[n].op, data |-> client[n].data,
   at  |-> CASE client[n].at = "failed" -> "abandoned"
             [] Executed(n)             -> "executed"
             [] OTHER                   -> "call",
   ret |-> IF Executed(n) THEN ResultOf(n) ELSE 0]

RemoteCalls == {RemoteCallOf(n) : n \in {m \in Clients : Live(m)}}

Remote == INSTANCE RemoteCall WITH
  Databases <- {1},
  store     <- [d \in {1} |-> collection],
  up        <- IF process = "running" THEN {1} ELSE {},
  calls     <- RemoteCalls,
  intact    <- intact

ImplementsRemoteCall == Remote!Spec
=============================================================================
