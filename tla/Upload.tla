-------------------------------- MODULE Upload --------------------------------
(***************************************************************************)
(* How data sets get from the gateway to the web server: the uploading     *)
(* thread sendRequestsToWebserver (gateway/Gateway.cpp), the connection,   *)
(* and the session that reads it (class session of                         *)
(* webserver/Webserver.cpp).                                               *)
(*                                                                         *)
(* A data set is its number in the gateway's queue.  TCP is a stream: the  *)
(* bytes of a request are three units, which may arrive together or not.   *)
(***************************************************************************)
EXTENDS Integers, Sequences

CONSTANTS
  MaxTries,    \* MAX_NUMBER_OF_RETRIES_TO_CONNECT_TO_WEBSERVER
  MaxReplies,  \* bound: data sets that come into the queue
  MaxFailures  \* bound: connections that break or are refused

ASSUME UploadAssumption == MaxTries \in Nat \ {0} /\ MaxReplies \in Nat /\ MaxFailures \in Nat

VARIABLES
  \* the gateway
  sensorUDPReplies,           \* the queue
  semNumberSensorUDPReplies,  \* its semaphore
  enqueued,                   \* how many data sets have come into it
  uploader,                   \* where the uploading thread is
  current,                    \* its copy of the first data set
  tries,                      \* i, then connectRetryCount
  \* the connection
  connected,
  toServer,                   \* units not yet read by the web server
  toGateway,                  \* units of replies not yet read by the gateway
  failures,                   \* how often the network has failed
  \* the web server
  webUp,
  session,                    \* what the session of the connection waits for
  receiveBuffer,              \* its data_
  requestBuffer,              \* shared by all sessions
  sensorMetadatas,            \* all the data sets it has taken
  \* history
  split                       \* a request has arrived in parts

queueVars == <<sensorUDPReplies, semNumberSensorUDPReplies, enqueued>>
uploadVars == <<uploader, current, tries>>
connectionVars == <<connected, toServer, toGateway>>
sessionVars == <<session, receiveBuffer>>
serverVars == <<webUp, requestBuffer, sensorMetadatas, split>>
vars == <<queueVars, uploadVars, connectionVars, failures, sessionVars, serverVars>>

\* The parts of a POST: its header, with the length of the content; the content
\* up to its last field; and this field, the sensor's timestamp.
Request(m) == <<[of |-> m, part |-> "header"], [of |-> m, part |-> "fields"],
                [of |-> m, part |-> "timestamp"]>>
RequestLength == 3
ContentLength == 2
Garbled(m) == -m  \* a data set with the fields of m, and a timestamp not its own

Init ==
  /\ sensorUDPReplies = <<>> /\ semNumberSensorUDPReplies = 0 /\ enqueued = 0
  /\ uploader = "connect" /\ current = 0 /\ tries = 0
  /\ connected = FALSE /\ toServer = <<>> /\ toGateway = 0 /\ failures = 0
  /\ webUp = TRUE /\ session = "none" /\ receiveBuffer = <<>>
  /\ requestBuffer = <<>> /\ sensorMetadatas = <<>>
  /\ split = FALSE

-----------------------------------------------------------------------------
\* handleReply puts a data set into the queue.
Enqueue ==
  /\ enqueued < MaxReplies
  /\ enqueued' = enqueued + 1
  /\ sensorUDPReplies' = Append(sensorUDPReplies, enqueued + 1)
  /\ semNumberSensorUDPReplies' = semNumberSensorUDPReplies + 1
  /\ UNCHANGED <<uploadVars, connectionVars, failures, sessionVars, serverVars>>

-----------------------------------------------------------------------------
\* The connection.

\* What the memory of a new session may hold, which nothing initialises: zeros,
\* or what an earlier session has read there.
OldMemory ==
  LET taken == {sensorMetadatas[i] : i \in DOMAIN sensorMetadatas}
  IN  {<<>>} \cup {Request(m) : m \in taken \cap (Nat \ {0})}

Open ==
  /\ webUp
  /\ connected' = TRUE /\ toServer' = <<>> /\ toGateway' = 0
  /\ session' = "reading" /\ receiveBuffer' \in OldMemory
  /\ UNCHANGED failures

WrongClose ==
  /\ connected' = FALSE /\ toServer' = <<>> /\ toGateway' = 0
  /\ receiveBuffer' = <<>> /\ UNCHANGED session

Close ==
  /\ connected' = FALSE /\ toServer' = <<>> /\ toGateway' = 0
  /\ session' = "none" /\ receiveBuffer' = <<>>

NetworkFails == failures < MaxFailures /\ failures' = failures + 1

\* A connection is refused: the web server is down, or the network fails.
Refused ==
  /\ NetworkFails \/ (~webUp /\ UNCHANGED failures)
  /\ UNCHANGED <<connectionVars, sessionVars>>

\* The connection breaks, and what is on its way in it is lost.
Break ==
  /\ connected
  /\ NetworkFails
  /\ Close
  /\ UNCHANGED <<queueVars, uploadVars, serverVars>>

-----------------------------------------------------------------------------
\* The uploading thread.

\* The loop before the first data set.  (The web server ends only in a session; one
\* that is not up yet is a failure of the network.)
Connect ==
  /\ uploader = "connect"
  /\ \/ /\ Open
        /\ uploader' = "wait" /\ UNCHANGED tries
     \/ /\ NetworkFails
        /\ tries' = tries + 1
        /\ uploader' = IF tries = MaxTries - 1 THEN "stopped" ELSE "connect"
        /\ UNCHANGED <<connectionVars, sessionVars>>
  /\ UNCHANGED <<queueVars, current, serverVars>>

\* (Definitions named "Wrong..." or "Erasing..." are not part of the model: each is a
\* plausible slip in the definition that follows it.)
WrongTakeFirst ==
  /\ uploader = "wait" /\ semNumberSensorUDPReplies > 0
  /\ current' = sensorUDPReplies[Len(sensorUDPReplies)]
  /\ semNumberSensorUDPReplies' = semNumberSensorUDPReplies - 1
  /\ tries' = 0 /\ uploader' = "send"
  /\ UNCHANGED <<sensorUDPReplies, enqueued, connectionVars, failures, sessionVars, serverVars>>

\* (Its data set erased when it is taken.)
ErasingTakeFirst ==
  /\ uploader = "wait" /\ semNumberSensorUDPReplies > 0
  /\ semNumberSensorUDPReplies' = semNumberSensorUDPReplies - 1
  /\ current' = Head(sensorUDPReplies) /\ sensorUDPReplies' = Tail(sensorUDPReplies)
  /\ tries' = 0 /\ uploader' = "send"
  /\ UNCHANGED <<enqueued, connectionVars, failures, sessionVars, serverVars>>

\* sem_wait, and a copy of the first data set, which stays in the queue.
TakeFirst ==
  /\ uploader = "wait" /\ semNumberSensorUDPReplies > 0
  /\ semNumberSensorUDPReplies' = semNumberSensorUDPReplies - 1
  /\ current' = Head(sensorUDPReplies)
  /\ tries' = 0 /\ uploader' = "send"
  /\ UNCHANGED <<sensorUDPReplies, enqueued, connectionVars, failures, sessionVars, serverVars>>

SendRequest ==
  /\ uploader = "send" /\ connected
  /\ toServer' = toServer \o Request(current)
  /\ uploader' = "read"
  /\ UNCHANGED <<queueVars, current, tries, connected, toGateway, failures,
                 sessionVars, serverVars>>

WrongReadReply ==
  /\ uploader = "read" /\ toGateway >= RequestLength
  /\ toGateway' = toGateway - RequestLength
  /\ sensorUDPReplies' = Tail(sensorUDPReplies)
  /\ semNumberSensorUDPReplies' = semNumberSensorUDPReplies + 1
  /\ uploader' = "wait"
  /\ UNCHANGED <<enqueued, current, tries, connected, toServer, failures,
                 sessionVars, serverVars>>

\* As many bytes are read as the request had; then status 200 is found, and the
\* first data set is erased.  (The loop that reads up to ten times, and gives up, and
\* the exceptions of the parser are for a reply that is cut.  What is read here is
\* never one: Exchange in UploadProofs.)
ReadReply ==
  /\ uploader = "read" /\ toGateway >= RequestLength
  /\ toGateway' = toGateway - RequestLength
  /\ sensorUDPReplies' = Tail(sensorUDPReplies)
  /\ uploader' = "wait"
  /\ UNCHANGED <<semNumberSensorUDPReplies, enqueued, current, tries, connected,
                 toServer, failures, sessionVars, serverVars>>

\* write or read throws.
ConnectionLost ==
  /\ uploader \in {"send", "read"} /\ ~connected
  /\ uploader' = "reconnect"
  /\ UNCHANGED <<queueVars, current, tries, connectionVars, failures, sessionVars, serverVars>>

\* What follows an exception: another try, or, after the last one, back to the
\* top of the loop, where no status 200 leaves the data set in the queue.
NextTry ==
  /\ tries' = tries + 1
  /\ uploader' = IF tries = MaxTries - 1 THEN "wait" ELSE "send"

WrongReconnect ==
  /\ uploader = "reconnect"
  /\ \/ Open /\ tries' = tries + 1 /\ uploader' = "wait"
     \/ Refused /\ tries < MaxTries - 1 /\ NextTry
     \/ Refused /\ tries = MaxTries - 1 /\ uploader' = "stopped" /\ UNCHANGED tries
  /\ UNCHANGED <<queueVars, current, serverVars>>

Reconnect ==
  /\ uploader = "reconnect"
  /\ \/ Open /\ NextTry
     \/ Refused /\ tries < MaxTries - 1 /\ NextTry
     \/ Refused /\ tries = MaxTries - 1 /\ uploader' = "stopped" /\ UNCHANGED tries
  /\ UNCHANGED <<queueVars, current, serverVars>>

Uploader ==
  Connect \/ TakeFirst \/ SendRequest \/ ReadReply \/ ConnectionLost \/ Reconnect

-----------------------------------------------------------------------------
\* The session of the web server.

\* Where a complete request begins in the buffer: at its first header, if as much
\* follows it as the header says, whatever request that is of.
CompleteAt(buffer) ==
  {h \in DOMAIN buffer :
     /\ buffer[h].part = "header"
     /\ \A i \in 1..(h - 1) : buffer[i].part # "header"
     /\ Len(buffer) >= h + ContentLength}

\* async_read_some puts n units at the start of data_ and leaves the rest of it;
\* all of it, up to a zero byte, is appended to requestBuffer.
Received(n) == SubSeq(toServer, 1, n) \o SubSeq(receiveBuffer, n + 1, Len(receiveBuffer))

\* What parseHTTPContent may make of a content: its data set; or its fields with the
\* timestamp of another request, or with one that the next request cuts short.
ParsedFrom(content) ==
  IF content[1].part # "fields" THEN {}
  ELSE IF content[2] = [of |-> content[1].of, part |-> "timestamp"]
    THEN {content[1].of} ELSE {Garbled(content[1].of)}

\* It throws if a number is missing: main ends.
MayThrow(content) == content[1].part # "fields" \/ content[2].part # "timestamp"

\* handle_read gets n units and has a complete request, which is cut out of the
\* buffer, stored, and answered with as many bytes as have just been read.
HandleComplete(n) ==
  LET buffer == requestBuffer \o Received(n)
  IN  \E h \in CompleteAt(buffer) :
        LET content == SubSeq(buffer, h + 1, h + ContentLength)
        IN  /\ session = "reading"
            /\ requestBuffer' = SubSeq(buffer, h + ContentLength + 1, Len(buffer))
            /\ split' = (split \/ n < Len(toServer))
            /\ UNCHANGED <<queueVars, uploadVars, failures>>
            /\ \/ /\ \E m \in ParsedFrom(content) :
                       sensorMetadatas' = Append(sensorMetadatas, m)
                  /\ toServer' = SubSeq(toServer, n + 1, Len(toServer))
                  /\ toGateway' = toGateway + n
                  /\ session' = "writing" /\ receiveBuffer' = Received(n)
                  /\ UNCHANGED <<connected, webUp>>
               \/ /\ MayThrow(content)
                  /\ webUp' = FALSE /\ Close
                  /\ UNCHANGED sensorMetadatas

WrongHandleIncomplete(n) ==
  LET buffer == requestBuffer \o Received(n)
  IN  /\ session = "reading" /\ CompleteAt(buffer) = {}
      /\ requestBuffer' = buffer
      /\ toServer' = SubSeq(toServer, n + 1, Len(toServer))
      /\ toGateway' = toGateway + RequestLength
      /\ split' = (split \/ n < Len(toServer))
      /\ session' = "silent" /\ receiveBuffer' = Received(n)
      /\ UNCHANGED <<queueVars, uploadVars, connected, failures, webUp, sensorMetadatas>>

\* handle_read has no complete request: it returns, and nothing is read any more.
HandleIncomplete(n) ==
  LET buffer == requestBuffer \o Received(n)
  IN  /\ session = "reading" /\ CompleteAt(buffer) = {}
      /\ requestBuffer' = buffer
      /\ toServer' = SubSeq(toServer, n + 1, Len(toServer))
      /\ split' = (split \/ n < Len(toServer))
      /\ session' = "silent" /\ receiveBuffer' = Received(n)
      /\ UNCHANGED <<queueVars, uploadVars, connected, toGateway, failures, webUp,
                     sensorMetadatas>>

\* handle_write reads again.
HandleWrite ==
  /\ session = "writing"
  /\ session' = "reading"
  /\ UNCHANGED <<queueVars, uploadVars, connectionVars, failures, receiveBuffer,
                 serverVars>>

Session ==
  \/ \E n \in 1..Len(toServer) : HandleComplete(n) \/ HandleIncomplete(n)
  \/ HandleWrite

-----------------------------------------------------------------------------
Next == Enqueue \/ Break \/ Uploader \/ Session

Spec == Init /\ [][Next]_vars

\* The threads of both processes are scheduled, and TCP delivers what is sent in
\* a connection that does not break.
FairSpec == Spec /\ WF_vars(Uploader) /\ WF_vars(Session)
=============================================================================
