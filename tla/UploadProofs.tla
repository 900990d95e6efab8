----------------------------- MODULE UploadProofs -----------------------------
(***************************************************************************)
(* Proofs about the upload, for every number of data sets, tries and       *)
(* failures: the queue and its permits; the order of the data sets, as     *)
(* long as no request is cut; that none is erased before it is taken,      *)
(* however requests are cut; and that the upload implements ReliableQueue, *)
(* as long as none is.                                                     *)
(***************************************************************************)
EXTENDS UploadProperties, SequenceTheorems, FiniteSetTheorems, TLAPS

-----------------------------------------------------------------------------
(* The inductive invariant *)

\* A thread that goes on has a try left.
TriesLeft == uploader \in {"connect", "send", "read", "reconnect"} => tries < MaxTries

\* Nothing is on its way in a connection that is closed.
Drained == ~connected => toServer = <<>> /\ toGateway = 0

\* What is on its way belongs to the one request that waits for its reply: the
\* web server has sent no more than it has read of it.
OneRequest ==
  toGateway + Len(toServer) <= (IF uploader = "read" THEN RequestLength ELSE 0)

IInv ==
  /\ TypeOK /\ TriesLeft /\ PermitsBacked /\ HeadIsSent
  /\ Drained /\ OneRequest

-----------------------------------------------------------------------------
(* Sequences *)

LEMMA PartOfSeq ==
  ASSUME NEW S, NEW s \in Seq(S), NEW a \in Nat \ {0}, NEW b \in 0..Len(s)
  PROVE  /\ SubSeq(s, a, b) \in Seq(S)
         /\ Len(SubSeq(s, a, b)) = IF a <= b THEN b - a + 1 ELSE 0
<1>1. \A i \in a..b : s[i] \in S
  BY LenProperties
<1> QED BY <1>1, SubSeqProperties

LEMMA PartUnits ==
  ASSUME NEW S, NEW s \in Seq(S), NEW a \in Nat \ {0}, NEW b \in 0..Len(s)
  PROVE  \A i \in DOMAIN SubSeq(s, a, b) :
           a + i - 1 \in a..b /\ SubSeq(s, a, b)[i] = s[a + i - 1]
<1>1. Len(s) \in Nat /\ \A i \in a..b : s[i] \in S
  BY LenProperties
<1>2. /\ SubSeq(s, a, b) \in Seq(S)
      /\ Len(SubSeq(s, a, b)) = IF a <= b THEN b - a + 1 ELSE 0
      /\ \A i \in 1..(b - a + 1) : SubSeq(s, a, b)[i] = s[a + i - 1]
  BY <1>1, SubSeqProperties
<1>3. DOMAIN SubSeq(s, a, b) = 1..Len(SubSeq(s, a, b))
  BY <1>2, LenProperties
<1>4. \A i \in 1..Len(SubSeq(s, a, b)) : i \in 1..(b - a + 1) /\ a + i - 1 \in a..b
  BY <1>1, <1>2
<1> QED BY <1>2, <1>3, <1>4

\* What handle_read appends to the buffer is made of units.
LEMMA ReceivedType ==
  ASSUME TypeOK, NEW n \in 1..Len(toServer)
  PROVE  Received(n) \in Seq(Unit) /\ requestBuffer \o Received(n) \in Seq(Unit)
<1>1. toServer \in Seq(Unit) /\ receiveBuffer \in Seq(Unit) /\ requestBuffer \in Seq(Unit)
  BY DEF TypeOK
<1>2. Len(toServer) \in Nat /\ Len(receiveBuffer) \in Nat
  BY <1>1, LenProperties
<1>3. SubSeq(toServer, 1, n) \in Seq(Unit)
  BY <1>1, <1>2, PartOfSeq
<1>4. SubSeq(receiveBuffer, n + 1, Len(receiveBuffer)) \in Seq(Unit)
  BY <1>1, <1>2, PartOfSeq
<1>5. Received(n) \in Seq(Unit)
  BY <1>3, <1>4, ConcatProperties DEF Received
<1> QED BY <1>1, <1>5, ConcatProperties

-----------------------------------------------------------------------------
(* Initially *)

LEMMA InitIInv == Init => IInv
<1> SUFFICES ASSUME Init PROVE IInv
  OBVIOUS
<1>1. Len(<<>>) = 0 /\ <<>> \in Seq(1..0) /\ <<>> \in Seq(-0..0) /\ <<>> \in Seq(Unit)
  BY EmptySeq
<1>2. TypeOK
  <2>1. sensorUDPReplies \in Seq(1..enqueued) /\ sensorMetadatas \in Seq(-enqueued..enqueued)
    BY <1>1 DEF Init
  <2>2. toServer \in Seq(Unit) /\ receiveBuffer \in Seq(Unit) /\ requestBuffer \in Seq(Unit)
    BY <1>1 DEF Init
  <2>3. connected \in BOOLEAN /\ (connected <=> session # "none")
    BY DEF Init
  <2>4. webUp \in BOOLEAN /\ split \in BOOLEAN
    BY DEF Init
  <2>5. /\ semNumberSensorUDPReplies \in Nat /\ enqueued \in 0..MaxReplies
        /\ uploader = "connect" /\ current \in 0..enqueued /\ tries \in 0..MaxTries
        /\ toGateway \in Nat /\ failures \in 0..MaxFailures /\ session = "none"
    BY UploadAssumption DEF Init
  <2> QED BY <2>1, <2>2, <2>3, <2>4, <2>5 DEF TypeOK
<1> QED BY <1>1, <1>2, UploadAssumption DEF Init, IInv, TriesLeft, PermitsBacked, HeadIsSent,
     Busy, Drained, OneRequest

-----------------------------------------------------------------------------
(* The queue and the connection *)

LEMMA EnqueueIInv == IInv /\ Enqueue => IInv'
<1> SUFFICES ASSUME IInv, Enqueue PROVE IInv'
  OBVIOUS
<1> DEFINE queue == sensorUDPReplies
<1>1. TypeOK /\ enqueued \in Nat /\ MaxReplies \in Nat
  BY UploadAssumption DEF IInv, TypeOK
<1>2. /\ 1..enqueued \subseteq 1..(enqueued + 1) /\ 0..enqueued \subseteq 0..(enqueued + 1)
      /\ -enqueued..enqueued \subseteq -(enqueued + 1)..(enqueued + 1)
  BY <1>1
<1>3. /\ queue \in Seq(1..(enqueued + 1)) /\ sensorMetadatas \in Seq(-(enqueued + 1)..(enqueued + 1))
      /\ Len(queue) \in Nat
  BY <1>1, <1>2, SeqMonotonic, LenProperties DEF TypeOK
<1>4. Unit \subseteq Unit'
  BY <1>2 DEF Unit, Enqueue
<1>5. /\ toServer \in Seq(Unit') /\ receiveBuffer \in Seq(Unit')
      /\ requestBuffer \in Seq(Unit')
  BY <1>1, <1>4, SeqMonotonic DEF TypeOK
<1>6. /\ queue' \in Seq(1..(enqueued + 1)) /\ Len(queue') = Len(queue) + 1
      /\ queue' # <<>> /\ Head(queue') = IF queue = <<>> THEN enqueued + 1 ELSE Head(queue)
  <2>1. enqueued + 1 \in 1..(enqueued + 1)
    BY <1>1
  <2> QED BY <1>3, <2>1, AppendProperties, HeadTailAppend DEF Enqueue
<1>7. TypeOK'
  <2>1. enqueued' = enqueued + 1 /\ sensorMetadatas' = sensorMetadatas
    BY DEF Enqueue, serverVars
  <2>2. sensorMetadatas' \in Seq(-enqueued'..enqueued')
    BY <1>3, <2>1
  <2>3. queue' \in Seq(1..enqueued') /\ enqueued' \in 0..MaxReplies
    BY <1>1, <1>6, <2>1 DEF Enqueue
  <2>4. current' \in 0..enqueued' /\ semNumberSensorUDPReplies' \in Nat
    BY <1>1, <1>2, <2>1 DEF TypeOK, Enqueue, uploadVars
  <2>5. /\ toServer' \in Seq(Unit') /\ receiveBuffer' \in Seq(Unit')
        /\ requestBuffer' \in Seq(Unit')
    BY <1>5 DEF Enqueue, connectionVars, sessionVars, serverVars
  <2> QED BY <1>1, <2>2, <2>3, <2>4, <2>5 DEF TypeOK, Enqueue, uploadVars, connectionVars,
       sessionVars, serverVars
<1>8. PermitsBacked' /\ HeadIsSent' /\ TriesLeft' /\ Drained' /\ OneRequest'
  <2>1. semNumberSensorUDPReplies \in Nat /\ semNumberSensorUDPReplies' = semNumberSensorUDPReplies + 1
    BY <1>1 DEF TypeOK, Enqueue
  <2>2. UNCHANGED <<uploader, current, tries, connected, toServer, toGateway>>
    BY DEF Enqueue, uploadVars, connectionVars
  <2>3. PermitsBacked' /\ HeadIsSent'
    BY <1>3, <1>6, <2>1, <2>2 DEF IInv, PermitsBacked, HeadIsSent, Busy
  <2> QED BY <2>2, <2>3 DEF IInv, TriesLeft, Drained, OneRequest
<1> QED BY <1>7, <1>8 DEF IInv

LEMMA BreakIInv == IInv /\ Break => IInv'
<1> SUFFICES ASSUME IInv, Break PROVE IInv'
  OBVIOUS
<1>1. Len(<<>>) = 0 /\ <<>> \in Seq(Unit')
  BY EmptySeq
<1>2. TypeOK'
  <2>1. Unit' = Unit
    BY DEF Unit, Break, queueVars
  <2>2. connected' \in BOOLEAN /\ (connected' <=> session' # "none")
    BY DEF Break, Close
  <2>3. failures' \in 0..MaxFailures
    BY UploadAssumption DEF IInv, TypeOK, Break, NetworkFails
  <2>4. toServer' \in Seq(Unit') /\ receiveBuffer' \in Seq(Unit')
    BY <1>1 DEF Break, Close
  <2> QED BY <2>1, <2>2, <2>3, <2>4 DEF IInv, TypeOK, Break, Close, queueVars, uploadVars,
     serverVars
<1>3. Len(toServer) \in Nat /\ toGateway \in Nat
  BY LenProperties DEF IInv, TypeOK
<1>4. /\ TriesLeft' /\ PermitsBacked' /\ HeadIsSent' /\ Drained' /\ OneRequest'
  BY <1>1, <1>3 DEF IInv, TriesLeft, PermitsBacked, HeadIsSent, Busy, Drained, OneRequest,
     RequestLength, Break, Close, queueVars, uploadVars, serverVars
<1> QED BY <1>2, <1>4 DEF IInv

LEMMA RequestType ==
  ASSUME NEW m \in 1..enqueued
  PROVE  Request(m) \in Seq(Unit) /\ Len(Request(m)) = RequestLength
BY DEF Request, Unit, RequestLength

\* What a connection that is open, closed or refused leaves.
ConnectionType ==
  /\ connected \in BOOLEAN /\ (connected <=> session # "none")
  /\ session \in {"none", "reading", "writing", "silent"}
  /\ toServer \in Seq(Unit) /\ receiveBuffer \in Seq(Unit) /\ toGateway \in Nat
  /\ failures \in 0..MaxFailures

LEMMA OpenType ==
  ASSUME TypeOK, Open, enqueued' = enqueued
  PROVE  ConnectionType' /\ toServer' = <<>> /\ toGateway' = 0
<1>1. Unit' = Unit /\ <<>> \in Seq(Unit)
  BY EmptySeq DEF Unit
<1>2. receiveBuffer' \in Seq(Unit)
  <2>1. \A i \in DOMAIN sensorMetadatas : sensorMetadatas[i] \in -enqueued..enqueued
    BY LenProperties DEF TypeOK
  <2>2. ASSUME NEW m \in {sensorMetadatas[i] : i \in DOMAIN sensorMetadatas} \cap (Nat \ {0})
        PROVE  Request(m) \in Seq(Unit)
    <3>1. m \in 1..enqueued
      BY <2>1 DEF TypeOK
    <3> QED BY <3>1, RequestType
  <2> QED BY <1>1, <2>2 DEF Open, OldMemory
<1>3. connected' \in BOOLEAN /\ (connected' <=> session' # "none")
  BY DEF Open
<1> QED BY <1>1, <1>2, <1>3 DEF Open, ConnectionType, TypeOK

LEMMA RefusedType ==
  ASSUME TypeOK, enqueued' = enqueued, Refused
  PROVE  ConnectionType' /\ UNCHANGED connectionVars
<1>1. Unit' = Unit
  BY DEF Unit
<1>2. connected' = connected /\ session' = session
  BY DEF Refused, connectionVars, sessionVars
<1>3. connected' \in BOOLEAN /\ (connected' <=> session' # "none")
  BY <1>2 DEF TypeOK
<1>4. failures' \in 0..MaxFailures
  BY UploadAssumption DEF TypeOK, Refused, NetworkFails
<1>5. /\ session' \in {"none", "reading", "writing", "silent"}
      /\ toServer' \in Seq(Unit) /\ receiveBuffer' \in Seq(Unit) /\ toGateway' \in Nat
  BY DEF TypeOK, Refused, connectionVars, sessionVars
<1> QED BY <1>1, <1>3, <1>4, <1>5 DEF ConnectionType, Refused

-----------------------------------------------------------------------------
(* The uploading thread *)

\* A connection is opened or refused, and nothing is on its way in it.
LEMMA ConnectingIInv ==
  ASSUME IInv, UNCHANGED <<queueVars, current, serverVars>>,
         ConnectionType', uploader \in {"connect", "reconnect"},
         toServer' = <<>> \/ toServer' = toServer, toGateway' = 0 \/ toGateway' = toGateway,
         ~connected' => toServer' = <<>> /\ toGateway' = 0,
         uploader' \in {"connect", "wait", "send", "stopped"},
         uploader' = "send" => uploader = "reconnect",
         tries' \in 0..MaxTries,
         uploader' \in {"connect", "send"} => tries' < MaxTries
  PROVE  IInv'
<1>1. Len(toServer) \in Nat /\ toGateway \in Nat /\ Len(<<>>) = 0
  BY LenProperties DEF IInv, TypeOK
<1>2. toGateway = 0 /\ Len(toServer) = 0
  BY <1>1 DEF IInv, OneRequest
<1>3. toGateway' = 0 /\ Len(toServer') = 0
  BY <1>1, <1>2
<1>4. TypeOK'
  BY DEF IInv, TypeOK, ConnectionType, Unit, queueVars, serverVars
<1>5. TriesLeft' /\ Drained' /\ OneRequest'
  BY <1>3 DEF TriesLeft, Drained, OneRequest, RequestLength
<1>6. Len(sensorUDPReplies) \in Nat /\ semNumberSensorUDPReplies \in Nat
  BY LenProperties DEF IInv, TypeOK
<1>7. PermitsBacked' /\ HeadIsSent'
  BY <1>6 DEF IInv, PermitsBacked, HeadIsSent, Busy, queueVars
<1> QED BY <1>4, <1>5, <1>7 DEF IInv

LEMMA ConnectIInv == IInv /\ Connect => IInv'
<1> SUFFICES ASSUME IInv, Connect PROVE IInv'
  OBVIOUS
<1>1. TypeOK /\ Drained /\ MaxTries \in Nat \ {0} /\ tries \in Nat /\ tries < MaxTries
  BY UploadAssumption DEF IInv, TypeOK, TriesLeft, Connect
<1>2. /\ uploader = "connect" /\ UNCHANGED <<queueVars, current, serverVars>>
      /\ enqueued' = enqueued
  BY DEF Connect, queueVars
<1>3. CASE Open /\ uploader' = "wait" /\ UNCHANGED tries
  <2>1. ConnectionType' /\ toServer' = <<>> /\ toGateway' = 0
    BY <1>1, <1>2, <1>3, OpenType
  <2> QED BY <1>1, <1>2, <1>3, <2>1, ConnectingIInv
<1>4. CASE /\ NetworkFails /\ tries' = tries + 1
           /\ uploader' = IF tries = MaxTries - 1 THEN "stopped" ELSE "connect"
           /\ UNCHANGED <<connectionVars, sessionVars>>
  <2>1. Refused
    BY <1>4 DEF Refused
  <2>2. ConnectionType' /\ UNCHANGED connectionVars
    BY <1>1, <1>2, <2>1, RefusedType
  <2>3. ~connected' => toServer' = <<>> /\ toGateway' = 0
    BY <1>1, <2>2 DEF Drained, connectionVars
  <2>4. toServer' = toServer /\ toGateway' = toGateway
    BY <2>2 DEF connectionVars
  <2>5. tries' \in 0..MaxTries /\ (uploader' = "connect" => tries' < MaxTries)
    BY <1>1, <1>4
  <2> QED BY <1>2, <1>4, <2>2, <2>3, <2>4, <2>5, ConnectingIInv
<1> QED BY <1>3, <1>4 DEF Connect

LEMMA ReconnectIInv == IInv /\ Reconnect => IInv'
<1> SUFFICES ASSUME IInv, Reconnect PROVE IInv'
  OBVIOUS
<1>1. TypeOK /\ Drained /\ MaxTries \in Nat \ {0} /\ tries \in Nat /\ tries < MaxTries
  BY UploadAssumption DEF IInv, TypeOK, TriesLeft, Reconnect
<1>2. /\ uploader = "reconnect" /\ UNCHANGED <<queueVars, current, serverVars>>
      /\ enqueued' = enqueued
  BY DEF Reconnect, queueVars
<1>3. NextTry => /\ tries' \in 0..MaxTries /\ uploader' \in {"wait", "send"}
                 /\ uploader' = "send" => tries' < MaxTries
  BY <1>1 DEF NextTry
<1>4. Open \/ Refused
  BY DEF Reconnect
<1>5. ConnectionType' /\ (toServer' = <<>> \/ toServer' = toServer)
        /\ (toGateway' = 0 \/ toGateway' = toGateway)
        /\ (~connected' => toServer' = <<>> /\ toGateway' = 0)
  <2>1. CASE Open
    BY <1>1, <1>2, <2>1, OpenType
  <2>2. CASE Refused
    <3>1. ConnectionType' /\ UNCHANGED connectionVars
      BY <1>1, <1>2, <2>2, RefusedType
    <3> QED BY <1>1, <3>1 DEF Drained, connectionVars
  <2> QED BY <1>4, <2>1, <2>2
<1>6. /\ tries' \in 0..MaxTries /\ uploader' \in {"wait", "send", "stopped"}
      /\ uploader' = "send" => tries' < MaxTries
  BY <1>1, <1>3 DEF Reconnect
<1> QED BY <1>2, <1>5, <1>6, ConnectingIInv

LEMMA TakeFirstIInv == IInv /\ TakeFirst => IInv'
<1> SUFFICES ASSUME IInv, TakeFirst PROVE IInv'
  OBVIOUS
<1>1. TypeOK /\ PermitsBacked /\ MaxTries \in Nat \ {0}
  BY UploadAssumption DEF IInv
<1>2. Len(sensorUDPReplies) \in Nat /\ semNumberSensorUDPReplies \in Nat \ {0}
  BY LenProperties DEF IInv, TypeOK, TakeFirst
<1>3. Len(sensorUDPReplies) >= semNumberSensorUDPReplies /\ sensorUDPReplies # <<>>
  BY <1>1, <1>2, EmptySeq DEF PermitsBacked, TypeOK, TakeFirst, Busy
<1>4. current' \in 1..enqueued
  BY <1>1, <1>3, HeadTailProperties DEF TypeOK, TakeFirst
<1>5. TypeOK'
  BY <1>1, <1>2, <1>4 DEF TypeOK, Unit, TakeFirst, connectionVars, sessionVars, serverVars
<1>6. PermitsBacked' /\ HeadIsSent'
  BY <1>2, <1>3 DEF PermitsBacked, HeadIsSent, Busy, TakeFirst
<1>7. TriesLeft' /\ Drained' /\ OneRequest'
  BY <1>1 DEF IInv, TriesLeft, Drained, OneRequest, TakeFirst, connectionVars, sessionVars,
     serverVars
<1> QED BY <1>5, <1>6, <1>7 DEF IInv

LEMMA SendRequestIInv == IInv /\ SendRequest => IInv'
<1> SUFFICES ASSUME IInv, SendRequest PROVE IInv'
  OBVIOUS
<1>1. TypeOK /\ PermitsBacked /\ HeadIsSent
  BY DEF IInv
<1>2. current \in 1..enqueued
  BY <1>1, HeadTailProperties DEF TypeOK, HeadIsSent, Busy, SendRequest
<1>3. /\ toServer' \in Seq(Unit) /\ Len(toServer') = Len(toServer) + RequestLength
      /\ Len(toServer) \in Nat /\ toGateway \in Nat
  BY <1>1, <1>2, RequestType, ConcatProperties, LenProperties DEF TypeOK, SendRequest
<1>4. TypeOK'
  BY <1>1, <1>3 DEF TypeOK, Unit, SendRequest, queueVars, sessionVars, serverVars
<1>5. toGateway = 0 /\ Len(toServer) = 0
  BY <1>3 DEF IInv, OneRequest, SendRequest
<1>6. OneRequest' /\ Drained'
  BY <1>3, <1>5 DEF OneRequest, Drained, RequestLength, SendRequest
<1>7. PermitsBacked' /\ HeadIsSent' /\ TriesLeft'
  BY DEF IInv, PermitsBacked, HeadIsSent, Busy, TriesLeft, SendRequest, queueVars, sessionVars,
     serverVars
<1> QED BY <1>4, <1>6, <1>7 DEF IInv

LEMMA ReadReplyIInv == IInv /\ ReadReply => IInv'
<1> SUFFICES ASSUME IInv, ReadReply PROVE IInv'
  OBVIOUS
<1> DEFINE queue == sensorUDPReplies
<1>1. TypeOK /\ PermitsBacked /\ HeadIsSent
  BY DEF IInv
<1>2. /\ queue \in Seq(1..enqueued) /\ queue # <<>> /\ Len(queue) \in Nat
      /\ semNumberSensorUDPReplies \in Nat /\ toGateway \in Nat /\ Len(toServer) \in Nat
      /\ enqueued \in Nat
  BY <1>1, LenProperties DEF TypeOK, HeadIsSent, Busy, ReadReply
<1>3. queue' \in Seq(1..enqueued) /\ Len(queue') = Len(queue) - 1 /\ Len(queue') \in Nat
  BY <1>2, HeadTailProperties, LenProperties DEF ReadReply
<1>4. toGateway >= 3 /\ toGateway' = toGateway - 3 /\ toGateway + Len(toServer) <= 3
  BY DEF IInv, OneRequest, ReadReply, RequestLength
<1>5. toGateway' = 0 /\ Len(toServer) = 0
  BY <1>2, <1>4
<1>6. TypeOK'
  BY <1>1, <1>3, <1>5 DEF TypeOK, Unit, ReadReply, sessionVars, serverVars
<1>7. PermitsBacked' /\ HeadIsSent' /\ TriesLeft'
  BY <1>1, <1>2, <1>3 DEF PermitsBacked, HeadIsSent, TriesLeft, Busy, ReadReply
<1>8. OneRequest' /\ Drained'
  BY <1>4, <1>5 DEF IInv, OneRequest, Drained, ReadReply
<1> QED BY <1>6, <1>7, <1>8 DEF IInv

LEMMA ConnectionLostIInv == IInv /\ ConnectionLost => IInv'
<1> SUFFICES ASSUME IInv, ConnectionLost PROVE IInv'
  OBVIOUS
<1>1. TypeOK'
  BY DEF IInv, TypeOK, Unit, ConnectionLost, queueVars, connectionVars, sessionVars,
     serverVars
<1>2. toServer = <<>> /\ toGateway = 0 /\ Len(<<>>) = 0
  BY DEF IInv, Drained, ConnectionLost
<1>3. OneRequest' /\ Drained'
  BY <1>2 DEF OneRequest, Drained, ConnectionLost, connectionVars
<1>4. PermitsBacked' /\ HeadIsSent' /\ TriesLeft'
  BY DEF IInv, PermitsBacked, HeadIsSent, Busy, TriesLeft, ConnectionLost, queueVars,
     connectionVars, sessionVars, serverVars
<1> QED BY <1>1, <1>3, <1>4 DEF IInv

-----------------------------------------------------------------------------
(* The session *)

\* The session works, and leaves the gateway's variables alone.
LEMMA GatewayUntouched ==
  ASSUME IInv, UNCHANGED <<queueVars, uploadVars, failures>>
  PROVE  TriesLeft' /\ PermitsBacked' /\ HeadIsSent' /\ Unit' = Unit
BY DEF IInv, TriesLeft, PermitsBacked, HeadIsSent, Busy, Unit, queueVars, uploadVars

LEMMA HandleIncompleteIInv ==
  ASSUME IInv, NEW n \in 1..Len(toServer), HandleIncomplete(n)
  PROVE  IInv'
<1>1. TypeOK /\ UNCHANGED <<queueVars, uploadVars, failures>>
  BY DEF IInv, HandleIncomplete
<1>2. /\ TriesLeft' /\ PermitsBacked' /\ HeadIsSent' /\ Unit' = Unit
  BY <1>1, GatewayUntouched
<1>3. Received(n) \in Seq(Unit) /\ requestBuffer' \in Seq(Unit)
  BY <1>1, ReceivedType DEF HandleIncomplete
<1>4. Len(toServer) \in Nat /\ toGateway \in Nat
  BY <1>1, LenProperties DEF TypeOK
<1>5. toServer' \in Seq(Unit) /\ Len(toServer') \in Nat /\ Len(toServer') <= Len(toServer)
  BY <1>1, <1>4, PartOfSeq, LenProperties DEF TypeOK, HandleIncomplete
<1>6. connected /\ connected'
  BY <1>1 DEF TypeOK, HandleIncomplete
<1>7. (split' \in BOOLEAN) /\ session' = "silent" /\ (connected' <=> session' # "none")
  BY <1>6 DEF HandleIncomplete
<1>8. TypeOK'
  BY <1>1, <1>2, <1>3, <1>5, <1>6, <1>7 DEF TypeOK, HandleIncomplete, queueVars, uploadVars
<1>9. Drained' /\ OneRequest'
  BY <1>4, <1>5, <1>6 DEF IInv, Drained, OneRequest, RequestLength, HandleIncomplete,
     queueVars, uploadVars
<1> QED BY <1>2, <1>8, <1>9 DEF IInv

LEMMA HandleWriteIInv == IInv /\ HandleWrite => IInv'
<1> SUFFICES ASSUME IInv, HandleWrite PROVE IInv'
  OBVIOUS
<1>1. TypeOK /\ TriesLeft' /\ PermitsBacked' /\ HeadIsSent' /\ Unit' = Unit
  BY GatewayUntouched DEF IInv, HandleWrite
<1>2. (connected' <=> session' # "none") /\ session' = "reading"
  BY <1>1 DEF TypeOK, HandleWrite, connectionVars
<1>3. TypeOK'
  BY <1>1, <1>2 DEF TypeOK, HandleWrite, queueVars, uploadVars, connectionVars, serverVars
<1>4. Drained' /\ OneRequest'
  BY DEF IInv, Drained, OneRequest, HandleWrite, queueVars, uploadVars, connectionVars,
     serverVars
<1> QED BY <1>1, <1>3, <1>4 DEF IInv

\* A complete request lies within the buffer.
LEMMA ContentType ==
  ASSUME NEW buffer \in Seq(Unit), NEW h \in CompleteAt(buffer), enqueued \in Nat
  PROVE  LET content == SubSeq(buffer, h + 1, h + ContentLength)
         IN  /\ ParsedFrom(content) \subseteq -enqueued..enqueued
             /\ SubSeq(buffer, h + ContentLength + 1, Len(buffer)) \in Seq(Unit)
<1> DEFINE content == SubSeq(buffer, h + 1, h + ContentLength)
<1>1. Len(buffer) \in Nat /\ h \in 1..Len(buffer) /\ h + 2 \in 0..Len(buffer)
  BY LenProperties DEF CompleteAt, ContentLength
<1>2. content \in Seq(Unit) /\ Len(content) = 2
  BY <1>1, PartOfSeq DEF ContentLength
<1>3. content[1] \in Unit
  BY <1>2, ElementOfSeq
<1>4. ParsedFrom(content) \subseteq -enqueued..enqueued
  <2>1. \A u \in Unit : u.of \in -enqueued..enqueued
    BY DEF Unit
  <2>2. \A u \in Unit : Garbled(u.of) \in -enqueued..enqueued
    BY DEF Garbled, Unit
  <2> HIDE DEF content
  <2> QED BY <1>3, <2>1, <2>2 DEF ParsedFrom
<1>5. SubSeq(buffer, h + ContentLength + 1, Len(buffer)) \in Seq(Unit)
  BY <1>1, PartOfSeq DEF ContentLength
<1> QED BY <1>4, <1>5

LEMMA HandleCompleteIInv ==
  ASSUME IInv, NEW n \in 1..Len(toServer), HandleComplete(n)
  PROVE  IInv'
<1> DEFINE buffer == requestBuffer \o Received(n)
           content(h) == SubSeq(buffer, h + 1, h + ContentLength)
<1>1. PICK h \in CompleteAt(buffer) :
        /\ session = "reading"
        /\ requestBuffer' = SubSeq(buffer, h + ContentLength + 1, Len(buffer))
        /\ split' = (split \/ n < Len(toServer))
        /\ UNCHANGED <<queueVars, uploadVars, failures>>
        /\ \/ /\ \E m \in ParsedFrom(content(h)) :
                   sensorMetadatas' = Append(sensorMetadatas, m)
              /\ toServer' = SubSeq(toServer, n + 1, Len(toServer))
              /\ toGateway' = toGateway + n
              /\ session' = "writing" /\ receiveBuffer' = Received(n)
              /\ UNCHANGED <<connected, webUp>>
           \/ /\ webUp' = FALSE /\ Close
              /\ UNCHANGED sensorMetadatas
  BY DEF HandleComplete
<1>2. /\ TypeOK /\ TriesLeft' /\ PermitsBacked' /\ HeadIsSent' /\ Unit' = Unit
      /\ OneRequest
  BY <1>1, GatewayUntouched DEF IInv
<1>3. Len(toServer) \in Nat /\ toGateway \in Nat /\ enqueued \in Nat
  BY <1>2, LenProperties DEF TypeOK
<1>4. Received(n) \in Seq(Unit) /\ buffer \in Seq(Unit)
  BY <1>2, ReceivedType
<1>5. ParsedFrom(content(h)) \subseteq -enqueued..enqueued /\ requestBuffer' \in Seq(Unit)
  BY <1>1, <1>3, <1>4, ContentType
<1>6. connected /\ split' \in BOOLEAN
  BY <1>1, <1>2 DEF TypeOK
<1>7. CASE /\ \E m \in ParsedFrom(content(h)) :
                sensorMetadatas' = Append(sensorMetadatas, m)
           /\ toServer' = SubSeq(toServer, n + 1, Len(toServer))
           /\ toGateway' = toGateway + n
           /\ session' = "writing" /\ receiveBuffer' = Received(n)
           /\ UNCHANGED <<connected, webUp>>
  <2>1. sensorMetadatas' \in Seq(-enqueued..enqueued)
    BY <1>2, <1>5, <1>7, AppendProperties DEF TypeOK
  <2>2. toServer' \in Seq(Unit) /\ Len(toServer') = Len(toServer) - n
    BY <1>2, <1>3, <1>7, PartOfSeq DEF TypeOK
  <2>3. toGateway' \in Nat /\ toGateway' > 0 /\ connected'
    BY <1>3, <1>6, <1>7
  <2>4. (connected' <=> session' # "none") /\ session' = "writing"
    BY <1>7, <2>3
  <2>5. TypeOK'
    BY <1>1, <1>2, <1>4, <1>5, <1>6, <1>7, <2>1, <2>2, <2>3, <2>4
       DEF TypeOK, queueVars, uploadVars
  <2>6. OneRequest' /\ Drained'
    <3>1. toGateway' = toGateway + n /\ uploader' = uploader
      BY <1>1, <1>7 DEF uploadVars
    <3>2. toGateway' + Len(toServer') = toGateway + Len(toServer)
      BY <1>3, <2>2, <3>1
    <3> QED BY <1>2, <2>3, <3>1, <3>2 DEF OneRequest, Drained
  <2> QED BY <1>2, <2>5, <2>6 DEF IInv
<1>8. CASE webUp' = FALSE /\ Close /\ UNCHANGED sensorMetadatas
  <2>1. Len(<<>>) = 0 /\ <<>> \in Seq(Unit)
    BY EmptySeq
  <2>2. toServer' = <<>> /\ toGateway' = 0 /\ receiveBuffer' = <<>> /\ session' = "none"
    BY <1>8 DEF Close
  <2>3. connected' \in BOOLEAN /\ (connected' <=> session' # "none") /\ webUp' \in BOOLEAN
    BY <1>8 DEF Close
  <2>4. TypeOK'
    BY <1>1, <1>2, <1>5, <1>6, <1>8, <2>1, <2>2, <2>3 DEF TypeOK, queueVars, uploadVars
  <2>5. OneRequest' /\ Drained'
    BY <2>1, <2>2 DEF OneRequest, Drained, RequestLength
  <2> QED BY <1>2, <2>4, <2>5 DEF IInv
<1> QED BY <1>1, <1>7, <1>8

-----------------------------------------------------------------------------
(* The theorems *)

LEMMA StepIInv == IInv /\ [Next]_vars => IInv'
<1> SUFFICES ASSUME IInv, [Next]_vars PROVE IInv'
  OBVIOUS
<1>1. CASE Enqueue
  BY <1>1, EnqueueIInv
<1>2. CASE Break
  BY <1>2, BreakIInv
<1>3. CASE Uploader
  BY <1>3, ConnectIInv, TakeFirstIInv, SendRequestIInv, ReadReplyIInv, ConnectionLostIInv,
     ReconnectIInv DEF Uploader
<1>4. CASE Session
  BY <1>4, HandleCompleteIInv, HandleIncompleteIInv, HandleWriteIInv DEF Session
<1>5. CASE UNCHANGED vars
  BY <1>5 DEF IInv, TypeOK, Unit, TriesLeft, PermitsBacked, HeadIsSent, Busy, Drained,
     OneRequest, vars, queueVars, uploadVars, connectionVars, sessionVars, serverVars
<1> QED BY <1>1, <1>2, <1>3, <1>4, <1>5 DEF Next

LEMMA Invariance == Spec => []IInv
BY InitIInv, StepIInv, PTL DEF Spec

\* The variables keep their types, and a session lives as long as its connection.
THEOREM TypeCorrect == Spec => []TypeOK
<1>1. IInv => TypeOK
  BY DEF IInv
<1> QED BY <1>1, Invariance, PTL

\* sendRequestsToWebserver never calls at(0) of an empty queue.
THEOREM PermitsAreBacked == Spec => []PermitsBacked
<1>1. IInv => PermitsBacked
  BY DEF IInv
<1> QED BY <1>1, Invariance, PTL

\* sendRequestsToWebserver erases the data set it has sent, and no other.
THEOREM SentIsErased == Spec => []HeadIsSent
<1>1. IInv => HeadIsSent
  BY DEF IInv
<1> QED BY <1>1, Invariance, PTL

-----------------------------------------------------------------------------
(* Requests in one piece.  As long as none has been cut, a session has either *)
(* the whole request that the uploader waits for or nothing before it: the    *)
(* buffers are empty when it begins to read, and what an earlier session has  *)
(* left in memory is a whole request too, which the new one overwrites.       *)

Confirmed == enqueued - Len(sensorUDPReplies)

\* The queue holds the data sets that are not confirmed, in order.
QueueInOrder ==
  Confirmed \in Nat /\ \A i \in 1..Len(sensorUDPReplies) : sensorUDPReplies[i] = Confirmed + i

Requests == {Request(m) : m \in 1..enqueued}

Intact ==
  /\ webUp /\ session # "silent" /\ requestBuffer = <<>>
  /\ receiveBuffer \in {<<>>} \cup Requests
  /\ toServer \in {<<>>, Request(current)}

\* The data sets come in order, repetitions aside, and at most one of them is not
\* confirmed: the one whose reply is on its way or lost.
InOrder ==
  /\ \A i, j \in DOMAIN sensorMetadatas : i < j => sensorMetadatas[i] <= sensorMetadatas[j]
  /\ Stored \in {1..Confirmed, 1..(Confirmed + 1)}
  /\ toGateway > 0 => Confirmed + 1 \in Stored

WholeInv == QueueInOrder /\ (~split => Intact /\ InOrder)

LEMMA InitWhole == Init => WholeInv
<1> SUFFICES ASSUME Init PROVE WholeInv
  OBVIOUS
<1>1. Len(<<>>) = 0 /\ DOMAIN <<>> = {}
  BY EmptySeq
<1>2. Confirmed = 0 - 0 /\ Len(sensorUDPReplies) = 0
  BY <1>1 DEF Init, Confirmed
<1>3. QueueInOrder
  BY <1>2 DEF QueueInOrder
<1>4. Intact
  BY DEF Init, Intact
<1>5. Stored = {} /\ DOMAIN sensorMetadatas = {}
  BY <1>1 DEF Init, Stored
<1>6. toGateway = 0 /\ 1..Confirmed = {}
  BY <1>2 DEF Init
<1>7. InOrder
  BY <1>5, <1>6 DEF InOrder
<1> QED BY <1>3, <1>4, <1>7 DEF WholeInv

\* Steps that leave the queue and what the web server has taken alone.
LEMMA WholeKept ==
  ASSUME WholeInv, UNCHANGED <<serverVars, sensorUDPReplies, enqueued>>,
         session' \in {session, "none", "reading"},
         receiveBuffer' \in {receiveBuffer, <<>>} \cup Requests,
         ~split => toServer' \in {<<>>, Request(current')},
         toGateway' \in {0, toGateway}
  PROVE  WholeInv'
<1>1. /\ Confirmed' = Confirmed /\ Stored' = Stored /\ Requests' = Requests
      /\ UNCHANGED <<webUp, requestBuffer, sensorMetadatas, split>>
  BY DEF Confirmed, Stored, Requests, serverVars
<1>2. QueueInOrder'
  BY <1>1 DEF WholeInv, QueueInOrder
<1>3. ASSUME ~split
      PROVE  Intact' /\ InOrder'
  BY <1>1, <1>3 DEF WholeInv, Intact, InOrder
<1> QED BY <1>1, <1>2, <1>3 DEF WholeInv

\* A new data set is not a confirmed one.
LEMMA EnqueueConfirmed == IInv /\ Enqueue => Confirmed' = Confirmed
<1> SUFFICES ASSUME IInv, Enqueue PROVE Confirmed' = Confirmed
  OBVIOUS
<1>1. sensorUDPReplies' = Append(sensorUDPReplies, enqueued + 1) /\ enqueued' = enqueued + 1
  BY DEF Enqueue
<1>2. /\ enqueued \in Nat /\ sensorUDPReplies \in Seq(Nat) /\ Len(sensorUDPReplies) \in Nat
  <2>1. 1..enqueued \subseteq Nat /\ sensorUDPReplies \in Seq(1..enqueued) /\ enqueued \in Nat
    BY UploadAssumption DEF IInv, TypeOK
  <2> QED BY <2>1, SeqMonotonic, LenProperties
<1>3. Len(sensorUDPReplies') = Len(sensorUDPReplies) + 1
  BY <1>1, <1>2, AppendProperties
<1>4. Confirmed' = (enqueued + 1) - Len(sensorUDPReplies')
  <2>1. Confirmed' = enqueued' - Len(sensorUDPReplies')
    BY DEF Confirmed
  <2> QED BY <1>1, <2>1
<1> QED BY <1>2, <1>3, <1>4 DEF Confirmed

LEMMA EnqueueWhole == IInv /\ WholeInv /\ Enqueue => WholeInv'
<1> SUFFICES ASSUME IInv, WholeInv, Enqueue PROVE WholeInv'
  OBVIOUS
<1>1. /\ sensorUDPReplies' = Append(sensorUDPReplies, enqueued + 1)
      /\ enqueued' = enqueued + 1
      /\ UNCHANGED <<current, toServer, toGateway, session, receiveBuffer, webUp, requestBuffer,
                     sensorMetadatas, split>>
  BY DEF Enqueue, uploadVars, connectionVars, sessionVars, serverVars
<1>2. /\ enqueued \in Nat /\ sensorUDPReplies \in Seq(Nat) /\ Len(sensorUDPReplies) \in Nat
  <2>1. 1..enqueued \subseteq Nat /\ sensorUDPReplies \in Seq(1..enqueued) /\ enqueued \in Nat
    BY UploadAssumption DEF IInv, TypeOK
  <2> QED BY <2>1, SeqMonotonic, LenProperties
<1>3. /\ Len(sensorUDPReplies') = Len(sensorUDPReplies) + 1
      /\ \A i \in 1..Len(sensorUDPReplies) : sensorUDPReplies'[i] = sensorUDPReplies[i]
      /\ sensorUDPReplies'[Len(sensorUDPReplies) + 1] = enqueued + 1
  BY <1>1, <1>2, AppendProperties
<1>4. Confirmed = enqueued - Len(sensorUDPReplies)
  BY DEF Confirmed
<1>5. Confirmed' = Confirmed /\ enqueued + 1 = Confirmed + (Len(sensorUDPReplies) + 1)
  BY <1>2, <1>4, EnqueueConfirmed
<1>6. QueueInOrder'
  <2>1. ASSUME NEW i \in 1..Len(sensorUDPReplies')
        PROVE  sensorUDPReplies'[i] = Confirmed + i
    <3>1. CASE i \in 1..Len(sensorUDPReplies)
      BY <1>3, <3>1 DEF WholeInv, QueueInOrder
    <3>2. CASE i = Len(sensorUDPReplies) + 1
      BY <1>3, <1>5, <3>2
    <3> QED BY <1>2, <1>3, <3>1, <3>2
  <2> QED BY <1>5, <2>1 DEF WholeInv, QueueInOrder
<1>7. Requests \subseteq Requests' /\ Stored' = Stored
  BY <1>1, <1>2 DEF Requests, Stored
<1>8. ASSUME ~split
      PROVE  Intact' /\ InOrder'
  BY <1>1, <1>5, <1>7, <1>8 DEF WholeInv, Intact, InOrder
<1> QED BY <1>1, <1>6, <1>8 DEF WholeInv

\* A new session reads on an empty or an old buffer.
LEMMA OpenWhole ==
  ASSUME IInv, WholeInv, Open, UNCHANGED <<serverVars, sensorUDPReplies, enqueued>>
  PROVE  WholeInv'
<1>1. OldMemory \subseteq {<<>>} \cup Requests
  <2>1. \A i \in DOMAIN sensorMetadatas : sensorMetadatas[i] \in -enqueued..enqueued
    BY LenProperties DEF IInv, TypeOK
  <2>2. enqueued \in Nat
    BY UploadAssumption DEF IInv, TypeOK
  <2>3. {sensorMetadatas[i] : i \in DOMAIN sensorMetadatas} \cap (Nat \ {0}) \subseteq 1..enqueued
    BY <2>1, <2>2
  <2> QED BY <2>3 DEF OldMemory, Requests
<1>2. session' = "reading" /\ toServer' = <<>> /\ toGateway' = 0 /\ receiveBuffer' \in OldMemory
  BY DEF Open
<1> QED BY <1>1, <1>2, WholeKept

LEMMA BreakWhole == IInv /\ WholeInv /\ Break => WholeInv'
<1> SUFFICES ASSUME IInv, WholeInv, Break PROVE WholeInv'
  OBVIOUS
<1>1. /\ UNCHANGED <<serverVars, sensorUDPReplies, enqueued>>
      /\ session' = "none" /\ receiveBuffer' = <<>> /\ toServer' = <<>> /\ toGateway' = 0
  BY DEF Break, Close, queueVars
<1> QED BY <1>1, WholeKept

\* A connection that is refused changes nothing that the invariant speaks of.
LEMMA RefusedWhole ==
  ASSUME WholeInv, UNCHANGED <<queueVars, current, connectionVars, sessionVars, serverVars>>
  PROVE  WholeInv'
<1>1. /\ UNCHANGED <<serverVars, sensorUDPReplies, enqueued>>
      /\ UNCHANGED <<session, receiveBuffer, toServer, current, toGateway>>
  BY DEF queueVars, connectionVars, sessionVars
<1>2. ~split => toServer' \in {<<>>, Request(current')}
  BY <1>1 DEF WholeInv, Intact
<1> QED BY <1>1, <1>2, WholeKept

LEMMA ConnectWhole == IInv /\ WholeInv /\ (Connect \/ Reconnect) => WholeInv'
<1> SUFFICES ASSUME IInv, WholeInv, Connect \/ Reconnect PROVE WholeInv'
  OBVIOUS
<1>1. UNCHANGED <<queueVars, current, serverVars>>
  BY DEF Connect, Reconnect
<1>2. CASE Open
  BY <1>1, <1>2, OpenWhole DEF queueVars
<1>3. CASE UNCHANGED <<connectionVars, sessionVars>>
  BY <1>1, <1>3, RefusedWhole
<1> QED BY <1>2, <1>3 DEF Connect, Reconnect, Refused

LEMMA NothingAsked ==
  ASSUME IInv, uploader # "read"
  PROVE  toServer = <<>> /\ toGateway = 0
<1>1. toServer \in Seq(Unit) /\ Len(toServer) \in Nat /\ toGateway \in Nat
  BY LenProperties DEF IInv, TypeOK
<1>2. toGateway = 0 /\ Len(toServer) = 0
  BY <1>1 DEF IInv, OneRequest
<1> QED BY <1>1, <1>2, EmptySeq

LEMMA TakeFirstWhole == IInv /\ WholeInv /\ TakeFirst => WholeInv'
<1> SUFFICES ASSUME IInv, WholeInv, TakeFirst PROVE WholeInv'
  OBVIOUS
<1>1. toServer = <<>> /\ toGateway = 0
  BY NothingAsked DEF TakeFirst
<1>2. /\ UNCHANGED <<serverVars, sensorUDPReplies, enqueued>>
      /\ UNCHANGED <<session, receiveBuffer, toServer, toGateway>>
  BY DEF TakeFirst, connectionVars, sessionVars
<1> QED BY <1>1, <1>2, WholeKept

LEMMA SendRequestWhole == IInv /\ WholeInv /\ SendRequest => WholeInv'
<1> SUFFICES ASSUME IInv, WholeInv, SendRequest PROVE WholeInv'
  OBVIOUS
<1>1. toServer = <<>>
  BY NothingAsked DEF SendRequest
<1>2. current \in 1..enqueued
  BY HeadTailProperties DEF IInv, TypeOK, HeadIsSent, Busy, SendRequest
<1>3. toServer' = Request(current)
  <2>1. toServer' = <<>> \o Request(current)
    BY <1>1 DEF SendRequest
  <2>2. Request(current) \in Seq(Unit)
    BY <1>2, RequestType
  <2> QED BY <2>1, <2>2, ConcatEmptySeq
<1>4. /\ UNCHANGED <<serverVars, sensorUDPReplies, enqueued>>
      /\ UNCHANGED <<session, receiveBuffer, current, toGateway>>
  BY DEF SendRequest, queueVars, sessionVars
<1> QED BY <1>3, <1>4, WholeKept

LEMMA LostWhole == WholeInv /\ (ConnectionLost \/ UNCHANGED vars) => WholeInv'
<1> SUFFICES ASSUME WholeInv, ConnectionLost \/ UNCHANGED vars PROVE WholeInv'
  OBVIOUS
<1>1. UNCHANGED <<queueVars, current, connectionVars, sessionVars, serverVars>>
  BY DEF ConnectionLost, vars, uploadVars
<1> QED BY <1>1, RefusedWhole

LEMMA HandleWriteWhole == WholeInv /\ HandleWrite => WholeInv'
<1> SUFFICES ASSUME WholeInv, HandleWrite PROVE WholeInv'
  OBVIOUS
<1>1. /\ UNCHANGED <<serverVars, sensorUDPReplies, enqueued>>
      /\ UNCHANGED <<receiveBuffer, toServer, current, toGateway>> /\ session' = "reading"
  BY DEF HandleWrite, queueVars, uploadVars, connectionVars
<1>2. ~split => toServer' \in {<<>>, Request(current')}
  BY <1>1 DEF WholeInv, Intact
<1> QED BY <1>1, <1>2, WholeKept

\* The reply to the only request erases its data set, which the web server has.
LEMMA ReadReplyWhole ==
  ASSUME IInv, WholeInv, ReadReply
  PROVE  /\ WholeInv' /\ Confirmed' = Confirmed + 1
         /\ ~split => Confirmed + 1 \in Stored
<1>1. /\ sensorUDPReplies' = Tail(sensorUDPReplies)
      /\ enqueued' = enqueued /\ toGateway' = toGateway - 3 /\ toGateway >= 3
      /\ uploader = "read" /\ UNCHANGED <<current, toServer, session, receiveBuffer, serverVars>>
  BY DEF ReadReply, RequestLength, sessionVars
<1>2. /\ sensorUDPReplies \in Seq(Nat) /\ Len(sensorUDPReplies) \in Nat
      /\ sensorUDPReplies # <<>> /\ enqueued \in Nat /\ toGateway \in Nat
      /\ Len(toServer) \in Nat
  <2>1. 1..enqueued \subseteq Nat /\ sensorUDPReplies \in Seq(1..enqueued) /\ enqueued \in Nat
    BY UploadAssumption DEF IInv, TypeOK
  <2>2. sensorUDPReplies # <<>>
    BY <1>1 DEF IInv, HeadIsSent, Busy
  <2>3. toServer \in Seq(Unit) /\ toGateway \in Nat
    BY DEF IInv, TypeOK
  <2> QED BY <2>1, <2>2, <2>3, SeqMonotonic, LenProperties
<1>3. /\ Len(sensorUDPReplies') = Len(sensorUDPReplies) - 1
      /\ \A i \in 1..Len(sensorUDPReplies') : sensorUDPReplies'[i] = sensorUDPReplies[i + 1]
  BY <1>1, <1>2, HeadTailProperties
<1>4. Confirmed' = Confirmed + 1 /\ Confirmed \in Nat
  <2>1. Confirmed' = enqueued' - Len(sensorUDPReplies')
    BY DEF Confirmed
  <2>2. Confirmed = enqueued - Len(sensorUDPReplies) /\ Confirmed \in Nat
    BY DEF Confirmed, WholeInv, QueueInOrder
  <2> QED BY <1>1, <1>2, <1>3, <2>1, <2>2
<1>5. QueueInOrder'
  <2>1. ASSUME NEW i \in 1..Len(sensorUDPReplies')
        PROVE  sensorUDPReplies'[i] = Confirmed' + i
    <3>1. i \in Nat /\ i + 1 \in 1..Len(sensorUDPReplies)
      BY <1>2, <1>3, <2>1
    <3>2. sensorUDPReplies[i + 1] = Confirmed + (i + 1)
      BY <3>1 DEF WholeInv, QueueInOrder
    <3> QED BY <1>3, <1>4, <2>1, <3>1, <3>2
  <2> QED BY <1>4, <2>1 DEF QueueInOrder
<1>6. toGateway' = 0
  BY <1>1, <1>2 DEF IInv, OneRequest, RequestLength
<1>7. Requests' = Requests /\ Stored' = Stored
  BY <1>1 DEF Requests, Stored, serverVars
<1>8. ASSUME ~split
      PROVE  Intact' /\ InOrder' /\ Confirmed + 1 \in Stored
  <2>1. Intact /\ InOrder
    BY <1>8 DEF WholeInv
  <2>2. Confirmed + 1 \in Stored
    BY <1>1, <1>2, <2>1 DEF InOrder
  <2>3. Stored = 1..(Confirmed + 1)
    BY <1>4, <2>1, <2>2 DEF InOrder
  <2>4. Stored' = 1..Confirmed'
    BY <1>4, <1>7, <2>3
  <2>5. Intact'
    BY <1>1, <1>7, <2>1 DEF Intact, serverVars
  <2>6. InOrder'
    BY <1>1, <1>6, <2>1, <2>4 DEF InOrder, serverVars
  <2> QED BY <2>2, <2>5, <2>6
<1>9. split' = split
  BY <1>1 DEF serverVars
<1> QED BY <1>4, <1>5, <1>8, <1>9 DEF WholeInv

\* A request read in one piece is all there is in the buffer.
LEMMA ReadInOnePiece ==
  ASSUME IInv, WholeInv, NEW n \in 1..Len(toServer), ~split, ~(n < Len(toServer))
  PROVE  /\ n = 3 /\ toServer = Request(current) /\ uploader = "read" /\ toGateway = 0
         /\ current \in 1..enqueued /\ current = Confirmed + 1
         /\ Received(n) = Request(current)
         /\ requestBuffer \o Received(n) = Request(current)
<1>1. /\ TypeOK /\ Intact /\ toServer \in Seq(Unit) /\ Len(toServer) \in Nat /\ toGateway \in Nat
  BY LenProperties DEF IInv, TypeOK, WholeInv
<1>2. n \in Nat /\ n = Len(toServer) /\ toServer # <<>>
  BY <1>1, EmptySeq
<1>3. toServer = Request(current)
  BY <1>1, <1>2 DEF Intact
<1>4. uploader = "read"
  BY <1>2, NothingAsked
<1>5. /\ sensorUDPReplies \in Seq(1..enqueued) /\ sensorUDPReplies # <<>>
      /\ current = Head(sensorUDPReplies) /\ Len(sensorUDPReplies) \in Nat
  BY <1>1, <1>4, LenProperties DEF IInv, TypeOK, HeadIsSent, Busy
<1>6. current \in 1..enqueued /\ current = sensorUDPReplies[1] /\ 1 \in 1..Len(sensorUDPReplies)
  <2>1. current \in 1..enqueued
    BY <1>5, HeadTailProperties
  <2>2. Len(sensorUDPReplies) # 0
    BY <1>5, EmptySeq
  <2>3. Head(sensorUDPReplies) = sensorUDPReplies[1]
    BY <1>5
  <2> QED BY <1>5, <2>1, <2>2, <2>3
<1>7. current = Confirmed + 1
  BY <1>6 DEF WholeInv, QueueInOrder
<1>8. Len(toServer) = 3 /\ n = 3
  BY <1>2, <1>3, <1>6, RequestType DEF RequestLength
<1>9. toGateway = 0
  BY <1>1, <1>4, <1>8 DEF IInv, OneRequest, RequestLength
<1>10. SubSeq(toServer, 1, n) = Request(current)
  BY <1>1, <1>3, <1>8, SubSeqFull
<1>11. SubSeq(receiveBuffer, n + 1, Len(receiveBuffer)) = <<>>
  <2>1. Len(receiveBuffer) \in {0, 3}
    <3>1. CASE receiveBuffer = <<>>
      BY <3>1, EmptySeq
    <3>2. ASSUME NEW m \in 1..enqueued, receiveBuffer = Request(m)
          PROVE  Len(receiveBuffer) = 3
      BY <3>2, RequestType DEF RequestLength
    <3> QED BY <1>1, <3>1, <3>2 DEF Intact, Requests
  <2>2. receiveBuffer \in Seq(Unit)
    BY <1>1 DEF TypeOK
  <2>3. ASSUME NEW k \in {0, 3}
        PROVE  SubSeq(receiveBuffer, 4, k) = <<>>
    <3>1. k \in Int /\ k < 4
      OBVIOUS
    <3> QED BY <3>1, SubSeqEmpty
  <2>4. SubSeq(receiveBuffer, 4, Len(receiveBuffer)) = <<>>
    BY <2>1, <2>3, Zenon
  <2> QED BY <1>8, <2>4
<1>12. Request(current) \in Seq(Unit)
  BY <1>6, RequestType
<1>13. Received(n) = Request(current)
  <2>1. Received(n) = Request(current) \o <<>>
    BY <1>10, <1>11 DEF Received
  <2> QED BY <1>12, <2>1, ConcatEmptySeq
<1>14. requestBuffer \o Received(n) = Request(current)
  <2>1. requestBuffer \o Received(n) = <<>> \o Request(current)
    BY <1>1, <1>13 DEF Intact
  <2> QED BY <1>12, <2>1, ConcatEmptySeq
<1> QED BY <1>3, <1>4, <1>6, <1>7, <1>8, <1>9, <1>13, <1>14

\* What handle_read makes of one whole request.
LEMMA WholeRequest ==
  ASSUME NEW m \in 1..enqueued
  PROVE  LET content == SubSeq(Request(m), 2, 3)
         IN  /\ CompleteAt(Request(m)) = {1}
             /\ ParsedFrom(content) = {m} /\ ~MayThrow(content)
             /\ SubSeq(Request(m), 4, 3) = <<>>
<1> DEFINE r == Request(m)
           content == SubSeq(r, 2, 3)
<1>1. r \in Seq(Unit) /\ Len(r) = 3
  BY RequestType DEF RequestLength
<1>2. /\ r[1] = [of |-> m, part |-> "header"] /\ r[2] = [of |-> m, part |-> "fields"]
      /\ r[3] = [of |-> m, part |-> "timestamp"]
  BY DEF Request
<1> HIDE DEF r
<1>3. DOMAIN r = 1..3
  BY <1>1, LenProperties
<1>4. CompleteAt(r) = {1}
  <2>1. 1 \in CompleteAt(r)
    BY <1>1, <1>2, <1>3 DEF CompleteAt, ContentLength
  <2>2. \A h \in CompleteAt(r) : h \in 1..3 /\ r[h].part = "header"
    BY <1>3 DEF CompleteAt
  <2>3. r[2].part # "header" /\ r[3].part # "header"
    BY <1>2
  <2> QED BY <2>1, <2>2, <2>3
<1>5. \A i \in 2..3 : r[i] \in Unit
  <2>1. r \in [1..3 -> Unit]
    BY <1>1, LenProperties
  <2> QED BY <2>1
<1>6. Len(content) = 2 /\ \A i \in 1..2 : content[i] = r[2 + i - 1]
  BY <1>5, SubSeqProperties
<1>7. content[1] = r[2] /\ content[2] = r[3]
  BY <1>6
<1>8. SubSeq(r, 4, 3) = <<>>
  BY <1>1, SubSeqEmpty
<1> HIDE DEF content
<1>9. ParsedFrom(content) = {m} /\ ~MayThrow(content)
  BY <1>2, <1>7 DEF ParsedFrom, MayThrow
<1> QED BY <1>4, <1>8, <1>9 DEF r, content

LEMMA HandleIncompleteWhole ==
  ASSUME IInv, WholeInv, NEW n \in 1..Len(toServer), HandleIncomplete(n)
  PROVE  WholeInv' /\ split'
<1>1. split'
  <2> SUFFICES ASSUME ~split' PROVE FALSE
    BY DEF HandleIncomplete
  <2>1. ~split /\ ~(n < Len(toServer)) /\ CompleteAt(requestBuffer \o Received(n)) = {}
    BY DEF HandleIncomplete
  <2>2. /\ current \in 1..enqueued
        /\ requestBuffer \o Received(n) = Request(current)
    BY <2>1, ReadInOnePiece
  <2>3. CompleteAt(Request(current)) = {1}
    BY <2>2, WholeRequest
  <2> QED BY <2>1, <2>2, <2>3
<1>2. QueueInOrder'
  BY DEF HandleIncomplete, WholeInv, QueueInOrder, Confirmed, queueVars
<1> QED BY <1>1, <1>2 DEF WholeInv

\* A request in one piece is parsed, its data set stored, and nothing is left of it.
LEMMA HandleCompleteStep ==
  ASSUME IInv, WholeInv, NEW n \in 1..Len(toServer), HandleComplete(n), ~split'
  PROVE  /\ ~split /\ UNCHANGED webUp /\ requestBuffer' = <<>> /\ session' = "writing"
         /\ receiveBuffer' \in Requests /\ toServer' = <<>>
         /\ sensorMetadatas' = Append(sensorMetadatas, Confirmed + 1)
         /\ Confirmed + 1 \in 1..enqueued /\ UNCHANGED <<queueVars, uploadVars>>
<1>1. ~split /\ ~(n < Len(toServer))
  BY DEF HandleComplete
<1>2. /\ n = 3 /\ toServer = Request(current)
      /\ current \in 1..enqueued /\ current = Confirmed + 1
      /\ Received(n) = Request(current)
      /\ requestBuffer \o Received(n) = Request(current)
  BY <1>1, ReadInOnePiece
<1>3. /\ Request(current) \in Seq(Unit) /\ Len(Request(current)) = 3
  BY <1>2, RequestType DEF RequestLength
<1>4. /\ CompleteAt(Request(current)) = {1}
      /\ ParsedFrom(SubSeq(Request(current), 2, 3)) = {current}
      /\ ~MayThrow(SubSeq(Request(current), 2, 3))
      /\ SubSeq(Request(current), 4, 3) = <<>>
  BY <1>2, WholeRequest
<1> DEFINE buffer == requestBuffer \o Received(n)
           content(h) == SubSeq(buffer, h + 1, h + ContentLength)
<1>5. PICK h \in CompleteAt(buffer) :
        /\ requestBuffer' = SubSeq(buffer, h + ContentLength + 1, Len(buffer))
        /\ UNCHANGED <<queueVars, uploadVars>>
        /\ \/ /\ \E m \in ParsedFrom(content(h)) :
                   sensorMetadatas' = Append(sensorMetadatas, m)
              /\ toServer' = SubSeq(toServer, n + 1, Len(toServer))
              /\ session' = "writing" /\ receiveBuffer' = Received(n)
              /\ UNCHANGED webUp
           \/ MayThrow(content(h))
  BY DEF HandleComplete
<1>6. buffer = Request(current)
  BY <1>2
<1>7. h = 1
  BY <1>4, <1>6
<1>8. content(h) = SubSeq(Request(current), 2, 3)
  BY <1>6, <1>7 DEF ContentLength
<1>9. requestBuffer' = <<>> /\ UNCHANGED <<queueVars, uploadVars>>
  <2>1. SubSeq(buffer, h + ContentLength + 1, Len(buffer)) = SubSeq(Request(current), 4, 3)
    <3>1. h + ContentLength + 1 = 4
      BY <1>7 DEF ContentLength
    <3>2. Len(buffer) = 3
      BY <1>3, <1>6
    <3> HIDE DEF buffer
    <3> QED BY <1>6, <3>1, <3>2
  <2> QED BY <1>4, <1>5, <2>1
<1>10. /\ \E m \in ParsedFrom(SubSeq(Request(current), 2, 3)) :
            sensorMetadatas' = Append(sensorMetadatas, m)
       /\ toServer' = SubSeq(toServer, n + 1, Len(toServer))
       /\ session' = "writing" /\ receiveBuffer' = Received(n)
       /\ UNCHANGED webUp
  BY <1>4, <1>5, <1>8
<1>11. sensorMetadatas' = Append(sensorMetadatas, current)
  BY <1>4, <1>10
<1>12. toServer' = <<>> /\ receiveBuffer' = Request(current)
  <2>1. n + 1 = 4 /\ Len(toServer) = 3
    BY <1>2, <1>3
  <2>2. SubSeq(toServer, n + 1, Len(toServer)) = SubSeq(Request(current), 4, 3)
    BY <1>2, <2>1
  <2> QED BY <1>2, <1>4, <1>10, <2>2
<1>13. Request(current) \in Requests
  BY <1>2 DEF Requests
<1> QED BY <1>1, <1>2, <1>9, <1>10, <1>11, <1>12, <1>13

LEMMA HandleCompleteWhole ==
  ASSUME IInv, WholeInv, NEW n \in 1..Len(toServer), HandleComplete(n)
  PROVE  WholeInv'
<1>1. QueueInOrder'
  <2>1. UNCHANGED <<sensorUDPReplies, enqueued>>
    BY DEF HandleComplete, queueVars
  <2> QED BY <2>1 DEF WholeInv, QueueInOrder, Confirmed
<1>2. ASSUME ~split'
      PROVE  Intact' /\ InOrder'
  <2>1. /\ ~split /\ UNCHANGED webUp /\ requestBuffer' = <<>> /\ session' = "writing"
        /\ receiveBuffer' \in Requests /\ toServer' = <<>>
        /\ sensorMetadatas' = Append(sensorMetadatas, Confirmed + 1)
        /\ Confirmed + 1 \in 1..enqueued /\ UNCHANGED <<queueVars, uploadVars>>
    BY <1>2, HandleCompleteStep
  <2>2. Confirmed' = Confirmed /\ Requests' = Requests /\ Confirmed \in Nat
    BY <2>1 DEF Confirmed, Requests, queueVars, WholeInv, QueueInOrder
  <2>3. Intact /\ InOrder
    BY <2>1 DEF WholeInv
  <2>4. Intact'
    BY <2>1, <2>2, <2>3 DEF Intact
  <2>5. sensorMetadatas \in Seq(Int) /\ Len(sensorMetadatas) \in Nat
    <3>1. -enqueued..enqueued \subseteq Int /\ sensorMetadatas \in Seq(-enqueued..enqueued)
      BY DEF IInv, TypeOK
    <3> QED BY <3>1, SeqMonotonic, LenProperties
  <2>6. /\ DOMAIN sensorMetadatas = 1..Len(sensorMetadatas)
        /\ DOMAIN sensorMetadatas' = 1..(Len(sensorMetadatas) + 1)
        /\ \A i \in 1..Len(sensorMetadatas) : sensorMetadatas'[i] = sensorMetadatas[i]
        /\ sensorMetadatas'[Len(sensorMetadatas) + 1] = Confirmed + 1
    BY <2>1, <2>2, <2>5, AppendProperties, LenProperties
  <2>7. \A i \in DOMAIN sensorMetadatas :
          sensorMetadatas[i] \in Nat /\ sensorMetadatas[i] <= Confirmed + 1
    <3>1. \A i \in DOMAIN sensorMetadatas : sensorMetadatas[i] \in Stored
      BY DEF Stored
    <3>2. Stored \subseteq 1..(Confirmed + 1)
      BY <2>2, <2>3 DEF InOrder
    <3>3. \A x \in 1..(Confirmed + 1) : x \in Nat /\ x <= Confirmed + 1
      BY <2>2
    <3> QED BY <3>1, <3>2, <3>3
  <2>8. \A i, j \in DOMAIN sensorMetadatas' :
          i < j => sensorMetadatas'[i] <= sensorMetadatas'[j]
    BY <2>2, <2>3, <2>5, <2>6, <2>7 DEF InOrder
  <2>9. Stored' = Stored \cup {Confirmed + 1}
    <3>1. Stored' = {sensorMetadatas'[i] : i \in 1..(Len(sensorMetadatas) + 1)}
      BY <2>6 DEF Stored
    <3>2. Stored = {sensorMetadatas[i] : i \in 1..Len(sensorMetadatas)}
      BY <2>6 DEF Stored
    <3>3. 1..(Len(sensorMetadatas) + 1) = 1..Len(sensorMetadatas) \cup {Len(sensorMetadatas) + 1}
      BY <2>5
    <3> QED BY <2>6, <3>1, <3>2, <3>3
  <2>10. Stored' = 1..(Confirmed' + 1)
    BY <2>2, <2>3, <2>9 DEF InOrder
  <2>11. Confirmed' + 1 \in Stored'
    BY <2>2, <2>10
  <2> QED BY <2>4, <2>8, <2>10, <2>11 DEF InOrder
<1> QED BY <1>1, <1>2 DEF WholeInv

LEMMA StepWhole == IInv /\ WholeInv /\ [Next]_vars => WholeInv'
<1> SUFFICES ASSUME IInv, WholeInv, [Next]_vars PROVE WholeInv'
  OBVIOUS
<1>1. CASE Uploader
  BY <1>1, ConnectWhole, TakeFirstWhole, SendRequestWhole, ReadReplyWhole, LostWhole
     DEF Uploader
<1>2. CASE Session
  BY <1>2, HandleCompleteWhole, HandleIncompleteWhole, HandleWriteWhole DEF Session
<1> QED BY <1>1, <1>2, EnqueueWhole, BreakWhole, LostWhole DEF Next

LEMMA WholeInvariance == Spec => [](IInv /\ WholeInv)
<1>1. IInv /\ WholeInv /\ [Next]_vars => IInv' /\ WholeInv'
  BY StepIInv, StepWhole
<1> QED BY <1>1, InitIInv, InitWhole, PTL DEF Spec

\* As long as every request arrives in one piece, the web server has the data sets
\* in the order of the queue without a gap, and the queue has those it has not.
THEOREM WholeInOrder == Spec => []DeliveredInOrder
<1>1. IInv /\ WholeInv => DeliveredInOrder
  <2> SUFFICES ASSUME IInv, WholeInv, ~split PROVE DeliveredInOrder
    BY DEF DeliveredInOrder
  <2>1. Intact /\ InOrder /\ QueueInOrder /\ Confirmed \in Nat
    BY DEF WholeInv, QueueInOrder
  <2>2. ASSUME NEW k \in Nat, Stored = 1..k
        PROVE  Stored = 1..Cardinality(Stored)
    <3>1. Cardinality(1..k) = k
      <4>1. Cardinality(1..k) = IF 1 > k THEN 0 ELSE k - 1 + 1
        BY FS_Interval
      <4> QED BY <4>1
    <3> QED BY <2>2, <3>1
  <2>3. Stored = 1..Cardinality(Stored)
    <3>1. Confirmed + 1 \in Nat
      BY <2>1
    <3> QED BY <2>1, <2>2, <3>1 DEF InOrder
  <2>4. sensorUDPReplies \in Seq(1..enqueued) /\ enqueued \in Nat
    BY DEF IInv, TypeOK
  <2>5. Len(sensorUDPReplies) \in Nat /\ DOMAIN sensorUDPReplies = 1..Len(sensorUDPReplies)
    BY <2>4, LenProperties
  <2>6. enqueued = Confirmed + Len(sensorUDPReplies)
    BY <2>4, <2>5 DEF Confirmed
  <2>7. ASSUME NEW m \in 1..enqueued
        PROVE  m \in Stored \/ \E i \in DOMAIN sensorUDPReplies : sensorUDPReplies[i] = m
    <3>1. m \in Nat
      BY <2>4
    <3>2. CASE m <= Confirmed
      <4>1. m \in 1..Confirmed /\ m \in 1..(Confirmed + 1)
        BY <2>1, <2>4, <3>2
      <4> QED BY <2>1, <4>1 DEF InOrder
    <3>3. CASE m > Confirmed
      <4>1. m - Confirmed \in 1..Len(sensorUDPReplies) /\ Confirmed + (m - Confirmed) = m
        BY <2>1, <2>4, <2>5, <2>6, <3>1, <3>3
      <4>2. sensorUDPReplies[m - Confirmed] = Confirmed + (m - Confirmed)
        BY <2>1, <4>1 DEF QueueInOrder
      <4> QED BY <2>5, <4>1, <4>2
    <3> QED BY <2>1, <3>1, <3>2, <3>3
  <2> QED BY <2>1, <2>3, <2>7 DEF Intact, InOrder, DeliveredInOrder
<1> QED BY <1>1, WholeInvariance, PTL

-----------------------------------------------------------------------------
(* Requests in parts.  The web server answers three units only if it has read *)
(* the whole request at once: otherwise it finds no header in what remains of *)
(* it, and neither reads nor answers any more.                                *)

Headless(buffer) == \A i \in DOMAIN buffer : buffer[i].part # "header"

\* Only the first unit that data_ holds can be a header.
HeaderFirst == \A i \in DOMAIN receiveBuffer : receiveBuffer[i].part = "header" => i = 1

\* A header in the buffer is what came last, or only the fields of the data set that
\* is not confirmed or another header followed it.
HeaderLast ==
  \A i \in DOMAIN requestBuffer : requestBuffer[i].part = "header" =>
    /\ i >= Len(requestBuffer) - 1
    /\ i = Len(requestBuffer) - 1 =>
         \/ requestBuffer[i + 1].part = "header"
         \/ requestBuffer[i + 1] = [of |-> Confirmed + 1, part |-> "fields"]

Taken(m) == {m, Garbled(m)} \cap Stored # {}

\* What there is in the connection: nothing; a request; the whole reply to one whose
\* data set has been taken; or parts of both, which will never be enough.
Idle == toServer = <<>> /\ toGateway = 0 /\ Len(receiveBuffer) \in {0, 3}
Asked == toServer = Request(current) /\ toGateway = 0 /\ Len(receiveBuffer) \in {0, 3}
Answered ==
  /\ toServer = <<>> /\ toGateway = 3 /\ Len(receiveBuffer) = 3
  /\ Headless(requestBuffer) /\ Taken(Confirmed + 1)
Stuck == Headless(toServer) /\ Headless(requestBuffer) /\ toGateway \in 1..2

Exchange ==
  /\ session \in {"reading", "writing"} => Idle \/ Asked \/ Answered \/ Stuck
  /\ session = "silent" => toGateway < 3

CutInv == HeaderFirst /\ HeaderLast /\ Exchange /\ \A m \in 1..Confirmed : Taken(m)

LEMMA InitCut == Init => CutInv
<1> SUFFICES ASSUME Init PROVE CutInv
  OBVIOUS
<1>1. Len(<<>>) = 0 /\ DOMAIN <<>> = {}
  BY EmptySeq
<1>2. Confirmed = 0 /\ 1..Confirmed = {}
  <2>1. Confirmed = 0 - 0
    BY <1>1 DEF Init, Confirmed
  <2> QED BY <2>1
<1> QED BY <1>1, <1>2 DEF Init, CutInv, HeaderFirst, HeaderLast, Exchange

\* The parts of a request.
LEMMA RequestUnits ==
  ASSUME NEW m
  PROVE  /\ DOMAIN Request(m) = 1..3 /\ Request(m)[1].part = "header"
         /\ Request(m)[2] = [of |-> m, part |-> "fields"]
         /\ Request(m)[2].part # "header" /\ Request(m)[3].part # "header"
BY DEF Request

\* Steps that leave the web server's buffer and what it has taken alone.
LEMMA CutKept ==
  ASSUME CutInv, UNCHANGED <<requestBuffer, sensorMetadatas>>, Confirmed' = Confirmed,
         HeaderFirst', Exchange'
  PROVE  CutInv'
<1>1. \A m : Taken(m)' <=> Taken(m)
  BY DEF Taken, Stored
<1> QED BY <1>1 DEF CutInv, HeaderLast

\* With nothing on its way, a session that goes on is idle.
LEMMA NothingAskedIdle ==
  ASSUME IInv, CutInv, uploader # "read", session \in {"reading", "writing"}
  PROVE  Idle
<1>1. toServer = <<>> /\ toGateway = 0
  BY NothingAsked
<1> QED BY <1>1 DEF CutInv, Exchange, Idle, Asked, Answered, Stuck

LEMMA EnqueueCut == IInv /\ CutInv /\ Enqueue => CutInv'
<1> SUFFICES ASSUME IInv, CutInv, Enqueue PROVE CutInv'
  OBVIOUS
<1>1. UNCHANGED <<current, toServer, toGateway, session, receiveBuffer, requestBuffer, sensorMetadatas>>
  BY DEF Enqueue, uploadVars, connectionVars, sessionVars, serverVars
<1>2. Confirmed' = Confirmed
  BY EnqueueConfirmed
<1>3. \A m : Taken(m)' <=> Taken(m)
  BY <1>1 DEF Taken, Stored
<1> QED BY <1>1, <1>2, <1>3 DEF CutInv, HeaderFirst, HeaderLast, Exchange, Idle, Asked, Answered,
     Stuck, Headless

\* A connection is opened: its session reads on an empty or an old buffer.
LEMMA OpenCut ==
  ASSUME IInv, CutInv, Open, UNCHANGED <<requestBuffer, sensorMetadatas, sensorUDPReplies, enqueued>>
  PROVE  CutInv'
<1>1. ASSUME NEW m
      PROVE  /\ Len(Request(m)) = 3
             /\ \A i \in DOMAIN Request(m) : Request(m)[i].part = "header" => i = 1
  BY RequestUnits DEF Request
<1>2. Len(<<>>) = 0 /\ DOMAIN <<>> = {}
  BY EmptySeq
<1>3. receiveBuffer' = <<>> \/ \E m : receiveBuffer' = Request(m)
  BY DEF Open, OldMemory
<1>4. HeaderFirst' /\ Len(receiveBuffer') \in {0, 3}
  BY <1>1, <1>2, <1>3 DEF HeaderFirst
<1>5. Idle' /\ session' = "reading" /\ Confirmed' = Confirmed
  BY <1>4 DEF Idle, Open, Confirmed
<1> QED BY <1>4, <1>5, CutKept DEF Exchange

LEMMA BreakCut == IInv /\ CutInv /\ Break => CutInv'
<1> SUFFICES ASSUME IInv, CutInv, Break PROVE CutInv'
  OBVIOUS
<1>1. DOMAIN <<>> = {}
  BY EmptySeq
<1>2. HeaderFirst' /\ Exchange' /\ Confirmed' = Confirmed
  BY <1>1 DEF HeaderFirst, Exchange, Confirmed, Break, Close, queueVars
<1> QED BY <1>2, CutKept DEF Break, serverVars

\* The connection and its session are as they were.
LEMMA UntouchedCut ==
  ASSUME CutInv,
         UNCHANGED <<current, connectionVars, sessionVars, serverVars, sensorUDPReplies, enqueued>>
  PROVE  CutInv'
<1>1. UNCHANGED <<toServer, toGateway, session, receiveBuffer, requestBuffer, sensorMetadatas>>
  BY DEF connectionVars, sessionVars, serverVars
<1>2. Confirmed' = Confirmed /\ \A m : Taken(m)' <=> Taken(m)
  BY <1>1 DEF Confirmed, Taken, Stored
<1>3. HeaderFirst' /\ Exchange'
  BY <1>1, <1>2 DEF CutInv, HeaderFirst, Exchange, Idle, Asked, Answered, Stuck, Headless
<1> QED BY <1>1, <1>2, <1>3, CutKept

LEMMA ConnectCut == IInv /\ CutInv /\ (Connect \/ Reconnect) => CutInv'
<1> SUFFICES ASSUME IInv, CutInv, Connect \/ Reconnect PROVE CutInv'
  OBVIOUS
<1>1. /\ UNCHANGED <<sensorUDPReplies, enqueued, current, serverVars>>
      /\ UNCHANGED <<requestBuffer, sensorMetadatas>>
  BY DEF Connect, Reconnect, queueVars, serverVars
<1>2. CASE Open
  BY <1>1, <1>2, OpenCut
<1>3. CASE UNCHANGED <<connectionVars, sessionVars>>
  BY <1>1, <1>3, UntouchedCut
<1> QED BY <1>2, <1>3 DEF Connect, Reconnect, Refused

LEMMA TakeFirstCut == IInv /\ CutInv /\ TakeFirst => CutInv'
<1> SUFFICES ASSUME IInv, CutInv, TakeFirst PROVE CutInv'
  OBVIOUS
<1>1. /\ UNCHANGED <<toServer, toGateway, session, receiveBuffer, requestBuffer, sensorMetadatas>>
      /\ uploader # "read" /\ Confirmed' = Confirmed
  BY DEF TakeFirst, connectionVars, sessionVars, serverVars, Confirmed
<1>2. HeaderFirst'
  BY <1>1 DEF CutInv, HeaderFirst
<1>3. session' \in {"reading", "writing"} => Idle'
  BY <1>1, NothingAskedIdle DEF Idle
<1>4. session' = "silent" => toGateway' < 3
  BY <1>1 DEF CutInv, Exchange
<1> QED BY <1>1, <1>2, <1>3, <1>4, CutKept DEF Exchange

LEMMA SendRequestCut == IInv /\ CutInv /\ SendRequest => CutInv'
<1> SUFFICES ASSUME IInv, CutInv, SendRequest PROVE CutInv'
  OBVIOUS
<1>1. /\ UNCHANGED <<current, toGateway, session, receiveBuffer, requestBuffer, sensorMetadatas>>
      /\ uploader # "read" /\ Confirmed' = Confirmed
  BY DEF SendRequest, queueVars, sessionVars, serverVars, Confirmed
<1>2. HeaderFirst'
  BY <1>1 DEF CutInv, HeaderFirst
<1>3. toServer' = Request(current')
  <2>1. toServer' = <<>> \o Request(current)
    BY NothingAsked DEF SendRequest
  <2>2. current \in 1..enqueued
    BY HeadTailProperties DEF IInv, TypeOK, HeadIsSent, Busy, SendRequest
  <2>3. Request(current) \in Seq(Unit)
    BY <2>2, RequestType
  <2> QED BY <1>1, <2>1, <2>3, ConcatEmptySeq
<1>4. session' \in {"reading", "writing"} => Asked'
  BY <1>1, <1>3, NothingAskedIdle DEF Idle, Asked
<1>5. session' = "silent" => toGateway' < 3
  BY <1>1 DEF CutInv, Exchange
<1> QED BY <1>1, <1>2, <1>4, <1>5, CutKept DEF Exchange

LEMMA HandleWriteCut == IInv /\ CutInv /\ HandleWrite => CutInv'
<1> SUFFICES ASSUME IInv, CutInv, HandleWrite PROVE CutInv'
  OBVIOUS
<1>1. /\ UNCHANGED <<current, toServer, toGateway, receiveBuffer, requestBuffer, sensorMetadatas>>
      /\ session = "writing" /\ session' = "reading" /\ Confirmed' = Confirmed
  BY DEF HandleWrite, queueVars, uploadVars, connectionVars, serverVars, Confirmed
<1>2. \A m : Taken(m)' <=> Taken(m)
  BY <1>1 DEF Taken, Stored
<1>3. HeaderFirst' /\ Exchange'
  BY <1>1, <1>2 DEF CutInv, HeaderFirst, Exchange, Idle, Asked, Answered, Stuck, Headless
<1> QED BY <1>1, <1>3, CutKept

\* The data set that is erased has been taken.
LEMMA ReadReplyCut == IInv /\ WholeInv /\ CutInv /\ ReadReply => CutInv'
<1> SUFFICES ASSUME IInv, WholeInv, CutInv, ReadReply PROVE CutInv'
  OBVIOUS
<1>1. /\ UNCHANGED <<current, toServer, session, receiveBuffer, requestBuffer, sensorMetadatas>>
      /\ toGateway >= 3 /\ toGateway' = toGateway - 3
  BY DEF ReadReply, RequestLength, sessionVars, serverVars
<1>2. Confirmed' = Confirmed + 1 /\ Confirmed \in Nat
  BY ReadReplyWhole DEF WholeInv, QueueInOrder
<1>3. session \in {"reading", "writing"}
  <2>1. session # "none"
    BY <1>1 DEF IInv, TypeOK, Drained
  <2>2. session # "silent"
    <3>1. toGateway \in Nat
      BY DEF IInv, TypeOK
    <3> QED BY <1>1, <3>1 DEF CutInv, Exchange
  <2> QED BY <2>1, <2>2 DEF IInv, TypeOK
<1>4. Answered
  BY <1>1, <1>3 DEF CutInv, Exchange, Idle, Asked, Stuck
<1>5. \A m : Taken(m)' <=> Taken(m)
  BY <1>1 DEF Taken, Stored
<1>6. \A m \in 1..Confirmed' : Taken(m)'
  <2>1. \A m \in 1..(Confirmed + 1) : m \in 1..Confirmed \/ m = Confirmed + 1
    BY <1>2
  <2> QED BY <1>2, <1>4, <1>5, <2>1 DEF Answered, CutInv
<1>7. HeaderFirst' /\ HeaderLast'
  BY <1>1, <1>4 DEF CutInv, HeaderFirst, HeaderLast, Answered, Headless
<1>8. Idle'
  BY <1>1, <1>4 DEF Answered, Idle
<1>9. Exchange'
  BY <1>1, <1>3, <1>8 DEF Exchange
<1> QED BY <1>6, <1>7, <1>9 DEF CutInv

\* What waits to be read is the first data set that is not confirmed.
LEMMA AskedIsNext ==
  ASSUME IInv, WholeInv, toServer # <<>>
  PROVE  current \in 1..enqueued /\ current = Confirmed + 1
<1>1. uploader = "read"
  BY NothingAsked
<1>2. /\ sensorUDPReplies \in Seq(1..enqueued) /\ sensorUDPReplies # <<>>
      /\ current = Head(sensorUDPReplies) /\ Len(sensorUDPReplies) \in Nat
  BY <1>1, LenProperties DEF IInv, TypeOK, HeadIsSent, Busy
<1>3. current \in 1..enqueued
  BY <1>2, HeadTailProperties
<1>4. Len(sensorUDPReplies) # 0
  BY <1>2, EmptySeq
<1>5. current = sensorUDPReplies[1] /\ 1 \in 1..Len(sensorUDPReplies)
  <2>1. Head(sensorUDPReplies) = sensorUDPReplies[1]
    BY <1>2
  <2> QED BY <1>2, <1>4, <2>1
<1> QED BY <1>3, <1>5 DEF WholeInv, QueueInOrder

\* data_ after n units are read: they are followed by what was there.
LEMMA ReceivedUnits ==
  ASSUME TypeOK, NEW n \in 1..Len(toServer)
  PROVE  /\ Len(Received(n)) = IF Len(receiveBuffer) > n THEN Len(receiveBuffer) ELSE n
         /\ \A i \in 1..n : Received(n)[i] = toServer[i]
         /\ \A i \in (n + 1)..Len(receiveBuffer) : Received(n)[i] = receiveBuffer[i]
<1> DEFINE new == SubSeq(toServer, 1, n)
           old == SubSeq(receiveBuffer, n + 1, Len(receiveBuffer))
<1>1. toServer \in Seq(Unit) /\ receiveBuffer \in Seq(Unit)
  BY DEF TypeOK
<1>2. Len(toServer) \in Nat /\ Len(receiveBuffer) \in Nat /\ n \in Nat \ {0}
  BY <1>1, LenProperties
<1>3. new \in Seq(Unit) /\ old \in Seq(Unit)
  BY <1>1, <1>2, PartOfSeq
<1>4. Len(new) = n
  <2>1. Len(new) = IF 1 <= n THEN n - 1 + 1 ELSE 0
    BY <1>1, <1>2, PartOfSeq
  <2> QED BY <1>2, <2>1
<1>5. \A i \in 1..n : new[i] = toServer[i]
  <2>1. \A i \in 1..n : toServer[i] \in Unit
    BY <1>1, <1>2, ElementOfSeq
  <2>2. \A i \in 1..(n - 1 + 1) : new[i] = toServer[1 + i - 1]
    BY <1>2, <2>1, SubSeqProperties
  <2> QED BY <1>2, <2>2
<1>6. Len(old) = IF Len(receiveBuffer) > n THEN Len(receiveBuffer) - n ELSE 0
  <2>1. Len(old) = IF n + 1 <= Len(receiveBuffer) THEN Len(receiveBuffer) - (n + 1) + 1 ELSE 0
    BY <1>1, <1>2, PartOfSeq
  <2> QED BY <1>2, <2>1
<1>7. \A i \in (n + 1)..Len(receiveBuffer) : i - n \in 1..Len(old) /\ old[i - n] = receiveBuffer[i]
  <2>1. ASSUME NEW i \in (n + 1)..Len(receiveBuffer)
        PROVE  i - n \in 1..Len(old) /\ old[i - n] = receiveBuffer[i]
    <3>1. /\ i \in Nat /\ n + 1 <= Len(receiveBuffer)
          /\ i - n \in 1..(Len(receiveBuffer) - (n + 1) + 1)
          /\ (n + 1) + (i - n) - 1 = i /\ Len(old) = Len(receiveBuffer) - (n + 1) + 1
      BY <1>2, <1>6, <2>1
    <3>2. \A k \in (n + 1)..Len(receiveBuffer) : receiveBuffer[k] \in Unit
      BY <1>1, <1>2, ElementOfSeq
    <3>3. \A k \in 1..(Len(receiveBuffer) - (n + 1) + 1) :
            old[k] = receiveBuffer[(n + 1) + k - 1]
      BY <1>2, <3>1, <3>2, SubSeqProperties
    <3> QED BY <3>1, <3>3
  <2> QED BY <2>1
<1> HIDE DEF new, old
<1>8. /\ Len(new \o old) = Len(new) + Len(old)
      /\ \A i \in 1..(Len(new) + Len(old)) :
           (new \o old)[i] = IF i <= Len(new) THEN new[i] ELSE old[i - Len(new)]
  BY <1>3, ConcatProperties
<1>9. Received(n) = new \o old
  BY DEF Received, new, old
<1>10. Len(Received(n)) = IF Len(receiveBuffer) > n THEN Len(receiveBuffer) ELSE n
  BY <1>2, <1>4, <1>6, <1>8, <1>9
<1>11. \A i \in 1..n : Received(n)[i] = toServer[i]
  <2>1. \A i \in 1..n : i \in 1..(Len(new) + Len(old)) /\ i <= Len(new)
    BY <1>2, <1>4, <1>6
  <2> QED BY <1>5, <1>8, <1>9, <2>1
<1>12. \A i \in (n + 1)..Len(receiveBuffer) : Received(n)[i] = receiveBuffer[i]
  <2>1. \A i \in (n + 1)..Len(receiveBuffer) :
          i \in 1..(Len(new) + Len(old)) /\ ~(i <= Len(new)) /\ i - Len(new) = i - n
    BY <1>2, <1>4, <1>6
  <2> QED BY <1>7, <1>8, <1>9, <2>1
<1> QED BY <1>10, <1>11, <1>12

\* A session that reads, and what it makes of n units: a buffer whose first part is
\* what was there.
LEMMA ReadingUnits ==
  ASSUME IInv, WholeInv, CutInv, NEW n \in 1..Len(toServer), session = "reading"
  PROVE  LET L == Len(requestBuffer)
             buffer == requestBuffer \o Received(n)
         IN  /\ Asked \/ Stuck
             /\ L \in Nat /\ buffer \in Seq(Unit) /\ DOMAIN buffer = 1..Len(buffer)
             /\ Len(Received(n)) \in Nat /\ Len(Received(n)) >= n
             /\ Len(buffer) = L + Len(Received(n))
             /\ DOMAIN requestBuffer = 1..L
             /\ \A i \in 1..L : buffer[i] = requestBuffer[i]
             /\ \A i \in 1..Len(Received(n)) : buffer[L + i] = Received(n)[i]
             /\ \A i \in 1..Len(Received(n)) :
                  Received(n)[i].part = "header" => i = 1 /\ Asked
<1>1. /\ TypeOK /\ toServer \in Seq(Unit) /\ receiveBuffer \in Seq(Unit)
      /\ requestBuffer \in Seq(Unit)
  BY DEF IInv, TypeOK
<1>2. /\ Len(toServer) \in Nat /\ Len(receiveBuffer) \in Nat /\ Len(requestBuffer) \in Nat
      /\ DOMAIN toServer = 1..Len(toServer) /\ DOMAIN receiveBuffer = 1..Len(receiveBuffer)
      /\ DOMAIN requestBuffer = 1..Len(requestBuffer)
  BY <1>1, LenProperties
<1>3. toServer # <<>>
  BY <1>2, EmptySeq
<1>4. Asked \/ Stuck
  BY <1>3 DEF CutInv, Exchange, Idle, Answered
<1>5. Received(n) \in Seq(Unit) /\ requestBuffer \o Received(n) \in Seq(Unit)
  BY <1>1, ReceivedType
<1>6. Len(Received(n)) = IF Len(receiveBuffer) > n THEN Len(receiveBuffer) ELSE n
  BY <1>1, ReceivedUnits
<1>7. Len(Received(n)) \in Nat /\ Len(Received(n)) >= n
  BY <1>2, <1>6
<1>8. /\ Len(requestBuffer \o Received(n)) = Len(requestBuffer) + Len(Received(n))
      /\ \A i \in 1..(Len(requestBuffer) + Len(Received(n))) :
           (requestBuffer \o Received(n))[i] =
             IF i <= Len(requestBuffer) THEN requestBuffer[i]
             ELSE Received(n)[i - Len(requestBuffer)]
  BY <1>1, <1>5, ConcatProperties
<1>9. DOMAIN (requestBuffer \o Received(n)) = 1..Len(requestBuffer \o Received(n))
  BY <1>5, LenProperties
<1>10. \A i \in 1..Len(requestBuffer) : (requestBuffer \o Received(n))[i] = requestBuffer[i]
  <2>1. \A i \in 1..Len(requestBuffer) :
          i \in 1..(Len(requestBuffer) + Len(Received(n))) /\ i <= Len(requestBuffer)
    BY <1>2, <1>7
  <2> QED BY <1>8, <2>1
<1>11. \A i \in 1..Len(Received(n)) :
         (requestBuffer \o Received(n))[Len(requestBuffer) + i] = Received(n)[i]
  <2>1. \A i \in 1..Len(Received(n)) :
          /\ Len(requestBuffer) + i \in 1..(Len(requestBuffer) + Len(Received(n)))
          /\ ~(Len(requestBuffer) + i <= Len(requestBuffer))
          /\ (Len(requestBuffer) + i) - Len(requestBuffer) = i
    BY <1>2, <1>7
  <2> QED BY <1>8, <2>1
<1>12. ASSUME NEW i \in 1..Len(Received(n)), Received(n)[i].part = "header"
       PROVE  i = 1 /\ Asked
  <2>1. CASE i \in 1..n
    <3>1. Received(n)[i] = toServer[i] /\ i \in DOMAIN toServer
      BY <1>1, <1>2, <2>1, ReceivedUnits
    <3>2. CASE Stuck
      BY <1>12, <3>1, <3>2 DEF Stuck, Headless
    <3>3. CASE Asked
      <4>1. i \in 1..3 /\ Request(current)[i].part = "header"
        BY <1>12, <3>1, <3>3, RequestUnits DEF Asked
      <4>2. i = 1
        <5>1. i = 1 \/ i = 2 \/ i = 3
          BY <4>1
        <5> QED BY <4>1, <5>1, RequestUnits
      <4> QED BY <3>3, <4>2
    <3> QED BY <1>4, <3>2, <3>3
  <2>2. CASE i \in (n + 1)..Len(receiveBuffer)
    <3>1. Received(n)[i] = receiveBuffer[i] /\ i \in DOMAIN receiveBuffer /\ i # 1
      BY <1>1, <1>2, <2>2, ReceivedUnits
    <3> QED BY <1>12, <3>1 DEF CutInv, HeaderFirst
  <2> QED BY <1>2, <1>6, <2>1, <2>2
<1> QED BY <1>2, <1>4, <1>5, <1>7, <1>8, <1>9, <1>10, <1>11, <1>12

\* What is in memory after reading.
LEMMA ReceivedHeaderFirst ==
  ASSUME IInv, WholeInv, CutInv, NEW n \in 1..Len(toServer), session = "reading",
         receiveBuffer' = Received(n)
  PROVE  HeaderFirst'
<1>1. DOMAIN Received(n) = 1..Len(Received(n))
  BY ReceivedType, LenProperties DEF IInv
<1>2. \A i \in 1..Len(Received(n)) : Received(n)[i].part = "header" => i = 1
  BY ReadingUnits
<1>3. \A i \in DOMAIN receiveBuffer' : receiveBuffer'[i].part = "header" => i = 1
  BY <1>1, <1>2
<1> QED BY <1>3 DEF HeaderFirst

\* Without a complete request, a header is among what came last.
LEMMA HandleIncompleteCut ==
  ASSUME IInv, WholeInv, CutInv, NEW n \in 1..Len(toServer), HandleIncomplete(n)
  PROVE  CutInv'
<1> DEFINE L == Len(requestBuffer)
           R == Len(Received(n))
           buffer == requestBuffer \o Received(n)
           Header(i) == buffer[i].part = "header"
<1>1. /\ session = "reading" /\ session' = "silent" /\ CompleteAt(buffer) = {}
      /\ requestBuffer' = buffer /\ receiveBuffer' = Received(n)
      /\ UNCHANGED <<toGateway, sensorMetadatas, sensorUDPReplies, enqueued>>
  BY DEF HandleIncomplete, queueVars
<1>2. /\ Asked \/ Stuck
      /\ L \in Nat /\ DOMAIN buffer = 1..Len(buffer) /\ R \in Nat /\ R >= n
      /\ Len(buffer) = L + R /\ DOMAIN requestBuffer = 1..L
      /\ \A i \in 1..L : buffer[i] = requestBuffer[i]
      /\ \A i \in 1..R : buffer[L + i] = Received(n)[i]
      /\ \A i \in 1..R : Received(n)[i].part = "header" => i = 1 /\ Asked
  BY <1>1, ReadingUnits
<1>3. HeaderFirst' /\ Exchange'
  <2>1. toGateway < 3
    BY <1>2 DEF Asked, Stuck
  <2> QED BY <1>1, <2>1, ReceivedHeaderFirst DEF Exchange
<1>4. Confirmed' = Confirmed /\ \A m : Taken(m)' <=> Taken(m)
  BY <1>1 DEF Confirmed, Taken, Stored
<1>5. n \in Nat \ {0} /\ 1 <= R
  <2>1. Len(toServer) \in Nat
    BY LenProperties DEF IInv, TypeOK
  <2> QED BY <1>2, <2>1
<1>6. R = IF Len(receiveBuffer) > n THEN Len(receiveBuffer) ELSE n
  BY ReceivedUnits DEF IInv
<1> HIDE DEF L, R, buffer
<1>7. ASSUME NEW i \in 1..(L + R), Header(i)
      PROVE  /\ i >= L + R - 1
             /\ i = L + R - 1 => Header(i + 1) \/ buffer[i + 1] = [of |-> Confirmed + 1, part |-> "fields"]
  <2>1. CASE Stuck
    <3>1. i \notin 1..L
      BY <1>2, <1>7, <2>1 DEF Stuck, Headless
    <3>2. i - L \in 1..R /\ L + (i - L) = i
      BY <1>2, <3>1
    <3>3. Asked
      BY <1>2, <1>7, <3>2
    <3> QED BY <2>1, <3>3 DEF Asked, Stuck
  <2>2. CASE Asked
    <3>1. toServer # <<>> /\ toServer = Request(current) /\ current = Confirmed + 1
      <4>1. toServer # <<>>
        BY <1>5, EmptySeq
      <4> QED BY <2>2, <4>1, AskedIsNext DEF Asked
    <3>2. Header(L + 1)
      <4>1. Received(n)[1] = toServer[1]
        BY <1>5, ReceivedUnits DEF IInv
      <4>2. buffer[L + 1] = toServer[1]
        BY <1>2, <1>5, <4>1
      <4> QED BY <3>1, <4>2, RequestUnits
    <3>3. ASSUME NEW h \in 1..(L + R), Header(h), \A k \in 1..(h - 1) : ~Header(k)
          PROVE  L + R < h + 2
      <4>1. ~(Len(buffer) >= h + 2)
        BY <1>1, <1>2, <3>3 DEF CompleteAt, ContentLength, buffer
      <4> QED BY <1>2, <4>1
    <3>4. \A k \in 1..L : Header(k) => k >= L - 1
      BY <1>2 DEF CutInv, HeaderLast, L
    <3>5. \A k \in 1..(L - 1) : ~Header(k)
      <4> SUFFICES ASSUME NEW k \in 1..(L - 1), Header(k) PROVE FALSE
        OBVIOUS
      <4>1. k \in 1..L /\ k = L - 1 /\ k \in 1..(L + R)
        BY <1>2, <1>5, <3>4
      <4>2. \A j \in 1..(k - 1) : ~Header(j)
        <5>1. \A j \in 1..(k - 1) : j \in 1..L /\ ~(j >= L - 1)
          BY <1>2, <4>1
        <5> QED BY <3>4, <5>1
      <4>3. L + R < k + 2
        BY <3>3, <4>1, <4>2
      <4> QED BY <1>2, <1>5, <4>1, <4>3
    <3>6. i >= L
      BY <1>2, <1>7, <3>5
    <3>7. i > L => i = L + 1
      <4>1. i > L => i - L \in 1..R /\ L + (i - L) = i
        BY <1>2
      <4>2. i > L => i - L = 1
        BY <1>2, <1>7, <4>1
      <4> QED BY <1>2, <4>2
    <3>8. CASE L > 0 /\ Header(L)
      <4>1. L \in 1..(L + R) /\ L + R < L + 2
        BY <1>2, <1>5, <3>3, <3>5, <3>8
      <4>2. R = 1
        BY <1>2, <1>5, <4>1
      <4> QED BY <1>2, <3>2, <3>6, <4>2
    <3>9. CASE ~(L > 0 /\ Header(L))
      <4>1. i = L + 1
        BY <1>2, <1>7, <3>6, <3>7, <3>9
      <4>2. \A k \in 1..((L + 1) - 1) : ~Header(k)
        <5>1. \A k \in 1..((L + 1) - 1) : k \in 1..(L - 1) \/ (k = L /\ L > 0)
          BY <1>2
        <5> QED BY <3>5, <3>9, <5>1
      <4>3. L + R < (L + 1) + 2
        BY <1>7, <3>2, <3>3, <4>1, <4>2
      <4>4. R <= 2
        BY <1>2, <4>3
      <4>5. ASSUME R = 2
            PROVE  buffer[i + 1] = [of |-> Confirmed + 1, part |-> "fields"]
        <5>1. n = 2
          <6>1. Len(receiveBuffer) = 0 \/ Len(receiveBuffer) = 3
            BY <2>2 DEF Asked
          <6>2. Len(receiveBuffer) = 0 => R = n
            BY <1>5, <1>6
          <6>3. Len(receiveBuffer) = 3 => R >= 3
            BY <1>5, <1>6
          <6> QED BY <4>5, <6>1, <6>2, <6>3
        <5>2. Received(n)[2] = toServer[2]
          BY <5>1, ReceivedUnits DEF IInv
        <5>3. buffer[L + 2] = toServer[2] /\ i + 1 = L + 2
          BY <1>2, <4>1, <4>5, <5>2
        <5> QED BY <3>1, <5>3, RequestUnits
      <4> QED BY <1>2, <1>5, <4>1, <4>4, <4>5
    <3> QED BY <3>8, <3>9
  <2> QED BY <1>2, <2>1, <2>2
<1>8. HeaderLast'
  BY <1>1, <1>2, <1>4, <1>7 DEF HeaderLast
<1> QED BY <1>3, <1>4, <1>8 DEF CutInv

\* With a complete request, all the headers are in it: none is left in the buffer.
LEMMA CompleteHeader ==
  ASSUME IInv, WholeInv, CutInv, NEW n \in 1..Len(toServer), session = "reading",
         NEW h \in CompleteAt(requestBuffer \o Received(n))
  PROVE  LET L == Len(requestBuffer)
             buffer == requestBuffer \o Received(n)
         IN  /\ Asked /\ h \in {L - 1, L, L + 1}
             /\ h = L - 1 => \/ buffer[h + 1].part = "header"
                             \/ buffer[h + 1] = [of |-> Confirmed + 1, part |-> "fields"]
             /\ Headless(SubSeq(buffer, h + ContentLength + 1, Len(buffer)))
<1> DEFINE L == Len(requestBuffer)
           R == Len(Received(n))
           buffer == requestBuffer \o Received(n)
<1>1. /\ Asked \/ Stuck
      /\ L \in Nat /\ buffer \in Seq(Unit) /\ DOMAIN buffer = 1..Len(buffer) /\ R \in Nat
      /\ Len(buffer) = L + R /\ DOMAIN requestBuffer = 1..L
      /\ \A i \in 1..L : buffer[i] = requestBuffer[i]
      /\ \A i \in 1..R : buffer[L + i] = Received(n)[i]
      /\ \A i \in 1..R : Received(n)[i].part = "header" => i = 1 /\ Asked
  BY ReadingUnits
<1>2. h \in 1..(L + R) /\ buffer[h].part = "header" /\ L + R >= h + 2
  BY <1>1 DEF CompleteAt, ContentLength
<1> HIDE DEF L, R, buffer
<1>3. ASSUME h \in 1..L
      PROVE  /\ Asked /\ h \in {L - 1, L}
             /\ h = L - 1 => \/ buffer[h + 1].part = "header"
                             \/ buffer[h + 1] = [of |-> Confirmed + 1, part |-> "fields"]
  <2>1. requestBuffer[h].part = "header" /\ h \in DOMAIN requestBuffer
    BY <1>1, <1>2, <1>3
  <2>2. Asked
    BY <1>1, <2>1 DEF Stuck, Headless
  <2>3. /\ h >= L - 1
        /\ h = L - 1 => \/ requestBuffer[h + 1].part = "header"
                        \/ requestBuffer[h + 1] = [of |-> Confirmed + 1, part |-> "fields"]
    BY <2>1 DEF CutInv, HeaderLast, L
  <2>4. h \in {L - 1, L} /\ (h = L - 1 => buffer[h + 1] = requestBuffer[h + 1])
    <3>1. h = L - 1 \/ h = L
      BY <1>1, <1>3, <2>3
    <3>2. h = L - 1 => h + 1 \in 1..L
      BY <1>1, <1>3
    <3> QED BY <1>1, <3>1, <3>2
  <2> QED BY <2>2, <2>3, <2>4
<1>4. ASSUME h \notin 1..L
      PROVE  Asked /\ h = L + 1
  <2>1. h - L \in 1..R /\ L + (h - L) = h
    BY <1>1, <1>2, <1>4
  <2>2. h - L = 1 /\ Asked
    BY <1>1, <1>2, <2>1
  <2> QED BY <1>1, <2>1, <2>2
<1>5. Asked /\ h \in {L - 1, L, L + 1}
  BY <1>3, <1>4
<1>6. h = L - 1 => \/ buffer[h + 1].part = "header"
                   \/ buffer[h + 1] = [of |-> Confirmed + 1, part |-> "fields"]
  <2>1. h = L - 1 => h \in 1..L
    BY <1>1, <1>2
  <2> QED BY <1>3, <2>1
<1>7. Headless(SubSeq(buffer, h + ContentLength + 1, Len(buffer)))
  <2> DEFINE rest == SubSeq(buffer, h + 3, Len(buffer))
  <2>1. h \in Nat /\ h + 3 \in Nat \ {0} /\ Len(buffer) \in 0..Len(buffer) /\ h + ContentLength + 1 = h + 3
    BY <1>1, <1>2 DEF ContentLength
  <2>2. \A i \in DOMAIN rest :
          (h + 3) + i - 1 \in (h + 3)..Len(buffer) /\ rest[i] = buffer[(h + 3) + i - 1]
    BY <1>1, <2>1, PartUnits
  <2>3. \A k \in (h + 3)..Len(buffer) : buffer[k].part # "header"
    <3> SUFFICES ASSUME NEW k \in (h + 3)..Len(buffer) PROVE buffer[k].part # "header"
      OBVIOUS
    <3>1. k - L \in 1..R /\ k - L > 1 /\ L + (k - L) = k
      BY <1>1, <1>5, <2>1
    <3>2. Received(n)[k - L].part # "header"
      BY <1>1, <3>1
    <3>3. buffer[L + (k - L)] = Received(n)[k - L]
      BY <1>1, <3>1
    <3> QED BY <3>1, <3>2, <3>3
  <2> HIDE DEF rest
  <2>4. Headless(rest)
    BY <2>2, <2>3 DEF Headless
  <2> QED BY <2>1, <2>4 DEF rest
<1> QED BY <1>5, <1>6, <1>7 DEF L, buffer

\* The data set that is answered has been taken, or the answer is not long enough.
LEMMA HandleCompleteCut ==
  ASSUME IInv, WholeInv, CutInv, NEW n \in 1..Len(toServer), HandleComplete(n)
  PROVE  CutInv'
<1> DEFINE L == Len(requestBuffer)
           R == Len(Received(n))
           buffer == requestBuffer \o Received(n)
           content(h) == SubSeq(buffer, h + 1, h + ContentLength)
<1>1. PICK h \in CompleteAt(buffer) :
        /\ session = "reading"
        /\ requestBuffer' = SubSeq(buffer, h + ContentLength + 1, Len(buffer))
        /\ UNCHANGED <<queueVars, uploadVars>>
        /\ \/ /\ \E m \in ParsedFrom(content(h)) :
                   sensorMetadatas' = Append(sensorMetadatas, m)
              /\ toServer' = SubSeq(toServer, n + 1, Len(toServer))
              /\ toGateway' = toGateway + n
              /\ session' = "writing" /\ receiveBuffer' = Received(n)
           \/ Close /\ UNCHANGED sensorMetadatas
  BY DEF HandleComplete
<1>2. /\ L \in Nat /\ buffer \in Seq(Unit) /\ DOMAIN buffer = 1..Len(buffer) /\ R \in Nat
      /\ Len(buffer) = L + R /\ R >= n
      /\ \A i \in 1..R : buffer[L + i] = Received(n)[i]
  BY <1>1, ReadingUnits
<1>3. /\ Asked /\ h \in {L - 1, L, L + 1}
      /\ h = L - 1 => \/ buffer[h + 1].part = "header"
                      \/ buffer[h + 1] = [of |-> Confirmed + 1, part |-> "fields"]
      /\ Headless(requestBuffer')
  BY <1>1, CompleteHeader
<1>4. h \in 1..(L + R) /\ L + R >= h + 2
  BY <1>2 DEF CompleteAt, ContentLength
<1>5. Confirmed' = Confirmed /\ UNCHANGED current
  BY <1>1 DEF Confirmed, queueVars, uploadVars
<1>6. HeaderLast'
  BY <1>3 DEF HeaderLast, Headless
<1>7. toServer # <<>> /\ toServer = Request(current) /\ current = Confirmed + 1 /\ toGateway = 0
  <2>1. Len(toServer) \in Nat /\ n \in 1..Len(toServer)
    BY LenProperties DEF IInv, TypeOK
  <2>2. toServer # <<>>
    BY <2>1, EmptySeq
  <2> QED BY <1>3, <2>2, AskedIsNext DEF Asked
<1>8. toServer \in Seq(Unit) /\ Len(toServer) = 3 /\ n \in 1..3
  <2>1. Len(Request(current)) = 3
    BY DEF Request
  <2> QED BY <1>7, <2>1 DEF IInv, TypeOK
<1> HIDE DEF L, R, buffer
<1>9. CASE Close /\ UNCHANGED sensorMetadatas
  <2>1. \A m : Taken(m)' <=> Taken(m)
    BY <1>9 DEF Taken, Stored
  <2>2. DOMAIN <<>> = {}
    BY EmptySeq
  <2>3. HeaderFirst' /\ Exchange'
    BY <1>9, <2>2 DEF Close, HeaderFirst, Exchange
  <2> QED BY <1>5, <1>6, <2>1, <2>3 DEF CutInv
<1>10. ASSUME NEW m \in ParsedFrom(content(h)), sensorMetadatas' = Append(sensorMetadatas, m),
              toServer' = SubSeq(toServer, n + 1, Len(toServer)), toGateway' = toGateway + n,
              session' = "writing", receiveBuffer' = Received(n)
       PROVE  CutInv'
  <2>1. HeaderFirst'
    BY <1>1, <1>10, ReceivedHeaderFirst
  <2>2. m \in Stored' /\ Stored \subseteq Stored'
    <3>1. sensorMetadatas \in Seq(Int) /\ m \in Int
      <4>2. enqueued \in Nat
        BY UploadAssumption DEF IInv, TypeOK
      <4>3. ParsedFrom(content(h)) \subseteq -enqueued..enqueued
        BY <1>2, <4>2, ContentType
      <4>1. -enqueued..enqueued \subseteq Int /\ sensorMetadatas \in Seq(-enqueued..enqueued)
        BY DEF IInv, TypeOK
      <4> QED BY <1>10, <4>1, <4>2, <4>3, SeqMonotonic
    <3>2. Len(sensorMetadatas) \in Nat /\ DOMAIN sensorMetadatas = 1..Len(sensorMetadatas)
      BY <3>1, LenProperties
    <3>3. /\ DOMAIN sensorMetadatas' = 1..(Len(sensorMetadatas) + 1)
          /\ \A i \in 1..Len(sensorMetadatas) : sensorMetadatas'[i] = sensorMetadatas[i]
          /\ sensorMetadatas'[Len(sensorMetadatas) + 1] = m
      BY <1>10, <3>1, AppendProperties, LenProperties
    <3>4. 1..Len(sensorMetadatas) \subseteq DOMAIN sensorMetadatas'
          /\ Len(sensorMetadatas) + 1 \in DOMAIN sensorMetadatas'
      BY <3>2, <3>3
    <3> QED BY <3>2, <3>3, <3>4 DEF Stored
  <2>3. \A k : Taken(k) => Taken(k)'
    BY <2>2 DEF Taken
  <2>4. CASE n = 3
    <3>1. toServer' = <<>> /\ toGateway' = 3
      BY <1>7, <1>8, <1>10, <2>4, SubSeqEmpty
    <3>2. Len(receiveBuffer') = 3
      <4>1. Len(receiveBuffer) = 0 \/ Len(receiveBuffer) = 3
        BY <1>3 DEF Asked
      <4>2. Len(Received(n)) = IF Len(receiveBuffer) > n THEN Len(receiveBuffer) ELSE n
        BY ReceivedUnits DEF IInv
      <4> QED BY <1>10, <2>4, <4>1, <4>2
    <3>3. /\ Received(n)[1] = toServer[1] /\ Received(n)[2] = toServer[2]
          /\ R >= 3
      <4>1. \A i \in 1..n : Received(n)[i] = toServer[i]
        BY ReceivedUnits DEF IInv
      <4> QED BY <1>2, <2>4, <4>1
    <3>4. /\ buffer[L + 1].part = "header"
          /\ buffer[L + 2] = [of |-> Confirmed + 1, part |-> "fields"]
      BY <1>2, <1>7, <3>3, RequestUnits
    <3>5. content(h)[1] = buffer[h + 1]
      <4>1. content(h)[1] = buffer[(h + 1) + 1 - 1]
        <5>1. \A i \in (h + 1)..(h + 2) : buffer[i] \in Unit
          BY <1>2, <1>4, ElementOfSeq
        <5>2. 1 \in 1..((h + 2) - (h + 1) + 1) /\ h + 1 \in Int /\ h + 2 \in Int
          BY <1>2, <1>4
        <5>3. \A i \in 1..((h + 2) - (h + 1) + 1) :
                SubSeq(buffer, h + 1, h + 2)[i] = buffer[(h + 1) + i - 1]
          BY <5>1, <5>2, SubSeqProperties
        <5> QED BY <5>2, <5>3 DEF ContentLength
      <4>2. (h + 1) + 1 - 1 = h + 1
        BY <1>2, <1>4
      <4> QED BY <4>1, <4>2
    <3>6. buffer[h + 1].part = "header" \/ buffer[h + 1] = [of |-> Confirmed + 1, part |-> "fields"]
      <4>1. h = L - 1 \/ h + 1 = L + 1 \/ h + 1 = L + 2
        BY <1>2, <1>3
      <4> QED BY <1>3, <3>4, <4>1
    <3>7. m \in {Confirmed + 1, Garbled(Confirmed + 1)}
      <4>1. m \in ParsedFrom(content(h))
        BY <1>10
      <4> HIDE DEF content
      <4>2. content(h)[1].part = "header" \/ content(h)[1] = [of |-> Confirmed + 1, part |-> "fields"]
        BY <3>5, <3>6
      <4> QED BY <4>1, <4>2 DEF ParsedFrom
    <3>8. Taken(Confirmed + 1)'
      BY <1>5, <2>2, <3>7 DEF Taken
    <3>9. Answered'
      BY <1>3, <3>1, <3>2, <3>8 DEF Answered
    <3> QED BY <1>5, <1>6, <1>10, <2>1, <2>3, <3>9 DEF CutInv, Exchange
  <2>5. CASE n # 3
    <3>1. toGateway' \in 1..2
      BY <1>7, <1>8, <1>10, <2>5
    <3>2. Headless(toServer')
      <4>1. n + 1 \in Nat \ {0} /\ Len(toServer) \in 0..Len(toServer)
        BY <1>8
      <4>2. \A i \in DOMAIN toServer' :
              /\ (n + 1) + i - 1 \in (n + 1)..Len(toServer)
              /\ toServer'[i] = toServer[(n + 1) + i - 1]
        BY <1>8, <1>10, <4>1, PartUnits
      <4>3. \A k \in (n + 1)..Len(toServer) : toServer[k].part # "header"
        <5>1. \A k \in (n + 1)..Len(toServer) : k = 2 \/ k = 3
          BY <1>8
        <5> QED BY <1>7, <5>1, RequestUnits
      <4> QED BY <4>2, <4>3 DEF Headless
    <3>3. Stuck'
      BY <1>3, <3>1, <3>2 DEF Stuck
    <3> QED BY <1>5, <1>6, <1>10, <2>1, <2>3, <3>3 DEF CutInv, Exchange
  <2> QED BY <2>4, <2>5
<1> QED BY <1>1, <1>9, <1>10

LEMMA StepCut == IInv /\ WholeInv /\ CutInv /\ [Next]_vars => CutInv'
<1> SUFFICES ASSUME IInv, WholeInv, CutInv, [Next]_vars PROVE CutInv'
  OBVIOUS
<1>1. CASE ConnectionLost \/ UNCHANGED vars
  <2>1. UNCHANGED <<current, connectionVars, sessionVars, serverVars, sensorUDPReplies, enqueued>>
    BY <1>1 DEF ConnectionLost, vars, queueVars, uploadVars
  <2> QED BY <2>1, UntouchedCut
<1>2. CASE Uploader
  BY <1>1, <1>2, ConnectCut, TakeFirstCut, SendRequestCut, ReadReplyCut DEF Uploader
<1>3. CASE Session
  BY <1>3, HandleCompleteCut, HandleIncompleteCut, HandleWriteCut DEF Session
<1> QED BY <1>1, <1>2, <1>3, EnqueueCut, BreakCut DEF Next

\* However requests are cut and connections break: sendRequestsToWebserver erases a
\* data set only when handle_read has taken it, at worst with another's timestamp.
THEOREM ErasedIsTaken == Spec => []ErasedWasTaken
<1>1. CutInv => ErasedWasTaken
  BY DEF CutInv, Taken, Confirmed, ErasedWasTaken
<1>2. IInv /\ WholeInv /\ CutInv /\ [Next]_vars => CutInv'
  BY StepCut
<1> QED BY <1>1, <1>2, InitCut, WholeInvariance, PTL DEF Spec

-----------------------------------------------------------------------------
(* The at-least-once queue *)

LEMMA InitQueue == Init => Queue!Init
<1> SUFFICES ASSUME Init PROVE Queue!Init
  OBVIOUS
<1>1. enqueued - Len(sensorUDPReplies) = 0
  <2>1. Len(<<>>) = 0
    BY EmptySeq
  <2>2. enqueued = 0 /\ Len(sensorUDPReplies) = 0
    BY <2>1 DEF Init
  <2> QED BY <2>2
<1> QED BY <1>1 DEF Init, Queue!Init

LEMMA EnqueueAccepts == IInv /\ Enqueue => Queue!Accept
<1> SUFFICES ASSUME IInv, Enqueue PROVE Queue!Accept
  OBVIOUS
<1>1. /\ sensorUDPReplies' = Append(sensorUDPReplies, enqueued + 1)
      /\ enqueued' = enqueued + 1 /\ UNCHANGED <<sensorMetadatas, split>>
  BY DEF Enqueue, serverVars
<1>2. sensorUDPReplies \in Seq(Nat) /\ Len(sensorUDPReplies) \in Nat /\ enqueued \in Nat
  <2>1. 1..enqueued \subseteq Nat /\ sensorUDPReplies \in Seq(1..enqueued) /\ enqueued \in Nat
    BY UploadAssumption DEF IInv, TypeOK
  <2> QED BY <2>1, SeqMonotonic, LenProperties
<1>3. Len(sensorUDPReplies') = Len(sensorUDPReplies) + 1
  BY <1>1, <1>2, AppendProperties
<1>4. enqueued' - Len(sensorUDPReplies') = enqueued - Len(sensorUDPReplies)
  BY <1>1, <1>2, <1>3
<1> QED BY <1>1, <1>4 DEF Queue!Accept

LEMMA HandleCompleteDelivers ==
  ASSUME IInv, WholeInv, NEW n \in 1..Len(toServer), HandleComplete(n)
  PROVE  Queue!Next
<1>1. CASE split'
  BY <1>1 DEF Queue!Next
<1>2. CASE ~split'
  <2>1. /\ ~split /\ sensorMetadatas' = Append(sensorMetadatas, Confirmed + 1)
        /\ Confirmed + 1 \in 1..enqueued /\ UNCHANGED <<queueVars, uploadVars>>
    BY <1>2, HandleCompleteStep
  <2>2. UNCHANGED <<enqueued, sensorUDPReplies>> /\ split' = split
    BY <1>2, <2>1 DEF queueVars, IInv, TypeOK, HandleComplete
  <2>3. Confirmed < enqueued
    BY <2>1 DEF WholeInv, QueueInOrder, IInv, TypeOK
  <2> QED BY <2>1, <2>2, <2>3 DEF Confirmed, Queue!Deliver, Queue!Next
<1> QED BY <1>1, <1>2

LEMMA ReadReplyConfirms == IInv /\ WholeInv /\ ReadReply => Queue!Next
<1> SUFFICES ASSUME IInv, WholeInv, ReadReply PROVE Queue!Next
  OBVIOUS
<1>1. Confirmed' = Confirmed + 1 /\ (~split => Confirmed + 1 \in Stored)
  BY ReadReplyWhole
<1>2. UNCHANGED <<enqueued, sensorMetadatas, split>>
  BY DEF ReadReply, serverVars
<1>3. CASE split
  BY <1>2, <1>3 DEF Queue!Next
<1>4. CASE ~split
  <2>1. \E i \in DOMAIN sensorMetadatas : sensorMetadatas[i] = Confirmed + 1
    BY <1>1, <1>4 DEF Stored
  <2> QED BY <1>1, <1>2, <2>1 DEF Confirmed, Queue!Confirm, Queue!Next
<1> QED BY <1>3, <1>4

LEMMA StepQueue == IInv /\ WholeInv /\ [Next]_vars => [Queue!Next]_Queue!vars
<1> SUFFICES ASSUME IInv, WholeInv, [Next]_vars PROVE [Queue!Next]_Queue!vars
  OBVIOUS
<1>1. UNCHANGED <<enqueued, sensorUDPReplies, sensorMetadatas, split>> => UNCHANGED Queue!vars
  BY DEF Queue!vars
<1>2. CASE Enqueue
  BY <1>2, EnqueueAccepts DEF Queue!Next
<1>3. CASE Break
  BY <1>1, <1>3 DEF Break, queueVars, serverVars
<1>4. CASE Connect \/ Reconnect
  BY <1>1, <1>4 DEF Connect, Reconnect, queueVars, serverVars
<1>5. CASE TakeFirst
  BY <1>1, <1>5 DEF TakeFirst, serverVars
<1>6. CASE SendRequest \/ ConnectionLost
  BY <1>1, <1>6 DEF SendRequest, ConnectionLost, queueVars, serverVars
<1>7. CASE ReadReply
  BY <1>7, ReadReplyConfirms
<1>8. CASE Session
  <2>1. ASSUME NEW n \in 1..Len(toServer), HandleComplete(n)
        PROVE  Queue!Next
    BY <2>1, HandleCompleteDelivers
  <2>2. ASSUME NEW n \in 1..Len(toServer), HandleIncomplete(n)
        PROVE  Queue!Next
    BY <2>2, HandleIncompleteWhole DEF Queue!Next
  <2>3. CASE HandleWrite
    BY <1>1, <2>3 DEF HandleWrite, queueVars, serverVars
  <2> QED BY <1>8, <2>1, <2>2, <2>3 DEF Session
<1>9. CASE UNCHANGED vars
  BY <1>1, <1>9 DEF vars, queueVars, serverVars
<1> QED BY <1>2, <1>3, <1>4, <1>5, <1>6, <1>7, <1>8, <1>9 DEF Next, Uploader

\* As long as every request arrives in one piece, the upload is an at-least-once
\* queue: a data set is erased only when the web server has it, and none is
\* delivered ahead of it.
THEOREM UploadIsAQueue == Spec => ImplementsQueue
BY InitQueue, StepQueue, WholeInvariance, PTL DEF Spec, ImplementsQueue, Queue!Spec

=============================================================================
