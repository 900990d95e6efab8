--------------------------- MODULE UploadProperties ---------------------------
(***************************************************************************)
(* What becomes of a data set in the gateway's queue.                      *)
(***************************************************************************)
EXTENDS Upload, FiniteSets

Busy == uploader \in {"send", "read", "reconnect"}
Unit == [of : 1..enqueued, part : {"header", "fields", "timestamp"}]
Stored == {sensorMetadatas[i] : i \in DOMAIN sensorMetadatas}

\* Every variable has its type; there is a session only in an open connection.
TypeOK ==
  /\ sensorUDPReplies \in Seq(1..enqueued)
  /\ semNumberSensorUDPReplies \in Nat /\ enqueued \in 0..MaxReplies
  /\ uploader \in {"connect", "wait", "send", "read", "reconnect", "stopped"}
  /\ current \in 0..enqueued /\ tries \in 0..MaxTries
  /\ connected \in BOOLEAN /\ toServer \in Seq(Unit) /\ toGateway \in Nat
  /\ failures \in 0..MaxFailures
  /\ webUp \in BOOLEAN /\ session \in {"none", "reading", "writing", "silent"}
  /\ connected <=> session # "none"
  /\ receiveBuffer \in Seq(Unit) /\ requestBuffer \in Seq(Unit)
  /\ sensorMetadatas \in Seq(-enqueued..enqueued)
  /\ split \in BOOLEAN

-----------------------------------------------------------------------------
\* A permit never lets the uploader find the queue empty (at(0) would throw, and
\* end the gateway): there are at least as many data sets as permits, and one
\* more while one is being sent.
PermitsBacked ==
  semNumberSensorUDPReplies + (IF Busy THEN 1 ELSE 0) <= Len(sensorUDPReplies)

\* The data set erased after a reply is the one that was sent (the comment at lines
\* 373-375 of the gateway fears otherwise), though new ones come in all the while.
HeadIsSent ==
  Busy => sensorUDPReplies # <<>> /\ current = Head(sensorUDPReplies)

\* However requests are cut and mixed and connections break: each data set that is
\* erased from the queue the web server has taken before, at worst with the timestamp
\* of another one.
ErasedWasTaken ==
  \A m \in 1..(enqueued - Len(sensorUDPReplies)) : {m, Garbled(m)} \cap Stored # {}

\* As long as every request arrives in one piece: the web server stays up and has
\* the data sets in the order of the queue, repetitions aside, without a gap, and
\* a data set it does not have is still in the queue.
DeliveredInOrder ==
  ~split =>
    /\ webUp
    /\ \A i, j \in DOMAIN sensorMetadatas : i < j => sensorMetadatas[i] <= sensorMetadatas[j]
    /\ Stored = 1..Cardinality(Stored)
    /\ \A m \in 1..enqueued :
         m \in Stored \/ \E i \in DOMAIN sensorUDPReplies : sensorUDPReplies[i] = m

\* As long as every request arrives in one piece, the upload is an at-least-once queue:
\* what is erased is confirmed, and nothing is delivered ahead of it.
Queue == INSTANCE ReliableQueue WITH
  accepted  <- enqueued,
  delivered <- sensorMetadatas,
  confirmed <- enqueued - Len(sensorUDPReplies),
  cut       <- split

ImplementsQueue == Queue!Spec

\* As long as every request arrives in one piece and the connection fails less
\* often than there are tries, every data set comes to the web server.
EverythingUploaded ==
  [](~split /\ failures < MaxTries) =>
    \A m \in 1..MaxReplies : (enqueued >= m) ~> (m \in Stored)

-----------------------------------------------------------------------------
(* What comments of gateway/Gateway.cpp say, and the code does not keep. *)

\* Lines 477-479: after an error "we will just try to send the same data again
\* though": when the uploader waits for a permit, there is one for each data set.
SentAgain ==
  uploader = "wait" => semNumberSensorUDPReplies >= Len(sensorUDPReplies)

\* Line 410: "we don't need a timeout because if read fails it will throw an
\* exception": a read returns, or throws.
ReadEnds ==
  (uploader = "read") ~> (uploader # "read")
=============================================================================
