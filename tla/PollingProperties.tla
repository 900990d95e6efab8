--------------------------- MODULE PollingProperties ---------------------------
(***************************************************************************)
(* What the gateway may rely on when it polls its sensors.                 *)
(***************************************************************************)
EXTENDS Polling

Request == [id : Nat, host : Sensors, try : 0..(NumberOfTries - 1)]
Reply == [id : Nat, ip : Sensors, data : Nat, request : Request]
DataSet == [ip : Sensors, data : Nat \ {NoData}]

\* Every variable has its type; no buffer grows beyond its capacity.
TypeOK ==
  /\ generated \in [Sensors -> Nat]
  /\ \A s \in Sensors :
       /\ historicSensorData[s] \in Seq(1..generated[s])
       /\ Len(historicSensorData[s]) <= Capacity
  /\ newDataToSend \in [MqttSensors -> Nat]
  /\ publisher \in [MqttSensors -> {"wait", "take", "down"}]
  /\ \A s \in MqttSensors : broker[s] \in Seq(1..generated[s])
  /\ receivedSensorCSVs \in Seq(DataSet) /\ Len(receivedSensorCSVs) <= Capacity
  /\ requests \subseteq Request /\ replies \subseteq Reply
  /\ poller \in [Sensors -> {"send", "wait", "sleep"}]
  /\ requestID \in [Sensors -> Nat]
  /\ retryCount \in [Sensors -> 0..NumberOfTries]
  /\ sentUDPRequests \in [Sensors -> Nat] /\ semSensors \in [Sensors -> Nat]
  /\ handling \in Reply \cup {Idle} /\ sensorUDPReplies \in Seq(DataSet)
  /\ undisturbed \in [Sensors -> BOOLEAN] /\ answered \in [Sensors -> Nat \cup {-1}]

-----------------------------------------------------------------------------
\* Where the data sets of sensor s are among those the gateway has taken.
TakenAt(s) == {i \in DOMAIN sensorUDPReplies : sensorUDPReplies[i].ip = s}

\* The data set of sensor s that is in a reply on its way, if there is one.
OnItsWay(s) ==
  LET carriers == {r \in replies \cup {handling} : r.ip = s /\ r.data # NoData}
  IN  IF carriers = {} THEN <<>> ELSE <<(CHOOSE r \in carriers : TRUE).data>>

\* The data sets of a UDP sensor are taken in the order they were generated in,
\* none of them twice, though packets are lost, late and reordered: the
\* comparison of request numbers (Gateway.cpp line 304) keeps replies of earlier
\* polls out.
OrderKept ==
  \A s \in UdpSensors : \A i, j \in TakenAt(s) :
    i < j => sensorUDPReplies[i].data < sensorUDPReplies[j].data

\* As long as nothing of a UDP sensor has been dropped, lost or late, what is on
\* its way and in its buffer are the data sets generated last, in order, and the
\* gateway has taken all those before them, in order and each of them once: each
\* reply is to the request that is expected, and none is thrown away.
NothingLost ==
  \A s \in UdpSensors : undisturbed[s] =>
    LET rest == OnItsWay(s) \o historicSensorData[s]
        n == generated[s] - Len(rest)
    IN  /\ {sensorUDPReplies[i].data : i \in TakenAt(s)} = 1..n
        /\ \A i, j \in TakenAt(s) :
             i < j => sensorUDPReplies[i].data < sensorUDPReplies[j].data
        /\ rest = [i \in 1..Len(rest) |-> n + i]

\* The semaphore of an MQTT sensor never counts less than its buffer holds, so
\* that no data set is left behind without a permit, and exactly as much until
\* the buffer has dropped one.
PermitsCoverBuffer ==
  \A s \in MqttSensors :
    LET permits == newDataToSend[s] + (IF publisher[s] = "take" THEN 1 ELSE 0)
    IN  publisher[s] # "down" =>
          /\ Len(historicSensorData[s]) <= permits
          /\ undisturbed[s] => Len(historicSensorData[s]) = permits

\* A polling thread that goes on has had a reply to this request, as long as no
\* earlier one was late: no permit is left over from an earlier poll.
AnswerIsCurrent ==
  [][\A s \in UdpSensors :
       GotAnswer(s) /\ undisturbed[s] => answered[s] = requestID[s]]_vars
=============================================================================
