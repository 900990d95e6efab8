------------------------------- MODULE Polling -------------------------------
(***************************************************************************)
(* How data sets come into the gateway: the sensors' buffers               *)
(* (sensors/Sensor.cpp, mqtt_sensor/mqtt_sensor.cpp), the MQTT adapter     *)
(* (mqtt_adapter/mqtt_adapter.cpp), and the gateway's polling threads and  *)
(* its reply handler (gateway/Gateway.cpp).                                *)
(*                                                                         *)
(* UDP sensors answer the gateway themselves.  MQTT sensors publish their  *)
(* data, and the adapter answers every request made for one of them with   *)
(* the oldest data set it has, whichever sensor that came from.            *)
(*                                                                         *)
(* A data set is the number its sensor generated it with.                  *)
(***************************************************************************)
EXTENDS Integers, Sequences

CONSTANTS
  UdpSensors, MqttSensors,  \* by their ip; the gateway polls them all
  Capacity,                 \* data sets a buffer holds (50 in the code)
  NumberOfTries,            \* MAX_NUMBER_OF_RETRIES (1 in the code)
  MaxValues,                \* bound: data sets each sensor generates
  MaxPolls                  \* bound: last request number of each polling thread

ASSUME PollingAssumption ==
  /\ UdpSensors \cap MqttSensors = {}
  /\ Capacity \in Nat \ {0}
  /\ NumberOfTries \in Nat \ {0}
  /\ MaxValues \in [UdpSensors \cup MqttSensors -> Nat]
  /\ MaxPolls \in [UdpSensors \cup MqttSensors -> Nat]

Sensors == UdpSensors \cup MqttSensors
NoData == 0  \* the data of a reply with errorCode -1

VARIABLES
  \* the sensors
  generated,           \* how many data sets each has generated
  historicSensorData,  \* the buffer of each
  newDataToSend,       \* semaphore newDataToSendAvailable of an MQTT sensor
  publisher,           \* the main loop of an MQTT sensor
  \* broker and adapter
  broker,              \* what each MQTT sensor has published, not yet delivered
  receivedSensorCSVs,  \* the adapter's buffer
  \* the UDP network
  requests, replies,
  \* the gateway
  poller, requestID, retryCount,  \* locals of the thread of each sensor
  sentUDPRequests,     \* the request number expected in a reply
  semSensors,          \* the semaphore a reply posts
  handling,            \* the reply that handleReply has found to be expected
  sensorUDPReplies,    \* all the data sets the gateway has taken
  \* history
  undisturbed,         \* nothing dropped, lost or late at this sensor so far
  answered             \* the request number of the last reply taken

sensorVars == <<generated, historicSensorData, newDataToSend, publisher>>
mqttVars == <<broker, receivedSensorCSVs>>
netVars == <<requests, replies>>
pollerVars == <<poller, requestID, retryCount, sentUDPRequests>>
handlerVars == <<handling, sensorUDPReplies, answered>>
vars == <<sensorVars, mqttVars, netVars, pollerVars, semSensors, handlerVars, undisturbed>>

Idle == [id |-> -1, ip |-> "none", data |-> NoData]  \* handleReply has no reply

Init ==
  /\ generated = [s \in Sensors |-> 0]
  /\ historicSensorData = [s \in Sensors |-> <<>>]
  /\ newDataToSend = [s \in MqttSensors |-> 0]
  /\ publisher = [s \in MqttSensors |-> "wait"]
  /\ broker = [s \in MqttSensors |-> <<>>] /\ receivedSensorCSVs = <<>>
  /\ requests = {} /\ replies = {}
  /\ poller = [s \in Sensors |-> "send"]
  /\ requestID = [s \in Sensors |-> 0] /\ retryCount = [s \in Sensors |-> 0]
  /\ sentUDPRequests = [s \in Sensors |-> 0] /\ semSensors = [s \in Sensors |-> 0]
  /\ handling = Idle /\ sensorUDPReplies = <<>>
  /\ undisturbed = [s \in Sensors |-> TRUE]
  /\ answered = [s \in Sensors |-> -1]

-----------------------------------------------------------------------------
\* The sensors.

\* (Definitions named "Wrong..." are not part of the model: each is a plausible
\* slip in the definition that follows it.)
WrongPushBounded(buffer, x) == Append(buffer, x)

\* A full buffer loses its first element to the new one.
PushBounded(buffer, x) ==
  Append(IF Len(buffer) >= Capacity THEN Tail(buffer) ELSE buffer, x)

WrongSignalNewData(s) ==
  newDataToSend' = [q \in MqttSensors |->
    IF q = s /\ historicSensorData[q] = <<>> THEN newDataToSend[q] + 1 ELSE newDataToSend[q]]

\* An MQTT sensor posts its semaphore for each data set, even if another one has
\* been dropped for it.
SignalNewData(s) ==
  newDataToSend' = [q \in MqttSensors |->
    IF q = s THEN newDataToSend[q] + 1 ELSE newDataToSend[q]]

\* Under mtxHistoricSensorData.
generateSensorData(s) ==
  /\ generated[s] < MaxValues[s]
  /\ s \in MqttSensors => publisher[s] # "down"
  /\ generated' = [generated EXCEPT ![s] = @ + 1]
  /\ historicSensorData' =
       [historicSensorData EXCEPT ![s] = PushBounded(@, generated[s] + 1)]
  /\ SignalNewData(s)
  /\ undisturbed' =
       [undisturbed EXCEPT ![s] = @ /\ Len(historicSensorData[s]) < Capacity]
  /\ UNCHANGED <<publisher, mqttVars, netVars, pollerVars, semSensors, handlerVars>>

\* sem_wait(newDataToSendAvailable)
AwaitNewData(s) ==
  /\ publisher[s] = "wait" /\ newDataToSend[s] > 0
  /\ newDataToSend' = [newDataToSend EXCEPT ![s] = @ - 1]
  /\ publisher' = [publisher EXCEPT ![s] = "take"]
  /\ UNCHANGED <<generated, historicSensorData, mqttVars, netVars, pollerVars,
                 semSensors, handlerVars, undisturbed>>

\* The first data set is taken and sent; if it cannot be sent the process ends.
PublishData(s) ==
  /\ publisher[s] = "take" /\ historicSensorData[s] # <<>>
  /\ historicSensorData' = [historicSensorData EXCEPT ![s] = Tail(@)]
  /\ \/ /\ broker' = [broker EXCEPT ![s] = Append(@, Head(historicSensorData[s]))]
        /\ publisher' = [publisher EXCEPT ![s] = "wait"]
     \/ /\ publisher' = [publisher EXCEPT ![s] = "down"]
        /\ UNCHANGED broker
  /\ UNCHANGED <<generated, newDataToSend, receivedSensorCSVs, netVars, pollerVars,
                 semSensors, handlerVars, undisturbed>>

\* at(0) of an empty vector throws out_of_range, and main returns.
TakeFromEmpty(s) ==
  /\ publisher[s] = "take" /\ historicSensorData[s] = <<>>
  /\ publisher' = [publisher EXCEPT ![s] = "down"]
  /\ UNCHANGED <<generated, historicSensorData, newDataToSend, mqttVars, netVars,
                 pollerVars, semSensors, handlerVars, undisturbed>>

-----------------------------------------------------------------------------
\* Broker and adapter.

\* on_message.  Published with QoS 1, a message may be delivered again.
on_message(s) ==
  /\ broker[s] # <<>>
  /\ receivedSensorCSVs' =
       PushBounded(receivedSensorCSVs, [ip |-> s, data |-> Head(broker[s])])
  /\ broker' \in {broker, [broker EXCEPT ![s] = Tail(@)]}
  /\ UNCHANGED <<sensorVars, netVars, pollerVars, semSensors, handlerVars, undisturbed>>

\* Subscribed with QoS 0, a message may be lost.
LoseMessage(s) ==
  /\ broker[s] # <<>>
  /\ broker' = [broker EXCEPT ![s] = Tail(@)]
  /\ UNCHANGED <<sensorVars, receivedSensorCSVs, netVars, pollerVars, semSensors,
                 handlerVars, undisturbed>>

\* A reply carries the request's number, and the ip of the sensor the data is of.
\* (The request itself tells two replies of equal content apart.)
ReplyTo(request, ip, data) ==
  [id |-> request.id, ip |-> ip, data |-> data, request |-> request]

\* generateUDPReply: the first data set received, of whatever sensor, under the
\* number of the request; or an error under the name of the sensor asked for.
generateUDPReply(request) ==
  /\ request.host \in MqttSensors
  /\ requests' = requests \ {request}
  /\ \/ /\ receivedSensorCSVs # <<>>
        /\ LET csv == Head(receivedSensorCSVs)
           IN  replies' = replies \cup {ReplyTo(request, csv.ip, csv.data)}
        /\ receivedSensorCSVs' = Tail(receivedSensorCSVs)
     \/ /\ receivedSensorCSVs = <<>>
        /\ replies' = replies \cup {ReplyTo(request, request.host, NoData)}
        /\ UNCHANGED receivedSensorCSVs
  /\ UNCHANGED <<sensorVars, broker, pollerVars, semSensors, handlerVars, undisturbed>>

\* generateReply of a UDP sensor: its first data set, or an error.
generateReply(request) ==
  LET s == request.host
      buffer == historicSensorData[s]
  IN  /\ s \in UdpSensors
      /\ requests' = requests \ {request}
      /\ \/ /\ buffer # <<>>
            /\ replies' = replies \cup {ReplyTo(request, s, Head(buffer))}
            /\ historicSensorData' = [historicSensorData EXCEPT ![s] = Tail(@)]
         \/ /\ buffer = <<>>
            /\ replies' = replies \cup {ReplyTo(request, s, NoData)}
            /\ UNCHANGED historicSensorData
      /\ UNCHANGED <<generated, newDataToSend, publisher, mqttVars, pollerVars,
                     semSensors, handlerVars, undisturbed>>

-----------------------------------------------------------------------------
\* The network may lose packets, and delivers them in any order.

LoseRequest(request) ==
  /\ requests' = requests \ {request}
  /\ undisturbed' = [undisturbed EXCEPT ![request.host] = FALSE]
  /\ UNCHANGED <<sensorVars, mqttVars, replies, pollerVars, semSensors, handlerVars>>

LoseReply(reply) ==
  /\ replies' = replies \ {reply}
  /\ undisturbed' = [undisturbed EXCEPT ![reply.ip] = FALSE]
  /\ UNCHANGED <<sensorVars, mqttVars, requests, pollerVars, semSensors, handlerVars>>

-----------------------------------------------------------------------------
\* The gateway: simulateUDPSocket, one thread for each sensor.

\* A request or reply of this sensor is on its way.
Underway(s) ==
  \/ \E request \in requests : request.host = s
  \/ \E reply \in replies \cup {handling} : reply.ip = s

WrongSendRequest(s) ==
  /\ poller[s] = "send"
  /\ requests' = requests \cup
       {[id |-> requestID[s], host |-> s, try |-> retryCount[s]]}
  /\ poller' = [poller EXCEPT ![s] = "wait"]
  /\ UNCHANGED <<sensorVars, mqttVars, replies, requestID, retryCount, semSensors,
                 sentUDPRequests, handlerVars, undisturbed>>

\* The number is entered in the map before the request is sent.
SendRequest(s) ==
  /\ poller[s] = "send"
  /\ sentUDPRequests' = [sentUDPRequests EXCEPT ![s] = requestID[s]]
  /\ requests' = requests \cup
       {[id |-> requestID[s], host |-> s, try |-> retryCount[s]]}
  /\ poller' = [poller EXCEPT ![s] = "wait"]
  /\ UNCHANGED <<sensorVars, mqttVars, replies, requestID, retryCount, semSensors,
                 handlerVars, undisturbed>>

\* sem_timedwait gets the semaphore, and the loop over the tries is left.
GotAnswer(s) ==
  /\ poller[s] = "wait" /\ semSensors[s] > 0
  /\ semSensors' = [semSensors EXCEPT ![s] = @ - 1]
  /\ poller' = [poller EXCEPT ![s] = "sleep"]
  /\ UNCHANGED <<sensorVars, mqttVars, netVars, requestID, retryCount, sentUDPRequests,
                 handlerVars, undisturbed>>

\* sem_timedwait returns ETIMEDOUT: the next try, if there is one left.
TimeOut(s) ==
  /\ poller[s] = "wait" /\ semSensors[s] = 0
  /\ retryCount' = [retryCount EXCEPT ![s] = @ + 1]
  /\ poller' = [poller EXCEPT
       ![s] = IF retryCount[s] + 1 < NumberOfTries THEN "send" ELSE "sleep"]
  /\ undisturbed' = [undisturbed EXCEPT ![s] = @ /\ ~Underway(s)]
  /\ UNCHANGED <<sensorVars, mqttVars, netVars, requestID, sentUDPRequests,
                 semSensors, handlerVars>>

\* usleep(REQUEST_TIME) is over.
WakeUp(s) ==
  /\ poller[s] = "sleep" /\ requestID[s] < MaxPolls[s]
  /\ requestID' = [requestID EXCEPT ![s] = @ + 1]
  /\ retryCount' = [retryCount EXCEPT ![s] = 0]
  /\ poller' = [poller EXCEPT ![s] = "send"]
  /\ UNCHANGED <<sensorVars, mqttVars, netVars, sentUDPRequests, semSensors,
                 handlerVars, undisturbed>>

-----------------------------------------------------------------------------
\* The gateway: handleReply.

WrongIsExpected(reply) == sentUDPRequests[reply.ip] >= reply.id

IsExpected(reply) == sentUDPRequests[reply.ip] = reply.id

\* A reply to another request than the one sent last is thrown away.
ReceiveReply(reply) ==
  /\ handling = Idle
  /\ replies' = replies \ {reply}
  /\ handling' = IF IsExpected(reply) THEN reply ELSE Idle
  /\ UNCHANGED <<sensorVars, mqttVars, requests, pollerVars, semSensors,
                 sensorUDPReplies, answered, undisturbed>>

WrongTakeReply ==
  /\ handling # Idle
  /\ semSensors' = [semSensors EXCEPT ![handling.ip] =
       IF handling.data = NoData THEN @ + 1 ELSE @ + 2]
  /\ sensorUDPReplies' =
       IF handling.data # NoData
         THEN Append(sensorUDPReplies, [ip |-> handling.ip, data |-> handling.data])
         ELSE sensorUDPReplies
  /\ answered' = [answered EXCEPT ![handling.ip] = handling.id]
  /\ handling' = Idle
  /\ UNCHANGED <<sensorVars, mqttVars, netVars, pollerVars, undisturbed>>

\* The semaphore of the sensor is posted; a data set goes into the queue for
\* the web server.  The request number may have moved on since the comparison.
TakeReply ==
  /\ handling # Idle
  /\ semSensors' = [semSensors EXCEPT ![handling.ip] = @ + 1]
  /\ sensorUDPReplies' =
       IF handling.data # NoData
         THEN Append(sensorUDPReplies, [ip |-> handling.ip, data |-> handling.data])
         ELSE sensorUDPReplies
  /\ answered' = [answered EXCEPT ![handling.ip] = handling.id]
  /\ handling' = Idle
  /\ UNCHANGED <<sensorVars, mqttVars, netVars, pollerVars, undisturbed>>

-----------------------------------------------------------------------------
Sensor ==
  \/ \E s \in Sensors : generateSensorData(s)
  \/ \E s \in MqttSensors : AwaitNewData(s) \/ PublishData(s) \/ TakeFromEmpty(s)

Gateway ==
  \/ \E s \in Sensors : SendRequest(s) \/ GotAnswer(s) \/ TimeOut(s) \/ WakeUp(s)
  \/ \E reply \in replies : ReceiveReply(reply)
  \/ TakeReply

Next ==
  \/ Sensor
  \/ \E s \in MqttSensors : on_message(s) \/ LoseMessage(s)
  \/ \E request \in requests : generateUDPReply(request) \/ generateReply(request)
  \/ \E request \in requests : LoseRequest(request)
  \/ \E reply \in replies : LoseReply(reply)
  \/ Gateway

Spec == Init /\ [][Next]_vars
=============================================================================
