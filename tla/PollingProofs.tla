---------------------------- MODULE PollingProofs ----------------------------
(***************************************************************************)
(* Proofs about the sensors' buffers, and that every variable keeps its    *)
(* type, for every number of sensors, data sets and tries and every        *)
(* capacity.                                                               *)
(***************************************************************************)
EXTENDS PollingProperties, SequenceTheorems, TLAPS

\* The part of TypeOK that is about the sensors.
SensorType ==
  /\ generated \in [Sensors -> Nat]
  /\ historicSensorData \in [Sensors -> Seq(Nat)]
  /\ newDataToSend \in [MqttSensors -> Nat]
  /\ publisher \in [MqttSensors -> {"wait", "take", "down"}]
  /\ undisturbed \in [Sensors -> BOOLEAN]

BuffersBounded == \A s \in Sensors : Len(historicSensorData[s]) <= Capacity

IInv == SensorType /\ BuffersBounded /\ PermitsCoverBuffer

-----------------------------------------------------------------------------
\* What a full or a not yet full buffer becomes when a data set is added.
LEMMA PushBoundedType ==
  ASSUME NEW S, NEW buffer \in Seq(S), NEW x \in S, Len(buffer) <= Capacity
  PROVE  /\ PushBounded(buffer, x) \in Seq(S)
         /\ Len(PushBounded(buffer, x)) =
              IF Len(buffer) = Capacity THEN Capacity ELSE Len(buffer) + 1
         /\ Len(PushBounded(buffer, x)) \in Nat
<1>1. Len(buffer) \in Nat /\ Capacity \in Nat \ {0}
  BY LenProperties, PollingAssumption
<1>2. CASE Len(buffer) >= Capacity
  <2>1. buffer # <<>> /\ Len(buffer) = Capacity
    BY <1>1, <1>2, EmptySeq
  <2>2. Tail(buffer) \in Seq(S) /\ Len(Tail(buffer)) = Capacity - 1
    BY <2>1, HeadTailProperties
  <2> QED BY <1>1, <1>2, <2>1, <2>2, AppendProperties DEF PushBounded
<1>3. CASE ~(Len(buffer) >= Capacity)
  BY <1>1, <1>3, AppendProperties DEF PushBounded
<1> QED BY <1>2, <1>3

LEMMA InitIInv == Init => IInv
<1> SUFFICES ASSUME Init PROVE IInv
  OBVIOUS
<1>1. <<>> \in Seq(Nat) /\ Len(<<>>) = 0
  BY EmptySeq
<1>2. MqttSensors \subseteq Sensors
  BY DEF Sensors
<1>3. SensorType
  BY <1>1 DEF Init, SensorType
<1>4. BuffersBounded /\ PermitsCoverBuffer
  BY <1>1, <1>2, PollingAssumption DEF Init, BuffersBounded, PermitsCoverBuffer
<1> QED BY <1>3, <1>4 DEF IInv

LEMMA GenerateIInv ==
  ASSUME IInv, NEW s \in Sensors, generateSensorData(s)
  PROVE  IInv'
<1> DEFINE len(q) == Len(historicSensorData[q])
<1>1. SensorType /\ BuffersBounded /\ PermitsCoverBuffer /\ MqttSensors \subseteq Sensors
  BY DEF IInv, Sensors
<1>2. /\ historicSensorData[s] \in Seq(Nat) /\ generated[s] + 1 \in Nat /\ len(s) <= Capacity
      /\ \A q \in Sensors : len(q) \in Nat
      /\ Capacity \in Nat
  BY <1>1, LenProperties, PollingAssumption DEF SensorType, BuffersBounded
<1>3. /\ historicSensorData' \in [Sensors -> Seq(Nat)]
      /\ len(s)' = IF len(s) = Capacity THEN Capacity ELSE len(s) + 1
      /\ \A q \in Sensors \ {s} : len(q)' = len(q)
  BY <1>1, <1>2, PushBoundedType DEF SensorType, generateSensorData
<1>4. /\ newDataToSend' \in [MqttSensors -> Nat]
      /\ \A q \in MqttSensors : newDataToSend'[q] =
           IF q = s THEN newDataToSend[q] + 1 ELSE newDataToSend[q]
  BY <1>1 DEF SensorType, generateSensorData, SignalNewData
<1>5. /\ undisturbed' \in [Sensors -> BOOLEAN]
      /\ undisturbed'[s] => undisturbed[s] /\ len(s) < Capacity
      /\ \A q \in Sensors \ {s} : undisturbed'[q] = undisturbed[q]
  <2>1. undisturbed[s] \in BOOLEAN /\ undisturbed \in [Sensors -> BOOLEAN]
    BY <1>1 DEF SensorType
  <2> QED BY <2>1 DEF generateSensorData
<1>6. generated' \in [Sensors -> Nat] /\ publisher' = publisher
  BY <1>1, <1>2 DEF SensorType, generateSensorData
<1>7. SensorType'
  BY <1>1, <1>3, <1>4, <1>5, <1>6 DEF SensorType
<1>8. BuffersBounded'
  BY <1>1, <1>2, <1>3 DEF BuffersBounded
<1>9. PermitsCoverBuffer'
  <2> SUFFICES ASSUME NEW q \in MqttSensors, publisher'[q] # "down"
               PROVE  LET permits == newDataToSend'[q] + (IF publisher'[q] = "take" THEN 1 ELSE 0)
                      IN  len(q)' <= permits /\ (undisturbed'[q] => len(q)' = permits)
    BY DEF PermitsCoverBuffer
  <2>1. newDataToSend[q] \in Nat /\ len(q) \in Nat /\ q \in Sensors
    BY <1>1, <1>2 DEF SensorType
  <2>2. LET permits == newDataToSend[q] + (IF publisher[q] = "take" THEN 1 ELSE 0)
        IN  len(q) <= permits /\ (undisturbed[q] => len(q) = permits)
    BY <1>1, <1>6 DEF PermitsCoverBuffer
  <2> HIDE DEF len
  <2>3. CASE q = s
    BY <1>2, <1>3, <1>4, <1>5, <1>6, <2>1, <2>2, <2>3
  <2>4. CASE q # s
    BY <1>3, <1>4, <1>5, <1>6, <2>1, <2>2, <2>4
  <2> QED BY <2>3, <2>4
<1> QED BY <1>7, <1>8, <1>9 DEF IInv

\* Steps that leave the sensors alone.
LEMMA SensorsUntouched ==
  ASSUME IInv, UNCHANGED sensorVars, undisturbed' \in [Sensors -> BOOLEAN],
         \A q \in Sensors : undisturbed'[q] => undisturbed[q]
  PROVE  IInv'
<1>1. SensorType' /\ BuffersBounded'
  BY DEF IInv, SensorType, BuffersBounded, sensorVars
<1>2. PermitsCoverBuffer'
  BY DEF IInv, PermitsCoverBuffer, sensorVars, Sensors
<1> QED BY <1>1, <1>2 DEF IInv

LEMMA AwaitNewDataIInv ==
  ASSUME IInv, NEW s \in MqttSensors, AwaitNewData(s)
  PROVE  IInv'
<1>1. /\ historicSensorData' = historicSensorData /\ undisturbed' = undisturbed
      /\ newDataToSend[s] \in Nat \ {0} /\ publisher[s] = "wait"
      /\ \A q \in MqttSensors : newDataToSend[q] \in Nat
  BY DEF IInv, SensorType, AwaitNewData
<1>2. /\ newDataToSend' \in [MqttSensors -> Nat] /\ newDataToSend'[s] = newDataToSend[s] - 1
      /\ \A q \in MqttSensors \ {s} : newDataToSend'[q] = newDataToSend[q]
  BY <1>1 DEF IInv, SensorType, AwaitNewData
<1>3. /\ publisher' \in [MqttSensors -> {"wait", "take", "down"}] /\ publisher'[s] = "take"
      /\ \A q \in MqttSensors \ {s} : publisher'[q] = publisher[q]
  BY DEF IInv, SensorType, AwaitNewData
<1>4. SensorType' /\ BuffersBounded'
  BY <1>1, <1>2, <1>3 DEF IInv, SensorType, BuffersBounded, AwaitNewData
<1>5. ASSUME NEW q \in MqttSensors
      PROVE  publisher'[q] # "down" =>
               /\ publisher[q] # "down"
               /\ newDataToSend'[q] + (IF publisher'[q] = "take" THEN 1 ELSE 0)
                    = newDataToSend[q] + (IF publisher[q] = "take" THEN 1 ELSE 0)
  BY <1>1, <1>2, <1>3
<1>6. PermitsCoverBuffer'
  BY <1>1, <1>5 DEF IInv, PermitsCoverBuffer
<1> QED BY <1>4, <1>6 DEF IInv

\* A first data set is taken, of one sensor.
LEMMA TakenType ==
  ASSUME IInv, NEW s \in Sensors, historicSensorData[s] # <<>>,
         historicSensorData' = [historicSensorData EXCEPT ![s] = Tail(@)]
  PROVE  /\ historicSensorData' \in [Sensors -> Seq(Nat)] /\ BuffersBounded'
         /\ Len(historicSensorData'[s]) = Len(historicSensorData[s]) - 1
         /\ \A q \in Sensors \ {s} : historicSensorData'[q] = historicSensorData[q]
         /\ \A q \in Sensors : Len(historicSensorData[q]) \in Nat
<1>1. /\ historicSensorData \in [Sensors -> Seq(Nat)] /\ Capacity \in Nat
      /\ \A q \in Sensors : Len(historicSensorData[q]) \in Nat
  BY LenProperties, PollingAssumption DEF IInv, SensorType
<1>2. /\ Tail(historicSensorData[s]) \in Seq(Nat)
      /\ Len(Tail(historicSensorData[s])) = Len(historicSensorData[s]) - 1
  BY <1>1, HeadTailProperties
<1>3. /\ historicSensorData' \in [Sensors -> Seq(Nat)]
      /\ historicSensorData'[s] = Tail(historicSensorData[s])
      /\ \A q \in Sensors \ {s} : historicSensorData'[q] = historicSensorData[q]
  BY <1>1, <1>2
<1>4. BuffersBounded'
  BY <1>1, <1>2, <1>3 DEF IInv, BuffersBounded
<1> QED BY <1>1, <1>2, <1>3, <1>4

LEMMA PublishDataIInv ==
  ASSUME IInv, NEW s \in MqttSensors, PublishData(s)
  PROVE  IInv'
<1>1. s \in Sensors /\ MqttSensors \subseteq Sensors
  BY DEF Sensors
<1>2. /\ historicSensorData' \in [Sensors -> Seq(Nat)] /\ BuffersBounded'
      /\ Len(historicSensorData'[s]) = Len(historicSensorData[s]) - 1
      /\ \A q \in Sensors \ {s} : historicSensorData'[q] = historicSensorData[q]
      /\ \A q \in Sensors : Len(historicSensorData[q]) \in Nat
  BY <1>1, TakenType DEF PublishData
<1>3. /\ publisher' \in [MqttSensors -> {"wait", "take", "down"}]
      /\ publisher[s] = "take" /\ publisher'[s] \in {"wait", "down"}
      /\ \A q \in MqttSensors \ {s} : publisher'[q] = publisher[q]
  BY DEF IInv, SensorType, PublishData
<1>4. /\ newDataToSend' = newDataToSend /\ undisturbed' = undisturbed
      /\ \A q \in MqttSensors : newDataToSend[q] \in Nat
  BY DEF IInv, SensorType, PublishData
<1>5. SensorType'
  BY <1>2, <1>3, <1>4 DEF IInv, SensorType, PublishData
<1>6. PermitsCoverBuffer'
  <2> SUFFICES ASSUME NEW q \in MqttSensors, publisher'[q] # "down"
               PROVE  LET permits == newDataToSend[q] + (IF publisher'[q] = "take" THEN 1 ELSE 0)
                      IN  /\ Len(historicSensorData'[q]) <= permits
                          /\ undisturbed[q] => Len(historicSensorData'[q]) = permits
    BY <1>4 DEF PermitsCoverBuffer
  <2>1. LET permits == newDataToSend[q] + (IF publisher[q] = "take" THEN 1 ELSE 0)
        IN  /\ Len(historicSensorData[q]) <= permits
            /\ undisturbed[q] => Len(historicSensorData[q]) = permits
    BY <1>3 DEF IInv, PermitsCoverBuffer
  <2>2. CASE q = s
    BY <1>1, <1>2, <1>3, <1>4, <2>1, <2>2
  <2>3. CASE q # s
    BY <1>1, <1>2, <1>3, <1>4, <2>1, <2>3
  <2> QED BY <2>2, <2>3
<1> QED BY <1>2, <1>5, <1>6 DEF IInv

LEMMA TakeFromEmptyIInv ==
  ASSUME IInv, NEW s \in MqttSensors, TakeFromEmpty(s)
  PROVE  IInv'
<1>1. /\ publisher' \in [MqttSensors -> {"wait", "take", "down"}] /\ publisher'[s] = "down"
      /\ \A q \in MqttSensors \ {s} : publisher'[q] = publisher[q]
  BY DEF IInv, SensorType, TakeFromEmpty
<1>2. SensorType' /\ BuffersBounded'
  BY <1>1 DEF IInv, SensorType, BuffersBounded, TakeFromEmpty
<1>3. PermitsCoverBuffer'
  BY <1>1 DEF IInv, PermitsCoverBuffer, TakeFromEmpty
<1> QED BY <1>2, <1>3 DEF IInv

\* A UDP sensor has no semaphore, and MQTT sensors are none.
LEMMA GenerateReplyIInv ==
  ASSUME IInv, NEW request, generateReply(request)
  PROVE  IInv'
<1> DEFINE s == request.host
<1>1. s \in Sensors /\ s \notin MqttSensors /\ MqttSensors \subseteq Sensors
  BY PollingAssumption DEF generateReply, Sensors
<1>2. UNCHANGED <<generated, newDataToSend, publisher, undisturbed>>
  BY DEF generateReply
<1>3. CASE UNCHANGED historicSensorData
  BY <1>2, <1>3, SensorsUntouched DEF IInv, SensorType, sensorVars
<1>4. CASE /\ historicSensorData[s] # <<>>
           /\ historicSensorData' = [historicSensorData EXCEPT ![s] = Tail(@)]
  <2>1. /\ historicSensorData' \in [Sensors -> Seq(Nat)] /\ BuffersBounded'
        /\ \A q \in Sensors \ {s} : historicSensorData'[q] = historicSensorData[q]
    BY <1>1, <1>4, TakenType
  <2>2. SensorType'
    BY <1>2, <2>1 DEF IInv, SensorType
  <2>3. PermitsCoverBuffer'
    BY <1>1, <1>2, <2>1 DEF IInv, PermitsCoverBuffer
  <2> QED BY <2>1, <2>2, <2>3 DEF IInv
<1> QED BY <1>3, <1>4 DEF generateReply

-----------------------------------------------------------------------------
LEMMA StepIInv == IInv /\ [Next]_vars => IInv'
<1> SUFFICES ASSUME IInv, [Next]_vars PROVE IInv'
  OBVIOUS
<1>1. undisturbed \in [Sensors -> BOOLEAN] /\ MqttSensors \subseteq Sensors
  BY DEF IInv, SensorType, Sensors
<1>2. CASE Sensor
  BY <1>2, GenerateIInv, AwaitNewDataIInv, PublishDataIInv, TakeFromEmptyIInv DEF Sensor
<1>3. ASSUME NEW s \in MqttSensors, on_message(s) \/ LoseMessage(s)
      PROVE  IInv'
  BY <1>1, <1>3, SensorsUntouched DEF on_message, LoseMessage
<1>4. ASSUME NEW request \in requests, generateUDPReply(request)
      PROVE  IInv'
  BY <1>1, <1>4, SensorsUntouched DEF generateUDPReply
<1>5. ASSUME NEW request \in requests, generateReply(request)
      PROVE  IInv'
  BY <1>5, GenerateReplyIInv
<1>6. ASSUME NEW request \in requests, LoseRequest(request)
      PROVE  IInv'
  BY <1>1, <1>6, SensorsUntouched DEF LoseRequest
<1>7. ASSUME NEW reply \in replies, LoseReply(reply)
      PROVE  IInv'
  BY <1>1, <1>7, SensorsUntouched DEF LoseReply
<1>8. ASSUME NEW s \in Sensors, SendRequest(s) \/ GotAnswer(s) \/ WakeUp(s)
      PROVE  IInv'
  BY <1>1, <1>8, SensorsUntouched DEF SendRequest, GotAnswer, WakeUp
<1>9. ASSUME NEW s \in Sensors, TimeOut(s)
      PROVE  IInv'
  <2>1. undisturbed' \in [Sensors -> BOOLEAN] /\ \A q \in Sensors : undisturbed'[q] => undisturbed[q]
    BY <1>1, <1>9 DEF TimeOut
  <2> QED BY <1>9, <2>1, SensorsUntouched DEF TimeOut
<1>10. ASSUME NEW reply \in replies, ReceiveReply(reply)
       PROVE  IInv'
  BY <1>1, <1>10, SensorsUntouched DEF ReceiveReply
<1>11. CASE TakeReply
  BY <1>1, <1>11, SensorsUntouched DEF TakeReply
<1>12. CASE UNCHANGED vars
  BY <1>1, <1>12, SensorsUntouched DEF vars
<1>13. CASE Gateway
  BY <1>8, <1>9, <1>10, <1>11, <1>13 DEF Gateway
<1> QED BY <1>2, <1>3, <1>4, <1>5, <1>6, <1>7, <1>12, <1>13 DEF Next

LEMMA Invariance == Spec => []IInv
BY InitIInv, StepIInv, PTL DEF Spec

\* A sensor's semaphore covers its buffer: no data set of an MQTT sensor waits
\* without a permit for the main loop, and none is missing before one is dropped.
THEOREM PermitsCover == Spec => []PermitsCoverBuffer
<1>1. IInv => PermitsCoverBuffer
  BY DEF IInv
<1> QED BY <1>1, Invariance, PTL
-----------------------------------------------------------------------------
(* Types.  What TypeOK says of the buffers holds only together with what has *)
(* left them: a data set is one its sensor has generated, in its buffer and  *)
(* at the broker; the adapter has data sets of MQTT sensors alone, and a     *)
(* polling thread counts its tries only as long as it has some left.         *)

BufferType ==
  /\ \A s \in Sensors : historicSensorData[s] \in Seq(1..generated[s])
  /\ broker \in [MqttSensors -> Seq(Nat)]
  /\ \A s \in MqttSensors : broker[s] \in Seq(1..generated[s])
  /\ receivedSensorCSVs \in Seq([ip : MqttSensors, data : Nat \ {NoData}])
  /\ Len(receivedSensorCSVs) <= Capacity

PollingType ==
  /\ BufferType
  /\ requests \subseteq Request /\ replies \subseteq Reply
  /\ handling \in Reply \cup {Idle}
  /\ poller \in [Sensors -> {"send", "wait", "sleep"}]
  /\ requestID \in [Sensors -> Nat] /\ retryCount \in [Sensors -> 0..NumberOfTries]
  /\ \A s \in Sensors : poller[s] \in {"send", "wait"} => retryCount[s] < NumberOfTries
  /\ sentUDPRequests \in [Sensors -> Nat] /\ semSensors \in [Sensors -> Nat]
  /\ sensorUDPReplies \in Seq(DataSet)
  /\ answered \in [Sensors -> Nat \cup {-1}]

LEMMA InitType == Init => PollingType
<1> SUFFICES ASSUME Init PROVE PollingType
  OBVIOUS
<1>1. \A S : <<>> \in Seq(S)
  BY EmptySeq
<1>2. Len(receivedSensorCSVs) = 0 /\ Capacity \in Nat /\ NumberOfTries \in Nat \ {0}
  BY EmptySeq, PollingAssumption DEF Init
<1>3. BufferType
  <2>1. broker \in [MqttSensors -> Seq(Nat)]
    BY <1>1 DEF Init
  <2>2. /\ \A s \in Sensors : historicSensorData[s] = <<>>
        /\ \A s \in MqttSensors : broker[s] = <<>>
    BY DEF Init
  <2>3. receivedSensorCSVs = <<>>
    BY DEF Init
  <2> QED BY <1>1, <1>2, <2>1, <2>2, <2>3 DEF BufferType
<1>4. /\ retryCount \in [Sensors -> 0..NumberOfTries]
      /\ \A s \in Sensors : retryCount[s] < NumberOfTries
  BY <1>2 DEF Init
<1>5. /\ sentUDPRequests \in [Sensors -> Nat] /\ semSensors \in [Sensors -> Nat]
      /\ requestID \in [Sensors -> Nat] /\ poller \in [Sensors -> {"send", "wait", "sleep"}]
      /\ answered \in [Sensors -> Nat \cup {-1}]
  BY DEF Init
<1> QED BY <1>1, <1>3, <1>4, <1>5 DEF Init, PollingType

\* What a sensor has generated can only become more.
LEMMA GenerateType ==
  ASSUME SensorType, BuffersBounded, BufferType, NEW s \in Sensors, generateSensorData(s)
  PROVE  BufferType'
<1>1. /\ generated \in [Sensors -> Nat] /\ historicSensorData \in [Sensors -> Seq(Nat)]
      /\ generated' = [generated EXCEPT ![s] = @ + 1]
      /\ historicSensorData' =
           [historicSensorData EXCEPT ![s] = PushBounded(@, generated[s] + 1)]
      /\ UNCHANGED <<broker, receivedSensorCSVs>>
  BY DEF SensorType, generateSensorData, mqttVars
<1>2. ASSUME NEW q \in Sensors
      PROVE  /\ generated[q] \in Nat /\ generated'[q] \in Nat
             /\ generated'[q] = IF q = s THEN generated[q] + 1 ELSE generated[q]
             /\ 1..generated[q] \subseteq 1..generated'[q]
  BY <1>1
<1>3. ASSUME NEW q \in Sensors
      PROVE  historicSensorData'[q] \in Seq(1..generated'[q])
  <2>1. historicSensorData[q] \in Seq(1..generated[q])
    BY DEF BufferType
  <2>2. historicSensorData[q] \in Seq(1..generated'[q])
    BY <1>2, <2>1, SeqMonotonic
  <2>3. CASE q = s
    <3>1. generated[s] + 1 \in 1..generated'[s] /\ Len(historicSensorData[s]) <= Capacity
      BY <1>2, <2>3 DEF BuffersBounded
    <3>2. PushBounded(historicSensorData[s], generated[s] + 1) \in Seq(1..generated'[s])
      BY <2>2, <2>3, <3>1, PushBoundedType
    <3> QED BY <1>1, <2>3, <3>2
  <2>4. CASE q # s
    BY <1>1, <2>2, <2>4
  <2> QED BY <2>3, <2>4
<1>4. ASSUME NEW q \in MqttSensors
      PROVE  broker'[q] \in Seq(1..generated'[q])
  <2>1. q \in Sensors /\ broker[q] \in Seq(1..generated[q])
    BY DEF BufferType, Sensors
  <2> QED BY <1>1, <1>2, <2>1, SeqMonotonic
<1> QED BY <1>1, <1>3, <1>4 DEF BufferType

LEMMA MqttType ==
  ASSUME SensorType, BufferType, NEW s \in MqttSensors,
         PublishData(s) \/ on_message(s) \/ LoseMessage(s)
  PROVE  BufferType'
<1> DEFINE S == 1..generated[s]
           csv == [ip : MqttSensors, data : Nat \ {NoData}]
<1>1. /\ s \in Sensors /\ broker \in [MqttSensors -> Seq(Nat)]
      /\ historicSensorData \in [Sensors -> Seq(Nat)]
      /\ broker[s] \in Seq(S) /\ historicSensorData[s] \in Seq(S) /\ S \subseteq Nat \ {NoData}
      /\ receivedSensorCSVs \in Seq(csv) /\ Len(receivedSensorCSVs) <= Capacity
      /\ generated' = generated
  BY DEF BufferType, SensorType, Sensors, NoData, PublishData, on_message, LoseMessage, sensorVars
<1> HIDE DEF S, csv
<1>2. broker[s] # <<>> => Head(broker[s]) \in S /\ Tail(broker[s]) \in Seq(S)
  BY <1>1, HeadTailProperties
<1>3. historicSensorData[s] # <<>> =>
        /\ Tail(historicSensorData[s]) \in Seq(S)
        /\ Append(broker[s], Head(historicSensorData[s])) \in Seq(S)
  BY <1>1, HeadTailProperties, AppendProperties
<1>4. \A x \in Seq(S) : x \in Seq(Nat)
  BY <1>1, SeqMonotonic
<1>5. CASE PublishData(s)
  <2>1. broker' \in [MqttSensors -> Seq(Nat)] /\ broker'[s] \in Seq(S)
        /\ \A q \in MqttSensors \ {s} : broker'[q] = broker[q]
    BY <1>1, <1>3, <1>4, <1>5 DEF PublishData
  <2>2. historicSensorData'[s] \in Seq(S)
        /\ \A q \in Sensors \ {s} : historicSensorData'[q] = historicSensorData[q]
    BY <1>1, <1>3, <1>5 DEF PublishData
  <2> QED BY <1>1, <1>5, <2>1, <2>2 DEF BufferType, PublishData, S
<1>6. CASE on_message(s)
  <2>1. broker' \in [MqttSensors -> Seq(Nat)] /\ broker'[s] \in Seq(S)
        /\ \A q \in MqttSensors \ {s} : broker'[q] = broker[q]
    BY <1>1, <1>2, <1>4, <1>6 DEF on_message
  <2>2. [ip |-> s, data |-> Head(broker[s])] \in csv
    BY <1>1, <1>2, <1>6 DEF on_message, csv
  <2>3. receivedSensorCSVs' \in Seq(csv) /\ Len(receivedSensorCSVs') <= Capacity
    BY <1>1, <1>6, <2>2, PushBoundedType, LenProperties, PollingAssumption DEF on_message
  <2> QED BY <1>1, <1>6, <2>1, <2>3 DEF BufferType, on_message, sensorVars, S, csv
<1>7. CASE LoseMessage(s)
  <2>1. broker' \in [MqttSensors -> Seq(Nat)] /\ broker'[s] \in Seq(S)
        /\ \A q \in MqttSensors \ {s} : broker'[q] = broker[q]
    BY <1>1, <1>2, <1>4, <1>7 DEF LoseMessage
  <2> QED BY <1>1, <1>7, <2>1 DEF BufferType, LoseMessage, sensorVars, S
<1> QED BY <1>5, <1>6, <1>7

\* The adapter never answers with the data of a UDP sensor.
LEMMA AdapterType ==
  ASSUME PollingType, NEW request \in requests, generateUDPReply(request)
  PROVE  /\ PollingType'
         /\ \A r \in replies' : r.ip \notin MqttSensors => r \in replies
<1> DEFINE csvs == [ip : MqttSensors, data : Nat \ {NoData}]
<1>1. /\ request \in Request /\ request.host \in MqttSensors /\ MqttSensors \subseteq Sensors
      /\ receivedSensorCSVs \in Seq(csvs) /\ Len(receivedSensorCSVs) <= Capacity
      /\ Capacity \in Nat /\ Len(receivedSensorCSVs) \in Nat
  BY LenProperties, PollingAssumption DEF PollingType, BufferType, generateUDPReply, Sensors
<1>2. ASSUME replies' \subseteq Reply, receivedSensorCSVs' \in Seq(csvs),
             Len(receivedSensorCSVs') <= Capacity
      PROVE  PollingType'
  <2>1. BufferType'
    BY <1>2 DEF PollingType, BufferType, generateUDPReply, sensorVars
  <2> QED BY <1>2, <2>1 DEF PollingType, generateUDPReply, pollerVars, handlerVars
<1>3. CASE receivedSensorCSVs # <<>>
  <2> DEFINE csv == Head(receivedSensorCSVs)
  <2>1. csv \in csvs /\ Tail(receivedSensorCSVs) \in Seq(csvs)
        /\ Len(Tail(receivedSensorCSVs)) = Len(receivedSensorCSVs) - 1
    BY <1>1, <1>3, HeadTailProperties
  <2>2. ReplyTo(request, csv.ip, csv.data) \in Reply /\ ReplyTo(request, csv.ip, csv.data).ip \in MqttSensors
    BY <1>1, <2>1 DEF ReplyTo, Reply, Request
  <2>3. /\ replies' = replies \cup {ReplyTo(request, csv.ip, csv.data)}
        /\ receivedSensorCSVs' = Tail(receivedSensorCSVs)
    BY <1>3 DEF generateUDPReply
  <2>4. Len(receivedSensorCSVs') <= Capacity
    BY <1>1, <2>1, <2>3
  <2> HIDE DEF csv
  <2> QED BY <1>2, <2>1, <2>2, <2>3, <2>4 DEF PollingType
<1>4. CASE receivedSensorCSVs = <<>>
  <2>1. ReplyTo(request, request.host, NoData) \in Reply /\ ReplyTo(request, request.host, NoData).ip \in MqttSensors
    BY <1>1 DEF ReplyTo, Reply, Request, NoData
  <2>2. /\ replies' = replies \cup {ReplyTo(request, request.host, NoData)}
        /\ receivedSensorCSVs' = receivedSensorCSVs
    BY <1>4 DEF generateUDPReply
  <2> QED BY <1>1, <1>2, <2>1, <2>2 DEF PollingType
<1> QED BY <1>3, <1>4

LEMMA AnswerType ==
  ASSUME SensorType, PollingType, NEW request \in requests, generateReply(request)
  PROVE  PollingType'
<1> DEFINE s == request.host
           S == 1..generated[s]
<1>1. /\ request \in Request /\ s \in UdpSensors /\ s \in Sensors
      /\ historicSensorData \in [Sensors -> Seq(Nat)]
      /\ historicSensorData[s] \in Seq(S) /\ S \subseteq Nat
  BY DEF PollingType, BufferType, SensorType, generateReply, Sensors
<1>2. \A d \in Nat : ReplyTo(request, s, d) \in Reply
  BY <1>1 DEF ReplyTo, Reply, Request
<1> HIDE DEF S
<1>3. historicSensorData[s] # <<>> =>
        Head(historicSensorData[s]) \in Nat /\ Tail(historicSensorData[s]) \in Seq(S)
  BY <1>1, HeadTailProperties
<1>4. replies' \subseteq Reply /\ requests' \subseteq Request
  BY <1>2, <1>3 DEF PollingType, generateReply, NoData
<1>5. /\ historicSensorData'[s] \in Seq(S)
      /\ \A q \in Sensors \ {s} : historicSensorData'[q] = historicSensorData[q]
  BY <1>1, <1>3 DEF generateReply
<1>6. BufferType'
  BY <1>1, <1>5 DEF PollingType, BufferType, generateReply, mqttVars, S
<1> QED BY <1>4, <1>6 DEF PollingType, generateReply, pollerVars, handlerVars

LEMMA PollerType ==
  ASSUME PollingType, NEW s \in Sensors,
         SendRequest(s) \/ GotAnswer(s) \/ TimeOut(s) \/ WakeUp(s)
  PROVE  PollingType'
<1>1. /\ poller \in [Sensors -> {"send", "wait", "sleep"}]
      /\ requestID \in [Sensors -> Nat] /\ retryCount \in [Sensors -> 0..NumberOfTries]
      /\ sentUDPRequests \in [Sensors -> Nat] /\ semSensors \in [Sensors -> Nat]
      /\ \A q \in Sensors : poller[q] \in {"send", "wait"} => retryCount[q] < NumberOfTries
      /\ requests \subseteq Request /\ NumberOfTries \in Nat \ {0}
  BY PollingAssumption DEF PollingType
<1>2. UNCHANGED <<historicSensorData, generated, broker, receivedSensorCSVs, replies>>
  BY DEF SendRequest, GotAnswer, TimeOut, WakeUp, sensorVars, mqttVars, netVars
<1>3. BufferType'
  BY <1>2 DEF PollingType, BufferType
<1>4. CASE SendRequest(s)
  <2>1. [id |-> requestID[s], host |-> s, try |-> retryCount[s]] \in Request
    BY <1>1, <1>4 DEF SendRequest, Request
  <2>2. requests' \subseteq Request /\ sentUDPRequests' \in [Sensors -> Nat]
    BY <1>1, <1>4, <2>1 DEF SendRequest
  <2>3. /\ poller' \in [Sensors -> {"send", "wait", "sleep"}]
        /\ \A q \in Sensors : poller'[q] \in {"send", "wait"} => retryCount'[q] < NumberOfTries
    BY <1>1, <1>4 DEF SendRequest
  <2> QED BY <1>1, <1>3, <1>4, <2>2, <2>3 DEF PollingType, SendRequest, handlerVars
<1>5. CASE GotAnswer(s)
  <2>1. /\ poller' \in [Sensors -> {"send", "wait", "sleep"}]
        /\ \A q \in Sensors : poller'[q] \in {"send", "wait"} => retryCount'[q] < NumberOfTries
    BY <1>1, <1>5 DEF GotAnswer
  <2>2. semSensors' \in [Sensors -> Nat]
    BY <1>1, <1>5 DEF GotAnswer
  <2> QED BY <1>3, <1>5, <2>1, <2>2 DEF PollingType, GotAnswer, netVars, handlerVars
<1>6. CASE TimeOut(s)
  <2>1. /\ retryCount' \in [Sensors -> 0..NumberOfTries]
        /\ retryCount'[s] = retryCount[s] + 1
        /\ \A q \in Sensors \ {s} : retryCount'[q] = retryCount[q]
    BY <1>1, <1>6 DEF TimeOut
  <2>2. /\ poller' \in [Sensors -> {"send", "wait", "sleep"}]
        /\ poller'[s] = IF retryCount[s] + 1 < NumberOfTries THEN "send" ELSE "sleep"
        /\ \A q \in Sensors \ {s} : poller'[q] = poller[q]
    BY <1>1, <1>6 DEF TimeOut
  <2>3. \A q \in Sensors : poller'[q] \in {"send", "wait"} => retryCount'[q] < NumberOfTries
    BY <1>1, <2>1, <2>2
  <2> QED BY <1>3, <1>6, <2>1, <2>2, <2>3 DEF PollingType, TimeOut, netVars, handlerVars
<1>7. CASE WakeUp(s)
  <2>1. requestID' \in [Sensors -> Nat] /\ retryCount' \in [Sensors -> 0..NumberOfTries]
    BY <1>1, <1>7 DEF WakeUp
  <2>2. /\ poller' \in [Sensors -> {"send", "wait", "sleep"}]
        /\ \A q \in Sensors : poller'[q] \in {"send", "wait"} => retryCount'[q] < NumberOfTries
    BY <1>1, <1>7 DEF WakeUp
  <2> QED BY <1>3, <1>7, <2>1, <2>2 DEF PollingType, WakeUp, netVars, handlerVars
<1> QED BY <1>4, <1>5, <1>6, <1>7

LEMMA HandlerType ==
  ASSUME PollingType, (\E reply \in replies : ReceiveReply(reply)) \/ TakeReply
  PROVE  PollingType'
<1>1. BufferType'
  BY DEF PollingType, BufferType, ReceiveReply, TakeReply, sensorVars, mqttVars
<1>2. CASE \E reply \in replies : ReceiveReply(reply)
  BY <1>1, <1>2 DEF PollingType, ReceiveReply, pollerVars
<1>3. CASE TakeReply
  <2>1. /\ handling \in Reply /\ sensorUDPReplies \in Seq(DataSet)
        /\ semSensors \in [Sensors -> Nat] /\ answered \in [Sensors -> Nat \cup {-1}]
    BY <1>3 DEF PollingType, TakeReply
  <2>2. handling.data # NoData => [ip |-> handling.ip, data |-> handling.data] \in DataSet
    BY <2>1 DEF Reply, DataSet
  <2>3. sensorUDPReplies' \in Seq(DataSet)
    BY <1>3, <2>1, <2>2, AppendProperties DEF TakeReply
  <2>4. semSensors' \in [Sensors -> Nat] /\ answered' \in [Sensors -> Nat \cup {-1}]
    BY <1>3, <2>1 DEF TakeReply, Reply
  <2> QED BY <1>1, <1>3, <2>3, <2>4 DEF PollingType, TakeReply, netVars, pollerVars
<1> QED BY <1>2, <1>3

LEMMA StepType ==
  ASSUME SensorType, BuffersBounded, PollingType, [Next]_vars
  PROVE  PollingType'
<1>1. BufferType
  BY DEF PollingType
<1>2. ASSUME BufferType', UNCHANGED <<netVars, pollerVars, semSensors, handlerVars>>
      PROVE  PollingType'
  BY <1>2 DEF PollingType, netVars, pollerVars, handlerVars
<1>3. CASE Sensor
  <2>1. ASSUME NEW s \in Sensors, generateSensorData(s)
        PROVE  PollingType'
    BY <1>1, <1>2, <2>1, GenerateType DEF generateSensorData
  <2>2. ASSUME NEW s \in MqttSensors, AwaitNewData(s) \/ TakeFromEmpty(s)
        PROVE  PollingType'
    BY <1>1, <1>2, <2>2 DEF BufferType, AwaitNewData, TakeFromEmpty, mqttVars
  <2>3. ASSUME NEW s \in MqttSensors, PublishData(s)
        PROVE  PollingType'
    BY <1>1, <1>2, <2>3, MqttType DEF PublishData
  <2> QED BY <1>3, <2>1, <2>2, <2>3 DEF Sensor
<1>4. ASSUME NEW s \in MqttSensors, on_message(s) \/ LoseMessage(s)
      PROVE  PollingType'
  BY <1>1, <1>2, <1>4, MqttType DEF on_message, LoseMessage
<1>5. ASSUME NEW request \in requests, LoseRequest(request)
      PROVE  PollingType'
  BY <1>5 DEF PollingType, BufferType, LoseRequest, sensorVars, mqttVars, pollerVars, handlerVars
<1>6. ASSUME NEW reply \in replies, LoseReply(reply)
      PROVE  PollingType'
  BY <1>6 DEF PollingType, BufferType, LoseReply, sensorVars, mqttVars, pollerVars, handlerVars
<1>7. CASE Gateway
  BY <1>7, PollerType, HandlerType DEF Gateway
<1>8. CASE UNCHANGED vars
  BY <1>1, <1>2, <1>8 DEF BufferType, vars, sensorVars, mqttVars
<1> QED BY <1>3, <1>4, <1>5, <1>6, <1>7, <1>8, AdapterType, AnswerType DEF Next

LEMMA TypeInvariance == Spec => [](IInv /\ PollingType)
<1>1. IInv /\ PollingType /\ [Next]_vars => PollingType'
  BY StepType DEF IInv
<1> QED BY <1>1, InitIInv, InitType, StepIInv, PTL DEF Spec

\* Every variable of the sensors, the broker, the adapter, the network and the
\* gateway keeps its type, and no buffer grows beyond its capacity.
THEOREM TypesKept == Spec => []TypeOK
<1>1. IInv /\ PollingType => TypeOK
  <2> SUFFICES ASSUME IInv, PollingType PROVE TypeOK
    OBVIOUS
  <2>1. receivedSensorCSVs \in Seq(DataSet)
    <3>1. [ip : MqttSensors, data : Nat \ {NoData}] \subseteq DataSet
      BY DEF DataSet, Sensors
    <3> QED BY <3>1, SeqMonotonic DEF PollingType, BufferType
  <2> QED BY <2>1 DEF IInv, SensorType, BuffersBounded, PollingType, BufferType, TypeOK
<1> QED BY <1>1, TypeInvariance, PTL
=============================================================================
