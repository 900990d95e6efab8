----------------------------- MODULE OrderProofs -----------------------------
(***************************************************************************)
(* Proofs about the data of a UDP sensor: that the gateway takes it in the *)
(* order it was generated in, whatever the network loses, delays and       *)
(* reorders, if each request is tried once, as in the code; and that       *)
(* nothing of it is missing as long as nothing is lost, late or dropped,   *)
(* however often a request is tried.                                       *)
(***************************************************************************)
EXTENDS PollingProofs

-----------------------------------------------------------------------------
(* The inductive invariant *)

\* Replies of sensor s that are on their way or being handled.
Carried(s) == {r \in replies \cup {handling} : r # Idle /\ r.ip = s}

\* Those of them that handleReply would still take.
Current(s) ==
  {r \in replies : r.ip = s /\ r.id = sentUDPRequests[s] /\ r.data # NoData}

TakenFrom(s) ==
  {sensorUDPReplies[i].data : i \in TakenAt(s)}

\* A number that the poller of s has used for a request.
Used(s, id) == id <= requestID[s] /\ (poller[s] = "send" => id < requestID[s])

\* Every request has a number of its own, and at most one reply.
Numbered(s) ==
  /\ \A q \in requests : q.host = s => Used(s, q.id)
  /\ \A r \in Carried(s) : /\ r.request.host = s /\ r.request.id = r.id
                           /\ r.request \notin requests
                           /\ Used(s, r.id)
  /\ \A r, q \in Carried(s) : r.id = q.id => r = q

\* What has left the buffer of s and is not lost.
Gone(s) == TakenFrom(s) \cup {r.data : r \in Carried(s)}

\* The buffer is ascending, and all that has left it is before it.
BufferAscends(s) ==
  LET buffer == historicSensorData[s]
  IN  /\ \A i \in DOMAIN buffer : buffer[i] \in 1..generated[s]
      /\ \A i, j \in DOMAIN buffer : i < j => buffer[i] < buffer[j]
      /\ \A x \in Gone(s) : x <= generated[s] /\ \A i \in DOMAIN buffer : x < buffer[i]

\* What has been taken is before what is being handled, and both are before what
\* may still be taken.
TakenAscends(s) ==
  /\ \A i, j \in TakenAt(s) : i < j => sensorUDPReplies[i].data < sensorUDPReplies[j].data
  /\ \A x \in TakenFrom(s), r \in Current(s) : x < r.data
  /\ handling # Idle /\ handling.ip = s /\ handling.data # NoData =>
       /\ \A x \in TakenFrom(s) : x < handling.data
       /\ \A r \in Current(s) : handling.data < r.data

Ordered(s) == Numbered(s) /\ BufferAscends(s) /\ TakenAscends(s)

OrderInv == \A s \in UdpSensors : Ordered(s)

-----------------------------------------------------------------------------
\* Order.

LEMMA CarriedType ==
  ASSUME PollingType, NEW s
  PROVE  /\ Carried(s) \subseteq Reply /\ Current(s) \subseteq Carried(s)
         /\ handling # Idle /\ handling.ip = s => handling \in Carried(s)
BY DEF PollingType, Carried, Current, Reply, Idle

LEMMA GoneType == PollingType => \A s : Gone(s) \subseteq Nat
<1> SUFFICES ASSUME PollingType, NEW s PROVE Gone(s) \subseteq Nat
  OBVIOUS
<1>1. \A r \in Carried(s) : r.data \in Nat
  BY CarriedType DEF Reply
<1>2. \A i \in DOMAIN sensorUDPReplies : sensorUDPReplies[i].data \in Nat
  <2>1. sensorUDPReplies \in Seq(DataSet)
    BY DEF PollingType
  <2>2. \A i \in DOMAIN sensorUDPReplies : sensorUDPReplies[i] \in DataSet
    BY <2>1, ElementOfSeq, LenProperties
  <2> QED BY <2>2 DEF DataSet
<1> QED BY <1>1, <1>2 DEF Gone, TakenFrom, TakenAt

LEMMA InitOrdered ==
  ASSUME Init, NEW s \in UdpSensors
  PROVE  Ordered(s)
<1>1. Carried(s) = {} /\ Current(s) = {} /\ TakenFrom(s) = {}
  BY DEF Init, Carried, Current, TakenFrom, TakenAt
<1>2. historicSensorData[s] = <<>> /\ sensorUDPReplies = <<>> /\ requests = {} /\ handling = Idle
  BY DEF Init, Sensors
<1>3. Gone(s) = {}
  BY <1>1 DEF Gone
<1> QED BY <1>1, <1>2, <1>3 DEF Ordered, Numbered, BufferAscends, TakenAscends, TakenAt

\* Nothing new of sensor s is on its way, taken or generated.
LEMMA NothingNew ==
  ASSUME PollingType, NEW s \in UdpSensors, Ordered(s),
         \A q \in requests' : q.host = s => q \in requests,
         Carried(s)' \subseteq Carried(s), Current(s)' \subseteq Current(s),
         UNCHANGED <<handling, sensorUDPReplies>>,
         generated'[s] = generated[s], historicSensorData'[s] = historicSensorData[s],
         \A id \in Nat : Used(s, id) => Used(s, id)'
  PROVE  Ordered(s)'
<1>1. requests \subseteq Request /\ Carried(s) \subseteq Reply
  BY CarriedType DEF PollingType
<1>2. Numbered(s)'
  <2>1. ASSUME NEW q \in requests', q.host = s
        PROVE  Used(s, q.id)'
    BY <1>1, <2>1 DEF Ordered, Numbered, Request
  <2>2. ASSUME NEW r \in Carried(s)'
        PROVE  r.request.host = s /\ r.request.id = r.id /\ r.request \notin requests' /\ Used(s, r.id)'
    BY <1>1, <2>2 DEF Ordered, Numbered, Reply
  <2>3. \A r, q \in Carried(s)' : r.id = q.id => r = q
    BY DEF Ordered, Numbered
  <2> QED BY <2>1, <2>2, <2>3 DEF Numbered
<1>3. TakenFrom(s)' = TakenFrom(s) /\ Gone(s)' \subseteq Gone(s)
  BY DEF TakenFrom, TakenAt, Gone
<1>4. BufferAscends(s)'
  BY <1>3 DEF Ordered, BufferAscends
<1>5. TakenAscends(s)'
  BY <1>3 DEF Ordered, TakenAscends, TakenAt
<1> QED BY <1>2, <1>4, <1>5 DEF Ordered

\* What is on its way depends on the replies and the handler only.
LEMMA SameReplies ==
  ASSUME UNCHANGED <<replies, handling>>, NEW s
  PROVE  /\ Carried(s)' = Carried(s)
         /\ sentUDPRequests'[s] = sentUDPRequests[s] => Current(s)' = Current(s)
BY DEF Carried, Current

\* Steps at other sensors, at the broker and at the adapter.
LEMMA Elsewhere ==
  ASSUME PollingType, NEW s \in UdpSensors, Ordered(s),
         \A q \in requests' : q.host = s => q \in requests,
         \A r \in replies' : r.ip = s => r \in replies,
         UNCHANGED <<handling, sensorUDPReplies>>,
         poller'[s] = poller[s], requestID'[s] = requestID[s],
         sentUDPRequests'[s] = sentUDPRequests[s],
         generated'[s] = generated[s], historicSensorData'[s] = historicSensorData[s]
  PROVE  Ordered(s)'
<1>1. Carried(s)' \subseteq Carried(s) /\ Current(s)' \subseteq Current(s)
  BY DEF Carried, Current
<1>2. \A id : Used(s, id)' <=> Used(s, id)
  BY DEF Used
<1> QED BY <1>1, <1>2, NothingNew

-----------------------------------------------------------------------------
\* The sensor.

\* Adding to an ascending buffer a number above all of it leaves it ascending.
LEMMA PushedAscends ==
  ASSUME NEW buffer \in Seq(Nat), NEW x \in Nat,
         \A i, j \in DOMAIN buffer : i < j => buffer[i] < buffer[j],
         \A i \in DOMAIN buffer : buffer[i] < x,
         NEW pushed, pushed = PushBounded(buffer, x)
  PROVE  /\ \A i, j \in DOMAIN pushed : i < j => pushed[i] < pushed[j]
         /\ \A i \in DOMAIN pushed : pushed[i] = x \/ \E k \in DOMAIN buffer : pushed[i] = buffer[k]
<1>1. Len(buffer) \in Nat /\ Capacity \in Nat \ {0} /\ DOMAIN buffer = 1..Len(buffer)
  BY LenProperties, PollingAssumption
<1>2. \A i \in DOMAIN buffer : buffer[i] \in Nat
  BY <1>1, ElementOfSeq
<1>3. CASE Len(buffer) >= Capacity
  <2> DEFINE rest == Tail(buffer)
  <2>1. /\ rest \in Seq(Nat) /\ Len(rest) = Len(buffer) - 1
        /\ \A i \in 1..Len(rest) : rest[i] = buffer[i + 1]
    BY <1>1, <1>3, EmptySeq, HeadTailProperties
  <2>2. pushed = Append(rest, x)
    BY <1>3 DEF PushBounded
  <2> HIDE DEF rest
  <2>3. /\ pushed \in Seq(Nat) /\ Len(pushed) = Len(rest) + 1
        /\ \A i \in 1..Len(rest) : pushed[i] = rest[i]
        /\ pushed[Len(rest) + 1] = x
    BY <2>1, <2>2, AppendProperties
  <2>4. Len(rest) + 1 = Len(buffer) /\ DOMAIN pushed = 1..Len(buffer)
    BY <1>1, <2>1, <2>3, LenProperties
  <2>5. pushed[Len(buffer)] = x
    BY <2>3, <2>4
  <2>6. ASSUME NEW i \in 1..(Len(buffer) - 1)
        PROVE  pushed[i] = buffer[i + 1] /\ i \in 1..Len(buffer) /\ i + 1 \in DOMAIN buffer
    BY <1>1, <2>1, <2>3, <2>6
  <2>7. ASSUME NEW i \in DOMAIN pushed, NEW j \in DOMAIN pushed, i < j
        PROVE  pushed[i] < pushed[j]
    <3>1. i \in 1..(Len(buffer) - 1)
      BY <1>1, <2>4, <2>7
    <3>2. CASE j = Len(buffer)
      BY <2>5, <2>6, <3>1, <3>2
    <3>3. CASE j # Len(buffer)
      <4>1. j \in 1..(Len(buffer) - 1) /\ i + 1 < j + 1
        BY <1>1, <2>4, <2>7, <3>3
      <4> QED BY <2>6, <3>1, <4>1
    <3> QED BY <3>2, <3>3
  <2>8. ASSUME NEW i \in DOMAIN pushed
        PROVE  pushed[i] = x \/ \E k \in DOMAIN buffer : pushed[i] = buffer[k]
    <3>1. CASE i = Len(buffer)
      BY <2>5, <3>1
    <3>2. CASE i # Len(buffer)
      <4>1. i \in 1..(Len(buffer) - 1)
        BY <1>1, <2>4, <3>2
      <4> QED BY <2>6, <4>1
    <3> QED BY <3>1, <3>2
  <2> QED BY <2>7, <2>8
<1>4. CASE ~(Len(buffer) >= Capacity)
  <2>1. pushed = Append(buffer, x)
    BY <1>4 DEF PushBounded
  <2>2. /\ DOMAIN pushed = 1..(Len(buffer) + 1)
        /\ \A i \in 1..Len(buffer) : pushed[i] = buffer[i]
        /\ pushed[Len(buffer) + 1] = x
    BY <1>1, <2>1, AppendProperties, LenProperties
  <2> QED BY <1>1, <1>2, <2>2
<1> QED BY <1>3, <1>4

LEMMA GenerateOrdered ==
  ASSUME SensorType, PollingType, NEW g \in Sensors, generateSensorData(g),
         NEW s \in UdpSensors, Ordered(s)
  PROVE  Ordered(s)'
<1>1. /\ UNCHANGED <<requests, replies, poller, requestID, sentUDPRequests, handling, sensorUDPReplies>>
      /\ generated' = [generated EXCEPT ![g] = @ + 1]
      /\ historicSensorData' = [historicSensorData EXCEPT ![g] = PushBounded(@, generated[g] + 1)]
  BY DEF generateSensorData, netVars, pollerVars, handlerVars
<1>2. s \in Sensors /\ generated \in [Sensors -> Nat] /\ historicSensorData \in [Sensors -> Seq(Nat)]
  BY DEF SensorType, Sensors
<1>3. CASE g # s
  BY <1>1, <1>2, <1>3, Elsewhere
<1>4. CASE g = s
  <2> DEFINE old == historicSensorData[s]
             new == historicSensorData'[s]
             x == generated[s] + 1
  <2>1. old \in Seq(Nat) /\ generated[s] \in Nat /\ x \in Nat /\ generated'[s] = x
        /\ new = PushBounded(old, x)
    BY <1>1, <1>2, <1>4
  <2>2. /\ \A i \in DOMAIN old : old[i] \in 1..generated[s]
        /\ \A i, j \in DOMAIN old : i < j => old[i] < old[j]
        /\ \A y \in Gone(s) : y <= generated[s] /\ \A i \in DOMAIN old : y < old[i]
    BY DEF Ordered, BufferAscends
  <2>3. Carried(s)' = Carried(s) /\ Current(s)' = Current(s) /\ TakenFrom(s)' = TakenFrom(s)
    BY <1>1, SameReplies DEF TakenFrom, TakenAt
  <2> HIDE DEF old, new, x
  <2>4. /\ \A i, j \in DOMAIN new : i < j => new[i] < new[j]
        /\ \A i \in DOMAIN new : new[i] = x \/ \E k \in DOMAIN old : new[i] = old[k]
    <3>1. \A i \in DOMAIN old : old[i] < x
      BY <2>1, <2>2 DEF x
    <3> QED BY <2>1, <2>2, <3>1, PushedAscends
  <2>5. \A i \in DOMAIN new : new[i] \in 1..x
    BY <2>1, <2>2, <2>4 DEF x
  <2>6. ASSUME NEW y \in Gone(s)
        PROVE  y <= x /\ \A i \in DOMAIN new : y < new[i]
    <3>1. y \in Nat /\ y <= generated[s] /\ \A i \in DOMAIN old : y < old[i]
      BY <2>2, GoneType
    <3>2. y < x
      BY <2>1, <3>1 DEF x
    <3> QED BY <2>1, <2>4, <3>1, <3>2
  <2>7. Gone(s)' = Gone(s)
    BY <2>3 DEF Gone
  <2>8. BufferAscends(s)'
    BY <2>1, <2>4, <2>5, <2>6, <2>7 DEF BufferAscends, new
  <2>9. Numbered(s)'
    BY <1>1, <2>3 DEF Ordered, Numbered, Used
  <2>10. TakenAscends(s)'
    BY <1>1, <2>3 DEF Ordered, TakenAscends, TakenAt
  <2> QED BY <2>8, <2>9, <2>10 DEF Ordered
<1> QED BY <1>3, <1>4

\* Two replies to one request would be two replies to one number.
LEMMA OneReply ==
  ASSUME NumberOfTries = 1, PollingType, NEW s \in UdpSensors, Ordered(s),
         NEW request \in requests, request.host = s
  PROVE  \A r \in Carried(s) : r.id # request.id
<1> SUFFICES ASSUME NEW r \in Carried(s), r.id = request.id PROVE FALSE
  OBVIOUS
<1>1. r.request.host = s /\ r.request.id = r.id /\ r.request \notin requests
  BY DEF Ordered, Numbered
<1>2. request \in Request /\ r.request \in Request
  BY CarriedType DEF PollingType, Reply
<1>3. request.try = 0 /\ r.request.try = 0
  BY <1>2 DEF Request
<1>4. request = r.request
  BY <1>1, <1>2, <1>3 DEF Request
<1> QED BY <1>1, <1>4

LEMMA AnswerOrdered ==
  ASSUME NumberOfTries = 1, SensorType, PollingType,
         NEW request \in requests, generateReply(request),
         NEW s \in UdpSensors, Ordered(s)
  PROVE  Ordered(s)'
<1> DEFINE t == request.host
           old == historicSensorData[t]
           d == IF old # <<>> THEN Head(old) ELSE NoData
           new == ReplyTo(request, t, d)
<1>1. /\ t \in UdpSensors /\ requests' = requests \ {request}
      /\ replies' = replies \cup {new}
      /\ historicSensorData' = IF old # <<>> THEN [historicSensorData EXCEPT ![t] = Tail(@)]
                                             ELSE historicSensorData
      /\ UNCHANGED <<poller, requestID, sentUDPRequests, handling, sensorUDPReplies, generated>>
  BY DEF generateReply, pollerVars, handlerVars
<1>2. /\ request \in Request /\ old \in Seq(Nat) /\ s \in Sensors /\ t \in Sensors
      /\ historicSensorData \in [Sensors -> Seq(Nat)] /\ generated[s] \in Nat
  BY <1>1 DEF PollingType, SensorType, Sensors
<1>3. new.id = request.id /\ new.ip = t /\ new.data = d /\ new.request = request
  BY DEF ReplyTo
<1>4. CASE t # s
  BY <1>1, <1>2, <1>3, <1>4, Elsewhere
<1>5. CASE t = s
  <2>1. /\ Carried(s)' \subseteq Carried(s) \cup {new}
        /\ Current(s)' \subseteq Current(s) \cup (IF d # NoData THEN {new} ELSE {})
        /\ TakenFrom(s)' = TakenFrom(s)
    BY <1>1, <1>3 DEF Carried, Current, TakenFrom, TakenAt
  <2>2. \A r \in Carried(s) : r.id # request.id
    BY <1>5, OneReply
  <2>3. Numbered(s)'
    <3>1. \A q \in requests' : q.host = s => Used(s, q.id)'
      BY <1>1 DEF Ordered, Numbered, Used
    <3>2. \A r \in Carried(s)' : r.request.host = s /\ r.request.id = r.id /\ r.request \notin requests' /\ Used(s, r.id)'
      BY <1>1, <1>3, <1>5, <2>1 DEF Ordered, Numbered, Used
    <3>3. \A r, q \in Carried(s)' : r.id = q.id => r = q
      BY <1>3, <2>1, <2>2 DEF Ordered, Numbered
    <3> QED BY <3>1, <3>2, <3>3 DEF Numbered
  <2>4. /\ \A i \in DOMAIN old : old[i] \in 1..generated[s]
        /\ \A i, j \in DOMAIN old : i < j => old[i] < old[j]
        /\ \A y \in Gone(s) : y <= generated[s] /\ \A i \in DOMAIN old : y < old[i]
    BY <1>5 DEF Ordered, BufferAscends
  <2>5. /\ handling # Idle /\ handling.ip = s => handling.data \in Gone(s)
        /\ TakenFrom(s) \subseteq Gone(s) /\ Gone(s)' \subseteq Gone(s) \cup {d}
    BY <1>3, <2>1, CarriedType DEF Gone
  <2>6. CASE old = <<>>
    <3>1. d = NoData /\ historicSensorData' = historicSensorData /\ DOMAIN old = {}
      BY <1>1, <2>6
    <3>2. BufferAscends(s)'
      <4>1. \A y \in Gone(s)' : y <= generated[s] /\ \A i \in DOMAIN old : y < old[i]
        BY <1>2, <2>4, <2>5, <3>1 DEF NoData
      <4> QED BY <1>1, <1>5, <2>4, <3>1, <4>1 DEF BufferAscends
    <3>3. TakenAscends(s)'
      BY <1>1, <2>1, <3>1 DEF Ordered, TakenAscends, TakenAt
    <3> QED BY <2>3, <3>2, <3>3 DEF Ordered
  <2>7. CASE old # <<>>
    <3> DEFINE rest == Tail(old)
    <3>1. /\ rest \in Seq(Nat) /\ Len(old) \in Nat \ {0} /\ Len(rest) = Len(old) - 1
          /\ \A i \in 1..Len(rest) : rest[i] = old[i + 1]
          /\ Head(old) = old[1] /\ DOMAIN old = 1..Len(old) /\ DOMAIN rest = 1..Len(rest)
      BY <1>2, <2>7, HeadTailProperties, LenProperties, EmptySeq
    <3>2. d = old[1] /\ 1 \in DOMAIN old /\ historicSensorData'[s] = rest
      BY <1>1, <1>2, <1>5, <2>7, <3>1
    <3> HIDE DEF old, rest
    <3>3. \A i \in DOMAIN rest : i + 1 \in DOMAIN old /\ 1 < i + 1 /\ rest[i] = old[i + 1]
      BY <3>1
    <3>4. d \in 1..generated[s] /\ \A i \in DOMAIN rest : rest[i] \in 1..generated[s] /\ d < rest[i]
      BY <2>4, <3>2, <3>3
    <3>5. \A i, j \in DOMAIN rest : i < j => rest[i] < rest[j]
      <4> SUFFICES ASSUME NEW i \in DOMAIN rest, NEW j \in DOMAIN rest, i < j
                   PROVE  rest[i] < rest[j]
        OBVIOUS
      <4>1. i + 1 < j + 1
        BY <3>1
      <4> QED BY <2>4, <3>3, <4>1
    <3> HIDE DEF d, new
    <3>6. BufferAscends(s)'
      <4>1. \A y \in Gone(s) : y <= generated[s] /\ \A i \in DOMAIN rest : y < rest[i]
        BY <2>4, <3>3
      <4>2. d <= generated[s] /\ \A i \in DOMAIN rest : d < rest[i]
        BY <1>2, <3>4
      <4>3. \A y \in Gone(s)' : y <= generated[s] /\ \A i \in DOMAIN rest : y < rest[i]
        BY <2>5, <4>1, <4>2
      <4> QED BY <1>1, <3>2, <3>4, <3>5, <4>3 DEF BufferAscends
    <3>7. TakenAscends(s)'
      <4>1. \A y \in TakenFrom(s) : y < d
        BY <2>4, <2>5, <3>2
      <4>2. handling # Idle /\ handling.ip = s => handling.data < d
        BY <2>4, <2>5, <3>2
      <4>3. \A r \in Current(s)' : r \in Current(s) \/ r.data = d
        BY <1>3, <2>1
      <4> QED BY <1>1, <2>1, <4>1, <4>2, <4>3 DEF Ordered, TakenAscends, TakenAt
    <3> QED BY <2>3, <3>6, <3>7 DEF Ordered
  <2> QED BY <2>6, <2>7
<1> QED BY <1>4, <1>5

-----------------------------------------------------------------------------
\* The gateway.

\* With a new number expected, none of the replies on their way would be taken.
LEMMA SendOrdered ==
  ASSUME PollingType, NEW p \in Sensors, SendRequest(p), NEW s \in UdpSensors, Ordered(s)
  PROVE  Ordered(s)'
<1> DEFINE new == [id |-> requestID[p], host |-> p, try |-> retryCount[p]]
<1>1. /\ poller[p] = "send" /\ poller' = [poller EXCEPT ![p] = "wait"]
      /\ sentUDPRequests' = [sentUDPRequests EXCEPT ![p] = requestID[p]]
      /\ requests' = requests \cup {new}
      /\ UNCHANGED <<replies, requestID, handling, sensorUDPReplies, generated, historicSensorData>>
  BY DEF SendRequest, sensorVars, handlerVars
<1>2. /\ s \in Sensors /\ requestID[p] \in Nat /\ requestID[s] \in Nat
      /\ poller \in [Sensors -> {"send", "wait", "sleep"}]
      /\ sentUDPRequests \in [Sensors -> Nat]
  BY DEF PollingType, Sensors
<1>3. CASE p # s
  BY <1>1, <1>2, <1>3, Elsewhere
<1>4. CASE p = s
  <2>1. Carried(s)' = Carried(s) /\ TakenFrom(s)' = TakenFrom(s) /\ Gone(s)' = Gone(s)
    BY <1>1, SameReplies DEF TakenFrom, TakenAt, Gone
  <2>2. \A r \in Carried(s) : r.id < requestID[s]
    BY <1>1, <1>4 DEF Ordered, Numbered, Used
  <2>3. Current(s)' = {}
    <3> SUFFICES ASSUME NEW r \in Current(s)' PROVE FALSE
      OBVIOUS
    <3>1. r \in replies /\ r.ip = s /\ r.id = requestID[s]
      BY <1>1, <1>2, <1>4 DEF Current
    <3>2. r \in Carried(s) /\ r.id \in Nat
      BY <3>1 DEF Carried, PollingType, Reply, Idle
    <3> QED BY <1>2, <2>2, <3>1, <3>2
  <2>4. \A id \in Nat : Used(s, id) => Used(s, id)'
    BY <1>1, <1>2 DEF Used
  <2>5. requests \subseteq Request /\ Carried(s) \subseteq Reply
    BY CarriedType DEF PollingType
  <2>6. Numbered(s)'
    <3>1. \A q \in requests' : q.host = s => Used(s, q.id)'
      <4>1. Used(s, new.id)'
        BY <1>1, <1>2, <1>4 DEF Used
      <4>2. \A q \in requests : q.host = s => Used(s, q.id)'
        BY <2>4, <2>5 DEF Ordered, Numbered, Request
      <4> QED BY <1>1, <4>1, <4>2
    <3>2. ASSUME NEW r \in Carried(s)'
          PROVE  r.request.host = s /\ r.request.id = r.id /\ r.request \notin requests' /\ Used(s, r.id)'
      <4>1. /\ r.request.host = s /\ r.request.id = r.id /\ r.request \notin requests
            /\ Used(s, r.id) /\ r.id \in Nat /\ r.id < requestID[s]
        BY <2>1, <2>2, <2>5 DEF Ordered, Numbered, Reply
      <4>2. r.request # new
        BY <1>2, <1>4, <4>1
      <4> QED BY <1>1, <2>4, <4>1, <4>2
    <3>3. \A r, q \in Carried(s)' : r.id = q.id => r = q
      BY <2>1 DEF Ordered, Numbered
    <3> QED BY <3>1, <3>2, <3>3 DEF Numbered
  <2>7. BufferAscends(s)'
    BY <1>1, <2>1 DEF Ordered, BufferAscends
  <2>8. TakenAscends(s)'
    BY <1>1, <2>1, <2>3 DEF Ordered, TakenAscends, TakenAt
  <2> QED BY <2>6, <2>7, <2>8 DEF Ordered
<1> QED BY <1>3, <1>4

LEMMA WaitOrdered ==
  ASSUME NumberOfTries = 1, PollingType, NEW p \in Sensors,
         GotAnswer(p) \/ TimeOut(p) \/ WakeUp(p),
         NEW s \in UdpSensors, Ordered(s)
  PROVE  Ordered(s)'
<1>1. UNCHANGED <<requests, replies, sentUDPRequests, handling, sensorUDPReplies, generated, historicSensorData>>
  BY DEF GotAnswer, TimeOut, WakeUp, netVars, sensorVars, handlerVars
<1>2. /\ s \in Sensors /\ requestID \in [Sensors -> Nat] /\ retryCount \in [Sensors -> 0..NumberOfTries]
      /\ poller \in [Sensors -> {"send", "wait", "sleep"}]
  BY DEF PollingType, Sensors
<1>3. ASSUME NEW id \in Nat, Used(s, id)
      PROVE  Used(s, id)'
  <2>1. CASE GotAnswer(p)
    BY <1>2, <1>3, <2>1 DEF GotAnswer, Used
  <2>2. CASE TimeOut(p)
    <3>1. ~(retryCount[p] + 1 < NumberOfTries)
      BY <1>2
    <3> QED BY <1>2, <1>3, <2>2, <3>1 DEF TimeOut, Used
  <2>3. CASE WakeUp(p)
    <3>1. requestID[s] \in Nat /\ requestID'[s] \in {requestID[s], requestID[s] + 1}
      BY <1>2, <2>3 DEF WakeUp
    <3>2. p # s => requestID'[s] = requestID[s] /\ poller'[s] = poller[s]
      BY <1>2, <2>3 DEF WakeUp
    <3>3. p = s => requestID'[s] = requestID[s] + 1
      BY <1>2, <2>3 DEF WakeUp
    <3> QED BY <1>3, <3>1, <3>2, <3>3 DEF Used
  <2> QED BY <2>1, <2>2, <2>3
<1>4. Carried(s)' = Carried(s) /\ Current(s)' = Current(s)
  BY <1>1, SameReplies
<1> QED BY <1>1, <1>3, <1>4, NothingNew

\* No other reply has the number of the one that is expected.
LEMMA ReceiveOrdered ==
  ASSUME PollingType, NEW reply \in replies, ReceiveReply(reply), NEW s \in UdpSensors, Ordered(s)
  PROVE  Ordered(s)'
<1>1. /\ handling = Idle /\ replies' = replies \ {reply}
      /\ handling' = IF IsExpected(reply) THEN reply ELSE Idle
      /\ UNCHANGED <<requests, poller, requestID, sentUDPRequests, sensorUDPReplies, generated, historicSensorData>>
  BY DEF ReceiveReply, sensorVars, pollerVars
<1>2. reply \in Reply /\ reply # Idle
  BY DEF PollingType, Reply, Idle
<1>3. /\ Carried(s)' \subseteq Carried(s) /\ Current(s)' \subseteq Current(s)
      /\ TakenFrom(s)' = TakenFrom(s)
  BY <1>1, <1>2 DEF Carried, Current, TakenFrom, TakenAt
<1>4. Gone(s)' \subseteq Gone(s)
  BY <1>3 DEF Gone
<1>5. Numbered(s)'
  BY <1>1, <1>3 DEF Ordered, Numbered, Used
<1>6. BufferAscends(s)'
  BY <1>1, <1>4 DEF Ordered, BufferAscends
<1>7. TakenAscends(s)'
  <2>1. ASSUME handling' # Idle, handling'.ip = s, handling'.data # NoData
        PROVE  (\A x \in TakenFrom(s) : x < handling'.data) /\ Current(s)' = {}
    <3>1. handling' = reply /\ reply.id = sentUDPRequests[s] /\ reply \in Current(s) /\ reply \in Carried(s)
      BY <1>1, <1>2, <2>1 DEF IsExpected, Current, Carried
    <3>2. \A r \in Current(s) : r \in Carried(s) /\ r.id = reply.id
      BY <3>1, CarriedType DEF Current
    <3>3. \A r \in Current(s) : r = reply
      BY <3>1, <3>2 DEF Ordered, Numbered
    <3>4. reply \notin Current(s)'
      BY <1>1 DEF Current
    <3> QED BY <1>3, <3>1, <3>3, <3>4 DEF Ordered, TakenAscends, TakenAt
  <2> QED BY <1>1, <1>3, <2>1 DEF Ordered, TakenAscends, TakenAt
<1> QED BY <1>5, <1>6, <1>7 DEF Ordered

\* A data set is added behind those that were taken, all of which are before it.
LEMMA TakeOrdered ==
  ASSUME PollingType, TakeReply, NEW s \in UdpSensors, Ordered(s)
  PROVE  Ordered(s)'
<1> DEFINE old == sensorUDPReplies
           new == sensorUDPReplies'
           d == [ip |-> handling.ip, data |-> handling.data]
<1>1. /\ handling # Idle /\ handling' = Idle
      /\ new = IF handling.data # NoData THEN Append(old, d) ELSE old
      /\ UNCHANGED <<requests, replies, poller, requestID, sentUDPRequests, generated, historicSensorData>>
  BY DEF TakeReply, sensorVars, netVars, pollerVars
<1>2. /\ handling \in Reply /\ old \in Seq(DataSet)
      /\ handling.data # NoData => d \in DataSet
  BY <1>1 DEF PollingType, Reply, DataSet
<1>3. Carried(s)' \subseteq Carried(s) /\ Current(s)' = Current(s)
  BY <1>1 DEF Carried, Current
<1>4. Numbered(s)'
  BY <1>1, <1>3 DEF Ordered, Numbered, Used
<1>5. CASE handling.data = NoData
  <2>1. Gone(s)' \subseteq Gone(s) /\ TakenFrom(s)' = TakenFrom(s)
    BY <1>1, <1>3, <1>5 DEF Gone, TakenFrom, TakenAt
  <2>2. BufferAscends(s)'
    BY <1>1, <2>1 DEF Ordered, BufferAscends
  <2>3. TakenAscends(s)'
    BY <1>1, <1>3, <1>5, <2>1 DEF Ordered, TakenAscends, TakenAt
  <2> QED BY <1>4, <2>2, <2>3 DEF Ordered
<1>6. CASE handling.data # NoData
  <2>1. /\ Len(old) \in Nat /\ DOMAIN old = 1..Len(old) /\ DOMAIN new = 1..(Len(old) + 1)
        /\ \A i \in DOMAIN old : new[i] = old[i] /\ i \in DOMAIN new
        /\ new[Len(old) + 1] = d
    BY <1>1, <1>2, <1>6, AppendProperties, LenProperties
  <2> HIDE DEF old, new
  <2>2. \A i \in DOMAIN new : (i \in DOMAIN old /\ new[i] = old[i]) \/ (i = Len(old) + 1 /\ new[i] = d)
    BY <2>1
  <2>3. TakenFrom(s)' \subseteq TakenFrom(s) \cup (IF handling.ip = s THEN {handling.data} ELSE {})
    BY <2>2 DEF TakenFrom, TakenAt, old, new
  <2>4. handling.ip = s => handling.data \in Gone(s)
    BY <1>1, CarriedType DEF Gone
  <2>5. Gone(s)' \subseteq Gone(s)
    BY <1>3, <2>3, <2>4 DEF Gone
  <2>6. BufferAscends(s)'
    BY <1>1, <2>5 DEF Ordered, BufferAscends
  <2>7. TakenAscends(s)'
    <3>1. ASSUME NEW i \in DOMAIN new, NEW j \in DOMAIN new, i < j, new[i].ip = s, new[j].ip = s
          PROVE  new[i].data < new[j].data
      <4>1. i \in DOMAIN old /\ new[i] = old[i]
        BY <2>1, <2>2, <3>1
      <4>2. CASE j \in DOMAIN old /\ new[j] = old[j]
        BY <3>1, <4>1, <4>2 DEF Ordered, TakenAscends, TakenAt, old
      <4>3. CASE new[j] = d
        <5>1. handling.ip = s /\ new[j].data = handling.data /\ old[i].data \in TakenFrom(s)
          BY <3>1, <4>1, <4>3 DEF TakenFrom, TakenAt, old
        <5> QED BY <1>1, <1>6, <4>1, <5>1 DEF Ordered, TakenAscends, TakenAt
      <4> QED BY <2>2, <4>2, <4>3
    <3>2. \A x \in TakenFrom(s)', r \in Current(s)' : x < r.data
      <4>1. handling.ip = s => \A r \in Current(s) : handling.data < r.data
        BY <1>1, <1>6 DEF Ordered, TakenAscends, TakenAt
      <4> QED BY <1>3, <2>3, <4>1 DEF Ordered, TakenAscends, TakenAt
    <3> QED BY <1>1, <3>1, <3>2 DEF TakenAscends, TakenAt, new
  <2> QED BY <1>4, <2>6, <2>7 DEF Ordered
<1> QED BY <1>5, <1>6

-----------------------------------------------------------------------------
LEMMA InitOrderInv == Init => OrderInv
BY InitOrdered DEF OrderInv

\* Steps that neither take from a UDP sensor's buffer nor involve the gateway.
LEMMA OthersOrdered ==
  ASSUME SensorType, PollingType, NEW s \in UdpSensors, Ordered(s),
         \/ \E m \in MqttSensors : AwaitNewData(m) \/ PublishData(m) \/ TakeFromEmpty(m)
         \/ \E m \in MqttSensors : on_message(m) \/ LoseMessage(m)
         \/ \E request \in requests : generateUDPReply(request) \/ LoseRequest(request)
         \/ \E reply \in replies : LoseReply(reply)
         \/ UNCHANGED vars
  PROVE  Ordered(s)'
<1>1. /\ s \in Sensors /\ s \notin MqttSensors
      /\ historicSensorData \in [Sensors -> Seq(Nat)]
  BY PollingAssumption DEF Sensors, SensorType
<1>2. ASSUME NEW m \in MqttSensors, AwaitNewData(m) \/ PublishData(m) \/ TakeFromEmpty(m)
      PROVE  Ordered(s)'
  <2>1. historicSensorData'[s] = historicSensorData[s]
    BY <1>1, <1>2 DEF AwaitNewData, PublishData, TakeFromEmpty
  <2> QED BY <1>2, <2>1, Elsewhere
        DEF AwaitNewData, PublishData, TakeFromEmpty, netVars, pollerVars, handlerVars
<1>3. ASSUME NEW m \in MqttSensors, on_message(m) \/ LoseMessage(m)
      PROVE  Ordered(s)'
  BY <1>3, Elsewhere DEF on_message, LoseMessage, sensorVars, netVars, pollerVars, handlerVars
<1>4. ASSUME NEW request \in requests, generateUDPReply(request)
      PROVE  Ordered(s)'
  <2>1. \A r \in replies' : r.ip = s => r \in replies
    BY <1>1, <1>4, AdapterType
  <2> QED BY <1>4, <2>1, Elsewhere DEF generateUDPReply, sensorVars, pollerVars, handlerVars
<1>5. ASSUME NEW request \in requests, LoseRequest(request)
      PROVE  Ordered(s)'
  BY <1>5, Elsewhere DEF LoseRequest, sensorVars, pollerVars, handlerVars
<1>6. ASSUME NEW reply \in replies, LoseReply(reply)
      PROVE  Ordered(s)'
  BY <1>6, Elsewhere DEF LoseReply, sensorVars, pollerVars, handlerVars
<1>7. CASE UNCHANGED vars
  BY <1>7, Elsewhere DEF vars, sensorVars, netVars, pollerVars, handlerVars
<1> QED BY <1>2, <1>3, <1>4, <1>5, <1>6, <1>7

LEMMA StepOrderInv ==
  ASSUME NumberOfTries = 1, IInv, PollingType, OrderInv, [Next]_vars
  PROVE  OrderInv'
<1>1. SensorType
  BY DEF IInv
<1> SUFFICES ASSUME NEW s \in UdpSensors
             PROVE  Ordered(s)'
  BY DEF OrderInv
<1>2. Ordered(s)
  BY DEF OrderInv
<1>3. CASE Sensor
  BY <1>1, <1>2, <1>3, GenerateOrdered, OthersOrdered DEF Sensor
<1>4. CASE Gateway
  BY <1>1, <1>2, <1>4, SendOrdered, WaitOrdered, ReceiveOrdered, TakeOrdered DEF Gateway
<1>5. CASE \E request \in requests : generateReply(request)
  BY <1>1, <1>2, <1>5, AnswerOrdered
<1> QED BY <1>1, <1>2, <1>3, <1>4, <1>5, OthersOrdered DEF Next

LEMMA InOrder == OrderInv => OrderKept
BY DEF OrderInv, Ordered, TakenAscends, OrderKept

\* If each request is tried once, as in the code, the data sets of every UDP
\* sensor are taken in the order they were generated in, none of them twice,
\* whatever the network loses, delays and reorders, and whatever the buffers drop.
THEOREM DataInOrder ==
  ASSUME NumberOfTries = 1
  PROVE  Spec => []OrderKept
<1>1. IInv /\ PollingType /\ OrderInv /\ [Next]_vars => OrderInv'
  BY StepOrderInv
<1> QED BY <1>1, InitOrderInv, InOrder, TypeInvariance, PTL DEF Spec

-----------------------------------------------------------------------------
(* Nothing lost.  While a UDP sensor is undisturbed, each poll of it is one  *)
(* exchange: its request, the reply to it, and the permit for it follow one  *)
(* another, and nothing of an earlier poll is left over.  The polling thread *)
(* cannot time out then, and every reply is the one expected.                *)

Asking(s) == {q \in requests : q.host = s}
Arriving(s) == {r \in replies : r.ip = s}
Handled(s) == {r \in {handling} : r # Idle /\ r.ip = s}

Quiet(s) == Asking(s) = {} /\ Arriving(s) = {} /\ Handled(s) = {}

Asked(s) ==
  /\ \E q \in requests : Asking(s) = {q} /\ q.id = requestID[s]
  /\ Arriving(s) = {} /\ Handled(s) = {} /\ semSensors[s] = 0

Replied(s) ==
  /\ \E r \in Reply : /\ r.id = requestID[s]
                      /\ \/ Arriving(s) = {r} /\ Handled(s) = {}
                         \/ Arriving(s) = {} /\ Handled(s) = {r}
  /\ Asking(s) = {} /\ semSensors[s] = 0

Answered(s) == Quiet(s) /\ semSensors[s] = 1 /\ answered[s] = requestID[s]

Exchange(s) ==
  \/ poller[s] \in {"send", "sleep"} /\ Quiet(s) /\ semSensors[s] = 0
  \/ /\ poller[s] = "wait" /\ sentUDPRequests[s] = requestID[s]
     /\ Asked(s) \/ Replied(s) \/ Answered(s)

\* What is not yet taken, and how many data sets come before it.
Rest(s) == OnItsWay(s) \o historicSensorData[s]
Before(s) == generated[s] - Len(Rest(s))

AllThere(s) ==
  /\ Before(s) \in Nat
  /\ TakenFrom(s) = 1..Before(s)
  /\ \A i, j \in TakenAt(s) : i < j => sensorUDPReplies[i].data < sensorUDPReplies[j].data
  /\ \A i \in 1..Len(Rest(s)) : Rest(s)[i] = Before(s) + i

Steady(s) == Exchange(s) /\ AllThere(s)

SteadyInv == \A s \in UdpSensors : undisturbed[s] => Steady(s)

\* What is on its way, if all the replies that carry data of s carry the same.
LEMMA WayOf ==
  ASSUME NEW R, NEW s, NEW d,
         \A r \in R : r.ip = s /\ r.data # NoData => r.data = d,
         NEW carriers, carriers = {r \in R : r.ip = s /\ r.data # NoData},
         NEW way, way = IF carriers = {} THEN <<>> ELSE <<(CHOOSE r \in carriers : TRUE).data>>
  PROVE  way = IF \E r \in R : r.ip = s /\ r.data # NoData THEN <<d>> ELSE <<>>
<1>1. CASE carriers = {}
  BY <1>1
<1>2. CASE carriers # {}
  <2>1. (CHOOSE r \in carriers : TRUE) \in carriers
    BY <1>2
  <2>2. (CHOOSE r \in carriers : TRUE).data = d
    BY <2>1
  <2> QED BY <1>2, <2>2
<1> QED BY <1>1, <1>2

LEMMA RestType ==
  ASSUME SensorType, PollingType, NEW s \in Sensors
  PROVE  /\ OnItsWay(s) \in Seq(Nat) /\ historicSensorData[s] \in Seq(Nat)
         /\ Rest(s) \in Seq(Nat) /\ generated[s] \in Nat
<1> DEFINE carriers == {r \in replies \cup {handling} : r.ip = s /\ r.data # NoData}
           one == CHOOSE r \in carriers : TRUE
<1>1. historicSensorData[s] \in Seq(Nat) /\ generated[s] \in Nat
  BY DEF SensorType
<1>2. carriers # {} => one.data \in Nat
  <2>1. carriers \subseteq Reply
    BY DEF PollingType, Idle
  <2> QED BY <2>1 DEF Reply
<1>3. OnItsWay(s) = IF carriers = {} THEN <<>> ELSE <<one.data>>
  BY DEF OnItsWay
<1> HIDE DEF carriers, one
<1>4. OnItsWay(s) \in Seq(Nat)
  BY <1>2, <1>3
<1> QED BY <1>1, <1>4, ConcatProperties DEF Rest

LEMMA InitSteady == Init => SteadyInv
<1> SUFFICES ASSUME Init, NEW s \in UdpSensors PROVE Steady(s)
  BY DEF SteadyInv
<1>1. /\ requests = {} /\ replies = {} /\ handling = Idle /\ sensorUDPReplies = <<>>
      /\ poller[s] = "send" /\ semSensors[s] = 0
      /\ generated[s] = 0 /\ historicSensorData[s] = <<>>
  BY DEF Init, Sensors
<1>2. Exchange(s)
  BY <1>1 DEF Exchange, Quiet, Asking, Arriving, Handled
<1>3. OnItsWay(s) = <<>>
  BY <1>1 DEF OnItsWay, Idle
<1>4. Rest(s) = <<>> /\ Len(Rest(s)) = 0
  BY <1>1, <1>3, EmptySeq, ConcatEmptySeq DEF Rest
<1>5. TakenAt(s) = {} /\ Before(s) = 0
  <2>1. DOMAIN <<>> = {}
    OBVIOUS
  <2>2. TakenAt(s) = {}
    BY <1>1, <2>1 DEF TakenAt
  <2>3. Before(s) = 0 - 0
    BY <1>1, <1>4 DEF Before
  <2> QED BY <2>2, <2>3
<1>6. TakenFrom(s) = {}
  BY <1>5 DEF TakenFrom
<1>7. AllThere(s)
  BY <1>4, <1>5, <1>6 DEF AllThere
<1> QED BY <1>2, <1>7 DEF Steady

\* Steps that do not touch the exchange with s, or what is on its way.
LEMMA ExchangeKept ==
  ASSUME NEW s, Exchange(s),
         Asking(s)' = Asking(s), Arriving(s)' = Arriving(s), Handled(s)' = Handled(s),
         poller'[s] = poller[s], requestID'[s] = requestID[s],
         sentUDPRequests'[s] = sentUDPRequests[s], semSensors'[s] = semSensors[s],
         answered'[s] = answered[s]
  PROVE  Exchange(s)'
<1>1. Quiet(s)' <=> Quiet(s)
  BY DEF Quiet
<1>2. Asked(s) => Asked(s)'
  <2> SUFFICES ASSUME Asked(s) PROVE Asked(s)'
    OBVIOUS
  <2>1. PICK q \in requests : Asking(s) = {q} /\ q.id = requestID[s]
    BY DEF Asked
  <2>2. q \in requests'
    BY <2>1 DEF Asking
  <2> QED BY <2>1, <2>2 DEF Asked
<1>3. Replied(s) => Replied(s)'
  BY DEF Replied
<1>4. Answered(s) => Answered(s)'
  BY <1>1 DEF Answered
<1> QED BY <1>1, <1>2, <1>3, <1>4 DEF Exchange

\* In an exchange there is one reply at most, and what is on its way is its data.
LEMMA WayIs ==
  ASSUME NEW s, NEW d, \A r \in Arriving(s) \cup Handled(s) : r.data # NoData => r.data = d
  PROVE  OnItsWay(s) =
           IF \E r \in Arriving(s) \cup Handled(s) : r.data # NoData THEN <<d>> ELSE <<>>
<1>1. ASSUME NEW r \in replies \cup {handling}, r.ip = s, r.data # NoData
      PROVE  r \in Arriving(s) \cup Handled(s)
  BY <1>1 DEF Arriving, Handled, Idle
<1>2. \A r \in Arriving(s) \cup Handled(s) : r \in replies \cup {handling} /\ r.ip = s
  BY DEF Arriving, Handled
<1>3. \A r \in replies \cup {handling} : r.ip = s /\ r.data # NoData => r.data = d
  BY <1>1
<1>4. OnItsWay(s) = IF \E r \in replies \cup {handling} : r.ip = s /\ r.data # NoData
                      THEN <<d>> ELSE <<>>
  BY <1>3, WayOf DEF OnItsWay
<1> QED BY <1>1, <1>2, <1>4

LEMMA WayIsNext ==
  ASSUME NEW s, NEW d, (\A r \in Arriving(s) \cup Handled(s) : r.data # NoData => r.data = d)'
  PROVE  (OnItsWay(s) =
            IF \E r \in Arriving(s) \cup Handled(s) : r.data # NoData THEN <<d>> ELSE <<>>)'
BY WayIs, PTL

LEMMA SameWay ==
  ASSUME NEW s, Exchange(s), Arriving(s)' = Arriving(s), Handled(s)' = Handled(s)
  PROVE  OnItsWay(s)' = OnItsWay(s)
<1>1. PICK d : \A r \in Arriving(s) \cup Handled(s) : r.data # NoData => r.data = d
  BY DEF Exchange, Quiet, Asked, Replied, Answered
<1>2. (\A r \in Arriving(s) \cup Handled(s) : r.data # NoData => r.data = d)'
  BY <1>1
<1>3. OnItsWay(s) = IF \E r \in Arriving(s) \cup Handled(s) : r.data # NoData THEN <<d>> ELSE <<>>
  BY <1>1, WayIs
<1>4. (OnItsWay(s) = IF \E r \in Arriving(s) \cup Handled(s) : r.data # NoData THEN <<d>> ELSE <<>>)'
  BY <1>2, WayIsNext
<1> QED BY <1>3, <1>4

LEMMA AllThereKept ==
  ASSUME NEW s, AllThere(s), Rest(s)' = Rest(s), generated'[s] = generated[s],
         TakenAt(s)' = TakenAt(s),
         \A i \in TakenAt(s) : sensorUDPReplies'[i] = sensorUDPReplies[i]
  PROVE  AllThere(s)'
<1>1. Before(s)' = Before(s) /\ TakenFrom(s)' = TakenFrom(s)
  BY DEF Before, TakenFrom
<1> QED BY <1>1 DEF AllThere

LEMMA SteadyKept ==
  ASSUME NEW s, Steady(s),
         Asking(s)' = Asking(s), Arriving(s)' = Arriving(s), Handled(s)' = Handled(s),
         poller'[s] = poller[s], requestID'[s] = requestID[s],
         sentUDPRequests'[s] = sentUDPRequests[s], semSensors'[s] = semSensors[s],
         answered'[s] = answered[s],
         generated'[s] = generated[s], historicSensorData'[s] = historicSensorData[s],
         TakenAt(s)' = TakenAt(s),
         \A i \in TakenAt(s) : sensorUDPReplies'[i] = sensorUDPReplies[i]
  PROVE  Steady(s)'
<1>1. Exchange(s)'
  BY ExchangeKept DEF Steady
<1>2. Rest(s)' = Rest(s)
  BY SameWay DEF Steady, Rest
<1> QED BY <1>1, <1>2, AllThereKept DEF Steady

LEMMA ConcatAppend ==
  ASSUME NEW S, NEW a \in Seq(S), NEW b \in Seq(S), NEW x \in S
  PROVE  a \o Append(b, x) = Append(a \o b, x)
<1>1. PICK m \in Nat, k \in Nat : Len(a) = m /\ Len(b) = k
  BY LenProperties
<1>2. PICK bx \in Seq(S) :
        /\ bx = Append(b, x) /\ Len(bx) = k + 1
        /\ \A i \in 1..k : bx[i] = b[i]
        /\ bx[k + 1] = x
  BY <1>1, AppendProperties
<1>3. PICK ab \in Seq(S) :
        /\ ab = a \o b /\ Len(ab) = m + k
        /\ \A i \in 1..(m + k) : ab[i] = IF i <= m THEN a[i] ELSE b[i - m]
  <2>1. /\ a \o b \in Seq(S) /\ Len(a \o b) = m + k
        /\ \A i \in 1..(m + k) : (a \o b)[i] = IF i <= m THEN a[i] ELSE b[i - m]
    BY <1>1, ConcatProperties
  <2> QED BY <2>1
<1>4. PICK l \in Seq(S) :
        /\ l = a \o bx /\ Len(l) = m + (k + 1)
        /\ \A i \in 1..(m + (k + 1)) : l[i] = IF i <= m THEN a[i] ELSE bx[i - m]
  <2>1. Len(bx) = k + 1
    BY <1>2
  <2>2. /\ a \o bx \in Seq(S) /\ Len(a \o bx) = Len(a) + Len(bx)
        /\ \A i \in 1..(Len(a) + Len(bx)) :
             (a \o bx)[i] = IF i <= Len(a) THEN a[i] ELSE bx[i - Len(a)]
    BY ConcatProperties
  <2> QED BY <1>1, <2>1, <2>2
<1>5. PICK r \in Seq(S) :
        /\ r = Append(ab, x) /\ Len(r) = (m + k) + 1
        /\ \A i \in 1..(m + k) : r[i] = ab[i]
        /\ r[(m + k) + 1] = x
  <2>1. Len(ab) = m + k
    BY <1>3
  <2>2. /\ Append(ab, x) \in Seq(S) /\ Len(Append(ab, x)) = (m + k) + 1
        /\ \A i \in 1..(m + k) : Append(ab, x)[i] = ab[i]
        /\ Append(ab, x)[(m + k) + 1] = x
    BY <2>1, AppendProperties
  <2> QED BY <2>2
<1>6. ASSUME NEW i \in 1..Len(l)
      PROVE  l[i] = r[i]
  <2>1. i \in 1..(m + (k + 1))
    BY <1>4
  <2>2. CASE i <= m
    <3>1. i \in 1..(m + k)
      BY <2>1, <2>2
    <3> QED BY <1>3, <1>4, <1>5, <2>1, <2>2, <3>1
  <2>3. CASE ~(i <= m)
    <3>1. l[i] = bx[i - m]
      BY <1>4, <2>1, <2>3
    <3>2. CASE i = (m + k) + 1
      <4>1. i - m = k + 1
        BY <3>2
      <4> QED BY <1>2, <1>5, <3>1, <3>2, <4>1
    <3>3. CASE i # (m + k) + 1
      <4>1. i \in 1..(m + k) /\ i - m \in 1..k
        BY <2>1, <2>3, <3>3
      <4> QED BY <1>2, <1>3, <1>5, <2>3, <3>1, <4>1
    <3> QED BY <3>2, <3>3
  <2> QED BY <2>2, <2>3
<1>7. Len(l) = Len(r)
  BY <1>4, <1>5
<1>8. l = r
  BY <1>6, <1>7, SeqEqual
<1> QED BY <1>2, <1>3, <1>4, <1>5, <1>8

\* A new data set is put behind the others, if the buffer does not drop one for it.
LEMMA GenerateSteady ==
  ASSUME SensorType, PollingType, NEW g \in Sensors, generateSensorData(g),
         NEW s \in UdpSensors, Steady(s), undisturbed'[s]
  PROVE  Steady(s)'
<1> DEFINE old == historicSensorData[s]
           x == generated[s] + 1
<1>1. /\ UNCHANGED <<requests, replies, poller, requestID, sentUDPRequests, semSensors,
                      handling, answered, sensorUDPReplies>>
      /\ generated' = [generated EXCEPT ![g] = @ + 1]
      /\ historicSensorData' = [historicSensorData EXCEPT ![g] = PushBounded(@, generated[g] + 1)]
      /\ undisturbed' = [undisturbed EXCEPT ![g] = @ /\ Len(historicSensorData[g]) < Capacity]
  BY DEF generateSensorData, netVars, pollerVars, handlerVars
<1>2. /\ s \in Sensors /\ generated \in [Sensors -> Nat]
      /\ historicSensorData \in [Sensors -> Seq(Nat)] /\ undisturbed \in [Sensors -> BOOLEAN]
  BY DEF SensorType, Sensors
<1>3. /\ Asking(s)' = Asking(s) /\ Arriving(s)' = Arriving(s) /\ Handled(s)' = Handled(s)
      /\ TakenAt(s)' = TakenAt(s) /\ TakenFrom(s)' = TakenFrom(s)
  BY <1>1 DEF Asking, Arriving, Handled, TakenAt, TakenFrom
<1>4. CASE g # s
  BY <1>1, <1>2, <1>3, <1>4, SteadyKept
<1>5. CASE g = s
  <2>1. Exchange(s)' /\ OnItsWay(s)' = OnItsWay(s)
    BY <1>1, <1>3, ExchangeKept, SameWay DEF Steady
  <2>2. Len(old) < Capacity
    BY <1>1, <1>2, <1>5
  <2>3. /\ old \in Seq(Nat) /\ x \in Nat /\ OnItsWay(s) \in Seq(Nat) /\ Rest(s) \in Seq(Nat)
        /\ Len(old) \in Nat /\ Capacity \in Nat /\ generated[s] \in Nat /\ generated'[s] = x
    BY <1>1, <1>2, <1>5, RestType, LenProperties, PollingAssumption
  <2>4. historicSensorData'[s] = Append(old, x)
    BY <1>1, <1>2, <1>5, <2>2, <2>3 DEF PushBounded
  <2>5. Rest(s)' = Append(Rest(s), x)
    <3>1. \A a, b \in Seq(Nat), y \in Nat : a \o Append(b, y) = Append(a \o b, y)
      BY ConcatAppend
    <3> QED BY <2>1, <2>3, <2>4, <3>1 DEF Rest
  <2> HIDE DEF old
  <2>6. /\ Len(Rest(s)) \in Nat /\ Len(Rest(s)') = Len(Rest(s)) + 1
        /\ \A i \in 1..Len(Rest(s)) : Rest(s)'[i] = Rest(s)[i]
        /\ Rest(s)'[Len(Rest(s)) + 1] = x
    BY <2>3, <2>5, AppendProperties, LenProperties
  <2>7. Before(s)' = Before(s)
    BY <2>3, <2>6 DEF Before
  <2>8. \A i \in 1..Len(Rest(s)') : Rest(s)'[i] = Before(s) + i
    <3> SUFFICES ASSUME NEW i \in 1..Len(Rest(s)')
                 PROVE  Rest(s)'[i] = Before(s) + i
      OBVIOUS
    <3>1. CASE i \in 1..Len(Rest(s))
      BY <2>6, <3>1 DEF Steady, AllThere
    <3>2. CASE i = Len(Rest(s)) + 1
      BY <2>3, <2>6, <3>2 DEF Before
    <3> QED BY <2>6, <3>1, <3>2
  <2>9. AllThere(s)'
    BY <1>1, <1>3, <2>7, <2>8 DEF Steady, AllThere
  <2> QED BY <2>1, <2>9 DEF Steady
<1> QED BY <1>4, <1>5

\* The first data set leaves the buffer in the reply: all are there as before.
LEMMA AnswerSteady ==
  ASSUME SensorType, PollingType, NEW request \in requests, generateReply(request),
         NEW s \in UdpSensors, Steady(s)
  PROVE  Steady(s)'
<1> DEFINE t == request.host
           old == historicSensorData[t]
           d == IF old # <<>> THEN Head(old) ELSE NoData
           new == ReplyTo(request, t, d)
<1>1. /\ t \in UdpSensors /\ requests' = requests \ {request}
      /\ replies' = replies \cup {new}
      /\ historicSensorData' = IF old # <<>> THEN [historicSensorData EXCEPT ![t] = Tail(@)]
                                             ELSE historicSensorData
      /\ UNCHANGED <<poller, requestID, sentUDPRequests, semSensors, handling,
                     answered, sensorUDPReplies, generated>>
  BY DEF generateReply, pollerVars, handlerVars
<1>2. /\ request \in Request /\ old \in Seq(Nat) /\ s \in Sensors /\ t \in Sensors
      /\ historicSensorData \in [Sensors -> Seq(Nat)] /\ generated[s] \in Nat
  BY <1>1 DEF PollingType, SensorType, Sensors
<1>3. new.id = request.id /\ new.ip = t /\ new.data = d
  BY DEF ReplyTo
<1>4. new \in Reply
  <2>1. d \in Nat
    BY <1>2, HeadTailProperties DEF NoData
  <2> QED BY <1>2, <2>1 DEF ReplyTo, Reply, Request
<1>5. /\ Handled(s)' = Handled(s) /\ TakenAt(s)' = TakenAt(s) /\ TakenFrom(s)' = TakenFrom(s)
  BY <1>1 DEF Handled, TakenAt, TakenFrom
<1>6. CASE t # s
  <2>1. Asking(s)' = Asking(s)
    BY <1>1, <1>6 DEF Asking
  <2>2. Arriving(s)' = Arriving(s)
    BY <1>1, <1>3, <1>6 DEF Arriving
  <2>3. historicSensorData'[s] = historicSensorData[s]
    BY <1>1, <1>2, <1>6
  <2> QED BY <1>1, <1>5, <2>1, <2>2, <2>3, SteadyKept
<1>7. CASE t = s
  <2> HIDE DEF new, d
  <2>1. poller[s] = "wait" /\ sentUDPRequests[s] = requestID[s] /\ Asked(s)
    <3>1. request \in Asking(s)
      BY <1>7 DEF Asking
    <3> QED BY <3>1 DEF Steady, Exchange, Quiet, Asked, Replied, Answered
  <2>2. Asking(s) = {request} /\ request.id = requestID[s]
    <3>1. request \in Asking(s)
      BY <1>7 DEF Asking
    <3> QED BY <2>1, <3>1 DEF Asked
  <2>3. Asking(s)' = {} /\ Arriving(s)' = {new} /\ Handled(s)' = {} /\ semSensors'[s] = 0
    BY <1>1, <1>3, <1>5, <1>7, <2>1, <2>2 DEF Asked, Asking, Arriving
  <2>4. Exchange(s)'
    BY <1>1, <1>3, <1>4, <2>1, <2>2, <2>3 DEF Exchange, Replied
  <2>5. OnItsWay(s) = <<>>
    BY <2>1, WayIs DEF Asked
  <2>6. OnItsWay(s)' = IF d # NoData THEN <<d>> ELSE <<>>
    <3>1. PICK e : e = d
      OBVIOUS
    <3>2. (\A r \in Arriving(s) \cup Handled(s) : r.data # NoData => r.data = e)'
      BY <1>3, <2>3, <3>1
    <3>3. (OnItsWay(s) = IF \E r \in Arriving(s) \cup Handled(s) : r.data # NoData THEN <<e>> ELSE <<>>)'
      BY <3>2, WayIsNext
    <3>4. (\E r \in Arriving(s) \cup Handled(s) : r.data # NoData)' <=> e # NoData
      BY <1>3, <2>3, <3>1
    <3> QED BY <3>1, <3>3, <3>4
  <2>7. Rest(s)' = Rest(s)
    <3>1. Rest(s) = old
      BY <1>2, <1>7, <2>5, ConcatEmptySeq DEF Rest
    <3>2. CASE old = <<>>
      BY <1>1, <1>2, <1>7, <2>6, <3>1, <3>2, ConcatEmptySeq DEF Rest, d
    <3>3. CASE old # <<>>
      <4>1. old[1] \in 1..generated[s] /\ d = old[1] /\ d \in Nat /\ d # NoData
        <5>1. old \in Seq(1..generated[s]) /\ 1 \in 1..Len(old)
          BY <1>2, <1>7, <3>3, EmptySeq DEF PollingType, BufferType
        <5>2. old[1] \in 1..generated[s]
          BY <5>1, ElementOfSeq
        <5> QED BY <1>2, <3>3, <5>2 DEF d, NoData
      <4>2. Rest(s)' = <<d>> \o Tail(old)
        BY <1>1, <1>2, <1>7, <2>6, <3>3, <4>1 DEF Rest
      <4>3. <<d>> \in Seq(Nat) /\ Len(<<d>>) = 1 /\ <<d>>[1] = d
        BY <4>1
      <4>4. /\ Tail(old) \in Seq(Nat) /\ Len(old) \in Nat /\ Len(Tail(old)) = Len(old) - 1
            /\ \A i \in 1..Len(Tail(old)) : Tail(old)[i] = old[i + 1]
        BY <1>2, <3>3, HeadTailProperties, LenProperties
      <4> DEFINE one == <<d>>
      <4> HIDE DEF old, one
      <4>5. /\ one \o Tail(old) \in Seq(Nat) /\ Len(one \o Tail(old)) = Len(old)
            /\ \A i \in 1..Len(old) : (one \o Tail(old))[i] = IF i <= 1 THEN one[i] ELSE Tail(old)[i - 1]
        BY <4>3, <4>4, ConcatProperties DEF one
      <4>6. ASSUME NEW i \in 1..Len(old)
            PROVE  (one \o Tail(old))[i] = old[i]
        <5>1. CASE i = 1
          BY <4>1, <4>3, <4>5, <5>1 DEF one
        <5>2. CASE i # 1
          <6>1. i - 1 \in 1..Len(Tail(old)) /\ (i - 1) + 1 = i
            BY <4>4, <5>2
          <6>2. Tail(old)[i - 1] = old[i]
            BY <4>4, <6>1
          <6> QED BY <4>4, <4>5, <5>2, <6>2
        <5> QED BY <5>1, <5>2
      <4>7. one \o Tail(old) = old
        BY <1>2, <4>5, <4>6, SeqEqual
      <4> QED BY <3>1, <4>2, <4>7 DEF one
    <3> QED BY <3>2, <3>3
  <2>8. AllThere(s)'
    BY <1>1, <1>5, <2>7, AllThereKept DEF Steady
  <2> QED BY <2>4, <2>8 DEF Steady
<1> QED BY <1>6, <1>7

\* A poll begins when nothing of the last one is left.
LEMMA SendSteady ==
  ASSUME PollingType, NEW p \in Sensors, SendRequest(p), NEW s \in UdpSensors, Steady(s)
  PROVE  Steady(s)'
<1> DEFINE new == [id |-> requestID[p], host |-> p, try |-> retryCount[p]]
<1>1. /\ poller[p] = "send" /\ poller' = [poller EXCEPT ![p] = "wait"]
      /\ sentUDPRequests' = [sentUDPRequests EXCEPT ![p] = requestID[p]]
      /\ requests' = requests \cup {new}
      /\ UNCHANGED <<replies, requestID, semSensors, handling, answered, sensorUDPReplies,
                     generated, historicSensorData>>
  BY DEF SendRequest, sensorVars, handlerVars
<1>2. /\ s \in Sensors /\ poller \in [Sensors -> {"send", "wait", "sleep"}]
      /\ sentUDPRequests \in [Sensors -> Nat]
  BY DEF PollingType, Sensors
<1>3. new.id = requestID[p] /\ new.host = p
  OBVIOUS
<1> HIDE DEF new
<1>4. /\ Arriving(s)' = Arriving(s) /\ Handled(s)' = Handled(s) /\ TakenAt(s)' = TakenAt(s)
  BY <1>1 DEF Arriving, Handled, TakenAt
<1>5. CASE p # s
  <2>1. Asking(s)' = Asking(s)
    BY <1>1, <1>3, <1>5 DEF Asking
  <2> QED BY <1>1, <1>2, <1>4, <1>5, <2>1, SteadyKept
<1>6. CASE p = s
  <2>1. Quiet(s) /\ semSensors[s] = 0
    BY <1>1, <1>6 DEF Steady, Exchange
  <2>2. Asking(s)' = {new}
    BY <1>1, <1>3, <1>6, <2>1 DEF Quiet, Asking
  <2>3. poller'[s] = "wait" /\ sentUDPRequests'[s] = requestID'[s]
    BY <1>1, <1>2, <1>6
  <2>4. new \in requests' /\ new.id = requestID'[s]
    BY <1>1, <1>3, <1>6
  <2>5. Asked(s)'
    BY <1>1, <1>4, <2>1, <2>2, <2>4 DEF Asked, Quiet
  <2>6. Exchange(s)'
    BY <2>3, <2>5 DEF Exchange
  <2>7. Rest(s)' = Rest(s)
    BY <1>1, <1>4, SameWay DEF Steady, Rest
  <2> QED BY <1>1, <1>4, <2>6, <2>7, AllThereKept DEF Steady
<1> QED BY <1>5, <1>6

\* The thread goes on with the permit of this poll; while it waits without one,
\* the request or the reply is on its way, and it is a disturbance to time out.
LEMMA WaitSteady ==
  ASSUME SensorType, PollingType, NEW p \in Sensors, GotAnswer(p) \/ TimeOut(p) \/ WakeUp(p),
         NEW s \in UdpSensors, Steady(s), undisturbed'[s]
  PROVE  Steady(s)'
<1>1. UNCHANGED <<requests, replies, sentUDPRequests, handling, answered, sensorUDPReplies,
                  generated, historicSensorData>>
  BY DEF GotAnswer, TimeOut, WakeUp, netVars, sensorVars, handlerVars
<1>2. /\ s \in Sensors /\ poller \in [Sensors -> {"send", "wait", "sleep"}]
      /\ requestID \in [Sensors -> Nat] /\ semSensors \in [Sensors -> Nat]
      /\ undisturbed \in [Sensors -> BOOLEAN]
  BY DEF PollingType, SensorType, Sensors
<1>3. /\ Asking(s)' = Asking(s) /\ Arriving(s)' = Arriving(s) /\ Handled(s)' = Handled(s)
      /\ TakenAt(s)' = TakenAt(s) /\ (Quiet(s)' <=> Quiet(s))
  BY <1>1 DEF Asking, Arriving, Handled, TakenAt, Quiet
<1>4. ASSUME Exchange(s)'
      PROVE  Steady(s)'
  <2>1. Rest(s)' = Rest(s)
    BY <1>1, <1>3, SameWay DEF Steady, Rest
  <2> QED BY <1>1, <1>3, <1>4, <2>1, AllThereKept DEF Steady
<1>5. CASE p # s
  <2>1. poller'[s] = poller[s] /\ requestID'[s] = requestID[s] /\ semSensors'[s] = semSensors[s]
    BY <1>2, <1>5 DEF GotAnswer, TimeOut, WakeUp
  <2>2. Exchange(s)'
    BY <1>1, <1>3, <2>1, ExchangeKept DEF Steady
  <2> QED BY <1>4, <2>2
<1>6. CASE p = s /\ GotAnswer(s)
  <2>1. poller[s] = "wait" /\ semSensors[s] > 0 /\ poller'[s] = "sleep"
        /\ semSensors'[s] = semSensors[s] - 1
    BY <1>2, <1>6 DEF GotAnswer
  <2>2. Answered(s)
    BY <2>1 DEF Steady, Exchange, Asked, Replied
  <2>3. Quiet(s)' /\ semSensors'[s] = 0
    BY <1>3, <2>1, <2>2 DEF Answered
  <2> QED BY <1>4, <2>1, <2>3 DEF Exchange
<1>7. CASE p = s /\ TimeOut(s)
  <2>1. poller[s] = "wait" /\ semSensors[s] = 0 /\ ~Underway(s)
    BY <1>2, <1>7 DEF TimeOut
  <2>2. Quiet(s)
    BY <2>1 DEF Underway, Quiet, Asking, Arriving, Handled
  <2> QED BY <2>1, <2>2 DEF Steady, Exchange, Asked, Replied, Answered, Quiet
<1>8. CASE p = s /\ WakeUp(s)
  <2>1. poller[s] = "sleep" /\ poller'[s] = "send" /\ semSensors' = semSensors
    BY <1>2, <1>8 DEF WakeUp
  <2>2. Quiet(s)' /\ semSensors'[s] = 0
    BY <1>3, <2>1 DEF Steady, Exchange
  <2> QED BY <1>4, <2>1, <2>2 DEF Exchange
<1> QED BY <1>5, <1>6, <1>7, <1>8

\* The reply that arrives is to the request sent last: it is not thrown away.
LEMMA ReceiveSteady ==
  ASSUME PollingType, NEW reply \in replies, ReceiveReply(reply), NEW s \in UdpSensors, Steady(s)
  PROVE  Steady(s)'
<1>1. /\ handling = Idle /\ replies' = replies \ {reply}
      /\ handling' = IF IsExpected(reply) THEN reply ELSE Idle
      /\ UNCHANGED <<requests, poller, requestID, sentUDPRequests, semSensors, answered,
                     sensorUDPReplies, generated, historicSensorData>>
  BY DEF ReceiveReply, sensorVars, pollerVars
<1>2. reply # Idle /\ Handled(s) = {}
  BY <1>1 DEF PollingType, Reply, Idle, Handled
<1>3. Asking(s)' = Asking(s) /\ TakenAt(s)' = TakenAt(s)
  BY <1>1 DEF Asking, TakenAt
<1>4. CASE reply.ip # s
  <2>1. Arriving(s)' = Arriving(s) /\ Handled(s)' = {}
    BY <1>1, <1>4 DEF Arriving, Handled
  <2> QED BY <1>1, <1>2, <1>3, <2>1, SteadyKept
<1>5. CASE reply.ip = s
  <2>1. reply \in Arriving(s)
    BY <1>5 DEF Arriving
  <2>2. poller[s] = "wait" /\ sentUDPRequests[s] = requestID[s] /\ Replied(s)
    BY <2>1 DEF Steady, Exchange, Quiet, Asked, Answered
  <2>3. Arriving(s) = {reply} /\ reply.id = requestID[s] /\ reply \in Reply
    BY <2>1, <2>2 DEF Replied
  <2>4. handling' = reply
    BY <1>1, <1>5, <2>2, <2>3 DEF IsExpected
  <2>5. Arriving(s)' = {} /\ Handled(s)' = {reply}
    BY <1>1, <1>2, <1>5, <2>3, <2>4 DEF Arriving, Handled
  <2>6. Replied(s)'
    BY <1>1, <1>3, <2>2, <2>3, <2>5 DEF Replied
  <2>7. Exchange(s)'
    BY <1>1, <2>2, <2>6 DEF Exchange
  <2>8. OnItsWay(s)' = OnItsWay(s)
    <3>1. PICK d : d = reply.data
      OBVIOUS
    <3>2. OnItsWay(s) = IF d # NoData THEN <<d>> ELSE <<>>
      BY <1>2, <2>3, <3>1, WayIs
    <3>3. (\A r \in Arriving(s) \cup Handled(s) : r.data # NoData => r.data = d)'
      BY <2>5, <3>1
    <3>4. (OnItsWay(s) = IF \E r \in Arriving(s) \cup Handled(s) : r.data # NoData THEN <<d>> ELSE <<>>)'
      BY <3>3, WayIsNext
    <3>5. OnItsWay(s)' = IF d # NoData THEN <<d>> ELSE <<>>
      BY <2>5, <3>1, <3>4
    <3> QED BY <3>2, <3>5
  <2>9. Rest(s)' = Rest(s)
    BY <1>1, <2>8 DEF Rest
  <2> QED BY <1>1, <1>3, <2>7, <2>9, AllThereKept DEF Steady
<1> QED BY <1>4, <1>5

LEMMA ConsProperties ==
  ASSUME NEW S, NEW b \in Seq(S), NEW d \in S
  PROVE  /\ Len(<<d>> \o b) = Len(b) + 1 /\ (<<d>> \o b)[1] = d
         /\ \A i \in 1..Len(b) : (<<d>> \o b)[i + 1] = b[i]
<1>1. PICK one \in Seq(S) : one = <<d>> /\ Len(one) = 1 /\ one[1] = d
  <2>1. <<d>> \in Seq(S) /\ Len(<<d>>) = 1 /\ <<d>>[1] = d
    OBVIOUS
  <2> QED BY <2>1
<1>2. Len(b) \in Nat
  BY LenProperties
<1>3. Len(one) = 1
  BY <1>1
<1>4. /\ Len(one \o b) = 1 + Len(b)
      /\ \A i \in 1..(1 + Len(b)) : (one \o b)[i] = IF i <= 1 THEN one[i] ELSE b[i - 1]
  <2>1. /\ Len(one \o b) = Len(one) + Len(b)
        /\ \A i \in 1..(Len(one) + Len(b)) :
             (one \o b)[i] = IF i <= Len(one) THEN one[i] ELSE b[i - Len(one)]
    BY ConcatProperties
  <2> QED BY <1>3, <2>1
<1>5. (one \o b)[1] = one[1]
  BY <1>2, <1>4
<1>6. ASSUME NEW i \in 1..Len(b)
      PROVE  (one \o b)[i + 1] = b[i]
  <2>1. i + 1 \in 1..(1 + Len(b)) /\ ~(i + 1 <= 1) /\ (i + 1) - 1 = i
    BY <1>2
  <2> QED BY <1>4, <2>1
<1>7. Len(one \o b) = Len(b) + 1
  BY <1>2, <1>4
<1> QED BY <1>1, <1>5, <1>6, <1>7

\* The first of the rest is taken, and is the one that comes next.
LEMMA TakeSteady ==
  ASSUME SensorType, PollingType, TakeReply, NEW s \in UdpSensors, Steady(s)
  PROVE  Steady(s)'
<1> DEFINE old == sensorUDPReplies
           new == sensorUDPReplies'
           d == handling.data
           set == [ip |-> handling.ip, data |-> d]
<1>1. /\ handling # Idle /\ handling' = Idle
      /\ new = IF d # NoData THEN Append(old, set) ELSE old
      /\ semSensors' = [semSensors EXCEPT ![handling.ip] = @ + 1]
      /\ answered' = [answered EXCEPT ![handling.ip] = handling.id]
      /\ UNCHANGED <<requests, replies, poller, requestID, sentUDPRequests, generated,
                     historicSensorData>>
  BY DEF TakeReply, sensorVars, netVars, pollerVars
<1>2. /\ handling \in Reply /\ old \in Seq(DataSet) /\ s \in Sensors /\ d \in Nat
      /\ d # NoData => set \in DataSet
      /\ semSensors \in [Sensors -> Nat] /\ answered \in [Sensors -> Nat \cup {-1}]
  BY <1>1 DEF PollingType, Reply, DataSet, Sensors
<1>3. Asking(s)' = Asking(s) /\ Arriving(s)' = Arriving(s) /\ Handled(s)' = {}
  BY <1>1 DEF Asking, Arriving, Handled
<1>4. d # NoData =>
        /\ Len(old) \in Nat /\ DOMAIN old = 1..Len(old) /\ DOMAIN new = 1..(Len(old) + 1)
        /\ \A i \in DOMAIN old : new[i] = old[i]
        /\ new[Len(old) + 1] = set
  BY <1>1, <1>2, AppendProperties, LenProperties
<1>5. \A i \in DOMAIN old : i \in DOMAIN new /\ new[i] = old[i]
  BY <1>1, <1>4
<1>6. CASE handling.ip # s
  <2>1. Handled(s) = {}
    BY <1>6 DEF Handled
  <2>2. TakenAt(s)' = TakenAt(s)
    BY <1>1, <1>4, <1>5, <1>6 DEF TakenAt
  <2>3. \A i \in TakenAt(s) : new[i] = old[i]
    BY <1>5 DEF TakenAt
  <2>4. semSensors'[s] = semSensors[s] /\ answered'[s] = answered[s]
    BY <1>1, <1>2, <1>6
  <2> QED BY <1>1, <1>3, <2>1, <2>2, <2>3, <2>4, SteadyKept
<1>7. CASE handling.ip = s
  <2>1. handling \in Handled(s)
    BY <1>1, <1>7 DEF Handled
  <2>2. poller[s] = "wait" /\ sentUDPRequests[s] = requestID[s] /\ Replied(s)
    BY <2>1 DEF Steady, Exchange, Quiet, Asked, Answered
  <2>3. /\ Arriving(s) = {} /\ Asking(s) = {} /\ Handled(s) = {handling}
        /\ handling.id = requestID[s] /\ semSensors[s] = 0
    BY <2>1, <2>2 DEF Replied
  <2>4. semSensors'[s] = 1 /\ answered'[s] = requestID'[s]
    BY <1>1, <1>2, <1>7, <2>3 DEF Reply
  <2>5. Exchange(s)'
    BY <1>1, <1>3, <2>2, <2>3, <2>4 DEF Exchange, Answered, Quiet
  <2>6. OnItsWay(s) = IF d # NoData THEN <<d>> ELSE <<>>
    BY <2>3, WayIs
  <2>7. OnItsWay(s)' = <<>>
    BY <1>3, <2>3, WayIsNext
  <2>8. historicSensorData[s] \in Seq(Nat) /\ Rest(s)' = historicSensorData[s]
    <3>1. historicSensorData[s] \in Seq(Nat)
      BY <1>2, RestType
    <3> QED BY <1>1, <2>7, <3>1, ConcatEmptySeq DEF Rest
  <2>9. CASE d = NoData
    <3>1. Rest(s)' = Rest(s)
      BY <2>6, <2>8, <2>9, ConcatEmptySeq DEF Rest
    <3>2. TakenAt(s)' = TakenAt(s)
      BY <1>1, <2>9 DEF TakenAt
    <3>3. new = old /\ generated'[s] = generated[s]
      BY <1>1, <2>9
    <3>4. AllThere(s)'
      BY <3>1, <3>2, <3>3, AllThereKept DEF Steady
    <3> QED BY <2>5, <3>4 DEF Steady
  <2>10. CASE d # NoData
    <3>1. /\ Len(Rest(s)) = Len(Rest(s)') + 1 /\ Rest(s)[1] = d
          /\ \A i \in 1..Len(Rest(s)') : Rest(s)[i + 1] = Rest(s)'[i]
          /\ Len(Rest(s)') \in Nat /\ generated[s] \in Nat
      BY <1>2, <2>6, <2>8, <2>10, ConsProperties, LenProperties, RestType DEF Rest
    <3>2. /\ Before(s) \in Nat /\ TakenFrom(s) = 1..Before(s)
          /\ \A i, j \in TakenAt(s) : i < j => old[i].data < old[j].data
          /\ \A i \in 1..Len(Rest(s)) : Rest(s)[i] = Before(s) + i
      BY DEF Steady, AllThere
    <3>3. Before(s)' = Before(s) + 1 /\ d = Before(s) + 1
      <4>1. Before(s)' = Before(s) + 1
        <5>1. generated'[s] = generated[s]
          BY <1>1
        <5>2. /\ Before(s) = generated[s] - Len(Rest(s))
              /\ Before(s)' = generated[s] - Len(Rest(s)')
          BY <5>1 DEF Before
        <5> QED BY <3>1, <5>2
      <4>2. 1 \in 1..Len(Rest(s))
        BY <3>1
      <4> QED BY <3>1, <3>2, <4>1, <4>2
    <3>4. \A i \in 1..Len(Rest(s)') : Rest(s)'[i] = Before(s)' + i
      <4> SUFFICES ASSUME NEW i \in 1..Len(Rest(s)') PROVE Rest(s)'[i] = Before(s)' + i
        OBVIOUS
      <4>1. i + 1 \in 1..Len(Rest(s))
        BY <3>1
      <4>2. Rest(s)'[i] = Before(s) + (i + 1)
        BY <3>1, <3>2, <4>1
      <4> QED BY <3>2, <3>3, <4>2
    <3> HIDE DEF old, new, d
    <3>5. TakenAt(s)' = TakenAt(s) \cup {Len(old) + 1}
      BY <1>4, <1>7, <2>10 DEF TakenAt, old, new
    <3>6. \A i \in TakenAt(s) : new[i] = old[i] /\ i < Len(old) + 1 /\ i \in Nat
      BY <1>4, <2>10 DEF TakenAt, old
    <3>7. new[Len(old) + 1].data = d
      BY <1>4, <2>10
    <3>8. TakenFrom(s)' = TakenFrom(s) \cup {d}
      BY <3>5, <3>6, <3>7 DEF TakenFrom, old, new
    <3>9. TakenFrom(s)' = 1..Before(s)'
      BY <3>2, <3>3, <3>8
    <3>10. \A i, j \in TakenAt(s)' : i < j => new[i].data < new[j].data
      <4> SUFFICES ASSUME NEW i \in TakenAt(s)', NEW j \in TakenAt(s)', i < j
                   PROVE  new[i].data < new[j].data
        OBVIOUS
      <4>1. i \in TakenAt(s)
        <5>1. Len(old) \in Nat
          BY <1>4, <2>10
        <5>2. ~(Len(old) + 1 < j)
          BY <3>5, <3>6, <5>1
        <5> QED BY <3>5, <5>2
      <4>2. CASE j \in TakenAt(s)
        BY <3>2, <3>6, <4>1, <4>2
      <4>3. CASE j = Len(old) + 1
        <5>1. old[i].data \in 1..Before(s)
          BY <3>2, <4>1 DEF TakenFrom, old
        <5> QED BY <3>2, <3>3, <3>6, <3>7, <4>1, <4>3, <5>1
      <4> QED BY <3>5, <4>2, <4>3
    <3>11. AllThere(s)'
      BY <3>2, <3>3, <3>4, <3>9, <3>10 DEF AllThere, new
    <3> QED BY <2>5, <3>11 DEF Steady
  <2> QED BY <2>9, <2>10
<1> QED BY <1>6, <1>7

\* Steps of others; to lose a request or reply of s is a disturbance.
LEMMA OthersSteady ==
  ASSUME SensorType, PollingType, NEW s \in UdpSensors, Steady(s), undisturbed'[s],
         \/ \E m \in MqttSensors : AwaitNewData(m) \/ PublishData(m) \/ TakeFromEmpty(m)
         \/ \E m \in MqttSensors : on_message(m) \/ LoseMessage(m)
         \/ \E request \in requests : generateUDPReply(request) \/ LoseRequest(request)
         \/ \E reply \in replies : LoseReply(reply)
         \/ UNCHANGED vars
  PROVE  Steady(s)'
<1>1. /\ s \in Sensors /\ s \notin MqttSensors /\ undisturbed \in [Sensors -> BOOLEAN]
      /\ historicSensorData \in [Sensors -> Seq(Nat)]
      /\ requests \subseteq Request /\ replies \subseteq Reply
  BY PollingAssumption DEF Sensors, SensorType, PollingType
<1>2. UNCHANGED <<poller, requestID, sentUDPRequests, semSensors, handling, answered,
                  sensorUDPReplies, generated>>
  BY DEF AwaitNewData, PublishData, TakeFromEmpty, on_message, LoseMessage, generateUDPReply,
         LoseRequest, LoseReply, vars, pollerVars, handlerVars, sensorVars
<1>3. Handled(s)' = Handled(s) /\ TakenAt(s)' = TakenAt(s)
  BY <1>2 DEF Handled, TakenAt
<1>4. historicSensorData'[s] = historicSensorData[s]
  BY <1>1 DEF AwaitNewData, PublishData, TakeFromEmpty, on_message, LoseMessage,
              generateUDPReply, LoseRequest, LoseReply, vars, sensorVars
<1>5. ASSUME Asking(s)' = Asking(s), Arriving(s)' = Arriving(s)
      PROVE  Steady(s)'
  BY <1>2, <1>3, <1>4, <1>5, SteadyKept
<1>6. ASSUME NEW request \in requests, generateUDPReply(request)
      PROVE  Steady(s)'
  <2>1. Asking(s)' = Asking(s)
    BY <1>1, <1>6 DEF generateUDPReply, Asking
  <2>2. replies \subseteq replies' /\ \A r \in replies' : r.ip = s => r \in replies
    BY <1>1, <1>6, AdapterType DEF generateUDPReply
  <2>3. Arriving(s)' = Arriving(s)
    BY <2>2 DEF Arriving
  <2> QED BY <1>5, <2>1, <2>3
<1>7. ASSUME NEW request \in requests, LoseRequest(request)
      PROVE  Steady(s)'
  <2>1. request.host # s
    BY <1>1, <1>7 DEF LoseRequest
  <2>2. Asking(s)' = Asking(s) /\ Arriving(s)' = Arriving(s)
    BY <1>7, <2>1 DEF LoseRequest, Asking, Arriving
  <2> QED BY <1>5, <2>2
<1>8. ASSUME NEW reply \in replies, LoseReply(reply)
      PROVE  Steady(s)'
  <2>1. reply.ip # s
    BY <1>1, <1>8 DEF LoseReply
  <2>2. Asking(s)' = Asking(s) /\ Arriving(s)' = Arriving(s)
    BY <1>8, <2>1 DEF LoseReply, Asking, Arriving
  <2> QED BY <1>5, <2>2
<1>9. CASE UNCHANGED <<requests, replies>>
  BY <1>5, <1>9 DEF Asking, Arriving
<1> QED BY <1>6, <1>7, <1>8, <1>9
        DEF AwaitNewData, PublishData, TakeFromEmpty, on_message, LoseMessage, vars, netVars

\* Once disturbed, a sensor is disturbed for ever.
LEMMA DisturbedStays ==
  ASSUME SensorType, PollingType, [Next]_vars, NEW s \in UdpSensors, undisturbed'[s]
  PROVE  undisturbed[s]
<1>1. s \in Sensors /\ undisturbed \in [Sensors -> BOOLEAN]
  BY DEF SensorType, Sensors
<1>2. CASE UNCHANGED undisturbed
  BY <1>2
<1>3. ASSUME NEW g \in Sensors, generateSensorData(g)
      PROVE  undisturbed[s]
  BY <1>1, <1>3 DEF generateSensorData
<1>4. ASSUME NEW request \in requests, LoseRequest(request)
      PROVE  undisturbed[s]
  BY <1>1, <1>4 DEF LoseRequest
<1>5. ASSUME NEW reply \in replies, LoseReply(reply)
      PROVE  undisturbed[s]
  BY <1>1, <1>5 DEF LoseReply
<1>6. ASSUME NEW p \in Sensors, TimeOut(p)
      PROVE  undisturbed[s]
  BY <1>1, <1>6 DEF TimeOut
<1> QED BY <1>2, <1>3, <1>4, <1>5, <1>6
        DEF Next, Sensor, Gateway, AwaitNewData, PublishData, TakeFromEmpty, on_message,
            LoseMessage, generateUDPReply, generateReply, SendRequest, GotAnswer, WakeUp,
            ReceiveReply, TakeReply, vars

LEMMA StepSteady ==
  ASSUME SensorType, PollingType, SteadyInv, [Next]_vars
  PROVE  SteadyInv'
<1> SUFFICES ASSUME NEW s \in UdpSensors, undisturbed'[s]
             PROVE  Steady(s)'
  BY DEF SteadyInv
<1>1. Steady(s)
  BY DisturbedStays DEF SteadyInv
<1>2. CASE Sensor
  BY <1>1, <1>2, GenerateSteady, OthersSteady DEF Sensor
<1>3. CASE Gateway
  BY <1>1, <1>3, SendSteady, WaitSteady, ReceiveSteady, TakeSteady DEF Gateway
<1>4. CASE \E request \in requests : generateReply(request)
  BY <1>1, <1>4, AnswerSteady
<1> QED BY <1>1, <1>2, <1>3, <1>4, OthersSteady DEF Next

LEMMA SteadyInvariance == Spec => []SteadyInv
<1>1. IInv /\ PollingType /\ SteadyInv /\ [Next]_vars => SteadyInv'
  BY StepSteady DEF IInv
<1> QED BY <1>1, InitSteady, TypeInvariance, PTL DEF Spec

\* For any number of tries: until a data set, a request or a reply of a UDP sensor
\* is dropped, lost or late, the gateway has taken all the sensor has generated,
\* each data set once and in order, but those on their way and in its buffer.
THEOREM NothingIsLost == Spec => []NothingLost
<1>1. SensorType /\ PollingType /\ SteadyInv => NothingLost
  <2> SUFFICES ASSUME SensorType, PollingType, NEW s \in UdpSensors, AllThere(s)
               PROVE  LET rest == OnItsWay(s) \o historicSensorData[s]
                          n == generated[s] - Len(rest)
                      IN  /\ {sensorUDPReplies[i].data : i \in TakenAt(s)} = 1..n
                          /\ \A i, j \in TakenAt(s) :
                               i < j => sensorUDPReplies[i].data < sensorUDPReplies[j].data
                          /\ rest = [i \in 1..Len(rest) |-> n + i]
    BY DEF SteadyInv, Steady, NothingLost
  <2>1. Rest(s) = [i \in 1..Len(Rest(s)) |-> Before(s) + i]
    <3>1. Rest(s) \in [1..Len(Rest(s)) -> Nat]
      BY RestType, LenProperties DEF Sensors
    <3> QED BY <3>1 DEF AllThere
  <2> QED BY <2>1 DEF AllThere, TakenFrom, Rest, Before
<1> QED BY <1>1, SteadyInvariance, TypeInvariance, PTL DEF IInv

\* For any number of tries: until then, no polling thread goes on with a permit
\* that an earlier request has left behind.
THEOREM AnswersAreCurrent == Spec => AnswerIsCurrent
<1>1. SteadyInv => \A s \in UdpSensors :
                     GotAnswer(s) /\ undisturbed[s] => answered[s] = requestID[s]
  <2> SUFFICES ASSUME NEW s \in UdpSensors, Steady(s), GotAnswer(s)
               PROVE  answered[s] = requestID[s]
    BY DEF SteadyInv
  <2>1. poller[s] = "wait" /\ semSensors[s] # 0
    BY DEF GotAnswer
  <2> QED BY <2>1 DEF Steady, Exchange, Asked, Replied, Answered
<1> QED BY <1>1, SteadyInvariance, PTL DEF AnswerIsCurrent
=============================================================================
