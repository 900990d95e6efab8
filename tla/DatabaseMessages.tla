--------------------------- MODULE DatabaseMessages ---------------------------
(***************************************************************************)
(* The messages between the web server and a database, as the code which   *)
(* the Thrift compiler made of database.thrift writes and reads them       *)
(* (gen-cpp/Database.cpp, gen-cpp/database_types.cpp).                     *)
(*                                                                         *)
(* A struct is the sequence of its fields, in the order of their ids 1, 2, *)
(* ...; on the wire it is a function from ids to values with their types.  *)
(* Two peers may differ in what fields they know: a reader takes a field   *)
(* only under the id and with the type it knows, and skips all others.     *)
(***************************************************************************)
EXTENDS Integers, Sequences

\* Writing and reading a struct whose fields have these types.  A field that is not
\* read keeps the value the struct had.
WriteStruct(types, values) ==
  [i \in DOMAIN types |-> [type |-> types[i], value |-> values[i]]]

ReadStruct(types, wire, values) ==
  [i \in DOMAIN types |->
     IF i \in DOMAIN wire /\ wire[i].type = types[i] THEN wire[i].value ELSE values[i]]

-----------------------------------------------------------------------------
\* database_types.cpp

SensorData == <<"DOUBLE", "DOUBLE", "DOUBLE">>  \* temperature, brightness, humidity
NoSensorData == <<0, 0, 0>>
SensorMetadata == <<"I32", "STRING", "I64", "STRUCT">>  \* port, ip, timestamp, sensorData
NoSensorMetadata == <<0, "", 0, NoSensorData>>

\* A value with the fields of a SensorMetadata, whatever they hold.
IsSensorMetadata(m) ==
  m = [i \in 1..4 |-> m[i]] /\ m[4] = [i \in 1..3 |-> m[4][i]]

\* (Definitions named "Wrong..." are not part of the model: each is a plausible slip
\* in the definition that follows it.)

SensorMetadata_write(m) ==
  WriteStruct(SensorMetadata, [m EXCEPT ![4] = WriteStruct(SensorData, m[4])])

WrongSensorMetadata_read(wire) ==
  [ReadStruct(SensorMetadata, wire, NoSensorMetadata) EXCEPT ![4] = NoSensorData]

SensorMetadata_read(wire) ==
  LET m == ReadStruct(SensorMetadata, wire, [NoSensorMetadata EXCEPT ![4] = <<>>])
  IN  [m EXCEPT ![4] = ReadStruct(SensorData, m[4], NoSensorData)]

\* A value on the wire, and back.  The only struct among arguments and results is a
\* SensorMetadata, the only map one from strings to such structs.
Wire(type, value) ==
  CASE type = "STRUCT" -> SensorMetadata_write(value)
    [] type = "MAP"    -> [k \in DOMAIN value |-> SensorMetadata_write(value[k])]
    [] OTHER           -> value

Unwire(type, wire) ==
  CASE type = "STRUCT" -> SensorMetadata_read(wire)
    [] type = "MAP"    -> [k \in DOMAIN wire |-> SensorMetadata_read(wire[k])]
    [] OTHER           -> wire

-----------------------------------------------------------------------------
\* The types of the arguments of each method, in the structs <method>_args and
\* <method>_pargs, and of its result, field 0 of <method>_result and _presult.

ping_args == <<>>
ping_result == "VOID"
updateSensorMetadata_args == <<"STRING", "STRUCT">>  \* id, sensorMetadata
updateSensorMetadata_result == "I32"
deleteSensorMetadata_args == <<"STRING">>            \* id
deleteSensorMetadata_result == "I32"
readSensorMetadata_args == <<"STRING">>              \* id
readSensorMetadata_result == "STRUCT"
createSensorMetadata_args == <<"MAP">>               \* sensorMetadataCollection
createSensorMetadata_result == "I32"
readAll_args == <<"I32">>                            \* numberOfRows
readAll_result == "MAP"
isUpdatePossible_args == <<"STRING">>                \* id
isUpdatePossible_result == "I32"
isDeletePossible_args == <<"STRING">>                \* id
isDeletePossible_result == "I32"
isCreatePossible_args == <<"MAP">>                   \* sensorMetadataCollection
isCreatePossible_result == "I32"

Method(name, args, result) == [name |-> name, args |-> args, result |-> result]

\* What DatabaseClient's <method>, send_<method> and recv_<method> say of it.
Ping == Method("ping", ping_args, ping_result)
Update == Method("updateSensorMetadata", updateSensorMetadata_args, updateSensorMetadata_result)
Delete == Method("deleteSensorMetadata", deleteSensorMetadata_args, deleteSensorMetadata_result)
Read == Method("readSensorMetadata", readSensorMetadata_args, readSensorMetadata_result)
Create == Method("createSensorMetadata", createSensorMetadata_args, createSensorMetadata_result)
ReadAll == Method("readAll", readAll_args, readAll_result)
UpdateVote == Method("isUpdatePossible", isUpdatePossible_args, isUpdatePossible_result)
DeleteVote == Method("isDeletePossible", isDeletePossible_args, isDeletePossible_result)
CreateVote == Method("isCreatePossible", isCreatePossible_args, isCreatePossible_result)

Methods == {Ping, Update, Delete, Read, Create, ReadAll, UpdateVote, DeleteVote, CreateVote}

-----------------------------------------------------------------------------
\* A message is one frame of the TFramedTransport: it arrives whole or not at all.

Message(name, type, body) == [name |-> name, type |-> type, body |-> body]

\* The call of a method, and the arguments process_<method> reads from it.
CallMessage(method, args) ==
  Message(method.name, "CALL",
          WriteStruct(method.args, [i \in DOMAIN method.args |-> Wire(method.args[i], args[i])]))

NoValue == [STRING |-> "", I32 |-> 0, STRUCT |-> <<>>, MAP |-> <<>>]

ArgsOf(method, message) ==
  LET none == [i \in DOMAIN method.args |-> NoValue[method.args[i]]]
      read == ReadStruct(method.args, message.body, none)
  IN  [i \in DOMAIN method.args |-> Unwire(method.args[i], read[i])]

WrongReplyMessage(method, result) ==
  Message(method.name, "REPLY",
          IF method.result = "VOID" \/ (method.result = "I32" /\ result = 0) THEN <<>>
          ELSE [i \in {0} |-> [type |-> method.result, value |-> Wire(method.result, result)]])

\* The reply to it, with the field success as soon as there is a result, ...
ReplyMessage(method, result) ==
  Message(method.name, "REPLY",
          IF method.result = "VOID" THEN <<>>
          ELSE [i \in {0} |-> [type |-> method.result, value |-> Wire(method.result, result)]])

\* ... and a TApplicationException, for a method the processor does not have or a
\* handler that has thrown.
ExceptionMessage(name) == Message(name, "EXCEPTION", <<>>)

\* What recv_<method> makes of a message: the result, or a TApplicationException.
\* (After a message of another type or name it would read on, for the result, from
\* a message that was never sent.)
Received(method, message) ==
  IF message.type = "EXCEPTION" THEN [ends |-> "exception"]
  ELSE IF message.type # "REPLY" \/ message.name # method.name THEN [ends |-> "never"]
  ELSE IF method.result = "VOID" THEN [ends |-> "result", result |-> 0]
  ELSE IF 0 \in DOMAIN message.body /\ message.body[0].type = method.result
    THEN [ends |-> "result", result |-> Unwire(method.result, message.body[0].value)]
  ELSE [ends |-> "exception"]  \* MISSING_RESULT
=============================================================================
