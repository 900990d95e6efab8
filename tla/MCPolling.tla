------------------------------ MODULE MCPolling ------------------------------
(***************************************************************************)
(* Small instances of the polling for TLC.  UDP and MQTT sensors touch     *)
(* each other only in the gateway's handler, so each kind gets the bounds  *)
(* its properties need: late replies need two polls of a UDP sensor, the   *)
(* semaphore of an MQTT sensor and the two buffers behind it one more data *)
(* set than a buffer holds.                                                *)
(***************************************************************************)
EXTENDS PollingProperties

MCMaxValues == [s \in Sensors |-> 3]
MCMaxPolls == [s \in Sensors |-> IF s \in UdpSensors THEN 1 ELSE 0]
=============================================================================
