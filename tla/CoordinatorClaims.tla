--------------------------- MODULE CoordinatorClaims ---------------------------
(***************************************************************************)
(* What comments of webserver/Webserver.cpp say of the two-phase commit    *)
(* and its code does not keep.  (VotedWhenEvaluated and UnanimousVote, of  *)
(* module CoordinatorProperties, hold under PromptSpec but not under Spec.)*)
(***************************************************************************)
EXTENDS CoordinatorProperties

\* Line 478: data of an aborted create is tried again, "with buffer next
\* iteration".
RetriedNextIteration ==
  [][CollectData => DOMAIN buffer \subseteq DOMAIN dataToSend']_vars
=============================================================================
