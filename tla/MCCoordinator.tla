---------------------------- MODULE MCCoordinator ----------------------------
(***************************************************************************)
(* Small instances of the two-phase commit for TLC.                        *)
(***************************************************************************)
EXTENDS CoordinatorClaims
=============================================================================
