-------------------------- MODULE MCSingleShotSession --------------------------
(* Instance of SingleShotSession for TLC.                                   *)
EXTENDS SingleShotSessionProperties
=============================================================================
