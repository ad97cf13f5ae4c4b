---------------------------- MODULE MCTurnSession ----------------------------
(* Instance of TurnSession for TLC.                                         *)
EXTENDS TurnSessionProperties
=============================================================================
