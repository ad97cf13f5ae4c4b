-------------------------- MODULE MCJsonRpcSession --------------------------
(* Instance of JsonRpcSession for TLC.                                      *)
EXTENDS JsonRpcSessionProperties
=============================================================================
