------------------------- MODULE MCServeHttpSession -------------------------
(* Instance of ServeHttpSession for TLC.                                    *)
EXTENDS ServeHttpSessionProperties
=============================================================================
