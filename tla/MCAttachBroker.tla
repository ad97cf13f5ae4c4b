---------------------------- MODULE MCAttachBroker ----------------------------
(* Instances of AttachBroker for TLC; the other constants are in the cfg.   *)
EXTENDS AttachBrokerProperties

CONSTANTS c1, c2

(* One client takes the default depth of the broker, the other its own.     *)
MCDepths == [c \in {c1, c2} |-> IF c = c1 THEN {0} ELSE {2}]
=============================================================================
