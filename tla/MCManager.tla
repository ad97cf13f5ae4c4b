------------------------------ MODULE MCManager ------------------------------
(* Instances of Manager for TLC: the sets are small sets of model values,   *)
(* given in the configurations; interchangeable callers are symmetric in    *)
(* the runs that check no liveness.                                         *)
EXTENDS ManagerProperties, TLC

CallerSymmetry ==
  Permutations(Waiters) \cup Permutations(Attachers) \cup Permutations(Senders)
    \cup Permutations(Shutters)
=============================================================================
