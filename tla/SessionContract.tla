--------------------------- MODULE SessionContract ---------------------------
(***************************************************************************)
(* What the Manager may assume of a Session (the Session interface of      *)
(* types.go): processes come and go while it lives; Wait returns once, one *)
(* result for ever, and no process of the session is left then; a session  *)
(* that is told to stop, by Stop or by the end of its context, is over     *)
(* some time later.                                                        *)
(***************************************************************************)
CONSTANT Results

VARIABLES
  told,     (* Stop was called, or the context of Start has ended           *)
  running,  (* a process of the session exists                              *)
  over,     (* Wait returns                                                 *)
  result    (* what it returns                                              *)

vars == <<told, running, over, result>>

Init ==
  /\ told \in BOOLEAN
  /\ running \in BOOLEAN
  /\ over = FALSE
  /\ result \in Results

Tell ==
  /\ told' = TRUE
  /\ UNCHANGED <<running, over, result>>

(* Until it is over the result may still change: an attempt is not the last.*)
Work ==
  /\ ~over
  /\ running' \in BOOLEAN
  /\ result' \in Results
  /\ UNCHANGED <<told, over>>

Finish ==
  /\ ~over /\ ~running
  /\ over' = TRUE
  /\ UNCHANGED <<told, running, result>>

Next == Tell \/ Work \/ Finish

Spec == Init /\ [][Next]_vars

LiveSpec == Spec /\ (told ~> over)
=============================================================================
