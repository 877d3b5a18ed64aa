------------------------------- MODULE MCTask -------------------------------
(* A main thread and two that tasks manage. *)
EXTENDS Task
=============================================================================
