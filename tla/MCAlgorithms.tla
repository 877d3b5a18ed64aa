---------------------------- MODULE MCAlgorithms ----------------------------
(* Small arrays. *)
EXTENDS Algorithms
=============================================================================
