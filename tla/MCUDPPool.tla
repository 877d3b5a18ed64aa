------------------------------ MODULE MCUDPPool ------------------------------
(* Small instances of the whole pool. *)
EXTENDS UDPPool, TLC

Symmetry == Permutations(Bufs) \cup Permutations(Addrs)
=============================================================================
