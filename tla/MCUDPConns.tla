----------------------------- MODULE MCUDPConns -----------------------------
(* Small instances of the connection table: the configurations give the    *)
(* constants, blocks and addresses are interchangeable.                    *)
EXTENDS UDPConns, TLC

Symmetry == Permutations(Bufs) \cup Permutations(Addrs)
=============================================================================
