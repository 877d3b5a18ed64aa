--------------------------- MODULE MCRequestPool ---------------------------
(* Small instances of the request pool. *)
EXTENDS RequestPool
=============================================================================
