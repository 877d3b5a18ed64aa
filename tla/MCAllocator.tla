----------------------------- MODULE MCAllocator -----------------------------
(* Pages of eight, a header of four: large blocks that end before, at and     *)
(* behind a page; a tiny size with a class and one without; a small size.     *)
EXTENDS Allocator
=============================================================================
