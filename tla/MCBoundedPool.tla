--------------------------- MODULE MCBoundedPool ----------------------------
(* BoundedPool with two workers and three producers, for TLC. *)
EXTENDS BoundedPool
=============================================================================
