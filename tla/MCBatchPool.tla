---------------------------- MODULE MCBatchPool -----------------------------
(* BatchPool on small pools, for TLC. *)
EXTENDS BatchPool
=============================================================================
