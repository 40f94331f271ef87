---------------------------- MODULE MCRateLimiter ----------------------------
(* RateLimiter with two connection workers and three clients, for TLC. *)
EXTENDS RateLimiter, TLC

\* Neither threads nor clients are told apart: stamps decide, not names.
Symmetry == Permutations(Clients) \cup Permutations(Threads)
=============================================================================
