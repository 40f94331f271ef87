------------------------------ MODULE MCTables ------------------------------
(***************************************************************************)
(* The two tables of the server that forget what was used longest ago: a   *)
(* behaviour is one of the buckets of the rate limiter, with three clients *)
(* and two connection workers, or of the in-memory prefix cache, with five *)
(* keys, two of which collide. The other one stays in its initial state.   *)
(***************************************************************************)
EXTENDS MCRateLimiter

CONSTANT NoEntry

LruEntries == {<<1, 1>>, <<1, 2>>, <<2, 1>>, <<3, 0>>, <<4, 1>>, <<5, 1>>}
LruHash    == [k \in 1 .. 5 |-> IF k = 5 THEN 1 ELSE k]

VARIABLES table, cache, answer, calls

lruVars == <<cache, answer, calls>>

Lru ==
  INSTANCE PrefixLru WITH
    Capacity <- 3, Entries <- LruEntries, Hash <- LruHash, Ratio <- 1, TableSizes <- {1, 2, 4},
    MapFaults <- 0, MaxCalls <- 5

TablesInit == table \in {"limiter", "cache"} /\ Init /\ Lru!Init

TablesNext ==
  \/ table = "limiter" /\ Next /\ UNCHANGED <<table, lruVars>>
  \/ table = "cache" /\ Lru!Next /\ UNCHANGED <<table, vars>>

TablesSpec == TablesInit /\ [][TablesNext]_<<table, vars, lruVars>>

\* The array, the list and the map of the cache agree: each node is in the list once,
\* forwards and backwards, the map leads to it under its hash, and its ids are its own
\* (prefix_cache.zig).
Consistent == Lru!Consistent

\* What a caller of the cache sees is a map that forgets what was not used longest
\* (prefix_cache.zig).
ImplementsLruMap == Lru!ImplementsLruMap
=============================================================================
