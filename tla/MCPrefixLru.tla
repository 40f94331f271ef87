----------------------------- MODULE MCPrefixLru -----------------------------
(* PrefixLru with five keys, two of which collide. *)
EXTENDS PrefixLru

MCEntries == {<<1, 1>>, <<1, 2>>, <<2, 1>>, <<3, 0>>, <<4, 1>>, <<5, 1>>}
MCHash    == [k \in Keys |-> IF k = 5 THEN 1 ELSE k]
=============================================================================
