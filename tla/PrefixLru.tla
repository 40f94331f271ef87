------------------------------ MODULE PrefixLru ------------------------------
(***************************************************************************)
(* prefix_cache.zig, Cache: the in-memory cache of encoded prefixes.  Its  *)
(* nodes lie in one array, are found through a hash map, and are linked    *)
(* into a list by indices, the one that was used last at the head.  An     *)
(* eviction takes the tail out of the array by moving the last node into   *)
(* its place.  The ids lie in an arena of their own, which is rebuilt when *)
(* too much of it is dead.  Any allocation may fail.                       *)
(*                                                                         *)
(* One action is one call: the caller holds a mutex, or is alone.  The     *)
(* bytes of a key are the key; a block of the arena is the entry <<key, n>>*)
(* whose n ids it holds; indices count from 1, and 0 is null.              *)
(***************************************************************************)
EXTENDS Integers, Sequences, FiniteSets

LOCAL INSTANCE FiniteSetsExt
LOCAL INSTANCE SequencesExt

CONSTANTS
  Capacity,    \* at least 1
  Entries,     \* what may be inserted, as <<key, n>>
  NoEntry,     \* none of them
  Hash,        \* of each key
  Ratio,       \* compaction_ratio, at least 1
  TableSizes,  \* how many entries the map holds before it has to grow, in steps; one of
               \* them is at least Capacity
  MapFaults,   \* 1: the map may fail to grow
  MaxCalls     \* bound: calls that store, or try to

Keys   == {e[1] : e \in Entries}
Hashes == {Hash[k] : k \in Keys}

VARIABLES
  cache,   \* the fields of Cache: see TypeOK
  answer,  \* the last call: the key, and the entry it found or stored, or NoEntry
  calls

vars == <<cache, answer, calls>>

Empty == [nodes |-> <<>>, entries |-> [h \in {} |-> 0], head |-> 0, tail |-> 0,
          arena |-> <<>>, room |-> 0]

Init ==
  /\ cache = Empty
  /\ answer = <<>>
  /\ calls = 0

-----------------------------------------------------------------------------
(* The list.                                                               *)

Unlink(c, i) ==
  LET n == c.nodes[i]
  IN  [c EXCEPT !.nodes = [j \in DOMAIN @ |->
                             [@[j] EXCEPT !.next = IF j = n.prev THEN n.next ELSE @,
                                          !.prev = IF j = n.next THEN n.prev ELSE @]],
                !.head = IF n.prev = 0 THEN n.next ELSE @,
                !.tail = IF n.next = 0 THEN n.prev ELSE @]

LinkAtHead(c, i) ==
  [c EXCEPT !.nodes = [j \in DOMAIN @ |->
                         IF j = i THEN [@[j] EXCEPT !.prev = 0, !.next = c.head]
                         ELSE IF j = c.head THEN [@[j] EXCEPT !.prev = i] ELSE @[j]],
            !.head = i,
            !.tail = IF @ = 0 THEN i ELSE @]

Touch(c, i) == IF c.head = i THEN c ELSE LinkAtHead(Unlink(c, i), i)

-----------------------------------------------------------------------------
(* Eviction.                                                               *)

\* Fault: the map still leads to where the moved node was.
MapLags(c, hole) == c.entries

\* The map leads to the moved node.
MapMoved(c, hole) ==
  LET h == Hash[c.nodes[Len(c.nodes)].key]
  IN  [g \in DOMAIN c.entries \cup {h} |-> IF g = h THEN hole ELSE c.entries[g]]

\* Where node i is, once the last node has moved into the hole.
Moved(c, i, hole) == IF i = Len(c.nodes) THEN hole ELSE i

\* The last node moves into the hole, and everything that led to it follows.
SwapRemove(c, hole) ==
  LET last  == Len(c.nodes)
      moved == c.nodes[last]
  IN  IF hole = last THEN [c EXCEPT !.nodes = Front(@)]
      ELSE [c EXCEPT !.nodes = [j \in 1 .. last - 1 |->
                                  IF j = hole THEN moved
                                  ELSE [@[j] EXCEPT !.next = IF j = moved.prev THEN hole ELSE @,
                                                    !.prev = IF j = moved.next THEN hole ELSE @]],
                     !.head = Moved(c, @, hole),
                     !.tail = Moved(c, @, hole),
                     !.entries = MapMoved(c, hole)]

\* evictTail.  The map has a free slot for the moved node: one was just removed.
EvictTail(c) ==
  IF c.tail = 0 THEN c
  ELSE LET h == Hash[c.nodes[c.tail].key]
           unmapped == [c EXCEPT !.entries = [g \in DOMAIN @ \ {h} |-> @[g]]]
       IN  SwapRemove(Unlink(unmapped, c.tail), c.tail)

\* The loop of insertInternal that makes room.  It does not end if it cannot.
Roomy(c) == IF Len(c.nodes) >= Capacity THEN EvictTail(c) ELSE c
CanMakeRoom(c) == Len(Roomy(c).nodes) < Capacity

-----------------------------------------------------------------------------
(* The arena of ids.                                                       *)

\* What ids_ptr of a node leads to; NoEntry if that memory was freed.
Block(c, n) == IF n.at \in DOMAIN c.arena THEN c.arena[n.at] ELSE NoEntry

SizeOf(blocks) == FoldSeq(LAMBDA b, sum : b[2] + sum, 0, blocks)
Live(c) == [j \in DOMAIN c.nodes |-> Block(c, c.nodes[j])]

\* maybeCompact.
CompactDue(c) ==
  LET live == SizeOf(Live(c))
  IN  SizeOf(c.arena) > (IF live = 0 THEN 0 ELSE Ratio * live)

\* compact copies the live ids to a new arena.  Its memory is reserved in one piece
\* before the first node is changed, so it happens as a whole or not at all.
Compacted(c) ==
  [c EXCEPT !.arena = Live(c),
            !.nodes = [j \in DOMAIN @ |-> [@[j] EXCEPT !.at = j]]]

MaybeCompacted(c) == IF CompactDue(c) THEN Compacted(c) ELSE c

\* arenaDupIds.
Stored(c, e) == [c EXCEPT !.arena = Append(@, e)]

-----------------------------------------------------------------------------
(* The map.                                                                *)

MapFull(c) == Cardinality(DOMAIN c.entries) >= c.room
GrownRoom(c) == IF MapFull(c) THEN Min({n \in TableSizes : n > c.room}) ELSE c.room

-----------------------------------------------------------------------------
(* The calls.                                                              *)

Found(k) == Hash[k] \in DOMAIN cache.entries
Index(k) == cache.entries[Hash[k]]

\* Fault: the bytes of the key are not compared.
MatchesHash(k) == Found(k)

Matches(k) == Found(k) /\ cache.nodes[Index(k)].key = k

\* lookup, and the first half of lookupOrInsert.
Hit(k) ==
  /\ Matches(k)
  /\ answer' = <<k, Block(cache, cache.nodes[Index(k)])>>
  /\ cache' = Touch(cache, Index(k))
  /\ UNCHANGED calls

Miss(k) ==
  /\ ~Matches(k)
  /\ answer' = <<k, NoEntry>>
  /\ UNCHANGED <<cache, calls>>

Call == calls < MaxCalls /\ calls' = calls + 1

\* The first part of insertInternal: room is made, and the node put in the array.
WithNode(c, e) ==
  LET d == Stored(MaybeCompacted(Roomy(c)), e)
  IN  [d EXCEPT !.nodes = Append(@, [key |-> e[1], at |-> Len(d.arena), prev |-> 0, next |-> 0])]

\* insert, or the rest of lookupOrInsert: a new hash.
InsertNew(e) ==
  LET c == WithNode(cache, e)
      i == Len(c.nodes)
  IN  /\ Call
      /\ ~Found(e[1]) /\ CanMakeRoom(cache)
      /\ cache' = LinkAtHead([c EXCEPT !.entries = [h \in DOMAIN @ \cup {Hash[e[1]]} |->
                                                      IF h = Hash[e[1]] THEN i ELSE @[h]],
                                       !.room = GrownRoom(c)], i)
      /\ answer' = <<e[1], e>>

\* It fails: at the new arena; at the bytes of the key or the ids; at the array; or
\* at the map, and then the node stays in the array.
InsertFails(e) ==
  LET c == Roomy(cache)
      d == MaybeCompacted(c)
  IN  /\ Call
      /\ ~Found(e[1]) /\ CanMakeRoom(cache)
      /\ cache' \in (IF CompactDue(c) THEN {c} ELSE {}) \cup {d, Stored(d, e)}
                    \cup (IF MapFaults = 1 /\ MapFull(d) THEN {WithNode(cache, e)} ELSE {})
      /\ answer' = <<e[1], NoEntry>>

\* overwrite: a hash that is known, perhaps from another key.  That the map cannot
\* grow is no error here, since it has the hash.
Overwrite(e) ==
  LET c == Stored(MaybeCompacted(cache), e)
      i == Index(e[1])
  IN  /\ Call
      /\ Found(e[1])
      /\ \E room \in {GrownRoom(c), c.room} :
           cache' = Touch([c EXCEPT !.nodes[i].key = e[1], !.nodes[i].at = Len(c.arena),
                                    !.room = room], i)
      /\ answer' = <<e[1], e>>

OverwriteFails(e) ==
  /\ Call
  /\ Found(e[1])
  /\ cache' \in {cache, MaybeCompacted(cache)}
  /\ answer' = <<e[1], NoEntry>>

ForceCompact ==
  /\ cache' = Compacted(cache)
  /\ UNCHANGED <<answer, calls>>

\* The map keeps its memory.
Clear ==
  /\ cache' = [Empty EXCEPT !.room = cache.room]
  /\ answer' = <<>>
  /\ UNCHANGED calls

Next ==
  \/ \E k \in Keys : Hit(k) \/ Miss(k)
  \/ \E e \in Entries : InsertNew(e) \/ InsertFails(e)
                        \/ Overwrite(e) \/ OverwriteFails(e)
  \/ ForceCompact \/ Clear

Spec == Init /\ [][Next]_vars

-----------------------------------------------------------------------------
(* Properties.                                                             *)

Size == Len(cache.nodes)

\* Every variable keeps its type, and the array its limit.
TypeOK ==
  /\ cache.nodes \in Seq([key : Keys, at : Nat, prev : 0 .. Size, next : 0 .. Size])
  /\ Size <= Capacity
  /\ cache.entries \in [DOMAIN cache.entries -> 1 .. Size]
  /\ DOMAIN cache.entries \subseteq Hashes
  /\ cache.head \in 0 .. Size /\ cache.tail \in 0 .. Size
  /\ cache.arena \in Seq(Entries)
  /\ cache.room \in TableSizes \cup {0}
  /\ answer \in {<<>>} \cup (Keys \X (Entries \cup {NoEntry}))
  /\ calls \in 0 .. MaxCalls

\* The nodes from the head on, as far as there are any.
Walk ==
  LET walk[n \in 0 .. Size] ==
        IF n = 0 THEN <<>>
        ELSE LET before == walk[n - 1]
                 i == IF before = <<>> THEN cache.head ELSE cache.nodes[Last(before)].next
             IN  IF i = 0 THEN before ELSE Append(before, i)
  IN  walk[Size]

\* The array, the list and the map agree: each node is in the list once, forwards
\* and backwards, the map leads to it under its hash, and its ids are its own.
Consistent ==
  LET walk == Walk
  IN  /\ Len(walk) = Size /\ Cardinality(Range(walk)) = Size
      /\ Size = 0 => cache.head = 0 /\ cache.tail = 0
      /\ Size > 0 => cache.tail = Last(walk) /\ cache.nodes[cache.tail].next = 0
      /\ \A n \in DOMAIN walk :
           cache.nodes[walk[n]].prev = IF n = 1 THEN 0 ELSE walk[n - 1]
      /\ cache.entries = [h \in {Hash[cache.nodes[i].key] : i \in 1 .. Size} |->
                            CHOOSE i \in 1 .. Size : Hash[cache.nodes[i].key] = h]
      /\ Cardinality(DOMAIN cache.entries) = Size
      /\ \A i \in 1 .. Size : Block(cache, cache.nodes[i])[1] = cache.nodes[i].key

Listed ==
  LET walk == Walk
  IN  [n \in DOMAIN walk |-> Block(cache, cache.nodes[walk[n]])]

\* What a caller sees is a map that forgets what was not used longest.
Abstract == INSTANCE LruMap WITH
  HashOf <- LAMBDA k : Hash[k],
  list <- Listed

\* The cache implements LruMap.
ImplementsLruMap == Abstract!Spec

\* "Evict tail until there is room for one more entry": the loop of an insert ends.
EvictionMakesRoom == CanMakeRoom(cache)
=============================================================================
