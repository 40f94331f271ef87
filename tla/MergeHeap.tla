------------------------------ MODULE MergeHeap ------------------------------
(***************************************************************************)
(* bpe_heap.zig, encodeWithFallback and encodeSpBpe: the merge loop for    *)
(* long chunks.  The parts are a doubly linked list over the units of the  *)
(* chunk, each part's rank is cached, and a heap holds the candidates.     *)
(* Nothing is ever removed from the middle of the heap: an entry that no   *)
(* longer agrees with the cache is stale, and is skipped when it is popped.*)
(*                                                                         *)
(* The 4-ary array that holds the heap is modelled in QuadHeap; here it is *)
(* the bag of its nodes.  What the bytes of a piece look up in the vocab   *)
(* (the hot table first, then by_bytes) is a table of ranks by where the   *)
(* piece starts and ends: any vocab, any text.  parts_start[i] = i is not  *)
(* modelled, since the loop never writes it.  The ids that are emitted are *)
(* the pieces they stand for.                                              *)
(***************************************************************************)
EXTENDS Integers, Sequences, FiniteSets

CONSTANTS
  N,        \* the chunk's units: bytes, or codepoints for encodeSpBpe
  MaxRank   \* bound: the largest rank

ASSUME ChunkAssumption == N \in Nat \ {0} /\ MaxRank \in Nat

VARIABLES
  table,      \* the vocab: the rank of each piece of two or more units
  len,        \* parts_len
  ranks,      \* the rank of each part's pair with the part to its right
  prev, next,
  heap,       \* how many of each node the heap holds
  heapN,      \* heap_n
  liveCount,
  phase,
  cur,        \* the part that is emitted next
  out

vars == <<table, len, ranks, prev, next, heap, heapN, liveCount, phase, cur, out>>

Units     == 0 .. N - 1
Invalid   == MaxRank + 1
NONE      == N
Intervals == {s \in (0 .. N) \X (0 .. N) : s[1] + 2 <= s[2]}
Nodes     == (0 .. Invalid) \X Units

\* lessNode: by rank, then from left to right.
Less(t, u) == t[1] < u[1] \/ (t[1] = u[1] /\ t[2] < u[2])

Empty  == \A t \in Nodes : heap[t] = 0
Top(t) == heap[t] > 0 /\ \A u \in Nodes : heap[u] > 0 => t = u \/ Less(t, u)

Popped(h, t) == [h EXCEPT ![t] = @ - 1]

Pushed(h, r, i) == IF r = Invalid THEN h ELSE [h EXCEPT ![<<r, i>>] = @ + 1]

Init ==
  /\ table \in [Intervals -> 0 .. Invalid]
  /\ len = [i \in Units |-> 1]
  /\ ranks = [i \in Units |-> IF i + 1 < N THEN table[<<i, i + 2>>] ELSE Invalid]
  /\ prev = [i \in Units |-> IF i = 0 THEN NONE ELSE i - 1]
  /\ next = [i \in Units |-> IF i + 1 = N THEN NONE ELSE i + 1]
  /\ heap = [t \in Nodes |-> IF t[1] # Invalid /\ t[1] = ranks[t[2]] THEN 1 ELSE 0]
  /\ heapN = Cardinality({i \in Units : ranks[i] # Invalid})
  /\ liveCount = N
  /\ phase = "merge"
  /\ cur = 0
  /\ out = <<>>

-----------------------------------------------------------------------------
(* The merge loop.                                                         *)

\* Fault: only a node whose part has no right neighbour is skipped.
StaleTail(t) == next[t[2]] = NONE

\* The cache has moved on, or the part has no right neighbour, or is dead.
Stale(t) == ranks[t[2]] # t[1] \/ next[t[2]] = NONE

PopStale ==
  /\ phase = "merge" /\ liveCount >= 2
  /\ \E t \in Nodes : Top(t) /\ Stale(t) /\ heap' = Popped(heap, t)
  /\ heapN' = heapN - 1
  /\ UNCHANGED <<table, len, ranks, prev, next, liveCount, phase, cur, out>>

\* The rank of the piece that parts i and j make, if they are there.
PieceRank(l, i, j) ==
  IF i = NONE \/ j = NONE THEN Invalid ELSE table[<<i, i + l[i] + l[j]>>]

\* Fault: the pair to the left of the merged part keeps its old rank.
RefreshedRight(a, b, left, right) == [ranks EXCEPT ![a] = right, ![b] = Invalid]

\* The ranks after a swallowed b: those of a and of its left neighbour are new.
Refreshed(a, b, left, right) ==
  [i \in Units |-> IF i = b THEN Invalid ELSE IF i = a THEN right
                   ELSE IF i = prev[a] THEN left ELSE ranks[i]]

\* The top is no longer stale: its part swallows its right neighbour.
MergeParts(t) ==
  LET a == t[2]
      b == next[a]
      c == next[b]
      l == [len EXCEPT ![a] = @ + len[b]]
      right == PieceRank(l, a, c)
      left == PieceRank(l, prev[a], a)
  IN  /\ len' = l
      /\ next' = [next EXCEPT ![a] = c, ![b] = NONE]
      /\ prev' = [i \in Units |-> IF i = b THEN NONE ELSE IF i = c THEN a ELSE prev[i]]
      /\ ranks' = Refreshed(a, b, left, right)
      /\ heap' = Pushed(Pushed(Popped(heap, t), right, a), left, prev[a])
      /\ heapN' = heapN - 1 + (IF right = Invalid THEN 0 ELSE 1)
                            + (IF left = Invalid THEN 0 ELSE 1)

PopMerge ==
  /\ phase = "merge" /\ liveCount >= 2
  /\ \E t \in Nodes : Top(t) /\ ~Stale(t) /\ MergeParts(t)
  /\ liveCount' = liveCount - 1
  /\ UNCHANGED <<table, phase, cur, out>>

\* One part is left, or pop returns null.
EndMerge ==
  /\ phase = "merge"
  /\ liveCount < 2 \/ Empty
  /\ phase' = "emit"
  /\ UNCHANGED <<table, len, ranks, prev, next, heap, heapN, liveCount, cur, out>>

-----------------------------------------------------------------------------
\* The walk over the list.
EmitPart ==
  /\ phase = "emit"
  /\ out' = Append(out, <<cur, cur + len[cur]>>)
  /\ cur' = next[cur]
  /\ phase' = IF next[cur] = NONE THEN "done" ELSE "emit"
  /\ UNCHANGED <<table, len, ranks, prev, next, heap, heapN, liveCount>>

Returned == phase = "done" /\ UNCHANGED vars

Next == PopStale \/ PopMerge \/ EndMerge \/ EmitPart \/ Returned

Spec == Init /\ [][Next]_vars

-----------------------------------------------------------------------------
(* Properties.                                                             *)

Live == {i \in Units : i = 0 \/ prev[i] # NONE}

\* Every variable keeps its type, no node has an invalid rank, and the heap never
\* outgrows the buffer of 3 * n nodes that the caller allocates for it.
TypeOK ==
  /\ table \in [Intervals -> 0 .. Invalid]
  /\ len \in [Units -> 1 .. N]
  /\ ranks \in [Units -> 0 .. Invalid]
  /\ prev \in [Units -> Units \cup {NONE}]
  /\ next \in [Units -> Units \cup {NONE}]
  /\ heap \in [Nodes -> Nat]
  /\ \A t \in Nodes : t[1] = Invalid => heap[t] = 0
  /\ heapN \in Int /\ heapN <= 3 * N
  /\ liveCount \in 1 .. N
  /\ phase \in {"merge", "emit", "done"}
  /\ cur \in Units \cup {NONE}
  /\ out \in Seq(Units \X (1 .. N))

\* The links and lengths agree: the live parts tile the chunk.
ListInv ==
  /\ \A i \in Live : /\ next[i] = i + len[i]
                     /\ next[i] # NONE => prev[next[i]] = i
                     /\ \A j \in Live : j <= i \/ next[i] <= j
                     /\ i # 0 => prev[i] \in Live /\ next[prev[i]] = i
  /\ \A i \in Units \ Live : next[i] = NONE
  /\ prev[0] = NONE
  /\ liveCount = Cardinality(Live)

\* The cache holds the current rank of every live pair, and each rank that merges
\* is in the heap: skipping stale nodes never loses a merge.
HeapInv ==
  /\ ListInv
  /\ \A i \in Live : ranks[i] = PieceRank(len, i, next[i])
  /\ \A i \in Units \ Live : ranks[i] = Invalid
  /\ phase = "merge" =>
       \A i \in Live : ranks[i] # Invalid => heap[<<ranks[i], i>>] > 0
  /\ heapN + 2 * liveCount < 3 * N

\* The loop is greedy BPE: each merge is that of the leftmost pair of the lowest
\* rank, nothing is left to merge when it ends, and what is emitted tiles the text.
Greedy == INSTANCE GreedyMerge WITH
            rank <- [p \in {q \in (0 .. N) \X (0 .. N) \X (0 .. N) :
                              q[1] < q[2] /\ q[2] < q[3]} |-> table[<<p[1], p[3]>>]],
            live <- Live,
            out <- IF phase = "done" THEN out ELSE <<>>

ImplementsGreedy == Greedy!GSpec
=============================================================================
