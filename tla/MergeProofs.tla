---------------------------- MODULE MergeProofs -----------------------------
(***************************************************************************)
(* For every text and every vocab, the merge loops of bpe.zig and          *)
(* bpe_heap.zig are greedy BPE: the loop that shifts, the one that links   *)
(* and the one with a heap.  They all implement GreedyMerge.               *)
(***************************************************************************)
EXTENDS MergeHeap, MergeScan, FiniteSetTheorems, TLAPS

-----------------------------------------------------------------------------
(* The scanning loops.  A merge is at an index of the arrays; what the two *)
(* loops have in common is said of the indices that are left and of the    *)
(* one behind each.                                                        *)

\* The index of the symbol to the right of i, and the one behind the last symbol.
Behind(i) == IF linked = 1 THEN scanNext[i] ELSE i + 1
Bound     == IF linked = 1 THEN ScanN ELSE live

\* What the variables hold.
ScanTypeOK ==
  /\ scanTable \in [Triples -> 0 .. NoRank]
  /\ linked \in {0, 1}
  /\ symbols \in [Indices -> (0 .. ScanN) \X (0 .. ScanN)]
  /\ scanRanks \in [Indices -> 0 .. NoRank]
  /\ live \in 1 .. ScanN
  /\ scanNext \in [Indices -> 0 .. ScanN]
  /\ scanPrev \in [Indices -> 0 .. ScanN]
  /\ scanPhase \in {"merge", "emit", "done"}
  /\ scanCur \in 0 .. ScanN
  /\ scanOut \in Seq((0 .. ScanN) \X (0 .. ScanN))

\* The symbols that are left tile the chunk, in the order of their indices.
Tiles ==
  /\ 0 \in Left /\ symbols[0][1] = 0
  /\ \A i \in Left :
       /\ symbols[i][1] < symbols[i][2]
       /\ i < Behind(i)
       /\ \/ Behind(i) \in Left /\ symbols[Behind(i)][1] = symbols[i][2]
          \/ Behind(i) = Bound /\ symbols[i][2] = ScanN
       /\ \A j \in Left : i < j => Behind(i) <= j /\ symbols[i][2] <= symbols[j][1]

\* The rank of each pair that is left is current.
Current ==
  \A i \in Left : Behind(i) \in Left => scanRanks[i] = PairRank(symbols[i], symbols[Behind(i)])

\* The linked loop names a symbol by where it starts, its links go both ways, and a scan
\* finds neither a hole nor the last symbol.
Links ==
  linked = 1 =>
    /\ scanPrev[0] = ScanN
    /\ \A i \in Left :
         /\ symbols[i] = <<i, scanNext[i]>>
         /\ scanNext[i] \in Left => scanPrev[scanNext[i]] = i
         /\ scanNext[i] \notin Left => scanRanks[i] = NoRank
         /\ i # 0 => scanPrev[i] \in Left /\ scanNext[scanPrev[i]] = i
    /\ \A i \in Indices \ Left : scanRanks[i] = NoRank

\* What is emitted so far: the symbols to the left of cur, in order.
ScanEmitted ==
  /\ {scanOut[k] : k \in 1 .. Len(scanOut)} = {symbols[i] : i \in {j \in Left : j < scanCur}}
  /\ \A k, l \in 1 .. Len(scanOut) : k < l => scanOut[k][1] < scanOut[l][1]

\* The walk starts at the first symbol, when no pair that is left can be merged, and ends
\* behind the last.
ScanPhaseInv ==
  /\ scanPhase = "merge" => scanCur = 0 /\ scanOut = <<>>
  /\ scanPhase # "merge" =>
       /\ \A i \in Left : Behind(i) \in Left => scanRanks[i] = NoRank
       /\ ScanEmitted
  /\ scanPhase # "done" => scanCur \in Left
  /\ scanPhase = "done" => scanCur = Bound

\* The inductive invariant.
ScanInv == Chunk /\ ScanTypeOK /\ Tiles /\ Current /\ Links /\ ScanPhaseInv

-----------------------------------------------------------------------------
\* The indices that are left are indices of the arrays, and the bound is none of them.
LEMMA LeftUnits ==
  ASSUME ScanInv
  PROVE  /\ Left \subseteq Indices /\ Indices \subseteq Nat
         /\ Bound \in 1 .. ScanN /\ Bound \notin Left
         /\ \A i \in Left : i < Bound
         /\ linked # 1 => Left = 0 .. live - 1
<1>1. linked \in {0, 1} /\ live \in 1 .. ScanN /\ ScanN \in Nat \ {0}
  BY DEF ScanInv, ScanTypeOK, Chunk
<1>2. CASE linked = 1
  BY <1>1, <1>2 DEF Left, Indices, Bound
<1>3. CASE linked # 1
  BY <1>1, <1>3 DEF Left, Indices, Bound
<1> QED BY <1>2, <1>3

\* A symbol that is left and its neighbour.
LEMMA ScanNeighbours ==
  ASSUME ScanInv, NEW i \in Left
  PROVE  /\ i \in Indices /\ symbols[i] \in (0 .. ScanN) \X (0 .. ScanN)
         /\ symbols[i][1] \in 0 .. ScanN /\ symbols[i][2] \in 0 .. ScanN
         /\ symbols[i][1] < symbols[i][2]
         /\ Behind(i) \in 0 .. ScanN /\ i < Behind(i)
         /\ Behind(i) \in Left =>
              /\ symbols[Behind(i)][1] = symbols[i][2]
              /\ symbols[i][2] < ScanN
              /\ <<symbols[i][1], symbols[i][2], symbols[Behind(i)][2]>> \in Triples
         /\ Behind(i) \notin Left => Behind(i) = Bound /\ symbols[i][2] = ScanN
<1>1. i \in Indices /\ Left \subseteq Indices /\ Bound \notin Left /\ Indices \subseteq Nat
  BY LeftUnits
<1>2. \A j \in Left : symbols[j] \in (0 .. ScanN) \X (0 .. ScanN)
  BY <1>1 DEF ScanInv, ScanTypeOK
<1>3. \A j \in Left : symbols[j][1] \in 0 .. ScanN /\ symbols[j][2] \in 0 .. ScanN
  BY <1>2
<1>4. /\ symbols[i][1] < symbols[i][2]
      /\ i < Behind(i)
      /\ \/ Behind(i) \in Left /\ symbols[Behind(i)][1] = symbols[i][2]
         \/ Behind(i) = Bound /\ symbols[i][2] = ScanN
  BY DEF ScanInv, Tiles
<1>5. Behind(i) \in 0 .. ScanN
  <2>1. ScanN \in Nat \ {0} /\ live \in 1 .. ScanN /\ scanNext \in [Indices -> 0 .. ScanN]
    BY DEF ScanInv, Chunk, ScanTypeOK
  <2>2. CASE linked = 1
    BY <1>1, <2>1, <2>2 DEF Behind
  <2>3. CASE linked # 1
    BY <1>1, <2>1, <2>3 DEF Behind, Indices
  <2> QED BY <2>2, <2>3
<1>6. ASSUME Behind(i) \in Left
      PROVE  /\ symbols[Behind(i)][1] = symbols[i][2]
             /\ symbols[i][2] < ScanN
             /\ <<symbols[i][1], symbols[i][2], symbols[Behind(i)][2]>> \in Triples
  <2> DEFINE b == Behind(i)
  <2>1. symbols[b][1] = symbols[i][2] /\ symbols[b][1] < symbols[b][2]
    BY <1>1, <1>4, <1>6 DEF ScanInv, Tiles
  <2>2. symbols[b][1] \in 0 .. ScanN /\ symbols[b][2] \in 0 .. ScanN
    BY <1>3, <1>6
  <2>3. ScanN \in Nat
    BY DEF ScanInv, Chunk
  <2> HIDE DEF b
  <2>4. symbols[i][2] < ScanN
    BY <1>3, <2>1, <2>2, <2>3
  <2>5. <<symbols[i][1], symbols[i][2], symbols[b][2]>> \in Triples
    BY <1>3, <1>4, <2>1, <2>2 DEF Triples
  <2> QED BY <2>1, <2>4, <2>5 DEF b
<1> QED BY <1>1, <1>2, <1>3, <1>4, <1>5, <1>6

\* The symbols that are left start in the order of their indices.
LEMMA Ordered ==
  ASSUME ScanInv, NEW i \in Left, NEW j \in Left, i < j
  PROVE  /\ Behind(i) <= j /\ symbols[i][2] <= symbols[j][1]
         /\ symbols[i][1] < symbols[j][1]
<1>1. Behind(i) <= j /\ symbols[i][2] <= symbols[j][1]
  BY DEF ScanInv, Tiles
<1>2. /\ symbols[i][1] \in Int /\ symbols[i][2] \in Int /\ symbols[j][1] \in Int
      /\ symbols[i][1] < symbols[i][2]
  <2>1. \A k \in Left : symbols[k][1] \in 0 .. ScanN /\ symbols[k][2] \in 0 .. ScanN
    BY ScanNeighbours
  <2>2. symbols[i][1] < symbols[i][2]
    BY ScanNeighbours
  <2> QED BY <2>1, <2>2
<1> QED BY <1>1, <1>2

-----------------------------------------------------------------------------
\* The chunk as it comes in satisfies the invariant.
LEMMA ScanInitInv == Chunk /\ ScanInit => ScanInv
<1> SUFFICES ASSUME Chunk, ScanInit PROVE ScanInv
  OBVIOUS
<1>1. ScanN \in Nat \ {0} /\ ScanMaxRank \in Nat
  BY DEF Chunk
<1>2. \A i \in Indices : symbols[i] = <<i, i + 1>> /\ symbols[i][1] = i /\ symbols[i][2] = i + 1
  BY DEF ScanInit
<1>3. Left = Indices
  <2>1. CASE linked = 1
    <3>1. \A i, j \in Indices : ~(symbols[j][1] < i /\ i < symbols[j][2])
      BY <1>1, <1>2 DEF Indices
    <3> QED BY <2>1, <3>1 DEF Left
  <2>2. CASE linked # 1
    BY <2>2 DEF Left, Indices, ScanInit
  <2> QED BY <2>1, <2>2
<1>4. \A i \in Indices : i + 1 < ScanN => <<i, i + 1, i + 2>> \in Triples
  BY <1>1 DEF Indices, Triples
<1>5. scanRanks \in [Indices -> 0 .. NoRank]
  BY <1>1, <1>4 DEF ScanInit, NoRank
<1>6. ScanTypeOK
  <2>1. symbols \in [Indices -> (0 .. ScanN) \X (0 .. ScanN)]
    BY <1>1 DEF ScanInit, Indices
  <2>2. scanNext \in [Indices -> 0 .. ScanN] /\ scanPrev \in [Indices -> 0 .. ScanN]
    BY <1>1 DEF ScanInit, Indices, NoPrev
  <2>3. live \in 1 .. ScanN /\ scanPhase = "merge" /\ scanCur \in 0 .. ScanN
    BY <1>1 DEF ScanInit
  <2>4. /\ scanOut \in Seq((0 .. ScanN) \X (0 .. ScanN))
        /\ linked \in {0, 1} /\ scanTable \in [Triples -> 0 .. NoRank]
    BY DEF ScanInit
  <2> QED BY <1>5, <2>1, <2>2, <2>3, <2>4 DEF ScanTypeOK
<1>7. Bound = ScanN /\ \A i \in Indices : Behind(i) = i + 1
  BY DEF ScanInit, Bound, Behind
<1>8. Tiles
  <2>1. 0 \in Indices /\ symbols[0][1] = 0
    BY <1>1, <1>2 DEF Indices
  <2>2. ASSUME NEW i \in Indices
        PROVE  /\ symbols[i][1] < symbols[i][2] /\ i < Behind(i)
               /\ \/ Behind(i) \in Indices /\ symbols[Behind(i)][1] = symbols[i][2]
                  \/ Behind(i) = Bound /\ symbols[i][2] = ScanN
               /\ \A j \in Indices : i < j => Behind(i) <= j /\ symbols[i][2] <= symbols[j][1]
    BY <1>1, <1>2, <1>7 DEF Indices
  <2> QED BY <1>3, <2>1, <2>2 DEF Tiles
<1>9. Current
  <2> SUFFICES ASSUME NEW i \in Indices, i + 1 \in Indices
               PROVE  scanRanks[i] = PairRank(symbols[i], symbols[i + 1])
    BY <1>3, <1>7 DEF Current
  <2>1. i + 1 < ScanN /\ i + 1 + 1 = i + 2
    BY <1>1 DEF Indices
  <2>2. scanRanks[i] = scanTable[<<i, i + 1, i + 2>>]
    BY <2>1 DEF ScanInit
  <2> QED BY <1>2, <2>1, <2>2 DEF PairRank
<1>10. Links
  <2>1. scanPrev[0] = ScanN
    BY <1>1 DEF ScanInit, Indices, NoPrev
  <2>2. ASSUME NEW i \in Indices
        PROVE  /\ symbols[i] = <<i, scanNext[i]>>
               /\ scanNext[i] \in Indices => scanPrev[scanNext[i]] = i
               /\ scanNext[i] \notin Indices => scanRanks[i] = NoRank
               /\ i # 0 => scanPrev[i] \in Indices /\ scanNext[scanPrev[i]] = i
    BY <1>1 DEF ScanInit, Indices
  <2> QED BY <1>3, <2>1, <2>2 DEF Links
<1>11. ScanPhaseInv
  BY <1>1, <1>3 DEF ScanInit, ScanPhaseInv, Indices
<1> QED BY <1>6, <1>8, <1>9, <1>10, <1>11 DEF ScanInv

-----------------------------------------------------------------------------
\* What the scan finds is a pair of neighbours, the leftmost of those with the least rank.
LEMMA Scanning ==
  ASSUME ScanInv, NEW i \in Indices, ScanMin(i, Scanned)
  PROVE  /\ i \in Left /\ Behind(i) \in Left /\ scanRanks[i] # NoRank
         /\ \A j \in Left : Behind(j) \in Left =>
              scanRanks[i] < scanRanks[j] \/ (scanRanks[i] = scanRanks[j] /\ i <= j)
<1>1. /\ i \in 0 .. Scanned - 1 /\ scanRanks[i] # NoRank
      /\ \A j \in 0 .. Scanned - 1 : scanRanks[i] < scanRanks[j] \/ (scanRanks[i] = scanRanks[j] /\ i <= j)
  BY DEF ScanMin
<1>2. Left \subseteq Indices /\ ScanN \in Nat \ {0} /\ live \in 1 .. ScanN
  BY LeftUnits DEF ScanInv, Chunk, ScanTypeOK
<1>3. CASE linked = 1
  <2>1. i \in Left /\ scanNext[i] \in Left
    BY <1>1, <1>3 DEF ScanInv, Links
  <2>2. Left \subseteq 0 .. Scanned - 1
    BY <1>2, <1>3 DEF Scanned, Indices
  <2> QED BY <1>1, <1>3, <2>1, <2>2 DEF Behind
<1>4. CASE linked # 1
  <2>1. Left = 0 .. live - 1 /\ Scanned = live - 1 /\ \A j \in Left : Behind(j) = j + 1
    BY <1>4, LeftUnits DEF Scanned, Behind
  <2>2. i \in Left /\ Behind(i) \in Left
    BY <1>1, <1>2, <2>1
  <2>3. \A j \in Left : Behind(j) \in Left => j \in 0 .. Scanned - 1
    BY <1>2, <2>1
  <2> QED BY <1>1, <2>2, <2>3
<1> QED BY <1>3, <1>4

\* When the scan finds nothing, no pair that is left can be merged.
LEMMA NothingScanned ==
  ASSUME ScanInv, \A i \in 0 .. Scanned - 1 : scanRanks[i] = NoRank,
         NEW i \in Left, Behind(i) \in Left
  PROVE  scanRanks[i] = NoRank
<1>1. Left \subseteq Indices /\ ScanN \in Nat \ {0} /\ live \in 1 .. ScanN
  BY LeftUnits DEF ScanInv, Chunk, ScanTypeOK
<1>2. CASE linked = 1
  BY <1>1, <1>2 DEF Scanned, Indices
<1>3. CASE linked # 1
  <2>1. Left = 0 .. live - 1 /\ Behind(i) = i + 1 /\ Scanned = live - 1
    BY <1>3, LeftUnits DEF Behind, Scanned
  <2> QED BY <1>1, <2>1
<1> QED BY <1>2, <1>3

-----------------------------------------------------------------------------
\* What a merge at i of the shifting loop leaves at each index that is left.
LEMMA ShiftEffect ==
  ASSUME ScanInv, MergeShift
  PROVE  /\ linked = 0 /\ live >= 2 /\ live' = live - 1
         /\ \E i \in 0 .. live - 2 :
           /\ ScanMin(i, live - 1)
           /\ symbols' \in [Indices -> (0 .. ScanN) \X (0 .. ScanN)]
           /\ \A j \in 0 .. live - 2 :
                symbols'[j] = IF j < i THEN symbols[j]
                              ELSE IF j = i THEN <<symbols[i][1], symbols[i + 1][2]>>
                              ELSE symbols[j + 1]
           /\ scanRanks' = [j \in Indices |->
                IF j = i THEN IF i + 1 < live - 1 THEN PairRank(symbols'[i], symbols'[i + 1])
                              ELSE NoRank
                ELSE IF j = i - 1 THEN PairRank(symbols'[j], symbols'[i])
                ELSE Shifted(scanRanks, i)[j]]
<1>1. PICK i \in Indices :
       /\ ScanMin(i, live - 1)
       /\ symbols' = [Shifted(symbols, i) EXCEPT ![i] = Result(symbols[i], symbols[i + 1])]
       /\ scanRanks' = [j \in Indices |->
            IF j = i THEN IF i + 1 < live - 1 THEN PairRank(symbols'[i], symbols'[i + 1])
                          ELSE NoRank
            ELSE IF j = i - 1 THEN PairRank(symbols'[j], symbols'[i])
            ELSE Shifted(scanRanks, i)[j]]
  BY DEF MergeShift
<1>2. live \in 1 .. ScanN /\ ScanN \in Nat \ {0} /\ live >= 2 /\ linked = 0 /\ live' = live - 1
  BY DEF ScanInv, ScanTypeOK, Chunk, MergeShift
<1>3. i \in 0 .. live - 2
  BY <1>1, <1>2 DEF ScanMin
<1>4. symbols \in [Indices -> (0 .. ScanN) \X (0 .. ScanN)]
  BY DEF ScanInv, ScanTypeOK
<1> DEFINE g == Shifted(symbols, i)
           r == Result(symbols[i], symbols[i + 1])
<1>5. /\ DOMAIN g = Indices
      /\ \A j \in Indices : g[j] = IF i < j /\ j + 1 < live THEN symbols[j + 1] ELSE symbols[j]
  BY DEF Shifted
<1>6. \A j \in Indices : i < j /\ j + 1 < live => j + 1 \in Indices
  BY <1>2 DEF Indices
<1>7. r = <<symbols[i][1], symbols[i + 1][2]>> /\ r \in (0 .. ScanN) \X (0 .. ScanN)
  <2>1. i \in Indices /\ i + 1 \in Indices
    BY <1>2, <1>3 DEF Indices
  <2>2. symbols[i] \in (0 .. ScanN) \X (0 .. ScanN) /\ symbols[i + 1] \in (0 .. ScanN) \X (0 .. ScanN)
    BY <1>4, <2>1
  <2> QED BY <2>2 DEF Result
<1>8. g \in [Indices -> (0 .. ScanN) \X (0 .. ScanN)]
  <2>1. g = [j \in Indices |-> IF i < j /\ j + 1 < live THEN symbols[j + 1] ELSE symbols[j]]
    BY DEF Shifted
  <2> HIDE DEF g
  <2> QED BY <1>4, <1>6, <2>1
<1> HIDE DEF g, r
<1>9. symbols' = [g EXCEPT ![i] = r]
  BY <1>1 DEF g, r
<1>10. symbols' \in [Indices -> (0 .. ScanN) \X (0 .. ScanN)]
  BY <1>7, <1>8, <1>9
<1>11. ASSUME NEW j \in 0 .. live - 2
       PROVE  symbols'[j] = IF j < i THEN symbols[j]
                            ELSE IF j = i THEN <<symbols[i][1], symbols[i + 1][2]>>
                            ELSE symbols[j + 1]
  <2>1. j \in Indices
    BY <1>2 DEF Indices
  <2>2. CASE j = i
    BY <1>7, <1>8, <1>9, <2>1, <2>2
  <2>3. CASE j # i
    <3>1. symbols'[j] = g[j]
      BY <1>8, <1>9, <2>1, <2>3
    <3> QED BY <1>2, <1>3, <1>5, <2>1, <2>3, <3>1
  <2> QED BY <2>2, <2>3
<1> QED BY <1>1, <1>2, <1>3, <1>10, <1>11

\* A merge of the shifting loop keeps the invariant.
LEMMA ShiftKeeps == ScanInv /\ MergeShift => ScanInv'
<1> SUFFICES ASSUME ScanInv, MergeShift PROVE ScanInv'
  OBVIOUS
<1>1. /\ linked = 0 /\ live >= 2 /\ live' = live - 1 /\ live \in 1 .. ScanN /\ ScanN \in Nat \ {0}
      /\ ScanMaxRank \in Nat
      /\ UNCHANGED <<scanTable, linked, scanNext, scanPrev, scanPhase, scanCur, scanOut>> /\ scanPhase = "merge"
  BY ShiftEffect DEF ScanInv, ScanTypeOK, Chunk, MergeShift
<1>2. PICK i \in 0 .. live - 2 :
           /\ ScanMin(i, live - 1)
           /\ symbols' \in [Indices -> (0 .. ScanN) \X (0 .. ScanN)]
           /\ \A j \in 0 .. live - 2 :
                symbols'[j] = IF j < i THEN symbols[j]
                              ELSE IF j = i THEN <<symbols[i][1], symbols[i + 1][2]>>
                              ELSE symbols[j + 1]
           /\ scanRanks' = [j \in Indices |->
                IF j = i THEN IF i + 1 < live - 1 THEN PairRank(symbols'[i], symbols'[i + 1])
                              ELSE NoRank
                ELSE IF j = i - 1 THEN PairRank(symbols'[j], symbols'[i])
                ELSE Shifted(scanRanks, i)[j]]
  BY ShiftEffect
<1>3. Left = 0 .. live - 1 /\ Left' = 0 .. live - 2 /\ \A j : Behind(j) = j + 1 /\ Behind(j)' = j + 1
  BY <1>1 DEF Left, Behind
<1>4. ASSUME NEW j \in 0 .. live - 1
      PROVE  /\ j \in Indices /\ symbols[j][1] \in 0 .. ScanN /\ symbols[j][2] \in 0 .. ScanN
             /\ symbols[j][1] < symbols[j][2]
             /\ j = live - 1 => symbols[j][2] = ScanN
             /\ j < live - 1 => symbols[j + 1][1] = symbols[j][2]
             /\ \A k \in 0 .. live - 1 : j < k => symbols[j][2] <= symbols[k][1]
  <2>1. j \in Left /\ (j < live - 1 => j + 1 \in Left) /\ (j = live - 1 => j + 1 \notin Left)
    BY <1>1, <1>3
  <2>2. /\ j \in Indices /\ symbols[j][1] \in 0 .. ScanN /\ symbols[j][2] \in 0 .. ScanN
        /\ symbols[j][1] < symbols[j][2]
        /\ j + 1 \in Left => symbols[j + 1][1] = symbols[j][2]
        /\ j + 1 \notin Left => symbols[j][2] = ScanN
    BY <1>3, <2>1, ScanNeighbours
  <2>3. \A k \in Left : j < k => symbols[j][2] <= symbols[k][1]
    BY <2>1, Ordered
  <2> QED BY <1>3, <2>1, <2>2, <2>3
<1>5. symbols[0][1] = 0
  BY DEF ScanInv, Tiles
\* Where each symbol comes from.
<1>6. ASSUME NEW j \in 0 .. live - 2
      PROVE  /\ symbols'[j][1] = IF j <= i THEN symbols[j][1] ELSE symbols[j + 1][1]
             /\ symbols'[j][2] = IF j < i THEN symbols[j][2] ELSE symbols[j + 1][2]
  BY <1>2
<1>7. ASSUME NEW j \in 0 .. live - 2
      PROVE  /\ symbols'[j][1] \in 0 .. ScanN /\ symbols'[j][2] \in 0 .. ScanN
             /\ symbols'[j][1] < symbols'[j][2]
             /\ j = live - 2 => symbols'[j][2] = ScanN
             /\ j < live - 2 => symbols'[j + 1][1] = symbols'[j][2]
             /\ \A k \in 0 .. live - 2 : j < k => symbols'[j][2] <= symbols'[k][1]
  <2>1. j \in 0 .. live - 1 /\ j + 1 \in 0 .. live - 1
    BY <1>1
  <2>2. /\ symbols'[j][1] \in 0 .. ScanN /\ symbols'[j][2] \in 0 .. ScanN
        /\ symbols'[j][1] < symbols'[j][2]
    <3>1. CASE j < i
      BY <1>4, <1>6, <2>1, <3>1
    <3>2. CASE j = i
      <4>1. symbols[j][1] < symbols[j][2] /\ symbols[j + 1][1] = symbols[j][2]
            /\ symbols[j][1] \in 0 .. ScanN /\ symbols[j][2] \in 0 .. ScanN
        BY <1>1, <1>4, <2>1
      <4>2. symbols[j + 1][1] < symbols[j + 1][2] /\ symbols[j + 1][2] \in 0 .. ScanN
        BY <1>4, <2>1
      <4>3. symbols'[j][1] = symbols[j][1] /\ symbols'[j][2] = symbols[j + 1][2]
        BY <1>6, <3>2
      <4> QED BY <1>1, <4>1, <4>2, <4>3
    <3>3. CASE j > i
      <4>1. symbols'[j][1] = symbols[j + 1][1] /\ symbols'[j][2] = symbols[j + 1][2]
        BY <1>2, <1>6, <3>3
      <4> QED BY <1>4, <2>1, <4>1
    <3> QED BY <1>1, <1>2, <3>1, <3>2, <3>3
  <2>3. j = live - 2 => symbols'[j][2] = ScanN
    <3>1. j = live - 2 => symbols'[j][2] = symbols[j + 1][2] /\ j + 1 = live - 1
      BY <1>1, <1>2, <1>6
    <3> QED BY <1>4, <2>1, <3>1
  <2>4. ASSUME j < live - 2 PROVE symbols'[j + 1][1] = symbols'[j][2]
    <3>1. j + 1 \in 0 .. live - 2 /\ j + 2 \in 0 .. live - 1 /\ (j + 1) + 1 = j + 2
      BY <1>1, <2>4
    <3>2. symbols'[j + 1][1] = IF j + 1 <= i THEN symbols[j + 1][1] ELSE symbols[j + 2][1]
      BY <1>6, <3>1
    <3>3. symbols[j + 1][1] = symbols[j][2]
      BY <1>1, <1>4, <2>1
    <3>4. symbols[j + 2][1] = symbols[j + 1][2]
      <4>1. j + 1 < live - 1
        BY <1>1, <2>4
      <4> QED BY <1>4, <2>1, <3>1, <4>1
    <3> QED BY <1>1, <1>2, <1>6, <3>2, <3>3, <3>4
  <2>5. ASSUME NEW k \in 0 .. live - 2, j < k PROVE symbols'[j][2] <= symbols'[k][1]
    <3>1. k \in 0 .. live - 1 /\ k + 1 \in 0 .. live - 1
      BY <1>1
    <3>2. symbols[j][2] <= symbols[k][1] /\ symbols[j][2] <= symbols[k + 1][1]
          /\ symbols[j + 1][2] <= symbols[k + 1][1]
      BY <1>1, <1>4, <2>1, <2>5, <3>1
    <3> QED BY <1>1, <1>2, <1>6, <2>5, <3>2
  <2> QED BY <2>2, <2>3, <2>4, <2>5
\* The ranks.
<1>8. \A j \in 0 .. live - 3 :
        PairRank(symbols'[j], symbols'[j + 1])
           = scanTable[<<symbols'[j][1], symbols'[j][2], symbols'[j + 1][2]>>]
        /\ <<symbols'[j][1], symbols'[j][2], symbols'[j + 1][2]>> \in Triples
  <2> TAKE j \in 0 .. live - 3
  <2>1. j \in 0 .. live - 2 /\ j + 1 \in 0 .. live - 2 /\ j < live - 2
    BY <1>1
  <2>2. /\ symbols'[j][1] \in 0 .. ScanN /\ symbols'[j][2] \in 0 .. ScanN
        /\ symbols'[j][1] < symbols'[j][2]
        /\ symbols'[j + 1][1] = symbols'[j][2]
    BY <1>7, <2>1
  <2>3. symbols'[j + 1][2] \in 0 .. ScanN /\ symbols'[j + 1][1] < symbols'[j + 1][2]
    BY <1>7, <2>1
  <2> QED BY <2>2, <2>3 DEF PairRank, Triples
<1>9. \A j \in 0 .. live - 3 : PairRank(symbols'[j], symbols'[j + 1]) \in 0 .. NoRank
  BY <1>8 DEF ScanInv, ScanTypeOK
<1>10. scanRanks \in [Indices -> 0 .. NoRank]
  BY DEF ScanInv, ScanTypeOK
<1>11. scanRanks' \in [Indices -> 0 .. NoRank]
  <2> SUFFICES ASSUME NEW j \in Indices PROVE scanRanks'[j] \in 0 .. NoRank
    BY <1>2
  <2>1. CASE j = i
    <3>1. scanRanks'[j] = IF i + 1 < live - 1 THEN PairRank(symbols'[i], symbols'[i + 1]) ELSE NoRank
      BY <1>2, <2>1
    <3>2. i + 1 < live - 1 => i \in 0 .. live - 3
      BY <1>1
    <3>3. NoRank \in 0 .. NoRank
      BY <1>1 DEF NoRank
    <3> QED BY <1>9, <3>1, <3>2, <3>3
  <2>2. CASE j = i - 1
    <3>1. scanRanks'[j] = PairRank(symbols'[j], symbols'[i])
      BY <1>1, <1>2, <2>2
    <3>2. j \in 0 .. live - 3 /\ i = j + 1
      BY <1>1, <2>2 DEF Indices
    <3> QED BY <1>9, <3>1, <3>2
  <2>3. CASE j # i /\ j # i - 1
    <3>1. scanRanks'[j] = IF i < j /\ j + 1 < live THEN scanRanks[j + 1] ELSE scanRanks[j]
      BY <1>2, <2>3 DEF Shifted
    <3>2. j + 1 < live => j + 1 \in Indices
      BY <1>1 DEF Indices
    <3> QED BY <1>10, <3>1, <3>2
  <2> QED BY <2>1, <2>2, <2>3
<1>12. ScanTypeOK'
  <2>1. live' \in 1 .. ScanN
    BY <1>1
  <2>2. /\ scanTable' \in [Triples -> 0 .. NoRank] /\ linked' \in {0, 1}
        /\ scanNext' \in [Indices -> 0 .. ScanN] /\ scanPrev' \in [Indices -> 0 .. ScanN]
        /\ scanPhase' \in {"merge", "emit", "done"} /\ scanCur' \in 0 .. ScanN
        /\ scanOut' \in Seq((0 .. ScanN) \X (0 .. ScanN))
    BY <1>1 DEF ScanInv, ScanTypeOK
  <2> QED BY <1>2, <1>11, <2>1, <2>2 DEF ScanTypeOK
<1>13. Tiles'
  <2>1. 0 \in Left' /\ symbols'[0][1] = 0
    <3>1. 0 \in 0 .. live - 2 /\ 0 <= i
      BY <1>1
    <3> QED BY <1>3, <1>5, <1>6, <3>1
  <2>2. Bound' = live - 1
    BY <1>1 DEF Bound
  <2>3. ASSUME NEW j \in 0 .. live - 2
        PROVE  /\ symbols'[j][1] < symbols'[j][2]
               /\ j < j + 1
               /\ \/ j + 1 \in 0 .. live - 2 /\ symbols'[j + 1][1] = symbols'[j][2]
                  \/ j + 1 = live - 1 /\ symbols'[j][2] = ScanN
               /\ \A k \in 0 .. live - 2 : j < k => j + 1 <= k /\ symbols'[j][2] <= symbols'[k][1]
    BY <1>1, <1>7
  <2> QED BY <1>3, <2>1, <2>2, <2>3 DEF Tiles
<1>14. ASSUME NEW j \in 0 .. live - 3
       PROVE  scanRanks'[j] = PairRank(symbols'[j], symbols'[j + 1])
  <2>1. j \in Indices /\ j \in 0 .. live - 2 /\ j + 1 \in 0 .. live - 2 /\ j + 2 \in 0 .. live - 1
        /\ j + 1 \in Left /\ j \in Left
    BY <1>1, <1>3 DEF Indices
  <2>2. CASE j = i
    BY <1>1, <1>2, <2>1, <2>2
  <2>3. CASE j = i - 1
    <3>1. i = j + 1 /\ j # i
      BY <1>1, <2>3
    <3> QED BY <1>2, <2>1, <2>3, <3>1
  <2>4. CASE j < i - 1
    <3>1. scanRanks'[j] = scanRanks[j]
      BY <1>1, <1>2, <2>1, <2>4 DEF Shifted
    <3>2. scanRanks[j] = PairRank(symbols[j], symbols[j + 1])
      BY <1>3, <2>1 DEF ScanInv, Current
    <3>3. symbols'[j] = symbols[j] /\ symbols'[j + 1] = symbols[j + 1]
      BY <1>1, <1>2, <2>1, <2>4
    <3> QED BY <3>1, <3>2, <3>3
  <2>5. CASE j > i
    <3>1. scanRanks'[j] = scanRanks[j + 1]
      BY <1>1, <1>2, <2>1, <2>5 DEF Shifted
    <3>2. scanRanks[j + 1] = PairRank(symbols[j + 1], symbols[j + 2])
      <4>1. j + 2 \in Left /\ Behind(j + 1) = j + 2
        BY <1>1, <1>3, <2>1
      <4> QED BY <2>1, <4>1 DEF ScanInv, Current
    <3>3. symbols'[j] = symbols[j + 1] /\ symbols'[j + 1] = symbols[j + 2]
      <4>1. j + 1 > i /\ (j + 1) + 1 = j + 2
        BY <1>1, <2>5
      <4> QED BY <1>1, <1>2, <2>1, <2>5, <4>1
    <3> QED BY <3>1, <3>2, <3>3
  <2> QED BY <1>1, <2>2, <2>3, <2>4, <2>5
<1>15. Current'
  <2> SUFFICES ASSUME NEW j \in Left', (Behind(j) \in Left)'
               PROVE  (scanRanks[j] = PairRank(symbols[j], symbols[Behind(j)]))'
    BY DEF Current
  <2>1. j \in 0 .. live - 3 /\ Behind(j)' = j + 1
    BY <1>1, <1>3
  <2>2. scanRanks'[j] = PairRank(symbols'[j], symbols'[j + 1])
    BY <1>14, <2>1
  <2> QED BY <1>1, <2>1, <2>2 DEF PairRank
<1>16. Links'
  BY <1>1 DEF Links
<1>17. ScanPhaseInv'
  BY <1>1, <1>3 DEF ScanInv, ScanPhaseInv
<1> QED BY <1>1, <1>12, <1>13, <1>15, <1>16, <1>17 DEF ScanInv, Chunk

\* What a merge of the shifting loop does to the chunk: the symbol behind i is gone, the
\* others start where they did.
LEMMA ShiftStarts ==
  ASSUME ScanInv, MergeShift
  PROVE  \E i \in Indices :
           /\ ScanMin(i, Scanned)
           /\ {symbols[j][1] : j \in Left}' =
                {symbols[j][1] : j \in Left} \ {symbols[Behind(i)][1]}
<1>1. /\ linked = 0 /\ live' = live - 1 /\ live \in 1 .. ScanN /\ ScanN \in Nat \ {0} /\ live >= 2
      /\ linked' = linked
  BY ShiftEffect DEF ScanInv, ScanTypeOK, Chunk, MergeShift
<1>2. PICK i \in 0 .. live - 2 :
           /\ ScanMin(i, live - 1)
           /\ \A j \in 0 .. live - 2 :
                symbols'[j] = IF j < i THEN symbols[j]
                              ELSE IF j = i THEN <<symbols[i][1], symbols[i + 1][2]>>
                              ELSE symbols[j + 1]
  BY ShiftEffect
<1>3. Left = 0 .. live - 1 /\ Left' = 0 .. live - 2 /\ Behind(i) = i + 1 /\ Scanned = live - 1
      /\ i \in Indices
  BY <1>1 DEF Left, Behind, Scanned, Indices
<1>4. \A j \in 0 .. live - 2 :
        symbols'[j][1] = IF j <= i THEN symbols[j][1] ELSE symbols[j + 1][1]
  BY <1>2
<1>5. \A j \in 0 .. live - 1 : j # i + 1 => symbols[j][1] # symbols[i + 1][1]
  <2> TAKE j \in 0 .. live - 1
  <2>1. \A k \in Left : symbols[k][1] \in 0 .. ScanN
    BY ScanNeighbours
  <2>2. i + 1 \in Left /\ j \in Left
    BY <1>1, <1>3
  <2>3. CASE j < i + 1
    BY <1>1, <2>1, <2>2, <2>3, Ordered
  <2>4. CASE i + 1 < j
    BY <1>1, <2>1, <2>2, <2>4, Ordered
  <2> QED BY <1>1, <2>3, <2>4
<1> DEFINE S == {symbols[j][1] : j \in 0 .. live - 1}
           T == {symbols'[j][1] : j \in 0 .. live - 2}
<1>6. ASSUME NEW x \in T PROVE x \in S \ {symbols[i + 1][1]}
  <2>1. PICK j \in 0 .. live - 2 : x = symbols'[j][1]
    OBVIOUS
  <2>2. CASE j <= i
    <3>1. x = symbols[j][1] /\ j \in 0 .. live - 1 /\ j # i + 1
      BY <1>1, <1>4, <2>1, <2>2
    <3> QED BY <1>5, <3>1
  <2>3. CASE j > i
    <3>1. x = symbols[j + 1][1] /\ j + 1 \in 0 .. live - 1 /\ j + 1 # i + 1
      BY <1>1, <1>4, <2>1, <2>3
    <3> QED BY <1>5, <3>1
  <2> QED BY <1>1, <2>2, <2>3
<1>7. ASSUME NEW x \in S, x # symbols[i + 1][1] PROVE x \in T
  <2>1. PICK j \in 0 .. live - 1 : x = symbols[j][1]
    OBVIOUS
  <2>2. j # i + 1
    BY <1>7, <2>1
  <2>3. CASE j <= i
    <3>1. j \in 0 .. live - 2 /\ x = symbols'[j][1]
      BY <1>1, <1>4, <2>1, <2>3
    <3> QED BY <3>1
  <2>4. CASE j > i + 1
    <3>1. j - 1 \in 0 .. live - 2 /\ j - 1 > i /\ (j - 1) + 1 = j
      BY <1>1, <2>4
    <3>2. x = symbols'[j - 1][1]
      BY <1>1, <1>4, <2>1, <3>1
    <3> QED BY <3>1, <3>2
  <2> QED BY <1>1, <2>2, <2>3, <2>4
<1>8. T = S \ {symbols[i + 1][1]}
  <2> HIDE DEF S, T
  <2> QED BY <1>6, <1>7
<1>9. {symbols[j][1] : j \in Left} = S /\ {symbols[j][1] : j \in Left}' = T
  BY <1>3
<1> QED BY <1>2, <1>3, <1>8, <1>9

-----------------------------------------------------------------------------
\* What a merge at i of the linked loop leaves.
LEMMA LinkEffect ==
  ASSUME ScanInv, MergeLink
  PROVE  /\ linked = 1
         /\ \E i \in Left :
           /\ ScanMin(i, ScanN) /\ scanNext[i] \in Left
           /\ Left' = Left \ {scanNext[i]}
           /\ symbols' = [symbols EXCEPT ![i] = <<i, scanNext[scanNext[i]]>>]
           /\ scanNext' = [scanNext EXCEPT ![i] = scanNext[scanNext[i]]]
           /\ scanPrev' = Backlink(i, scanNext[scanNext[i]])
           /\ scanRanks' = RanksAfter(i, scanNext[i],
                IF scanNext[scanNext[i]] < ScanN THEN PairRank(<<i, scanNext[scanNext[i]]>>, symbols[scanNext[scanNext[i]]])
                ELSE NoRank,
                IF scanPrev[i] < ScanN THEN PairRank(symbols[scanPrev[i]], <<i, scanNext[scanNext[i]]>>)
                ELSE NoRank)
<1>1. linked = 1 /\ linked' = 1 /\ ScanN \in Nat \ {0}
  BY DEF MergeLink, ScanInv, Chunk
<1>2. PICK i \in Indices :
       LET dead  == scanNext[i]
           made  == Result(symbols[i], symbols[dead])
           right == scanNext[dead]
           left  == scanPrev[i]
       IN  /\ ScanMin(i, ScanN)
           /\ dead < ScanN
           /\ symbols' = [symbols EXCEPT ![i] = made]
           /\ scanNext' = [scanNext EXCEPT ![i] = right]
           /\ scanPrev' = Backlink(i, right)
           /\ scanRanks' = RanksAfter(i, dead,
                         IF right < ScanN THEN PairRank(made, symbols[right]) ELSE NoRank,
                         IF left < ScanN THEN PairRank(symbols[left], made) ELSE NoRank)
  BY DEF MergeLink
<1>3. i \in Left /\ scanNext[i] \in Left
  BY <1>1, <1>2, Scanning DEF Scanned, Behind
<1> DEFINE b == scanNext[i]
<1>4. symbols[i] = <<i, b>> /\ symbols[b] = <<b, scanNext[b]>>
  BY <1>1, <1>3 DEF ScanInv, Links
<1>5. Result(symbols[i], symbols[b]) = <<i, scanNext[b]>>
  BY <1>4 DEF Result
<1>6. symbols' = [symbols EXCEPT ![i] = <<i, scanNext[b]>>]
  BY <1>2, <1>5
<1>7. /\ Left \subseteq Indices /\ i < b /\ b < scanNext[b] /\ scanNext[b] \in 0 .. ScanN
      /\ \A j \in Indices : j \in Nat
  <2>1. Behind(i) = b /\ Behind(b) = scanNext[b]
    BY <1>1 DEF Behind
  <2> QED BY <1>3, <2>1, LeftUnits, ScanNeighbours
<1>8. DOMAIN symbols = Indices
  BY DEF ScanInv, ScanTypeOK
<1> HIDE DEF b
<1>9. ASSUME NEW j \in Indices PROVE j \in Left' <=> j \in Left /\ j # b
  <2>1. j \in Left <=> \A k \in Indices : ~(symbols[k][1] < j /\ j < symbols[k][2])
    BY <1>1 DEF Left
  <2>2. j \in Left' <=> \A k \in Indices : ~(symbols'[k][1] < j /\ j < symbols'[k][2])
    BY <1>1 DEF Left
  <2>3. \A k \in Indices : symbols'[k] = IF k = i THEN <<i, scanNext[b]>> ELSE symbols[k]
    BY <1>6, <1>8
  <2>7. i \in Indices /\ b \in Indices
    BY <1>3, <1>7 DEF b
  <2>4. i < j /\ j < scanNext[b] <=> (i < j /\ j < b) \/ j = b \/ (b < j /\ j < scanNext[b])
    BY <1>1, <1>7, <2>7
  <2>5. symbols[i][1] = i /\ symbols[i][2] = b /\ symbols[b][1] = b /\ symbols[b][2] = scanNext[b]
    BY <1>4
  <2>6. symbols'[i][1] = i /\ symbols'[i][2] = scanNext[b]
    BY <2>3
  <2>8. ASSUME j \in Left' PROVE j \in Left /\ j # b
    <3>1. ~(i < j /\ j < scanNext[b])
      BY <2>2, <2>6, <2>7, <2>8
    <3>2. \A k \in Indices : ~(symbols[k][1] < j /\ j < symbols[k][2])
      <4> TAKE k \in Indices
      <4>1. CASE k = i
        BY <2>4, <2>5, <3>1, <4>1
      <4>2. CASE k # i
        BY <2>2, <2>3, <2>8, <4>2
      <4> QED BY <4>1, <4>2
    <3> QED BY <2>1, <2>4, <3>1, <3>2
  <2>9. ASSUME j \in Left, j # b PROVE j \in Left'
    <3>1. ~(i < j /\ j < b) /\ ~(b < j /\ j < scanNext[b])
      BY <2>1, <2>5, <2>7, <2>9
    <3>2. \A k \in Indices : ~(symbols'[k][1] < j /\ j < symbols'[k][2])
      <4> TAKE k \in Indices
      <4>1. CASE k = i
        BY <2>4, <2>6, <2>9, <3>1, <4>1
      <4>2. CASE k # i
        BY <2>1, <2>3, <2>9, <4>2
      <4> QED BY <4>1, <4>2
    <3> QED BY <2>2, <3>2
  <2> QED BY <2>8, <2>9
<1>10. Left' = Left \ {b}
  <2>1. Left' \subseteq Indices
    BY <1>1 DEF Left
  <2> QED BY <1>7, <1>9, <2>1
<1>11. /\ ScanMin(i, ScanN) /\ scanNext' = [scanNext EXCEPT ![i] = scanNext[b]]
       /\ scanPrev' = Backlink(i, scanNext[b])
       /\ scanRanks' = RanksAfter(i, b,
            IF scanNext[b] < ScanN THEN PairRank(<<i, scanNext[b]>>, symbols[scanNext[b]]) ELSE NoRank,
            IF scanPrev[i] < ScanN THEN PairRank(symbols[scanPrev[i]], <<i, scanNext[b]>>) ELSE NoRank)
  BY <1>2, <1>5 DEF b
<1>12. b = scanNext[i]
  BY DEF b
<1> QED BY <1>1, <1>3, <1>6, <1>10, <1>11, <1>12

\* A merge of the linked loop keeps the invariant.
LEMMA LinkKeeps == ScanInv /\ MergeLink => ScanInv'
<1> SUFFICES ASSUME ScanInv, MergeLink PROVE ScanInv'
  OBVIOUS
<1>1. /\ linked = 1 /\ ScanN \in Nat \ {0} /\ ScanMaxRank \in Nat /\ scanPhase = "merge"
      /\ UNCHANGED <<scanTable, linked, live, scanPhase, scanCur, scanOut>>
  BY DEF MergeLink, ScanInv, Chunk
<1>2. PICK i \in Left :
           /\ ScanMin(i, ScanN) /\ scanNext[i] \in Left
           /\ Left' = Left \ {scanNext[i]}
           /\ symbols' = [symbols EXCEPT ![i] = <<i, scanNext[scanNext[i]]>>]
           /\ scanNext' = [scanNext EXCEPT ![i] = scanNext[scanNext[i]]]
           /\ scanPrev' = Backlink(i, scanNext[scanNext[i]])
           /\ scanRanks' = RanksAfter(i, scanNext[i],
                IF scanNext[scanNext[i]] < ScanN THEN PairRank(<<i, scanNext[scanNext[i]]>>, symbols[scanNext[scanNext[i]]])
                ELSE NoRank,
                IF scanPrev[i] < ScanN THEN PairRank(symbols[scanPrev[i]], <<i, scanNext[scanNext[i]]>>)
                ELSE NoRank)
  BY LinkEffect
<1> DEFINE b == scanNext[i]
           c == scanNext[b]
           right == IF c < ScanN THEN PairRank(<<i, c>>, symbols[c]) ELSE NoRank
           left == IF scanPrev[i] < ScanN THEN PairRank(symbols[scanPrev[i]], <<i, c>>) ELSE NoRank
<1>3. /\ b \in Left /\ Left' = Left \ {b} /\ symbols' = [symbols EXCEPT ![i] = <<i, c>>]
      /\ scanNext' = [scanNext EXCEPT ![i] = c] /\ scanPrev' = Backlink(i, c)
      /\ scanRanks' = RanksAfter(i, b, right, left)
  BY <1>2
<1> HIDE DEF right, left
\* The list before the merge.
<1>4. ASSUME NEW j \in Left
      PROVE  /\ j \in Indices /\ j \in Nat /\ j < ScanN /\ symbols[j] = <<j, scanNext[j]>>
             /\ scanNext[j] \in 0 .. ScanN /\ j < scanNext[j]
             /\ scanNext[j] \in Left \/ scanNext[j] = ScanN
             /\ scanNext[j] \in Left => scanPrev[scanNext[j]] = j
             /\ scanNext[j] \notin Left => scanRanks[j] = NoRank
             /\ j # 0 => scanPrev[j] \in Left /\ scanNext[scanPrev[j]] = j
             /\ \A k \in Left : j < k => scanNext[j] <= k
  <2>1. Behind(j) = scanNext[j] /\ Bound = ScanN
    BY <1>1 DEF Behind, Bound
  <2>2. /\ j \in Indices /\ scanNext[j] \in 0 .. ScanN /\ j < scanNext[j]
        /\ (scanNext[j] \in Left \/ scanNext[j] = ScanN)
    BY <2>1, ScanNeighbours
  <2>3. j \in Nat /\ j < ScanN
    BY <1>1, <2>2 DEF Indices
  <2>4. /\ symbols[j] = <<j, scanNext[j]>>
        /\ scanNext[j] \in Left => scanPrev[scanNext[j]] = j
        /\ scanNext[j] \notin Left => scanRanks[j] = NoRank
        /\ j # 0 => scanPrev[j] \in Left /\ scanNext[scanPrev[j]] = j
    BY <1>1 DEF ScanInv, Links
  <2>5. \A k \in Left : j < k => scanNext[j] <= k
    BY <2>1, Ordered
  <2> QED BY <2>2, <2>3, <2>4, <2>5
<1>5. /\ i < b /\ b < c /\ c \in 0 .. ScanN
      /\ c \in Left \/ c = ScanN
      /\ i \in Nat /\ b \in Nat /\ c \in Nat /\ b < ScanN
  <2>1. c \in Nat
    BY <1>1, <1>3, <1>4
  <2> QED BY <1>3, <1>4, <2>1
<1>6. /\ ScanN \notin Left /\ (c < ScanN => c \in Left)
      /\ (c \in Left => c < ScanN) /\ (c \notin Left => c = ScanN)
  <2>1. ScanN \notin Left
    BY <1>1, <1>4
  <2> QED BY <1>1, <1>4, <1>5, <2>1
<1>7. scanPrev[0] = ScanN /\ \A j \in Indices \ Left : scanRanks[j] = NoRank
  BY <1>1 DEF ScanInv, Links
<1>8. \A j \in Left : scanNext[j] = b => j = i
  BY <1>3, <1>4
<1>9. /\ symbols \in [Indices -> (0 .. ScanN) \X (0 .. ScanN)] /\ scanNext \in [Indices -> 0 .. ScanN]
      /\ scanPrev \in [Indices -> 0 .. ScanN] /\ scanRanks \in [Indices -> 0 .. NoRank]
      /\ scanTable \in [Triples -> 0 .. NoRank]
  BY DEF ScanInv, ScanTypeOK
<1> HIDE DEF b, c
\* The list after it.
<1>10. ASSUME NEW j \in Left
       PROVE  /\ symbols'[j] = IF j = i THEN <<i, c>> ELSE symbols[j]
              /\ scanNext'[j] = IF j = i THEN c ELSE scanNext[j]
              /\ symbols'[j] = <<j, scanNext'[j]>>
  <2>1. j \in Indices /\ symbols[j] = <<j, scanNext[j]>>
    BY <1>4
  <2> QED BY <1>3, <1>9, <2>1
<1>11. \A j \in Indices : scanPrev'[j] = IF j = c THEN i ELSE scanPrev[j]
  <2>1. CASE c < ScanN
    BY <1>3, <1>9, <2>1 DEF Backlink
  <2>2. CASE ~(c < ScanN)
    <3>1. c \notin Indices
      BY <1>1, <1>5, <2>2 DEF Indices
    <3> QED BY <1>3, <2>2, <3>1 DEF Backlink
  <2> QED BY <2>1, <2>2
<1>12. \A j \in Indices : scanRanks'[j] = IF j = b THEN NoRank ELSE IF j = i THEN right
                                     ELSE IF j = scanPrev[i] THEN left ELSE scanRanks[j]
  BY <1>3 DEF RanksAfter
<1>13. ASSUME NEW j \in Left, j # b
       PROVE  /\ j < scanNext'[j] /\ scanNext'[j] \in 0 .. ScanN
              /\ scanNext'[j] \in Left \/ scanNext'[j] = ScanN
              /\ scanNext'[j] # b
              /\ \A k \in Left : k # b /\ j < k => scanNext'[j] <= k
  <2>1. CASE j = i
    <3>1. scanNext'[j] = c
      BY <1>10, <2>1
    <3>2. ASSUME NEW k \in Left, k # b, i < k PROVE c <= k
      <4>1. b <= k
        BY <1>4, <3>2 DEF b
      <4>2. b < k
        BY <1>4, <1>5, <3>2, <4>1
      <4> QED BY <1>3, <1>4, <4>2 DEF c
    <3> QED BY <1>5, <1>6, <2>1, <3>1, <3>2
  <2>2. CASE j # i
    <3>1. scanNext'[j] = scanNext[j] /\ scanNext[j] # b
      BY <1>8, <1>10, <2>2
    <3> QED BY <1>4, <3>1
  <2> QED BY <2>1, <2>2
<1>14. Tiles'
  <2>1. 0 \in Left' /\ symbols'[0][1] = 0
    <3>1. 0 \in Left /\ 0 # b
      BY <1>5 DEF ScanInv, Tiles
    <3> QED BY <1>3, <1>10, <3>1
  <2>2. Bound' = ScanN /\ \A j : Behind(j)' = scanNext'[j]
    BY <1>1 DEF Bound, Behind
  <2>3. ASSUME NEW j \in Left'
        PROVE  /\ symbols'[j][1] < symbols'[j][2] /\ j < scanNext'[j]
               /\ \/ scanNext'[j] \in Left' /\ symbols'[scanNext'[j]][1] = symbols'[j][2]
                  \/ scanNext'[j] = ScanN /\ symbols'[j][2] = ScanN
               /\ \A k \in Left' : j < k => scanNext'[j] <= k /\ symbols'[j][2] <= symbols'[k][1]
    <3>1. j \in Left /\ j # b
      BY <1>3
    <3>2. symbols'[j][1] = j /\ symbols'[j][2] = scanNext'[j] /\ \A k \in Left : symbols'[k][1] = k
      BY <1>10, <3>1
    <3> QED BY <1>3, <1>13, <3>1, <3>2
  <2> QED BY <2>1, <2>2, <2>3 DEF Tiles
<1>15. scanPrev[i] = ScanN \/ (scanPrev[i] \in Left /\ scanNext[scanPrev[i]] = i /\ scanPrev[i] < i)
  <2>1. CASE i = 0
    BY <1>7, <2>1
  <2>2. CASE i # 0
    BY <1>4, <2>2
  <2> QED BY <2>1, <2>2
<1>16. Links'
  <2>1. scanPrev'[0] = ScanN
    <3>1. 0 \in Indices /\ c # 0
      BY <1>1, <1>5 DEF Indices
    <3> QED BY <1>7, <1>11, <3>1
  <2>2. ASSUME NEW j \in Left, j # b, scanNext'[j] \in Left PROVE scanPrev'[scanNext'[j]] = j
    <3>1. CASE j = i
      BY <1>4, <1>10, <1>11, <2>2, <3>1
    <3>2. CASE j # i
      <4>1. /\ scanNext'[j] = scanNext[j] /\ scanPrev[scanNext[j]] = j
            /\ scanNext[j] \in Left /\ scanNext[j] \in Indices
        BY <1>4, <1>10, <2>2, <3>2
      <4>2. scanNext[j] # c
        BY <1>3, <1>4, <2>2, <4>1 DEF c
      <4> QED BY <1>11, <4>1, <4>2
    <3> QED BY <3>1, <3>2
  <2>3. ASSUME NEW j \in Left, j # b, scanNext'[j] \notin Left' PROVE scanRanks'[j] = NoRank
    <3>1. scanNext'[j] \notin Left
      BY <1>3, <1>13, <2>3
    <3>2. CASE j = i
      <4>1. c \notin Left
        BY <1>10, <3>1, <3>2
      <4>2. right = NoRank
        BY <1>6, <4>1 DEF right
      <4> QED BY <1>4, <1>12, <2>3, <3>2, <4>2
    <3>3. CASE j # i
      <4>1. scanNext[j] \notin Left
        BY <1>10, <3>1, <3>3
      <4>2. scanRanks[j] = NoRank /\ j \in Indices
        BY <1>4, <4>1
      <4>3. j # scanPrev[i]
        <5>1. j # ScanN
          BY <1>6
        <5> QED BY <1>2, <1>15, <4>1, <5>1
      <4> QED BY <1>12, <2>3, <3>3, <4>2, <4>3
    <3> QED BY <3>2, <3>3
  <2>4. ASSUME NEW j \in Left, j # b, j # 0
        PROVE  scanPrev'[j] \in Left' /\ scanNext'[scanPrev'[j]] = j
    <3>1. j \in Indices /\ scanPrev[j] \in Left /\ scanNext[scanPrev[j]] = j
      BY <1>4, <2>4
    <3>2. CASE j = c
      <4>1. scanPrev'[j] = i
        BY <1>11, <3>1, <3>2
      <4>2. i # b
        BY <1>5
      <4> QED BY <1>2, <1>3, <1>10, <3>2, <4>1, <4>2
    <3>3. CASE j # c
      <4>1. scanPrev'[j] = scanPrev[j]
        BY <1>11, <3>1, <3>3
      <4>2. scanPrev[j] # b
        BY <3>1, <3>3 DEF c
      <4>3. scanPrev[j] # i
        BY <2>4, <3>1 DEF b
      <4> QED BY <1>3, <1>10, <3>1, <4>1, <4>2, <4>3
    <3> QED BY <3>2, <3>3
  <2>5. ASSUME NEW j \in Indices, j \notin Left' PROVE scanRanks'[j] = NoRank
    <3>1. CASE j = b
      BY <1>12, <3>1
    <3>2. CASE j # b
      <4>1. j \notin Left
        BY <1>3, <2>5, <3>2
      <4>2. j # i /\ j # scanPrev[i] /\ scanRanks[j] = NoRank
        <5>1. j # ScanN
          BY <1>1 DEF Indices
        <5> QED BY <1>2, <1>7, <1>15, <4>1, <5>1
      <4> QED BY <1>12, <3>2, <4>2
    <3> QED BY <3>1, <3>2
  <2>6. \A j \in Left' : /\ symbols'[j] = <<j, scanNext'[j]>>
                         /\ scanNext'[j] \in Left' => scanPrev'[scanNext'[j]] = j
                         /\ scanNext'[j] \notin Left' => scanRanks'[j] = NoRank
                         /\ j # 0 => scanPrev'[j] \in Left' /\ scanNext'[scanPrev'[j]] = j
    BY <1>3, <1>10, <2>2, <2>3, <2>4
  <2> QED BY <2>1, <2>5, <2>6 DEF Links
<1>17. Current'
  <2> SUFFICES ASSUME NEW j \in Left', scanNext'[j] \in Left'
               PROVE  scanRanks'[j] = PairRank(symbols'[j], symbols'[scanNext'[j]])
    BY <1>1 DEF Current, Behind, PairRank
  <2>1. j \in Left /\ j # b /\ j \in Indices /\ scanNext'[j] \in Left
    BY <1>3, <1>4
  <2>2. CASE j = i
    <3>1. scanNext'[j] = c /\ symbols'[j] = <<i, c>> /\ c \in Left /\ c < ScanN
      BY <1>6, <1>10, <2>1, <2>2
    <3>2. symbols'[c] = symbols[c]
      BY <1>5, <1>10, <3>1
    <3>3. scanRanks'[j] = right
      BY <1>12, <2>1, <2>2
    <3> QED BY <3>1, <3>2, <3>3 DEF right
  <2>3. CASE j # i
    <3>1. scanNext'[j] = scanNext[j] /\ symbols'[j] = symbols[j] /\ scanNext[j] \in Left
      BY <1>10, <2>1, <2>3
    <3>2. CASE j = scanPrev[i]
      <4>1. scanNext[j] = i /\ scanPrev[i] < ScanN
        BY <1>4, <1>6, <1>15, <2>1, <3>2
      <4>2. symbols'[i] = <<i, c>>
        BY <1>2, <1>10
      <4>3. scanRanks'[j] = left
        BY <1>12, <2>1, <2>3, <3>2
      <4> QED BY <3>1, <3>2, <4>1, <4>2, <4>3 DEF left
    <3>3. CASE j # scanPrev[i]
      <4>1. scanNext[j] # i
        BY <1>2, <1>4, <2>1, <3>3
      <4>2. symbols'[scanNext[j]] = symbols[scanNext[j]]
        BY <1>10, <3>1, <4>1
      <4>3. scanRanks'[j] = scanRanks[j]
        BY <1>12, <2>1, <2>3, <3>3
      <4>4. scanRanks[j] = PairRank(symbols[j], symbols[scanNext[j]])
        BY <1>1, <2>1, <3>1 DEF ScanInv, Current, Behind
      <4> QED BY <3>1, <4>2, <4>3, <4>4
    <3> QED BY <3>2, <3>3
  <2> QED BY <2>2, <2>3
<1>18. ScanTypeOK'
  <2>1. NoRank \in 0 .. NoRank
    BY <1>1 DEF NoRank
  <2>2. right \in 0 .. NoRank
    <3>1. CASE c < ScanN
      <4>1. c \in Left /\ symbols[c] = <<c, scanNext[c]>> /\ c < scanNext[c] /\ scanNext[c] \in 0 .. ScanN
        BY <1>4, <1>6, <3>1
      <4>2. <<i, c, scanNext[c]>> \in Triples
        BY <1>1, <1>5, <4>1 DEF Triples
      <4>3. PairRank(<<i, c>>, symbols[c]) = scanTable[<<i, c, scanNext[c]>>]
        BY <4>1 DEF PairRank
      <4> QED BY <1>9, <3>1, <4>2, <4>3 DEF right
    <3>2. CASE ~(c < ScanN)
      BY <2>1, <3>2 DEF right
    <3> QED BY <3>1, <3>2
  <2>3. left \in 0 .. NoRank
    <3> DEFINE p == scanPrev[i]
    <3>1. CASE p < ScanN
      <4>1. p \in Left /\ scanNext[p] = i /\ p < i
        BY <1>1, <1>15, <3>1
      <4>2. symbols[p] = <<p, i>> /\ p \in Nat
        BY <1>4, <4>1
      <4> HIDE DEF p
      <4>3. <<p, i, c>> \in Triples
        BY <1>1, <1>5, <4>1, <4>2 DEF Triples
      <4>4. PairRank(symbols[p], <<i, c>>) = scanTable[<<p, i, c>>]
        BY <4>2 DEF PairRank
      <4>5. PairRank(symbols[p], <<i, c>>) \in 0 .. NoRank
        BY <1>9, <4>3, <4>4
      <4> QED BY <3>1, <4>5 DEF left, p
    <3>2. CASE ~(p < ScanN)
      BY <2>1, <3>2 DEF left
    <3> QED BY <3>1, <3>2
  <2>4. scanRanks' \in [Indices -> 0 .. NoRank]
    <3>1. scanRanks' = [j \in Indices |-> IF j = b THEN NoRank ELSE IF j = i THEN right
                                    ELSE IF j = scanPrev[i] THEN left ELSE scanRanks[j]]
      BY <1>3 DEF RanksAfter
    <3> QED BY <1>9, <2>1, <2>2, <2>3, <3>1
  <2>5. i \in Indices /\ i \in 0 .. ScanN
    BY <1>1, <1>4, <1>5
  <2>6. symbols' \in [Indices -> (0 .. ScanN) \X (0 .. ScanN)]
    BY <1>3, <1>5, <1>9, <2>5
  <2>7. scanNext' \in [Indices -> 0 .. ScanN]
    BY <1>3, <1>5, <1>9
  <2>8. scanPrev' \in [Indices -> 0 .. ScanN]
    BY <1>3, <1>9, <2>5 DEF Backlink
  <2>9. /\ scanTable' \in [Triples -> 0 .. NoRank] /\ linked' \in {0, 1} /\ live' \in 1 .. ScanN
        /\ scanPhase' \in {"merge", "emit", "done"} /\ scanCur' \in 0 .. ScanN
        /\ scanOut' \in Seq((0 .. ScanN) \X (0 .. ScanN))
    BY <1>1 DEF ScanInv, ScanTypeOK
  <2> QED BY <2>4, <2>6, <2>7, <2>8, <2>9 DEF ScanTypeOK
<1>19. ScanPhaseInv'
  <2>1. scanCur' = 0 /\ scanOut' = <<>> /\ scanPhase' = "merge"
    BY <1>1 DEF ScanInv, ScanPhaseInv
  <2>2. 0 \in Left'
    BY <1>14 DEF Tiles
  <2> QED BY <2>1, <2>2 DEF ScanPhaseInv
<1> QED BY <1>1, <1>14, <1>16, <1>17, <1>18, <1>19 DEF ScanInv, Chunk

-----------------------------------------------------------------------------
\* Without a merge, what was said of the arrays stays true.
LEMMA ArraysStay ==
  ASSUME ScanInv, UNCHANGED <<scanTable, linked, symbols, scanRanks, live, scanNext, scanPrev>>
  PROVE  /\ Left' = Left /\ Bound' = Bound /\ \A i : Behind(i)' = Behind(i)
         /\ Tiles' /\ Current' /\ Links'
<1>1. Left' = Left /\ Bound' = Bound /\ \A i : Behind(i)' = Behind(i)
  BY DEF Left, Bound, Behind
<1>2. Tiles'
  BY <1>1 DEF ScanInv, Tiles
<1>3. Current'
  BY <1>1 DEF ScanInv, Current, PairRank
<1>4. Links'
  BY <1>1 DEF ScanInv, Links
<1> QED BY <1>1, <1>2, <1>3, <1>4

\* The end of the merging keeps the invariant.
LEMMA EndMergeKeeps == ScanInv /\ EndScan => ScanInv'
<1> SUFFICES ASSUME ScanInv, EndScan PROVE ScanInv'
  OBVIOUS
<1>1. /\ UNCHANGED <<scanTable, linked, symbols, scanRanks, live, scanNext, scanPrev, scanCur, scanOut>>
      /\ scanPhase = "merge" /\ scanPhase' = "emit"
  BY DEF EndScan
<1>2. /\ Left' = Left /\ Bound' = Bound /\ \A i : Behind(i)' = Behind(i)
      /\ Tiles' /\ Current' /\ Links'
  BY <1>1, ArraysStay
<1>3. ScanTypeOK'
  BY <1>1 DEF ScanInv, ScanTypeOK
<1>4. \A i \in Left : Behind(i) \in Left => scanRanks[i] = NoRank
  BY NothingScanned DEF EndScan
<1>5. scanCur = 0 /\ scanOut = <<>> /\ scanCur \in Left
  BY <1>1 DEF ScanInv, ScanPhaseInv
<1>6. ScanEmitted'
  <2>1. {j \in Left : j < scanCur} = {}
    <3>1. ASSUME NEW j \in Left PROVE ~(j < scanCur)
      <4>1. j \in Nat
        BY LeftUnits
      <4> QED BY <1>5, <4>1
    <3> QED BY <3>1
  <2> QED BY <1>1, <1>2, <1>5, <2>1 DEF ScanEmitted
<1>7. ScanPhaseInv'
  BY <1>1, <1>2, <1>4, <1>5, <1>6 DEF ScanPhaseInv
<1> QED BY <1>2, <1>3, <1>7 DEF ScanInv, Chunk

\* A step of the walk keeps the invariant: it hands out the next symbol from the left.
LEMMA EmitKeeps == ScanInv /\ EmitSymbol => ScanInv'
<1> SUFFICES ASSUME ScanInv, EmitSymbol PROVE ScanInv'
  OBVIOUS
<1>1. /\ UNCHANGED <<scanTable, linked, symbols, scanRanks, live, scanNext, scanPrev>> /\ scanPhase = "emit"
      /\ scanOut' = Append(scanOut, symbols[scanCur]) /\ scanCur' = Behind(scanCur)
      /\ scanPhase' = IF scanCur' >= Bound THEN "done" ELSE "emit"
  BY DEF EmitSymbol, Step, Behind, Bound
<1>2. /\ Left' = Left /\ Bound' = Bound /\ \A i : Behind(i)' = Behind(i)
      /\ Tiles' /\ Current' /\ Links'
  BY <1>1, ArraysStay
<1>3. scanCur \in Left /\ ScanEmitted /\ \A i \in Left : Behind(i) \in Left => scanRanks[i] = NoRank
  BY <1>1 DEF ScanInv, ScanPhaseInv
<1>4. /\ scanCur \in Nat /\ Behind(scanCur) \in 0 .. ScanN /\ scanCur < Behind(scanCur) /\ ScanN \in Nat
      /\ Behind(scanCur) \in Left \/ Behind(scanCur) = Bound
      /\ symbols[scanCur] \in (0 .. ScanN) \X (0 .. ScanN)
  <2>1. scanCur \in Nat /\ ScanN \in Nat
    BY <1>3, LeftUnits DEF ScanInv, Chunk
  <2> QED BY <1>3, <2>1, ScanNeighbours
<1>5. scanOut \in Seq((0 .. ScanN) \X (0 .. ScanN))
  BY DEF ScanInv, ScanTypeOK
<1>6. ScanTypeOK'
  <2>1. /\ scanOut' \in Seq((0 .. ScanN) \X (0 .. ScanN))
        /\ scanCur' \in 0 .. ScanN /\ scanPhase' \in {"merge", "emit", "done"}
    BY <1>1, <1>4, <1>5
  <2> QED BY <1>1, <2>1 DEF ScanInv, ScanTypeOK
<1>7. /\ Len(scanOut) \in Nat /\ Len(scanOut') = Len(scanOut) + 1
      /\ \A k \in 1 .. Len(scanOut) : scanOut'[k] = scanOut[k]
      /\ scanOut'[Len(scanOut) + 1] = symbols[scanCur]
      /\ 1 .. Len(scanOut') = (1 .. Len(scanOut)) \cup {Len(scanOut) + 1}
  BY <1>1, <1>4, <1>5
<1>8. {j \in Left : j < Behind(scanCur)} = {j \in Left : j < scanCur} \cup {scanCur}
  <2>1. ASSUME NEW j \in Left PROVE j < Behind(scanCur) <=> j < scanCur \/ j = scanCur
    <3>1. j \in Nat
      BY LeftUnits
    <3>2. scanCur < j => Behind(scanCur) <= j
      BY <1>3, Ordered
    <3> QED BY <1>4, <3>1, <3>2
  <2> QED BY <1>3, <2>1
<1>9. ASSUME NEW k \in 1 .. Len(scanOut) PROVE scanOut[k][1] < symbols[scanCur][1]
  <2>1. PICK i \in {j \in Left : j < scanCur} : scanOut[k] = symbols[i]
    BY <1>3 DEF ScanEmitted
  <2> QED BY <1>3, <2>1, Ordered
<1>10. ScanEmitted'
  <2>1. {scanOut'[k] : k \in 1 .. Len(scanOut')}
          = {scanOut[k] : k \in 1 .. Len(scanOut)} \cup {symbols[scanCur]}
    BY <1>7
  <2>2. {symbols[i] : i \in {j \in Left : j < Behind(scanCur)}}
          = {symbols[i] : i \in {j \in Left : j < scanCur}} \cup {symbols[scanCur]}
    BY <1>8
  <2>3. ASSUME NEW k \in 1 .. Len(scanOut'), NEW l \in 1 .. Len(scanOut'), k < l
        PROVE  scanOut'[k][1] < scanOut'[l][1]
    <3>1. k \in 1 .. Len(scanOut)
      BY <1>7, <2>3
    <3>2. CASE l \in 1 .. Len(scanOut)
      BY <1>3, <1>7, <2>3, <3>1, <3>2 DEF ScanEmitted
    <3>3. CASE l = Len(scanOut) + 1
      BY <1>7, <1>9, <3>1, <3>3
    <3> QED BY <1>7, <3>2, <3>3
  <2>4. {scanOut'[k] : k \in 1 .. Len(scanOut')} = {symbols[i] : i \in {j \in Left : j < Behind(scanCur)}}
    BY <1>3, <2>1, <2>2 DEF ScanEmitted
  <2> QED BY <1>1, <1>2, <2>3, <2>4 DEF ScanEmitted
<1>11. ScanPhaseInv'
  <2>1. CASE Behind(scanCur) \in Left
    <3>1. Behind(scanCur) < Bound /\ Bound \in Nat
      BY <2>1, LeftUnits
    <3>2. scanPhase' = "emit"
      BY <1>1, <1>4, <3>1
    <3> QED BY <1>1, <1>2, <1>3, <1>10, <2>1, <3>2 DEF ScanPhaseInv
  <2>2. CASE Behind(scanCur) = Bound
    <3>1. scanPhase' = "done"
      BY <1>1, <1>4, <2>2
    <3> QED BY <1>1, <1>2, <1>3, <1>10, <2>2, <3>1 DEF ScanPhaseInv
  <2> QED BY <1>4, <2>1, <2>2
<1> QED BY <1>2, <1>6, <1>11 DEF ScanInv, Chunk

\* The invariant is inductive: the symbols that are left always tile the chunk, and the ranks
\* of their pairs are current (bpe.zig: both loops refresh two ranks after a merge).
THEOREM ScanLoopsInductive == ScanSpec => []ScanInv
<1>1. ScanInit => ScanInv
  BY ScanInitInv, ScanAssumption
<1>2. ScanInv /\ [ScanStep]_scanVars => ScanInv'
  <2> SUFFICES ASSUME ScanInv, [ScanStep]_scanVars PROVE ScanInv'
    OBVIOUS
  <2>1. CASE UNCHANGED scanVars
    <3>1. /\ UNCHANGED <<scanTable, linked, symbols, scanRanks, live, scanNext, scanPrev>>
          /\ UNCHANGED <<scanPhase, scanCur, scanOut>>
      BY <2>1 DEF scanVars
    <3>2. Left' = Left /\ Bound' = Bound /\ (\A i : Behind(i)' = Behind(i)) /\ Tiles' /\ Current' /\ Links'
      BY <3>1, ArraysStay
    <3>3. ScanTypeOK' /\ Chunk'
      BY <3>1 DEF ScanInv, ScanTypeOK, Chunk
    <3>4. ScanEmitted' <=> ScanEmitted
      BY <3>1, <3>2 DEF ScanEmitted
    <3>5. (\A i \in Left : Behind(i) \in Left => scanRanks[i] = NoRank)'
            <=> \A i \in Left : Behind(i) \in Left => scanRanks[i] = NoRank
      BY <3>1, <3>2
    <3>6. ScanPhaseInv'
      BY <3>1, <3>2, <3>4, <3>5 DEF ScanInv, ScanPhaseInv
    <3> QED BY <3>2, <3>3, <3>6 DEF ScanInv
  <2>2. ScanReturned => UNCHANGED scanVars
    BY DEF ScanReturned
  <2> QED BY <2>1, <2>2, ShiftKeeps, LinkKeeps, EndMergeKeeps, EmitKeeps DEF ScanStep
<1> QED BY <1>1, <1>2, PTL DEF ScanSpec

-----------------------------------------------------------------------------
\* Where greedy BPE says a part ends is where its symbol does.
LEMMA ScanGreedyEnd ==
  ASSUME ScanInv, NEW i \in Left
  PROVE  ScanGreedy!End(symbols[i][1]) = symbols[i][2]
<1> DEFINE S == {symbols[j][1] : j \in Left} \cup {ScanN}
           a == symbols[i][1]
           P(e) == a < e /\ \A f \in S : a < f => e <= f
<1>1. /\ ScanN \in Nat
      /\ \A j \in Left : /\ symbols[j][1] \in 0 .. ScanN /\ symbols[j][2] \in 0 .. ScanN
                         /\ symbols[j][1] < symbols[j][2]
  BY ScanNeighbours DEF ScanInv, Chunk
<1>2. symbols[i][2] \in S
  <2>1. CASE Behind(i) \in Left
    BY <2>1, ScanNeighbours
  <2>2. CASE Behind(i) \notin Left
    BY <2>2, ScanNeighbours
  <2> QED BY <2>1, <2>2
<1>3. P(symbols[i][2])
  <2>1. a < symbols[i][2]
    BY <1>1
  <2>2. ASSUME NEW f \in S, a < f PROVE symbols[i][2] <= f
    <3>1. CASE f = ScanN
      BY <1>1, <3>1
    <3>2. CASE f # ScanN
      <4>1. PICK j \in Left : f = symbols[j][1]
        BY <3>2
      <4>2. CASE i < j
        BY <4>1, <4>2, Ordered
      <4>3. CASE j < i
        <5>1. symbols[j][1] < symbols[i][1]
          BY <4>3, Ordered
        <5> QED BY <1>1, <2>2, <4>1, <5>1
      <4>4. CASE i = j
        BY <1>1, <2>2, <4>1, <4>4
      <4>5. i \in Nat /\ j \in Nat
        BY LeftUnits
      <4> QED BY <4>2, <4>3, <4>4, <4>5
    <3> QED BY <3>1, <3>2
  <2> QED BY <2>1, <2>2
<1>4. \A e \in S : e \in Nat
  BY <1>1
<1>5. ScanGreedy!End(a) = CHOOSE e \in S : P(e)
  BY DEF ScanGreedy!End
<1> HIDE DEF S
<1>6. ASSUME NEW e \in S, P(e) PROVE e = symbols[i][2]
  <2>1. symbols[i][2] <= e /\ e <= symbols[i][2]
    BY <1>2, <1>3, <1>6
  <2> QED BY <1>2, <1>4, <2>1
<1> HIDE DEF P
<1>7. (CHOOSE e \in S : P(e)) = symbols[i][2]
  BY <1>2, <1>3, <1>6
<1> QED BY <1>5, <1>7

\* The ranks that are left are those greedy BPE chooses from.
LEMMA ScanGreedyRank ==
  ASSUME ScanInv, NEW i \in Left
  PROVE  ScanGreedy!PairRank(symbols[i][1]) = IF Behind(i) \in Left THEN scanRanks[i] ELSE NoRank
<1>1. ScanGreedy!End(symbols[i][1]) = symbols[i][2]
  BY ScanGreedyEnd
<1>2. CASE Behind(i) \notin Left
  <2>1. symbols[i][2] = ScanN
    BY <1>2, ScanNeighbours
  <2> QED BY <1>1, <1>2, <2>1 DEF ScanGreedy!PairRank, ScanGreedy!Invalid, NoRank
<1>3. CASE Behind(i) \in Left
  <2> DEFINE b == Behind(i)
  <2>1. /\ symbols[b][1] = symbols[i][2] /\ symbols[i][2] < ScanN
        /\ symbols[i][2] \in 0 .. ScanN /\ ScanN \in Nat
    BY <1>3, ScanNeighbours DEF ScanInv, Chunk
  <2>2. ScanGreedy!End(symbols[b][1]) = symbols[b][2]
    BY <1>3, ScanGreedyEnd
  <2>3. scanRanks[i] = scanTable[<<symbols[i][1], symbols[i][2], symbols[b][2]>>]
    BY <1>3 DEF ScanInv, Current, PairRank
  <2> HIDE DEF b
  <2>4. symbols[i][2] # ScanN
    BY <2>1
  <2>5. ScanGreedy!PairRank(symbols[i][1]) = scanTable[<<symbols[i][1], symbols[i][2], symbols[b][2]>>]
    BY <1>1, <2>1, <2>2, <2>4 DEF ScanGreedy!PairRank
  <2> QED BY <1>3, <2>3, <2>5
<1> QED BY <1>2, <1>3

\* What the scan finds is what greedy BPE merges.
LEMMA GreedyBest ==
  ASSUME ScanInv, NEW i \in Indices, ScanMin(i, Scanned)
  PROVE  /\ i \in Left /\ ScanGreedy!Best(symbols[i][1])
         /\ ScanGreedy!End(symbols[i][1]) = symbols[Behind(i)][1]
<1>1. /\ i \in Left /\ Behind(i) \in Left /\ scanRanks[i] # NoRank
      /\ \A j \in Left : Behind(j) \in Left =>
           scanRanks[i] < scanRanks[j] \/ (scanRanks[i] = scanRanks[j] /\ i <= j)
  BY Scanning
<1>2. ScanGreedy!Invalid = NoRank
  BY DEF ScanGreedy!Invalid, NoRank
<1>3. scanRanks[i] \in 0 .. NoRank /\ NoRank \in Nat
  BY DEF ScanInv, ScanTypeOK, Chunk, NoRank
<1>4. ScanGreedy!PairRank(symbols[i][1]) = scanRanks[i]
  BY <1>1, ScanGreedyRank
<1>5. ASSUME NEW c \in {symbols[j][1] : j \in Left}
      PROVE  \/ scanRanks[i] < ScanGreedy!PairRank(c)
             \/ scanRanks[i] = ScanGreedy!PairRank(c) /\ symbols[i][1] <= c
  <2>1. PICK j \in Left : c = symbols[j][1]
    OBVIOUS
  <2>2. ScanGreedy!PairRank(c) = IF Behind(j) \in Left THEN scanRanks[j] ELSE NoRank
    BY <2>1, ScanGreedyRank
  <2>3. CASE Behind(j) \notin Left
    BY <1>1, <1>3, <2>2, <2>3
  <2>4. CASE Behind(j) \in Left
    <3>1. i <= j => symbols[i][1] <= symbols[j][1]
      <4>1. i \in Nat /\ j \in Nat
        BY <1>1, LeftUnits
      <4>2. symbols[i][1] \in 0 .. ScanN /\ symbols[j][1] \in 0 .. ScanN /\ ScanN \in Nat
        <5>1. \A k \in Left : symbols[k][1] \in 0 .. ScanN
          BY ScanNeighbours
        <5> QED BY <1>1, <5>1 DEF ScanInv, Chunk
      <4>3. i < j => symbols[i][1] < symbols[j][1]
        BY <1>1, Ordered
      <4> QED BY <4>1, <4>2, <4>3
    <3> QED BY <1>1, <2>1, <2>2, <2>4, <3>1
  <2> QED BY <2>3, <2>4
<1>6. ScanGreedy!Best(symbols[i][1])
  BY <1>1, <1>2, <1>4, <1>5 DEF ScanGreedy!Best
<1>7. ScanGreedy!End(symbols[i][1]) = symbols[Behind(i)][1]
  BY <1>1, ScanGreedyEnd, ScanNeighbours
<1> QED BY <1>1, <1>6, <1>7

\* A merge of either loop is a merge of greedy BPE.
LEMMA ScanMergeIsGreedy == ScanInv /\ (MergeShift \/ MergeLink) => ScanGreedy!Merge
<1> SUFFICES ASSUME ScanInv, MergeShift \/ MergeLink PROVE ScanGreedy!Merge
  OBVIOUS
<1>1. PICK i \in Indices :
       /\ ScanMin(i, Scanned)
       /\ {symbols[j][1] : j \in Left}' = {symbols[j][1] : j \in Left} \ {symbols[Behind(i)][1]}
  <2>1. CASE MergeShift
    BY <2>1, ShiftStarts
  <2>2. CASE MergeLink
    <3>1. linked = 1
      BY <2>2, LinkEffect
    <3>2. PICK i \in Left :
           /\ ScanMin(i, ScanN) /\ scanNext[i] \in Left
           /\ Left' = Left \ {scanNext[i]}
           /\ symbols' = [symbols EXCEPT ![i] = <<i, scanNext[scanNext[i]]>>]
      BY <2>2, LinkEffect
    <3>3. \A j \in Left : symbols[j][1] = j /\ j \in Indices
      BY <3>1, LeftUnits DEF ScanInv, Links
    <3>4. \A j \in Left : symbols'[j][1] = j
      BY <3>2, <3>3 DEF ScanInv, ScanTypeOK
    <3>5. {symbols[j][1] : j \in Left} = Left /\ {symbols[j][1] : j \in Left}' = Left'
      BY <3>2, <3>3, <3>4
    <3>6. Behind(i) = scanNext[i] /\ Scanned = ScanN /\ i \in Indices
      BY <3>1, <3>2, <3>3 DEF Behind, Scanned
    <3>7. symbols[Behind(i)][1] = scanNext[i]
      BY <3>2, <3>3, <3>6
    <3> QED BY <3>2, <3>5, <3>6, <3>7
  <2> QED BY <2>1, <2>2
<1>2. /\ i \in Left /\ ScanGreedy!Best(symbols[i][1])
      /\ ScanGreedy!End(symbols[i][1]) = symbols[Behind(i)][1]
  BY <1>1, GreedyBest
<1>3. scanTable' = scanTable /\ scanPhase = "merge" /\ scanPhase' = "merge"
  BY DEF MergeShift, MergeLink
<1>4. symbols[i][1] \in {symbols[j][1] : j \in Left}
  BY <1>2
<1> QED BY <1>1, <1>2, <1>3, <1>4 DEF ScanGreedy!Merge

\* The last step of the walk hands out the parts of greedy BPE, from left to right.
LEMMA LastSymbolIsEmit == ScanInv /\ ScanInv' /\ EmitSymbol /\ scanPhase' = "done" => ScanGreedy!Emit
<1> SUFFICES ASSUME ScanInv, ScanInv', EmitSymbol, scanPhase' = "done" PROVE ScanGreedy!Emit
  OBVIOUS
<1>1. UNCHANGED <<scanTable, linked, symbols, scanRanks, live, scanNext, scanPrev>> /\ scanPhase = "emit"
  BY DEF EmitSymbol
<1>2. Left' = Left /\ Bound' = Bound
  BY <1>1, ArraysStay
<1>3. \A a \in {symbols[j][1] : j \in Left} : ScanGreedy!PairRank(a) = ScanGreedy!Invalid
  <2>1. \A i \in Left : Behind(i) \in Left => scanRanks[i] = NoRank
    BY <1>1 DEF ScanInv, ScanPhaseInv
  <2>2. ScanGreedy!Invalid = NoRank
    BY DEF ScanGreedy!Invalid, NoRank
  <2> QED BY <2>1, <2>2, ScanGreedyRank
<1>4. scanCur' = Bound /\ ScanEmitted'
  BY <1>2 DEF ScanInv, ScanPhaseInv
<1>5. {j \in Left : j < Bound} = Left
  BY LeftUnits
<1>6. {scanOut'[k] : k \in 1 .. Len(scanOut')} = {symbols[i] : i \in Left}
  BY <1>1, <1>2, <1>4, <1>5 DEF ScanEmitted
<1>7. {symbols[i] : i \in Left} = {<<a, ScanGreedy!End(a)>> : a \in {symbols[j][1] : j \in Left}}
  <2>1. \A i \in Left : symbols[i] = <<symbols[i][1], ScanGreedy!End(symbols[i][1])>>
    <3> TAKE i \in Left
    <3>1. symbols[i] \in (0 .. ScanN) \X (0 .. ScanN)
      BY ScanNeighbours
    <3> QED BY <3>1, ScanGreedyEnd
  <2> DEFINE E(a) == ScanGreedy!End(a)
  <2> HIDE DEF E
  <2>2. \A i \in Left : symbols[i] = <<symbols[i][1], E(symbols[i][1])>>
    BY <2>1 DEF E
  <2>3. {symbols[i] : i \in Left} = {<<a, E(a)>> : a \in {symbols[j][1] : j \in Left}}
    BY <2>2
  <2> QED BY <2>3 DEF E
<1>8. \A k, l \in 1 .. Len(scanOut') : k < l => scanOut'[k][1] < scanOut'[l][1]
  BY <1>4 DEF ScanEmitted
<1>9. ScanGreedy!Lists(scanOut')
  BY <1>6, <1>7, <1>8 DEF ScanGreedy!Lists
<1>10. {symbols[j][1] : j \in Left}' = {symbols[j][1] : j \in Left}
  BY <1>1, <1>2
<1> QED BY <1>1, <1>3, <1>9, <1>10 DEF ScanGreedy!Emit

\* Both scanning loops of bpe.zig implement greedy BPE, for every text and every vocab: each
\* merges the leftmost pair of the lowest rank and emits what is left.  With the same theorem
\* about the heap loop: which of the three encodes a chunk cannot be seen in the tokens.
THEOREM ScanLoopsAreGreedy == ScanSpec => ScanIsGreedy
<1>1. ScanInit => ScanGreedy!GInit
  <2> SUFFICES ASSUME ScanInit PROVE ScanGreedy!GInit
    OBVIOUS
  <2>1. ScanInv
    BY ScanInitInv, ScanAssumption
  <2>2. \A i \in Indices : symbols[i][1] = i
    BY DEF ScanInit
  <2>3. Left = Indices
    <3>1. linked = 1 => \A i, j \in Indices : ~(symbols[j][1] < i /\ i < symbols[j][2])
      BY DEF ScanInit, Indices, Chunk
    <3> QED BY <3>1 DEF Left, ScanInit, Indices
  <2>4. {symbols[i][1] : i \in Left} = ScanGreedy!Units
    BY <2>2, <2>3 DEF Indices, ScanGreedy!Units
  <2>5. 0 .. NoRank = ScanGreedy!Ranks \cup {ScanGreedy!Invalid}
    BY ScanAssumption DEF NoRank, ScanGreedy!Ranks, ScanGreedy!Invalid, Chunk
  <2> QED BY <2>4, <2>5 DEF ScanInit, ScanGreedy!GInit, ScanGreedy!Pairs, Triples
<1>2. ScanInv /\ ScanInv' /\ [ScanStep]_scanVars =>
        [ScanGreedy!Merge \/ ScanGreedy!Emit]_<<scanTable, {symbols[i][1] : i \in Left},
                                       IF scanPhase = "done" THEN scanOut ELSE <<>> >>
  <2> SUFFICES ASSUME ScanInv, ScanInv', [ScanStep]_scanVars
               PROVE  \/ ScanGreedy!Merge \/ ScanGreedy!Emit
                      \/ /\ scanTable' = scanTable
                         /\ {symbols[i][1] : i \in Left}' = {symbols[i][1] : i \in Left}
                         /\ (IF scanPhase = "done" THEN scanOut ELSE <<>>)'
                              = (IF scanPhase = "done" THEN scanOut ELSE <<>>)
    OBVIOUS
  <2>1. ASSUME UNCHANGED <<scanTable, linked, symbols, scanRanks, live, scanNext, scanPrev>>
        PROVE  {symbols[i][1] : i \in Left}' = {symbols[i][1] : i \in Left}
    BY <2>1, ArraysStay
  <2>2. CASE MergeShift \/ MergeLink
    BY <2>2, ScanMergeIsGreedy
  <2>3. CASE EndScan
    BY <2>1, <2>3 DEF EndScan
  <2>4. CASE EmitSymbol
    <3>1. CASE scanPhase' = "done"
      BY <2>4, <3>1, LastSymbolIsEmit
    <3>2. CASE scanPhase' # "done"
      BY <2>1, <2>4, <3>2 DEF EmitSymbol
    <3> QED BY <3>1, <3>2
  <2>5. CASE ScanReturned
    BY <2>1, <2>5 DEF ScanReturned, scanVars
  <2>6. CASE UNCHANGED scanVars
    BY <2>1, <2>6 DEF scanVars
  <2> QED BY <2>2, <2>3, <2>4, <2>5, <2>6 DEF ScanStep
<1> QED BY <1>1, <1>2, ScanLoopsInductive, PTL DEF ScanSpec, ScanIsGreedy, ScanGreedy!GSpec

-----------------------------------------------------------------------------
(* The loop with a heap.                                                   *)

USE ChunkAssumption

\* What is emitted so far: the live parts to the left of cur, in order.
Emitted ==
  /\ {out[i] : i \in 1 .. Len(out)} = {<<a, next[a]>> : a \in {b \in Live : b < cur}}
  /\ \A i \in 1 .. Len(out) : out[i][1] < cur
  /\ \A i, j \in 1 .. Len(out) : i < j => out[i][1] < out[j][1]

\* The phases: the walk starts at part 0 when nothing is left to merge, and ends
\* behind the last part.
PhaseInv ==
  /\ phase = "merge" => cur = 0 /\ out = <<>>
  /\ phase # "merge" => (\A i \in Live : ranks[i] = Invalid) /\ Emitted
  /\ phase # "done" => cur \in Live
  /\ phase = "done" => cur = NONE

\* The inductive invariant.
Inv == TypeOK /\ HeapInv /\ PhaseInv

-----------------------------------------------------------------------------
\* Consequences of the invariant about a live part and its neighbours.
LEMMA Neighbours ==
  ASSUME Inv, NEW i \in Live
  PROVE  /\ i \in Units
         /\ next[i] \in Units \cup {NONE} /\ i < next[i] /\ next[i] = i + len[i]
         /\ next[i] # NONE => /\ next[i] \in Live
                              /\ prev[next[i]] = i
                              /\ next[next[i]] \in Units \cup {NONE}
                              /\ next[i] < next[next[i]]
                              /\ <<i, next[next[i]]>> \in Intervals
                              /\ ranks[i] = table[<<i, next[next[i]]>>]
         /\ next[i] = NONE => ranks[i] = Invalid
         /\ i # 0 => prev[i] \in Live /\ next[prev[i]] = i /\ prev[i] < i
<1>1. i \in Units
  BY DEF Live
<1>2. /\ next[i] \in Units \cup {NONE} /\ len[i] \in 1 .. N
      /\ next[i] = i + len[i]
      /\ next[i] # NONE => prev[next[i]] = i
      /\ i # 0 => prev[i] \in Live /\ next[prev[i]] = i
      /\ ranks[i] = PieceRank(len, i, next[i])
  BY <1>1 DEF Inv, TypeOK, HeapInv, ListInv
<1>3. i < next[i]
  BY <1>1, <1>2 DEF Units, NONE
<1>4. ASSUME next[i] # NONE
      PROVE  /\ next[i] \in Live
             /\ next[next[i]] \in Units \cup {NONE}
             /\ next[i] < next[next[i]]
             /\ <<i, next[next[i]]>> \in Intervals
             /\ ranks[i] = table[<<i, next[next[i]]>>]
  <2> DEFINE j == next[i]
  <2>1. j \in Units /\ i # NONE
    BY <1>1, <1>2, <1>4 DEF Units, NONE
  <2>2. j \in Live
    BY <2>1, <1>2, <1>4 DEF Live
  <2>3. next[j] = j + len[j] /\ next[j] \in Units \cup {NONE} /\ len[j] \in 1 .. N
    BY <2>1, <2>2 DEF Inv, TypeOK, HeapInv, ListInv
  <2>4. j < next[j]
    BY <2>1, <2>3 DEF Units, NONE
  <2>5. i + len[i] + len[j] = next[j]
    BY <1>1, <1>2, <2>1, <2>3 DEF Units, NONE
  <2>6. <<i, next[j]>> \in Intervals
    BY <1>1, <1>3, <2>1, <2>3, <2>4 DEF Units, NONE, Intervals
  <2>7. ranks[i] = table[<<i, next[j]>>]
    BY <1>2, <1>4, <2>1, <2>5 DEF PieceRank
  <2> QED BY <2>2, <2>3, <2>4, <2>6, <2>7
<1>5. next[i] = NONE => ranks[i] = Invalid
  BY <1>2 DEF PieceRank
<1>6. ASSUME i # 0 PROVE prev[i] < i
  <2> DEFINE p == prev[i]
  <2>1. p \in Live /\ next[p] = i
    BY <1>2, <1>6
  <2>2. p \in Units
    BY <2>1 DEF Live
  <2>3. next[p] = p + len[p] /\ len[p] \in 1 .. N
    BY <2>1, <2>2 DEF Inv, TypeOK, HeapInv, ListInv
  <2> QED BY <2>1, <2>2, <2>3 DEF Units
<1> QED BY <1>1, <1>2, <1>3, <1>4, <1>5, <1>6

\* Nothing live lies between a live part and its right neighbour.
LEMMA NothingBetween ==
  ASSUME Inv, NEW i \in Live, NEW j \in Live, i < j
  PROVE  next[i] <= j
<1>1. j <= i \/ next[i] <= j
  BY DEF Inv, HeapInv, ListInv
<1>2. i \in Int /\ j \in Int
  BY DEF Live, Units
<1> QED BY <1>1, <1>2

\* The live parts are finitely many.
LEMMA LiveFinite ==
  /\ IsFiniteSet(Units) /\ Cardinality(Units) = N
  /\ IsFiniteSet(Live) /\ Live \subseteq Units
<1>1. IsFiniteSet(0 .. N - 1) /\ Cardinality(0 .. N - 1) = N
  BY FS_Interval
<1>2. IsFiniteSet(Units) /\ Cardinality(Units) = N
  BY <1>1 DEF Units
<1>3. Live \subseteq Units
  BY DEF Live
<1> QED BY <1>2, <1>3, FS_Subset

-----------------------------------------------------------------------------
\* The chunk as it comes in satisfies the invariant.
LEMMA InitInv == Init => Inv
<1> SUFFICES ASSUME Init PROVE Inv
  OBVIOUS
<1>1. Live = Units
  BY DEF Init, Live, Units, NONE
<1>2. Cardinality(Units) = N /\ IsFiniteSet(Units)
  BY LiveFinite
<1>3. \A i \in Units : i + 1 < N => <<i, i + 2>> \in Intervals
  BY DEF Units, Intervals
<1>4. ranks \in [Units -> 0 .. Invalid]
  BY <1>3 DEF Init, Invalid
<1>5. heapN \in Int /\ heapN < N
  <2> DEFINE S == {i \in Units : ranks[i] # Invalid}
  <2>1. S \subseteq 0 .. N - 2
    BY DEF Init, Units
  <2>2. IsFiniteSet(0 .. N - 2) /\ Cardinality(0 .. N - 2) = N - 1
    BY FS_Interval
  <2>3. IsFiniteSet(S) /\ Cardinality(S) <= N - 1
    BY <2>1, <2>2, FS_Subset
  <2>4. Cardinality(S) \in Nat
    BY <2>3, FS_CardinalityType
  <2>5. heapN = Cardinality(S)
    BY DEF Init
  <2> QED BY <2>3, <2>4, <2>5
<1>6. heap \in [Nodes -> Nat] /\ \A t \in Nodes : t[1] = Invalid => heap[t] = 0
  BY DEF Init
<1>7. TypeOK
  <2>1. table \in [Intervals -> 0 .. Invalid] /\ out \in Seq(Units \X (1 .. N))
    BY DEF Init
  <2>2. len \in [Units -> 1 .. N]
    BY DEF Init
  <2>3. /\ prev \in [Units -> Units \cup {NONE}]
        /\ next \in [Units -> Units \cup {NONE}]
    BY DEF Init, Units, NONE
  <2>4. liveCount \in 1 .. N /\ phase = "merge" /\ cur \in Units
    BY DEF Init, Units
  <2> QED BY <1>4, <1>5, <1>6, <2>1, <2>2, <2>3, <2>4 DEF TypeOK
<1>8. ListInv
  <2>1. \A i \in Units : /\ next[i] = i + len[i]
                         /\ next[i] # NONE => prev[next[i]] = i
                         /\ \A j \in Units : j <= i \/ next[i] <= j
                         /\ i # 0 => prev[i] \in Units /\ next[prev[i]] = i
    BY DEF Init, Units, NONE
  <2>2. prev[0] = NONE /\ liveCount = N
    BY DEF Init, Units
  <2> QED BY <1>1, <1>2, <2>1, <2>2 DEF ListInv
<1>9. HeapInv
  <2>1. ASSUME NEW i \in Units PROVE ranks[i] = PieceRank(len, i, next[i])
    BY DEF Init, PieceRank, Units, NONE
  <2>2. ASSUME NEW i \in Units, ranks[i] # Invalid PROVE heap[<<ranks[i], i>>] > 0
    <3>1. <<ranks[i], i>> \in Nodes
      BY <1>4 DEF Nodes
    <3> QED BY <2>2, <3>1 DEF Init
  <2>3. heapN + 2 * liveCount < 3 * N
    BY <1>5 DEF Init
  <2> QED BY <1>1, <1>8, <2>1, <2>2, <2>3 DEF HeapInv
<1>10. PhaseInv
  BY <1>1 DEF Init, PhaseInv, Units
<1> QED BY <1>7, <1>9, <1>10 DEF Inv

-----------------------------------------------------------------------------
\* Skipping a stale node loses no rank that merges.
LEMMA PopStaleInv == Inv /\ PopStale => Inv'
<1> SUFFICES ASSUME Inv, PopStale PROVE Inv'
  OBVIOUS
<1>1. PICK t \in Nodes : Top(t) /\ Stale(t) /\ heap' = Popped(heap, t)
  BY DEF PopStale
<1>2. UNCHANGED <<table, len, ranks, prev, next, liveCount, phase, cur, out>>
  BY DEF PopStale
<1>3. Live' = Live
  BY <1>2 DEF Live
<1>4. /\ heap \in [Nodes -> Nat] /\ heap[t] > 0
      /\ \A u \in Nodes : u[1] = Invalid => heap[u] = 0
      /\ heapN \in Int /\ heapN <= 3 * N
  BY <1>1 DEF Inv, TypeOK, Top
<1>5. heap' \in [Nodes -> Nat] /\ \A u \in Nodes : heap'[u] = IF u = t THEN heap[u] - 1 ELSE heap[u]
  BY <1>1, <1>4 DEF Popped
<1>6. \A u \in Nodes : u[1] = Invalid => heap'[u] = 0
  BY <1>4, <1>5
<1>7. heapN' = heapN - 1
  BY DEF PopStale
<1>8. TypeOK'
  BY <1>2, <1>4, <1>5, <1>6, <1>7 DEF Inv, TypeOK
<1>9. ListInv'
  BY <1>2, <1>3 DEF Inv, HeapInv, ListInv
<1>10. ASSUME NEW i \in Live, ranks[i] # Invalid, phase = "merge"
       PROVE  heap'[<<ranks[i], i>>] > 0
  <2>1. i \in Units /\ next[i] # NONE
    BY <1>10, Neighbours
  <2>2. ranks[i] \in 0 .. Invalid
    BY <2>1 DEF Inv, TypeOK
  <2>3. <<ranks[i], i>> \in Nodes
    BY <2>1, <2>2 DEF Nodes
  <2>4. <<ranks[i], i>> # t
    BY <1>1, <2>1 DEF Stale
  <2>5. heap[<<ranks[i], i>>] > 0
    BY <1>10 DEF Inv, HeapInv
  <2> QED BY <1>5, <2>3, <2>4, <2>5
<1>11. heapN' + 2 * liveCount' < 3 * N
  <2>1. liveCount \in 1 .. N /\ heapN + 2 * liveCount < 3 * N
    BY DEF Inv, TypeOK, HeapInv
  <2> QED BY <1>2, <1>4, <1>7, <2>1
<1>12. HeapInv'
  <2>1. (\A i \in Live : ranks[i] = PieceRank(len, i, next[i]))'
    BY <1>2, <1>3 DEF Inv, HeapInv, PieceRank
  <2>2. (\A i \in Units \ Live : ranks[i] = Invalid)'
    BY <1>2, <1>3 DEF Inv, HeapInv
  <2> QED BY <1>2, <1>3, <1>9, <1>10, <1>11, <2>1, <2>2 DEF HeapInv
<1>13. PhaseInv'
  BY <1>2, <1>3 DEF Inv, PhaseInv, Emitted
<1> QED BY <1>8, <1>12, <1>13 DEF Inv

\* What one merge does to the list: a swallows its right neighbour, the pairs to
\* the right and to the left of it get the ranks of the new pieces.
LEMMA MergeEffect ==
  ASSUME Inv, PopMerge
  PROVE  \E a \in Live :
           /\ next[a] # NONE /\ Top(<<ranks[a], a>>) /\ <<ranks[a], a>> \in Nodes
           /\ len' = [len EXCEPT ![a] = @ + len[next[a]]]
           /\ next' = [next EXCEPT ![a] = next[next[a]], ![next[a]] = NONE]
           /\ prev' = [i \in Units |-> IF i = next[a] THEN NONE
                                       ELSE IF i = next[next[a]] THEN a ELSE prev[i]]
           /\ \E right, left :
                /\ right = PieceRank(len', a, next[next[a]])
                /\ left = PieceRank(len', prev[a], a)
                /\ ranks' = Refreshed(a, next[a], left, right)
                /\ heap' = Pushed(Pushed(Popped(heap, <<ranks[a], a>>), right, a), left, prev[a])
                /\ heapN' = heapN - 1 + (IF right = Invalid THEN 0 ELSE 1)
                                      + (IF left = Invalid THEN 0 ELSE 1)
<1>1. PICK t \in Nodes : Top(t) /\ ~Stale(t) /\ MergeParts(t)
  BY DEF PopMerge
<1> DEFINE a == t[2]
<1>2. a \in Units /\ next[a] # NONE /\ ranks[a] = t[1]
  BY <1>1 DEF Stale, Nodes
<1>3. a \in Live
  BY <1>2 DEF Inv, HeapInv, ListInv
<1>4. t = <<ranks[a], a>>
  BY <1>1, <1>2 DEF Nodes
<1>5. /\ len' = [len EXCEPT ![a] = @ + len[next[a]]]
      /\ next' = [next EXCEPT ![a] = next[next[a]], ![next[a]] = NONE]
      /\ prev' = [i \in Units |-> IF i = next[a] THEN NONE
                                  ELSE IF i = next[next[a]] THEN a ELSE prev[i]]
      /\ ranks' = Refreshed(a, next[a], PieceRank(len', prev[a], a),
                            PieceRank(len', a, next[next[a]]))
      /\ heap' = Pushed(Pushed(Popped(heap, t), PieceRank(len', a, next[next[a]]), a),
                        PieceRank(len', prev[a], a), prev[a])
      /\ heapN' = heapN - 1
                  + (IF PieceRank(len', a, next[next[a]]) = Invalid THEN 0 ELSE 1)
                  + (IF PieceRank(len', prev[a], a) = Invalid THEN 0 ELSE 1)
  BY <1>1 DEF MergeParts
<1> HIDE DEF a
<1> QED BY <1>1, <1>2, <1>3, <1>4, <1>5

\* Adding nodes to the heap: it keeps its type, loses none, and has the new one.
LEMMA PushedFacts ==
  ASSUME NEW h \in [Nodes -> Nat], \A u \in Nodes : u[1] = Invalid => h[u] = 0,
         NEW r \in 0 .. Invalid, NEW i, r # Invalid => i \in Units
  PROVE  /\ Pushed(h, r, i) \in [Nodes -> Nat]
         /\ \A u \in Nodes : u[1] = Invalid => Pushed(h, r, i)[u] = 0
         /\ \A u \in Nodes : Pushed(h, r, i)[u] >= h[u]
         /\ r # Invalid => <<r, i>> \in Nodes /\ Pushed(h, r, i)[<<r, i>>] > 0
<1>1. CASE r = Invalid
  BY <1>1 DEF Pushed
<1>2. CASE r # Invalid
  <2>1. <<r, i>> \in Nodes
    BY <1>2 DEF Nodes
  <2>2. Pushed(h, r, i) = [h EXCEPT ![<<r, i>>] = @ + 1]
    BY <1>2 DEF Pushed
  <2> DEFINE g == [h EXCEPT ![<<r, i>>] = @ + 1]
  <2>3. /\ g \in [Nodes -> Nat]
        /\ \A u \in Nodes : g[u] = IF u = <<r, i>> THEN h[u] + 1 ELSE h[u]
    BY <2>1
  <2>4. \A u \in Nodes : u[1] = Invalid => u # <<r, i>>
    BY <1>2
  <2> HIDE DEF g
  <2>5. \A u \in Nodes : u[1] = Invalid => g[u] = 0
    BY <2>3, <2>4
  <2>6. \A u \in Nodes : h[u] \in Nat
    OBVIOUS
  <2>7. (\A u \in Nodes : g[u] >= h[u]) /\ g[<<r, i>>] > 0
    BY <2>1, <2>3, <2>6
  <2>8. Pushed(h, r, i) = g
    BY <2>2 DEF g
  <2> QED BY <1>2, <2>1, <2>3, <2>5, <2>7, <2>8
<1> QED BY <1>1, <1>2

\* A merge keeps the list: it is the same list without the part that was swallowed.
LEMMA MergeList ==
  ASSUME Inv, PopMerge, NEW a \in Live, next[a] # NONE,
         len' = [len EXCEPT ![a] = @ + len[next[a]]],
         next' = [next EXCEPT ![a] = next[next[a]], ![next[a]] = NONE],
         prev' = [i \in Units |-> IF i = next[a] THEN NONE
                                 ELSE IF i = next[next[a]] THEN a ELSE prev[i]]
  PROVE  /\ Live' = Live \ {next[a]}
         /\ ListInv'
         /\ len' \in [Units -> 1 .. N]
         /\ prev' \in [Units -> Units \cup {NONE}]
         /\ next' \in [Units -> Units \cup {NONE}]
         /\ \A i \in Units : len'[i] = IF i = a THEN len[a] + len[next[a]] ELSE len[i]
         /\ \A i \in Units : next'[i] = IF i = next[a] THEN NONE
                                      ELSE IF i = a THEN next[next[a]] ELSE next[i]
<1> DEFINE b == next[a]
           c == next[b]
<1>1. /\ a \in Units /\ b \in Units /\ b \in Live /\ a < b
      /\ c \in Units \cup {NONE} /\ b < c /\ prev[b] = a
      /\ b = a + len[a]
  BY Neighbours DEF NONE, Units
<1>2. c = b + len[b] /\ (c # NONE => c \in Live /\ prev[c] = b)
  BY <1>1, Neighbours
<1>3. /\ len \in [Units -> 1 .. N]
      /\ prev \in [Units -> Units \cup {NONE}]
      /\ next \in [Units -> Units \cup {NONE}]
  BY DEF Inv, TypeOK
<1>4. /\ \A i \in Units : prev'[i] = IF i = b THEN NONE ELSE IF i = c THEN a ELSE prev[i]
      /\ \A i \in Units : next'[i] = IF i = b THEN NONE ELSE IF i = a THEN c ELSE next[i]
      /\ \A i \in Units : len'[i] = IF i = a THEN len[a] + len[b] ELSE len[i]
      /\ prev' \in [Units -> Units \cup {NONE}]
      /\ next' \in [Units -> Units \cup {NONE}]
  BY <1>1, <1>3
<1>5. len' \in [Units -> 1 .. N]
  <2>1. len[a] \in 1 .. N /\ len[b] \in 1 .. N /\ a \in 0 .. N - 1 /\ N \in Nat
    BY <1>1, <1>3 DEF Units
  <2>2. c = a + len[a] + len[b] /\ c \in 0 .. N
    BY <1>1, <1>2, <1>3, <2>1 DEF Units, NONE
  <2>3. len[a] + len[b] \in 1 .. N
    BY <2>1, <2>2
  <2> QED BY <1>1, <1>3, <2>3
<1> HIDE DEF b, c
<1>6. Live' = Live \ {b}
  <2>1. b # 0 /\ a # NONE
    BY <1>1 DEF Units, NONE
  <2>2. ASSUME NEW i \in Units PROVE i \in Live' <=> i \in Live /\ i # b
    <3>1. CASE i = b
      BY <3>1, <2>1, <1>4 DEF Live
    <3>2. CASE i # b /\ i = c
      <4>1. i \in Live
        BY <3>2, <1>2 DEF Units, NONE
      <4>2. prev'[i] # NONE
        BY <3>2, <2>1, <1>4
      <4> QED BY <3>2, <4>1, <4>2 DEF Live
    <3>3. CASE i # b /\ i # c
      BY <3>3, <1>4 DEF Live
    <3> QED BY <3>1, <3>2, <3>3
  <2>3. Live \subseteq Units /\ Live' \subseteq Units
    BY DEF Live, Units
  <2> QED BY <2>2, <2>3
<1>7. ASSUME NEW i \in Live, i # b
      PROVE  /\ next'[i] = i + len'[i]
             /\ next'[i] # NONE => prev'[next'[i]] = i
             /\ \A j \in Live \ {b} : j <= i \/ next'[i] <= j
             /\ i # 0 => prev'[i] \in Live \ {b} /\ next'[prev'[i]] = i
  <2>1. /\ i \in Units /\ next[i] = i + len[i] /\ next[i] \in Units \cup {NONE}
        /\ next[i] # NONE => prev[next[i]] = i
        /\ i # 0 => prev[i] \in Live /\ next[prev[i]] = i
    BY Neighbours
  <2>2. next'[i] = i + len'[i]
    <3>1. CASE i = a
      <4>1. next'[i] = c /\ len'[i] = len[a] + len[b]
        BY <3>1, <1>1, <1>4, <1>7
      <4>2. a \in Int /\ len[a] \in Int /\ len[b] \in Int
        BY <1>1, <1>3 DEF Units
      <4> QED BY <3>1, <4>1, <4>2, <1>1, <1>2
    <3>2. CASE i # a
      BY <3>2, <1>4, <1>7, <2>1
    <3> QED BY <3>1, <3>2
  <2>3. ASSUME next'[i] # NONE PROVE prev'[next'[i]] = i
    <3>1. CASE i = a
      BY <3>1, <2>3, <1>1, <1>2, <1>4, <1>7 DEF Units, NONE
    <3>2. CASE i # a
      <4>1. next'[i] = next[i] /\ next[i] # NONE
        BY <3>2, <1>4, <1>7, <2>1, <2>3
      <4>2. next[i] \in Units /\ next[i] # b /\ next[i] # c
        BY <4>1, <2>1, <3>2, <1>1, <1>2, <1>7
      <4> QED BY <4>1, <4>2, <1>4, <2>1
    <3> QED BY <3>1, <3>2
  <2>4. ASSUME NEW j \in Live \ {b} PROVE j <= i \/ next'[i] <= j
    <3>1. i \in Int /\ j \in Int /\ a \in Int
      BY DEF Live, Units
    <3>2. CASE i = a
      <4>1. j <= a \/ b <= j
        BY <3>1, NothingBetween DEF b
      <4>2. j <= a \/ c <= j
        BY <4>1, <3>1, <1>1, NothingBetween DEF c, Units
      <4>3. next'[i] = c
        BY <3>2, <1>1, <1>4, <1>7
      <4> QED BY <4>2, <4>3, <3>2
    <3>3. CASE i # a
      BY <3>1, <3>3, <1>4, <1>7, <2>1, NothingBetween
    <3> QED BY <3>2, <3>3
  <2>5. ASSUME i # 0 PROVE prev'[i] \in Live \ {b} /\ next'[prev'[i]] = i
    <3>1. CASE i = c
      <4>1. prev'[i] = a /\ a # b
        BY <3>1, <1>1, <1>4, <1>7, <2>1 DEF Units
      <4>2. next'[a] = c
        BY <4>1, <1>1, <1>4
      <4> QED BY <3>1, <4>1, <4>2
    <3>2. CASE i # c
      <4>1. prev[i] \in Live /\ next[prev[i]] = i /\ prev[i] \in Units
        BY <2>1, <2>5 DEF Live
      <4>2. prev[i] # b /\ prev[i] # a
        BY <4>1, <3>2, <1>7 DEF b, c
      <4>3. prev'[i] = prev[i]
        BY <3>2, <1>4, <1>7, <2>1
      <4> QED BY <4>1, <4>2, <4>3, <1>4
    <3> QED BY <3>1, <3>2
  <2> QED BY <2>2, <2>3, <2>4, <2>5
<1>8. ASSUME NEW i \in Units, i \notin Live \ {b} PROVE next'[i] = NONE
  BY <1>8, <1>4 DEF Inv, HeapInv, ListInv
<1>9. prev'[0] = NONE
  <2>1. 0 \in Units /\ 0 # b /\ 0 # c
    BY <1>1 DEF Units, NONE
  <2> QED BY <2>1, <1>4 DEF Inv, HeapInv, ListInv
<1>10. liveCount' = Cardinality(Live \ {b})
  <2>1. Cardinality(Live \ {b}) = Cardinality(Live) - 1
    BY <1>1, LiveFinite, FS_RemoveElement
  <2> QED BY <2>1 DEF PopMerge, Inv, HeapInv, ListInv
<1>11. Live \subseteq Units
  BY LiveFinite
<1>12. ListInv'
  BY <1>6, <1>7, <1>8, <1>9, <1>10, <1>11 DEF ListInv, Units
<1> QED BY <1>4, <1>5, <1>6, <1>12 DEF b, c

\* A merge keeps the invariant.
LEMMA PopMergeInv == Inv /\ PopMerge => Inv'
<1> SUFFICES ASSUME Inv, PopMerge PROVE Inv'
  OBVIOUS
<1>1. PICK a \in Live :
           /\ next[a] # NONE /\ Top(<<ranks[a], a>>) /\ <<ranks[a], a>> \in Nodes
           /\ len' = [len EXCEPT ![a] = @ + len[next[a]]]
           /\ next' = [next EXCEPT ![a] = next[next[a]], ![next[a]] = NONE]
           /\ prev' = [i \in Units |-> IF i = next[a] THEN NONE
                                       ELSE IF i = next[next[a]] THEN a ELSE prev[i]]
           /\ \E right, left :
                /\ right = PieceRank(len', a, next[next[a]])
                /\ left = PieceRank(len', prev[a], a)
                /\ ranks' = Refreshed(a, next[a], left, right)
                /\ heap' = Pushed(Pushed(Popped(heap, <<ranks[a], a>>), right, a), left, prev[a])
                /\ heapN' = heapN - 1 + (IF right = Invalid THEN 0 ELSE 1)
                                      + (IF left = Invalid THEN 0 ELSE 1)
  BY MergeEffect
<1>2. PICK right, left :
                /\ right = PieceRank(len', a, next[next[a]])
                /\ left = PieceRank(len', prev[a], a)
                /\ ranks' = Refreshed(a, next[a], left, right)
                /\ heap' = Pushed(Pushed(Popped(heap, <<ranks[a], a>>), right, a), left, prev[a])
                /\ heapN' = heapN - 1 + (IF right = Invalid THEN 0 ELSE 1)
                                      + (IF left = Invalid THEN 0 ELSE 1)
  BY <1>1
<1> DEFINE b == next[a]
           c == next[b]
           p == prev[a]
           t == <<ranks[a], a>>
<1>3. /\ Live' = Live \ {b}
      /\ ListInv'
      /\ len' \in [Units -> 1 .. N]
      /\ prev' \in [Units -> Units \cup {NONE}]
      /\ next' \in [Units -> Units \cup {NONE}]
      /\ \A i \in Units : len'[i] = IF i = a THEN len[a] + len[b] ELSE len[i]
      /\ \A i \in Units : next'[i] = IF i = b THEN NONE ELSE IF i = a THEN c ELSE next[i]
  BY <1>1, MergeList
<1>4. /\ a \in Units /\ b \in Live /\ b \in Units /\ a < b /\ prev[b] = a
      /\ c \in Units \cup {NONE} /\ b < c
      /\ b = a + len[a]
  BY <1>1, Neighbours DEF NONE, Units
<1>5. /\ c = b + len[b]
      /\ c # NONE => c \in Live /\ next[c] = c + len[c] /\ c < next[c] /\ next[c] \in Units \cup {NONE}
  BY <1>4, Neighbours
<1>6. /\ a # 0 => p \in Live /\ p \in Units /\ next[p] = a /\ p < a /\ p + len[p] = a
      /\ a = 0 => p = NONE
  <2>1. a # 0 => p \in Live /\ next[p] = a /\ p < a
    BY Neighbours
  <2>2. a # 0 => p \in Units /\ p + len[p] = a
    BY <2>1, Neighbours
  <2>3. a = 0 => p = NONE
    BY DEF Inv, HeapInv, ListInv
  <2> QED BY <2>1, <2>2, <2>3
<1>7. /\ len \in [Units -> 1 .. N] /\ ranks \in [Units -> 0 .. Invalid]
      /\ heap \in [Nodes -> Nat] /\ \A u \in Nodes : u[1] = Invalid => heap[u] = 0
      /\ table \in [Intervals -> 0 .. Invalid]
      /\ heapN \in Int /\ liveCount \in 1 .. N /\ heapN + 2 * liveCount < 3 * N
  BY DEF Inv, TypeOK, HeapInv
<1>8. /\ UNCHANGED <<table, phase, cur, out>>
      /\ phase = "merge" /\ liveCount >= 2 /\ liveCount' = liveCount - 1
  BY DEF PopMerge
<1> HIDE DEF b, c, p
<1>9. right \in 0 .. Invalid
  <2>1. CASE c = NONE
    BY <1>2, <2>1 DEF PieceRank, b, c, Invalid
  <2>2. CASE c # NONE
    <3>1. a # NONE /\ c \in Units /\ c # a /\ a \in Int /\ b \in Int /\ next[c] \in 0 .. N
      BY <1>4, <1>5, <2>2 DEF Units, NONE
    <3>2. len'[a] = len[a] + len[b] /\ len'[c] = len[c] /\ len[a] \in Int /\ len[b] \in Int /\ len[c] \in Int
      BY <1>3, <1>4, <1>7, <3>1
    <3>3. a + len'[a] + len'[c] = next[c]
      BY <3>1, <3>2, <1>4, <1>5, <2>2
    <3>4. <<a, next[c]>> \in Intervals
      BY <1>4, <1>5, <2>2, <3>1 DEF Units, Intervals
    <3>5. right = table[<<a, next[c]>>]
      BY <1>2, <2>2, <3>1, <3>3, <1>8 DEF PieceRank, b, c, p
    <3> QED BY <3>4, <3>5, <1>7
  <2> QED BY <2>1, <2>2
<1>10. left \in 0 .. Invalid /\ (left # Invalid => a # 0 /\ p \in Units)
  <2>1. CASE a = 0
    BY <1>2, <1>6, <2>1 DEF PieceRank, p, Invalid
  <2>2. CASE a # 0
    <3>1. a # NONE /\ p # NONE /\ p # a /\ a \in Int /\ p \in Int /\ c \in 0 .. N /\ b \in Int
      BY <1>4, <1>6, <2>2 DEF Units, NONE
    <3>2. len'[a] = len[a] + len[b] /\ len'[p] = len[p] /\ len[a] \in Int /\ len[b] \in Int /\ len[p] \in Int
      BY <1>3, <1>4, <1>6, <1>7, <2>2, <3>1
    <3>3. p + len'[p] + len'[a] = c
      BY <3>1, <3>2, <1>4, <1>5, <1>6, <2>2
    <3>4. <<p, c>> \in Intervals
      BY <1>4, <1>6, <2>2, <3>1 DEF Units, Intervals
    <3>5. left = table[<<p, c>>]
      BY <1>2, <3>1, <3>3, <1>8 DEF PieceRank, p
    <3> QED BY <3>4, <3>5, <1>6, <1>7, <2>2
  <2> QED BY <2>1, <2>2
<1>11. ranks' = [i \in Units |-> IF i = b THEN Invalid ELSE IF i = a THEN right
                               ELSE IF i = p THEN left ELSE ranks[i]]
  BY <1>2 DEF Refreshed, b, p
<1>12. ranks' \in [Units -> 0 .. Invalid]
  BY <1>7, <1>9, <1>10, <1>11 DEF Invalid
<1> DEFINE h1 == Popped(heap, t)
           h2 == Pushed(h1, right, a)
<1>13. /\ h1 \in [Nodes -> Nat]
       /\ \A u \in Nodes : u[1] = Invalid => h1[u] = 0
       /\ \A u \in Nodes : u # t => h1[u] = heap[u]
  <2>1. t \in Nodes /\ heap[t] > 0
    BY <1>1 DEF Top
  <2>2. heap[t] - 1 \in Nat
    BY <1>7, <2>1
  <2>3. /\ h1 \in [Nodes -> Nat]
        /\ \A u \in Nodes : h1[u] = IF u = t THEN heap[t] - 1 ELSE heap[u]
    BY <1>7, <2>1, <2>2 DEF Popped
  <2>4. t[1] # Invalid
    BY <1>7, <2>1
  <2> QED BY <1>7, <2>3, <2>4
<1> HIDE DEF h1
<1>14. /\ h2 \in [Nodes -> Nat]
       /\ \A u \in Nodes : u[1] = Invalid => h2[u] = 0
       /\ \A u \in Nodes : h2[u] >= h1[u]
       /\ right # Invalid => h2[<<right, a>>] > 0
  BY <1>4, <1>9, <1>13, PushedFacts
<1> HIDE DEF h2
<1>15. heap' = Pushed(h2, left, p)
  BY <1>2 DEF h1, h2, p
<1>16. /\ heap' \in [Nodes -> Nat]
       /\ \A u \in Nodes : u[1] = Invalid => heap'[u] = 0
       /\ \A u \in Nodes : heap'[u] >= h2[u]
       /\ left # Invalid => heap'[<<left, p>>] > 0
  BY <1>10, <1>14, <1>15, PushedFacts
<1>17. heapN' \in Int /\ heapN' <= heapN + 1
  <2>1. heapN' = heapN - 1 + (IF right = Invalid THEN 0 ELSE 1) + (IF left = Invalid THEN 0 ELSE 1)
    BY <1>2
  <2> QED BY <1>7, <2>1
<1>18. liveCount' \in 1 .. N /\ heapN' + 2 * liveCount' < 3 * N /\ heapN' <= 3 * N
  <2>1. liveCount \in Int /\ N \in Int /\ liveCount >= 2 /\ liveCount <= N
    BY <1>7, <1>8
  <2>2. liveCount' \in Int /\ liveCount' >= 1 /\ liveCount' <= N
    BY <1>8, <2>1
  <2>3. 2 * liveCount' = 2 * liveCount - 2
    BY <1>8, <2>1
  <2>4. heapN \in Int /\ heapN + 2 * liveCount < 3 * N
    BY <1>7
  <2>5. heapN' + 2 * liveCount' < 3 * N
    BY <1>17, <2>1, <2>3, <2>4
  <2>6. heapN' <= 3 * N
    <3>1. 2 * liveCount <= 2 * N /\ 2 * liveCount >= 4 /\ 2 * liveCount \in Int
      BY <2>1
    <3>2. heapN + 1 <= 3 * N
      BY <3>1, <2>1, <2>4
    <3> QED BY <1>17, <2>1, <2>4, <3>2
  <2> QED BY <2>1, <2>2, <2>5, <2>6
<1>19. TypeOK'
  BY <1>3, <1>8, <1>12, <1>16, <1>17, <1>18 DEF Inv, TypeOK
<1>20. ASSUME NEW i \in Live, i # b PROVE ranks'[i] = PieceRank(len', i, next'[i])
  <2>1. i \in Units
    BY DEF Live
  <2>2. CASE i = a
    <3>1. ranks'[a] = right /\ next'[a] = c
      BY <1>3, <1>4, <1>11, <1>20, <2>2
    <3> QED BY <1>2, <2>2, <3>1 DEF b, c
  <2>3. CASE i # a /\ i = p
    <3>1. a # 0
      BY <2>1, <2>3, <1>6 DEF Units, NONE
    <3>2. next'[p] = a
      BY <3>1, <1>3, <1>6, <1>20, <2>3
    <3>3. ranks'[p] = left
      BY <1>11, <1>20, <2>1, <2>3
    <3> QED BY <1>2, <2>3, <3>2, <3>3 DEF p
  <2>4. CASE i # a /\ i # p
    <3>1. ranks'[i] = ranks[i] /\ next'[i] = next[i] /\ len'[i] = len[i]
      BY <1>3, <1>11, <1>20, <2>1, <2>4
    <3>2. ranks[i] = PieceRank(len, i, next[i])
      BY DEF Inv, HeapInv
    <3>3. next[i] # NONE => next[i] # a /\ next[i] \in Units
      BY <2>4, Neighbours DEF p, Live
    <3>4. next[i] # NONE => len'[next[i]] = len[next[i]]
      BY <3>3, <1>3
    <3> QED BY <3>1, <3>2, <3>4, <1>8 DEF PieceRank
  <2> QED BY <2>2, <2>3, <2>4
<1>21. ASSUME NEW i \in Units, i \notin Live \ {b} PROVE ranks'[i] = Invalid
  <2>1. CASE i = b
    BY <1>11, <2>1, <1>21
  <2>2. CASE i # b
    <3>1. i \notin Live /\ i # a
      BY <2>2, <1>21
    <3>2. i # p
      BY <3>1, <1>6, <1>21 DEF Units, NONE
    <3>3. ranks[i] = Invalid
      BY <3>1, <1>21 DEF Inv, HeapInv
    <3> QED BY <3>1, <3>2, <3>3, <2>2, <1>11, <1>21
  <2> QED BY <2>1, <2>2
<1>22. ASSUME NEW i \in Live, i # b, ranks'[i] # Invalid PROVE heap'[<<ranks'[i], i>>] > 0
  <2>1. i \in Units
    BY DEF Live
  <2>2. ranks'[i] \in 0 .. Invalid /\ <<ranks'[i], i>> \in Nodes
    BY <2>1, <1>12 DEF Nodes
  <2>3. /\ heap'[<<ranks'[i], i>>] \in Int /\ h2[<<ranks'[i], i>>] \in Int
        /\ h1[<<ranks'[i], i>>] \in Int
        /\ heap'[<<ranks'[i], i>>] >= h2[<<ranks'[i], i>>]
        /\ h2[<<ranks'[i], i>>] >= h1[<<ranks'[i], i>>]
    BY <2>2, <1>13, <1>14, <1>16
  <2>4. CASE i = a
    <3>1. ranks'[i] = right
      BY <1>11, <1>22, <2>1, <2>4
    <3>2. h2[<<ranks'[i], i>>] > 0
      BY <3>1, <2>4, <1>14, <1>22
    <3> QED BY <3>2, <2>3
  <2>5. CASE i # a /\ i = p
    <3>1. ranks'[i] = left
      BY <1>11, <1>22, <2>1, <2>5
    <3> QED BY <3>1, <2>5, <1>16, <1>22
  <2>6. CASE i # a /\ i # p
    <3>1. ranks'[i] = ranks[i]
      BY <1>11, <1>22, <2>1, <2>6
    <3>2. heap[<<ranks[i], i>>] > 0
      BY <3>1, <1>8, <1>22 DEF Inv, HeapInv
    <3>3. <<ranks'[i], i>> # t
      BY <2>6
    <3>4. h1[<<ranks'[i], i>>] = heap[<<ranks[i], i>>]
      BY <3>1, <3>3, <2>2, <1>13
    <3> QED BY <3>2, <3>4, <2>3
  <2> QED BY <2>4, <2>5, <2>6
<1>23. HeapInv'
  <2>1. Units' = Units
    BY DEF Units
  <2>2. (\A i \in Live : ranks[i] = PieceRank(len, i, next[i]))'
    BY <1>3, <1>8, <1>20 DEF PieceRank
  <2>3. (\A i \in Units \ Live : ranks[i] = Invalid)'
    BY <1>3, <1>21
  <2>4. (\A i \in Live : ranks[i] # Invalid => heap[<<ranks[i], i>>] > 0)'
    BY <1>3, <1>22
  <2> QED BY <1>3, <1>18, <2>2, <2>3, <2>4 DEF HeapInv
<1>24. PhaseInv'
  <2>1. 0 \in Live /\ 0 # b
    BY <1>4 DEF Live, Units
  <2> QED BY <2>1, <1>3, <1>8 DEF Inv, PhaseInv
<1> QED BY <1>19, <1>23, <1>24 DEF Inv

\* When the loop ends, no live pair merges: skipping stale nodes, and stopping when
\* the heap is empty or one part is left, forgets none.
LEMMA NothingLeft ==
  ASSUME Inv, EndMerge, NEW i \in Live
  PROVE  ranks[i] = Invalid
<1> SUFFICES ASSUME ranks[i] # Invalid PROVE FALSE
  OBVIOUS
<1>1. i \in Units /\ next[i] # NONE /\ next[i] \in Live /\ i < next[i]
  BY Neighbours
<1>2. CASE Empty
  <2>1. <<ranks[i], i>> \in Nodes
    BY <1>1 DEF Inv, TypeOK, Nodes
  <2>2. heap[<<ranks[i], i>>] > 0
    BY DEF Inv, HeapInv, EndMerge
  <2> QED BY <1>2, <2>1, <2>2 DEF Empty
<1>3. CASE liveCount < 2
  <2>1. IsFiniteSet(Live) /\ Cardinality(Live) = liveCount /\ liveCount \in Int
    BY LiveFinite DEF Inv, TypeOK, HeapInv, ListInv
  <2> DEFINE S == {i}
  <2>2. Cardinality(S) = 1 /\ IsFiniteSet(S)
    BY FS_Singleton
  <2>3. next[i] \notin S
    BY <1>1 DEF Live, Units
  <2> HIDE DEF S
  <2>4. Cardinality(S \cup {next[i]}) = 2
    <3>1. Cardinality(S \cup {next[i]}) = Cardinality(S) + 1
      BY <2>2, <2>3, FS_AddElement
    <3> QED BY <3>1, <2>2
  <2>5. S \cup {next[i]} \subseteq Live
    BY <1>1 DEF S
  <2>6. Cardinality(S \cup {next[i]}) <= Cardinality(Live)
    BY <2>1, <2>5, FS_Subset
  <2> QED BY <1>3, <2>1, <2>4, <2>6
<1> QED BY <1>2, <1>3 DEF EndMerge

\* The end of the loop keeps the invariant.
LEMMA EndMergeInv == Inv /\ EndMerge => Inv'
<1> SUFFICES ASSUME Inv, EndMerge PROVE Inv'
  OBVIOUS
<1>1. /\ UNCHANGED <<table, len, ranks, prev, next, heap, heapN, liveCount, cur, out>>
      /\ phase = "merge" /\ phase' = "emit"
  BY DEF EndMerge
<1>2. Live' = Live
  BY <1>1 DEF Live
<1>3. TypeOK'
  BY <1>1 DEF Inv, TypeOK
<1>4. ListInv'
  BY <1>1, <1>2 DEF Inv, HeapInv, ListInv
<1>5. HeapInv'
  <2>1. (\A i \in Live : ranks[i] = PieceRank(len, i, next[i]))'
    BY <1>1, <1>2 DEF Inv, HeapInv, PieceRank
  <2> QED BY <1>1, <1>2, <1>4, <2>1 DEF Inv, HeapInv
<1>6. \A i \in Live : ranks[i] = Invalid
  BY NothingLeft
<1>7. Emitted'
  <2>1. cur = 0 /\ out = <<>> /\ cur \in Live
    BY <1>1 DEF Inv, PhaseInv
  <2>2. {b \in Live : b < cur} = {}
    BY <2>1 DEF Live, Units
  <2> QED BY <1>1, <1>2, <2>1, <2>2 DEF Emitted
<1>8. PhaseInv'
  BY <1>1, <1>2, <1>6, <1>7 DEF Inv, PhaseInv
<1> QED BY <1>3, <1>5, <1>8 DEF Inv

\* A step of the walk keeps the invariant: it hands out the next part from the left.
LEMMA EmitPartInv == Inv /\ EmitPart => Inv'
<1> SUFFICES ASSUME Inv, EmitPart PROVE Inv'
  OBVIOUS
<1>1. /\ UNCHANGED <<table, len, ranks, prev, next, heap, heapN, liveCount>>
      /\ phase = "emit" /\ cur \in Live
      /\ phase' = IF next[cur] = NONE THEN "done" ELSE "emit"
      /\ out' = Append(out, <<cur, cur + len[cur]>>) /\ cur' = next[cur]
  BY DEF EmitPart, Inv, PhaseInv
<1>2. Live' = Live
  BY <1>1 DEF Live
<1>3. /\ cur \in Units /\ next[cur] \in Units \cup {NONE} /\ cur < next[cur]
      /\ next[cur] = cur + len[cur]
      /\ next[cur] # NONE => next[cur] \in Live
  BY <1>1, Neighbours
<1>4. next[cur] \in 1 .. N
  BY <1>3 DEF Units, NONE
<1>5. out \in Seq(Units \X (1 .. N))
  BY DEF Inv, TypeOK
<1>6. out' = Append(out, <<cur, next[cur]>>) /\ out' \in Seq(Units \X (1 .. N))
  BY <1>1, <1>3, <1>4, <1>5
<1>7. TypeOK'
  BY <1>1, <1>3, <1>6 DEF Inv, TypeOK
<1>8. ListInv'
  BY <1>1, <1>2 DEF Inv, HeapInv, ListInv
<1>9. HeapInv'
  <2>1. (\A i \in Live : ranks[i] = PieceRank(len, i, next[i]))'
    BY <1>1, <1>2 DEF Inv, HeapInv, PieceRank
  <2> QED BY <1>1, <1>2, <1>8, <2>1 DEF Inv, HeapInv
<1>10. {b \in Live : b < next[cur]} = {b \in Live : b < cur} \cup {cur}
  <2>1. ASSUME NEW b \in Live PROVE b < next[cur] <=> b < cur \/ b = cur
    <3>1. b \in Int /\ cur \in Int /\ next[cur] \in Int
      BY <1>3, <1>4 DEF Live, Units
    <3>2. cur < b => next[cur] <= b
      BY <1>1, NothingBetween
    <3> QED BY <3>1, <3>2, <1>3
  <2> QED BY <2>1, <1>1
<1>11. /\ Len(out) \in Nat /\ Len(out') = Len(out) + 1
       /\ \A i \in 1 .. Len(out) : out'[i] = out[i]
       /\ out'[Len(out) + 1] = <<cur, next[cur]>>
  BY <1>5, <1>6
<1>12. Emitted
  BY <1>1 DEF Inv, PhaseInv
<1>13. Emitted'
  <2>1. {out'[i] : i \in 1 .. Len(out')} = {out[i] : i \in 1 .. Len(out)} \cup {<<cur, next[cur]>>}
    <3>1. 1 .. Len(out') = (1 .. Len(out)) \cup {Len(out) + 1}
      BY <1>11
    <3> QED BY <3>1, <1>11
  <2>2. {<<a, next[a]>> : a \in {b \in Live : b < next[cur]}}
          = {<<a, next[a]>> : a \in {b \in Live : b < cur}} \cup {<<cur, next[cur]>>}
    BY <1>10
  <2>3. \A i \in 1 .. Len(out) : out[i][1] \in Int /\ out[i][1] < cur
    BY <1>5, <1>12 DEF Emitted, Units
  <2>4. \A i \in 1 .. Len(out') : i \in 1 .. Len(out) \/ i = Len(out) + 1
    BY <1>11
  <2>5. \A i \in 1 .. Len(out') : out'[i][1] < next[cur]
    <3>1. cur \in Int /\ next[cur] \in Int
      BY <1>3, <1>4 DEF Units
    <3> QED BY <3>1, <2>3, <2>4, <1>3, <1>11
  <2>6. \A i, j \in 1 .. Len(out') : i < j => out'[i][1] < out'[j][1]
    <3> SUFFICES ASSUME NEW i \in 1 .. Len(out'), NEW j \in 1 .. Len(out'), i < j
                 PROVE  out'[i][1] < out'[j][1]
      OBVIOUS
    <3>1. i \in 1 .. Len(out)
      BY <1>11
    <3>2. CASE j \in 1 .. Len(out)
      BY <3>1, <3>2, <1>11, <1>12 DEF Emitted
    <3>3. CASE j = Len(out) + 1
      BY <3>1, <3>3, <1>11, <2>3
    <3> QED BY <3>2, <3>3, <2>4
  <2>7. {out'[i] : i \in 1 .. Len(out')} = {<<a, next[a]>> : a \in {b \in Live : b < next[cur]}}
    BY <2>1, <2>2, <1>12 DEF Emitted
  <2> QED BY <1>1, <1>2, <2>5, <2>6, <2>7 DEF Emitted
<1>14. PhaseInv'
  <2>1. \A i \in Live : ranks[i] = Invalid
    BY <1>1 DEF Inv, PhaseInv
  <2> QED BY <2>1, <1>1, <1>2, <1>3, <1>13 DEF PhaseInv
<1> QED BY <1>7, <1>9, <1>14 DEF Inv

-----------------------------------------------------------------------------
\* The invariant is inductive.
THEOREM HeapLoopInductive == Spec => []Inv
<1>1. Init => Inv
  BY InitInv
<1>2. Inv /\ [Next]_vars => Inv'
  <2> SUFFICES ASSUME Inv, [Next]_vars PROVE Inv'
    OBVIOUS
  <2>1. CASE PopStale
    BY <2>1, PopStaleInv
  <2>2. CASE PopMerge
    BY <2>2, PopMergeInv
  <2>3. CASE EndMerge
    BY <2>3, EndMergeInv
  <2>4. CASE EmitPart
    BY <2>4, EmitPartInv
  <2>5. CASE UNCHANGED vars
    <3>1. /\ UNCHANGED <<table, len, ranks, prev, next, heap>>
          /\ UNCHANGED <<heapN, liveCount, phase, cur, out>>
      BY <2>5 DEF vars
    <3>2. Live' = Live
      BY <3>1 DEF Live
    <3>3. TypeOK'
      BY <3>1 DEF Inv, TypeOK
    <3>4. ListInv'
      BY <3>1, <3>2 DEF Inv, HeapInv, ListInv
    <3>5. HeapInv'
      <4>1. (\A i \in Live : ranks[i] = PieceRank(len, i, next[i]))'
        BY <3>1, <3>2 DEF Inv, HeapInv, PieceRank
      <4> QED BY <3>1, <3>2, <3>4, <4>1 DEF Inv, HeapInv
    <3>6. PhaseInv'
      BY <3>1, <3>2 DEF Inv, PhaseInv, Emitted
    <3> QED BY <3>3, <3>5, <3>6 DEF Inv
  <2>6. Returned => UNCHANGED vars
    BY DEF Returned
  <2> QED BY <2>1, <2>2, <2>3, <2>4, <2>5, <2>6 DEF Next
<1> QED BY <1>1, <1>2, PTL DEF Spec

\* Every variable keeps its type and the heap fits its buffer: heapify and push never
\* write behind the 3 * n nodes encodeChunkScratch allocates.
THEOREM HeapFits == Spec => []TypeOK
<1>1. Inv => TypeOK
  BY DEF Inv
<1> QED BY <1>1, HeapLoopInductive, PTL

\* The list tiles the chunk, the cached ranks are current, and every rank that merges
\* has its node in the heap.
THEOREM CacheCurrent == Spec => []HeapInv
<1>1. Inv => HeapInv
  BY DEF Inv
<1> QED BY <1>1, HeapLoopInductive, PTL

-----------------------------------------------------------------------------
\* Where greedy BPE says a part ends is where the list says it does.
LEMMA GreedyEnd ==
  ASSUME Inv, NEW a \in Live
  PROVE  Greedy!End(a) = next[a]
<1> DEFINE P(e) == a < e /\ \A f \in Live \cup {N} : a < f => e <= f
<1>1. a \in Int /\ Live \subseteq Int /\ N \in Int
  BY DEF Live, Units
<1>2. next[a] \in Live \cup {N} /\ a < next[a] /\ next[a] <= N /\ next[a] \in Int
  <2>1. next[a] \in Units \cup {N} /\ a < next[a] /\ (next[a] # N => next[a] \in Live)
    BY Neighbours DEF NONE
  <2>2. next[a] <= N /\ next[a] \in Int
    BY <2>1 DEF Units
  <2> QED BY <2>1, <2>2
<1>3. P(next[a])
  BY <1>1, <1>2, NothingBetween
<1>4. ASSUME NEW e \in Live \cup {N}, P(e) PROVE e = next[a]
  <2>1. next[a] <= e /\ e <= next[a]
    BY <1>2, <1>3, <1>4
  <2>2. e \in Int /\ next[a] \in Int
    BY <1>1, <1>2
  <2> QED BY <2>1, <2>2
<1>5. Greedy!End(a) = CHOOSE e \in Live \cup {N} : P(e)
  BY DEF Greedy!End
<1> HIDE DEF P
<1>6. (CHOOSE e \in Live \cup {N} : P(e)) = next[a]
  BY <1>2, <1>3, <1>4
<1> QED BY <1>5, <1>6

\* The cache holds the ranks greedy BPE chooses from.
LEMMA GreedyRank ==
  ASSUME Inv, NEW a \in Live
  PROVE  Greedy!PairRank(a) = ranks[a]
<1>1. Greedy!End(a) = next[a]
  BY GreedyEnd
<1>2. CASE next[a] = NONE
  <2>1. ranks[a] = Invalid
    BY <1>2, Neighbours
  <2> QED BY <1>1, <1>2, <2>1 DEF Greedy!PairRank, Greedy!Invalid, Invalid, NONE
<1>3. CASE next[a] # NONE
  <2> DEFINE b == next[a]
             c == next[b]
  <2>1. /\ a \in Units /\ b \in Units /\ b \in Live /\ a < b /\ b < c
        /\ c \in Units \cup {NONE} /\ ranks[a] = table[<<a, c>>]
    BY <1>3, Neighbours
  <2>2. Greedy!End(b) = c
    BY <2>1, GreedyEnd
  <2> HIDE DEF b, c
  <2>3. <<a, b, c>> \in {q \in (0 .. N) \X (0 .. N) \X (0 .. N) : q[1] < q[2] /\ q[2] < q[3]}
    BY <2>1 DEF Units, NONE
  <2>4. Greedy!PairRank(a) = table[<<a, c>>]
    <3>1. Greedy!End(a) = b /\ b # N
      BY <1>1, <1>3 DEF b, NONE
    <3> QED BY <3>1, <2>2, <2>3 DEF Greedy!PairRank
  <2> QED BY <2>1, <2>4
<1> QED BY <1>2, <1>3

\* A merge of the loop is a merge of greedy BPE.
LEMMA MergeIsGreedy == Inv /\ Inv' /\ PopMerge => Greedy!Merge
<1> SUFFICES ASSUME Inv, PopMerge PROVE Greedy!Merge
  OBVIOUS
<1>1. PICK a \in Live :
           /\ next[a] # NONE /\ Top(<<ranks[a], a>>) /\ <<ranks[a], a>> \in Nodes
           /\ len' = [len EXCEPT ![a] = @ + len[next[a]]]
           /\ next' = [next EXCEPT ![a] = next[next[a]], ![next[a]] = NONE]
           /\ prev' = [i \in Units |-> IF i = next[a] THEN NONE
                                       ELSE IF i = next[next[a]] THEN a ELSE prev[i]]
  BY MergeEffect
<1>2. Live' = Live \ {next[a]}
  BY <1>1, MergeList
<1>3. \A i \in Live : i \in Units /\ ranks[i] \in 0 .. Invalid
  BY DEF Live, Inv, TypeOK
<1>4. ranks[a] # Invalid
  <2> DEFINE t == <<ranks[a], a>>
  <2>1. t \in Nodes /\ heap[t] > 0
    BY <1>1 DEF Top
  <2>2. t[1] = Invalid => heap[t] = 0
    BY <2>1 DEF Inv, TypeOK
  <2> QED BY <2>1, <2>2
<1>5. ASSUME NEW e \in Live
      PROVE  ranks[a] < ranks[e] \/ (ranks[a] = ranks[e] /\ a <= e)
  <2>1. CASE ranks[e] = Invalid
    BY <1>3, <1>4, <2>1 DEF Invalid
  <2>2. CASE ranks[e] # Invalid
    <3>1. <<ranks[e], e>> \in Nodes
      BY <1>3 DEF Nodes
    <3>2. heap[<<ranks[e], e>>] > 0
      BY <2>2 DEF Inv, HeapInv, PopMerge
    <3>3. <<ranks[a], a>> = <<ranks[e], e>> \/ Less(<<ranks[a], a>>, <<ranks[e], e>>)
      BY <1>1, <3>1, <3>2 DEF Top
    <3>4. a \in Int /\ e \in Int
      BY <1>3 DEF Units
    <3> QED BY <3>3, <3>4 DEF Less
  <2> QED BY <2>1, <2>2
<1>6. Greedy!Best(a)
  <2>1. \A e \in Live : Greedy!PairRank(e) = ranks[e]
    BY GreedyRank
  <2>2. Greedy!Invalid = Invalid
    BY DEF Greedy!Invalid, Invalid
  <2> QED BY <2>1, <2>2, <1>4, <1>5 DEF Greedy!Best
<1>7. Greedy!End(a) = next[a]
  BY GreedyEnd
<1>8. table' = table /\ phase = "merge" /\ phase' = "merge"
  BY DEF PopMerge
<1> QED BY <1>2, <1>6, <1>7, <1>8 DEF Greedy!Merge

\* The last step of the walk hands out the parts of greedy BPE, from left to right.
LEMMA LastPartIsEmit == Inv /\ Inv' /\ EmitPart /\ phase' = "done" => Greedy!Emit
<1> SUFFICES ASSUME Inv, Inv', EmitPart, phase' = "done" PROVE Greedy!Emit
  OBVIOUS
<1>1. /\ UNCHANGED <<table, prev, next>> /\ phase = "emit"
  BY DEF EmitPart
<1>2. Live' = Live
  BY <1>1 DEF Live
<1>3. \A a \in Live : Greedy!PairRank(a) = Greedy!Invalid
  <2>1. \A a \in Live : ranks[a] = Invalid
    BY <1>1 DEF Inv, PhaseInv
  <2> QED BY <2>1, GreedyRank DEF Greedy!Invalid, Invalid
<1>4. cur' = NONE /\ Emitted'
  BY DEF Inv, PhaseInv
<1>5. {b \in Live : b < NONE} = Live
  BY DEF Live, Units, NONE
<1>6. {out'[i] : i \in 1 .. Len(out')} = {<<a, next[a]>> : a \in Live}
  BY <1>1, <1>2, <1>4, <1>5 DEF Emitted
<1>7. {<<a, next[a]>> : a \in Live} = {<<a, Greedy!End(a)>> : a \in Live}
  BY GreedyEnd
<1>8. \A i, j \in 1 .. Len(out') : i < j => out'[i][1] < out'[j][1]
  BY <1>4 DEF Emitted
<1>9. Greedy!Lists(out')
  BY <1>6, <1>7, <1>8 DEF Greedy!Lists
<1> QED BY <1>1, <1>2, <1>3, <1>9 DEF Greedy!Emit

\* The heap loop of bpe_heap.zig implements greedy BPE, for every text and every vocab:
\* it merges the leftmost pair of the lowest rank, whatever stale nodes the heap holds.
THEOREM HeapLoopIsGreedy == Spec => ImplementsGreedy
<1>1. Init => Greedy!GInit
  <2> SUFFICES ASSUME Init PROVE Greedy!GInit
    OBVIOUS
  <2>1. Live = Units
    BY DEF Init, Live, Units, NONE
  <2>2. ASSUME NEW p \in {q \in (0 .. N) \X (0 .. N) \X (0 .. N) : q[1] < q[2] /\ q[2] < q[3]}
        PROVE  table[<<p[1], p[3]>>] \in 0 .. Invalid
    <3>1. <<p[1], p[3]>> \in Intervals
      BY DEF Intervals
    <3> QED BY <3>1 DEF Init
  <2>3. 0 .. Invalid = Greedy!Ranks \cup {Greedy!Invalid}
    BY DEF Invalid, Greedy!Ranks, Greedy!Invalid
  <2>4. Live = Greedy!Units
    BY <2>1 DEF Units, Greedy!Units
  <2> QED BY <2>2, <2>3, <2>4 DEF Init, Greedy!GInit, Greedy!Pairs
<1>2. Inv /\ Inv' /\ [Next]_vars =>
        [Greedy!Merge \/ Greedy!Emit]_<<[p \in {q \in (0 .. N) \X (0 .. N) \X (0 .. N) :
                              q[1] < q[2] /\ q[2] < q[3]} |-> table[<<p[1], p[3]>>]],
                              Live, IF phase = "done" THEN out ELSE <<>> >>
  <2> SUFFICES ASSUME Inv, Inv', [Next]_vars
               PROVE  \/ Greedy!Merge \/ Greedy!Emit
                      \/ /\ table' = table /\ Live' = Live
                         /\ (IF phase = "done" THEN out ELSE <<>>)'
                              = (IF phase = "done" THEN out ELSE <<>>)
    OBVIOUS
  <2>1. CASE PopStale
    BY <2>1 DEF PopStale, Live
  <2>2. CASE PopMerge
    BY <2>2, MergeIsGreedy
  <2>3. CASE EndMerge
    BY <2>3 DEF EndMerge, Live
  <2>4. CASE EmitPart
    <3>1. CASE phase' = "done"
      BY <2>4, <3>1, LastPartIsEmit
    <3>2. CASE phase' # "done"
      BY <2>4, <3>2 DEF EmitPart, Live
    <3> QED BY <3>1, <3>2
  <2>5. CASE Returned
    BY <2>5 DEF Returned, vars, Live
  <2>6. CASE UNCHANGED vars
    BY <2>6 DEF vars, Live
  <2> QED BY <2>1, <2>2, <2>3, <2>4, <2>5, <2>6 DEF Next
<1> QED BY <1>1, <1>2, HeapLoopInductive, PTL DEF Spec, ImplementsGreedy, Greedy!GSpec
=============================================================================
