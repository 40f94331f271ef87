------------------------------ MODULE MergeScan ------------------------------
(***************************************************************************)
(* bpe.zig, the merge loops for short chunks.  Both keep the rank of each  *)
(* pair in an array and find the next merge by scanning it (scanMin: the   *)
(* first of the least).  encodeChunkScratch, encodeSpBpe and the tail of   *)
(* encodeByteLevelRawScratch close the gap after a merge by shifting the   *)
(* arrays; encodeByteLevelRawLinked, for up to RAW_LINKED_LIMIT bytes,     *)
(* leaves a hole and links around it.                                      *)
(*                                                                         *)
(* A symbol is the piece of the chunk it stands for, as <<start, end>>:    *)
(* the (parts_start, parts_len) of the one, the token id of the other.     *)
(* The vocab (by_bytes, or the merge graph, where the rank of a pair can   *)
(* depend on where it is split) is a table of ranks: any vocab, any text.  *)
(* The names say scan where those of MergeHeap, the other loop, are taken. *)
(***************************************************************************)
EXTENDS Integers, Sequences, FiniteSets

CONSTANTS
  ScanN,        \* chunk.len
  ScanMaxRank   \* bound: the largest rank

\* A chunk is not empty.
Chunk == ScanN \in Nat \ {0} /\ ScanMaxRank \in Nat
ASSUME ScanAssumption == Chunk

VARIABLES
  scanTable,            \* the rank of the pair a .. b-1, b .. c-1
  linked,               \* 1: the linked loop; 0: the shifting one
  symbols, scanRanks,
  live,                 \* the shifting loop: how many symbols are left
  scanNext, scanPrev,   \* the linked loop: the list of symbols that are left
  scanPhase,
  scanCur,              \* the symbol that is emitted next
  scanOut

scanVars ==
  <<scanTable, linked, symbols, scanRanks, live, scanNext, scanPrev, scanPhase, scanCur, scanOut>>

Indices == 0 .. ScanN - 1
NoRank  == ScanMaxRank + 1
NoPrev  == ScanN
Triples == {p \in (0 .. ScanN) \X (0 .. ScanN) \X (0 .. ScanN) : p[1] < p[2] /\ p[2] < p[3]}

\* The rank of two neighbouring symbols, and the symbol they make.
PairRank(l, r) == scanTable[<<l[1], l[2], r[2]>>]
Result(l, r)   == <<l[1], r[2]>>

ScanInit ==
  /\ scanTable \in [Triples -> 0 .. NoRank]
  /\ linked \in {0, 1}
  /\ symbols = [i \in Indices |-> <<i, i + 1>>]
  /\ scanRanks = [i \in Indices |->
                    IF i + 1 < ScanN THEN scanTable[<<i, i + 1, i + 2>>] ELSE NoRank]
  /\ live = ScanN
  /\ scanNext = [i \in Indices |-> i + 1]
  /\ scanPrev = [i \in Indices |-> IF i = 0 THEN NoPrev ELSE i - 1]
  /\ scanPhase = "merge"
  /\ scanCur = 0
  /\ scanOut = <<>>

\* Fault: the last of the least ranks wins.
ScanLast(i, m) ==
  /\ scanRanks[i] # NoRank
  /\ \A j \in 0 .. m - 1 :
       scanRanks[i] < scanRanks[j] \/ (scanRanks[i] = scanRanks[j] /\ j <= i)

\* scanMin of the first m ranks finds i.
ScanMin(i, m) ==
  /\ i \in 0 .. m - 1 /\ scanRanks[i] # NoRank
  /\ \A j \in 0 .. m - 1 :
       scanRanks[i] < scanRanks[j] \/ (scanRanks[i] = scanRanks[j] /\ i <= j)

Scanned == IF linked = 1 THEN ScanN ELSE live - 1

-----------------------------------------------------------------------------
(* The shifting loop.                                                      *)

\* Close the gap after i: what lies beyond the new end stays as it was.
Shifted(f, i) == [j \in Indices |-> IF i < j /\ j + 1 < live THEN f[j + 1] ELSE f[j]]

MergeShift ==
  /\ scanPhase = "merge" /\ linked = 0 /\ live >= 2
  /\ \E i \in Indices :
       /\ ScanMin(i, live - 1)
       /\ symbols' = [Shifted(symbols, i) EXCEPT ![i] = Result(symbols[i], symbols[i + 1])]
       /\ scanRanks' = [j \in Indices |->
            IF j = i THEN IF i + 1 < live - 1 THEN PairRank(symbols'[i], symbols'[i + 1])
                          ELSE NoRank
            ELSE IF j = i - 1 THEN PairRank(symbols'[j], symbols'[i])
            ELSE Shifted(scanRanks, i)[j]]
  /\ live' = live - 1
  /\ UNCHANGED <<scanTable, linked, scanNext, scanPrev, scanPhase, scanCur, scanOut>>

-----------------------------------------------------------------------------
(* The linked loop.  It gives up, returning null, when next[i] is past the *)
(* end or the pair is not in the graph; no pair the scan finds is such.    *)

RanksAfter(i, dead, right, left) ==
  [j \in Indices |-> IF j = dead THEN NoRank ELSE IF j = i THEN right
                   ELSE IF j = scanPrev[i] THEN left ELSE scanRanks[j]]

Backlink(i, right) == IF right < ScanN THEN [scanPrev EXCEPT ![right] = i] ELSE scanPrev

MergeLink ==
  /\ scanPhase = "merge" /\ linked = 1
  /\ \E i \in Indices :
       LET dead  == scanNext[i]
           made  == Result(symbols[i], symbols[dead])
           right == scanNext[dead]
           left  == scanPrev[i]
       IN  /\ ScanMin(i, ScanN)
           /\ dead < ScanN
           /\ symbols' = [symbols EXCEPT ![i] = made]
           /\ scanNext' = [scanNext EXCEPT ![i] = right]
           /\ scanPrev' = Backlink(i, right)
           /\ scanRanks' = RanksAfter(i, dead,
                         IF right < ScanN THEN PairRank(made, symbols[right]) ELSE NoRank,
                         IF left < ScanN THEN PairRank(symbols[left], made) ELSE NoRank)
  /\ UNCHANGED <<scanTable, linked, live, scanPhase, scanCur, scanOut>>

-----------------------------------------------------------------------------
\* The scan finds nothing, or there is nothing to scan.
EndScan ==
  /\ scanPhase = "merge"
  /\ \A i \in 0 .. Scanned - 1 : scanRanks[i] = NoRank
  /\ scanPhase' = "emit"
  /\ UNCHANGED <<scanTable, linked, symbols, scanRanks, live, scanNext, scanPrev, scanCur, scanOut>>

\* Where the walk over the symbols that are left goes next.
Step == IF linked = 1 THEN scanNext[scanCur] ELSE scanCur + 1

EmitSymbol ==
  /\ scanPhase = "emit"
  /\ scanOut' = Append(scanOut, symbols[scanCur])
  /\ scanCur' = Step
  /\ scanPhase' = IF scanCur' >= (IF linked = 1 THEN ScanN ELSE live) THEN "done" ELSE "emit"
  /\ UNCHANGED <<scanTable, linked, symbols, scanRanks, live, scanNext, scanPrev>>

ScanReturned == scanPhase = "done" /\ UNCHANGED scanVars

ScanStep == MergeShift \/ MergeLink \/ EndScan \/ EmitSymbol \/ ScanReturned

ScanSpec == ScanInit /\ [][ScanStep]_scanVars

-----------------------------------------------------------------------------
(* Properties.                                                             *)

\* The indices of the symbols that are left: in the linked loop, those that no
\* merge has made a hole of.
Left == IF linked = 1
        THEN {i \in Indices : ~ \E j \in Indices : symbols[j][1] < i /\ i < symbols[j][2]}
        ELSE 0 .. live - 1

\* Both loops are greedy BPE, as the heap is: which of them encodes a chunk, and so
\* where the thresholds between them lie, cannot be seen in the tokens.
ScanGreedy == INSTANCE GreedyMerge WITH
            N <- ScanN, MaxRank <- ScanMaxRank,
            rank <- scanTable,
            live <- {symbols[i][1] : i \in Left},
            out <- IF scanPhase = "done" THEN scanOut ELSE <<>>

ScanIsGreedy == ScanGreedy!GSpec
=============================================================================
