-------------------------- MODULE PrefixLogProofs ---------------------------
(***************************************************************************)
(* Proofs about PrefixLog, for every set of processes and entries, every   *)
(* hash function, sync interval, threshold and capacity, and every bound.  *)
(*                                                                         *)
(* The first part is about rows of cells: which offsets a scan reaches,    *)
(* what the index of a row holds, and what of it another row shares that   *)
(* begins with the same cells.  Three invariants are then proved, one on   *)
(* top of the other:                                                       *)
(*   - LayoutInv: whoever has the cache open is alone and works on the     *)
(*     file the path leads to; file_len is an offset that a scan reaches,  *)
(*     and each record of the index is the one a scan up to it would find; *)
(*   - HistoryInv: what the index finds of a hash was promised to the      *)
(*     callers, and behind file_len no record begins that was not;         *)
(*   - HopeInv: the file has an offset up to which all is synced and was   *)
(*     hoped for, and behind which only records begin that are, too.       *)
(* The last two are of a scan that reads what is there (ReadFaults = 0):   *)
(* with read faults, the run prefixlog_eio shows Durable violated.         *)
(***************************************************************************)
EXTENDS PrefixLog, CollectionTheorems


-----------------------------------------------------------------------------
(* Records in a row of cells.                                              *)

Recs == Entries \cup {Zeros}

\* The record of e lies at offset m.
IsRec(c, m, e) == m + e[2] <= Len(c) /\ \A j \in 1 .. e[2] : c[m + j] = <<e, j>>

End(c, m) == m + EntryAt(c, m)[2]

LEMMA RecsType ==
  /\ None \notin Recs /\ None[1] = NoKey /\ None[2] = 0
  /\ \A e \in Recs : e = <<e[1], e[2]>> /\ e[2] \in Nat /\ e[2] >= 1
  /\ \A e \in Entries : e \in Recs /\ HashOf(e) \in Hashes /\ e[1] \in Keys /\ e[1] # NoKey
  /\ HashOf(Zeros) = 0 /\ 0 \notin Hashes
  /\ \A e \in Recs : HashOf(e) \in {0} \cup Hashes
  /\ \A e \in Recs : HashOf(e) \in Hashes => e \in Entries
<1>1. \A e \in Entries : e = <<e[1], e[2]>> /\ e[2] \in Nat \ {0}
  BY LogAssumption
<1>2. NoKey \notin Keys /\ \A e \in Entries : e[1] \in Keys
  BY LogAssumption DEF Keys
<1>3. \A k \in Keys : Hash[k] \in Hashes /\ Hash[k] \in Nat \ {0}
  BY LogAssumption DEF Hashes
<1>4. 0 \notin Hashes
  BY <1>3 DEF Hashes
<1>5. Zeros[1] = NoKey /\ Zeros[2] = 1 /\ Zeros = <<Zeros[1], Zeros[2]>>
  BY DEF Zeros
<1>6. None[1] = NoKey /\ None[2] = 0
  BY DEF None
<1>7. HashOf(Zeros) = 0
  BY <1>5 DEF HashOf
<1>8. \A e \in Entries : HashOf(e) \in Hashes /\ e[1] # NoKey
  BY <1>2, <1>3 DEF HashOf
<1>9. \A e \in Recs : e = <<e[1], e[2]>> /\ e[2] \in Nat /\ e[2] >= 1
  BY <1>1, <1>5 DEF Recs
<1>10. None \notin Recs
  BY <1>6, <1>9
<1> QED BY <1>2, <1>4, <1>6, <1>7, <1>8, <1>9, <1>10 DEF Recs

LEMMA CellsType ==
  \A x \in Cells : x = <<x[1], x[2]>> /\ x[1] \in Recs \cup {None} /\ x[2] \in Nat
BY DEF Cells, Recs

LEMMA RecordRow ==
  ASSUME NEW e \in Recs
  PROVE  RecordOf(e) \in Seq(Cells) /\ Len(RecordOf(e)) = e[2]
<1>1. e[2] \in Nat
  BY RecsType
<1>2. \A j \in 1 .. e[2] : <<e, j>> \in Cells
  BY DEF Recs, Cells
<1> QED BY <1>1, <1>2 DEF RecordOf

\* The entry that is found at an offset is the one whose record lies there.
LEMMA EntryAtIs ==
  ASSUME NEW c \in Seq(Cells), NEW m \in Nat
  PROVE  /\ EntryAt(c, m) \in Recs \cup {None}
         /\ \A e \in Recs : EntryAt(c, m) = e <=> IsRec(c, m, e)
<1> DEFINE x == IF m < Len(c) THEN c[m + 1][1] ELSE None
<1>1. x \in Recs \cup {None}
  <2>1. CASE m < Len(c)
    <3>1. c[m + 1] \in Cells
      BY <2>1
    <3> QED BY <2>1, <3>1, CellsType
  <2>2. CASE ~ (m < Len(c))
    BY <2>2
  <2> QED BY <2>1, <2>2
<1>2. EntryAt(c, m) = IF m + x[2] <= Len(c) /\ SubSeq(c, m + 1, m + x[2]) = RecordOf(x)
                        THEN x ELSE None
  BY DEF EntryAt
<1>3. ASSUME NEW e \in Recs, m + e[2] <= Len(c)
      PROVE  SubSeq(c, m + 1, m + e[2]) = RecordOf(e) <=> \A j \in 1 .. e[2] : c[m + j] = <<e, j>>
  <2>1. e[2] \in Nat
    BY RecsType
  <2>2. SubSeq(c, m + 1, m + e[2]) = [j \in 1 .. e[2] |-> c[m + j]]
    BY <1>3, <2>1
  <2> QED BY <2>2 DEF RecordOf
<1>4. \A e \in Recs : IsRec(c, m, e) => x = e
  <2> SUFFICES ASSUME NEW e \in Recs, IsRec(c, m, e) PROVE x = e
    OBVIOUS
  <2>1. e[2] \in Nat /\ e[2] >= 1
    BY RecsType
  <2>2. m < Len(c) /\ c[m + 1] = <<e, 1>>
    BY <2>1 DEF IsRec
  <2> QED BY <2>2
<1> HIDE DEF x
<1>5. \A e \in Recs : e # None
  BY RecsType
<1> QED BY <1>1, <1>2, <1>3, <1>4, <1>5 DEF IsRec

LEMMA EntrySize ==
  ASSUME NEW c \in Seq(Cells), NEW m \in Nat
  PROVE  /\ EntryAt(c, m)[2] \in Nat /\ End(c, m) \in Nat
         /\ EntryAt(c, m) # None => EntryAt(c, m) \in Recs /\ IsRec(c, m, EntryAt(c, m))
         /\ EntryAt(c, m) = None => End(c, m) = m
         /\ EntryAt(c, m) # None => m < End(c, m) /\ End(c, m) <= Len(c)
<1>1. EntryAt(c, m) \in Recs \cup {None}
  BY EntryAtIs
<1>2. CASE EntryAt(c, m) = None
  BY <1>2, RecsType DEF End
<1>3. CASE EntryAt(c, m) \in Recs
  <2>1. IsRec(c, m, EntryAt(c, m))
    BY <1>3, EntryAtIs
  <2>2. EntryAt(c, m)[2] \in Nat /\ EntryAt(c, m)[2] >= 1 /\ EntryAt(c, m) # None
    BY <1>3, RecsType
  <2> QED BY <1>3, <2>1, <2>2 DEF End, IsRec
<1> QED BY <1>1, <1>2, <1>3

\* The offsets are the ones a scan reaches from 0.
LEMMA OffsetsAre ==
  ASSUME NEW c, Len(c) \in Nat, \A m \in Nat : End(c, m) \in Nat
  PROVE  /\ Offsets(c) \subseteq 0 .. Len(c)
         /\ 0 \in Offsets(c)
         /\ \A n \in 0 .. Len(c) :
              n \in Offsets(c) <=> n = 0 \/ \E m \in 0 .. n - 1 : m \in Offsets(c) /\ End(c, m) = n
<1> DEFINE N == 0 .. Len(c)
           ends == [m \in N |-> End(c, m)]
           Reached(r) == r = [n \in N |-> n = 0 \/ \E m \in 0 .. n - 1 : ends[m] = n /\ r[m]]
<1>1. Offsets(c) = {n \in N : (CHOOSE r : Reached(r))[n]}
  BY DEF Offsets, End
<1>2. \E r : Reached(r)
  <2> DEFINE Closed(S) == \A n \in N : (n = 0 \/ \E m \in 0 .. n - 1 : ends[m] = n /\ m \in S) => n \in S
             W == {n \in N : \A S \in SUBSET N : Closed(S) => n \in S}
             r == [n \in N |-> n \in W]
  <2>1. Closed(W)
    OBVIOUS
  <2>2. ASSUME NEW n \in W, n # 0 PROVE \E m \in 0 .. n - 1 : ends[m] = n /\ m \in W
    <3> SUFFICES ASSUME \A m \in 0 .. n - 1 : ~ (ends[m] = n /\ m \in W) PROVE FALSE
      OBVIOUS
    <3>1. Closed(W \ {n})
      <4> SUFFICES ASSUME NEW k \in N, k = 0 \/ \E m \in 0 .. k - 1 : ends[m] = k /\ m \in W \ {n}
                   PROVE  k \in W \ {n}
        OBVIOUS
      <4>1. k \in W
        BY <2>1
      <4>2. k # n
        BY <2>2
      <4> QED BY <4>1, <4>2
    <3>2. W \ {n} \in SUBSET N
      OBVIOUS
    <3> QED BY <3>1, <3>2
  <2>3. \A n \in N : n \in W <=> n = 0 \/ \E m \in 0 .. n - 1 : ends[m] = n /\ m \in W
    <3> HIDE DEF ends
    <3>1. \A n \in N : (n = 0 \/ \E m \in 0 .. n - 1 : ends[m] = n /\ m \in W) => n \in W
      <4>1. Closed(W) => \A n \in N : (n = 0 \/ \E m \in 0 .. n - 1 : ends[m] = n /\ m \in W) => n \in W
        <5> HIDE DEF W
        <5> QED OBVIOUS
      <4> QED BY <2>1, <4>1
    <3> HIDE DEF W
    <3> QED BY <2>2, <3>1
  <2>4. \A n \in N : \A m \in 0 .. n - 1 : m \in N
    OBVIOUS
  <2>5. \A n \in N : r[n] = (n \in W)
    OBVIOUS
  <2>6. Reached(r)
    <3>1. \A n \in N : (n \in W) = (n = 0 \/ \E m \in 0 .. n - 1 : ends[m] = n /\ r[m])
      <4> SUFFICES ASSUME NEW n \in N
                   PROVE  (n \in W) = (n = 0 \/ \E m \in 0 .. n - 1 : ends[m] = n /\ r[m])
        <5> HIDE DEF r, W, ends, N
        <5> QED OBVIOUS
      <4>1. \A m \in 0 .. n - 1 : r[m] <=> m \in W
        <5> HIDE DEF r, W, ends, N
        <5> QED BY <2>4, <2>5
      <4> HIDE DEF r, W, ends, N
      <4>2. (n \in W) <=> (n = 0 \/ \E m \in 0 .. n - 1 : ends[m] = n /\ r[m])
        BY <2>3, <4>1
      <4> DEFINE x == n \in W
                 y == n = 0 \/ \E m \in 0 .. n - 1 : ends[m] = n /\ r[m]
      <4>3. x \in BOOLEAN /\ y \in BOOLEAN /\ (x <=> y)
        BY <4>2
      <4>4. x = y
        <5> HIDE DEF x, y
        <5> QED BY <4>3
      <4> QED BY <4>4
    <3>2. r = [n \in N |-> n = 0 \/ \E m \in 0 .. n - 1 : ends[m] = n /\ r[m]]
      <4> DEFINE s == [n \in N |-> n = 0 \/ \E m \in 0 .. n - 1 : ends[m] = n /\ r[m]]
      <4>1. \A n \in N : r[n] = s[n]
        <5> HIDE DEF r, W, ends
        <5> QED BY <2>5, <3>1
      <4> QED BY <4>1
    <3> QED BY <3>2
  <2> QED BY <2>6
<1> DEFINE r == CHOOSE r : Reached(r)
<1>3. Reached(r)
  BY <1>2
<1>4. \A n \in N : r[n] = (n = 0 \/ \E m \in 0 .. n - 1 : ends[m] = n /\ r[m])
  <2> HIDE DEF r, ends
  <2> QED BY <1>3
<1>5. Offsets(c) = {n \in N : r[n]}
  BY <1>1
<1>6. \A n \in N : \A m \in 0 .. n - 1 : m \in N /\ ends[m] = End(c, m)
  OBVIOUS
<1>7. 0 \in N
  OBVIOUS
<1> HIDE DEF r, ends
<1>8. \A n \in N : n \in Offsets(c) <=> r[n]
  BY <1>5
<1>9. \A n \in N : r[n] <=> n = 0 \/ \E m \in 0 .. n - 1 : m \in Offsets(c) /\ End(c, m) = n
  <2> SUFFICES ASSUME NEW n \in N
               PROVE  r[n] <=> n = 0 \/ \E m \in 0 .. n - 1 : m \in Offsets(c) /\ End(c, m) = n
    OBVIOUS
  <2> HIDE DEF N
  <2>1. r[n] <=> n = 0 \/ \E m \in 0 .. n - 1 : ends[m] = n /\ r[m]
    BY <1>4, Zenon
  <2>2. \A m \in 0 .. n - 1 : ends[m] = End(c, m) /\ (m \in Offsets(c) <=> r[m])
    BY <1>6, <1>8, Zenon
  <2> QED BY <2>1, <2>2, Zenon
<1> QED BY <1>5, <1>7, <1>8, <1>9

LEMMA OffsetSteps ==
  ASSUME NEW c \in Seq(Cells)
  PROVE  /\ Offsets(c) \subseteq 0 .. Len(c)
         /\ 0 \in Offsets(c)
         /\ \A m \in Offsets(c) : EntryAt(c, m) # None => End(c, m) \in Offsets(c)
         /\ \A n \in Offsets(c) : n # 0 =>
              \E m \in Offsets(c) : m < n /\ EntryAt(c, m) # None /\ End(c, m) = n
<1>1. Len(c) \in Nat /\ \A m \in Nat : End(c, m) \in Nat
  BY EntrySize
<1>2. /\ Offsets(c) \subseteq 0 .. Len(c)
      /\ 0 \in Offsets(c)
      /\ \A n \in 0 .. Len(c) :
           n \in Offsets(c) <=> n = 0 \/ \E m \in 0 .. n - 1 : m \in Offsets(c) /\ End(c, m) = n
  BY <1>1, OffsetsAre
<1>3. ASSUME NEW m \in Offsets(c), EntryAt(c, m) # None PROVE End(c, m) \in Offsets(c)
  <2>1. m \in Nat
    BY <1>2
  <2>2. m < End(c, m) /\ End(c, m) <= Len(c) /\ End(c, m) \in Nat
    BY <1>1, <1>3, <2>1, EntrySize
  <2>3. m \in 0 .. End(c, m) - 1 /\ End(c, m) \in 0 .. Len(c)
    BY <2>1, <2>2
  <2> QED BY <1>2, <2>3
<1>4. ASSUME NEW n \in Offsets(c), n # 0
      PROVE  \E m \in Offsets(c) : m < n /\ EntryAt(c, m) # None /\ End(c, m) = n
  <2>1. n \in 0 .. Len(c)
    BY <1>2
  <2>2. PICK m \in 0 .. n - 1 : m \in Offsets(c) /\ End(c, m) = n
    BY <1>2, <1>4, <2>1
  <2>3. m \in Nat /\ m < n
    BY <2>1, <2>2
  <2>4. EntryAt(c, m) # None
    BY <2>2, <2>3, EntrySize
  <2> QED BY <2>2, <2>3, <2>4
<1> QED BY <1>2, <1>3, <1>4

\* Before the last offset the records lie one behind the other, without a gap.
LEMMA OffsetsInRow ==
  ASSUME NEW c \in Seq(Cells), NEW m \in Offsets(c), NEW n \in Offsets(c), m < n
  PROVE  EntryAt(c, m) # None /\ End(c, m) <= n
<1> DEFINE Good(i, j) == EntryAt(c, i) # None /\ End(c, i) <= j
           Bad == {j \in Offsets(c) : \E i \in Offsets(c) : i < j /\ ~ Good(i, j)}
<1> SUFFICES ASSUME Bad # {} PROVE FALSE
  OBVIOUS
<1>1. Offsets(c) \subseteq Nat
  BY OffsetSteps
<1>2. PICK j \in Bad : \A k \in Bad : j <= k
  <2>1. Bad \subseteq Nat
    BY <1>1
  <2> HIDE DEF Bad
  <2> QED BY <2>1, LeastNat
<1>3. PICK i \in Offsets(c) : i < j /\ ~ Good(i, j)
  OBVIOUS
<1>4. j \in Nat /\ i \in Nat /\ j \in Offsets(c) /\ j # 0
  BY <1>1, <1>3
<1>5. PICK k \in Offsets(c) : k < j /\ EntryAt(c, k) # None /\ End(c, k) = j
  BY <1>4, OffsetSteps
<1>6. k \in Nat
  BY <1>1
<1>7. i # k
  BY <1>3, <1>4, <1>5
<1>8. ~ (i < k)
  <2> SUFFICES ASSUME i < k PROVE FALSE
    OBVIOUS
  <2>1. k \notin Bad
    <3>1. ~ (j <= k)
      BY <1>4, <1>5, <1>6
    <3> HIDE DEF Bad
    <3> QED BY <1>2, <3>1
  <2>2. Good(i, k)
    BY <2>1
  <2>3. End(c, i) \in Nat
    BY <1>4, EntrySize
  <2> QED BY <1>3, <1>4, <1>5, <1>6, <2>2, <2>3
<1>9. ~ (k < i)
  <2> SUFFICES ASSUME k < i PROVE FALSE
    OBVIOUS
  <2>1. i \notin Bad
    <3>1. ~ (j <= i)
      BY <1>3, <1>4
    <3> HIDE DEF Bad
    <3> QED BY <1>2, <3>1
  <2>2. Good(k, i)
    BY <2>1
  <2> QED BY <1>3, <1>4, <1>5, <2>2
<1> QED BY <1>4, <1>6, <1>7, <1>8, <1>9

\* Row d holds what row c holds up to offset n of c.
Agree(c, d, n) == n \in Offsets(c) /\ n <= Len(d) /\ \A q \in 1 .. n : d[q] = c[q]

\* The records up to an offset are those of any row with the same cells up to there.
LEMMA AgreeEntries ==
  ASSUME NEW c \in Seq(Cells), NEW d \in Seq(Cells), NEW n, Agree(c, d, n),
         NEW m \in Offsets(c), m < n
  PROVE  EntryAt(d, m) = EntryAt(c, m) /\ End(d, m) = End(c, m)
<1>1. n \in Nat /\ m \in Nat
  BY OffsetSteps DEF Agree
<1> DEFINE e == EntryAt(c, m)
<1>2. e # None /\ End(c, m) <= n
  BY OffsetsInRow DEF Agree
<1>3. e \in Recs /\ IsRec(c, m, e)
  BY <1>1, <1>2, EntrySize
<1>4. m + e[2] <= n /\ e[2] \in Nat
  BY <1>2, <1>3, RecsType DEF End
<1> HIDE DEF e
<1>5. \A j \in 1 .. e[2] : m + j \in 1 .. n
  BY <1>1, <1>4
<1>6. IsRec(d, m, e)
  <2>1. m + e[2] <= Len(d)
    BY <1>1, <1>4 DEF Agree
  <2>2. \A j \in 1 .. e[2] : d[m + j] = <<e, j>>
    BY <1>3, <1>5 DEF Agree, IsRec
  <2> QED BY <2>1, <2>2 DEF IsRec
<1>7. EntryAt(d, m) = e
  BY <1>1, <1>3, <1>6, EntryAtIs
<1> QED BY <1>7 DEF End, e

LEMMA AgreeOffsets ==
  ASSUME NEW c \in Seq(Cells), NEW d \in Seq(Cells), NEW n, Agree(c, d, n),
         NEW m \in Nat, m <= n
  PROVE  m \in Offsets(d) <=> m \in Offsets(c)
<1> DEFINE Bad == {k \in Nat : k <= n /\ ~ (k \in Offsets(d) <=> k \in Offsets(c))}
<1> SUFFICES ASSUME Bad # {} PROVE FALSE
  OBVIOUS
<1>1. n \in Nat
  BY OffsetSteps DEF Agree
<1>2. PICK k \in Bad : \A l \in Bad : k <= l
  <2>1. Bad \subseteq Nat
    OBVIOUS
  <2> HIDE DEF Bad
  <2> QED BY <2>1, LeastNat
<1>3. k \in Nat /\ k <= n /\ ~ (k \in Offsets(d) <=> k \in Offsets(c))
  OBVIOUS
<1>4. \A l \in Nat : l < k => (l \in Offsets(d) <=> l \in Offsets(c))
  <2> SUFFICES ASSUME NEW l \in Nat, l < k PROVE l \in Offsets(d) <=> l \in Offsets(c)
    OBVIOUS
  <2>1. ~ (k <= l)
    BY <1>3
  <2>2. l \notin Bad
    <3> HIDE DEF Bad
    <3> QED BY <1>2, <2>1
  <2>3. l <= n
    BY <1>1, <1>3
  <2> QED BY <2>2, <2>3
<1> HIDE DEF Bad
<1>5. k # 0
  BY <1>3, OffsetSteps
<1>6. ASSUME k \in Offsets(c) PROVE k \in Offsets(d)
  <2>1. PICK l \in Offsets(c) : l < k /\ EntryAt(c, l) # None /\ End(c, l) = k
    BY <1>5, <1>6, OffsetSteps
  <2>2. l \in Nat /\ l < n
    BY <1>1, <1>3, <2>1, OffsetSteps
  <2>3. l \in Offsets(d)
    BY <1>4, <2>1, <2>2
  <2>4. EntryAt(d, l) # None /\ End(d, l) = k
    BY <2>1, <2>2, AgreeEntries
  <2> QED BY <2>3, <2>4, OffsetSteps
<1>7. ASSUME k \in Offsets(d) PROVE k \in Offsets(c)
  <2>1. PICK l \in Offsets(d) : l < k /\ EntryAt(d, l) # None /\ End(d, l) = k
    BY <1>5, <1>7, OffsetSteps
  <2>2. l \in Nat /\ l < n
    BY <1>1, <1>3, <2>1, OffsetSteps
  <2>3. l \in Offsets(c)
    BY <1>4, <2>1, <2>2
  <2>4. EntryAt(c, l) # None /\ End(c, l) = k
    BY <2>1, <2>2, <2>3, AgreeEntries
  <2> QED BY <2>3, <2>4, OffsetSteps
<1> QED BY <1>3, <1>6, <1>7

-----------------------------------------------------------------------------
(* The index of a row, and what it holds.                                  *)

\* The offsets before n of the records of a hash.
RecordsOf(c, n, h) ==
  {m \in Offsets(c) : m < n /\ EntryAt(c, m) # None /\ HashOf(EntryAt(c, m)) = h}

Place(c, m) == [at |-> m, size |-> EntryAt(c, m)[2]]

\* Offset m is the one of the last record of a hash before n.
LastOf(c, n, h, m) == m \in RecordsOf(c, n, h) /\ \A k \in RecordsOf(c, n, h) : k <= m

LEMMA IndexIs ==
  ASSUME NEW c \in Seq(Cells), NEW n \in Nat, NEW h \in {0} \cup Hashes
  PROVE  \/ RecordsOf(c, n, h) = {} /\ IndexOf(c, n)[h] = NoRecord
         \/ \E m : LastOf(c, n, h, m) /\ IndexOf(c, n)[h] = Place(c, m)
<1> DEFINE records == {m \in Offsets(c) : m < n /\ EntryAt(c, m) # None}
           own == {m \in records : HashOf(EntryAt(c, m)) = h}
           found == {HashOf(EntryAt(c, m)) : m \in records}
<1>1. IndexOf(c, n)[h] = IF h \in found THEN [at |-> Max(own), size |-> EntryAt(c, Max(own))[2]]
                         ELSE NoRecord
  BY DEF IndexOf
<1>2. own = RecordsOf(c, n, h)
  BY DEF RecordsOf
<1>3. h \in found <=> own # {}
  OBVIOUS
<1>4. own \subseteq Int /\ \A k \in own : k <= n
  BY OffsetSteps
<1>5. CASE own = {}
  BY <1>1, <1>2, <1>3, <1>5
<1>6. CASE own # {}
  <2>1. Max(own) \in own /\ \A k \in own : k <= Max(own)
    <3>1. n \in Int
      OBVIOUS
    <3> HIDE DEF own
    <3> QED BY <1>4, <1>6, <3>1, GreatestInt
  <2>2. LastOf(c, n, h, Max(own))
    BY <1>2, <2>1 DEF LastOf
  <2> HIDE DEF own, found
  <2> QED BY <1>1, <1>3, <1>6, <2>2 DEF Place
<1> QED BY <1>5, <1>6

LEMMA IndexDomain ==
  ASSUME NEW c, NEW n
  PROVE  /\ DOMAIN IndexOf(c, n) = {0} \cup Hashes
         /\ IndexOf(c, n) = [h \in {0} \cup Hashes |-> IndexOf(c, n)[h]]
BY DEF IndexOf

LEMMA LastUnique ==
  ASSUME NEW c \in Seq(Cells), NEW n, NEW h, NEW m, NEW k, LastOf(c, n, h, m), LastOf(c, n, h, k)
  PROVE  m = k
<1>1. m \in Nat /\ k \in Nat
  BY OffsetSteps DEF LastOf, RecordsOf
<1>2. m <= k /\ k <= m
  BY DEF LastOf
<1> QED BY <1>1, <1>2

LEMMA PlaceIs ==
  ASSUME NEW c \in Seq(Cells), NEW n, NEW h, NEW m \in RecordsOf(c, n, h)
  PROVE  /\ m \in Nat /\ m \in Offsets(c)
         /\ Place(c, m) # NoRecord /\ Place(c, m) \in [at : Nat, size : Nat]
         /\ Place(c, m).at = m /\ Place(c, m).size = EntryAt(c, m)[2]
         /\ EntryAt(c, m) \in Recs /\ EntryAt(c, m) # None /\ HashOf(EntryAt(c, m)) = h
<1>1. m \in Nat /\ m \in Offsets(c)
  BY OffsetSteps DEF RecordsOf
<1>2. EntryAt(c, m) # None /\ HashOf(EntryAt(c, m)) = h
  BY DEF RecordsOf
<1>3. EntryAt(c, m) \in Recs
  BY <1>1, <1>2, EntrySize
<1>4. EntryAt(c, m)[2] \in Nat /\ EntryAt(c, m)[2] >= 1
  BY <1>3, RecsType
<1>5. Place(c, m).size # 0 /\ Place(c, m).size = EntryAt(c, m)[2] /\ Place(c, m).at = m
  BY <1>4 DEF Place
<1>6. NoRecord.size = 0
  BY DEF NoRecord
<1>7. Place(c, m) # NoRecord
  BY <1>5, <1>6
<1>8. Place(c, m) \in [at : Nat, size : Nat]
  BY <1>1, <1>4 DEF Place
<1> QED BY <1>1, <1>2, <1>3, <1>5, <1>7, <1>8

\* What was stored for a hash up to an offset.
Scanned(c, n, h) == Stored(c, IndexOf(c, n), h)

LEMMA ScannedIs ==
  ASSUME NEW c \in Seq(Cells), NEW n \in Nat, NEW h \in {0} \cup Hashes
  PROVE  \/ RecordsOf(c, n, h) = {} /\ Scanned(c, n, h) = None /\ IndexOf(c, n)[h] = NoRecord
         \/ \E m : /\ LastOf(c, n, h, m) /\ Scanned(c, n, h) = EntryAt(c, m)
                   /\ IndexOf(c, n)[h] = Place(c, m)
<1>1. CASE RecordsOf(c, n, h) = {} /\ IndexOf(c, n)[h] = NoRecord
  BY <1>1 DEF Scanned, Stored
<1>2. ASSUME NEW m, LastOf(c, n, h, m), IndexOf(c, n)[h] = Place(c, m)
      PROVE  Scanned(c, n, h) = EntryAt(c, m)
  <2>1. Place(c, m) # NoRecord /\ Place(c, m).at = m
    BY <1>2, PlaceIs DEF LastOf
  <2> QED BY <1>2, <2>1 DEF Scanned, Stored
<1> QED BY <1>1, <1>2, IndexIs

LEMMA IndexType ==
  ASSUME NEW c \in Seq(Cells), NEW n \in Nat
  PROVE  /\ IndexOf(c, n) \in [{0} \cup Hashes -> [at : Nat, size : Nat]]
         /\ \A h \in {0} \cup Hashes : /\ Scanned(c, n, h) \in Recs \cup {None}
                                       /\ IndexOf(c, n)[h] = NoRecord <=> Scanned(c, n, h) = None
                                       /\ Scanned(c, n, h) # None => HashOf(Scanned(c, n, h)) = h
                                       /\ IndexOf(c, n)[h].size = Scanned(c, n, h)[2]
<1>1. ASSUME NEW h \in {0} \cup Hashes
      PROVE  /\ IndexOf(c, n)[h] \in [at : Nat, size : Nat]
             /\ Scanned(c, n, h) \in Recs \cup {None}
             /\ IndexOf(c, n)[h] = NoRecord <=> Scanned(c, n, h) = None
             /\ Scanned(c, n, h) # None => HashOf(Scanned(c, n, h)) = h
             /\ IndexOf(c, n)[h].size = Scanned(c, n, h)[2]
  <2>1. CASE Scanned(c, n, h) = None /\ IndexOf(c, n)[h] = NoRecord
    <3>1. None[2] = 0
      BY RecsType
    <3> QED BY <2>1, <3>1 DEF NoRecord
  <2>2. ASSUME NEW m, LastOf(c, n, h, m), Scanned(c, n, h) = EntryAt(c, m),
               IndexOf(c, n)[h] = Place(c, m)
        PROVE  <1>1!2
    BY <2>2, PlaceIs DEF LastOf
  <2> QED BY <2>1, <2>2, ScannedIs
<1>2. IndexOf(c, n) \in [{0} \cup Hashes -> [at : Nat, size : Nat]]
  <2> DEFINE f == IndexOf(c, n)
             S == {0} \cup Hashes
  <2>1. f = [h \in S |-> f[h]]
    BY IndexDomain
  <2>2. \A h \in S : f[h] \in [at : Nat, size : Nat]
    BY <1>1
  <2> HIDE DEF f, S
  <2>3. f \in [S -> [at : Nat, size : Nat]]
    BY <2>1, <2>2
  <2> QED BY <2>3 DEF f, S
<1> QED BY <1>1, <1>2

\* Two rows with the same records of a hash have the same index of it.
LEMMA SameRecords ==
  ASSUME NEW c \in Seq(Cells), NEW d \in Seq(Cells), NEW n \in Nat, NEW k \in Nat,
         NEW h \in {0} \cup Hashes, RecordsOf(c, n, h) = RecordsOf(d, k, h),
         \A m \in RecordsOf(c, n, h) : EntryAt(c, m) = EntryAt(d, m)
  PROVE  IndexOf(c, n)[h] = IndexOf(d, k)[h] /\ Scanned(c, n, h) = Scanned(d, k, h)
<1>1. CASE RecordsOf(c, n, h) = {}
  <2>1. \A m : ~ LastOf(c, n, h, m) /\ ~ LastOf(d, k, h, m)
    BY <1>1 DEF LastOf
  <2>2. Scanned(c, n, h) = None /\ IndexOf(c, n)[h] = NoRecord
    BY <2>1, ScannedIs
  <2>3. Scanned(d, k, h) = None /\ IndexOf(d, k)[h] = NoRecord
    BY <2>1, ScannedIs
  <2> QED BY <2>2, <2>3
<1>2. CASE RecordsOf(c, n, h) # {}
  <2>1. PICK m : /\ LastOf(c, n, h, m) /\ Scanned(c, n, h) = EntryAt(c, m)
                 /\ IndexOf(c, n)[h] = Place(c, m)
    BY <1>2, ScannedIs
  <2>2. PICK l : /\ LastOf(d, k, h, l) /\ Scanned(d, k, h) = EntryAt(d, l)
                 /\ IndexOf(d, k)[h] = Place(d, l)
    BY <1>2, ScannedIs
  <2>3. LastOf(d, k, h, m)
    BY <2>1 DEF LastOf
  <2>4. m = l
    BY <2>2, <2>3, LastUnique
  <2>5. EntryAt(c, m) = EntryAt(d, m)
    BY <2>1 DEF LastOf
  <2> QED BY <2>1, <2>2, <2>4, <2>5 DEF Place
<1> QED BY <1>1, <1>2

LEMMA AgreeIndex ==
  ASSUME NEW c \in Seq(Cells), NEW d \in Seq(Cells), NEW n, Agree(c, d, n)
  PROVE  /\ n \in Offsets(d) /\ IndexOf(d, n) = IndexOf(c, n)
         /\ \A h \in {0} \cup Hashes : Scanned(d, n, h) = Scanned(c, n, h)
<1>1. n \in Nat /\ n <= n /\ n \in Offsets(c)
  BY OffsetSteps DEF Agree
<1>2. \A m \in Offsets(c) : m < n => EntryAt(d, m) = EntryAt(c, m)
  BY AgreeEntries
<1>3. \A m \in Nat : m <= n => (m \in Offsets(d) <=> m \in Offsets(c))
  BY AgreeOffsets
<1>4. Offsets(c) \subseteq Nat /\ Offsets(d) \subseteq Nat
  BY OffsetSteps
<1>5. \A m \in Nat : m < n => m <= n
  BY <1>1
<1>6. ASSUME NEW h \in {0} \cup Hashes
      PROVE  IndexOf(d, n)[h] = IndexOf(c, n)[h] /\ Scanned(d, n, h) = Scanned(c, n, h)
  <2>1. \A m : m \in RecordsOf(c, n, h) <=> m \in RecordsOf(d, n, h)
    BY <1>2, <1>3, <1>4, <1>5 DEF RecordsOf
  <2>2. RecordsOf(c, n, h) = RecordsOf(d, n, h)
    BY <2>1
  <2>3. \A m \in RecordsOf(c, n, h) : EntryAt(c, m) = EntryAt(d, m)
    BY <1>2 DEF RecordsOf
  <2> QED BY <1>1, <2>2, <2>3, SameRecords
<1>7. IndexOf(d, n) = IndexOf(c, n)
  BY <1>6, IndexDomain
<1> QED BY <1>1, <1>3, <1>6, <1>7

\* Up to k row d stores, for each hash, what row c does up to n; but for the hash of e, e.
Learnt(c, n, d, k, e) ==
  \A h \in {0} \cup Hashes : Scanned(d, k, h) = IF h = HashOf(e) THEN e ELSE Scanned(c, n, h)

\* The next record is the last one of its hash.
LEMMA NextRecord ==
  ASSUME NEW c \in Seq(Cells), NEW n \in Offsets(c), NEW e, e = EntryAt(c, n), e # None,
         NEW k, k = End(c, n)
  PROVE  /\ IndexOf(c, k) = [IndexOf(c, n) EXCEPT ![HashOf(e)] = [at |-> n, size |-> e[2]]]
         /\ Learnt(c, n, c, k, e)
<1> DEFINE S == {0} \cup Hashes
<1>1. n \in Nat /\ Offsets(c) \subseteq Nat
  BY OffsetSteps
<1>2. e \in Recs /\ k \in Nat /\ n < k
  BY <1>1, EntrySize DEF End
<1>3. HashOf(e) \in S
  BY <1>2, RecsType
<1>4. \A m \in Offsets(c) : m < k <=> m < n \/ m = n
  <2> SUFFICES ASSUME NEW m \in Offsets(c), n < m PROVE ~ (m < k)
    BY <1>1, <1>2
  <2>1. End(c, n) <= m
    BY OffsetsInRow
  <2>2. m \in Nat
    BY <1>1
  <2> QED BY <1>2, <2>1, <2>2
<1> HIDE DEF S
<1>5. LastOf(c, k, HashOf(e), n)
  <2>1. n \in RecordsOf(c, k, HashOf(e))
    BY <1>2 DEF RecordsOf
  <2>2. ASSUME NEW m \in RecordsOf(c, k, HashOf(e)) PROVE m <= n
    <3>1. m \in Offsets(c) /\ m < k
      BY DEF RecordsOf
    <3> QED BY <1>1, <1>4, <3>1
  <2> QED BY <2>1, <2>2 DEF LastOf
<1>6. IndexOf(c, k)[HashOf(e)] = Place(c, n) /\ Scanned(c, k, HashOf(e)) = e
  <2>1. RecordsOf(c, k, HashOf(e)) # {}
    BY <1>5 DEF LastOf
  <2>2. PICK m : /\ LastOf(c, k, HashOf(e), m) /\ Scanned(c, k, HashOf(e)) = EntryAt(c, m)
                 /\ IndexOf(c, k)[HashOf(e)] = Place(c, m)
    BY <1>2, <1>3, <2>1, ScannedIs DEF S
  <2>3. m = n
    BY <1>5, <2>2, LastUnique
  <2> QED BY <2>2, <2>3
<1>7. ASSUME NEW h \in S, h # HashOf(e)
      PROVE  IndexOf(c, k)[h] = IndexOf(c, n)[h] /\ Scanned(c, k, h) = Scanned(c, n, h)
  <2>1. \A m : m \in RecordsOf(c, k, h) <=> m \in RecordsOf(c, n, h)
    BY <1>4, <1>7 DEF RecordsOf
  <2>2. RecordsOf(c, k, h) = RecordsOf(c, n, h)
    BY <2>1
  <2> QED BY <1>1, <1>2, <1>7, <2>2, SameRecords DEF S
<1>8. IndexOf(c, k) = [IndexOf(c, n) EXCEPT ![HashOf(e)] = Place(c, n)]
  <2> DEFINE f == IndexOf(c, k)
             g == IndexOf(c, n)
  <2>1. f = [h \in S |-> f[h]] /\ g = [h \in S |-> g[h]]
    BY IndexDomain DEF S
  <2>2. \A h \in S : f[h] = IF h = HashOf(e) THEN Place(c, n) ELSE g[h]
    BY <1>6, <1>7
  <2> HIDE DEF f, g
  <2>3. f = [g EXCEPT ![HashOf(e)] = Place(c, n)]
    BY <1>3, <2>1, <2>2
  <2> QED BY <2>3 DEF f, g
<1>9. Place(c, n) = [at |-> n, size |-> e[2]]
  BY DEF Place
<1>10. Learnt(c, n, c, k, e)
  BY <1>6, <1>7 DEF Learnt, S
<1> QED BY <1>8, <1>9, <1>10

\* Nothing lies behind an offset without a record: the index is that of the whole row.
LEMMA LastOffset ==
  ASSUME NEW c \in Seq(Cells), NEW n \in Offsets(c), EntryAt(c, n) = None
  PROVE  /\ \A m \in Offsets(c) : m <= n
         /\ IndexOf(c, Len(c)) = IndexOf(c, n)
         /\ \A h \in {0} \cup Hashes : Scanned(c, Len(c), h) = Scanned(c, n, h)
<1>1. n \in Nat /\ n <= Len(c) /\ Len(c) \in Nat /\ Offsets(c) \subseteq Nat
  BY OffsetSteps
<1>2. \A m \in Offsets(c) : m <= n
  <2> SUFFICES ASSUME NEW m \in Offsets(c), n < m PROVE FALSE
    BY <1>1
  <2> QED BY OffsetsInRow
<1>3. \A m \in Offsets(c) : EntryAt(c, m) # None => (m < Len(c) <=> m < n)
  <2> SUFFICES ASSUME NEW m \in Offsets(c), EntryAt(c, m) # None PROVE m < Len(c) <=> m < n
    OBVIOUS
  <2>1. m # n /\ m <= n /\ m \in Nat
    BY <1>1, <1>2
  <2> QED BY <1>1, <2>1
<1>4. ASSUME NEW h \in {0} \cup Hashes
      PROVE  IndexOf(c, Len(c))[h] = IndexOf(c, n)[h] /\ Scanned(c, Len(c), h) = Scanned(c, n, h)
  <2>1. \A m : m \in RecordsOf(c, Len(c), h) <=> m \in RecordsOf(c, n, h)
    BY <1>3 DEF RecordsOf
  <2>2. RecordsOf(c, Len(c), h) = RecordsOf(c, n, h)
    BY <2>1
  <2> QED BY <1>1, <2>2, SameRecords
<1>5. IndexOf(c, Len(c)) = IndexOf(c, n)
  BY <1>4, IndexDomain
<1> QED BY <1>2, <1>4, <1>5

\* A scan of the whole row finds, for a hash, what was stored up to an offset, or the
\* entry of a record behind it.
LEMMA NewestIn ==
  ASSUME NEW c \in Seq(Cells), NEW n \in Offsets(c), NEW h \in Hashes, NEW D,
         Scanned(c, n, h) \in D,
         \A m \in Offsets(c) :
           (n <= m /\ EntryAt(c, m) \in Entries /\ HashOf(EntryAt(c, m)) = h)
             => EntryAt(c, m) \in D
  PROVE  Scanned(c, Len(c), h) \in D
<1>1. n \in Nat /\ n <= Len(c) /\ Len(c) \in Nat /\ Offsets(c) \subseteq Nat
  BY OffsetSteps
<1>2. h \in {0} \cup Hashes
  OBVIOUS
<1>3. CASE \E m \in RecordsOf(c, Len(c), h) : n <= m
  <2>1. PICK m : LastOf(c, Len(c), h, m) /\ Scanned(c, Len(c), h) = EntryAt(c, m)
    BY <1>1, <1>2, <1>3, ScannedIs
  <2>2. m \in RecordsOf(c, Len(c), h) /\ n <= m /\ m \in Nat
    <3>1. PICK k \in RecordsOf(c, Len(c), h) : n <= k
      BY <1>3
    <3>2. k <= m /\ m \in RecordsOf(c, Len(c), h) /\ k \in Nat /\ m \in Nat
      BY <2>1, OffsetSteps DEF LastOf, RecordsOf
    <3> QED BY <1>1, <3>1, <3>2
  <2>3. m \in Offsets(c) /\ EntryAt(c, m) \in Recs /\ HashOf(EntryAt(c, m)) = h
    BY <2>2, PlaceIs
  <2>4. EntryAt(c, m) \in Entries
    BY <2>3, RecsType
  <2> QED BY <2>1, <2>2, <2>3, <2>4
<1>4. CASE \A m \in RecordsOf(c, Len(c), h) : ~ (n <= m)
  <2>1. \A m \in Nat : m < n => m < Len(c)
    BY <1>1
  <2>2. \A m : m \in RecordsOf(c, Len(c), h) => m \in RecordsOf(c, n, h)
    <3> SUFFICES ASSUME NEW m \in RecordsOf(c, Len(c), h) PROVE m < n
      BY DEF RecordsOf
    <3>1. m \in Nat /\ ~ (n <= m)
      BY <1>1, <1>4 DEF RecordsOf
    <3> QED BY <1>1, <3>1
  <2>3. \A m : m \in RecordsOf(c, n, h) => m \in RecordsOf(c, Len(c), h)
    BY <1>1, <2>1 DEF RecordsOf
  <2>4. RecordsOf(c, Len(c), h) = RecordsOf(c, n, h)
    BY <2>2, <2>3
  <2>5. Scanned(c, Len(c), h) = Scanned(c, n, h)
    BY <1>1, <1>2, <2>4, SameRecords
  <2> QED BY <2>5
<1> QED BY <1>3, <1>4

SizesOf(ix) == [h \in {0} \cup Hashes |-> ix[h].size]

LEMMA LiveIs ==
  ASSUME NEW ix, DOMAIN ix = {0} \cup Hashes
  PROVE  LiveCells(ix) = SumFunctionOnSet(SizesOf(ix), {0} \cup Hashes)
BY DEF LiveCells, SizesOf, SumFunction

LEMMA HashesFinite == IsFiniteSet({0} \cup Hashes)
<1>1. IsFiniteSet(Hashes)
  BY LogAssumption
<1> QED BY <1>1, FS_AddElement

LEMMA LiveIsNat ==
  ASSUME NEW ix \in [{0} \cup Hashes -> [at : Nat, size : Nat]]
  PROVE  LiveCells(ix) \in Nat
<1> DEFINE S == {0} \cup Hashes
           g == SizesOf(ix)
<1>1. \A h \in S : g[h] \in Nat
  BY DEF SizesOf
<1>2. IsFiniteSet(S)
  BY HashesFinite
<1>3. LiveCells(ix) = SumFunctionOnSet(g, S)
  BY LiveIs
<1> HIDE DEF S, g
<1> QED BY <1>1, <1>2, <1>3, SumIsNat

\* The cells of one record of the index more or less.
LEMMA LiveUpdate ==
  ASSUME NEW ix \in [{0} \cup Hashes -> [at : Nat, size : Nat]], NEW h \in {0} \cup Hashes,
         NEW r \in [at : Nat, size : Nat]
  PROVE  LiveCells([ix EXCEPT ![h] = r]) = LiveCells(ix) - ix[h].size + r.size
<1> DEFINE S == {0} \cup Hashes
           jx == [ix EXCEPT ![h] = r]
           f == SizesOf(ix)
           g == SizesOf(jx)
<1>1. \A x \in S : f[x] \in Nat /\ g[x] \in Nat
  BY DEF SizesOf
<1>2. \A x \in S \ {h} : g[x] = f[x]
  BY DEF SizesOf
<1>3. f[h] = ix[h].size /\ g[h] = r.size
  BY DEF SizesOf
<1>4. IsFiniteSet(S)
  BY HashesFinite
<1>5. LiveCells(ix) = SumFunctionOnSet(f, S) /\ LiveCells(jx) = SumFunctionOnSet(g, S)
  BY LiveIs
<1>6. SumFunctionOnSet(g, S) = SumFunctionOnSet(f, S) - f[h] + g[h]
  <2>1. h \in S
    OBVIOUS
  <2>2. ASSUME NEW T, IsFiniteSet(T), NEW y \in T, NEW u, NEW v,
               \A x \in T : u[x] \in Nat /\ v[x] \in Nat, \A x \in T \ {y} : v[x] = u[x]
        PROVE  SumFunctionOnSet(v, T) = SumFunctionOnSet(u, T) - u[y] + v[y]
    BY <2>2, SumUpdate
  <2> HIDE DEF S, f, g, jx
  <2> QED BY <1>1, <1>2, <1>4, <2>1, <2>2, ZenonT(60)
<1> HIDE DEF S, f, g, jx
<1> QED BY <1>3, <1>5, <1>6 DEF jx

\* The live records of a row fit in it.
LEMMA LiveFit ==
  ASSUME NEW c \in Seq(Cells), NEW n \in Offsets(c)
  PROVE  LiveCells(IndexOf(c, n)) <= n
<1> DEFINE S == {0} \cup Hashes
           ix == IndexOf(c, n)
           g == SizesOf(ix)
           at == [h \in S |-> ix[h].at]
<1>1. n \in Nat
  BY OffsetSteps
<1>2. ix \in [S -> [at : Nat, size : Nat]]
  BY <1>1, IndexType
<1>3. \A h \in S : g[h] = ix[h].size /\ at[h] = ix[h].at
  BY DEF SizesOf
<1>4. ASSUME NEW h \in S
      PROVE  \/ at[h] = 0 /\ g[h] = 0
             \/ at[h] \in RecordsOf(c, n, h) /\ g[h] = EntryAt(c, at[h])[2]
  <2>3. at[h] = ix[h].at /\ g[h] = ix[h].size
    BY <1>3
  <2>4. ix[h] = NoRecord \/ \E m : LastOf(c, n, h, m) /\ ix[h] = Place(c, m)
    BY <1>1, IndexIs
  <2> HIDE DEF ix, at, g
  <2>1. CASE ix[h] = NoRecord
    BY <2>1, <2>3 DEF NoRecord
  <2>2. ASSUME NEW m, LastOf(c, n, h, m), ix[h] = Place(c, m)
        PROVE  at[h] \in RecordsOf(c, n, h) /\ g[h] = EntryAt(c, at[h])[2]
    <3>1. m \in RecordsOf(c, n, h)
      BY <2>2 DEF LastOf
    <3>2. ix[h].at = m /\ ix[h].size = EntryAt(c, m)[2]
      BY <2>2 DEF Place
    <3> QED BY <2>3, <3>1, <3>2
  <2> QED BY <2>1, <2>2, <2>4
<1>5. \A h \in S : at[h] \in Nat /\ g[h] \in Nat
  BY <1>2, <1>3
<1>6. LiveCells(ix) = SumFunctionOnSet(g, S)
  BY <1>2, LiveIs
<1>7. IsFiniteSet(S)
  BY HashesFinite
<1> HIDE DEF g, at, ix, S
<1>8. ASSUME NEW h \in S PROVE at[h] + g[h] <= n
  <2>1. CASE at[h] = 0 /\ g[h] = 0
    BY <1>1, <2>1
  <2>2. CASE at[h] \in RecordsOf(c, n, h) /\ g[h] = EntryAt(c, at[h])[2]
    <3>1. at[h] \in Offsets(c) /\ at[h] < n
      BY <2>2 DEF RecordsOf
    <3>2. End(c, at[h]) <= n
      BY <3>1, OffsetsInRow
    <3> QED BY <2>2, <3>2 DEF End
  <2> QED BY <1>4, <2>1, <2>2
<1>9. ASSUME NEW x \in S, NEW y \in S, x # y
      PROVE  at[x] + g[x] <= at[y] \/ at[y] + g[y] <= at[x]
  <2>1. at[x] \in Nat /\ g[x] \in Nat /\ at[y] \in Nat /\ g[y] \in Nat
    BY <1>5
  <2>2. CASE at[x] = 0 /\ g[x] = 0
    BY <2>1, <2>2
  <2>3. CASE at[y] = 0 /\ g[y] = 0
    BY <2>1, <2>3
  <2>4. CASE /\ at[x] \in RecordsOf(c, n, x) /\ g[x] = EntryAt(c, at[x])[2]
             /\ at[y] \in RecordsOf(c, n, y) /\ g[y] = EntryAt(c, at[y])[2]
    <3>1. at[x] \in Offsets(c) /\ at[y] \in Offsets(c) /\ at[x] # at[y]
      BY <1>9, <2>4 DEF RecordsOf
    <3>2. at[x] < at[y] \/ at[y] < at[x]
      BY <2>1, <3>1
    <3>3. End(c, at[x]) <= at[y] \/ End(c, at[y]) <= at[x]
      BY <3>1, <3>2, OffsetsInRow
    <3> QED BY <2>4, <3>3 DEF End
  <2> QED BY <1>4, <2>2, <2>3, <2>4
<1>10. SumFunctionOnSet(g, S) <= n
  BY <1>1, <1>5, <1>7, <1>8, <1>9, SegmentsFit
<1> QED BY <1>6, <1>10 DEF ix

-----------------------------------------------------------------------------
(* Rows of cells that are written, cut, and put together.                  *)

LEMMA PutRow ==
  ASSUME NEW c \in Seq(Cells), NEW n \in Nat, n <= Len(c), NEW x \in Cells
  PROVE  /\ Put(c, n, x) \in Seq(Cells)
         /\ n + 1 <= Len(Put(c, n, x)) /\ Len(c) <= Len(Put(c, n, x))
         /\ Put(c, n, x)[n + 1] = x
         /\ \A q \in 1 .. Len(Put(c, n, x)) : q # n + 1 => q <= Len(c) /\ Put(c, n, x)[q] = c[q]
<1>1. CASE n < Len(c)
  <2>1. Put(c, n, x) = [c EXCEPT ![n + 1] = x]
    BY <1>1 DEF Put
  <2>2. n + 1 \in 1 .. Len(c)
    BY <1>1
  <2> QED BY <2>1, <2>2
<1>2. CASE n = Len(c)
  <2>1. Put(c, n, x) = Append(c, x)
    BY <1>2 DEF Put
  <2> QED BY <1>2, <2>1
<1> QED BY <1>1, <1>2

LEMMA TruncatedRow ==
  ASSUME NEW c \in Seq(Cells), NEW n \in Nat
  PROVE  /\ Truncated(c, n) \in Seq(Cells)
         /\ Len(Truncated(c, n)) <= n /\ Len(Truncated(c, n)) <= Len(c)
         /\ n <= Len(c) => Len(Truncated(c, n)) = n
         /\ Len(c) <= n => Truncated(c, n) = c
         /\ \A q \in 1 .. Len(Truncated(c, n)) : q <= n /\ q <= Len(c) /\ Truncated(c, n)[q] = c[q]
<1> DEFINE S == {n, Len(c)}
           k == Min(S)
<1>1. k \in S /\ k <= n /\ k <= Len(c)
  <2>1. S \subseteq Nat /\ S # {} /\ n \in S /\ Len(c) \in S
    OBVIOUS
  <2> HIDE DEF S
  <2> QED BY <2>1, LeastMin
<1>2. Truncated(c, n) = SubSeq(c, 1, k)
  BY DEF Truncated
<1>3. k \in Nat
  BY <1>1
<1>4. n <= Len(c) => k = n
  BY <1>1
<1>5. Len(c) <= n => k = Len(c)
  BY <1>1
<1> HIDE DEF k
<1>6. /\ SubSeq(c, 1, k) \in Seq(Cells) /\ Len(SubSeq(c, 1, k)) = k
      /\ \A q \in 1 .. k : SubSeq(c, 1, k)[q] = c[q]
  BY <1>1, <1>3
<1>7. Len(c) <= n => SubSeq(c, 1, k) = c
  BY <1>5, <1>6
<1> QED BY <1>1, <1>2, <1>3, <1>4, <1>6, <1>7

LEMMA EmptyRow ==
  /\ <<>> \in Seq(Cells) /\ Offsets(<<>>) = {0} /\ EntryAt(<<>>, 0) = None
  /\ \A h \in {0} \cup Hashes : Scanned(<<>>, 0, h) = None
<1>1. <<>> \in Seq(Cells) /\ Len(<<>>) = 0
  OBVIOUS
<1>2. Offsets(<<>>) = {0}
  <2>1. Offsets(<<>>) \subseteq 0 .. 0 /\ 0 \in Offsets(<<>>)
    BY <1>1, OffsetSteps
  <2> QED BY <2>1
<1>3. EntryAt(<<>>, 0) = None
  <2>1. EntryAt(<<>>, 0) # None => 0 < End(<<>>, 0) /\ End(<<>>, 0) <= 0 /\ End(<<>>, 0) \in Nat
    BY <1>1, EntrySize
  <2> QED BY <2>1
<1>4. \A h : RecordsOf(<<>>, 0, h) = {}
  BY <1>2, <1>3 DEF RecordsOf
<1>5. \A h \in {0} \cup Hashes : Scanned(<<>>, 0, h) = None
  BY <1>1, <1>4, ScannedIs DEF LastOf
<1> QED BY <1>1, <1>2, <1>3, <1>5

LEMMA AppendRecord ==
  ASSUME NEW c \in Seq(Cells), Len(c) \in Offsets(c), NEW e \in Recs,
         NEW d, d = c \o RecordOf(e)
  PROVE  /\ d \in Seq(Cells) /\ Len(d) \in Offsets(d)
         /\ Learnt(c, Len(c), d, Len(d), e)
<1>1. RecordOf(e) \in Seq(Cells) /\ Len(RecordOf(e)) = e[2] /\ e[2] \in Nat /\ e[2] >= 1
  BY RecordRow, RecsType
<1>2. /\ d \in Seq(Cells) /\ Len(d) = Len(c) + e[2]
      /\ \A q \in 1 .. Len(c) : d[q] = c[q]
      /\ \A j \in 1 .. e[2] : d[Len(c) + j] = RecordOf(e)[j]
  <2> DEFINE f == RecordOf(e)
  <2>1. f \in Seq(Cells) /\ Len(f) = e[2] /\ e[2] \in Nat
    BY <1>1
  <2> HIDE DEF f
  <2>2. d \in Seq(Cells) /\ Len(d) = Len(c) + e[2]
    BY <2>1 DEF f
  <2>3. \A q \in 1 .. Len(c) : d[q] = c[q]
    BY <2>1 DEF f
  <2>4. \A j \in 1 .. e[2] : d[Len(c) + j] = f[j]
    <3> SUFFICES ASSUME NEW j \in 1 .. e[2] PROVE d[Len(c) + j] = f[j]
      OBVIOUS
    <3>1. Len(c) \in Nat /\ j \in Nat /\ Len(c) + j > Len(c) /\ Len(c) + j \in 1 .. Len(c) + Len(f)
      BY <2>1
    <3>2. d[Len(c) + j] = f[(Len(c) + j) - Len(c)]
      BY <2>1, <3>1, ConcatProperties DEF f
    <3>3. (Len(c) + j) - Len(c) = j
      BY <3>1
    <3> QED BY <3>2, <3>3
  <2> QED BY <2>2, <2>3, <2>4 DEF f
<1>3. \A j \in 1 .. e[2] : RecordOf(e)[j] = <<e, j>>
  BY DEF RecordOf
<1>4. Agree(c, d, Len(c))
  BY <1>1, <1>2 DEF Agree
<1>5. EntryAt(d, Len(c)) = e
  <2>1. IsRec(d, Len(c), e)
    BY <1>1, <1>2, <1>3 DEF IsRec
  <2>2. Len(c) \in Nat
    OBVIOUS
  <2> QED BY <1>2, <2>1, <2>2, EntryAtIs
<1>6. Len(c) \in Offsets(d) /\ \A h \in {0} \cup Hashes : Scanned(d, Len(c), h) = Scanned(c, Len(c), h)
  BY <1>2, <1>4, AgreeIndex
<1>7. e # None
  BY RecsType
<1>8. Len(d) = End(d, Len(c))
  BY <1>2, <1>5 DEF End
<1>9. Len(d) \in Offsets(d)
  <2>1. \A m \in Offsets(d) : EntryAt(d, m) # None => End(d, m) \in Offsets(d)
    BY <1>2, OffsetSteps
  <2> QED BY <1>5, <1>6, <1>7, <1>8, <2>1
<1>10. Learnt(d, Len(c), d, Len(d), e)
  BY <1>2, <1>5, <1>6, <1>7, <1>8, NextRecord
<1>11. Learnt(c, Len(c), d, Len(d), e)
  BY <1>6, <1>10 DEF Learnt
<1> QED BY <1>2, <1>9, <1>11

\* Records of distinct hashes, one behind the other: a scan finds them all, and no other.
LEMMA RecordsRow ==
  ASSUME NEW s \in Seq(Recs),
         \A i, j \in 1 .. Len(s) : HashOf(s[i]) = HashOf(s[j]) => i = j,
         NEW c, c = FlattenSeq([i \in 1 .. Len(s) |-> RecordOf(s[i])])
  PROVE  /\ c \in Seq(Cells) /\ Len(c) \in Offsets(c)
         /\ \A i \in 1 .. Len(s) : Scanned(c, Len(c), HashOf(s[i])) = s[i]
         /\ \A h \in {0} \cup Hashes :
              (\A i \in 1 .. Len(s) : HashOf(s[i]) # h) => Scanned(c, Len(c), h) = None
<1> DEFINE r == [i \in 1 .. Len(s) |-> RecordOf(s[i])]
           Holds(d, n) ==
             /\ d \in Seq(Cells) /\ Len(d) \in Offsets(d)
             /\ \A i \in 1 .. n : Scanned(d, Len(d), HashOf(s[i])) = s[i]
             /\ \A h \in {0} \cup Hashes :
                  (\A i \in 1 .. n : HashOf(s[i]) # h) => Scanned(d, Len(d), h) = None
<1>1. Len(s) \in Nat /\ Len(r) = Len(s) /\ \A i \in 1 .. Len(s) : r[i] = RecordOf(s[i]) /\ s[i] \in Recs
  OBVIOUS
<1>2. Holds(<<>>, 0)
  BY EmptyRow
<1>3. ASSUME NEW n \in Nat, n < Len(s), NEW d, Holds(d, n)
      PROVE  Holds(d \o RecordOf(s[n + 1]), n + 1)
  <2> DEFINE e == s[n + 1]
             b == d \o RecordOf(e)
  <2>1. n + 1 \in 1 .. Len(s) /\ e \in Recs
    BY <1>1, <1>3
  <2>2. b \in Seq(Cells) /\ Len(b) \in Offsets(b) /\ Learnt(d, Len(d), b, Len(b), e)
    <3>1. d \in Seq(Cells) /\ Len(d) \in Offsets(d) /\ b = d \o RecordOf(e) /\ e \in Recs
      BY <1>3, <2>1
    <3> HIDE DEF b, e, Holds
    <3> QED BY <3>1, AppendRecord
  <2>3. \A i \in 1 .. n + 1 : i \in 1 .. Len(s) /\ (i = n + 1 \/ i \in 1 .. n)
    BY <1>1, <1>3
  <2>4. \A i \in 1 .. n : i \in 1 .. n + 1 /\ i # n + 1
    BY <1>3
  <2>5. \A i \in 1 .. n + 1 : HashOf(s[i]) \in {0} \cup Hashes
    BY <1>1, <2>3, RecsType
  <2> HIDE DEF b
  <2>6. ASSUME NEW i \in 1 .. n + 1 PROVE Scanned(b, Len(b), HashOf(s[i])) = s[i]
    <3>1. CASE i = n + 1
      BY <2>2, <2>5, <3>1 DEF Learnt
    <3>2. CASE i \in 1 .. n
      <4>1. HashOf(s[i]) # HashOf(e)
        BY <2>1, <2>3, <2>4, <3>2
      <4>2. Scanned(d, Len(d), HashOf(s[i])) = s[i]
        BY <1>3, <3>2
      <4> QED BY <2>2, <2>5, <4>1, <4>2 DEF Learnt
    <3> QED BY <2>3, <3>1, <3>2
  <2>7. ASSUME NEW h \in {0} \cup Hashes, \A i \in 1 .. n + 1 : HashOf(s[i]) # h
        PROVE  Scanned(b, Len(b), h) = None
    <3>1. h # HashOf(e)
      BY <1>3, <2>7
    <3>2. \A i \in 1 .. n : HashOf(s[i]) # h
      BY <2>4, <2>7
    <3>3. Scanned(d, Len(d), h) = None
      BY <1>3, <3>2
    <3> QED BY <2>2, <3>1, <3>3 DEF Learnt
  <2>8. Holds(b, n + 1)
    BY <2>2, <2>6, <2>7
  <2> HIDE DEF Holds
  <2> QED BY <2>8 DEF b
<1>4. CASE Len(s) = 0
  <2>1. r = <<>>
    BY <1>4
  <2>2. FlattenSeq(r) = <<>>
    BY <1>1, <1>4, <2>1 DEF FlattenSeq
  <2>3. c = <<>>
    BY <2>2
  <2> QED BY <1>2, <1>4, <2>3
<1>5. CASE Len(s) # 0
  <2>1. PICK f : /\ f[1] = r[1]
                 /\ \A i \in 2 .. Len(s) : f[i] = f[i - 1] \o r[i]
                 /\ FlattenSeq(r) = f[Len(s)]
    <3> HIDE DEF r
    <3> QED BY <1>1, <1>5, FlattenSteps
  <2> DEFINE A == {n \in Nat : n + 1 <= Len(s) => Holds(f[n + 1], n + 1)}
  <2>2. 0 \in A
    <3>1. RecordOf(s[1]) \in Seq(Cells)
      BY <1>1, <1>5, RecordRow
    <3>2. <<>> \o RecordOf(s[1]) = RecordOf(s[1])
      BY <3>1
    <3>3. Holds(<<>> \o RecordOf(s[0 + 1]), 0 + 1)
      <4>1. 0 \in Nat /\ 0 < Len(s)
        BY <1>1, <1>5
      <4> HIDE DEF Holds
      <4> QED BY <1>2, <1>3, <4>1
    <3>4. f[1] = RecordOf(s[1])
      BY <1>1, <1>5, <2>1
    <3>5. Holds(f[0 + 1], 0 + 1)
      <4> HIDE DEF Holds
      <4> QED BY <3>2, <3>3, <3>4
    <3> HIDE DEF Holds
    <3> QED BY <3>5
  <2>3. ASSUME NEW n \in Nat, n \in A PROVE n + 1 \in A
    <3> SUFFICES ASSUME (n + 1) + 1 <= Len(s) PROVE Holds(f[(n + 1) + 1], (n + 1) + 1)
      OBVIOUS
    <3>1. n + 1 \in Nat /\ n + 1 < Len(s) /\ n + 1 <= Len(s) /\ (n + 1) + 1 \in 2 .. Len(s)
      BY <1>1
    <3>2. Holds(f[n + 1], n + 1)
      BY <2>3, <3>1
    <3>3. f[(n + 1) + 1] = f[n + 1] \o RecordOf(s[(n + 1) + 1])
      <4>1. ((n + 1) + 1) - 1 = n + 1 /\ (n + 1) + 1 \in 1 .. Len(s)
        BY <3>1
      <4> QED BY <1>1, <2>1, <3>1, <4>1
    <3> HIDE DEF Holds
    <3> QED BY <1>3, <3>1, <3>2, <3>3
  <2>4. Len(s) - 1 \in A
    <3>1. Nat \subseteq A
      <4> HIDE DEF A
      <4> QED BY <2>2, <2>3, SetInduction
    <3>2. Len(s) - 1 \in Nat
      BY <1>1, <1>5
    <3> HIDE DEF A
    <3> QED BY <3>1, <3>2
  <2>5. (Len(s) - 1) + 1 = Len(s)
    BY <1>1
  <2>6. Holds(f[Len(s)], Len(s))
    <3> HIDE DEF Holds
    <3> QED BY <1>1, <2>4, <2>5
  <2>7. c = f[Len(s)]
    BY <2>1
  <2> QED BY <2>6, <2>7
<1> QED BY <1>4, <1>5

\* Behind an offset behind which no cell begins a record, but perhaps right there.
LEMMA BehindOffset ==
  ASSUME NEW c \in Seq(Cells), NEW n \in Nat,
         \A q \in n + 1 .. Len(c) : c[q] \in Entries \X (Nat \ {0}) /\ q - c[q][2] <= n,
         NEW m \in Nat, n <= m, EntryAt(c, m) # None
  PROVE  m = n /\ n + 1 \in n + 1 .. Len(c) /\ c[n + 1] = <<EntryAt(c, m), 1>>
<1> DEFINE e == EntryAt(c, m)
<1>1. e \in Recs /\ IsRec(c, m, e)
  BY EntrySize
<1>2. e[2] \in Nat /\ e[2] >= 1
  BY <1>1, RecsType
<1> HIDE DEF e
<1>3. c[m + 1] = <<e, 1>> /\ m + 1 \in n + 1 .. Len(c)
  <2>1. 1 \in 1 .. e[2] /\ m + e[2] <= Len(c) /\ \A j \in 1 .. e[2] : c[m + j] = <<e, j>>
    <3>1. m + e[2] <= Len(c) /\ \A j \in 1 .. e[2] : c[m + j] = <<e, j>>
      BY <1>1 DEF IsRec
    <3>2. 1 \in 1 .. e[2]
      BY <1>2
    <3> QED BY <3>1, <3>2
  <2>2. c[m + 1] = <<e, 1>>
    BY <2>1
  <2>3. m + 1 <= Len(c) /\ Len(c) \in Nat
    BY <1>2, <2>1
  <2> QED BY <2>2, <2>3
<1>4. m = n
  <2>1. (m + 1) - 1 <= n
    BY <1>3
  <2> QED BY <2>1
<1> QED BY <1>3, <1>4 DEF e

-----------------------------------------------------------------------------
(* The entries in memory.                                                  *)

Distinct(s) == \A i, j \in 1 .. Len(s) : HashOf(s[i]) = HashOf(s[j]) => i = j

LEMMA OthersAre ==
  ASSUME mem \in Seq(Entries), NEW e
  PROVE  /\ Others(e) \in Seq(Entries) /\ Len(Others(e)) <= Len(mem)
         /\ SameHash(e) = {} => Others(e) = mem
         /\ Distinct(mem) => \A i, j \in 1 .. Len(Others(e)) :
              /\ \E k \in 1 .. Len(mem) : Others(e)[i] = mem[k]
              /\ HashOf(Others(e)[i]) # HashOf(e)
              /\ HashOf(Others(e)[i]) = HashOf(Others(e)[j]) => i = j
<1>1. CASE SameHash(e) = {}
  <2>1. Others(e) = mem
    BY <1>1 DEF Others
  <2>2. \A i \in 1 .. Len(mem) : HashOf(mem[i]) # HashOf(e)
    BY <1>1 DEF SameHash
  <2> QED BY <1>1, <2>1, <2>2 DEF Distinct
<1>2. CASE SameHash(e) # {}
  <2> DEFINE n == CHOOSE i \in SameHash(e) : TRUE
             s == Others(e)
  <2>1. n \in SameHash(e)
    BY <1>2
  <2>2. n \in 1 .. Len(mem) /\ HashOf(mem[n]) = HashOf(e)
    BY <2>1 DEF SameHash
  <2>3. s = SubSeq(mem, 1, n - 1) \o SubSeq(mem, n + 1, Len(mem))
    BY <1>2 DEF Others, RemoveAt
  <2> HIDE DEF n, s
  <2> DEFINE a == SubSeq(mem, 1, n - 1)
             b == SubSeq(mem, n + 1, Len(mem))
  <2>4. a \in Seq(Entries) /\ Len(a) = n - 1 /\ \A i \in 1 .. n - 1 : a[i] = mem[i]
    BY <2>2
  <2>5. b \in Seq(Entries) /\ Len(b) = Len(mem) - n
    BY <2>2
  <2>6. \A i \in 1 .. Len(mem) - n : b[i] = mem[n + i]
    BY <2>2
  <2>10. s = a \o b
    BY <2>3
  <2> HIDE DEF a, b
  <2>7. s \in Seq(Entries) /\ Len(s) = Len(mem) - 1
    <3>1. s \in Seq(Entries) /\ Len(s) = Len(a) + Len(b)
      BY <2>4, <2>5, <2>10, ConcatProperties
    <3>2. n \in Int /\ Len(mem) \in Int
      BY <2>2
    <3> QED BY <2>4, <2>5, <3>1, <3>2
  <2>8. ASSUME NEW i \in 1 .. Len(s) PROVE s[i] = IF i < n THEN mem[i] ELSE mem[i + 1]
    <3>1. i \in 1 .. Len(a) + Len(b) /\ Len(a) = n - 1 /\ n \in Nat
      BY <2>2, <2>4, <2>5, <2>7
    <3>2. s[i] = IF i <= Len(a) THEN a[i] ELSE b[i - Len(a)]
      BY <2>4, <2>5, <2>10, <3>1, ConcatProperties
    <3>3. CASE i < n
      BY <2>4, <3>1, <3>2, <3>3
    <3>4. CASE ~ (i < n)
      <4>1. i - (n - 1) \in 1 .. Len(mem) - n /\ n + (i - (n - 1)) = i + 1
        BY <2>2, <2>7, <3>1, <3>4
      <4>2. s[i] = b[i - (n - 1)]
        BY <3>1, <3>2, <3>4
      <4> QED BY <2>6, <3>4, <4>1, <4>2
    <3> QED BY <3>3, <3>4
  <2>9. ASSUME Distinct(mem), NEW i \in 1 .. Len(s), NEW j \in 1 .. Len(s)
        PROVE  /\ \E k \in 1 .. Len(mem) : s[i] = mem[k]
               /\ HashOf(s[i]) # HashOf(e)
               /\ HashOf(s[i]) = HashOf(s[j]) => i = j
    <3>1. \A k \in 1 .. Len(s) : k \in 1 .. Len(mem) /\ k + 1 \in 1 .. Len(mem)
      BY <2>7
    <3> DEFINE old(k) == IF k < n THEN k ELSE k + 1
    <3>2. \A k \in 1 .. Len(s) : s[k] = mem[old(k)] /\ old(k) \in 1 .. Len(mem) /\ old(k) # n
      BY <2>2, <2>8, <3>1
    <3>3. old(i) = old(j) => i = j
      BY <2>2
    <3> HIDE DEF old
    <3> QED BY <2>2, <2>9, <3>2, <3>3 DEF Distinct
  <2> QED BY <1>2, <2>7, <2>9 DEF s
<1> QED BY <1>1, <1>2

LEMMA MemPutIs ==
  ASSUME mem \in Seq(Entries), Len(mem) <= MemCapacity, NEW e \in Entries
  PROVE  /\ MemPut(e) \in Seq(Entries) /\ Len(MemPut(e)) <= MemCapacity
         /\ Distinct(mem) =>
              /\ Distinct(MemPut(e))
              /\ \A i \in 1 .. Len(MemPut(e)) :
                   \/ MemPut(e)[i] = e
                   \/ /\ \E k \in 1 .. Len(mem) : MemPut(e)[i] = mem[k]
                      /\ HashOf(MemPut(e)[i]) # HashOf(e)
<1> DEFINE o == Others(e)
           t == IF Len(o) = MemCapacity THEN SubSeq(o, 1, MemCapacity - 1) ELSE o
           s == MemPut(e)
<1>1. MemCapacity \in Nat /\ MemCapacity >= 1
  BY LogAssumption
<1>2. o \in Seq(Entries) /\ Len(o) <= MemCapacity
  <2>1. o \in Seq(Entries) /\ Len(o) <= Len(mem)
    BY OthersAre
  <2> HIDE DEF o
  <2> QED BY <1>1, <2>1
<1>3. Distinct(mem) => \A i, j \in 1 .. Len(o) :
              /\ \E k \in 1 .. Len(mem) : o[i] = mem[k]
              /\ HashOf(o[i]) # HashOf(e)
              /\ HashOf(o[i]) = HashOf(o[j]) => i = j
  BY OthersAre
<1>4. s = <<e>> \o t
  BY DEF MemPut
<1> HIDE DEF o, s
<1>5. /\ t \in Seq(Entries) /\ Len(t) <= Len(o) /\ Len(t) <= MemCapacity - 1
      /\ \A i \in 1 .. Len(t) : t[i] = o[i]
  BY <1>1, <1>2
<1> HIDE DEF t
<1>6. s \in Seq(Entries) /\ Len(s) = Len(t) + 1 /\ s[1] = e
  BY <1>4, <1>5
<1>7. ASSUME NEW i \in 1 .. Len(s), i # 1
      PROVE  i - 1 \in 1 .. Len(o) /\ s[i] = o[i - 1]
  <2>1. i - 1 \in 1 .. Len(t) /\ s[i] = t[i - 1]
    BY <1>4, <1>5, <1>6, <1>7
  <2> QED BY <1>2, <1>5, <2>1
<1>8. ASSUME Distinct(mem), NEW i \in 1 .. Len(s)
      PROVE  \/ s[i] = e
             \/ (\E k \in 1 .. Len(mem) : s[i] = mem[k]) /\ HashOf(s[i]) # HashOf(e)
  <2>1. CASE i = 1
    BY <1>6, <2>1
  <2>2. CASE i # 1
    <3>1. i - 1 \in 1 .. Len(o) /\ s[i] = o[i - 1]
      BY <1>7, <2>2
    <3>2. (\E k \in 1 .. Len(mem) : o[i - 1] = mem[k]) /\ HashOf(o[i - 1]) # HashOf(e)
      BY <1>3, <1>8, <3>1
    <3> QED BY <3>1, <3>2
  <2> QED BY <2>1, <2>2
<1>9. ASSUME Distinct(mem), NEW i \in 1 .. Len(s), NEW j \in 1 .. Len(s), HashOf(s[i]) = HashOf(s[j])
      PROVE  i = j
  <2>4. ASSUME NEW k \in 1 .. Len(s), k # 1 PROVE HashOf(s[k]) # HashOf(e)
    <3>1. k - 1 \in 1 .. Len(o) /\ s[k] = o[k - 1]
      BY <1>7, <2>4
    <3> QED BY <1>3, <1>9, <3>1
  <2>1. CASE i = 1 /\ j # 1
    BY <1>6, <1>9, <2>1, <2>4
  <2>2. CASE i # 1 /\ j = 1
    BY <1>6, <1>9, <2>2, <2>4
  <2>3. CASE i # 1 /\ j # 1
    <3>1. i - 1 = j - 1
      BY <1>3, <1>7, <1>9, <2>3
    <3> QED BY <3>1
  <2> QED BY <2>1, <2>2, <2>3
<1>10. Len(s) <= MemCapacity
  BY <1>1, <1>2, <1>5, <1>6
<1> QED BY <1>6, <1>8, <1>9, <1>10 DEF Distinct, s

LEMMA MemShortIs ==
  ASSUME mem \in Seq(Entries), Len(mem) <= MemCapacity, NEW e
  PROVE  /\ MemShort(e) \in Seq(Entries) /\ Len(MemShort(e)) <= Len(mem)
         /\ \A i \in 1 .. Len(MemShort(e)) : i \in 1 .. Len(mem) /\ MemShort(e)[i] = mem[i]
<1>1. MemCapacity \in Nat /\ MemCapacity >= 1
  BY LogAssumption
<1> DEFINE s == MemShort(e)
<1>2. s = mem \/ (Len(mem) = MemCapacity /\ s = SubSeq(mem, 1, MemCapacity - 1))
  BY DEF MemShort
<1> HIDE DEF s
<1>3. s \in Seq(Entries) /\ Len(s) <= Len(mem) /\ \A i \in 1 .. Len(s) : i \in 1 .. Len(mem) /\ s[i] = mem[i]
  BY <1>1, <1>2
<1> QED BY <1>3 DEF s

Inserting == {"write", "index", "mem", "sync", "compact"}

\* What an entry of the hash may be, as far as the callers know.
Promised(h) == {acked[h]} \cup doubt[h]

\* Who is past the lock has it, and the file it opened is the one that has the name.
Alone ==
  \A p \in Procs : /\ pc[p] \notin {"closed", "lock"} => lock = p
                   /\ fd[p] = IF pc[p] \in {"closed", "lock", "open"} THEN 0 ELSE name

\* file_len is an offset that a scan reaches, the index has what a scan up to it finds, and
\* what was written of cur lies behind it.
Layout(p) ==
  LET c == file[name].cells
  IN  /\ fileLen \in Offsets(c)
      /\ \A h \in DOMAIN index : index[h] \in {NoRecord, IndexOf(c, fileLen)[h]}
      /\ dead <= fileLen - LiveCells(index)
      /\ pc[p] \in Inserting => cur \in Entries
      /\ pc[p] \in {"write", "index"} => /\ fileLen + written <= Len(c)
                                         /\ \A j \in 1 .. written : c[fileLen + j] = <<cur, j>>
      /\ pc[p] = "write" => written < cur[2]
      /\ pc[p] = "index" => written = cur[2]

\* The invariant of the first layer.
LayoutInv == TypeOK /\ Alone /\ \A p \in Open : Layout(p)

-----------------------------------------------------------------------------
(* Layout: what the process that has the cache open knows of the file.     *)

LEMMA BoundsType == MaxInserts \in Nat /\ MaxOpens \in Nat /\ MaxMishaps \in Nat
BY LogAssumption

LEMMA OpenIs ==
  ASSUME TypeOK, NEW p \in Procs
  PROVE  p \in Open <=> pc[p] = "ready" \/ pc[p] \in Inserting
BY DEF TypeOK, Open, Inserting

LEMMA OthersOutside ==
  ASSUME Alone, NEW p \in Procs, pc[p] \notin {"closed", "lock"}
  PROVE  /\ lock = p
         /\ \A q \in Procs : q # p => pc[q] \in {"closed", "lock"} /\ q \notin Open /\ fd[q] = 0
BY DEF Alone, Open

\* What a step keeps that touches no file and none of what Layout is about.
LEMMA LayoutKept ==
  ASSUME LayoutInv, UNCHANGED <<name, file, fileLen, index, dead, cur, written>>,
         NEW p \in Open, pc'[p] = pc[p]
  PROVE  Layout(p)'
BY DEF LayoutInv, Layout

LEMMA CallOpenLayout ==
  ASSUME LayoutInv, NEW p \in Procs, CallOpen(p)
  PROVE  LayoutInv'
<1> USE DEF CallOpen, Goto, fileVars, curVars, cacheVars, mishapVars, history
<1>1. TypeOK'
  BY BoundsType DEF LayoutInv, TypeOK
<1>2. Alone'
  BY DEF LayoutInv, Alone, TypeOK
<1>3. \A q \in Open' : q \in Open /\ pc'[q] = pc[q]
  BY DEF Open, LayoutInv, TypeOK
<1>4. \A q \in Open' : Layout(q)'
  BY <1>3, LayoutKept
<1> QED BY <1>1, <1>2, <1>4 DEF LayoutInv

LEMMA TakeLockLayout ==
  ASSUME LayoutInv, NEW p \in Procs, TakeLock(p)
  PROVE  LayoutInv'
<1> USE DEF TakeLock, Goto, fileVars, curVars, cacheVars, boundVars, mishapVars, history
<1>1. TypeOK'
  BY DEF LayoutInv, TypeOK
<1>2. Alone'
  BY LogAssumption DEF LayoutInv, Alone, TypeOK
<1>3. \A q \in Open' : q \in Open /\ pc'[q] = pc[q]
  BY DEF Open, LayoutInv, TypeOK
<1>4. \A q \in Open' : Layout(q)'
  BY <1>3, LayoutKept
<1> QED BY <1>1, <1>2, <1>4 DEF LayoutInv

LEMMA OpenFileLayout ==
  ASSUME LayoutInv, NEW p \in Procs, OpenFile(p)
  PROVE  LayoutInv'
<1> USE DEF OpenFile, Goto, fileVars, curVars, cacheVars, boundVars, mishapVars, history
<1>1. TypeOK'
  BY DEF LayoutInv, TypeOK
<1>2. Alone'
  BY DEF LayoutInv, Alone, TypeOK
<1>3. \A q \in Open' : q \in Open /\ pc'[q] = pc[q]
  BY DEF Open, LayoutInv, TypeOK
<1>4. \A q \in Open' : Layout(q)'
  BY <1>3, LayoutKept
<1> QED BY <1>1, <1>2, <1>4 DEF LayoutInv

LEMMA InitialIndex ==
  /\ NoIndex \in [{0} \cup Hashes -> [at : Nat, size : Nat]]
  /\ NoFile \in Files /\ <<>> \in Seq(Entries) /\ Len(<<>>) = 0
BY DEF NoIndex, NoRecord, NoFile, Files

LEMMA LeaveLayout ==
  ASSUME LayoutInv, NEW p \in Procs, Leave(p),
         name' = name, durableName' \in Inodes,
         file' \in [Inodes -> Files], disk' \in [Inodes -> Files],
         lock = p \/ file' = file,
         UNCHANGED boundVars, UNCHANGED mishapVars \/ Mishap,
         acked' \in [Hashes -> Entries \cup {None}], doubt' \in [Hashes -> SUBSET Entries],
         hope' \in [Hashes -> SUBSET (Entries \cup {None})]
  PROVE  LayoutInv'
<1> USE DEF Leave
<1>1. TypeOK'
  <2> USE DEF LayoutInv, TypeOK
  <2>1. /\ pc' \in [Procs -> {"closed", "lock", "open", "header", "scan", "ready", "write",
                              "index", "mem", "sync", "compact"}]
        /\ fd' \in [Procs -> Inodes \cup {0}] /\ lock' \in Procs \cup {NoProc}
    OBVIOUS
  <2>2. /\ cur' \in Entries \cup {None} /\ written' \in Nat
        /\ fileLen' \in Nat /\ dead' \in Nat /\ unsynced' \in Nat
        /\ index' \in [{0} \cup Hashes -> [at : Nat, size : Nat]]
        /\ mem' \in Seq(Entries) /\ Len(mem') <= MemCapacity
    <3>1. MemCapacity \in Nat
      BY LogAssumption
    <3>2. CASE lock = p
      BY <3>1, <3>2, InitialIndex
    <3>3. CASE lock # p
      BY <3>3 DEF curVars, cacheVars
    <3> QED BY <3>2, <3>3
  <2>3. /\ inserts' \in 0 .. MaxInserts /\ opens' \in 0 .. MaxOpens
        /\ mishaps' \in 0 .. MaxMishaps /\ power' \in 0 .. mishaps'
    BY BoundsType DEF boundVars, mishapVars, Mishap
  <2> QED BY <2>1, <2>2, <2>3
<1>2. Alone'
  BY DEF LayoutInv, Alone, TypeOK
<1>3. \A q \in Open' : q \in Open /\ pc'[q] = pc[q] /\ lock # p
  BY DEF Open, LayoutInv, TypeOK, Alone
<1>4. ASSUME NEW q \in Open' PROVE Layout(q)'
  <2>1. UNCHANGED <<name, file, fileLen, index, dead, cur, written>>
    BY <1>3 DEF curVars, cacheVars
  <2> QED BY <1>3, <2>1, LayoutKept
<1> QED BY <1>1, <1>2, <1>4 DEF LayoutInv

LEMMA BadHeaderLayout ==
  ASSUME LayoutInv, NEW p \in Procs, BadHeader(p)
  PROVE  LayoutInv'
BY LeaveLayout DEF BadHeader, fileVars, history, LayoutInv, TypeOK

LEMMA ScanFailsLayout ==
  ASSUME LayoutInv, NEW p \in Procs, ScanFails(p)
  PROVE  LayoutInv'
BY LeaveLayout DEF ScanFails, fileVars, history, LayoutInv, TypeOK

LEMMA CrashLayout ==
  ASSUME LayoutInv, NEW p \in Procs, Crash(p)
  PROVE  LayoutInv'
BY LeaveLayout DEF Crash, fileVars, history, LayoutInv, TypeOK

LEMMA FileType ==
  ASSUME TypeOK, NEW i \in Inodes
  PROVE  /\ file[i] \in Files /\ file[i].cells \in Seq(Cells)
         /\ file[i].hdr \in {"none", "torn", "ok"}
         /\ disk[i] \in Files /\ disk[i].cells \in Seq(Cells)
         /\ disk[i].hdr \in {"none", "torn", "ok"}
BY DEF TypeOK, Files

LEMMA HeaderFailsLayout ==
  ASSUME LayoutInv, NEW p \in Procs, HeaderFails(p)
  PROVE  LayoutInv'
<1>1. file' \in [Inodes -> Files]
  <2>1. file[fd[p]] \in Files
    BY DEF HeaderFails, LayoutInv, TypeOK, Alone
  <2>2. [file[fd[p]] EXCEPT !.hdr = IF @ = "none" THEN "torn" ELSE @] \in Files
    BY <2>1 DEF Files
  <2> QED BY <2>2 DEF HeaderFails, LayoutInv, TypeOK
<1>2. lock = p
  BY DEF HeaderFails, LayoutInv, Alone
<1> QED BY <1>1, <1>2, LeaveLayout DEF HeaderFails, history, LayoutInv, TypeOK

LEMMA SyncedType ==
  ASSUME TypeOK, NEW i \in Inodes, Synced(i)
  PROVE  /\ durableName' \in Inodes /\ disk' \in [Inodes -> Files]
         /\ hope' \in [Hashes -> SUBSET (Entries \cup {None})]
BY DEF TypeOK, Synced

LEMMA CloseLayout ==
  ASSUME LayoutInv, NEW p \in Procs, Close(p)
  PROVE  LayoutInv'
<1>1. lock = p /\ fd[p] \in Inodes
  BY DEF Close, LayoutInv, TypeOK, Alone
<1>2. CASE Synced(fd[p]) /\ UNCHANGED <<name, file, acked, doubt, mishapVars>>
  BY <1>1, <1>2, SyncedType, LeaveLayout DEF Close, LayoutInv, TypeOK
<1>3. CASE Mishap /\ UNCHANGED <<fileVars, history>>
  BY <1>1, <1>3, LeaveLayout DEF Close, fileVars, history, LayoutInv, TypeOK
<1> QED BY <1>2, <1>3 DEF Close

LEMMA HeaderLayout ==
  ASSUME LayoutInv, NEW p \in Procs, Header(p)
  PROVE  LayoutInv'
<1> USE DEF Header, Goto, curVars, cacheVars, boundVars, mishapVars, history
<1>1. TypeOK'
  <2>1. file[fd[p]] \in Files
    BY DEF LayoutInv, TypeOK, Alone
  <2>2. [file[fd[p]] EXCEPT !.hdr = "ok"] \in Files
    BY <2>1 DEF Files
  <2> QED BY <2>2 DEF LayoutInv, TypeOK
<1>2. Alone'
  BY DEF LayoutInv, Alone, TypeOK
<1>3. \A q \in Procs : q \notin Open'
  BY OthersOutside DEF Open, LayoutInv, TypeOK
<1>4. \A q \in Open' : Layout(q)'
  BY <1>3 DEF Open
<1> QED BY <1>1, <1>2, <1>4 DEF LayoutInv

\* A step of the process that has the cache open, in one of the two ways it can end.
LEMMA LayoutStep ==
  ASSUME LayoutInv, NEW p \in Procs, p \in Open \/ pc[p] = "scan",
         TypeOK', UNCHANGED lock, \A q \in Procs : q # p => pc'[q] = pc[q],
         pc'[p] \notin {"closed", "lock", "open"},
         fd' = [fd EXCEPT ![p] = name'], p \in Open' => Layout(p)'
  PROVE  LayoutInv'
<1>1. /\ lock = p /\ pc[p] \notin {"closed", "lock"}
      /\ \A q \in Procs : q # p => pc[q] \in {"closed", "lock"} /\ fd[q] = 0
  BY OthersOutside DEF LayoutInv, Open
<1>2. Alone'
  BY <1>1 DEF LayoutInv, TypeOK, Alone
<1>3. \A q \in Open' : q = p
  BY <1>1 DEF Open
<1> QED BY <1>2, <1>3 DEF LayoutInv

\* The process has what Layout says before the step.
LEMMA HasOpen ==
  ASSUME LayoutInv, NEW p \in Open
  PROVE  /\ p \in Procs /\ lock = p /\ fd[p] = name /\ name \in Inodes /\ fd = [fd EXCEPT ![p] = name]
         /\ file[name].cells \in Seq(Cells) /\ disk[name].cells \in Seq(Cells)
         /\ Layout(p)
<1>1. p \in Procs /\ pc[p] \notin {"closed", "lock", "open"}
  BY DEF Open
<1>2. lock = p /\ fd[p] = name
  BY <1>1 DEF LayoutInv, Alone
<1>3. fd = [fd EXCEPT ![p] = name]
  BY <1>1, <1>2 DEF LayoutInv, TypeOK
<1>4. name \in Inodes
  BY DEF LayoutInv, TypeOK
<1> QED BY <1>1, <1>2, <1>3, <1>4, FileType DEF LayoutInv

LEMMA LookupLayout ==
  ASSUME LayoutInv, NEW p \in Procs, NEW k \in Keys, Lookup(p, k)
  PROVE  LayoutInv'
<1>1. p \in Open /\ pc[p] = "ready"
  BY DEF Lookup, Open
<1>2. Answer(p, k) # None => Answer(p, k) \in Entries
  <2> DEFINE hits == {f \in Range(mem) : f[1] = k}
             s == Stored(file[fd[p]].cells, index, Hash[k])
             e == IF hits # {} THEN CHOOSE f \in hits : TRUE ELSE s
  <2>1. Answer(p, k) = IF e[1] = k THEN e ELSE None
    BY DEF Answer
  <2>2. hits # {} => (CHOOSE f \in hits : TRUE) \in Entries
    <3>1. Range(mem) \subseteq Entries
      BY DEF LayoutInv, TypeOK, Range
    <3> QED BY <3>1
  <2>3. s \in Recs \cup {None}
    <3>1. Hash[k] \in {0} \cup Hashes
      BY DEF Hashes
    <3>2. index[Hash[k]] \in [at : Nat, size : Nat]
      BY <3>1 DEF LayoutInv, TypeOK
    <3>3. file[fd[p]].cells \in Seq(Cells)
      BY <1>1, HasOpen
    <3>4. EntryAt(file[fd[p]].cells, index[Hash[k]].at) \in Recs \cup {None}
      BY <3>2, <3>3, EntryAtIs
    <3> QED BY <3>4 DEF Stored
  <2>4. k # NoKey
    BY LogAssumption
  <2>5. s[1] = k => s \in Entries
    <3>1. None[1] = NoKey /\ Zeros[1] = NoKey
      BY DEF None, Zeros
    <3> HIDE DEF s
    <3> QED BY <2>3, <2>4, <3>1 DEF Recs
  <2> HIDE DEF s
  <2>6. CASE hits # {}
    <3> DEFINE f == CHOOSE f \in hits : TRUE
    <3>1. f \in Entries /\ e = f
      BY <2>2, <2>6
    <3> HIDE DEF f, e, hits
    <3> QED BY <2>1, <3>1
  <2>7. CASE hits = {}
    <3>1. e = s
      BY <2>7
    <3> HIDE DEF e, hits
    <3> QED BY <2>1, <2>5, <3>1
  <2> QED BY <2>6, <2>7
<1>3. mem' \in Seq(Entries) /\ Len(mem') <= MemCapacity
  <2> DEFINE e == Answer(p, k)
  <2>1. e \in Entries /\ (mem' = MemPut(e) \/ mem' = MemShort(e))
    BY <1>2 DEF Lookup
  <2>2. mem \in Seq(Entries) /\ Len(mem) <= MemCapacity /\ MemCapacity \in Nat
    BY LogAssumption DEF LayoutInv, TypeOK
  <2> HIDE DEF e
  <2>3. CASE mem' = MemPut(e)
    BY <2>1, <2>2, <2>3, MemPutIs
  <2>4. CASE mem' = MemShort(e)
    <3>1. mem' \in Seq(Entries) /\ Len(mem') <= Len(mem)
      BY <2>2, <2>4, MemShortIs
    <3> QED BY <2>2, <3>1
  <2> QED BY <2>1, <2>3, <2>4
<1>4. UNCHANGED mishapVars \/ Mishap
  BY DEF Lookup
<1> USE DEF Lookup, fileVars, procVars, curVars, boundVars, history
<1>5. TypeOK'
  <2>1. mishaps' \in 0 .. MaxMishaps /\ power' \in 0 .. mishaps'
    BY <1>4, BoundsType DEF mishapVars, Mishap, LayoutInv, TypeOK
  <2> QED BY <1>3, <2>1 DEF LayoutInv, TypeOK
<1>6. Alone'
  BY DEF LayoutInv, Alone
<1>7. \A q \in Open' : q \in Open /\ pc'[q] = pc[q]
  BY DEF Open
<1>8. \A q \in Open' : Layout(q)'
  BY <1>7, LayoutKept
<1> QED BY <1>5, <1>6, <1>8 DEF LayoutInv

\* The file, and what the process knows of it, stay; the process goes on.
LEMMA LayoutMoves ==
  ASSUME LayoutInv, NEW p \in Open, TypeOK', UNCHANGED <<name, file, lock, fd, fileLen, index, dead>>,
         NEW s, s \notin {"closed", "lock", "open", "index"}, pc' = [pc EXCEPT ![p] = s],
         s \in Inserting => cur' \in Entries,
         s = "write" => written' = 0
  PROVE  LayoutInv'
<1>1. /\ p \in Procs /\ fd = [fd EXCEPT ![p] = name] /\ Layout(p)
      /\ file[name].cells \in Seq(Cells)
  BY HasOpen
<1>2. pc'[p] = s /\ \A q \in Procs : q # p => pc'[q] = pc[q]
  BY <1>1 DEF LayoutInv, TypeOK
<1>3. Layout(p)'
  <2> DEFINE c == file[name].cells
  <2>1. /\ fileLen \in Offsets(c)
        /\ \A h \in DOMAIN index : index[h] \in {NoRecord, IndexOf(c, fileLen)[h]}
        /\ dead <= fileLen - LiveCells(index)
    BY <1>1 DEF Layout
  <2>2. fileLen \in Nat /\ fileLen <= Len(c) /\ Len(c) \in Nat
    BY <1>1, <2>1, OffsetSteps
  <2>3. s = "write" => fileLen + written' <= Len(c) /\ (\A j \in 1 .. written' : c[fileLen + j] = <<cur', j>>)
    BY <2>2
  <2>4. s = "write" => written' < cur'[2]
    BY RecsType DEF Inserting
  <2> QED BY <1>2, <2>1, <2>3, <2>4 DEF Layout
<1> QED BY <1>1, <1>2, <1>3, LayoutStep

LEMMA CallInsertLayout ==
  ASSUME LayoutInv, NEW p \in Procs, NEW e \in Entries, CallInsert(p, e)
  PROVE  LayoutInv'
<1> USE DEF CallInsert, Goto
<1>1. p \in Open
  BY DEF Open
<1>2. TypeOK'
  <2>1. HashOf(e) \in Hashes
    BY RecsType
  <2>2. doubt' \in [Hashes -> SUBSET Entries] /\ hope' \in [Hashes -> SUBSET (Entries \cup {None})]
    BY <2>1 DEF LayoutInv, TypeOK
  <2>3. inserts' \in 0 .. MaxInserts
    BY BoundsType DEF LayoutInv, TypeOK
  <2> QED BY <2>2, <2>3 DEF LayoutInv, TypeOK, fileVars, cacheVars, mishapVars
<1> QED BY <1>1, <1>2, LayoutMoves DEF fileVars, cacheVars

LEMMA InsertMemLayout ==
  ASSUME LayoutInv, NEW p \in Procs, InsertMem(p)
  PROVE  LayoutInv'
<1> USE DEF InsertMem, Goto
<1>1. p \in Open
  BY DEF Open
<1>2. cur \in Entries
  BY <1>1 DEF LayoutInv, Layout, Inserting
<1>3. mem' \in Seq(Entries) /\ Len(mem') <= MemCapacity
  BY <1>2, MemPutIs DEF LayoutInv, TypeOK
<1>4. TypeOK'
  BY <1>3 DEF LayoutInv, TypeOK, fileVars, curVars, boundVars, mishapVars, history
<1> QED BY <1>1, <1>2, <1>4, LayoutMoves DEF fileVars, curVars

LEMMA MaybeSyncLayout ==
  ASSUME LayoutInv, NEW p \in Procs, MaybeSync(p)
  PROVE  LayoutInv'
<1> USE DEF MaybeSync, Goto
<1>1. p \in Open
  BY DEF Open
<1>2. cur \in Entries
  BY <1>1 DEF LayoutInv, Layout, Inserting
<1>3. /\ durableName' \in Inodes /\ disk' \in [Inodes -> Files] /\ unsynced' \in Nat
      /\ hope' \in [Hashes -> SUBSET (Entries \cup {None})]
  <2>1. fd[p] \in Inodes
    BY <1>1, HasOpen
  <2>2. TypeOK
    BY DEF LayoutInv
  <2>3. CASE SyncDue
    BY <2>1, <2>2, <2>3, SyncedType
  <2>4. CASE ~ SyncDue
    BY <2>2, <2>4 DEF TypeOK
  <2> QED BY <2>3, <2>4
<1>4. TypeOK'
  BY <1>3 DEF LayoutInv, TypeOK, curVars, boundVars, mishapVars
<1> QED BY <1>1, <1>2, <1>4, LayoutMoves DEF curVars

LEMMA SyncLayout ==
  ASSUME LayoutInv, NEW p \in Procs, Sync(p)
  PROVE  LayoutInv'
<1>1. p \in Open
  BY DEF Open, Sync
<1>2. fd[p] \in Inodes
  BY <1>1, HasOpen
<1>3. /\ durableName' \in Inodes /\ disk' \in [Inodes -> Files]
      /\ hope' \in [Hashes -> SUBSET (Entries \cup {None})]
  BY <1>2, SyncedType DEF LayoutInv, Sync
<1>4. TypeOK'
  BY <1>3 DEF Sync, LayoutInv, TypeOK, procVars, curVars, boundVars, mishapVars
<1>5. pc' = [pc EXCEPT ![p] = "ready"]
  BY DEF Sync, procVars, LayoutInv, TypeOK
<1> QED BY <1>1, <1>4, <1>5, LayoutMoves DEF Sync, procVars, Inserting

LEMMA ReturnType ==
  ASSUME LayoutInv, NEW p \in Open, Return(p)
  PROVE  /\ pc[p] = "compact" /\ pc' = [pc EXCEPT ![p] = "ready"] /\ pc'[p] = "ready"
         /\ cur \in Entries /\ HashOf(cur) \in Hashes
         /\ pc' \in [Procs -> {"closed", "lock", "open", "header", "scan", "ready", "write",
                               "index", "mem", "sync", "compact"}]
         /\ lock' \in Procs \cup {NoProc}
         /\ cur' \in Entries \cup {None} /\ written' \in Nat
         /\ acked' \in [Hashes -> Entries \cup {None}] /\ doubt' \in [Hashes -> SUBSET Entries]
         /\ hope' \in [Hashes -> SUBSET (Entries \cup {None})]
         /\ inserts' \in 0 .. MaxInserts /\ opens' \in 0 .. MaxOpens
         /\ mishaps' \in 0 .. MaxMishaps /\ power' \in 0 .. mishaps'
         /\ unsynced' \in Nat /\ mem' \in Seq(Entries) /\ Len(mem') <= MemCapacity
<1>1. p \in Procs /\ Layout(p)
  BY HasOpen
<1>2. cur \in Entries
  BY <1>1 DEF Return, Layout, Inserting
<1>3. HashOf(cur) \in Hashes
  BY <1>2, RecsType
<1> QED BY <1>1, <1>2, <1>3 DEF Return, boundVars, mishapVars, LayoutInv, TypeOK

LEMMA InsertReturnsLayout ==
  ASSUME LayoutInv, NEW p \in Procs, InsertReturns(p)
  PROVE  LayoutInv'
<1>1. p \in Open
  BY DEF Open, InsertReturns, Return
<1>2. Return(p)
  BY DEF InsertReturns
<1>3. TypeOK'
  BY <1>1, <1>2, ReturnType DEF InsertReturns, LayoutInv, TypeOK, fileVars
<1>4. pc' = [pc EXCEPT ![p] = "ready"] /\ UNCHANGED <<name, file, lock, fd, fileLen, index, dead>>
  BY <1>2 DEF InsertReturns, Return, fileVars
<1> QED BY <1>1, <1>3, <1>4, LayoutMoves DEF Inserting

LEMMA FailType ==
  ASSUME TypeOK, NEW p \in Procs, NEW at, Fail(p, at)
  PROVE  /\ pc' = [pc EXCEPT ![p] = "ready"] /\ pc'[p] = "ready"
         /\ pc' \in [Procs -> {"closed", "lock", "open", "header", "scan", "ready", "write",
                               "index", "mem", "sync", "compact"}]
         /\ lock' \in Procs \cup {NoProc} /\ fd' \in [Procs -> Inodes \cup {0}]
         /\ cur' \in Entries \cup {None} /\ written' \in Nat
         /\ acked' \in [Hashes -> Entries \cup {None}] /\ doubt' \in [Hashes -> SUBSET Entries]
         /\ hope' \in [Hashes -> SUBSET (Entries \cup {None})]
         /\ inserts' \in 0 .. MaxInserts /\ opens' \in 0 .. MaxOpens
         /\ mishaps' \in 0 .. MaxMishaps /\ power' \in 0 .. mishaps'
         /\ UNCHANGED <<lock, fd>>
BY BoundsType DEF Fail, Goto, Mishap, TypeOK, boundVars, history

LEMMA WriteFailsLayout ==
  ASSUME LayoutInv, NEW p \in Procs, WriteFails(p)
  PROVE  LayoutInv'
<1>1. p \in Open /\ Fail(p, "write")
  BY DEF Open, WriteFails, Fail, Goto
<1>2. TypeOK'
  BY <1>1, FailType DEF WriteFails, LayoutInv, TypeOK, fileVars, cacheVars
<1> QED BY <1>1, <1>2, FailType, LayoutMoves DEF WriteFails, LayoutInv, fileVars, cacheVars, Inserting

LEMMA SyncFailsLayout ==
  ASSUME LayoutInv, NEW p \in Procs, SyncFails(p)
  PROVE  LayoutInv'
<1>1. p \in Open /\ Fail(p, "sync")
  BY DEF Open, SyncFails, Fail, Goto
<1>2. TypeOK'
  BY <1>1, FailType DEF SyncFails, LayoutInv, TypeOK, fileVars, cacheVars
<1> QED BY <1>1, <1>2, FailType, LayoutMoves DEF SyncFails, LayoutInv, fileVars, cacheVars, Inserting

LEMMA CompactFailsLayout ==
  ASSUME LayoutInv, NEW p \in Procs, CompactFails(p)
  PROVE  LayoutInv'
<1>1. p \in Open /\ Fail(p, "compact")
  BY DEF Open, CompactFails, Fail, Goto
<1>2. TypeOK'
  BY <1>1, FailType DEF CompactFails, LayoutInv, TypeOK, fileVars, cacheVars
<1> QED BY <1>1, <1>2, FailType, LayoutMoves DEF CompactFails, LayoutInv, fileVars, cacheVars, Inserting

LEMMA MemFailsLayout ==
  ASSUME LayoutInv, NEW p \in Procs, MemFails(p)
  PROVE  LayoutInv'
<1>1. p \in Open /\ Fail(p, "mem")
  BY DEF Open, MemFails, Fail, Goto
<1>2. mem' \in Seq(Entries) /\ Len(mem') <= MemCapacity
  <2>1. mem \in Seq(Entries) /\ Len(mem) <= MemCapacity /\ MemCapacity \in Nat
    BY LogAssumption DEF LayoutInv, TypeOK
  <2>2. mem' \in Seq(Entries) /\ Len(mem') <= Len(mem)
    BY <2>1, MemShortIs DEF MemFails
  <2> QED BY <2>1, <2>2
<1>3. TypeOK'
  BY <1>1, <1>2, FailType DEF MemFails, LayoutInv, TypeOK, fileVars
<1> QED BY <1>1, <1>3, FailType, LayoutMoves DEF MemFails, LayoutInv, fileVars, Inserting

\* What is written at file_len and behind it leaves the row before it, and its index, alone.
WroteCell(c, d) ==
  /\ c \in Seq(Cells) /\ d \in Seq(Cells) /\ Agree(c, d, fileLen)
  /\ d = Put(c, fileLen + written, <<cur, written + 1>>)
  /\ file' = [file EXCEPT ![name].cells = d]
  /\ \A q \in 1 .. Len(d) : q # fileLen + written + 1 => q <= Len(c) /\ d[q] = c[q]
  /\ fileLen + written + 1 \in 1 .. Len(d)
  /\ d[fileLen + written + 1] = <<cur, written + 1>>
  /\ fileLen \in Nat /\ written \in Nat /\ cur \in Entries

LEMMA WriteCellRow ==
  ASSUME LayoutInv, NEW p \in Procs, WriteCell(p), NEW c, c = file[name].cells, NEW d,
         d = file'[name].cells
  PROVE  WroteCell(c, d)
<1>1. p \in Open /\ pc[p] = "write"
  BY DEF Open, WriteCell
<1>2. /\ fd[p] = name /\ name \in Inodes /\ c \in Seq(Cells) /\ Layout(p)
  BY <1>1, HasOpen
<1>3. /\ fileLen \in Offsets(c) /\ fileLen + written <= Len(c) /\ cur \in Entries /\ written \in Nat
  BY <1>1, <1>2 DEF Layout, Inserting, LayoutInv, TypeOK
<1>4. fileLen \in Nat /\ fileLen <= Len(c) /\ Len(c) \in Nat
  BY <1>2, <1>3, OffsetSteps
<1> DEFINE x == <<cur, written + 1>>
           n == fileLen + written
<1>5. x \in Cells /\ n \in Nat /\ n <= Len(c)
  BY <1>3, <1>4 DEF Cells
<1>6. d = Put(c, n, x)
  BY <1>2 DEF WriteCell, LayoutInv, TypeOK, Files
<1>7. file' = [file EXCEPT ![name].cells = d]
  BY <1>2, <1>6 DEF WriteCell, LayoutInv, TypeOK, Files
<1> HIDE DEF x, n
<1>8. /\ d \in Seq(Cells) /\ n + 1 <= Len(d) /\ Len(c) <= Len(d) /\ d[n + 1] = x
      /\ \A q \in 1 .. Len(d) : q # n + 1 => q <= Len(c) /\ d[q] = c[q]
  <2>1. /\ Put(c, n, x) \in Seq(Cells) /\ n + 1 <= Len(Put(c, n, x)) /\ Len(c) <= Len(Put(c, n, x))
        /\ Put(c, n, x)[n + 1] = x
        /\ \A q \in 1 .. Len(Put(c, n, x)) : q # n + 1 => q <= Len(c) /\ Put(c, n, x)[q] = c[q]
    BY <1>2, <1>5, PutRow
  <2> QED BY <1>6, <2>1
<1>9. n + 1 \in 1 .. Len(d)
  BY <1>5, <1>8
<1>10. Agree(c, d, fileLen)
  <2>1. fileLen <= Len(d) /\ \A q \in 1 .. fileLen : q \in 1 .. Len(d) /\ q # n + 1
    BY <1>3, <1>4, <1>8 DEF n
  <2> QED BY <1>3, <1>8, <2>1 DEF Agree
<1> QED BY <1>2, <1>3, <1>4, <1>6, <1>7, <1>8, <1>9, <1>10 DEF x, n, WroteCell

LEMMA WriteCellLayout ==
  ASSUME LayoutInv, NEW p \in Procs, WriteCell(p)
  PROVE  LayoutInv'
<1> DEFINE c == file[name].cells
           d == file'[name].cells
<1>1. p \in Open /\ pc[p] = "write"
  BY DEF Open, WriteCell
<1>2. /\ fd = [fd EXCEPT ![p] = name] /\ fd[p] = name /\ name \in Inodes /\ Layout(p)
  BY <1>1, HasOpen
<1>3. /\ c \in Seq(Cells) /\ d \in Seq(Cells) /\ Agree(c, d, fileLen)
      /\ file' = [file EXCEPT ![name].cells = d]
      /\ \A q \in 1 .. Len(d) : q # fileLen + written + 1 => q <= Len(c) /\ d[q] = c[q]
      /\ fileLen + written + 1 \in 1 .. Len(d)
      /\ d[fileLen + written + 1] = <<cur, written + 1>>
      /\ fileLen \in Nat /\ written \in Nat /\ cur \in Entries
  <2>1. WroteCell(c, d)
    BY WriteCellRow
  <2> QED BY <2>1 DEF WroteCell
<1>4. pc' = [pc EXCEPT ![p] = IF written + 1 = cur[2] THEN "index" ELSE "write"]
  BY DEF WriteCell
<1>5. pc'[p] = (IF written + 1 = cur[2] THEN "index" ELSE "write") /\ \A q \in Procs : q # p => pc'[q] = pc[q]
  BY <1>4 DEF LayoutInv, TypeOK
<1>6. written' = written + 1 /\ UNCHANGED <<name, fd, cur, fileLen, index, dead, lock>>
  BY DEF WriteCell, cacheVars
<1> HIDE DEF c, d
<1>7. TypeOK'
  <2>1. file' \in [Inodes -> Files]
    <3>1. [file[name] EXCEPT !.cells = d] \in Files
      BY <1>2, <1>3, FileType DEF Files, LayoutInv
    <3> QED BY <1>2, <1>3, <3>1 DEF LayoutInv, TypeOK
  <2>2. pc' \in [Procs -> {"closed", "lock", "open", "header", "scan", "ready", "write",
                           "index", "mem", "sync", "compact"}]
    BY <1>4 DEF LayoutInv, TypeOK
  <2> QED
    BY <1>3, <2>1, <2>2, SMTT(20)
    DEF WriteCell, LayoutInv, TypeOK, cacheVars, boundVars, mishapVars, history
<1>8. Layout(p)'
  <2>1. /\ fileLen \in Offsets(c)
        /\ \A h \in DOMAIN index : index[h] \in {NoRecord, IndexOf(c, fileLen)[h]}
        /\ dead <= fileLen - LiveCells(index)
        /\ \A j \in 1 .. written : c[fileLen + j] = <<cur, j>>
        /\ written < cur[2]
    BY <1>1, <1>2 DEF Layout, c
  <2>2. fileLen \in Offsets(d) /\ IndexOf(d, fileLen) = IndexOf(c, fileLen)
    BY <1>3, AgreeIndex
  <2>3. fileLen + (written + 1) <= Len(d)
    BY <1>3
  <2>4. \A j \in 1 .. written + 1 : d[fileLen + j] = <<cur, j>>
    <3> SUFFICES ASSUME NEW j \in 1 .. written + 1 PROVE d[fileLen + j] = <<cur, j>>
      OBVIOUS
    <3>1. CASE j = written + 1
      BY <1>3, <3>1
    <3>2. CASE j # written + 1
      <4>1. j \in 1 .. written /\ fileLen + j # fileLen + written + 1 /\ fileLen + j \in 1 .. Len(d)
        BY <1>3, <3>2
      <4> QED BY <1>3, <2>1, <4>1
    <3> QED BY <3>1, <3>2
  <2>5. cur[2] \in Nat
    BY <1>3, RecsType
  <2>6. pc'[p] = "write" => written + 1 < cur[2]
    BY <1>3, <1>5, <2>1, <2>5
  <2>7. pc'[p] = "index" => written + 1 = cur[2]
    BY <1>5
  <2>8. file[name]'.cells = d
    BY <1>6 DEF d
  <2> QED BY <1>3, <1>6, <2>1, <2>2, <2>3, <2>4, <2>6, <2>7, <2>8 DEF Layout
<1>9. pc'[p] \notin {"closed", "lock", "open"}
  BY <1>5
<1> QED BY <1>1, <1>2, <1>5, <1>6, <1>7, <1>8, <1>9, LayoutStep

\* The record that was written is the next one.
LEMMA GrownRow ==
  ASSUME LayoutInv, NEW p \in Open, pc[p] = "index", NEW c, c = file[name].cells
  PROVE  /\ c \in Seq(Cells) /\ fileLen \in Offsets(c) /\ fileLen \in Nat /\ cur \in Entries
         /\ EntryAt(c, fileLen) = cur /\ Grown = End(c, fileLen)
         /\ Grown \in Offsets(c) /\ Grown \in Nat /\ Grown = fileLen + cur[2]
         /\ cur[2] \in Nat /\ cur[2] >= 1 /\ cur # None
         /\ IndexOf(c, Grown) = [IndexOf(c, fileLen) EXCEPT ![HashOf(cur)] = [at |-> fileLen, size |-> cur[2]]]
         /\ Learnt(c, fileLen, c, Grown, cur)
<1>1. /\ fileLen \in Offsets(c) /\ cur \in Entries /\ fileLen + written <= Len(c)
      /\ \A j \in 1 .. written : c[fileLen + j] = <<cur, j>>
      /\ written = cur[2] /\ c \in Seq(Cells)
  BY HasOpen DEF Layout, Inserting
<1>2. fileLen \in Nat
  BY <1>1, OffsetSteps
<1>3. cur \in Recs /\ cur # None /\ cur[2] \in Nat /\ cur[2] >= 1
  BY <1>1, RecsType
<1>4. EntryAt(c, fileLen) = cur
  <2>1. IsRec(c, fileLen, cur)
    BY <1>1 DEF IsRec
  <2> QED BY <1>1, <1>2, <1>3, <2>1, EntryAtIs
<1>5. Grown = End(c, fileLen) /\ Grown = fileLen + cur[2] /\ Grown \in Nat
  BY <1>2, <1>3, <1>4 DEF Grown, End
<1>6. Grown \in Offsets(c)
  BY <1>1, <1>3, <1>4, <1>5, OffsetSteps
<1>7. /\ IndexOf(c, Grown) = [IndexOf(c, fileLen) EXCEPT ![HashOf(cur)] = [at |-> fileLen, size |-> cur[2]]]
      /\ Learnt(c, fileLen, c, Grown, cur)
  <2>1. cur = EntryAt(c, fileLen) /\ c \in Seq(Cells) /\ fileLen \in Offsets(c) /\ cur # None
    BY <1>1, <1>3, <1>4
  <2>2. \A k : k = End(c, fileLen) =>
          /\ IndexOf(c, k) = [IndexOf(c, fileLen) EXCEPT ![HashOf(cur)] = [at |-> fileLen, size |-> cur[2]]]
          /\ Learnt(c, fileLen, c, k, cur)
    BY <2>1, NextRecord
  <2> QED BY <1>5, <2>2
<1> QED BY <1>1, <1>2, <1>3, <1>4, <1>5, <1>6, <1>7

LEMMA IndexRecordLayout ==
  ASSUME LayoutInv, NEW p \in Procs, IndexRecord(p)
  PROVE  LayoutInv'
<1> DEFINE c == file[name].cells
           r == [at |-> fileLen, size |-> cur[2]]
           x == HashOf(cur)
<1>1. p \in Open /\ pc[p] = "index"
  BY DEF Open, IndexRecord, Goto
<1>2. fd = [fd EXCEPT ![p] = name] /\ Layout(p)
  BY <1>1, HasOpen
<1>3. /\ fileLen \in Nat /\ cur \in Entries /\ Grown \in Offsets(c) /\ Grown \in Nat
      /\ Grown = fileLen + cur[2] /\ cur[2] \in Nat
      /\ IndexOf(c, Grown) = [IndexOf(c, fileLen) EXCEPT ![x] = r]
  BY <1>1, GrownRow
<1>4. /\ fileLen' = Grown /\ index' = [index EXCEPT ![x] = r] /\ dead' = dead + index[x].size
      /\ pc' = [pc EXCEPT ![p] = "mem"] /\ unsynced' = unsynced + 1
      /\ UNCHANGED <<fileVars, lock, fd, curVars, mem, boundVars, mishapVars, history>>
  BY DEF IndexRecord, Goto
<1>5. /\ x \in {0} \cup Hashes /\ r \in [at : Nat, size : Nat]
      /\ index \in [{0} \cup Hashes -> [at : Nat, size : Nat]] /\ index[x].size \in Nat
      /\ dead \in Nat
  <2>1. x \in {0} \cup Hashes /\ r \in [at : Nat, size : Nat]
    BY <1>3, RecsType
  <2> HIDE DEF x
  <2> QED BY <2>1 DEF LayoutInv, TypeOK
<1> HIDE DEF x, r
<1>6. index' \in [{0} \cup Hashes -> [at : Nat, size : Nat]]
  BY <1>4, <1>5
<1>7. TypeOK'
  <2>1. pc' \in [Procs -> {"closed", "lock", "open", "header", "scan", "ready", "write",
                           "index", "mem", "sync", "compact"}]
    BY <1>4 DEF LayoutInv, TypeOK
  <2>2. fileLen' \in Nat /\ dead' \in Nat /\ unsynced' \in Nat
    <3>1. fileLen' \in Nat
      BY <1>3, <1>4
    <3>2. dead' \in Nat
      BY <1>4, <1>5
    <3>3. unsynced' \in Nat
      BY <1>4 DEF LayoutInv, TypeOK
    <3> QED BY <3>1, <3>2, <3>3
  <2> QED BY <1>4, <1>6, <2>1, <2>2
      DEF LayoutInv, TypeOK, fileVars, curVars, boundVars, mishapVars, history
<1>8. pc'[p] = "mem" /\ \A q \in Procs : q # p => pc'[q] = pc[q]
  BY <1>4 DEF LayoutInv, TypeOK
<1>9. Layout(p)'
  <2>1. /\ \A h \in DOMAIN index : index[h] \in {NoRecord, IndexOf(c, fileLen)[h]}
        /\ dead <= fileLen - LiveCells(index)
    BY <1>2 DEF Layout
  <2>2. \A h \in DOMAIN index' : index'[h] \in {NoRecord, IndexOf(c, Grown)[h]}
    <3>1. DOMAIN IndexOf(c, fileLen) = {0} \cup Hashes
      BY IndexDomain
    <3> HIDE DEF Grown, c
    <3> QED BY <1>3, <1>4, <1>5, <2>1, <3>1
  <2>3. LiveCells(index') = LiveCells(index) - index[x].size + r.size
    BY <1>4, <1>5, LiveUpdate
  <2>4. LiveCells(index) \in Nat /\ r.size = cur[2]
    BY <1>5, LiveIsNat DEF r
  <2>5. dead' <= fileLen' - LiveCells(index')
    BY <1>3, <1>4, <1>5, <2>1, <2>3, <2>4
  <2>6. file'[name'].cells = c /\ cur' = cur
    BY <1>4 DEF fileVars, curVars
  <2> HIDE DEF Grown, c
  <2> QED BY <1>3, <1>4, <1>8, <2>2, <2>5, <2>6 DEF Layout
<1>10. UNCHANGED <<name, lock, fd>>
  BY <1>4 DEF fileVars
<1> QED BY <1>1, <1>2, <1>7, <1>8, <1>9, <1>10, LayoutStep

LEMMA IndexFailsLayout ==
  ASSUME LayoutInv, NEW p \in Procs, IndexFails(p)
  PROVE  LayoutInv'
<1> DEFINE c == file[name].cells
           x == HashOf(cur)
<1>1. p \in Open /\ pc[p] = "index" /\ Fail(p, "index") /\ TypeOK
  BY DEF Open, IndexFails, Fail, Goto, LayoutInv
<1>2. fd = [fd EXCEPT ![p] = name] /\ Layout(p)
  BY <1>1, HasOpen
<1>3. /\ fileLen \in Nat /\ cur \in Entries /\ Grown \in Offsets(c) /\ Grown \in Nat
      /\ Grown = fileLen + cur[2] /\ cur[2] \in Nat
      /\ IndexOf(c, Grown) = [IndexOf(c, fileLen) EXCEPT ![x] = [at |-> fileLen, size |-> cur[2]]]
  BY <1>1, GrownRow
<1>4. /\ fileLen' = Grown /\ index[x] = NoRecord
      /\ UNCHANGED <<fileVars, index, dead, unsynced, mem>>
  BY DEF IndexFails
<1>5. /\ pc' = [pc EXCEPT ![p] = "ready"] /\ pc'[p] = "ready" /\ UNCHANGED <<lock, fd>>
  BY <1>1, FailType
<1>6. TypeOK'
  BY <1>1, <1>3, <1>4, FailType DEF TypeOK, fileVars
<1>7. \A q \in Procs : q # p => pc'[q] = pc[q]
  BY <1>1, <1>5 DEF TypeOK
<1>8. Layout(p)'
  <2>1. /\ \A h \in DOMAIN index : index[h] \in {NoRecord, IndexOf(c, fileLen)[h]}
        /\ dead <= fileLen - LiveCells(index)
    BY <1>2 DEF Layout
  <2>2. \A h \in DOMAIN index : index[h] \in {NoRecord, IndexOf(c, Grown)[h]}
    <3>1. DOMAIN IndexOf(c, fileLen) = {0} \cup Hashes
      BY IndexDomain
    <3>2. DOMAIN index = {0} \cup Hashes
      BY <1>1 DEF TypeOK
    <3> HIDE DEF Grown, c, x
    <3> QED BY <1>3, <1>4, <2>1, <3>1, <3>2
  <2>3. LiveCells(index) \in Nat /\ dead \in Nat
    BY <1>1, LiveIsNat DEF TypeOK
  <2>4. dead <= Grown - LiveCells(index)
    BY <1>3, <2>1, <2>3
  <2>5. file'[name'].cells = c
    BY <1>4 DEF fileVars
  <2> HIDE DEF Grown, c
  <2> QED BY <1>3, <1>4, <1>5, <2>2, <2>4, <2>5 DEF Layout, Inserting
<1>9. UNCHANGED name
  BY <1>4 DEF fileVars
<1> QED BY <1>1, <1>2, <1>5, <1>6, <1>7, <1>8, <1>9, LayoutStep

Cut(c, n, d) == d \in Seq(Cells) /\ Len(d) = n /\ \A q \in 1 .. n : d[q] = c[q]

LEMMA CutIs ==
  ASSUME NEW c \in Seq(Cells), NEW n \in Nat, n <= Len(c)
  PROVE  Cut(c, n, Truncated(c, n))
BY TruncatedRow DEF Cut

LEMMA ScanRow ==
  ASSUME LayoutInv, NEW p \in Procs, Scan(p), NEW c, c = file[name].cells
  PROVE  /\ fd[p] = name /\ name \in Inodes /\ c \in Seq(Cells) /\ fileLen' \in Offsets(c)
         /\ fileLen' \in Nat /\ fileLen' <= Len(c)
         /\ ReadFaults = 0 => \A m \in Offsets(c) : m <= fileLen'
         /\ file' = [file EXCEPT ![name].cells = Truncated(c, fileLen')]
         /\ disk' = [disk EXCEPT ![name].cells = Truncated(disk[name].cells, fileLen')]
         /\ Agree(c, Truncated(c, fileLen'), fileLen')
         /\ Truncated(c, fileLen') \in Seq(Cells) /\ Len(Truncated(c, fileLen')) = fileLen'
         /\ index' = IndexOf(c, fileLen') /\ dead' = fileLen' - LiveCells(index')
<1>1. fd[p] = name /\ name \in Inodes
  BY DEF Scan, Goto, LayoutInv, TypeOK, Alone
<1>2. c \in Seq(Cells)
  BY <1>1, FileType DEF LayoutInv
<1>3. PICK end \in StopsAt(c) :
         /\ file' = [file EXCEPT ![name].cells = Truncated(@, end)]
         /\ disk' = [disk EXCEPT ![name].cells = Truncated(@, end)]
         /\ fileLen' = end /\ index' = IndexOf(c, end) /\ dead' = end - LiveCells(index')
  BY <1>1 DEF Scan
<1>4. Offsets(c) \subseteq 0 .. Len(c) /\ 0 \in Offsets(c) /\ Len(c) \in Nat
  BY <1>2, OffsetSteps
<1>5. Max(Offsets(c)) \in Offsets(c) /\ \A m \in Offsets(c) : m <= Max(Offsets(c))
  <2>1. Offsets(c) \subseteq Int /\ Offsets(c) # {} /\ Len(c) \in Int /\ \A m \in Offsets(c) : m <= Len(c)
    BY <1>4
  <2> QED BY <2>1, GreatestInt
<1>6. end \in Offsets(c) /\ (ReadFaults = 0 => \A m \in Offsets(c) : m <= end)
  BY <1>3, <1>5 DEF StopsAt
<1>7. end \in Nat /\ end <= Len(c)
  BY <1>4, <1>6
<1>8. /\ Truncated(c, end) \in Seq(Cells) /\ Len(Truncated(c, end)) = end
      /\ \A q \in 1 .. end : Truncated(c, end)[q] = c[q]
  BY <1>2, <1>7, CutIs DEF Cut
<1>9. Agree(c, Truncated(c, end), end)
  BY <1>6, <1>7, <1>8 DEF Agree
<1>10. /\ file' = [file EXCEPT ![name].cells = Truncated(c, end)]
       /\ disk' = [disk EXCEPT ![name].cells = Truncated(disk[name].cells, end)]
  BY <1>1, <1>3 DEF LayoutInv, TypeOK, Files
<1> QED BY <1>1, <1>2, <1>3, <1>6, <1>7, <1>8, <1>9, <1>10

LEMMA ScanLayout ==
  ASSUME LayoutInv, NEW p \in Procs, Scan(p)
  PROVE  LayoutInv'
<1> DEFINE c == file[name].cells
           n == fileLen'
           d == Truncated(c, n)
           b == Truncated(disk[name].cells, n)
<1>1. /\ fd[p] = name /\ name \in Inodes /\ c \in Seq(Cells) /\ n \in Offsets(c)
      /\ n \in Nat
      /\ file' = [file EXCEPT ![name].cells = d]
      /\ disk' = [disk EXCEPT ![name].cells = b]
      /\ Agree(c, d, n) /\ d \in Seq(Cells) /\ Len(d) = n
      /\ index' = IndexOf(c, n) /\ dead' = n - LiveCells(index')
  BY ScanRow
<1>2. b \in Seq(Cells)
  BY <1>1, FileType, TruncatedRow DEF LayoutInv
<1>3. /\ pc[p] = "scan" /\ pc' = [pc EXCEPT ![p] = "ready"] /\ unsynced' = 0 /\ mem' = <<>>
      /\ UNCHANGED <<name, durableName, lock, fd, curVars, boundVars, mishapVars, history>>
  BY DEF Scan, Goto
<1>4. index' \in [{0} \cup Hashes -> [at : Nat, size : Nat]]
  BY <1>1, IndexType
<1>5. LiveCells(index') \in Nat /\ LiveCells(index') <= n
  BY <1>1, <1>4, LiveIsNat, LiveFit
<1>6. dead' \in Nat /\ dead' <= n - LiveCells(index')
  BY <1>1, <1>5
<1>7. IndexOf(d, n) = IndexOf(c, n) /\ n \in Offsets(d)
  BY <1>1, AgreeIndex
<1> HIDE DEF b, d, c
<1>8. TypeOK'
  <2>1. file' \in [Inodes -> Files] /\ disk' \in [Inodes -> Files]
    <3>1. [file[name] EXCEPT !.cells = d] \in Files /\ [disk[name] EXCEPT !.cells = b] \in Files
      BY <1>1, <1>2, FileType DEF Files, LayoutInv
    <3> QED BY <1>1, <3>1 DEF LayoutInv, TypeOK
  <2>2. pc' \in [Procs -> {"closed", "lock", "open", "header", "scan", "ready", "write",
                           "index", "mem", "sync", "compact"}]
    BY <1>3 DEF LayoutInv, TypeOK
  <2>3. mem' \in Seq(Entries) /\ Len(mem') <= MemCapacity
    BY <1>3, InitialIndex, LogAssumption
  <2> QED BY <1>1, <1>3, <1>4, <1>6, <2>1, <2>2, <2>3
      DEF LayoutInv, TypeOK, curVars, boundVars, mishapVars, history
<1>9. pc'[p] = "ready" /\ \A q \in Procs : q # p => pc'[q] = pc[q]
  BY <1>3 DEF LayoutInv, TypeOK
<1>10. Layout(p)'
  <2>1. file'[name'].cells = d
    BY <1>1, <1>3 DEF LayoutInv, TypeOK, Files
  <2> QED BY <1>1, <1>6, <1>7, <1>9, <2>1 DEF Layout, Inserting
<1>11. fd' = [fd EXCEPT ![p] = name']
  BY <1>1, <1>3 DEF LayoutInv, TypeOK
<1> QED BY <1>3, <1>8, <1>9, <1>10, <1>11, LayoutStep

\* What a record of the index holds is what the last scan of the row would find.
LEMMA StoredIs ==
  ASSUME LayoutInv, NEW p \in Open, NEW c, c = file[name].cells, NEW h \in {0} \cup Hashes
  PROVE  /\ Stored(c, index, h) = IF index[h] = NoRecord THEN None ELSE Scanned(c, fileLen, h)
         /\ Stored(c, index, h) # None => /\ Stored(c, index, h) \in Recs
                                          /\ HashOf(Stored(c, index, h)) = h
                                          /\ index[h] # NoRecord
<1>1. Layout(p) /\ c \in Seq(Cells)
  BY HasOpen
<1>2. h \in DOMAIN index
  BY DEF LayoutInv, TypeOK
<1>3. index[h] \in {NoRecord, IndexOf(c, fileLen)[h]} /\ fileLen \in Nat
  BY <1>1, <1>2 DEF Layout, LayoutInv, TypeOK
<1>4. Stored(c, index, h) = IF index[h] = NoRecord THEN None ELSE Scanned(c, fileLen, h)
  BY <1>3 DEF Stored, Scanned
<1>5. /\ Scanned(c, fileLen, h) \in Recs \cup {None}
      /\ Scanned(c, fileLen, h) # None => HashOf(Scanned(c, fileLen, h)) = h
  BY <1>1, <1>3, IndexType
<1> QED BY <1>4, <1>5

LEMMA CompactRow ==
  ASSUME LayoutInv, NEW p \in Open, Compact(p), NEW c, c = file[name].cells
  PROVE  \E i \in Inodes \ {name, durableName} : \E d \in Seq(Cells) :
           /\ Len(d) \in Offsets(d)
           /\ file' = [file EXCEPT ![i] = [hdr |-> "ok", cells |-> d]]
           /\ disk' = [disk EXCEPT ![i] = [hdr |-> "ok", cells |-> d]]
           /\ fileLen' = Len(d) /\ index' = IndexOf(d, Len(d)) /\ dead' = 0
           /\ name' = i /\ fd' = [fd EXCEPT ![p] = i] /\ durableName' = durableName
           /\ \A h \in {0} \cup Hashes :
                Scanned(d, Len(d), h) = IF index[h] = NoRecord THEN None ELSE Scanned(c, fileLen, h)
<1> DEFINE i == Min(Inodes \ ({name, durableName} \cup {fd[q] : q \in Procs}))
           live == {h \in DOMAIN index : index[h] # NoRecord}
<1>1. fd[p] = name /\ c \in Seq(Cells) /\ Layout(p) /\ p \in Procs
  BY HasOpen
<1>2. i \in Inodes \ {name, durableName}
  <2> DEFINE S == Inodes \ ({name, durableName} \cup {fd[q] : q \in Procs})
  <2>1. \A q \in Procs : fd[q] \in {0, name}
    BY DEF LayoutInv, Alone
  <2>2. 0 \notin Inodes /\ Inodes \subseteq Nat
    BY LogAssumption
  <2>3. S = Inodes \ {name, durableName}
    BY <1>1, <2>1, <2>2
  <2>4. Inodes \ {name, durableName} # {}
    BY LogAssumption DEF LayoutInv, TypeOK
  <2>5. Min(Inodes \ {name, durableName}) \in Inodes \ {name, durableName}
    BY <2>2, <2>4, LeastMin
  <2> QED BY <2>3, <2>5
<1>3. DOMAIN index = {0} \cup Hashes
  BY DEF LayoutInv, TypeOK
<1>4. \A h \in live : Stored(c, index, h) # None
  BY <1>1 DEF Compact
<1>5. PICK order \in SetToSeqs(live) :
         LET d == FlattenSeq([n \in DOMAIN order |-> RecordOf(Stored(c, index, order[n]))])
         IN  /\ file' = [file EXCEPT ![i] = [hdr |-> "ok", cells |-> d]]
             /\ disk' = [disk EXCEPT ![i] = SyncedTmp(d)]
             /\ fileLen' = Len(d)
             /\ index' = IndexOf(d, Len(d))
  BY <1>1 DEF Compact
<1>6. name' = i /\ fd' = [fd EXCEPT ![p] = i] /\ dead' = 0 /\ durableName' = durableName
  BY DEF Compact
<1> HIDE DEF i
<1>7. IsFiniteSet(live)
  <2>1. live \subseteq {0} \cup Hashes
    BY <1>3
  <2> HIDE DEF live
  <2> QED BY <2>1, HashesFinite, FS_Subset
<1>8. /\ order \in Seq(live)
      /\ \A j, k \in 1 .. Len(order) : order[j] = order[k] => j = k
      /\ \A h \in live : \E j \in 1 .. Len(order) : order[j] = h
  <2> HIDE DEF live
  <2> QED BY <1>7, SeqOfSet
<1> DEFINE s == [j \in 1 .. Len(order) |-> Stored(c, index, order[j])]
           d == FlattenSeq([j \in 1 .. Len(s) |-> RecordOf(s[j])])
<1>9. \A h \in live : /\ h \in {0} \cup Hashes /\ index[h] # NoRecord
                      /\ Stored(c, index, h) \in Recs /\ HashOf(Stored(c, index, h)) = h
                      /\ Stored(c, index, h) = Scanned(c, fileLen, h)
  BY <1>3, <1>4, StoredIs
<1>10. \A h \in {0} \cup Hashes : h \in live <=> index[h] # NoRecord
  BY <1>3
<1> HIDE DEF live
<1>11. Len(order) \in Nat /\ DOMAIN order = 1 .. Len(order) /\ \A j \in 1 .. Len(order) : order[j] \in live
  BY <1>8
<1>12. s \in Seq(Recs) /\ Len(s) = Len(order)
       /\ \A j \in 1 .. Len(s) : s[j] = Stored(c, index, order[j]) /\ HashOf(s[j]) = order[j]
  BY <1>9, <1>11
<1>13. d = FlattenSeq([n \in DOMAIN order |-> RecordOf(Stored(c, index, order[n]))])
  <2>1. [j \in 1 .. Len(s) |-> RecordOf(s[j])] = [n \in DOMAIN order |-> RecordOf(Stored(c, index, order[n]))]
    BY <1>11, <1>12
  <2> QED BY <2>1
<1> HIDE DEF s
<1>14. \A j, k \in 1 .. Len(s) : HashOf(s[j]) = HashOf(s[k]) => j = k
  BY <1>8, <1>12
<1>15. /\ d \in Seq(Cells) /\ Len(d) \in Offsets(d)
       /\ \A j \in 1 .. Len(s) : Scanned(d, Len(d), HashOf(s[j])) = s[j]
       /\ \A h \in {0} \cup Hashes :
            (\A j \in 1 .. Len(s) : HashOf(s[j]) # h) => Scanned(d, Len(d), h) = None
  BY <1>12, <1>14, RecordsRow
<1> HIDE DEF d
<1>16. ASSUME NEW h \in {0} \cup Hashes
       PROVE  Scanned(d, Len(d), h) = IF index[h] = NoRecord THEN None ELSE Scanned(c, fileLen, h)
  <2>1. CASE h \in live
    <3>1. PICK j \in 1 .. Len(order) : order[j] = h
      BY <1>8, <2>1
    <3> QED BY <1>9, <1>10, <1>12, <1>15, <2>1, <3>1
  <2>2. CASE h \notin live
    <3>1. \A j \in 1 .. Len(s) : HashOf(s[j]) # h
      BY <1>11, <1>12, <2>2
    <3> QED BY <1>10, <1>15, <2>2, <3>1
  <2> QED BY <2>1, <2>2
<1>17. /\ file' = [file EXCEPT ![i] = [hdr |-> "ok", cells |-> d]]
       /\ disk' = [disk EXCEPT ![i] = [hdr |-> "ok", cells |-> d]]
       /\ fileLen' = Len(d) /\ index' = IndexOf(d, Len(d))
  BY <1>5, <1>13 DEF SyncedTmp
<1> QED BY <1>2, <1>6, <1>15, <1>16, <1>17

LEMMA CompactType ==
  ASSUME LayoutInv, NEW p \in Open, Compact(p)
  PROVE  /\ name' \in Inodes /\ durableName' \in Inodes
         /\ file' \in [Inodes -> Files] /\ disk' \in [Inodes -> Files]
         /\ fd' \in [Procs -> Inodes \cup {0}] /\ fileLen' \in Nat /\ dead' \in Nat
         /\ index' \in [{0} \cup Hashes -> [at : Nat, size : Nat]]
         /\ fd' = [fd EXCEPT ![p] = name']
         /\ file'[name'].cells \in Seq(Cells)
         /\ fileLen' \in Offsets(file'[name'].cells)
         /\ index' = IndexOf(file'[name'].cells, fileLen')
         /\ dead' <= fileLen' - LiveCells(index')
<1>1. PICK i \in Inodes \ {name, durableName}, d \in Seq(Cells) :
           /\ Len(d) \in Offsets(d)
           /\ file' = [file EXCEPT ![i] = [hdr |-> "ok", cells |-> d]]
           /\ disk' = [disk EXCEPT ![i] = [hdr |-> "ok", cells |-> d]]
           /\ fileLen' = Len(d) /\ index' = IndexOf(d, Len(d)) /\ dead' = 0
           /\ name' = i /\ fd' = [fd EXCEPT ![p] = i] /\ durableName' = durableName
  BY CompactRow
<1>2. [hdr |-> "ok", cells |-> d] \in Files
  BY DEF Files
<1>3. file' \in [Inodes -> Files] /\ disk' \in [Inodes -> Files] /\ file'[name'].cells = d
  BY <1>1, <1>2 DEF LayoutInv, TypeOK
<1>4. Len(d) \in Nat /\ index' \in [{0} \cup Hashes -> [at : Nat, size : Nat]]
  <2>1. Len(d) \in Nat
    OBVIOUS
  <2>2. IndexOf(d, Len(d)) \in [{0} \cup Hashes -> [at : Nat, size : Nat]]
    BY <2>1, IndexType
  <2> QED BY <1>1, <2>1, <2>2
<1>5. LiveCells(index') \in Nat /\ LiveCells(index') <= Len(d)
  BY <1>1, <1>4, LiveIsNat, LiveFit
<1>6. fd' \in [Procs -> Inodes \cup {0}] /\ name' \in Inodes /\ durableName' \in Inodes
  BY <1>1 DEF LayoutInv, TypeOK
<1> QED BY <1>1, <1>3, <1>4, <1>5, <1>6

LEMMA CompactNowLayout ==
  ASSUME LayoutInv, NEW p \in Procs, CompactNow(p)
  PROVE  LayoutInv'
<1>1. p \in Open /\ Compact(p) /\ pc[p] = "ready"
  BY DEF CompactNow, Open
<1>2. UNCHANGED <<lock, pc, curVars, unsynced, mem, boundVars, mishapVars, history>>
  BY DEF CompactNow
<1>3. TypeOK'
  BY <1>1, <1>2, CompactType DEF LayoutInv, TypeOK, curVars, boundVars, mishapVars, history
<1>4. Layout(p)'
  BY <1>1, <1>2, CompactType DEF Layout, Inserting
<1> QED BY <1>1, <1>2, <1>3, <1>4, CompactType, LayoutStep

LEMMA InsertCompactsLayout ==
  ASSUME LayoutInv, NEW p \in Procs, InsertCompacts(p)
  PROVE  LayoutInv'
<1>1. p \in Open /\ Compact(p) /\ Return(p)
  BY DEF InsertCompacts, Return, Open
<1>2. pc'[p] = "ready" /\ lock' = lock /\ \A q \in Procs : q # p => pc'[q] = pc[q]
  BY <1>1 DEF Return, LayoutInv, TypeOK
<1>3. TypeOK'
  BY <1>1, ReturnType, CompactType DEF TypeOK
<1>4. Layout(p)'
  BY <1>1, <1>2, CompactType DEF Layout, Inserting
<1> QED BY <1>1, <1>2, <1>3, <1>4, CompactType, LayoutStep

LEMMA Ends ==
  ASSUME NEW a \in Nat, NEW b \in Nat
  PROVE  Min({a, b}) \in {a, b} /\ Max({a, b}) \in {a, b}
<1> DEFINE S == {a, b}
<1>1. S \subseteq Nat /\ S \subseteq Int /\ S # {} /\ a + b \in Int /\ \A k \in S : k <= a + b
  OBVIOUS
<1> HIDE DEF S
<1>2. Min(S) \in S /\ Max(S) \in S
  BY <1>1, LeastMin, GreatestInt
<1> QED BY <1>2 DEF S

LEMMA SurvivorsType ==
  ASSUME TypeOK, NEW i \in Inodes
  PROVE  Survivors(i) \subseteq Files
<1> DEFINE new == file[i].cells
           old == disk[i].cells
           shorter == Min({Len(new), Len(old)})
           longer  == Max({Len(new), Len(old)})
           Cell(j, from, to, z) ==
             IF j <= Len(new) /\ j \notin from .. to THEN new[j]
             ELSE IF j <= Len(old) THEN old[j] ELSE z
           row(n, from, to, z) == [j \in 1 .. n |-> Cell(j, from, to, z)]
           rows == {row(n, from, to, z) :
                      n \in shorter .. longer, from \in 1 .. longer + 1, to \in 0 .. longer,
                      z \in {<<Zeros, 1>>, Torn}}
           hdrs == {file[i].hdr, disk[i].hdr} \cup (IF file[i].hdr = disk[i].hdr THEN {} ELSE {"torn"})
<1>1. ASSUME NEW f \in Survivors(i)
      PROVE  /\ f = [hdr |-> f.hdr, cells |-> f.cells] /\ f.hdr \in hdrs
             /\ \E n \in shorter .. longer, from \in 1 .. longer + 1, to \in 0 .. longer,
                   z \in {<<Zeros, 1>>, Torn} : f.cells = row(n, from, to, z)
  <2>1. Survivors(i) = {g \in [hdr : hdrs, cells : rows] : g.hdr = "none" => g.cells = <<>>}
    BY DEF Survivors
  <2> HIDE DEF row, hdrs, shorter, longer
  <2>2. f = [hdr |-> f.hdr, cells |-> f.cells] /\ f.hdr \in hdrs /\ f.cells \in rows
    <3> HIDE DEF rows
    <3> QED BY <2>1
  <2> QED BY <2>2
<1>2. new \in Seq(Cells) /\ old \in Seq(Cells) /\ hdrs \subseteq {"none", "torn", "ok"}
  BY FileType
<1>3. \A z \in {<<Zeros, 1>>, Torn} : z \in Cells
  BY DEF Torn, Cells
<1>4. shorter \in Nat /\ longer \in Nat
  <2>1. Len(new) \in Nat /\ Len(old) \in Nat
    BY <1>2
  <2> HIDE DEF new, old
  <2>2. shorter \in {Len(new), Len(old)} /\ longer \in {Len(new), Len(old)}
    BY <2>1, Ends
  <2> QED BY <2>1, <2>2
<1> HIDE DEF shorter, longer, new, old
<1>5. ASSUME NEW n \in Nat, NEW from, NEW to, NEW z \in {<<Zeros, 1>>, Torn}
      PROVE  row(n, from, to, z) \in Seq(Cells)
  <2>1. ASSUME NEW j \in 1 .. n PROVE Cell(j, from, to, z) \in Cells
    <3>1. j <= Len(new) => new[j] \in Cells
      BY <1>2
    <3>2. j <= Len(old) => old[j] \in Cells
      BY <1>2
    <3> QED BY <1>3, <3>1, <3>2
  <2> HIDE DEF Cell
  <2> QED BY <2>1
<1>6. ASSUME NEW f \in Survivors(i) PROVE f \in Files
  <2>1. PICK n \in shorter .. longer, from \in 1 .. longer + 1, to \in 0 .. longer,
             z \in {<<Zeros, 1>>, Torn} : f.cells = row(n, from, to, z)
    BY <1>1
  <2>2. n \in Nat
    BY <1>4
  <2> HIDE DEF row, hdrs
  <2>3. f.cells \in Seq(Cells) /\ f.hdr \in {"none", "torn", "ok"}
    <3>1. row(n, from, to, z) \in Seq(Cells)
      BY <1>5, <2>2
    <3>2. f.hdr \in {"none", "torn", "ok"}
      BY <1>1, <1>2
    <3> QED BY <2>1, <3>1, <3>2
  <2>4. f = [hdr |-> f.hdr, cells |-> f.cells]
    BY <1>1
  <2> QED BY <2>3, <2>4 DEF Files
<1> QED BY <1>6

LEMMA ReplayedIs ==
  ASSUME NEW f \in Files, NEW h \in Hashes
  PROVE  /\ Replayed(f)[h] = IF f.hdr = "ok" THEN Scanned(f.cells, Len(f.cells), h) ELSE None
         /\ Replayed(f)[h] \in Entries \cup {None}
<1>1. f.cells \in Seq(Cells) /\ Len(f.cells) \in Nat /\ h \in {0} \cup Hashes
  BY DEF Files
<1>2. Replayed(f)[h] = IF f.hdr = "ok" THEN Scanned(f.cells, Len(f.cells), h) ELSE None
  BY DEF Replayed, Scanned
<1>3. /\ Scanned(f.cells, Len(f.cells), h) \in Recs \cup {None}
      /\ Scanned(f.cells, Len(f.cells), h) # None => HashOf(Scanned(f.cells, Len(f.cells), h)) = h
  BY <1>1, IndexType
<1>4. Scanned(f.cells, Len(f.cells), h) \in Entries \cup {None}
  BY <1>3, RecsType
<1> QED BY <1>2, <1>4

LEMMA ReplayedType ==
  ASSUME NEW f \in Files
  PROVE  Replayed(f) \in [Hashes -> Entries \cup {None}]
<1>1. Replayed(f) = [h \in Hashes |-> Replayed(f)[h]]
  BY DEF Replayed
<1>2. \A h \in Hashes : Replayed(f)[h] \in Entries \cup {None}
  BY ReplayedIs
<1> DEFINE g == Replayed(f)
<1> HIDE DEF g
<1>3. g = [h \in Hashes |-> g[h]] /\ \A h \in Hashes : g[h] \in Entries \cup {None}
  BY <1>1, <1>2 DEF g
<1>4. g \in [Hashes -> Entries \cup {None}]
  BY <1>3
<1> QED BY <1>4 DEF g

LEMMA PowerFailureLayout ==
  ASSUME LayoutInv, PowerFailure
  PROVE  LayoutInv'
<1>0. PICK i \in {durableName, name} : \E f \in Survivors(i) :
         /\ name' = i /\ durableName' = i
         /\ file' = [[j \in Inodes |-> NoFile] EXCEPT ![i] = f]
         /\ disk' = file'
         /\ acked' = Replayed(f)
  BY DEF PowerFailure
<1>1. PICK f \in Survivors(i) :
         /\ name' = i /\ durableName' = i
         /\ file' = [[j \in Inodes |-> NoFile] EXCEPT ![i] = f]
         /\ disk' = file'
         /\ acked' = Replayed(f)
  BY <1>0
<1>2. i \in Inodes /\ f \in Files
  BY SurvivorsType DEF LayoutInv, TypeOK
<1>3. file' \in [Inodes -> Files] /\ disk' \in [Inodes -> Files]
  BY <1>1, <1>2, InitialIndex
<1>4. acked' \in [Hashes -> Entries \cup {None}]
  BY <1>1, <1>2, ReplayedType
<1>5. doubt' \in [Hashes -> SUBSET Entries] /\ hope' \in [Hashes -> SUBSET (Entries \cup {None})]
  BY <1>4 DEF PowerFailure
<1>6. mishaps' \in 0 .. MaxMishaps /\ power' \in 0 .. mishaps'
  BY BoundsType DEF PowerFailure, LayoutInv, TypeOK
<1>7. /\ pc' = [p \in Procs |-> "closed"] /\ fd' = [p \in Procs |-> 0] /\ lock' = NoProc
      /\ cur' = None /\ written' = 0 /\ fileLen' = 0 /\ index' = NoIndex /\ dead' = 0
      /\ unsynced' = 0 /\ mem' = <<>> /\ UNCHANGED <<inserts, opens>>
  BY DEF PowerFailure
<1>8. MemCapacity \in Nat
  BY LogAssumption
<1>9. TypeOK'
  BY <1>1, <1>2, <1>3, <1>4, <1>5, <1>6, <1>7, <1>8, InitialIndex DEF LayoutInv, TypeOK
<1>10. Alone' /\ \A p \in Procs : p \notin Open'
  BY <1>7 DEF Alone, Open
<1> QED BY <1>9, <1>10 DEF LayoutInv, Open

LEMMA InitLayout == Init => LayoutInv
<1> SUFFICES ASSUME Init PROVE LayoutInv
  OBVIOUS
<1>1. MemCapacity \in Nat /\ 1 \in Inodes
  BY LogAssumption
<1>2. TypeOK
  BY <1>1, BoundsType, InitialIndex DEF Init, TypeOK
<1>3. Alone /\ \A p \in Procs : p \notin Open
  BY DEF Init, Alone, Open
<1> QED BY <1>2, <1>3 DEF LayoutInv, Open

LEMMA StutterLayout == LayoutInv /\ UNCHANGED vars => LayoutInv'
<1> SUFFICES ASSUME LayoutInv, UNCHANGED vars PROVE LayoutInv'
  OBVIOUS
<1> USE DEF vars, fileVars, procVars, curVars, cacheVars, boundVars, mishapVars, history
<1>1. TypeOK'
  BY DEF LayoutInv, TypeOK
<1>2. Alone'
  BY DEF LayoutInv, Alone
<1>3. \A p \in Open' : p \in Open /\ pc'[p] = pc[p]
  BY DEF Open
<1>4. \A p \in Open' : Layout(p)'
  BY <1>3, LayoutKept
<1> QED BY <1>1, <1>2, <1>4 DEF LayoutInv

LEMMA NextLayout == LayoutInv /\ [Next]_vars => LayoutInv'
<1> SUFFICES ASSUME LayoutInv, [Next]_vars PROVE LayoutInv'
  OBVIOUS
<1>1. CASE UNCHANGED vars
  BY <1>1, StutterLayout
<1>2. CASE PowerFailure
  BY <1>2, PowerFailureLayout
<1>3. CASE Done
  BY <1>3, StutterLayout DEF Done
<1>4. ASSUME NEW p \in Procs,
             \/ CallOpen(p) \/ TakeLock(p) \/ OpenFile(p)
             \/ Header(p) \/ BadHeader(p) \/ HeaderFails(p) \/ Scan(p) \/ ScanFails(p) \/ Close(p)
      PROVE  LayoutInv'
  BY <1>4, CallOpenLayout, TakeLockLayout, OpenFileLayout, HeaderLayout, BadHeaderLayout,
     HeaderFailsLayout, ScanLayout, ScanFailsLayout, CloseLayout
<1>5. ASSUME NEW p \in Procs, NEW k \in Keys, Lookup(p, k) PROVE LayoutInv'
  BY <1>5, LookupLayout
<1>6. ASSUME NEW p \in Procs, NEW e \in Entries, CallInsert(p, e) PROVE LayoutInv'
  BY <1>6, CallInsertLayout
<1>7. ASSUME NEW p \in Procs,
             \/ WriteCell(p) \/ IndexRecord(p) \/ InsertMem(p) \/ MaybeSync(p)
             \/ InsertReturns(p) \/ InsertCompacts(p)
             \/ WriteFails(p) \/ IndexFails(p) \/ MemFails(p) \/ SyncFails(p) \/ CompactFails(p)
             \/ Sync(p) \/ CompactNow(p) \/ Crash(p)
      PROVE  LayoutInv'
  BY <1>7, WriteCellLayout, IndexRecordLayout, InsertMemLayout, MaybeSyncLayout,
     InsertReturnsLayout, InsertCompactsLayout, WriteFailsLayout, IndexFailsLayout, MemFailsLayout,
     SyncFailsLayout, CompactFailsLayout, SyncLayout, CompactNowLayout, CrashLayout
<1> QED BY <1>1, <1>2, <1>3, <1>4, <1>5, <1>6, <1>7 DEF Next

LEMMA LayoutIsIndexInv == LayoutInv => IndexInv
<1> SUFFICES ASSUME LayoutInv, NEW p \in Open
             PROVE  LET c == file[fd[p]].cells
                        scanned == IndexOf(c, fileLen)
                    IN  /\ lock = p
                        /\ fd[p] = name
                        /\ fileLen <= Len(c)
                        /\ \A h \in DOMAIN index : index[h] \in {NoRecord, scanned[h]}
                        /\ dead <= fileLen - LiveCells(index)
  BY DEF IndexInv
<1>1. lock = p /\ fd[p] = name /\ Layout(p) /\ file[name].cells \in Seq(Cells)
  BY HasOpen
<1>2. fileLen <= Len(file[name].cells)
  BY <1>1, OffsetSteps DEF Layout
<1> QED BY <1>1, <1>2 DEF Layout

\* Every variable keeps its type, whatever crashes, errors and failures there are.
THEOREM TypeCorrect == Spec => []TypeOK
<1>1. LayoutInv => TypeOK
  BY DEF LayoutInv
<1> QED BY InitLayout, NextLayout, <1>1, PTL DEF Spec

\* Whoever has the cache open holds the lock, works on the file the path leads to, and
\* its index names records that a scan of that file finds, the last of each hash.
THEOREM IndexCorrect == Spec => []IndexInv
BY InitLayout, NextLayout, LayoutIsIndexInv, PTL DEF Spec

-----------------------------------------------------------------------------
(* The entries that the callers inserted: Durable and Answers, of a scan    *)
(* that reads what is there.                                                *)

Landed == {"mem", "sync", "compact"}

\* What an insert that is not done may leave behind file_len as a record.
Doubtful(p) == {e \in Entries : pc[p] \notin Landed /\ e \in doubt[HashOf(e)]}

\* Behind offset n lie cells of records that began before n, or at n: these are in S.
Behind(c, n, S) ==
  \A q \in n + 1 .. Len(c) : /\ c[q] \in Entries \X (Nat \ {0})
                             /\ q - c[q][2] <= n
                             /\ q - c[q][2] = n => c[q][1] \in S

\* What the index finds of a hash was promised.
Found ==
  LET c == file[name].cells
  IN  \A h \in Hashes : /\ Scanned(c, fileLen, h) \in Promised(h)
                        /\ index[h] = NoRecord => acked[h] = None

\* How far the insert of cur has come.
Pending(p) ==
  LET c == file[name].cells
  IN  /\ pc[p] \in Inserting => cur \in doubt[HashOf(cur)]
      /\ pc[p] \in Landed => /\ index[HashOf(cur)] # NoRecord
                             /\ Scanned(c, fileLen, HashOf(cur)) = cur
      /\ pc[p] \in {"sync", "compact"} =>
           \A i \in 1 .. Len(mem) : HashOf(mem[i]) = HashOf(cur) => mem[i] = cur

\* What the process that has the cache open keeps of the promises.
Kept(p) == Behind(file[name].cells, fileLen, Doubtful(p)) /\ Found /\ Pending(p)

\* The cache in memory has an entry of a hash at most once, and as promised.
MemInv ==
  /\ Distinct(mem)
  /\ \A i \in 1 .. Len(mem) : mem[i] \in Promised(HashOf(mem[i]))

\* A file without a header is empty, and what is scanned has one.
HeaderInv ==
  /\ \A i \in Inodes : file[i].hdr = "none" => file[i].cells = <<>>
  /\ \A p \in Procs : pc[p] = "scan" \/ p \in Open => file[name].hdr = "ok"

SomeKept == \E p \in Open : Kept(p)

\* The invariant of the second layer.
HistoryInv == LayoutInv /\ Durable /\ MemInv /\ HeaderInv /\ \A p \in Open : Kept(p)

LEMMA BehindFinds ==
  ASSUME NEW c \in Seq(Cells), NEW n \in Offsets(c), NEW S, Behind(c, n, S),
         NEW h \in Hashes, NEW D, Scanned(c, n, h) \in D,
         \A e \in S : HashOf(e) = h => e \in D
  PROVE  Scanned(c, Len(c), h) \in D
<1>1. n \in Nat
  BY OffsetSteps
<1>2. ASSUME NEW m \in Offsets(c), n <= m, EntryAt(c, m) \in Entries, HashOf(EntryAt(c, m)) = h
      PROVE  EntryAt(c, m) \in D
  <2>1. m \in Nat /\ EntryAt(c, m) # None
    BY <1>2, OffsetSteps, RecsType
  <2>2. \A q \in n + 1 .. Len(c) : c[q] \in Entries \X (Nat \ {0}) /\ q - c[q][2] <= n
    BY DEF Behind
  <2>3. n + 1 \in n + 1 .. Len(c) /\ c[n + 1] = <<EntryAt(c, m), 1>>
    BY <1>1, <1>2, <2>1, <2>2, BehindOffset
  <2>4. (n + 1) - c[n + 1][2] = n => c[n + 1][1] \in S
    BY <2>3 DEF Behind
  <2>5. (n + 1) - 1 = n
    BY <1>1
  <2> QED BY <1>2, <2>3, <2>4, <2>5
<1>3. \A m \in Offsets(c) :
        (n <= m /\ EntryAt(c, m) \in Entries /\ HashOf(EntryAt(c, m)) = h)
          => EntryAt(c, m) \in D
  BY <1>2
<1> QED BY <1>3, NewestIn

\* Behind the end of a row there is nothing.
LEMMA NothingBehind ==
  ASSUME NEW c, NEW n \in Nat, Len(c) \in Nat, Len(c) <= n, NEW S
  PROVE  Behind(c, n, S)
BY DEF Behind

LEMMA BehindMore ==
  ASSUME NEW c, NEW n, NEW S, NEW T, S \subseteq T, Behind(c, n, S)
  PROVE  Behind(c, n, T)
BY DEF Behind

\* A record that is counted leaves behind it only what began before.
LEMMA BehindGrows ==
  ASSUME NEW c \in Seq(Cells), NEW n \in Nat, NEW k \in Nat, n < k, NEW S, NEW T, Behind(c, n, S)
  PROVE  Behind(c, k, T)
<1> SUFFICES ASSUME NEW q \in k + 1 .. Len(c)
             PROVE  c[q] \in Entries \X (Nat \ {0}) /\ q - c[q][2] <= k /\ q - c[q][2] # k
  BY DEF Behind
<1>1. q \in n + 1 .. Len(c) /\ q \in Nat
  OBVIOUS
<1>2. c[q] \in Entries \X (Nat \ {0}) /\ q - c[q][2] <= n
  BY <1>1 DEF Behind
<1>3. c[q][2] \in Nat
  BY <1>2
<1> QED BY <1>1, <1>2, <1>3

LEMMA DoubtfulIs ==
  ASSUME NEW p, NEW e \in Doubtful(p)
  PROVE  e \in Entries /\ e \in Promised(HashOf(e))
BY DEF Doubtful, Promised

\* Where a process has the cache open, a scan of the file finds what was promised.
LEMMA KeptDurable == LayoutInv /\ HeaderInv /\ SomeKept => Durable
<1> SUFFICES ASSUME LayoutInv, HeaderInv, NEW p \in Open, Kept(p), NEW h \in Hashes
             PROVE  Replayed(file[name])[h] \in Promised(h)
  BY DEF Durable, Promised, SomeKept
<1> DEFINE c == file[name].cells
<1>1. c \in Seq(Cells) /\ Layout(p) /\ fileLen \in Offsets(c) /\ p \in Procs
  BY HasOpen DEF Layout
<1>2. file[name] \in Files /\ file[name].hdr = "ok"
  BY <1>1, FileType DEF LayoutInv, TypeOK, HeaderInv
<1>3. Replayed(file[name])[h] = Scanned(c, Len(c), h)
  BY <1>2, ReplayedIs
<1>4. Behind(c, fileLen, Doubtful(p)) /\ Scanned(c, fileLen, h) \in Promised(h)
  BY DEF Kept, Found
<1>5. \A e \in Doubtful(p) : HashOf(e) = h => e \in Promised(h)
  BY DoubtfulIs
<1> HIDE DEF c
<1>6. Scanned(c, Len(c), h) \in Promised(h)
  BY <1>1, <1>4, <1>5, BehindFinds
<1> QED BY <1>3, <1>6

\* What lookup answers was promised.
LEMMA AnswerIs ==
  ASSUME HistoryInv, NEW p \in Open, pc[p] = "ready", NEW k \in Keys
  PROVE  /\ \E e \in Promised(Hash[k]) : Answer(p, k) = IF e[1] = k THEN e ELSE None
         /\ Answer(p, k) # None => /\ Answer(p, k) \in Entries
                                   /\ HashOf(Answer(p, k)) = Hash[k]
                                   /\ Answer(p, k) \in Promised(Hash[k])
<1> DEFINE c == file[name].cells
           hits == {f \in Range(mem) : f[1] = k}
           e == IF hits # {} THEN CHOOSE f \in hits : TRUE ELSE Stored(c, index, Hash[k])
<1>1. Hash[k] \in Hashes /\ k # NoKey
  BY LogAssumption DEF Hashes
<1>2. LayoutInv /\ MemInv /\ Kept(p) /\ fd[p] = name
  BY HasOpen DEF HistoryInv
<1>3. Answer(p, k) = IF e[1] = k THEN e ELSE None
  BY <1>2 DEF Answer
<1>4. mem \in Seq(Entries)
  BY <1>2 DEF LayoutInv, TypeOK
<1>5. CASE hits # {}
  <2>1. e \in Range(mem) /\ e[1] = k
    <3>1. e \in hits
      BY <1>5
    <3> HIDE DEF e
    <3> QED BY <3>1
  <2> HIDE DEF e, hits
  <2>2. PICK i \in 1 .. Len(mem) : mem[i] = e
    BY <1>4, <2>1 DEF Range
  <2>3. e \in Entries /\ HashOf(e) = Hash[k]
    BY <1>1, <1>4, <2>1, <2>2 DEF HashOf
  <2>4. e \in Promised(HashOf(e))
    BY <1>2, <2>2 DEF MemInv
  <2> QED BY <1>3, <2>1, <2>3, <2>4
<1>6. CASE hits = {}
  <2>1. e = Stored(c, index, Hash[k])
    BY <1>6
  <2> HIDE DEF e, hits
  <2>2. Hash[k] \in {0} \cup Hashes
    BY <1>1
  <2>3. /\ e = IF index[Hash[k]] = NoRecord THEN None ELSE Scanned(c, fileLen, Hash[k])
        /\ e # None => e \in Recs /\ HashOf(e) = Hash[k]
    BY <1>2, <2>1, <2>2, StoredIs
  <2>4. /\ Scanned(c, fileLen, Hash[k]) \in Promised(Hash[k])
        /\ index[Hash[k]] = NoRecord => acked[Hash[k]] = None
    BY <1>1, <1>2 DEF Kept, Found
  <2>5. e \in Promised(Hash[k])
    BY <2>3, <2>4 DEF Promised
  <2>6. e # None => e \in Entries
    BY <1>1, <2>3, RecsType
  <2> QED BY <1>3, <2>3, <2>5, <2>6
<1> QED BY <1>5, <1>6

LEMMA HistoryAnswers == HistoryInv => Answers
<1> SUFFICES ASSUME HistoryInv, NEW p \in Open, pc[p] = "ready", NEW k \in Keys
             PROVE  \E e \in Promised(Hash[k]) : Answer(p, k) = IF e[1] = k THEN e ELSE None
  BY DEF Answers, Promised
<1> QED BY AnswerIs

-----------------------------------------------------------------------------
LEMMA KeptMoves ==
  ASSUME LayoutInv, NEW p \in Open, Kept(p), UNCHANGED <<name, file, fileLen, index, acked>>,
         \A h \in Hashes : doubt[h] \subseteq doubt'[h],
         pc'[p] \in Inserting => cur' \in doubt'[HashOf(cur')],
         pc'[p] \in Landed => cur' = cur /\ pc[p] \in Landed,
         pc'[p] \in {"sync", "compact"} =>
           \A i \in 1 .. Len(mem') : HashOf(mem'[i]) = HashOf(cur') => mem'[i] = cur'
  PROVE  Kept(p)'
<1> DEFINE c == file[name].cells
<1>1. Behind(c, fileLen, Doubtful(p)) /\ Found /\ Pending(p)
  BY DEF Kept
<1>2. Doubtful(p) \subseteq Doubtful(p)'
  <2>1. \A e \in Entries : HashOf(e) \in Hashes
    BY RecsType
  <2> QED BY <2>1 DEF Doubtful
<1>3. Behind(c, fileLen, Doubtful(p)')
  BY <1>1, <1>2, BehindMore
<1>4. Found'
  BY <1>1 DEF Found, Promised
<1>5. Pending(p)'
  BY <1>1 DEF Pending
<1> QED BY <1>3, <1>4, <1>5 DEF Kept

LEMMA HeaderKept ==
  ASSUME HeaderInv, UNCHANGED <<name, file>>, NEW p \in Procs, pc[p] = "scan" \/ p \in Open
  PROVE  HeaderInv'
BY DEF HeaderInv

\* After a step of the process that has the cache open.
LEMMA HistoryStep ==
  ASSUME LayoutInv', HeaderInv', MemInv', NEW p \in Procs, p \in Open', Kept(p)'
  PROVE  HistoryInv'
<1>1. \A q \in Open' : q = p
  BY DEF LayoutInv, Alone, Open
<1>2. LayoutInv' /\ HeaderInv' /\ SomeKept' => Durable'
  BY KeptDurable, PTL
<1>3. Durable'
  BY <1>2 DEF SomeKept
<1> QED BY <1>1, <1>3 DEF HistoryInv

LEMMA MemKept ==
  ASSUME TypeOK, MemInv, mem' = mem,
         \A h \in Hashes : Promised(h) \subseteq Promised(h)'
  PROVE  MemInv'
<1>1. \A i \in 1 .. Len(mem) : HashOf(mem[i]) \in Hashes
  <2>1. \A i \in 1 .. Len(mem) : mem[i] \in Entries
    BY DEF TypeOK
  <2> QED BY <2>1, RecsType
<1> QED BY <1>1 DEF MemInv, Distinct

LEMMA MemGets ==
  ASSUME TypeOK, MemInv, NEW e \in Entries, e \in Promised(HashOf(e)), mem' = MemPut(e),
         UNCHANGED <<acked, doubt>>
  PROVE  MemInv'
<1> DEFINE s == MemPut(e)
<1>1. /\ Distinct(s)
      /\ \A i \in 1 .. Len(s) :
           s[i] = e \/ \E k \in 1 .. Len(mem) : s[i] = mem[k]
  BY MemPutIs DEF TypeOK, MemInv
<1> HIDE DEF s
<1>2. \A i \in 1 .. Len(s) : s[i] \in Promised(HashOf(s[i]))
  BY <1>1 DEF MemInv
<1>3. \A h : Promised(h)' = Promised(h)
  BY DEF Promised
<1>4. mem' = s
  BY DEF s
<1> QED BY <1>1, <1>2, <1>3, <1>4 DEF MemInv, Distinct

LEMMA MemLoses ==
  ASSUME TypeOK, MemInv, NEW e, mem' = MemShort(e), UNCHANGED <<acked, doubt>>
  PROVE  MemInv'
<1> DEFINE s == MemShort(e)
<1>1. \A i \in 1 .. Len(s) : i \in 1 .. Len(mem) /\ s[i] = mem[i]
  BY MemShortIs DEF TypeOK
<1> HIDE DEF s
<1>2. \A h : Promised(h)' = Promised(h)
  BY DEF Promised
<1>3. mem' = s
  BY DEF s
<1> QED BY <1>1, <1>2, <1>3 DEF MemInv, Distinct

\* Steps that leave the file and its index alone.
LEMMA MovesHistory ==
  ASSUME HistoryInv, LayoutInv', MemInv', NEW p \in Open, p \in Open',
         UNCHANGED <<name, file, fileLen, index, acked>>,
         \A h \in Hashes : doubt[h] \subseteq doubt'[h],
         pc'[p] \in Inserting => cur' \in doubt'[HashOf(cur')],
         pc'[p] \in Landed => cur' = cur /\ pc[p] \in Landed,
         pc'[p] \in {"sync", "compact"} =>
           \A i \in 1 .. Len(mem') : HashOf(mem'[i]) = HashOf(cur') => mem'[i] = cur'
  PROVE  HistoryInv'
<1>1. p \in Procs /\ Kept(p) /\ LayoutInv /\ HeaderInv
  BY DEF HistoryInv, Open
<1>2. Kept(p)'
  BY <1>1, KeptMoves
<1>3. HeaderInv'
  BY <1>1, HeaderKept
<1> QED BY <1>1, <1>2, <1>3, HistoryStep

LEMMA LookupHistory ==
  ASSUME HistoryInv, LayoutInv', NEW p \in Procs, NEW k \in Keys, Lookup(p, k)
  PROVE  HistoryInv'
<1> DEFINE e == Answer(p, k)
<1>1. /\ pc[p] = "ready" /\ e # None
      /\ mem' = MemPut(e) \/ mem' = MemShort(e)
      /\ UNCHANGED <<name, file, fileLen, index, acked, doubt, pc>>
  BY DEF Lookup, fileVars, procVars, history
<1>2. p \in Open /\ p \in Open'
  BY <1>1 DEF Open
<1>3. e \in Entries /\ e \in Promised(HashOf(e))
  BY <1>1, <1>2, AnswerIs
<1> HIDE DEF e
<1>4. TypeOK /\ MemInv
  BY DEF HistoryInv, LayoutInv
<1>5. MemInv'
  BY <1>1, <1>3, <1>4, MemGets, MemLoses
<1> QED BY <1>1, <1>2, <1>5, MovesHistory DEF Inserting, Landed

LEMMA CallInsertHistory ==
  ASSUME HistoryInv, LayoutInv', NEW p \in Procs, NEW e \in Entries, CallInsert(p, e)
  PROVE  HistoryInv'
<1>1. /\ pc[p] = "ready" /\ pc' = [pc EXCEPT ![p] = "write"] /\ cur' = e
      /\ doubt' = [doubt EXCEPT ![HashOf(e)] = @ \cup {e}]
      /\ UNCHANGED <<name, file, fileLen, index, acked, mem>>
  BY DEF CallInsert, Goto, fileVars, cacheVars
<1>2. TypeOK /\ MemInv /\ HashOf(e) \in Hashes
  BY RecsType DEF HistoryInv, LayoutInv
<1>3. pc'[p] = "write"
  BY <1>1, <1>2 DEF TypeOK
<1>4. p \in Open /\ p \in Open'
  BY <1>1, <1>3 DEF Open
<1>5. e \in doubt'[HashOf(e)] /\ \A h \in Hashes : doubt[h] \subseteq doubt'[h]
  BY <1>1, <1>2 DEF TypeOK
<1>6. MemInv'
  BY <1>1, <1>2, <1>5, MemKept DEF Promised
<1> QED BY <1>1, <1>3, <1>4, <1>5, <1>6, MovesHistory DEF Landed

LEMMA InsertMemHistory ==
  ASSUME HistoryInv, LayoutInv', NEW p \in Procs, InsertMem(p)
  PROVE  HistoryInv'
<1>1. /\ pc[p] = "mem" /\ pc' = [pc EXCEPT ![p] = "sync"] /\ mem' = MemPut(cur)
      /\ UNCHANGED <<name, file, fileLen, index, acked, doubt, cur>>
  BY DEF InsertMem, Goto, fileVars, curVars, history
<1>2. TypeOK /\ MemInv /\ LayoutInv
  BY DEF HistoryInv, LayoutInv
<1>3. pc'[p] = "sync"
  BY <1>1, <1>2 DEF TypeOK
<1>4. p \in Open /\ p \in Open'
  BY <1>1, <1>3 DEF Open
<1>5. cur \in Entries /\ cur \in doubt[HashOf(cur)]
  BY <1>1, <1>4 DEF HistoryInv, LayoutInv, Layout, Kept, Pending, Inserting
<1>6. MemInv'
  BY <1>1, <1>2, <1>5, MemGets DEF Promised
<1> DEFINE s == MemPut(cur)
<1>7. \A i \in 1 .. Len(s) : s[i] = cur \/ HashOf(s[i]) # HashOf(cur)
  BY <1>2, <1>5, MemPutIs DEF TypeOK, MemInv
<1> HIDE DEF s
<1>8. mem' = s
  BY <1>1 DEF s
<1> QED BY <1>1, <1>3, <1>4, <1>5, <1>6, <1>7, <1>8, MovesHistory DEF Landed

LEMMA MaybeSyncHistory ==
  ASSUME HistoryInv, LayoutInv', NEW p \in Procs, MaybeSync(p)
  PROVE  HistoryInv'
<1>1. /\ pc[p] = "sync" /\ pc' = [pc EXCEPT ![p] = "compact"]
      /\ UNCHANGED <<name, file, fileLen, index, acked, doubt, cur, mem>>
  BY DEF MaybeSync, Goto, curVars
<1>2. TypeOK /\ MemInv
  BY DEF HistoryInv, LayoutInv
<1>3. pc'[p] = "compact"
  BY <1>1, <1>2 DEF TypeOK
<1>4. p \in Open /\ p \in Open'
  BY <1>1, <1>3 DEF Open
<1>5. /\ cur \in doubt[HashOf(cur)]
      /\ \A i \in 1 .. Len(mem) : HashOf(mem[i]) = HashOf(cur) => mem[i] = cur
  BY <1>1, <1>4 DEF HistoryInv, Kept, Pending, Inserting
<1>6. MemInv'
  BY <1>1, <1>2, MemKept DEF Promised
<1> QED BY <1>1, <1>3, <1>4, <1>5, <1>6, MovesHistory DEF Landed

LEMMA SyncHistory ==
  ASSUME HistoryInv, LayoutInv', NEW p \in Procs, Sync(p)
  PROVE  HistoryInv'
<1>1. pc[p] = "ready" /\ UNCHANGED <<name, file, fileLen, index, acked, doubt, mem, pc>>
  BY DEF Sync, procVars
<1>2. p \in Open /\ p \in Open'
  BY <1>1 DEF Open
<1>3. MemInv'
  BY <1>1, MemKept DEF Promised, HistoryInv, LayoutInv
<1> QED BY <1>1, <1>2, <1>3, MovesHistory DEF Landed, Inserting

\* insert fails, and leaves the index as it was.
LEMMA FailHistory ==
  ASSUME HistoryInv, LayoutInv', NEW p \in Procs,
         WriteFails(p) \/ MemFails(p) \/ SyncFails(p) \/ CompactFails(p)
  PROVE  HistoryInv'
<1>1. /\ pc[p] \in Inserting /\ pc' = [pc EXCEPT ![p] = "ready"]
      /\ UNCHANGED <<name, file, fileLen, index, acked, doubt>>
      /\ mem' = mem \/ mem' = MemShort(cur)
  BY DEF WriteFails, MemFails, SyncFails, CompactFails, Fail, Goto, Inserting, fileVars, cacheVars,
         history
<1>2. TypeOK /\ MemInv
  BY DEF HistoryInv, LayoutInv
<1>3. pc'[p] = "ready"
  BY <1>1, <1>2 DEF TypeOK
<1>4. p \in Open /\ p \in Open'
  BY <1>1, <1>3 DEF Open, Inserting
<1>5. MemInv'
  BY <1>1, <1>2, MemKept, MemLoses DEF Promised
<1> QED BY <1>1, <1>3, <1>4, <1>5, MovesHistory DEF Landed, Inserting

\* A step of the file changes the cells of the file the path leads to.
LEMMA HeaderCells ==
  ASSUME TypeOK, HeaderInv, NEW p \in Procs, pc[p] = "scan" \/ p \in Open, name' = name,
         NEW d, file' = [file EXCEPT ![name].cells = d]
  PROVE  HeaderInv' /\ file'[name'].cells = d
<1>1. file[name].hdr = "ok"
  BY DEF HeaderInv
<1>2. file'[name].hdr = "ok" /\ file'[name].cells = d
  BY <1>1 DEF TypeOK, Files
<1>3. \A i \in Inodes : i # name => file'[i] = file[i]
  BY DEF TypeOK
<1> QED BY <1>2, <1>3 DEF HeaderInv

LEMMA WriteCellHistory ==
  ASSUME HistoryInv, LayoutInv', NEW p \in Procs, WriteCell(p)
  PROVE  HistoryInv'
<1> DEFINE c == file[name].cells
           d == file'[name].cells
           n == fileLen + written + 1
<1>1. /\ pc[p] = "write" /\ pc' = [pc EXCEPT ![p] = IF written + 1 = cur[2] THEN "index" ELSE "write"]
      /\ UNCHANGED <<name, fileLen, index, acked, doubt, cur, mem>>
  BY DEF WriteCell, cacheVars, history
<1>2. p \in Open /\ LayoutInv /\ TypeOK /\ MemInv /\ HeaderInv /\ Kept(p)
  BY <1>1 DEF HistoryInv, LayoutInv, Open
<1>3. pc'[p] \in {"write", "index"} /\ p \in Open'
  BY <1>1, <1>2 DEF TypeOK, Open
<1>4. /\ c \in Seq(Cells) /\ d \in Seq(Cells) /\ Agree(c, d, fileLen)
      /\ file' = [file EXCEPT ![name].cells = d]
      /\ \A q \in 1 .. Len(d) : q # n => q <= Len(c) /\ d[q] = c[q]
      /\ d[n] = <<cur, written + 1>>
      /\ fileLen \in Nat /\ written \in Nat /\ cur \in Entries
  <2>1. WroteCell(c, d)
    BY <1>2, WriteCellRow
  <2> QED BY <2>1 DEF WroteCell
<1> HIDE DEF d, c, n
<1>5. HeaderInv' /\ file'[name'].cells = d
  BY <1>1, <1>2, <1>4, HeaderCells
<1>6. MemInv'
  BY <1>1, <1>2, MemKept DEF Promised
<1>7. Behind(c, fileLen, Doubtful(p)) /\ Found /\ cur \in doubt[HashOf(cur)]
  BY <1>1, <1>2 DEF Kept, Pending, Inserting, c
<1>8. cur \in Doubtful(p) /\ Doubtful(p)' = Doubtful(p)
  BY <1>1, <1>3, <1>4, <1>7 DEF Doubtful, Landed
<1>9. Behind(d, fileLen, Doubtful(p))
  <2> SUFFICES ASSUME NEW q \in fileLen + 1 .. Len(d)
               PROVE  /\ d[q] \in Entries \X (Nat \ {0}) /\ q - d[q][2] <= fileLen
                      /\ q - d[q][2] = fileLen => d[q][1] \in Doubtful(p)
    BY DEF Behind
  <2>1. q \in 1 .. Len(d) /\ q \in Nat /\ Len(c) \in Nat
    BY <1>4
  <2>2. CASE q = n
    <3>1. d[q] = <<cur, written + 1>> /\ q - (written + 1) = fileLen /\ written + 1 \in Nat \ {0}
      <4>1. fileLen \in Nat /\ written \in Nat /\ d[q] = <<cur, written + 1>>
        BY <1>4, <2>2
      <4>2. q = fileLen + written + 1
        BY <2>2 DEF n
      <4> QED BY <4>1, <4>2
    <3> QED BY <1>4, <1>8, <3>1
  <2>3. CASE q # n
    <3>1. q \in fileLen + 1 .. Len(c) /\ d[q] = c[q]
      BY <1>4, <2>1, <2>3
    <3> QED BY <1>7, <3>1 DEF Behind
  <2> QED BY <2>2, <2>3
<1>10. \A h \in {0} \cup Hashes : Scanned(d, fileLen, h) = Scanned(c, fileLen, h)
  BY <1>4, AgreeIndex
<1>11. Found'
  BY <1>1, <1>5, <1>7, <1>10 DEF Found, Promised, c
<1>12. Pending(p)'
  BY <1>1, <1>3, <1>7 DEF Pending, Landed
<1>13. Kept(p)'
  BY <1>1, <1>5, <1>8, <1>9, <1>11, <1>12 DEF Kept
<1> QED BY <1>3, <1>5, <1>6, <1>13, HistoryStep

\* file_len moves behind the record that was written.
LEMMA GrownHistory ==
  ASSUME HistoryInv, NEW p \in Open, pc[p] = "index", fileLen' = Grown,
         UNCHANGED <<name, file, acked, doubt>>,
         \/ index' = index /\ index[HashOf(cur)] = NoRecord
         \/ index' = [index EXCEPT ![HashOf(cur)] = [at |-> fileLen, size |-> cur[2]]]
  PROVE  /\ Behind(file[name].cells, fileLen', Doubtful(p)') /\ Found'
         /\ Scanned(file[name].cells, fileLen', HashOf(cur)) = cur
         /\ cur \in Entries /\ HashOf(cur) \in Hashes
         /\ cur \in doubt[HashOf(cur)]
         /\ index' # index => index'[HashOf(cur)] # NoRecord
<1> DEFINE c == file[name].cells
<1>1. LayoutInv /\ Kept(p) /\ TypeOK
  BY DEF HistoryInv, LayoutInv
<1>2. /\ c \in Seq(Cells) /\ fileLen \in Nat /\ cur \in Entries
      /\ Grown \in Nat /\ Grown = fileLen + cur[2]
      /\ cur[2] \in Nat /\ cur[2] >= 1
      /\ Learnt(c, fileLen, c, Grown, cur)
  BY <1>1, GrownRow
<1>3. Behind(c, fileLen, Doubtful(p)) /\ Found /\ cur \in doubt[HashOf(cur)]
  BY <1>1 DEF Kept, Pending, Inserting
<1>4. HashOf(cur) \in Hashes
  BY <1>2, RecsType
<1>5. fileLen < Grown
  BY <1>2
<1>6. Behind(c, Grown, Doubtful(p)')
  <2> HIDE DEF c
  <2> QED BY <1>2, <1>3, <1>5, BehindGrows
<1>7. ASSUME NEW h \in Hashes
      PROVE  Scanned(c, Grown, h) = IF h = HashOf(cur) THEN cur ELSE Scanned(c, fileLen, h)
  BY <1>2 DEF Learnt
<1>8. [at |-> fileLen, size |-> cur[2]] # NoRecord
  BY <1>2 DEF NoRecord
<1>9. ASSUME NEW h \in Hashes, h # HashOf(cur) PROVE index'[h] = index[h]
  BY <1>1, <1>9 DEF TypeOK
<1>10. \/ index'[HashOf(cur)] # NoRecord
       \/ index' = index /\ acked[HashOf(cur)] = None
  BY <1>1, <1>3, <1>4, <1>8 DEF TypeOK, Found
<1>11. ASSUME NEW h \in Hashes
       PROVE  /\ Scanned(c, Grown, h) \in Promised(h)
              /\ index'[h] = NoRecord => acked[h] = None
  <2>1. CASE h = HashOf(cur)
    BY <1>3, <1>7, <1>10, <2>1 DEF Promised
  <2>2. CASE h # HashOf(cur)
    BY <1>3, <1>7, <1>9, <2>2 DEF Found
  <2> QED BY <2>1, <2>2
<1>12. Found'
  BY <1>11 DEF Found, Promised
<1>13. Scanned(c, Grown, HashOf(cur)) = cur
  BY <1>4, <1>7
<1> QED BY <1>2, <1>3, <1>4, <1>6, <1>10, <1>12, <1>13

LEMMA IndexRecordHistory ==
  ASSUME HistoryInv, LayoutInv', NEW p \in Procs, IndexRecord(p)
  PROVE  HistoryInv'
<1>1. /\ pc[p] = "index" /\ pc' = [pc EXCEPT ![p] = "mem"] /\ fileLen' = Grown
      /\ index' = [index EXCEPT ![HashOf(cur)] = [at |-> fileLen, size |-> cur[2]]]
      /\ UNCHANGED <<name, file, acked, doubt, cur, mem>>
  BY DEF IndexRecord, Goto, fileVars, curVars, history
<1>2. p \in Open /\ TypeOK /\ MemInv /\ HeaderInv /\ LayoutInv
  BY <1>1 DEF HistoryInv, LayoutInv, Open
<1>3. pc'[p] = "mem" /\ p \in Open'
  BY <1>1, <1>2 DEF TypeOK, Open
<1>4. /\ Behind(file[name].cells, fileLen', Doubtful(p)') /\ Found'
      /\ Scanned(file[name].cells, fileLen', HashOf(cur)) = cur
      /\ cur \in doubt[HashOf(cur)] /\ HashOf(cur) \in Hashes
  BY <1>1, <1>2, GrownHistory
<1>5. index'[HashOf(cur)] # NoRecord
  <2>1. cur[2] # 0
    BY <1>1, <1>2, GrownRow
  <2> QED BY <1>1, <1>2, <1>4, <2>1 DEF TypeOK, NoRecord
<1>6. Pending(p)'
  BY <1>1, <1>3, <1>4, <1>5 DEF Pending
<1>7. Kept(p)' /\ HeaderInv' /\ MemInv'
  BY <1>1, <1>2, <1>4, <1>6, HeaderKept, MemKept DEF Kept, Promised
<1> QED BY <1>3, <1>7, HistoryStep

LEMMA IndexFailsHistory ==
  ASSUME HistoryInv, LayoutInv', NEW p \in Procs, IndexFails(p)
  PROVE  HistoryInv'
<1>1. /\ pc[p] = "index" /\ pc' = [pc EXCEPT ![p] = "ready"] /\ fileLen' = Grown
      /\ index' = index /\ index[HashOf(cur)] = NoRecord
      /\ UNCHANGED <<name, file, acked, doubt, mem>>
  BY DEF IndexFails, Fail, Goto, fileVars, history
<1>2. p \in Open /\ TypeOK /\ MemInv /\ HeaderInv
  BY <1>1 DEF HistoryInv, LayoutInv, Open
<1>3. pc'[p] = "ready" /\ p \in Open'
  BY <1>1, <1>2 DEF TypeOK, Open
<1>4. Behind(file[name].cells, fileLen', Doubtful(p)') /\ Found'
  BY <1>1, <1>2, GrownHistory
<1>5. Pending(p)'
  BY <1>3 DEF Pending, Inserting, Landed
<1>6. Kept(p)' /\ HeaderInv' /\ MemInv'
  BY <1>1, <1>2, <1>4, <1>5, HeaderKept, MemKept DEF Kept, Promised
<1> QED BY <1>3, <1>6, HistoryStep

\* What the return of insert makes of the promises.
LEMMA ReturnIs ==
  ASSUME HistoryInv, NEW p \in Open, Return(p)
  PROVE  /\ pc[p] = "compact" /\ pc'[p] = "ready" /\ p \in Open' /\ HashOf(cur) \in Hashes
         /\ acked'[HashOf(cur)] = cur
         /\ \A h \in Hashes : h # HashOf(cur) => acked'[h] = acked[h] /\ Promised(h)' = Promised(h)
         /\ index[HashOf(cur)] # NoRecord
         /\ Scanned(file[name].cells, fileLen, HashOf(cur)) = cur
         /\ Pending(p)' /\ MemInv'
<1>1. /\ pc[p] = "compact" /\ mem' = mem
      /\ acked' = [acked EXCEPT ![HashOf(cur)] = cur]
      /\ doubt' = [doubt EXCEPT ![HashOf(cur)] = {}]
  BY DEF Return
<1>2. LayoutInv /\ TypeOK /\ MemInv /\ Pending(p)
  BY DEF HistoryInv, LayoutInv, Kept
<1>3. pc'[p] = "ready" /\ HashOf(cur) \in Hashes
  BY <1>2, ReturnType
<1>4. p \in Open'
  BY <1>3 DEF Open
<1>5. /\ acked'[HashOf(cur)] = cur
      /\ \A h \in Hashes : h = HashOf(cur) => cur \in Promised(h)'
  BY <1>1, <1>2, <1>3 DEF TypeOK, Promised
<1>6. \A h \in Hashes : h # HashOf(cur) => acked'[h] = acked[h] /\ Promised(h)' = Promised(h)
  BY <1>1, <1>2 DEF TypeOK, Promised
<1>7. \A i \in 1 .. Len(mem) : \A h \in Hashes : h = HashOf(mem[i]) => mem[i] \in Promised(h)'
  <2> SUFFICES ASSUME NEW i \in 1 .. Len(mem), NEW h \in Hashes, h = HashOf(mem[i])
               PROVE  mem[i] \in Promised(h)'
    OBVIOUS
  <2>1. h = HashOf(cur) => mem[i] = cur
    BY <1>1, <1>2 DEF Pending
  <2>2. mem[i] \in Promised(h)
    BY <1>2 DEF MemInv
  <2> QED BY <1>5, <1>6, <2>1, <2>2
<1>8. MemInv'
  <2>1. \A i \in 1 .. Len(mem) : HashOf(mem[i]) \in Hashes
    <3>1. \A i \in 1 .. Len(mem) : mem[i] \in Entries
      BY <1>2 DEF TypeOK
    <3> QED BY <3>1, RecsType
  <2> QED BY <1>1, <1>2, <1>7, <2>1 DEF MemInv, Distinct
<1>9. Pending(p)'
  BY <1>3 DEF Pending, Inserting, Landed
<1>10. index[HashOf(cur)] # NoRecord /\ Scanned(file[name].cells, fileLen, HashOf(cur)) = cur
  BY <1>1, <1>2 DEF Pending, Landed
<1> QED BY <1>1, <1>3, <1>4, <1>5, <1>6, <1>8, <1>9, <1>10

LEMMA InsertReturnsHistory ==
  ASSUME HistoryInv, LayoutInv', NEW p \in Procs, InsertReturns(p)
  PROVE  HistoryInv'
<1>1. Return(p) /\ UNCHANGED <<name, file, fileLen, index>>
  BY DEF InsertReturns, fileVars
<1>2. p \in Open
  BY <1>1 DEF Return, Open
<1>3. LayoutInv /\ TypeOK /\ HeaderInv /\ Kept(p)
  BY <1>2 DEF HistoryInv, LayoutInv
<1>4. Behind(file[name].cells, fileLen, Doubtful(p)) /\ Found
  BY <1>3 DEF Kept
<1>5. Doubtful(p) = {}
  BY <1>1, <1>2, ReturnIs DEF Doubtful, Landed
<1>6. Behind(file[name].cells, fileLen, Doubtful(p)')
  BY <1>4, <1>5, BehindMore
<1>7. Found'
  <2> DEFINE c == file[name].cells
  <2> SUFFICES ASSUME NEW h \in Hashes
               PROVE  /\ Scanned(c, fileLen, h) \in Promised(h)'
                      /\ index[h] = NoRecord => acked'[h] = None
    BY <1>1 DEF Found
  <2>1. CASE h = HashOf(cur)
    BY <1>1, <1>2, <2>1, ReturnIs DEF Promised
  <2>2. CASE h # HashOf(cur)
    <3>1. acked'[h] = acked[h] /\ Promised(h)' = Promised(h)
      BY <1>1, <1>2, <2>2, ReturnIs
    <3> QED BY <1>4, <3>1 DEF Found
  <2> QED BY <2>1, <2>2
<1>8. Kept(p)'
  BY <1>1, <1>2, <1>6, <1>7, ReturnIs DEF Kept
<1>9. HeaderInv'
  BY <1>1, <1>2, <1>3, HeaderKept DEF Open
<1> QED BY <1>1, <1>2, <1>8, <1>9, ReturnIs, HistoryStep

LEMMA ScanHistory ==
  ASSUME HistoryInv, LayoutInv', ReadFaults = 0, NEW p \in Procs, Scan(p)
  PROVE  HistoryInv'
<1> DEFINE c == file[name].cells
           n == fileLen'
           d == Truncated(c, n)
<1>1. /\ pc[p] = "scan" /\ pc' = [pc EXCEPT ![p] = "ready"] /\ mem' = <<>>
      /\ UNCHANGED <<name, acked, doubt>>
  BY DEF Scan, Goto, history
<1>2. LayoutInv /\ TypeOK /\ HeaderInv /\ Durable
  BY DEF HistoryInv, LayoutInv
<1>3. pc'[p] = "ready" /\ p \in Open'
  BY <1>1, <1>2 DEF TypeOK, Open
<1>4. /\ c \in Seq(Cells) /\ n \in Offsets(c) /\ n \in Nat
      /\ \A m \in Offsets(c) : m <= n
      /\ file' = [file EXCEPT ![name].cells = d]
      /\ Agree(c, d, n) /\ Len(d) = n /\ d \in Seq(Cells)
      /\ index' = IndexOf(c, n)
  BY <1>2, ScanRow
<1>5. file[name] \in Files /\ file[name].hdr = "ok"
  BY <1>1, <1>2, FileType DEF HeaderInv, TypeOK
<1>6. \A h \in Hashes : Scanned(c, Len(c), h) \in Promised(h)
  BY <1>2, <1>5, ReplayedIs DEF Durable, Promised
<1> HIDE DEF d, c
<1>7. HeaderInv' /\ file'[name'].cells = d
  BY <1>1, <1>2, <1>4, HeaderCells
<1>8. EntryAt(c, n) = None
  <2> SUFFICES ASSUME EntryAt(c, n) # None PROVE FALSE
    OBVIOUS
  <2>1. End(c, n) \in Offsets(c) /\ n < End(c, n) /\ End(c, n) \in Nat
    BY <1>4, OffsetSteps, EntrySize
  <2> QED BY <1>4, <2>1
<1>9. \A h \in Hashes : Scanned(c, n, h) \in Promised(h) /\ Scanned(d, n, h) = Scanned(c, n, h)
  BY <1>4, <1>6, <1>8, LastOffset, AgreeIndex
<1>10. ASSUME NEW h \in Hashes, index'[h] = NoRecord PROVE acked[h] = None
  <2>1. Scanned(c, n, h) = None
    BY <1>4, <1>10, IndexType
  <2>2. doubt[h] \subseteq Entries /\ None \notin Entries
    BY <1>2, RecsType DEF TypeOK
  <2> QED BY <1>9, <2>1, <2>2 DEF Promised
<1>11. Found'
  BY <1>1, <1>7, <1>9, <1>10 DEF Found, Promised
<1>12. Behind(d, n, Doubtful(p)')
  BY <1>4, NothingBehind
<1>13. Pending(p)'
  BY <1>3 DEF Pending, Inserting, Landed
<1>14. Kept(p)'
  BY <1>7, <1>11, <1>12, <1>13 DEF Kept
<1>15. MemInv'
  BY <1>1 DEF MemInv, Distinct
<1> QED BY <1>3, <1>7, <1>14, <1>15, HistoryStep

\* A compaction copies what the index has, and promises hold of the copy.
LEMMA CompactKept ==
  ASSUME HistoryInv, NEW p \in Open, Compact(p), NEW d, d = file'[name'].cells
  PROVE  /\ HeaderInv' /\ \A S : Behind(d, fileLen', S)
         /\ \A h \in Hashes :
              /\ Scanned(d, fileLen', h) \in Promised(h)
              /\ index'[h] = NoRecord => acked[h] = None
              /\ index[h] # NoRecord => /\ index'[h] # NoRecord
                                        /\ Scanned(d, fileLen', h) = Scanned(file[name].cells, fileLen, h)
<1> DEFINE c == file[name].cells
<1>1. LayoutInv /\ HeaderInv /\ Found /\ TypeOK /\ Layout(p)
  BY DEF HistoryInv, Kept, LayoutInv
<1>2. PICK i \in Inodes \ {name, durableName} : \E r \in Seq(Cells) :
           /\ file' = [file EXCEPT ![i] = [hdr |-> "ok", cells |-> r]]
           /\ fileLen' = Len(r) /\ index' = IndexOf(r, Len(r))
           /\ name' = i
           /\ \A h \in {0} \cup Hashes :
                Scanned(r, Len(r), h) = IF index[h] = NoRecord THEN None ELSE Scanned(c, fileLen, h)
  BY <1>1, CompactRow
<1>3. PICK r \in Seq(Cells) :
           /\ file' = [file EXCEPT ![i] = [hdr |-> "ok", cells |-> r]]
           /\ fileLen' = Len(r) /\ index' = IndexOf(r, Len(r))
           /\ name' = i
           /\ \A h \in {0} \cup Hashes :
                Scanned(r, Len(r), h) = IF index[h] = NoRecord THEN None ELSE Scanned(c, fileLen, h)
  BY <1>2
<1>4. /\ file'[i] = [hdr |-> "ok", cells |-> r]
      /\ \A j \in Inodes : j # i => file'[j] = file[j]
  BY <1>1, <1>3 DEF TypeOK
<1>5. d = r /\ Len(r) \in Nat
  BY <1>3, <1>4
<1>6. HeaderInv'
  BY <1>1, <1>3, <1>4 DEF HeaderInv
<1>7. \A S : Behind(d, fileLen', S)
  BY <1>3, <1>5 DEF Behind
<1>8. ASSUME NEW h \in Hashes
      PROVE  /\ Scanned(d, fileLen', h) \in Promised(h)
             /\ index'[h] = NoRecord => acked[h] = None
             /\ index[h] # NoRecord => /\ index'[h] # NoRecord
                                       /\ Scanned(d, fileLen', h) = Scanned(c, fileLen, h)
  <2>1. Scanned(r, Len(r), h) = IF index[h] = NoRecord THEN None ELSE Scanned(c, fileLen, h)
    BY <1>3
  <2>2. index'[h] = NoRecord <=> Scanned(r, Len(r), h) = None
    BY <1>3, <1>5, IndexType
  <2>3. Scanned(c, fileLen, h) \in Promised(h) /\ (index[h] = NoRecord => acked[h] = None)
    BY <1>1 DEF Found
  <2>4. index[h] # NoRecord => Scanned(c, fileLen, h) # None
    <3>1. h \in DOMAIN index /\ fileLen \in Nat /\ c \in Seq(Cells)
      BY <1>1, HasOpen DEF TypeOK
    <3>2. index[h] \in {NoRecord, IndexOf(c, fileLen)[h]}
      <4>1. Layout(p)
        BY <1>1
      <4>2. \A k \in DOMAIN index : index[k] \in {NoRecord, IndexOf(c, fileLen)[k]}
        BY ONLY <4>1 DEF Layout
      <4> QED BY <3>1, <4>2
    <3>3. IndexOf(c, fileLen)[h] = NoRecord <=> Scanned(c, fileLen, h) = None
      <4> HIDE DEF c
      <4> QED BY ONLY <3>1, h \in {0} \cup Hashes, IndexType
    <3> QED BY <3>2, <3>3
  <2>5. Scanned(d, fileLen', h) = Scanned(r, Len(r), h)
    BY <1>3, <1>5
  <2>6. acked[h] \in Promised(h)
    BY DEF Promised
  <2> HIDE DEF c
  <2>7. Scanned(d, fileLen', h) \in Promised(h)
    BY <2>1, <2>3, <2>5, <2>6
  <2> QED BY <2>1, <2>2, <2>3, <2>4, <2>5, <2>7
<1> QED BY <1>6, <1>7, <1>8

LEMMA CompactNowHistory ==
  ASSUME HistoryInv, LayoutInv', NEW p \in Procs, CompactNow(p)
  PROVE  HistoryInv'
<1>1. /\ pc[p] = "ready" /\ Compact(p) /\ UNCHANGED <<pc, mem, acked, doubt>>
  BY DEF CompactNow, history
<1>2. p \in Open /\ p \in Open' /\ TypeOK /\ MemInv
  BY <1>1 DEF Open, HistoryInv, LayoutInv
<1> DEFINE d == file'[name'].cells
<1>3. /\ HeaderInv' /\ Behind(d, fileLen', Doubtful(p)')
      /\ \A h \in Hashes : /\ Scanned(d, fileLen', h) \in Promised(h)
                           /\ index'[h] = NoRecord => acked[h] = None
  BY <1>1, <1>2, CompactKept
<1>4. Found'
  BY <1>1, <1>3 DEF Found, Promised
<1>5. Pending(p)'
  BY <1>1 DEF Pending, Inserting, Landed
<1>6. Kept(p)' /\ MemInv'
  BY <1>1, <1>2, <1>3, <1>4, <1>5, MemKept DEF Kept, Promised
<1> QED BY <1>2, <1>3, <1>6, HistoryStep

LEMMA InsertCompactsHistory ==
  ASSUME HistoryInv, LayoutInv', NEW p \in Procs, InsertCompacts(p)
  PROVE  HistoryInv'
<1>1. Return(p) /\ Compact(p)
  BY DEF InsertCompacts
<1>2. p \in Open
  BY <1>1 DEF Return, Open
<1> DEFINE d == file'[name'].cells
<1>3. /\ HeaderInv' /\ Behind(d, fileLen', Doubtful(p)')
      /\ \A h \in Hashes :
           /\ Scanned(d, fileLen', h) \in Promised(h)
           /\ index'[h] = NoRecord => acked[h] = None
           /\ index[h] # NoRecord => /\ index'[h] # NoRecord
                                     /\ Scanned(d, fileLen', h) = Scanned(file[name].cells, fileLen, h)
  BY <1>1, <1>2, CompactKept
<1>4. Found'
  <2> SUFFICES ASSUME NEW h \in Hashes
               PROVE  /\ Scanned(d, fileLen', h) \in Promised(h)'
                      /\ index'[h] = NoRecord => acked'[h] = None
    BY DEF Found
  <2>1. CASE h = HashOf(cur)
    <3>1. acked'[h] = cur /\ index'[h] # NoRecord /\ Scanned(d, fileLen', h) = cur
      BY <1>1, <1>2, <1>3, <2>1, ReturnIs
    <3> HIDE DEF d
    <3> QED BY <3>1 DEF Promised
  <2>2. CASE h # HashOf(cur)
    <3>1. acked'[h] = acked[h] /\ Promised(h)' = Promised(h)
      BY <1>1, <1>2, <2>2, ReturnIs
    <3> QED BY <1>3, <3>1
  <2> QED BY <2>1, <2>2
<1>5. Kept(p)'
  BY <1>1, <1>2, <1>3, <1>4, ReturnIs DEF Kept
<1>6. p \in Procs /\ p \in Open' /\ MemInv'
  BY <1>1, <1>2, ReturnIs
<1> QED BY <1>3, <1>5, <1>6, HistoryStep

\* Steps of a process that has no cache open, and leaves what is promised alone.
LEMMA HistoryFrame ==
  ASSUME HistoryInv, LayoutInv',
         UNCHANGED <<name, file, cur, fileLen, index, mem, acked, doubt>>,
         \A q \in Procs : pc'[q] = "scan" \/ q \in Open' => pc'[q] = pc[q]
  PROVE  HistoryInv'
<1>1. TypeOK /\ MemInv /\ HeaderInv /\ Durable
  BY DEF HistoryInv, LayoutInv
<1>2. MemInv' /\ Durable'
  BY <1>1, MemKept DEF Promised, Durable
<1>3. HeaderInv'
  BY <1>1 DEF HeaderInv, Open
<1>4. ASSUME NEW q \in Open' PROVE Kept(q)'
  <2>1. q \in Procs /\ pc'[q] = pc[q] /\ q \in Open
    BY DEF Open
  <2>2. Kept(q)
    BY <2>1 DEF HistoryInv
  <2>3. Doubtful(q)' = Doubtful(q)
    BY <2>1 DEF Doubtful
  <2>4. Found' /\ Pending(q)'
    BY <2>1, <2>2 DEF Kept, Found, Pending, Promised
  <2> QED BY <2>2, <2>3, <2>4 DEF Kept
<1> QED BY <1>2, <1>3, <1>4 DEF HistoryInv

LEMMA WaitsHistory ==
  ASSUME HistoryInv, LayoutInv', NEW p \in Procs, CallOpen(p) \/ TakeLock(p) \/ OpenFile(p)
  PROVE  HistoryInv'
<1>1. /\ UNCHANGED <<name, file, cur, fileLen, index, mem, acked, doubt>>
      /\ \E s \in {"lock", "open", "header"} : pc' = [pc EXCEPT ![p] = s]
  BY DEF CallOpen, TakeLock, OpenFile, Goto, fileVars, curVars, cacheVars, history
<1>2. \A q \in Procs : pc'[q] = "scan" \/ q \in Open' => pc'[q] = pc[q]
  BY <1>1 DEF HistoryInv, LayoutInv, TypeOK, Open
<1> QED BY <1>1, <1>2, HistoryFrame

\* A process leaves, or is killed.
LEMMA LeaveHistory ==
  ASSUME HistoryInv, LayoutInv', NEW p \in Procs, Leave(p), pc[p] # "closed",
         UNCHANGED <<name, acked, doubt>>,
         file' = file \/ HeaderFails(p)
  PROVE  HistoryInv'
<1>1. TypeOK /\ Alone /\ HeaderInv /\ Durable
  BY DEF HistoryInv, LayoutInv
<1>2. pc' = [pc EXCEPT ![p] = "closed"]
  BY DEF Leave
<1>3. CASE lock # p
  <2>1. UNCHANGED <<cur, fileLen, index, mem>> /\ pc[p] \notin {"header"}
    BY <1>1, <1>3 DEF Leave, Alone, curVars, cacheVars
  <2>2. file' = file
    BY <2>1 DEF HeaderFails
  <2>3. \A q \in Procs : pc'[q] = "scan" \/ q \in Open' => pc'[q] = pc[q]
    BY <1>1, <1>2 DEF TypeOK, Open
  <2> QED BY <2>1, <2>2, <2>3, HistoryFrame
<1>4. CASE lock = p
  <2>1. \A q \in Procs : pc'[q] # "scan" /\ q \notin Open'
    BY <1>1, <1>2, <1>4 DEF TypeOK, Alone, Open
  <2>2. MemInv'
    BY <1>4 DEF Leave, MemInv, Distinct
  <2>3. file[name] \in Files /\ name \in Inodes
    BY <1>1, FileType DEF TypeOK
  <2>4. CASE file' = file
    <3>1. HeaderInv' /\ Durable'
      BY <1>1, <2>1, <2>4 DEF HeaderInv, Durable
    <3> QED BY <2>1, <2>2, <3>1 DEF HistoryInv, Open
  <2>5. CASE HeaderFails(p)
    <3>1. fd[p] = name /\ pc[p] = "header"
      BY <1>1, <2>5 DEF Alone, HeaderFails
    <3>2. file' = [file EXCEPT ![name].hdr = IF @ = "none" THEN "torn" ELSE @]
      BY <2>5, <3>1 DEF HeaderFails
    <3>3. /\ \A i \in Inodes : file'[i].cells = file[i].cells
          /\ \A i \in Inodes : file'[i].hdr = "none" => file[i].hdr = "none"
          /\ file'[name].hdr = "ok" <=> file[name].hdr = "ok"
          /\ file'[name] \in Files
      BY <1>1, <2>3, <3>2 DEF TypeOK, Files
    <3>4. HeaderInv'
      BY <1>1, <2>1, <3>3 DEF HeaderInv
    <3>5. Durable'
      <4> SUFFICES ASSUME NEW h \in Hashes PROVE Replayed(file'[name])[h] \in Promised(h)
        BY DEF Durable, Promised
      <4>1. Replayed(file'[name])[h] = Replayed(file[name])[h]
        BY <2>3, <3>3, ReplayedIs
      <4> QED BY <1>1, <4>1 DEF Durable, Promised
    <3> QED BY <2>1, <2>2, <3>4, <3>5 DEF HistoryInv, Open
  <2> QED BY <2>4, <2>5
<1> QED BY <1>3, <1>4

LEMMA EndsHistory ==
  ASSUME HistoryInv, LayoutInv', NEW p \in Procs,
         BadHeader(p) \/ HeaderFails(p) \/ ScanFails(p) \/ Close(p) \/ Crash(p)
  PROVE  HistoryInv'
<1>1. /\ Leave(p) /\ pc[p] # "closed" /\ UNCHANGED <<name, acked, doubt>>
      /\ file' = file \/ HeaderFails(p)
  BY DEF BadHeader, HeaderFails, ScanFails, Close, Crash, fileVars, history
<1> QED BY <1>1, LeaveHistory

LEMMA HeaderHistory ==
  ASSUME HistoryInv, LayoutInv', NEW p \in Procs, Header(p)
  PROVE  HistoryInv'
<1>1. TypeOK /\ Alone /\ HeaderInv /\ Durable /\ MemInv
  BY DEF HistoryInv, LayoutInv
<1>2. /\ pc[p] = "header" /\ pc' = [pc EXCEPT ![p] = "scan"]
      /\ UNCHANGED <<name, mem, acked, doubt>>
  BY DEF Header, Goto, cacheVars, history
<1>3. fd[p] = name
  BY <1>1, <1>2 DEF Alone
<1>4. file[name].hdr # "torn" /\ file' = [file EXCEPT ![name].hdr = "ok"]
  BY <1>3 DEF Header
<1>5. /\ \A q \in Open' : FALSE
      /\ MemInv'
  BY <1>1, <1>2, MemKept DEF TypeOK, Alone, Open, Promised
<1>6. file[name] \in Files /\ name \in Inodes
  BY <1>1, FileType DEF TypeOK
<1>7. /\ \A i \in Inodes : file'[i].cells = file[i].cells
      /\ \A i \in Inodes : i # name => file'[i] = file[i]
      /\ file'[name].hdr = "ok"
      /\ file'[name] \in Files
  BY <1>1, <1>4, <1>6 DEF TypeOK, Files
<1>8. HeaderInv'
  BY <1>1, <1>2, <1>7 DEF HeaderInv
<1>9. Durable'
  <2> SUFFICES ASSUME NEW h \in Hashes PROVE Replayed(file'[name])[h] \in Promised(h)
    BY <1>2 DEF Durable, Promised
  <2>1. Replayed(file[name])[h] \in Promised(h)
    BY <1>1 DEF Durable, Promised
  <2>2. CASE file[name].hdr = "ok"
    BY <1>6, <1>7, <2>1, <2>2, ReplayedIs
  <2>3. CASE file[name].hdr = "none"
    <3>1. file'[name].cells = <<>>
      BY <1>1, <1>6, <1>7, <2>3 DEF HeaderInv
    <3>2. Replayed(file'[name])[h] = None
      <4>1. \A f \in Files : f.hdr = "ok" => Replayed(f)[h] = Scanned(f.cells, Len(f.cells), h)
        BY ReplayedIs
      <4>2. Scanned(<<>>, Len(<<>>), h) = None
        BY EmptyRow
      <4> QED BY <1>7, <3>1, <4>1, <4>2
    <3>3. Replayed(file[name])[h] = None
      BY <1>6, <2>3, ReplayedIs
    <3> QED BY <2>1, <3>2, <3>3
  <2> QED BY <1>4, <1>6, <2>2, <2>3 DEF Files
<1> QED BY <1>5, <1>8, <1>9 DEF HistoryInv

LEMMA PowerFailureHistory ==
  ASSUME HistoryInv, LayoutInv', PowerFailure
  PROVE  HistoryInv'
<1>1. PICK i \in {durableName, name} : \E f \in Survivors(i) :
         /\ name' = i
         /\ file' = [[j \in Inodes |-> NoFile] EXCEPT ![i] = f]
         /\ acked' = Replayed(f)
  BY DEF PowerFailure
<1>2. PICK f \in Survivors(i) :
         /\ name' = i
         /\ file' = [[j \in Inodes |-> NoFile] EXCEPT ![i] = f]
         /\ acked' = Replayed(f)
  BY <1>1
<1>3. i \in Inodes
  BY DEF HistoryInv, LayoutInv, TypeOK
<1>4. f.hdr = "none" => f.cells = <<>>
  BY DEF Survivors
<1>5. file'[i] = f /\ \A j \in Inodes : j # i => file'[j] = NoFile
  BY <1>2, <1>3
<1>6. (\A p \in Procs : pc'[p] = "closed") /\ mem' = <<>>
  BY DEF PowerFailure
<1>7. (\A p \in Procs : p \notin Open' /\ pc'[p] # "scan") /\ MemInv'
  BY <1>6 DEF Open, MemInv, Distinct
<1>8. HeaderInv'
  BY <1>4, <1>5, <1>7 DEF HeaderInv, NoFile
<1>9. Durable'
  BY <1>2, <1>5 DEF Durable
<1> QED BY <1>7, <1>8, <1>9 DEF HistoryInv, Open

LEMMA InitHistory == Init => HistoryInv
<1> SUFFICES ASSUME Init PROVE HistoryInv
  OBVIOUS
<1>1. LayoutInv
  BY InitLayout
<1>2. \A p \in Procs : p \notin Open /\ pc[p] # "scan"
  BY DEF Init, Open
<1>3. file[name] = NoFile /\ NoFile \in Files
  BY InitialIndex, LogAssumption DEF Init
<1>4. Durable
  <2>1. \A h \in Hashes : Replayed(file[name])[h] = None
    BY <1>3, ReplayedIs DEF NoFile
  <2> QED BY <2>1 DEF Durable, Init
<1>5. MemInv
  BY DEF Init, MemInv, Distinct
<1>6. HeaderInv
  BY <1>2 DEF Init, HeaderInv, NoFile
<1> QED BY <1>1, <1>2, <1>4, <1>5, <1>6 DEF HistoryInv, Open

LEMMA NextHistory == ReadFaults = 0 => (HistoryInv /\ [Next]_vars => HistoryInv')
<1> SUFFICES ASSUME ReadFaults = 0, HistoryInv, [Next]_vars PROVE HistoryInv'
  OBVIOUS
<1>1. LayoutInv'
  BY NextLayout DEF HistoryInv
<1>2. CASE UNCHANGED vars \/ Done
  <2>1. UNCHANGED <<name, file, cur, fileLen, index, mem, acked, doubt, pc>>
    BY <1>2 DEF Done, vars, fileVars, procVars, curVars, cacheVars, history
  <2> QED BY <1>1, <2>1, HistoryFrame
<1>3. CASE PowerFailure
  BY <1>1, <1>3, PowerFailureHistory
<1>4. ASSUME NEW p \in Procs,
             \/ CallOpen(p) \/ TakeLock(p) \/ OpenFile(p)
             \/ Header(p) \/ BadHeader(p) \/ HeaderFails(p) \/ Scan(p) \/ ScanFails(p) \/ Close(p)
      PROVE  HistoryInv'
  BY <1>1, <1>4, WaitsHistory, HeaderHistory, EndsHistory, ScanHistory
<1>5. ASSUME NEW p \in Procs, NEW k \in Keys, Lookup(p, k) PROVE HistoryInv'
  BY <1>1, <1>5, LookupHistory
<1>6. ASSUME NEW p \in Procs, NEW e \in Entries, CallInsert(p, e) PROVE HistoryInv'
  BY <1>1, <1>6, CallInsertHistory
<1>7. ASSUME NEW p \in Procs,
             \/ WriteCell(p) \/ IndexRecord(p) \/ InsertMem(p) \/ MaybeSync(p)
             \/ InsertReturns(p) \/ InsertCompacts(p)
             \/ WriteFails(p) \/ IndexFails(p) \/ MemFails(p) \/ SyncFails(p) \/ CompactFails(p)
             \/ Sync(p) \/ CompactNow(p) \/ Crash(p)
      PROVE  HistoryInv'
  BY <1>1, <1>7, WriteCellHistory, IndexRecordHistory, InsertMemHistory, MaybeSyncHistory,
     InsertReturnsHistory, InsertCompactsHistory, FailHistory, IndexFailsHistory, SyncHistory,
     CompactNowHistory, EndsHistory
<1> QED BY <1>2, <1>3, <1>4, <1>5, <1>6, <1>7 DEF Next

\* Whatever crashes and errors there are, and whatever is compacted: what the next
\* process that opens the file finds of a hash is the last entry whose insert returned,
\* or one whose insert was cut off since.
THEOREM DurableCorrect == ASSUME ReadFaults = 0 PROVE Spec => []Durable
<1>1. HistoryInv => Durable
  BY DEF HistoryInv
<1>2. HistoryInv /\ [Next]_vars => HistoryInv'
  BY NextHistory
<1> QED BY InitHistory, <1>1, <1>2, PTL DEF Spec

\* A lookup answers with the entry that was promised for the hash of its key, if that
\* entry is of the key, whether it is found in memory or in the file.
THEOREM AnswersCorrect == ASSUME ReadFaults = 0 PROVE Spec => []Answers
<1>1. HistoryInv /\ [Next]_vars => HistoryInv'
  BY NextHistory
<1> QED BY InitHistory, HistoryAnswers, <1>1, PTL DEF Spec

-----------------------------------------------------------------------------
(* What a power failure leaves: PowerSafe.                                  *)

\* Offset n of a file with row c, of which row b was synced: up to it the two are the
\* same, and hold what is hoped for, and so is every entry whose record begins behind it.
Anchor(c, b, n, H) ==
  /\ n \in Offsets(c) /\ n <= Len(b)
  /\ \A q \in 1 .. n : b[q] = c[q]
  /\ \A h \in Hashes : Scanned(c, n, h) \in H[h]
  /\ \A r \in {c, b} : \A q \in n + 1 .. Len(r) :
       r[q][2] = 1 /\ r[q][1] \in Entries => r[q][1] \in H[HashOf(r[q][1])]

\* All of file f was synced, and a scan of it finds what H hopes for.
Clean(f, g, H) == f = g /\ \A h \in Hashes : Replayed(f)[h] \in H[h]

\* File f, of which g was synced, leaves what H hopes for.
Safe(f, g, H) ==
  /\ Clean(f, g, H) \/ \E n \in Nat : Anchor(f.cells, g.cells, n, H)
  /\ f.hdr # "ok" \/ g.hdr # "ok" => \A h \in Hashes : None \in H[h]

\* The file that is in use has such an offset before file_len.
Anchored == \E n \in Nat : n <= fileLen /\ Anchor(file[name].cells, disk[name].cells, n, hope)

\* The invariant of the third layer.
HopeInv ==
  /\ \A h \in Hashes : Promised(h) \subseteq hope[h]
  /\ Safe(file[name], disk[name], hope)
  /\ Safe(file[durableName], disk[durableName], hope)
  /\ \A p \in Open : Anchored

LEMMA AnchorMore ==
  ASSUME NEW c, NEW b, NEW n, NEW H, NEW K, Anchor(c, b, n, H),
         \A h \in Hashes : H[h] \subseteq K[h]
  PROVE  Anchor(c, b, n, K)
<1>1. \A e \in Entries : HashOf(e) \in Hashes
  BY RecsType
<1> QED BY <1>1 DEF Anchor

LEMMA SafeMore ==
  ASSUME NEW f, NEW g, NEW H, NEW K, Safe(f, g, H), \A h \in Hashes : H[h] \subseteq K[h]
  PROVE  Safe(f, g, K)
<1>1. CASE Clean(f, g, H)
  BY <1>1 DEF Safe, Clean
<1>2. CASE \E n \in Nat : Anchor(f.cells, g.cells, n, H)
  <2>1. PICK n \in Nat : Anchor(f.cells, g.cells, n, H)
    BY <1>2
  <2>2. Anchor(f.cells, g.cells, n, K)
    BY <2>1, AnchorMore
  <2> QED BY <2>2 DEF Safe
<1> QED BY <1>1, <1>2 DEF Safe

\* A file that is synced as it is, and ends where its records end.
LEMMA AnchorEnd ==
  ASSUME NEW c \in Seq(Cells), Len(c) \in Offsets(c), NEW H,
         \A h \in Hashes : Scanned(c, Len(c), h) \in H[h]
  PROVE  Anchor(c, c, Len(c), H)
<1>1. Len(c) \in Nat
  OBVIOUS
<1> QED BY <1>1 DEF Anchor

\* The records up to n, in another row.
LEMMA AnchorMoves ==
  ASSUME NEW c \in Seq(Cells), NEW b \in Seq(Cells), NEW n, NEW H, Anchor(c, b, n, H),
         NEW d \in Seq(Cells), NEW a \in Seq(Cells), n <= Len(d), n <= Len(a),
         \A q \in 1 .. n : d[q] = c[q] /\ a[q] = b[q],
         \A r \in {d, a} : \A q \in n + 1 .. Len(r) :
           \/ \E s \in {c, b} : q \in 1 .. Len(s) /\ r[q] = s[q]
           \/ r[q][2] = 1 /\ r[q][1] \in Entries => r[q][1] \in H[HashOf(r[q][1])]
  PROVE  Anchor(d, a, n, H)
<1>1. n \in Nat /\ n \in Offsets(c)
  BY OffsetSteps DEF Anchor
<1>2. Agree(c, d, n)
  BY <1>1 DEF Agree
<1>3. n \in Offsets(d) /\ \A h \in {0} \cup Hashes : Scanned(d, n, h) = Scanned(c, n, h)
  BY <1>2, AgreeIndex
<1>4. \A h \in Hashes : Scanned(d, n, h) \in H[h]
  BY <1>3 DEF Anchor
<1>5. \A q \in 1 .. n : a[q] = d[q]
  BY DEF Anchor
<1>6. ASSUME NEW r \in {d, a}, NEW q \in n + 1 .. Len(r), r[q][2] = 1, r[q][1] \in Entries
      PROVE  r[q][1] \in H[HashOf(r[q][1])]
  <2>1. CASE \E s \in {c, b} : q \in 1 .. Len(s) /\ r[q] = s[q]
    <3>1. PICK s \in {c, b} : q \in 1 .. Len(s) /\ r[q] = s[q]
      BY <2>1
    <3>2. q \in n + 1 .. Len(s)
      BY <1>1, <3>1
    <3> QED BY <1>6, <3>1, <3>2 DEF Anchor
  <2> QED BY <1>6, <2>1
<1> QED BY <1>3, <1>4, <1>5, <1>6 DEF Anchor

\* A survivor has of each cell what was written, what was synced, or none of an entry.
LEMMA SurvivorIs ==
  ASSUME TypeOK, NEW i \in Inodes, NEW s \in Survivors(i),
         NEW new, new = file[i].cells, NEW old, old = disk[i].cells
  PROVE  /\ s \in Files /\ s.cells \in Seq(Cells)
         /\ s.hdr \in {file[i].hdr, disk[i].hdr} \/ file[i].hdr # disk[i].hdr
         /\ Len(new) <= Len(s.cells) \/ Len(old) <= Len(s.cells)
         /\ Len(s.cells) <= Len(new) \/ Len(s.cells) <= Len(old)
         /\ \A j \in 1 .. Len(s.cells) :
              \/ j <= Len(new) /\ s.cells[j] = new[j]
              \/ j <= Len(old) /\ s.cells[j] = old[j]
              \/ Len(old) < j /\ s.cells[j] \in {<<Zeros, 1>>, Torn}
<1> DEFINE shorter == Min({Len(new), Len(old)})
           longer  == Max({Len(new), Len(old)})
           Cell(j, from, to, z) ==
             IF j <= Len(new) /\ j \notin from .. to THEN new[j]
             ELSE IF j <= Len(old) THEN old[j] ELSE z
           row(n, from, to, z) == [j \in 1 .. n |-> Cell(j, from, to, z)]
           rows == {row(n, from, to, z) :
                      n \in shorter .. longer, from \in 1 .. longer + 1, to \in 0 .. longer,
                      z \in {<<Zeros, 1>>, Torn}}
           hdrs == {file[i].hdr, disk[i].hdr} \cup (IF file[i].hdr = disk[i].hdr THEN {} ELSE {"torn"})
<1>1. s \in Files /\ s.cells \in Seq(Cells) /\ new \in Seq(Cells) /\ old \in Seq(Cells)
  BY SurvivorsType, FileType DEF Files
<1>2. s.hdr \in hdrs /\ s.cells \in rows
  <2>1. Survivors(i) = {g \in [hdr : hdrs, cells : rows] : g.hdr = "none" => g.cells = <<>>}
    BY DEF Survivors
  <2> HIDE DEF row, rows, hdrs, shorter, longer
  <2> QED BY <2>1
<1> HIDE DEF row, hdrs, shorter, longer
<1>3. PICK n \in shorter .. longer, from \in 1 .. longer + 1, to \in 0 .. longer,
           z \in {<<Zeros, 1>>, Torn} : s.cells = row(n, from, to, z)
  BY <1>2
<1>4. shorter \in {Len(new), Len(old)} /\ longer \in {Len(new), Len(old)}
  <2>1. Len(new) \in Nat /\ Len(old) \in Nat
    BY <1>1
  <2> QED BY <2>1, Ends DEF shorter, longer
<1>5. Len(s.cells) = n /\ n \in Nat
  <2>1. shorter \in Nat /\ longer \in Nat
    BY <1>1, <1>4
  <2>2. n \in Nat
    BY <2>1
  <2> QED BY <1>3, <2>2 DEF row
<1>6. /\ Len(new) <= n \/ Len(old) <= n
      /\ n <= Len(new) \/ n <= Len(old)
  BY <1>1, <1>4, <1>5
<1>7. ASSUME NEW j \in 1 .. n
      PROVE  \/ j <= Len(new) /\ s.cells[j] = new[j]
             \/ j <= Len(old) /\ s.cells[j] = old[j]
             \/ Len(old) < j /\ s.cells[j] \in {<<Zeros, 1>>, Torn}
  <2>1. s.cells[j] = Cell(j, from, to, z)
    BY <1>3 DEF row
  <2>2. Len(old) \in Nat /\ j \in Nat
    BY <1>1, <1>5
  <2> QED BY <2>1, <2>2
<1>8. s.hdr \in {file[i].hdr, disk[i].hdr} \/ file[i].hdr # disk[i].hdr
  BY <1>2 DEF hdrs
<1> QED BY <1>1, <1>5, <1>6, <1>7, <1>8

\* What a power failure leaves of a safe file is what was hoped for.
LEMMA SurvivorSafe ==
  ASSUME TypeOK, NEW i \in Inodes, Safe(file[i], disk[i], hope), NEW s \in Survivors(i),
         NEW h \in Hashes
  PROVE  Replayed(s)[h] \in hope[h]
<1> DEFINE new == file[i].cells
           old == disk[i].cells
           row == s.cells
<1>1. file[i] \in Files /\ disk[i] \in Files /\ new \in Seq(Cells) /\ old \in Seq(Cells)
  BY FileType
<1>2. /\ s \in Files /\ row \in Seq(Cells)
      /\ s.hdr \in {file[i].hdr, disk[i].hdr} \/ file[i].hdr # disk[i].hdr
      /\ Len(new) <= Len(row) \/ Len(old) <= Len(row)
      /\ Len(row) <= Len(new) \/ Len(row) <= Len(old)
      /\ \A j \in 1 .. Len(row) :
           \/ j <= Len(new) /\ row[j] = new[j]
           \/ j <= Len(old) /\ row[j] = old[j]
           \/ Len(old) < j /\ row[j] \in {<<Zeros, 1>>, Torn}
  BY SurvivorIs
<1>3. Len(new) \in Nat /\ Len(old) \in Nat /\ Len(row) \in Nat
  BY <1>1, <1>2
<1>4. CASE s.hdr # "ok"
  <2>1. file[i].hdr # "ok" \/ disk[i].hdr # "ok"
    BY <1>2, <1>4
  <2> QED BY <1>2, <1>4, <2>1, ReplayedIs DEF Safe
<1>5. CASE s.hdr = "ok" /\ Clean(file[i], disk[i], hope)
  <2>1. new = old /\ s.hdr = file[i].hdr
    BY <1>2, <1>5 DEF Clean
  <2>2. row = new
    <3>1. Len(row) = Len(new) /\ \A j \in 1 .. Len(row) : row[j] = new[j]
      <4> HIDE DEF row, new, old
      <4> QED BY <1>2, <1>3, <2>1
    <3> HIDE DEF row, new, old
    <3> QED BY <1>1, <1>2, <3>1
  <2>3. Replayed(s)[h] = Replayed(file[i])[h]
    BY <1>1, <1>2, <2>1, <2>2, ReplayedIs
  <2> QED BY <1>5, <2>3 DEF Clean
<1>6. CASE s.hdr = "ok" /\ \E n \in Nat : Anchor(new, old, n, hope)
  <2>1. PICK n \in Nat : Anchor(new, old, n, hope)
    BY <1>6
  <2> HIDE DEF row, new, old
  <2>2. n \in Offsets(new) /\ n <= Len(old) /\ n <= Len(new) /\ \A q \in 1 .. n : old[q] = new[q]
    BY <1>1, <2>1, OffsetSteps DEF Anchor
  <2>3. Agree(new, row, n)
    <3>1. n <= Len(row)
      BY <1>2, <1>3, <2>2
    <3>2. \A q \in 1 .. n : row[q] = new[q]
      BY <1>2, <1>3, <2>2, <3>1
    <3> QED BY <2>2, <3>1, <3>2 DEF Agree
  <2>4. n \in Offsets(row) /\ Scanned(row, n, h) = Scanned(new, n, h)
    <3>1. n \in Offsets(row) /\ \A k \in {0} \cup Hashes : Scanned(row, n, k) = Scanned(new, n, k)
      <4>1. row \in Seq(Cells)
        BY <1>2
      <4> QED BY <1>1, <2>3, <4>1, AgreeIndex
    <3> QED BY <3>1
  <2>5. Scanned(row, n, h) \in hope[h]
    BY <2>1, <2>4 DEF Anchor
  <2>6. ASSUME NEW m \in Offsets(row), n <= m, EntryAt(row, m) \in Entries, HashOf(EntryAt(row, m)) = h
        PROVE  EntryAt(row, m) \in hope[h]
    <3> DEFINE e == EntryAt(row, m)
    <3>1. m \in Nat /\ e \in Recs /\ IsRec(row, m, e)
      BY <1>2, <2>6, OffsetSteps, EntrySize, RecsType
    <3>2. e[2] \in Nat /\ e[2] >= 1
      BY <3>1, RecsType
    <3> HIDE DEF e
    <3>3. row[m + 1] = <<e, 1>> /\ m + 1 <= Len(row)
      <4>1. 1 \in 1 .. e[2]
        BY <3>2
      <4> QED BY <1>3, <3>1, <3>2, <4>1 DEF IsRec
    <3>4. m + 1 \in 1 .. Len(row) /\ m + 1 \in n + 1 .. Len(row)
      BY <1>3, <2>6, <3>1, <3>3
    <3>5. e # Zeros /\ e \in Entries /\ HashOf(e) = h
      <4>1. e \in Entries /\ HashOf(e) = h
        BY <2>6 DEF e
      <4> QED BY <4>1, RecsType DEF Zeros
    <3>6. row[m + 1] \notin {<<Zeros, 1>>, Torn}
      BY <3>3, <3>5 DEF Torn
    <3>7. CASE m + 1 <= Len(new) /\ row[m + 1] = new[m + 1]
      <4>1. m + 1 \in n + 1 .. Len(new)
        BY <1>3, <3>4, <3>7
      <4> QED BY <2>1, <3>3, <3>5, <3>7, <4>1 DEF Anchor, e
    <3>8. CASE m + 1 <= Len(old) /\ row[m + 1] = old[m + 1]
      <4>1. m + 1 \in n + 1 .. Len(old)
        BY <1>3, <3>4, <3>8
      <4> QED BY <2>1, <3>3, <3>5, <3>8, <4>1 DEF Anchor, e
    <3> QED BY <1>2, <3>4, <3>6, <3>7, <3>8
  <2>7. \A m \in Offsets(row) :
          (n <= m /\ EntryAt(row, m) \in Entries /\ HashOf(EntryAt(row, m)) = h)
            => EntryAt(row, m) \in hope[h]
    BY <2>6
  <2>8. Scanned(row, Len(row), h) \in hope[h]
    BY <1>2, <2>4, <2>5, <2>7, NewestIn
  <2> QED BY <1>2, <1>6, <2>8, ReplayedIs DEF row
<1> QED BY <1>4, <1>5, <1>6 DEF Safe

-----------------------------------------------------------------------------
\* Steps that change no file, and hope for no less.
LEMMA HopeFrame ==
  ASSUME TypeOK, TypeOK', HopeInv, UNCHANGED fileVars,
         \A h \in Hashes : hope[h] \subseteq hope'[h] /\ Promised(h)' \subseteq hope'[h],
         \A p \in Open' : p \in Open /\ fileLen <= fileLen'
  PROVE  HopeInv'
<1>1. UNCHANGED <<name, durableName, file, disk>>
  BY DEF fileVars
<1>2. Safe(file[name], disk[name], hope') /\ Safe(file[durableName], disk[durableName], hope')
  BY SafeMore DEF HopeInv
<1>3. ASSUME NEW p \in Open' PROVE Anchored'
  <2>1. PICK n \in Nat : n <= fileLen /\ Anchor(file[name].cells, disk[name].cells, n, hope)
    BY <1>3 DEF HopeInv, Anchored
  <2>2. Anchor(file[name].cells, disk[name].cells, n, hope')
    BY <2>1, AnchorMore
  <2>3. n <= fileLen'
    BY <1>3, <2>1 DEF TypeOK
  <2> QED BY <1>1, <2>2, <2>3 DEF Anchored
<1> QED BY <1>1, <1>2, <1>3 DEF HopeInv

\* A sync: the file is as it is promised to be, up to file_len and behind it.
LEMMA SyncedHope ==
  ASSUME HistoryInv, HopeInv, NEW p \in Open, Synced(name), UNCHANGED <<name, file, acked, doubt>>,
         \A q \in Open' : fileLen' = fileLen
  PROVE  HopeInv'
<1> DEFINE c == file[name].cells
<1>1. LayoutInv /\ TypeOK /\ HeaderInv /\ Kept(p) /\ Layout(p) /\ name \in Inodes
      /\ p \in Procs
  BY HasOpen DEF HistoryInv, LayoutInv
<1>2. /\ disk' = [disk EXCEPT ![name] = file[name]] /\ durableName' = name
      /\ hope' = [h \in Hashes |-> Promised(h)]
  BY DEF Synced, Promised
<1>3. disk'[name] = file[name] /\ file[name].hdr = "ok"
  BY <1>1, <1>2 DEF TypeOK, HeaderInv
<1>4. c \in Seq(Cells) /\ fileLen \in Offsets(c) /\ fileLen \in Nat /\ fileLen <= Len(c)
  BY <1>1, HasOpen, OffsetSteps DEF Layout, TypeOK
<1>5. Behind(c, fileLen, Doubtful(p)) /\ \A h \in Hashes : Scanned(c, fileLen, h) \in hope'[h]
  BY <1>1, <1>2 DEF Kept, Found
<1>6. ASSUME NEW q \in fileLen + 1 .. Len(c), c[q][2] = 1, c[q][1] \in Entries
      PROVE  c[q][1] \in hope'[HashOf(c[q][1])]
  <2>1. q - 1 <= fileLen /\ (q - 1 = fileLen => c[q][1] \in Doubtful(p))
    BY <1>5, <1>6 DEF Behind
  <2>2. q - 1 = fileLen
    BY <1>4, <2>1
  <2>3. c[q][1] \in Promised(HashOf(c[q][1]))
    BY <2>1, <2>2, DoubtfulIs
  <2>4. HashOf(c[q][1]) \in Hashes
    BY <1>6, RecsType
  <2> QED BY <1>2, <2>3, <2>4
<1>7. Anchor(c, c, fileLen, hope')
  <2> HIDE DEF c
  <2> QED BY <1>4, <1>5, <1>6 DEF Anchor
<1>8. Safe(file[name], disk'[name], hope')
  BY <1>3, <1>4, <1>7 DEF Safe
<1>9. \A q \in Open' : Anchored'
  BY <1>3, <1>4, <1>7 DEF Anchored
<1>10. \A h \in Hashes : Promised(h)' \subseteq hope'[h]
  BY <1>2 DEF Promised
<1> QED BY <1>2, <1>8, <1>9, <1>10 DEF HopeInv

LEMMA EmptyAnchor ==
  ASSUME NEW H, \A h \in Hashes : None \in H[h]
  PROVE  Anchor(<<>>, <<>>, 0, H)
<1>1. Len(<<>>) = 0
  OBVIOUS
<1>2. 0 \in Offsets(<<>>) /\ \A h \in Hashes : Scanned(<<>>, 0, h) = None
  BY EmptyRow
<1> QED BY <1>1, <1>2 DEF Anchor

\* A file that gets its header.
LEMMA HeaderSafe ==
  ASSUME NEW f \in Files, NEW g, NEW H, Safe(f, g, H), f.hdr = "none" => f.cells = <<>>,
         NEW e \in Files, e = f \/ (f.hdr = "none" /\ e.cells = f.cells)
  PROVE  Safe(e, g, H)
<1>1. CASE e = f
  BY <1>1
<1>2. CASE f.hdr = "none" /\ e.cells = f.cells
  <2>1. f.cells = <<>> /\ \A h \in Hashes : None \in H[h]
    BY <1>2 DEF Safe
  <2>2. CASE Clean(f, g, H)
    <3>1. Anchor(e.cells, g.cells, 0, H)
      BY <1>2, <2>1, <2>2, EmptyAnchor DEF Clean
    <3> QED BY <2>1, <3>1 DEF Safe
  <2>3. CASE \E n \in Nat : Anchor(f.cells, g.cells, n, H)
    BY <1>2, <2>1, <2>3 DEF Safe
  <2> QED BY <2>2, <2>3 DEF Safe
<1> QED BY <1>1, <1>2

LEMMA HeaderHope ==
  ASSUME HistoryInv, HistoryInv', HopeInv, NEW p \in Procs, Header(p) \/ HeaderFails(p)
  PROVE  HopeInv'
<1>1. TypeOK /\ Alone /\ HeaderInv /\ TypeOK'
  BY DEF HistoryInv, LayoutInv
<1>2. pc[p] = "header" /\ UNCHANGED <<name, durableName, disk, acked, doubt, hope>>
  BY DEF Header, HeaderFails, Goto, history
<1>3. fd[p] = name
  BY <1>1, <1>2 DEF Alone
<1>4. \/ file[name].hdr # "torn" /\ file' = [file EXCEPT ![name].hdr = "ok"]
      \/ file' = [file EXCEPT ![name].hdr = IF @ = "none" THEN "torn" ELSE @]
  BY <1>3 DEF Header, HeaderFails
<1>5. file[name] \in Files /\ file'[name] \in Files /\ name \in Inodes
      /\ file[name] = [hdr |-> file[name].hdr, cells |-> file[name].cells]
      /\ file[name].hdr \in {"none", "torn", "ok"}
  BY <1>1, <1>2, FileType DEF TypeOK, Files
<1>6. /\ \A i \in Inodes : i # name => file'[i] = file[i]
      /\ file'[name] = file[name] \/ (file[name].hdr = "none" /\ file'[name].cells = file[name].cells)
  <2> DEFINE f == file[name]
  <2>1. \A i \in Inodes : i # name => file'[i] = file[i]
    BY <1>1, <1>4 DEF TypeOK
  <2>2. ASSUME NEW s
        PROVE  /\ [f EXCEPT !.hdr = s].cells = f.cells
               /\ f.hdr = s => [f EXCEPT !.hdr = s] = f
    <3>1. f = [hdr |-> f.hdr, cells |-> f.cells]
      BY <1>5
    <3> HIDE DEF f
    <3>2. [f EXCEPT !.hdr = s] = [hdr |-> s, cells |-> f.cells]
      BY <3>1
    <3> QED BY <3>1, <3>2
  <2>3. \/ file[name].hdr # "torn" /\ file'[name] = [f EXCEPT !.hdr = "ok"]
        \/ file'[name] = [f EXCEPT !.hdr = IF f.hdr = "none" THEN "torn" ELSE f.hdr]
    BY <1>1, <1>4, <1>5 DEF TypeOK
  <2>4. f.hdr \in {"none", "torn", "ok"}
    BY <1>5
  <2> HIDE DEF f
  <2>5. file'[name] = f \/ (f.hdr = "none" /\ file'[name].cells = f.cells)
    BY <2>2, <2>3, <2>4 DEF f
  <2> QED BY <2>1, <2>5 DEF f
<1>7. Safe(file'[name], disk[name], hope)
  <2>1. Safe(file[name], disk[name], hope) /\ (file[name].hdr = "none" => file[name].cells = <<>>)
    BY <1>1, <1>5 DEF HopeInv, HeaderInv
  <2> QED BY <1>5, <1>6, <2>1, HeaderSafe
<1>8. Safe(file'[durableName], disk[durableName], hope)
  BY <1>1, <1>6, <1>7 DEF HopeInv, TypeOK
<1>9. \A q \in Procs : q \notin Open'
  <2>1. \A q \in Procs : q # p => pc[q] \in {"closed", "lock"}
    BY <1>1, <1>2, OthersOutside
  <2>2. \E s \in {"scan", "closed"} : pc' = [pc EXCEPT ![p] = s]
    BY DEF Header, HeaderFails, Goto, Leave
  <2> QED BY <1>1, <2>1, <2>2 DEF Open, TypeOK
<1> QED BY <1>2, <1>7, <1>8, <1>9 DEF HopeInv, Promised, Open

LEMMA ScanHope ==
  ASSUME HistoryInv, HopeInv, ReadFaults = 0, NEW p \in Procs, Scan(p)
  PROVE  HopeInv'
<1> DEFINE c == file[name].cells
           b == disk[name].cells
           n == fileLen'
           d == Truncated(c, n)
           a == Truncated(b, n)
<1>1. pc[p] = "scan" /\ UNCHANGED <<name, durableName, acked, doubt, hope>>
  BY DEF Scan, Goto, history
<1>2. LayoutInv /\ TypeOK /\ HeaderInv
  BY DEF HistoryInv, LayoutInv
<1>3. /\ name \in Inodes /\ c \in Seq(Cells) /\ n \in Offsets(c) /\ n \in Nat /\ n <= Len(c)
      /\ \A m \in Offsets(c) : m <= n
      /\ file' = [file EXCEPT ![name].cells = d]
      /\ disk' = [disk EXCEPT ![name].cells = a]
      /\ Agree(c, d, n) /\ d \in Seq(Cells) /\ Len(d) = n
  BY <1>2, ScanRow
<1>4. b \in Seq(Cells) /\ file[name] \in Files /\ file[name].hdr = "ok"
  BY <1>1, <1>2, <1>3, FileType DEF HeaderInv
<1>5. /\ a \in Seq(Cells) /\ Len(a) <= n /\ Len(a) <= Len(b)
      /\ n <= Len(b) => Len(a) = n
      /\ Len(b) <= n => a = b
      /\ \A q \in 1 .. Len(a) : a[q] = b[q]
  BY <1>3, <1>4, TruncatedRow
<1>6. \A q \in 1 .. Len(d) : d[q] = c[q]
  BY <1>3 DEF Agree
<1> HIDE DEF d, a
<1>7. /\ file'[name] = [file[name] EXCEPT !.cells = d] /\ file'[name].cells = d
      /\ disk'[name] = [disk[name] EXCEPT !.cells = a] /\ disk'[name].cells = a
      /\ file'[name].hdr = file[name].hdr /\ disk'[name].hdr = disk[name].hdr
  BY <1>2, <1>3 DEF TypeOK, Files
<1>8. \A i \in Inodes : i # name => file'[i] = file[i] /\ disk'[i] = disk[i]
  BY <1>2, <1>3 DEF TypeOK
<1>9. \E m \in Nat : m <= n /\ Anchor(d, a, m, hope)
  <2>1. CASE Clean(file[name], disk[name], hope)
    <3>1. c = b /\ d = a
      BY <2>1 DEF Clean, d, a
    <3>2. EntryAt(c, n) = None
      <4> SUFFICES ASSUME EntryAt(c, n) # None PROVE FALSE
        OBVIOUS
      <4>1. End(c, n) \in Offsets(c) /\ n < End(c, n) /\ End(c, n) \in Nat
        BY <1>3, OffsetSteps, EntrySize
      <4>2. \A m \in Offsets(c) : m <= n
        BY <1>3
      <4> HIDE DEF c, n
      <4> QED BY <1>3, <4>1, <4>2
    <3>3. \A h \in Hashes : Scanned(c, Len(c), h) \in hope[h]
      BY <1>4, <2>1, ReplayedIs DEF Clean
    <3> HIDE DEF c, b
    <3>4. n \in Offsets(d) /\ \A h \in Hashes : Scanned(d, n, h) = Scanned(c, n, h)
      BY <1>3, AgreeIndex
    <3>5. \A h \in Hashes : Scanned(c, n, h) = Scanned(c, Len(c), h)
      BY <1>3, <3>2, LastOffset
    <3>6. Anchor(d, d, Len(d), hope)
      BY <1>3, <3>3, <3>4, <3>5, AnchorEnd
    <3> QED BY <1>3, <3>1, <3>6
  <2>2. CASE \E m \in Nat : Anchor(c, b, m, hope)
    <3>1. PICK m \in Nat : Anchor(c, b, m, hope)
      BY <2>2
    <3> HIDE DEF c, b
    <3>2. m <= n /\ m <= Len(b)
      BY <1>3, <3>1 DEF Anchor
    <3>3. m <= Len(d) /\ m <= Len(a)
      BY <1>3, <1>4, <1>5, <3>2
    <3>4. \A q \in 1 .. m : d[q] = c[q] /\ a[q] = b[q]
      BY <1>3, <1>5, <1>6, <3>3
    <3>5. \A r \in {d, a} : \A q \in m + 1 .. Len(r) : \E s \in {c, b} : q \in 1 .. Len(s) /\ r[q] = s[q]
      <4>1. ASSUME NEW q \in m + 1 .. Len(d) PROVE q \in 1 .. Len(c) /\ d[q] = c[q]
        BY <1>3, <1>6
      <4>2. ASSUME NEW q \in m + 1 .. Len(a) PROVE q \in 1 .. Len(b) /\ a[q] = b[q]
        BY <1>4, <1>5
      <4> QED BY <4>1, <4>2
    <3>6. \A r \in {d, a} : \A q \in m + 1 .. Len(r) :
             \/ \E s \in {c, b} : q \in 1 .. Len(s) /\ r[q] = s[q]
             \/ r[q][2] = 1 /\ r[q][1] \in Entries => r[q][1] \in hope[HashOf(r[q][1])]
      BY <3>5
    <3>7. c \in Seq(Cells) /\ b \in Seq(Cells) /\ d \in Seq(Cells) /\ a \in Seq(Cells)
      BY <1>3, <1>4, <1>5
    <3>8. Anchor(d, a, m, hope)
      BY <3>1, <3>3, <3>4, <3>6, <3>7, AnchorMoves
    <3> QED BY <3>2, <3>8
  <2> QED BY <2>1, <2>2 DEF HopeInv, Safe
<1>10. Safe(file'[name], disk'[name], hope)
  BY <1>7, <1>9 DEF HopeInv, Safe
<1>11. Safe(file'[durableName], disk'[durableName], hope)
  BY <1>2, <1>8, <1>10 DEF HopeInv, TypeOK
<1>12. Anchored'
  BY <1>1, <1>7, <1>9 DEF Anchored
<1> QED BY <1>1, <1>10, <1>11, <1>12 DEF HopeInv, Promised

LEMMA WriteCellHope ==
  ASSUME HistoryInv, HopeInv, NEW p \in Procs, WriteCell(p)
  PROVE  HopeInv'
<1> DEFINE c == file[name].cells
           b == disk[name].cells
           d == file'[name].cells
           k == fileLen + written + 1
<1>1. pc[p] = "write" /\ UNCHANGED <<name, durableName, disk, fileLen, acked, doubt, hope>>
  BY DEF WriteCell, cacheVars, history
<1>2. p \in Open /\ LayoutInv /\ TypeOK /\ HeaderInv /\ Kept(p)
  BY <1>1 DEF HistoryInv, LayoutInv, Open
<1>3. /\ c \in Seq(Cells) /\ d \in Seq(Cells) /\ Agree(c, d, fileLen)
      /\ file' = [file EXCEPT ![name].cells = d]
      /\ \A q \in 1 .. Len(d) : q # k => q <= Len(c) /\ d[q] = c[q]
      /\ d[k] = <<cur, written + 1>>
      /\ fileLen \in Nat /\ written \in Nat /\ cur \in Entries
  <2>1. WroteCell(c, d)
    BY <1>2, WriteCellRow
  <2> QED BY <2>1 DEF WroteCell
<1>4. b \in Seq(Cells) /\ name \in Inodes
  BY <1>2, FileType DEF TypeOK
<1>5. /\ file'[name].hdr = file[name].hdr
      /\ \A i \in Inodes : i # name => file'[i] = file[i]
  BY <1>2, <1>3, <1>4 DEF TypeOK, Files
<1>6. cur \in hope[HashOf(cur)]
  <2>1. cur \in doubt[HashOf(cur)] /\ HashOf(cur) \in Hashes
    BY <1>1, <1>2, <1>3, RecsType DEF Kept, Pending, Inserting
  <2> QED BY <2>1 DEF HopeInv, Promised
<1>7. PICK n \in Nat : n <= fileLen /\ Anchor(c, b, n, hope)
  BY <1>2 DEF HopeInv, Anchored
<1> HIDE DEF c, b, d, k
<1>8. Anchor(d, b, n, hope)
  <2>1. n <= Len(d) /\ n <= Len(b) /\ \A q \in 1 .. n : d[q] = c[q]
    BY <1>3, <1>7 DEF Agree, Anchor
  <2>2. ASSUME NEW q \in n + 1 .. Len(d)
        PROVE  \/ q \in 1 .. Len(c) /\ d[q] = c[q]
               \/ d[q][2] = 1 /\ d[q][1] \in Entries => d[q][1] \in hope[HashOf(d[q][1])]
    <3>1. q \in 1 .. Len(d)
      BY <1>3
    <3> QED BY <1>3, <1>6, <3>1
  <2>3. \A q \in n + 1 .. Len(b) : q \in 1 .. Len(b) /\ b[q] = b[q]
    BY <1>4
  <2>4. \A r \in {d, b} : \A q \in n + 1 .. Len(r) :
           \/ \E s \in {c, b} : q \in 1 .. Len(s) /\ r[q] = s[q]
           \/ r[q][2] = 1 /\ r[q][1] \in Entries => r[q][1] \in hope[HashOf(r[q][1])]
    BY <2>2, <2>3
  <2> QED BY <1>3, <1>4, <1>7, <2>1, <2>4, AnchorMoves
<1>9. Safe(file'[name], disk[name], hope)
  BY <1>5, <1>8 DEF HopeInv, Safe, b, d
<1>10. Safe(file'[durableName], disk[durableName], hope)
  BY <1>2, <1>5, <1>9 DEF HopeInv, TypeOK
<1>11. Anchored'
  BY <1>1, <1>7, <1>8 DEF Anchored, b, d
<1> QED BY <1>1, <1>9, <1>10, <1>11 DEF HopeInv, Promised

LEMMA CompactHope ==
  ASSUME HistoryInv, HopeInv, NEW p \in Open, Compact(p), UNCHANGED hope,
         \A h \in Hashes : Promised(h)' \subseteq hope[h]
  PROVE  HopeInv'
<1> DEFINE d == file'[name'].cells
<1>1. LayoutInv /\ TypeOK
  BY DEF HistoryInv, LayoutInv
<1>2. PICK i \in Inodes \ {name, durableName} : \E r \in Seq(Cells) :
           /\ Len(r) \in Offsets(r)
           /\ file' = [file EXCEPT ![i] = [hdr |-> "ok", cells |-> r]]
           /\ disk' = [disk EXCEPT ![i] = [hdr |-> "ok", cells |-> r]]
           /\ fileLen' = Len(r) /\ name' = i /\ durableName' = durableName
  BY <1>1, CompactRow
<1>3. PICK r \in Seq(Cells) :
           /\ Len(r) \in Offsets(r)
           /\ file' = [file EXCEPT ![i] = [hdr |-> "ok", cells |-> r]]
           /\ disk' = [disk EXCEPT ![i] = [hdr |-> "ok", cells |-> r]]
           /\ fileLen' = Len(r) /\ name' = i /\ durableName' = durableName
  BY <1>2
<1>4. /\ file'[i] = [hdr |-> "ok", cells |-> r] /\ disk'[i] = [hdr |-> "ok", cells |-> r]
      /\ file'[durableName] = file[durableName] /\ disk'[durableName] = disk[durableName]
  BY <1>1, <1>3 DEF TypeOK
<1>5. d = r /\ Len(r) \in Nat
  BY <1>3, <1>4
<1>6. \A h \in Hashes : Scanned(r, Len(r), h) \in hope[h]
  <2>1. \A h \in Hashes : Scanned(d, fileLen', h) \in Promised(h)
    BY CompactKept
  <2> HIDE DEF d
  <2> QED BY <1>3, <1>5, <2>1 DEF HopeInv
<1>7. Anchor(r, r, Len(r), hope)
  BY <1>3, <1>6, AnchorEnd
<1>8. Safe(file'[i], disk'[i], hope)
  BY <1>4, <1>5, <1>7 DEF Safe
<1>9. Anchored'
  BY <1>3, <1>4, <1>5, <1>7 DEF Anchored
<1> QED BY <1>3, <1>4, <1>8, <1>9 DEF HopeInv

LEMMA PowerFailureHope ==
  ASSUME HistoryInv, PowerFailure
  PROVE  HopeInv'
<1>1. PICK i \in {durableName, name} : \E f \in Survivors(i) :
         /\ name' = i /\ durableName' = i
         /\ file' = [[j \in Inodes |-> NoFile] EXCEPT ![i] = f]
         /\ disk' = file'
         /\ acked' = Replayed(f)
  BY DEF PowerFailure
<1>2. PICK f \in Survivors(i) :
         /\ name' = i /\ durableName' = i
         /\ file' = [[j \in Inodes |-> NoFile] EXCEPT ![i] = f]
         /\ disk' = file'
         /\ acked' = Replayed(f)
  BY <1>1
<1>3. i \in Inodes /\ f \in Files
  BY SurvivorsType DEF HistoryInv, LayoutInv, TypeOK
<1>4. file'[i] = f /\ disk'[i] = f
  BY <1>2, <1>3
<1>5. /\ hope' = [h \in Hashes |-> {acked'[h]}]
      /\ doubt' = [h \in Hashes |-> {}]
      /\ \A q \in Procs : pc'[q] = "closed"
  BY DEF PowerFailure
<1>6. \A h \in Hashes : hope'[h] = {Replayed(f)[h]} /\ Promised(h)' = {Replayed(f)[h]}
  BY <1>2, <1>5 DEF Promised
<1>7. f.hdr # "ok" => \A h \in Hashes : Replayed(f)[h] = None
  BY <1>3, ReplayedIs
<1>8. Safe(f, f, hope')
  BY <1>6, <1>7 DEF Safe, Clean
<1> QED BY <1>2, <1>4, <1>5, <1>6, <1>8 DEF HopeInv, Open

\* The steps that change no file.
LEMMA QuietHope ==
  ASSUME HistoryInv, HistoryInv', HopeInv, UNCHANGED fileVars, UNCHANGED <<acked, doubt, hope>>,
         \A p \in Open' : p \in Open /\ fileLen <= fileLen'
  PROVE  HopeInv'
<1>1. TypeOK /\ TypeOK'
  BY DEF HistoryInv, LayoutInv
<1>2. \A h \in Hashes : hope[h] \subseteq hope'[h] /\ Promised(h)' \subseteq hope'[h]
  BY DEF HopeInv, Promised
<1> QED BY <1>1, <1>2, HopeFrame

LEMMA WaitsHope ==
  ASSUME HistoryInv, HistoryInv', HopeInv, NEW p \in Procs,
         \/ CallOpen(p) \/ TakeLock(p) \/ OpenFile(p) \/ BadHeader(p) \/ ScanFails(p) \/ Crash(p)
  PROVE  HopeInv'
<1>1. UNCHANGED fileVars /\ UNCHANGED <<acked, doubt, hope>>
  BY DEF CallOpen, TakeLock, OpenFile, BadHeader, ScanFails, Crash, history
<1>2. TypeOK /\ Alone
  BY DEF HistoryInv, LayoutInv
<1>3. \E s \in {"lock", "open", "header", "closed"} : pc' = [pc EXCEPT ![p] = s]
  BY DEF CallOpen, TakeLock, OpenFile, BadHeader, ScanFails, Crash, Goto, Leave
<1>4. \A q \in Open' : q \in Open /\ q # p
  BY <1>2, <1>3 DEF Open, TypeOK
<1>5. ASSUME NEW q \in Open' PROVE fileLen' = fileLen
  <2>1. lock = q /\ lock # p
    BY <1>2, <1>4 DEF Alone, Open
  <2> QED BY <2>1 DEF CallOpen, TakeLock, OpenFile, BadHeader, ScanFails, Crash, Leave, cacheVars
<1>6. \A q \in Open' : q \in Open /\ fileLen <= fileLen'
  BY <1>2, <1>4, <1>5 DEF TypeOK
<1> QED BY <1>1, <1>6, QuietHope

LEMMA CloseHope ==
  ASSUME HistoryInv, HistoryInv', HopeInv, NEW p \in Procs, Close(p)
  PROVE  HopeInv'
<1>1. pc[p] = "ready" /\ p \in Open
  BY DEF Close, Open
<1>2. TypeOK /\ Alone /\ fd[p] = name
  BY <1>1, HasOpen DEF HistoryInv, LayoutInv
<1>3. \A q \in Procs : q \notin Open'
  BY <1>1, <1>2, OthersOutside DEF Close, Leave, Open, TypeOK
<1>4. CASE Synced(name) /\ UNCHANGED <<name, file, acked, doubt>>
  BY <1>1, <1>3, <1>4, SyncedHope DEF Open
<1>5. CASE UNCHANGED fileVars /\ UNCHANGED history
  BY <1>3, <1>5, QuietHope DEF Open, history
<1> QED BY <1>2, <1>4, <1>5 DEF Close

LEMMA WorksHope ==
  ASSUME HistoryInv, HistoryInv', HopeInv, NEW p \in Procs,
         \/ \E k \in Keys : Lookup(p, k)
         \/ IndexRecord(p) \/ InsertMem(p) \/ WriteFails(p) \/ IndexFails(p) \/ MemFails(p)
         \/ SyncFails(p) \/ CompactFails(p)
  PROVE  HopeInv'
<1> USE DEF fileVars, procVars, curVars, cacheVars, history
<1>1. UNCHANGED fileVars /\ UNCHANGED <<acked, doubt, hope>>
  BY DEF Lookup, IndexRecord, InsertMem, WriteFails, IndexFails, MemFails, SyncFails, CompactFails,
     Fail
<1>2. /\ TypeOK /\ Alone
      /\ p \in Open
  BY DEF HistoryInv, LayoutInv, Lookup, IndexRecord, InsertMem, WriteFails, IndexFails, MemFails,
     SyncFails, CompactFails, Fail, Goto, Open
<1>3. pc' = pc \/ \E s \in {"mem", "sync", "ready"} : pc' = [pc EXCEPT ![p] = s]
  BY DEF Lookup, IndexRecord, InsertMem, WriteFails, IndexFails, MemFails, SyncFails, CompactFails,
     Fail, Goto
<1>4. \A q \in Open' : q \in Open
  BY <1>2, <1>3 DEF Open, TypeOK
<1>5. fileLen' = fileLen \/ (pc[p] = "index" /\ fileLen' = Grown)
  BY DEF Lookup, IndexRecord, InsertMem, WriteFails, IndexFails, MemFails, SyncFails, CompactFails,
     Fail, Goto
<1>6. fileLen <= fileLen'
  <2>1. CASE fileLen' = fileLen
    BY <1>2, <2>1 DEF TypeOK
  <2>2. CASE pc[p] = "index" /\ fileLen' = Grown
    <3>1. fileLen \in Nat /\ Grown = fileLen + cur[2] /\ cur[2] \in Nat
      BY <1>2, <2>2, GrownRow DEF HistoryInv
    <3> QED BY <2>2, <3>1
  <2> QED BY <1>5, <2>1, <2>2
<1> QED BY <1>1, <1>4, <1>6, QuietHope

LEMMA CallInsertHope ==
  ASSUME HistoryInv, HistoryInv', HopeInv, NEW p \in Procs, NEW e \in Entries, CallInsert(p, e)
  PROVE  HopeInv'
<1>1. /\ UNCHANGED fileVars /\ fileLen' = fileLen /\ acked' = acked
      /\ pc[p] = "ready" /\ pc' = [pc EXCEPT ![p] = "write"]
      /\ doubt' = [doubt EXCEPT ![HashOf(e)] = @ \cup {e}]
      /\ hope' = [hope EXCEPT ![HashOf(e)] = @ \cup {e}]
  BY DEF CallInsert, Goto, cacheVars
<1>2. TypeOK /\ TypeOK'
  BY DEF HistoryInv, LayoutInv
<1>3. \A h \in Hashes : hope[h] \subseteq hope'[h] /\ Promised(h)' \subseteq hope'[h]
  <2> SUFFICES ASSUME NEW h \in Hashes
               PROVE  hope[h] \subseteq hope'[h] /\ {acked[h]} \cup doubt'[h] \subseteq hope'[h]
    BY <1>1 DEF Promised
  <2>1. {acked[h]} \cup doubt[h] \subseteq hope[h]
    BY DEF HopeInv, Promised
  <2>2. CASE h = HashOf(e)
    <3>1. doubt'[h] = doubt[h] \cup {e} /\ hope'[h] = hope[h] \cup {e}
      BY <1>1, <1>2, <2>2 DEF TypeOK
    <3> QED BY <2>1, <3>1
  <2>3. CASE h # HashOf(e)
    <3>1. doubt'[h] = doubt[h] /\ hope'[h] = hope[h]
      BY <1>1, <1>2, <2>3 DEF TypeOK
    <3> QED BY <2>1, <3>1
  <2> QED BY <2>2, <2>3
<1>4. fileLen <= fileLen'
  BY <1>1, <1>2 DEF TypeOK
<1>5. \A q \in Open' : q \in Open
  BY <1>1, <1>2 DEF Open, TypeOK
<1> QED BY <1>1, <1>2, <1>3, <1>4, <1>5, HopeFrame

LEMMA SyncHope ==
  ASSUME HistoryInv, HistoryInv', HopeInv, NEW p \in Procs, Sync(p) \/ MaybeSync(p)
  PROVE  HopeInv'
<1>1. p \in Open /\ UNCHANGED <<name, file, acked, doubt, fileLen>>
  BY DEF Sync, MaybeSync, Goto, Open
<1>2. fd[p] = name /\ TypeOK
  BY <1>1, HasOpen DEF HistoryInv, LayoutInv
<1>3. CASE Synced(name)
  BY <1>1, <1>3, SyncedHope
<1>4. CASE UNCHANGED <<disk, durableName, hope>>
  <2>1. pc' = pc \/ pc' = [pc EXCEPT ![p] = "compact"]
    BY DEF Sync, MaybeSync, Goto, procVars
  <2>2. \A q \in Open' : q \in Open /\ fileLen <= fileLen'
    BY <1>1, <1>2, <2>1 DEF Open, TypeOK
  <2> QED BY <1>1, <1>4, <2>2, QuietHope DEF fileVars
<1> QED BY <1>2, <1>3, <1>4 DEF Sync, MaybeSync

\* insert returns: what is promised is less than it was.
LEMMA ReturnHope ==
  ASSUME HistoryInv, HopeInv, NEW p \in Open, Return(p)
  PROVE  UNCHANGED hope /\ \A h \in Hashes : Promised(h)' \subseteq hope[h]
<1>1. /\ acked' = [acked EXCEPT ![HashOf(cur)] = cur]
      /\ doubt' = [doubt EXCEPT ![HashOf(cur)] = {}] /\ hope' = hope
      /\ pc[p] = "compact"
  BY DEF Return
<1>2. TypeOK /\ cur \in doubt[HashOf(cur)]
  BY <1>1 DEF HistoryInv, LayoutInv, Kept, Pending, Inserting
<1>3. ASSUME NEW h \in Hashes PROVE Promised(h)' \subseteq Promised(h)
  <2>1. CASE h = HashOf(cur)
    <3>1. acked'[h] = cur /\ doubt'[h] = {} /\ cur \in doubt[h]
      BY <1>1, <1>2, <2>1 DEF TypeOK
    <3> QED BY <3>1 DEF Promised
  <2>2. CASE h # HashOf(cur)
    <3>1. acked'[h] = acked[h] /\ doubt'[h] = doubt[h]
      BY <1>1, <1>2, <2>2 DEF TypeOK
    <3> QED BY <3>1 DEF Promised
  <2> QED BY <2>1, <2>2
<1> QED BY <1>1, <1>3 DEF HopeInv

LEMMA InsertReturnsHope ==
  ASSUME HistoryInv, HistoryInv', HopeInv, NEW p \in Procs, InsertReturns(p)
  PROVE  HopeInv'
<1>1. Return(p) /\ UNCHANGED fileVars /\ fileLen' = fileLen
  BY DEF InsertReturns
<1>2. p \in Open /\ pc' = [pc EXCEPT ![p] = "ready"]
  BY <1>1 DEF Return, Open
<1>3. UNCHANGED hope /\ \A h \in Hashes : Promised(h)' \subseteq hope[h]
  BY <1>1, <1>2, ReturnHope
<1>4. TypeOK /\ TypeOK'
  BY DEF HistoryInv, LayoutInv
<1>5. \A q \in Open' : q \in Open /\ fileLen <= fileLen'
  BY <1>1, <1>2, <1>4 DEF Open, TypeOK
<1> QED BY <1>1, <1>3, <1>4, <1>5, HopeFrame

LEMMA CompactsHope ==
  ASSUME HistoryInv, HopeInv, NEW p \in Procs, InsertCompacts(p) \/ CompactNow(p)
  PROVE  HopeInv'
<1>1. CASE InsertCompacts(p)
  <2>1. Return(p) /\ Compact(p) /\ p \in Open
    BY <1>1 DEF InsertCompacts, Return, Open
  <2> QED BY <2>1, ReturnHope, CompactHope
<1>2. CASE CompactNow(p)
  <2>1. Compact(p) /\ p \in Open /\ UNCHANGED <<acked, doubt, hope>>
    BY <1>2 DEF CompactNow, Open, history
  <2>2. \A h \in Hashes : Promised(h)' \subseteq hope[h]
    BY <2>1 DEF HopeInv, Promised
  <2> QED BY <2>1, <2>2, CompactHope
<1> QED BY <1>1, <1>2

LEMMA InitHope == Init => HopeInv
<1> SUFFICES ASSUME Init PROVE HopeInv
  OBVIOUS
<1>1. /\ file[name] = NoFile /\ disk[name] = NoFile /\ durableName = name /\ NoFile \in Files
      /\ \A h \in Hashes : hope[h] = {None} /\ Promised(h) = {None}
  BY InitialIndex, LogAssumption DEF Init, Promised
<1>2. \A h \in Hashes : Replayed(NoFile)[h] = None
  BY <1>1, ReplayedIs DEF NoFile
<1>3. Safe(NoFile, NoFile, hope)
  BY <1>1, <1>2 DEF Safe, Clean
<1> QED BY <1>1, <1>3 DEF HopeInv, Init, Open

LEMMA NextHope ==
  ReadFaults = 0 => (HistoryInv /\ HopeInv /\ [Next]_vars => HopeInv')
<1> SUFFICES ASSUME ReadFaults = 0, HistoryInv, HopeInv, [Next]_vars PROVE HopeInv'
  OBVIOUS
<1>1. HistoryInv' /\ TypeOK
  BY NextHistory DEF HistoryInv, LayoutInv
<1>2. CASE UNCHANGED vars \/ Done
  <2>1. UNCHANGED fileVars /\ UNCHANGED <<acked, doubt, hope, fileLen, pc>>
    BY <1>2 DEF Done, vars, procVars, cacheVars, history
  <2>2. \A q \in Open' : q \in Open /\ fileLen <= fileLen'
    BY <1>1, <2>1 DEF Open, TypeOK
  <2> QED BY <1>1, <2>1, <2>2, QuietHope
<1>3. CASE PowerFailure
  BY <1>3, PowerFailureHope
<1>4. ASSUME NEW p \in Procs,
             \/ CallOpen(p) \/ TakeLock(p) \/ OpenFile(p)
             \/ Header(p) \/ BadHeader(p) \/ HeaderFails(p) \/ Scan(p) \/ ScanFails(p) \/ Close(p)
      PROVE  HopeInv'
  BY <1>1, <1>4, WaitsHope, HeaderHope, ScanHope, CloseHope
<1>5. ASSUME NEW p \in Procs, NEW k \in Keys, Lookup(p, k) PROVE HopeInv'
  BY <1>1, <1>5, WorksHope
<1>6. ASSUME NEW p \in Procs, NEW e \in Entries, CallInsert(p, e) PROVE HopeInv'
  BY <1>1, <1>6, CallInsertHope
<1>7. ASSUME NEW p \in Procs,
             \/ WriteCell(p) \/ IndexRecord(p) \/ InsertMem(p) \/ MaybeSync(p)
             \/ InsertReturns(p) \/ InsertCompacts(p)
             \/ WriteFails(p) \/ IndexFails(p) \/ MemFails(p) \/ SyncFails(p) \/ CompactFails(p)
             \/ Sync(p) \/ CompactNow(p) \/ Crash(p)
      PROVE  HopeInv'
  BY <1>1, <1>7, WriteCellHope, WorksHope, SyncHope, InsertReturnsHope, CompactsHope, WaitsHope
<1> QED BY <1>2, <1>3, <1>4, <1>5, <1>6, <1>7 DEF Next

\* What the power takes is counted in power, and nothing else is.
LEMMA PowerCounts == [Next]_vars /\ ~ PowerFailure => power' = power
<1> SUFFICES ASSUME [Next]_vars, ~ PowerFailure PROVE power' = power
  OBVIOUS
<1> USE DEF mishapVars, Mishap
<1>1. CASE UNCHANGED vars \/ Done
  BY <1>1 DEF Done, vars
<1>2. ASSUME NEW p \in Procs,
             \/ CallOpen(p) \/ TakeLock(p) \/ OpenFile(p)
             \/ Header(p) \/ BadHeader(p) \/ HeaderFails(p) \/ Scan(p) \/ ScanFails(p) \/ Close(p)
      PROVE  power' = power
  BY <1>2 DEF CallOpen, TakeLock, OpenFile, Header, BadHeader, HeaderFails, Scan, ScanFails, Close
<1>3. ASSUME NEW p \in Procs,
             \/ \E k \in Keys : Lookup(p, k)
             \/ \E e \in Entries : CallInsert(p, e)
             \/ WriteCell(p) \/ IndexRecord(p) \/ InsertMem(p) \/ MaybeSync(p)
             \/ InsertReturns(p) \/ InsertCompacts(p)
      PROVE  power' = power
  BY <1>3 DEF Lookup, CallInsert, WriteCell, IndexRecord, InsertMem, MaybeSync, InsertReturns,
     InsertCompacts, Return
<1>4. ASSUME NEW p \in Procs,
             \/ WriteFails(p) \/ IndexFails(p) \/ MemFails(p) \/ SyncFails(p) \/ CompactFails(p)
             \/ Sync(p) \/ CompactNow(p) \/ Crash(p)
      PROVE  power' = power
  BY <1>4 DEF WriteFails, IndexFails, MemFails, SyncFails, CompactFails, Fail, Sync, CompactNow,
     Crash
<1> QED BY <1>1, <1>2, <1>3, <1>4 DEF Next

LEMMA PowerSafeStep ==
  HistoryInv /\ HopeInv /\ [Next]_vars => (power' # power => \A h \in Hashes : acked'[h] \in hope[h])
<1> SUFFICES ASSUME HistoryInv, HopeInv, [Next]_vars, power' # power, NEW h \in Hashes
             PROVE  acked'[h] \in hope[h]
  OBVIOUS
<1>1. PowerFailure
  BY PowerCounts
<1>2. PICK i \in {durableName, name} : \E f \in Survivors(i) : acked' = Replayed(f)
  BY <1>1 DEF PowerFailure
<1>3. PICK f \in Survivors(i) : acked' = Replayed(f)
  BY <1>2
<1>4. TypeOK /\ i \in Inodes /\ Safe(file[i], disk[i], hope)
  BY DEF HistoryInv, LayoutInv, TypeOK, HopeInv
<1>5. Replayed(f)[h] \in hope[h]
  BY <1>4, SurvivorSafe
<1> QED BY <1>3, <1>5

\* A power failure takes back nothing that was there at the last sync, and leaves
\* nothing that was not inserted, whatever of the unsynced cells reaches the disk.
THEOREM PowerSafeCorrect == ASSUME ReadFaults = 0 PROVE Spec => PowerSafe
<1>1. Init => HistoryInv /\ HopeInv
  BY InitHistory, InitHope
<1>2. HistoryInv /\ HopeInv /\ [Next]_vars => HistoryInv' /\ HopeInv'
  BY NextHistory, NextHope
<1>3. HistoryInv /\ HopeInv /\ [Next]_vars
        => [power' # power => \A h \in Hashes : acked'[h] \in hope[h]]_vars
  BY PowerSafeStep
<1> QED BY <1>1, <1>2, <1>3, PTL DEF Spec, PowerSafe
=============================================================================
