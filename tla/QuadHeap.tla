------------------------------ MODULE QuadHeap -------------------------------
(***************************************************************************)
(* bpe_heap.zig: the 4-ary min-heap that holds the merge candidates, as    *)
(* the array it is.  A node is the number of its place in the order of     *)
(* lessNode; several nodes may be equal.                                   *)
(***************************************************************************)
EXTENDS Integers, FiniteSets

CONSTANTS
  Capacity,   \* buf.len
  Values      \* a set of numbers

VARIABLES
  buf, n,
  popped,   \* the last result of pop: {} is null
  built     \* heapify has run

vars == <<buf, n, popped, built>>

Slots == 0 .. Capacity - 1

Parent(i)     == (i - 1) \div 4
FirstChild(i) == 4 * i + 1

Swap(b, i, j) == [b EXCEPT ![i] = b[j], ![j] = b[i]]

\* The first of the least of the up to four children of i, among m nodes.
Best(b, m, i) ==
  LET kids == {c \in FirstChild(i) .. FirstChild(i) + 3 : c < m}
  IN  CHOOSE c \in kids : \A d \in kids : b[c] < b[d] \/ (b[c] = b[d] /\ c <= d)

RECURSIVE SiftDown(_, _, _)
SiftDown(b, m, i) ==
  IF FirstChild(i) >= m THEN b
  ELSE LET best == Best(b, m, i)
       IN  IF b[best] < b[i] THEN SiftDown(Swap(b, i, best), m, best) ELSE b

RECURSIVE SiftUp(_, _)
SiftUp(b, i) ==
  IF i > 0 /\ b[i] < b[Parent(i)] THEN SiftUp(Swap(b, i, Parent(i)), Parent(i)) ELSE b

LastParent(m) == Parent(m - 1)

\* From node i down to the root.
RECURSIVE SiftAll(_, _, _)
SiftAll(b, m, i) == IF i < 0 THEN b ELSE SiftAll(SiftDown(b, m, i), m, i - 1)

\* The caller fills the buffer in any order, and heapify makes it a heap.
Init ==
  /\ buf \in [Slots -> Values]
  /\ n \in 0 .. Capacity
  /\ popped = {}
  /\ built = 0

Heapify ==
  /\ built = 0
  /\ built' = 1
  /\ buf' = IF n < 2 THEN buf ELSE SiftAll(buf, n, LastParent(n))
  /\ UNCHANGED <<n, popped>>

Push(v) ==
  /\ built = 1
  /\ n < Capacity
  /\ buf' = SiftUp([buf EXCEPT ![n] = v], n)
  /\ n' = n + 1
  /\ UNCHANGED <<popped, built>>

PopNull ==
  /\ built = 1
  /\ n = 0
  /\ popped' = {}
  /\ UNCHANGED <<buf, n, built>>

\* Fault: the last node is moved to the root and stays there.
PopUnsifted ==
  /\ built = 1
  /\ n > 0
  /\ popped' = {buf[0]}
  /\ n' = n - 1
  /\ buf' = IF n > 1 THEN [buf EXCEPT ![0] = buf[n - 1]] ELSE buf
  /\ UNCHANGED built

Pop ==
  /\ built = 1
  /\ n > 0
  /\ popped' = {buf[0]}
  /\ n' = n - 1
  /\ buf' = IF n > 1 THEN SiftDown([buf EXCEPT ![0] = buf[n - 1]], n - 1, 0) ELSE buf
  /\ UNCHANGED built

Next == Heapify \/ (\E v \in Values : Push(v)) \/ PopNull \/ Pop

Spec == Init /\ [][Next]_vars

-----------------------------------------------------------------------------
\* Every pop returns the least node that was pushed and not popped since: the
\* array is a priority queue, and loses and duplicates nothing.
Queue == INSTANCE MinQueue WITH
           bag <- [v \in Values |-> Cardinality({i \in 0 .. n - 1 : buf[i] = v})],
           taken <- popped, ready <- built

ImplementsMinQueue == Queue!QSpec
=============================================================================
