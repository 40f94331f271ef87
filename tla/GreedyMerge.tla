----------------------------- MODULE GreedyMerge -----------------------------
(***************************************************************************)
(* What every merge loop of the BPE encoders promises.  A text of N units  *)
(* (bytes, or codepoints) starts as N parts.  As long as some neighbouring *)
(* parts can be merged, the pair of lowest rank is, the leftmost one if    *)
(* several have that rank.  Then the parts are handed out from left to     *)
(* right: they are contiguous, and cover the text.                         *)
(*                                                                         *)
(* A part is named by the unit it starts at, and ends where the next one   *)
(* starts.  The rank of a pair depends on where its parts start and end.   *)
(***************************************************************************)
EXTENDS Integers, Sequences

CONSTANTS
  N,        \* the length of the text, a positive number
  MaxRank   \* bound: the largest rank of a merge, a natural number

VARIABLES
  rank,   \* rank[<<a, b, c>>]: of the pair a .. b-1, b .. c-1; or Invalid
  live,   \* where the parts start
  out     \* the parts, as <<start, end>>, once they are handed out

Units   == 0 .. N - 1
Invalid == MaxRank + 1
Ranks   == 0 .. MaxRank
Pairs   == {p \in (0 .. N) \X (0 .. N) \X (0 .. N) : p[1] < p[2] /\ p[2] < p[3]}

\* Where the part that starts at a ends.
End(a) == CHOOSE e \in live \cup {N} :
            a < e /\ \A f \in live \cup {N} : a < f => e <= f

\* The rank of the pair whose left part starts at a.
PairRank(a) ==
  IF End(a) = N THEN Invalid ELSE rank[<<a, End(a), End(End(a))>>]

\* The pair at a is the next to be merged.
Best(a) ==
  /\ PairRank(a) # Invalid
  /\ \A c \in live : \/ PairRank(a) < PairRank(c)
                     \/ PairRank(a) = PairRank(c) /\ a <= c

\* The sequence s lists the parts from left to right.
Lists(s) ==
  /\ {s[i] : i \in 1 .. Len(s)} = {<<a, End(a)>> : a \in live}
  /\ \A i, j \in 1 .. Len(s) : i < j => s[i][1] < s[j][1]

GInit ==
  /\ rank \in [Pairs -> Ranks \cup {Invalid}]
  /\ live = Units
  /\ out = <<>>

Merge ==
  /\ out = <<>>
  /\ \E a \in live : Best(a) /\ live' = live \ {End(a)}
  /\ UNCHANGED <<rank, out>>

Emit ==
  /\ out = <<>>
  /\ \A a \in live : PairRank(a) = Invalid
  /\ Lists(out')
  /\ UNCHANGED <<rank, live>>

GSpec == GInit /\ [][Merge \/ Emit]_<<rank, live, out>>
=============================================================================
