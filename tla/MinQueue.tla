------------------------------ MODULE MinQueue ------------------------------
(***************************************************************************)
(* What the merge loop expects of its heap: a bag of values, filled before *)
(* the first use, from which the least one is taken.                       *)
(***************************************************************************)
EXTENDS Integers

CONSTANT Values   \* numbers

VARIABLES
  bag,     \* how many of each value it holds
  taken,   \* what the last pop returned; {} for null, or before the first
  ready    \* it has been built

Change(v, d) == bag' = [bag EXCEPT ![v] = @ + d]

QInit == bag \in [Values -> Nat] /\ taken = {} /\ ready = 0

Build == ready = 0 /\ ready' = 1 /\ UNCHANGED <<bag, taken>>

Put == ready = 1 /\ (\E v \in Values : Change(v, 1)) /\ UNCHANGED <<taken, ready>>

Take ==
  /\ ready = 1
  /\ IF \A v \in Values : bag[v] = 0
     THEN taken' = {} /\ UNCHANGED bag
     ELSE \E v \in Values :
            /\ bag[v] > 0 /\ \A u \in Values : bag[u] > 0 => v <= u
            /\ taken' = {v}
            /\ Change(v, -1)
  /\ UNCHANGED ready

QSpec == QInit /\ [][Build \/ Put \/ Take]_<<bag, taken, ready>>
=============================================================================
