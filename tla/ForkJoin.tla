------------------------------ MODULE ForkJoin ------------------------------
(***************************************************************************)
(* What thread_pool.BatchPool promises its caller, with no threads in it:  *)
(* a batch begins with a number of items, every item of it runs exactly    *)
(* once while the batch is open, the batch is over only when all of them   *)
(* have run, nothing of it runs afterwards, and the pool is released only  *)
(* between batches.  BatchPool implements this (BatchPool!Fork).           *)
(***************************************************************************)
EXTENDS Integers

CONSTANTS MaxItems, MaxBatches

VARIABLES
  phase,   \* "closed" before init and after deinit, "ready", or "open"
  batch,   \* number of batches begun so far: identifies the caller's ctx
  total,   \* total_items of the batch that is open
  ran      \* ran[b][i]: how often item i of batch b has run

fjVars == <<phase, batch, total, ran>>

Items   == 0 .. MaxItems - 1
Batches == 1 .. MaxBatches

FJInit ==
  /\ phase = "closed"
  /\ batch = 0
  /\ total = 0
  /\ ran = [b \in Batches |-> [i \in Items |-> 0]]

Open ==
  /\ phase = "closed"
  /\ phase' = "ready"
  /\ UNCHANGED <<batch, total, ran>>

Begin ==
  /\ phase = "ready"
  /\ phase' = "open"
  /\ batch' = batch + 1
  /\ total' \in 0 .. MaxItems
  /\ UNCHANGED ran

\* A batch of no items is over as it begins.
BeginEmpty ==
  /\ phase = "ready"
  /\ batch' = batch + 1
  /\ UNCHANGED <<phase, total, ran>>

\* Only an item of the open batch, and only one that has not run yet.
RunOne ==
  /\ phase = "open"
  /\ \E i \in 0 .. total - 1 :
       /\ ran[batch][i] = 0
       /\ ran' = [ran EXCEPT ![batch][i] = 1]
  /\ UNCHANGED <<phase, batch, total>>

Return ==
  /\ phase = "open"
  /\ \A i \in 0 .. total - 1 : ran[batch][i] = 1
  /\ phase' = "ready"
  /\ UNCHANGED <<batch, total, ran>>

Close ==
  /\ phase = "ready"
  /\ phase' = "closed"
  /\ UNCHANGED <<batch, total, ran>>

FJNext == Open \/ Begin \/ BeginEmpty \/ RunOne \/ Return \/ Close

FJSpec == FJInit /\ [][FJNext]_fjVars
=============================================================================
