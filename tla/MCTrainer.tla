----------------------------- MODULE MCTrainer -----------------------------
(* Trainer on configurations that between them use each schedule, each kind *)
(* of budget, the primer, late head splitting and the prefetcher.           *)
EXTENDS Trainer

CONSTANTS SplitAt

MCCoin(state) == Len(state) % 2 = 1

Base ==
  [kind |-> "steps", budget |-> 0, max_steps |-> 4, batch |-> 2, context |-> 4, longest |-> 8,
   group |-> 1, scheduled |-> "batch", stages |-> <<>>, coarse |-> 10, mixed |-> 5,
   basis |-> "steps", decay |-> "cosine", warmup |-> 1, cooldown |-> 4, split |-> 0,
   soft |-> FALSE, prefetch |-> TRUE, sync |-> FALSE, telemetry_interval |-> 3,
   eval_interval |-> 3, checkpoint_interval |-> 2, primer |-> 0, extend |-> 0,
   profile_total |-> 0, boundaries |-> {}]

\* Shapes that grow with the bytes that were read, after a primer.
Shapes == [Base EXCEPT !.kind = "source_bytes", !.budget = 30, !.scheduled = "shape",
  !.stages = <<[at |-> 0, batch |-> 2, context |-> 2], [at |-> 7, batch |-> 1, context |-> 4]>>,
  !.basis = "budget", !.decay = "late_linear", !.primer = 1, !.soft = TRUE]

\* Groups of two, on estimated compute, with a batch that doubles.
Groups == [Base EXCEPT !.kind = "flops", !.budget = 18, !.group = 2,
  !.stages = <<[at |-> 0, batch |-> 2, context |-> 0], [at |-> 10, batch |-> 3, context |-> 0]>>,
  !.profile_total = 3, !.boundaries = {1, 3}]

\* Steps, then more of them in device time.
Extended == [Base EXCEPT !.max_steps = 3, !.prefetch = FALSE, !.sync = TRUE, !.extend = 3,
  !.kind = "gpu_seconds", !.budget = 2, !.soft = TRUE]

\* The head is split off once this part of the run is over; the last step is due for
\* nothing but its being the last.
Split == [Base EXCEPT !.max_steps = 5, !.split = SplitAt]

\* A context that does not divide into groups.
Invalid == [Groups EXCEPT !.context = 5]

\* A budget of device time that nothing measures.
Unmeasured == [Extended EXCEPT !.sync = FALSE]

MCConfigs == {Shapes, Groups, Extended, Split, Invalid, Unmeasured}
=============================================================================
