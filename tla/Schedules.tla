------------------------------ MODULE Schedules ------------------------------
(***************************************************************************)
(* nanogpt_superposition/config.py and superposition/recovery.py, with the *)
(* schedule helpers of train.py: what a run does at a given progress       *)
(* through its budget, as functions of its configuration.                  *)
(*                                                                         *)
(* Fractions are numbers of twentieths, and compared by cross-multiplying, *)
(* so that a stage begins exactly where the code's division puts it.  A    *)
(* learning rate is the branch of the schedule that gives it, with the     *)
(* arguments the formula of that branch reads.                             *)
(***************************************************************************)
EXTENDS Integers, Sequences

Den == 20   \* all fractions are in twentieths

\* progress / total < f
Below(progress, total, f) == progress * Den < f * total

AtMost(a, b) == IF a < b THEN a ELSE b

\* The types of the fields; groups and windows are of one or more, no primer is negative.
TypedConfig(c) ==
  /\ c.kind \in {"steps", "source_bytes", "flops", "gpu_seconds"}
  /\ c.scheduled \in {"batch", "shape"}
  /\ {c.budget, c.max_steps, c.batch, c.context, c.longest} \subseteq Int
  /\ {c.group, c.telemetry_interval} \subseteq Nat \ {0}
  /\ {c.primer, c.extend} \subseteq Nat
  /\ {c.sync, c.prefetch} \subseteq BOOLEAN
  /\ c.stages \in Seq([at : Int, batch : Int, context : Int])

\* What load_config accepts of a schedule of batch sizes or of shapes.
ValidStages(c) ==
  /\ \A i \in DOMAIN c.stages :
       /\ c.stages[i].at \in 0 .. Den - 1
       /\ i > 1 => c.stages[i].at > c.stages[i - 1].at
       /\ c.stages[i].batch > 0
  /\ c.stages # <<>> => c.stages[1].at = 0
  /\ c.stages # <<>> /\ c.scheduled = "batch" => c.stages[1].batch = c.batch
  /\ c.scheduled = "shape" =>
       \A i \in DOMAIN c.stages :
         /\ c.stages[i].context >= 2
         /\ i > 1 => c.stages[i].context >= c.stages[i - 1].context
         /\ c.stages[i].context % c.group = 0
         /\ c.stages[i].context <= c.longest

ValidConfig(c) ==
  /\ c.max_steps > 0 /\ c.batch > 0 /\ c.context >= 2
  /\ c.context % c.group = 0
  /\ c.context <= c.longest
  /\ c.kind # "steps" => c.budget > 0
  /\ c.decay = "late_linear" => c.basis = "budget"
  /\ c.split # 0 => c.split \in 1 .. Den - 1
  /\ ValidStages(c)

TotalBudget(c) == IF c.kind = "steps" THEN c.max_steps ELSE c.budget

\* _budget_progress
Progress(kind, n) ==
  CASE kind = "steps"        -> n.ordinary_step
    [] kind = "source_bytes" -> n.source_bytes
    [] kind = "flops"        -> n.flops
    [] kind = "gpu_seconds"  -> n.elapsed

\* training_shape_at, and batch_size_at for a schedule of batch sizes alone.
ShapeAt(c, progress, total) ==
  LET due == {i \in DOMAIN c.stages : ~ Below(progress, total, c.stages[i].at)}
      now == CHOOSE i \in due : \A j \in due : j <= i
  IN  IF c.stages = <<>> THEN [batch |-> c.batch, context |-> c.context]
      ELSE [batch   |-> c.stages[now].batch,
            context |-> IF c.scheduled = "batch" THEN c.context ELSE c.stages[now].context]

\* RecoverySchedule.phase
Phase(c, progress, total) ==
  IF Below(progress, total, c.coarse) THEN "coarse"
  ELSE IF Below(progress, total, c.coarse + c.mixed) THEN "mixed"
  ELSE "ordinary"

\* use_superposition: coin says whether the random value is below the probability.
Superposes(c, progress, total, coin) ==
  CASE Phase(c, progress, total) = "coarse"   -> TRUE
    [] Phase(c, progress, total) = "mixed"    -> coin
    [] Phase(c, progress, total) = "ordinary" -> FALSE

\* learning_rate_multiplier: its weights of the coarse and the ordinary multiplier.
Multiplier(c, progress, total) ==
  LET past == progress * Den - c.coarse * total
  IN  CASE Phase(c, progress, total) = "coarse"   -> <<1, 0>>
        [] Phase(c, progress, total) = "ordinary" -> <<0, 1>>
        [] OTHER -> <<c.mixed * total - past, past>>

\* _learning_rate: the step is a number of tokens over the tokens of a full batch.
LearningRate(c, tokens, progress, total) ==
  LET unit  == c.batch * (c.context + 1)
      past  == tokens - c.warmup * unit
      all   == (IF c.max_steps > c.warmup THEN c.max_steps - c.warmup ELSE 1) * unit
      ratio == IF c.basis = "budget" THEN <<AtMost(progress, total), total>>
               ELSE <<AtMost(past, all), all>>
  IN  IF past < 0 THEN <<"warmup", tokens>>
      ELSE IF c.decay = "cosine" THEN <<"cosine">> \o ratio
      ELSE IF Below(ratio[1], ratio[2], Den - c.cooldown) THEN <<"plateau">>
      ELSE <<"cooldown">> \o ratio

\* The soft-token curriculum of the ordinary objective, in quarters of the rate.
SoftRate(c, progress, total) ==
  IF ~ c.soft \/ Below(progress, total, 4) THEN 0
  ELSE IF Below(progress, total, 10) THEN 1
  ELSE IF Below(progress, total, 16) THEN 2
  ELSE 4

HeadIsDue(c, progress, total) == c.split # 0 /\ ~ Below(progress, total, c.split)
=============================================================================
