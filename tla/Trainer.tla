------------------------------- MODULE Trainer -------------------------------
(***************************************************************************)
(* nanogpt_superposition/train.py with the batch prefetcher of dataset.py: *)
(* one training process, the worker thread that draws its next batch, and  *)
(* the files that outlive it.  The process can be killed at any point, and *)
(* be started anew or from a checkpoint.                                   *)
(*                                                                         *)
(* The model (with its optimizer) is the sequence of steps that trained    *)
(* it.  The state of the sampling generator is the sequence of shapes that *)
(* were drawn from it, so a batch is that sequence with its own shape at   *)
(* the end; the corruption generator is the number of draws.  A token is   *)
(* one byte, and a step takes one unit of time.                            *)
(***************************************************************************)
EXTENDS Schedules, TLC

CONSTANTS
  Configs,   \* what load_config may read
  MaxRuns,   \* bound: how often the program is started
  Coin(_)    \* whether a state of the sampling generator draws a low value

ASSUME ConfigAssumption == MaxRuns \in Nat /\ \A c \in Configs : TypedConfig(c)

VARIABLES
  config,
  pc,
  budget,    \* what this process counts against: <<budget_kind, total_budget>>
  trainer,   \* what a checkpoint keeps: counters, generators, model, head
  active,    \* the shape of the batches: active_batch_size, active_context_tokens
  pre,       \* the prefetcher: the shape it draws, the state it cloned, its future
  batch,     \* this step: its batch, and what the top of the loop has found out
  window,    \* telemetry_window_steps
  last_phase,
  row,       \* the counters in the row written last
  target,    \* what is being saved: the primer's, a running or the final checkpoint
  profiled,  \* how many steps the profiler was told, and which of them it answered
  disk,      \* the checkpoint files
  sidecars,  \* step_NNNNNN/ckpt.pt: a link to one of them, or a copy
  runs

loop  == <<active, pre, batch, window, last_phase, row, profiled>>
files == <<disk, sidecars>>
vars  == <<config, pc, budget, trainer, loop, target, files, runs>>

Files == {"primer", "checkpoint"}
None  == [none |-> TRUE]
Torn  == [torn |-> TRUE]

Fresh ==
  [counters |-> [step |-> 0, ordinary_step |-> 0, primer_step |-> 0, examples |-> 0,
                 source_bytes |-> 0, tokens |-> 0, flops |-> 0, elapsed |-> 0],
   generator |-> <<>>, noise |-> 0, model |-> <<>>, split |-> FALSE]

counters  == trainer.counters
Spending  == Progress(budget[1], counters)
AllBudget == budget[2]
OwnBudget == <<config.kind, TotalBudget(config)>>

Init ==
  /\ config \in Configs
  /\ pc = "down" /\ runs = 0
  /\ budget = OwnBudget
  /\ trainer = Fresh
  /\ active = None /\ pre = None /\ batch = None
  /\ window = 0 /\ last_phase = "none" /\ row = None
  /\ profiled = [count |-> 0, answered |-> {}]
  /\ target = "final"
  /\ disk = [f \in Files |-> None]
  /\ sidecars = <<>>

-----------------------------------------------------------------------------
(* Starting: load_config, and --resume.                                    *)

Down == pc \in {"down", "done", "refused"}

Begin(state) ==
  /\ trainer' = state
  /\ active' = None /\ pre' = None /\ batch' = None
  /\ window' = 0 /\ last_phase' = "none" /\ row' = None
  /\ profiled' = [count |-> 0, answered |-> {}]
  /\ target' = "final"

\* Steps whose time is counted have to wait for the device.
MayCount(kind) == kind = "gpu_seconds" => config.sync

Start ==
  /\ Down /\ runs < MaxRuns
  /\ runs' = runs + 1
  /\ pc' = IF ValidConfig(config) /\ MayCount(config.kind) THEN "primer" ELSE "refused"
  /\ budget' = OwnBudget
  /\ Begin(Fresh)
  /\ UNCHANGED <<config, files>>

\* The head is split before the states are loaded if the counters say it was.
HeadWasDue(saved) == HeadIsDue(config, Progress(config.kind, saved.counters), OwnBudget[2])

\* A torn file does not load; an optimizer state of another topology is refused.
Loads(saved) == saved # Torn /\ HeadWasDue(saved) = saved.split

\* An extension counts device time from then on, and must lie ahead.
MayExtend(saved) ==
  /\ config.extend # 0 /\ config.basis # "budget"
  /\ config.extend > saved.counters.elapsed

Resume ==
  /\ Down /\ runs < MaxRuns
  /\ runs' = runs + 1
  /\ ValidConfig(config)
  /\ \E file \in Files, extended \in BOOLEAN :
       LET saved   == disk[file]
           counted == IF extended THEN <<"gpu_seconds", config.extend>> ELSE OwnBudget
       IN  /\ saved # None
           /\ IF Loads(saved) /\ (extended => MayExtend(saved)) /\ MayCount(counted[1])
              THEN /\ pc' = "primer"
                   /\ budget' = counted
                   /\ Begin(saved)
              ELSE /\ pc' = "refused"
                   /\ budget' = OwnBudget
                   /\ Begin(Fresh)
  /\ UNCHANGED <<config, files>>

\* The process is killed, whatever it is doing.
Crash ==
  /\ ~ Down
  /\ pc' = "down"
  /\ budget' = OwnBudget
  /\ Begin(Fresh)
  /\ UNCHANGED <<config, files, runs>>

-----------------------------------------------------------------------------
(* The primer: a planned list of batches, which no generator feeds.        *)

PrimerStep ==
  /\ pc = "primer" /\ counters.primer_step < config.primer
  /\ LET n == [counters EXCEPT !.step = @ + 1, !.primer_step = @ + 1]
     IN  trainer' = [trainer EXCEPT
           !.model = Append(@, [kind |-> "primer", batch |-> n.primer_step]), !.counters = n]
  /\ row' = trainer'.counters
  /\ UNCHANGED <<config, pc, budget, active, pre, batch, window, last_phase, target, profiled,
                 files, runs>>

\* The model that has only seen the primer is saved, again if it was resumed.
PrimerEnds ==
  /\ pc = "primer" /\ counters.primer_step >= config.primer
  /\ IF config.primer > 0 /\ counters.ordinary_step = 0
     THEN pc' = "save" /\ target' = "primer"
     ELSE pc' = "open" /\ UNCHANGED target
  /\ UNCHANGED <<config, budget, trainer, loop, files, runs>>

-----------------------------------------------------------------------------
(* The prefetcher.                                                         *)

\* _submit: the worker draws from a clone of the generator.
Submitted(shape, from) == [shape |-> shape, from |-> from, ready |-> FALSE]

\* The worker finishes the batch: it touches nothing but its clone.
Produce ==
  /\ pre # None /\ ~ pre.ready
  /\ pre' = [pre EXCEPT !.ready = TRUE]
  /\ UNCHANGED <<config, pc, budget, trainer, active, batch, window, last_phase, row, target,
                 profiled, files, runs>>

\* The first prefetcher is opened with the first shape, on a resume too.
OpenLoop ==
  /\ pc = "open"
  /\ active' = ShapeAt(config, 0, AllBudget)
  /\ pre' = IF config.prefetch THEN Submitted(active', trainer.generator) ELSE None
  /\ pc' = "loop"
  /\ UNCHANGED <<config, budget, trainer, batch, window, last_phase, row, target, profiled,
                 files, runs>>

\* The end of the loop closes the prefetcher, whose future is dropped.
CloseLoop ==
  /\ pc = "loop"
  /\ counters.ordinary_step >= config.max_steps \/ Spending >= AllBudget
  /\ pre' = None
  /\ pc' = "save" /\ target' = "final"
  /\ UNCHANGED <<config, budget, trainer, active, batch, window, last_phase, row, profiled,
                 files, runs>>

\* Fault: the prefetcher of the old shape is kept.
ReshapedKept(shape) == pre

\* A new shape closes the prefetcher and opens another on the same generator.
Reshaped(shape) ==
  IF shape # active /\ pre # None THEN Submitted(shape, trainer.generator) ELSE pre

\* The top of the loop: the late head split, and the shape of this step.
LoopTop ==
  /\ pc = "loop"
  /\ counters.ordinary_step < config.max_steps /\ Spending < AllBudget
  /\ LET shape == ShapeAt(config, Spending, AllBudget)
         due   == HeadIsDue(config, Spending, AllBudget)
     IN  /\ trainer' = [trainer EXCEPT !.split = @ \/ due]
         /\ pre' = Reshaped(shape) /\ active' = shape
         /\ batch' = [splits |-> due /\ ~ trainer.split]
  /\ pc' = "draw"
  /\ UNCHANGED <<config, budget, window, last_phase, row, target, profiled, files, runs>>

\* The generator moves on as the batch is taken.
Drawn(shape, from) ==
  /\ trainer' = [trainer EXCEPT !.generator = Append(from, shape)]
  /\ batch' = [drawn |-> from, shape |-> shape, splits |-> batch.splits]
  /\ pc' = "train"

\* next: wait for the future, commit its state, submit the batch after it.
NextBatch ==
  /\ pc = "draw" /\ pre # None /\ pre.ready
  /\ Drawn(pre.shape, pre.from)
  /\ pre' = Submitted(pre.shape, trainer'.generator)
  /\ UNCHANGED <<config, budget, active, window, last_phase, row, target, profiled, files, runs>>

\* Without a prefetcher the batch is drawn from the generator itself.
SampleBatch ==
  /\ pc = "draw" /\ pre = None
  /\ Drawn(active, trainer.generator)
  /\ UNCHANGED <<config, budget, active, pre, window, last_phase, row, target, profiled, files,
                 runs>>

-----------------------------------------------------------------------------
(* One optimizer step.                                                     *)

\* The counters after the step, but for the time it took.
Counted(positions) ==
  LET tokens == batch.shape.batch * (batch.shape.context + 1)
  IN  [counters EXCEPT
         !.step = @ + 1, !.ordinary_step = @ + 1, !.examples = @ + active.batch,
         !.source_bytes = @ + tokens, !.tokens = @ + tokens, !.flops = @ + positions]

EvaluationDue(n) == n % config.eval_interval = 0 \/ n = 1
CheckpointDue(n) == n % config.checkpoint_interval = 0
TerminalDue(n)   == n.ordinary_step >= config.max_steps \/ Progress(budget[1], n) >= AllBudget

\* Fault: the last step does not end a window.
TelemetryDueLate(n, phase) ==
  \/ config.sync \/ window + 1 >= config.telemetry_interval
  \/ EvaluationDue(n.ordinary_step) \/ CheckpointDue(n.ordinary_step)
  \/ phase # last_phase \/ batch.splits

TelemetryDue(n, phase) ==
  \/ config.sync \/ window + 1 >= config.telemetry_interval
  \/ EvaluationDue(n.ordinary_step) \/ CheckpointDue(n.ordinary_step) \/ TerminalDue(n)
  \/ phase # last_phase \/ batch.splits

TrainStep ==
  /\ pc = "train"
  /\ LET fixed == config.group > 1
         superposed == fixed /\ Superposes(config, Spending, AllBudget, Coin(batch.drawn))
         phase == IF fixed THEN Phase(config, Spending, AllBudget) ELSE "ordinary"
         soft  == IF superposed THEN 0 ELSE SoftRate(config, Spending, AllBudget)
         width == IF superposed THEN batch.shape.context \div config.group - 1
                  ELSE batch.shape.context
         n     == Counted(batch.shape.batch * width)
         due   == TelemetryDue(n, phase)
         time  == IF config.sync THEN 1 ELSE IF due THEN window + 1 ELSE 0
         timed == [n EXCEPT !.elapsed = @ + time]
         taken == [kind |-> "ordinary", drawn |-> batch.drawn, shape |-> batch.shape,
                   superposed |-> superposed, soft |-> soft, noise |-> trainer.noise,
                   split |-> trainer.split,
                   rate |-> <<LearningRate(config, counters.tokens, Spending, AllBudget),
                              Multiplier(config, Spending, AllBudget)>>]
     IN  /\ trainer' = [trainer EXCEPT !.model = Append(@, taken),
                                       !.noise = IF soft # 0 THEN @ + 1 ELSE @,
                                       !.counters = timed]
         /\ window' = IF due THEN 0 ELSE window + 1
         /\ last_phase' = phase
         /\ batch' = [due |-> due]
  /\ pc' = "profile"
  /\ UNCHANGED <<config, budget, active, pre, row, target, profiled, files, runs>>

\* Fault: the last step that was told is waited for again.
WaitsAgain(count) == count \in config.boundaries

Waits(count) == count # profiled.count /\ count \in config.boundaries

\* ProfileStepNotifier.step: the first steps are told, and some of them are to be
\* answered before the run goes on.
ProfileStep ==
  /\ pc = "profile"
  /\ LET count == AtMost(profiled.count + 1, config.profile_total)
     IN  /\ pc' = IF Waits(count) THEN "acknowledge" ELSE "report"
         /\ profiled' = [profiled EXCEPT !.count = count]
  /\ UNCHANGED <<config, budget, trainer, active, pre, batch, window, last_phase, row, target,
                 files, runs>>

\* The profiler answers each boundary once.
Acknowledge ==
  /\ pc = "acknowledge" /\ profiled.count \notin profiled.answered
  /\ profiled' = [profiled EXCEPT !.answered = @ \cup {profiled.count}]
  /\ pc' = "report"
  /\ UNCHANGED <<config, budget, trainer, active, pre, batch, window, last_phase, row, target,
                 files, runs>>

\* The row, the evaluation and the checkpoint of a step that is due.
Report ==
  /\ pc = "report"
  /\ row' = IF batch.due THEN counters ELSE row
  /\ IF batch.due /\ CheckpointDue(counters.ordinary_step)
     THEN pc' = "save" /\ target' = "running"
     ELSE pc' = "loop" /\ UNCHANGED target
  /\ batch' = None
  /\ UNCHANGED <<config, budget, trainer, active, pre, window, last_phase, profiled, files, runs>>

-----------------------------------------------------------------------------
(* _save_checkpoint: the file is written in place, then its sidecar.       *)

File == IF target = "primer" THEN "primer" ELSE "checkpoint"

SaveBegins ==
  /\ pc = "save"
  /\ disk' = [disk EXCEPT ![File] = Torn]
  /\ pc' = "write"
  /\ UNCHANGED <<config, budget, trainer, loop, target, sidecars, runs>>

SaveEnds ==
  /\ pc = "write"
  /\ disk' = [disk EXCEPT ![File] = trainer]
  /\ pc' = "sidecar"
  /\ UNCHANGED <<config, budget, trainer, loop, target, sidecars, runs>>

\* A link shares the file; where links fail, the file is copied.
SaveSidecar ==
  /\ pc = "sidecar"
  /\ \E ckpt \in {[link |-> File], [copy |-> disk[File]]} :
       sidecars' = (counters.step :> ckpt) @@ sidecars
  /\ pc' = CASE target = "primer"  -> "open"
             [] target = "running" -> "loop"
             [] target = "final"   -> "done"
  /\ target' = "final"
  /\ UNCHANGED <<config, budget, trainer, loop, disk, runs>>

-----------------------------------------------------------------------------
\* Every bounded number of starts has been used, and the last run is over.
Finished == Down /\ runs = MaxRuns /\ UNCHANGED vars

Step ==
  \/ PrimerStep \/ PrimerEnds \/ OpenLoop \/ CloseLoop \/ LoopTop \/ NextBatch \/ SampleBatch
  \/ TrainStep \/ ProfileStep \/ Report \/ SaveBegins \/ SaveEnds \/ SaveSidecar

Next == Start \/ Resume \/ Crash \/ Produce \/ Acknowledge \/ Step \/ Finished

Spec == Init /\ [][Next]_vars

\* The process and its worker thread run, and the profiler answers; nobody need
\* start the program, or kill it.
FairSpec == Spec /\ WF_vars(Step) /\ WF_vars(Produce) /\ WF_vars(Acknowledge)

-----------------------------------------------------------------------------
(* Properties.                                                             *)

Counts == [step : Nat, ordinary_step : Nat, primer_step : Nat, examples : Nat,
           source_bytes : Nat, tokens : Nat, flops : Nat, elapsed : Nat]

\* The counters, the files and the prefetcher keep their types, no run exceeds its steps, and
\* every batch it draws fits the model and splits into whole groups (config.py checks the
\* schedule once, before any batch is drawn).
TypeOK ==
  /\ config \in Configs /\ runs \in 0 .. MaxRuns
  /\ pc \in {"down", "refused", "primer", "open", "loop", "draw", "train", "profile",
             "acknowledge", "report", "save", "write", "sidecar", "done"}
  /\ \A saved \in {trainer, disk["primer"], disk["checkpoint"]} \ {None, Torn} :
       /\ saved.counters \in Counts
       /\ saved.counters.ordinary_step > 0 => saved.counters.ordinary_step <= config.max_steps
       /\ saved.counters.primer_step <= config.primer
       /\ saved.noise \in Nat /\ saved.split \in BOOLEAN
       /\ \A i \in DOMAIN saved.generator :
            LET shape == saved.generator[i]
            IN  /\ shape.batch > 0 /\ shape.context \in 2 .. config.longest
                /\ shape.context % config.group = 0
  /\ pre = None \/ pre.ready \in BOOLEAN
  /\ window \in 0 .. config.telemetry_interval

\* Device time is counted in windows that a row closes.  Whatever a checkpoint keeps
\* covers all of its steps: none was left in an open window, where a resume would
\* lose it, and the row before it shows the same counters.
TelemetryInv ==
  /\ \A file \in Files : disk[file] \notin {None, Torn} =>
       disk[file].counters.elapsed = disk[file].counters.ordinary_step
  /\ pc \in {"save", "write", "sidecar"} => window = 0 /\ row \in {None, counters}

Run == INSTANCE TrainRun WITH
         trained <- trainer.model,
         saved <- [f \in Files |-> IF disk[f] \in {None, Torn} THEN <<>> ELSE disk[f].model]

\* With or without a prefetcher, across changes of shape, crashes, resumes and the
\* primer, every step trains on the batch, in the mode and at the rate that the
\* steps before it determine, as if each batch were drawn when it is needed.
ImplementsTrainRun == Run!RSpec

\* A run that nobody kills ends: no step waits for a batch that nobody draws.
RunsEnd == (pc = "loop") ~> Down

\* A checkpoint that was written to the end can be resumed.
ResumeAccepted ==
  \A file \in Files : disk[file] \notin {None, Torn} => Loads(disk[file])
=============================================================================
