------------------------------- MODULE TrainRun -------------------------------
(***************************************************************************)
(* What train.py promises: a run is a sequence of steps, each of which is  *)
(* a function of the configuration and of the steps before it.  There is   *)
(* no worker thread and no counter here: the batch of a step is drawn when *)
(* the step is taken, and progress is added up from the steps themselves.  *)
(* A process may be killed, and the next one continue from a checkpoint.   *)
(***************************************************************************)
EXTENDS Schedules, FiniteSets, Functions

CONSTANTS Coin(_)   \* whether a state of the sampling generator draws a low value

VARIABLES
  config,
  budget,    \* what the process counts against: <<kind, total>>
  trained,   \* the steps that made the model what it is
  saved      \* the steps that made each checkpoint

Torn == <<>>   \* a file that holds no checkpoint, or a part of one

rvars == <<config, budget, trained, saved>>

\* The primer comes first.
Ordinary(steps) == [i \in 1 .. Len(steps) - config.primer |-> steps[config.primer + i]]

Area(s)      == s.shape.batch * (s.shape.context + 1)
Positions(s) == IF s.superposed THEN s.shape.batch * (s.shape.context \div config.group - 1)
                ELSE s.shape.batch * s.shape.context

Total(f) == SumFunctionOnSet(f, DOMAIN f)

Areas(done)      == Total([i \in DOMAIN done |-> Area(done[i])])
Positioned(done) == Total([i \in DOMAIN done |-> Positions(done[i])])

\* What the steps have used up.
Spent(steps) ==
  LET done == Ordinary(steps)
  IN  [ordinary_step |-> Len(done), source_bytes |-> Areas(done), flops |-> Positioned(done),
       elapsed |-> Len(done)]

Shapes(done)   == [i \in DOMAIN done |-> done[i].shape]
Softened(done) == {i \in DOMAIN done : done[i].soft # 0}
WasSplit(done) == done # <<>> /\ done[Len(done)].split

\* The step after these ones.
NextStep(steps) ==
  LET done     == Ordinary(steps)
      progress == Progress(budget[1], Spent(steps))
      total    == budget[2]
      super    == config.group > 1 /\ Superposes(config, progress, total, Coin(Shapes(done)))
  IN  [kind |-> "ordinary", drawn |-> Shapes(done),
       shape |-> ShapeAt(config, progress, total),
       superposed |-> super,
       soft |-> IF super THEN 0 ELSE SoftRate(config, progress, total),
       noise |-> Cardinality(Softened(done)),
       split |-> HeadIsDue(config, progress, total) \/ WasSplit(done),
       rate |-> <<LearningRate(config, Areas(done), progress, total),
                  Multiplier(config, progress, total)>>]

PrimerStep(i) == [kind |-> "primer", batch |-> i]

RInit ==
  /\ trained = <<>>
  /\ saved = [file \in {"primer", "checkpoint"} |-> Torn]
  /\ budget = <<config.kind, TotalBudget(config)>>

Prime ==
  /\ Len(trained) < config.primer
  /\ trained' = Append(trained, PrimerStep(Len(trained) + 1))
  /\ UNCHANGED <<config, budget, saved>>

\* The ordinary stream starts after the primer, and in the same way without one.
Train ==
  /\ Len(trained) >= config.primer
  /\ Progress(budget[1], Spent(trained)) < budget[2]
  /\ Spent(trained).ordinary_step < config.max_steps
  /\ trained' = Append(trained, NextStep(trained))
  /\ UNCHANGED <<config, budget, saved>>

\* A save is first torn and then whole.
Save ==
  /\ \E file \in DOMAIN saved : saved' = [saved EXCEPT ![file] = Torn]
                             \/ saved' = [saved EXCEPT ![file] = trained]
  /\ UNCHANGED <<config, budget, trained>>

Restart ==
  /\ \/ trained' = <<>> /\ budget' = <<config.kind, TotalBudget(config)>>
     \/ \E file \in DOMAIN saved :
          /\ saved[file] # Torn
          /\ trained' = saved[file]
          /\ budget' \in {<<config.kind, TotalBudget(config)>>, <<"gpu_seconds", config.extend>>}
  /\ UNCHANGED <<config, saved>>

RNext == Prime \/ Train \/ Save \/ Restart

RSpec == RInit /\ [][RNext]_rvars
=============================================================================
