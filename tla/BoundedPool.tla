----------------------------- MODULE BoundedPool ------------------------------
(***************************************************************************)
(* connection_pool.zig, BoundedPool: persistent workers that take jobs     *)
(* from a bounded ring.  One mutex guards everything; three condition      *)
(* variables (not_empty, not_full, idle) hold the threads that wait.       *)
(*                                                                         *)
(* One action is one critical section.  A thread that has to wait releases *)
(* the mutex and parks in the same action, as a condition variable does;   *)
(* a woken thread is back where it takes the mutex and tests again.        *)
(*                                                                         *)
(* Threads: the workers, the producers (in cli_serve, the accept loop is   *)
(* the only one), and the owner, which calls init, waitIdle and deinit.    *)
(* The owner calls deinit, which frees the pool, when no producer is       *)
(* inside submit, and no producer calls submit afterwards.                 *)
(***************************************************************************)
EXTENDS Integers, Sequences, FiniteSets

CONSTANTS
  NWorkers,       \* worker_count
  QueueCapacity,  \* queue_capacity
  Producers,
  MaxJobs         \* bound: how many jobs are submitted

ASSUME PoolAssumption ==
  /\ NWorkers \in Nat \ {0}
  /\ QueueCapacity \in Nat
  /\ MaxJobs \in Nat
  /\ IsFiniteSet(Producers)

VARIABLES
  jobs, head, tail, count,   \* the ring
  active, stopping,
  spawned,                   \* workers started by init
  worker,                    \* where each worker is
  workerJob,                 \* the job it has taken
  producer,                  \* where each producer is in submit
  producerJob,               \* the job it submits
  owner,                     \* where the owner is
  submitted,                 \* names the jobs in the order of the calls
  handled                    \* the jobs for which the handler has returned

ringVars     == <<jobs, head, tail, count>>
workerVars   == <<worker, workerJob, spawned>>
producerVars == <<producer, producerJob, submitted>>
vars == <<jobs, head, tail, count, active, stopping, spawned, worker, workerJob,
          producer, producerJob, owner, submitted, handled>>

Cap     == IF NWorkers > QueueCapacity THEN NWorkers ELSE QueueCapacity
Workers == 1 .. NWorkers
Slots   == 0 .. Cap - 1
Jobs    == 1 .. MaxJobs
NoJob   == 0

Init ==
  /\ jobs = [i \in Slots |-> NoJob]
  /\ head = 0 /\ tail = 0 /\ count = 0
  /\ active = 0
  /\ stopping = 0
  /\ spawned = 0
  /\ worker = [w \in Workers |-> "off"]
  /\ workerJob = [w \in Workers |-> NoJob]
  /\ producer = [p \in Producers |-> "out"]
  /\ producerJob = [p \in Producers |-> NoJob]
  /\ owner = "spawn"
  /\ submitted = 0
  /\ handled = {}

Advance(i) == (i + 1) % Cap

-----------------------------------------------------------------------------
(* Condition variables: the threads parked on one, and what wakes them.    *)

OnNotEmpty == {w \in Workers : worker[w] = "parked"}
OnNotFull  == {p \in Producers : producer[p] = "parked"}

\* signal: one of the waiters, if there is any, will take the mutex again.
SignalNotEmpty ==
  worker' \in IF OnNotEmpty = {} THEN {worker}
              ELSE {[worker EXCEPT ![w] = "enter"] : w \in OnNotEmpty}

SignalNotFull ==
  producer' \in IF OnNotFull = {} THEN {producer}
                ELSE {[producer EXCEPT ![p] = "enter"] : p \in OnNotFull}

\* broadcast: all of them.
BroadcastNotEmpty ==
  worker' = [w \in Workers |-> IF worker[w] = "parked" THEN "enter" ELSE worker[w]]

BroadcastIdle ==
  owner' = IF owner = "wait_parked" THEN "wait"
           ELSE IF owner = "drain_parked" THEN "drain" ELSE owner

-----------------------------------------------------------------------------
(* init.                                                                   *)

Spawn ==
  /\ owner = "spawn"
  /\ spawned < NWorkers
  /\ spawned' = spawned + 1
  /\ worker' = [worker EXCEPT ![spawned + 1] = "enter"]
  /\ owner' = IF spawned + 1 = NWorkers THEN "serve" ELSE "spawn"
  /\ UNCHANGED <<ringVars, active, stopping, workerJob, producerVars, handled>>

\* A spawn fails: the errdefer stops and joins the workers already started.
SpawnFails ==
  /\ owner = "spawn"
  /\ stopping' = 1
  /\ BroadcastNotEmpty
  /\ owner' = "join"
  /\ UNCHANGED <<ringVars, active, workerJob, spawned, producerVars, handled>>

-----------------------------------------------------------------------------
(* submit.                                                                 *)

CallSubmit(p) ==
  /\ owner \in {"serve", "wait", "wait_parked"}
  /\ producer[p] = "out"
  /\ submitted < MaxJobs
  /\ submitted' = submitted + 1
  /\ producerJob' = [producerJob EXCEPT ![p] = submitted + 1]
  /\ producer' = [producer EXCEPT ![p] = "enter"]
  /\ UNCHANGED <<ringVars, active, stopping, workerVars, owner, handled>>

\* The ring is full.
SubmitWaits(p) ==
  /\ producer[p] = "enter"
  /\ count = Cap /\ stopping = 0
  /\ producer' = [producer EXCEPT ![p] = "parked"]
  /\ UNCHANGED <<ringVars, active, stopping, workerVars, producerJob, owner,
                 submitted, handled>>

\* The job goes to the tail, and submit returns.
PutJob(p) ==
  /\ producer[p] = "enter"
  /\ producer' = [producer EXCEPT ![p] = "out"]
  /\ jobs' = [jobs EXCEPT ![tail] = producerJob[p]]
  /\ tail' = Advance(tail)
  /\ count' = count + 1
  /\ UNCHANGED <<head, active, stopping, workerJob, spawned, producerJob, owner,
                 submitted, handled>>

\* Fault: the ring is written whether or not it is full.
SubmitOverwrites(p) == PutJob(p) /\ SignalNotEmpty

\* Fault: not_empty is signalled only when the ring was empty.
SubmitSignalsFirst(p) ==
  /\ count < Cap
  /\ PutJob(p)
  /\ IF count = 0 THEN SignalNotEmpty ELSE UNCHANGED worker

\* Fault: the signal is missing.
SubmitSilent(p) == count < Cap /\ PutJob(p) /\ UNCHANGED worker

\* (error.PoolStopping cannot happen: no producer is inside when deinit begins.)
SubmitPuts(p) ==
  /\ count < Cap /\ stopping = 0
  /\ PutJob(p)
  /\ SignalNotEmpty

-----------------------------------------------------------------------------
(* workerMain.                                                             *)

WorkerWaits(w) ==
  /\ worker[w] = "enter"
  /\ count = 0 /\ stopping = 0
  /\ worker' = [worker EXCEPT ![w] = "parked"]
  /\ UNCHANGED <<ringVars, active, stopping, workerJob, spawned, producerVars,
                 owner, handled>>

WorkerExits(w) ==
  /\ worker[w] = "enter"
  /\ count = 0 /\ stopping # 0
  /\ worker' = [worker EXCEPT ![w] = "exited"]
  /\ UNCHANGED <<ringVars, active, stopping, workerJob, spawned, producerVars,
                 owner, handled>>

Take(w) ==
  /\ worker[w] = "enter"
  /\ count # 0
  /\ workerJob' = [workerJob EXCEPT ![w] = jobs[head]]
  /\ head' = Advance(head)
  /\ count' = count - 1
  /\ active' = active + 1
  /\ worker' = [worker EXCEPT ![w] = "run"]
  /\ SignalNotFull
  /\ UNCHANGED <<jobs, tail, stopping, spawned, producerJob, submitted, owner, handled>>

\* The handler returns, and the worker reports.
Finish(w) ==
  /\ worker[w] = "run"
  /\ handled' = handled \cup {workerJob[w]}
  /\ active' = active - 1
  /\ worker' = [worker EXCEPT ![w] = "enter"]
  /\ IF count = 0 /\ active = 1 THEN BroadcastIdle ELSE UNCHANGED owner
  /\ UNCHANGED <<ringVars, stopping, workerJob, spawned, producerVars>>

-----------------------------------------------------------------------------
(* waitIdle and deinit.  deinit begins with a waitIdle of its own.         *)

ownerOnly == <<ringVars, active, workerVars, producerVars, handled>>

CallWaitIdle ==
  /\ owner = "serve"
  /\ owner' = "wait"
  /\ UNCHANGED <<ownerOnly, stopping>>

CallDeinit ==
  /\ owner = "serve"
  /\ \A p \in Producers : producer[p] = "out"
  /\ owner' = "drain"
  /\ UNCHANGED <<ownerOnly, stopping>>

Idle == count = 0 /\ active = 0

WaitIdle ==
  /\ owner \in {"wait", "drain"}
  /\ owner' = IF owner = "wait" THEN (IF Idle THEN "serve" ELSE "wait_parked")
              ELSE (IF Idle THEN "stop" ELSE "drain_parked")
  /\ UNCHANGED <<ownerOnly, stopping>>

\* Fault: one worker is woken, not all of them.
StopSignals ==
  /\ owner = "stop"
  /\ stopping' = 1
  /\ SignalNotEmpty
  /\ owner' = "join"
  /\ UNCHANGED <<ringVars, active, workerJob, spawned, producerVars, handled>>

Stop ==
  /\ owner = "stop"
  /\ stopping' = 1
  /\ BroadcastNotEmpty
  /\ owner' = "join"
  /\ UNCHANGED <<ringVars, active, workerJob, spawned, producerVars, handled>>

\* Every worker that was started has been joined: the pool is freed.
Join ==
  /\ owner = "join"
  /\ \A w \in 1 .. spawned : worker[w] = "exited"
  /\ owner' = "closed"
  /\ UNCHANGED <<ownerOnly, stopping>>

\* A condition wait may return without a signal: every waiter tests again.
SpuriousWakeup ==
  \/ /\ \E w \in OnNotEmpty : worker' = [worker EXCEPT ![w] = "enter"]
     /\ UNCHANGED <<ringVars, active, stopping, workerJob, spawned, producerVars,
                    owner, handled>>
  \/ /\ \E p \in OnNotFull : producer' = [producer EXCEPT ![p] = "enter"]
     /\ UNCHANGED <<ringVars, active, stopping, workerVars, producerJob, submitted,
                    owner, handled>>
  \/ /\ owner \in {"wait_parked", "drain_parked"}
     /\ BroadcastIdle
     /\ UNCHANGED <<ownerOnly, stopping>>

Closed == owner = "closed" /\ UNCHANGED vars

-----------------------------------------------------------------------------
WorkerStep(w) == WorkerWaits(w) \/ WorkerExits(w) \/ Take(w) \/ Finish(w)

SubmitStep(p) == SubmitWaits(p) \/ SubmitPuts(p)

OwnerStep == Spawn \/ WaitIdle \/ Stop \/ Join

Next ==
  \/ \E w \in Workers : WorkerStep(w)
  \/ \E p \in Producers : CallSubmit(p) \/ SubmitStep(p)
  \/ OwnerStep \/ CallWaitIdle \/ CallDeinit \/ SpawnFails
  \/ SpuriousWakeup
  \/ Closed

Spec == Init /\ [][Next]_vars

\* Every thread that can take the mutex gets it in the end, and handlers end.
\* Nobody has to submit, to wait for idle, to deinit, or to wake spuriously.
Fairness ==
  /\ \A w \in Workers : WF_vars(WorkerStep(w))
  /\ \A p \in Producers : WF_vars(SubmitStep(p))
  /\ WF_vars(OwnerStep)

FairSpec == Spec /\ Fairness

-----------------------------------------------------------------------------
(* Properties.                                                             *)

Entering == {w \in Workers : worker[w] = "enter"}
Running  == {w \in Workers : worker[w] = "run"}
Putting  == {p \in Producers : producer[p] = "enter"}

\* Every variable keeps its type; the ring's indices stay inside the ring.
TypeOK ==
  /\ jobs \in [Slots -> Jobs \cup {NoJob}]
  /\ head \in Slots /\ tail \in Slots /\ count \in 0 .. Cap
  /\ active \in 0 .. NWorkers
  /\ stopping \in {0, 1}
  /\ spawned \in 0 .. NWorkers
  /\ worker \in [Workers -> {"off", "enter", "parked", "run", "exited"}]
  /\ workerJob \in [Workers -> Jobs \cup {NoJob}]
  /\ producer \in [Producers -> {"out", "enter", "parked"}]
  /\ producerJob \in [Producers -> Jobs \cup {NoJob}]
  /\ owner \in {"spawn", "serve", "wait", "wait_parked", "drain", "drain_parked",
                "stop", "join", "closed"}
  /\ submitted \in 0 .. MaxJobs
  /\ handled \in SUBSET (Jobs \cup {NoJob})

\* No wakeup is lost.  If a worker is parked, there are at least as many workers
\* on their way to the ring as there are jobs in it; if a producer is parked, at
\* least as many producers on their way as there are free slots; if the owner is
\* parked, there is work left; and nobody is parked once the workers must stop.
WakeupInv ==
  /\ OnNotEmpty # {} => Cardinality(Entering) >= count
  /\ OnNotFull # {} => Cardinality(Putting) >= Cap - count
  /\ owner \in {"wait_parked", "drain_parked"} => ~Idle
  /\ stopping # 0 => OnNotEmpty = {}

\* The counters tell the truth: spawned workers are the ones that run, active is
\* the number of jobs being handled, and tail follows head by count.
CountInv ==
  /\ \A w \in Workers : worker[w] = "off" <=> w > spawned
  /\ active = Cardinality(Running)
  /\ tail = IF head + count < Cap THEN head + count ELSE head + count - Cap
  /\ owner \in {"spawn", "stop", "join", "closed"} => Idle
  /\ owner \notin {"serve", "wait", "wait_parked"} =>
       \A p \in Producers : producer[p] = "out"
  /\ stopping # 0 <=> owner \in {"join", "closed"}

\* The pool implements JobPool: first come, first started, once each, and
\* waitIdle and deinit return only when nothing is queued and nothing runs.
Queue == [i \in 1 .. count |-> jobs[(head + i - 1) % Cap]]

Phase == IF owner \in {"spawn", "serve"} THEN "open"
         ELSE IF owner \in {"wait", "wait_parked"} THEN "waiting"
         ELSE IF owner \in {"drain", "drain_parked"} THEN "draining"
         ELSE "stopped"

Abstract == INSTANCE JobPool WITH
              phase <- Phase, queue <- Queue,
              running <- {workerJob[w] : w \in Running}, done <- handled

ImplementsJobPool == Abstract!JPSpec

\* A job that was accepted is handled in the end.
JobsHandled ==
  \A j \in Jobs : (\E i \in 1 .. count : Queue[i] = j) ~> j \in handled

\* deinit returns, and so does init after a failed spawn.
DeinitReturns == owner \in {"drain", "join"} ~> owner = "closed"
=============================================================================
