----------------------------- MODULE BatchPool ------------------------------
(***************************************************************************)
(* thread_pool.zig, BatchPool: a caller hands a batch of indexed items to  *)
(* helper threads through a descriptor in shared memory, three atomics     *)
(* (generation, task_cursor, done_count), an exit flag, and two futexes.   *)
(* One action is one atomic access, one futex call, or one run of plain    *)
(* reads or writes that no other thread's step may overlap (which is what  *)
(* NoDescriptorRace is about).                                             *)
(*                                                                         *)
(* Worker 0 is the calling thread, workers 1 .. nWorkers-1 the helpers.    *)
(* Abstracted: CPU pinning, NUMA, arenas and prewarmed scratch (no step of *)
(* the dispatch depends on them); Worker.run is one step that always ends. *)
(***************************************************************************)
EXTENDS Integers, FiniteSets

CONSTANTS
  MaxWorkers,   \* bound: the largest pool that is created
  MaxItems,     \* bound: the largest total_items
  MaxBatches,   \* bound: runBatch calls on one pool
  GenMod        \* generation is an unsigned counter that wraps here (2^32)

ASSUME BoundsAssumption ==
  /\ MaxWorkers \in Nat \ {0}
  /\ MaxItems \in Nat
  /\ MaxBatches \in Nat

ASSUME GenModAssumption == GenMod \in Nat /\ GenMod >= 2

VARIABLES
  nWorkers,     \* arenas.len
  spawned,      \* helper threads started by initWithOptions
  batch,        \* runBatch calls so far; names the ctx the caller passed
  task,         \* task_ctx, task_total, task_partitioned
  cursor,       \* task_cursor
  generation, doneCount, exitFlag,
  pc,           \* what each worker does next
  gen,          \* helperMain's g
  seen,         \* helperMain's last_seen_gen
  job,          \* the copy of the descriptor a worker runs from
  item,         \* the index a worker is about to run, or its range's next one
  awaited,      \* runBatchMode's d
  ran           \* ran[b][i]: how often Worker.run was called on item i of batch b

poolVars   == <<nWorkers, spawned>>
sharedVars == <<task, cursor, generation, doneCount, exitFlag>>
localVars  == <<gen, seen, job, item, awaited>>
vars == <<nWorkers, spawned, batch, task, cursor, generation, doneCount,
          exitFlag, pc, gen, seen, job, item, awaited, ran>>

Workers == 0 .. MaxWorkers - 1
Helpers == 1 .. MaxWorkers - 1
Items   == 0 .. MaxItems - 1
Batches == 1 .. MaxBatches

NoTask == [ctx |-> 0, total |-> 0, part |-> 0]
Tasks  == [ctx : 0 .. MaxBatches, total : 0 .. MaxItems, part : {0, 1}]

CallerStates ==
  {"none", "spawn", "idle", "serial", "reset_cursor", "reset_done", "bump",
   "wake", "claim", "run", "await", "wait_done", "parked_done", "bump_exit",
   "wake_exit", "join", "closed"}
HelperStates ==
  {"off", "load", "check", "wait", "parked", "check2", "read", "claim", "run",
   "done", "wake_done", "exited"}

Goto(w, s) == pc' = [pc EXCEPT ![w] = s]
At(w, s)   == pc[w] = s

\* The partition of a batch: worker w owns RangeStart(w) .. RangeEnd(w)-1.
RangeStart(total, w) == (total * w) \div nWorkers
\* Fault: the end of a range rounds up, so neighbouring ranges overlap.
RangeEndRoundedUp(total, w) == (total * (w + 1) + nWorkers - 1) \div nWorkers

RangeEnd(total, w)   == (total * (w + 1)) \div nWorkers

Init ==
  /\ nWorkers = 1
  /\ spawned = 0
  /\ batch = 0
  /\ task = NoTask
  /\ cursor = 0
  /\ generation = 0
  /\ doneCount = 0
  /\ exitFlag = 0
  /\ pc = [w \in Workers |-> IF w = 0 THEN "none" ELSE "off"]
  /\ gen = [h \in Workers |-> 0]
  /\ seen = [h \in Workers |-> 0]
  /\ job = [w \in Workers |-> NoTask]
  /\ item = [w \in Workers |-> 0]
  /\ awaited = 0
  /\ ran = [b \in Batches |-> [i \in Items |-> 0]]

-----------------------------------------------------------------------------
(* Futexes.  A wake moves up to n of the threads parked on the word; which *)
(* ones is the kernel's choice.                                            *)

ParkedHelpers == {h \in Helpers : At(h, "parked")}

\* futexWake(&generation, n), after which the caller is at s.
WakeHelpers(n, s) ==
  \E woken \in SUBSET ParkedHelpers :
    /\ Cardinality(woken) = (IF Cardinality(ParkedHelpers) <= n
                             THEN Cardinality(ParkedHelpers) ELSE n)
    /\ pc' = [w \in Workers |-> IF w = 0 THEN s
                                ELSE IF w \in woken THEN "load" ELSE pc[w]]

-----------------------------------------------------------------------------
(* init and deinit.                                                        *)

\* n = @max(1, n_workers): a pool of one worker has no helpers at all.
PoolInit(n) ==
  /\ At(0, "none")
  /\ nWorkers' = IF n = 0 THEN 1 ELSE n
  /\ Goto(0, IF n <= 1 THEN "idle" ELSE "spawn")
  /\ UNCHANGED <<spawned, batch, ran, sharedVars, localVars>>

SpawnHelper ==
  /\ At(0, "spawn")
  /\ spawned < nWorkers - 1
  /\ spawned' = spawned + 1
  /\ pc' = [w \in Workers |-> IF w = spawned + 1 THEN "load"
                             ELSE IF w = 0 /\ spawned + 1 = nWorkers - 1 THEN "idle"
                             ELSE pc[w]]
  /\ UNCHANGED <<nWorkers, batch, ran, sharedVars, localVars>>

\* std.Thread.spawn fails: the errdefer stops the helpers already started.
SpawnFails ==
  /\ At(0, "spawn")
  /\ exitFlag' = IF spawned > 0 THEN 1 ELSE 0
  /\ Goto(0, IF spawned > 0 THEN "bump_exit" ELSE "closed")
  /\ UNCHANGED <<poolVars, batch, task, cursor, generation, doneCount,
                 localVars, ran>>

\* deinit is called between batches: exit_flag is stored first.
Deinit ==
  /\ At(0, "idle")
  /\ exitFlag' = IF nWorkers > 1 THEN 1 ELSE 0
  /\ Goto(0, IF nWorkers > 1 THEN "bump_exit" ELSE "closed")
  /\ UNCHANGED <<poolVars, batch, task, cursor, generation, doneCount,
                 localVars, ran>>

\* Fault: only exit_flag and a wake, no new generation.
BumpExitSkipped ==
  /\ At(0, "bump_exit")
  /\ Goto(0, "wake_exit")
  /\ UNCHANGED <<poolVars, batch, sharedVars, localVars, ran>>

BumpExit ==
  /\ At(0, "bump_exit")
  /\ generation' = (generation + 1) % GenMod
  /\ Goto(0, "wake_exit")
  /\ UNCHANGED <<poolVars, batch, task, cursor, doneCount, exitFlag,
                 localVars, ran>>

WakeExit ==
  /\ At(0, "wake_exit")
  /\ WakeHelpers(spawned, "join")
  /\ UNCHANGED <<poolVars, batch, sharedVars, localVars, ran>>

\* join returns for every helper, then the shared block is destroyed.
JoinAndFree ==
  /\ At(0, "join")
  /\ \A h \in 1 .. spawned : At(h, "exited")
  /\ Goto(0, "closed")
  /\ UNCHANGED <<poolVars, batch, sharedVars, localVars, ran>>

-----------------------------------------------------------------------------
(* runBatchMode, the caller's side.                                        *)

\* total_items == 0 returns at once.
RunNothing ==
  /\ At(0, "idle")
  /\ batch < MaxBatches
  /\ batch' = batch + 1
  /\ UNCHANGED <<poolVars, sharedVars, pc, localVars, ran>>

\* What the two other cases have in common: the caller keeps its arguments.
TakeBatch(total, part) ==
  /\ At(0, "idle")
  /\ batch < MaxBatches
  /\ batch' = batch + 1
  /\ job' = [job EXCEPT ![0] = [ctx |-> batch + 1, total |-> total, part |-> part]]
  /\ item' = [item EXCEPT ![0] = 0]
  /\ UNCHANGED <<poolVars, cursor, generation, doneCount, exitFlag, gen, seen,
                 awaited, ran>>

\* A pool of one worker has nobody to hand the batch to.
RunBatchSerial(total, part) ==
  /\ nWorkers = 1
  /\ TakeBatch(total, part)
  /\ Goto(0, "serial")
  /\ UNCHANGED task

\* The descriptor is written with plain stores.
RunBatch(total, part) ==
  /\ nWorkers > 1
  /\ TakeBatch(total, part)
  /\ task' = [ctx |-> batch + 1, total |-> total, part |-> part]
  /\ Goto(0, "reset_cursor")

ResetCursor ==
  /\ At(0, "reset_cursor")
  /\ cursor' = 0
  /\ Goto(0, "reset_done")
  /\ UNCHANGED <<poolVars, batch, task, generation, doneCount, exitFlag,
                 localVars, ran>>

\* Fault: done_count keeps the last batch's count.
ResetDoneForgotten ==
  /\ At(0, "reset_done")
  /\ Goto(0, "bump")
  /\ UNCHANGED <<poolVars, batch, sharedVars, localVars, ran>>

ResetDone ==
  /\ At(0, "reset_done")
  /\ doneCount' = 0
  /\ Goto(0, "bump")
  /\ UNCHANGED <<poolVars, batch, task, cursor, generation, exitFlag,
                 localVars, ran>>

Bump ==
  /\ At(0, "bump")
  /\ generation' = (generation + 1) % GenMod
  /\ Goto(0, "wake")
  /\ UNCHANGED <<poolVars, batch, task, cursor, doneCount, exitFlag,
                 localVars, ran>>

Wake ==
  /\ At(0, "wake")
  /\ WakeHelpers(nWorkers - 1, "claim")
  /\ UNCHANGED <<poolVars, batch, sharedVars, localVars, ran>>

\* The loop of a pool without helpers: one item, or the return after the last.
RunSerial ==
  /\ At(0, "serial")
  /\ item[0] < job[0].total
  /\ ran' = [ran EXCEPT ![batch][item[0]] = @ + 1]
  /\ item' = [item EXCEPT ![0] = @ + 1]
  /\ UNCHANGED <<poolVars, batch, pc, sharedVars, gen, seen, job, awaited>>

ReturnSerial ==
  /\ At(0, "serial")
  /\ item[0] = job[0].total
  /\ Goto(0, "idle")
  /\ UNCHANGED <<poolVars, batch, sharedVars, localVars, ran>>

\* Fault: the caller leaves when one helper has yet to signal.
AwaitOneShort ==
  /\ At(0, "await")
  /\ awaited' = doneCount
  /\ Goto(0, IF doneCount >= nWorkers - 2 THEN "idle" ELSE "wait_done")
  /\ UNCHANGED <<poolVars, batch, sharedVars, gen, seen, job, item, ran>>

\* Load done_count: return when every helper has signalled.
Await ==
  /\ At(0, "await")
  /\ awaited' = doneCount
  /\ Goto(0, IF doneCount >= nWorkers - 1 THEN "idle" ELSE "wait_done")
  /\ UNCHANGED <<poolVars, batch, sharedVars, gen, seen, job, item, ran>>

\* Fault: the caller parks without comparing done_count to the value it saw.
WaitDoneBlind ==
  /\ At(0, "wait_done")
  /\ Goto(0, "parked_done")
  /\ UNCHANGED <<poolVars, batch, sharedVars, localVars, ran>>

WaitDone ==
  /\ At(0, "wait_done")
  /\ Goto(0, IF doneCount = awaited THEN "parked_done" ELSE "await")
  /\ UNCHANGED <<poolVars, batch, sharedVars, localVars, ran>>

-----------------------------------------------------------------------------
(* The item loop, which the caller and the helpers share.                  *)

\* Where a worker that has no more items goes.
AfterItems(w) == IF w = 0 THEN "await" ELSE "done"

\* Dynamic mode: fetchAdd on the shared cursor.
ClaimNext(w) ==
  /\ At(w, "claim")
  /\ job[w].part = 0
  /\ cursor' = cursor + 1
  /\ item' = [item EXCEPT ![w] = cursor]
  /\ Goto(w, IF cursor < job[w].total THEN "run" ELSE AfterItems(w))
  /\ UNCHANGED <<poolVars, batch, task, generation, doneCount, exitFlag, gen,
                 seen, job, awaited, ran>>

\* Partitioned mode: the next index of the worker's own range.
ClaimOwn(w) ==
  /\ At(w, "claim")
  /\ job[w].part # 0
  /\ Goto(w, IF item[w] < RangeEnd(job[w].total, w) THEN "run" ELSE AfterItems(w))
  /\ UNCHANGED <<poolVars, batch, sharedVars, localVars, ran>>

RunItem(w) ==
  /\ At(w, "run")
  /\ ran' = [ran EXCEPT ![job[w].ctx][item[w]] = @ + 1]
  /\ item' = [item EXCEPT ![w] = @ + 1]
  /\ Goto(w, "claim")
  /\ UNCHANGED <<poolVars, batch, sharedVars, gen, seen, job, awaited>>

-----------------------------------------------------------------------------
(* helperMain.                                                             *)

LoadGeneration(h) ==
  /\ At(h, "load")
  /\ gen' = [gen EXCEPT ![h] = generation]
  /\ Goto(h, "check")
  /\ UNCHANGED <<poolVars, batch, sharedVars, seen, job, item, awaited, ran>>

\* exit_flag is looked at before the generation that was loaded.
CheckGeneration(h) ==
  /\ At(h, "check")
  /\ Goto(h, IF exitFlag # 0 THEN "exited"
             ELSE IF gen[h] # seen[h] THEN "check2" ELSE "wait")
  /\ seen' = [seen EXCEPT ![h] = IF exitFlag # 0 THEN @ ELSE gen[h]]
  /\ UNCHANGED <<poolVars, batch, sharedVars, gen, job, item, awaited, ran>>

\* futexWait(&generation, last_seen_gen): the kernel compares, then parks.
WaitGeneration(h) ==
  /\ At(h, "wait")
  /\ Goto(h, IF generation = seen[h] THEN "parked" ELSE "load")
  /\ UNCHANGED <<poolVars, batch, sharedVars, localVars, ran>>

CheckExit(h) ==
  /\ At(h, "check2")
  /\ Goto(h, IF exitFlag # 0 THEN "exited" ELSE "read")
  /\ UNCHANGED <<poolVars, batch, sharedVars, localVars, ran>>

\* A null task_run is skipped; otherwise the range or the cursor is worked off.
ReadTask(h) ==
  /\ At(h, "read")
  /\ job' = [job EXCEPT ![h] = task]
  /\ item' = [item EXCEPT ![h] = RangeStart(task.total, h)]
  /\ Goto(h, IF task.ctx = 0 THEN "done" ELSE "claim")
  /\ UNCHANGED <<poolVars, batch, sharedVars, gen, seen, awaited, ran>>

SignalDone(h) ==
  /\ At(h, "done")
  /\ doneCount' = doneCount + 1
  /\ Goto(h, "wake_done")
  /\ UNCHANGED <<poolVars, batch, task, cursor, generation, exitFlag, localVars, ran>>

\* futexWake(&done_count, 1).  The caller may have returned already.
WakeCaller(h) ==
  /\ At(h, "wake_done")
  /\ pc' = [w \in Workers |-> IF w = h THEN "load"
                             ELSE IF w = 0 /\ pc[0] = "parked_done" THEN "await"
                             ELSE pc[w]]
  /\ UNCHANGED <<poolVars, batch, sharedVars, localVars, ran>>

\* A futex wait may return for no reason (a signal): every waiter loops.
SpuriousWake(h) ==
  /\ At(h, "parked")
  /\ Goto(h, "load")
  /\ UNCHANGED <<poolVars, batch, sharedVars, localVars, ran>>

SpuriousReturn ==
  /\ At(0, "parked_done")
  /\ Goto(0, "await")
  /\ UNCHANGED <<poolVars, batch, sharedVars, localVars, ran>>

-----------------------------------------------------------------------------
CallerStep ==
  \/ ResetCursor \/ ResetDone \/ Bump \/ Wake \/ Await \/ WaitDone
  \/ RunSerial \/ ReturnSerial \/ ClaimNext(0) \/ ClaimOwn(0) \/ RunItem(0)
  \/ SpawnHelper \/ BumpExit \/ WakeExit \/ JoinAndFree

HelperStep(h) ==
  \/ LoadGeneration(h) \/ CheckGeneration(h) \/ WaitGeneration(h)
  \/ CheckExit(h) \/ ReadTask(h) \/ SignalDone(h) \/ WakeCaller(h)
  \/ ClaimNext(h) \/ ClaimOwn(h) \/ RunItem(h)

\* What the pool's user and the operating system may do.
Environment ==
  \/ \E n \in 0 .. MaxWorkers : PoolInit(n)
  \/ SpawnFails
  \/ Deinit
  \/ RunNothing
  \/ \E total \in 1 .. MaxItems, part \in {0, 1} :
       RunBatchSerial(total, part) \/ RunBatch(total, part)
  \/ \E h \in Helpers : SpuriousWake(h)
  \/ SpuriousReturn

\* Nothing is left to do: every thread has ended (so a deadlock is a hang).
Closed == At(0, "closed") /\ UNCHANGED vars

Next ==
  \/ CallerStep
  \/ \E h \in Helpers : HelperStep(h)
  \/ Environment
  \/ Closed

Spec == Init /\ [][Next]_vars

\* The operating system keeps scheduling every runnable thread.  Nobody is
\* obliged to start a batch, to deinit, or to be woken spuriously.
Fairness ==
  /\ WF_vars(CallerStep)
  /\ \A h \in Helpers : WF_vars(HelperStep(h))

FairSpec == Spec /\ Fairness

-----------------------------------------------------------------------------
(* Where a batch stands, in terms of the program counters.                 *)

Preparing   == pc[0] \in {"reset_cursor", "reset_done", "bump"}
Dispatching == pc[0] \in {"wake", "claim", "run", "await", "wait_done", "parked_done"}
Exiting     == pc[0] \in {"bump_exit", "wake_exit", "join", "closed"}

\* A helper that looks for a new generation, and one that serves a batch.
Looking(h) == pc[h] \in {"load", "check", "wait", "parked", "wake_done"}
Serving(h) == pc[h] \in {"check2", "read", "claim", "run", "done"}

\* The helpers that have counted themselves into done_count.
Signalled == {h \in Helpers : Looking(h) /\ seen[h] = generation}

\* Worker w is in its item loop, or has left it, in the batch in progress.
Working(w)  == pc[w] \in {"claim", "run"}
Finished(w) == IF w = 0 THEN pc[0] \in {"await", "wait_done", "parked_done"}
               ELSE pc[w] = "done" \/ w \in Signalled

-----------------------------------------------------------------------------
(* Properties.                                                             *)

\* Program counters: the caller and the helpers run different code.
ControlOK ==
  /\ pc \in [Workers -> CallerStates \cup HelperStates]
  /\ pc[0] \in CallerStates
  /\ \A h \in Helpers : pc[h] \in HelperStates

\* Every variable keeps its type; the generation counter wraps.
TypeOK ==
  /\ ControlOK
  /\ nWorkers \in 1 .. MaxWorkers
  /\ spawned \in 0 .. MaxWorkers - 1
  /\ batch \in 0 .. MaxBatches
  /\ task \in Tasks
  /\ cursor \in Nat
  /\ generation \in 0 .. GenMod - 1
  /\ doneCount \in Nat
  /\ exitFlag \in {0, 1}
  /\ gen \in [Workers -> 0 .. GenMod - 1]
  /\ seen \in [Workers -> 0 .. GenMod - 1]
  /\ job \in [Workers -> Tasks]
  /\ item \in [Workers -> Nat]
  /\ awaited \in Nat
  /\ ran \in [Batches -> [Items -> Nat]]

\* While the caller is outside runBatch, or writes the next descriptor, no
\* helper is anywhere it could read the descriptor or touch the caller's ctx:
\* the plain (non-atomic) descriptor fields are never raced on, and ctx, which
\* lives in the caller's frame, is never used after runBatch returned.
NoDescriptorRace ==
  ~Dispatching => \A h \in Helpers : ~Serving(h)

\* Threads: helper h exists once it is spawned; nobody exits before exit_flag.
ThreadInv ==
  /\ spawned <= nWorkers - 1
  /\ \A h \in Helpers : (pc[h] = "off") <=> (h > spawned)
  /\ pc[0] = "none" => spawned = 0
  /\ pc[0] = "spawn" => spawned < nWorkers - 1
  /\ pc[0] \notin {"none", "spawn"} /\ ~Exiting => spawned = nWorkers - 1
  /\ (Preparing \/ Dispatching) => nWorkers > 1
  /\ exitFlag # 0 => Exiting
  /\ (pc[0] \in {"bump_exit", "wake_exit", "join"}) => exitFlag # 0
  /\ \A h \in Helpers : pc[h] = "exited" => exitFlag # 0
  /\ pc[0] = "closed" => \A h \in Helpers : pc[h] \in {"off", "exited"}

\* Generations: a helper serves only the generation in progress, a loaded
\* generation is the old or the new one, and while none is in progress all
\* helpers are up to date, the ones that are yet to be spawned included.
UpToDate ==
  \A h \in Helpers : pc[h] # "off" =>
    /\ Looking(h) \/ pc[h] = "exited"
    /\ seen[h] = generation

GenerationInv ==
  /\ \A h \in Helpers : pc[h] = "off" => seen[h] = 0
  /\ pc[0] \in {"none", "spawn"} => generation = 0
  /\ \A h \in Helpers : pc[h] = "check" => gen[h] \in {seen[h], generation}
  /\ \A h \in Helpers : Serving(h) => Dispatching /\ seen[h] = generation
  /\ ~Dispatching /\ (~Exiting \/ pc[0] = "bump_exit") => UpToDate

\* Completion: done_count is the number of helpers through with this batch.
DoneInv ==
  /\ pc[0] = "bump" => doneCount = 0
  /\ Dispatching => doneCount = Cardinality(Signalled)

\* Descriptor: what a worker works from is what this call of runBatch wrote.
TaskInv ==
  /\ (Preparing \/ Dispatching) => job[0] = task
  /\ (Preparing \/ Dispatching \/ pc[0] = "serial") =>
       /\ batch \in Batches
       /\ job[0].ctx = batch
       /\ job[0].total > 0
  /\ \A h \in Helpers : Working(h) => job[h] = task

\* Items not yet reached have not run.
FreshInv ==
  /\ \A b \in Batches, i \in Items : b > batch => ran[b][i] = 0
  /\ Preparing => \A i \in Items : ran[batch][i] = 0
  /\ pc[0] \in {"reset_cursor", "reset_done", "bump"} => item[0] = 0
  /\ pc[0] \in {"reset_done", "bump"} => cursor = 0
  /\ pc[0] = "serial" =>
       /\ item[0] <= job[0].total
       /\ \A i \in Items : ran[batch][i] = IF i < item[0] THEN 1 ELSE 0

\* Dynamic mode: a claimed item has run or has one worker about to run it.
DynamicInv ==
  Dispatching /\ task.part = 0 =>
    /\ \A w \in Workers : pc[w] = "run" => item[w] < cursor /\ item[w] < task.total
    /\ \A v, w \in Workers :
         pc[v] = "run" /\ pc[w] = "run" /\ v # w => item[v] # item[w]
    /\ \A i \in 0 .. task.total - 1 :
         ran[batch][i] = IF i < cursor /\ ~\E w \in Workers : pc[w] = "run" /\ item[w] = i
                         THEN 1 ELSE 0
    /\ \A w \in Workers : Finished(w) => cursor >= task.total

\* Partitioned mode: a worker's range has run up to the worker's position.
OwnRangeInv(w) ==
  LET lo == RangeStart(task.total, w)
      hi == RangeEnd(task.total, w)
  IN  /\ Working(w) => item[w] \in lo .. hi
      /\ pc[w] = "run" => item[w] < hi
      /\ \A i \in lo .. hi - 1 :
           ran[batch][i] = IF Finished(w) \/ (Working(w) /\ i < item[w]) THEN 1 ELSE 0

PartitionInv ==
  Dispatching /\ task.part # 0 =>
    /\ pc[0] = "wake" => item[0] = 0
    /\ \A w \in 0 .. nWorkers - 1 : OwnRangeInv(w)

\* The handshake between the caller and the helpers is an invariant by itself.
HandshakeInv == ThreadInv /\ GenerationInv /\ DoneInv /\ TaskInv

\* The inductive invariant: the handshake, and which items have run.
DispatchInv == HandshakeInv /\ FreshInv /\ DynamicInv /\ PartitionInv

\* The pool implements ForkJoin: each item of a batch runs exactly once, with
\* the ctx of its own batch, before runBatch returns and never after it.
Phase == IF pc[0] = "idle" THEN "ready"
         ELSE IF pc[0] \in {"none", "spawn"} \/ Exiting THEN "closed" ELSE "open"

Fork == INSTANCE ForkJoin WITH phase <- Phase, total <- job[0].total

ImplementsForkJoin == Fork!FJSpec

\* A batch that was handed out returns: no wakeup of a helper or of the caller
\* is lost, whenever the helpers last looked at the generation.
BatchReturns == Phase = "open" ~> Phase = "ready"

\* deinit, and the error path of init after a failed spawn, end: every helper
\* sees exit_flag whatever it was doing, and is joined.
PoolStops == Exiting ~> pc[0] = "closed"
=============================================================================
