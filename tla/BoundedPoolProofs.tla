-------------------------- MODULE BoundedPoolProofs ---------------------------
(***************************************************************************)
(* BoundedPool for any number of workers, producers and jobs and any       *)
(* capacity: the types, the counters, and that no wakeup is lost; then     *)
(* that it implements JobPool: accepted jobs are started in their order,   *)
(* each of them once, and nobody sees the pool idle while it is not.       *)
(***************************************************************************)
EXTENDS BoundedPool, FiniteSetTheorems, SequenceTheorems, TLAPS

\* The ring has at least one slot.
LEMMA CapPositive == Cap \in Nat /\ Cap >= 1
BY PoolAssumption DEF Cap

\* Advancing goes to the next slot, and from the last one to the first.
LEMMA AdvanceValue ==
  ASSUME NEW i \in Slots
  PROVE  Advance(i) \in Slots /\ Advance(i) = IF i + 1 < Cap THEN i + 1 ELSE 0
<1>1. i \in Nat /\ i + 1 <= Cap
  BY CapPositive DEF Slots
<1>2. CASE i + 1 < Cap
  <2>1. (i + 1) % Cap = i + 1
    BY <1>1, <1>2, CapPositive
  <2> QED BY <1>1, <1>2, <2>1, CapPositive DEF Advance, Slots
<1>3. CASE i + 1 = Cap
  <2>1. Cap % Cap = 0
    BY CapPositive
  <2> QED BY <1>1, <1>3, <2>1, CapPositive DEF Advance, Slots
<1> QED BY <1>1, <1>2, <1>3, CapPositive

\* The sets that are counted are finite; at most NWorkers jobs are handled.
LEMMA Counted ==
  /\ IsFiniteSet(Running) /\ Cardinality(Running) \in 0 .. NWorkers
  /\ IsFiniteSet(Entering) /\ Cardinality(Entering) \in Nat
  /\ IsFiniteSet(Putting) /\ Cardinality(Putting) \in Nat
<1>1. NWorkers \in Nat /\ IsFiniteSet(Producers)
  BY PoolAssumption
<1>2. IsFiniteSet(Workers) /\ Cardinality(Workers) = NWorkers
  <2>1. 1 \in Int /\ NWorkers \in Int
    BY <1>1
  <2> QED BY <1>1, <2>1, PoolAssumption, FS_Interval DEF Workers
<1>3. Running \in SUBSET Workers /\ Entering \in SUBSET Workers
      /\ Putting \in SUBSET Producers
  BY DEF Running, Entering, Putting
<1>4. /\ IsFiniteSet(Running) /\ Cardinality(Running) <= NWorkers
      /\ IsFiniteSet(Entering) /\ IsFiniteSet(Putting)
  BY <1>1, <1>2, <1>3, FS_Subset
<1> QED BY <1>1, <1>4, FS_CardinalityType

\* The initial state satisfies the invariants.
LEMMA PoolInit == Init => TypeOK /\ CountInv /\ WakeupInv
<1> SUFFICES ASSUME Init PROVE TypeOK /\ CountInv /\ WakeupInv
  OBVIOUS
<1>1. Running = {} /\ OnNotEmpty = {} /\ OnNotFull = {}
  BY DEF Init, Running, OnNotEmpty, OnNotFull
<1>2. Cardinality(Running) = 0
  BY <1>1, FS_EmptySet
<1>3. TypeOK
  BY CapPositive, PoolAssumption DEF Init, TypeOK, Slots
<1>4. CountInv
  BY <1>2, CapPositive DEF Init, CountInv, Idle, Workers
<1>5. WakeupInv
  BY <1>1 DEF Init, WakeupInv
<1> QED BY <1>3, <1>4, <1>5

\* No step leaves the types.
LEMMA TypeStep ==
  ASSUME TypeOK, CountInv, [Next]_vars
  PROVE  TypeOK'
<1> USE PoolAssumption
    DEF TypeOK, Workers, Jobs, NoJob, ringVars, workerVars, producerVars, ownerOnly,
        SignalNotEmpty, SignalNotFull, BroadcastNotEmpty, BroadcastIdle, OnNotEmpty, OnNotFull
<1>1. ASSUME NEW w \in Workers, WorkerStep(w) PROVE TypeOK'
  <2>1. CASE WorkerWaits(w)
    BY <2>1 DEF WorkerWaits
  <2>2. CASE WorkerExits(w)
    BY <2>2 DEF WorkerExits
  <2>3. CASE Take(w)
    <3>1. active + 1 <= NWorkers
      <4>1. w \notin Running /\ Running \cup {w} \in SUBSET Workers
        BY <2>3 DEF Take, Running
      <4>2. IsFiniteSet(Workers) /\ Cardinality(Workers) = NWorkers
        BY PoolAssumption, FS_Interval DEF Workers
      <4>3. Cardinality(Running \cup {w}) = Cardinality(Running) + 1
        BY <4>1, Counted, FS_AddElement
      <4> QED BY <4>1, <4>2, <4>3, FS_Subset DEF CountInv
    <3>2. producer' \in [Producers -> {"out", "enter", "parked"}]
      BY <2>3 DEF Take
    <3>3. head' \in Slots
      BY <2>3, AdvanceValue DEF Take
    <3>4. count' \in 0 .. Cap
      BY <2>3, CapPositive DEF Take
    <3> QED BY <2>3, <3>1, <3>2, <3>3, <3>4 DEF Take
  <2>4. CASE Finish(w)
    <3>1. active >= 1
      <4>1. w \in Running
        BY <2>4 DEF Finish, Running
      <4>2. Cardinality(Running) # 0
        BY <4>1, Counted, FS_EmptySet
      <4> QED BY <4>2, Counted DEF CountInv
    <3>2. owner' \in {"spawn", "serve", "wait", "wait_parked", "drain", "drain_parked",
                      "stop", "join", "closed"}
      BY <2>4 DEF Finish
    <3>3. active' \in 0 .. NWorkers
      BY <2>4, <3>1 DEF Finish
    <3>6. handled' \in SUBSET (Jobs \cup {NoJob})
      <4>1. workerJob[w] \in Jobs \cup {NoJob}
        OBVIOUS
      <4> QED BY <2>4, <4>1 DEF Finish
    <3>4. worker' \in [Workers -> {"off", "enter", "parked", "run", "exited"}]
      BY <2>4 DEF Finish
    <3>5. UNCHANGED <<ringVars, stopping, workerJob, spawned, producerVars>>
      BY <2>4 DEF Finish
    <3> QED BY <3>2, <3>3, <3>4, <3>5, <3>6
  <2> QED BY <1>1, <2>1, <2>2, <2>3, <2>4 DEF WorkerStep
<1>2. ASSUME NEW p \in Producers, CallSubmit(p) \/ SubmitStep(p) PROVE TypeOK'
  <2>1. CASE CallSubmit(p)
    BY <2>1 DEF CallSubmit
  <2>2. CASE SubmitWaits(p)
    BY <2>2 DEF SubmitWaits
  <2>3. CASE SubmitPuts(p)
    <3>1. worker' \in [Workers -> {"off", "enter", "parked", "run", "exited"}]
      BY <2>3 DEF SubmitPuts
    <3>2. tail' \in Slots /\ count' \in 0 .. Cap
      BY <2>3, AdvanceValue, CapPositive DEF SubmitPuts, PutJob
    <3>3. jobs' \in [Slots -> Jobs \cup {NoJob}]
             /\ producer' \in [Producers -> {"out", "enter", "parked"}]
      BY <2>3 DEF SubmitPuts, PutJob
    <3> QED BY <2>3, <3>1, <3>2, <3>3 DEF SubmitPuts, PutJob
  <2> QED BY <1>2, <2>1, <2>2, <2>3 DEF SubmitStep
<1>3. CASE OwnerStep \/ CallWaitIdle \/ CallDeinit \/ SpawnFails
  <2>1. CASE Spawn
    BY <2>1 DEF Spawn
  <2>2. CASE WaitIdle
    BY <2>2 DEF WaitIdle
  <2>3. CASE Stop
    BY <2>3 DEF Stop
  <2>4. CASE Join
    BY <2>4 DEF Join
  <2>5. CASE CallWaitIdle
    BY <2>5 DEF CallWaitIdle
  <2>6. CASE CallDeinit
    BY <2>6 DEF CallDeinit
  <2>7. CASE SpawnFails
    BY <2>7 DEF SpawnFails
  <2> QED BY <1>3, <2>1, <2>2, <2>3, <2>4, <2>5, <2>6, <2>7 DEF OwnerStep
<1>4. CASE SpuriousWakeup
  BY <1>4 DEF SpuriousWakeup
<1>5. CASE UNCHANGED vars
  BY <1>5 DEF vars
<1> QED BY <1>1, <1>2, <1>3, <1>4, <1>5 DEF Next, Closed

\* The counters stay true, and no thread is where the owner's position excludes it.
LEMMA CountStep ==
  ASSUME TypeOK, CountInv, [Next]_vars
  PROVE  CountInv'
<1> USE PoolAssumption
    DEF TypeOK, CountInv, Idle, ringVars, workerVars, producerVars, ownerOnly,
        SignalNotEmpty, SignalNotFull, BroadcastNotEmpty, BroadcastIdle, OnNotEmpty, OnNotFull
<1>1. ASSUME NEW w \in Workers, WorkerStep(w) PROVE CountInv'
  <2>1. CASE WorkerWaits(w)
    <3>1. Running' = Running
      BY <2>1 DEF WorkerWaits, Running
    <3>2. \A v \in Workers : worker'[v] = "off" <=> v > spawned'
      BY <2>1 DEF WorkerWaits
    <3> QED BY <2>1, <3>1, <3>2 DEF WorkerWaits
  <2>2. CASE WorkerExits(w)
    <3>1. Running' = Running
      BY <2>2 DEF WorkerExits, Running
    <3>2. \A v \in Workers : worker'[v] = "off" <=> v > spawned'
      BY <2>2 DEF WorkerExits
    <3> QED BY <2>2, <3>1, <3>2 DEF WorkerExits
  <2>3. CASE Take(w)
    <3>1. w \notin Running /\ Running' = Running \cup {w}
      BY <2>3 DEF Take, Running
    <3>2. active' = Cardinality(Running')
      BY <2>3, <3>1, Counted, FS_AddElement DEF Take
    <3>3. tail' = IF head' + count' < Cap THEN head' + count' ELSE head' + count' - Cap
      <4>1. /\ head' = (IF head + 1 < Cap THEN head + 1 ELSE 0)
            /\ count' = count - 1 /\ tail' = tail /\ count # 0
        BY <2>3, AdvanceValue DEF Take
      <4>2. head \in Nat /\ head < Cap /\ count \in Nat /\ count <= Cap
        BY CapPositive DEF Slots
      <4>3. tail = IF head + count < Cap THEN head + count ELSE head + count - Cap
        OBVIOUS
      <4> HIDE DEF TypeOK, CountInv
      <4> QED BY <4>1, <4>2, <4>3, CapPositive
    <3>4. UNCHANGED <<owner, stopping>> /\ count # 0
      BY <2>3 DEF Take
    <3>6. \A v \in Workers : worker'[v] = "off" <=> v > spawned'
      BY <2>3 DEF Take
    <3>5. owner \notin {"serve", "wait", "wait_parked"} => producer' = producer
      BY <2>3 DEF Take
    <3> QED BY <3>2, <3>3, <3>4, <3>5, <3>6
  <2>4. CASE Finish(w)
    <3>1. w \in Running /\ Running' = Running \ {w}
      BY <2>4 DEF Finish, Running
    <3>2. active' = Cardinality(Running') /\ active # 0
      BY <2>4, <3>1, Counted, FS_RemoveElement, FS_EmptySet DEF Finish
    <3>3. UNCHANGED <<head, tail, count, stopping, producer>>
      BY <2>4 DEF Finish
    <3>6. \A v \in Workers : worker'[v] = "off" <=> v > spawned'
      BY <2>4 DEF Finish
    <3>4. owner \notin {"spawn", "stop", "join", "closed"}
      BY <3>2
    <3>5. owner' = owner \/ (owner = "wait_parked" /\ owner' = "wait")
            \/ (owner = "drain_parked" /\ owner' = "drain")
      BY <2>4 DEF Finish
    <3> QED BY <3>2, <3>3, <3>4, <3>5, <3>6
  <2> QED BY <1>1, <2>1, <2>2, <2>3, <2>4 DEF WorkerStep
<1>2. ASSUME NEW p \in Producers, CallSubmit(p) \/ SubmitStep(p) PROVE CountInv'
  <2>1. CASE CallSubmit(p)
    <3>1. Running' = Running
      BY <2>1 DEF CallSubmit, Running
    <3>2. \A v \in Workers : worker'[v] = "off" <=> v > spawned'
      BY <2>1 DEF CallSubmit
    <3> QED BY <2>1, <3>1, <3>2 DEF CallSubmit
  <2>2. CASE SubmitWaits(p)
    <3>1. Running' = Running
      BY <2>2 DEF SubmitWaits, Running
    <3>2. \A v \in Workers : worker'[v] = "off" <=> v > spawned'
      BY <2>2 DEF SubmitWaits
    <3> QED BY <2>2, <3>1, <3>2 DEF SubmitWaits
  <2>3. CASE SubmitPuts(p)
    <3>1. Running' = Running
      BY <2>3 DEF SubmitPuts, PutJob, Running
    <3>2. UNCHANGED <<active, owner, stopping, head>>
      BY <2>3 DEF SubmitPuts, PutJob
    <3>6. \A v \in Workers : worker'[v] = "off" <=> v > spawned'
      BY <2>3 DEF SubmitPuts, PutJob
    <3>3. tail' = IF head' + count' < Cap THEN head' + count' ELSE head' + count' - Cap
      BY <2>3, AdvanceValue, CapPositive DEF SubmitPuts, PutJob, Slots
    <3>4. owner \in {"serve", "wait", "wait_parked"}
      BY <2>3 DEF SubmitPuts, PutJob
    <3> QED BY <3>1, <3>2, <3>3, <3>4, <3>6
  <2> QED BY <1>2, <2>1, <2>2, <2>3 DEF SubmitStep
<1>3. CASE OwnerStep \/ CallWaitIdle \/ CallDeinit \/ SpawnFails
  <2>1. CASE Spawn
    <3>1. spawned + 1 \in Workers /\ worker[spawned + 1] = "off"
      BY <2>1 DEF Spawn, Workers
    <3>2. worker' = [worker EXCEPT ![spawned + 1] = "enter"] /\ spawned' = spawned + 1
      BY <2>1 DEF Spawn
    <3>3. Running' = Running
      BY <3>1, <3>2 DEF Running
    <3>4. ASSUME NEW v \in Workers PROVE worker'[v] = "off" <=> v > spawned'
      <4>1. CASE v = spawned + 1
        BY <3>1, <3>2, <4>1
      <4>2. CASE v # spawned + 1
        BY <3>1, <3>2, <4>2 DEF Workers
      <4> QED BY <4>1, <4>2
    <3> QED BY <2>1, <3>3, <3>4 DEF Spawn
  <2>2. CASE WaitIdle
    <3>1. Running' = Running
      BY <2>2 DEF WaitIdle, Running
    <3>2. \A v \in Workers : worker'[v] = "off" <=> v > spawned'
      BY <2>2 DEF WaitIdle
    <3> QED BY <2>2, <3>1, <3>2 DEF WaitIdle
  <2>3. CASE Stop
    <3>1. Running' = Running
      BY <2>3 DEF Stop, Running
    <3>2. \A v \in Workers : worker'[v] = "off" <=> v > spawned'
      BY <2>3 DEF Stop
    <3> QED BY <2>3, <3>1, <3>2 DEF Stop
  <2>4. CASE Join
    <3>1. Running' = Running
      BY <2>4 DEF Join, Running
    <3>2. \A v \in Workers : worker'[v] = "off" <=> v > spawned'
      BY <2>4 DEF Join
    <3> QED BY <2>4, <3>1, <3>2 DEF Join
  <2>5. CASE CallWaitIdle
    <3>1. Running' = Running
      BY <2>5 DEF CallWaitIdle, Running
    <3>2. \A v \in Workers : worker'[v] = "off" <=> v > spawned'
      BY <2>5 DEF CallWaitIdle
    <3> QED BY <2>5, <3>1, <3>2 DEF CallWaitIdle
  <2>6. CASE CallDeinit
    <3>1. Running' = Running
      BY <2>6 DEF CallDeinit, Running
    <3>2. \A v \in Workers : worker'[v] = "off" <=> v > spawned'
      BY <2>6 DEF CallDeinit
    <3> QED BY <2>6, <3>1, <3>2 DEF CallDeinit
  <2>7. CASE SpawnFails
    <3>1. Running' = Running
      BY <2>7 DEF SpawnFails, Running
    <3>2. \A v \in Workers : worker'[v] = "off" <=> v > spawned'
      BY <2>7 DEF SpawnFails
    <3> QED BY <2>7, <3>1, <3>2 DEF SpawnFails
  <2> QED BY <1>3, <2>1, <2>2, <2>3, <2>4, <2>5, <2>6, <2>7 DEF OwnerStep
<1>4. CASE SpuriousWakeup
  <2>1. Running' = Running
    BY <1>4 DEF SpuriousWakeup, Running
  <2> QED BY <1>4, <2>1 DEF SpuriousWakeup
<1>5. CASE UNCHANGED vars
  <2>1. Running' = Running
    BY <1>5 DEF vars, Running
  <2> QED BY <1>5, <2>1 DEF vars
<1> QED BY <1>1, <1>2, <1>3, <1>4, <1>5 DEF Next, Closed

\* A signal takes one thread from the wait to the ones on their way, if any waits.
LEMMA SignalledWorker ==
  ASSUME TypeOK, SignalNotEmpty
  PROVE  /\ OnNotEmpty' # {} => OnNotEmpty # {}
               /\ Cardinality(Entering') = Cardinality(Entering) + 1
         /\ \A v \in Workers : worker'[v] = worker[v] \/ v \in OnNotEmpty
<1>1. CASE OnNotEmpty = {}
  BY <1>1 DEF SignalNotEmpty, OnNotEmpty
<1>2. CASE OnNotEmpty # {}
  <2>1. PICK v \in OnNotEmpty : worker' = [worker EXCEPT ![v] = "enter"]
    BY <1>2 DEF SignalNotEmpty
  <2>2. v \notin Entering /\ Entering' = Entering \cup {v}
    BY <2>1 DEF Entering, OnNotEmpty, TypeOK
  <2>3. Cardinality(Entering') = Cardinality(Entering) + 1
    BY <2>2, Counted, FS_AddElement
  <2> QED BY <1>2, <2>1, <2>3 DEF TypeOK
<1> QED BY <1>1, <1>2

\* And the same for the producers.
LEMMA SignalledProducer ==
  ASSUME TypeOK, SignalNotFull
  PROVE  OnNotFull' # {} => OnNotFull # {} /\ Cardinality(Putting') = Cardinality(Putting) + 1
<1>1. CASE OnNotFull = {}
  BY <1>1 DEF SignalNotFull, OnNotFull
<1>2. CASE OnNotFull # {}
  <2>1. PICK q \in OnNotFull : producer' = [producer EXCEPT ![q] = "enter"]
    BY <1>2 DEF SignalNotFull
  <2>2. q \notin Putting /\ Putting' = Putting \cup {q}
    BY <2>1 DEF Putting, OnNotFull, TypeOK
  <2>3. Cardinality(Putting') = Cardinality(Putting) + 1
    BY <2>2, Counted, FS_AddElement
  <2> QED BY <1>2, <2>3
<1> QED BY <1>1, <1>2

\* No step loses a wakeup.
LEMMA WakeupStep ==
  ASSUME TypeOK, CountInv, WakeupInv, [Next]_vars
  PROVE  WakeupInv'
<1> USE PoolAssumption
    DEF TypeOK, WakeupInv, Idle, ringVars, workerVars, producerVars, ownerOnly,
        SignalNotEmpty, SignalNotFull, BroadcastNotEmpty, BroadcastIdle, OnNotEmpty, OnNotFull
<1>1. ASSUME NEW w \in Workers, WorkerStep(w) PROVE WakeupInv'
  <2>1. CASE WorkerWaits(w)
    <3>1. count' = 0 /\ UNCHANGED <<owner, stopping, active, count>> /\ stopping = 0
      BY <2>1 DEF WorkerWaits
    <3>2. Putting' = Putting /\ OnNotFull' = OnNotFull
      BY <2>1 DEF WorkerWaits, Putting
    <3>3. Cardinality(Entering)' \in Nat
      <4>1. Entering' \in SUBSET Workers /\ IsFiniteSet(Workers)
        BY <2>1, FS_Interval DEF WorkerWaits, Entering, Workers
      <4> QED BY <4>1, FS_Subset, FS_CardinalityType
    <3> QED BY <3>1, <3>2, <3>3
  <2>2. CASE WorkerExits(w)
    <3>1. OnNotEmpty' = {} /\ UNCHANGED <<owner, stopping, active, count>>
      BY <2>2 DEF WorkerExits
    <3>2. Putting' = Putting /\ OnNotFull' = OnNotFull
      BY <2>2 DEF WorkerExits, Putting
    <3> QED BY <3>1, <3>2
  <2>3. CASE Take(w)
    <3>1. /\ w \in Entering /\ Entering' = Entering \ {w} /\ OnNotEmpty' = OnNotEmpty
      BY <2>3 DEF Take, Entering
    <3>2. Cardinality(Entering') = Cardinality(Entering) - 1
      BY <3>1, Counted, FS_RemoveElement
    <3>3. count' = count - 1 /\ active' = active + 1 /\ UNCHANGED <<owner, stopping>>
      BY <2>3 DEF Take
    <3>4. OnNotFull' # {} => OnNotFull # {} /\ Cardinality(Putting') = Cardinality(Putting) + 1
      BY <2>3, SignalledProducer DEF Take
    <3> QED BY <3>2, <3>3, <3>1, <3>4, Counted, CapPositive
  <2>4. CASE Finish(w)
    <3>1. /\ w \notin Entering /\ Entering' = Entering \cup {w} /\ OnNotEmpty' = OnNotEmpty
      BY <2>4 DEF Finish, Entering
    <3>2. Cardinality(Entering') = Cardinality(Entering) + 1
      BY <3>1, Counted, FS_AddElement
    <3>3. UNCHANGED <<count, stopping>> /\ active' = active - 1
      BY <2>4 DEF Finish
    <3>4. Putting' = Putting /\ OnNotFull' = OnNotFull
      BY <2>4 DEF Finish, Putting
    <3>5. owner' \in {"wait_parked", "drain_parked"} => owner' = owner /\ ~(count = 0
             /\ active = 1)
      BY <2>4 DEF Finish
    <3> QED BY <3>1, <3>2, <3>3, <3>4, <3>5, Counted
  <2> QED BY <1>1, <2>1, <2>2, <2>3, <2>4 DEF WorkerStep
<1>2. ASSUME NEW p \in Producers, CallSubmit(p) \/ SubmitStep(p) PROVE WakeupInv'
  <2>1. CASE CallSubmit(p)
    <3>1. Entering' = Entering /\ OnNotEmpty' = OnNotEmpty /\ OnNotFull' = OnNotFull
      BY <2>1 DEF CallSubmit, Entering
    <3>2. p \notin Putting /\ Putting' = Putting \cup {p}
      BY <2>1 DEF CallSubmit, Putting
    <3>3. Cardinality(Putting') = Cardinality(Putting) + 1
      BY <3>2, Counted, FS_AddElement
    <3>4. UNCHANGED <<owner, stopping, active, count>>
      BY <2>1 DEF CallSubmit
    <3> QED BY <3>1, <3>3, <3>4, Counted, CapPositive
  <2>2. CASE SubmitWaits(p)
    <3>1. Entering' = Entering /\ OnNotEmpty' = OnNotEmpty
      BY <2>2 DEF SubmitWaits, Entering
    <3>2. count' = Cap /\ UNCHANGED <<owner, stopping, active, count>>
      BY <2>2 DEF SubmitWaits
    <3>3. Cardinality(Putting)' \in Nat
      <4>1. Putting' \in SUBSET Producers
        BY <2>2 DEF SubmitWaits, Putting
      <4> QED BY <4>1, FS_Subset, FS_CardinalityType
    <3> QED BY <3>1, <3>2, <3>3, CapPositive
  <2>3. CASE SubmitPuts(p)
    <3>1. /\ p \in Putting /\ Putting' = Putting \ {p} /\ OnNotFull' = OnNotFull
      BY <2>3 DEF SubmitPuts, PutJob, Putting
    <3>2. Cardinality(Putting') = Cardinality(Putting) - 1
      BY <3>1, Counted, FS_RemoveElement
    <3>3. count' = count + 1 /\ UNCHANGED <<active, owner, stopping>>
      BY <2>3 DEF SubmitPuts, PutJob
    <3>4. OnNotEmpty' # {} => OnNotEmpty # {}
             /\ Cardinality(Entering') = Cardinality(Entering) + 1
      BY <2>3, SignalledWorker DEF SubmitPuts
    <3>5. stopping # 0 => OnNotEmpty' = {}
      BY <3>4
    <3> QED BY <3>1, <3>2, <3>3, <3>4, <3>5, Counted, CapPositive
  <2> QED BY <1>2, <2>1, <2>2, <2>3 DEF SubmitStep
<1>3. CASE OwnerStep \/ CallWaitIdle \/ CallDeinit \/ SpawnFails
  <2>1. CASE Spawn
    <3>1. /\ spawned + 1 \in Workers /\ worker[spawned + 1] = "off"
          /\ worker' = [worker EXCEPT ![spawned + 1] = "enter"]
      BY <2>1 DEF Spawn, CountInv, Workers
    <3>2. /\ spawned + 1 \notin Entering /\ Entering' = Entering \cup {spawned + 1}
          /\ OnNotEmpty' = OnNotEmpty
      BY <3>1 DEF Entering
    <3>3. Cardinality(Entering') = Cardinality(Entering) + 1
      BY <3>2, Counted, FS_AddElement
    <3>4. Putting' = Putting /\ OnNotFull' = OnNotFull
      BY <2>1 DEF Spawn, Putting
    <3>5. UNCHANGED <<stopping, active, count>> /\ owner' \in {"serve", "spawn"}
      BY <2>1 DEF Spawn
    <3> QED BY <3>2, <3>3, <3>4, <3>5, Counted
  <2>2. CASE WaitIdle
    <3>1. Entering' = Entering /\ OnNotEmpty' = OnNotEmpty
      BY <2>2 DEF WaitIdle, Entering
    <3>2. Putting' = Putting /\ OnNotFull' = OnNotFull
      BY <2>2 DEF WaitIdle, Putting
    <3> QED BY <2>2, <3>1, <3>2 DEF WaitIdle
  <2>3. CASE Stop
    <3>1. OnNotEmpty' = {} /\ owner' = "join"
      BY <2>3 DEF Stop
    <3>2. Putting' = Putting /\ OnNotFull' = OnNotFull /\ count' = count
      BY <2>3 DEF Stop, Putting
    <3> QED BY <3>1, <3>2
  <2>4. CASE Join
    <3>1. Entering' = Entering /\ OnNotEmpty' = OnNotEmpty
      BY <2>4 DEF Join, Entering
    <3>2. Putting' = Putting /\ OnNotFull' = OnNotFull
      BY <2>4 DEF Join, Putting
    <3> QED BY <2>4, <3>1, <3>2 DEF Join
  <2>5. CASE CallWaitIdle
    <3>1. Entering' = Entering /\ OnNotEmpty' = OnNotEmpty
      BY <2>5 DEF CallWaitIdle, Entering
    <3>2. Putting' = Putting /\ OnNotFull' = OnNotFull
      BY <2>5 DEF CallWaitIdle, Putting
    <3> QED BY <2>5, <3>1, <3>2 DEF CallWaitIdle
  <2>6. CASE CallDeinit
    <3>1. Entering' = Entering /\ OnNotEmpty' = OnNotEmpty
      BY <2>6 DEF CallDeinit, Entering
    <3>2. Putting' = Putting /\ OnNotFull' = OnNotFull
      BY <2>6 DEF CallDeinit, Putting
    <3> QED BY <2>6, <3>1, <3>2 DEF CallDeinit
  <2>7. CASE SpawnFails
    <3>1. OnNotEmpty' = {} /\ owner' = "join"
      BY <2>7 DEF SpawnFails
    <3>2. Putting' = Putting /\ OnNotFull' = OnNotFull /\ count' = count
      BY <2>7 DEF SpawnFails, Putting
    <3> QED BY <3>1, <3>2
  <2> QED BY <1>3, <2>1, <2>2, <2>3, <2>4, <2>5, <2>6, <2>7 DEF OwnerStep
<1>4. CASE SpuriousWakeup
  <2>1. ASSUME NEW v \in OnNotEmpty, worker' = [worker EXCEPT ![v] = "enter"],
               UNCHANGED <<ringVars, active, stopping, workerJob, spawned, producerVars,
                           owner, handled>>
        PROVE  WakeupInv'
    <3>1. /\ v \notin Entering /\ Entering' = Entering \cup {v}
          /\ OnNotEmpty' \in SUBSET OnNotEmpty
      BY <2>1 DEF Entering
    <3>2. Cardinality(Entering') = Cardinality(Entering) + 1
      BY <3>1, Counted, FS_AddElement
    <3>3. Putting' = Putting /\ OnNotFull' = OnNotFull
      BY <2>1 DEF Putting
    <3> QED BY <2>1, <3>1, <3>2, <3>3, Counted
  <2>2. ASSUME NEW q \in OnNotFull, producer' = [producer EXCEPT ![q] = "enter"],
               UNCHANGED <<ringVars, active, stopping, workerVars, producerJob, submitted,
                           owner, handled>>
        PROVE  WakeupInv'
    <3>1. /\ q \notin Putting /\ Putting' = Putting \cup {q}
          /\ OnNotFull' \in SUBSET OnNotFull
      BY <2>2 DEF Putting
    <3>2. Cardinality(Putting') = Cardinality(Putting) + 1
      BY <3>1, Counted, FS_AddElement
    <3>3. Entering' = Entering /\ OnNotEmpty' = OnNotEmpty
      BY <2>2 DEF Entering
    <3> QED BY <2>2, <3>1, <3>2, <3>3, Counted, CapPositive
  <2>3. ASSUME BroadcastIdle, UNCHANGED <<ownerOnly, stopping>> PROVE WakeupInv'
    <3>1. /\ Entering' = Entering /\ OnNotEmpty' = OnNotEmpty
          /\ Putting' = Putting /\ OnNotFull' = OnNotFull
      BY <2>3 DEF Entering, Putting
    <3> QED BY <2>3, <3>1
  <2> QED BY <1>4, <2>1, <2>2, <2>3 DEF SpuriousWakeup
<1>5. CASE UNCHANGED vars
  <2>1. /\ Entering' = Entering /\ OnNotEmpty' = OnNotEmpty
        /\ Putting' = Putting /\ OnNotFull' = OnNotFull
    BY <1>5 DEF vars, Entering, Putting
  <2> QED BY <1>5, <2>1 DEF vars
<1> QED BY <1>1, <1>2, <1>3, <1>4, <1>5 DEF Next, Closed

\* Every variable keeps its type, whatever the size of the pool.
THEOREM PoolTypeCorrect == Spec => []TypeOK
<1>1. TypeOK /\ CountInv /\ [Next]_vars => TypeOK' /\ CountInv'
  BY TypeStep, CountStep
<1> QED BY <1>1, PoolInit, PTL DEF Spec

\* spawned, active, tail and the owner's position are what the threads do.
THEOREM PoolCountsCorrect == Spec => []CountInv
<1>1. TypeOK /\ CountInv /\ [Next]_vars => TypeOK' /\ CountInv'
  BY TypeStep, CountStep
<1> QED BY <1>1, PoolInit, PTL DEF Spec

\* No worker sleeps while a job is due to it, no producer while a slot is, no
\* owner while the pool is idle, and nobody once the workers are to stop.
THEOREM NoLostWakeup == Spec => []WakeupInv
<1>1. /\ TypeOK /\ CountInv /\ WakeupInv /\ [Next]_vars
      => TypeOK' /\ CountInv' /\ WakeupInv'
  BY TypeStep, CountStep, WakeupStep
<1> QED BY <1>1, PoolInit, PTL DEF Spec

-----------------------------------------------------------------------------
(* Where the jobs are, and the refinement of JobPool.                      *)

\* The producers inside submit.
Inside == {p \in Producers : producer[p] # "out"}

\* The jobs submitted and not handled.
Waiting == (1 .. submitted) \ handled

\* A job that was submitted and is not handled is in one place only: with the
\* producer that submits it, in one slot of the ring, or with one worker.
WorkInv ==
  /\ handled \in SUBSET (1 .. submitted)
  /\ \A i \in 1 .. count : Queue[i] \in Waiting
  /\ \A p \in Inside : producerJob[p] \in Waiting
  /\ \A w \in Running : workerJob[w] \in Waiting
  /\ \A i, k \in 1 .. count : Queue[i] = Queue[k] => i = k
  /\ \A p, q \in Inside : producerJob[p] = producerJob[q] => p = q
  /\ \A v, w \in Running : workerJob[v] = workerJob[w] => v = w
  /\ \A i \in 1 .. count : \A p \in Inside : Queue[i] # producerJob[p]
  /\ \A i \in 1 .. count : \A w \in Running : Queue[i] # workerJob[w]
  /\ \A p \in Inside : \A w \in Running : producerJob[p] # workerJob[w]

\* The jobs whose handlers run.
Handling == {workerJob[w] : w \in Running}

-----------------------------------------------------------------------------
\* A place of the ring counted from its head wraps around once at most.
LEMMA Wrapped ==
  ASSUME NEW h \in Slots, NEW i \in 0 .. Cap - 1
  PROVE  (h + i) % Cap = IF h + i < Cap THEN h + i ELSE h + i - Cap
<1>1. h \in Nat /\ i \in Nat /\ h + i < 2 * Cap /\ Cap \in Nat /\ Cap >= 1
  BY CapPositive DEF Slots
<1>2. CASE h + i < Cap
  BY <1>1, <1>2
<1>3. CASE h + i >= Cap
  <2>1. PICK k \in Nat : k = h + i - Cap
    BY <1>1, <1>3
  <2>2. k < Cap /\ h + i = Cap + k
    BY <1>1, <2>1
  <2>3. (Cap + k) % Cap = k
    BY <1>1, <2>1, <2>2
  <2> QED BY <1>1, <1>3, <2>1, <2>2, <2>3
<1> QED BY <1>1, <1>2, <1>3

\* The queue is a sequence of jobs, and its places are different slots.
QueueInRing ==
  /\ Queue \in Seq(Jobs \cup {NoJob})
  /\ Len(Queue) = count
  /\ \A i \in 1 .. count :
       Queue[i] = jobs[IF head + i - 1 < Cap THEN head + i - 1 ELSE head + i - 1 - Cap]

LEMMA QueueIsSeq == TypeOK => QueueInRing
<1> SUFFICES ASSUME TypeOK PROVE QueueInRing
  OBVIOUS
<1>1. count \in Nat /\ count <= Cap
  BY CapPositive DEF TypeOK
<1>2. ASSUME NEW i \in 1 .. count
      PROVE  /\ (head + i - 1) % Cap \in Slots
             /\ (head + i - 1) % Cap
                 = IF head + i - 1 < Cap THEN head + i - 1 ELSE head + i - 1 - Cap
  <2>1. i - 1 \in 0 .. Cap - 1 /\ head + (i - 1) = head + i - 1
    BY <1>1, CapPositive DEF TypeOK, Slots
  <2>2. (head + (i - 1)) % Cap
           = IF head + (i - 1) < Cap THEN head + (i - 1) ELSE head + (i - 1) - Cap
    BY <2>1, Wrapped DEF TypeOK
  <2>3. (head + i - 1) % Cap
           = IF head + i - 1 < Cap THEN head + i - 1 ELSE head + i - 1 - Cap
    BY <2>1, <2>2
  <2> QED BY <1>1, <2>3, CapPositive DEF TypeOK, Slots
<1>3. Queue \in [1 .. count -> Jobs \cup {NoJob}]
  BY <1>2 DEF Queue, TypeOK
<1> QED BY <1>1, <1>2, <1>3, LenProperties, SeqDef DEF Queue, QueueInRing

\* What leaves the ring alone leaves the queue alone.
LEMMA QueueKept ==
  ASSUME UNCHANGED <<jobs, head, count>>
  PROVE  Queue' = Queue
BY DEF Queue

\* submit appends its job.
LEMMA QueuePut ==
  ASSUME TypeOK, TypeOK', CountInv, NEW p \in Producers, SubmitPuts(p)
  PROVE  /\ Len(Queue) < Cap
         /\ count' = count + 1
         /\ Queue' = Append(Queue, producerJob[p])
<1>1. /\ jobs' = [jobs EXCEPT ![tail] = producerJob[p]]
      /\ count' = count + 1 /\ head' = head /\ count < Cap
  BY DEF SubmitPuts, PutJob
<1>2. count \in Nat /\ head \in Nat /\ head < Cap /\ tail \in Slots
      /\ tail = (IF head + count < Cap THEN head + count ELSE head + count - Cap)
  BY CapPositive DEF TypeOK, CountInv, Slots
<1>3. /\ Len(Queue) = count /\ Queue \in Seq(Jobs \cup {NoJob})
      /\ \A i \in 1 .. count :
           Queue[i] = jobs[IF head + i - 1 < Cap THEN head + i - 1 ELSE head + i - 1 - Cap]
  BY QueueIsSeq DEF QueueInRing
<1>4. /\ Len(Queue') = count + 1 /\ Queue' \in Seq(Jobs \cup {NoJob})
      /\ \A i \in 1 .. count + 1 :
           Queue'[i] = jobs'[IF head + i - 1 < Cap THEN head + i - 1 ELSE head + i - 1 - Cap]
  <2>1. QueueInRing'
    BY QueueIsSeq, PTL
  <2> QED BY <1>1, <2>1 DEF QueueInRing, Jobs
<1>5. ASSUME NEW i \in 1 .. count PROVE Queue'[i] = Queue[i]
  <2> DEFINE s == IF head + i - 1 < Cap THEN head + i - 1 ELSE head + i - 1 - Cap
  <2>1. s # tail /\ s \in Slots
    BY <1>1, <1>2, CapPositive DEF Slots
  <2>2. Queue'[i] = jobs'[s] /\ Queue[i] = jobs[s]
    BY <1>2, <1>3, <1>4
  <2> HIDE DEF s
  <2> QED BY <1>1, <2>1, <2>2 DEF TypeOK
<1>6. Queue'[count + 1] = producerJob[p]
  <2>1. Queue'[count + 1] = jobs'[tail]
    BY <1>2, <1>4, CapPositive
  <2> QED BY <1>1, <1>2, <2>1 DEF TypeOK
<1>7. producerJob[p] \in Jobs \cup {NoJob}
  BY DEF TypeOK
<1>8. /\ Append(Queue, producerJob[p]) \in Seq(Jobs \cup {NoJob})
      /\ Len(Append(Queue, producerJob[p])) = count + 1
      /\ \A i \in 1 .. count : Append(Queue, producerJob[p])[i] = Queue[i]
      /\ Append(Queue, producerJob[p])[count + 1] = producerJob[p]
  BY <1>3, <1>7, AppendProperties
<1>9. \A i \in 1 .. count + 1 : Queue'[i] = Append(Queue, producerJob[p])[i]
  BY <1>2, <1>5, <1>6, <1>8
<1> QED BY <1>1, <1>3, <1>4, <1>8, <1>9, SeqEqual

\* A worker takes the job at the head.
LEMMA QueueTaken ==
  ASSUME TypeOK, TypeOK', NEW w \in Workers, Take(w)
  PROVE  /\ Queue # <<>>
         /\ count' = count - 1 /\ count >= 1
         /\ workerJob'[w] = Head(Queue) /\ Head(Queue) = Queue[1]
         /\ Queue' = Tail(Queue)
         /\ \A i \in 1 .. count' : Queue'[i] = Queue[i + 1]
<1>1. /\ jobs' = jobs /\ count' = count - 1 /\ head' = Advance(head) /\ count # 0
      /\ workerJob' = [workerJob EXCEPT ![w] = jobs[head]]
  BY DEF Take
<1>2. count \in Nat /\ head \in Nat /\ head < Cap /\ count >= 1 /\ count <= Cap
      /\ head' = (IF head + 1 < Cap THEN head + 1 ELSE 0)
  <2>1. head \in Slots /\ count \in 0 .. Cap
    BY DEF TypeOK
  <2> QED BY <1>1, <2>1, AdvanceValue, CapPositive DEF Slots
<1>3. /\ Len(Queue) = count /\ Queue \in Seq(Jobs \cup {NoJob})
      /\ \A i \in 1 .. count :
           Queue[i] = jobs[IF head + i - 1 < Cap THEN head + i - 1 ELSE head + i - 1 - Cap]
  BY QueueIsSeq DEF QueueInRing
<1>4. /\ Len(Queue') = count - 1 /\ Queue' \in Seq(Jobs \cup {NoJob})
      /\ \A i \in 1 .. count - 1 :
           Queue'[i] = jobs[IF head' + i - 1 < Cap THEN head' + i - 1 ELSE head' + i - 1 - Cap]
  <2>1. QueueInRing'
    BY QueueIsSeq, PTL
  <2> QED BY <1>1, <2>1 DEF QueueInRing, Jobs
<1>5. Queue # <<>>
  BY <1>2, <1>3
<1>6. /\ Head(Queue) = Queue[1] /\ Tail(Queue) \in Seq(Jobs \cup {NoJob})
      /\ Len(Tail(Queue)) = count - 1
      /\ \A i \in 1 .. count - 1 : Tail(Queue)[i] = Queue[i + 1]
  BY <1>2, <1>3, <1>5, HeadTailProperties
<1>7. ASSUME NEW i \in 1 .. count - 1 PROVE Queue'[i] = Queue[i + 1]
  <2>1. i + 1 \in 1 .. count /\ i \in Nat
    BY <1>2
  <2>2. (IF head' + i - 1 < Cap THEN head' + i - 1 ELSE head' + i - 1 - Cap)
         = (IF head + (i + 1) - 1 < Cap THEN head + (i + 1) - 1 ELSE head + (i + 1) - 1 - Cap)
    BY <1>2, <2>1, CapPositive
  <2> QED BY <1>3, <1>4, <2>1, <2>2
<1>8. Queue' = Tail(Queue)
  BY <1>3, <1>4, <1>6, <1>7, SeqEqual
<1>9. workerJob'[w] = Queue[1]
  <2>1. Queue[1] = jobs[head]
    BY <1>2, <1>3
  <2> QED BY <1>1, <2>1 DEF TypeOK
<1> QED BY <1>1, <1>2, <1>5, <1>6, <1>7, <1>8, <1>9

-----------------------------------------------------------------------------
\* What the abstract pool sees.
View == <<Phase, Queue, Handling, handled>>

\* The sets of threads after a step: who stays inside submit, who handles a job.
LEMMA InsideAfter ==
  ASSUME TypeOK
  PROVE  /\ UNCHANGED producer => Inside' = Inside
         /\ SignalNotFull => Inside' = Inside
         /\ \A p \in Producers : SubmitWaits(p) => Inside' = Inside
         /\ \A p \in Producers : SubmitPuts(p) => p \in Inside /\ Inside' = Inside \ {p}
         /\ \A p \in Producers :
              CallSubmit(p) => p \notin Inside /\ Inside' = Inside \cup {p}
BY DEF TypeOK, Inside, SignalNotFull, OnNotFull, SubmitWaits, SubmitPuts, PutJob, CallSubmit

\* And the workers.
LEMMA RunningAfter ==
  ASSUME TypeOK
  PROVE  /\ UNCHANGED worker => Running' = Running
         /\ SignalNotEmpty => Running' = Running
         /\ BroadcastNotEmpty => Running' = Running
         /\ \A w \in Workers : WorkerWaits(w) \/ WorkerExits(w) => Running' = Running
         /\ \A w \in Workers : Take(w) => w \notin Running /\ Running' = Running \cup {w}
         /\ \A w \in Workers : Finish(w) => w \in Running /\ Running' = Running \ {w}
BY DEF TypeOK, Running, SignalNotEmpty, BroadcastNotEmpty, OnNotEmpty, WorkerWaits,
       WorkerExits, Take, Finish

\* A step that moves no job keeps every job where it is.
LEMMA WorkKept ==
  ASSUME WorkInv, UNCHANGED <<jobs, head, count, producerJob, workerJob, submitted, handled>>,
         Inside' = Inside, Running' = Running
  PROVE  WorkInv' /\ UNCHANGED <<Queue, Handling, handled>>
<1>1. Queue' = Queue
  BY QueueKept
<1>2. Handling' = Handling
  BY DEF Handling
<1>3. WorkInv'
  BY <1>1 DEF WorkInv, Waiting
<1> QED BY <1>1, <1>2, <1>3

\* A call of submit names a new job.
LEMMA WorkCalled ==
  ASSUME TypeOK, TypeOK', CountInv, WorkInv, NEW p \in Producers, CallSubmit(p)
  PROVE  WorkInv' /\ UNCHANGED View
<1>1. /\ submitted' = submitted + 1 /\ producerJob' = [producerJob EXCEPT ![p] = submitted + 1]
      /\ UNCHANGED <<jobs, head, count, worker, workerJob, handled, owner>>
  BY DEF CallSubmit, ringVars, workerVars
<1>2. Queue' = Queue /\ Running' = Running /\ Phase' = Phase
  BY <1>1, QueueKept DEF Running, Phase
<1>3. p \notin Inside /\ Inside' = Inside \cup {p}
  BY InsideAfter
<1>4. Handling' = Handling
  BY <1>1, <1>2 DEF Handling
<1>5. /\ producerJob'[p] = submitted + 1
      /\ \A q \in Inside : producerJob'[q] = producerJob[q]
  BY <1>1, <1>3 DEF TypeOK, Inside
<1>6. /\ Waiting' = Waiting \cup {submitted + 1} /\ submitted + 1 \notin Waiting
      /\ handled' \in SUBSET (1 .. submitted')
  <2>1. submitted \in Nat /\ handled \in SUBSET (1 .. submitted)
    BY PoolAssumption DEF TypeOK, WorkInv
  <2> QED BY <1>1, <2>1 DEF Waiting
<1>7. WorkInv'
  BY <1>1, <1>2, <1>3, <1>5, <1>6 DEF WorkInv
<1> QED BY <1>1, <1>2, <1>4, <1>7 DEF View

\* submit puts its job at the end of the queue.
LEMMA WorkPut ==
  ASSUME TypeOK, TypeOK', CountInv, WorkInv, NEW p \in Producers, SubmitPuts(p)
  PROVE  WorkInv' /\ Abstract!Accept
<1>1. UNCHANGED <<producerJob, workerJob, submitted, handled, owner>> /\ count \in Nat
  BY CapPositive DEF SubmitPuts, PutJob, TypeOK
<1>2. p \in Inside /\ Inside' = Inside \ {p} /\ Running' = Running
  BY InsideAfter, RunningAfter DEF SubmitPuts
<1>3. /\ Len(Queue) < Cap /\ count' = count + 1
      /\ Queue' = Append(Queue, producerJob[p])
  BY QueuePut
<1>4. Queue \in Seq(Jobs \cup {NoJob}) /\ Len(Queue) = count
  BY QueueIsSeq DEF QueueInRing
<1>5. producerJob[p] \in Waiting /\ producerJob[p] \in Jobs \cup {NoJob}
  BY <1>2 DEF WorkInv, TypeOK
<1>6. /\ \A i \in 1 .. count : Queue'[i] = Queue[i]
      /\ Queue'[count + 1] = producerJob[p]
  BY <1>3, <1>4, <1>5, AppendProperties
<1>7. WorkInv'
  <2> DEFINE j == producerJob[p]
  <2>2. \A i \in 1 .. count' : i \in 1 .. count \/ i = count + 1
    BY <1>1, <1>3
  <2>1. \A i \in 1 .. count' : Queue'[i] = j \/ (i \in 1 .. count /\ Queue'[i] = Queue[i])
    BY <1>6, <2>2
  <2>3. /\ \A q \in Inside' : producerJob[q] # j
        /\ \A w \in Running : workerJob[w] # j
        /\ \A i \in 1 .. count : Queue[i] # j
    BY <1>2 DEF WorkInv
  <2>4. \A i, k \in 1 .. count' : Queue'[i] = Queue'[k] => i = k
    BY <1>6, <2>2, <2>3 DEF WorkInv
  <2>5. Waiting' = Waiting
    BY <1>1 DEF Waiting
  <2> HIDE DEF j
  <2> QED BY <1>1, <1>2, <1>5, <2>1, <2>3, <2>4, <2>5 DEF WorkInv, j
<1>8. producerJob[p] \in Jobs \ (Handling \cup handled)
  <2>1. producerJob[p] \in Jobs /\ producerJob[p] \notin handled
    BY <1>5, PoolAssumption DEF Waiting, TypeOK, Jobs
  <2>2. producerJob[p] \notin Handling
    BY <1>2 DEF Handling, WorkInv
  <2> QED BY <2>1, <2>2
<1>9. \A i \in 1 .. Len(Queue) : Queue[i] # producerJob[p]
  BY <1>2, <1>4 DEF WorkInv
<1>10. Phase \in {"open", "waiting"} /\ Phase' = Phase
  BY <1>1 DEF CountInv, SubmitPuts, PutJob, Phase
<1>11. Handling' = Handling
  BY <1>1, <1>2 DEF Handling
<1> QED BY <1>1, <1>3, <1>7, <1>8, <1>9, <1>10, <1>11 DEF Abstract!Accept, Handling

\* A worker starts the job at the head of the queue.
LEMMA WorkTaken ==
  ASSUME TypeOK, TypeOK', CountInv, WorkInv, NEW w \in Workers, Take(w)
  PROVE  WorkInv' /\ Abstract!Start
<1>1. /\ UNCHANGED <<producerJob, submitted, handled, owner>> /\ count \in Nat
      /\ \A v \in Running : workerJob'[v] = workerJob[v]
  <2>1. w \notin Running
    BY RunningAfter
  <2> QED BY <2>1, CapPositive DEF Take, TypeOK, Running
<1>2. w \notin Running /\ Running' = Running \cup {w} /\ Inside' = Inside
  BY RunningAfter, InsideAfter DEF Take
<1>3. /\ Queue # <<>> /\ count' = count - 1 /\ count >= 1
      /\ workerJob'[w] = Head(Queue) /\ Head(Queue) = Queue[1]
      /\ Queue' = Tail(Queue)
      /\ \A i \in 1 .. count' : Queue'[i] = Queue[i + 1]
  BY QueueTaken
<1>4. WorkInv'
  <2>1. /\ 1 \in 1 .. count /\ \A i \in 1 .. count' : i + 1 \in 1 .. count /\ i + 1 # 1
        /\ \A i, k \in 1 .. count' : i + 1 = k + 1 => i = k
    BY <1>1, <1>3
  <2>2. Waiting' = Waiting
    BY <1>1 DEF Waiting
  <2>3. /\ Queue[1] \in Waiting
        /\ \A v \in Running : Queue[1] # workerJob[v]
        /\ \A p \in Inside : Queue[1] # producerJob[p]
        /\ \A i \in 1 .. count' : Queue[i + 1] # Queue[1]
    BY <2>1 DEF WorkInv
  <2>4. ASSUME NEW i \in 1 .. count'
        PROVE  /\ Queue[i + 1] \in Waiting
               /\ \A k \in 1 .. count' : Queue[i + 1] = Queue[k + 1] => i = k
               /\ \A p \in Inside : Queue[i + 1] # producerJob[p]
               /\ \A v \in Running : Queue[i + 1] # workerJob[v]
    BY <2>1 DEF WorkInv
  <2>5. /\ \A v \in Running : workerJob'[v] = workerJob[v]
        /\ workerJob'[w] = Queue[1]
        /\ \A i \in 1 .. count' : Queue'[i] = Queue[i + 1]
        /\ producerJob' = producerJob /\ handled' = handled /\ submitted' = submitted
    BY <1>1, <1>3
  <2>6. /\ \A i \in 1 .. count' : Queue'[i] \in Waiting'
        /\ \A i, k \in 1 .. count' : Queue'[i] = Queue'[k] => i = k
        /\ \A i \in 1 .. count' : \A p \in Inside' : Queue'[i] # producerJob'[p]
        /\ \A i \in 1 .. count' : \A v \in Running' : Queue'[i] # workerJob'[v]
    BY <1>2, <2>2, <2>3, <2>4, <2>5
  <2>7. /\ \A v \in Running' : workerJob'[v] \in Waiting'
        /\ \A u, v \in Running' : workerJob'[u] = workerJob'[v] => u = v
        /\ \A p \in Inside' : \A v \in Running' : producerJob'[p] # workerJob'[v]
    BY <1>2, <2>2, <2>3, <2>5 DEF WorkInv
  <2> QED BY <1>2, <2>2, <2>5, <2>6, <2>7 DEF WorkInv
<1>5. Handling' = Handling \cup {Head(Queue)}
  BY <1>1, <1>2, <1>3 DEF Handling
<1>6. Cardinality(Handling) < NWorkers
  <2>1. Cardinality(Running) + 1 <= NWorkers
    BY <1>2, Counted, TypeOK' DEF TypeOK, CountInv, Take
  <2>2. [v \in Running |-> workerJob[v]] \in Surjection(Running, Handling)
    BY DEF Surjection, Handling
  <2>3. IsFiniteSet(Handling) /\ Cardinality(Handling) <= Cardinality(Running)
    BY <2>2, Counted, FS_Surjection
  <2> QED BY <2>1, <2>3, Counted, FS_CardinalityType, PoolAssumption
<1>7. Phase' = Phase
  BY <1>1 DEF Phase
<1>8. Queue' = Tail(Queue) /\ Queue # <<>> /\ UNCHANGED handled
  BY <1>1, <1>3
<1>9. Abstract!Cardinality(Handling) = Cardinality(Handling)
  BY DEF Abstract!Cardinality, Cardinality
<1> QED BY <1>4, <1>5, <1>6, <1>7, <1>8, <1>9 DEF Abstract!Start, Handling

\* A worker ends its job.
LEMMA WorkFinished ==
  ASSUME TypeOK, TypeOK', CountInv, WorkInv, NEW w \in Workers, Finish(w)
  PROVE  WorkInv' /\ Abstract!End
<1>1. /\ UNCHANGED <<jobs, head, count, producer, producerJob, workerJob, submitted>>
      /\ handled' = handled \cup {workerJob[w]} /\ Phase' = Phase
  BY DEF Finish, ringVars, producerVars, BroadcastIdle, Phase
<1>2. w \in Running /\ Running' = Running \ {w} /\ Inside' = Inside /\ Queue' = Queue
  BY <1>1, RunningAfter, InsideAfter, QueueKept
<1>3. Waiting' = Waiting \ {workerJob[w]} /\ workerJob[w] \in Waiting
  BY <1>1, <1>2 DEF Waiting, WorkInv
<1>4. WorkInv'
  <2>1. handled' \in SUBSET (1 .. submitted')
    BY <1>1, <1>3 DEF Waiting, WorkInv
  <2>2. /\ \A i \in 1 .. count : Queue[i] # workerJob[w]
        /\ \A p \in Inside : producerJob[p] # workerJob[w]
        /\ \A v \in Running' : workerJob[v] # workerJob[w]
    BY <1>2 DEF WorkInv
  <2> QED BY <1>1, <1>2, <1>3, <2>1, <2>2 DEF WorkInv
<1>5. Handling' = Handling \ {workerJob[w]} /\ workerJob[w] \in Handling
  BY <1>1, <1>2 DEF Handling, WorkInv
<1> QED BY <1>1, <1>2, <1>4, <1>5 DEF Abstract!End, Handling

\* When the counters say idle, nothing waits and nothing runs.
LEMMA IdleIsQuiet ==
  ASSUME TypeOK, CountInv, Idle
  PROVE  Abstract!Quiet
<1>1. Queue = <<>>
  <2>1. Queue \in Seq(Jobs \cup {NoJob}) /\ Len(Queue) = 0
    BY QueueIsSeq DEF QueueInRing, Idle
  <2> QED BY <2>1, EmptySeq
<1>2. Running = {}
  <2>1. Cardinality(Running) = 0
    BY DEF CountInv, Idle
  <2> QED BY <2>1, Counted, FS_EmptySet
<1> QED BY <1>1, <1>2 DEF Abstract!Quiet

\* The owner's steps move no job.
LEMMA WorkOwner ==
  ASSUME TypeOK, CountInv, WorkInv, OwnerStep \/ CallWaitIdle \/ CallDeinit \/ SpawnFails
  PROVE  WorkInv' /\ (Abstract!Call \/ Abstract!Settle \/ UNCHANGED View)
<1>1. /\ UNCHANGED <<jobs, head, count, producer, producerJob, workerJob, submitted, handled>>
      /\ Running' = Running
  <2>1. CASE Spawn
    <3>1. spawned + 1 \in Workers /\ worker[spawned + 1] = "off"
      BY <2>1, PoolAssumption DEF Spawn, Workers, TypeOK, CountInv
    <3>2. Running' = Running
      BY <2>1, <3>1 DEF Spawn, Running, TypeOK
    <3> QED BY <2>1, <3>2 DEF Spawn, ringVars, producerVars
  <2>2. CASE WaitIdle
    BY <2>2, RunningAfter DEF WaitIdle, ownerOnly, ringVars, workerVars, producerVars
  <2>3. CASE Stop
    BY <2>3, RunningAfter DEF Stop, ringVars, producerVars
  <2>4. CASE Join
    BY <2>4, RunningAfter DEF Join, ownerOnly, ringVars, workerVars, producerVars
  <2>5. CASE CallWaitIdle
    BY <2>5, RunningAfter DEF CallWaitIdle, ownerOnly, ringVars, workerVars, producerVars
  <2>6. CASE CallDeinit
    BY <2>6, RunningAfter DEF CallDeinit, ownerOnly, ringVars, workerVars, producerVars
  <2>7. CASE SpawnFails
    BY <2>7, RunningAfter DEF SpawnFails, ringVars, producerVars
  <2> QED BY <2>1, <2>2, <2>3, <2>4, <2>5, <2>6, <2>7 DEF OwnerStep
<1>2. WorkInv' /\ UNCHANGED <<Queue, Handling, handled>>
  BY <1>1, InsideAfter, WorkKept
<1>3. \/ Phase' = Phase
      \/ Phase = "open" /\ Phase' \in {"waiting", "draining"}
      \/ Idle /\ Phase = "waiting" /\ Phase' = "open"
      \/ Idle /\ Phase \in {"open", "draining"} /\ Phase' = "stopped"
  <2>1. CASE Spawn
    BY <2>1 DEF Spawn, Phase
  <2>2. CASE WaitIdle
    BY <2>2 DEF WaitIdle, Phase
  <2>3. CASE Stop
    BY <2>3 DEF Stop, Phase
  <2>4. CASE Join
    BY <2>4 DEF Join, Phase
  <2>5. CASE CallWaitIdle
    BY <2>5 DEF CallWaitIdle, Phase
  <2>6. CASE CallDeinit
    BY <2>6 DEF CallDeinit, Phase
  <2>7. CASE SpawnFails
    BY <2>7 DEF SpawnFails, Phase, CountInv
  <2> QED BY <2>1, <2>2, <2>3, <2>4, <2>5, <2>6, <2>7 DEF OwnerStep
<1> QED BY <1>2, <1>3, IdleIsQuiet DEF Abstract!Call, Abstract!Settle, View, Handling

\* Waiting and waking move no job.
LEMMA WorkWaits ==
  ASSUME TypeOK, CountInv, WorkInv,
         \/ \E w \in Workers : WorkerWaits(w) \/ WorkerExits(w)
         \/ \E p \in Producers : SubmitWaits(p)
         \/ SpuriousWakeup \/ Closed \/ UNCHANGED vars
  PROVE  WorkInv' /\ UNCHANGED View
<1>1. /\ UNCHANGED <<jobs, head, count, producerJob, workerJob, submitted, handled>>
      /\ Inside' = Inside /\ Running' = Running /\ Phase' = Phase
  <2>1. CASE \E w \in Workers : WorkerWaits(w) \/ WorkerExits(w)
    <3>1. Running' = Running
      BY <2>1, RunningAfter
    <3> QED BY <2>1, <3>1, InsideAfter
            DEF WorkerWaits, WorkerExits, ringVars, producerVars, Phase
  <2>2. CASE \E p \in Producers : SubmitWaits(p)
    <3>1. Inside' = Inside
      BY <2>2, InsideAfter
    <3> QED BY <2>2, <3>1, RunningAfter DEF SubmitWaits, ringVars, workerVars, Phase
  <2>3. CASE SpuriousWakeup
    BY <2>3 DEF SpuriousWakeup, OnNotEmpty, OnNotFull, BroadcastIdle, ringVars, workerVars,
                producerVars, ownerOnly, TypeOK, Inside, Running, Phase
  <2>4. CASE Closed \/ UNCHANGED vars
    BY <2>4 DEF Closed, vars, Inside, Running, Phase
  <2> QED BY <2>1, <2>2, <2>3, <2>4
<1> QED BY <1>1, WorkKept DEF View

-----------------------------------------------------------------------------
\* The initial state satisfies the invariant, and is one of JobPool.
LEMMA WorkInit == Init => WorkInv /\ Abstract!JPInit
<1> SUFFICES ASSUME Init PROVE WorkInv /\ Abstract!JPInit
  OBVIOUS
<1>1. TypeOK /\ CountInv /\ Idle
  BY PoolInit DEF Init, Idle
<1>2. Queue = <<>> /\ Handling = {}
  BY <1>1, IdleIsQuiet DEF Abstract!Quiet, Handling
<1>3. Inside = {} /\ Running = {}
  BY DEF Init, Inside, Running
<1>4. WorkInv
  BY <1>3 DEF Init, WorkInv
<1> QED BY <1>2, <1>4 DEF Init, Abstract!JPInit, Phase, Handling

\* Every step of the pool is a step of JobPool, or changes nothing it sees.
LEMMA WorkStep ==
  ASSUME TypeOK, TypeOK', CountInv, WorkInv, [Next]_vars
  PROVE  WorkInv' /\ [Abstract!JPNext]_(Abstract!jpVars)
<1> USE DEF Abstract!JPNext, Abstract!jpVars, View, Handling
<1>1. ASSUME NEW w \in Workers, Take(w)
      PROVE  WorkInv' /\ [Abstract!JPNext]_(Abstract!jpVars)
  BY <1>1, WorkTaken
<1>2. ASSUME NEW w \in Workers, Finish(w)
      PROVE  WorkInv' /\ [Abstract!JPNext]_(Abstract!jpVars)
  BY <1>2, WorkFinished
<1>3. ASSUME NEW p \in Producers, CallSubmit(p)
      PROVE  WorkInv' /\ [Abstract!JPNext]_(Abstract!jpVars)
  BY <1>3, WorkCalled
<1>4. ASSUME NEW p \in Producers, SubmitPuts(p)
      PROVE  WorkInv' /\ [Abstract!JPNext]_(Abstract!jpVars)
  BY <1>4, WorkPut
<1>5. CASE OwnerStep \/ CallWaitIdle \/ CallDeinit \/ SpawnFails
  BY <1>5, WorkOwner
<1>6. CASE \/ \E w \in Workers : WorkerWaits(w) \/ WorkerExits(w)
           \/ \E p \in Producers : SubmitWaits(p)
           \/ SpuriousWakeup \/ Closed \/ UNCHANGED vars
  BY <1>6, WorkWaits
<1> QED BY <1>1, <1>2, <1>3, <1>4, <1>5, <1>6 DEF Next, WorkerStep, SubmitStep

\* A submitted job is never in two places, and never handled twice.
THEOREM PoolWorkCorrect == Spec => []WorkInv
<1>1. TypeOK /\ TypeOK' /\ CountInv /\ WorkInv /\ [Next]_vars => WorkInv'
  BY WorkStep
<1> QED BY <1>1, WorkInit, PoolTypeCorrect, PoolCountsCorrect, PTL DEF Spec

\* The ring with its three condition variables is a JobPool: jobs start in the
\* order of their acceptance, each once, at most NWorkers at a time, and waitIdle
\* and deinit pass only when nothing is queued and nothing runs.
THEOREM PoolImplementsJobPool == Spec => ImplementsJobPool
<1>1. /\ TypeOK /\ TypeOK' /\ CountInv /\ WorkInv /\ [Next]_vars
      => [Abstract!JPNext]_(Abstract!jpVars)
  BY WorkStep
<1>2. Init => Abstract!JPInit
  BY WorkInit
<1> QED BY <1>1, <1>2, PoolTypeCorrect, PoolCountsCorrect, PoolWorkCorrect, PTL
        DEF Spec, ImplementsJobPool, Abstract!JPSpec
=============================================================================
