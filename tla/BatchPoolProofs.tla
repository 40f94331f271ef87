-------------------------- MODULE BatchPoolProofs ---------------------------
(***************************************************************************)
(* BatchPool for every pool size, batch size, number of batches and        *)
(* generation width: its types, and the handshake between the caller and   *)
(* the helpers (threads, generations, done_count, descriptor), from which  *)
(* the absence of a race on the descriptor follows; then which items have  *)
(* run, in the dynamic mode from the shared cursor, in the partitioned     *)
(* mode from the ranges of the workers, and that it implements ForkJoin.   *)
(***************************************************************************)
EXTENDS BatchPool, FiniteSetTheorems, TLAPS

\* A quotient of naturals is a natural.
LEMMA QuotientIsNat ==
  ASSUME NEW a \in Nat, NEW n \in Nat, n > 0
  PROVE  a \div n \in Nat
OBVIOUS

\* The start of a range is a position.
LEMMA RangeStartIsNat ==
  ASSUME nWorkers \in 1 .. MaxWorkers, NEW t \in Nat, NEW w \in Nat
  PROVE  RangeStart(t, w) \in Nat
<1>1. t * w \in Nat
  OBVIOUS
<1>2. nWorkers \in Nat /\ nWorkers > 0
  BY BoundsAssumption
<1> QED BY <1>1, <1>2, QuotientIsNat DEF RangeStart

\* Counting one more keeps the type of counts, one at a time or by batch.
LEMMA IncIsNat ==
  ASSUME NEW S, NEW f \in [S -> Nat], NEW x
  PROVE  [f EXCEPT ![x] = @ + 1] \in [S -> Nat]
<1>1. CASE x \in S
  BY <1>1
<1>2. CASE x \notin S
  BY <1>2
<1> QED BY <1>1, <1>2

\* The log of runs stays well typed when a run is added to it.
LEMMA CountIsNat ==
  ASSUME ran \in [Batches -> [Items -> Nat]], NEW b, NEW i
  PROVE  [ran EXCEPT ![b][i] = @ + 1] \in [Batches -> [Items -> Nat]]
<1>1. CASE b \in Batches
  <2>1. [ran[b] EXCEPT ![i] = @ + 1] \in [Items -> Nat]
    BY <1>1, IncIsNat
  <2> QED BY <2>1
<1>2. CASE b \notin Batches
  BY <1>2
<1> QED BY <1>1, <1>2

\* The initial state has the types.
\* The initial state has the types.
LEMMA TypeInit == Init => TypeOK
<1> SUFFICES ASSUME Init PROVE TypeOK
  OBVIOUS
<1>1. ControlOK
  BY BoundsAssumption
     DEF Init, ControlOK, Workers, Helpers, CallerStates, HelperStates
<1>2. NoTask \in Tasks
  BY BoundsAssumption DEF NoTask, Tasks
<1>3. ran \in [Batches -> [Items -> Nat]]
  BY DEF Init
<1>4. job \in [Workers -> Tasks] /\ item \in [Workers -> Nat] /\ task \in Tasks
  BY <1>2 DEF Init
<1>5. /\ gen \in [Workers -> 0 .. GenMod - 1]
      /\ seen \in [Workers -> 0 .. GenMod - 1]
      /\ generation \in 0 .. GenMod - 1
  BY GenModAssumption DEF Init
<1>6. /\ nWorkers \in 1 .. MaxWorkers
      /\ spawned \in 0 .. MaxWorkers - 1
      /\ batch \in 0 .. MaxBatches
  BY BoundsAssumption DEF Init
<1>7. cursor \in Nat /\ doneCount \in Nat /\ awaited \in Nat
  BY DEF Init
<1>8. exitFlag \in {0, 1}
  BY DEF Init
<1> QED BY <1>1, <1>3, <1>4, <1>5, <1>6, <1>7, <1>8 DEF TypeOK

\* Every step leaves each thread at a place of its own code.
LEMMA ControlStep == ControlOK /\ spawned \in Nat /\ [Next]_vars => ControlOK'
<1> SUFFICES ASSUME ControlOK, spawned \in Nat, [Next]_vars PROVE ControlOK'
  OBVIOUS
<1> USE BoundsAssumption
    DEF ControlOK, Goto, At, Workers, Helpers, CallerStates, HelperStates
<1>1. CASE CallerStep
  <2>1. CASE ResetCursor
    BY <2>1 DEF ResetCursor
  <2>2. CASE ResetDone
    BY <2>2 DEF ResetDone
  <2>3. CASE Bump
    BY <2>3 DEF Bump
  <2>4. CASE Wake
    BY <2>4 DEF Wake, WakeHelpers
  <2>5. CASE Await
    BY <2>5 DEF Await
  <2>6. CASE WaitDone
    BY <2>6 DEF WaitDone
  <2>7. CASE RunSerial
    BY <2>7 DEF RunSerial
  <2>8. CASE ReturnSerial
    BY <2>8 DEF ReturnSerial
  <2>9. CASE ClaimNext(0)
    BY <2>9 DEF ClaimNext, AfterItems
  <2>10. CASE ClaimOwn(0)
    BY <2>10 DEF ClaimOwn, AfterItems
  <2>11. CASE RunItem(0)
    BY <2>11 DEF RunItem
  <2>12. CASE SpawnHelper
    <3>1. pc' = [w \in Workers |-> pc'[w]]
      BY <2>12 DEF SpawnHelper
    <3>2. 0 \in Workers /\ pc'[0] \in {pc[0], "load", "idle"}
      BY <2>12 DEF SpawnHelper
    <3>3. spawned + 1 # 0
      BY <2>12 DEF SpawnHelper
    <3>4. pc'[0] \in CallerStates
      BY <2>12, <3>2, <3>3 DEF SpawnHelper
    <3>5. ASSUME NEW h \in Helpers PROVE pc'[h] \in HelperStates
      BY <2>12, <3>5 DEF SpawnHelper
    <3> QED BY <3>1, <3>4, <3>5
  <2>13. CASE BumpExit
    BY <2>13 DEF BumpExit
  <2>14. CASE WakeExit
    BY <2>14 DEF WakeExit, WakeHelpers
  <2>15. CASE JoinAndFree
    BY <2>15 DEF JoinAndFree
  <2> QED BY <1>1, <2>1, <2>2, <2>3, <2>4, <2>5, <2>6, <2>7, <2>8, <2>9, <2>10, <2>11,
             <2>12, <2>13, <2>14, <2>15
          DEF CallerStep
<1>2. ASSUME NEW h \in Helpers, HelperStep(h) PROVE ControlOK'
  <2>1. CASE LoadGeneration(h)
    BY <2>1 DEF LoadGeneration
  <2>2. CASE CheckGeneration(h)
    BY <2>2 DEF CheckGeneration
  <2>3. CASE WaitGeneration(h)
    BY <2>3 DEF WaitGeneration
  <2>4. CASE CheckExit(h)
    BY <2>4 DEF CheckExit
  <2>5. CASE ReadTask(h)
    BY <2>5 DEF ReadTask
  <2>6. CASE SignalDone(h)
    BY <2>6 DEF SignalDone
  <2>7. CASE WakeCaller(h)
    BY <2>7 DEF WakeCaller
  <2>8. CASE ClaimNext(h)
    BY <2>8 DEF ClaimNext, AfterItems
  <2>9. CASE ClaimOwn(h)
    BY <2>9 DEF ClaimOwn, AfterItems
  <2>10. CASE RunItem(h)
    BY <2>10 DEF RunItem
  <2> QED BY <1>2, <2>1, <2>2, <2>3, <2>4, <2>5, <2>6, <2>7, <2>8, <2>9, <2>10
          DEF HelperStep
<1>3. CASE Environment
  <2>1. ASSUME NEW n \in 0 .. MaxWorkers, PoolInit(n) PROVE ControlOK'
    BY <2>1 DEF PoolInit
  <2>2. CASE SpawnFails
    BY <2>2 DEF SpawnFails
  <2>3. CASE Deinit
    BY <2>3 DEF Deinit
  <2>4. CASE RunNothing
    BY <2>4 DEF RunNothing
  <2>5. ASSUME NEW total \in 1 .. MaxItems, NEW part \in {0, 1}, RunBatchSerial(total, part)
        PROVE  ControlOK'
    BY <2>5 DEF RunBatchSerial, TakeBatch
  <2>6. ASSUME NEW total \in 1 .. MaxItems, NEW part \in {0, 1}, RunBatch(total, part)
        PROVE  ControlOK'
    BY <2>6 DEF RunBatch, TakeBatch
  <2>7. ASSUME NEW h \in Helpers, SpuriousWake(h) PROVE ControlOK'
    BY <2>7 DEF SpuriousWake
  <2>8. CASE SpuriousReturn
    BY <2>8 DEF SpuriousReturn
  <2> QED BY <1>3, <2>1, <2>2, <2>3, <2>4, <2>5, <2>6, <2>7, <2>8
          DEF Environment
<1>4. CASE UNCHANGED vars
  BY <1>4 DEF vars
<1> QED BY <1>1, <1>2, <1>3, <1>4 DEF Next, Closed

\* No step leaves the types: counts grow, the generation wraps.
LEMMA TypeStep == TypeOK /\ [Next]_vars => TypeOK'
<1> SUFFICES ASSUME TypeOK, [Next]_vars PROVE TypeOK'
  OBVIOUS
<1>0. ControlOK'
  BY ControlStep DEF TypeOK
<1> USE BoundsAssumption, GenModAssumption
    DEF TypeOK, poolVars, sharedVars, localVars, At
<1>1. CASE CallerStep
  <2>1. CASE ResetCursor
    BY <1>0, <2>1 DEF ResetCursor
  <2>2. CASE ResetDone
    BY <1>0, <2>2 DEF ResetDone
  <2>3. CASE Bump
    BY <1>0, <2>3 DEF Bump
  <2>4. CASE Wake
    BY <1>0, <2>4 DEF Wake, WakeHelpers
  <2>5. CASE Await
    BY <1>0, <2>5 DEF Await
  <2>6. CASE WaitDone
    BY <1>0, <2>6 DEF WaitDone
  <2>7. CASE RunSerial
    <3>1. ran' \in [Batches -> [Items -> Nat]]
      BY <2>7, CountIsNat DEF RunSerial
    <3>2. item' \in [Workers -> Nat]
      BY <2>7, IncIsNat DEF RunSerial
    <3> QED BY <1>0, <2>7, <3>1, <3>2 DEF RunSerial
  <2>8. CASE ReturnSerial
    BY <1>0, <2>8 DEF ReturnSerial
  <2>9. CASE ClaimNext(0)
    <3>1. item' \in [Workers -> Nat]
      BY <2>9 DEF ClaimNext
    <3>2. cursor' \in Nat
      BY <2>9 DEF ClaimNext
    <3> QED BY <1>0, <2>9, <3>1, <3>2 DEF ClaimNext
  <2>10. CASE ClaimOwn(0)
    BY <1>0, <2>10 DEF ClaimOwn, AfterItems
  <2>11. CASE RunItem(0)
    <3>1. ran' \in [Batches -> [Items -> Nat]]
      BY <2>11, CountIsNat DEF RunItem
    <3>2. item' \in [Workers -> Nat]
      BY <2>11, IncIsNat DEF RunItem
    <3> QED BY <1>0, <2>11, <3>1, <3>2 DEF RunItem
  <2>12. CASE SpawnHelper
    BY <1>0, <2>12 DEF SpawnHelper
  <2>13. CASE BumpExit
    BY <1>0, <2>13 DEF BumpExit
  <2>14. CASE WakeExit
    BY <1>0, <2>14 DEF WakeExit, WakeHelpers
  <2>15. CASE JoinAndFree
    BY <1>0, <2>15 DEF JoinAndFree
  <2> QED BY <1>1, <2>1, <2>2, <2>3, <2>4, <2>5, <2>6, <2>7, <2>8, <2>9, <2>10, <2>11,
             <2>12, <2>13, <2>14, <2>15
          DEF CallerStep
<1>2. ASSUME NEW h \in Helpers, HelperStep(h) PROVE TypeOK'
  <2>1. CASE LoadGeneration(h)
    BY <1>0, <2>1 DEF LoadGeneration
  <2>2. CASE CheckGeneration(h)
    BY <1>0, <2>2 DEF CheckGeneration
  <2>3. CASE WaitGeneration(h)
    BY <1>0, <2>3 DEF WaitGeneration
  <2>4. CASE CheckExit(h)
    BY <1>0, <2>4 DEF CheckExit
  <2>5. CASE ReadTask(h)
    <3>1. RangeStart(task.total, h) \in Nat
      <4>1. task.total \in Nat /\ h \in Nat
        BY DEF Tasks, Helpers
      <4> QED BY <4>1, RangeStartIsNat
    <3>2. item' \in [Workers -> Nat] /\ job' \in [Workers -> Tasks]
      BY <2>5, <3>1 DEF ReadTask
    <3> QED BY <1>0, <2>5, <3>2 DEF ReadTask
  <2>6. CASE SignalDone(h)
    BY <1>0, <2>6 DEF SignalDone
  <2>7. CASE WakeCaller(h)
    BY <1>0, <2>7 DEF WakeCaller
  <2>8. CASE ClaimNext(h)
    <3>1. item' \in [Workers -> Nat]
      BY <2>8 DEF ClaimNext
    <3>2. cursor' \in Nat
      BY <2>8 DEF ClaimNext
    <3> QED BY <1>0, <2>8, <3>1, <3>2 DEF ClaimNext
  <2>9. CASE ClaimOwn(h)
    BY <1>0, <2>9 DEF ClaimOwn, AfterItems
  <2>10. CASE RunItem(h)
    <3>1. ran' \in [Batches -> [Items -> Nat]]
      BY <2>10, CountIsNat DEF RunItem
    <3>2. item' \in [Workers -> Nat]
      BY <2>10, IncIsNat DEF RunItem
    <3> QED BY <1>0, <2>10, <3>1, <3>2 DEF RunItem
  <2> QED BY <1>2, <2>1, <2>2, <2>3, <2>4, <2>5, <2>6, <2>7, <2>8, <2>9, <2>10
          DEF HelperStep
<1>3. CASE Environment
  <2>1. ASSUME NEW n \in 0 .. MaxWorkers, PoolInit(n) PROVE TypeOK'
    BY <1>0, <2>1 DEF PoolInit
  <2>2. CASE SpawnFails
    BY <1>0, <2>2 DEF SpawnFails
  <2>3. CASE Deinit
    BY <1>0, <2>3 DEF Deinit
  <2>4. CASE RunNothing
    BY <1>0, <2>4 DEF RunNothing
  <2>5. ASSUME NEW total \in 1 .. MaxItems, NEW part \in {0, 1}, RunBatchSerial(total, part)
        PROVE  TypeOK'
    <3>1. batch + 1 \in 0 .. MaxBatches
      BY <2>5 DEF RunBatchSerial, TakeBatch
    <3>2. [ctx |-> batch + 1, total |-> total, part |-> part] \in Tasks
      BY <3>1 DEF Tasks
    <3>3. batch' \in 0 .. MaxBatches /\ task' \in Tasks
      BY <2>5, <3>1, <3>2 DEF RunBatchSerial, TakeBatch
    <3>4. job' \in [Workers -> Tasks] /\ item' \in [Workers -> Nat]
      BY <2>5, <3>2 DEF RunBatchSerial, TakeBatch
    <3> QED BY <1>0, <2>5, <3>3, <3>4 DEF RunBatchSerial, TakeBatch
  <2>6. ASSUME NEW total \in 1 .. MaxItems, NEW part \in {0, 1}, RunBatch(total, part)
        PROVE  TypeOK'
    <3>1. batch + 1 \in 0 .. MaxBatches
      BY <2>6 DEF RunBatch, TakeBatch
    <3>2. [ctx |-> batch + 1, total |-> total, part |-> part] \in Tasks
      BY <3>1 DEF Tasks
    <3>3. batch' \in 0 .. MaxBatches /\ task' \in Tasks
      BY <2>6, <3>1, <3>2 DEF RunBatch, TakeBatch
    <3>4. job' \in [Workers -> Tasks] /\ item' \in [Workers -> Nat]
      BY <2>6, <3>2 DEF RunBatch, TakeBatch
    <3> QED BY <1>0, <2>6, <3>3, <3>4 DEF RunBatch, TakeBatch
  <2>7. ASSUME NEW h \in Helpers, SpuriousWake(h) PROVE TypeOK'
    BY <1>0, <2>7 DEF SpuriousWake
  <2>8. CASE SpuriousReturn
    BY <1>0, <2>8 DEF SpuriousReturn
  <2> QED BY <1>3, <2>1, <2>2, <2>3, <2>4, <2>5, <2>6, <2>7, <2>8
          DEF Environment
<1>4. CASE UNCHANGED vars
  BY <1>0, <1>4 DEF vars
<1> QED BY <1>1, <1>2, <1>3, <1>4 DEF Next, Closed

\* TypeOK holds of every behaviour of the pool, whatever its size.
THEOREM TypeCorrect == Spec => []TypeOK
BY TypeInit, TypeStep, PTL DEF Spec

-----------------------------------------------------------------------------
(* The handshake. *)

\* A wake leaves the caller at s and takes helpers only out of the wait.
LEMMA WakeEffect ==
  ASSUME ControlOK, NEW n, NEW s, WakeHelpers(n, s)
  PROVE  /\ pc'[0] = s
         /\ \A h \in Helpers : pc'[h] = pc[h] \/ (pc[h] = "parked" /\ pc'[h] = "load")
BY BoundsAssumption DEF ControlOK, WakeHelpers, ParkedHelpers, Workers, Helpers, At

\* The helpers counted in done_count are among the ones that were spawned.
LEMMA SignalledFinite ==
  ASSUME TypeOK, ThreadInv
  PROVE  /\ Signalled \in SUBSET (1 .. nWorkers - 1)
         /\ IsFiniteSet(Signalled)
<1>1. Signalled \in SUBSET (1 .. nWorkers - 1)
  <2> SUFFICES ASSUME NEW h \in Signalled PROVE h \in 1 .. nWorkers - 1
    OBVIOUS
  <2>1. h \in Helpers /\ pc[h] # "off"
    BY DEF Signalled, Looking
  <2> QED BY <2>1, BoundsAssumption DEF ThreadInv, TypeOK, Helpers
<1>2. IsFiniteSet(1 .. nWorkers - 1)
  BY FS_Interval, BoundsAssumption DEF TypeOK
<1> QED BY <1>1, <1>2, FS_Subset

\* When done_count reaches the number of helpers, all of them have signalled.
LEMMA AllSignalled ==
  ASSUME TypeOK, ThreadInv, DoneInv, Dispatching, doneCount >= nWorkers - 1
  PROVE  /\ \A h \in 1 .. nWorkers - 1 : h \in Signalled
         /\ \A h \in Helpers : pc[h] # "off" => Looking(h) /\ seen[h] = generation
<1>1. nWorkers \in Int /\ nWorkers >= 1
  BY BoundsAssumption DEF TypeOK
<1>2. IsFiniteSet(1 .. nWorkers - 1) /\ Cardinality(1 .. nWorkers - 1) = nWorkers - 1
  <2>1. 1 \in Int /\ nWorkers - 1 \in Int
    BY <1>1
  <2> QED BY <1>1, <2>1, FS_Interval
<1>3. doneCount = Cardinality(Signalled)
  BY DEF DoneInv
<1>4. /\ Cardinality(Signalled) <= nWorkers - 1
      /\ Cardinality(Signalled) = nWorkers - 1 => Signalled = 1 .. nWorkers - 1
  BY <1>2, SignalledFinite, FS_Subset
<1>5. Cardinality(Signalled) \in Nat
  BY SignalledFinite, FS_CardinalityType
<1>6. Signalled = 1 .. nWorkers - 1
  BY <1>1, <1>3, <1>4, <1>5
<1>7. ASSUME NEW h \in Helpers, pc[h] # "off" PROVE h \in Signalled
  BY <1>1, <1>6, <1>7, BoundsAssumption DEF ThreadInv, TypeOK, Helpers
<1> QED BY <1>6, <1>7 DEF Signalled

\* A new generation differs from the one before, also when the counter wraps.
LEMMA NewGeneration ==
  ASSUME NEW g \in 0 .. GenMod - 1
  PROVE  (g + 1) % GenMod # g
<1>1. CASE g + 1 < GenMod
  BY <1>1, GenModAssumption
<1>2. CASE g + 1 = GenMod
  <2>1. (g + 1) % GenMod = 0
    BY <1>2, GenModAssumption
  <2> QED BY <1>2, <2>1, GenModAssumption
<1> QED BY <1>1, <1>2, GenModAssumption

\* Threads start in init and end after exit_flag, one helper after the other.
LEMMA ThreadStep ==
  ASSUME TypeOK, HandshakeInv, [Next]_vars
  PROVE  ThreadInv'
<1> USE BoundsAssumption
    DEF TypeOK, ControlOK, HandshakeInv, ThreadInv, Goto, At, Workers, Helpers,
        Exiting, Preparing, Dispatching, poolVars, sharedVars, localVars
<1>1. CASE CallerStep
  <2>1. CASE ResetCursor
    BY <2>1 DEF ResetCursor
  <2>2. CASE ResetDone
    BY <2>2 DEF ResetDone
  <2>3. CASE Bump
    BY <2>3 DEF Bump
  <2>4. CASE Wake
    <3>1. /\ pc'[0] = "claim"
          /\ \A h \in Helpers : pc'[h] = pc[h] \/ (pc[h] = "parked" /\ pc'[h] = "load")
      BY <2>4, WakeEffect DEF Wake
    <3> QED BY <2>4, <3>1 DEF Wake
  <2>5. CASE Await
    BY <2>5 DEF Await
  <2>6. CASE WaitDone
    BY <2>6 DEF WaitDone
  <2>7. CASE RunSerial
    BY <2>7 DEF RunSerial
  <2>8. CASE ReturnSerial
    BY <2>8 DEF ReturnSerial
  <2>9. CASE ClaimNext(0)
    BY <2>9 DEF ClaimNext, AfterItems
  <2>10. CASE ClaimOwn(0)
    BY <2>10 DEF ClaimOwn, AfterItems
  <2>11. CASE RunItem(0)
    BY <2>11 DEF RunItem
  <2>12. CASE SpawnHelper
    BY <2>12 DEF SpawnHelper
  <2>13. CASE BumpExit
    BY <2>13 DEF BumpExit
  <2>14. CASE WakeExit
    <3>1. /\ pc'[0] = "join"
          /\ \A h \in Helpers : pc'[h] = pc[h] \/ (pc[h] = "parked" /\ pc'[h] = "load")
      BY <2>14, WakeEffect DEF WakeExit
    <3> QED BY <2>14, <3>1 DEF WakeExit
  <2>15. CASE JoinAndFree
    BY <2>15 DEF JoinAndFree
  <2> QED BY <1>1, <2>1, <2>2, <2>3, <2>4, <2>5, <2>6, <2>7, <2>8, <2>9, <2>10, <2>11,
             <2>12, <2>13, <2>14, <2>15
          DEF CallerStep
<1>2. ASSUME NEW h \in Helpers, HelperStep(h) PROVE ThreadInv'
  <2>1. CASE LoadGeneration(h)
    BY <2>1, SMTT(20) DEF LoadGeneration
  <2>2. CASE CheckGeneration(h)
    BY <2>2, SMTT(20) DEF CheckGeneration
  <2>3. CASE WaitGeneration(h)
    BY <2>3, SMTT(20) DEF WaitGeneration
  <2>4. CASE CheckExit(h)
    BY <2>4, SMTT(20) DEF CheckExit
  <2>5. CASE ReadTask(h)
    BY <2>5, SMTT(20) DEF ReadTask
  <2>6. CASE SignalDone(h)
    BY <2>6, SMTT(20) DEF SignalDone
  <2>7. CASE WakeCaller(h)
    BY <2>7, SMTT(20) DEF WakeCaller
  <2>8. CASE ClaimNext(h)
    BY <2>8, SMTT(20) DEF ClaimNext, AfterItems
  <2>9. CASE ClaimOwn(h)
    BY <2>9, SMTT(20) DEF ClaimOwn, AfterItems
  <2>10. CASE RunItem(h)
    BY <2>10, SMTT(20) DEF RunItem
  <2> QED BY <1>2, <2>1, <2>2, <2>3, <2>4, <2>5, <2>6, <2>7, <2>8, <2>9, <2>10
          DEF HelperStep
<1>3. CASE Environment
  <2>1. ASSUME NEW n \in 0 .. MaxWorkers, PoolInit(n) PROVE ThreadInv'
    BY <2>1 DEF PoolInit
  <2>2. CASE SpawnFails
    BY <2>2 DEF SpawnFails
  <2>3. CASE Deinit
    BY <2>3 DEF Deinit
  <2>4. CASE RunNothing
    BY <2>4 DEF RunNothing
  <2>5. ASSUME NEW total \in 1 .. MaxItems, NEW part \in {0, 1}, RunBatchSerial(total, part)
        PROVE  ThreadInv'
    BY <2>5 DEF RunBatchSerial, TakeBatch
  <2>6. ASSUME NEW total \in 1 .. MaxItems, NEW part \in {0, 1}, RunBatch(total, part)
        PROVE  ThreadInv'
    BY <2>6 DEF RunBatch, TakeBatch
  <2>7. ASSUME NEW h \in Helpers, SpuriousWake(h) PROVE ThreadInv'
    BY <2>7 DEF SpuriousWake
  <2>8. CASE SpuriousReturn
    BY <2>8 DEF SpuriousReturn
  <2> QED BY <1>3, <2>1, <2>2, <2>3, <2>4, <2>5, <2>6, <2>7, <2>8
          DEF Environment
<1>4. CASE UNCHANGED vars
  BY <1>4 DEF vars
<1> QED BY <1>1, <1>2, <1>3, <1>4 DEF Next, Closed


\* Generations: a helper is at most one generation behind.
LEMMA GenerationStep ==
  ASSUME TypeOK, HandshakeInv, [Next]_vars
  PROVE  GenerationInv'
<1> USE BoundsAssumption
    DEF TypeOK, ControlOK, HandshakeInv, ThreadInv, GenerationInv, UpToDate, Looking,
        Serving, Goto, At, Workers, Helpers, Exiting, Preparing, Dispatching,
        poolVars, sharedVars, localVars
<1>1. CASE CallerStep
  <2>1. CASE ResetCursor
    BY <2>1 DEF ResetCursor
  <2>2. CASE ResetDone
    BY <2>2 DEF ResetDone
  <2>3. CASE Bump
    BY <2>3 DEF Bump
  <2>4. CASE Wake
    <3>1. /\ pc'[0] = "claim"
          /\ \A h \in Helpers : pc'[h] = pc[h] \/ (pc[h] = "parked" /\ pc'[h] = "load")
      BY <2>4, WakeEffect DEF Wake
    <3> QED BY <2>4, <3>1 DEF Wake
  <2>5. CASE Await
    <3>1. CASE doneCount >= nWorkers - 1
      <4>1. UpToDate /\ pc'[0] = "idle"
        BY <2>5, <3>1, AllSignalled DEF Await
      <4>2. \A h \in Helpers : pc'[h] = pc[h]
        BY <2>5 DEF Await
      <4>3. UNCHANGED <<nWorkers, generation, seen, gen>>
        BY <2>5 DEF Await
      <4> QED BY <4>1, <4>2, <4>3
    <3>2. CASE ~(doneCount >= nWorkers - 1)
      BY <2>5, <3>2 DEF Await
    <3> QED BY <3>1, <3>2
  <2>6. CASE WaitDone
    BY <2>6 DEF WaitDone
  <2>7. CASE RunSerial
    BY <2>7 DEF RunSerial
  <2>8. CASE ReturnSerial
    BY <2>8 DEF ReturnSerial
  <2>9. CASE ClaimNext(0)
    BY <2>9 DEF ClaimNext, AfterItems
  <2>10. CASE ClaimOwn(0)
    BY <2>10 DEF ClaimOwn, AfterItems
  <2>11. CASE RunItem(0)
    BY <2>11 DEF RunItem
  <2>12. CASE SpawnHelper
    BY <2>12 DEF SpawnHelper
  <2>13. CASE BumpExit
    BY <2>13 DEF BumpExit
  <2>14. CASE WakeExit
    <3>1. /\ pc'[0] = "join"
          /\ \A h \in Helpers : pc'[h] = pc[h] \/ (pc[h] = "parked" /\ pc'[h] = "load")
      BY <2>14, WakeEffect DEF WakeExit
    <3> QED BY <2>14, <3>1 DEF WakeExit
  <2>15. CASE JoinAndFree
    BY <2>15 DEF JoinAndFree
  <2> QED BY <1>1, <2>1, <2>2, <2>3, <2>4, <2>5, <2>6, <2>7, <2>8, <2>9, <2>10, <2>11,
             <2>12, <2>13, <2>14, <2>15
          DEF CallerStep
<1>2. ASSUME NEW h \in Helpers, HelperStep(h) PROVE GenerationInv'
  <2>1. CASE LoadGeneration(h)
    BY <2>1, SMTT(20) DEF LoadGeneration
  <2>2. CASE CheckGeneration(h)
    BY <2>2, SMTT(20) DEF CheckGeneration
  <2>3. CASE WaitGeneration(h)
    BY <2>3, SMTT(20) DEF WaitGeneration
  <2>4. CASE CheckExit(h)
    BY <2>4, SMTT(20) DEF CheckExit
  <2>5. CASE ReadTask(h)
    BY <2>5, SMTT(20) DEF ReadTask
  <2>6. CASE SignalDone(h)
    BY <2>6, SMTT(20) DEF SignalDone
  <2>7. CASE WakeCaller(h)
    BY <2>7, SMTT(20) DEF WakeCaller
  <2>8. CASE ClaimNext(h)
    BY <2>8, SMTT(20) DEF ClaimNext, AfterItems
  <2>9. CASE ClaimOwn(h)
    BY <2>9, SMTT(20) DEF ClaimOwn, AfterItems
  <2>10. CASE RunItem(h)
    BY <2>10, SMTT(20) DEF RunItem
  <2> QED BY <1>2, <2>1, <2>2, <2>3, <2>4, <2>5, <2>6, <2>7, <2>8, <2>9, <2>10
          DEF HelperStep
<1>3. CASE Environment
  <2>1. ASSUME NEW n \in 0 .. MaxWorkers, PoolInit(n) PROVE GenerationInv'
    BY <2>1 DEF PoolInit
  <2>2. CASE SpawnFails
    BY <2>2 DEF SpawnFails
  <2>3. CASE Deinit
    BY <2>3 DEF Deinit
  <2>4. CASE RunNothing
    BY <2>4 DEF RunNothing
  <2>5. ASSUME NEW total \in 1 .. MaxItems, NEW part \in {0, 1}, RunBatchSerial(total, part)
        PROVE  GenerationInv'
    BY <2>5 DEF RunBatchSerial, TakeBatch
  <2>6. ASSUME NEW total \in 1 .. MaxItems, NEW part \in {0, 1}, RunBatch(total, part)
        PROVE  GenerationInv'
    BY <2>6 DEF RunBatch, TakeBatch
  <2>7. ASSUME NEW h \in Helpers, SpuriousWake(h) PROVE GenerationInv'
    BY <2>7 DEF SpuriousWake
  <2>8. CASE SpuriousReturn
    BY <2>8 DEF SpuriousReturn
  <2> QED BY <1>3, <2>1, <2>2, <2>3, <2>4, <2>5, <2>6, <2>7, <2>8
          DEF Environment
<1>4. CASE UNCHANGED vars
  BY <1>4 DEF vars
<1> QED BY <1>1, <1>2, <1>3, <1>4 DEF Next, Closed


\* The descriptor and every copy of it are those of the batch in progress.
LEMMA TaskStep ==
  ASSUME TypeOK, HandshakeInv, [Next]_vars
  PROVE  TaskInv'
<1> USE BoundsAssumption
    DEF TypeOK, ControlOK, HandshakeInv, ThreadInv, GenerationInv, TaskInv, Serving,
        Working, Batches, Goto, At, Workers, Helpers, Exiting, Preparing, Dispatching,
        poolVars, sharedVars, localVars
<1>1. CASE CallerStep
  <2>1. CASE ResetCursor
    BY <2>1 DEF ResetCursor
  <2>2. CASE ResetDone
    BY <2>2 DEF ResetDone
  <2>3. CASE Bump
    BY <2>3 DEF Bump
  <2>4. CASE Wake
    <3>1. /\ pc'[0] = "claim"
          /\ \A h \in Helpers : pc'[h] = pc[h] \/ (pc[h] = "parked" /\ pc'[h] = "load")
      BY <2>4, WakeEffect DEF Wake
    <3> QED BY <2>4, <3>1 DEF Wake
  <2>5. CASE Await
    BY <2>5 DEF Await
  <2>6. CASE WaitDone
    BY <2>6 DEF WaitDone
  <2>7. CASE RunSerial
    BY <2>7 DEF RunSerial
  <2>8. CASE ReturnSerial
    BY <2>8 DEF ReturnSerial
  <2>9. CASE ClaimNext(0)
    BY <2>9 DEF ClaimNext, AfterItems
  <2>10. CASE ClaimOwn(0)
    BY <2>10 DEF ClaimOwn, AfterItems
  <2>11. CASE RunItem(0)
    BY <2>11 DEF RunItem
  <2>12. CASE SpawnHelper
    BY <2>12 DEF SpawnHelper
  <2>13. CASE BumpExit
    BY <2>13 DEF BumpExit
  <2>14. CASE WakeExit
    <3>1. /\ pc'[0] = "join"
          /\ \A h \in Helpers : pc'[h] = pc[h] \/ (pc[h] = "parked" /\ pc'[h] = "load")
      BY <2>14, WakeEffect DEF WakeExit
    <3> QED BY <2>14, <3>1 DEF WakeExit
  <2>15. CASE JoinAndFree
    BY <2>15 DEF JoinAndFree
  <2> QED BY <1>1, <2>1, <2>2, <2>3, <2>4, <2>5, <2>6, <2>7, <2>8, <2>9, <2>10, <2>11,
             <2>12, <2>13, <2>14, <2>15
          DEF CallerStep
<1>2. ASSUME NEW h \in Helpers, HelperStep(h) PROVE TaskInv'
  <2>1. CASE LoadGeneration(h)
    BY <2>1 DEF LoadGeneration
  <2>2. CASE CheckGeneration(h)
    BY <2>2 DEF CheckGeneration
  <2>3. CASE WaitGeneration(h)
    BY <2>3 DEF WaitGeneration
  <2>4. CASE CheckExit(h)
    BY <2>4 DEF CheckExit
  <2>5. CASE ReadTask(h)
    BY <2>5 DEF ReadTask
  <2>6. CASE SignalDone(h)
    BY <2>6 DEF SignalDone
  <2>7. CASE WakeCaller(h)
    BY <2>7 DEF WakeCaller
  <2>8. CASE ClaimNext(h)
    BY <2>8, SMTT(20) DEF ClaimNext, AfterItems
  <2>9. CASE ClaimOwn(h)
    BY <2>9 DEF ClaimOwn, AfterItems
  <2>10. CASE RunItem(h)
    BY <2>10 DEF RunItem
  <2> QED BY <1>2, <2>1, <2>2, <2>3, <2>4, <2>5, <2>6, <2>7, <2>8, <2>9, <2>10
          DEF HelperStep
<1>3. CASE Environment
  <2>1. ASSUME NEW n \in 0 .. MaxWorkers, PoolInit(n) PROVE TaskInv'
    BY <2>1 DEF PoolInit
  <2>2. CASE SpawnFails
    BY <2>2 DEF SpawnFails
  <2>3. CASE Deinit
    BY <2>3 DEF Deinit
  <2>4. CASE RunNothing
    BY <2>4 DEF RunNothing
  <2>5. ASSUME NEW total \in 1 .. MaxItems, NEW part \in {0, 1}, RunBatchSerial(total, part)
        PROVE  TaskInv'
    BY <2>5 DEF RunBatchSerial, TakeBatch
  <2>6. ASSUME NEW total \in 1 .. MaxItems, NEW part \in {0, 1}, RunBatch(total, part)
        PROVE  TaskInv'
    BY <2>6 DEF RunBatch, TakeBatch
  <2>7. ASSUME NEW h \in Helpers, SpuriousWake(h) PROVE TaskInv'
    BY <2>7 DEF SpuriousWake
  <2>8. CASE SpuriousReturn
    BY <2>8 DEF SpuriousReturn
  <2> QED BY <1>3, <2>1, <2>2, <2>3, <2>4, <2>5, <2>6, <2>7, <2>8
          DEF Environment
<1>4. CASE UNCHANGED vars
  BY <1>4 DEF vars
<1> QED BY <1>1, <1>2, <1>3, <1>4 DEF Next, Closed


\* Helpers that look on at the same generation leave the count as it is.
LEMMA SameSignalled ==
  ASSUME generation' = generation,
         \A g \in Helpers : Looking(g)' /\ seen'[g] = generation
                            <=> Looking(g) /\ seen[g] = generation
  PROVE  Signalled' = Signalled
BY DEF Signalled

\* The steps a helper takes besides working on items and signalling.
Bystander(h) ==
  \/ LoadGeneration(h) \/ CheckGeneration(h) \/ WaitGeneration(h)
  \/ CheckExit(h) \/ WakeCaller(h) \/ SpuriousWake(h)

\* They move this helper alone, and do not change whether it has signalled.
LEMMA BystanderStep ==
  ASSUME TypeOK, HandshakeInv, NEW h \in Helpers, Bystander(h)
  PROVE  /\ UNCHANGED <<nWorkers, batch, task, ran, cursor, item, generation, doneCount>>
         /\ (Dispatching' <=> Dispatching)
         /\ \A s \in {"bump", "wake", "claim", "run"} : pc'[0] = s <=> pc[0] = s
         /\ pc'[h] \notin {"claim", "run", "done"} /\ pc[h] \notin {"claim", "run", "done"}
         /\ \A g \in Helpers \ {h} : pc'[g] = pc[g] /\ seen'[g] = seen[g]
         /\ Dispatching => Signalled' = Signalled
<1> DEFINE Alone ==
      /\ UNCHANGED <<nWorkers, batch, task, ran, cursor, item, generation, doneCount>>
      /\ \A g \in Helpers \ {h} : pc'[g] = pc[g] /\ seen'[g] = seen[g]
      /\ pc'[0] = pc[0] \/ (pc[0] = "parked_done" /\ pc'[0] = "await")
      /\ pc'[h] \notin {"claim", "run", "done"} /\ pc[h] \notin {"claim", "run", "done"}
      /\ Dispatching => (Looking(h)' /\ seen'[h] = generation
                           <=> Looking(h) /\ seen[h] = generation)
<1>1. Alone
  <2> USE BoundsAssumption
      DEF TypeOK, ControlOK, HandshakeInv, GenerationInv, ThreadInv, Goto, At, Workers,
          Helpers, Exiting, Dispatching, Looking, poolVars, sharedVars, localVars
  <2>1. CASE LoadGeneration(h)
    BY <2>1 DEF LoadGeneration
  <2>2. CASE CheckGeneration(h)
    BY <2>2 DEF CheckGeneration
  <2>3. CASE WaitGeneration(h)
    BY <2>3 DEF WaitGeneration
  <2>4. CASE CheckExit(h)
    BY <2>4 DEF CheckExit
  <2>5. CASE WakeCaller(h)
    BY <2>5 DEF WakeCaller
  <2>6. CASE SpuriousWake(h)
    BY <2>6 DEF SpuriousWake
  <2> QED BY <2>1, <2>2, <2>3, <2>4, <2>5, <2>6 DEF Bystander
<1>2. \A g \in Helpers \ {h} : Looking(g)' <=> Looking(g)
  BY <1>1 DEF Looking
<1>3. Dispatching => Signalled' = Signalled
  BY <1>1, <1>2, SameSignalled
<1> QED BY <1>1, <1>3 DEF Dispatching

\* One helper more is through with the batch.
LEMMA OneMoreSignalled ==
  ASSUME NEW h \in Helpers, generation' = generation,
         Looking(h)' /\ seen'[h] = generation,
         \A g \in Helpers \ {h} : Looking(g)' /\ seen'[g] = generation
                                   <=> Looking(g) /\ seen[g] = generation
  PROVE  Signalled' = Signalled \cup {h}
BY DEF Signalled

\* done_count counts the helpers that are through with the batch, and no other.
LEMMA DoneStep ==
  ASSUME TypeOK, HandshakeInv, [Next]_vars
  PROVE  DoneInv'
<1> USE BoundsAssumption
    DEF TypeOK, ControlOK, HandshakeInv, ThreadInv, GenerationInv, UpToDate, Serving,
        DoneInv, Goto, At, Workers, Helpers, Exiting, Preparing, Dispatching,
        poolVars, sharedVars, localVars
<1>1. CASE CallerStep
  <2>1. CASE ResetCursor
    <3>1. Dispatching' => Dispatching /\ Signalled' = Signalled /\ doneCount' = doneCount
      BY <2>1 DEF ResetCursor, Signalled, Looking
    <3>2. pc'[0] = "bump" => pc[0] = "bump" /\ doneCount' = doneCount
      BY <2>1 DEF ResetCursor
    <3> QED BY <3>1, <3>2
  <2>2. CASE ResetDone
    BY <2>2 DEF ResetDone
  <2>3. CASE Bump
    <3>1. generation' # generation
      BY <2>3, NewGeneration DEF Bump
    <3>2. Signalled' = {}
      BY <2>3, <3>1 DEF Bump, Signalled, Looking
    <3>3. doneCount' = 0 /\ pc'[0] = "wake"
      BY <2>3 DEF Bump
    <3>4. Cardinality(Signalled') = 0
      BY <3>2, FS_EmptySet
    <3> QED BY <3>3, <3>4
  <2>4. CASE Wake
    <3>1. /\ pc'[0] = "claim"
          /\ \A h \in Helpers : pc'[h] = pc[h] \/ (pc[h] = "parked" /\ pc'[h] = "load")
      BY <2>4, WakeEffect DEF Wake
    <3>2. Signalled' = Signalled /\ doneCount' = doneCount
      BY <2>4, <3>1 DEF Wake, Signalled, Looking
    <3> QED BY <2>4, <3>1, <3>2 DEF Wake
  <2>5. CASE Await
    <3>1. /\ generation' = generation /\ doneCount' = doneCount /\ seen' = seen
          /\ Dispatching /\ pc'[0] # "bump"
      BY <2>5 DEF Await
    <3>2. \A g \in Helpers : pc'[g] = pc[g]
      BY <2>5 DEF Await
    <3>3. Signalled' = Signalled
      BY <3>1, <3>2 DEF Signalled, Looking
    <3> QED BY <3>1, <3>3
  <2>6. CASE WaitDone
    <3>1. Dispatching' => Dispatching /\ Signalled' = Signalled /\ doneCount' = doneCount
      BY <2>6 DEF WaitDone, Signalled, Looking
    <3>2. pc'[0] = "bump" => pc[0] = "bump" /\ doneCount' = doneCount
      BY <2>6 DEF WaitDone
    <3> QED BY <3>1, <3>2
  <2>7. CASE RunSerial
    <3>1. Dispatching' => Dispatching /\ Signalled' = Signalled /\ doneCount' = doneCount
      BY <2>7 DEF RunSerial, Signalled, Looking
    <3>2. pc'[0] = "bump" => pc[0] = "bump" /\ doneCount' = doneCount
      BY <2>7 DEF RunSerial
    <3> QED BY <3>1, <3>2
  <2>8. CASE ReturnSerial
    <3>1. Dispatching' => Dispatching /\ Signalled' = Signalled /\ doneCount' = doneCount
      BY <2>8 DEF ReturnSerial, Signalled, Looking
    <3>2. pc'[0] = "bump" => pc[0] = "bump" /\ doneCount' = doneCount
      BY <2>8 DEF ReturnSerial
    <3> QED BY <3>1, <3>2
  <2>9. CASE ClaimNext(0)
    <3>1. Dispatching' => Dispatching /\ Signalled' = Signalled /\ doneCount' = doneCount
      BY <2>9, SMTT(20) DEF ClaimNext, AfterItems, Signalled, Looking
    <3>2. pc'[0] = "bump" => pc[0] = "bump" /\ doneCount' = doneCount
      BY <2>9 DEF ClaimNext, AfterItems
    <3> QED BY <3>1, <3>2
  <2>10. CASE ClaimOwn(0)
    <3>1. Dispatching' => Dispatching /\ Signalled' = Signalled /\ doneCount' = doneCount
      BY <2>10 DEF ClaimOwn, AfterItems, Signalled, Looking
    <3>2. pc'[0] = "bump" => pc[0] = "bump" /\ doneCount' = doneCount
      BY <2>10 DEF ClaimOwn, AfterItems
    <3> QED BY <3>1, <3>2
  <2>11. CASE RunItem(0)
    <3>1. Dispatching' => Dispatching /\ Signalled' = Signalled /\ doneCount' = doneCount
      BY <2>11 DEF RunItem, Signalled, Looking
    <3>2. pc'[0] = "bump" => pc[0] = "bump" /\ doneCount' = doneCount
      BY <2>11 DEF RunItem
    <3> QED BY <3>1, <3>2
  <2>12. CASE SpawnHelper
    <3>1. Dispatching' => Dispatching /\ Signalled' = Signalled /\ doneCount' = doneCount
      BY <2>12 DEF SpawnHelper, Signalled, Looking
    <3>2. pc'[0] = "bump" => pc[0] = "bump" /\ doneCount' = doneCount
      BY <2>12 DEF SpawnHelper
    <3> QED BY <3>1, <3>2
  <2>13. CASE BumpExit
    <3>1. Dispatching' => Dispatching /\ Signalled' = Signalled /\ doneCount' = doneCount
      BY <2>13 DEF BumpExit, Signalled, Looking
    <3>2. pc'[0] = "bump" => pc[0] = "bump" /\ doneCount' = doneCount
      BY <2>13 DEF BumpExit
    <3> QED BY <3>1, <3>2
  <2>14. CASE WakeExit
    <3>1. /\ pc'[0] = "join"
          /\ \A h \in Helpers : pc'[h] = pc[h] \/ (pc[h] = "parked" /\ pc'[h] = "load")
      BY <2>14, WakeEffect DEF WakeExit
    <3>2. Signalled' = Signalled /\ doneCount' = doneCount
      BY <2>14, <3>1 DEF WakeExit, Signalled, Looking
    <3> QED BY <2>14, <3>1, <3>2 DEF WakeExit
  <2>15. CASE JoinAndFree
    <3>1. Dispatching' => Dispatching /\ Signalled' = Signalled /\ doneCount' = doneCount
      BY <2>15 DEF JoinAndFree, Signalled, Looking
    <3>2. pc'[0] = "bump" => pc[0] = "bump" /\ doneCount' = doneCount
      BY <2>15 DEF JoinAndFree
    <3> QED BY <3>1, <3>2
  <2> QED BY <1>1, <2>1, <2>2, <2>3, <2>4, <2>5, <2>6, <2>7, <2>8, <2>9, <2>10, <2>11,
             <2>12, <2>13, <2>14, <2>15
          DEF CallerStep
<1>2. ASSUME NEW h \in Helpers, HelperStep(h) PROVE DoneInv'
  <2>1. CASE LoadGeneration(h)
    <3>1. Bystander(h)
      BY <2>1 DEF Bystander
    <3> QED BY <3>1, BystanderStep
  <2>2. CASE CheckGeneration(h)
    <3>1. Bystander(h)
      BY <2>2 DEF Bystander
    <3> QED BY <3>1, BystanderStep
  <2>3. CASE WaitGeneration(h)
    <3>1. Bystander(h)
      BY <2>3 DEF Bystander
    <3> QED BY <3>1, BystanderStep
  <2>4. CASE CheckExit(h)
    <3>1. Bystander(h)
      BY <2>4 DEF Bystander
    <3> QED BY <3>1, BystanderStep
  <2>5. CASE ReadTask(h)
    <3>1. /\ generation' = generation /\ doneCount' = doneCount
          /\ Dispatching' = Dispatching /\ (pc'[0] = "bump" <=> pc[0] = "bump")
      BY <2>5 DEF ReadTask
    <3>2. \A g \in Helpers \ {h} : pc'[g] = pc[g] /\ seen'[g] = seen[g]
      BY <2>5 DEF ReadTask
    <3>3. Dispatching => (Looking(h)' /\ seen'[h] = generation <=> Looking(h)
             /\ seen[h] = generation)
      BY <2>5, <3>1 DEF ReadTask, Looking
    <3>4. \A g \in Helpers \ {h} : Looking(g)' <=> Looking(g)
      BY <3>2 DEF Looking
    <3>5. Dispatching => Signalled' = Signalled
      BY <3>1, <3>2, <3>3, <3>4, SameSignalled
    <3> QED BY <3>1, <3>5
  <2>6. CASE SignalDone(h)
    <3>1. Dispatching /\ seen[h] = generation /\ h \notin Signalled
      BY <2>6 DEF SignalDone, Signalled, Looking
    <3>2. Signalled' = Signalled \cup {h}
      <4>1. generation' = generation /\ seen' = seen
        BY <2>6 DEF SignalDone, localVars
      <4>2. pc'[h] = "wake_done" /\ \A g \in Helpers \ {h} : pc'[g] = pc[g]
        BY <2>6 DEF SignalDone
      <4>3. Looking(h)'
        BY <4>2 DEF Looking
      <4>4. \A g \in Helpers \ {h} : Looking(g)' <=> Looking(g)
        BY <4>2 DEF Looking
      <4> QED BY <3>1, <4>1, <4>3, <4>4, OneMoreSignalled
    <3>3. Cardinality(Signalled') = Cardinality(Signalled) + 1
      BY <3>1, <3>2, SignalledFinite, FS_AddElement
    <3>4. doneCount' = doneCount + 1 /\ pc'[0] = pc[0]
      BY <2>6 DEF SignalDone
    <3> QED BY <3>1, <3>3, <3>4
  <2>7. CASE WakeCaller(h)
    <3>1. Bystander(h)
      BY <2>7 DEF Bystander
    <3> QED BY <3>1, BystanderStep
  <2>8. CASE ClaimNext(h)
    <3>1. /\ generation' = generation /\ doneCount' = doneCount
          /\ Dispatching' = Dispatching /\ (pc'[0] = "bump" <=> pc[0] = "bump")
      BY <2>8 DEF ClaimNext, AfterItems
    <3>2. \A g \in Helpers \ {h} : pc'[g] = pc[g] /\ seen'[g] = seen[g]
      BY <2>8 DEF ClaimNext, AfterItems
    <3>3. Dispatching => (Looking(h)' /\ seen'[h] = generation <=> Looking(h)
             /\ seen[h] = generation)
      BY <2>8, <3>1 DEF ClaimNext, AfterItems, Looking
    <3>4. \A g \in Helpers \ {h} : Looking(g)' <=> Looking(g)
      BY <3>2 DEF Looking
    <3>5. Dispatching => Signalled' = Signalled
      BY <3>1, <3>2, <3>3, <3>4, SameSignalled
    <3> QED BY <3>1, <3>5
  <2>9. CASE ClaimOwn(h)
    <3>1. /\ generation' = generation /\ doneCount' = doneCount
          /\ Dispatching' = Dispatching /\ (pc'[0] = "bump" <=> pc[0] = "bump")
      BY <2>9 DEF ClaimOwn, AfterItems
    <3>2. \A g \in Helpers \ {h} : pc'[g] = pc[g] /\ seen'[g] = seen[g]
      BY <2>9 DEF ClaimOwn, AfterItems
    <3>3. Dispatching => (Looking(h)' /\ seen'[h] = generation <=> Looking(h)
             /\ seen[h] = generation)
      BY <2>9, <3>1 DEF ClaimOwn, AfterItems, Looking
    <3>4. \A g \in Helpers \ {h} : Looking(g)' <=> Looking(g)
      BY <3>2 DEF Looking
    <3>5. Dispatching => Signalled' = Signalled
      BY <3>1, <3>2, <3>3, <3>4, SameSignalled
    <3> QED BY <3>1, <3>5
  <2>10. CASE RunItem(h)
    <3>1. /\ generation' = generation /\ doneCount' = doneCount
          /\ Dispatching' = Dispatching /\ (pc'[0] = "bump" <=> pc[0] = "bump")
      BY <2>10 DEF RunItem
    <3>2. \A g \in Helpers \ {h} : pc'[g] = pc[g] /\ seen'[g] = seen[g]
      BY <2>10 DEF RunItem
    <3>3. Dispatching => (Looking(h)' /\ seen'[h] = generation <=> Looking(h)
             /\ seen[h] = generation)
      BY <2>10, <3>1 DEF RunItem, Looking
    <3>4. \A g \in Helpers \ {h} : Looking(g)' <=> Looking(g)
      BY <3>2 DEF Looking
    <3>5. Dispatching => Signalled' = Signalled
      BY <3>1, <3>2, <3>3, <3>4, SameSignalled
    <3> QED BY <3>1, <3>5
  <2> QED BY <1>2, <2>1, <2>2, <2>3, <2>4, <2>5, <2>6, <2>7, <2>8, <2>9, <2>10
          DEF HelperStep
<1>3. CASE Environment
  <2>1. ASSUME NEW n \in 0 .. MaxWorkers, PoolInit(n) PROVE DoneInv'
    <3>1. Dispatching' => Dispatching /\ Signalled' = Signalled /\ doneCount' = doneCount
      BY <2>1 DEF PoolInit, Signalled, Looking
    <3>2. pc'[0] = "bump" => pc[0] = "bump" /\ doneCount' = doneCount
      BY <2>1 DEF PoolInit
    <3> QED BY <3>1, <3>2
  <2>2. CASE SpawnFails
    <3>1. Dispatching' => Dispatching /\ Signalled' = Signalled /\ doneCount' = doneCount
      BY <2>2 DEF SpawnFails, Signalled, Looking
    <3>2. pc'[0] = "bump" => pc[0] = "bump" /\ doneCount' = doneCount
      BY <2>2 DEF SpawnFails
    <3> QED BY <3>1, <3>2
  <2>3. CASE Deinit
    <3>1. Dispatching' => Dispatching /\ Signalled' = Signalled /\ doneCount' = doneCount
      BY <2>3 DEF Deinit, Signalled, Looking
    <3>2. pc'[0] = "bump" => pc[0] = "bump" /\ doneCount' = doneCount
      BY <2>3 DEF Deinit
    <3> QED BY <3>1, <3>2
  <2>4. CASE RunNothing
    <3>1. Dispatching' => Dispatching /\ Signalled' = Signalled /\ doneCount' = doneCount
      BY <2>4 DEF RunNothing, Signalled, Looking
    <3>2. pc'[0] = "bump" => pc[0] = "bump" /\ doneCount' = doneCount
      BY <2>4 DEF RunNothing
    <3> QED BY <3>1, <3>2
  <2>5. ASSUME NEW total \in 1 .. MaxItems, NEW part \in {0, 1}, RunBatchSerial(total, part)
        PROVE  DoneInv'
    <3>1. Dispatching' => Dispatching /\ Signalled' = Signalled /\ doneCount' = doneCount
      BY <2>5 DEF RunBatchSerial, TakeBatch, Signalled, Looking
    <3>2. pc'[0] = "bump" => pc[0] = "bump" /\ doneCount' = doneCount
      BY <2>5 DEF RunBatchSerial, TakeBatch
    <3> QED BY <3>1, <3>2
  <2>6. ASSUME NEW total \in 1 .. MaxItems, NEW part \in {0, 1}, RunBatch(total, part)
        PROVE  DoneInv'
    <3>1. Dispatching' => Dispatching /\ Signalled' = Signalled /\ doneCount' = doneCount
      BY <2>6 DEF RunBatch, TakeBatch, Signalled, Looking
    <3>2. pc'[0] = "bump" => pc[0] = "bump" /\ doneCount' = doneCount
      BY <2>6 DEF RunBatch, TakeBatch
    <3> QED BY <3>1, <3>2
  <2>7. ASSUME NEW h \in Helpers, SpuriousWake(h) PROVE DoneInv'
    <3>1. Bystander(h)
      BY <2>7 DEF Bystander
    <3> QED BY <3>1, BystanderStep
  <2>8. CASE SpuriousReturn
    <3>1. Dispatching' => Dispatching /\ Signalled' = Signalled /\ doneCount' = doneCount
      BY <2>8 DEF SpuriousReturn, Signalled, Looking
    <3>2. pc'[0] = "bump" => pc[0] = "bump" /\ doneCount' = doneCount
      BY <2>8 DEF SpuriousReturn
    <3> QED BY <3>1, <3>2
  <2> QED BY <1>3, <2>1, <2>2, <2>3, <2>4, <2>5, <2>6, <2>7, <2>8
          DEF Environment
<1>4. CASE UNCHANGED vars
  <2>1. Signalled' = Signalled
    BY <1>4 DEF vars, Signalled, Looking
  <2> QED BY <1>4, <2>1 DEF vars
<1> QED BY <1>1, <1>2, <1>3, <1>4 DEF Next, Closed


\* The handshake holds at the start, when there is no helper and no batch.
LEMMA HandshakeInit == Init => HandshakeInv
<1> SUFFICES ASSUME Init PROVE HandshakeInv
  OBVIOUS
<1>1. /\ pc[0] = "none" /\ (\A h \in Helpers : pc[h] = "off" /\ seen[h] = 0)
      /\ spawned = 0 /\ nWorkers = 1 /\ generation = 0 /\ exitFlag = 0 /\ batch = 0
  BY BoundsAssumption DEF Init, Workers, Helpers
<1>2. \A h \in Helpers : h > spawned
  BY <1>1 DEF Helpers
<1>3. ~Preparing /\ ~Dispatching /\ ~Exiting
  BY <1>1 DEF Preparing, Dispatching, Exiting
<1>4. ThreadInv
  BY <1>1, <1>2, <1>3 DEF ThreadInv
<1>5. GenerationInv
  BY <1>1, <1>3 DEF GenerationInv, UpToDate, Serving
<1>6. DoneInv
  BY <1>1, <1>3 DEF DoneInv
<1>7. TaskInv
  BY <1>1, <1>3 DEF TaskInv, Working
<1> QED BY <1>4, <1>5, <1>6, <1>7 DEF HandshakeInv

\* The handshake is inductive: every step of the pool keeps it.
LEMMA HandshakeStep == TypeOK /\ HandshakeInv /\ [Next]_vars => HandshakeInv'
BY ThreadStep, GenerationStep, DoneStep, TaskStep DEF HandshakeInv

\* For every pool: no helper is lost, left behind or counted twice.
THEOREM HandshakeCorrect == Spec => []HandshakeInv
BY TypeInit, TypeStep, HandshakeInit, HandshakeStep, PTL DEF Spec

\* The caller writes the descriptor, or is out of runBatch, only when no helper
\* can read the descriptor or touch the caller's ctx.
THEOREM NoRace == Spec => []NoDescriptorRace
<1>1. HandshakeInv => NoDescriptorRace
  BY DEF HandshakeInv, GenerationInv, NoDescriptorRace
<1> QED BY <1>1, HandshakeCorrect, PTL

-----------------------------------------------------------------------------
(* Which items of a batch have run.                                        *)

\* One more run of item i of batch b, and of nothing else.
LEMMA CountEffect ==
  ASSUME TypeOK, NEW b \in Batches, NEW i, ran' = [ran EXCEPT ![b][i] = @ + 1]
  PROVE  /\ \A c \in Batches \ {b} : ran'[c] = ran[c]
         /\ \A j \in Items \ {i} : ran'[b][j] = ran[b][j]
         /\ i \in Items => ran'[b][i] = ran[b][i] + 1
<1> DEFINE new == [ran[b] EXCEPT ![i] = @ + 1]
<1>1. ran \in [Batches -> [Items -> Nat]]
  BY DEF TypeOK
<1>2. ran' = [ran EXCEPT ![b] = new]
  OBVIOUS
<1>3. ran'[b] = new /\ \A c \in Batches \ {b} : ran'[c] = ran[c]
  <2> HIDE DEF new
  <2> QED BY <1>1, <1>2
<1>4. ran[b] \in [Items -> Nat]
  BY <1>1
<1> QED BY <1>3, <1>4

\* A worker in its item loop runs an item of the batch in progress.
LEMMA RunsTheBatch ==
  ASSUME TypeOK, HandshakeInv, NEW w \in Workers, Working(w)
  PROVE  /\ Dispatching /\ batch \in Batches
         /\ job[w] = task /\ task.ctx = batch /\ job[0] = task
         /\ nWorkers > 1 /\ w \in 0 .. nWorkers - 1
<1>1. CASE w = 0
  BY <1>1, BoundsAssumption
     DEF HandshakeInv, TaskInv, ThreadInv, Working, Dispatching, Workers, TypeOK
<1>2. CASE w \in Helpers
  <2>1. Dispatching
    BY <1>2 DEF HandshakeInv, GenerationInv, Working, Serving
  <2>2. pc[w] # "off"
    BY <1>2 DEF Working
  <2>3. w <= spawned /\ spawned <= nWorkers - 1
    BY <1>2, <2>2, BoundsAssumption DEF HandshakeInv, ThreadInv, Helpers, TypeOK
  <2> QED BY <1>2, <2>1, <2>3, BoundsAssumption
          DEF HandshakeInv, TaskInv, ThreadInv, Helpers, TypeOK
<1> QED BY <1>1, <1>2 DEF Workers, Helpers

\* What has not been reached has not run.
LEMMA FreshStep ==
  ASSUME TypeOK, DispatchInv, [Next]_vars
  PROVE  FreshInv'
<1> USE BoundsAssumption
    DEF TypeOK, ControlOK, DispatchInv, HandshakeInv, ThreadInv, TaskInv, FreshInv,
        Goto, At, Workers, Helpers, Exiting, Preparing, Dispatching, poolVars,
        sharedVars, localVars
<1>1. CASE CallerStep
  <2>1. CASE ResetCursor
    BY <2>1 DEF ResetCursor
  <2>2. CASE ResetDone
    BY <2>2 DEF ResetDone
  <2>3. CASE Bump
    BY <2>3 DEF Bump
  <2>4. CASE Wake
    <3>1. /\ pc'[0] = "claim"
          /\ \A h \in Helpers : pc'[h] = pc[h] \/ (pc[h] = "parked" /\ pc'[h] = "load")
      BY <2>4, WakeEffect DEF Wake
    <3> QED BY <2>4, <3>1 DEF Wake
  <2>5. CASE Await
    BY <2>5 DEF Await
  <2>6. CASE WaitDone
    BY <2>6 DEF WaitDone
  <2>7. CASE RunSerial
    <3>1. /\ pc[0] = "serial" /\ batch \in Batches /\ batch' = batch
          /\ job' = job /\ pc' = pc /\ item[0] \in Nat /\ item[0] < job[0].total
      BY <2>7 DEF RunSerial
    <3>0. job[0].total \in 0 .. MaxItems
      BY <2>7 DEF Tasks
    <3>2. item[0] \in Items /\ item'[0] = item[0] + 1 /\ item'[0] <= job[0].total
      BY <2>7, <3>0, <3>1, SMTT(20) DEF RunSerial, Items
    <3>3. ran' = [ran EXCEPT ![batch][item[0]] = @ + 1]
      BY <2>7 DEF RunSerial
    <3>4. /\ \A c \in Batches \ {batch} : ran'[c] = ran[c]
          /\ \A j \in Items \ {item[0]} : ran'[batch][j] = ran[batch][j]
          /\ ran'[batch][item[0]] = ran[batch][item[0]] + 1
      BY <3>1, <3>2, <3>3, CountEffect
    <3>5. \A i \in Items : ran'[batch][i] = IF i < item'[0] THEN 1 ELSE 0
      <4> SUFFICES ASSUME NEW i \in Items
                   PROVE  ran'[batch][i] = IF i < item'[0] THEN 1 ELSE 0
        OBVIOUS
      <4>1. ran[batch][i] = IF i < item[0] THEN 1 ELSE 0
        BY <3>1
      <4>2. i \in Nat
        BY DEF Items
      <4>3. CASE i = item[0]
        BY <3>1, <3>2, <3>4, <4>1, <4>3
      <4>4. CASE i # item[0]
        BY <3>1, <3>2, <3>4, <4>1, <4>2, <4>4
      <4> QED BY <4>3, <4>4
    <3>6. ASSUME NEW b \in Batches, NEW i \in Items, b > batch PROVE ran'[b][i] = 0
      <4>1. b # batch
        BY <3>6
      <4> QED BY <3>4, <3>6, <4>1
    <3> QED BY <3>1, <3>2, <3>5, <3>6
  <2>8. CASE ReturnSerial
    BY <2>8 DEF ReturnSerial
  <2>9. CASE ClaimNext(0)
    BY <2>9 DEF ClaimNext, AfterItems
  <2>10. CASE ClaimOwn(0)
    BY <2>10 DEF ClaimOwn, AfterItems
  <2>11. CASE RunItem(0)
    <3>1. Working(0) /\ 0 \in Workers
      BY <2>11, BoundsAssumption DEF RunItem, Working, TypeOK
    <3>2. Dispatching /\ batch \in Batches /\ job[0].ctx = batch
      BY <3>1, RunsTheBatch
    <3>3. ran' = [ran EXCEPT ![batch][item[0]] = @ + 1]
      BY <2>11, <3>2 DEF RunItem
    <3>4. \A c \in Batches \ {batch} : ran'[c] = ran[c]
      BY <3>2, <3>3, CountEffect
    <3>5. pc'[0] \in {"claim", pc[0]} /\ batch' = batch
      BY <2>11 DEF RunItem
    <3>6. /\ ~Preparing' /\ pc'[0] # "serial"
          /\ pc'[0] \notin {"reset_cursor", "reset_done", "bump"}
      BY <3>2, <3>5
    <3>7. ASSUME NEW b \in Batches, NEW i \in Items, b > batch' PROVE ran'[b][i] = 0
      <4>1. b # batch /\ b > batch
        BY <3>2, <3>5, <3>7 DEF Batches
      <4> QED BY <3>4, <4>1
    <3> QED BY <3>6, <3>7
  <2>12. CASE SpawnHelper
    BY <2>12 DEF SpawnHelper
  <2>13. CASE BumpExit
    BY <2>13 DEF BumpExit
  <2>14. CASE WakeExit
    <3>1. /\ pc'[0] = "join"
          /\ \A h \in Helpers : pc'[h] = pc[h] \/ (pc[h] = "parked" /\ pc'[h] = "load")
      BY <2>14, WakeEffect DEF WakeExit
    <3> QED BY <2>14, <3>1 DEF WakeExit
  <2>15. CASE JoinAndFree
    BY <2>15 DEF JoinAndFree
  <2> QED BY <1>1, <2>1, <2>2, <2>3, <2>4, <2>5, <2>6, <2>7, <2>8, <2>9, <2>10, <2>11,
             <2>12, <2>13, <2>14, <2>15
          DEF CallerStep
<1>2. ASSUME NEW h \in Helpers, HelperStep(h) PROVE FreshInv'
  <2>1. CASE LoadGeneration(h)
    BY <2>1 DEF LoadGeneration
  <2>2. CASE CheckGeneration(h)
    BY <2>2 DEF CheckGeneration
  <2>3. CASE WaitGeneration(h)
    BY <2>3 DEF WaitGeneration
  <2>4. CASE CheckExit(h)
    BY <2>4 DEF CheckExit
  <2>5. CASE ReadTask(h)
    BY <2>5 DEF ReadTask
  <2>6. CASE SignalDone(h)
    BY <2>6 DEF SignalDone
  <2>7. CASE WakeCaller(h)
    BY <2>7 DEF WakeCaller
  <2>8. CASE ClaimNext(h)
    <3>1. Dispatching
      BY <2>8 DEF ClaimNext, GenerationInv, Serving
    <3> QED BY <2>8, <3>1 DEF ClaimNext, AfterItems
  <2>9. CASE ClaimOwn(h)
    BY <2>9 DEF ClaimOwn, AfterItems
  <2>10. CASE RunItem(h)
    <3>1. Working(h) /\ h \in Workers
      BY <2>10, BoundsAssumption DEF RunItem, Working, TypeOK
    <3>2. Dispatching /\ batch \in Batches /\ job[h].ctx = batch
      BY <3>1, RunsTheBatch
    <3>3. ran' = [ran EXCEPT ![batch][item[h]] = @ + 1]
      BY <2>10, <3>2 DEF RunItem
    <3>4. \A c \in Batches \ {batch} : ran'[c] = ran[c]
      BY <3>2, <3>3, CountEffect
    <3>5. pc'[0] \in {"claim", pc[0]} /\ batch' = batch
      BY <2>10 DEF RunItem
    <3>6. /\ ~Preparing' /\ pc'[0] # "serial"
          /\ pc'[0] \notin {"reset_cursor", "reset_done", "bump"}
      BY <3>2, <3>5
    <3>7. ASSUME NEW b \in Batches, NEW i \in Items, b > batch' PROVE ran'[b][i] = 0
      <4>1. b # batch /\ b > batch
        BY <3>2, <3>5, <3>7 DEF Batches
      <4> QED BY <3>4, <4>1
    <3> QED BY <3>6, <3>7
  <2> QED BY <1>2, <2>1, <2>2, <2>3, <2>4, <2>5, <2>6, <2>7, <2>8, <2>9, <2>10
          DEF HelperStep
<1>3. CASE Environment
  <2>1. ASSUME NEW n \in 0 .. MaxWorkers, PoolInit(n) PROVE FreshInv'
    BY <2>1 DEF PoolInit
  <2>2. CASE SpawnFails
    BY <2>2 DEF SpawnFails
  <2>3. CASE Deinit
    BY <2>3 DEF Deinit
  <2>4. CASE RunNothing
    <3>1. batch \in Nat /\ batch' = batch + 1 /\ ran' = ran
      BY <2>4 DEF RunNothing
    <3>2. pc'[0] = "idle"
      BY <2>4 DEF RunNothing
    <3>3. \A b \in Batches : b \in Nat
      BY DEF Batches
    <3> QED BY <3>1, <3>2, <3>3
  <2>5. ASSUME NEW total \in 1 .. MaxItems, NEW part \in {0, 1}, RunBatchSerial(total, part)
        PROVE  FreshInv'
    <3>1. /\ batch \in Nat /\ batch' = batch + 1 /\ ran' = ran /\ batch' \in Batches
          /\ 0 \in Workers
      BY <2>5 DEF RunBatchSerial, TakeBatch, Batches
    <3>2. pc'[0] = "serial" /\ item'[0] = 0 /\ job'[0].total = total
      BY <2>5, <3>1 DEF RunBatchSerial, TakeBatch
    <3>3. \A b \in Batches : b \in Nat
      BY DEF Batches
    <3>4. \A i \in Items : i \in Nat /\ ~(i < 0)
      BY DEF Items
    <3>5. \A b \in Batches, i \in Items : b > batch => ran[b][i] = 0
      OBVIOUS
    <3>6. \A b \in Batches, i \in Items : b > batch' => ran'[b][i] = 0
      BY <3>1, <3>3, <3>5
    <3>7. \A i \in Items : ran'[batch'][i] = 0
      BY <3>1, <3>5
    <3> QED BY <3>2, <3>4, <3>6, <3>7
  <2>6. ASSUME NEW total \in 1 .. MaxItems, NEW part \in {0, 1}, RunBatch(total, part)
        PROVE  FreshInv'
    <3>1. /\ batch \in Nat /\ batch' = batch + 1 /\ ran' = ran /\ batch' \in Batches
          /\ 0 \in Workers
      BY <2>6 DEF RunBatch, TakeBatch, Batches
    <3>2. pc'[0] = "reset_cursor" /\ item'[0] = 0 /\ job'[0].total = total
      BY <2>6, <3>1 DEF RunBatch, TakeBatch
    <3>3. \A b \in Batches : b \in Nat
      BY DEF Batches
    <3>4. \A i \in Items : i \in Nat /\ ~(i < 0)
      BY DEF Items
    <3>5. \A b \in Batches, i \in Items : b > batch => ran[b][i] = 0
      OBVIOUS
    <3>6. \A b \in Batches, i \in Items : b > batch' => ran'[b][i] = 0
      BY <3>1, <3>3, <3>5
    <3>7. \A i \in Items : ran'[batch'][i] = 0
      BY <3>1, <3>5
    <3> QED BY <3>2, <3>4, <3>6, <3>7
  <2>7. ASSUME NEW h \in Helpers, SpuriousWake(h) PROVE FreshInv'
    BY <2>7 DEF SpuriousWake
  <2>8. CASE SpuriousReturn
    BY <2>8 DEF SpuriousReturn
  <2> QED BY <1>3, <2>1, <2>2, <2>3, <2>4, <2>5, <2>6, <2>7, <2>8
          DEF Environment
<1>4. CASE UNCHANGED vars
  BY <1>4 DEF vars
<1> QED BY <1>1, <1>2, <1>3, <1>4 DEF Next, Closed


\* Division keeps the order, and undoes multiplication.
LEMMA QuotientMonotone ==
  ASSUME NEW a \in Nat, NEW b \in Nat, NEW n \in Nat, n > 0, a <= b
  PROVE  a \div n <= b \div n
OBVIOUS

\* Multiplication keeps the order.
LEMMA ProductMonotone ==
  ASSUME NEW a \in Nat, NEW b \in Nat, NEW n \in Nat, a <= b
  PROVE  n * a \in Nat /\ n * b \in Nat /\ n * a <= n * b
OBVIOUS

\* A multiple divides back.
LEMMA ProductQuotient ==
  ASSUME NEW a \in Nat, NEW n \in Nat, n > 0
  PROVE  (a * n) \div n = a
OBVIOUS

\* The ranges lie between 0 and the total, in the order of the workers, and
\* the last one ends with the last item.
LEMMA RangeOrder ==
  ASSUME nWorkers \in Nat, nWorkers > 0, NEW t \in Nat, NEW w \in 0 .. nWorkers - 1
  PROVE  /\ RangeStart(t, w) \in Nat /\ RangeEnd(t, w) \in Nat
         /\ RangeStart(t, w) <= RangeEnd(t, w)
         /\ RangeEnd(t, w) <= t
         /\ RangeStart(t, 0) = 0
         /\ RangeEnd(t, nWorkers - 1) = t
         /\ \A v \in 0 .. nWorkers - 1 : v < w => RangeEnd(t, v) <= RangeStart(t, w)
<1>1. w \in Nat /\ w + 1 \in Nat /\ w + 1 <= nWorkers
  OBVIOUS
<1>2. t * w \in Nat /\ t * (w + 1) \in Nat /\ t * nWorkers \in Nat
  BY <1>1, ProductMonotone
<1>3. t * w <= t * (w + 1) /\ t * (w + 1) <= t * nWorkers
  BY <1>1, ProductMonotone
<1>4. RangeStart(t, w) \in Nat /\ RangeEnd(t, w) \in Nat
  BY <1>2, QuotientIsNat DEF RangeStart, RangeEnd
<1>5. RangeStart(t, w) <= RangeEnd(t, w)
  BY <1>2, <1>3, QuotientMonotone DEF RangeStart, RangeEnd
<1>6. (t * nWorkers) \div nWorkers = t
  BY ProductQuotient
<1>7. RangeEnd(t, w) <= t
  BY <1>2, <1>3, <1>6, QuotientMonotone DEF RangeEnd
<1>8. RangeStart(t, 0) = 0
  <2>1. t * 0 = 0 /\ 0 \div nWorkers = 0
    OBVIOUS
  <2> QED BY <2>1 DEF RangeStart
<1>9. RangeEnd(t, nWorkers - 1) = t
  <2>1. (nWorkers - 1) + 1 = nWorkers
    OBVIOUS
  <2> QED BY <1>6, <2>1 DEF RangeEnd
<1>10. ASSUME NEW v \in 0 .. nWorkers - 1, v < w
       PROVE  RangeEnd(t, v) <= RangeStart(t, w)
  <2>1. v + 1 \in Nat /\ v + 1 <= w
    BY <1>10
  <2>2. t * (v + 1) \in Nat /\ t * (v + 1) <= t * w
    BY <1>1, <2>1, ProductMonotone
  <2> QED BY <1>2, <2>2, QuotientMonotone DEF RangeStart, RangeEnd
<1> QED BY <1>4, <1>5, <1>7, <1>8, <1>9, <1>10

\* A step that runs no item and changes nobody's claim to one.
SameRuns ==
  Dispatching' =>
    /\ Dispatching
    /\ UNCHANGED <<nWorkers, batch, task, ran, cursor>>
    /\ \A w \in Workers :
         /\ pc'[w] = "run" <=> pc[w] = "run"
         /\ pc[w] = "run" => item'[w] = item[w]
         /\ Finished(w)' <=> Finished(w)

\* And neither enters the item loop nor sets the caller's position.
SameWork ==
  /\ SameRuns
  /\ Dispatching' =>
       /\ pc'[0] = "wake" => pc[0] = "wake"
       /\ item'[0] = item[0]
       /\ \A w \in Workers :
            /\ pc'[w] = "claim" <=> pc[w] = "claim"
            /\ Working(w) => item'[w] = item[w]

\* DynamicInv is kept by a step that leaves alone what it speaks of: the
\* descriptor, the cursor, the log of runs, and who runs or has finished what.
LEMMA SameDynamic ==
  ASSUME DynamicInv, SameRuns
  PROVE  DynamicInv'
<1> SUFFICES ASSUME Dispatching', task'.part = 0 PROVE DynamicInv'
  BY DEF DynamicInv
<1>1. Dispatching /\ task' = task /\ batch' = batch /\ ran' = ran /\ cursor' = cursor
  BY DEF SameRuns
<1>2. \A w \in Workers : pc'[w] = "run" <=> pc[w] = "run"
  BY DEF SameRuns
<1>3. \A w \in Workers : pc[w] = "run" => item'[w] = item[w]
  BY DEF SameRuns
<1>4. \A w \in Workers : Finished(w)' <=> Finished(w)
  BY DEF SameRuns
<1>5. \A w \in Workers : pc'[w] = "run" => item'[w] < cursor /\ item'[w] < task.total
  BY <1>1, <1>2, <1>3 DEF DynamicInv
<1>6. \A v, w \in Workers :
        pc'[v] = "run" /\ pc'[w] = "run" /\ v # w => item'[v] # item'[w]
  BY <1>1, <1>2, <1>3 DEF DynamicInv
<1>7. ASSUME NEW i \in 0 .. task.total - 1
      PROVE  ran[batch][i] = IF i < cursor /\ ~\E w \in Workers : pc'[w] = "run"
                /\ item'[w] = i
                             THEN 1 ELSE 0
  <2>1. (\E w \in Workers : pc'[w] = "run" /\ item'[w] = i)
          <=> (\E w \in Workers : pc[w] = "run" /\ item[w] = i)
    BY <1>2, <1>3
  <2>2. ran[batch][i] = IF i < cursor /\ ~\E w \in Workers : pc[w] = "run" /\ item[w] = i
                        THEN 1 ELSE 0
    BY <1>1 DEF DynamicInv
  <2> QED BY <2>1, <2>2
<1>8. \A w \in Workers : Finished(w)' => cursor >= task.total
  BY <1>1, <1>4 DEF DynamicInv
<1> QED BY <1>1, <1>5, <1>6, <1>7, <1>8 DEF DynamicInv

\* A worker's range is as it was when neither the worker nor its items moved.
LEMMA SameRange ==
  ASSUME NEW w \in Workers, OwnRangeInv(w), UNCHANGED <<nWorkers, batch, task>>,
         \A i \in RangeStart(task.total, w) .. RangeEnd(task.total, w) - 1 :
           ran'[batch][i] = ran[batch][i],
         pc'[w] = "run" <=> pc[w] = "run", pc'[w] = "claim" <=> pc[w] = "claim",
         Working(w) => item'[w] = item[w], Finished(w)' <=> Finished(w)
  PROVE  OwnRangeInv(w)'
<1>1. /\ RangeStart(task.total, w)' = RangeStart(task.total, w)
      /\ RangeEnd(task.total, w)' = RangeEnd(task.total, w)
  BY DEF RangeStart, RangeEnd
<1>2. (Working(w)' <=> Working(w)) /\ (pc[w] = "run" => Working(w))
  BY DEF Working
<1> QED BY <1>1, <1>2 DEF OwnRangeInv

\* A step of neither kind leaves what is known about the items as it is.
LEMMA SameWorkKept ==
  ASSUME TypeOK, DynamicInv, PartitionInv, SameWork
  PROVE  DynamicInv' /\ PartitionInv'
<1>1. DynamicInv'
  BY SameDynamic DEF SameWork
<1>2. PartitionInv'
  <2> SUFFICES ASSUME Dispatching', task'.part # 0 PROVE PartitionInv'
    BY DEF PartitionInv
  <2>1. /\ Dispatching /\ task.part # 0
        /\ task' = task /\ batch' = batch /\ ran' = ran /\ nWorkers' = nWorkers
    BY DEF SameWork, SameRuns
  <2>2. (pc[0] = "wake" => item[0] = 0) /\ \A w \in 0 .. nWorkers - 1 : OwnRangeInv(w)
    BY <2>1 DEF PartitionInv
  <2>3. pc'[0] = "wake" => item'[0] = 0
    BY <2>2 DEF SameWork
  <2>4. ASSUME NEW w \in 0 .. nWorkers - 1 PROVE OwnRangeInv(w)'
    <3>1. w \in Workers /\ OwnRangeInv(w)
      BY <2>2, BoundsAssumption DEF Workers, TypeOK
    <3> QED BY <2>1, <3>1, SameRange DEF SameWork, SameRuns
  <2> QED BY <2>1, <2>3, <2>4 DEF PartitionInv
<1> QED BY <1>1, <1>2

\* The work part of the invariant is kept by the steps of a helper that is
\* outside the item loop before and after.
LEMMA BystanderWork ==
  ASSUME TypeOK, DispatchInv, NEW h \in Helpers, Bystander(h)
  PROVE  DynamicInv' /\ PartitionInv'
<1>1. /\ UNCHANGED <<nWorkers, batch, task, ran, cursor, item, generation>>
      /\ (Dispatching' <=> Dispatching)
      /\ pc'[0] = "wake" <=> pc[0] = "wake"
      /\ pc'[0] = "claim" <=> pc[0] = "claim"
      /\ pc'[0] = "run" <=> pc[0] = "run"
      /\ pc'[h] \notin {"claim", "run", "done"} /\ pc[h] \notin {"claim", "run", "done"}
      /\ \A g \in Helpers \ {h} : pc'[g] = pc[g]
      /\ Dispatching => Signalled' = Signalled
  BY BystanderStep DEF DispatchInv
<1>2. ASSUME Dispatching', NEW w \in Workers
      PROVE  /\ pc'[w] = "run" <=> pc[w] = "run"
             /\ pc'[w] = "claim" <=> pc[w] = "claim"
             /\ Finished(w)' <=> Finished(w)
  <2>1. CASE w = 0
    BY <1>1, <1>2, <2>1 DEF Finished, Dispatching
  <2>2. CASE w = h
    <3>1. w # 0
      BY <2>2 DEF Helpers
    <3> QED BY <1>1, <1>2, <2>2, <3>1 DEF Finished
  <2>3. CASE w # 0 /\ w # h
    <3>1. w \in Helpers \ {h}
      BY <2>3 DEF Workers, Helpers
    <3> QED BY <1>1, <1>2, <3>1, <2>3 DEF Finished
  <2> QED BY <2>1, <2>2, <2>3
<1>3. SameWork
  BY <1>1, <1>2 DEF SameWork, SameRuns
<1> QED BY <1>3, SameWorkKept DEF DispatchInv

\* The items of a batch are items of the model.
LEMMA BatchItems ==
  ASSUME TypeOK
  PROVE  /\ task.total \in Nat /\ 0 .. task.total - 1 \in SUBSET Items
         /\ nWorkers \in Nat /\ nWorkers > 0
         /\ 0 .. nWorkers - 1 \in SUBSET Workers /\ 0 \in Workers
<1>1. task.total \in 0 .. MaxItems
  BY DEF TypeOK, Tasks
<1>2. nWorkers \in 1 .. MaxWorkers
  BY DEF TypeOK
<1> QED BY <1>1, <1>2, BoundsAssumption DEF Items, Workers

\* A batch starts with nothing claimed, nothing run and nobody working.
LEMMA BumpWork ==
  ASSUME TypeOK, DispatchInv, Bump
  PROVE  DynamicInv' /\ PartitionInv'
<1>1. /\ pc'[0] = "wake" /\ \A h \in Helpers : pc'[h] = pc[h]
      /\ UNCHANGED <<nWorkers, batch, task, cursor, seen, item, ran, job>>
      /\ generation' = (generation + 1) % GenMod
  BY BoundsAssumption
     DEF Bump, TypeOK, ControlOK, Workers, Helpers, Goto, At, poolVars, localVars
<1>2. pc[0] = "bump"
  BY DEF Bump, At
<1>3. generation' # generation
  BY <1>1, NewGeneration DEF TypeOK
<1>4. \A h \in Helpers : pc[h] \notin {"claim", "run", "done"} /\ (pc[h] # "off"
         => seen[h] = generation)
  BY <1>2 DEF DispatchInv, HandshakeInv, GenerationInv, UpToDate, Dispatching,
     Exiting, Serving
<1>5. \A w \in Workers : pc'[w] \notin {"claim", "run"} /\ ~Finished(w)'
  <2> SUFFICES ASSUME NEW w \in Workers
               PROVE  pc'[w] \notin {"claim", "run"} /\ ~Finished(w)'
    OBVIOUS
  <2>1. CASE w = 0
    BY <1>1, <2>1 DEF Finished
  <2>2. CASE w \in Helpers
    <3>1. w # 0
      BY <2>2 DEF Helpers
    <3> QED BY <1>1, <1>3, <1>4, <2>2, <3>1 DEF Finished, Signalled, Looking
  <2> QED BY <2>1, <2>2 DEF Workers, Helpers
<1>6. cursor = 0 /\ item[0] = 0 /\ \A i \in Items : ran[batch][i] = 0
  BY <1>2 DEF DispatchInv, FreshInv, Preparing
<1>7. DynamicInv'
  <2>1. \A i \in 0 .. task.total - 1 : ran[batch][i] = 0 /\ ~(i < 0)
    BY <1>6, BatchItems
  <2> QED BY <1>1, <1>5, <1>6, <2>1 DEF DynamicInv
<1>8. PartitionInv'
  <2>1. ASSUME NEW w \in 0 .. nWorkers - 1 PROVE OwnRangeInv(w)'
    <3>1. w \in Workers
      BY BatchItems
    <3>2. RangeStart(task.total, w) \in Nat /\ RangeEnd(task.total, w) \in Nat
             /\ RangeEnd(task.total, w) <= task.total
      BY BatchItems, RangeOrder
    <3>3. \A i \in RangeStart(task.total, w) .. RangeEnd(task.total, w) - 1 : i \in Items
      BY <3>2, BatchItems
    <3>4. /\ RangeStart(task.total, w)' = RangeStart(task.total, w)
          /\ RangeEnd(task.total, w)' = RangeEnd(task.total, w)
      BY <1>1 DEF RangeStart, RangeEnd
    <3> QED BY <1>1, <1>5, <1>6, <3>1, <3>3, <3>4 DEF OwnRangeInv, Working
  <2> QED BY <1>1, <1>6, <2>1 DEF PartitionInv
<1> QED BY <1>7, <1>8

\* Worker w enters its item loop at the start of its range.
LEMMA EnterLoop ==
  ASSUME TypeOK, DispatchInv, NEW w \in 0 .. nWorkers - 1, OwnRangeInv(w),
         UNCHANGED <<nWorkers, batch, task, ran>>,
         pc[w] \notin {"claim", "run"}, ~Finished(w), ~Finished(w)',
         pc'[w] = "claim", item'[w] = RangeStart(task.total, w)
  PROVE  OwnRangeInv(w)'
<1>1. /\ RangeStart(task.total, w) \in Nat /\ RangeEnd(task.total, w) \in Nat
      /\ RangeStart(task.total, w) <= RangeEnd(task.total, w)
  BY BatchItems, RangeOrder
<1>2. /\ RangeStart(task.total, w)' = RangeStart(task.total, w)
      /\ RangeEnd(task.total, w)' = RangeEnd(task.total, w)
  BY DEF RangeStart, RangeEnd
<1>3. \A i \in RangeStart(task.total, w) .. RangeEnd(task.total, w) - 1 :
        ran[batch][i] = 0 /\ ~(i < item'[w])
  BY <1>1 DEF OwnRangeInv, Working
<1> QED BY <1>1, <1>2, <1>3 DEF OwnRangeInv, Working

\* The caller, awake again, and its range.
LEMMA WakeWork ==
  ASSUME TypeOK, DispatchInv, Wake
  PROVE  DynamicInv' /\ PartitionInv'
<1>1. /\ pc'[0] = "claim"
      /\ \A h \in Helpers : pc'[h] = pc[h] \/ (pc[h] = "parked" /\ pc'[h] = "load")
  BY WakeEffect DEF Wake, TypeOK
<1>2. /\ pc[0] = "wake"
      /\ UNCHANGED <<nWorkers, batch, task, cursor, generation, seen, item, ran>>
  BY DEF Wake, At, poolVars, sharedVars, localVars
<1>3. Dispatching
  BY <1>2 DEF Dispatching
<1>4. ASSUME NEW h \in Helpers
      PROVE  /\ pc'[h] = "run" <=> pc[h] = "run"
             /\ pc'[h] = "claim" <=> pc[h] = "claim"
             /\ Finished(h)' <=> Finished(h)
  <2>1. h # 0
    BY DEF Helpers
  <2> QED BY <1>1, <1>2, <2>1 DEF Finished, Signalled, Looking
<1>5. ~Finished(0) /\ ~Finished(0)'
  BY <1>1, <1>2 DEF Finished
<1>6. SameRuns
  <2>1. \A w \in Workers : w = 0 \/ w \in Helpers
    BY DEF Workers, Helpers
  <2> QED BY <1>1, <1>2, <1>3, <1>4, <1>5, <2>1 DEF SameRuns
<1>7. PartitionInv'
  <2> SUFFICES ASSUME task.part # 0, NEW w \in 0 .. nWorkers - 1 PROVE OwnRangeInv(w)'
    BY <1>1, <1>2 DEF PartitionInv
  <2>1. item[0] = 0 /\ OwnRangeInv(w) /\ w \in Workers
    BY <1>2, <1>3, BatchItems DEF DispatchInv, PartitionInv
  <2>2. CASE w = 0
    <3>1. item'[0] = RangeStart(task.total, 0)
      BY <1>2, <2>1, <2>2, BatchItems, RangeOrder
    <3> QED BY <1>1, <1>2, <1>5, <2>1, <2>2, <3>1, EnterLoop
  <2>3. CASE w # 0
    <3>1. w \in Helpers
      BY <2>1, <2>3 DEF Workers, Helpers
    <3> QED BY <1>2, <1>4, <2>1, <3>1, SameRange
  <2> QED BY <2>2, <2>3
<1> QED BY <1>6, <1>7, SameDynamic DEF DispatchInv

\* A helper reads the descriptor of the batch in progress.
LEMMA ReadWork ==
  ASSUME TypeOK, DispatchInv, NEW h \in Helpers, ReadTask(h)
  PROVE  DynamicInv' /\ PartitionInv'
<1>1. /\ pc[h] = "read" /\ h \in Workers /\ h # 0
      /\ UNCHANGED <<nWorkers, batch, task, cursor, generation, seen, ran>>
  BY DEF ReadTask, At, poolVars, sharedVars, localVars, Helpers, Workers
<1>2. Dispatching /\ spawned <= nWorkers - 1 /\ h <= spawned
  BY <1>1, BoundsAssumption DEF DispatchInv, HandshakeInv, GenerationInv, Serving,
     ThreadInv, Helpers, TypeOK
<1>3. task.ctx # 0 /\ h \in 0 .. nWorkers - 1
  <2>1. task.ctx = batch /\ batch \in Batches
    BY <1>2 DEF DispatchInv, HandshakeInv, TaskInv
  <2>2. h \in 0 .. nWorkers - 1
    BY <1>2, BoundsAssumption DEF Helpers, TypeOK
  <2> QED BY <2>1, <2>2 DEF Batches
<1>4. /\ pc' = [pc EXCEPT ![h] = "claim"]
      /\ item' = [item EXCEPT ![h] = RangeStart(task.total, h)]
  BY <1>3 DEF ReadTask, Goto
<1>5. /\ pc'[h] = "claim" /\ item'[h] = RangeStart(task.total, h)
      /\ \A w \in Workers \ {h} : pc'[w] = pc[w] /\ item'[w] = item[w]
  BY <1>1, <1>4 DEF TypeOK, ControlOK
<1>6. ~Finished(h) /\ ~Finished(h)'
  BY <1>1, <1>5 DEF Finished, Signalled, Looking
<1>7. \A w \in Workers \ {h} : Finished(w)' <=> Finished(w)
  <2> SUFFICES ASSUME NEW w \in Workers \ {h} PROVE Finished(w)' <=> Finished(w)
    OBVIOUS
  <2>1. pc'[w] = pc[w]
    BY <1>5
  <2>2. w \in Signalled' <=> w \in Signalled
    BY <1>1, <2>1 DEF Signalled, Looking
  <2>3. CASE w = 0
    BY <2>1, <2>3 DEF Finished
  <2>4. CASE w # 0
    BY <2>1, <2>2, <2>4 DEF Finished
  <2> QED BY <2>3, <2>4
<1>8. SameRuns
  BY <1>1, <1>2, <1>5, <1>6, <1>7 DEF SameRuns
<1>9. PartitionInv'
  <2> SUFFICES ASSUME task.part # 0 PROVE PartitionInv'
    BY <1>1 DEF PartitionInv
  <2>1. 0 \in Workers \ {h} /\ pc'[0] = pc[0] /\ item'[0] = item[0]
    BY <1>1, <1>5, BatchItems
  <2>2. (pc[0] = "wake" => item[0] = 0) /\ \A w \in 0 .. nWorkers - 1 : OwnRangeInv(w)
    BY <1>2 DEF DispatchInv, PartitionInv
  <2>3. ASSUME NEW w \in 0 .. nWorkers - 1 PROVE OwnRangeInv(w)'
    <3>1. w \in Workers /\ OwnRangeInv(w)
      BY <2>2, BatchItems
    <3>2. CASE w = h
      BY <1>1, <1>5, <1>6, <3>1, <3>2, EnterLoop
    <3>3. CASE w # h
      BY <1>1, <1>5, <1>7, <3>1, <3>3, SameRange
    <3> QED BY <3>2, <3>3
  <2> QED BY <1>1, <2>1, <2>2, <2>3 DEF PartitionInv
<1> QED BY <1>8, <1>9, SameDynamic DEF DispatchInv

\* A step of the item loop moves worker w alone, within the batch in progress.
LEMMA LoopStep ==
  ASSUME TypeOK, DispatchInv, NEW w \in Workers,
         ClaimNext(w) \/ ClaimOwn(w) \/ RunItem(w)
  PROVE  /\ Dispatching /\ batch \in Batches /\ job[w] = task /\ w \in 0 .. nWorkers - 1
         /\ UNCHANGED <<nWorkers, batch, task, generation, seen>>
         /\ pc[w] \in {"claim", "run"} /\ ~Finished(w) /\ item[w] \in Nat
         /\ task.ctx = batch
         /\ pc'[0] = "wake" => pc[0] = "wake" /\ item'[0] = item[0]
         /\ pc'[w] \in {"claim", "run", AfterItems(w)}
         /\ \A v \in Workers \ {w} :
              pc'[v] = pc[v] /\ item'[v] = item[v] /\ (Finished(v)' <=> Finished(v))
<1>1. pc[w] \in {"claim", "run"}
  BY DEF ClaimNext, ClaimOwn, RunItem, At
<1>2. /\ Dispatching /\ batch \in Batches /\ job[w] = task /\ w \in 0 .. nWorkers - 1
      /\ task.ctx = batch
  BY <1>1, RunsTheBatch DEF DispatchInv, Working
<1>3. UNCHANGED <<nWorkers, batch, task, generation, seen>>
  BY DEF ClaimNext, ClaimOwn, RunItem, poolVars, sharedVars, localVars
<1>4. pc'[w] \in {"claim", "run", AfterItems(w)} /\ pc' = [pc EXCEPT ![w] = pc'[w]]
  BY DEF ClaimNext, ClaimOwn, RunItem, Goto, TypeOK, ControlOK
<1>5. item' = [item EXCEPT ![w] = item'[w]]
  BY DEF ClaimNext, ClaimOwn, RunItem, TypeOK, localVars
<1>6. \A v \in Workers \ {w} : pc'[v] = pc[v] /\ item'[v] = item[v]
  BY <1>4, <1>5 DEF TypeOK, ControlOK
<1>7. ASSUME NEW v \in Workers \ {w} PROVE Finished(v)' <=> Finished(v)
  <2>1. pc'[v] = pc[v]
    BY <1>6
  <2>2. v \in Signalled' <=> v \in Signalled
    BY <1>3, <2>1 DEF Signalled, Looking
  <2>3. CASE v = 0
    BY <2>1, <2>3 DEF Finished
  <2>4. CASE v # 0
    BY <2>1, <2>2, <2>4 DEF Finished
  <2> QED BY <2>3, <2>4
<1>8. ~Finished(w) /\ item[w] \in Nat
  BY <1>1 DEF Finished, Signalled, Looking, TypeOK
<1>9. pc'[0] = "wake" => pc[0] = "wake" /\ item'[0] = item[0]
  <2>1. CASE w = 0
    BY <1>4, <2>1 DEF AfterItems
  <2>2. CASE w # 0
    BY <1>6, <2>2, BatchItems
  <2> QED BY <2>1, <2>2
<1> QED BY <1>1, <1>2, <1>3, <1>4, <1>6, <1>7, <1>8, <1>9

\* Dynamic mode: a claim takes the next item, or finds that none is left.
LEMMA ClaimNextWork ==
  ASSUME TypeOK, DispatchInv, NEW w \in Workers, ClaimNext(w)
  PROVE  DynamicInv' /\ PartitionInv'
<1>1. /\ Dispatching /\ batch \in Batches /\ job[w] = task
      /\ UNCHANGED <<nWorkers, batch, task, generation, seen>>
      /\ ~Finished(w)
      /\ \A v \in Workers \ {w} :
           pc'[v] = pc[v] /\ item'[v] = item[v] /\ (Finished(v)' <=> Finished(v))
  BY LoopStep
<1>2. /\ pc[w] = "claim" /\ task.part = 0 /\ ran' = ran
      /\ cursor \in Nat /\ cursor' = cursor + 1 /\ item'[w] = cursor
      /\ pc'[w] = IF cursor < task.total THEN "run" ELSE AfterItems(w)
  BY <1>1 DEF ClaimNext, Goto, At, TypeOK, ControlOK
<1>3. PartitionInv'
  BY <1>1, <1>2 DEF PartitionInv
<1>4. /\ \A v \in Workers : pc[v] = "run" => item[v] < cursor /\ item[v] < task.total
      /\ \A v, u \in Workers : pc[v] = "run" /\ pc[u] = "run" /\ v # u => item[v] # item[u]
      /\ \A i \in 0 .. task.total - 1 :
           ran[batch][i] = IF i < cursor /\ ~\E v \in Workers : pc[v] = "run" /\ item[v] = i
                           THEN 1 ELSE 0
      /\ \A v \in Workers : Finished(v) => cursor >= task.total
  BY <1>1, <1>2 DEF DispatchInv, DynamicInv
<1>5. \A v \in Workers : item[v] \in Nat
  BY DEF TypeOK
<1>6. task.total \in Nat
  BY BatchItems
<1>7. CASE cursor < task.total
  <2>1. pc'[w] = "run"
    BY <1>2, <1>7
  <2>2. \A v \in Workers : pc'[v] = "run" => item'[v] < cursor' /\ item'[v] < task.total
    <3> SUFFICES ASSUME NEW v \in Workers, pc'[v] = "run"
                 PROVE  item'[v] < cursor + 1 /\ item'[v] < task.total
      BY <1>2
    <3>1. CASE v = w
      BY <1>2, <1>7, <3>1
    <3>2. CASE v # w
      BY <1>1, <1>2, <1>4, <1>5, <3>2
    <3> QED BY <3>1, <3>2
  <2>3. \A v, u \in Workers : pc'[v] = "run" /\ pc'[u] = "run" /\ v # u => item'[v] # item'[u]
    <3> SUFFICES ASSUME NEW v \in Workers, NEW u \in Workers,
                        pc'[v] = "run", pc'[u] = "run", v # u
                 PROVE  item'[v] # item'[u]
      OBVIOUS
    <3>1. \A x \in Workers \ {w} : pc'[x] = "run" => item'[x] # cursor
      BY <1>1, <1>2, <1>4, <1>5
    <3>2. CASE v = w \/ u = w
      BY <1>2, <3>1, <3>2
    <3>3. CASE v # w /\ u # w
      BY <1>1, <1>4, <3>3
    <3> QED BY <3>2, <3>3
  <2>4. ASSUME NEW i \in 0 .. task.total - 1
        PROVE  ran[batch][i] = IF i < cursor' /\ ~\E v \in Workers : pc'[v] = "run"
                  /\ item'[v] = i
                               THEN 1 ELSE 0
    <3>1. CASE i = cursor
      <4>1. \E v \in Workers : pc'[v] = "run" /\ item'[v] = i
        BY <1>2, <2>1, <3>1
      <4>2. ~(i < cursor)
        BY <1>2, <3>1
      <4> QED BY <1>4, <4>1, <4>2
    <3>2. CASE i # cursor
      <4>1. (\E v \in Workers : pc'[v] = "run" /\ item'[v] = i)
              <=> (\E v \in Workers : pc[v] = "run" /\ item[v] = i)
        BY <1>1, <1>2, <3>2
      <4>2. i < cursor' <=> i < cursor
        BY <1>2, <3>2
      <4> QED BY <1>4, <4>1, <4>2
    <3> QED BY <3>1, <3>2
  <2>5. \A v \in Workers : Finished(v)' => cursor' >= task.total
    <3> SUFFICES ASSUME NEW v \in Workers, Finished(v)' PROVE cursor + 1 >= task.total
      BY <1>2
    <3>1. v # w
      <4>1. ~Finished(w)'
        BY <2>1 DEF Finished, Signalled, Looking
      <4> QED BY <4>1
    <3>2. cursor >= task.total
      BY <1>1, <1>4, <3>1
    <3> QED BY <1>2, <1>6, <3>2
  <2> QED BY <1>1, <1>2, <1>3, <2>2, <2>3, <2>4, <2>5 DEF DynamicInv
<1>8. CASE ~(cursor < task.total)
  <2>1. pc'[w] # "run" /\ pc[w] # "run"
    BY <1>2, <1>8 DEF AfterItems
  <2>2. \A v \in Workers : pc'[v] = "run" => pc[v] = "run" /\ v # w /\ item'[v] = item[v]
    BY <1>1, <2>1
  <2>3. \A v \in Workers : pc'[v] = "run" => item'[v] < cursor' /\ item'[v] < task.total
    BY <1>2, <1>4, <1>5, <2>2
  <2>4. \A v, u \in Workers : pc'[v] = "run" /\ pc'[u] = "run" /\ v # u => item'[v] # item'[u]
    BY <1>4, <2>2
  <2>5. ASSUME NEW i \in 0 .. task.total - 1
        PROVE  ran[batch][i] = IF i < cursor' /\ ~\E v \in Workers : pc'[v] = "run"
                  /\ item'[v] = i
                               THEN 1 ELSE 0
    <3>1. (\E v \in Workers : pc'[v] = "run" /\ item'[v] = i)
            <=> (\E v \in Workers : pc[v] = "run" /\ item[v] = i)
      BY <1>1, <2>1
    <3>2. i < cursor' <=> i < cursor
      BY <1>2, <1>6, <1>8
    <3> QED BY <1>4, <3>1, <3>2
  <2>6. cursor' >= task.total
    BY <1>2, <1>6, <1>8
  <2> QED BY <1>1, <1>2, <1>3, <2>3, <2>4, <2>5, <2>6 DEF DynamicInv
<1> QED BY <1>7, <1>8

\* Partitioned mode: a worker goes on to its next item, or past its range.
LEMMA ClaimOwnWork ==
  ASSUME TypeOK, DispatchInv, NEW w \in Workers, ClaimOwn(w)
  PROVE  DynamicInv' /\ PartitionInv'
<1>1. /\ Dispatching /\ job[w] = task /\ w \in 0 .. nWorkers - 1
      /\ UNCHANGED <<nWorkers, batch, task, generation, seen>>
      /\ ~Finished(w) /\ item[w] \in Nat
      /\ pc'[0] = "wake" => pc[0] = "wake" /\ item'[0] = item[0]
      /\ \A v \in Workers \ {w} :
           pc'[v] = pc[v] /\ item'[v] = item[v] /\ (Finished(v)' <=> Finished(v))
  BY LoopStep
<1>2. /\ pc[w] = "claim" /\ task.part # 0 /\ ran' = ran /\ item' = item
      /\ pc'[w] = IF item[w] < RangeEnd(task.total, w) THEN "run" ELSE AfterItems(w)
  BY <1>1 DEF ClaimOwn, Goto, At, TypeOK, ControlOK, localVars
<1>3. DynamicInv'
  BY <1>1, <1>2 DEF DynamicInv
<1>4. (pc[0] = "wake" => item[0] = 0) /\ \A v \in 0 .. nWorkers - 1 : OwnRangeInv(v)
  BY <1>1, <1>2 DEF DispatchInv, PartitionInv
<1>5. ASSUME NEW v \in 0 .. nWorkers - 1, v # w PROVE OwnRangeInv(v)'
  <2>1. v \in Workers \ {w} /\ OwnRangeInv(v)
    BY <1>4, <1>5, BatchItems
  <2> QED BY <1>1, <1>2, <2>1, SameRange
<1>6. /\ RangeStart(task.total, w)' = RangeStart(task.total, w)
      /\ RangeEnd(task.total, w)' = RangeEnd(task.total, w)
  BY <1>1 DEF RangeStart, RangeEnd
<1>7. /\ RangeStart(task.total, w) \in Nat /\ RangeEnd(task.total, w) \in Nat
  BY <1>1, BatchItems, RangeOrder
<1>8. /\ item[w] \in RangeStart(task.total, w) .. RangeEnd(task.total, w)
      /\ \A i \in RangeStart(task.total, w) .. RangeEnd(task.total, w) - 1 :
           ran[batch][i] = IF i < item[w] THEN 1 ELSE 0
  BY <1>1, <1>2, <1>4 DEF OwnRangeInv, Working
<1>9. CASE item[w] < RangeEnd(task.total, w)
  <2>1. pc'[w] = "run" /\ ~Finished(w)'
    BY <1>2, <1>9 DEF Finished, Signalled, Looking
  <2>2. OwnRangeInv(w)'
    BY <1>1, <1>2, <1>6, <1>8, <1>9, <2>1 DEF OwnRangeInv, Working
  <2> QED BY <1>1, <1>3, <1>4, <1>5, <2>2 DEF PartitionInv
<1>10. CASE ~(item[w] < RangeEnd(task.total, w))
  <2>1. pc'[w] \notin {"claim", "run"} /\ Finished(w)'
    BY <1>2, <1>10 DEF Finished, AfterItems
  <2>2. \A i \in RangeStart(task.total, w) .. RangeEnd(task.total, w) - 1 : i < item[w]
    BY <1>7, <1>8, <1>10
  <2>3. OwnRangeInv(w)'
    BY <1>1, <1>2, <1>6, <1>8, <2>1, <2>2 DEF OwnRangeInv, Working
  <2> QED BY <1>1, <1>3, <1>4, <1>5, <2>3 DEF PartitionInv
<1> QED BY <1>9, <1>10

\* A run of item[w] by worker w: that item had not run, and has run once now.
LEMMA RunsOnce ==
  ASSUME TypeOK, DispatchInv, NEW w \in Workers, RunItem(w)
  PROVE  /\ item[w] \in 0 .. task.total - 1 /\ item[w] \in Items
         /\ ran[batch][item[w]] = 0
         /\ ran' = [ran EXCEPT ![batch][item[w]] = @ + 1]
         /\ ran'[batch][item[w]] = 1
         /\ \A i \in Items \ {item[w]} : ran'[batch][i] = ran[batch][i]
<1>1. /\ Dispatching /\ batch \in Batches /\ job[w] = task /\ w \in 0 .. nWorkers - 1
      /\ ~Finished(w) /\ item[w] \in Nat /\ task.ctx = batch
  BY LoopStep
<1>2. pc[w] = "run" /\ ran' = [ran EXCEPT ![batch][item[w]] = @ + 1]
  BY <1>1 DEF RunItem, At
<1>3. task.total \in Nat /\ 0 .. task.total - 1 \in SUBSET Items
  BY BatchItems
<1>4. item[w] \in 0 .. task.total - 1 /\ ran[batch][item[w]] = 0
  <2>1. CASE task.part = 0
    <3>1. item[w] < cursor /\ item[w] < task.total
      BY <1>1, <1>2, <2>1 DEF DispatchInv, DynamicInv
    <3>2. item[w] \in 0 .. task.total - 1
      BY <1>1, <1>3, <3>1
    <3> QED BY <1>1, <1>2, <2>1, <3>2 DEF DispatchInv, DynamicInv
  <2>2. CASE task.part # 0
    <3>1. OwnRangeInv(w)
      BY <1>1, <2>2 DEF DispatchInv, PartitionInv
    <3>2. /\ RangeStart(task.total, w) \in Nat /\ RangeEnd(task.total, w) \in Nat
          /\ RangeEnd(task.total, w) <= task.total
      BY <1>1, BatchItems, RangeOrder
    <3>3. /\ item[w] \in RangeStart(task.total, w) .. RangeEnd(task.total, w)
          /\ item[w] < RangeEnd(task.total, w)
      BY <1>2, <3>1 DEF OwnRangeInv, Working
    <3>4. /\ item[w] \in RangeStart(task.total, w) .. RangeEnd(task.total, w) - 1
          /\ ~(item[w] < item[w])
      BY <1>1, <3>2, <3>3
    <3>5. ran[batch][item[w]] = 0
      BY <1>1, <3>1, <3>4 DEF OwnRangeInv
    <3> QED BY <1>1, <1>3, <3>2, <3>3, <3>5
  <2> QED BY <2>1, <2>2
<1>5. item[w] \in Items
  BY <1>3, <1>4
<1>6. /\ \A j \in Items \ {item[w]} : ran'[batch][j] = ran[batch][j]
      /\ ran'[batch][item[w]] = ran[batch][item[w]] + 1
  BY <1>1, <1>2, <1>5, CountEffect
<1>7. ran'[batch][item[w]] = 1
  BY <1>4, <1>6
<1> QED BY <1>2, <1>4, <1>5, <1>6, <1>7

\* Running a claimed item keeps the work part of the invariant.
LEMMA RunItemWork ==
  ASSUME TypeOK, DispatchInv, NEW w \in Workers, RunItem(w)
  PROVE  DynamicInv' /\ PartitionInv'
<1>1. /\ Dispatching /\ batch \in Batches /\ job[w] = task /\ w \in 0 .. nWorkers - 1
      /\ UNCHANGED <<nWorkers, batch, task, generation, seen>>
      /\ ~Finished(w) /\ item[w] \in Nat
      /\ pc'[0] = "wake" => pc[0] = "wake" /\ item'[0] = item[0]
      /\ \A v \in Workers \ {w} :
           pc'[v] = pc[v] /\ item'[v] = item[v] /\ (Finished(v)' <=> Finished(v))
  BY LoopStep
<1>2. /\ pc[w] = "run" /\ pc'[w] = "claim" /\ item'[w] = item[w] + 1 /\ cursor' = cursor
  BY DEF RunItem, At, Goto, TypeOK, ControlOK, sharedVars
<1>3. /\ item[w] \in 0 .. task.total - 1 /\ ran[batch][item[w]] = 0
      /\ ran'[batch][item[w]] = 1
      /\ \A i \in Items \ {item[w]} : ran'[batch][i] = ran[batch][i]
  BY RunsOnce
<1>4. 0 .. task.total - 1 \in SUBSET Items
  BY BatchItems
<1>5. ~Finished(w)'
  BY <1>2 DEF Finished, Signalled, Looking
<1>6. ASSUME task.part = 0 PROVE DynamicInv'
  <2>1. /\ \A v \in Workers : pc[v] = "run" => item[v] < cursor /\ item[v] < task.total
        /\ \A v, u \in Workers : pc[v] = "run" /\ pc[u] = "run" /\ v # u => item[v] # item[u]
        /\ \A i \in 0 .. task.total - 1 :
             ran[batch][i] = IF i < cursor /\ ~\E v \in Workers : pc[v] = "run" /\ item[v] = i
                             THEN 1 ELSE 0
        /\ \A v \in Workers : Finished(v) => cursor >= task.total
    BY <1>1, <1>6 DEF DispatchInv, DynamicInv
  <2>2. \A v \in Workers : pc'[v] = "run" => pc[v] = "run" /\ v # w /\ item'[v] = item[v]
    BY <1>1, <1>2
  <2>3. \A v \in Workers : pc'[v] = "run" => item'[v] < cursor /\ item'[v] < task.total
    BY <2>1, <2>2
  <2>4. \A v, u \in Workers : pc'[v] = "run" /\ pc'[u] = "run" /\ v # u => item'[v] # item'[u]
    BY <2>1, <2>2
  <2>5. ASSUME NEW i \in 0 .. task.total - 1
        PROVE  ran'[batch][i] = IF i < cursor /\ ~\E v \in Workers : pc'[v] = "run"
                  /\ item'[v] = i
                                THEN 1 ELSE 0
    <3>1. CASE i = item[w]
      <4>1. i < cursor
        BY <1>2, <2>1, <3>1
      <4>2. ~\E v \in Workers : pc'[v] = "run" /\ item'[v] = i
        BY <1>2, <2>1, <2>2, <3>1
      <4> QED BY <1>3, <3>1, <4>1, <4>2
    <3>2. CASE i # item[w]
      <4>1. (\E v \in Workers : pc'[v] = "run" /\ item'[v] = i)
              <=> (\E v \in Workers : pc[v] = "run" /\ item[v] = i)
        BY <1>1, <1>2, <3>2
      <4>2. ran'[batch][i] = ran[batch][i]
        BY <1>3, <1>4, <3>2
      <4> QED BY <2>1, <4>1, <4>2
    <3> QED BY <3>1, <3>2
  <2>6. \A v \in Workers : Finished(v)' => cursor >= task.total
    BY <1>1, <1>5, <2>1
  <2> QED BY <1>1, <1>2, <2>3, <2>4, <2>5, <2>6 DEF DynamicInv
<1>7. ASSUME task.part # 0 PROVE PartitionInv'
  <2>1. (pc[0] = "wake" => item[0] = 0) /\ \A v \in 0 .. nWorkers - 1 : OwnRangeInv(v)
    BY <1>1, <1>7 DEF DispatchInv, PartitionInv
  <2>2. nWorkers \in Nat /\ nWorkers > 0 /\ task.total \in Nat
    BY BatchItems
  <2>3. /\ RangeStart(task.total, w) \in Nat /\ RangeEnd(task.total, w) \in Nat
        /\ RangeEnd(task.total, w) <= task.total
    BY <1>1, <2>2, RangeOrder
  <2>4. /\ item[w] \in RangeStart(task.total, w) .. RangeEnd(task.total, w)
        /\ item[w] < RangeEnd(task.total, w)
        /\ \A i \in RangeStart(task.total, w) .. RangeEnd(task.total, w) - 1 :
             ran[batch][i] = IF i < item[w] THEN 1 ELSE 0
    BY <1>1, <1>2, <2>1 DEF OwnRangeInv, Working
  <2>5. ASSUME NEW v \in 0 .. nWorkers - 1, v # w PROVE OwnRangeInv(v)'
    <3>1. v \in Workers \ {w} /\ OwnRangeInv(v)
      BY <2>1, <2>5, BatchItems
    <3>2. /\ RangeStart(task.total, v) \in Nat /\ RangeEnd(task.total, v) \in Nat
          /\ RangeEnd(task.total, v) <= task.total
      BY <2>2, RangeOrder
    <3>3. ASSUME NEW i \in RangeStart(task.total, v) .. RangeEnd(task.total, v) - 1
          PROVE  ran'[batch][i] = ran[batch][i]
      <4>1. CASE v < w
        <5>1. RangeEnd(task.total, v) <= RangeStart(task.total, w)
          BY <1>1, <2>2, <4>1, RangeOrder
        <5> QED BY <1>1, <1>3, <1>4, <2>2, <2>3, <2>4, <3>2, <3>3, <5>1
      <4>2. CASE v > w
        <5>1. RangeEnd(task.total, w) <= RangeStart(task.total, v)
          BY <1>1, <2>2, <4>2, RangeOrder
        <5> QED BY <1>1, <1>3, <1>4, <2>2, <2>3, <2>4, <3>2, <3>3, <5>1
      <4> QED BY <1>1, <2>5, <4>1, <4>2
    <3> QED BY <1>1, <3>1, <3>3, SameRange
  <2>6. OwnRangeInv(w)'
    <3>1. /\ RangeStart(task.total, w)' = RangeStart(task.total, w)
          /\ RangeEnd(task.total, w)' = RangeEnd(task.total, w)
      BY <1>1 DEF RangeStart, RangeEnd
    <3>2. item'[w] \in RangeStart(task.total, w) .. RangeEnd(task.total, w)
      BY <1>2, <2>3, <2>4
    <3>3. ASSUME NEW i \in RangeStart(task.total, w) .. RangeEnd(task.total, w) - 1
          PROVE  ran'[batch][i] = IF i < item'[w] THEN 1 ELSE 0
      <4>1. i \in Items /\ i \in Nat
        BY <1>4, <2>2, <2>3
      <4>2. CASE i = item[w]
        BY <1>1, <1>2, <1>3, <4>2
      <4>3. CASE i # item[w]
        <5>1. i < item[w] <=> i < item'[w]
          BY <1>1, <1>2, <4>1, <4>3
        <5> QED BY <1>3, <2>4, <4>1, <4>3, <5>1
      <4> QED BY <4>2, <4>3
    <3> QED BY <1>1, <1>2, <1>5, <3>1, <3>2, <3>3 DEF OwnRangeInv, Working
  <2> QED BY <1>1, <2>1, <2>5, <2>6 DEF PartitionInv
<1>8. /\ task.part # 0 => DynamicInv'
      /\ task.part = 0 => PartitionInv'
  BY <1>1 DEF DynamicInv, PartitionInv
<1> QED BY <1>6, <1>7, <1>8

\* Whatever step is taken, each item claimed runs once and none is left out.
LEMMA WorkStep ==
  ASSUME TypeOK, DispatchInv, [Next]_vars
  PROVE  (DynamicInv /\ PartitionInv)'
<1> USE BoundsAssumption
    DEF TypeOK, ControlOK, DispatchInv, HandshakeInv, ThreadInv, GenerationInv,
        Serving, Goto, At, Workers, Helpers, Exiting, Preparing, Dispatching,
        poolVars, sharedVars, localVars
<1>1. CASE CallerStep
  <2>1. CASE ResetCursor
    <3>1. SameWork
      BY <2>1 DEF ResetCursor, SameWork, SameRuns, Working, Finished, Signalled, Looking
    <3> QED BY <3>1, SameWorkKept
  <2>2. CASE ResetDone
    <3>1. SameWork
      BY <2>2 DEF ResetDone, SameWork, SameRuns, Working, Finished, Signalled, Looking
    <3> QED BY <3>1, SameWorkKept
  <2>3. CASE Bump
    BY <2>3, BumpWork
  <2>4. CASE Wake
    BY <2>4, WakeWork
  <2>5. CASE Await
    <3>1. SameWork
      BY <2>5 DEF Await, SameWork, SameRuns, Working, Finished, Signalled, Looking
    <3> QED BY <3>1, SameWorkKept
  <2>6. CASE WaitDone
    <3>1. SameWork
      BY <2>6 DEF WaitDone, SameWork, SameRuns, Working, Finished, Signalled, Looking
    <3> QED BY <3>1, SameWorkKept
  <2>7. CASE RunSerial
    <3>1. SameWork
      BY <2>7 DEF RunSerial, SameWork, SameRuns, Working, Finished, Signalled, Looking
    <3> QED BY <3>1, SameWorkKept
  <2>8. CASE ReturnSerial
    <3>1. SameWork
      BY <2>8 DEF ReturnSerial, SameWork, SameRuns, Working, Finished, Signalled,
         Looking
    <3> QED BY <3>1, SameWorkKept
  <2>9. CASE ClaimNext(0)
    BY <2>9, 0 \in Workers, ClaimNextWork
  <2>10. CASE ClaimOwn(0)
    BY <2>10, 0 \in Workers, ClaimOwnWork
  <2>11. CASE RunItem(0)
    BY <2>11, 0 \in Workers, RunItemWork
  <2>12. CASE SpawnHelper
    <3>1. SameWork
      BY <2>12 DEF SpawnHelper, SameWork, SameRuns, Working, Finished, Signalled,
         Looking
    <3> QED BY <3>1, SameWorkKept
  <2>13. CASE BumpExit
    <3>1. SameWork
      BY <2>13 DEF BumpExit, SameWork, SameRuns, Working, Finished, Signalled, Looking
    <3> QED BY <3>1, SameWorkKept
  <2>14. CASE WakeExit
    <3>1. ~Dispatching'
      BY <2>14, WakeEffect DEF WakeExit
    <3>2. SameWork
      BY <3>1 DEF SameWork, SameRuns
    <3> QED BY <3>2, SameWorkKept
  <2>15. CASE JoinAndFree
    <3>1. SameWork
      BY <2>15 DEF JoinAndFree, SameWork, SameRuns, Working, Finished, Signalled,
         Looking
    <3> QED BY <3>1, SameWorkKept
  <2> QED BY <1>1, <2>1, <2>2, <2>3, <2>4, <2>5, <2>6, <2>7, <2>8, <2>9, <2>10, <2>11,
             <2>12, <2>13, <2>14, <2>15
          DEF CallerStep
<1>2. ASSUME NEW h \in Helpers, HelperStep(h) PROVE (DynamicInv /\ PartitionInv)'
  <2>1. CASE LoadGeneration(h)
    <3>1. Bystander(h)
      BY <2>1 DEF Bystander
    <3> QED BY <3>1, BystanderWork
  <2>2. CASE CheckGeneration(h)
    <3>1. Bystander(h)
      BY <2>2 DEF Bystander
    <3> QED BY <3>1, BystanderWork
  <2>3. CASE WaitGeneration(h)
    <3>1. Bystander(h)
      BY <2>3 DEF Bystander
    <3> QED BY <3>1, BystanderWork
  <2>4. CASE CheckExit(h)
    <3>1. Bystander(h)
      BY <2>4 DEF Bystander
    <3> QED BY <3>1, BystanderWork
  <2>5. CASE ReadTask(h)
    BY <2>5, ReadWork
  <2>6. CASE SignalDone(h)
    <3>1. UNCHANGED <<nWorkers, batch, task, ran, cursor, item, generation>>
      BY <2>6 DEF SignalDone
    <3>2. \A g \in Helpers \ {h} : pc'[g] = pc[g] /\ seen'[g] = seen[g]
      BY <2>6 DEF SignalDone
    <3>3. Dispatching' => Dispatching /\ (Finished(0)' <=> Finished(0))
             /\ (pc'[0] = "wake" <=> pc[0] = "wake")
                            /\ (pc'[0] = "claim" <=> pc[0] = "claim")
                                  /\ (pc'[0] = "run" <=> pc[0] = "run")
      BY <2>6 DEF SignalDone, Finished
    <3>4. Dispatching' => (Finished(h)' <=> Finished(h))
      BY <2>6 DEF SignalDone, Finished, Signalled, Looking
    <3>5. pc'[h] \notin {"claim", "run"} /\ pc[h] \notin {"claim", "run"}
      BY <2>6 DEF SignalDone
    <3>6. SameWork
      <4> SUFFICES ASSUME Dispatching', NEW w \in Workers
                   PROVE  /\ pc'[w] = "run" <=> pc[w] = "run"
                          /\ pc'[w] = "claim" <=> pc[w] = "claim"
                          /\ Finished(w)' <=> Finished(w)
        BY <3>1, <3>3 DEF SameWork, SameRuns
      <4>1. CASE w = 0
        BY <3>3, <4>1
      <4>2. CASE w = h
        BY <3>4, <3>5, <4>2
      <4>3. CASE w # 0 /\ w # h
        BY <3>1, <3>2, <4>3, SMTT(20) DEF Finished, Signalled, Looking
      <4> QED BY <4>1, <4>2, <4>3
    <3> QED BY <3>6, SameWorkKept
  <2>7. CASE WakeCaller(h)
    <3>1. Bystander(h)
      BY <2>7 DEF Bystander
    <3> QED BY <3>1, BystanderWork
  <2>8. CASE ClaimNext(h)
    BY <2>8, h \in Workers, ClaimNextWork
  <2>9. CASE ClaimOwn(h)
    BY <2>9, h \in Workers, ClaimOwnWork
  <2>10. CASE RunItem(h)
    BY <2>10, h \in Workers, RunItemWork
  <2> QED BY <1>2, <2>1, <2>2, <2>3, <2>4, <2>5, <2>6, <2>7, <2>8, <2>9, <2>10
          DEF HelperStep
<1>3. CASE Environment
  <2>1. ASSUME NEW n \in 0 .. MaxWorkers, PoolInit(n) PROVE (DynamicInv /\ PartitionInv)'
    <3>1. SameWork
      BY <2>1 DEF PoolInit, SameWork, SameRuns, Working, Finished, Signalled, Looking
    <3> QED BY <3>1, SameWorkKept
  <2>2. CASE SpawnFails
    <3>1. SameWork
      BY <2>2 DEF SpawnFails, SameWork, SameRuns, Working, Finished, Signalled, Looking
    <3> QED BY <3>1, SameWorkKept
  <2>3. CASE Deinit
    <3>1. SameWork
      BY <2>3 DEF Deinit, SameWork, SameRuns, Working, Finished, Signalled, Looking
    <3> QED BY <3>1, SameWorkKept
  <2>4. CASE RunNothing
    <3>1. SameWork
      BY <2>4 DEF RunNothing, SameWork, SameRuns, Working, Finished, Signalled, Looking
    <3> QED BY <3>1, SameWorkKept
  <2>5. ASSUME NEW total \in 1 .. MaxItems, NEW part \in {0, 1}, RunBatchSerial(total, part)
        PROVE  (DynamicInv /\ PartitionInv)'
    <3>1. SameWork
      BY <2>5 DEF RunBatchSerial, TakeBatch, SameWork, SameRuns, Working, Finished,
         Signalled, Looking
    <3> QED BY <3>1, SameWorkKept
  <2>6. ASSUME NEW total \in 1 .. MaxItems, NEW part \in {0, 1}, RunBatch(total, part)
        PROVE  (DynamicInv /\ PartitionInv)'
    <3>1. SameWork
      BY <2>6 DEF RunBatch, TakeBatch, SameWork, SameRuns, Working, Finished,
         Signalled, Looking
    <3> QED BY <3>1, SameWorkKept
  <2>7. ASSUME NEW h \in Helpers, SpuriousWake(h) PROVE (DynamicInv /\ PartitionInv)'
    <3>1. Bystander(h)
      BY <2>7 DEF Bystander
    <3> QED BY <3>1, BystanderWork
  <2>8. CASE SpuriousReturn
    <3>1. SameWork
      BY <2>8 DEF SpuriousReturn, SameWork, SameRuns, Working, Finished, Signalled,
         Looking
    <3> QED BY <3>1, SameWorkKept
  <2> QED BY <1>3, <2>1, <2>2, <2>3, <2>4, <2>5, <2>6, <2>7, <2>8
          DEF Environment
<1>4. CASE UNCHANGED vars
  <2>1. SameWork
    BY <1>4 DEF vars, SameWork, SameRuns, Working, Finished, Signalled, Looking
  <2> QED BY <2>1, SameWorkKept
<1> QED BY <1>1, <1>2, <1>3, <1>4 DEF Next, Closed


\* Nothing has run at the start.
LEMMA DispatchInit == Init => DispatchInv
<1> SUFFICES ASSUME Init PROVE DispatchInv
  OBVIOUS
<1>1. pc[0] = "none" /\ batch = 0
  BY BoundsAssumption DEF Init, Workers
<1>2. ~Preparing /\ ~Dispatching
  BY <1>1 DEF Preparing, Dispatching
<1>3. DynamicInv /\ PartitionInv
  BY <1>2 DEF DynamicInv, PartitionInv
<1>4. FreshInv
  BY <1>1, <1>2 DEF FreshInv, Init
<1> QED BY <1>3, <1>4, HandshakeInit DEF DispatchInv

\* The inductive invariant is inductive: every step of the pool keeps it.
LEMMA DispatchStep == TypeOK /\ DispatchInv /\ [Next]_vars => DispatchInv'
BY HandshakeStep, FreshStep, WorkStep DEF DispatchInv

\* Whatever the pool's size, the batch's size, the number of batches and the
\* width of the generation counter: the handshake and the items are in step.
THEOREM DispatchCorrect == Spec => []DispatchInv
BY TypeInit, TypeStep, DispatchInit, DispatchStep, PTL DEF Spec

\* A quotient is the largest q with q * n <= a.
LEMMA QuotientBounds ==
  ASSUME NEW a \in Nat, NEW n \in Nat, n > 0
  PROVE  /\ a \div n \in Nat
         /\ n * (a \div n) <= a
         /\ a < n * (a \div n) + n
<1>1. a = n * (a \div n) + (a % n) /\ a % n \in 0 .. n - 1
  OBVIOUS
<1>2. a \div n \in Nat
  OBVIOUS
<1>3. n * (a \div n) \in Nat
  BY <1>2
<1> QED BY <1>1, <1>2, <1>3

-----------------------------------------------------------------------------
(* The refinement: every step of the pool is a step of ForkJoin or none.   *)

\* Every item belongs to the range of some worker.
LEMMA RangesCover ==
  ASSUME nWorkers \in Nat, nWorkers > 0, NEW t \in Nat, NEW i \in 0 .. t - 1
  PROVE  \E w \in 0 .. nWorkers - 1 : i \in RangeStart(t, w) .. RangeEnd(t, w) - 1
<1> DEFINE e == nWorkers * (i + 1)
           w == (e - 1) \div t
<1>1. t \in Nat /\ t > 0 /\ i \in Nat /\ i + 1 <= t
  OBVIOUS
<1>2. e \in Nat /\ e > 0 /\ e <= nWorkers * t
  BY <1>1, ProductMonotone
<1>3. e - 1 \in Nat /\ w \in Nat /\ t * w <= e - 1 /\ e - 1 < t * w + t
  <2>1. e - 1 \in Nat
    BY <1>2
  <2> HIDE DEF e
  <2> QED BY <1>1, <2>1, QuotientBounds
<1>4. t * (w + 1) = t * w + t /\ t * w \in Nat
  BY <1>1, <1>3
<1>5. t * w < nWorkers * (i + 1) /\ nWorkers * (i + 1) <= t * (w + 1)
  BY <1>2, <1>3, <1>4
<1>6. w < nWorkers
  <2>1. t * w < nWorkers * t
    BY <1>1, <1>2, <1>3, <1>4
  <2> HIDE DEF w, e
  <2>2. CASE w >= nWorkers
    <3>1. t * nWorkers <= t * w
      BY <1>1, <1>3, <2>2, ProductMonotone
    <3>2. t * nWorkers = nWorkers * t /\ nWorkers * t \in Nat
      BY <1>1
    <3> QED BY <1>4, <2>1, <3>1, <3>2
  <2> QED BY <1>3, <2>2
<1>7. RangeStart(t, w) <= i
  <2> HIDE DEF w, e
  <2>1. ((i + 1) * nWorkers) \div nWorkers = i + 1 /\ i * nWorkers \in Nat
    BY <1>1, ProductQuotient
  <2>2. (t * w) \div nWorkers \in Nat /\ nWorkers * ((t * w) \div nWorkers) <= t * w
    BY <1>4, QuotientBounds
  <2>3. CASE (t * w) \div nWorkers >= i + 1
    <3>1. nWorkers * (i + 1) <= nWorkers * ((t * w) \div nWorkers)
      BY <1>1, <2>2, <2>3, ProductMonotone
    <3>2. nWorkers * (i + 1) \in Nat /\ nWorkers * ((t * w) \div nWorkers) \in Nat
      BY <1>1, <2>2, ProductMonotone
    <3> QED BY <1>4, <1>5, <2>2, <3>1, <3>2
  <2> QED BY <1>1, <2>2, <2>3 DEF RangeStart
<1>8. i < RangeEnd(t, w)
  <2> HIDE DEF w, e
  <2>1. ((i + 1) * nWorkers) \div nWorkers = i + 1
    BY <1>1, ProductQuotient
  <2>2. (i + 1) * nWorkers \in Nat /\ (i + 1) * nWorkers = nWorkers * (i + 1)
    BY <1>1
  <2>3. t * (w + 1) \in Nat
    BY <1>1, <1>3
  <2>4. i + 1 <= (t * (w + 1)) \div nWorkers
    BY <1>5, <2>1, <2>2, <2>3, QuotientMonotone
  <2> QED BY <1>1, <2>3, <2>4, QuotientIsNat DEF RangeEnd
<1>9. /\ RangeStart(t, w) \in Nat /\ RangeEnd(t, w) \in Nat
      /\ w \in 0 .. nWorkers - 1
  <2> HIDE DEF w, e
  <2>1. w \in 0 .. nWorkers - 1
    BY <1>3, <1>6
  <2> QED BY <1>1, <2>1, RangeOrder
<1>10. i \in RangeStart(t, w) .. RangeEnd(t, w) - 1
  <2> HIDE DEF w, e
  <2> QED BY <1>1, <1>7, <1>8, <1>9
<1> QED BY <1>9, <1>10

\* When the caller returns, every item of the batch has run once.
LEMMA AllRan ==
  ASSUME TypeOK, DispatchInv, pc[0] = "await", doneCount >= nWorkers - 1,
         NEW i \in 0 .. task.total - 1
  PROVE  ran[batch][i] = 1
<1>1. Dispatching
  BY DEF Dispatching
<1>2. ASSUME NEW w \in 0 .. nWorkers - 1 PROVE Finished(w)
  <2>1. CASE w = 0
    BY <2>1 DEF Finished
  <2>2. CASE w # 0
    <3>1. w \in 1 .. nWorkers - 1
      BY <1>2, <2>2, BatchItems
    <3>2. w \in Signalled
      BY <1>1, <3>1, AllSignalled DEF DispatchInv, HandshakeInv
    <3> QED BY <2>2, <3>2 DEF Finished
  <2> QED BY <2>1, <2>2
<1>3. nWorkers \in Nat /\ nWorkers > 0 /\ task.total \in Nat /\ 0 \in 0 .. nWorkers - 1
      /\ 0 .. nWorkers - 1 \in SUBSET Workers
  BY BatchItems
<1>4. CASE task.part = 0
  <2>1. cursor >= task.total /\ cursor \in Nat
    BY <1>1, <1>2, <1>3, <1>4 DEF DispatchInv, DynamicInv, TypeOK
  <2>2. \A w \in Workers : pc[w] # "run"
    <3> SUFFICES ASSUME NEW w \in Workers, pc[w] = "run" PROVE FALSE
      OBVIOUS
    <3>1. w \in 0 .. nWorkers - 1
      BY RunsTheBatch DEF Working, DispatchInv
    <3>2. Finished(w)
      BY <1>2, <3>1
    <3> QED BY <3>2 DEF Finished, Signalled, Looking
  <2>3. i < cursor
    BY <1>3, <2>1
  <2> QED BY <1>1, <1>4, <2>2, <2>3 DEF DispatchInv, DynamicInv
<1>5. CASE task.part # 0
  <2>1. PICK w \in 0 .. nWorkers - 1 :
          i \in RangeStart(task.total, w) .. RangeEnd(task.total, w) - 1
    BY <1>3, RangesCover
  <2>2. OwnRangeInv(w) /\ Finished(w)
    BY <1>1, <1>2, <1>5 DEF DispatchInv, PartitionInv
  <2> QED BY <2>1, <2>2 DEF OwnRangeInv
<1> QED BY <1>4, <1>5

\* Counting the first run of an item is recording that it has run.
LEMMA FirstRun ==
  ASSUME NEW b, NEW i, ran[b][i] = 0
  PROVE  [ran EXCEPT ![b][i] = @ + 1] = [ran EXCEPT ![b][i] = 1]
<1>1. ran[b][i] + 1 = 1
  OBVIOUS
<1> QED BY <1>1

\* A step that ForkJoin does not see.
LEMMA Stutter ==
  ASSUME UNCHANGED <<batch, ran>>, job'[0].total = job[0].total, Phase' = Phase
  PROVE  [Fork!FJNext]_(Fork!fjVars)
BY DEF Fork!fjVars

\* The initial states map to the initial state of ForkJoin.
LEMMA RefineInit == Init => Fork!FJInit
<1> SUFFICES ASSUME Init PROVE Fork!FJInit
  OBVIOUS
<1>1. 0 \in Workers
  BY BoundsAssumption DEF Workers
<1>2. pc[0] = "none" /\ job[0] = NoTask /\ batch = 0
  BY <1>1 DEF Init
<1>3. Phase = "closed" /\ job[0].total = 0
  BY <1>2 DEF Phase, NoTask
<1>4. ran = [b \in Fork!Batches |-> [i \in Fork!Items |-> 0]]
  BY DEF Init, Fork!Batches, Fork!Items, Batches, Items
<1> QED BY <1>2, <1>3, <1>4 DEF Fork!FJInit

\* Each step begins, advances or ends a batch as ForkJoin allows, or is not seen.
LEMMA RefineStep ==
  ASSUME TypeOK, DispatchInv, [Next]_vars
  PROVE  [Fork!FJNext]_(Fork!fjVars)
<1> USE BoundsAssumption
    DEF TypeOK, ControlOK, DispatchInv, HandshakeInv, ThreadInv, Phase, FreshInv,
        TaskInv, Goto, At, Workers, Helpers, Exiting, Preparing, Dispatching,
        poolVars, sharedVars, localVars
<1>1. CASE CallerStep
  <2>1. CASE ResetCursor
    <3>1. UNCHANGED <<batch, ran>> /\ job'[0].total = job[0].total /\ Phase' = Phase
      BY <2>1 DEF ResetCursor
    <3> QED BY <3>1, Stutter
  <2>2. CASE ResetDone
    <3>1. UNCHANGED <<batch, ran>> /\ job'[0].total = job[0].total /\ Phase' = Phase
      BY <2>2 DEF ResetDone
    <3> QED BY <3>1, Stutter
  <2>3. CASE Bump
    <3>1. UNCHANGED <<batch, ran>> /\ job'[0].total = job[0].total /\ Phase' = Phase
      BY <2>3 DEF Bump
    <3> QED BY <3>1, Stutter
  <2>4. CASE Wake
    <3>1. pc'[0] = "claim"
      BY <2>4, WakeEffect DEF Wake
    <3>2. UNCHANGED <<batch, ran>> /\ job'[0].total = job[0].total /\ Phase' = Phase
      BY <2>4, <3>1 DEF Wake
    <3> QED BY <3>2, Stutter
  <2>5. CASE Await
    <3>1. pc[0] = "await" /\ Phase = "open" /\ UNCHANGED <<batch, ran, job>>
      BY <2>5 DEF Await
    <3>2. CASE doneCount >= nWorkers - 1
      <4>1. Phase' = "ready"
        BY <2>5, <3>2 DEF Await
      <4>2. job[0] = task
        BY <3>1 DEF TaskInv
      <4>3. \A i \in 0 .. job[0].total - 1 : ran[batch][i] = 1
        BY <3>1, <3>2, <4>2, AllRan
      <4>4. Fork!Return
        BY <3>1, <4>1, <4>3 DEF Fork!Return
      <4> QED BY <4>4 DEF Fork!FJNext
    <3>3. CASE ~(doneCount >= nWorkers - 1)
      <4>1. Phase' = Phase
        BY <2>5, <3>3 DEF Await
      <4> QED BY <3>1, <4>1, Stutter
    <3> QED BY <3>2, <3>3
  <2>6. CASE WaitDone
    <3>1. UNCHANGED <<batch, ran>> /\ job'[0].total = job[0].total /\ Phase' = Phase
      BY <2>6 DEF WaitDone
    <3> QED BY <3>1, Stutter
  <2>7. CASE RunSerial
    <3>1. /\ pc[0] = "serial" /\ pc' = pc /\ job' = job /\ batch' = batch
          /\ ran' = [ran EXCEPT ![batch][item[0]] = @ + 1]
          /\ item[0] < job[0].total /\ item[0] \in Nat /\ job[0] \in Tasks
      BY <2>7 DEF RunSerial
    <3>2. item[0] \in 0 .. job[0].total - 1 /\ item[0] \in Items
      BY <3>1, SMTT(20) DEF Tasks, Items
    <3>3. ran[batch][item[0]] = 0
      BY <3>1, <3>2 DEF FreshInv
    <3>4. ran' = [ran EXCEPT ![batch][item[0]] = 1]
      BY <3>1, <3>3, FirstRun
    <3>5. Phase = "open" /\ Phase' = Phase
      BY <3>1
    <3>6. Fork!RunOne
      BY <3>1, <3>2, <3>3, <3>4, <3>5 DEF Fork!RunOne
    <3> QED BY <3>6 DEF Fork!FJNext
  <2>8. CASE ReturnSerial
    <3>1. /\ pc[0] = "serial" /\ job' = job /\ batch' = batch /\ ran' = ran
          /\ item[0] = job[0].total /\ job[0] \in Tasks /\ pc'[0] = "idle"
      BY <2>8 DEF ReturnSerial
    <3>0. job[0].total \in 0 .. MaxItems
      BY <3>1 DEF Tasks
    <3>2. \A i \in 0 .. job[0].total - 1 : i \in Items /\ i < item[0]
      BY <3>0, <3>1 DEF Items
    <3>3. \A i \in 0 .. job[0].total - 1 : ran[batch][i] = 1
      BY <3>1, <3>2 DEF FreshInv
    <3>4. Phase = "open" /\ Phase' = "ready"
      BY <3>1
    <3>5. Fork!Return
      BY <3>1, <3>3, <3>4 DEF Fork!Return
    <3> QED BY <3>5 DEF Fork!FJNext
  <2>9. CASE ClaimNext(0)
    <3>1. UNCHANGED <<batch, ran>> /\ job'[0].total = job[0].total /\ Phase' = Phase
      BY <2>9 DEF ClaimNext, AfterItems
    <3> QED BY <3>1, Stutter
  <2>10. CASE ClaimOwn(0)
    <3>1. UNCHANGED <<batch, ran>> /\ job'[0].total = job[0].total /\ Phase' = Phase
      BY <2>10 DEF ClaimOwn, AfterItems
    <3> QED BY <3>1, Stutter
  <2>11. CASE RunItem(0)
    <3>1. /\ item[0] \in 0 .. task.total - 1
          /\ ran[batch][item[0]] = 0
          /\ ran' = [ran EXCEPT ![batch][item[0]] = @ + 1]
      BY <2>11, 0 \in Workers, RunsOnce
    <3>2. Dispatching /\ UNCHANGED batch
      BY <2>11, 0 \in Workers, LoopStep
    <3>3. job[0] = task /\ UNCHANGED job /\ pc'[0] \in {pc[0], "claim"}
      BY <2>11, <3>2 DEF RunItem, TaskInv
    <3>4. ran' = [ran EXCEPT ![batch][item[0]] = 1]
      BY <3>1, FirstRun
    <3>5. Phase = "open" /\ Phase' = Phase
      BY <3>2, <3>3
    <3>6. Fork!RunOne
      BY <3>1, <3>2, <3>3, <3>4, <3>5 DEF Fork!RunOne
    <3> QED BY <3>6 DEF Fork!FJNext
  <2>12. CASE SpawnHelper
    <3>1. UNCHANGED <<batch, ran>> /\ job'[0].total = job[0].total /\ Phase = "closed"
      BY <2>12 DEF SpawnHelper
    <3>2. CASE pc'[0] = "idle"
      <4>1. Phase' = "ready"
        BY <3>2
      <4>2. Fork!Open
        BY <3>1, <4>1 DEF Fork!Open
      <4> QED BY <4>2 DEF Fork!FJNext
    <3>3. CASE pc'[0] # "idle"
      <4>1. pc'[0] = "spawn"
        BY <2>12, <3>3 DEF SpawnHelper
      <4>2. Phase' = "closed"
        BY <4>1
      <4> QED BY <3>1, <4>2, Stutter
    <3> QED BY <3>2, <3>3
  <2>13. CASE BumpExit
    <3>1. UNCHANGED <<batch, ran>> /\ job'[0].total = job[0].total /\ Phase' = Phase
      BY <2>13 DEF BumpExit
    <3> QED BY <3>1, Stutter
  <2>14. CASE WakeExit
    <3>1. pc'[0] = "join"
      BY <2>14, WakeEffect DEF WakeExit
    <3>2. UNCHANGED <<batch, ran>> /\ job'[0].total = job[0].total /\ Phase' = Phase
      BY <2>14, <3>1 DEF WakeExit
    <3> QED BY <3>2, Stutter
  <2>15. CASE JoinAndFree
    <3>1. UNCHANGED <<batch, ran>> /\ job'[0].total = job[0].total /\ Phase' = Phase
      BY <2>15 DEF JoinAndFree
    <3> QED BY <3>1, Stutter
  <2> QED BY <1>1, <2>1, <2>2, <2>3, <2>4, <2>5, <2>6, <2>7, <2>8, <2>9, <2>10, <2>11,
             <2>12, <2>13, <2>14, <2>15
          DEF CallerStep
<1>2. ASSUME NEW h \in Helpers, HelperStep(h) PROVE [Fork!FJNext]_(Fork!fjVars)
  <2>1. CASE LoadGeneration(h)
    <3>1. UNCHANGED <<batch, ran>> /\ job'[0].total = job[0].total /\ Phase' = Phase
      BY <2>1 DEF LoadGeneration
    <3> QED BY <3>1, Stutter
  <2>2. CASE CheckGeneration(h)
    <3>1. UNCHANGED <<batch, ran>> /\ job'[0].total = job[0].total /\ Phase' = Phase
      BY <2>2 DEF CheckGeneration
    <3> QED BY <3>1, Stutter
  <2>3. CASE WaitGeneration(h)
    <3>1. UNCHANGED <<batch, ran>> /\ job'[0].total = job[0].total /\ Phase' = Phase
      BY <2>3 DEF WaitGeneration
    <3> QED BY <3>1, Stutter
  <2>4. CASE CheckExit(h)
    <3>1. UNCHANGED <<batch, ran>> /\ job'[0].total = job[0].total /\ Phase' = Phase
      BY <2>4 DEF CheckExit
    <3> QED BY <3>1, Stutter
  <2>5. CASE ReadTask(h)
    <3>1. UNCHANGED <<batch, ran>> /\ job'[0].total = job[0].total /\ Phase' = Phase
      BY <2>5 DEF ReadTask
    <3> QED BY <3>1, Stutter
  <2>6. CASE SignalDone(h)
    <3>1. UNCHANGED <<batch, ran>> /\ job'[0].total = job[0].total /\ Phase' = Phase
      BY <2>6 DEF SignalDone
    <3> QED BY <3>1, Stutter
  <2>7. CASE WakeCaller(h)
    <3>1. UNCHANGED <<batch, ran>> /\ job'[0].total = job[0].total /\ Phase' = Phase
      BY <2>7 DEF WakeCaller
    <3> QED BY <3>1, Stutter
  <2>8. CASE ClaimNext(h)
    <3>1. UNCHANGED <<batch, ran>> /\ job'[0].total = job[0].total /\ Phase' = Phase
      BY <2>8 DEF ClaimNext, AfterItems
    <3> QED BY <3>1, Stutter
  <2>9. CASE ClaimOwn(h)
    <3>1. UNCHANGED <<batch, ran>> /\ job'[0].total = job[0].total /\ Phase' = Phase
      BY <2>9 DEF ClaimOwn, AfterItems
    <3> QED BY <3>1, Stutter
  <2>10. CASE RunItem(h)
    <3>1. /\ item[h] \in 0 .. task.total - 1
          /\ ran[batch][item[h]] = 0
          /\ ran' = [ran EXCEPT ![batch][item[h]] = @ + 1]
      BY <2>10, h \in Workers, RunsOnce
    <3>2. Dispatching /\ UNCHANGED batch
      BY <2>10, h \in Workers, LoopStep
    <3>3. job[0] = task /\ UNCHANGED job /\ pc'[0] \in {pc[0], "claim"}
      BY <2>10, <3>2 DEF RunItem, TaskInv
    <3>4. ran' = [ran EXCEPT ![batch][item[h]] = 1]
      BY <3>1, FirstRun
    <3>5. Phase = "open" /\ Phase' = Phase
      BY <3>2, <3>3
    <3>6. Fork!RunOne
      BY <3>1, <3>2, <3>3, <3>4, <3>5 DEF Fork!RunOne
    <3> QED BY <3>6 DEF Fork!FJNext
  <2> QED BY <1>2, <2>1, <2>2, <2>3, <2>4, <2>5, <2>6, <2>7, <2>8, <2>9, <2>10
          DEF HelperStep
<1>3. CASE Environment
  <2>1. ASSUME NEW n \in 0 .. MaxWorkers, PoolInit(n) PROVE [Fork!FJNext]_(Fork!fjVars)
    <3>1. UNCHANGED <<batch, ran>> /\ job'[0].total = job[0].total /\ Phase = "closed"
      BY <2>1 DEF PoolInit
    <3>2. CASE n <= 1
      <4>1. Phase' = "ready"
        BY <2>1, <3>2 DEF PoolInit
      <4>2. Fork!Open
        BY <3>1, <4>1 DEF Fork!Open
      <4> QED BY <4>2 DEF Fork!FJNext
    <3>3. CASE ~(n <= 1)
      <4>1. Phase' = "closed"
        BY <2>1, <3>3 DEF PoolInit
      <4> QED BY <3>1, <4>1, Stutter
    <3> QED BY <3>2, <3>3
  <2>2. CASE SpawnFails
    <3>1. UNCHANGED <<batch, ran>> /\ job'[0].total = job[0].total /\ Phase' = Phase
      BY <2>2 DEF SpawnFails
    <3> QED BY <3>1, Stutter
  <2>3. CASE Deinit
    <3>1. UNCHANGED <<batch, ran>> /\ job'[0].total = job[0].total
          /\ Phase = "ready" /\ Phase' = "closed"
      BY <2>3 DEF Deinit
    <3>2. Fork!Close
      BY <3>1 DEF Fork!Close
    <3> QED BY <3>2 DEF Fork!FJNext
  <2>4. CASE RunNothing
    <3>1. Phase = "ready" /\ Phase' = Phase /\ batch' = batch + 1
          /\ UNCHANGED ran /\ job'[0].total = job[0].total
      BY <2>4 DEF RunNothing
    <3>2. Fork!BeginEmpty
      BY <3>1 DEF Fork!BeginEmpty
    <3> QED BY <3>2 DEF Fork!FJNext
  <2>5. ASSUME NEW total \in 1 .. MaxItems, NEW part \in {0, 1}, RunBatchSerial(total, part)
        PROVE  [Fork!FJNext]_(Fork!fjVars)
    <3>1. Phase = "ready" /\ Phase' = "open" /\ batch' = batch + 1 /\ UNCHANGED ran
      BY <2>5 DEF RunBatchSerial, TakeBatch
    <3>2. job'[0].total = total /\ total \in 0 .. MaxItems
      BY <2>5 DEF RunBatchSerial, TakeBatch
    <3>3. Fork!Begin
      BY <3>1, <3>2 DEF Fork!Begin
    <3> QED BY <3>3 DEF Fork!FJNext
  <2>6. ASSUME NEW total \in 1 .. MaxItems, NEW part \in {0, 1}, RunBatch(total, part)
        PROVE  [Fork!FJNext]_(Fork!fjVars)
    <3>1. Phase = "ready" /\ Phase' = "open" /\ batch' = batch + 1 /\ UNCHANGED ran
      BY <2>6 DEF RunBatch, TakeBatch
    <3>2. job'[0].total = total /\ total \in 0 .. MaxItems
      BY <2>6 DEF RunBatch, TakeBatch
    <3>3. Fork!Begin
      BY <3>1, <3>2 DEF Fork!Begin
    <3> QED BY <3>3 DEF Fork!FJNext
  <2>7. ASSUME NEW h \in Helpers, SpuriousWake(h) PROVE [Fork!FJNext]_(Fork!fjVars)
    <3>1. UNCHANGED <<batch, ran>> /\ job'[0].total = job[0].total /\ Phase' = Phase
      BY <2>7 DEF SpuriousWake
    <3> QED BY <3>1, Stutter
  <2>8. CASE SpuriousReturn
    <3>1. UNCHANGED <<batch, ran>> /\ job'[0].total = job[0].total /\ Phase' = Phase
      BY <2>8 DEF SpuriousReturn
    <3> QED BY <3>1, Stutter
  <2> QED BY <1>3, <2>1, <2>2, <2>3, <2>4, <2>5, <2>6, <2>7, <2>8
          DEF Environment
<1>4. CASE UNCHANGED vars
  <2>1. UNCHANGED <<batch, ran>> /\ job'[0].total = job[0].total /\ Phase' = Phase
    BY <1>4 DEF vars
  <2> QED BY <2>1, Stutter
<1> QED BY <1>1, <1>2, <1>3, <1>4 DEF Next, Closed


\* The pool implements ForkJoin: a batch returns after each of its items has run
\* exactly once, and no item runs before, after, or with another batch's ctx.
THEOREM Refinement == Spec => ImplementsForkJoin
<1>1. Init => Fork!FJInit
  BY RefineInit
<1>2. TypeOK /\ DispatchInv /\ [Next]_vars => [Fork!FJNext]_(Fork!fjVars)
  BY RefineStep
<1> QED BY <1>1, <1>2, TypeCorrect, DispatchCorrect, PTL
        DEF Spec, ImplementsForkJoin, Fork!FJSpec
=============================================================================
