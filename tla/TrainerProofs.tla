---------------------------- MODULE TrainerProofs ----------------------------
(***************************************************************************)
(* For every configuration and every history of kills and resumes, a run   *)
(* of train.py is the run its configuration determines: Trainer implements *)
(* TrainRun, and what its checkpoints keep covers all of their steps.      *)
(***************************************************************************)
EXTENDS Trainer, CollectionTheorems

-----------------------------------------------------------------------------
(* Sums of sequences of numbers, and the ordinary steps of a model.        *)

LEMMA SameCardinality == \A S : Run!Cardinality(S) = Cardinality(S)
  BY DEF Run!Cardinality, Cardinality

LEMMA TotalIsSum == \A f : Run!Total(f) = SumFunctionOnSet(f, DOMAIN f)
  BY DEF Run!Total, Run!SumFunctionOnSet, SumFunctionOnSet, Run!FoldFunctionOnSet,
         FoldFunctionOnSet, Run!MapThenFoldSet, MapThenFoldSet

LEMMA TotalIsNat == ASSUME NEW f \in Seq(Nat) PROVE Run!Total(f) \in Nat
<1>1. IsFiniteSet(DOMAIN f) /\ \A i \in DOMAIN f : f[i] \in Nat
  BY FS_Interval
<1>2. SumFunctionOnSet(f, DOMAIN f) \in Nat
  BY <1>1, SumIsNat
<1> QED BY <1>2, TotalIsSum

LEMMA TotalOfNone == ASSUME NEW f, DOMAIN f = {} PROVE Run!Total(f) = 0
  BY TotalIsSum, SumEmpty

\* What one more number adds to a sum.
LEMMA TotalOfAppend ==
  ASSUME NEW f \in Seq(Nat), NEW k \in Nat
  PROVE  Run!Total(Append(f, k)) = Run!Total(f) + k
<1> DEFINE g == Append(f, k)
           n == Len(f) + 1
<1>1. /\ DOMAIN f = 1 .. n - 1 /\ DOMAIN g = 1 .. n /\ n \in Nat \ {0}
      /\ g[n] = k /\ (\A i \in 1 .. n - 1 : g[i] = f[i] /\ f[i] \in Nat)
      /\ \A i \in 1 .. n : g[i] \in Nat
  OBVIOUS
<1> HIDE DEF g, n
<1>2. /\ IsFiniteSet(1 .. n) /\ IsFiniteSet(1 .. n - 1) /\ n \in 1 .. n
      /\ (1 .. n) \ {n} = 1 .. n - 1
  <2>1. n \in Int /\ n - 1 \in Int /\ 1 \in Int
    BY <1>1
  <2>2. n \in 1 .. n /\ (1 .. n) \ {n} = 1 .. n - 1
    BY <1>1
  <2> QED BY <2>1, <2>2, FS_Interval
<1>3. SumFunctionOnSet(g, 1 .. n) = g[n] + SumFunctionOnSet(g, (1 .. n) \ {n})
  BY <1>1, <1>2, SumRemove
<1>4. SumFunctionOnSet(g, 1 .. n - 1) = SumFunctionOnSet(f, 1 .. n - 1)
  BY <1>1, <1>2, SumSame
<1>5. SumFunctionOnSet(f, 1 .. n - 1) \in Nat
  BY <1>1, <1>2, SumIsNat
<1>6. Run!Total(g) = SumFunctionOnSet(g, 1 .. n)
  BY <1>1, TotalIsSum
<1>7. Run!Total(f) = SumFunctionOnSet(f, 1 .. n - 1)
  BY <1>1, TotalIsSum
<1>8. Run!Total(g) = k + SumFunctionOnSet(f, 1 .. n - 1)
  BY <1>1, <1>2, <1>3, <1>4, <1>6
<1> QED BY <1>5, <1>7, <1>8 DEF g

\* The model is a list of steps, whatever these are.
IsList(m) == \E S : m \in Seq(S)

LEMMA AppendToList ==
  ASSUME NEW m, IsList(m), NEW s
  PROVE  /\ IsList(Append(m, s))
         /\ Len(m) \in Nat /\ DOMAIN m = 1 .. Len(m)
         /\ Len(Append(m, s)) = Len(m) + 1 /\ DOMAIN Append(m, s) = 1 .. Len(m) + 1
         /\ \A i \in 1 .. Len(m) : Append(m, s)[i] = m[i]
         /\ Append(m, s)[Len(m) + 1] = s
<1>1. PICK S : m \in Seq(S)
  BY DEF IsList
<1>2. m \in Seq(S \cup {s}) /\ s \in S \cup {s}
  BY <1>1
<1>3. Append(m, s) \in Seq(S \cup {s})
  BY <1>2
<1> QED BY <1>2, <1>3 DEF IsList

LEMMA AppendByIndex ==
  ASSUME NEW m, IsList(m), NEW s
  PROVE  Append(m, s) = [i \in 1 .. Len(m) + 1 |-> IF i = Len(m) + 1 THEN s ELSE m[i]]
<1> DEFINE n == Len(m) + 1
           g == Append(m, s)
<1>1. PICK T : g \in Seq(T)
  BY AppendToList DEF IsList
<1>2. n \in Nat /\ Len(g) = n /\ g[n] = s /\ \A i \in 1 .. n - 1 : g[i] = m[i]
  BY AppendToList
<1> HIDE DEF g, n
<1>3. g = [i \in 1 .. n |-> g[i]]
  BY <1>1, <1>2
<1>4. \A i \in 1 .. n : g[i] = IF i = n THEN s ELSE m[i]
  <2> SUFFICES ASSUME NEW i \in 1 .. n PROVE g[i] = IF i = n THEN s ELSE m[i]
    OBVIOUS
  <2>1. i # n => i \in 1 .. n - 1
    BY <1>2
  <2> QED BY <1>2, <2>1
<1>5. g = [i \in 1 .. n |-> IF i = n THEN s ELSE m[i]]
  BY <1>3, <1>4
<1> QED BY <1>5 DEF g, n

\* A step after the primer is the next ordinary one.
LEMMA OrdinaryOfAppend ==
  ASSUME NEW m, IsList(m), NEW s, config.primer \in Nat, Len(m) >= config.primer
  PROVE  /\ Run!Ordinary(Append(m, s)) = Append(Run!Ordinary(m), s)
         /\ IsList(Run!Ordinary(m)) /\ Len(Run!Ordinary(m)) = Len(m) - config.primer
<1> DEFINE n == Len(m) - config.primer
<1>1. PICK S : m \in Seq(S)
  BY DEF IsList
<1>2. n \in Nat /\ Run!Ordinary(m) = [i \in 1 .. n |-> m[config.primer + i]]
  BY <1>1 DEF Run!Ordinary
<1>3. \A i \in 1 .. n : m[config.primer + i] \in S
  BY <1>1
<1>4. Run!Ordinary(m) \in Seq(S) /\ Len(Run!Ordinary(m)) = n
  BY <1>2, <1>3
<1>5. Run!Ordinary(Append(m, s))
        = [i \in 1 .. n + 1 |-> Append(m, s)[config.primer + i]]
  BY AppendToList DEF Run!Ordinary
<1>6. \A i \in 1 .. n + 1 : Append(m, s)[config.primer + i]
                              = IF i = n + 1 THEN s ELSE m[config.primer + i]
  BY AppendToList, <1>2
<1> HIDE DEF n
<1>7. Append(Run!Ordinary(m), s)
        = [i \in 1 .. n + 1 |-> IF i = n + 1 THEN s ELSE Run!Ordinary(m)[i]]
  BY <1>2, <1>4
<1>8. \A i \in 1 .. n + 1 : (IF i = n + 1 THEN s ELSE Run!Ordinary(m)[i])
                              = Append(m, s)[config.primer + i]
  <2> SUFFICES ASSUME NEW i \in 1 .. n + 1
               PROVE  (IF i = n + 1 THEN s ELSE Run!Ordinary(m)[i])
                        = Append(m, s)[config.primer + i]
    OBVIOUS
  <2>1. i # n + 1 => i \in 1 .. n
    BY <1>2
  <2> QED BY <1>2, <1>6, <2>1
<1>9. Run!Ordinary(Append(m, s)) = Append(Run!Ordinary(m), s)
  BY <1>5, <1>7, <1>8
<1> QED BY <1>4, <1>9 DEF IsList, n

\* During the primer there is none.
LEMMA OrdinaryOfPrimer ==
  ASSUME NEW m, IsList(m), config.primer \in Nat, Len(m) <= config.primer
  PROVE  Run!Ordinary(m) = <<>>
<1>1. Len(m) \in Nat
  BY DEF IsList
<1>2. 1 .. Len(m) - config.primer = {}
  BY <1>1
<1> QED BY <1>2 DEF Run!Ordinary

\* What one more step adds to the bytes and to the positions,
LEMMA AreasOfAppend ==
  ASSUME NEW done, IsList(done), NEW s,
         \A i \in DOMAIN done : Run!Area(done[i]) \in Nat, Run!Area(s) \in Nat
  PROVE  /\ Run!Areas(done) \in Nat
         /\ Run!Areas(Append(done, s)) = Run!Areas(done) + Run!Area(s)
<1> DEFINE f == [i \in DOMAIN done |-> Run!Area(done[i])]
           g == [i \in DOMAIN Append(done, s) |-> Run!Area(Append(done, s)[i])]
<1>1. DOMAIN done = 1 .. Len(done) /\ Len(done) \in Nat
  BY AppendToList
<1>2. f \in Seq(Nat) /\ Len(f) = Len(done)
  BY <1>1
<1>3. Append(f, Run!Area(s))
        = [i \in 1 .. Len(done) + 1 |-> IF i = Len(done) + 1 THEN Run!Area(s) ELSE f[i]]
  <2> HIDE DEF f
  <2>1. IsList(f)
    BY <1>2 DEF IsList
  <2> QED BY <1>2, <2>1, AppendByIndex
<1>4. \A i \in 1 .. Len(done) + 1 :
        Run!Area(Append(done, s)[i]) = IF i = Len(done) + 1 THEN Run!Area(s) ELSE f[i]
  <2> SUFFICES ASSUME NEW i \in 1 .. Len(done) + 1
               PROVE  Run!Area(Append(done, s)[i])
                        = IF i = Len(done) + 1 THEN Run!Area(s) ELSE f[i]
    OBVIOUS
  <2>1. i # Len(done) + 1 => i \in 1 .. Len(done)
    BY <1>1
  <2> QED BY <1>1, <2>1, AppendToList
<1>5. g = Append(f, Run!Area(s))
  <2> HIDE DEF f
  <2> QED BY <1>3, <1>4, AppendToList
<1> HIDE DEF f, g
<1>6. Run!Total(g) = Run!Total(f) + Run!Area(s)
  BY <1>2, <1>5, TotalOfAppend
<1> QED BY <1>2, <1>6, TotalIsNat DEF f, g, Run!Areas

LEMMA PositionsOfAppend ==
  ASSUME NEW done, IsList(done), NEW s,
         \A i \in DOMAIN done : Run!Positions(done[i]) \in Nat, Run!Positions(s) \in Nat
  PROVE  /\ Run!Positioned(done) \in Nat
         /\ Run!Positioned(Append(done, s)) = Run!Positioned(done) + Run!Positions(s)
<1> DEFINE f == [i \in DOMAIN done |-> Run!Positions(done[i])]
           g == [i \in DOMAIN Append(done, s) |-> Run!Positions(Append(done, s)[i])]
<1>1. DOMAIN done = 1 .. Len(done) /\ Len(done) \in Nat
  BY AppendToList
<1>2. f \in Seq(Nat) /\ Len(f) = Len(done)
  BY <1>1
<1>3. Append(f, Run!Positions(s))
        = [i \in 1 .. Len(done) + 1 |-> IF i = Len(done) + 1 THEN Run!Positions(s) ELSE f[i]]
  <2> HIDE DEF f
  <2>1. IsList(f)
    BY <1>2 DEF IsList
  <2> QED BY <1>2, <2>1, AppendByIndex
<1>4. \A i \in 1 .. Len(done) + 1 :
        Run!Positions(Append(done, s)[i])
          = IF i = Len(done) + 1 THEN Run!Positions(s) ELSE f[i]
  <2> SUFFICES ASSUME NEW i \in 1 .. Len(done) + 1
               PROVE  Run!Positions(Append(done, s)[i])
                        = IF i = Len(done) + 1 THEN Run!Positions(s) ELSE f[i]
    OBVIOUS
  <2>1. i # Len(done) + 1 => i \in 1 .. Len(done)
    BY <1>1
  <2> QED BY <1>1, <2>1, AppendToList
<1>5. g = Append(f, Run!Positions(s))
  <2> HIDE DEF f
  <2> QED BY <1>3, <1>4, AppendToList
<1> HIDE DEF f, g
<1>6. Run!Total(g) = Run!Total(f) + Run!Positions(s)
  BY <1>2, <1>5, TotalOfAppend
<1> QED BY <1>2, <1>6, TotalIsNat DEF f, g, Run!Positioned

\* to the shapes that were drawn, to the steps that drew from the corruption generator, and
\* to the split of the head.
LEMMA ShapesOfAppend ==
  ASSUME NEW done, IsList(done), NEW s
  PROVE  /\ IsList(Run!Shapes(done)) /\ Len(Run!Shapes(done)) = Len(done)
         /\ Run!Shapes(Append(done, s)) = Append(Run!Shapes(done), s.shape)
         /\ Run!WasSplit(Append(done, s)) <=> s.split
<1> DEFINE f == Run!Shapes(done)
           T == {done[i].shape : i \in DOMAIN done}
<1>1. /\ DOMAIN done = 1 .. Len(done) /\ Len(done) \in Nat
      /\ DOMAIN Append(done, s) = 1 .. Len(done) + 1 /\ Len(Append(done, s)) = Len(done) + 1
      /\ Append(done, s)[Len(done) + 1] = s
      /\ \A i \in 1 .. Len(done) : Append(done, s)[i] = done[i]
  BY AppendToList
<1>2. f \in Seq(T) /\ Len(f) = Len(done) /\ \A i \in 1 .. Len(done) : f[i] = done[i].shape
  BY <1>1 DEF Run!Shapes
<1>3. Append(f, s.shape)
        = [i \in 1 .. Len(done) + 1 |-> IF i = Len(done) + 1 THEN s.shape ELSE f[i]]
  <2> HIDE DEF f, T
  <2> QED BY <1>2
<1>4. \A i \in 1 .. Len(done) + 1 :
        Append(done, s)[i].shape = IF i = Len(done) + 1 THEN s.shape ELSE f[i]
  <2> SUFFICES ASSUME NEW i \in 1 .. Len(done) + 1
               PROVE  Append(done, s)[i].shape = IF i = Len(done) + 1 THEN s.shape ELSE f[i]
    OBVIOUS
  <2>1. i # Len(done) + 1 => i \in 1 .. Len(done)
    BY <1>1
  <2> HIDE DEF f
  <2> QED BY <1>1, <1>2, <2>1
<1>5. Run!Shapes(Append(done, s)) = Append(f, s.shape)
  <2> HIDE DEF f
  <2> QED BY <1>1, <1>3, <1>4 DEF Run!Shapes
<1>6. Append(done, s) # <<>>
  BY <1>1
<1> QED BY <1>1, <1>2, <1>5, <1>6 DEF IsList, Run!WasSplit

LEMMA SoftenedOfAppend ==
  ASSUME NEW done, IsList(done), NEW s
  PROVE  /\ Cardinality(Run!Softened(done)) \in Nat
         /\ Cardinality(Run!Softened(Append(done, s)))
              = Cardinality(Run!Softened(done)) + IF s.soft # 0 THEN 1 ELSE 0
<1> DEFINE U == Run!Softened(done)
           n == Len(done) + 1
<1>1. /\ DOMAIN done = 1 .. n - 1 /\ n \in Nat
      /\ DOMAIN Append(done, s) = 1 .. n /\ Append(done, s)[n] = s
      /\ \A i \in 1 .. n - 1 : Append(done, s)[i] = done[i]
  BY AppendToList
<1> HIDE DEF n
<1>2. IsFiniteSet(1 .. n - 1) /\ U \in SUBSET (1 .. n - 1)
  <2>1. 1 \in Int /\ n - 1 \in Int
    BY <1>1
  <2> QED BY <1>1, <2>1, FS_Interval DEF Run!Softened
<1>3. IsFiniteSet(U) /\ n \notin U
  BY <1>1, <1>2, FS_Subset
<1>4. Run!Softened(Append(done, s)) = IF s.soft # 0 THEN U \cup {n} ELSE U
  <2>1. \A i : i \in 1 .. n <=> i \in 1 .. n - 1 \/ i = n
    BY <1>1
  <2> QED BY <1>1, <2>1 DEF Run!Softened
<1>5. Cardinality(U) \in Nat /\ Cardinality(U \cup {n}) = Cardinality(U) + 1
  <2> HIDE DEF U
  <2> QED BY <1>3, FS_CardinalityType, FS_AddElement
<1> QED BY <1>4, <1>5

-----------------------------------------------------------------------------
(* The schedules.                                                          *)

\* TrainRun has the schedules of Trainer.
LEMMA SameSchedules ==
  /\ \A c, p, t : /\ Run!ShapeAt(c, p, t) = ShapeAt(c, p, t)
                  /\ Run!SoftRate(c, p, t) = SoftRate(c, p, t)
                  /\ Run!HeadIsDue(c, p, t) <=> HeadIsDue(c, p, t)
                  /\ Run!Multiplier(c, p, t) = Multiplier(c, p, t)
  /\ \A c, n, p, t : Run!LearningRate(c, n, p, t) = LearningRate(c, n, p, t)
  /\ \A kind, n : Run!Progress(kind, n) = Progress(kind, n)
  /\ \A c : Run!TotalBudget(c) = TotalBudget(c)
<1>1. /\ \A a, b : Run!AtMost(a, b) = AtMost(a, b)
      /\ \A p, t, f : Run!Below(p, t, f) <=> Below(p, t, f)
      /\ Run!Den = Den
  BY DEF Run!AtMost, AtMost, Run!Below, Below, Run!Den, Den
<1>2. \A c, p, t : Run!Phase(c, p, t) = Phase(c, p, t)
  BY <1>1 DEF Run!Phase, Phase
<1>3. \A c, p, t : Run!ShapeAt(c, p, t) = ShapeAt(c, p, t)
  BY DEF Run!ShapeAt, ShapeAt, Run!Below, Below, Run!Den, Den
<1>4. \A c, p, t : Run!SoftRate(c, p, t) = SoftRate(c, p, t)
  BY <1>1 DEF Run!SoftRate, SoftRate
<1>5. \A c, p, t : Run!HeadIsDue(c, p, t) <=> HeadIsDue(c, p, t)
  BY <1>1 DEF Run!HeadIsDue, HeadIsDue
<1>6. \A c, p, t : Run!Multiplier(c, p, t) = Multiplier(c, p, t)
  BY <1>1, <1>2 DEF Run!Multiplier, Multiplier
<1>7. \A c, n, p, t : Run!LearningRate(c, n, p, t) = LearningRate(c, n, p, t)
  BY <1>1 DEF Run!LearningRate, LearningRate
<1>8. \A kind, n : Run!Progress(kind, n) = Progress(kind, n)
  BY DEF Run!Progress, Progress
<1>9. \A c : Run!TotalBudget(c) = TotalBudget(c)
  BY DEF Run!TotalBudget, TotalBudget
<1> QED BY <1>3, <1>4, <1>5, <1>6, <1>7, <1>8, <1>9

\* A shape whose batches fit the model and split into whole groups.
Fits(shape) ==
  /\ shape \in [batch : Nat \ {0}, context : Nat]
  /\ shape.context \in 2 .. config.longest
  /\ shape.context % config.group = 0

\* What the types of a configuration say, field by field.
LEMMA ConfigTypes ==
  ASSUME config \in Configs
  PROVE  /\ config.kind \in {"steps", "source_bytes", "flops", "gpu_seconds"}
         /\ config.scheduled \in {"batch", "shape"}
         /\ config.budget \in Int /\ config.max_steps \in Int /\ config.batch \in Int
         /\ config.context \in Int /\ config.longest \in Int
         /\ config.group \in Nat \ {0} /\ config.telemetry_interval \in Nat \ {0}
         /\ config.primer \in Nat /\ config.extend \in Nat
         /\ config.sync \in BOOLEAN
         /\ config.stages \in Seq([at : Int, batch : Int, context : Int])
  BY ConfigAssumption DEF TypedConfig

\* A valid schedule gives such a shape at any progress.
LEMMA ShapeFits ==
  ASSUME config \in Configs, ValidConfig(config), NEW p \in Nat, NEW t \in Int
  PROVE  Fits(ShapeAt(config, p, t))
<1> DEFINE due == {i \in DOMAIN config.stages : ~ Below(p, t, config.stages[i].at)}
           now == CHOOSE i \in due : \A j \in due : j <= i
<1>1. CASE config.stages = <<>>
  BY <1>1, ConfigTypes DEF Fits, ShapeAt, ValidConfig
<1>2. CASE config.stages # <<>>
  <2>1. /\ config.stages \in Seq([at : Int, batch : Int, context : Int])
        /\ Len(config.stages) \in Nat /\ DOMAIN config.stages = 1 .. Len(config.stages)
        /\ config.stages[1].at = 0 /\ 1 \in DOMAIN config.stages
    <3>1. config.stages \in Seq([at : Int, batch : Int, context : Int])
      BY ConfigTypes
    <3>2. config.stages[1].at = 0
      BY <1>2 DEF ValidConfig, ValidStages
    <3> HIDE DEF due, now
    <3>3. Len(config.stages) \in Nat /\ Len(config.stages) # 0
      BY <1>2, <3>1
    <3> QED BY <3>1, <3>2, <3>3
  <2>2. ~ Below(p, t, 0)
    BY DEF Below, Den
  <2>3. 1 \in due /\ due \subseteq Int /\ \A k \in due : k <= Len(config.stages)
    BY <2>1, <2>2
  <2>4. \E m \in due : \A k \in due : k <= m
    <3>1. Len(config.stages) \in Int /\ due # {}
      BY <2>1, <2>3
    <3> HIDE DEF due
    <3> QED BY <2>3, <3>1, GreatestInt
  <2>5. now \in due
    <3> HIDE DEF due
    <3> QED BY <2>4
  <2>6. ShapeAt(config, p, t)
          = [batch   |-> config.stages[now].batch,
             context |-> IF config.scheduled = "batch" THEN config.context
                         ELSE config.stages[now].context]
    BY <1>2 DEF ShapeAt
  <2> HIDE DEF now
  <2>7. now \in DOMAIN config.stages
    BY <2>5
  <2>8. /\ config.stages[now].batch \in Int /\ config.stages[now].batch > 0
        /\ config.stages[now].context \in Int
    <3>1. config.stages[now] \in [at : Int, batch : Int, context : Int]
      <4> DEFINE T == [at : Int, batch : Int, context : Int]
                 stages == config.stages
      <4>1. stages \in Seq(T) /\ now \in DOMAIN stages
        BY <2>1, <2>7
      <4> HIDE DEF T, stages
      <4>2. stages[now] \in T
        BY <4>1
      <4> QED BY <4>2 DEF T, stages
    <3>2. config.stages[now].batch > 0
      BY <2>7 DEF ValidConfig, ValidStages
    <3> QED BY <3>1, <3>2
  <2>9. config.scheduled = "shape" =>
          /\ config.stages[now].context >= 2
          /\ config.stages[now].context % config.group = 0
          /\ config.stages[now].context <= config.longest
    BY <2>7 DEF ValidConfig, ValidStages
  <2>10. /\ config.context \in Int /\ config.longest \in Int /\ config.context >= 2
         /\ config.context % config.group = 0 /\ config.context <= config.longest
         /\ config.scheduled \in {"batch", "shape"}
    BY ConfigTypes DEF ValidConfig
  <2> DEFINE b == config.stages[now].batch
             c == IF config.scheduled = "batch" THEN config.context
                  ELSE config.stages[now].context
  <2>11. /\ b \in Nat \ {0} /\ c \in Nat /\ c \in 2 .. config.longest
         /\ c % config.group = 0
    BY <2>8, <2>9, <2>10
  <2> HIDE DEF b, c
  <2>12. ShapeAt(config, p, t) = [batch |-> b, context |-> c]
    BY <2>6 DEF b, c
  <2> QED BY <2>11, <2>12 DEF Fits
<1> QED BY <1>1, <1>2

\* What a step on such a shape adds to the counters.
LEMMA StepCosts ==
  ASSUME config \in Configs, NEW s, Fits(s.shape)
  PROVE  Run!Area(s) \in Nat /\ Run!Positions(s) \in Nat
<1> DEFINE b == s.shape.batch
           c == s.shape.context
           g == config.group
<1>1. b \in Nat /\ c \in Nat /\ c >= 2 /\ c % g = 0 /\ g \in Nat \ {0}
  BY ConfigTypes DEF Fits
<1>2. c \div g \in Nat /\ c \div g >= 1
  <2> HIDE DEF c, g
  <2>1. c = g * (c \div g) + (c % g)
    BY <1>1
  <2> QED BY <1>1, <2>1
<1> DEFINE q == c \div g - 1
<1>3. q \in Nat
  <2> HIDE DEF b, c, g
  <2> QED BY <1>2
<1>4. b * (c + 1) \in Nat /\ b * c \in Nat /\ b * q \in Nat
  <2> HIDE DEF b, c, g, q
  <2> QED BY <1>1, <1>3
<1> QED BY <1>4 DEF Run!Area, Run!Positions

-----------------------------------------------------------------------------
(* The inductive invariant.                                                *)

\* The counters, the noise and the generator of t are those of the steps its model has seen.
Coherent(t) ==
  LET done == Run!Ordinary(t.model)
  IN  /\ t = [counters |-> t.counters, generator |-> t.generator, noise |-> t.noise,
              model |-> t.model, split |-> t.split]
      /\ t.counters \in Counts
      /\ IsList(t.model) /\ IsList(t.generator)
      /\ Len(t.model) = t.counters.step
      /\ t.counters.step = t.counters.primer_step + t.counters.ordinary_step
      /\ t.counters.primer_step <= config.primer
      /\ t.counters.ordinary_step > 0 =>
           /\ t.counters.primer_step = config.primer
           /\ t.counters.ordinary_step <= config.max_steps
      /\ t.counters.source_bytes = Run!Areas(done) /\ t.counters.tokens = Run!Areas(done)
      /\ t.counters.flops = Run!Positioned(done)
      /\ \A i \in DOMAIN done : Fits(done[i].shape)
      /\ \A i \in DOMAIN t.generator : Fits(t.generator[i])
      /\ t.noise = Cardinality(Run!Softened(done))
      /\ t.split \in BOOLEAN

\* No step is under way: the generator has drawn the batches of these steps and no other, and
\* the head was split as they found it.
Settled(t) ==
  LET done == Run!Ordinary(t.model)
  IN  /\ Coherent(t)
      /\ t.generator = Run!Shapes(done)
      /\ t.split <=> Run!WasSplit(done)

\* What a file holds: all the time its steps took.
Whole(t) ==
  /\ Settled(t)
  /\ t.counters.elapsed = t.counters.ordinary_step
  /\ t.model # <<>>

Counting ==
  /\ config \in Configs /\ runs \in 0 .. MaxRuns
  /\ budget \in {OwnBudget, <<"gpu_seconds", config.extend>>}
  /\ ~ Down => ValidConfig(config) /\ MayCount(budget[1]) /\ AllBudget > 0

Saved ==
  /\ disk = [f \in Files |-> disk[f]]
  /\ \A f \in Files : disk[f] \in {None, Torn} \/ Whole(disk[f])

\* What the worker draws is the next batch of this generator in the current shape.
Prefetched ==
  \/ pre = None
  \/ /\ pre = [shape |-> active, from |-> trainer.generator, ready |-> pre.ready]
     /\ pre.ready \in BOOLEAN

Unfinished == counters.ordinary_step < config.max_steps /\ Spending < AllBudget
Closed     == window = 0 /\ row \in {None, counters}

Timed ==
  /\ window \in 0 .. config.telemetry_interval
  /\ ~ Down => /\ counters.elapsed + window = counters.ordinary_step
               /\ config.sync => window = 0
  /\ pc \in {"profile", "acknowledge", "report"} =>
       /\ counters.ordinary_step > 0
       /\ batch.due => window = 0
       /\ ~ batch.due => Unfinished
  /\ pc = "loop" => Closed \/ Unfinished
  /\ pc \in {"primer", "open", "save", "write", "sidecar"} => Closed

\* In a step, the generator and the head run ahead of the model.
Stepping ==
  LET done == Run!Ordinary(trainer.model)
  IN  /\ Coherent(trainer)
      /\ pc \notin {"draw", "train"} => Settled(trainer)
      /\ pc \notin {"down", "refused", "primer"} => counters.primer_step = config.primer
      /\ pc \in {"draw", "train"} =>
           /\ Unfinished
           /\ active = ShapeAt(config, Spending, AllBudget)
           /\ trainer.split <=> HeadIsDue(config, Spending, AllBudget) \/ Run!WasSplit(done)
      /\ pc = "draw" => trainer.generator = Run!Shapes(done)
      /\ pc = "train" => /\ batch.shape = active /\ batch.drawn = Run!Shapes(done)
                         /\ trainer.generator = Append(Run!Shapes(done), active)
      /\ pc \in {"save", "write"} => trainer.model # <<>>

Control ==
  /\ pc \in {"down", "refused", "primer", "open", "loop", "draw", "train", "profile",
             "acknowledge", "report", "save", "write", "sidecar", "done"}
  /\ target \in {"primer", "running", "final"}

Inv == Counting /\ Saved /\ Prefetched /\ Timed /\ Stepping /\ Control

-----------------------------------------------------------------------------
(* What the steps have in common.                                          *)

\* The configuration is the same in all processes, so what is said of a state stays true.
LEMMA ConfigStays ==
  ASSUME config' = config
  PROVE  \A t : /\ Run!Ordinary(t)' = Run!Ordinary(t)
                /\ Coherent(t)' <=> Coherent(t)
                /\ Settled(t)' <=> Settled(t)
                /\ Whole(t)' <=> Whole(t)
<1>1. \A t : Run!Ordinary(t)' = Run!Ordinary(t)
  BY DEF Run!Ordinary
<1>2. \A t : Fits(t)' <=> Fits(t)
  BY DEF Fits
<1>3. \A t : Run!Positioned(t)' = Run!Positioned(t)
  BY DEF Run!Positioned, Run!Positions
<1>4. \A t : Coherent(t)' <=> Coherent(t)
  BY <1>1, <1>2, <1>3 DEF Coherent
<1>5. \A t : Settled(t)' <=> Settled(t)
  BY <1>1, <1>4 DEF Settled
<1>6. \A t : Whole(t)' <=> Whole(t)
  BY <1>5 DEF Whole
<1> QED BY <1>1, <1>4, <1>5, <1>6

LEMMA FilesStay == ASSUME Saved, config' = config, disk' = disk PROVE Saved'
  BY ConfigStays DEF Saved, Files

LEMMA TrainerStays ==
  ASSUME config' = config, trainer' = trainer
  PROVE  /\ Coherent(trainer)' <=> Coherent(trainer)
         /\ Settled(trainer)' <=> Settled(trainer)
         /\ Run!Ordinary(trainer.model)' = Run!Ordinary(trainer.model)
  BY ConfigStays

\* The steps the counters say, after the primer.
LEMMA OrdinaryLength ==
  ASSUME config \in Configs, NEW t, Coherent(t)
  PROVE  /\ IsList(Run!Ordinary(t.model))
         /\ Len(Run!Ordinary(t.model)) = t.counters.ordinary_step
         /\ t.counters \in Counts
<1>1. config.primer \in Nat
  BY ConfigTypes
<1>2. t.counters \in Counts /\ IsList(t.model) /\ Len(t.model) = t.counters.step
  BY DEF Coherent
<1>3. t.counters.step \in Nat /\ t.counters.ordinary_step \in Nat /\ t.counters.primer_step \in Nat
  BY <1>2 DEF Counts
<1>4. CASE t.counters.ordinary_step > 0 \/ t.counters.primer_step = config.primer
  <2>1. /\ t.counters.primer_step = config.primer
        /\ t.counters.step = t.counters.primer_step + t.counters.ordinary_step
    BY <1>4 DEF Coherent
  <2>2. Len(t.model) >= config.primer
    BY <1>1, <1>2, <1>3, <2>1
  <2>3. /\ IsList(Run!Ordinary(t.model))
        /\ Len(Run!Ordinary(t.model)) = Len(t.model) - config.primer
    BY <1>1, <1>2, <2>2, OrdinaryOfAppend
  <2> QED BY <1>1, <1>2, <1>3, <2>1, <2>3
<1>5. CASE t.counters.ordinary_step = 0
  <2>1. Len(t.model) <= config.primer
    BY <1>1, <1>2, <1>3, <1>5 DEF Coherent
  <2>2. Run!Ordinary(t.model) = <<>>
    BY <1>1, <1>2, <2>1, OrdinaryOfPrimer
  <2> QED BY <1>2, <1>5, <2>2 DEF IsList
<1> QED BY <1>3, <1>4, <1>5

\* A run that has not begun.
LEMMA FreshSettled == ASSUME config \in Configs PROVE Settled(Fresh) /\ Fresh.counters.elapsed = 0
<1>1. /\ IsList(<<>>) /\ Len(<<>>) = 0
  BY DEF IsList
<1>2. Run!Ordinary(<<>>) = <<>>
  BY <1>1, ConfigTypes, OrdinaryOfPrimer
<1>3. Run!Areas(<<>>) = 0 /\ Run!Positioned(<<>>) = 0
  <2>1. DOMAIN [i \in DOMAIN <<>> |-> Run!Area(<<>>[i])] = {}
    OBVIOUS
  <2>2. DOMAIN [i \in DOMAIN <<>> |-> Run!Positions(<<>>[i])] = {}
    OBVIOUS
  <2> QED BY <2>1, <2>2, TotalOfNone DEF Run!Areas, Run!Positioned
<1>4. Cardinality(Run!Softened(<<>>)) = 0
  <2>1. Run!Softened(<<>>) = {}
    BY DEF Run!Softened
  <2> QED BY <2>1, FS_EmptySet
<1>5. Run!Shapes(<<>>) = <<>> /\ ~ Run!WasSplit(<<>>)
  BY DEF Run!Shapes, Run!WasSplit
<1>6. /\ Fresh.model = <<>> /\ Fresh.generator = <<>> /\ Fresh.noise = 0 /\ Fresh.split = FALSE
      /\ Fresh.counters \in Counts
      /\ Fresh.counters.step = 0 /\ Fresh.counters.primer_step = 0
      /\ Fresh.counters.ordinary_step = 0 /\ Fresh.counters.source_bytes = 0
      /\ Fresh.counters.tokens = 0 /\ Fresh.counters.flops = 0 /\ Fresh.counters.elapsed = 0
  BY DEF Fresh, Counts
<1>7. Fresh = [counters |-> Fresh.counters, generator |-> Fresh.generator,
               noise |-> Fresh.noise, model |-> Fresh.model, split |-> Fresh.split]
  BY DEF Fresh
<1>8. config.primer \in Nat
  BY ConfigTypes
<1> DEFINE t == Fresh
<1>9. Run!Ordinary(t.model) = <<>> /\ IsList(t.model) /\ IsList(t.generator)
  BY <1>1, <1>2, <1>6
<1>10. /\ \A i \in DOMAIN Run!Ordinary(t.model) : Fits(Run!Ordinary(t.model)[i].shape)
       /\ \A i \in DOMAIN t.generator : Fits(t.generator[i])
  <2>1. DOMAIN <<>> = {}
    OBVIOUS
  <2> QED BY <1>6, <1>9, <2>1
<1>11. Coherent(t)
  <2>1. t.counters.primer_step <= config.primer /\ ~ t.counters.ordinary_step > 0
    BY <1>6, <1>8
  <2>2. Len(t.model) = t.counters.step /\ t.counters.step = t.counters.primer_step + t.counters.ordinary_step
    BY <1>1, <1>6
  <2>3. t.split \in BOOLEAN
    BY <1>6
  <2>4. t.noise = Cardinality(Run!Softened(Run!Ordinary(t.model)))
    BY <1>4, <1>6, <1>9
  <2>5. /\ t.counters.source_bytes = Run!Areas(Run!Ordinary(t.model))
        /\ t.counters.tokens = Run!Areas(Run!Ordinary(t.model))
        /\ t.counters.flops = Run!Positioned(Run!Ordinary(t.model))
    BY <1>3, <1>6, <1>9
  <2>6. t.counters \in Counts
    BY <1>6
  <2> HIDE DEF t
  <2> QED BY <1>7, <1>9, <1>10, <2>1, <2>2, <2>3, <2>4, <2>5, <2>6 DEF Coherent, t
<1> QED BY <1>2, <1>5, <1>6, <1>11 DEF Settled

\* What a process counts against.
LEMMA BudgetTypes ==
  ASSUME Counting
  PROVE  /\ budget[1] \in {"steps", "source_bytes", "flops", "gpu_seconds"}
         /\ AllBudget \in Int
         /\ budget = <<budget[1], AllBudget>>
  BY ConfigTypes DEF Counting, OwnBudget, AllBudget, TotalBudget

LEMMA ProgressIsNat ==
  ASSUME NEW kind \in {"steps", "source_bytes", "flops", "gpu_seconds"}, NEW n \in Counts
  PROVE  Progress(kind, n) \in Nat
  BY DEF Progress, Counts

-----------------------------------------------------------------------------
(* A start, and a kill.                                                    *)

LEMMA BeginKeeps ==
  ASSUME Inv, config' = config, disk' = disk, runs' \in 0 .. MaxRuns,
         NEW t, Begin(t), Settled(t), t.counters.elapsed = t.counters.ordinary_step,
         budget' \in {OwnBudget, <<"gpu_seconds", config.extend>>},
         \/ pc' \in {"down", "refused"}
         \/ pc' = "primer" /\ ValidConfig(config) /\ MayCount(budget'[1]) /\ budget'[2] > 0
  PROVE  Inv'
<1>1. config \in Configs
  BY DEF Inv, Counting
<1>2. /\ trainer' = t /\ pre' = None /\ window' = 0 /\ row' = None /\ target' = "final"
  BY DEF Begin
<1>3. Settled(trainer)' /\ Coherent(trainer)'
  BY <1>2, ConfigStays DEF Settled
<1>4. pc' \in {"down", "refused", "primer"}
  OBVIOUS
<1>5. Counting'
  <2>1. OwnBudget' = OwnBudget
    BY DEF OwnBudget
  <2>2. ~ Down' => ValidConfig(config) /\ MayCount(budget'[1]) /\ budget'[2] > 0
    BY DEF Down
  <2>3. MayCount(budget[1])' <=> MayCount(budget'[1])
    BY DEF MayCount
  <2> QED BY <1>1, <2>1, <2>2, <2>3 DEF Counting, AllBudget
<1>6. Saved'
  BY FilesStay DEF Inv
<1>7. Prefetched'
  BY <1>2 DEF Prefetched
<1>8. Timed'
  <2>1. 0 \in 0 .. config.telemetry_interval
    BY <1>1, ConfigTypes
  <2>2. t.counters.ordinary_step \in Nat
    BY <1>1, OrdinaryLength DEF Settled, Counts
  <2>3. (counters.elapsed + window = counters.ordinary_step)'
    BY <1>2, <2>2 DEF counters
  <2>4. Closed'
    BY <1>2 DEF Closed
  <2> QED BY <1>2, <1>4, <2>1, <2>3, <2>4 DEF Timed
<1>9. Stepping'
  BY <1>3, <1>4 DEF Stepping
<1>10. Control'
  BY <1>2, <1>4 DEF Control
<1> QED BY <1>5, <1>6, <1>7, <1>8, <1>9, <1>10 DEF Inv

LEMMA OwnBudgetIsPositive ==
  ASSUME config \in Configs, ValidConfig(config) PROVE OwnBudget[2] > 0
  BY ConfigTypes DEF OwnBudget, TotalBudget, ValidConfig

LEMMA CrashKeeps == Inv /\ Crash => Inv'
<1> SUFFICES ASSUME Inv, Crash PROVE Inv'
  OBVIOUS
<1>1. config \in Configs /\ runs \in 0 .. MaxRuns
  BY DEF Inv, Counting
<1>2. /\ config' = config /\ disk' = disk /\ runs' = runs /\ Begin(Fresh)
      /\ budget' = OwnBudget /\ pc' = "down"
  BY DEF Crash, files
<1>3. Settled(Fresh) /\ Fresh.counters.elapsed = Fresh.counters.ordinary_step
  BY <1>1, FreshSettled DEF Fresh
<1> QED BY <1>1, <1>2, <1>3, BeginKeeps

LEMMA StartKeeps == Inv /\ Start => Inv'
<1> SUFFICES ASSUME Inv, Start PROVE Inv'
  OBVIOUS
<1>1. config \in Configs /\ runs \in 0 .. MaxRuns /\ runs < MaxRuns
  BY DEF Inv, Counting, Start
<1>2. /\ config' = config /\ disk' = disk /\ runs' = runs + 1 /\ Begin(Fresh)
      /\ budget' = OwnBudget
      /\ pc' = IF ValidConfig(config) /\ MayCount(config.kind) THEN "primer" ELSE "refused"
  BY DEF Start, files
<1>3. Settled(Fresh) /\ Fresh.counters.elapsed = Fresh.counters.ordinary_step
  BY <1>1, FreshSettled DEF Fresh
<1>4. runs' \in 0 .. MaxRuns
  BY <1>1, <1>2, ConfigAssumption
<1>5. OwnBudget[1] = config.kind
  BY DEF OwnBudget
<1> QED BY <1>1, <1>2, <1>3, <1>4, <1>5, OwnBudgetIsPositive, BeginKeeps

LEMMA ResumeKeeps == Inv /\ Resume => Inv'
<1> SUFFICES ASSUME Inv, Resume PROVE Inv'
  OBVIOUS
<1>1. /\ config \in Configs /\ runs \in 0 .. MaxRuns /\ runs < MaxRuns
      /\ config' = config /\ disk' = disk /\ runs' = runs + 1 /\ ValidConfig(config)
  BY DEF Inv, Counting, Resume, files
<1>2. runs' \in 0 .. MaxRuns
  BY <1>1, ConfigAssumption
<1>3. PICK file \in Files, extended \in BOOLEAN :
        LET saved   == disk[file]
            counted == IF extended THEN <<"gpu_seconds", config.extend>> ELSE OwnBudget
        IN  /\ saved # None
            /\ IF Loads(saved) /\ (extended => MayExtend(saved)) /\ MayCount(counted[1])
               THEN /\ pc' = "primer"
                    /\ budget' = counted
                    /\ Begin(saved)
               ELSE /\ pc' = "refused"
                    /\ budget' = OwnBudget
                    /\ Begin(Fresh)
  BY DEF Resume
<1> DEFINE saved   == disk[file]
           counted == IF extended THEN <<"gpu_seconds", config.extend>> ELSE OwnBudget
           loads   == Loads(saved) /\ (extended => MayExtend(saved)) /\ MayCount(counted[1])
<1>4. CASE loads
  <2>1. pc' = "primer" /\ budget' = counted /\ Begin(saved)
    BY <1>3, <1>4
  <2>2. Whole(saved)
    BY <1>3, <1>4 DEF Loads, Inv, Saved
  <2>3. Settled(saved) /\ saved.counters.elapsed = saved.counters.ordinary_step
    BY <2>2 DEF Whole
  <2>4. saved.counters.elapsed \in Nat /\ config.extend \in Nat
    BY <1>1, <2>3, OrdinaryLength, ConfigTypes DEF Settled, Counts
  <2>5. counted[2] > 0
    <3>1. CASE extended
      BY <1>4, <2>4, <3>1 DEF MayExtend
    <3>2. CASE ~ extended
      BY <1>1, <3>2, OwnBudgetIsPositive
    <3> QED BY <3>1, <3>2
  <2>6. counted \in {OwnBudget, <<"gpu_seconds", config.extend>>} /\ MayCount(counted[1])
    BY <1>4
  <2> HIDE DEF saved, counted
  <2> QED BY <1>1, <1>2, <2>1, <2>3, <2>5, <2>6, BeginKeeps
<1>5. CASE ~ loads
  <2>1. pc' = "refused" /\ budget' = OwnBudget /\ Begin(Fresh)
    BY <1>3, <1>5
  <2>2. Settled(Fresh) /\ Fresh.counters.elapsed = Fresh.counters.ordinary_step
    BY <1>1, FreshSettled DEF Fresh
  <2> QED BY <1>1, <1>2, <2>1, <2>2, BeginKeeps
<1> QED BY <1>4, <1>5

-----------------------------------------------------------------------------
(* The steps that leave the model and the generators alone.                *)

\* What a step keeps that changes neither the configuration, the budget, the number of
\* starts, nor the trainer.
LEMMA CountingStays ==
  ASSUME Inv, config' = config, budget' = budget, runs' = runs, ~ Down
  PROVE  Counting'
<1>1. OwnBudget' = OwnBudget /\ (MayCount(budget[1])' <=> MayCount(budget[1]))
  BY DEF OwnBudget, MayCount
<1> QED BY <1>1 DEF Inv, Counting, AllBudget

LEMMA QuietKeeps ==
  ASSUME Inv, config' = config, budget' = budget, runs' = runs, trainer' = trainer, ~ Down
  PROVE  /\ Counting'
         /\ counters' = counters /\ Spending' = Spending /\ AllBudget' = AllBudget
         /\ Coherent(trainer)' /\ (Settled(trainer)' <=> Settled(trainer))
         /\ (Unfinished' <=> Unfinished)
         /\ (window' = window /\ row' = row => (Closed' <=> Closed))
<1>1. Counting'
  BY CountingStays
<1>2. counters' = counters /\ AllBudget' = AllBudget
  BY DEF counters, AllBudget
<1>3. Spending' = Spending
  BY <1>2 DEF Spending
<1> QED BY <1>1, <1>2, <1>3, TrainerStays DEF Inv, Stepping, Unfinished, Closed

LEMMA PrimerEndsKeeps == Inv /\ PrimerEnds => Inv'
<1> SUFFICES ASSUME Inv, PrimerEnds PROVE Inv'
  OBVIOUS
<1>1. /\ pc = "primer" /\ counters.primer_step >= config.primer
      /\ config' = config /\ budget' = budget /\ runs' = runs /\ trainer' = trainer
      /\ disk' = disk /\ active' = active /\ pre' = pre /\ window' = window /\ row' = row
  BY DEF PrimerEnds, loop, files
<1>2. ~ Down
  BY <1>1 DEF Down
<1>3. config \in Configs /\ Settled(trainer) /\ Coherent(trainer) /\ Closed
  BY <1>1 DEF Inv, Counting, Stepping, Timed
<1>4. /\ counters.primer_step = config.primer /\ counters.primer_step \in Nat
      /\ counters.ordinary_step \in Nat
  BY <1>1, <1>3, ConfigTypes DEF Coherent, Counts, counters
<1>5. \/ pc' = "save" /\ target' = "primer" /\ config.primer > 0
      \/ pc' = "open" /\ target' = target
  BY DEF PrimerEnds
<1>6. Saved'
  BY <1>1, FilesStay DEF Inv
<1>7. Prefetched'
  BY <1>1 DEF Inv, Prefetched
<1>8. Timed'
  BY <1>1, <1>2, <1>3, <1>5, QuietKeeps DEF Inv, Timed
<1>9. Stepping'
  <2>1. config.primer > 0 => trainer.model # <<>>
    BY <1>3, <1>4 DEF Coherent, Counts, counters
  <2> QED BY <1>1, <1>2, <1>3, <1>4, <1>5, <2>1, QuietKeeps DEF Stepping, counters
<1>10. Control'
  BY <1>5 DEF Inv, Control
<1> QED BY <1>1, <1>2, <1>6, <1>7, <1>8, <1>9, <1>10, QuietKeeps DEF Inv

\* What the worker hands over.
LEMMA ProducedBatch ==
  ASSUME NEW s, NEW g, NEW r, NEW v
  PROVE  [[shape |-> s, from |-> g, ready |-> r] EXCEPT !.ready = v]
           = [shape |-> s, from |-> g, ready |-> v]
  OBVIOUS

LEMMA ProduceKeeps == Inv /\ Produce => Inv'
<1> SUFFICES ASSUME Inv, Produce PROVE Inv'
  OBVIOUS
<1>1. /\ pre # None /\ pre' = [pre EXCEPT !.ready = TRUE]
      /\ config' = config /\ budget' = budget /\ runs' = runs /\ trainer' = trainer /\ pc' = pc
      /\ disk' = disk /\ active' = active /\ window' = window /\ row' = row /\ batch' = batch
      /\ target' = target
  BY DEF Produce, files
<1>2. OwnBudget' = OwnBudget /\ (Down' <=> Down) /\ (MayCount(budget[1])' <=> MayCount(budget[1]))
  BY <1>1 DEF OwnBudget, Down, MayCount
<1>3. Counting'
  BY <1>1, <1>2 DEF Inv, Counting, AllBudget
<1>4. counters' = counters /\ Spending' = Spending /\ AllBudget' = AllBudget
  BY <1>1 DEF counters, Spending, AllBudget
<1>5. Saved'
  BY <1>1, FilesStay DEF Inv
<1>6. Prefetched'
  <2>1. pre = [shape |-> active, from |-> trainer.generator, ready |-> pre.ready]
    BY <1>1 DEF Inv, Prefetched
  <2> DEFINE s == active
             g == trainer.generator
             r == pre.ready
  <2>2. pre = [shape |-> s, from |-> g, ready |-> r]
    BY <2>1
  <2> HIDE DEF s, g, r
  <2>3. [pre EXCEPT !.ready = TRUE] = [shape |-> s, from |-> g, ready |-> TRUE]
    <3>1. \A v : [pre EXCEPT !.ready = v] = [shape |-> s, from |-> g, ready |-> v]
      BY <2>2, ProducedBatch
    <3> QED BY <3>1, Zenon
  <2>4. pre' = [shape |-> active, from |-> trainer.generator, ready |-> TRUE]
    BY <1>1, <2>3 DEF s, g
  <2> QED BY <1>1, <2>4 DEF Prefetched
<1>7. Timed'
  BY <1>1, <1>2, <1>4 DEF Inv, Timed, Unfinished, Closed
<1>8. Stepping'
  BY <1>1, <1>4, TrainerStays DEF Inv, Stepping, Unfinished
<1>9. Control'
  BY <1>1 DEF Inv, Control
<1> QED BY <1>3, <1>5, <1>6, <1>7, <1>8, <1>9 DEF Inv

LEMMA OpenLoopKeeps == Inv /\ OpenLoop => Inv'
<1> SUFFICES ASSUME Inv, OpenLoop PROVE Inv'
  OBVIOUS
<1>1. /\ pc = "open" /\ pc' = "loop"
      /\ pre' = IF config.prefetch THEN Submitted(active', trainer.generator) ELSE None
      /\ config' = config /\ budget' = budget /\ runs' = runs /\ trainer' = trainer
      /\ disk' = disk /\ window' = window /\ row' = row /\ target' = target
  BY DEF OpenLoop, files
<1>2. ~ Down
  BY <1>1 DEF Down
<1>3. Saved'
  BY <1>1, FilesStay DEF Inv
<1>4. Prefetched'
  BY <1>1 DEF Prefetched, Submitted
<1>5. Timed'
  BY <1>1, <1>2, QuietKeeps DEF Inv, Timed
<1>6. Stepping'
  BY <1>1, <1>2, QuietKeeps DEF Inv, Stepping
<1>7. Control'
  BY <1>1 DEF Inv, Control
<1> QED BY <1>1, <1>2, <1>3, <1>4, <1>5, <1>6, <1>7, QuietKeeps DEF Inv

\* A run that is over has taken a step: its budget and its steps are positive numbers.
LEMMA OverIsTrained ==
  ASSUME Inv, pc = "loop", counters.ordinary_step >= config.max_steps \/ Spending >= AllBudget
  PROVE  trainer.model # <<>> /\ Closed
<1>1. config \in Configs /\ ValidConfig(config) /\ AllBudget > 0 /\ Coherent(trainer)
  BY DEF Inv, Counting, Stepping, Down
<1>2. counters \in Counts /\ config.max_steps \in Int /\ config.max_steps > 0
  BY <1>1, ConfigTypes DEF Coherent, ValidConfig, counters
<1>3. AllBudget \in Int /\ Spending \in Nat
  BY <1>2, BudgetTypes, ProgressIsNat DEF Inv, Spending
<1>4. Closed
  BY <1>2, <1>3 DEF Inv, Timed, Unfinished, Counts
<1>5. trainer.model # <<>>
  <2> SUFFICES ASSUME trainer.model = <<>> PROVE FALSE
    OBVIOUS
  <2>1. counters.step = 0 /\ counters.ordinary_step = 0
    BY <1>1, <1>2 DEF Coherent, Counts, counters
  <2>2. counters.elapsed = 0
    BY <1>2, <1>4, <2>1 DEF Inv, Timed, Closed, Down, Counts
  <2>3. Run!Ordinary(<<>>) = <<>>
    <3>1. IsList(<<>>) /\ Len(<<>>) = 0
      BY DEF IsList
    <3> QED BY <1>1, <3>1, ConfigTypes, OrdinaryOfPrimer
  <2>4. Run!Areas(<<>>) = 0 /\ Run!Positioned(<<>>) = 0
    <3>1. DOMAIN [i \in DOMAIN <<>> |-> Run!Area(<<>>[i])] = {}
      OBVIOUS
    <3>2. DOMAIN [i \in DOMAIN <<>> |-> Run!Positions(<<>>[i])] = {}
      OBVIOUS
    <3> QED BY <3>1, <3>2, TotalOfNone DEF Run!Areas, Run!Positioned
  <2>5. counters.source_bytes = 0 /\ counters.flops = 0
    BY <1>1, <2>3, <2>4 DEF Coherent, counters
  <2>6. Spending = 0
    BY <2>1, <2>2, <2>5, BudgetTypes DEF Inv, Spending, Progress
  <2> QED BY <1>1, <1>2, <1>3, <2>1, <2>6
<1> QED BY <1>4, <1>5

LEMMA CloseLoopKeeps == Inv /\ CloseLoop => Inv'
<1> SUFFICES ASSUME Inv, CloseLoop PROVE Inv'
  OBVIOUS
<1>1. /\ pc = "loop" /\ pc' = "save" /\ target' = "final" /\ pre' = None
      /\ counters.ordinary_step >= config.max_steps \/ Spending >= AllBudget
      /\ config' = config /\ budget' = budget /\ runs' = runs /\ trainer' = trainer
      /\ disk' = disk /\ window' = window /\ row' = row
  BY DEF CloseLoop, files
<1>2. ~ Down
  BY <1>1 DEF Down
<1>3. trainer.model # <<>> /\ Closed
  BY <1>1, OverIsTrained
<1>4. Saved'
  BY <1>1, FilesStay DEF Inv
<1>5. Prefetched'
  BY <1>1 DEF Prefetched
<1>6. Timed'
  BY <1>1, <1>2, <1>3, QuietKeeps DEF Inv, Timed
<1>7. Stepping'
  BY <1>1, <1>2, <1>3, QuietKeeps DEF Inv, Stepping
<1>8. Control'
  BY <1>1 DEF Control
<1> QED BY <1>1, <1>2, <1>4, <1>5, <1>6, <1>7, <1>8, QuietKeeps DEF Inv

LEMMA ProfileStepKeeps == Inv /\ ProfileStep => Inv'
<1> SUFFICES ASSUME Inv, ProfileStep PROVE Inv'
  OBVIOUS
<1>1. /\ pc = "profile" /\ pc' \in {"acknowledge", "report"}
      /\ config' = config /\ budget' = budget /\ runs' = runs /\ trainer' = trainer
      /\ disk' = disk /\ active' = active /\ pre' = pre /\ window' = window /\ row' = row
      /\ batch' = batch /\ target' = target
  BY DEF ProfileStep, files
<1>2. ~ Down
  BY <1>1 DEF Down
<1>3. Saved'
  BY <1>1, FilesStay DEF Inv
<1>4. Prefetched'
  BY <1>1 DEF Inv, Prefetched
<1>5. Timed'
  BY <1>1, <1>2, QuietKeeps DEF Inv, Timed
<1>6. Stepping'
  BY <1>1, <1>2, QuietKeeps DEF Inv, Stepping
<1>7. Control'
  BY <1>1 DEF Inv, Control
<1> QED BY <1>1, <1>2, <1>3, <1>4, <1>5, <1>6, <1>7, QuietKeeps DEF Inv

LEMMA AcknowledgeKeeps == Inv /\ Acknowledge => Inv'
<1> SUFFICES ASSUME Inv, Acknowledge PROVE Inv'
  OBVIOUS
<1>1. /\ pc = "acknowledge" /\ pc' = "report"
      /\ config' = config /\ budget' = budget /\ runs' = runs /\ trainer' = trainer
      /\ disk' = disk /\ active' = active /\ pre' = pre /\ window' = window /\ row' = row
      /\ batch' = batch /\ target' = target
  BY DEF Acknowledge, files
<1>2. ~ Down
  BY <1>1 DEF Down
<1>3. Saved'
  BY <1>1, FilesStay DEF Inv
<1>4. Prefetched'
  BY <1>1 DEF Inv, Prefetched
<1>5. Timed'
  BY <1>1, <1>2, QuietKeeps DEF Inv, Timed
<1>6. Stepping'
  BY <1>1, <1>2, QuietKeeps DEF Inv, Stepping
<1>7. Control'
  BY <1>1 DEF Inv, Control
<1> QED BY <1>1, <1>2, <1>3, <1>4, <1>5, <1>6, <1>7, QuietKeeps DEF Inv

\* A step that was not due leaves a window open, and a run that goes on.
LEMMA ReportKeeps == Inv /\ Report => Inv'
<1> SUFFICES ASSUME Inv, Report PROVE Inv'
  OBVIOUS
<1>1. /\ pc = "report" /\ row' = (IF batch.due THEN counters ELSE row)
      /\ config' = config /\ budget' = budget /\ runs' = runs /\ trainer' = trainer
      /\ disk' = disk /\ active' = active /\ pre' = pre /\ window' = window
  BY DEF Report, files
<1>2. \/ batch.due /\ pc' = "save" /\ target' = "running"
      \/ pc' = "loop" /\ target' = target
  BY DEF Report
<1>3. ~ Down
  BY <1>1 DEF Down
<1>4. /\ config \in Configs /\ Coherent(trainer) /\ counters.ordinary_step > 0
      /\ batch.due => window = 0
      /\ ~ batch.due => Unfinished
  BY <1>1 DEF Inv, Counting, Stepping, Timed
<1>5. trainer.model # <<>>
  BY <1>4 DEF Coherent, Counts, counters
<1>6. batch.due => Closed'
  BY <1>1, <1>3, <1>4, QuietKeeps DEF Closed
<1>7. Saved'
  BY <1>1, FilesStay DEF Inv
<1>8. Prefetched'
  BY <1>1 DEF Inv, Prefetched
<1>9. Timed'
  BY <1>1, <1>2, <1>3, <1>4, <1>6, QuietKeeps DEF Inv, Timed
<1>10. Stepping'
  BY <1>1, <1>2, <1>3, <1>5, QuietKeeps DEF Inv, Stepping
<1>11. Control'
  BY <1>2 DEF Inv, Control
<1> QED BY <1>1, <1>3, <1>7, <1>8, <1>9, <1>10, <1>11, QuietKeeps DEF Inv

-----------------------------------------------------------------------------
(* The checkpoints.                                                        *)

LEMMA SaveBeginsKeeps == Inv /\ SaveBegins => Inv'
<1> SUFFICES ASSUME Inv, SaveBegins PROVE Inv'
  OBVIOUS
<1>1. /\ pc = "save" /\ pc' = "write" /\ disk' = [disk EXCEPT ![File] = Torn]
      /\ config' = config /\ budget' = budget /\ runs' = runs /\ trainer' = trainer
      /\ active' = active /\ pre' = pre /\ window' = window /\ row' = row /\ target' = target
  BY DEF SaveBegins, loop
<1>2. ~ Down
  BY <1>1 DEF Down
<1>3. Saved'
  <2>1. disk' = [f \in Files |-> disk'[f]] /\ \A f \in Files : disk'[f] \in {disk[f], Torn}
    BY <1>1 DEF Inv, Saved
  <2> QED BY <1>1, <2>1, ConfigStays DEF Inv, Saved
<1>4. Prefetched'
  BY <1>1 DEF Inv, Prefetched
<1>5. Timed'
  BY <1>1, <1>2, QuietKeeps DEF Inv, Timed
<1>6. Stepping'
  BY <1>1, <1>2, QuietKeeps DEF Inv, Stepping
<1>7. Control'
  BY <1>1 DEF Inv, Control
<1> QED BY <1>1, <1>2, <1>3, <1>4, <1>5, <1>6, <1>7, QuietKeeps DEF Inv

\* What is written to a file covers all of its steps.
LEMMA WrittenIsWhole == Inv /\ pc \in {"save", "write"} => Whole(trainer)
<1> SUFFICES ASSUME Inv, pc \in {"save", "write"} PROVE Whole(trainer)
  OBVIOUS
<1>1. ~ Down
  BY DEF Down
<1>2. config \in Configs /\ Settled(trainer) /\ trainer.model # <<>> /\ window = 0
      /\ counters.elapsed + window = counters.ordinary_step
  BY <1>1 DEF Inv, Counting, Stepping, Timed, Closed
<1>3. counters \in Counts
  BY <1>2 DEF Settled, Coherent, counters
<1>4. counters.elapsed = counters.ordinary_step
  BY <1>2, <1>3 DEF Counts
<1> QED BY <1>2, <1>4 DEF Whole, counters

LEMMA SaveEndsKeeps == Inv /\ SaveEnds => Inv'
<1> SUFFICES ASSUME Inv, SaveEnds PROVE Inv'
  OBVIOUS
<1>1. /\ pc = "write" /\ pc' = "sidecar" /\ disk' = [disk EXCEPT ![File] = trainer]
      /\ config' = config /\ budget' = budget /\ runs' = runs /\ trainer' = trainer
      /\ active' = active /\ pre' = pre /\ window' = window /\ row' = row /\ target' = target
  BY DEF SaveEnds, loop
<1>2. ~ Down
  BY <1>1 DEF Down
<1>3. Saved'
  <2>1. disk' = [f \in Files |-> disk'[f]] /\ \A f \in Files : disk'[f] \in {disk[f], trainer}
    BY <1>1 DEF Inv, Saved
  <2>2. Whole(trainer)
    BY <1>1, WrittenIsWhole
  <2> QED BY <1>1, <2>1, <2>2, ConfigStays DEF Inv, Saved
<1>4. Prefetched'
  BY <1>1 DEF Inv, Prefetched
<1>5. Timed'
  BY <1>1, <1>2, QuietKeeps DEF Inv, Timed
<1>6. Stepping'
  BY <1>1, <1>2, QuietKeeps DEF Inv, Stepping
<1>7. Control'
  BY <1>1 DEF Inv, Control
<1> QED BY <1>1, <1>2, <1>3, <1>4, <1>5, <1>6, <1>7, QuietKeeps DEF Inv

LEMMA SaveSidecarKeeps == Inv /\ SaveSidecar => Inv'
<1> SUFFICES ASSUME Inv, SaveSidecar PROVE Inv'
  OBVIOUS
<1>1. /\ pc = "sidecar" /\ disk' = disk /\ target' = "final"
      /\ config' = config /\ budget' = budget /\ runs' = runs /\ trainer' = trainer
      /\ active' = active /\ pre' = pre /\ window' = window /\ row' = row
  BY DEF SaveSidecar, loop
<1>2. pc' \in {"open", "loop", "done"}
  BY DEF SaveSidecar, Inv, Control
<1>3. ~ Down
  BY <1>1 DEF Down
<1>4. Saved'
  BY <1>1, FilesStay DEF Inv
<1>5. Prefetched'
  BY <1>1 DEF Inv, Prefetched
<1>6. Timed'
  BY <1>1, <1>2, <1>3, QuietKeeps DEF Inv, Timed
<1>7. Stepping'
  BY <1>1, <1>2, <1>3, QuietKeeps DEF Inv, Stepping
<1>8. Control'
  BY <1>1, <1>2 DEF Control
<1> QED BY <1>1, <1>3, <1>4, <1>5, <1>6, <1>7, <1>8, QuietKeeps DEF Inv

-----------------------------------------------------------------------------
(* The primer.                                                             *)

\* One more step of the primer: it is no ordinary one, and no generator was asked.
LEMMA TrainerAfter ==
  ASSUME NEW t, NEW u, NEW c, NEW g, NEW n, NEW m, NEW s, NEW a, NEW b,
         t = [counters |-> c, generator |-> g, noise |-> n, model |-> m, split |-> s],
         u = [t EXCEPT !.model = a, !.counters = b]
  PROVE  u = [counters |-> b, generator |-> g, noise |-> n, model |-> a, split |-> s]
  OBVIOUS

\* Two counters that change, and the ones that do not.
LEMMA CountersAfterPrimerStep ==
  ASSUME NEW c \in Counts
  PROVE  LET d == [c EXCEPT !.step = @ + 1, !.primer_step = @ + 1]
         IN  /\ d \in Counts /\ d.step = c.step + 1 /\ d.primer_step = c.primer_step + 1
             /\ d.ordinary_step = c.ordinary_step /\ d.elapsed = c.elapsed
             /\ d.source_bytes = c.source_bytes /\ d.tokens = c.tokens /\ d.flops = c.flops
<1>1. c.step + 1 \in Nat /\ c.primer_step + 1 \in Nat
  BY DEF Counts
<1>2. \A a, b \in Nat :
        LET d == [c EXCEPT !.step = a, !.primer_step = b]
        IN  /\ d \in Counts /\ d.step = a /\ d.primer_step = b
            /\ d.ordinary_step = c.ordinary_step /\ d.elapsed = c.elapsed
            /\ d.source_bytes = c.source_bytes /\ d.tokens = c.tokens /\ d.flops = c.flops
  BY DEF Counts
<1> QED BY <1>1, <1>2

LEMMA PrimerStepKeeps == Inv /\ PrimerStep => Inv'
<1> SUFFICES ASSUME Inv, PrimerStep PROVE Inv'
  OBVIOUS
<1>1. /\ pc = "primer" /\ pc' = "primer" /\ counters.primer_step < config.primer
      /\ config' = config /\ budget' = budget /\ runs' = runs /\ row' = counters'
      /\ disk' = disk /\ active' = active /\ pre' = pre /\ window' = window /\ target' = target
  BY DEF PrimerStep, files, counters
<1>2. ~ Down
  BY <1>1 DEF Down
<1>3. config \in Configs /\ Settled(trainer) /\ Coherent(trainer) /\ window = 0
      /\ counters.elapsed + window = counters.ordinary_step
  BY <1>1, <1>2 DEF Inv, Counting, Stepping, Timed, Closed
<1>4. counters \in Counts /\ config.primer \in Nat /\ counters.ordinary_step = 0
      /\ IsList(trainer.model) /\ Len(trainer.model) = counters.step
      /\ counters.step = counters.primer_step
  <2>1. counters \in Counts /\ config.primer \in Nat
    BY <1>3, ConfigTypes DEF Coherent, counters
  <2>2. counters.ordinary_step = 0
    BY <1>1, <1>3, <2>1 DEF Coherent, Counts, counters
  <2> QED BY <1>3, <2>1, <2>2 DEF Coherent, Counts, counters
<1> DEFINE c == [counters EXCEPT !.step = @ + 1, !.primer_step = @ + 1]
           s == [kind |-> "primer", batch |-> counters.primer_step + 1]
           m == Append(trainer.model, s)
<1>5. /\ c \in Counts /\ c.step = counters.step + 1
      /\ c.primer_step = counters.primer_step + 1 /\ c.ordinary_step = counters.ordinary_step
      /\ c.elapsed = counters.elapsed /\ c.source_bytes = counters.source_bytes
      /\ c.tokens = counters.tokens /\ c.flops = counters.flops
  BY <1>4, CountersAfterPrimerStep
<1>6. /\ IsList(m) /\ Len(m) = Len(trainer.model) + 1
  BY <1>4, AppendToList
<1>7. trainer' = [counters |-> c, generator |-> trainer.generator, noise |-> trainer.noise,
                  model |-> m, split |-> trainer.split]
  <2>1. trainer' = [trainer EXCEPT
          !.model = Append(@, [kind |-> "primer", batch |-> c.primer_step]), !.counters = c]
    BY DEF PrimerStep
  <2>2. trainer' = [trainer EXCEPT !.model = m, !.counters = c]
    BY <1>5, <2>1
  <2>3. trainer = [counters |-> trainer.counters, generator |-> trainer.generator,
                   noise |-> trainer.noise, model |-> trainer.model, split |-> trainer.split]
    BY <1>3 DEF Coherent
  <2> HIDE DEF c, m
  <2> QED BY <2>2, <2>3, TrainerAfter
<1> HIDE DEF c, m
<1>8. /\ trainer'.counters = c /\ trainer'.generator = trainer.generator
      /\ trainer'.noise = trainer.noise /\ trainer'.model = m /\ trainer'.split = trainer.split
  BY <1>7
<1>9. Run!Ordinary(trainer.model) = <<>> /\ Run!Ordinary(m) = <<>>
  <2>1. Len(trainer.model) <= config.primer /\ Len(m) <= config.primer
    BY <1>1, <1>4, <1>6 DEF Counts
  <2> QED BY <1>4, <1>6, <2>1, OrdinaryOfPrimer
<1> DEFINE t == trainer'
<1>10. Coherent(t)
  <2>1. t = [counters |-> t.counters, generator |-> t.generator, noise |-> t.noise,
             model |-> t.model, split |-> t.split]
    BY <1>7, <1>8
  <2>2. t.counters \in Counts /\ IsList(t.model) /\ IsList(t.generator)
    BY <1>3, <1>5, <1>6, <1>8 DEF Coherent
  <2>3. /\ Len(t.model) = t.counters.step
        /\ t.counters.step = t.counters.primer_step + t.counters.ordinary_step
        /\ t.counters.primer_step <= config.primer /\ ~ t.counters.ordinary_step > 0
    BY <1>1, <1>4, <1>5, <1>6, <1>8 DEF Counts
  <2>4. Run!Ordinary(t.model) = Run!Ordinary(trainer.model)
    BY <1>8, <1>9
  <2> HIDE DEF t
  <2>5. t.counters.source_bytes = counters.source_bytes /\ t.counters.tokens = counters.tokens
        /\ t.counters.flops = counters.flops
    BY <1>5, <1>8 DEF t
  <2>6. t.generator = trainer.generator /\ t.noise = trainer.noise /\ t.split = trainer.split
    BY <1>8 DEF t
  <2> QED BY <1>3, <2>1, <2>2, <2>3, <2>4, <2>5, <2>6 DEF Coherent, counters
<1>11. Settled(t)
  <2>1. Run!Ordinary(t.model) = Run!Ordinary(trainer.model)
    BY <1>8, <1>9
  <2>2. t.generator = trainer.generator /\ t.split = trainer.split
    BY <1>8
  <2> HIDE DEF t
  <2> QED BY <1>3, <1>10, <2>1, <2>2 DEF Settled
<1>12. Coherent(trainer)' /\ Settled(trainer)'
  BY <1>1, <1>10, <1>11, ConfigStays
<1>13. Counting'
  BY <1>1, <1>2, CountingStays
<1>14. Saved'
  BY <1>1, FilesStay DEF Inv
<1>15. Prefetched'
  BY <1>1, <1>8 DEF Inv, Prefetched
<1>16. Timed'
  <2>1. counters' = c
    BY <1>8 DEF counters
  <2>2. counters'.elapsed + window' = counters'.ordinary_step
    BY <1>1, <1>3, <1>5, <2>1
  <2> QED BY <1>1, <1>2, <1>3, <2>2 DEF Inv, Timed, Closed
<1>17. Stepping'
  BY <1>1, <1>12 DEF Stepping
<1>18. Control'
  BY <1>1 DEF Inv, Control
<1> QED BY <1>13, <1>14, <1>15, <1>16, <1>17, <1>18 DEF Inv

-----------------------------------------------------------------------------
(* The top of the loop, and the batch.                                     *)

LEMMA TrainerSplitAfter ==
  ASSUME NEW t, NEW u, NEW c, NEW g, NEW n, NEW m, NEW s, NEW a,
         t = [counters |-> c, generator |-> g, noise |-> n, model |-> m, split |-> s],
         u = [t EXCEPT !.split = a]
  PROVE  u = [counters |-> c, generator |-> g, noise |-> n, model |-> m, split |-> a]
  OBVIOUS

LEMMA TrainerDrawnAfter ==
  ASSUME NEW t, NEW u, NEW c, NEW g, NEW n, NEW m, NEW s, NEW a,
         t = [counters |-> c, generator |-> g, noise |-> n, model |-> m, split |-> s],
         u = [t EXCEPT !.generator = a]
  PROVE  u = [counters |-> c, generator |-> a, noise |-> n, model |-> m, split |-> s]
  OBVIOUS

\* The head and the generator may run ahead of the model.
LEMMA CoherentAhead ==
  ASSUME NEW t, NEW u, NEW g, NEW s \in BOOLEAN, Coherent(t),
         u = [counters |-> t.counters, generator |-> g, noise |-> t.noise,
              model |-> t.model, split |-> s],
         IsList(g), \A i \in DOMAIN g : Fits(g[i])
  PROVE  Coherent(u)
<1>1. /\ u.counters = t.counters /\ u.generator = g /\ u.noise = t.noise
      /\ u.model = t.model /\ u.split = s
  OBVIOUS
<1>2. u = [counters |-> u.counters, generator |-> u.generator, noise |-> u.noise,
           model |-> u.model, split |-> u.split]
  OBVIOUS
<1> QED BY <1>1, <1>2 DEF Coherent

LEMMA LoopTopKeeps == Inv /\ LoopTop => Inv'
<1> SUFFICES ASSUME Inv, LoopTop PROVE Inv'
  OBVIOUS
<1> DEFINE shape == ShapeAt(config, Spending, AllBudget)
           due   == HeadIsDue(config, Spending, AllBudget)
           done  == Run!Ordinary(trainer.model)
           after == trainer.split \/ due
<1>1. /\ pc = "loop" /\ pc' = "draw" /\ Unfinished
      /\ trainer' = [trainer EXCEPT !.split = after]
      /\ pre' = Reshaped(shape) /\ active' = shape
      /\ config' = config /\ budget' = budget /\ runs' = runs
      /\ disk' = disk /\ window' = window /\ row' = row /\ target' = target
  BY DEF LoopTop, files, Unfinished
<1>2. ~ Down
  BY <1>1 DEF Down
<1>3. /\ config \in Configs /\ Coherent(trainer) /\ Settled(trainer)
      /\ counters.primer_step = config.primer
      /\ counters.elapsed + window = counters.ordinary_step
  BY <1>1, <1>2 DEF Inv, Counting, Stepping, Timed
<1>4. trainer' = [counters |-> trainer.counters, generator |-> trainer.generator,
                  noise |-> trainer.noise, model |-> trainer.model, split |-> after]
  <2>1. trainer = [counters |-> trainer.counters, generator |-> trainer.generator,
                   noise |-> trainer.noise, model |-> trainer.model, split |-> trainer.split]
    BY <1>3 DEF Coherent
  <2> DEFINE a == after
  <2>2. trainer' = [trainer EXCEPT !.split = a]
    BY <1>1
  <2> HIDE DEF a
  <2>3. trainer' = [counters |-> trainer.counters, generator |-> trainer.generator,
                    noise |-> trainer.noise, model |-> trainer.model, split |-> a]
    BY <2>1, <2>2, TrainerSplitAfter
  <2> QED BY <2>3 DEF a
<1> HIDE DEF shape
<1>5. /\ trainer'.counters = trainer.counters /\ trainer'.generator = trainer.generator
      /\ trainer'.noise = trainer.noise /\ trainer'.model = trainer.model
  BY <1>4
<1>6. trainer'.split <=> after
  <2> DEFINE a == after
  <2>1. trainer' = [counters |-> trainer.counters, generator |-> trainer.generator,
                    noise |-> trainer.noise, model |-> trainer.model, split |-> a]
    BY <1>4
  <2> HIDE DEF a
  <2>2. trainer'.split = a
    BY <2>1
  <2> QED BY <2>2 DEF a
<1>7. counters' = counters /\ Spending' = Spending /\ AllBudget' = AllBudget
  BY <1>1, <1>5 DEF counters, Spending, AllBudget
<1>8. Coherent(trainer')
  <2> DEFINE t == trainer'
             a == after
  <2>1. t = [counters |-> trainer.counters, generator |-> trainer.generator,
             noise |-> trainer.noise, model |-> trainer.model, split |-> a]
    BY <1>4
  <2>2. a \in BOOLEAN
    OBVIOUS
  <2>3. IsList(trainer.generator) /\ \A i \in DOMAIN trainer.generator : Fits(trainer.generator[i])
    BY <1>3 DEF Coherent
  <2> HIDE DEF t, a
  <2>4. Coherent(t)
    BY <1>3, <2>1, <2>2, <2>3, CoherentAhead
  <2> QED BY <2>4 DEF t
<1>9. Counting'
  BY <1>1, <1>2, CountingStays
<1>10. Saved'
  BY <1>1, FilesStay DEF Inv
<1>11. Prefetched'
  BY <1>1, <1>5 DEF Inv, Prefetched, Reshaped, Submitted
<1>12. Timed'
  BY <1>1, <1>2, <1>3, <1>7 DEF Inv, Timed
<1>13. Stepping'
  <2>1. Run!Ordinary(trainer.model)' = done /\ Coherent(trainer)'
    BY <1>1, <1>5, <1>8, ConfigStays
  <2>2. Unfinished'
    BY <1>1, <1>7 DEF Unfinished
  <2>3. active' = ShapeAt(config, Spending, AllBudget)'
    BY <1>1, <1>7 DEF shape
  <2>4. trainer.split <=> Run!WasSplit(done)
    BY <1>3 DEF Settled
  <2>5. trainer'.split <=> HeadIsDue(config, Spending, AllBudget)' \/ Run!WasSplit(done)
    BY <1>1, <1>6, <1>7, <2>4
  <2>6. trainer'.generator = Run!Shapes(done)
    BY <1>3, <1>5 DEF Settled
  <2> HIDE DEF done
  <2> QED BY <1>1, <1>3, <1>7, <2>1, <2>2, <2>3, <2>5, <2>6 DEF Stepping
<1>14. Control'
  BY <1>1 DEF Inv, Control
<1> QED BY <1>9, <1>10, <1>11, <1>12, <1>13, <1>14 DEF Inv

\* However it was drawn, the batch is the next one of the generator, in the current shape.
LEMMA DrawnKeeps ==
  ASSUME Inv, pc = "draw", Drawn(active, trainer.generator), Prefetched', active' = active,
         config' = config, budget' = budget, runs' = runs, disk' = disk, window' = window,
         row' = row, target' = target
  PROVE  Inv'
<1> DEFINE done == Run!Ordinary(trainer.model)
           g    == Append(trainer.generator, active)
<1>1. /\ pc' = "train" /\ trainer' = [trainer EXCEPT !.generator = g]
      /\ batch'.drawn = trainer.generator /\ batch'.shape = active
  BY DEF Drawn
<1>2. ~ Down
  BY DEF Down
<1>3. /\ config \in Configs /\ Coherent(trainer) /\ Unfinished
      /\ counters.primer_step = config.primer
      /\ counters.elapsed + window = counters.ordinary_step
      /\ active = ShapeAt(config, Spending, AllBudget)
      /\ trainer.generator = Run!Shapes(done)
      /\ trainer.split <=> HeadIsDue(config, Spending, AllBudget) \/ Run!WasSplit(done)
  BY <1>2 DEF Inv, Counting, Stepping, Timed
<1> HIDE DEF g
<1>4. trainer' = [counters |-> trainer.counters, generator |-> g, noise |-> trainer.noise,
                  model |-> trainer.model, split |-> trainer.split]
  <2>1. trainer = [counters |-> trainer.counters, generator |-> trainer.generator,
                   noise |-> trainer.noise, model |-> trainer.model, split |-> trainer.split]
    BY <1>3 DEF Coherent
  <2> QED BY <1>1, <2>1, TrainerDrawnAfter
<1>5. /\ trainer'.counters = trainer.counters /\ trainer'.generator = g
      /\ trainer'.noise = trainer.noise /\ trainer'.model = trainer.model
      /\ trainer'.split = trainer.split
  BY <1>4
<1>6. counters' = counters /\ Spending' = Spending /\ AllBudget' = AllBudget
  BY <1>5 DEF counters, Spending, AllBudget
<1>7. Fits(active)
  <2>1. counters \in Counts /\ ValidConfig(config)
    BY <1>2, <1>3 DEF Inv, Counting, Coherent, counters
  <2>2. Spending \in Nat /\ AllBudget \in Int
    BY <2>1, BudgetTypes, ProgressIsNat DEF Inv, Spending
  <2> QED BY <1>3, <2>1, <2>2, ShapeFits
<1>8. IsList(g) /\ \A i \in DOMAIN g : Fits(g[i])
  <2>1. IsList(trainer.generator)
        /\ \A i \in DOMAIN trainer.generator : Fits(trainer.generator[i])
    BY <1>3 DEF Coherent
  <2> DEFINE f == trainer.generator
  <2> HIDE DEF f
  <2>2. g = Append(f, active) /\ IsList(f) /\ \A i \in DOMAIN f : Fits(f[i])
    BY <2>1 DEF g, f
  <2>3. /\ IsList(g) /\ Len(f) \in Nat /\ DOMAIN f = 1 .. Len(f) /\ DOMAIN g = 1 .. Len(f) + 1
        /\ \A i \in 1 .. Len(f) : g[i] = f[i]
        /\ g[Len(f) + 1] = active
    BY <2>2, AppendToList
  <2>4. \A i \in 1 .. Len(f) + 1 : i = Len(f) + 1 \/ i \in 1 .. Len(f)
    BY <2>3
  <2> QED BY <1>7, <2>2, <2>3, <2>4
<1>9. Coherent(trainer')
  <2> DEFINE t == trainer'
  <2>1. t = [counters |-> trainer.counters, generator |-> g, noise |-> trainer.noise,
             model |-> trainer.model, split |-> trainer.split]
    BY <1>4
  <2>2. trainer.split \in BOOLEAN
    BY <1>3 DEF Coherent
  <2> HIDE DEF t
  <2>3. Coherent(t)
    BY <1>3, <1>8, <2>1, <2>2, CoherentAhead
  <2> QED BY <2>3 DEF t
<1>10. Counting'
  BY <1>2, CountingStays
<1>11. Saved'
  BY FilesStay DEF Inv
<1>12. Timed'
  BY <1>1, <1>2, <1>3, <1>6 DEF Inv, Timed
<1>13. Stepping'
  <2>1. Run!Ordinary(trainer.model)' = done /\ Coherent(trainer)'
    BY <1>5, <1>9, ConfigStays
  <2>2. Unfinished'
    BY <1>3, <1>6 DEF Unfinished
  <2>3. active' = ShapeAt(config, Spending, AllBudget)'
    BY <1>3, <1>6
  <2>4. trainer'.split <=> HeadIsDue(config, Spending, AllBudget)' \/ Run!WasSplit(done)
    BY <1>3, <1>5, <1>6
  <2>5. /\ batch'.shape = active' /\ batch'.drawn = Run!Shapes(done)
        /\ trainer'.generator = Append(Run!Shapes(done), active')
    BY <1>1, <1>3, <1>5 DEF g
  <2> HIDE DEF done
  <2> QED BY <1>1, <1>3, <1>6, <2>1, <2>2, <2>3, <2>4, <2>5 DEF Stepping
<1>14. Control'
  BY <1>1 DEF Inv, Control
<1> QED BY <1>10, <1>11, <1>12, <1>13, <1>14 DEF Inv

LEMMA NextBatchKeeps == Inv /\ NextBatch => Inv'
<1> SUFFICES ASSUME Inv, NextBatch PROVE Inv'
  OBVIOUS
<1>1. /\ pc = "draw" /\ pre # None /\ Drawn(pre.shape, pre.from)
      /\ pre' = Submitted(pre.shape, trainer'.generator)
      /\ config' = config /\ budget' = budget /\ runs' = runs /\ active' = active
      /\ disk' = disk /\ window' = window /\ row' = row /\ target' = target
  BY DEF NextBatch, files
<1>2. pre.shape = active /\ pre.from = trainer.generator
  BY <1>1 DEF Inv, Prefetched
<1>3. Prefetched'
  BY <1>1, <1>2 DEF Prefetched, Submitted
<1> QED BY <1>1, <1>2, <1>3, DrawnKeeps

LEMMA SampleBatchKeeps == Inv /\ SampleBatch => Inv'
<1> SUFFICES ASSUME Inv, SampleBatch PROVE Inv'
  OBVIOUS
<1>1. /\ pc = "draw" /\ pre = None /\ pre' = pre /\ Drawn(active, trainer.generator)
      /\ config' = config /\ budget' = budget /\ runs' = runs /\ active' = active
      /\ disk' = disk /\ window' = window /\ row' = row /\ target' = target
  BY DEF SampleBatch, files
<1>2. Prefetched'
  BY <1>1 DEF Prefetched
<1> QED BY <1>1, <1>2, DrawnKeeps

-----------------------------------------------------------------------------
(* One optimizer step.                                                     *)

\* The counters are what the steps of the model have used up; device time counts only where
\* no window is open.
LEMMA SpendingIsSpent ==
  ASSUME Inv, ~ Down
  PROVE  /\ Run!Progress(budget[1], Run!Spent(trainer.model)) = Spending
         /\ Run!Spent(trainer.model).ordinary_step = counters.ordinary_step
<1> DEFINE done == Run!Ordinary(trainer.model)
           used == Run!Spent(trainer.model)
<1>1. /\ config \in Configs /\ Coherent(trainer) /\ MayCount(budget[1])
      /\ counters.elapsed + window = counters.ordinary_step
      /\ config.sync => window = 0
  BY DEF Inv, Counting, Stepping, Timed
<1>2. counters \in Counts /\ Len(done) = counters.ordinary_step
  BY <1>1, OrdinaryLength DEF counters
<1>3. counters.source_bytes = Run!Areas(done) /\ counters.flops = Run!Positioned(done)
  BY <1>1 DEF Coherent, counters
<1>4. used = [ordinary_step |-> Len(done), source_bytes |-> Run!Areas(done),
              flops |-> Run!Positioned(done), elapsed |-> Len(done)]
  BY DEF Run!Spent
<1>5. budget[1] = "gpu_seconds" => counters.elapsed = counters.ordinary_step
  BY <1>1, <1>2 DEF MayCount, Counts
<1> HIDE DEF done, used
<1>6. /\ used.ordinary_step = counters.ordinary_step /\ used.source_bytes = counters.source_bytes
      /\ used.flops = counters.flops /\ used.elapsed = counters.ordinary_step
  BY <1>2, <1>3, <1>4
<1>7. budget[1] \in {"steps", "source_bytes", "flops", "gpu_seconds"}
  BY BudgetTypes DEF Inv
<1>8. Run!Progress(budget[1], used) = Spending
  BY <1>5, <1>6, <1>7 DEF Run!Progress, Progress, Spending
<1> QED BY <1>6, <1>8 DEF used

LEMMA SameSuperposes ==
  \A c, p, t, coin : Run!Superposes(c, p, t, coin) = Superposes(c, p, t, coin)
<1>1. \A c, p, t : Run!Phase(c, p, t) = Phase(c, p, t)
  <2>1. \A p, t, f : Run!Below(p, t, f) <=> Below(p, t, f)
    BY DEF Run!Below, Below, Run!Den, Den
  <2> QED BY <2>1 DEF Run!Phase, Phase
<1> QED BY <1>1 DEF Run!Superposes, Superposes

\* A step on the batch that was drawn is the next one of the run.
LEMMA TakenIsNext ==
  ASSUME Inv, pc = "train"
  PROVE  LET fixed == config.group > 1
             superposed == fixed /\ Superposes(config, Spending, AllBudget, Coin(batch.drawn))
             soft  == IF superposed THEN 0 ELSE SoftRate(config, Spending, AllBudget)
         IN  [kind |-> "ordinary", drawn |-> batch.drawn, shape |-> batch.shape,
              superposed |-> superposed, soft |-> soft, noise |-> trainer.noise,
              split |-> trainer.split,
              rate |-> <<LearningRate(config, counters.tokens, Spending, AllBudget),
                         Multiplier(config, Spending, AllBudget)>>]
               = Run!NextStep(trainer.model)
<1> DEFINE done == Run!Ordinary(trainer.model)
           progress == Run!Progress(budget[1], Run!Spent(trainer.model))
           super == config.group > 1 /\ Superposes(config, Spending, AllBudget, Coin(batch.drawn))
           wide  == config.group > 1
                      /\ Run!Superposes(config, progress, budget[2], Coin(Run!Shapes(done)))
           split == Run!HeadIsDue(config, progress, budget[2]) \/ Run!WasSplit(done)
<1>1. ~ Down
  BY DEF Down
<1>2. progress = Spending /\ budget[2] = AllBudget
  BY <1>1, SpendingIsSpent DEF AllBudget
<1>3. /\ Coherent(trainer)
      /\ active = ShapeAt(config, Spending, AllBudget)
      /\ batch.shape = active /\ batch.drawn = Run!Shapes(done)
      /\ trainer.split <=> HeadIsDue(config, Spending, AllBudget) \/ Run!WasSplit(done)
  BY DEF Inv, Stepping
<1>4. super = wide
  <2>1. Run!Superposes(config, progress, budget[2], Coin(Run!Shapes(done)))
          = Superposes(config, Spending, AllBudget, Coin(batch.drawn))
    <3> HIDE DEF progress, done
    <3> QED BY <1>2, <1>3, SameSuperposes
  <2> QED BY <2>1, Zenon
<1>5. trainer.split = split
  <2>1. trainer.split \in BOOLEAN
    BY <1>3 DEF Coherent
  <2>2. trainer.split <=> split
    <3> HIDE DEF progress, done
    <3> QED BY <1>2, <1>3, SameSchedules
  <2>3. split \in BOOLEAN
    OBVIOUS
  <2> HIDE DEF split
  <2> QED BY <2>1, <2>2, <2>3
<1>6. /\ batch.shape = Run!ShapeAt(config, progress, budget[2])
      /\ SoftRate(config, Spending, AllBudget) = Run!SoftRate(config, progress, budget[2])
      /\ Multiplier(config, Spending, AllBudget) = Run!Multiplier(config, progress, budget[2])
      /\ LearningRate(config, counters.tokens, Spending, AllBudget)
           = Run!LearningRate(config, Run!Areas(done), progress, budget[2])
  <2>1. counters.tokens = Run!Areas(done)
    BY <1>3 DEF Coherent, counters
  <2> HIDE DEF progress, done
  <2> QED BY <1>2, <1>3, <2>1, SameSchedules
<1>7. trainer.noise = Run!Cardinality(Run!Softened(done)) /\ batch.drawn = Run!Shapes(done)
  BY <1>3, SameCardinality DEF Coherent
<1>8. Run!NextStep(trainer.model)
        = [kind |-> "ordinary", drawn |-> Run!Shapes(done),
           shape |-> Run!ShapeAt(config, progress, budget[2]),
           superposed |-> wide,
           soft |-> IF wide THEN 0 ELSE Run!SoftRate(config, progress, budget[2]),
           noise |-> Run!Cardinality(Run!Softened(done)),
           split |-> split,
           rate |-> <<Run!LearningRate(config, Run!Areas(done), progress, budget[2]),
                      Run!Multiplier(config, progress, budget[2])>>]
  BY DEF Run!NextStep
<1> HIDE DEF done, progress, super, wide, split
<1>9. [kind |-> "ordinary", drawn |-> batch.drawn, shape |-> batch.shape,
       superposed |-> super, soft |-> IF super THEN 0 ELSE SoftRate(config, Spending, AllBudget),
       noise |-> trainer.noise, split |-> trainer.split,
       rate |-> <<LearningRate(config, counters.tokens, Spending, AllBudget),
                  Multiplier(config, Spending, AllBudget)>>]
        = Run!NextStep(trainer.model)
  BY <1>4, <1>5, <1>6, <1>7, <1>8
<1> QED BY <1>9 DEF super

\* Only the time changes.
LEMMA CountersAfterTime ==
  ASSUME NEW n \in Counts, NEW e \in Nat
  PROVE  LET d == [n EXCEPT !.elapsed = e]
         IN  /\ d \in Counts /\ d.elapsed = e /\ d.step = n.step
             /\ d.ordinary_step = n.ordinary_step /\ d.source_bytes = n.source_bytes
             /\ d.tokens = n.tokens /\ d.flops = n.flops /\ d.primer_step = n.primer_step
  BY DEF Counts

LEMMA TrainerTrainedAfter ==
  ASSUME NEW t, NEW u, NEW c, NEW g, NEW n, NEW m, NEW s, NEW a, NEW k, NEW b,
         t = [counters |-> c, generator |-> g, noise |-> n, model |-> m, split |-> s],
         u = [t EXCEPT !.model = a, !.noise = k, !.counters = b]
  PROVE  u = [counters |-> b, generator |-> g, noise |-> k, model |-> a, split |-> s]
  OBVIOUS

\* The counters after the step, in terms of the step that was taken.
LEMMA CountedIsTaken ==
  ASSUME config \in Configs, counters \in Counts, NEW s, s.shape = batch.shape,
         Fits(s.shape), active = batch.shape, NEW width,
         width = (IF s.superposed THEN batch.shape.context \div config.group - 1
                  ELSE batch.shape.context)
  PROVE  LET n == Counted(batch.shape.batch * width)
         IN  /\ n \in Counts
             /\ n.step = counters.step + 1 /\ n.ordinary_step = counters.ordinary_step + 1
             /\ n.source_bytes = counters.source_bytes + Run!Area(s)
             /\ n.tokens = counters.tokens + Run!Area(s)
             /\ n.flops = counters.flops + Run!Positions(s)
             /\ n.primer_step = counters.primer_step /\ n.elapsed = counters.elapsed
<1> DEFINE area == batch.shape.batch * (batch.shape.context + 1)
           pos  == batch.shape.batch * width
<1>1. Run!Area(s) = area /\ area \in Nat
  BY StepCosts DEF Run!Area
<1>2. Run!Positions(s) = pos /\ pos \in Nat
  <2>1. Run!Positions(s) = pos
    BY DEF Run!Positions
  <2> QED BY <2>1, StepCosts
<1>3. active.batch \in Nat
  BY DEF Fits
<1>4. Counted(pos)
        = [counters EXCEPT
             !.step = counters.step + 1, !.ordinary_step = counters.ordinary_step + 1,
             !.examples = counters.examples + active.batch,
             !.source_bytes = counters.source_bytes + area,
             !.tokens = counters.tokens + area, !.flops = counters.flops + pos]
  BY DEF Counted
<1> HIDE DEF area, pos
<1>5. /\ counters.step + 1 \in Nat /\ counters.ordinary_step + 1 \in Nat
      /\ counters.examples + active.batch \in Nat /\ counters.source_bytes + area \in Nat
      /\ counters.tokens + area \in Nat /\ counters.flops + pos \in Nat
  BY <1>1, <1>2, <1>3 DEF Counts
<1> DEFINE n  == Counted(pos)
           c  == counters
           c1 == counters.step + 1
           c2 == counters.ordinary_step + 1
           c3 == counters.examples + active.batch
           c4 == counters.source_bytes + area
           c5 == counters.tokens + area
           c6 == counters.flops + pos
<1>6. /\ n \in Counts
      /\ n.step = counters.step + 1 /\ n.ordinary_step = counters.ordinary_step + 1
      /\ n.source_bytes = counters.source_bytes + area
      /\ n.tokens = counters.tokens + area
      /\ n.flops = counters.flops + pos
      /\ n.primer_step = counters.primer_step /\ n.elapsed = counters.elapsed
  <2>1. n = [c EXCEPT !.step = c1, !.ordinary_step = c2, !.examples = c3, !.source_bytes = c4,
                      !.tokens = c5, !.flops = c6]
    BY <1>4
  <2>2. /\ c \in Counts
        /\ c1 \in Nat /\ c2 \in Nat /\ c3 \in Nat /\ c4 \in Nat /\ c5 \in Nat /\ c6 \in Nat
    BY <1>5
  <2> HIDE DEF n, c, c1, c2, c3, c4, c5, c6
  <2>3. /\ n \in Counts /\ n.step = c1 /\ n.ordinary_step = c2 /\ n.source_bytes = c4
        /\ n.tokens = c5 /\ n.flops = c6
        /\ n.primer_step = c.primer_step /\ n.elapsed = c.elapsed
    BY <2>1, <2>2 DEF Counts
  <2> QED BY <2>3 DEF c, c1, c2, c4, c5, c6
<1> HIDE DEF n
<1>7. /\ n \in Counts
      /\ n.step = counters.step + 1 /\ n.ordinary_step = counters.ordinary_step + 1
      /\ n.source_bytes = counters.source_bytes + Run!Area(s)
      /\ n.tokens = counters.tokens + Run!Area(s)
      /\ n.flops = counters.flops + Run!Positions(s)
      /\ n.primer_step = counters.primer_step /\ n.elapsed = counters.elapsed
  BY <1>1, <1>2, <1>6
<1> QED BY <1>7 DEF n, pos

\* The trainer after a step is that of the longer run.
LEMMA LongerIsSettled ==
  ASSUME NEW t, Coherent(t), config \in Configs, NEW s, NEW c, NEW k, NEW u,
         t.counters.primer_step = config.primer,
         t.counters.ordinary_step < config.max_steps,
         Fits(s.shape), s.split = t.split,
         t.generator = Append(Run!Shapes(Run!Ordinary(t.model)), s.shape),
         u = [counters |-> c, generator |-> t.generator, noise |-> k,
              model |-> Append(t.model, s), split |-> t.split],
         k = (IF s.soft # 0 THEN t.noise + 1 ELSE t.noise),
         c \in Counts,
         c.step = t.counters.step + 1, c.ordinary_step = t.counters.ordinary_step + 1,
         c.source_bytes = t.counters.source_bytes + Run!Area(s),
         c.tokens = t.counters.tokens + Run!Area(s),
         c.flops = t.counters.flops + Run!Positions(s),
         c.primer_step = t.counters.primer_step
  PROVE  Settled(u)
<1> DEFINE done == Run!Ordinary(t.model)
           more == Run!Ordinary(u.model)
<1>1. /\ u.counters = c /\ u.generator = t.generator /\ u.noise = k
      /\ u.model = Append(t.model, s) /\ u.split = t.split
  OBVIOUS
<1>2. u = [counters |-> u.counters, generator |-> u.generator, noise |-> u.noise,
           model |-> u.model, split |-> u.split]
  OBVIOUS
<1>3. /\ IsList(t.model) /\ Len(t.model) = t.counters.step /\ t.counters \in Counts
      /\ t.counters.step = config.primer + t.counters.ordinary_step
      /\ t.counters.source_bytes = Run!Areas(done) /\ t.counters.tokens = Run!Areas(done)
      /\ t.counters.flops = Run!Positioned(done)
      /\ \A i \in DOMAIN done : Fits(done[i].shape)
      /\ IsList(t.generator) /\ \A i \in DOMAIN t.generator : Fits(t.generator[i])
      /\ t.noise = Cardinality(Run!Softened(done)) /\ t.split \in BOOLEAN
  BY DEF Coherent
<1>4. /\ config.primer \in Nat /\ config.max_steps \in Int
      /\ t.counters.ordinary_step \in Nat /\ Len(t.model) >= config.primer
  <2>1. config.primer \in Nat /\ config.max_steps \in Int
    BY ConfigTypes
  <2>2. t.counters.ordinary_step \in Nat
    BY <1>3 DEF Counts
  <2> DEFINE o == t.counters.ordinary_step
             l == Len(t.model)
             p == config.primer
  <2>3. l = p + o /\ o \in Nat /\ p \in Nat
    BY <1>3, <2>1, <2>2
  <2> HIDE DEF o, l, p
  <2>4. l >= p
    BY <2>3
  <2> QED BY <2>1, <2>2, <2>4 DEF l, p
<1>5. /\ more = Append(done, s) /\ IsList(done)
  BY <1>1, <1>3, <1>4, OrdinaryOfAppend
<1>6. /\ IsList(u.model) /\ Len(u.model) = t.counters.step + 1
  BY <1>1, <1>3, AppendToList
<1> HIDE DEF done, more
<1>7. /\ Run!Areas(more) = Run!Areas(done) + Run!Area(s)
      /\ Run!Positioned(more) = Run!Positioned(done) + Run!Positions(s)
  <2>1. \A i \in DOMAIN done : Run!Area(done[i]) \in Nat /\ Run!Positions(done[i]) \in Nat
    BY <1>3, StepCosts
  <2>2. Run!Area(s) \in Nat /\ Run!Positions(s) \in Nat
    BY StepCosts
  <2> QED BY <1>5, <2>1, <2>2, AreasOfAppend, PositionsOfAppend
<1>8. /\ Run!Shapes(more) = Append(Run!Shapes(done), s.shape)
      /\ Run!WasSplit(more) <=> s.split
  BY <1>5, ShapesOfAppend
<1>9. Cardinality(Run!Softened(more)) = k
  <2>1. /\ Cardinality(Run!Softened(done)) \in Nat
        /\ Cardinality(Run!Softened(more))
             = Cardinality(Run!Softened(done)) + IF s.soft # 0 THEN 1 ELSE 0
    BY <1>5, SoftenedOfAppend
  <2> DEFINE j == Cardinality(Run!Softened(done))
  <2> HIDE DEF j
  <2>2. j \in Nat /\ Cardinality(Run!Softened(more)) = j + (IF s.soft # 0 THEN 1 ELSE 0)
        /\ t.noise = j
    BY <1>3, <2>1 DEF j
  <2> QED BY <2>2
<1>10. \A i \in DOMAIN more : Fits(more[i].shape)
  <2>1. /\ Len(done) \in Nat /\ DOMAIN done = 1 .. Len(done)
        /\ DOMAIN more = 1 .. Len(done) + 1
        /\ \A i \in 1 .. Len(done) : more[i] = done[i]
        /\ more[Len(done) + 1] = s
    BY <1>5, AppendToList
  <2>2. \A i \in 1 .. Len(done) + 1 : i = Len(done) + 1 \/ i \in 1 .. Len(done)
    BY <2>1
  <2> QED BY <1>3, <2>1, <2>2
<1>11. Coherent(u)
  <2>1. /\ u.counters.step = u.counters.primer_step + u.counters.ordinary_step
        /\ u.counters.primer_step = config.primer
        /\ u.counters.primer_step <= config.primer
        /\ u.counters.ordinary_step <= config.max_steps
    <3> DEFINE o == t.counters.ordinary_step
               p == config.primer
               m == config.max_steps
    <3>1. /\ o \in Nat /\ p \in Nat /\ m \in Int /\ o < m
          /\ c.step = (p + o) + 1 /\ c.ordinary_step = o + 1 /\ c.primer_step = p
      BY <1>3, <1>4
    <3> HIDE DEF o, p, m
    <3>2. c.step = c.primer_step + c.ordinary_step /\ c.primer_step = p /\ c.primer_step <= p
          /\ c.ordinary_step <= m
      BY <3>1
    <3> QED BY <1>1, <3>2 DEF p, m
  <2>2. Len(u.model) = u.counters.step
    BY <1>1, <1>6
  <2>3. /\ u.counters.source_bytes = Run!Areas(more) /\ u.counters.tokens = Run!Areas(more)
        /\ u.counters.flops = Run!Positioned(more)
    BY <1>1, <1>3, <1>7
  <2>4. /\ u.counters \in Counts /\ IsList(u.model) /\ IsList(u.generator)
        /\ \A i \in DOMAIN u.generator : Fits(u.generator[i])
        /\ u.noise = Cardinality(Run!Softened(more)) /\ u.split \in BOOLEAN
    BY <1>1, <1>3, <1>6, <1>9
  <2> QED BY <1>2, <1>10, <2>1, <2>2, <2>3, <2>4 DEF Coherent, more
<1>12. u.generator = Run!Shapes(more) /\ (u.split <=> Run!WasSplit(more))
  BY <1>1, <1>8 DEF done
<1> QED BY <1>11, <1>12 DEF Settled, more

\* What the whole step does: it takes the next step of the run, and counts it.
LEMMA TrainStepTakes ==
  ASSUME Inv, TrainStep
  PROVE  \E s, n, due, time :
           /\ s = Run!NextStep(trainer.model)
           /\ s.shape = batch.shape /\ s.split = trainer.split
           /\ n \in Counts
           /\ n.step = counters.step + 1 /\ n.ordinary_step = counters.ordinary_step + 1
           /\ n.source_bytes = counters.source_bytes + Run!Area(s)
           /\ n.tokens = counters.tokens + Run!Area(s)
           /\ n.flops = counters.flops + Run!Positions(s)
           /\ n.primer_step = counters.primer_step /\ n.elapsed = counters.elapsed
           /\ due \in BOOLEAN
           /\ config.sync => due
           /\ ~ due => window + 1 < config.telemetry_interval /\ ~ TerminalDue(n)
           /\ time = (IF config.sync THEN 1 ELSE IF due THEN window + 1 ELSE 0)
           /\ trainer' = [counters |-> [n EXCEPT !.elapsed = n.elapsed + time],
                          generator |-> trainer.generator,
                          noise |-> IF s.soft # 0 THEN trainer.noise + 1 ELSE trainer.noise,
                          model |-> Append(trainer.model, s), split |-> trainer.split]
           /\ window' = IF due THEN 0 ELSE window + 1
           /\ batch' = [due |-> due]
<1> DEFINE fixed == config.group > 1
           superposed == fixed /\ Superposes(config, Spending, AllBudget, Coin(batch.drawn))
           phase == IF fixed THEN Phase(config, Spending, AllBudget) ELSE "ordinary"
           soft  == IF superposed THEN 0 ELSE SoftRate(config, Spending, AllBudget)
           width == IF superposed THEN batch.shape.context \div config.group - 1
                    ELSE batch.shape.context
           n     == Counted(batch.shape.batch * width)
           due   == TelemetryDue(n, phase)
           time  == IF config.sync THEN 1 ELSE IF due THEN window + 1 ELSE 0
           timed == [n EXCEPT !.elapsed = @ + time]
           taken == [kind |-> "ordinary", drawn |-> batch.drawn, shape |-> batch.shape,
                     superposed |-> superposed, soft |-> soft, noise |-> trainer.noise,
                     split |-> trainer.split,
                     rate |-> <<LearningRate(config, counters.tokens, Spending, AllBudget),
                                Multiplier(config, Spending, AllBudget)>>]
           noise == IF soft # 0 THEN trainer.noise + 1 ELSE trainer.noise
           model == Append(trainer.model, taken)
<1>1. /\ pc = "train"
      /\ trainer' = [trainer EXCEPT !.model = model, !.noise = noise, !.counters = timed]
      /\ window' = (IF due THEN 0 ELSE window + 1)
      /\ batch' = [due |-> due]
  BY DEF TrainStep
<1>2. taken = Run!NextStep(trainer.model)
  BY <1>1, TakenIsNext
<1>3. /\ config \in Configs /\ Coherent(trainer) /\ counters \in Counts
      /\ batch.shape = active /\ Fits(active)
  <2>1. /\ config \in Configs /\ Coherent(trainer) /\ batch.shape = active
        /\ active = ShapeAt(config, Spending, AllBudget) /\ ValidConfig(config)
    BY <1>1 DEF Inv, Counting, Stepping, Down
  <2>2. counters \in Counts
    BY <2>1 DEF Coherent, counters
  <2>3. Spending \in Nat /\ AllBudget \in Int
    BY <2>2, BudgetTypes, ProgressIsNat DEF Inv, Spending
  <2> QED BY <2>1, <2>2, <2>3, ShapeFits
<1>4. /\ taken.shape = batch.shape /\ taken.split = trainer.split
      /\ taken.soft = soft
      /\ width = IF taken.superposed THEN batch.shape.context \div config.group - 1
                 ELSE batch.shape.context
  <2> DEFINE super == superposed
             rates == <<LearningRate(config, counters.tokens, Spending, AllBudget),
                        Multiplier(config, Spending, AllBudget)>>
  <2> HIDE DEF superposed, soft
  <2>1. /\ taken.shape = batch.shape /\ taken.split = trainer.split /\ taken.soft = soft
        /\ taken.superposed = superposed
    OBVIOUS
  <2> QED BY <2>1 DEF width
<1> HIDE DEF superposed, soft, taken, width
<1>5. /\ n \in Counts
      /\ n.step = counters.step + 1 /\ n.ordinary_step = counters.ordinary_step + 1
      /\ n.source_bytes = counters.source_bytes + Run!Area(taken)
      /\ n.tokens = counters.tokens + Run!Area(taken)
      /\ n.flops = counters.flops + Run!Positions(taken)
      /\ n.primer_step = counters.primer_step /\ n.elapsed = counters.elapsed
  BY <1>3, <1>4, CountedIsTaken
<1> HIDE DEF n
<1>6. /\ due \in BOOLEAN /\ (config.sync => due)
      /\ ~ due => ~ (window + 1 >= config.telemetry_interval) /\ ~ TerminalDue(n)
  BY DEF TelemetryDue
<1> HIDE DEF due
<1>7. ~ due => window + 1 < config.telemetry_interval
  <2>1. window \in Int /\ config.telemetry_interval \in Int
    BY <1>3, ConfigTypes DEF Inv, Timed
  <2> QED BY <1>6, <2>1
<1> HIDE DEF time
<1>8. trainer' = [counters |-> timed, generator |-> trainer.generator, noise |-> noise,
                  model |-> model, split |-> trainer.split]
  <2>1. trainer = [counters |-> trainer.counters, generator |-> trainer.generator,
                   noise |-> trainer.noise, model |-> trainer.model, split |-> trainer.split]
    BY <1>3 DEF Coherent
  <2> HIDE DEF timed, noise, model
  <2> QED BY <1>1, <2>1, TrainerTrainedAfter
<1>9. /\ noise = (IF taken.soft # 0 THEN trainer.noise + 1 ELSE trainer.noise)
      /\ model = Append(trainer.model, taken)
      /\ timed = [n EXCEPT !.elapsed = n.elapsed + time]
  BY <1>4
<1> HIDE DEF noise, model, timed
<1>10. trainer' = [counters |-> [n EXCEPT !.elapsed = n.elapsed + time],
                   generator |-> trainer.generator,
                   noise |-> IF taken.soft # 0 THEN trainer.noise + 1 ELSE trainer.noise,
                   model |-> Append(trainer.model, taken), split |-> trainer.split]
  BY <1>8, <1>9
<1>11. time = (IF config.sync THEN 1 ELSE IF due THEN window + 1 ELSE 0)
  BY DEF time
<1> WITNESS taken, n, due, time
<1> QED BY <1>1, <1>2, <1>4, <1>5, <1>6, <1>7, <1>10, <1>11

LEMMA TrainStepKeeps == Inv /\ TrainStep => Inv'
<1> SUFFICES ASSUME Inv, TrainStep PROVE Inv'
  OBVIOUS
<1>1. PICK s, n, due, time :
           /\ s = Run!NextStep(trainer.model)
           /\ s.shape = batch.shape /\ s.split = trainer.split
           /\ n \in Counts
           /\ n.step = counters.step + 1 /\ n.ordinary_step = counters.ordinary_step + 1
           /\ n.source_bytes = counters.source_bytes + Run!Area(s)
           /\ n.tokens = counters.tokens + Run!Area(s)
           /\ n.flops = counters.flops + Run!Positions(s)
           /\ n.primer_step = counters.primer_step /\ n.elapsed = counters.elapsed
           /\ due \in BOOLEAN
           /\ config.sync => due
           /\ ~ due => window + 1 < config.telemetry_interval /\ ~ TerminalDue(n)
           /\ time = (IF config.sync THEN 1 ELSE IF due THEN window + 1 ELSE 0)
           /\ trainer' = [counters |-> [n EXCEPT !.elapsed = n.elapsed + time],
                          generator |-> trainer.generator,
                          noise |-> IF s.soft # 0 THEN trainer.noise + 1 ELSE trainer.noise,
                          model |-> Append(trainer.model, s), split |-> trainer.split]
           /\ window' = IF due THEN 0 ELSE window + 1
           /\ batch' = [due |-> due]
  BY TrainStepTakes
<1>2. /\ pc = "train" /\ pc' = "profile"
      /\ config' = config /\ budget' = budget /\ runs' = runs /\ active' = active /\ pre' = pre
      /\ disk' = disk /\ row' = row /\ target' = target
  BY DEF TrainStep, files
<1>3. ~ Down
  BY <1>2 DEF Down
<1>4. /\ config \in Configs /\ Coherent(trainer) /\ counters \in Counts /\ Unfinished
      /\ counters.primer_step = config.primer
      /\ counters.elapsed + window = counters.ordinary_step
      /\ config.sync => window = 0
      /\ window \in Nat /\ config.telemetry_interval \in Nat \ {0}
      /\ config.max_steps \in Int
      /\ batch.shape = active
      /\ trainer.generator = Append(Run!Shapes(Run!Ordinary(trainer.model)), active)
  BY <1>2, <1>3, ConfigTypes DEF Inv, Counting, Stepping, Timed, Coherent, counters
<1>5. /\ AllBudget \in Int /\ budget[1] \in {"steps", "source_bytes", "flops", "gpu_seconds"}
      /\ Spending \in Nat /\ Fits(s.shape)
  <2>1. AllBudget \in Int /\ budget[1] \in {"steps", "source_bytes", "flops", "gpu_seconds"}
    BY BudgetTypes DEF Inv
  <2>2. Spending \in Nat
    BY <1>4, <2>1, ProgressIsNat DEF Spending
  <2>3. ValidConfig(config) /\ active = ShapeAt(config, Spending, AllBudget)
    BY <1>2, <1>3 DEF Inv, Counting, Stepping
  <2> QED BY <1>1, <1>4, <2>1, <2>2, <2>3, ShapeFits
<1>6. time \in Nat
  BY <1>1, <1>4
<1> DEFINE c == [n EXCEPT !.elapsed = n.elapsed + time]
           k == IF s.soft # 0 THEN trainer.noise + 1 ELSE trainer.noise
<1>7. /\ c \in Counts /\ c.elapsed = n.elapsed + time /\ c.step = n.step
      /\ c.ordinary_step = n.ordinary_step /\ c.source_bytes = n.source_bytes
      /\ c.tokens = n.tokens /\ c.flops = n.flops /\ c.primer_step = n.primer_step
  <2>1. n.elapsed + time \in Nat
    BY <1>1, <1>6 DEF Counts
  <2> QED BY <1>1, <2>1, CountersAfterTime
<1> HIDE DEF c
<1>8. trainer' = [counters |-> c, generator |-> trainer.generator, noise |-> k,
                  model |-> Append(trainer.model, s), split |-> trainer.split]
  BY <1>1 DEF c
<1> HIDE DEF k
<1>9. trainer'.counters = c /\ trainer'.generator = trainer.generator
  BY <1>8
<1>10. Settled(trainer')
  <2> DEFINE u == trainer'
             t == trainer
  <2>1. u = [counters |-> c, generator |-> t.generator, noise |-> k,
             model |-> Append(t.model, s), split |-> t.split]
    BY <1>8
  <2>2. /\ t.counters.primer_step = config.primer
        /\ t.counters.ordinary_step < config.max_steps
        /\ s.split = t.split
        /\ t.generator = Append(Run!Shapes(Run!Ordinary(t.model)), s.shape)
        /\ Coherent(t)
    BY <1>1, <1>4 DEF Unfinished, counters
  <2>3. k = (IF s.soft # 0 THEN t.noise + 1 ELSE t.noise)
    BY DEF k
  <2>4. /\ c.step = t.counters.step + 1 /\ c.ordinary_step = t.counters.ordinary_step + 1
        /\ c.source_bytes = t.counters.source_bytes + Run!Area(s)
        /\ c.tokens = t.counters.tokens + Run!Area(s)
        /\ c.flops = t.counters.flops + Run!Positions(s)
        /\ c.primer_step = t.counters.primer_step
    BY <1>1, <1>7 DEF counters
  <2> HIDE DEF t, u
  <2>5. Settled(u)
    BY <1>4, <1>5, <1>7, <2>1, <2>2, <2>3, <2>4, LongerIsSettled
  <2> QED BY <2>5 DEF u
<1>11. counters' = c /\ AllBudget' = AllBudget /\ Spending' = Progress(budget[1], c)
  BY <1>2, <1>9 DEF counters, AllBudget, Spending
<1>12. Counting'
  BY <1>2, <1>3, CountingStays
<1>13. Saved'
  BY <1>2, FilesStay DEF Inv
<1>14. Prefetched'
  BY <1>2, <1>9 DEF Inv, Prefetched
<1>15. Timed'
  <2>1. window' \in 0 .. config.telemetry_interval
    BY <1>1, <1>4
  <2>2. c.elapsed + window' = c.ordinary_step
    <3> DEFINE e == counters.elapsed
               o == counters.ordinary_step
    <3>1. /\ e \in Nat /\ o \in Nat /\ e + window = o
          /\ c.elapsed = e + time /\ c.ordinary_step = o + 1
      BY <1>1, <1>4, <1>7 DEF Counts
    <3> HIDE DEF e, o
    <3>2. CASE config.sync
      BY <1>1, <1>4, <3>1, <3>2
    <3>3. CASE ~ config.sync
      BY <1>1, <1>4, <3>1, <3>3
    <3> QED BY <3>2, <3>3
  <2>3. config.sync => window' = 0
    BY <1>1
  <2>4. c.ordinary_step > 0
    <3>1. c.ordinary_step = counters.ordinary_step + 1
      BY <1>1, <1>7
    <3>2. counters.ordinary_step \in Nat
      BY <1>4 DEF Counts
    <3> QED BY <3>1, <3>2
  <2>5. batch.due' <=> due
    BY <1>1
  <2>6. due => window' = 0
    BY <1>1
  <2>7. ~ due => Unfinished'
    <3> SUFFICES ASSUME ~ due PROVE Unfinished'
      OBVIOUS
    <3>1. time = 0 /\ ~ TerminalDue(n)
      BY <1>1
    <3>2. c.elapsed = n.elapsed
      BY <1>1, <1>7, <3>1 DEF Counts
    <3>3. Progress(budget[1], c) = Progress(budget[1], n)
      BY <1>5, <1>7, <3>2 DEF Progress
    <3>4. Progress(budget[1], n) \in Nat /\ n.ordinary_step \in Nat
      BY <1>1, <1>5, ProgressIsNat DEF Counts
    <3>5. n.ordinary_step < config.max_steps /\ Progress(budget[1], n) < AllBudget
      BY <1>4, <1>5, <3>1, <3>4 DEF TerminalDue
    <3> QED BY <1>2, <1>7, <1>11, <3>3, <3>5 DEF Unfinished
  <2> QED BY <1>2, <1>11, <2>1, <2>2, <2>3, <2>4, <2>5, <2>6, <2>7 DEF Timed
<1>16. Stepping'
  <2>1. Settled(trainer)' /\ Coherent(trainer)'
    BY <1>2, <1>10, ConfigStays DEF Settled
  <2>2. counters'.primer_step = config.primer
    BY <1>1, <1>4, <1>7, <1>11
  <2> QED BY <1>2, <2>1, <2>2 DEF Stepping
<1>17. Control'
  BY <1>2 DEF Inv, Control
<1> QED BY <1>12, <1>13, <1>14, <1>15, <1>16, <1>17 DEF Inv

-----------------------------------------------------------------------------
(* The theorems.                                                           *)

LEMMA InitIsSound == Init => Inv
<1> SUFFICES ASSUME Init PROVE Inv
  OBVIOUS
<1>1. /\ config \in Configs /\ pc = "down" /\ runs = 0 /\ budget = OwnBudget
      /\ trainer = Fresh /\ pre = None /\ window = 0 /\ row = None /\ target = "final"
      /\ disk = [f \in Files |-> None]
  BY DEF Init
<1>2. Settled(trainer) /\ Coherent(trainer)
  BY <1>1, FreshSettled DEF Settled
<1>3. Counting
  BY <1>1, ConfigAssumption DEF Counting, Down
<1>4. Saved
  BY <1>1 DEF Saved
<1>5. Prefetched
  BY <1>1 DEF Prefetched
<1>6. Timed
  BY <1>1, ConfigTypes DEF Timed, Down
<1>7. Stepping
  BY <1>1, <1>2 DEF Stepping
<1>8. Control
  BY <1>1 DEF Control
<1> QED BY <1>3, <1>4, <1>5, <1>6, <1>7, <1>8 DEF Inv

LEMMA StutterKeeps == Inv /\ UNCHANGED vars => Inv'
<1> SUFFICES ASSUME Inv, UNCHANGED vars PROVE Inv'
  OBVIOUS
<1>1. /\ config' = config /\ budget' = budget /\ runs' = runs /\ trainer' = trainer /\ pc' = pc
      /\ disk' = disk /\ active' = active /\ pre' = pre /\ window' = window /\ row' = row
      /\ batch' = batch /\ target' = target
  BY DEF vars, loop, files
<1>2. OwnBudget' = OwnBudget /\ (Down' <=> Down) /\ (MayCount(budget[1])' <=> MayCount(budget[1]))
  BY <1>1 DEF OwnBudget, Down, MayCount
<1>3. Counting'
  BY <1>1, <1>2 DEF Inv, Counting, AllBudget
<1>4. counters' = counters /\ Spending' = Spending /\ AllBudget' = AllBudget
  BY <1>1 DEF counters, Spending, AllBudget
<1>5. Saved'
  BY <1>1, FilesStay DEF Inv
<1>6. Prefetched'
  BY <1>1 DEF Inv, Prefetched
<1>7. Timed'
  BY <1>1, <1>2, <1>4 DEF Inv, Timed, Unfinished, Closed
<1>8. Stepping'
  BY <1>1, <1>4, TrainerStays DEF Inv, Stepping, Unfinished
<1>9. Control'
  BY <1>1 DEF Inv, Control
<1> QED BY <1>3, <1>5, <1>6, <1>7, <1>8, <1>9 DEF Inv

\* The inductive invariant: in every state, the counters and the generators are those of
\* the steps the model has seen, whatever was killed and resumed.
THEOREM TrainerInductive == Spec => []Inv
<1>1. Inv /\ [Next]_vars => Inv'
  <2> SUFFICES ASSUME Inv, [Next]_vars PROVE Inv'
    OBVIOUS
  <2>1. CASE Start
    BY <2>1, StartKeeps
  <2>2. CASE Resume
    BY <2>2, ResumeKeeps
  <2>3. CASE Crash
    BY <2>3, CrashKeeps
  <2>4. CASE Produce
    BY <2>4, ProduceKeeps
  <2>5. CASE Acknowledge
    BY <2>5, AcknowledgeKeeps
  <2>6. CASE Step
    BY <2>6, PrimerStepKeeps, PrimerEndsKeeps, OpenLoopKeeps, CloseLoopKeeps, LoopTopKeeps,
       NextBatchKeeps, SampleBatchKeeps, TrainStepKeeps, ProfileStepKeeps, ReportKeeps,
       SaveBeginsKeeps, SaveEndsKeeps, SaveSidecarKeeps DEF Step
  <2>7. CASE Finished \/ UNCHANGED vars
    BY <2>7, StutterKeeps DEF Finished
  <2> QED BY <2>1, <2>2, <2>3, <2>4, <2>5, <2>6, <2>7 DEF Next
<1> QED BY <1>1, InitIsSound, PTL DEF Spec

\* The counters, the files and the prefetcher keep their types, no run exceeds its steps, and
\* every batch it draws fits the model and splits into whole groups.
THEOREM TypeCorrect == Spec => []TypeOK
<1>1. Inv => TypeOK
  <2> SUFFICES ASSUME Inv PROVE TypeOK
    OBVIOUS
  <2>1. \A t : Coherent(t) =>
          /\ t.counters \in Counts
          /\ t.counters.ordinary_step > 0 => t.counters.ordinary_step <= config.max_steps
          /\ t.counters.primer_step <= config.primer
          /\ t.noise \in Nat /\ t.split \in BOOLEAN
          /\ \A i \in DOMAIN t.generator :
               /\ t.generator[i].batch > 0 /\ t.generator[i].context \in 2 .. config.longest
               /\ t.generator[i].context % config.group = 0
    <3> SUFFICES ASSUME NEW t, Coherent(t)
                 PROVE  /\ t.counters \in Counts
                        /\ t.counters.ordinary_step > 0 =>
                             t.counters.ordinary_step <= config.max_steps
                        /\ t.counters.primer_step <= config.primer
                        /\ t.noise \in Nat /\ t.split \in BOOLEAN
                        /\ \A i \in DOMAIN t.generator :
                             /\ t.generator[i].batch > 0
                             /\ t.generator[i].context \in 2 .. config.longest
                             /\ t.generator[i].context % config.group = 0
      OBVIOUS
    <3>1. \A i \in DOMAIN t.generator : Fits(t.generator[i])
      BY DEF Coherent
    <3>2. \A shape : Fits(shape) => /\ shape.batch > 0 /\ shape.context \in 2 .. config.longest
                                    /\ shape.context % config.group = 0
      BY DEF Fits
    <3>3. t.noise \in Nat
      <4>1. config \in Configs /\ IsList(Run!Ordinary(t.model))
        BY OrdinaryLength DEF Inv, Counting
      <4>2. Cardinality(Run!Softened(Run!Ordinary(t.model))) \in Nat
        BY <4>1, SoftenedOfAppend
      <4> QED BY <4>2 DEF Coherent
    <3> QED BY <3>1, <3>2, <3>3 DEF Coherent
  <2>2. \A saved \in {trainer, disk["primer"], disk["checkpoint"]} \ {None, Torn} :
          Coherent(saved)
    BY DEF Inv, Stepping, Saved, Files, Whole, Settled
  <2>3. pre = None \/ pre.ready \in BOOLEAN
    BY DEF Inv, Prefetched
  <2>4. window \in 0 .. config.telemetry_interval /\ config \in Configs /\ runs \in 0 .. MaxRuns
    BY DEF Inv, Timed, Counting
  <2> QED BY <2>1, <2>2, <2>3, <2>4 DEF Inv, Control, TypeOK
<1> QED BY <1>1, TrainerInductive, PTL

\* What a checkpoint keeps covers all of its steps, and the row before it shows the same
\* counters.
THEOREM TelemetryCorrect == Spec => []TelemetryInv
<1>1. Inv => TelemetryInv
  <2> SUFFICES ASSUME Inv PROVE TelemetryInv
    OBVIOUS
  <2>1. \A file \in Files : disk[file] \notin {None, Torn} =>
          disk[file].counters.elapsed = disk[file].counters.ordinary_step
    BY DEF Inv, Saved, Whole
  <2>2. pc \in {"save", "write", "sidecar"} => Closed
    BY DEF Inv, Timed
  <2> QED BY <2>1, <2>2 DEF TelemetryInv, Closed
<1> QED BY <1>1, TrainerInductive, PTL

-----------------------------------------------------------------------------
(* The run, step by step.                                                  *)

\* The steps behind what a file holds.
Held(file) == IF file \in {None, Torn} THEN <<>> ELSE file.model

\* A step that leaves the model and the files alone is none of the run.
LEMMA RunStutters ==
  ASSUME config' = config, budget' = budget, trainer'.model = trainer.model, disk' = disk
  PROVE  UNCHANGED Run!rvars
  BY DEF Run!rvars

LEMMA PrimerStepPrimes == Inv /\ PrimerStep => Run!Prime
<1> SUFFICES ASSUME Inv, PrimerStep PROVE Run!Prime
  OBVIOUS
<1> DEFINE n == [counters EXCEPT !.step = @ + 1, !.primer_step = @ + 1]
           m == Append(trainer.model, [kind |-> "primer", batch |-> n.primer_step])
<1>1. /\ pc = "primer" /\ counters.primer_step < config.primer
      /\ trainer' = [trainer EXCEPT !.model = m, !.counters = n]
      /\ config' = config /\ budget' = budget /\ disk' = disk
  BY DEF PrimerStep, files
<1>2. config \in Configs /\ Coherent(trainer)
  BY DEF Inv, Counting, Stepping
<1>3. counters \in Counts /\ config.primer \in Nat /\ Len(trainer.model) = counters.primer_step
  <2>1. counters \in Counts /\ config.primer \in Nat
    BY <1>2, ConfigTypes DEF Coherent, counters
  <2>2. counters.ordinary_step = 0
    BY <1>1, <1>2, <2>1 DEF Coherent, Counts, counters
  <2> QED BY <1>2, <2>1, <2>2 DEF Coherent, Counts, counters
<1>4. n.primer_step = Len(trainer.model) + 1
  BY <1>3, CountersAfterPrimerStep
<1>5. trainer'.model = m
  <2>1. trainer = [counters |-> trainer.counters, generator |-> trainer.generator,
                   noise |-> trainer.noise, model |-> trainer.model, split |-> trainer.split]
    BY <1>2 DEF Coherent
  <2> HIDE DEF n, m
  <2>2. trainer' = [counters |-> n, generator |-> trainer.generator,
                    noise |-> trainer.noise, model |-> m, split |-> trainer.split]
    BY <1>1, <2>1, TrainerAfter
  <2> QED BY <2>2
<1> HIDE DEF n
<1> QED BY <1>1, <1>3, <1>4, <1>5 DEF Run!Prime, Run!PrimerStep

LEMMA TrainStepTrains == Inv /\ TrainStep => Run!Train
<1> SUFFICES ASSUME Inv, TrainStep PROVE Run!Train
  OBVIOUS
<1>1. pc = "train" /\ config' = config /\ budget' = budget /\ disk' = disk
  BY DEF TrainStep, files
<1>2. ~ Down
  BY <1>1 DEF Down
<1>3. trainer'.model = Append(trainer.model, Run!NextStep(trainer.model))
  BY TrainStepTakes
<1>4. config \in Configs /\ Coherent(trainer) /\ Unfinished
      /\ counters.primer_step = config.primer
  BY <1>1 DEF Inv, Counting, Stepping
<1>5. Len(trainer.model) >= config.primer
  <2> DEFINE l == Len(trainer.model)
             o == counters.ordinary_step
             p == config.primer
  <2>1. l = p + o /\ o \in Nat /\ p \in Nat
    BY <1>4, ConfigTypes DEF Coherent, Counts, counters
  <2> HIDE DEF l, o, p
  <2>2. l >= p
    BY <2>1
  <2> QED BY <2>2 DEF l, p
<1>6. /\ Run!Progress(budget[1], Run!Spent(trainer.model)) < budget[2]
      /\ Run!Spent(trainer.model).ordinary_step < config.max_steps
  BY <1>2, <1>4, SpendingIsSpent DEF Unfinished, AllBudget
<1> QED BY <1>1, <1>3, <1>5, <1>6 DEF Run!Train

LEMMA FileIsSaved ==
  ASSUME Inv, config' = config, budget' = budget, trainer' = trainer,
         disk' = [disk EXCEPT ![File] = Torn] \/ disk' = [disk EXCEPT ![File] = trainer]
  PROVE  Run!Save
<1> DEFINE bar == [f \in Files |-> Held(disk[f])]
<1>1. File \in Files /\ disk = [f \in Files |-> disk[f]]
  BY DEF File, Files, Inv, Saved
<1>2. [f \in Files |-> Held(disk'[f])] = [bar EXCEPT ![File] = Held(disk'[File])]
  BY <1>1
<1>3. Held(disk'[File]) \in {<<>>, trainer.model}
  BY <1>1 DEF Held
<1>4. [f \in Files |-> Held(disk'[f])] = [bar EXCEPT ![File] = <<>>]
        \/ [f \in Files |-> Held(disk'[f])] = [bar EXCEPT ![File] = trainer.model]
  BY <1>2, <1>3
<1>5. File \in DOMAIN bar
  BY <1>1
<1> QED BY <1>4, <1>5 DEF Run!Save, Run!Torn, Held

LEMMA RestartAnew ==
  ASSUME Inv, config' = config, disk' = disk, budget' = OwnBudget, trainer' = Fresh
  PROVE  Run!Restart
<1>1. trainer'.model = <<>>
  BY DEF Fresh
<1>2. budget' = <<config.kind, Run!TotalBudget(config)>>
  BY SameSchedules DEF OwnBudget
<1> QED BY <1>1, <1>2 DEF Run!Restart

LEMMA ResumeRestarts == Inv /\ Resume => Run!Restart
<1> SUFFICES ASSUME Inv, Resume PROVE Run!Restart
  OBVIOUS
<1>1. config' = config /\ disk' = disk
  BY DEF Resume, files
<1>2. PICK file \in Files, extended \in BOOLEAN :
        LET saved   == disk[file]
            counted == IF extended THEN <<"gpu_seconds", config.extend>> ELSE OwnBudget
        IN  /\ saved # None
            /\ IF Loads(saved) /\ (extended => MayExtend(saved)) /\ MayCount(counted[1])
               THEN /\ pc' = "primer"
                    /\ budget' = counted
                    /\ Begin(saved)
               ELSE /\ pc' = "refused"
                    /\ budget' = OwnBudget
                    /\ Begin(Fresh)
  BY DEF Resume
<1>3. CASE budget' = OwnBudget /\ Begin(Fresh)
  BY <1>1, <1>3, RestartAnew DEF Begin
<1>4. CASE /\ disk[file] \notin {None, Torn} /\ Begin(disk[file])
           /\ budget' \in {OwnBudget, <<"gpu_seconds", config.extend>>}
  <2>1. trainer'.model = disk[file].model /\ disk[file].model # <<>>
    BY <1>4 DEF Begin, Inv, Saved, Whole
  <2> DEFINE bar == [f \in Files |-> Held(disk[f])]
  <2>2. file \in DOMAIN bar /\ bar[file] = disk[file].model
    BY <1>4 DEF Held
  <2>3. budget' \in {<<config.kind, Run!TotalBudget(config)>>, <<"gpu_seconds", config.extend>>}
    BY <1>4, SameSchedules DEF OwnBudget
  <2>4. [f \in Files |-> Held(disk'[f])] = bar
    BY <1>1
  <2> QED BY <1>1, <2>1, <2>2, <2>3, <2>4 DEF Run!Restart, Run!Torn, Held
<1> QED BY <1>2, <1>3, <1>4 DEF Loads

\* With or without a prefetcher, across changes of shape, crashes, resumes and the primer,
\* the model is trained by the steps that the configuration determines, and by no other.
THEOREM TrainerIsTheRun == Spec => ImplementsTrainRun
<1>1. Init => Run!RInit
  <2> SUFFICES ASSUME Init PROVE Run!RInit
    OBVIOUS
  <2>1. trainer.model = <<>> /\ disk = [f \in Files |-> None] /\ budget = OwnBudget
    BY DEF Init, Fresh
  <2> QED BY <2>1, SameSchedules DEF Run!RInit, Run!Torn, Files, OwnBudget
<1>2. Inv /\ [Next]_vars => [Run!RNext]_Run!rvars
  <2> SUFFICES ASSUME Inv, [Next]_vars PROVE Run!RNext \/ UNCHANGED Run!rvars
    OBVIOUS
  <2>1. CASE Start
    BY <2>1, RestartAnew DEF Start, Begin, files, Run!RNext
  <2>2. CASE Resume
    BY <2>2, ResumeRestarts DEF Run!RNext
  <2>3. CASE Crash
    BY <2>3, RestartAnew DEF Crash, Begin, files, Run!RNext
  <2>4. CASE Produce \/ Acknowledge
    BY <2>4, RunStutters DEF Produce, Acknowledge, files
  <2>5. CASE PrimerStep
    BY <2>5, PrimerStepPrimes DEF Run!RNext
  <2>6. CASE TrainStep
    BY <2>6, TrainStepTrains DEF Run!RNext
  <2>7. CASE SaveBegins \/ SaveEnds
    BY <2>7, FileIsSaved DEF SaveBegins, SaveEnds, Run!RNext
  <2>8. CASE PrimerEnds \/ OpenLoop \/ CloseLoop \/ ProfileStep \/ Report \/ SaveSidecar
    BY <2>8, RunStutters DEF PrimerEnds, OpenLoop, CloseLoop, ProfileStep, Report, SaveSidecar,
       files
  <2>9. CASE LoopTop
    <3>1. Coherent(trainer)
      BY DEF Inv, Stepping
    <3>2. trainer'.model = trainer.model
      BY <2>9, <3>1 DEF LoopTop, Coherent
    <3> QED BY <2>9, <3>2, RunStutters DEF LoopTop, files
  <2>10. CASE NextBatch \/ SampleBatch
    <3>1. Coherent(trainer)
      BY DEF Inv, Stepping
    <3>2. trainer'.model = trainer.model
      BY <2>10, <3>1 DEF NextBatch, SampleBatch, Drawn, Coherent
    <3> QED BY <2>10, <3>2, RunStutters DEF NextBatch, SampleBatch, Drawn, files
  <2>11. CASE Finished \/ UNCHANGED vars
    BY <2>11, RunStutters DEF Finished, vars, files
  <2> QED BY <2>1, <2>2, <2>3, <2>4, <2>5, <2>6, <2>7, <2>8, <2>9, <2>10, <2>11 DEF Next, Step
<1> QED BY <1>1, <1>2, TrainerInductive, PTL DEF Spec, ImplementsTrainRun, Run!RSpec
=============================================================================
