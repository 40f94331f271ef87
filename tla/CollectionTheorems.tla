------------------------- MODULE CollectionTheorems -------------------------
(***************************************************************************)
(* Facts about numbers, finite sets and the operators of the community     *)
(* modules that the proofs about the components need: induction by a least *)
(* counterexample, least and greatest elements, sums over a finite set,    *)
(* and a sequence of sequences put one behind the other.                   *)
(***************************************************************************)
EXTENDS Integers, Sequences, FiniteSets, FiniteSetsExt, SequencesExt, FiniteSetTheorems,
        SequenceTheorems, WellFoundedInduction, TLAPS

\* A set of natural numbers that is not empty has a least element.
LEMMA LeastNat ==
  ASSUME NEW S, S \subseteq Nat, S # {}
  PROVE  \E m \in S : \A k \in S : m <= k
<1>1. \E x \in S : \A y \in S : ~ (<<y, x>> \in OpToRel(<, Nat))
  BY WFMin, NatLessThanWellFounded
<1>2. \A x, y \in Nat : <<x, y>> \in OpToRel(<, Nat) <=> x < y
  BY DEF OpToRel
<1>3. \E x \in S : \A y \in S : ~ (y < x)
  BY <1>1, <1>2, Zenon
<1> HIDE <1>1, <1>2
<1>4. PICK x \in S : \A y \in S : ~ (y < x)
  BY <1>3
<1>5. x \in Nat /\ \A y \in S : y \in Nat
  OBVIOUS
<1> QED BY <1>4, <1>5, SMT

\* Induction: a set that holds 0 and the successor of each of its members.
LEMMA SetInduction ==
  ASSUME NEW S, 0 \in S, \A n \in Nat : n \in S => n + 1 \in S
  PROVE  Nat \subseteq S
<1> SUFFICES ASSUME Nat \ S # {} PROVE FALSE
  OBVIOUS
<1>1. PICK m \in Nat \ S : \A k \in Nat \ S : m <= k
  <2>1. Nat \ S \subseteq Nat
    OBVIOUS
  <2> QED BY <2>1, LeastNat
<1>2. m # 0 /\ m - 1 \in Nat /\ m - 1 \in S
  BY <1>1
<1> QED BY <1>1, <1>2

\* A set of finite sets has one of the fewest elements.
LEMMA LeastSet ==
  ASSUME NEW SS, SS # {}, \A s \in SS : IsFiniteSet(s)
  PROVE  \E s \in SS : \A r \in SS : Cardinality(s) <= Cardinality(r)
<1> DEFINE N == {Cardinality(s) : s \in SS}
<1>1. N \subseteq Nat /\ N # {}
  BY FS_CardinalityType
<1>2. PICK m \in N : \A k \in N : m <= k
  <2> HIDE DEF N
  <2> QED BY <1>1, LeastNat
<1> QED BY <1>2

\* A set of integers with an upper bound that is not empty has a greatest element.
LEMMA GreatestInt ==
  ASSUME NEW S, S \subseteq Int, S # {}, NEW b \in Int, \A k \in S : k <= b
  PROVE  Max(S) \in S /\ \A k \in S : k <= Max(S)
<1> DEFINE N == {n \in Nat : b - n \in S}
<1>1. N \subseteq Nat
  OBVIOUS
<1>2. \A y \in S : y \in Int /\ b - y \in N
  <2> SUFFICES ASSUME NEW y \in S PROVE y \in Int /\ b - y \in N
    OBVIOUS
  <2>1. y \in Int /\ y <= b
    OBVIOUS
  <2>2. b - y \in Nat /\ b - (b - y) = y
    BY <2>1
  <2> QED BY <2>1, <2>2
<1>3. N # {}
  BY <1>2
<1>4. PICK m \in N : \A k \in N : m <= k
  <2> HIDE DEF N
  <2> QED BY <1>1, <1>3, LeastNat
<1>5. b - m \in S /\ m \in Nat
  OBVIOUS
<1>6. \A y \in S : b - m >= y
  <2> SUFFICES ASSUME NEW y \in S PROVE b - m >= y
    OBVIOUS
  <2>1. y \in Int /\ b - y \in N /\ m <= b - y
    BY <1>2, <1>4
  <2> HIDE DEF N
  <2> QED BY <1>5, <2>1
<1>7. \E z \in S : \A y \in S : z >= y
  BY <1>5, <1>6
<1>8. Max(S) \in S /\ \A y \in S : Max(S) >= y
  BY <1>7 DEF Max
<1> QED BY <1>8

\* The least element of natural numbers is the Min of them.
LEMMA LeastMin ==
  ASSUME NEW S, S \subseteq Nat, S # {}
  PROVE  Min(S) \in S /\ \A k \in S : Min(S) <= k
<1>1. \E m \in S : \A k \in S : m <= k
  BY LeastNat
<1> QED BY <1>1 DEF Min

-----------------------------------------------------------------------------
(* Sums.                                                                   *)

\* The sum over a set that is not empty, by the one it picks first.
Summed(f, g, s) ==
  IF s = {} THEN 0 ELSE g[CHOOSE x \in s : TRUE] + f[s \ {CHOOSE x \in s : TRUE}]

\* The recursive function by which the community modules sum over the subsets of S.
Folded(f, g, S) == f = [s \in SUBSET S |-> Summed(f, g, s)]

LEMMA SumIsFolded ==
  ASSUME NEW g, NEW S
  PROVE  SumFunctionOnSet(g, S) = (CHOOSE f : Folded(f, g, S))[S]
BY DEF SumFunctionOnSet, FoldFunctionOnSet, MapThenFoldSet, Folded, Summed

\* What is left of a finite set without the one it picks first is smaller.
LEMMA PickOne ==
  ASSUME NEW s, IsFiniteSet(s), s # {}
  PROVE  /\ (CHOOSE x \in s : TRUE) \in s
         /\ IsFiniteSet(s \ {CHOOSE x \in s : TRUE})
         /\ Cardinality(s) \in Nat \ {0}
         /\ Cardinality(s \ {CHOOSE x \in s : TRUE}) = Cardinality(s) - 1
<1> DEFINE x == CHOOSE x \in s : TRUE
<1>1. x \in s
  OBVIOUS
<1> HIDE DEF x
<1>2. IsFiniteSet(s \ {x}) /\ Cardinality(s \ {x}) = Cardinality(s) - 1
  BY <1>1, FS_RemoveElement
<1>3. Cardinality(s) \in Nat /\ Cardinality(s) # 0
  BY FS_CardinalityType, FS_EmptySet
<1> QED BY <1>1, <1>2, <1>3 DEF x

\* Two such functions agree where both are defined.
LEMMA FoldedAgree ==
  ASSUME NEW S, NEW T, NEW g, NEW f, NEW h, Folded(f, g, S), Folded(h, g, T),
         NEW s, IsFiniteSet(s), s \subseteq S, s \subseteq T
  PROVE  f[s] = h[s]
<1> DEFINE Bad == {r \in SUBSET s : f[r] # h[r]}
<1> SUFFICES ASSUME Bad # {} PROVE FALSE
  OBVIOUS
<1>1. \A r \in Bad : IsFiniteSet(r)
  BY FS_Subset
<1>2. PICK r \in Bad : \A q \in Bad : Cardinality(r) <= Cardinality(q)
  <2> HIDE DEF Bad
  <2> QED BY <1>1, LeastSet
<1>3. r \in SUBSET S /\ r \in SUBSET T /\ f[r] # h[r] /\ IsFiniteSet(r)
  BY <1>1
<1>4. f[r] = Summed(f, g, r) /\ h[r] = Summed(h, g, r)
  BY <1>3 DEF Folded
<1>5. r # {}
  BY <1>3, <1>4 DEF Summed
<1> DEFINE q == r \ {CHOOSE x \in r : TRUE}
<1>6. q \in SUBSET s /\ Cardinality(q) < Cardinality(r)
      /\ Cardinality(r) \in Nat /\ Cardinality(q) \in Nat
  <2>1. /\ Cardinality(r) \in Nat \ {0} /\ Cardinality(q) = Cardinality(r) - 1
    BY <1>3, <1>5, PickOne
  <2>2. q \in SUBSET s
    OBVIOUS
  <2> HIDE DEF q
  <2> QED BY <2>1, <2>2
<1>7. f[q] = h[q]
  BY <1>2, <1>6
<1> QED BY <1>3, <1>4, <1>5, <1>7 DEF Summed

\* There is one for every finite set.
LEMMA FoldedExists ==
  ASSUME NEW S, IsFiniteSet(S), NEW g
  PROVE  \E f : Folded(f, g, S)
<1> DEFINE Bad == {s \in SUBSET S : ~ \E f : Folded(f, g, s)}
<1> SUFFICES ASSUME Bad # {} PROVE FALSE
  OBVIOUS
<1>1. \A r \in Bad : IsFiniteSet(r)
  BY FS_Subset
<1>2. PICK s \in Bad : \A q \in Bad : Cardinality(s) <= Cardinality(q)
  <2> HIDE DEF Bad
  <2> QED BY <1>1, LeastSet
<1>3. IsFiniteSet(s) /\ s \in SUBSET S
  BY <1>1
<1>4. \A r \in SUBSET s : r # s => IsFiniteSet(r) /\ \E f : Folded(f, g, r)
  <2> SUFFICES ASSUME NEW r \in SUBSET s, r # s
               PROVE  IsFiniteSet(r) /\ \E f : Folded(f, g, r)
    OBVIOUS
  <2>0. /\ IsFiniteSet(r) /\ Cardinality(r) <= Cardinality(s)
        /\ Cardinality(r) # Cardinality(s)
    BY <1>3, FS_Subset
  <2>2. Cardinality(r) \in Nat /\ Cardinality(s) \in Nat
    BY <1>3, <2>0, FS_CardinalityType
  <2>1. IsFiniteSet(r) /\ Cardinality(r) < Cardinality(s)
    BY <2>0, <2>2
  <2>3. r \notin Bad
    <3> HIDE DEF Bad
    <3> QED BY <1>2, <2>1, <2>2
  <2> QED BY <1>3, <2>1, <2>3
<1> DEFINE below == [r \in SUBSET s |-> (CHOOSE f : Folded(f, g, r))[r]]
           f == [r \in SUBSET s |-> Summed(below, g, r)]
<1>5. ASSUME NEW r \in SUBSET s, r # s PROVE below[r] = Summed(below, g, r)
  <2> DEFINE h == CHOOSE h : Folded(h, g, r)
             q == r \ {CHOOSE x \in r : TRUE}
             k == CHOOSE k : Folded(k, g, q)
  <2>1. Folded(h, g, r) /\ IsFiniteSet(r)
    BY <1>4, <1>5
  <2>2. below[r] = h[r] /\ h[r] = Summed(h, g, r)
    BY <2>1 DEF Folded
  <2>3. CASE r = {}
    BY <2>2, <2>3 DEF Summed
  <2>4. CASE r # {}
    <3>1. q \in SUBSET s /\ q # s /\ q \subseteq r
      BY <1>5
    <3>2. Folded(k, g, q) /\ IsFiniteSet(q) /\ below[q] = k[q]
      <4> HIDE DEF q
      <4> QED BY <1>4, <3>1
    <3>3. h[q] = k[q]
      <4> HIDE DEF q, h, k
      <4> QED BY <2>1, <3>1, <3>2, FoldedAgree
    <3> QED BY <2>2, <2>4, <3>2, <3>3 DEF Summed
  <2> QED BY <2>3, <2>4
<1>6. ASSUME NEW r \in SUBSET s PROVE Summed(f, g, r) = Summed(below, g, r)
  <2>1. CASE r = {}
    BY <2>1 DEF Summed
  <2>2. CASE r # {}
    <3> DEFINE q == r \ {CHOOSE x \in r : TRUE}
    <3>1. (CHOOSE x \in r : TRUE) \in r
      BY <2>2
    <3>2. q \in SUBSET s /\ q # s
      BY <3>1
    <3> HIDE DEF q
    <3>3. f[q] = Summed(below, g, q)
      BY <3>2
    <3>4. f[q] = below[q]
      BY <1>5, <3>2, <3>3
    <3> HIDE DEF f, below
    <3> QED BY <2>2, <3>4 DEF Summed, q
  <2> QED BY <2>1, <2>2
<1>7. Folded(f, g, s)
  <2> HIDE DEF below
  <2> QED BY <1>6 DEF Folded
<1> QED BY <1>7

\* The sum over a finite set, by the element it picks first.
LEMMA SumChoice ==
  ASSUME NEW g, NEW S, IsFiniteSet(S)
  PROVE  SumFunctionOnSet(g, S) =
           IF S = {} THEN 0
           ELSE g[CHOOSE x \in S : TRUE] + SumFunctionOnSet(g, S \ {CHOOSE x \in S : TRUE})
<1> DEFINE f == CHOOSE f : Folded(f, g, S)
           q == S \ {CHOOSE x \in S : TRUE}
           k == CHOOSE k : Folded(k, g, q)
<1>1. Folded(f, g, S) /\ SumFunctionOnSet(g, S) = f[S]
  BY FoldedExists, SumIsFolded
<1>2. f[S] = Summed(f, g, S)
  BY <1>1 DEF Folded
<1>3. CASE S = {}
  BY <1>1, <1>2, <1>3 DEF Summed
<1>4. CASE S # {}
  <2>1. IsFiniteSet(q) /\ q \subseteq S
    BY <1>4, PickOne
  <2>2. Folded(k, g, q) /\ SumFunctionOnSet(g, q) = k[q]
    <3> HIDE DEF q
    <3> QED BY <2>1, FoldedExists, SumIsFolded
  <2>3. f[q] = k[q]
    <3> HIDE DEF f, q, k
    <3> QED BY <1>1, <2>1, <2>2, FoldedAgree
  <2> QED BY <1>1, <1>2, <1>4, <2>2, <2>3 DEF Summed
<1> QED BY <1>3, <1>4

\* Nothing sums to zero.
LEMMA SumEmpty == ASSUME NEW g PROVE SumFunctionOnSet(g, {}) = 0
BY FS_EmptySet, SumChoice

\* A sum of natural numbers is one.
LEMMA SumIsNat ==
  ASSUME NEW g, NEW S, IsFiniteSet(S), \A x \in S : g[x] \in Nat
  PROVE  SumFunctionOnSet(g, S) \in Nat
<1> DEFINE Bad == {s \in SUBSET S : SumFunctionOnSet(g, s) \notin Nat}
<1> SUFFICES ASSUME Bad # {} PROVE FALSE
  OBVIOUS
<1>1. \A r \in Bad : IsFiniteSet(r)
  BY FS_Subset
<1>2. PICK s \in Bad : \A q \in Bad : Cardinality(s) <= Cardinality(q)
  <2> HIDE DEF Bad
  <2> QED BY <1>1, LeastSet
<1>3. IsFiniteSet(s) /\ s \in SUBSET S /\ SumFunctionOnSet(g, s) \notin Nat
  BY <1>1
<1>4. s # {}
  BY <1>3, SumEmpty
<1> DEFINE x == CHOOSE x \in s : TRUE
           q == s \ {x}
<1>5. /\ x \in s /\ SumFunctionOnSet(g, s) = g[x] + SumFunctionOnSet(g, q)
      /\ Cardinality(s) \in Nat /\ Cardinality(q) = Cardinality(s) - 1
  BY <1>3, <1>4, SumChoice, PickOne
<1> HIDE DEF x
<1>6. q \in SUBSET S /\ ~ (Cardinality(s) <= Cardinality(q))
  BY <1>3, <1>5
<1> HIDE DEF q
<1>7. SumFunctionOnSet(g, q) \in Nat
  BY <1>2, <1>6
<1>8. g[x] \in Nat
  BY <1>3, <1>5
<1> QED BY <1>3, <1>5, <1>7, <1>8

\* Two functions that agree on a set have the same sum over it.
LEMMA SumSame ==
  ASSUME NEW g, NEW h, NEW S, IsFiniteSet(S), \A x \in S : g[x] = h[x]
  PROVE  SumFunctionOnSet(g, S) = SumFunctionOnSet(h, S)
<1> DEFINE Bad == {s \in SUBSET S : SumFunctionOnSet(g, s) # SumFunctionOnSet(h, s)}
<1> SUFFICES ASSUME Bad # {} PROVE FALSE
  OBVIOUS
<1>1. \A r \in Bad : IsFiniteSet(r)
  BY FS_Subset
<1>2. PICK s \in Bad : \A q \in Bad : Cardinality(s) <= Cardinality(q)
  <2> HIDE DEF Bad
  <2> QED BY <1>1, LeastSet
<1>3. /\ IsFiniteSet(s) /\ s \in SUBSET S
      /\ SumFunctionOnSet(g, s) # SumFunctionOnSet(h, s)
  BY <1>1
<1>4. s # {}
  BY <1>3, SumEmpty
<1> DEFINE x == CHOOSE x \in s : TRUE
           q == s \ {x}
<1>5. /\ x \in s
      /\ SumFunctionOnSet(g, s) = g[x] + SumFunctionOnSet(g, q)
      /\ SumFunctionOnSet(h, s) = h[x] + SumFunctionOnSet(h, q)
      /\ Cardinality(s) \in Nat /\ Cardinality(q) = Cardinality(s) - 1
  BY <1>3, <1>4, SumChoice, PickOne
<1> HIDE DEF x
<1>6. q \in SUBSET S /\ ~ (Cardinality(s) <= Cardinality(q))
  BY <1>3, <1>5
<1> HIDE DEF q
<1>7. SumFunctionOnSet(g, q) = SumFunctionOnSet(h, q)
  BY <1>2, <1>6
<1>8. g[x] = h[x]
  BY <1>3, <1>5
<1> QED BY <1>3, <1>5, <1>7, <1>8

\* Any element can be taken out of a sum.
LEMMA SumRemove ==
  ASSUME NEW g, NEW S, IsFiniteSet(S), \A x \in S : g[x] \in Nat, NEW y \in S
  PROVE  SumFunctionOnSet(g, S) = g[y] + SumFunctionOnSet(g, S \ {y})
<1> DEFINE Bad == {s \in SUBSET S :
                     \E z \in s : SumFunctionOnSet(g, s) # g[z] + SumFunctionOnSet(g, s \ {z})}
<1> SUFFICES ASSUME Bad # {} PROVE FALSE
  OBVIOUS
<1>1. \A r \in Bad : IsFiniteSet(r)
  BY FS_Subset
<1>2. PICK s \in Bad : \A q \in Bad : Cardinality(s) <= Cardinality(q)
  <2> HIDE DEF Bad
  <2> QED BY <1>1, LeastSet
<1>3. /\ IsFiniteSet(s) /\ s \in SUBSET S
      /\ \A z \in s : g[z] \in Nat
  BY <1>1
<1>4. PICK z \in s : SumFunctionOnSet(g, s) # g[z] + SumFunctionOnSet(g, s \ {z})
  OBVIOUS
<1> DEFINE x == CHOOSE x \in s : TRUE
           q == s \ {x}
           r == s \ {z}
<1>5. /\ x \in s
      /\ SumFunctionOnSet(g, s) = g[x] + SumFunctionOnSet(g, q)
      /\ Cardinality(s) \in Nat /\ Cardinality(q) = Cardinality(s) - 1
  BY <1>3, <1>4, SumChoice, PickOne
<1> HIDE DEF x
<1>6. z # x
  BY <1>4, <1>5
<1>7. /\ IsFiniteSet(q) /\ IsFiniteSet(r) /\ Cardinality(r) = Cardinality(s) - 1
      /\ q \in SUBSET S /\ r \in SUBSET S
      /\ q # s /\ r # s
  BY <1>3, <1>4, <1>5, FS_RemoveElement
<1>8. q \notin Bad /\ r \notin Bad
  <2>1. ~ (Cardinality(s) <= Cardinality(q)) /\ ~ (Cardinality(s) <= Cardinality(r))
    <3> HIDE DEF q, r
    <3> QED BY <1>5, <1>7
  <2> HIDE DEF Bad
  <2> QED BY <1>2, <2>1
<1>9. SumFunctionOnSet(g, q) = g[z] + SumFunctionOnSet(g, q \ {z})
  BY <1>4, <1>6, <1>7, <1>8
<1>10. SumFunctionOnSet(g, r) = g[x] + SumFunctionOnSet(g, r \ {x})
  BY <1>5, <1>6, <1>7, <1>8
<1>11. q \ {z} = r \ {x} /\ IsFiniteSet(r \ {x}) /\ \A w \in r \ {x} : g[w] \in Nat
  BY <1>3, <1>7, FS_Subset
<1>15. SumFunctionOnSet(g, q) = g[z] + SumFunctionOnSet(g, r \ {x})
  BY <1>9, <1>11
<1> HIDE DEF q, r, Bad
<1>12. SumFunctionOnSet(g, r \ {x}) \in Nat
  BY <1>11, SumIsNat
<1>13. g[x] \in Nat /\ g[z] \in Nat
  BY <1>3, <1>5
<1>14. SumFunctionOnSet(g, s) = g[z] + SumFunctionOnSet(g, r)
  BY <1>5, <1>10, <1>12, <1>13, <1>15
<1> QED BY <1>4, <1>14 DEF r

\* A sum after one of its terms changed.
LEMMA SumUpdate ==
  ASSUME NEW g, NEW h, NEW S, IsFiniteSet(S), NEW y \in S,
         \A x \in S : g[x] \in Nat /\ h[x] \in Nat,
         \A x \in S \ {y} : h[x] = g[x]
  PROVE  SumFunctionOnSet(h, S) = SumFunctionOnSet(g, S) - g[y] + h[y]
<1>1. /\ SumFunctionOnSet(g, S) = g[y] + SumFunctionOnSet(g, S \ {y})
      /\ SumFunctionOnSet(h, S) = h[y] + SumFunctionOnSet(h, S \ {y})
  BY SumRemove
<1>2. IsFiniteSet(S \ {y})
  BY FS_RemoveElement
<1>3. SumFunctionOnSet(g, S \ {y}) = SumFunctionOnSet(h, S \ {y})
  BY <1>2, SumSame
<1>4. SumFunctionOnSet(g, S \ {y}) \in Nat
  BY <1>2, SumIsNat
<1>5. g[y] \in Nat /\ h[y] \in Nat
  OBVIOUS
<1> QED BY <1>1, <1>3, <1>4, <1>5

\* Segments that do not overlap are together no longer than what they lie in.
LEMMA SegmentsFit ==
  ASSUME NEW S, IsFiniteSet(S), NEW at, NEW g, NEW n \in Nat,
         \A x \in S : at[x] \in Nat /\ g[x] \in Nat /\ at[x] + g[x] <= n,
         \A x, y \in S : x # y => at[x] + g[x] <= at[y] \/ at[y] + g[y] <= at[x]
  PROVE  SumFunctionOnSet(g, S) <= n
<1> DEFINE Bad == {s \in SUBSET S :
                     \E m \in Nat : /\ \A x \in s : at[x] + g[x] <= m
                                    /\ ~ (SumFunctionOnSet(g, s) <= m)}
<1> SUFFICES ASSUME Bad # {} PROVE FALSE
  <2>1. S \notin Bad
    OBVIOUS
  <2> QED BY <2>1
<1>1. \A r \in Bad : IsFiniteSet(r)
  BY FS_Subset
<1>2. PICK s \in Bad : \A q \in Bad : Cardinality(s) <= Cardinality(q)
  <2> HIDE DEF Bad
  <2> QED BY <1>1, LeastSet
<1>3. IsFiniteSet(s) /\ s \in SUBSET S /\ \A x \in s : at[x] \in Nat /\ g[x] \in Nat
  BY <1>1
<1>4. PICK m \in Nat : /\ \A x \in s : at[x] + g[x] <= m
                       /\ ~ (SumFunctionOnSet(g, s) <= m)
  OBVIOUS
<1>5. ASSUME NEW x \in s
      PROVE  /\ s \ {x} \in SUBSET S /\ s \ {x} \notin Bad
             /\ SumFunctionOnSet(g, s) = g[x] + SumFunctionOnSet(g, s \ {x})
             /\ SumFunctionOnSet(g, s \ {x}) \in Nat
  <2>1. IsFiniteSet(s \ {x}) /\ Cardinality(s \ {x}) = Cardinality(s) - 1
    BY <1>3, FS_RemoveElement
  <2>2. Cardinality(s) \in Nat
    BY <1>3, FS_CardinalityType
  <2>3. s \ {x} \notin Bad
    <3>1. ~ (Cardinality(s) <= Cardinality(s \ {x}))
      BY <2>1, <2>2
    <3> HIDE DEF Bad
    <3> QED BY <1>2, <3>1
  <2>4. SumFunctionOnSet(g, s) = g[x] + SumFunctionOnSet(g, s \ {x})
    BY <1>3, SumRemove
  <2>5. SumFunctionOnSet(g, s \ {x}) \in Nat
    BY <1>3, <2>1, SumIsNat
  <2> QED BY <1>3, <2>3, <2>4, <2>5
<1>6. \A x \in s : g[x] # 0
  <2> SUFFICES ASSUME NEW x \in s, g[x] = 0 PROVE FALSE
    OBVIOUS
  <2>1. SumFunctionOnSet(g, s) = SumFunctionOnSet(g, s \ {x})
    BY <1>5
  <2>2. \A y \in s \ {x} : at[y] + g[y] <= m
    BY <1>4
  <2> QED BY <1>4, <1>5, <2>1, <2>2
<1>7. s # {}
  BY <1>4, SumEmpty
<1> DEFINE Starts == {at[x] : x \in s}
<1>8. PICK x \in s : \A y \in s : at[y] <= at[x]
  <2>1. Starts \subseteq Int /\ Starts # {}
    BY <1>3, <1>7
  <2>2. \A k \in Starts : k <= m
    <3> SUFFICES ASSUME NEW x \in s PROVE at[x] <= m
      OBVIOUS
    <3> QED BY <1>3, <1>4
  <2>3. Max(Starts) \in Starts /\ \A k \in Starts : k <= Max(Starts)
    <3>1. m \in Int
      OBVIOUS
    <3> HIDE DEF Starts
    <3> QED BY <2>1, <2>2, <3>1, GreatestInt
  <2>4. PICK x \in s : Max(Starts) = at[x]
    BY <2>3
  <2>5. \A y \in s : at[y] \in Starts
    OBVIOUS
  <2> HIDE DEF Starts
  <2> QED BY <2>3, <2>4, <2>5
<1>9. \A y \in s \ {x} : at[y] + g[y] <= at[x]
  <2> SUFFICES ASSUME NEW y \in s \ {x} PROVE at[y] + g[y] <= at[x]
    OBVIOUS
  <2>1. at[x] + g[x] <= at[y] \/ at[y] + g[y] <= at[x]
    BY <1>3
  <2>2. at[x] \in Nat /\ g[x] \in Nat /\ g[x] # 0 /\ at[y] \in Nat /\ at[y] <= at[x]
    BY <1>3, <1>6, <1>8
  <2> QED BY <2>1, <2>2
<1>10. SumFunctionOnSet(g, s \ {x}) <= at[x]
  BY <1>3, <1>5, <1>9
<1>11. /\ at[x] \in Nat /\ g[x] \in Nat /\ at[x] + g[x] <= m
       /\ SumFunctionOnSet(g, s) = g[x] + SumFunctionOnSet(g, s \ {x})
       /\ SumFunctionOnSet(g, s \ {x}) \in Nat
  BY <1>3, <1>4, <1>5
<1> HIDE DEF Bad
<1> QED BY <1>4, <1>10, <1>11

-----------------------------------------------------------------------------
(* A sequence of sequences, one behind the other.                          *)

\* The first i of the sequences, one behind the other, for every i.
Joined(f, s) ==
  f = [i \in 1 .. Len(s) |-> IF i = 1 THEN s[i] ELSE f[i - 1] \o s[i]]

LEMMA FlattenIsJoined ==
  ASSUME NEW s
  PROVE  FlattenSeq(s) = IF Len(s) = 0 THEN s ELSE (CHOOSE f : Joined(f, s))[Len(s)]
BY DEF FlattenSeq, Joined

LEMMA JoinedExists ==
  ASSUME NEW s, Len(s) \in Nat
  PROVE  \E f : Joined(f, s)
<1> DEFINE Upto(f, n) == f = [i \in 1 .. n |-> IF i = 1 THEN s[i] ELSE f[i - 1] \o s[i]]
           A == {n \in Nat : \E f : Upto(f, n)}
<1>1. 0 \in A
  <2> DEFINE f == [i \in 1 .. 0 |-> s[i]]
  <2>1. 1 .. 0 = {}
    OBVIOUS
  <2>2. Upto(f, 0)
    BY <2>1
  <2> QED BY <2>2
<1>2. ASSUME NEW n \in Nat, n \in A PROVE n + 1 \in A
  <2>1. PICK f : Upto(f, n)
    BY <1>2
  <2> DEFINE h == [i \in 1 .. n + 1 |-> IF i = 1 THEN s[i] ELSE f[i - 1] \o s[i]]
  <2>2. \A i \in 1 .. n : f[i] = IF i = 1 THEN s[i] ELSE f[i - 1] \o s[i]
    BY <2>1
  <2>3. \A i \in 1 .. n + 1 : h[i] = IF i = 1 THEN s[i] ELSE f[i - 1] \o s[i]
    OBVIOUS
  <2>4. \A i \in 1 .. n : i \in 1 .. n + 1
    OBVIOUS
  <2>5. \A i \in 1 .. n : h[i] = f[i]
    <3> HIDE DEF h
    <3> QED BY <2>2, <2>3, <2>4
  <2>6. \A i \in 1 .. n + 1 : i # 1 => i - 1 \in 1 .. n
    OBVIOUS
  <2>7. h = [i \in 1 .. n + 1 |-> IF i = 1 THEN s[i] ELSE h[i - 1] \o s[i]]
    <3> SUFFICES ASSUME NEW i \in 1 .. n + 1, i # 1 PROVE f[i - 1] = h[i - 1]
      OBVIOUS
    <3> HIDE DEF h
    <3> QED BY <2>5, <2>6
  <2>8. Upto(h, n + 1)
    <3> HIDE DEF h
    <3> QED BY <2>7
  <2>9. n + 1 \in Nat
    OBVIOUS
  <2> HIDE DEF h, Upto
  <2> QED BY <2>8, <2>9
<1>3. Len(s) \in A
  <2> HIDE DEF A
  <2> QED BY <1>1, <1>2, SetInduction
<1> QED BY <1>3 DEF Joined

\* A flattened sequence is the last of the joined ones.
LEMMA FlattenSteps ==
  ASSUME NEW s, Len(s) \in Nat, Len(s) # 0
  PROVE  \E f : /\ f[1] = s[1]
                /\ \A i \in 2 .. Len(s) : f[i] = f[i - 1] \o s[i]
                /\ FlattenSeq(s) = f[Len(s)]
<1> DEFINE f == CHOOSE f : Joined(f, s)
<1>1. Joined(f, s) /\ FlattenSeq(s) = f[Len(s)]
  BY JoinedExists, FlattenIsJoined
<1> HIDE DEF f
<1>2. \A i \in 1 .. Len(s) : f[i] = IF i = 1 THEN s[i] ELSE f[i - 1] \o s[i]
  BY <1>1 DEF Joined
<1>3. 1 \in 1 .. Len(s) /\ \A i \in 2 .. Len(s) : i \in 1 .. Len(s) /\ i # 1
  OBVIOUS
<1> QED BY <1>1, <1>2, <1>3

\* A sequence of a set holds each of its members once.
LEMMA SeqOfSet ==
  ASSUME NEW S, IsFiniteSet(S), NEW s \in SetToSeqs(S)
  PROVE  /\ s \in Seq(S)
         /\ \A i, j \in 1 .. Len(s) : s[i] = s[j] => i = j
         /\ \A x \in S : \E i \in 1 .. Len(s) : s[i] = x
<1> DEFINE D == 1 .. Cardinality(S)
<1>1. Cardinality(S) \in Nat
  BY FS_CardinalityType
<1>2. s \in [D -> S] /\ \A i, j \in D : i # j => s[i] # s[j]
  BY DEF SetToSeqs
<1>3. s \in Injection(D, S)
  BY <1>2 DEF Injection, IsInjective
<1>4. Cardinality(D) = Cardinality(S)
  <2>1. Cardinality(1 .. Cardinality(S)) =
          IF 1 > Cardinality(S) THEN 0 ELSE Cardinality(S) - 1 + 1
    BY <1>1, FS_Interval
  <2> QED BY <1>1, <2>1
<1>5. s \in Surjection(D, S)
  <2> HIDE DEF D
  <2> QED BY <1>3, <1>4, FS_Injection
<1>6. \A x \in S : \E i \in D : s[i] = x
  BY <1>5 DEF Surjection
<1>7. s \in Seq(S) /\ Len(s) = Cardinality(S)
  BY <1>1, <1>2
<1> QED BY <1>2, <1>6, <1>7
=============================================================================
