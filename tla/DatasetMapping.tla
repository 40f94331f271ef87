--------------------------- MODULE DatasetMapping ---------------------------
(***************************************************************************)
(* The planner of dataset superposition: examples that read alike are      *)
(* paired, the spans of a pair that mean the same are fused, and every     *)
(* other span is kept.  Three programs in a row, as they exchange files:   *)
(* a retrieval of pairs of examples (or none), build_dataset_superposition *)
(* _plan with its two greedy loops, and map_dataset's account of the       *)
(* result.                                                                 *)
(*                                                                         *)
(* Spans are known by their index in the input.  Cosines, scores and       *)
(* coverages are compared as percentages or as cross-multiplied fractions. *)
(***************************************************************************)
EXTENDS Integers, Sequences, FiniteSets, FiniteSetsExt

CONSTANTS
  Inputs,          \* records of spans, edges, cosine, likeness
  Programs,        \* of "none", "structural", "semantic": the retrievals run before
  Config,          \* DatasetMappingConfig
  Retrieval,       \* the limits of the retrieval programs
  None,            \* an annotation that is absent
  ProtectedEntityTypes

ASSUME ConfigAssumption ==
  /\ Config.maximum_cluster_size \in Nat
  /\ None \notin ProtectedEntityTypes

\* An input is a finite table.
ASSUME InputsAssumption == \A i \in Inputs : IsFiniteSet(DOMAIN i.spans)

VARIABLES
  input,
  program,       \* the retrieval that runs before the planner
  phase,
  examples,      \* the examples that are mapped
  queue,         \* the retrieved or aligned pairs a greedy loop has not looked at
  allowed,       \* allowed_example_pairs
  decisions,     \* the pairs of spans with an accepted decision
  pending,       \* those of them that _cluster_spans has not looked at
  clusters,
  superbatches,
  plan

vars == <<input, program, phase, examples, queue, allowed, decisions, pending, clusters,
          superbatches, plan>>

NoPlan == [retained |-> 0]

Init ==
  /\ input \in Inputs
  /\ program \in Programs
  /\ phase = IF program = "none" THEN "mapping" ELSE "retrieving"
  /\ examples = {input.spans[i].example : i \in DOMAIN input.spans}
  /\ queue = {}
  /\ allowed = {}
  /\ decisions = {} /\ pending = {} /\ clusters = {}
  /\ superbatches = {}
  /\ plan = NoPlan

Span(i) == input.spans[i]
Of(e)   == {i \in DOMAIN input.spans : Span(i).example = e}
Spans   == UNION {Of(e) : e \in examples}

Precedes(p, q) == p[1] < q[1] \/ (p[1] = q[1] /\ p[2] < q[2])
Pairs(S) == {p \in S \X S : p[1] < p[2]}

(***************************************************************************)
(* Retrieval                                                               *)
(***************************************************************************)
Eligible(i) == ~Span(i).protected /\ Span(i).semantic_role # "syntax"
Node(i) == <<Span(i).grammatical_role, Span(i).semantic_role, Span(i).entity_type,
             Span(i).binding_type>>

EdgesOf(e) == {d \in input.edges : Span(d.source).example = e}
Link(d) == <<Span(d.source).semantic_role, d.relation, Span(d.target).semantic_role>>

\* structural_features: how often an example has a node or an edge of a kind.
Features(e) ==
  LET nodes == {i \in Of(e) : Eligible(i)}
      links == {d \in EdgesOf(e) : Eligible(d.source) /\ Eligible(d.target)}
  IN [f \in {Node(i) : i \in nodes} \cup {Link(d) : d \in links} |->
        Cardinality({i \in nodes : Node(i) = f}) + Cardinality({d \in links : Link(d) = f})]

Count(features, f) == IF f \in DOMAIN features THEN features[f] ELSE 0
FeatureCount(e) == LET fs == Features(e) IN MapThenSumSet(LAMBDA f : fs[f], DOMAIN fs)

\* weighted_jaccard, as <<numerator, denominator>>; nothing in common with nothing is 0.
Jaccard(l, r) ==
  LET a == Features(l)
      b == Features(r)
      kinds == DOMAIN a \cup DOMAIN b
      Most(f)  == IF Count(a, f) > Count(b, f) THEN Count(a, f) ELSE Count(b, f)
      Least(f) == Count(a, f) + Count(b, f) - Most(f)
  IN IF kinds = {} THEN <<0, 1>>
     ELSE <<MapThenSumSet(Least, kinds), MapThenSumSet(Most, kinds)>>

Reaches(fraction, percent) == fraction[1] * 100 >= percent * fraction[2]
Exceeds(f, g) == f[1] * g[2] > g[1] * f[2]

Comparable(p) ==
  /\ \A e \in {p[1], p[2]} : FeatureCount(e) >= Retrieval.minimum_content_spans
  /\ Reaches(Jaccard(p[1], p[2]), Retrieval.minimum_structural_score)

\* The sentences' cosine: an example is itself.
Likeness(l, r) == IF l = r THEN 100 ELSE input.likeness[l, r]

\* scores.topk of a row, ties in any order.
TopK(l) ==
  LET width == IF Retrieval.semantic_top_k + 1 < Cardinality(examples)
               THEN Retrieval.semantic_top_k + 1 ELSE Cardinality(examples)
  IN {T \in SUBSET examples : /\ Cardinality(T) = width
                              /\ \A t \in T, o \in examples \ T : Likeness(l, t) >= Likeness(l, o)}

RetrieveStructural ==
  /\ phase = "retrieving" /\ program = "structural"
  /\ queue' = {p \in Pairs(examples) : Comparable(p)}
  /\ phase' = "selecting"
  /\ UNCHANGED <<input, program, examples, allowed, decisions, pending, clusters, superbatches, plan>>

RetrieveSemantic ==
  /\ phase = "retrieving" /\ program = "semantic"
  /\ \E rows \in [examples -> SUBSET examples] :
        /\ \A e \in examples : rows[e] \in TopK(e)
        /\ queue' = {p \in Pairs(examples) :
                       /\ p[2] \in rows[p[1]] \/ p[1] \in rows[p[2]]
                       /\ Likeness(p[1], p[2]) >= Retrieval.minimum_semantic_score
                       /\ Comparable(p)}
  /\ phase' = "selecting"
  /\ UNCHANGED <<input, program, examples, allowed, decisions, pending, clusters, superbatches, plan>>

\* The order of the candidates; the structural retrieval has no sentence vectors.
Nearer(p, q) ==
  LET s == IF program = "semantic" THEN Likeness(p[1], p[2]) ELSE 0
      t == IF program = "semantic" THEN Likeness(q[1], q[2]) ELSE 0
      j == Jaccard(p[1], p[2])
      k == Jaccard(q[1], q[2])
  IN \/ s > t
     \/ s = t /\ Exceeds(j, k)
     \/ s = t /\ ~Exceeds(j, k) /\ ~Exceeds(k, j) /\ Precedes(p, q)

Touches(p, S) == \E q \in S : {p[1], p[2]} \cap {q[1], q[2]} # {}

\* Disjoint pairs, best first, until there are enough.
SelectPair(p) ==
  /\ phase = "selecting"
  /\ p \in queue /\ \A q \in queue \ {p} : Nearer(p, q)
  /\ queue' = queue \ {p}
  /\ allowed' = IF Touches(p, allowed) \/ Cardinality(allowed) >= Retrieval.max_pairs
                THEN allowed ELSE allowed \cup {p}
  /\ UNCHANGED <<input, program, phase, examples, decisions, pending, clusters, superbatches, plan>>

\* Only the examples of a selected pair are written to the next program's input.
WriteRetrieved ==
  /\ phase = "selecting" /\ queue = {}
  /\ examples' = {e \in examples : \E p \in allowed : e \in {p[1], p[2]}}
  /\ phase' = "mapping"
  /\ UNCHANGED <<input, program, queue, allowed, decisions, pending, clusters, superbatches, plan>>

(***************************************************************************)
(* _validate and the decisions                                             *)
(***************************************************************************)
Earlier(i, j) ==
  \/ Span(i).start < Span(j).start
  \/ Span(i).start = Span(j).start /\ Precedes(<<Span(i).end, i>>, <<Span(j).end, j>>)

\* The spans of an example in the order of their tokens.
Ordered(e) ==
  [k \in 1..Cardinality(Of(e)) |->
     CHOOSE i \in Of(e) : Cardinality({j \in Of(e) : Earlier(j, i)}) = k - 1]

Valid ==
  /\ Spans # {}
  /\ \A i \in Spans : Span(i).start < Span(i).end /\ Span(i).confidence \in 0..100
  /\ \A i, j \in Spans : i # j /\ Span(i).example = Span(j).example => Span(i).id # Span(j).id
  /\ \A e \in examples : \A k \in 1..(Len(Ordered(e)) - 1) :
        Span(Ordered(e)[k]).end <= Span(Ordered(e)[k + 1]).start
  /\ \A d \in input.edges : d.source \in Spans => d.target \in Of(Span(d.source).example)

KnownEqual(left, right, required) ==
  /\ required => left # None /\ right # None
  /\ left = None \/ right = None \/ left = right

Roles(i) == <<Span(i).grammatical_role, Span(i).semantic_role, Span(i).semantic_value,
              Span(i).entity_type, Span(i).binding_type>>

\* The ends of the edges at a span, as the span sees them.
Ends(i) == {<<"out", d>> : d \in {d \in input.edges : d.source = i}} \cup
           {<<"in", d>> : d \in {d \in input.edges : d.target = i}}
Seen(x) == <<x[1], x[2].relation, Roles(IF x[1] = "out" THEN x[2].target ELSE x[2].source)>>

\* _relation_signatures: the same entries, as often.
SameSignature(i, j) ==
  \A s \in {Seen(x) : x \in Ends(i) \cup Ends(j)} :
     Cardinality({x \in Ends(i) : Seen(x) = s}) = Cardinality({x \in Ends(j) : Seen(x) = s})

ExactSource(i, j) == Span(i).source # None /\ Span(i).source = Span(j).source
ProtectedExact(i, j) == Span(i).protected /\ Span(j).protected /\ ExactSource(i, j)

Cosine(i, j) == IF ProtectedExact(i, j) THEN 100
                ELSE input.cosine[Span(i).embedding, Span(j).embedding]

\* _pair_decision: no reason speaks against the pair.
Compatible(i, j) ==
  /\ Span(i).example # Span(j).example
  /\ program # "none" => \E p \in allowed : {p[1], p[2]} = {Span(i).example, Span(j).example}
  /\ Span(i).protected \/ Span(j).protected => ProtectedExact(i, j)
  /\ {Span(i).entity_type, Span(j).entity_type} \cap ProtectedEntityTypes # {} => ExactSource(i, j)
  /\ KnownEqual(Span(i).grammatical_role, Span(j).grammatical_role, Config.require_grammatical_role)
  /\ KnownEqual(Span(i).semantic_role, Span(j).semantic_role, Config.require_semantic_role)
  /\ KnownEqual(Span(i).semantic_value, Span(j).semantic_value, FALSE)
  /\ KnownEqual(Span(i).entity_type, Span(j).entity_type, FALSE)
  /\ KnownEqual(Span(i).binding_type, Span(j).binding_type, FALSE)
  /\ Config.require_relation_signature => SameSignature(i, j)
  /\ Cosine(i, j) >= Config.cosine_threshold

Refuse ==
  /\ phase = "mapping" /\ ~Valid
  /\ phase' = "refused"
  /\ UNCHANGED <<input, program, examples, queue, allowed, decisions, pending, clusters, superbatches, plan>>

Decide ==
  /\ phase = "mapping" /\ Valid
  /\ decisions' = {p \in Pairs(Spans) : Compatible(p[1], p[2])}
  /\ pending' = decisions'
  /\ clusters' = {{i} : i \in Spans}
  /\ phase' = "clustering"
  /\ UNCHANGED <<input, program, examples, queue, allowed, superbatches, plan>>

(***************************************************************************)
(* _cluster_spans                                                          *)
(***************************************************************************)
Sooner(p, q) ==
  \/ Cosine(p[1], p[2]) > Cosine(q[1], q[2])
  \/ Cosine(p[1], p[2]) = Cosine(q[1], q[2]) /\ Precedes(p, q)

Accepted(i, j) == <<i, j>> \in decisions \/ <<j, i>> \in decisions

OnePerExample(S) == \A i, j \in S : Span(i).example = Span(j).example => i = j

\* Fault: the pair that is looked at is enough.
FusesChained(L, R) ==
  /\ Cardinality(L \cup R) <= Config.maximum_cluster_size
  /\ OnePerExample(L \cup R)

\* Fault: a cluster never gets as large as it may.
FusesUnderSize(L, R) ==
  /\ Cardinality(L \cup R) < Config.maximum_cluster_size
  /\ OnePerExample(L \cup R)
  /\ \A i \in L, j \in R : Accepted(i, j)

\* Complete linkage: each span of one cluster with each of the other.
Fuses(L, R) ==
  /\ Cardinality(L \cup R) <= Config.maximum_cluster_size
  /\ OnePerExample(L \cup R)
  /\ \A i \in L, j \in R : Accepted(i, j)

Consider(p) ==
  /\ phase = "clustering"
  /\ p \in pending /\ \A q \in pending \ {p} : Sooner(p, q)
  /\ pending' = pending \ {p}
  /\ \E L, R \in clusters :
        /\ p[1] \in L /\ p[2] \in R
        /\ clusters' = IF L # R /\ Fuses(L, R) THEN (clusters \ {L, R}) \cup {L \cup R}
                       ELSE clusters
  /\ UNCHANGED <<input, program, phase, examples, queue, allowed, decisions, superbatches, plan>>

(***************************************************************************)
(* _build_superbatches                                                     *)
(***************************************************************************)
Clusters == {C \in clusters : Cardinality(C) > 1}
Reached(C, e) == \E i \in C : Span(i).example = e

\* The clusters an example shares with another, in the order of its tokens.
Shared(e, other) ==
  LET In(i) == {C \in Clusters : i \in C /\ Reached(C, other)}
      order == SelectSeq(Ordered(e), LAMBDA i : In(i) # {})
  IN [k \in DOMAIN order |-> CHOOSE C \in In(order[k]) : TRUE]

Content(e) == {i \in Of(e) : ~Span(i).protected}
Larger(l, r) == IF Cardinality(Content(l)) > Cardinality(Content(r)) THEN l ELSE r

\* How much of the content of the longer example is aligned.
Coverage(p) ==
  LET units == {k \in DOMAIN Shared(p[1], p[2]) : \E i \in Shared(p[1], p[2])[k] :
                  Span(i).example \in {p[1], p[2]} /\ ~Span(i).protected}
      whole == Cardinality(Content(Larger(p[1], p[2])))
  IN IF whole = 0 THEN <<0, 1>> ELSE <<Cardinality(units), whole>>

\* Fault: the same clusters in any order.
AlignsAsSets(p) ==
  /\ {Shared(p[1], p[2])[k] : k \in DOMAIN Shared(p[1], p[2])}
       = {Shared(p[2], p[1])[k] : k \in DOMAIN Shared(p[2], p[1])}
  /\ Len(Shared(p[1], p[2])) >= Config.minimum_aligned_spans
  /\ Reaches(Coverage(p), Config.minimum_alignment_coverage)

Aligns(p) ==
  /\ Shared(p[1], p[2]) = Shared(p[2], p[1])
  /\ Len(Shared(p[1], p[2])) >= Config.minimum_aligned_spans
  /\ Reaches(Coverage(p), Config.minimum_alignment_coverage)

Align ==
  /\ phase = "clustering" /\ pending = {}
  /\ queue' = {p \in Pairs(examples) : Aligns(p)}
  /\ phase' = "packing"
  /\ UNCHANGED <<input, program, examples, allowed, decisions, pending, clusters, superbatches, plan>>

Better(p, q) ==
  LET c == Coverage(p)
      d == Coverage(q)
      m == Len(Shared(p[1], p[2]))
      n == Len(Shared(q[1], q[2]))
  IN \/ Exceeds(c, d)
     \/ ~Exceeds(d, c) /\ m > n
     \/ ~Exceeds(d, c) /\ m = n /\ Precedes(p, q)

\* Each example goes into one superbatch at most.
Pack(p) ==
  /\ phase = "packing"
  /\ p \in queue /\ \A q \in queue \ {p} : Better(p, q)
  /\ queue' = queue \ {p}
  /\ superbatches' = IF Touches(p, superbatches) THEN superbatches ELSE superbatches \cup {p}
  /\ UNCHANGED <<input, program, phase, examples, allowed, decisions, pending, clusters, plan>>

(***************************************************************************)
(* The plan, and map_dataset's account of it                               *)
(***************************************************************************)
\* The members of an aligned unit: the cluster's spans in the two examples.
Unit(C, p) == {i \in C : Span(i).example \in {p[1], p[2]}}
Units(p) == {Unit(Shared(p[1], p[2])[k], p) : k \in DOMAIN Shared(p[1], p[2])}
Unique(p) == {i \in Of(p[1]) \cup Of(p[2]) :
                \A k \in DOMAIN Shared(p[1], p[2]) : i \notin Shared(p[1], p[2])[k]}

\* _normalized_weights, as numerators and their denominator.
Weights(S) ==
  LET total == MapThenSumSet(LAMBDA i : Span(i).confidence, S)
  IN IF total <= 0 THEN [of |-> [i \in S |-> 1], total |-> Cardinality(S)]
     ELSE [of |-> [i \in S |-> Span(i).confidence], total |-> total]

Packed == UNION {{p[1], p[2]} : p \in superbatches}
Ordinary == UNION {Of(e) : e \in examples \ Packed}
OutputUnits(p) == Len(Shared(p[1], p[2])) + Cardinality(Unique(p))
Retained == Cardinality(Ordinary) + MapThenSumSet(OutputUnits, superbatches)

\* The semantic retrieval writes how many spans there were: those it left are ordinary.
Unselected == IF program = "semantic" THEN Len(input.spans) - Cardinality(Spans) ELSE 0

Finish ==
  /\ phase = "packing" /\ queue = {}
  /\ plan' = [units |-> UNION {Units(p) : p \in superbatches},
              unique |-> UNION {Unique(p) : p \in superbatches},
              ordinary |-> Ordinary,
              retained |-> Retained + Unselected]
  /\ phase' = "planned"
  /\ UNCHANGED <<input, program, examples, queue, allowed, decisions, pending, clusters, superbatches>>

Next ==
  \/ RetrieveStructural \/ RetrieveSemantic \/ WriteRetrieved
  \/ \E p \in queue : SelectPair(p) \/ Pack(p)
  \/ Refuse \/ Decide
  \/ \E p \in pending : Consider(p)
  \/ Align \/ Finish

Spec == Init /\ [][Next]_vars

(***************************************************************************)
(* Properties                                                              *)
(***************************************************************************)
Mapped == phase \in {"clustering", "packing", "planned"}

\* The clusters are a partition of the spans.
Partition ==
  /\ UNION clusters = Spans
  /\ \A L, R \in clusters : L # R => L \cap R = {}

\* Whatever the order in which pairs are merged, a cluster is a clique of accepted pairs
\* with one span per example, within its size, and no span is lost: semantic chaining
\* (a like b, b like c) never fuses a with c (dataset_mapping.py:250-293).
ClustersAreCliques ==
  Mapped =>
    /\ Partition
    /\ \A C \in clusters :
         /\ Cardinality(C) = 1 \/ Cardinality(C) <= Config.maximum_cluster_size
         /\ OnePerExample(C)
         /\ \A i, j \in C : i # j => Accepted(i, j)

\* One look at each pair is enough: although a refused pair is never looked at again
\* while clusters keep growing, in the end no two clusters are left that could still be
\* fused (dataset_mapping.py:265-292).
NothingLeftToFuse ==
  phase \in {"packing", "planned"} =>
    \A L, R \in clusters :
      \/ L = R
      \/ Cardinality(L \cup R) > Config.maximum_cluster_size
      \/ \E i \in L, j \in R : Span(i).example = Span(j).example \/ ~Accepted(i, j)

\* Every span is in one place: a fused unit, a pair's unique spans, or an ordinary example.
EverySpanOnce ==
  LET parts == plan.units \cup {plan.unique, plan.ordinary}
  IN /\ UNION parts = Spans
     /\ \A S, T \in parts : S = T \/ S \cap T = {}
     /\ plan.unique \cap plan.ordinary = {}
     /\ plan.retained = Cardinality(plan.units) + Cardinality(plan.unique \cup plan.ordinary)
                          + Unselected

\* The units of a pair are in the order of the tokens of both examples.
AlignedInOrder ==
  \A p \in superbatches : \A U, V \in Units(p) :
    U # V => \/ \A i \in U, j \in V : Span(i).example = Span(j).example => Span(i).end <= Span(j).start
             \/ \A i \in U, j \in V : Span(i).example = Span(j).example => Span(j).end <= Span(i).start

\* A finished plan drops and repeats no span and counts what it keeps, its units join one
\* span of each example of the pair by an accepted decision and never cross, their weights
\* are a distribution, and only retrieved pairs are fused (dataset_mapping.py:304-593,
\* map_dataset.py:113-147).
PlanIsFaithful ==
  phase = "planned" =>
    /\ EverySpanOnce
    /\ AlignedInOrder
    /\ \A U \in plan.units : \E i, j \in U : U = {i, j} /\ Accepted(i, j)
    /\ \A U \in plan.units \cup Clusters :
         LET w == Weights(U) IN w.total > 0 /\ MapThenSumSet(LAMBDA i : w.of[i], U) = w.total
    /\ \A p, q \in superbatches : p = q \/ {p[1], p[2]} \cap {q[1], q[2]} = {}
    /\ program # "none" => superbatches \subseteq allowed
=============================================================================
