----------------------------- MODULE MCPython ------------------------------
(***************************************************************************)
(* The Python programs that share no state: a behaviour is one of the      *)
(* binding of the library, of the mapping of a dataset, of a conversion,   *)
(* of a comparison of two encoders, of the preparation of training data,   *)
(* or of the fixtures of benchmarks.                                       *)
(***************************************************************************)
EXTENDS DatasetMapping, PyBinding, SequencesExt, TLC

CONSTANTS Absent, Torn, t1, t2

(***************************************************************************)
(* A dataset of four examples of one or two spans                          *)
(***************************************************************************)
MCConfig ==
  [cosine_threshold |-> 92, maximum_cluster_size |-> 3, minimum_aligned_spans |-> 1,
   minimum_alignment_coverage |-> 50, require_grammatical_role |-> TRUE,
   require_semantic_role |-> FALSE, require_relation_signature |-> TRUE]

MCRetrieval ==
  [semantic_top_k |-> 1, minimum_semantic_score |-> 75, minimum_structural_score |-> 35,
   minimum_content_spans |-> 1, max_pairs |-> 2]

Word(embedding) ==
  [embedding |-> embedding, grammatical_role |-> "noun", semantic_role |-> "entity",
   semantic_value |-> None, entity_type |-> None, binding_type |-> None, source |-> None,
   confidence |-> 50, protected |-> FALSE]

\* Three words of which the first and the last are too far apart, one without confidence,
\* a date, and a protected literal.
Near    == Word("a")
Middle  == [Word("b") EXCEPT !.confidence = 0]
Far     == Word("c")
Date    == [Word("a") EXCEPT !.entity_type = "DATE", !.source = "may"]
Literal == [Word("c") EXCEPT !.protected = TRUE, !.source = "may", !.grammatical_role = None]
Kinds   == {Near, Middle, Far, Literal}

Put(kind, example, k, width) ==
  [example |-> example, id |-> k, start |-> k, end |-> k + width] @@ kind

MCCosine == [p \in {"a", "b", "c"} \X {"a", "b", "c"} |->
               IF p = <<"a", "c">> \/ p = <<"c", "a">> THEN 80 ELSE IF p[1] = p[2] THEN 100 ELSE 95]

\* The first two examples read most alike, then the last two.
MCLikeness == [p \in (1..4) \X (1..4) |->
                 CASE {p[1], p[2]} = {1, 2} -> 90 [] {p[1], p[2]} = {3, 4} -> 80
                   [] {p[1], p[2]} = {2, 3} -> 80 [] OTHER -> 70]

Table(k, l, m, n, o, edges, width) ==
  [spans |-> <<Put(Near, 1, 1, width), Put(k, 1, 2, 1), Put(l, 2, 1, 1), Put(m, 2, 2, 1),
               Put(n, 3, 1, 1), Put(o, 4, 1, 1)>>,
   edges |-> edges, cosine |-> MCCosine, likeness |-> MCLikeness]

Modifies == [source |-> 1, relation |-> "modifies", target |-> 2]
Also     == [source |-> 3, relation |-> "modifies", target |-> 4]

MCInputs ==
  {Table(k, l, m, n, o, {}, 1) : k \in {Middle, Literal}, l \in Kinds, m \in Kinds, n \in Kinds, o \in {Near, Middle}}
  \cup {Table(k, l, m, Near, Date, {Modifies, Also}, 1) : k \in Kinds, l \in Kinds, m \in {Middle, Date}}
  \cup {Table(Middle, Near, m, Near, Date, {Modifies}, 1) : m \in {Middle, Date}}
  \cup {Table(Middle, Near, Middle, Date, Near, {}, 2)}

(***************************************************************************)
(* A vocab of a long key, of some of its parts and of twins of them        *)
(***************************************************************************)
Alphabet(capcode) == CASE capcode = 0 -> {"a", " ", "_", "1"}
                       [] capcode = 1 -> {"a", " ", "x", "."}
                       [] OTHER       -> {"a", " ", "D", "1"}

\* The entries of a word, of its parts of these lengths, of twins of the shortest part
\* and of the word, and of a spelling that occurs twice.
Entry(key, id) == [key |-> key, id |-> id]
EntriesOf(w, sizes) ==
  LET parts == SetToSortSeq(sizes, <)
  IN <<Entry(w, 0)>>
     \o [k \in DOMAIN parts |-> Entry(SubSeq(w, 1, parts[k]), parts[k])]
     \o <<Entry(<<"x", " ">> \o SubSeq(w, 1, parts[1]), parts[1]), Entry(SubSeq(w, 1, 2), 0),
          Entry(SubSeq(w, 1, 2), 0)>>

TmVocabs ==
  {[entries |-> EntriesOf(<<a, b, c, d>>, sizes), capcode |-> 0, charset |-> 1, unk |-> 0] :
     a \in Alphabet(0), b \in Alphabet(0), c \in Alphabet(0), d \in Alphabet(0),
     sizes \in {{1}, {1, 2, 3}, {2, 3}}}
  \cup
  {[entries |-> EntriesOf(<<a, b, c, d>>, {1, 2, 3}), capcode |-> capcode, charset |-> 1, unk |-> 99] :
     a \in Alphabet(1) \cup Alphabet(2), b \in {"a", " ", "x", "D"}, c \in {"a", " ", "x", "D"}, d \in {"a", " "},
     capcode \in {1, 2}}
  \cup {[entries |-> EntriesOf(<<"a", "a">>, {1}), capcode |-> 0, charset |-> 2, unk |-> 0]}

(***************************************************************************)
(* Two lines: any two short streams, then a line that agrees or not        *)
(***************************************************************************)
\* Letters, a word, a marker, a marked continuation, a leading space, a delete; the last
\* token, which only the reference can give, is not in the converted vocab.
DiffPieces == << <<"a">>, <<"b">>, <<"a", "b">>, <<"x">>, <<"x", " ", "b">>, <<" ", "b">>, <<"b", "d">>,
                 <<"b", "b">> >>
DiffConverted == 7

Streams(tokens) == UNION {[1..n -> 1..tokens] : n \in 0..2} \cup {<<1, k, 2>> : k \in 1..tokens}

DiffCorpora ==
  {<<[ztok |-> z, reference |-> t], [ztok |-> <<1>>, reference |-> u]>> :
     z \in Streams(DiffConverted), t \in Streams(Len(DiffPieces)), u \in {<<1>>, <<>>}}

(***************************************************************************)
(* Inputs of three or four documents, with a blank one, with documents one *)
(* of the tokenizers leaves out, and repeated ones                         *)
(***************************************************************************)
Document(text, bytes, tokens) == [text |-> text, bytes |-> bytes, tokens |-> tokens]
P == Document("p", 40, 10)
Q == Document("q", 30, 8)
R == Document("r", 2, 1)
V == Document("v", 3, 1)
Blank == Document("", 0, 0)

DataSources == {<<P, Blank, Q, P>>, <<R, V, P, Q>>, <<P, P, V>>}

\* No limit, one that is met exactly, two at once, and the one that is read in two ways.
DataLimits == {[documents |-> 99, tokens |-> 99, bytes |-> 99],
               [documents |-> 99, tokens |-> 18, bytes |-> 99],
               [documents |-> 3, tokens |-> 99, bytes |-> 45],
               [documents |-> 99, tokens |-> 99, bytes |-> 0]}

DataIds == [ordinary_bpe |-> [p |-> 4, q |-> 3, r |-> 2, v |-> 1],
            superbpe |-> [p |-> 2, q |-> 2, r |-> 1, v |-> 2]]

(***************************************************************************)
(* Three downloads, three English works of uneven length, two languages    *)
(***************************************************************************)
Vocab(name, fatal, extended, large) ==
  [name |-> name, fatal |-> fatal, extended |-> extended, large |-> large]
BenchVocabs == <<Vocab("llama2", TRUE, FALSE, FALSE), Vocab("gemma", FALSE, FALSE, FALSE),
                 Vocab("pixtral", FALSE, TRUE, TRUE)>>

BenchLines == [shakespeare |-> 1, huckfinn |-> 3, darwin |-> 2, spa |-> 1, jpn |-> 2]

(***************************************************************************)
(* Texts that need no more room than they have bytes, and up to the most   *)
(* that a normalizer may expand them to; two threads                       *)
(***************************************************************************)
Expansion == 3

BindingTexts == {[size |-> 1, tokens |-> 1, room |-> 1],
                 [size |-> 3, tokens |-> 2, room |-> 3 * Expansion]}

Symmetry == Permutations({t1, t2})

(***************************************************************************)
(* One tool or another                                                     *)
(***************************************************************************)
VARIABLES
  tool,
  tmVocab, tmPc, tmAt, tmPrimary, tmAliases, tmLength, tmSlots, tmTwins, tmFile,
  diffCorpus, diffPc, diffZtok, diffReference, diffLine, diffStats, diffRecords,
  disk, run, opened, view, matrix,
  vocab, tm, ztm, clock, cache, corpus, job, cut

tmVars == <<tmVocab, tmPc, tmAt, tmPrimary, tmAliases, tmLength, tmSlots, tmTwins, tmFile>>
diffVars == <<diffCorpus, diffPc, diffZtok, diffReference, diffLine, diffStats, diffRecords>>
dataVars == <<disk, run, opened, view, matrix>>
benchVars == <<vocab, tm, ztm, clock, cache, corpus, job, cut>>

Convert ==
  INSTANCE TmConvert WITH
    Vocabs <- TmVocabs, LongestByte <- 3, vocab <- tmVocab, pc <- tmPc, at <- tmAt, primary <- tmPrimary,
    aliases <- tmAliases, length <- tmLength, slots <- tmSlots, twins <- tmTwins, file <- tmFile

Diff ==
  INSTANCE StreamDiff WITH
    Corpora <- DiffCorpora, Pieces <- DiffPieces, Converted <- DiffConverted, Markers <- {"x"}, corpus <- diffCorpus, pc <- diffPc,
    ztok <- diffZtok, reference <- diffReference, line <- diffLine, stats <- diffStats,
    records <- diffRecords

Data ==
  INSTANCE PreparedData WITH
    Sources <- DataSources, Limits <- DataLimits, Unlimited <- 99,
    Tokenizers <- {"ordinary_bpe", "superbpe"}, IdCount <- DataIds, Validation <- {"q", "v"},
    ContextBytes <- 100, Starts <- 3

Bench ==
  INSTANCE BenchFixtures WITH
    Vocabs <- BenchVocabs, Lines <- BenchLines, English <- <<"shakespeare", "huckfinn", "darwin">>,
    Languages <- <<"spa", "jpn">>, RepoLines <- 3, Idioms <- 2, Target <- 4, StressTarget <- 3,
    StressLines <- 2, Starts <- 2, MaxClock <- 2

MappingUnused ==
  /\ input = 0 /\ program = 0 /\ phase = "unused" /\ examples = 0 /\ queue = 0 /\ allowed = 0
  /\ decisions = 0 /\ pending = 0 /\ clusters = 0 /\ superbatches = 0 /\ plan = 0
ConvertUnused ==
  /\ tmVocab = 0 /\ tmPc = 0 /\ tmAt = 0 /\ tmPrimary = 0 /\ tmAliases = 0 /\ tmLength = 0
  /\ tmSlots = 0 /\ tmTwins = 0 /\ tmFile = 0
DiffUnused ==
  /\ diffCorpus = 0 /\ diffPc = 0 /\ diffZtok = 0 /\ diffReference = 0 /\ diffLine = 0
  /\ diffStats = 0 /\ diffRecords = 0
DataUnused == disk = 0 /\ run = 0 /\ opened = 0 /\ view = 0 /\ matrix = 0
BenchUnused ==
  /\ vocab = 0 /\ tm = 0 /\ ztm = 0 /\ clock = 0 /\ cache = 0 /\ corpus = 0 /\ job = 0
  /\ cut = 0

\* Where nothing uses the binding it is as a program finds it.
PythonInit ==
  /\ BindingInit
  /\ \/ /\ tool = "map" /\ Init
        /\ ConvertUnused /\ DiffUnused /\ DataUnused /\ BenchUnused
     \/ /\ tool = "convert" /\ Convert!Init
        /\ MappingUnused /\ DiffUnused /\ DataUnused /\ BenchUnused
     \/ /\ tool = "diff" /\ Diff!Init
        /\ MappingUnused /\ ConvertUnused /\ DataUnused /\ BenchUnused
     \/ /\ tool = "data" /\ Data!Init
        /\ MappingUnused /\ ConvertUnused /\ DiffUnused /\ BenchUnused
     \/ /\ tool = "bench" /\ Bench!Init
        /\ MappingUnused /\ ConvertUnused /\ DiffUnused /\ DataUnused
     \/ /\ tool = "bind"
        /\ MappingUnused /\ ConvertUnused /\ DiffUnused /\ DataUnused /\ BenchUnused

PythonNext ==
  \/ tool = "map" /\ Next /\ UNCHANGED <<tool, tmVars, diffVars, dataVars, benchVars, bindingVars>>
  \/ tool = "convert" /\ Convert!Next /\ UNCHANGED <<tool, vars, diffVars, dataVars, benchVars, bindingVars>>
  \/ tool = "diff" /\ Diff!Next /\ UNCHANGED <<tool, vars, tmVars, dataVars, benchVars, bindingVars>>
  \/ tool = "data" /\ Data!Next /\ UNCHANGED <<tool, vars, tmVars, diffVars, benchVars, bindingVars>>
  \/ tool = "bench" /\ Bench!Next /\ UNCHANGED <<tool, vars, tmVars, diffVars, dataVars, bindingVars>>
  \/ tool = "bind" /\ BindingNext /\ UNCHANGED <<tool, vars, tmVars, diffVars, dataVars, benchVars>>

PythonSpec ==
  PythonInit /\ [][PythonNext]_<<tool, vars, tmVars, diffVars, dataVars, benchVars, bindingVars>>

(***************************************************************************)
(* Properties, each of its tool; those of the mapping and of the binding   *)
(* are named as in their modules                                           *)
(***************************************************************************)
\* Every spelling of every id survives, as the token the reader finds at the id or as one
\* of its aliases, and nothing else is written; an alternative is spelled in the file as its
\* id, and no spelling is longer than the reader will look
\* (convert_tm_to_ztm.py:199-269, 492-641; tm_diff_report.py:125-152).
SpellingsSurvive == tool = "convert" => Convert!SpellingsSurvive

\* The ladder of one pass ends with the two best parts of a spelling, the better one first:
\* by priority, and among equals the longer (convert_tm_to_ztm.py:356-486).
AlternativesAreBest == tool = "convert" => Convert!AlternativesAreBest

\* A dump that stops short is neither a match nor a difference: what is counted are lines
\* that both sides answered, the two tools count the same differences, and the line named
\* first is the first of the report (equivalence_check.py:172-214, 601-605;
\* tm_diff_report.py:554-594).
CountsAreOfBothDumps == tool = "diff" => Diff!CountsAreOfBothDumps

\* Of two streams that decode alike the report shows the first tokens that differ, by their
\* place in the text, unless one of them adds nothing to it; then they cannot be filed as
\* unknown (tm_diff_report.py:204-240, 283-415).
ReportShowsDivergence == tool = "diff" => Diff!ReportShowsDivergence

\* The directory of a preparation that ended is loaded, and its index, arrays and metadata
\* belong together, no document of it on both sides of the split, however often the source
\* repeats it; and the directory of a first preparation that did not end is not loaded.  Of a
\* directory that was sealed, and then opened again by a preparation that died, nothing is
\* said: it may be loaded with the old index beside new arrays
\* (prepare_data.py:172-225, 277-363; dataset.py:28-57).
SealedIsWhole == tool = "data" => Data!SealedIsWhole

\* The text a tokenizer is trained on and the arrays made with it are of the same documents, if
\* both programs were given one input and the same limits and were not cut short in their last
\* run: the file holds those the preparation selected, neither more nor fewer, and each split
\* those of the file that fall into it and have two ids, in the order of the file.  The two
\* rules differ on a limit of 0 bytes, but no directory is sealed under it: one document does
\* not fill both splits (prepare_data.py:297-340, materialize_corpus.py:43-61).
ViewIsOfTheSelection == tool = "data" => Data!ViewIsOfTheSelection

\* A comparison is made of the same documents: two whole directories that make_matrix.py
\* pairs hold the same ones in the same order, though each tokenizer leaves out documents of
\* its own (make_matrix.py:52-69, prepare_data.py:297-328).
MatrixPairs == Data!MatrixPairs

\* When fetch_vocabs.py reports that all vocabs are present, the conversion was made from the
\* TokenMonster vocab that is there; and whatever failed to download, a corpus that was written
\* has its shape, and nothing but a write that was cut short leaves a file that is not whole
\* (fetch_vocabs.py:285-314, 355-357; build_corpora.py:43-132, 231-350, 627-646).
FixturesAreSound ==
  tool = "bench" => Bench!ConversionIsOfThisVocab /\ Bench!CorporaKeepTheirShape
=============================================================================
