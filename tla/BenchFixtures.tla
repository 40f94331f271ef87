--------------------------- MODULE BenchFixtures ---------------------------
(***************************************************************************)
(* bench/fetch_vocabs.py and bench/corpora/build_corpora.py: the vocabs    *)
(* and corpora the benchmarks and the equivalence check run on.  Both are  *)
(* run again and again and make what is missing.  A download may fail, at  *)
(* once or midway, and a write may be cut short, by a death or an error.    *)
(***************************************************************************)
EXTENDS Integers, Sequences, SequencesExt, FiniteSetsExt

CONSTANTS
  Vocabs,       \* the downloads, in order: [name, fatal, extended, large]
  Lines,        \* per source of a corpus, the usable lines of the whole text
  English, Languages,  \* the sources of two corpora, in the order they are fetched
  RepoLines, Idioms,   \* code lines of the repository, and built-in ones
  Target, StressTarget, StressLines,
  Starts, MaxClock,
  Absent, Torn

VARIABLES
  vocab,    \* per download: Absent, Torn or "whole"
  tm, ztm,  \* the TokenMonster vocab and its conversion: of which version, written when
  clock,    \* the time of files
  cache,    \* per source, Absent or the lines of the cached text
  corpus,   \* per corpus: Absent, Torn, or how many lines of what
  job,      \* the program that runs
  cut       \* the programs of which a write was cut short

vars == <<vocab, tm, ztm, clock, cache, corpus, job, cut>>

Names == {v.name : v \in ToSet(Vocabs)}
Works == ToSet(English) \cup ToSet(Languages)
Corpora == <<"english", "code", "multilingual", "chat", "unicode_stress">>

Idle(starts, exit) == [pc |-> "idle", starts |-> starts, exit |-> exit]

Init ==
  /\ vocab = [n \in Names |-> Absent]
  /\ tm = Absent /\ ztm = Absent
  /\ clock = 1
  /\ cache = [s \in Works |-> Absent]
  /\ corpus = [c \in ToSet(Corpora) |-> Absent]
  /\ job = Idle(0, "none")
  /\ cut = {}

Sum(f) == FoldSet(LAMBDA k, n : f[k] + n, 0, DOMAIN f)
Min2(a, b) == IF a < b THEN a ELSE b

End(exit) == job' = Idle(job.starts, exit)
Step == job' = [job EXCEPT !.at = @ + 1]

Tick ==
  /\ clock < MaxClock
  /\ clock' = clock + 1
  /\ UNCHANGED <<vocab, tm, ztm, cache, corpus, job, cut>>

(***************************************************************************)
(* fetch_vocabs.py                                                         *)
(***************************************************************************)
\* main: the baseline, the TokenMonster vocab and its conversion, then the extended set.
Plan(mode) ==
  LET baseline == SelectSeq(Vocabs, LAMBDA v : ~v.extended)
      extended == SelectSeq(Vocabs, LAMBDA v : v.extended)
      Converted == <<[name |-> "tm"], [name |-> "ztm"]>>
  IN CASE mode = "baseline" -> baseline \o Converted
       [] mode = "extended" -> baseline \o Converted \o extended
       [] mode = "only_extended" -> extended

StartFetch ==
  /\ job.pc = "idle" /\ job.starts < Starts
  /\ \E mode \in {"baseline", "extended", "only_extended"} :
       job' = [pc |-> "fetch", starts |-> job.starts + 1, plan |-> Plan(mode), at |-> 1]
  /\ UNCHANGED <<vocab, tm, ztm, clock, cache, corpus, cut>>

Fetching == job.pc = "fetch" /\ job.at <= Len(job.plan)
Wanted == job.plan[job.at]

\* download, fetch_extended: what is there is kept, whatever it is.
Download ==
  /\ Fetching /\ Wanted \in ToSet(Vocabs)
  /\ vocab' = [vocab EXCEPT ![Wanted.name] =
                 IF @ # Absent THEN @ ELSE IF Wanted.extended /\ Wanted.large THEN Absent ELSE "whole"]
  /\ Step
  /\ UNCHANGED <<tm, ztm, clock, cache, corpus, cut>>

\* A download that fails midway leaves what it has.
DownloadFails ==
  /\ Fetching /\ Wanted \in ToSet(Vocabs) /\ vocab[Wanted.name] = Absent
  /\ \E left \in {Absent, Torn} : vocab' = [vocab EXCEPT ![Wanted.name] = left]
  /\ IF Wanted.fatal THEN End("failed") ELSE Step
  /\ UNCHANGED <<tm, ztm, clock, cache, corpus, cut>>

\* fetch_tm_vocab
FetchTm ==
  /\ Fetching /\ Wanted.name = "tm"
  /\ \/ tm # Absent /\ Step /\ UNCHANGED tm
     \/ tm = Absent /\ Step /\ tm' = [version |-> job.starts, time |-> clock, whole |-> TRUE]
     \/ tm = Absent /\ End("failed") /\ UNCHANGED tm
  /\ UNCHANGED <<vocab, ztm, clock, cache, corpus, cut>>

\* Fault: a conversion as old as the vocab is good enough.
FreshAtEqualTime == ztm # Absent /\ ztm.time >= tm.time

Fresh == ztm # Absent /\ ztm.time > tm.time

\* convert_tm_to_ztm: the converter fails on a vocab it cannot parse, before it writes.
Convert ==
  /\ Fetching /\ Wanted.name = "ztm"
  /\ IF Fresh THEN Step /\ UNCHANGED ztm
     ELSE IF tm.whole THEN Step /\ ztm' = [version |-> tm.version, time |-> clock, whole |-> TRUE]
     ELSE End("failed") /\ UNCHANGED ztm
  /\ UNCHANGED <<vocab, tm, clock, cache, corpus, cut>>

FetchEnds ==
  /\ job.pc = "fetch" /\ job.at > Len(job.plan)
  /\ End(IF [name |-> "tm"] \notin ToSet(job.plan) THEN "extended" ELSE "present")
  /\ UNCHANGED <<vocab, tm, ztm, clock, cache, corpus, cut>>

\* Someone removes the vocab to have it fetched again.
RemoveTm ==
  /\ job.pc = "idle" /\ tm # Absent
  /\ tm' = Absent /\ End("none")
  /\ UNCHANGED <<vocab, ztm, clock, cache, corpus, cut>>

FetchDies ==
  /\ Fetching
  /\ CASE Wanted.name = "tm" ->
            /\ tm' = IF tm = Absent THEN [version |-> job.starts, time |-> clock, whole |-> FALSE] ELSE tm
            /\ UNCHANGED <<vocab, ztm>>
       [] Wanted.name = "ztm" ->
            /\ ztm' = IF Fresh \/ ~tm.whole THEN ztm
                      ELSE [version |-> tm.version, time |-> clock, whole |-> FALSE]
            /\ UNCHANGED <<vocab, tm>>
       [] OTHER ->
            /\ vocab' = [vocab EXCEPT ![Wanted.name] = IF @ = Absent THEN Torn ELSE @]
            /\ UNCHANGED <<tm, ztm>>
  /\ End("died") /\ cut' = cut \cup {"fetch"}
  /\ UNCHANGED <<clock, cache, corpus>>

(***************************************************************************)
(* build_corpora.py                                                        *)
(***************************************************************************)
StartBuild ==
  /\ job.pc = "idle" /\ job.starts < Starts
  /\ \E force \in BOOLEAN, items \in {Corpora} \cup {<<c>> : c \in ToSet(Corpora)} :
       job' = [pc |-> "next", starts |-> job.starts + 1, force |-> force, plan |-> items, at |-> 1]
  /\ UNCHANGED <<vocab, tm, ztm, clock, cache, corpus, cut>>

Item == job.plan[job.at]

NextItem ==
  /\ job.pc = "next" /\ job.at <= Len(job.plan)
  /\ IF corpus[Item] # Absent /\ ~job.force THEN Step
     ELSE job' = [pc |-> CASE Item \in {"english", "multilingual"} -> "fetch_text" [] OTHER -> "write",
                  starts |-> job.starts, force |-> job.force, plan |-> job.plan, at |-> job.at, pools |-> <<>>]
  /\ UNCHANGED <<vocab, tm, ztm, clock, cache, corpus, cut>>

BuildEnds ==
  /\ job.pc = "next" /\ job.at > Len(job.plan)
  /\ End("built")
  /\ UNCHANGED <<vocab, tm, ztm, clock, cache, corpus, cut>>

Sources == IF Item = "english" THEN English ELSE Languages
Source == Sources[Len(job.pools) + 1]
FetchingText == job.pc = "fetch_text" /\ Len(job.pools) < Len(Sources)
Pooled(n) == job' = [job EXCEPT !.pools = Append(@, n)]

\* fetch: a cached text is used unless it is empty, else the whole text is read, then cached.
FetchText ==
  /\ FetchingText
  /\ LET n == IF cache[Source] # Absent THEN cache[Source] ELSE Lines[Source]
     IN cache' = [cache EXCEPT ![Source] = n] /\ Pooled(n)
  /\ UNCHANGED <<vocab, tm, ztm, clock, corpus, cut>>

\* The cached text is cut short, perhaps before the first usable line.
CutText ==
  /\ \E n \in 0..(Lines[Source] - 1) : cache' = [cache EXCEPT ![Source] = n]
  /\ cut' = cut \cup {"build"}

\* Without its text a language is padded, without one of its works English is not built;
\* the error may be one of the download, or of the write into the cache.
FetchTextFails ==
  /\ FetchingText /\ cache[Source] = Absent
  /\ CutText \/ UNCHANGED <<cache, cut>>
  /\ IF Item = "multilingual" THEN Pooled(0) ELSE End("failed")
  /\ UNCHANGED <<vocab, tm, ztm, clock, corpus>>

FetchTextDies ==
  /\ FetchingText /\ cache[Source] = Absent
  /\ CutText \/ UNCHANGED <<cache, cut>>
  /\ End("died")
  /\ UNCHANGED <<vocab, tm, ztm, clock, corpus>>

TextsFetched ==
  /\ job.pc = "fetch_text" /\ Len(job.pools) = Len(Sources)
  /\ job' = [pc |-> IF Item = "english" THEN "interleave" ELSE "write", starts |-> job.starts,
             force |-> job.force, plan |-> job.plan, at |-> job.at, pools |-> job.pools,
             taken |-> [k \in DOMAIN job.pools |-> 0]]
  /\ UNCHANGED <<vocab, tm, ztm, clock, cache, corpus, cut>>

Live == {k \in DOMAIN job.pools : job.taken[k] < job.pools[k]}

\* build_english: a round takes a line of each work that has one, in a shuffled order, as
\* long as lines are wanted.
Round ==
  \E chosen \in kSubset(Min2(Cardinality(Live), Target - Sum(job.taken)), Live) :
    job' = [job EXCEPT !.taken = [k \in DOMAIN @ |-> IF k \in chosen THEN @[k] + 1 ELSE @[k]]]

TakeRound ==
  /\ job.pc = "interleave" /\ Live # {} /\ Sum(job.taken) < Target
  /\ Round
  /\ UNCHANGED <<vocab, tm, ztm, clock, cache, corpus, cut>>

Interleaved ==
  /\ job.pc = "interleave" /\ (Live = {} \/ Sum(job.taken) = Target)
  /\ job' = [job EXCEPT !.pc = "write"]
  /\ UNCHANGED <<vocab, tm, ztm, clock, cache, corpus, cut>>

\* build_multilingual: each language filled up to its share with templates.
Multilingual(pools) ==
  LET share == Target \div Len(pools)
  IN [k \in DOMAIN pools |-> [fetched |-> Min2(pools[k], share), padded |-> share - Min2(pools[k], share)]]

\* build_code: any lines of a shuffled pool, which the repository's share depends on what
\* of it can be read.
Code == {[repository |-> r, idioms |-> i] : r \in 0..Min2(RepoLines, Target), i \in 0..Min2(Idioms, Target)}

\* build_chat, build_unicode_stress: all made up, filled to the number wanted.
Chat == [made |-> Target]
UnicodeStress == [made |-> StressLines, padded |-> IF StressLines < StressTarget THEN StressTarget - StressLines ELSE 0]

Contents ==
  CASE Item = "english" -> {[pools |-> job.pools, taken |-> job.taken]}
    [] Item = "multilingual" -> {Multilingual(job.pools)}
    [] Item = "code" -> {c \in Code : Sum(c) <= Target /\ (c.idioms < Idioms => Sum(c) = Target)}
    [] Item = "chat" -> {Chat}
    [] Item = "unicode_stress" -> {UnicodeStress}

Write ==
  /\ job.pc = "write"
  /\ \E content \in Contents : corpus' = [corpus EXCEPT ![Item] = content]
  /\ job' = [pc |-> "next", starts |-> job.starts, force |-> job.force, plan |-> job.plan, at |-> job.at + 1]
  /\ UNCHANGED <<vocab, tm, ztm, clock, cache, cut>>

WriteDies ==
  /\ job.pc = "write"
  /\ corpus' = [corpus EXCEPT ![Item] = Torn]
  /\ End("died") /\ cut' = cut \cup {"build"}
  /\ UNCHANGED <<vocab, tm, ztm, clock, cache>>

Next ==
  \/ Tick \/ StartFetch \/ Download \/ DownloadFails \/ FetchTm \/ Convert \/ FetchEnds \/ RemoveTm
  \/ FetchDies \/ StartBuild \/ NextItem \/ BuildEnds \/ FetchText \/ FetchTextFails \/ FetchTextDies
  \/ TextsFetched \/ TakeRound \/ Interleaved \/ Write \/ WriteDies

Spec == Init /\ [][Next]_vars

(***************************************************************************)
(* Properties                                                              *)
(***************************************************************************)
\* When fetch_vocabs.py reports that all vocabs are present, the conversion was made from the
\* TokenMonster vocab that is there, also when that was fetched again in the meantime, unless
\* one was cut short while it was written (fetch_vocabs.py:285-314, 355-357).
ConversionIsOfThisVocab ==
  job.pc = "idle" /\ job.exit = "present" =>
    /\ tm # Absent /\ tm.whole /\ ztm # Absent
    /\ ztm.whole => ztm.version = tm.version
    /\ "fetch" \notin cut => ztm.whole

Balanced(content) ==
  \A j, k \in DOMAIN content.taken :
    content.taken[j] > content.taken[k] + 1 => content.taken[k] = content.pools[k]

\* Whatever failed to download, a corpus that was written has its shape: the works of the
\* English one differ by at most a line unless one ran out, and it is short only when all
\* did; each language has the same share; and nothing but a write that was cut short leaves a
\* text in the cache or a corpus that is not whole (build_corpora.py:43-132, 231-350, 627-646).
CorporaKeepTheirShape ==
  /\ corpus["english"] \notin {Absent, Torn} =>
       LET content == corpus["english"]
       IN Balanced(content) /\ Sum(content.taken) = Min2(Target, Sum(content.pools))
  /\ corpus["multilingual"] \notin {Absent, Torn} =>
       \A k \in DOMAIN Languages :
         corpus["multilingual"][k].fetched + corpus["multilingual"][k].padded = Target \div Len(Languages)
  /\ "build" \notin cut => /\ \A s \in Works : cache[s] \in {Absent, Lines[s]}
                          /\ \A c \in ToSet(Corpora) : corpus[c] # Torn
=============================================================================
