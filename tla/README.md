# A verification of ztok in TLA+

ztok is a tokenizer written in Zig: encoders (BPE, Unigram, WordPiece and others), the
loaders, trainers and tools around them, a C ABI, and an HTTP / gRPC-Web server. Around it
there is Python: the package that binds the library, the programs that fetch, convert and
compare vocabs, and a training experiment with its data preparation. This directory holds TLA+
models of the parts in which something can go wrong that a unit test would hardly reach, the TLC
configurations that check them, and proofs, checked by TLAPS, of what matters most. `PROJECT.json` is the index: which definition stands for which lines, what
each run checks, which change of the model breaks which property.

Paths of `.zig` files below are relative to `src/src/`, those of `.py` files to `src/`, where
`nanogpt/` is short for `experiments/nanogpt_superposition/`.

## 1. The system

### 1.1 Components

| Component | State | Operations | Interacts with |
|---|---|---|---|
| Batch worker pool (`thread_pool.zig`) | plain task fields, atomics `generation`, `task_cursor`, `done_count`, `exit_flag`, two futexes, one arena per worker | `initWithOptions`, `runBatch`, `runBatchPartitioned`, `deinit`, `helperMain` | pipeline and trainers call it; the server serialises its callers with `pool_mutex` |
| Connection pool (`connection_pool.zig`) | ring of jobs, `count`, `active`, `stopping`, a mutex, three condition variables | `init`, `submit`, `waitIdle`, `deinit`, `workerMain` | the accept loop submits connections, the workers run the request handlers |
| Rate limiter (`cli_serve.zig` 1370-1510) | a table of buckets, `tick`, a mutex | `tryAcquire`, `maybeEvict` | called by every connection worker before it serves a request |
| BPE merge loops (`bpe.zig`, `bpe_heap.zig`, `simd_min.zig`, `merge_graph.zig`) | a chunk's symbols, their cached pair ranks, a heap or a list | shifting loop, linked loop, heap loop, longest match, optimal parse | the encoder of the pipeline; private to a worker |
| In-memory prefix cache (`prefix_cache.zig` 96-470) | nodes in an array, LRU links, a map, an arena | `lookup`, `insert`, `evictTail`, `compact` | in front of the persistent cache |
| Persistent prefix cache (`prefix_cache.zig` 550-1061) | a log file and its lock file, an index of offsets, counters | open and scan, `lookup`, `insert`, `sync`, compaction, `close` | processes exclude each other with a lock; the server wraps it in `cache_mutex` |
| Pretoken cache (`pretoken_cache.zig`) | two-way set-associative entries, spill storage | `getPrepared`, `putPrepared` | private to a worker, reads nothing shared |
| Streaming encoder (`stream.zig`) | carry buffer, output | `feed`, `finish` | asks the pre-tokenizer for a cut, calls the pipeline on what lies before it |
| Pre-tokenizers (`pretok.zig`, `cl100k.zig`, `o200k.zig`, `hf_bytelevel_pretok.zig`) | none | `split`, `findSafeCut` | called by the pipeline, by streams and by the chunked encoding |
| Pipeline (`pipeline.zig` and others) | configuration, per-batch results | `encode`, `encodeBatch`, chunked encoding, `decode` | dispatches on the batch worker pool |
| HTTP server (`cli_serve.zig`) | config, the mutexes `pool_mutex`, `cache_mutex`, `oidc_mutex`, gauges | accept loop, `handleConnection`, handlers | composes all of the above |
| OIDC validation (`auth_oidc.zig`) | the key set and when it was fetched | `refreshJwks`, `validateBearerRefreshing` | under `oidc_mutex` |
| Metrics (`metrics.zig`) | atomic counters and gauges | `inc`, `observe`, `render` | written by every worker |
| Python bindings (`bindings/python/ztok`) | the loaded library, wrapper objects with handles and finalizers, generators over streams | constructors, `encode`, `encode_batch`, `encode_stream`, `decode`, plans, `close` | every call enters the library without the interpreter lock; the collector and other threads run meanwhile |
| Experiment trainer (`nanogpt/train.py`, `config.py`, `dataset.py`, `superposition/recovery.py`) | counters, generators, prefetched batch, telemetry window; checkpoints and their sidecars on disk | schedules, primer, step, evaluation, checkpoint, resume, extension | a worker thread draws the next batch; a profiler in another process acknowledges steps |
| Dataset mapping (`nanogpt/superposition/dataset_mapping.py`, `map_dataset.py`, `retrieve_*.py`) | the pairs not yet looked at, clusters, superbatches | retrieval, validation, decisions, clustering, packing | three programs in a row, over files |
| Data preparation (`nanogpt/prepare_data.py`, `materialize_corpus.py`, `make_matrix.py`) | a directory of arrays, index and metadata per tokenizer, a text view, the matrix | selection, split, append, seal, view, pairing | each reads what another wrote, perhaps only partly |
| Benchmark fixtures (`bench/fetch_vocabs.py`, `bench/corpora/build_corpora.py`) | downloads, a conversion, a text cache, corpora | fetch, convert, build | run again and again over what earlier runs left |
| TokenMonster converter (`bench/convert_tm_to_ztm.py`) | tokens by id, aliases, alternatives | parse, ladder of alternatives, write | read back by the reports and by ztok |
| Equivalence check (`bench/equivalence_check.py`, `tm_diff_report.py`) | two dumps, statistics, records | dump, compare, categorise | runs ztok and the reference as programs |
| Everything else | none that outlives a call | pure functions of bytes, ids or files | see `components` in `PROJECT.json` |

### 1.2 What is hard, and what makes each part correct

* **Batch worker pool.** A batch is described in fields that are neither atomic nor locked.
  Correct: nobody writes them while a helper may read them; each item of a batch runs once,
  with that batch's context, between the call and the return; no wakeup is lost although
  futex waits may return at any time and the generation wraps; a failed spawn can be undone.
* **Connection pool.** Several waiters per condition variable and `signal` instead of
  `broadcast`. Correct: jobs start once and in order; no job, producer or owner waits while
  nobody is on the way to wake it; `waitIdle` returns only when nothing is queued or running.
* **Rate limiter.** The clock is read before the mutex is taken, so readings arrive out of
  order. Correct: nobody is refused within the rate or granted more than it, and a client
  that keeps asking is never evicted.
* **Merge loops.** Three implementations of one algorithm with cached ranks that go stale.
  Correct: each merges the leftmost pair of the lowest rank until none is left.
* **Persistent prefix cache.** A log that processes open one after the other, that crashes
  cut anywhere and that compaction replaces. Correct: an insert that returned is found by
  whoever opens the log next, a lookup agrees with the last insert and never mixes up two keys
  of one hash, and a power failure loses nothing that was synced.
* **In-memory prefix cache.** An array with swap-remove, a list threaded through it by
  indices, a map into it and an arena that moves, and an allocation that may fail between any
  two. Correct: they agree, and callers see a map that forgets what was not used longest.
* **Python bindings.** Two threads, the collector and finalizers meet at handles. Correct: a
  call into the library gets handles that live until it returns, each is freed once, and
  `encode` ends with an answer however much room the library asks for.
* **Trainer.** A worker draws a batch ahead, in a shape the schedule may change before it is
  used; the process may die anywhere and resume from what it wrote. Correct: each step is the
  one that a run without worker, crash or resume would have taken; a checkpoint has counted
  what it contains; a run that nobody kills ends.
* **Dataset mapping.** Two greedy loops with a threshold relation that is not transitive.
  Correct: fused spans are compatible in pairs, each span is kept exactly once, the two
  examples of a superbatch agree on the order of what they share.
* **Offline tools.** Files that are written by one program, killed or short, and trusted by
  the next. Correct: what loads belongs together, two tokenizers are compared on the same
  documents, no spelling is lost in conversion, a dump that stops short is no difference.
* **Stream and chunked encoding.** Text that is cut where the caller happened to stop, or near
  equal parts, while whether a span goes on depends on bytes after the cut. Correct: the ids are
  those of the whole text, however it was fed or cut, also when feeds failed on the way.
* **Pretoken cache, rest of the pipeline, server.** Partial failure of a batch, keys refreshed
  under a lock, two callers of a pool that is not reentrant. These parts are not modelled
  (section 5).

## 2. The modules

| Module | Models | Checked by |
|---|---|---|
| `ForkJoin` | *abstract*: what a pool promises of a batch | refined by `BatchPool` |
| `BatchPool` | `thread_pool.zig` | run `batchpool` |
| `BatchPoolProofs` | proofs about it | TLAPS |
| `JobPool` | *abstract*: a queue of jobs handled once, in order | refined by `BoundedPool` |
| `BoundedPool` | `connection_pool.zig` | run `boundedpool` |
| `BoundedPoolProofs` | proofs about it | TLAPS |
| `RateLimiter` | the server's rate limiter | runs `tables`, `ratelimiter_slip` |
| `RateLimiterProofs` | proofs about it | TLAPS |
| `GreedyMerge` | *abstract*: greedy BPE on the live parts of a chunk | refined by both loops |
| `MergeHeap` | the heap loop of `bpe_heap.zig` | run `encode` |
| `MergeScan` | the shifting and the linked loop of `bpe.zig`, with `scanMin` | run `encode` |
| `MergeProofs` | proofs about both | TLAPS |
| `MinQueue` | *abstract*: a bag from which the least leaves | refined by `QuadHeap` |
| `QuadHeap` | the 4-ary heap of `bpe_heap.zig` | run `encode` |
| `Pretokens` | how the pre-tokenizers split a text, and where they let it be cut | through the next one |
| `TextCuts` | `stream.zig`, and the chunked encoding of `pipeline.zig` | runs `encode`, `chunked_o200k` |
| `LruMap` | *abstract*: a bounded map that forgets what was not used longest | refined by `PrefixLru` |
| `PrefixLru` | `Cache` of `prefix_cache.zig`: the in-memory prefix cache | runs `tables`, `prefixlru_oom` |
| `PrefixLog` | `PrefixCache` of `prefix_cache.zig`: the persistent prefix cache | runs `prefixlog`, `prefixlog_eio` |
| `PrefixLogProofs` | proofs about it | TLAPS |
| `CollectionTheorems` | lemmas about sums, orders, sequences and their concatenation, for the proofs of the limiter, the log and the trainer | TLAPS |
| `Schedules` | what `config.py`, `recovery.py` and `train.py` do at a given progress | through the next two |
| `TrainRun` | *abstract*: a run is a sequence of steps, each determined by those before it | refined by `Trainer` |
| `Trainer` | `train.py` with the prefetcher of `dataset.py`, over crashes and resumes | runs `trainer`, `trainer_resume` |
| `TrainerProofs` | proofs about it | TLAPS |
| `PyBinding` | `bindings/python/ztok` | run `python` |
| `DatasetMapping` | the retrieval programs, `dataset_mapping.py`, `map_dataset.py` | run `python` |
| `PythonProofs` | proofs about the binding's handles and `encode`, and about the mapping's clusters | TLAPS |
| `PreparedData` | `prepare_data.py`, `materialize_corpus.py`, `make_matrix.py` | run `python` |
| `BenchFixtures` | `fetch_vocabs.py`, `build_corpora.py` | run `python` |
| `TmConvert` | `convert_tm_to_ztm.py`, and the reader in `tm_diff_report.py` | run `python` |
| `StreamDiff` | `equivalence_check.py`, `tm_diff_report.py` | run `python` |

An `MC*` module extends its component for TLC; its `.cfg` gives the constants their values.
`MCEncode`, `MCTables` and `MCPython` put several components that share no state into one run:
the first state chooses one of them (`loop`, `table`, `tool`), and the variables of the others stay as they are.
Definitions whose comment begins with *Fault:* are not part of any specification: each is a
plausible mistake in the code line it stands next to, and `PROJECT.json` says which property
notices when it takes that line's place.

### 2.1 BatchPool

Worker 0 is the calling thread. `pc` says what each thread does next; one action is one
atomic access, one futex call, or one run of plain accesses. `ResetCursor`, `ResetDone`,
`Bump`, `Wake`, `Await`, `WaitDone` are the caller's lines 923-946 in order;
`LoadGeneration`, `CheckGeneration`, `WaitGeneration`, `CheckExit`, `ReadTask`,
`ClaimNext` / `ClaimOwn`, `RunItem`, `SignalDone`, `WakeCaller` those of `helperMain`.
`RunBatchSerial` is the path for one worker. The descriptor `task` is written in one step,
which is right only because no helper reads it meanwhile: `NoDescriptorRace` says so and is
proved. A parked helper is one whose `pc` is a parked state; a futex wait compares and parks
in one step and may return without a wake. `ran[b][i]` counts the runs of each item.

### 2.2 BoundedPool

One action is one critical section of the one mutex. To wait is to release the mutex and park
in the same step; a woken thread takes the mutex and tests again; wakeups may be spurious.
Jobs are numbered in the order of the calls. The owner calls `deinit` only when no producer
is inside `submit`, as the accept loop does (it is owner and only producer); three producers
are modelled all the same, because the pool's own interface allows them before `deinit`.
Under that contract `error.PoolStopping` cannot be returned, so no action returns it. What
happens otherwise is not modelled: `deinit` wakes only the workers, and a producer parked on
`not_full` would stay parked.

### 2.3 RateLimiter

`ReadClock` is `tryAcquire` up to the mutex, `AdmitNew`, `Decide` and `FailOpen` are what
happens under it, evictions included. Time is an integer number of quanta and a token is
divided so that a quantum refills a whole number of parts: the code's `f64` is exact
arithmetic here. `ledger` and `before` are history that the properties speak of: of each client
how many requests were granted at readings up to each moment, what was spent since its bucket was
last full, and whether an older reading was ever used after a newer one; and which clients asked
before which others.

### 2.4 The merge loops

The vocab and the text together are a table of ranks, chosen in `Init`: every table is
explored, so every vocab and every text of that length are. `MergeHeap` is
`encodeWithFallback`: `PopStale` skips a node that no longer agrees with the cache,
`PopMerge` merges. The heap is the bag of its nodes and the top is the least of them;
`QuadHeap`, which models the array with `siftUp`, `siftDown`, `heapify` as written, refines
`MinQueue`, which is what makes that abstraction fair. `MergeScan` has both short-chunk
loops; in the linked one a pair's rank may depend on where it is split, as in the merge graph.
All three refine `GreedyMerge`, through the set of live parts.

### 2.5 Pretokens and TextCuts

`Pretokens` has the alternatives of each pattern (`MatchWord` to `MatchWs`, tried in order by
`MatchOne`), `Split`, and the rule by which each pre-tokenizer lets a text be cut (`IsSafeCut`,
`FindSafeCut`). Bytes are classes: a letter, two kinds of punctuation, a blank, a newline, and
the two bytes of a white space that is not ASCII; a lead byte whose continuation has not come yet is
a letter, as `decodeAt` makes it. Tokens stand for their spans: the model maps each span on its own,
so two texts that are split alike have the same ids. In `TextCuts` a behaviour is a text, and
either a stream that is fed it in any pieces (`Feed`, `Finish`), each of which may fail after the
piece was kept (`FeedFails`), or one chunked encoding (`EncodeChunked`). `CutsAreInvisible` is the
promise of both. It needs what is said here, and what the runs assume:

* the pattern of o200k, and tekken's, breaks it: section 6;
* a line is shorter than the `search_window` of a stream, 16 KiB. `findSafeCut` takes the end of
  the text for a safe cut (`cl100k.zig` 28, 67-71), so that a stream whose window holds no newline
  emits all it holds, its last byte included, at the end of the piece it was fed. `stream.zig` 181-182
  says the last byte is never emitted, and 17-20 that a stretch without a cut is held up to 1 MiB: the
  forced cut at that cap is reached only with a window of 0;
* a piece ends at the end of a character, except under `identity`. If it ends inside a white
  space of several bytes that follows a newline, the lead byte counts as the letter that makes the
  newline a safe cut, and the newline is split from white space it belongs to.

### 2.6 PrefixLog

Two processes share a path, its lock file and the inodes behind them. `CallOpen`, `TakeLock`,
`OpenFile`, `Header`, `Scan` are `openPersistent` in order, with the ways it fails
(`BadHeader`, `HeaderFails`, `ScanFails`); `CallInsert`, `WriteCell`, `IndexRecord`,
`InsertMem`, `MaybeSync` and `InsertReturns` or `InsertCompacts` are `insert` in order, with
an error action for each step that can fail; `Lookup`, `Sync`, `CompactNow` and `Close` are
one step each, because the process that holds the lock is alone and nothing they do half can
be told apart after a crash: compaction works on a new file until its rename. A record is a
row of cells, written one by one; a torn record is a row that is not complete. `Offsets` is
the scan: where the records lie that are found one behind the other. Offsets count cells and
leave out the header. `mem` is the cache in memory as a list of entries, latest first.
`lookupOrInsert` is a lookup followed by an insert. The history `acked`, `doubt`, `hope` says
what callers were told: the last insert that returned, later ones that did not, and what a
power failure may leave.

What is assumed of the system underneath: a rename is durable once the renamed file has been
synced, as journaling file systems have it (compaction never syncs the directory); a
truncation reaches the disk before what is written after it; of what was not synced, a power
failure loses any tail and one run of cells, which read back as what was synced there, zeros
or rubbish; the checksum tells rubbish from a record, except that zeros parse as a record
without key and ids, whose checksum is zero as well. The last is why the index also has
hash 0. The lock of a process that dies is free.

### 2.7 PrefixLru

`cache` has the fields of the struct; each function of the source is an operator from one
cache to the next (`Unlink`, `LinkAtHead`, `Touch`, `EvictTail`, `Compacted`), and each call is
one action, since the cache has no lock and its caller has. `InsertFails` and `OverwriteFails`
have one outcome for each allocation that may fail. A node's `ids_ptr` is the number of a block
in the arena, and compaction makes new blocks, so an old pointer leads elsewhere or nowhere.
`Listed` reads the cache as a caller would, from the head on; through it `PrefixLru` refines
`LruMap`. `PrefixLog` has the same promise in its `MemPut` (a store) and `MemShort` (a store
that failed). `lookupOrInsert` is a `Hit`, or else a store of what the pipeline made of the key.

### 2.8 Schedules, TrainRun and Trainer

`Schedules` are the pure functions: shapes, phases, multipliers, learning rates and the soft
curriculum at a progress through the budget. Fractions are twentieths and are compared by
cross-multiplying; a learning rate is the branch that gives it with the arguments it reads.
`Trainer` is the process: `Start` and `Resume`, the primer (`PrimerStep`, `PrimerEnds`), the
loop (`LoopTop` with head split and change of shape, `NextBatch` or `SampleBatch`, `TrainStep`,
`ProfileStep`, `Report`), `CloseLoop`, and a save in three steps (`SaveBegins`, `SaveEnds`,
`SaveSidecar`); `Produce` is the worker thread, `Acknowledge` the profiler, and `Crash` may come
anywhere. The model with its optimizer is the sequence of steps that trained it, and the
sampling generator the sequence of shapes drawn from it, so that two runs are equal exactly if
all their batches, modes and rates are. `TrainRun` draws each batch as it is needed and adds
progress up from the steps; `Trainer` refines it. `MayCount` is the refusal to count device time that is not
measured at each step (`train.py` 732-735). A byte is a token and a step takes one unit
of time; the networks, the losses and the values of evaluations are left out.

### 2.9 PyBinding

One action is what a thread does between two calls into the library; the library's objects are
`native`, Python's are `wrapper` (a handle, a live finalizer), `held` says what the program
refers to, `stream` the generator over each pipeline. Methods are classes by how they call the
library. `Garbage` is what neither a variable, a frame nor a generator refers to. The contract
assumed of the program is at the head of the module: nobody closes what another thread is using,
and a pool serves one batch at a time. A text is its size, its tokens and the room the library
wants while it writes them.

### 2.10 The offline programs

`DatasetMapping` is three programs in a row: a retrieval of pairs of examples or none,
`build_dataset_superposition_plan` with its two greedy loops (`Consider`, `Pack`, one pair per
step, best first), and `map_dataset.py`'s account. Cosines and likenesses are part of the
input. `PreparedData` writes the arrays document by document, index and metadata last, and may
die at each step and be started over what it left. `BenchFixtures` has both programs, their
failing downloads and writes, their deaths, and a clock for modification times. `TmConvert` walks the entries
and then, for each spelling, its parts from the longest down (`TryLength`). `StreamDiff` dumps,
compares and reports; the library's decoder, under which a token may shorten the text before it,
is external (`Stitch`, `Decode`).

In the converter two comments contradict each other. The one at the head of the parser (183-190)
says that the first spelling of an id becomes its token, and that the shortest is preferred for
it; the one inside the loop (226-231) says the longest, and so does the code (232-238) and the
model. The first is wrong, and `SpellingsSurvive` takes no side: it says that each spelling stays,
as the token or as an alias.

Some things the code does here contradict no document. `prepare_data.py` over an old directory
truncates the arrays and leaves metadata and index of the old preparation until the end: killed in
between, the directory may still be accepted, with an index and arrays that do not belong
together. `SealedIsWhole` speaks of a directory that no preparation has ended yet, and of one
whose last preparation ended; of this one, between the two, it says nothing.
In the same way `materialize_corpus.py` that dies leaves a torn text, perhaps under an old
manifest, and `ViewIsOfTheSelection` speaks of a text that was written to its end. The two copies
of the rule that stops a selection differ on a limit of 0 bytes: it is no limit in
`materialize_corpus.py` (47), and stops `prepare_data.py` after one document (313-316). The model
has both; the property holds since no directory is sealed under that limit, one document being
too few for two splits. A download, a cached text or a corpus that was torn counts as present
from then on (`bench/fetch_vocabs.py` 227-282, `build_corpora.py` 58-73 and 634-641, without
`--force`), and for a language `build_corpora.py` swallows the error that tore its text (254-258).
`FixturesAreSound` excuses the files of a program of which a write was cut short.

## 3. The runs

| Run | Instance | What it shows |
|---|---|---|
| `batchpool` | at most 3 workers, 3 items, 2 batches, generation modulo 2 | no race on the descriptor; `DispatchInv` (which items have run); refinement of `ForkJoin`; every batch returns; every pool stops |
| `boundedpool` | 2 workers, a ring of 2 slots, 3 producers, 4 jobs | no lost wakeup; refinement of `JobPool`; jobs are handled; `deinit` returns |
| `tables` | the limiter: 3 clients, 2 threads, table of 2, 1 request per second in half seconds, 4 quanta, 5 requests; or the in-memory cache: 3 entries, 5 keys on 4 hashes, 0 to 2 ids, compaction as soon as anything is dead, 5 stores | nobody refused within the rate; nobody granted more when readings are used in order; only the longest silent client is evicted. Array, list, map and arena of the cache agree; refinement of `LruMap` |
| `ratelimiter_slip` | 1 client, 2 threads, whole seconds, 8 requests | *violation*: the documented rate is exceeded, see section 6 |
| `encode` | the heap loop on 5 units, both scanning loops on 4, ranks 0, 1 and none; an array of 6 slots, values 0 to 2; or texts of up to 4 characters (8 bytes) under 4 pre-tokenizers, without slashes, fed to a stream with a window of 20 or cut into up to 3 chunks with a window of 2 | list, cache and heap agree; all three loops are greedy; each pop of the array is the least node; `CutsAreInvisible` |
| `chunked_o200k` | texts of up to 4 characters, with slashes, in up to 3 chunks under o200k | *violation*: the ids show the cut, see section 6 |
| `prefixlog` | 2 processes, 3 keys on 2 hashes, records of 1 and 3 cells, sync every 2 writes, compaction at 50 percent, 1 entry in memory, 3 inserts, 2 opens, 2 mishaps | the opener is alone and its index is what a scan would find; nothing that was acknowledged is lost to crashes and errors; lookups agree; nothing that was synced is lost to a power failure |
| `prefixlog_eio` | the same, and a read of the scan may fail | *violation*: intact records are cut off, see section 6 |
| `prefixlru_oom` | the cache of `tables`, and the map may fail to grow | *violation*: the loop that makes room does not end, see section 6 |
| `trainer` | six configurations (below), 3 starts | what a checkpoint has counted is what it contains; refinement of `TrainRun`; every run ends |
| `trainer_resume` | the same, head split at 8 twentieths, 2 starts | *violation*: a checkpoint that cannot be resumed, see section 6 |
| `python` | one of the six components of 2.9 and 2.10 (below) | fourteen properties, each of its component |

Why these bounds are enough. *batchpool*: with three workers two helpers can be at different
ends of two consecutive batches, the only pair that the handshake lets overlap; three items
over three workers and fewer are all the shapes of a partition with remainder; two batches on
a counter modulo 2 make the second bump return to the first value. *boundedpool*: three
producers on a ring of two mean that two can be parked when one signal is sent; four jobs wrap
both indices twice. *tables*, the limiter: a third client overflows a table of two; a bucket of two
tokens is emptied and refilled within five requests. *encode*: five units allow a stale
node on both sides of a merge, ties between a stale and a current node, and a part that
outgrows its node; ranks only matter by their order and by whether they tie. Six slots of the
array make three levels, a full family of four children and a partial one. A cut is safe or not
by the two characters before it and the one after, so four characters hold a cut with a neighbour
on each side that makes the spans differ; a text of four bytes is cut in two, of six in three. *prefixlog*: three
inserts are one more than a sync covers, and make a replaced record, a collision and a
compaction; a record of three cells can lose its middle one and be overwritten by one that is
shorter; two opens see what a process left that was cut off, and two mishaps are an error and
a crash, or a crash and a power failure, on top of each other. Three inodes are enough: one
that has the name, one that would have it after a power failure, a new one. The processes are
interchangeable (`SYMMETRY`), and so are the numbers of the inodes, which `VIEW` leaves out: it
keeps what the two names lead to and whether a process has the file open that has the name,
and by `IndexInv` no process that uses its file has another one open. *tables*, the cache: three nodes
are the fewest in which the tail, the node that is moved into its place and a neighbour of both
are different; four hashes overflow them, and the fifth store acts on what an eviction left.
The map grows after 1, 2 and 4 entries instead of 6, 12 and 25. *trainer*: the configurations
are shapes that grow with the bytes read, after a primer and with the late decay; groups of two
on estimated compute, with a batch that grows and a profiler that waits twice; device time
without a prefetcher, extended on resume; a head split; a context that does not divide into groups,
and device time that nothing measures, which are refused. Four or five
steps hold a change of shape, an evaluation, two checkpoints and an open window at the end; three
starts are a run, a resume and a resume of that. *python*: two threads, one pipeline, one pool
and six calls hold a new object, an open stream, a close by both threads and a collection;
a text that needs three times its bytes of room uses up a factor of two more than once. Four
examples of one or two spans, with a middle span that is like both of two unlike ones, is what
chaining needs, and three examples that all want the same partner what packing needs; dates,
literals, missing confidence and an overlap are inputs. A key of four characters over every
class the ladder tells apart, with every choice of its parts in the vocab, is a ladder of three
rungs on two slots. Streams of up to three tokens over seven kinds of token are all the ways two
segmentations of one text can cross at one place; the reference has an eighth kind, which the
converted vocab lacks. Three inputs, limits that are met exactly, a limit of 0 bytes and
three starts have a preparation, another and a view or a death in any order. Three downloads,
three works of one to three lines and two starts are a failure, a death and what the next run
finds.

`CHECK_DEADLOCK` is left on everywhere but in `python`: a finished system has an explicit
stuttering step (`Closed`, `Quiet`, `Returned`, `Done`, `Finished`, `Encoded`), everything else that stops is
an error. The programs of `python` simply come to their end.

### 3.1 Fairness

`BatchPool`: weak fairness of each thread's own step (`CallerStep`, `HelperStep(h)`): the
operating system schedules every runnable thread, and a parked thread has no step, so a lost
wakeup still shows as a violation. Spurious wakeups and failing spawns have no fairness, and
neither have the calls of the API: whether the caller starts another batch is its choice.
`Worker.run` is assumed to return. `BoundedPool`: the same for workers, for a producer that is
inside `submit`, and for the owner. A condition variable owes nothing to a particular waiter,
and the model gives it no fairness of its own. `Trainer`: weak
fairness of the process's own step, of its worker thread and of the profiler's answer, which the
bridge waits for without a timeout; nobody need start the program or kill it. `MergeHeap`,
`MergeScan`, `QuadHeap`, `TextCuts`, `RateLimiter`, `PrefixLru`, `PrefixLog` and the components of `python` are
checked for safety only:
a caller owes them no further call, and whether a lock is ever released is the caller's choice.

## 4. The proofs

The theorems hold for every value of the constants that the modules' assumptions allow
(`BoundsAssumption`, `GenModAssumption`, `PoolAssumption`, `LimiterAssumption`,
`ChunkAssumption`, `ConfigAssumption`, `InputsAssumption`, `LogAssumption`); these say that sizes are
naturals, that what must be positive is, that sets are finite and that the generation has at least
two values. `LogAssumption` says of the prefix log that an entry is a key and a number of cells of at
least one, that there are finitely many hashes, none of them 0, and that besides the file that is in
use and the one a power failure would bring back there is always a third inode.

* **BatchPool.** `TypeCorrect`, `HandshakeCorrect`, `NoRace`,
  `DispatchCorrect` and `Refinement`. Neither `NoDescriptorRace` nor
  `DispatchInv` is inductive. What makes the handshake work is a count: between two batches,
  `done_count` is the number of helpers that have answered the current generation, so the
  caller's test of it tells that none is left inside; that is why a counter of only two values
  does. On top of it the work invariant says, for each mode, which items of the running batch
  have run, which are in some worker's hands and which are still to be claimed.
  `Refinement` follows: each step is a step of `ForkJoin` or leaves its variables alone.
* **BoundedPool.** `PoolTypeCorrect`, `PoolCountsCorrect`, `NoLostWakeup`. The last bounds the
  waiters of each condition by the threads that are awake and on their way to the mutex.
  `PoolWorkCorrect` and `PoolImplementsJobPool`: the refinement of `JobPool`.
  The ring is read as a sequence from its head; a producer's last step is then an `Append` and a
  worker's first a `Tail`, with the indices wrapping around. That no job is handled twice needs
  that a job which waits is in one place only: with its producer, in one slot or with one worker.
* **RateLimiter.** `FairShareCorrect`: a token account. The bucket is compared with what was
  spent since it was last full and with the latest reading used since; one from the past adds
  nothing and takes nothing away. `OrderedRateCorrect` is the other side of that account. That no
  stretch of time has too many grants says nothing of what is left in the bucket, so it is not
  inductive; the invariant (`Metered`) says that for every start of a stretch, what the bucket holds
  pays for the grants since: tokens left plus tokens granted never exceed the capacity plus what was
  refilled from there to the last reading. One reading that is older than the one before breaks
  exactly this, which is the finding `ratelimiter_slip`. `EvictsLeastRecentCorrect`: the stamps in the
  table are distinct, none is ahead of `tick`, and their order is the one in which the clients asked;
  then the smallest stamp is that of the client that asked longest ago.
* **PrefixLog.** `TypeCorrect` and `IndexCorrect` hold as they stand; `DurableCorrect`,
  `AnswersCorrect` and `PowerSafeCorrect` assume `ReadFaults = 0`, a scan that reads what is there:
  with read faults `Durable` is violated, as the run `prefixlog_eio` shows. None of the five is
  inductive, and the proof has three invariants, each of which needs those before it.
  - *`LayoutInv`*: who is past the lock is alone and has the file open that has the name; `file_len`
    is an offset that a scan reaches (`Offsets`); each record of the index is the one a scan up to
    there would find, and what was written of the entry in progress lies behind it. Why appending
    keeps this is a fact about rows: cells behind an offset change neither which offsets before it a
    scan reaches nor what it finds there (`Agree`). Compaction needs the same of the concatenation of
    the live records, in whatever order the map has them.
  - *`HistoryInv`*: what the index finds of a hash is what was promised to the callers, the last entry
    acknowledged or one in doubt; and every cell behind `file_len` belongs to a record that would
    begin there or earlier, of an entry in doubt if it begins there (`Behind`). That is what makes
    cut-off writes harmless: a longer record that an error left behind `file_len`, of which a
    shorter one later overwrote the head, leaves cells there, but a scan that comes to them finds
    no record that begins among them.
  - *`HopeInv`*: each of the two files that a power failure may bring back has an offset up to which
    its synced and its current cells agree and hold what is hoped for, and behind which no record
    begins, in either, that is not. Whatever mix of the two rows, of zeros and of rubbish survives, a
    scan of it reaches that offset, and what it finds beyond is hoped for. That the two files need the same
    invariant, and not only the one that has the name, is what compaction adds: its rename may not
    be durable yet.
* **MergeHeap** (in `MergeProofs`). `HeapLoopInductive`, `HeapFits`, `CacheCurrent`, `HeapLoopIsGreedy`. The
  invariant has the tiling of the chunk by the live parts, the cache, and that every rank
  which merges has its node in the heap. `heapN + 2 * liveCount < 3 * N` is the reason why
  the buffer of `3 * n` nodes, which `push` only asserts, is never outgrown: a merge pops one
  node, pushes at most two and makes one part fewer.
* **MergeScan** (in `MergeProofs`). `ScanLoopsInductive`, `ScanLoopsAreGreedy`, for every chunk that is not empty. One invariant
  covers both loops: it speaks of the indices that are left and of the index behind each, which is
  the next one in the loop that shifts and the link in the other. The symbols at these indices tile
  the chunk in order (`Tiles`), and the rank of each pair that is left is current (`Current`), although
  only two ranks are refreshed after a merge. The linked loop scans its holes too: `Links` says
  that these, and the last symbol, have no rank that a scan could find, and that the links go both ways,
  which is what finds the left neighbour. Then the first of the least ranks is the leftmost pair of
  greedy BPE, since indices are in the order of the text. With `HeapLoopIsGreedy` this proves that all
  three loops compute the same tokens, so the thresholds between them cannot be seen.
* **Trainer.** `TrainerInductive`, `TypeCorrect`, `TelemetryCorrect`, `TrainerIsTheRun`, for every
  configuration whose fields have their types (`ConfigAssumption`), any number of starts and any coin.
  The counters are sums, and the specification adds up the steps: the invariant says of every trainer
  state, in the process or in a file, that its counters are the sums over the steps its model has seen
  (`Coherent`), and between two steps that its generator has drawn their batches and no other, and that
  its head was split as the last of them found it (`Settled`). In a step the generator is one batch
  ahead, and `Stepping` says which. A resume then needs nothing but that files are `Settled`. Two
  things are subtle. Device time is added when a window closes, so progress in `gpu_seconds` would lag
  behind the steps; that it does not rests on `MayCount`, which keeps every window closed. And a
  checkpoint at the end of the loop is whole because no window is open where a run is over (`Timed`): a
  step that was not due left the run unfinished. The last step being due (`TerminalDue`) is what this
  needs. What the worker draws is the next batch in the current shape (`Prefetched`), since `Reshaped`
  opens another on the generator as it was.
* **DatasetMapping.** `Cliques` and `Maximal`. `_cluster_spans` looks at each pair once, best
  first, and never again. The invariant says that the clusters are a partition into cliques and
  that a pair that was looked at is in one cluster or in two that may not be fused. The second is
  kept because a refusal is for good: if two clusters may be fused then so may any of their parts
  (`FusesShrinks`), so what was refused stays refused as clusters grow; with no pair left to look
  at, two clusters that may be fused would contain a pair that was accepted and refused.
* **PyBinding.** `LiveHandles`, `FreedOnceCorrect` and `EncodeAnswersCorrect`, the first two without an
  assumption on the constants:
  any threads, objects and calls. That a handle given to the library lives is not inductive,
  because an object may be closed, collected or made by another thread meanwhile. `BindInv` adds
  what rules that out: who closes, iterates or makes an object excludes the others that would
  be hurt; a handle that can be read and that something still reaches is live, unless its
  object is being closed; a stream is open only over a live pipeline that nobody closes; and what
  is not made yet is known to its constructor only. The contract at the head of `PyBinding`
  enters through the first of these. `EncodeAnswersCorrect` has a hypothesis about the texts: the room
  their tokens need is at most 2^(`Tries` - 1) times their size, 128 tokens per byte with the eight
  tries of the code. A byte makes one token at most in most vocabs; special templates add a few.
  `TryInv` says why that is enough: at try `k` the buffer has room for at least 2^`k` times the size.

The type invariants of the pools, the limiter, the merge loops, the prefix log and the trainer are
proved, and no run checks them again; that of `PrefixLru` was checked while the module was
written. The proof modules need no assumption beyond the modules' own, but for the hypotheses
named above: `ReadFaults = 0`, a chunk that is not empty, and the room of a text.

The scan of the log is a recursive function (`Offsets`), and so are the sums and concatenations of the
community modules. What the proofs need of these is shown from their defining equations, by the
least counterexample: if a set of numbers is not empty it has a least element, and the
equation carries the claim to it from below (`CollectionTheorems`). Induction theorems that take
an operator are not used.

Out of the prover's reach, and left to the model checker: liveness (`BatchReturns`, `PoolStops`,
`JobsHandled`, `DeinitReturns`, `RunsEnd`) and what `RECURSIVE` operators compute (`QuadHeap`'s
sifts). Only model-checked so far: everything of `TextCuts` and `PrefixLru`, and the components
of `python` except `PyBinding` and the clusters of `DatasetMapping`, of which `PlanIsFaithful` is left.

## 5. What is not modelled

* CPU and NUMA topology, pinning, huge pages, arena sizing: no step of a protocol reads them.
* The bytes: hashing of the hot table, SIMD lanes, tables of characters, normalization tables.
* In `Pretokens`: letter case, digits and contractions, whose matches never reach across white
  space; tekken, whose pattern ends like o200k's; chains of operations, which chunked encoding declines.
  In `TextCuts`: added tokens, and ids the C ABI loses when it cannot hand them over.
* The pretoken cache, `encodeBatch`'s error path, the server's composition
  of its locks, and the OIDC refresh: next in the plan.
* The networks, losses and evaluations of the experiment, and the scripts that annotate, plot and
  report: arithmetic on tensors and text.
* Parsers and writers of vocab formats, vocab trainers, reports, chat templates, command line, C
  ABI and the bindings of languages other than Python: sequential code without state that outlives a call. The table
  `components` gives the reason for each.
* The dependence of BPE on the vocab beyond ranks: a rank table stands for it.

## 6. Findings

`ratelimiter_slip` — the server documents `N` requests per second with bursts of `2N`
(`cli_serve.zig` 24-25), and a mutex that makes the limiter fit for a concurrent server
(1377-1379). `tryAcquire` reads the clock before it takes the mutex, and the refill stores the
reading it is given even if it is older than the stored one. Two workers suffice: A reads the
clock, B reads it later and is served first, A is served and moves `last_refill_ns` back, and
the next request is credited the same time again. `OrderedRate`, proved, shows that the order of the
readings is the only cause, and `FairShare`, proved, that the error is never to a client's
disadvantage.

`prefixlog_eio` — the scan on open is documented to truncate the log at the first *structural*
error, a short record or a bad checksum (`prefix_cache.zig` 675-677), so that a torn write is
recoverable and a record that is on disk is picked up by the next open (731-732). The code
ends the scan in the same way when a read fails (922, 936) or the buffer of a record cannot be
allocated (934), and then truncates (959): one transient error on open removes every record
behind it for good. Without such errors `Durable` holds, which `prefixlog` checks and
`DurableCorrect` proves.

`prefixlru_oom` — `insertInternal` evicts "until there is room for one more entry"
(`prefix_cache.zig` 357-360), appends the node to the array (373) and puts it in the map (383).
If the map cannot grow, the error is returned and the node stays behind, in the array but in no
list. `evictTail` frees only what is in the list: once such nodes fill the array, it returns
without having freed anything (425), and the loop calls it for ever. With an array that only
has some of them, a later eviction may move one into the map (444) but not into the list.

`trainer_resume` — the experiment promises checkpoint and resume (`nanogpt/README.md` 59) and that
a resume preserves the model, the optimizer, the sampling and the state of the generators (202).
In the loop the head is split at the top of a step, from the progress before it
(`nanogpt/train.py` 952-959); the checkpoint is written at the end of the step, when the counters
have moved on (1154-1161, 1263-1278). A resume derives from the saved counters whether the head
was split (660-673) and splits the new model before it loads the saved one (674-681). If the step
that ends in the checkpoint is the one that crosses the fraction, the file holds a tied head and
counters that say split, and `load_state_dict` refuses it. `trainer` has the same configuration
with a fraction that no checkpoint meets in this way.

`chunked_o200k` — `pretok.zig` 87-89 lets a text be cut for o200k where cl100k's rule allows it, since
their boundaries "are the same", and `encodeChunked` promises ids "bit-identical" to `encode`
(`pipeline.zig` 1066). But punctuation in o200k may be trailed by slashes as well as newlines
(`o200k.zig` 297): in `.`, newline, `/` all three are one span, and cl100k's rule cuts it after the
newline. A line that ends in punctuation before a line that begins with `/`, as in source code with
`//` comments or in lists of paths, gets other ids if a chunk or a stream's cut falls between
them. `tekken_pretok.zig` 267 has the same pattern under the same rule. `encode` has o200k on texts without
slashes: nothing else in its pattern shows a cut.

## 7. Plan

1. *(done)* The pools, the rate limiter and the merge loops, with their abstract
   specifications and the first theorems.
2. *(done)* The persistent prefix cache with crashes and power failures, the in-memory cache with
   failing allocations.
3. *(done)* The Python side: the bindings, the trainer with its abstract specification, the data and
   benchmark programs; the clusters of the dataset mapping proved.
4. *(done)* `TextCuts` over `Pretokens` — feed, safe cuts and the forced cut, and chunked encoding:
   ids do not depend on how text is fed or cut.
5. `ServeBatch` — composition: connection workers, `pool_mutex`, `cache_mutex`, OIDC refresh
   under `oidc_mutex` and the gauges, over the abstract `JobPool` and `ForkJoin`.
6. Pretoken cache, `encodeBatch`'s error path, `encodeLongestMatch` and the dynamic program
   of the optimal parse against a reference definition.
7. *(done)* Theorems: `CallsGetLiveHandles` and `FreedOnce` of the bindings, `ImplementsJobPool`.
8. *(done)* Theorems: `OrderedRate` and `EvictsLeastRecent` of the limiter, and the prefix log:
   `IndexInv`, `Durable`, `Answers`, `PowerSafe`; `EncodeAnswers`; the refinement of `GreedyMerge` by
   `MergeScan`.
9. *(done)* Theorems: `TelemetryInv` and the refinement of `TrainRun` by `Trainer`.
10. Theorems: `PlanIsFaithful` (its models would need integers typed, and counts over a plan without
    `SelectSeq`), `Consistent` and the refinement of `LruMap` by `PrefixLru`, `CutsAreInvisible`.
