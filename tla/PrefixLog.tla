------------------------------ MODULE PrefixLog ------------------------------
(***************************************************************************)
(* prefix_cache.zig, PrefixCache: a cache of encoded prefixes that lives   *)
(* in an append-only file.  A process that opens it takes an advisory lock *)
(* on a file next to it, scans the records, and keeps an index of their    *)
(* offsets by the hash of the key.  Records that were replaced are dead;   *)
(* compaction writes the live ones to a new file and renames it over the   *)
(* old one.                                                                *)
(*                                                                         *)
(* An entry is <<key, n>>: the ids are told apart by the room their record *)
(* takes, n cells.  A cell is the unit that is written, or lost, as a      *)
(* whole; cell j of entry e is <<e, j>>, and the checksum tells any other  *)
(* row of cells from a record.  Offsets and sizes count cells, without the *)
(* header.  A crash may come between any two steps; a power failure keeps  *)
(* what was synced, and any part of the rest.                              *)
(***************************************************************************)
EXTENDS Integers, Sequences, FiniteSets, FiniteSetsExt, SequencesExt

CONSTANTS
  Procs, NoProc,
  Entries,      \* what may be inserted, as <<key, n>>
  NoKey,
  Hash,         \* Wyhash of each key: a positive number, collisions included
  Inodes,       \* bound: the files that exist at a time
  SyncEvery,    \* sync_every_n_writes
  StalePct,     \* compact_at_stale_pct
  MemCapacity,  \* in_memory_capacity
  ReadFaults,   \* 1: a read or an allocation of the scan may fail
  MaxInserts,   \* bound: calls of insert
  MaxOpens,     \* bound: calls of openPersistent
  MaxMishaps    \* bound: errors, crashes and power failures

Keys   == {e[1] : e \in Entries}
Hashes == {Hash[k] : k \in Keys}

ASSUME LogAssumption ==
  /\ NoProc \notin Procs
  /\ NoKey \notin Keys
  /\ Hash \in [Keys -> Nat \ {0}] /\ IsFiniteSet(Hashes)
  /\ \A e \in Entries : e = <<e[1], e[2]>> /\ e[2] \in Nat \ {0}
  /\ 1 \in Inodes /\ Inodes \subseteq Nat \ {0}
  /\ \A i, j \in Inodes : Inodes \ {i, j} # {}
  /\ SyncEvery \in Nat /\ StalePct \in Nat /\ MemCapacity \in Nat \ {0}
  /\ ReadFaults \in {0, 1}
  /\ MaxInserts \in Nat /\ MaxOpens \in Nat /\ MaxMishaps \in Nat

VARIABLES
  name,        \* the inode the path leads to, and
  durableName, \* the one it leads to after a power failure
  file,        \* what the inodes hold: [hdr, cells], and
  disk,        \* what of it was last synced
  lock,        \* who holds the sidecar lock
  pc, fd,      \* where each process is, and the inode it has open
  cur,         \* the entry that is being inserted, and
  written,     \* how many of its cells are
  fileLen, index, dead, unsynced,  \* of the process that has the cache open:
  mem,                             \* see TypeOK
  inserts, opens, mishaps,         \* how often, for the bounds
  power,       \* history: how often the power failed
  acked,       \* history, per hash: the last entry that was inserted without error;
  doubt,       \* those inserted since with an error, a crash, or no answer yet;
  hope         \* what may be there after a power failure: see PowerSafe

fileVars   == <<name, durableName, file, disk>>
procVars   == <<lock, pc, fd>>
curVars    == <<cur, written>>
cacheVars  == <<fileLen, index, dead, unsynced, mem>>
boundVars  == <<inserts, opens>>
mishapVars == <<mishaps, power>>
history    == <<acked, doubt, hope>>
vars == <<fileVars, procVars, curVars, cacheVars, boundVars, mishapVars, history>>

None == <<NoKey, 0>>

\* Zeros parse as the record of no key and no ids: its hash and its checksum are zero.
Zeros == <<NoKey, 1>>
Torn  == <<None, 0>>

HashOf(e)   == IF e[1] = NoKey THEN 0 ELSE Hash[e[1]]
RecordOf(e) == [j \in 1 .. e[2] |-> <<e, j>>]

NoRecord == [at |-> 0, size |-> 0]
NoIndex  == [h \in {0} \cup Hashes |-> NoRecord]
NoFile   == [hdr |-> "none", cells |-> <<>>]

Init ==
  /\ name = 1 /\ durableName = 1
  /\ file = [i \in Inodes |-> NoFile]
  /\ disk = [i \in Inodes |-> NoFile]
  /\ lock = NoProc
  /\ pc = [p \in Procs |-> "closed"]
  /\ fd = [p \in Procs |-> 0]
  /\ cur = None /\ written = 0
  /\ fileLen = 0 /\ index = NoIndex /\ dead = 0 /\ unsynced = 0 /\ mem = <<>>
  /\ inserts = 0 /\ opens = 0 /\ mishaps = 0 /\ power = 0
  /\ acked = [h \in Hashes |-> None]
  /\ doubt = [h \in Hashes |-> {}]
  /\ hope = [h \in Hashes |-> {None}]

-----------------------------------------------------------------------------
(* Records in a row of cells.                                              *)

\* The entry whose record lies at offset at, or None.
EntryAt(c, at) ==
  LET e == IF at < Len(c) THEN c[at + 1][1] ELSE None
  IN  IF at + e[2] <= Len(c) /\ SubSeq(c, at + 1, at + e[2]) = RecordOf(e) THEN e ELSE None

\* Where the records lie that a scan finds, one behind the other.
Offsets(c) ==
  LET ends == [m \in 0 .. Len(c) |-> m + EntryAt(c, m)[2]]
      reached[n \in 0 .. Len(c)] ==
        n = 0 \/ \E m \in 0 .. n - 1 : ends[m] = n /\ reached[m]
  IN  {n \in 0 .. Len(c) : reached[n]}

\* The index of the records that lie before offset end: the last one of a hash counts.
IndexOf(c, end) ==
  LET records == {n \in Offsets(c) : n < end /\ EntryAt(c, n) # None}
      last(h) == Max({n \in records : HashOf(EntryAt(c, n)) = h})
      found == {HashOf(EntryAt(c, n)) : n \in records}
  IN  [h \in {0} \cup Hashes |->
         IF h \in found THEN [at |-> last(h), size |-> EntryAt(c, last(h))[2]] ELSE NoRecord]

\* The cells of the records that an index names.
LiveCells(ix) == SumFunction([h \in DOMAIN ix |-> ix[h].size])

\* What a record of the index holds.
Stored(c, ix, h) == IF ix[h] = NoRecord THEN None ELSE EntryAt(c, ix[h].at)

\* What the next scan of the file would find for each hash.
Replayed(f) ==
  LET ix == IndexOf(f.cells, Len(f.cells))
  IN  [h \in Hashes |-> IF f.hdr = "ok" THEN Stored(f.cells, ix, h) ELSE None]

-----------------------------------------------------------------------------
(* What becomes durable.                                                   *)

\* fdatasync of inode i.  A rename of the file is taken to be durable with it.
Synced(i) ==
  /\ disk' = [disk EXCEPT ![i] = file[i]]
  /\ durableName' = IF i = name THEN i ELSE durableName
  /\ hope' = [h \in Hashes |-> {acked[h]} \cup doubt[h]]

-----------------------------------------------------------------------------
(* openPersistent.                                                         *)

Goto(p, from, to) == pc[p] = from /\ pc' = [pc EXCEPT ![p] = to]

CallOpen(p) ==
  /\ opens < MaxOpens
  /\ Goto(p, "closed", "lock")
  /\ opens' = opens + 1
  /\ UNCHANGED <<fileVars, lock, fd, curVars, cacheVars, inserts, mishapVars, history>>

\* flock(LOCK_EX) blocks while another process has the cache.
TakeLock(p) ==
  /\ lock = NoProc
  /\ Goto(p, "lock", "open")
  /\ lock' = p
  /\ UNCHANGED <<fileVars, fd, curVars, cacheVars, boundVars, mishapVars, history>>

OpenFile(p) ==
  /\ Goto(p, "open", "header")
  /\ fd' = [fd EXCEPT ![p] = name]
  /\ UNCHANGED <<fileVars, lock, curVars, cacheVars, boundVars, mishapVars, history>>

\* Something goes wrong that is not the program's doing.
Mishap ==
  /\ mishaps < MaxMishaps
  /\ mishaps' = mishaps + 1
  /\ UNCHANGED power

\* The process leaves: its lock goes, and what it knew.
Leave(p) ==
  /\ pc' = [pc EXCEPT ![p] = "closed"]
  /\ fd' = [fd EXCEPT ![p] = 0]
  /\ lock' = IF lock = p THEN NoProc ELSE lock
  /\ IF lock = p
       THEN /\ cur' = None /\ written' = 0
            /\ fileLen' = 0 /\ index' = NoIndex /\ dead' = 0 /\ unsynced' = 0 /\ mem' = <<>>
       ELSE UNCHANGED <<curVars, cacheVars>>

\* An empty file gets its header; another one must have it.
Header(p) ==
  /\ Goto(p, "header", "scan")
  /\ file[fd[p]].hdr # "torn"
  /\ file' = [file EXCEPT ![fd[p]].hdr = "ok"]
  /\ UNCHANGED <<name, durableName, disk, lock, fd, curVars, cacheVars, boundVars, mishapVars,
                 history>>

\* The header is short, or no header.
BadHeader(p) ==
  /\ pc[p] = "header"
  /\ file[fd[p]].hdr = "torn"
  /\ Leave(p)
  /\ UNCHANGED <<fileVars, boundVars, mishapVars, history>>

\* It cannot be read, or not be written in full.
HeaderFails(p) ==
  /\ pc[p] = "header"
  /\ Mishap
  /\ file' = [file EXCEPT ![fd[p]].hdr = IF @ = "none" THEN "torn" ELSE @]
  /\ Leave(p)
  /\ UNCHANGED <<name, durableName, disk, boundVars, history>>

\* Fault: the file keeps what is behind the last good record.
KeepAll(c, end) == c

\* ftruncate to the end of the last good record.
Truncated(c, end) == SubSeq(c, 1, Min({end, Len(c)}))

\* Where the scan stops: at the first row of cells that is no record, or, since
\* every error is treated like that, at any record that cannot be read.
StopsAt(c) == IF ReadFaults = 1 THEN Offsets(c) ELSE {Max(Offsets(c))}

\* The truncation is not synced; it is taken to come before what is written later.
Scan(p) ==
  /\ Goto(p, "scan", "ready")
  /\ LET c == file[fd[p]].cells
     IN  \E end \in StopsAt(c) :
           /\ file' = [file EXCEPT ![fd[p]].cells = Truncated(@, end)]
           /\ disk' = [disk EXCEPT ![fd[p]].cells = Truncated(@, end)]
           /\ fileLen' = end
           /\ index' = IndexOf(c, end)
           /\ dead' = end - LiveCells(index')
  /\ unsynced' = 0 /\ mem' = <<>>
  /\ UNCHANGED <<name, durableName, lock, fd, curVars, boundVars, mishapVars, history>>

\* The index cannot grow, or the file cannot be cut: the open fails.
ScanFails(p) ==
  /\ pc[p] = "scan"
  /\ Mishap
  /\ Leave(p)
  /\ UNCHANGED <<fileVars, boundVars, history>>

\* closePersistent: the sync is best effort.
Close(p) ==
  /\ pc[p] = "ready"
  /\ Leave(p)
  /\ \/ Synced(fd[p]) /\ UNCHANGED <<name, file, acked, doubt, mishapVars>>
     \/ Mishap /\ UNCHANGED <<fileVars, history>>
  /\ UNCHANGED boundVars

-----------------------------------------------------------------------------
(* The in-memory cache, as an LRU list of entries, the latest first.       *)

\* Where an entry with the hash of e is: at one place at most.
SameHash(e) == {i \in DOMAIN mem : HashOf(mem[i]) = HashOf(e)}

Others(e) == IF SameHash(e) = {} THEN mem ELSE RemoveAt(mem, CHOOSE i \in SameHash(e) : TRUE)

\* mem.insert: replaces the entry of the hash, or evicts the last one if it has to.
MemPut(e) ==
  LET rest == Others(e)
  IN  <<e>> \o (IF Len(rest) = MemCapacity THEN SubSeq(rest, 1, MemCapacity - 1) ELSE rest)

\* What a failed insert leaves: the eviction comes first.
MemShort(e) ==
  IF Others(e) = mem /\ Len(mem) = MemCapacity THEN SubSeq(mem, 1, MemCapacity - 1) ELSE mem

\* Fault: the key is not compared.
AnswerByHash(p, k) ==
  LET hits == {e \in Range(mem) : HashOf(e) = Hash[k]}
  IN  IF hits # {} THEN CHOOSE e \in hits : TRUE ELSE Stored(file[fd[p]].cells, index, Hash[k])

\* What lookup answers: the entry of key k, or None.
Answer(p, k) ==
  LET hits == {f \in Range(mem) : f[1] = k}
      e == IF hits # {} THEN CHOOSE f \in hits : TRUE
           ELSE Stored(file[fd[p]].cells, index, Hash[k])
  IN  IF e[1] = k THEN e ELSE None

\* What is found on disk is loaded into memory; an error of that may still evict.
Lookup(p, k) ==
  /\ pc[p] = "ready"
  /\ LET e == Answer(p, k)
     IN  /\ e # None
         /\ \/ mem' = MemPut(e) /\ UNCHANGED mishapVars
            \/ mem' = MemShort(e) /\ mem' # mem /\ Mishap
  /\ UNCHANGED <<fileVars, procVars, curVars, fileLen, index, dead, unsynced, boundVars, history>>

-----------------------------------------------------------------------------
(* insert.                                                                 *)

CallInsert(p, e) ==
  /\ inserts < MaxInserts
  /\ Goto(p, "ready", "write")
  /\ inserts' = inserts + 1
  /\ cur' = e /\ written' = 0
  /\ doubt' = [doubt EXCEPT ![HashOf(e)] = @ \cup {e}]
  /\ hope' = [hope EXCEPT ![HashOf(e)] = @ \cup {e}]
  /\ UNCHANGED <<fileVars, lock, fd, cacheVars, opens, mishapVars, acked>>

\* The row c with cell x at offset at, which is in it or just behind it.
Put(c, at, x) == IF at < Len(c) THEN [c EXCEPT ![at + 1] = x] ELSE Append(c, x)

\* appendRecord: pwrite at file_len.
WriteCell(p) ==
  /\ pc[p] = "write"
  /\ file' = [file EXCEPT ![fd[p]].cells = Put(@, fileLen + written, <<cur, written + 1>>)]
  /\ written' = written + 1
  /\ pc' = [pc EXCEPT ![p] = IF written + 1 = cur[2] THEN "index" ELSE "write"]
  /\ UNCHANGED <<name, durableName, disk, lock, fd, cur, cacheVars, boundVars, mishapVars,
                 history>>

\* Fault: file_len stays where it is.
SameLen == fileLen

\* file_len moves behind the record, before the index is touched.
Grown == fileLen + cur[2]

IndexRecord(p) ==
  /\ Goto(p, "index", "mem")
  /\ fileLen' = Grown
  /\ index' = [index EXCEPT ![HashOf(cur)] = [at |-> fileLen, size |-> cur[2]]]
  /\ dead' = dead + index[HashOf(cur)].size
  /\ unsynced' = unsynced + 1
  /\ UNCHANGED <<fileVars, lock, fd, curVars, mem, boundVars, mishapVars, history>>

InsertMem(p) ==
  /\ Goto(p, "mem", "sync")
  /\ mem' = MemPut(cur)
  /\ UNCHANGED <<fileVars, lock, fd, curVars, fileLen, index, dead, unsynced, boundVars,
                 mishapVars, history>>

\* maybeSync.
SyncDue == SyncEvery # 0 /\ unsynced >= SyncEvery

MaybeSync(p) ==
  /\ Goto(p, "sync", "compact")
  /\ IF SyncDue THEN Synced(fd[p]) /\ unsynced' = 0
     ELSE UNCHANGED <<disk, durableName, hope, unsynced>>
  /\ UNCHANGED <<name, file, lock, fd, curVars, fileLen, index, dead, mem, boundVars,
                 mishapVars, acked, doubt>>

\* maybeCompact.
CompactDue == StalePct # 0 /\ fileLen # 0 /\ (dead * 100) \div fileLen >= StalePct

\* insert returns.
Return(p) ==
  /\ pc[p] = "compact"
  /\ pc' = [pc EXCEPT ![p] = "ready"]
  /\ cur' = None /\ written' = 0
  /\ acked' = [acked EXCEPT ![HashOf(cur)] = cur]
  /\ doubt' = [doubt EXCEPT ![HashOf(cur)] = {}]
  /\ UNCHANGED <<lock, unsynced, mem, boundVars, mishapVars, hope>>

InsertReturns(p) ==
  /\ ~CompactDue
  /\ Return(p)
  /\ UNCHANGED <<fileVars, fd, fileLen, index, dead>>

\* Fault: the replacement is renamed without having been synced.
Unsynced(c) == NoFile

\* The replacement is synced before it is renamed.
SyncedTmp(c) == [hdr |-> "ok", cells |-> c]

\* compact: the live records go to a new file, in the order of the map, which is
\* synced and renamed over the old one.  A crash on the way, before the rename,
\* leaves the old file as it was, and after it the new one: this is one step.
Compact(p) ==
  LET i == Min(Inodes \ ({name, durableName} \cup {fd[q] : q \in Procs}))
      live == {h \in DOMAIN index : index[h] # NoRecord}
  IN  /\ \A h \in live : Stored(file[fd[p]].cells, index, h) # None
      /\ \E order \in SetToSeqs(live) :
           LET c == FlattenSeq([n \in DOMAIN order |->
                                  RecordOf(Stored(file[fd[p]].cells, index, order[n]))])
           IN  /\ file' = [file EXCEPT ![i] = [hdr |-> "ok", cells |-> c]]
               /\ disk' = [disk EXCEPT ![i] = SyncedTmp(c)]
               /\ fileLen' = Len(c)
               /\ index' = IndexOf(c, Len(c))
      /\ name' = i
      /\ fd' = [fd EXCEPT ![p] = i]
      /\ dead' = 0
      /\ UNCHANGED durableName

InsertCompacts(p) ==
  /\ CompactDue
  /\ Return(p)
  /\ Compact(p)

\* insert returns an error: the entry may be in the file, or not.
Fail(p, at) ==
  /\ Goto(p, at, "ready")
  /\ Mishap
  /\ cur' = None /\ written' = 0
  /\ UNCHANGED <<lock, fd, boundVars, history>>

WriteFails(p) ==
  /\ Fail(p, "write")
  /\ UNCHANGED <<fileVars, cacheVars>>

\* The map cannot grow: file_len is ahead of the index.
IndexFails(p) ==
  /\ Fail(p, "index")
  /\ index[HashOf(cur)] = NoRecord
  /\ fileLen' = Grown
  /\ UNCHANGED <<fileVars, index, dead, unsynced, mem>>

MemFails(p) ==
  /\ Fail(p, "mem")
  /\ mem' = MemShort(cur)
  /\ UNCHANGED <<fileVars, fileLen, index, dead, unsynced>>

SyncFails(p) ==
  /\ SyncDue
  /\ Fail(p, "sync")
  /\ UNCHANGED <<fileVars, cacheVars>>

CompactFails(p) ==
  /\ CompactDue
  /\ Fail(p, "compact")
  /\ UNCHANGED <<fileVars, cacheVars>>

-----------------------------------------------------------------------------
(* sync and compactNow.                                                    *)

Sync(p) ==
  /\ pc[p] = "ready"
  /\ Synced(fd[p])
  /\ unsynced' = 0
  /\ UNCHANGED <<name, file, procVars, curVars, fileLen, index, dead, mem, boundVars,
                 mishapVars, acked, doubt>>

CompactNow(p) ==
  /\ pc[p] = "ready"
  /\ Compact(p)
  /\ UNCHANGED <<lock, pc, curVars, unsynced, mem, boundVars, mishapVars, history>>

-----------------------------------------------------------------------------
(* What may go wrong at any moment.                                        *)

\* A process dies.  What it wrote is in the file.
Crash(p) ==
  /\ pc[p] # "closed"
  /\ Mishap
  /\ Leave(p)
  /\ UNCHANGED <<fileVars, boundVars, history>>

\* Inode i after a power failure: its length is the synced one, the last one or any
\* in between, and one run of cells may have missed the disk: these are what was
\* synced there, or zeros, or rubbish.
Survivors(i) ==
  LET new == file[i].cells
      old == disk[i].cells
      shorter == Min({Len(new), Len(old)})
      longer  == Max({Len(new), Len(old)})
      Cell(j, from, to, z) ==
        IF j <= Len(new) /\ j \notin from .. to THEN new[j]
        ELSE IF j <= Len(old) THEN old[j] ELSE z
      rows == {[j \in 1 .. n |-> Cell(j, from, to, z)] :
                 n \in shorter .. longer, from \in 1 .. longer + 1, to \in 0 .. longer,
                 z \in {<<Zeros, 1>>, Torn}}
      hdrs == {file[i].hdr, disk[i].hdr} \cup (IF file[i].hdr = disk[i].hdr THEN {} ELSE {"torn"})
  IN  {f \in [hdr : hdrs, cells : rows] : f.hdr = "none" => f.cells = <<>>}

PowerFailure ==
  /\ mishaps < MaxMishaps
  /\ mishaps' = mishaps + 1 /\ power' = power + 1
  /\ \E i \in {durableName, name} : \E f \in Survivors(i) :
       /\ name' = i /\ durableName' = i
       /\ file' = [[j \in Inodes |-> NoFile] EXCEPT ![i] = f]
       /\ disk' = file'
       /\ acked' = Replayed(f)
  /\ doubt' = [h \in Hashes |-> {}]
  /\ hope' = [h \in Hashes |-> {acked'[h]}]
  /\ lock' = NoProc
  /\ pc' = [p \in Procs |-> "closed"]
  /\ fd' = [p \in Procs |-> 0]
  /\ cur' = None /\ written' = 0
  /\ fileLen' = 0 /\ index' = NoIndex /\ dead' = 0 /\ unsynced' = 0 /\ mem' = <<>>
  /\ UNCHANGED <<inserts, opens>>

\* The bounds are reached.
Done ==
  /\ opens = MaxOpens
  /\ \A p \in Procs : pc[p] = "closed"
  /\ UNCHANGED vars

Next ==
  \/ \E p \in Procs :
       \/ CallOpen(p) \/ TakeLock(p) \/ OpenFile(p)
       \/ Header(p) \/ BadHeader(p) \/ HeaderFails(p) \/ Scan(p) \/ ScanFails(p) \/ Close(p)
       \/ \E k \in Keys : Lookup(p, k)
       \/ \E e \in Entries : CallInsert(p, e)
       \/ WriteCell(p) \/ IndexRecord(p) \/ InsertMem(p) \/ MaybeSync(p)
       \/ InsertReturns(p) \/ InsertCompacts(p)
       \/ WriteFails(p) \/ IndexFails(p) \/ MemFails(p) \/ SyncFails(p) \/ CompactFails(p)
       \/ Sync(p) \/ CompactNow(p)
       \/ Crash(p)
  \/ PowerFailure
  \/ Done

Spec == Init /\ [][Next]_vars

-----------------------------------------------------------------------------
(* Properties.                                                             *)

Cells == (Entries \cup {Zeros, None}) \X Nat
Files == [hdr : {"none", "torn", "ok"}, cells : Seq(Cells)]

\* Every variable keeps its type.
TypeOK ==
  /\ name \in Inodes /\ durableName \in Inodes
  /\ file \in [Inodes -> Files] /\ disk \in [Inodes -> Files]
  /\ lock \in Procs \cup {NoProc}
  /\ pc \in [Procs -> {"closed", "lock", "open", "header", "scan", "ready", "write",
                       "index", "mem", "sync", "compact"}]
  /\ fd \in [Procs -> Inodes \cup {0}]
  /\ cur \in Entries \cup {None} /\ written \in Nat
  /\ fileLen \in Nat /\ dead \in Nat /\ unsynced \in Nat
  /\ index \in [{0} \cup Hashes -> [at : Nat, size : Nat]]
  /\ mem \in Seq(Entries) /\ Len(mem) <= MemCapacity
  /\ inserts \in 0 .. MaxInserts /\ opens \in 0 .. MaxOpens
  /\ mishaps \in 0 .. MaxMishaps /\ power \in 0 .. mishaps
  /\ acked \in [Hashes -> Entries \cup {None}]
  /\ doubt \in [Hashes -> SUBSET Entries]
  /\ hope \in [Hashes -> SUBSET (Entries \cup {None})]

Open == {p \in Procs : pc[p] \notin {"closed", "lock", "open", "header", "scan"}}

\* Whoever has the cache open is alone, works on the file the path leads to, and its
\* index is what a scan of that file up to file_len would make, but for a record
\* whose put failed: nobody loses the file to a compaction, and each live record
\* that a compaction copies is the latest of its hash.
IndexInv ==
  \A p \in Open :
    LET c == file[fd[p]].cells
        scanned == IndexOf(c, fileLen)
    IN  /\ lock = p
        /\ fd[p] = name
        /\ fileLen <= Len(c)
        /\ \A h \in DOMAIN index : index[h] \in {NoRecord, scanned[h]}
        /\ dead <= fileLen - LiveCells(index)

\* Whatever crashes and errors there were: the next process that opens the file
\* finds, for each hash, the last entry whose insert returned, or a later one whose
\* insert had an error or was cut off.
Durable ==
  LET found == Replayed(file[name])
  IN  \A h \in Hashes : found[h] \in {acked[h]} \cup doubt[h]

\* A lookup answers with the last entry that was inserted, too, and never with the
\* ids of another key that has the same hash.
Answers ==
  \A p \in Open : pc[p] = "ready" =>
    \A k \in Keys : \E e \in {acked[Hash[k]]} \cup doubt[Hash[k]] :
      Answer(p, k) = IF e[1] = k THEN e ELSE None

\* What a power failure leaves of a hash is what was there at the last sync, or came
\* after it: the batched sync loses no more than that, compactions included.
PowerSafe ==
  [][power' # power => \A h \in Hashes : acked'[h] \in hope[h]]_vars
=============================================================================
