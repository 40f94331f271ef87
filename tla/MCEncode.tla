------------------------------ MODULE MCEncode -----------------------------
(***************************************************************************)
(* How a text becomes tokens: a behaviour is one of the heap loop on every *)
(* table of two ranks for five units, of the scanning loops on every table *)
(* of two ranks for four, of the array under the heap, in which a node can *)
(* be two levels below the root, or of the encoding of a text in parts.    *)
(* What does not run stays in an initial state.                            *)
(***************************************************************************)
EXTENDS MergeHeap, MergeScan

VARIABLES
  loop,
  buf, n, popped, built,
  mode, pretok, text, fed, carry, ids, done

queueVars == <<buf, n, popped, built>>
cutVars == <<mode, pretok, text, fed, carry, ids, done>>

Array == INSTANCE QuadHeap WITH Capacity <- 6, Values <- {0, 1, 2}

\* The window of a stream is longer than a line, that of the chunked encoding is not. There is
\* no slash, which o200k does not end a line before, and pieces end at characters.
Cuts ==
  INSTANCE TextCuts WITH
    Characters <- {<<"a">>, <<".">>, <<" ">>, <<"n">>, <<"W", "w">>}, MaxCharacters <- 4,
    Modes <- {"stream", "chunked"}, Pretoks <- {"identity", "cl100k", "o200k", "hf_byte_level"},
    MaxCarry <- 20, SearchWindow <- 20, ChunkWindow <- 2, MaxChunks <- 3, Splitting <- {"identity"}

\* An initial state in which nothing merges, or nothing is queued.
HeapUnused == table = [s \in Intervals |-> Invalid] /\ Init
ScanUnused == scanTable = [p \in Triples |-> 2] /\ linked = 0 /\ ScanInit
ArrayUnused == buf = [s \in 0..5 |-> 0] /\ n = 0 /\ Array!Init
CutsUnused == mode = "stream" /\ pretok = "identity" /\ text = <<>> /\ Cuts!Init

EncodeInit ==
  \/ loop = "heap" /\ CutsUnused /\ ArrayUnused /\ ScanUnused /\ Init
  \/ loop = "scan" /\ CutsUnused /\ ArrayUnused /\ HeapUnused /\ ScanInit
  \/ loop = "array" /\ CutsUnused /\ ScanUnused /\ HeapUnused /\ Array!Init
  \/ loop = "cuts" /\ ArrayUnused /\ ScanUnused /\ HeapUnused /\ Cuts!Init

EncodeNext ==
  \/ loop = "heap" /\ Next /\ UNCHANGED <<loop, scanVars, queueVars, cutVars>>
  \/ loop = "scan" /\ ScanStep /\ UNCHANGED <<loop, vars, queueVars, cutVars>>
  \/ loop = "array" /\ Array!Next /\ UNCHANGED <<loop, vars, scanVars, cutVars>>
  \/ loop = "cuts" /\ Cuts!Next /\ UNCHANGED <<loop, vars, scanVars, queueVars>>

EncodeSpec == EncodeInit /\ [][EncodeNext]_<<loop, vars, scanVars, queueVars, cutVars>>

\* Every pop of the 4-ary array returns the least node that was pushed and not popped since
\* (bpe_heap.zig).
ArrayIsMinQueue == Array!ImplementsMinQueue

\* Nobody can tell from the ids how a text was cut: what a stream emitted is always the
\* beginning of what encoding the text at once gives, whatever is fed later, and in the end
\* all of it, also when feeds failed on the way; and a text that is encoded in chunks gets the
\* same ids (stream.zig:117-209, pipeline.zig:1209-1384, cl100k.zig, hf_bytelevel_pretok.zig).
CutsAreInvisible == Cuts!CutsAreInvisible
=============================================================================
