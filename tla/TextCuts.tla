------------------------------- MODULE TextCuts -------------------------------
(***************************************************************************)
(* stream.zig and the chunked encoding of pipeline.zig: two ways to encode *)
(* a text in parts. A stream is fed piece by piece, encodes what lies      *)
(* before a safe cut of what it holds, and carries the rest; the chunked   *)
(* encoding cuts the whole text near equal parts and hands them to a pool. *)
(*                                                                         *)
(* A stream whose feed fails keeps the piece, so its caller goes on with   *)
(* the next one; if even the piece could not be kept, the stream is as it  *)
(* was, and there is no action. What the C ABI loses when it cannot hand   *)
(* over ids is lost: its callers end the stream. A chunk that fails fails  *)
(* the whole call, and changes nothing.                                    *)
(***************************************************************************)
EXTENDS Pretokens

LOCAL INSTANCE SequencesExt
LOCAL INSTANCE FiniteSetsExt

CONSTANTS
  Characters,      \* as sequences of bytes
  MaxCharacters,   \* bound: the length of a text
  Modes,           \* "stream", "chunked"
  Pretoks,
  MaxCarry,        \* max_carry_bytes
  SearchWindow,    \* search_window of a stream
  ChunkWindow,     \* that of the chunked encoding, at least 256 bytes in the code
  MaxChunks,       \* bound: n_chunks
  Splitting        \* the pre-tokenizers of streams that are fed pieces which end inside a character

VARIABLES
  mode, pretok,
  text,    \* what there is to encode
  fed,     \* how much of it the stream was given
  carry,   \* what the stream holds
  ids,     \* what was emitted, as spans
  done

vars == <<mode, pretok, text, fed, carry, ids, done>>

Texts == {FlattenSeq(s) : s \in UNION {[1 .. n -> Characters] : n \in 0 .. MaxCharacters}}

Init ==
  /\ mode \in Modes
  /\ pretok \in Pretoks
  /\ text \in Texts
  /\ fed = 0 /\ carry = <<>> /\ ids = <<>> /\ done = FALSE

(***************************************************************************)
(* The stream                                                              *)
(***************************************************************************)
\* Behind the last character that is complete, and before that one if it is not ASCII.
ForcedCut(buf) ==
  LET p == Max({k \in 1 .. Len(buf) : buf[k] # "w"} \cup {0})
  IN  IF p > 0 /\ buf[p] = "W" THEN p - 1 ELSE p

Cut(buf) ==
  LET safe == FindSafeCut(pretok, buf, Len(buf) - 1, SearchWindow)
  IN  CASE safe # Null -> safe
        [] safe = Null /\ Len(buf) >= MaxCarry -> ForcedCut(buf)
        [] OTHER -> 0

\* What the stream holds once it was given the text up to here.
Held(upto) == carry \o SubSeq(text, fed + 1, upto)

Pieces ==
  {upto \in fed + 1 .. Len(text) : pretok \in Splitting \/ upto = Len(text) \/ text[upto + 1] # "w"}

EmitPrefix(buf, cut) ==
  /\ ids' = ids \o Split(pretok, SubSeq(buf, 1, cut))
  /\ carry' = SubSeq(buf, cut + 1, Len(buf))

Feed(upto) ==
  /\ mode = "stream" /\ ~done
  /\ fed' = upto
  /\ EmitPrefix(Held(upto), Cut(Held(upto)))
  /\ UNCHANGED <<mode, pretok, text, done>>

\* The model, or the list of ids, is out of memory.
FeedFails(upto) ==
  /\ mode = "stream" /\ ~done
  /\ Cut(Held(upto)) > 0
  /\ fed' = upto
  /\ carry' = Held(upto)
  /\ UNCHANGED <<mode, pretok, text, ids, done>>

Finish ==
  /\ mode = "stream" /\ ~done /\ fed = Len(text)
  /\ EmitPrefix(carry, Len(carry))
  /\ done' = TRUE
  /\ UNCHANGED <<mode, pretok, text, fed>>

(***************************************************************************)
(* The chunked encoding                                                    *)
(***************************************************************************)
\* Where the chunks begin and end, in order; none if one of them has no safe cut near it.
Boundaries(chunks) ==
  LET nominal    == Len(text) \div chunks
      snapped(i) == FindSafeCut(pretok, text, i * nominal, ChunkWindow)
      bound[i \in 0 .. chunks] ==
        CASE i = 0      -> 0
          [] i = chunks -> Len(text)
          [] OTHER      -> Max({snapped(i), bound[i - 1]})
  IN  IF \E i \in 1 .. chunks - 1 : snapped(i) = Null THEN <<>> ELSE bound

\* One chunk if the text is short, or if it cannot be cut.
ChunkSpans(chunks) ==
  LET bound == Boundaries(chunks)
  IN  IF chunks = 1 \/ Len(text) < 2 * chunks \/ bound = <<>> THEN Split(pretok, text)
      ELSE FlattenSeq([i \in 1 .. chunks |-> Split(pretok, SubSeq(text, bound[i - 1] + 1, bound[i]))])

EncodeChunked(chunks) ==
  /\ mode = "chunked" /\ ~done
  /\ ids' = ChunkSpans(chunks)
  /\ done' = TRUE
  /\ UNCHANGED <<mode, pretok, text, fed, carry>>

Encoded == done /\ UNCHANGED vars

Next ==
  \/ \E upto \in Pieces : Feed(upto) \/ FeedFails(upto)
  \/ Finish
  \/ \E chunks \in 1 .. MaxChunks : EncodeChunked(chunks)
  \/ Encoded

Spec == Init /\ [][Next]_vars

(***************************************************************************)
(* Properties                                                              *)
(***************************************************************************)
\* Nobody can tell from the ids how a text was cut: what was emitted is always the beginning
\* of what encoding the text at once gives, whatever is fed later, and in the end all of it,
\* also when feeds failed on the way (stream.zig:117-209, pipeline.zig:1209-1384).
CutsAreInvisible ==
  /\ IsPrefix(ids, Split(pretok, text))
  /\ done => ids = Split(pretok, text)
=============================================================================
