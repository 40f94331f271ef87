---------------------------- MODULE PreparedData ----------------------------
(***************************************************************************)
(* experiments/nanogpt_superposition: prepare_data.py writes a directory   *)
(* of training arrays per tokenizer, materialize_corpus.py a text view of  *)
(* the same documents, and make_matrix.py pairs two directories into the   *)
(* configurations of a comparison.  Each program may die at any step, and  *)
(* may be started again over what it left.                                 *)
(***************************************************************************)
EXTENDS Integers, Sequences, SequencesExt, FiniteSetsExt

CONSTANTS
  Sources,     \* inputs: sequences of [text, bytes, tokens], a blank text has no bytes
  Limits,      \* [documents, tokens, bytes], each a number or Unlimited
  Unlimited,
  Tokenizers,  \* "ordinary_bpe" and "superbpe"
  IdCount,     \* how many ids a tokenizer gives a text
  Validation,  \* the texts whose hash falls below the validation fraction
  ContextBytes,
  Starts,      \* how many programs are started
  Absent, Torn

VARIABLES
  disk,        \* per tokenizer, the files of its directory
  run,         \* the preparation that runs
  opened,      \* how often a directory was opened, and at which of them sealed
  view,        \* the text view and its manifest, how often it was opened, and which of them ended
  matrix       \* the configurations written

vars == <<disk, run, opened, view, matrix>>

Splits == {"train", "validation"}
Idle == [pc |-> "idle"]
NoView == [pc |-> "idle", started |-> 0, finished |-> 0, file |-> <<>>, manifest |-> Absent]

Init ==
  /\ disk = [t \in Tokenizers |->
               [tokens |-> [s \in Splits |-> <<>>], starts |-> [s \in Splits |-> 0],
                ends |-> [s \in Splits |-> 0], documents |-> [s \in Splits |-> Absent],
                metadata |-> Absent]]
  /\ run = Idle
  /\ opened = [t \in Tokenizers |-> [times |-> 0, sealed |-> 0]]
  /\ view = NoView
  /\ matrix = {}

(***************************************************************************)
(* The documents of an input                                               *)
(***************************************************************************)
\* _iter_documents
Documents(source) == SelectSeq(source, LAMBDA d : d.bytes > 0)

Tokens(documents) == FoldSeq(LAMBDA d, n : d.tokens + n, 0, documents)
Bytes(documents) == FoldSeq(LAMBDA d, n : d.bytes + n, 0, documents)
TextsOf(documents) == [k \in DOMAIN documents |-> documents[k].text]

\* The documents left after those selected, under the limits of the preparation: it stops
\* before the first that would exceed one, but a first document is always taken.
Exceeds(selected, next, limits) ==
  \/ Len(selected) >= limits.documents
  \/ selected # <<>> /\ Tokens(selected) + next.tokens > limits.tokens
  \/ selected # <<>> /\ Bytes(selected) + next.bytes > limits.bytes

\* Fault: the view stops where a limit is reached.
ViewExceedsAtLimit(selected, next, limits) ==
  \/ selected # <<>> /\ Tokens(selected) + next.tokens >= limits.tokens
  \/ limits.bytes # 0 /\ selected # <<>> /\ Bytes(selected) + next.bytes >= limits.bytes

\* The text view has no limit of documents, and a limit of 0 bytes is none, where the
\* preparation stops after one document.
ViewExceeds(selected, next, limits) ==
  \/ selected # <<>> /\ Tokens(selected) + next.tokens > limits.tokens
  \/ limits.bytes # 0 /\ selected # <<>> /\ Bytes(selected) + next.bytes > limits.bytes

(***************************************************************************)
(* prepare_data.py                                                         *)
(***************************************************************************)
\* _split: by the hash of the document alone.
Split(text) == IF text \in Validation THEN "validation" ELSE "train"

MayStart ==
  /\ run = Idle /\ view.pc = "idle"
  /\ FoldSet(LAMBDA t, n : opened[t].times + n, view.started, Tokenizers) < Starts

\* The three arrays are truncated; document index and metadata of an earlier preparation stay.
Open(t) ==
  /\ MayStart
  /\ \E source \in Sources, limits \in Limits :
       run' = [pc |-> "reading", tokenizer |-> t, source |-> Documents(source), limits |-> limits,
               selected |-> <<>>, rows |-> [s \in Splits |-> <<>>], count |-> [s \in Splits |-> 0]]
  /\ disk' = [disk EXCEPT ![t].tokens = [s \in Splits |-> <<>>],
                          ![t].starts = [s \in Splits |-> 0], ![t].ends = [s \in Splits |-> 0]]
  /\ opened' = [opened EXCEPT ![t].times = @ + 1]
  /\ UNCHANGED <<view, matrix>>

Ended == Len(run.selected) = Len(run.source)
Upcoming == run.source[Len(run.selected) + 1]
Stops == IF Ended THEN TRUE ELSE Exceeds(run.selected, Upcoming, run.limits)

\* Append the first arrays of three: a death may leave the others without the document.
Appended(files, text, n, upto) ==
  LET s == Split(text)
  IN [files EXCEPT !.tokens[s] = @ \o [k \in 1..n |-> text],
                   !.starts[s] = IF upto >= 2 THEN @ + n ELSE @,
                   !.ends[s] = IF upto >= 3 THEN @ + n ELSE @]

\* Fault: a row begins at the end of its document.
RowFromEnd(begin, n, text) == [begin |-> begin + n, end |-> begin + n, text |-> text]

Row(begin, n, text) == [begin |-> begin, end |-> begin + n, text |-> text]

\* A document is counted and hashed, then encoded; with less than two ids it is left out.
Take ==
  /\ run.pc = "reading" /\ ~Stops
  /\ LET text == Upcoming.text
         s == Split(text)
         n == IdCount[run.tokenizer][text]
         taken == [run EXCEPT !.selected = Append(@, Upcoming)]
     IN IF n < 2 THEN run' = taken /\ UNCHANGED disk
        ELSE /\ run' = [taken EXCEPT !.count[s] = @ + n,
                                     !.rows[s] = Append(@, Row(run.count[s], n, text))]
             /\ disk' = [disk EXCEPT ![run.tokenizer] = Appended(@, text, n, 3)]
  /\ UNCHANGED <<opened, view, matrix>>

StopReading ==
  /\ run.pc = "reading" /\ Stops
  /\ run' = [run EXCEPT !.pc = "train"]
  /\ UNCHANGED <<disk, opened, view, matrix>>

\* SplitWriter.finish: the training split first.
Finish ==
  /\ run.pc \in Splits
  /\ disk' = [disk EXCEPT ![run.tokenizer].documents[run.pc] = run.rows[run.pc]]
  /\ run' = [run EXCEPT !.pc = IF run.pc = "train" THEN "validation" ELSE "sealing"]
  /\ UNCHANGED <<opened, view, matrix>>

\* An exception while documents are read (an unreadable input, an encoder's error) closes
\* the arrays, an empty partition ends the program after its index is written.
GiveUp ==
  /\ run.pc = "reading" \/ (run.pc = "sealing" /\ \E s \in Splits : run.rows[s] = <<>>)
  /\ run' = Idle
  /\ UNCHANGED <<disk, opened, view, matrix>>

Metadata ==
  [splits |-> [s \in Splits |->
                 [hash |-> TextsOf(run.rows[s]), tokens |-> run.count[s],
                  bytes |-> Bytes(SelectSeq(run.selected, LAMBDA d : /\ Split(d.text) = s
                                                                    /\ IdCount[run.tokenizer][d.text] >= 2))]],
   order |-> TextsOf(run.selected), limits |-> run.limits, source |-> run.source]

Seal ==
  /\ run.pc = "sealing" /\ \A s \in Splits : run.rows[s] # <<>>
  /\ disk' = [disk EXCEPT ![run.tokenizer].metadata = Metadata]
  /\ opened' = [opened EXCEPT ![run.tokenizer].sealed = opened[run.tokenizer].times]
  /\ run' = Idle
  /\ UNCHANGED <<view, matrix>>

\* The process dies, in the middle of whatever it writes.
Die ==
  /\ run # Idle
  /\ \/ UNCHANGED disk
     \/ /\ run.pc = "reading" /\ ~Stops
        /\ IdCount[run.tokenizer][Upcoming.text] >= 2
        /\ \E upto \in 1..3 :
             disk' = [disk EXCEPT ![run.tokenizer] =
                        Appended(@, Upcoming.text, IdCount[run.tokenizer][Upcoming.text], upto)]
     \/ run.pc \in Splits /\ disk' = [disk EXCEPT ![run.tokenizer].documents[run.pc] = Torn]
     \/ /\ run.pc = "sealing" /\ \A s \in Splits : run.rows[s] # <<>>
        /\ disk' = [disk EXCEPT ![run.tokenizer].metadata = Torn]
  /\ run' = Idle
  /\ UNCHANGED <<opened, view, matrix>>

\* PackedCorpus
Loads(t, s) ==
  /\ disk[t].metadata \notin {Absent, Torn} /\ disk[t].documents[s] \notin {Absent, Torn}
  /\ Len(disk[t].tokens[s]) = disk[t].starts[s] /\ disk[t].starts[s] = disk[t].ends[s]

(***************************************************************************)
(* materialize_corpus.py                                                   *)
(***************************************************************************)
OpenView ==
  /\ MayStart
  /\ \E source \in Sources, limits \in Limits :
       /\ limits.documents = Unlimited
       /\ view' = [pc |-> "writing", started |-> view.started + 1, finished |-> view.finished, file |-> <<>>,
                   manifest |-> view.manifest, source |-> Documents(source), limits |-> limits]
  /\ UNCHANGED <<disk, run, opened, matrix>>

ViewStops ==
  IF Len(view.file) = Len(view.source) THEN TRUE
  ELSE ViewExceeds(view.file, view.source[Len(view.file) + 1], view.limits)

WriteView ==
  /\ view.pc = "writing" /\ ~ViewStops
  /\ view' = [view EXCEPT !.file = Append(@, view.source[Len(view.file) + 1])]
  /\ UNCHANGED <<disk, run, opened, matrix>>

WriteManifest ==
  /\ view.pc = "writing" /\ ViewStops
  /\ view' = [pc |-> "idle", started |-> view.started, finished |-> view.started, file |-> view.file,
              manifest |-> [order |-> TextsOf(view.file), limits |-> view.limits, source |-> view.source]]
  /\ UNCHANGED <<disk, run, opened, matrix>>

\* The text that was written stays, beside the manifest of an earlier view or a torn one.
ViewDies ==
  /\ view.pc = "writing"
  /\ \E manifest \in {view.manifest} \cup (IF ViewStops THEN {Torn} ELSE {}) :
       view' = [pc |-> "idle", started |-> view.started, finished |-> view.finished, file |-> view.file,
                manifest |-> manifest]
  /\ UNCHANGED <<disk, run, opened, matrix>>

(***************************************************************************)
(* make_matrix.py                                                          *)
(***************************************************************************)
\* Fault: the number of documents stands for their hash.
PairedByCount(m, n) == \A s \in Splits : Len(m.splits[s].hash) = Len(n.splits[s].hash)

Paired(m, n) == /\ \A s \in Splits : m.splits[s].hash = n.splits[s].hash
                /\ m.order = n.order

\* round(), a half to the even side
Round(a, b) ==
  LET q == a \div b
      r == 2 * (a % b)
  IN IF r > b \/ (r = b /\ q % 2 = 1) THEN q + 1 ELSE q

AtLeast16(n) == IF n < 16 THEN 16 ELSE n

\* context_tokens: of about ContextBytes bytes, a multiple of eight.
Context(m) ==
  LET train == m.splits["train"]
      tokens == AtLeast16(Round(ContextBytes * train.tokens, train.bytes))
  IN AtLeast16(8 * (tokens \div 8))

\* The conditions of the screening.
Conditions ==
  ({"ordinary_bpe"} \X {<<"ordinary", 1>>, <<"fixed", 2>>, <<"fixed", 4>>})
  \cup ({"superbpe"} \X {<<"ordinary", 1>>, <<"fixed", 2>>})

MakeMatrix ==
  /\ matrix = {} /\ \A t \in Tokenizers : disk[t].metadata \notin {Absent, Torn}
  /\ \A t, u \in Tokenizers : Paired(disk[t].metadata, disk[u].metadata)
  /\ matrix' = {[architecture |-> a, tokenizer |-> c[1], representation |-> c[2],
                 context |-> Context(disk[c[1]].metadata)] :
                  a \in {"transformer", "rwkv"}, c \in Conditions}
  /\ UNCHANGED <<disk, run, opened, view>>

Next ==
  \/ \E t \in Tokenizers : Open(t)
  \/ Take \/ StopReading \/ Finish \/ GiveUp \/ Seal \/ Die
  \/ OpenView \/ WriteView \/ WriteManifest \/ ViewDies
  \/ MakeMatrix

Spec == Init /\ [][Next]_vars

(***************************************************************************)
(* Properties                                                              *)
(***************************************************************************)
\* Of the directory as the preparation that sealed it left it.
Sealed(t) == opened[t].sealed > 0 /\ opened[t].sealed = opened[t].times

Tiles(rows, tokens) ==
  /\ \A k \in DOMAIN rows :
       /\ rows[k].begin = (IF k = 1 THEN 0 ELSE rows[k - 1].end)
       /\ rows[k].end - rows[k].begin >= 2
       /\ \A i \in (rows[k].begin + 1)..rows[k].end : tokens[i] = rows[k].text
  /\ rows # <<>> => Last(rows).end = Len(tokens)

\* The directory of a preparation that ended is loaded, and its index, arrays and metadata
\* belong together, no document of it on both sides of the split, however often the source
\* repeats it; and the directory of a first preparation that did not end is not loaded.  Of a
\* directory that was sealed, and then opened again by a preparation that died, nothing is
\* said: it may be loaded with the old index beside new arrays
\* (prepare_data.py:172-225, 277-363; dataset.py:28-57).
SealedIsWhole ==
  \A t \in Tokenizers :
    /\ opened[t].sealed = 0 => \A s \in Splits : ~Loads(t, s)
    /\ Sealed(t) =>
         /\ \A s \in Splits :
              /\ Loads(t, s)
              /\ Tiles(disk[t].documents[s], disk[t].tokens[s])
              /\ disk[t].metadata.splits[s].tokens = Len(disk[t].tokens[s])
              /\ disk[t].metadata.splits[s].hash = TextsOf(disk[t].documents[s])
         /\ ToSet(disk[t].tokens["train"]) \cap ToSet(disk[t].tokens["validation"]) = {}

\* A comparison is made of the same documents: two whole directories that make_matrix.py
\* pairs hold the same ones in the same order, though each tokenizer leaves out documents of
\* its own (make_matrix.py:52-69, prepare_data.py:297-328).
MatrixPairs ==
  [][matrix' # matrix =>
       \A t, u \in Tokenizers : Sealed(t) /\ Sealed(u) =>
         \A s \in Splits : TextsOf(disk[t].documents[s]) = TextsOf(disk[u].documents[s])]_vars

\* Whether the text view that was opened last was written to its end.
ViewIsWhole == view.pc = "idle" /\ view.finished > 0 /\ view.finished = view.started

\* The text a tokenizer is trained on and the arrays made with it are of the same documents, if
\* both programs were given one input and the same limits and were not cut short in their last
\* run: the file holds those the preparation selected, neither more nor fewer, and each split
\* those of the file that fall into it and have two ids, in the order of the file.  The two
\* rules differ on a limit of 0 bytes, but no directory is sealed under it: one document does
\* not fill both splits (prepare_data.py:297-340, materialize_corpus.py:43-61).
ViewIsOfTheSelection ==
  \A t \in Tokenizers :
    ViewIsWhole /\ Sealed(t) =>
      LET m == disk[t].metadata
          texts == TextsOf(view.file)
      IN m.source = view.manifest.source /\ m.limits = view.manifest.limits =>
           /\ m.order = texts
           /\ \A s \in Splits :
                TextsOf(disk[t].documents[s]) =
                  SelectSeq(texts, LAMBDA text : Split(text) = s /\ IdCount[t][text] >= 2)
=============================================================================
