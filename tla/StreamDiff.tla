----------------------------- MODULE StreamDiff -----------------------------
(***************************************************************************)
(* bench/equivalence_check.py and bench/tm_diff_report.py: the ids ztok    *)
(* gives a corpus, line by line, against those of the library it should    *)
(* match.  Each side is dumped by a program of its own, whose exit code is *)
(* not looked at: a dump may stop short.  The first tool counts the lines  *)
(* that agree, the second finds for each other line the tokens at which    *)
(* the two part ways, in the text both decode to, and files it under a     *)
(* category.                                                               *)
(***************************************************************************)
EXTENDS Integers, Sequences, SequencesExt

CONSTANTS
  Corpora,     \* sequences of lines: the ids by ztok, and by the reference
  Pieces,      \* the characters of each token of the library's vocab
  Converted,   \* how many of them the converted vocab has
  Markers      \* the characters that mark capcode

VARIABLES
  corpus, pc,
  ztok, reference,   \* the dumps, a sequence of ids per line
  line,
  stats,             \* of the equivalence check
  records            \* of the report: a line that differs, and where

vars == <<corpus, pc, ztok, reference, line, stats, records>>

Init ==
  /\ corpus \in Corpora
  /\ pc = "ztok"
  /\ ztok = <<>> /\ reference = <<>>
  /\ line = 1
  /\ stats = [matches |-> 0, diffs |-> 0, first |-> 0]
  /\ records = <<>>

Min2(a, b) == IF a < b THEN a ELSE b

(***************************************************************************)
(* The dumps                                                               *)
(***************************************************************************)
DumpZtok ==
  /\ pc = "ztok" /\ Len(ztok) < Len(corpus)
  /\ ztok' = Append(ztok, corpus[Len(ztok) + 1].ztok)
  /\ UNCHANGED <<corpus, pc, reference, line, stats, records>>

\* At the end of the corpus, or at a line that cannot be encoded.
ZtokExits ==
  /\ pc = "ztok"
  /\ pc' = IF ztok = <<>> THEN "failed" ELSE "reference"
  /\ UNCHANGED <<corpus, ztok, reference, line, stats, records>>

\* Splitting the text at its newlines gives one more line, an empty one.
DumpReference ==
  /\ pc = "reference" /\ Len(reference) <= Len(corpus)
  /\ reference' = Append(reference, IF Len(reference) = Len(corpus) THEN <<>>
                                    ELSE corpus[Len(reference) + 1].reference)
  /\ UNCHANGED <<corpus, pc, ztok, line, stats, records>>

ReferenceExits ==
  /\ pc = "reference"
  /\ pc' = IF reference = <<>> THEN "failed" ELSE "compare"
  /\ UNCHANGED <<corpus, ztok, reference, line, stats, records>>

(***************************************************************************)
(* cmp_streams                                                             *)
(***************************************************************************)
\* Fault: lines of the longer dump count as well.
TotalOfLonger == Len(ztok) + Len(reference) - Min2(Len(ztok), Len(reference))

\* min(max(ztok_ids), max(ref_ids)) + 1: only lines of both dumps are compared.
Total == Min2(Len(ztok), Len(reference))

\* dict.get: a line a dump does not have equals none that it can have.
Ids(dump, i) == IF i \in DOMAIN dump THEN dump[i] ELSE <<0>>

CompareLine ==
  /\ pc = "compare" /\ line <= Total
  /\ stats' = IF Ids(ztok, line) = Ids(reference, line)
              THEN [stats EXCEPT !.matches = @ + 1]
              ELSE [stats EXCEPT !.diffs = @ + 1, !.first = IF @ = 0 THEN line ELSE @]
  /\ line' = line + 1
  /\ UNCHANGED <<corpus, pc, ztok, reference, records>>

StartReport ==
  /\ pc = "compare" /\ line > Total
  /\ pc' = "report" /\ line' = 1
  /\ UNCHANGED <<corpus, ztok, reference, stats, records>>

(***************************************************************************)
(* The report                                                              *)
(***************************************************************************)
\* The library's decode: a marker swallows the space after it, and "d" the character
\* before it.
Stitch(text, c) ==
  IF c = " " /\ text # <<>> /\ Last(text) = "x" THEN Front(text)
  ELSE IF c = "d" /\ text # <<>> THEN Front(text)
  ELSE Append(text, c)

Decode(ids) ==
  LET chars == FlattenSeq([k \in DOMAIN ids |-> Pieces[ids[k]]])
  IN SelectSeq(FoldLeft(Stitch, <<>>, chars), LAMBDA c : c # "x")

\* tm_token_spans: how far the text reaches after each token, never back.
Spans(ids) ==
  LET reach(k) == Len(Decode(SubSeq(ids, 1, k)))
  IN [k \in DOMAIN ids |-> CHOOSE n \in {reach(j) : j \in 1..k} : \A j \in 1..k : reach(j) <= n]

SpanBefore(spans, k) == IF k = 1 THEN 0 ELSE spans[k - 1]
Width(spans, k) == IF k \in DOMAIN spans THEN spans[k] - SpanBefore(spans, k) ELSE 0

\* Fault: a token that ends at the position covers it.
TokenEndingAt(spans, position) ==
  LET covers == {k \in DOMAIN spans : position <= spans[k]}
  IN IF covers = {} THEN Len(spans) + 1 ELSE CHOOSE k \in covers : \A j \in covers : k <= j

\* token_index_at_byte_spans: the first token that reaches beyond the position.
TokenAt(spans, position) ==
  LET covers == {k \in DOMAIN spans : position < spans[k]}
  IN IF covers = {} THEN Len(spans) + 1 ELSE CHOOSE k \in covers : \A j \in covers : k <= j

Differing(z, t) == {k \in 1..Min2(Len(z), Len(t)) : z[k] # t[k]}

\* _first_id_divergence_byte: where in the text the ids part ways.
DivergencePosition(z, t) ==
  IF Differing(z, t) # {}
  THEN SpanBefore(Spans(z), CHOOSE k \in Differing(z, t) : \A j \in Differing(z, t) : k <= j)
  ELSE SpanBefore(Spans(z), Min2(Len(z), Len(t)) + 1)

\* What the converted vocab has for an id.
IdBytes(id) == IF id \in 1..Converted THEN Pieces[id] ELSE <<>>
Marked(token) == token # <<>> /\ token[1] \in Markers

\* The token of the stream at an index, none past its end.
TokenOf(ids, k) == IF k \in DOMAIN ids THEN ids[k] ELSE 0

Category(z, t, zi, ti) ==
  LET z_id == TokenOf(z, zi)
      t_id == TokenOf(t, ti)
      z_width == Width(Spans(z), zi)
      t_width == Width(Spans(t), ti)
  IN IF t_id > Converted THEN "missing_piece"
     ELSE IF Marked(IdBytes(z_id)) # Marked(IdBytes(t_id)) THEN "capcode_marker"
     ELSE IF z_width # t_width THEN "greedy_vs_ungreedy"
     ELSE IF z_id # t_id THEN "score_tiebreak_suspected"
     ELSE "unknown"

Categorize(z, t) ==
  IF Decode(z) # Decode(t) THEN [line |-> line, category |-> "decode_bug", ztok |-> 0, reference |-> 0]
  ELSE LET d == DivergencePosition(z, t)
           zi == TokenAt(Spans(z), d)
           ti == TokenAt(Spans(t), d)
       IN [line |-> line, category |-> Category(z, t, zi, ti), ztok |-> zi, reference |-> ti]

\* The report takes a line it does not have for an empty one.
LineOf(dump, i) == IF i \in DOMAIN dump THEN dump[i] ELSE <<>>

ReportLine ==
  /\ pc = "report" /\ line <= Total
  /\ LET z == LineOf(ztok, line)
         t == LineOf(reference, line)
     IN records' = IF z = t THEN records ELSE Append(records, Categorize(z, t))
  /\ line' = line + 1
  /\ UNCHANGED <<corpus, pc, ztok, reference, stats>>

EndReport ==
  /\ pc = "report" /\ line > Total
  /\ pc' = "done"
  /\ UNCHANGED <<corpus, ztok, reference, line, stats, records>>

Next ==
  \/ DumpZtok \/ ZtokExits \/ DumpReference \/ ReferenceExits
  \/ CompareLine \/ StartReport \/ ReportLine \/ EndReport

Spec == Init /\ [][Next]_vars

(***************************************************************************)
(* Properties                                                              *)
(***************************************************************************)
\* A dump that stops short is neither a match nor a difference: what is counted are lines
\* that both sides answered, the two tools count the same differences, and the line named
\* first is the first of the report (equivalence_check.py:172-214, 601-605;
\* tm_diff_report.py:554-594).
CountsAreOfBothDumps ==
  /\ pc # "failed" => \A i \in 1..(stats.matches + stats.diffs) : i \in DOMAIN ztok \cap DOMAIN reference
  /\ pc = "done" =>
       /\ stats.matches + stats.diffs = Total
       /\ stats.matches <= Len(SelectSeq(corpus, LAMBDA l : l.ztok = l.reference))
       /\ stats.diffs = Len(records)
       /\ stats.diffs > 0 => stats.first = records[1].line

\* Of two streams that decode alike the report shows the first tokens that differ, by their
\* place in the text, unless one of them adds nothing to it; then they cannot be filed as
\* unknown (tm_diff_report.py:204-240, 283-415).
ReportShowsDivergence ==
  \A i \in DOMAIN records :
    LET r == records[i]
        z == ztok[r.line]
        t == reference[r.line]
        firsts == {k \in Differing(z, t) : \A j \in Differing(z, t) : k <= j}
    IN r.category # "decode_bug" =>
         \A k \in firsts :
           Width(Spans(z), k) > 0 /\ Width(Spans(t), k) > 0 =>
             r.ztok = k /\ r.reference = k /\ r.category # "unknown"
=============================================================================
