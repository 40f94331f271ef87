------------------------------ MODULE Pretokens ------------------------------
(***************************************************************************)
(* The pre-tokenizers cl100k, o200k, GPT-2 byte level and identity: into   *)
(* which spans a text is split before the model sees it, and where a text  *)
(* may be cut so that both halves are split as the whole is.               *)
(*                                                                         *)
(* A byte is one of a class: "a" a letter, "." and "/" punctuation, " " a  *)
(* blank, "n" a newline, and "W" "w" the two bytes of a white space that   *)
(* is not ASCII. Letters have no case, and digits and apostrophes are left *)
(* out: what they match never reaches across white space.                  *)
(***************************************************************************)
EXTENDS Integers, Sequences

LOCAL INSTANCE FiniteSetsExt

Null == -1

(***************************************************************************)
(* Decoding: a lead byte without its continuation, and a continuation byte *)
(* on its own, are characters of one byte                                  *)
(***************************************************************************)
DecodeAt(t, i) ==
  IF t[i] = "W" THEN IF i < Len(t) /\ t[i + 1] = "w" THEN [class |-> "wide", len |-> 2]
                                                     ELSE [class |-> "lead", len |-> 1]
                ELSE [class |-> IF t[i] = "w" THEN "rest" ELSE t[i], len |-> 1]

Space   == {" ", "n", "wide"}
Newline == {"n"}
Punct   == {".", "/"}

\* Where the run of characters of these classes that begins at i has ended.
RunEnd(t, i, classes) ==
  LET end[k \in i .. Len(t) + 1] ==
        IF k <= Len(t) /\ DecodeAt(t, k).class \in classes THEN end[k + DecodeAt(t, k).len] ELSE k
  IN  end[i]

(***************************************************************************)
(* The alternatives of the patterns: where a match at i ends, or Null      *)
(***************************************************************************)
NonEmpty(i, end) == IF end = i THEN Null ELSE end

\* Letters, after one character if it may lead a word.
MatchWord(t, i, leads) ==
  LET d     == DecodeAt(t, i)
      first == IF d.class \in leads /\ i + d.len <= Len(t) /\ DecodeAt(t, i + d.len).class \in {"a", "lead"}
               THEN i + d.len ELSE i
  IN  NonEmpty(first, RunEnd(t, first, {"a"}))

\* Punctuation, after a blank, and what may trail it.
MatchPunct(t, i, tail) ==
  LET first == IF t[i] = " " THEN i + 1 ELSE i
      end   == RunEnd(t, first, Punct)
  IN  IF end = first THEN Null ELSE RunEnd(t, end, tail)

\* White space up to its last newline.
MatchWsNewline(t, i) ==
  LET newlines == {k \in i .. RunEnd(t, i, Space) - 1 : t[k] = "n"}
  IN  IF newlines = {} THEN Null ELSE Max(newlines) + 1

\* White space up to the end of the text, or all but the last of it.
MatchTrailingWs(t, i) ==
  LET end == RunEnd(t, i, Space)
  IN  IF end = i \/ end = Len(t) + 1 THEN NonEmpty(i, end)
      ELSE NonEmpty(i, IF t[end - 1] = "w" THEN end - 2 ELSE end - 1)

MatchWs(t, i) == NonEmpty(i, RunEnd(t, i, Space))

NoLetterOrNewline == (Space \ Newline) \cup Punct \cup {"rest"}

PunctTail(pretok) ==
  CASE pretok = "cl100k"        -> Newline
    [] pretok = "o200k"         -> Newline \cup {"/"}
    [] pretok = "hf_byte_level" -> {}

\* In the order of the patterns; the first that matches counts.
Matches(pretok, t, i) ==
  CASE pretok = "identity" -> <<i + 1>>
    [] pretok \in {"cl100k", "o200k"} ->
         <<MatchWord(t, i, NoLetterOrNewline), MatchPunct(t, i, PunctTail(pretok)),
           MatchWsNewline(t, i), MatchTrailingWs(t, i), MatchWs(t, i)>>
    [] pretok = "hf_byte_level" ->
         <<MatchWord(t, i, {" "}), MatchPunct(t, i, PunctTail(pretok)),
           MatchTrailingWs(t, i), MatchWs(t, i)>>

MatchOne(pretok, t, i) ==
  LET m    == Matches(pretok, t, i)
      hits == {k \in DOMAIN m : m[k] # Null}
  IN  IF hits = {} THEN i + 1 ELSE m[Min(hits)]

\* The spans of a text. The model maps each on its own, so that two texts have the same
\* tokens if they have the same spans; for identity it is byte_id, which maps bytes.
Split(pretok, t) ==
  LET from[i \in 1 .. Len(t) + 1] ==
        IF i > Len(t) THEN <<>>
        ELSE LET end == MatchOne(pretok, t, i) IN <<SubSeq(t, i, end - 1)>> \o from[end]
  IN  from[1]

(***************************************************************************)
(* Cuts: p bytes on the left                                               *)
(***************************************************************************)
AsciiSpace == {" ", "n"}

\* Fault: white space is ASCII.
StartsNonAsciiSpace(t, p) == t[p + 1] \notin AsciiSpace \cup {"w"}

\* The byte after the cut begins a character that is not white space. A lead byte whose
\* continuation is not there yet is taken for a letter.
StartsNonSpace(t, p) ==
  t[p + 1] \notin AsciiSpace \cup {"w"} /\ DecodeAt(t, p + 1).class # "wide"

IsSafeCut(pretok, t, p) ==
  \/ p = Len(t)
  \/ /\ pretok = "identity"
     /\ t[p + 1] # "w"
  \/ /\ pretok \in {"cl100k", "o200k", "hf_byte_level"}
     /\ p = 0
  \/ /\ pretok \in {"cl100k", "o200k"}
     /\ p > 0 /\ t[p] = "n" /\ StartsNonSpace(t, p)
  \/ /\ pretok = "hf_byte_level"
     /\ p > 0
     /\ \/ t[p] \in {"a", ".", "/"} /\ t[p + 1] \in AsciiSpace
        \/ /\ t[p] = "n" /\ StartsNonSpace(t, p)
           /\ p >= 2 => t[p - 1] \in {"a", ".", "/"}

\* The nearest safe cut within the window, to the left if there is one.
FindSafeCut(pretok, t, desired, window) ==
  LET safe  == {p \in 0 .. Len(t) : desired - window <= p /\ p <= desired + window /\ IsSafeCut(pretok, t, p)}
      left  == {p \in safe : p <= desired}
  IN  CASE desired = 0 -> 0
        [] desired > 0 /\ left # {} -> Max(left)
        [] desired > 0 /\ left = {} /\ safe # {} -> Min(safe)
        [] OTHER -> Null
=============================================================================
