------------------------------ MODULE TmConvert ------------------------------
(***************************************************************************)
(* bench/convert_tm_to_ztm.py: a TokenMonster .vocab becomes a .ztm.  The  *)
(* .vocab has an entry per spelling: two entries of one id are twins (a    *)
(* word, and the word behind a capcode marker).  The converter keeps one   *)
(* spelling as the token of the id and the others as aliases, and works    *)
(* out for each spelling the two tokens the encoder may emit for a part of *)
(* it.  bench/tm_diff_report.py reads the tokens back.                     *)
(*                                                                         *)
(* A key is a sequence of characters, one byte each; a character is one of *)
(* its class, "D" the upper case letters, "x" byte 0x7F.                   *)
(***************************************************************************)
EXTENDS Integers, Sequences, FiniteSets, SequencesExt

CONSTANTS
  Vocabs,      \* records of entries, capcode, charset, unk
  LongestByte  \* bound: what one byte can say of a length

VARIABLES
  vocab, pc,
  at,          \* the entry that is looked at
  primary,     \* id_to_bytes
  aliases,     \* pairs of an id and another spelling of it
  length,      \* of the part of the key that is looked at
  slots,       \* the two alternatives so far: id, length, priority
  twins,       \* per_twin_alts
  file         \* the .ztm

vars == <<vocab, pc, at, primary, aliases, length, slots, twins, file>>

Empty == [id |-> -1, length |-> 0, priority |-> 0]
NoFile == [capcode |-> 0]

Init ==
  /\ vocab \in Vocabs
  /\ pc = "parse"
  /\ at = 1
  /\ primary = <<>> /\ aliases = {}
  /\ length = 0 /\ slots = <<Empty, Empty>>
  /\ twins = {}
  /\ file = NoFile

Entries == vocab.entries
Key == Entries[at].key
Ids == {Entries[i].id : i \in DOMAIN Entries}

\* UTF-16 vocabs are refused.
RefuseCharset ==
  /\ pc = "parse" /\ at = 1 /\ vocab.charset = 2
  /\ pc' = "refused"
  /\ UNCHANGED <<vocab, at, primary, aliases, length, slots, twins, file>>

\* Fault: a longer spelling replaces the token of the id, which is forgotten.
AliasOfShorter(id) ==
  IF id \notin DOMAIN primary \/ Len(Key) >= Len(primary[id]) THEN {} ELSE {<<id, Key>>}

\* What a further entry of an id leaves for the aliases: the shorter spelling.
Alias(id) ==
  IF id \notin DOMAIN primary \/ Key = primary[id] THEN {}
  ELSE {<<id, IF Len(Key) > Len(primary[id]) THEN primary[id] ELSE Key>>}

\* The longer spelling becomes the token of the id, so that decoding gives the markers.
ReadEntry ==
  /\ pc = "parse" /\ vocab.charset # 2 /\ at <= Len(Entries)
  /\ LET id == Entries[at].id
         first == id \notin DOMAIN primary \/ Len(Key) > Len(primary[id])
     IN /\ primary' = [i \in DOMAIN primary \cup {id} |-> IF i = id /\ first THEN Key ELSE primary[i]]
        /\ aliases' = aliases \cup Alias(id)
  /\ at' = at + 1
  /\ UNCHANGED <<vocab, pc, length, slots, twins, file>>

(***************************************************************************)
(* compute_per_twin_alts                                                   *)
(***************************************************************************)
Char(i) == IF i \in DOMAIN Key THEN Key[i] ELSE "nul"

\* With full capcode the markers are no letters.
IsLetter(c)  == c = "a" \/ (c = "D" /\ vocab.capcode # 2)
IsNumber(c)  == c = "1"
IsSpace(c)   == c = " "
IsCapcode(c) == (vocab.capcode = 1 /\ c = "x") \/ (vocab.capcode = 2 /\ c = "D")
IsAlphanum(c) == IsLetter(c) \/ IsNumber(c)
IsWordly(c) == IsLetter(c) \/ c = "_"

\* A part of a phrase of several words is more than its leading space.
MinAltSize ==
  IF /\ Char(1) = " " /\ IsAlphanum(Char(2))
     /\ \E k \in 3..Len(Key) : Char(k - 1) = " " /\ IsAlphanum(Char(k))
  THEN 2 ELSE 1

\* How good it is to end an alternative after n characters.
Priority(n) ==
  LET last == Char(n)
      next == Char(n + 1)
      rules == << <<n <= Len(Key) - 2 /\ next = " " /\ IsAlphanum(Char(n + 2)), 10>>,
                  <<vocab.capcode = 0 /\ \/ ~IsWordly(last) /\ IsWordly(next)
                                         \/ ~IsNumber(last) /\ IsNumber(next), 9>>,
                  <<(IsWordly(last) /\ ~IsWordly(next)) \/ (IsNumber(last) /\ ~IsNumber(next)), 9>>,
                  <<IsSpace(last) /\ ~IsSpace(next), 7>>,
                  <<~IsSpace(last) /\ IsSpace(next), 8>>,
                  <<IsCapcode(next), 9>>,
                  <<TRUE, 1>> >>
      first == CHOOSE k \in DOMAIN rules : rules[k][1] /\ \A j \in 1..(k - 1) : ~rules[j][1]
  IN rules[first][2]

\* bytes_to_id: the first entry that is spelled so.
Spelled(key) == {i \in DOMAIN Entries : Entries[i].key = key}
IdOf(key) == Entries[CHOOSE i \in Spelled(key) : \A j \in Spelled(key) : i <= j].id

\* Fault: of two equals the longer one is given up.
WeakerLonger(s) ==
  IF s[1].priority < s[2].priority \/ (s[1].priority = s[2].priority /\ s[1].length > s[2].length)
  THEN 1 ELSE 2

\* The alternative to give up for a better one.
Weaker(s) ==
  IF s[1].priority < s[2].priority \/ (s[1].priority = s[2].priority /\ s[1].length <= s[2].length)
  THEN 1 ELSE 2

StartTwin ==
  /\ pc = "parse" /\ vocab.charset # 2 /\ at > Len(Entries)
  /\ pc' = "twin" /\ at' = 1
  /\ length' = Len(Entries[1].key) - 1
  /\ UNCHANGED <<vocab, primary, aliases, slots, twins, file>>

TryLength ==
  /\ pc = "twin" /\ length >= MinAltSize
  /\ LET part == SubSeq(Key, 1, length)
         weak == Weaker(slots)
     IN slots' = IF Spelled(part) # {} /\ slots[weak].priority < Priority(length)
                 THEN [slots EXCEPT ![weak] = [id |-> IdOf(part), length |-> length,
                                               priority |-> Priority(length)]]
                 ELSE slots
  /\ length' = length - 1
  /\ UNCHANGED <<vocab, pc, at, primary, aliases, twins, file>>

\* The better one first.
Ranked(s) ==
  LET swap == \/ s[2].priority > s[1].priority
              \/ s[2].priority = s[1].priority /\ s[2].length > s[1].length
  IN SelectSeq(IF s[2].length > 0 /\ swap THEN <<s[2], s[1]>> ELSE s, LAMBDA a : a.length > 0)

EndTwin ==
  /\ pc = "twin" /\ length < MinAltSize
  /\ twins' = twins \cup (IF Ranked(slots) = <<>> THEN {}
                          ELSE {[entry |-> at, key |-> Key, id |-> Entries[at].id, alts |-> Ranked(slots)]})
  /\ slots' = <<Empty, Empty>>
  /\ IF at < Len(Entries)
     THEN at' = at + 1 /\ length' = Len(Entries[at + 1].key) - 1 /\ pc' = pc
     ELSE at' = at /\ length' = 0 /\ pc' = "write"
  /\ UNCHANGED <<vocab, primary, aliases, file>>

(***************************************************************************)
(* write_ztm, and read_ztm                                                 *)
(***************************************************************************)
MaxId == CHOOSE m \in Ids : \A i \in Ids : i <= m

\* Gaps in the ids become empty tokens.
Tokens == [k \in 1..(MaxId + 1) |-> IF k - 1 \in Ids THEN primary[k - 1] ELSE <<>>]

\* A vocab without an unknown token gets the first token of one byte.
Unknown ==
  LET single == {k \in DOMAIN Tokens : Len(Tokens[k]) = 1}
  IN IF vocab.unk \in 0..MaxId THEN vocab.unk
     ELSE IF single = {} THEN 0 ELSE (CHOOSE k \in single : \A j \in single : k <= j) - 1

Longest(keys) == IF keys = {} THEN 0
                 ELSE Len(CHOOSE k \in keys : \A j \in keys : Len(j) <= Len(k))
Spellings == {Tokens[k] : k \in DOMAIN Tokens} \cup {a[2] : a \in aliases} \cup {t.key : t \in twins}

WriteZtm ==
  /\ pc = "write"
  /\ file' = [capcode |-> IF vocab.capcode = 2 THEN 3 ELSE vocab.capcode,
              unk |-> Unknown,
              max_length |-> IF Longest(Spellings) < LongestByte THEN Longest(Spellings) ELSE LongestByte,
              bytes |-> FlattenSeq(Tokens),
              offsets |-> [k \in 1..(Len(Tokens) + 1) |-> Len(FlattenSeq(SubSeq(Tokens, 1, k - 1)))],
              aliases |-> {a \in aliases : Len(a[2]) > 0},
              twins |-> {t \in twins : Len(t.key) > 0}]
  /\ pc' = "done"
  /\ UNCHANGED <<vocab, at, primary, aliases, length, slots, twins>>

\* read_ztm's tokens, and ZtmVocab.id_bytes.
IdBytes(id) ==
  IF id + 1 \in 1..(Len(file.offsets) - 1)
  THEN SubSeq(file.bytes, file.offsets[id + 1] + 1, file.offsets[id + 2])
  ELSE <<>>

Next == RefuseCharset \/ ReadEntry \/ StartTwin \/ TryLength \/ EndTwin \/ WriteZtm

Spec == Init /\ [][Next]_vars

(***************************************************************************)
(* Properties                                                              *)
(***************************************************************************)
KeysOf(id) == {Entries[i].key : i \in {j \in DOMAIN Entries : Entries[j].id = id}}

\* Every spelling of every id survives, as the token the reader finds at the id or as one
\* of its aliases, and nothing else is written; an alternative is spelled in the file as its
\* id, and no spelling is longer than the reader will look
\* (convert_tm_to_ztm.py:199-269, 492-641; tm_diff_report.py:125-152).
SpellingsSurvive ==
  pc = "done" =>
    LET forms(id) == {IdBytes(id)} \cup {a[2] : a \in {b \in file.aliases : b[1] = id}}
    IN /\ \A id \in Ids : forms(id) = KeysOf(id)
       /\ \A id \in 0..MaxId : id \notin Ids => IdBytes(id) = <<>>
       /\ \A t \in file.twins : \A k \in DOMAIN t.alts :
            SubSeq(t.key, 1, t.alts[k].length) \in forms(t.alts[k].id)
       /\ \A i \in DOMAIN Entries : Len(Entries[i].key) <= LongestByte => Len(Entries[i].key) <= file.max_length
       /\ file.unk \in 0..MaxId

\* The ladder of one pass ends with the two best parts of a spelling, the better one first:
\* by priority, and among equals the longer (convert_tm_to_ztm.py:356-486).
AlternativesAreBest ==
  pc = "twin" /\ length < MinAltSize =>
    LET parts == {n \in MinAltSize..(Len(Key) - 1) : Spelled(SubSeq(Key, 1, n)) # {}}
        better(m, n) == Priority(m) > Priority(n) \/ (Priority(m) = Priority(n) /\ m > n)
        rank(n) == 1 + Cardinality({m \in parts : better(m, n)})
        alts == Ranked(slots)
    IN /\ Len(alts) = (IF Cardinality(parts) < 2 THEN Cardinality(parts) ELSE 2)
       /\ \A k \in DOMAIN alts : alts[k].length \in parts /\ rank(alts[k].length) = k
=============================================================================
