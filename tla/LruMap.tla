------------------------------- MODULE LruMap -------------------------------
(***************************************************************************)
(* What the in-memory prefix cache promises: a map of bounded size, one    *)
(* entry per hash, from which the entry that was not asked for longest     *)
(* leaves first.  An entry is <<key, n>>, a key and its n ids.             *)
(***************************************************************************)
EXTENDS Integers, Sequences

LOCAL INSTANCE Functions

CONSTANTS
  Capacity,
  Entries,   \* what may be inserted
  NoEntry,
  HashOf(_)  \* the hash of a key

VARIABLES
  list,      \* the entries, the one that was used last at the front
  answer     \* the last call: the key, and the entry it found or stored, or NoEntry

Others(e) == SelectSeq(list, LAMBDA f : HashOf(f[1]) # HashOf(e[1]))

\* Room for one entry more: the last one goes if the cache is full.
Trimmed(s) == IF Len(s) = Capacity THEN SubSeq(s, 1, Capacity - 1) ELSE s

Init == list = <<>> /\ answer = <<>>

Hit(e) ==
  /\ answer' = <<e[1], e>>
  /\ e \in Range(list)
  /\ list' = <<e>> \o Others(e)

\* No entry has this key, though one may have its hash.
Miss(k) ==
  /\ answer' = <<k, NoEntry>>
  /\ \A e \in Range(list) : e[1] # k
  /\ UNCHANGED list

\* The entry comes to the front, in place of the one of the same hash, if any.
Insert(e) ==
  /\ answer' = <<e[1], e>>
  /\ list' = <<e>> \o Trimmed(Others(e))

\* Without memory nothing is stored, but room may have been made.
InsertFails(e) ==
  /\ answer' = <<e[1], NoEntry>>
  /\ list' \in {list, IF Others(e) = list THEN Trimmed(list) ELSE list}

Clear == answer' = <<>> /\ list' = <<>>

Next ==
  \/ \E e \in Entries : Hit(e) \/ Miss(e[1]) \/ Insert(e) \/ InsertFails(e)
  \/ Clear

Spec == Init /\ [][Next]_<<list, answer>>
=============================================================================
