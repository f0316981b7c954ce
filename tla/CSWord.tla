------------------------------- MODULE CSWord -------------------------------
(* The words in the RAM of an FPGA layer and what a layer does with one    *)
(* (the decision in pharse_4_s and read_s of CS_Bucket_1.v).               *)
EXTENDS Integers, Sequences

CONSTANTS
  Keys,           \* the 32-bit keys, 0 excluded
  Zero,           \* the key 0: an entry that an earlier layer kept
  Stale,          \* what a FIFO shows before the head of its queue reached the output
  Buckets,        \* the addresses of the layer's RAM
  bucket,         \* entry -> address: the hash bits that travel with the key
  ErrorThreshold  \* votes against, from which on a bucket is closed

Entries == Keys \cup {Zero}

(* A layer is instantiated with other constants, so what is assumed of them is *)
(* named here and assumed in the modules that are checked.                     *)
EntryAssumption ==
  /\ Zero \notin Keys /\ Stale \notin Entries
  /\ bucket \in [Entries \cup {Stale} -> Buckets]
ThresholdAssumption == ErrorThreshold \in Nat \ {0}

\* A RAM word: the total count, the votes against, and the candidate.
Word == [total : Nat, no : Nat, key : Entries]
ZeroWord == [total |-> 0, no |-> 0, key |-> Zero]

\* The votes against have caught up with the candidate's own.
Contested(w) == w.total <= w.no + w.no

\* Faulty: a bucket at its threshold takes its candidate only.
KeepsUncontested(w, k) == w.no < ErrorThreshold \/ w.key = k

\* The layer keeps the key: it counts it for or against the candidate.
Keeps(w, k) == w.no < ErrorThreshold \/ w.key = k \/ Contested(w)

\* Faulty: a vote against is counted for a new candidate as well.
CountAgainst(w, k) ==
  IF w.key = k THEN [w EXCEPT !.total = @ + 1]
  ELSE IF Contested(w) THEN [total |-> w.total + 1, no |-> w.no + 1, key |-> k]
  ELSE [w EXCEPT !.total = @ + 1, !.no = @ + 1]

\* The word after it counted a key it keeps.
Count(w, k) ==
  IF Contested(w) THEN [w EXCEPT !.total = @ + 1, !.key = k]
  ELSE IF w.key # k THEN [w EXCEPT !.total = @ + 1, !.no = @ + 1]
  ELSE [w EXCEPT !.total = @ + 1]

\* The entry e is a key this layer counts in word w.
Counted(w, e) == e # Zero /\ Keeps(w, e)

\* For the properties, why a layer may refuse the key k: the votes against are at the
\* threshold, and a candidate other than k leads them.
Refuses(w, k) == w.no >= ErrorThreshold /\ w.key # k /\ w.total > 2 * w.no
=============================================================================
