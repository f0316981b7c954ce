------------------------------ MODULE Sampling ------------------------------
(***************************************************************************)
(* Two sketches whose entries change hands by chance: CocoSketch           *)
(* (coco.cpp) counts every insertion and replaces the key of the least     *)
(* entry with a probability; PRECISION (precision.cpp) counts and replaces *)
(* together, or drops the insertion.  A random draw that may be 0 is a     *)
(* choice.                                                                 *)
(***************************************************************************)
EXTENDS Stream

VARIABLES
  coco,      \* buckets: row -> column -> [key, val]
  precision  \* fp and cnt: stage -> column -> [key, val]

samplingTables == <<coco, precision>>

EmptyEntries == [j \in RowIds |-> [c \in Cols |-> [key |-> ZeroKey, val |-> 0]]]

SamplingInit(c, p) == c = EmptyEntries /\ p = EmptyEntries

\* Both sketches hold a key in the column of its own hash.
EntryOf(t, k, j) == t[j][Col(j, k)]
RowsHolding(t, k) == {j \in RowIds : EntryOf(t, k, j).key = k}

\* The row whose entry stops the walk, and min_pos or min_stage without one: the
\* first of the least entries.
FirstRow(t, k) == Min(RowsHolding(t, k))
LeastRow(t, k) ==
  Min({j \in RowIds : \A i \in RowIds : EntryOf(t, k, j).val <= EntryOf(t, k, i).val})

Counted(t, k, j) == [t EXCEPT ![j][Col(j, k)].val = @ + 1]
Replaced(t, k, j) == [t EXCEPT ![j][Col(j, k)] = [key |-> k, val |-> @.val + 1]]

\* RandUint32() % n = 0 for a number drawn by mt19937: certain for n = 1 only.
Draws(n) == IF n = 1 THEN {TRUE} ELSE BOOLEAN

\* Faulty: an empty entry is taken before the rows behind it are looked at.
CocoAfterEager(k) ==
  LET empty == {j \in RowIds : EntryOf(coco, k, j).val = 0}
  IN  IF empty # {} THEN {Replaced(coco, k, Min(empty))}
      ELSE IF RowsHolding(coco, k) # {} THEN {Counted(coco, k, FirstRow(coco, k))}
      ELSE {Counted(coco, k, LeastRow(coco, k)), Replaced(coco, k, LeastRow(coco, k))}

\* The tables that an insertion of k may leave.
CocoAfter(k) ==
  IF RowsHolding(coco, k) # {} THEN {Counted(coco, k, FirstRow(coco, k))}
  ELSE LET j == LeastRow(coco, k)
       IN  {IF zero THEN Replaced(coco, k, j) ELSE Counted(coco, k, j) :
              zero \in Draws(EntryOf(coco, k, j).val + 1)}

PrecisionAfter(k) ==
  IF RowsHolding(precision, k) # {}
  THEN {Counted(precision, k, FirstRow(precision, k))}
  ELSE LET j == LeastRow(precision, k)
       IN  {IF zero THEN Replaced(precision, k, j) ELSE precision :
              zero \in Draws(EntryOf(precision, k, j).val + 1)}

CocoInsert(k) == coco' \in CocoAfter(k) /\ UNCHANGED precision
PrecisionInsert(k) == precision' \in PrecisionAfter(k) /\ UNCHANGED coco

coco_query_freq(k) ==
  IF RowsHolding(coco, k) # {} THEN EntryOf(coco, k, FirstRow(coco, k)).val
  ELSE EntryOf(coco, k, LeastRow(coco, k)).val

precision_query_freq(k) ==
  IF RowsHolding(precision, k) # {}
  THEN EntryOf(precision, k, FirstRow(precision, k)).val ELSE 0
-----------------------------------------------------------------------------
(* What does not depend on chance.                                         *)

\* A counted key stands in one entry, the one that its query finds.
CountedOnce(t) ==
  \A j \in RowIds : \A c \in Cols :
    t[j][c].val > 0 => c = Col(j, t[j][c].key) /\ j = FirstRow(t, t[j][c].key)

\* What the queries answer of the keys that the tables record.
CocoCredits ==
  [k \in Keys |-> IF RowsHolding(coco, k) # {} THEN coco_query_freq(k) ELSE 0]
PrecisionCredits == [k \in Keys |-> precision_query_freq(k)]

\* CocoSketch credits every insertion of the stream to one recorded key, its own
\* or another one.
CocoCreditsAll == CountedOnce(coco) /\ SumFunction(CocoCredits) = StreamLength

\* PRECISION credits every insertion at most once.
PrecisionCreditsOnce ==
  CountedOnce(precision) /\ SumFunction(PrecisionCredits) <= StreamLength
=============================================================================
