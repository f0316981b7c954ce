--------------------------- MODULE CounterSketches ---------------------------
(* The Count-Min sketch (cm.cpp) and its conservative-update variant       *)
(* (cu.cpp), fed with the same stream through the same hash functions.     *)
EXTENDS Stream

VARIABLES
  cm,  \* cnt of CMSketch: row -> column -> counter
  cu   \* cnt of CUSketch

counterTables == <<cm, cu>>

EmptyCounters == [j \in RowIds |-> [c \in Cols |-> 0]]

\* init of both sketches.
CountersInit(count_min, cons_update) ==
  count_min = EmptyCounters /\ cons_update = EmptyCounters

\* query_freq of both sketches, and minp of CUSketch::insert: the least counter.
LeastCounter(cnt, k) == Min({cnt[j][Col(j, k)] : j \in RowIds})

\* CMSketch::insert.
CMAfter(k) ==
  [j \in RowIds |->
    [c \in Cols |-> IF c = Col(j, k) THEN cm[j][c] + 1 ELSE cm[j][c]]]

\* Faulty: the counters above the least one move instead of the least one.
CUAfterSwapped(k) ==
  [j \in RowIds |->
    [c \in Cols |-> IF c = Col(j, k) /\ cu[j][c] # LeastCounter(cu, k)
                    THEN cu[j][c] + 1 ELSE cu[j][c]]]

\* CUSketch::insert: only the counters that equal the least one move.
CUAfter(k) ==
  [j \in RowIds |->
    [c \in Cols |-> IF c = Col(j, k) /\ cu[j][c] = LeastCounter(cu, k)
                    THEN cu[j][c] + 1 ELSE cu[j][c]]]

CountersInsert(k) == cm' = CMAfter(k) /\ cu' = CUAfter(k)

\* Both sketches never answer less than the truth, and raising only the least
\* counters never answers more than raising all of them.
CountersBracket ==
  \A k \in Keys :
    /\ flow_cnt[k] <= LeastCounter(cu, k)
    /\ LeastCounter(cu, k) <= LeastCounter(cm, k)
=============================================================================
