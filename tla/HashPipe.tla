------------------------------- MODULE HashPipe -------------------------------
(***************************************************************************)
(* HashPipe (hashpipe.cpp): a pipeline of tables.  A new key always enters *)
(* the first table and pushes out what it finds there; in the tables       *)
(* behind, the smaller of the carried and the stored count is carried on,  *)
(* and what is carried out of the last table is lost.                      *)
(***************************************************************************)
EXTENDS Stream

VARIABLES
  pipe,   \* stage -> column -> [fp, cnt]
  fallen  \* verification: key -> what was carried out of the last stage

pipeTables == <<pipe, fallen>>

PipeEntry(k, n) == [fp |-> k, cnt |-> n]
Nothing == PipeEntry(ZeroKey, 0)

PipeInit(stages, lost) ==
  /\ stages = [j \in RowIds |-> [c \in Cols |-> Nothing]]
  /\ lost = NoCounts

\* What a stage holds in the column that the inserted key v selects.  The carried
\* key plays no part in that choice.
Stored(v, j) == pipe[j][Col(j, v)]

\* A stage that has met the carried entry: what it stores, and what goes on.
Passing(stored, carried) == [stored |-> stored, carried |-> carried]

\* Faulty: a carried count that meets its key replaces the count stored there.
MeetReplacing(j, stored, carried) ==
  IF stored.fp = carried.fp /\ carried.cnt > 0 THEN Passing(carried, Nothing)
  ELSE IF carried.cnt > 0 /\ (j = 0 \/ stored.cnt < carried.cnt)
  THEN Passing(carried, stored)
  ELSE Passing(stored, carried)

\* Equal keys are merged; else the first stage always swaps, and the later ones
\* when the carried count is the greater one; a count of 0 ends the walk.
Meet(j, stored, carried) ==
  IF stored.fp = carried.fp /\ carried.cnt > 0
  THEN Passing([stored EXCEPT !.cnt = @ + carried.cnt], Nothing)
  ELSE IF carried.cnt > 0 /\ (j = 0 \/ stored.cnt < carried.cnt)
  THEN Passing(carried, stored)
  ELSE Passing(stored, carried)

\* The entry that insert(v) carries into a stage; behind the last one it is lost.
Carried(v) ==
  LET into[j \in 0 .. num_hash] ==
        IF j = 0 THEN PipeEntry(v, 1)
        ELSE Meet(j - 1, Stored(v, j - 1), into[j - 1]).carried
  IN  into

PipeInsert(v) ==
  LET into == Carried(v)
      lost == into[num_hash]
  IN  /\ pipe' = [j \in RowIds |->
           [pipe[j] EXCEPT ![Col(j, v)] = Meet(j, @, into[j]).stored]]
      /\ fallen' = [fallen EXCEPT ![lost.fp] = @ + lost.cnt]

\* What an entry counts of v.
CountOf(entry, v) == IF entry.fp = v THEN entry.cnt ELSE 0

\* query_freq: what the stages hold of v in v's own columns.
pipe_query_freq(v) == SumFunction([j \in RowIds |-> CountOf(Stored(v, j), v)])

\* local_ans of query_heavyhitter: what all stages hold of v, wherever it is.
local_ans(v) == SumFunction([e \in RowIds \X Cols |-> CountOf(pipe[e[1]][e[2]], v)])

\* However a key is split over the stages, its parts and what fell out of the pipe
\* add up to its true count: query_heavyhitter misses exactly what was lost, and
\* query_freq, which looks in the key's own columns only, never answers more.
PipeConserves ==
  \A k \in Keys :
    /\ local_ans(k) + fallen[k] = flow_cnt[k]
    /\ pipe_query_freq(k) <= local_ans(k)
=============================================================================
