--------------------------- MODULE ReliableSketch ---------------------------
(***************************************************************************)
(* The CPU implementation of ReliableSketch (CPU/src/sketch/rs.cpp): a     *)
(* mice filter (MF, a small conservative-update counter array) in front of *)
(* a stack of levels of "election" buckets.  A bucket holds a candidate    *)
(* id, the votes for it (yes_cnt) and the votes against it (no_cnt), and a *)
(* lock that is set once the votes against reach the level's error bound.  *)
(* An insertion walks down the levels past the locked buckets of other     *)
(* keys and stops at the first bucket that takes it.                       *)
(*                                                                         *)
(* The sketch is used by one thread (main.cpp), so insert and init are one *)
(* step each and the queries are state functions.                          *)
(***************************************************************************)
EXTENDS Integers, FiniteSetsExt, Functions

CONSTANTS
  Keys,          \* the flow identifiers that occur in the stream
  ZeroKey,       \* the identifier 0, which a zeroed bucket carries as its id
  rs_level,      \* number of levels construct_rs built
  rs_row_size,   \* level -> number of buckets of the level
  rs_err_bound,  \* level -> votes against that lock a bucket of the level
  mf_n_hash,     \* number of rows of the mice filter
  mf_row_size,   \* counters per row; 0 when construct_mf disabled the filter
  mf_err_bound,  \* the value at which a filter counter saturates
  MaxStream      \* bound on the insertions between two calls of init

Levels == 0 .. rs_level - 1

\* The levels and the "level" past the last one, where a key is dropped.
Depths == 0 .. rs_level

Rows(i) == 0 .. rs_row_size[i] - 1

\* construct_mf leaves no filter at all when a row would be empty.
MfRows == IF mf_row_size = 0 THEN {} ELSE 0 .. mf_n_hash - 1
MfCols == 0 .. mf_row_size - 1

ASSUME KeysAssumption == Keys # {} /\ IsFiniteSet(Keys)

\* The loop of construct_rs stops before a level without buckets or with a
\* negative bound, so that every level it built has both; bound 0 it accepts.
ASSUME LevelAssumption ==
  /\ rs_level \in Nat
  /\ rs_row_size \in [Levels -> Nat \ {0}]
  /\ rs_err_bound \in [Levels -> Nat]

ASSUME FilterAssumption ==
  /\ mf_n_hash \in Nat \ {0}
  /\ mf_row_size \in Nat
  /\ mf_err_bound \in Nat

ASSUME StreamAssumption == MaxStream \in Nat

VARIABLES
  mfPos,     \* filter row -> key -> column: the hash functions of rand_mf
  rsPos,     \* level -> key -> bucket: the hash functions of rand_rs
  mf,        \* filter row -> column -> counter
  rs,        \* level -> bucket index -> bucket
  \* Bookkeeping of the caller and of the verification, never read by the code:
  flow_cnt,  \* key -> its insertions since init (the ground truth of MPETest)
  filtered,  \* key -> its insertions the mice filter absorbed
  reach      \* key -> depth -> its insertions whose walk came down to the depth

\* Every way the level hash functions can spread the keys over the buckets.
RowChoices ==
  {h \in [Levels -> [Keys -> UNION {Rows(i) : i \in Levels}]] :
     \A i \in Levels : \A k \in Keys : h[i][k] \in Rows(i)}

seeds == <<mfPos, rsPos>>
ghosts == <<flow_cnt, filtered, reach>>
vars == <<mfPos, rsPos, mf, rs, flow_cnt, filtered, reach>>

Bucket == [yes_cnt : Nat, no_cnt : Nat, id : Keys \cup {ZeroKey}, locked : BOOLEAN]

EmptyBucket == [yes_cnt |-> 0, no_cnt |-> 0, id |-> ZeroKey, locked |-> FALSE]
EmptyMf == [j \in MfRows |-> [c \in MfCols |-> 0]]
EmptyRs == [i \in Levels |-> [p \in Rows(i) |-> EmptyBucket]]
-----------------------------------------------------------------------------
(* The mice filter.                                                        *)

MfCell(k, j) == mf[j][mfPos[j][k]]

\* min_val of the first loop of insert and of every query.
MinVal(k) == Min({MfCell(k, j) : j \in MfRows})

\* The filter is built and still absorbs k.
Absorbs(k) == MfRows # {} /\ MinVal(k) # mf_err_bound

\* Faulty: every counter of k moves, as in the weighted insert.
MfAfterAllRows(k) ==
  [j \in MfRows |->
    [c \in MfCols |-> IF c = mfPos[j][k] THEN mf[j][c] + 1 ELSE mf[j][c]]]

\* Conservative update: only the smallest counters of k move.
MfAfter(k) ==
  [j \in MfRows |->
    [c \in MfCols |->
      IF c = mfPos[j][k] /\ mf[j][c] = MinVal(k)
      THEN Min({mf[j][c] + 1, mf_err_bound})
      ELSE mf[j][c]]]
-----------------------------------------------------------------------------
(* The levels.                                                             *)

BucketOf(k, i) == rs[i][rsPos[i][k]]

\* Faulty: the lock alone turns a key away, its own candidate included.
PassesEvenOwner(k, i) == BucketOf(k, i).locked

\* A locked bucket of another key: the walk goes on to the next level.
Passes(k, i) == BucketOf(k, i).locked /\ BucketOf(k, i).id # k

\* Where the walk of k ends: the first level whose bucket takes k, or rs_level.
StopDepth(k) ==
  CHOOSE d \in Depths : /\ \A i \in 0 .. d - 1 : Passes(k, i)
                        /\ d < rs_level => ~ Passes(k, d)

\* Faulty: the candidate is replaced one vote too early.
VoteTakesOverEarly(b, k, err_bound) ==
  IF b.yes_cnt <= b.no_cnt + 1 \/ b.id = k
  THEN [b EXCEPT !.id = k, !.yes_cnt = @ + 1]
  ELSE [b EXCEPT !.no_cnt = @ + 1,
                 !.locked = @ \/ b.no_cnt + 1 >= err_bound]

\* Faulty: a newly elected candidate's own vote is counted against it.
VoteForgetsMatch(b, k, err_bound) ==
  IF b.id = k THEN [b EXCEPT !.yes_cnt = @ + 1]
  ELSE [b EXCEPT !.id = IF b.yes_cnt <= b.no_cnt THEN k ELSE @,
                 !.no_cnt = @ + 1,
                 !.locked = @ \/ b.no_cnt + 1 >= err_bound]

\* Faulty: the lock is set from the count before the vote.
VoteLocksLate(b, k, err_bound) ==
  IF b.yes_cnt <= b.no_cnt \/ b.id = k
  THEN [b EXCEPT !.id = k, !.yes_cnt = @ + 1]
  ELSE [b EXCEPT !.no_cnt = @ + 1,
                 !.locked = @ \/ b.no_cnt >= err_bound]

\* Faulty: electing a candidate opens the bucket again.
VoteUnlocks(b, k, err_bound) ==
  IF b.yes_cnt <= b.no_cnt
  THEN [b EXCEPT !.id = k, !.yes_cnt = @ + 1, !.locked = FALSE]
  ELSE IF b.id = k THEN [b EXCEPT !.yes_cnt = @ + 1]
  ELSE [b EXCEPT !.no_cnt = @ + 1,
                 !.locked = @ \/ b.no_cnt + 1 >= err_bound]

\* One vote of k in a bucket b that does not turn it away.
Vote(b, k, err_bound) ==
  IF b.yes_cnt <= b.no_cnt \/ b.id = k
  THEN [b EXCEPT !.id = k, !.yes_cnt = @ + 1]
  ELSE [b EXCEPT !.no_cnt = @ + 1,
                 !.locked = @ \/ b.no_cnt + 1 >= err_bound]

RsAfter(k) ==
  [i \in Levels |->
    [p \in Rows(i) |->
      IF i = StopDepth(k) /\ p = rsPos[i][k]
      THEN Vote(rs[i][p], k, rs_err_bound[i])
      ELSE rs[i][p]]]
-----------------------------------------------------------------------------
(* Steps.                                                                  *)

StreamLength == FoldFunction(LAMBDA a, b : a + b, 0, flow_cnt)

\* The constructor draws the seeds; init clears both parts before any use.
Init ==
  /\ mfPos \in [MfRows -> [Keys -> MfCols]]
  /\ rsPos \in RowChoices
  /\ mf = EmptyMf
  /\ rs = EmptyRs
  /\ flow_cnt = [k \in Keys |-> 0]
  /\ filtered = [k \in Keys |-> 0]
  /\ reach = [k \in Keys |-> [d \in Depths |-> 0]]

\* init(): a new stream on the same hash functions.
Clear ==
  /\ mf' = EmptyMf
  /\ rs' = EmptyRs
  /\ flow_cnt' = [k \in Keys |-> 0]
  /\ filtered' = [k \in Keys |-> 0]
  /\ reach' = [k \in Keys |-> [d \in Depths |-> 0]]
  /\ UNCHANGED seeds

\* insert(k) that returns from the filter.
InsertMf(k) ==
  /\ StreamLength < MaxStream
  /\ Absorbs(k)
  /\ mf' = MfAfter(k)
  /\ flow_cnt' = [flow_cnt EXCEPT ![k] = @ + 1]
  /\ filtered' = [filtered EXCEPT ![k] = @ + 1]
  /\ UNCHANGED <<seeds, rs, reach>>

\* insert(k) past the filter; it changes no bucket when every level passes it on.
InsertRs(k) ==
  /\ StreamLength < MaxStream
  /\ ~ Absorbs(k)
  /\ rs' = RsAfter(k)
  /\ flow_cnt' = [flow_cnt EXCEPT ![k] = @ + 1]
  /\ reach' = [reach EXCEPT ![k] = [d \in Depths |->
                 IF d <= StopDepth(k) THEN @[d] + 1 ELSE @[d]]]
  /\ UNCHANGED <<seeds, mf, filtered>>

Next == Clear \/ \E k \in Keys : InsertMf(k) \/ InsertRs(k)

Spec == Init /\ [][Next]_vars
-----------------------------------------------------------------------------
(* Queries.                                                                *)

\* The filter alone answers for k.
FilterAnswers(k) == MfRows # {} /\ MinVal(k) < mf_err_bound

\* What the bucket of k at level i says of k.
Est(k, i) == IF BucketOf(k, i).id = k THEN BucketOf(k, i).yes_cnt
                                      ELSE BucketOf(k, i).no_cnt

\* The loop of query_freq from depth d on.
EstFrom(k) ==
  LET est[d \in Depths] ==
        IF d = rs_level THEN 0
        ELSE IF Passes(k, d) THEN Est(k, d) + est[d + 1]
        ELSE Est(k, d)
  IN  est

query_freq(k) ==
  IF FilterAnswers(k) THEN MinVal(k)
  ELSE (IF MfRows = {} THEN 0 ELSE mf_err_bound) + EstFrom(k)[0]

query_freq_low(k) ==
  IF FilterAnswers(k) \/ StopDepth(k) = rs_level THEN 0
  ELSE LET b == BucketOf(k, StopDepth(k))
       IN  IF b.id = k THEN b.yes_cnt - b.no_cnt ELSE 0

\* 99: filtered; a level: found there; -1: another key's open bucket; rs_level:
\* not found.  An open bucket of another key on the last level is "not found".
query_freq_level(k) ==
  IF FilterAnswers(k) THEN 99
  ELSE IF StopDepth(k) = rs_level THEN rs_level
  ELSE IF BucketOf(k, StopDepth(k)).id = k THEN StopDepth(k)
  ELSE IF StopDepth(k) = rs_level - 1 THEN rs_level
  ELSE -1

\* The entries of query_heavyhitter, one per bucket that answers: a key that
\* held two buckets would be reported twice.
query_heavyhitter(threshold) ==
  {e \in [level : Levels, pos : UNION {Rows(i) : i \in Levels}] :
     /\ e.pos \in Rows(e.level)
     /\ rs[e.level][e.pos].yes_cnt > 0
     /\ query_freq(rs[e.level][e.pos].id) >= threshold}
-----------------------------------------------------------------------------
(* What the sketch promises.                                               *)

recorded(k, i) == reach[k][i] - reach[k][i + 1]
dropped(k) == reach[k][rs_level]

\* The most votes against that a bucket of level i can hold: its bound, but one
\* vote even where the bound is 0, since the lock is set after the vote.
Noise(i) == IF rs_err_bound[i] > 1 THEN rs_err_bound[i] ELSE 1

NoiseFrom[d \in Depths] == IF d = rs_level THEN 0 ELSE Noise(d) + NoiseFrom[d + 1]

\* rs_eps as construct_rs sums it up.
EpsFrom[d \in Depths] == IF d = rs_level THEN 0 ELSE rs_err_bound[d] + EpsFrom[d + 1]

MfNoise == IF MfRows = {} THEN 0 ELSE mf_err_bound

\* The tables keep their shape and no filter counter exceeds its saturation value.
TypeOK ==
  /\ mfPos \in [MfRows -> [Keys -> MfCols]]
  /\ rsPos \in RowChoices
  /\ mf \in [MfRows -> [MfCols -> 0 .. mf_err_bound]]
  /\ DOMAIN rs = Levels
  /\ \A i \in Levels : rs[i] \in [Rows(i) -> Bucket]
  /\ flow_cnt \in [Keys -> Nat]
  /\ filtered \in [Keys -> Nat]
  /\ reach \in [Keys -> [Depths -> Nat]]

\* query_freq never falls below the insertions of a key that were not dropped:
\* replacing candidates, locking and descending lose no vote of any key.
NeverUnderestimates ==
  \A k \in Keys : query_freq(k) >= flow_cnt[k] - dropped(k)

\* query_freq_low is never above the true count, whichever candidates were
\* replaced on the way.
LowerBoundSound == \A k \in Keys : query_freq_low(k) <= flow_cnt[k]

\* The range the two queries certify (high - low in MPETest) is at most what the
\* filter and every level can hide, whatever the stream.
RangeBounded ==
  \A k \in Keys :
    query_freq(k) - query_freq_low(k) <= MfNoise + NoiseFrom[0]

\* Between two calls of init a locked bucket keeps its candidate and its votes
\* against: the walks that already passed it would otherwise be misread.
LockedIsFinal ==
  [][\A i \in Levels : \A p \in Rows(i) :
       rs[i][p].locked =>
         \/ rs' = EmptyRs
         \/ /\ rs'[i][p].locked
            /\ rs'[i][p].id = rs[i][p].id
            /\ rs'[i][p].no_cnt = rs[i][p].no_cnt]_vars

\* No insertion of a key lies below the bucket at which its query stops.
NothingBelowTheStop ==
  \A k \in Keys : \A i \in Levels : ~ Passes(k, i) => reach[k][i + 1] = 0

\* No key is the candidate of two buckets, so query_heavyhitter names no key twice.
NoDuplicateReport ==
  \A e, f \in query_heavyhitter(0) :
    rs[e.level][e.pos].id = rs[f.level][f.pos].id => e = f

\* query_heavyhitter misses no key whose count exceeds what can be hidden,
\* unless insertions of it were dropped.
HeavyHitterComplete ==
  \A k \in Keys : dropped(k) = 0 /\ flow_cnt[k] > MfNoise + NoiseFrom[0] =>
    \E e \in query_heavyhitter(flow_cnt[k]) : rs[e.level][e.pos].id = k

\* A key that lost an insertion answers "not recorded" (rs_level) ever after.
DropsAreVisible ==
  \A k \in Keys : dropped(k) > 0 => query_freq_level(k) = rs_level

\* The claim of the parameter names: the error of a key of the stream stays
\* within the filter's threshold plus rs_eps, the sum of the level bounds.
ErrorWithinThreshold ==
  \A k \in Keys : flow_cnt[k] > 0 =>
    query_freq(k) - flow_cnt[k] <= MfNoise + EpsFrom[0]
=============================================================================
