------------------------ MODULE ReliableSketchProofs ------------------------
(***************************************************************************)
(* What holds of ReliableSketch for every set of keys, every geometry,     *)
(* every hash function and every stream.                                   *)
(***************************************************************************)
EXTENDS ReliableSketch, NumberLemmas
-----------------------------------------------------------------------------
(* The inductive invariant.                                                *)

\* Every insertion was absorbed by the filter or started a walk.
Accounted == \A k \in Keys : flow_cnt[k] = filtered[k] + reach[k][0]

\* A filter counter counts at least the absorbed insertions of each of its keys,
\* and only keys with saturated counters walk the levels.
FilterInv ==
  \A k \in Keys :
    /\ MfRows = {} => filtered[k] = 0
    /\ \A j \in MfRows :
         /\ filtered[k] <= MfCell(k, j)
         /\ reach[k][0] > 0 => MfCell(k, j) = mf_err_bound

\* A walk that reached a depth passed every depth above it.
WalkInv ==
  \A k \in Keys : \A d, e \in Depths : d <= e => reach[k][e] <= reach[k][d]

\* The votes of one bucket: the candidate leads, and the lock is exactly the
\* mark that the votes against have reached the bound.
VotesInv ==
  \A i \in Levels : \A p \in Rows(i) :
    LET b == rs[i][p]
    IN  /\ b.no_cnt <= b.yes_cnt
        /\ b.no_cnt <= Noise(i)
        /\ b.locked <=> b.no_cnt > 0 /\ b.no_cnt >= rs_err_bound[i]

\* What a bucket says of each key that it counted.
ShareInv ==
  \A k \in Keys : \A i \in Levels :
    LET b == BucketOf(k, i)
    IN  /\ b.id = k => /\ recorded(k, i) <= b.yes_cnt
                       /\ b.yes_cnt - b.no_cnt <= recorded(k, i)
        /\ b.id # k => recorded(k, i) <= b.no_cnt

\* The candidate of a bucket hashes to it and was counted by it.
OwnerInv ==
  \A i \in Levels : \A p \in Rows(i) :
    rs[i][p].yes_cnt > 0 => /\ rs[i][p].id \in Keys
                            /\ rsPos[i][rs[i][p].id] = p
                            /\ recorded(rs[i][p].id, i) > 0

IInv == TypeOK /\ Accounted /\ FilterInv /\ WalkInv /\ VotesInv /\ ShareInv
               /\ OwnerInv /\ NothingBelowTheStop

\* No candidate has fewer votes for it than against it.
LeadInv ==
  \A i \in Levels : \A p \in Rows(i) : rs[i][p].no_cnt <= rs[i][p].yes_cnt

\* The part of the invariant that the queries rest on.  Weighted insertions keep
\* it as well, which set locks and elect candidates by other rules.
QueryInv == TypeOK /\ Accounted /\ FilterInv /\ WalkInv /\ LeadInv /\ ShareInv
                   /\ NothingBelowTheStop
-----------------------------------------------------------------------------
(* Facts about the operators of the model.                                 *)

\* A walk always ends: at the first level that does not pass the key on.
LEMMA StopDepthExists ==
  ASSUME NEW k
  PROVE  /\ StopDepth(k) \in Depths
         /\ \A i \in 0 .. StopDepth(k) - 1 : Passes(k, i)
         /\ StopDepth(k) < rs_level => ~ Passes(k, StopDepth(k))
<1> DEFINE T == {d \in Depths : d < rs_level => ~ Passes(k, d)}
<1>1. T \in SUBSET Nat /\ rs_level \in T
  BY LevelAssumption DEF Depths
<1>2. PICK d \in T : \A y \in T : d <= y
  <2> HIDE DEF T
  <2> QED BY <1>1, LeastNat
<1>3. \A i \in 0 .. d - 1 : Passes(k, i)
  BY <1>1, <1>2, LevelAssumption DEF Depths
<1>4. \E e \in Depths : /\ \A i \in 0 .. e - 1 : Passes(k, i)
                        /\ e < rs_level => ~ Passes(k, e)
  BY <1>2, <1>3
<1> QED BY <1>4 DEF StopDepth

\* The smallest counter of a key.
LEMMA MinValIsMin ==
  ASSUME TypeOK, NEW k \in Keys, MfRows # {}
  PROVE  /\ MinVal(k) \in 0 .. mf_err_bound
         /\ \E j \in MfRows : MinVal(k) = MfCell(k, j)
         /\ \A j \in MfRows : MinVal(k) <= MfCell(k, j)
<1> DEFINE S == {MfCell(k, j) : j \in MfRows}
<1>1. \A j \in MfRows : MfCell(k, j) \in 0 .. mf_err_bound
  BY DEF TypeOK, MfCell
<1>2. S \in SUBSET Nat /\ S # {}
  BY <1>1, FilterAssumption
<1>3. \E x \in S : \A y \in S : x <= y
  <2> HIDE DEF S
  <2> QED BY <1>2, LeastNat
<1>4. MinVal(k) \in S /\ \A y \in S : MinVal(k) <= y
  <2>1. MinVal(k) = CHOOSE x \in S : \A y \in S : x <= y
    BY DEF MinVal, Min
  <2> HIDE DEF S
  <2> QED BY <1>3, <2>1
<1> QED BY <1>1, <1>4

\* The bucket of a key is a bucket.
LEMMA BucketOfType ==
  ASSUME TypeOK, NEW k \in Keys, NEW i \in Levels
  PROVE  /\ rsPos[i][k] \in Rows(i)
         /\ BucketOf(k, i) \in Bucket
         /\ BucketOf(k, i) = rs[i][rsPos[i][k]]
  BY DEF TypeOK, RowChoices, BucketOf
-----------------------------------------------------------------------------
(* The invariant is inductive.                                             *)

\* Zeroed tables satisfy the invariant.
LEMMA EmptyIInv == Init => IInv
<1> SUFFICES ASSUME Init PROVE IInv
  OBVIOUS
<1> USE DEF Init
<1>1. /\ 0 \in Depths
      /\ \A i \in Levels : i \in Depths /\ i + 1 \in Depths
  BY LevelAssumption DEF Depths, Levels
<1>2. TypeOK
  <2>1. EmptyBucket \in Bucket
    BY DEF EmptyBucket, Bucket
  <2>2. \A i \in Levels : rs[i] \in [Rows(i) -> Bucket]
    BY <2>1 DEF EmptyRs
  <2>3. DOMAIN rs = Levels
    BY DEF EmptyRs
  <2>4. mf \in [MfRows -> [MfCols -> 0 .. mf_err_bound]]
    BY FilterAssumption DEF EmptyMf
  <2> QED BY <2>2, <2>3, <2>4 DEF TypeOK
<1>3. \A k \in Keys : \A i \in Levels : BucketOf(k, i) = EmptyBucket
  BY DEF RowChoices, BucketOf, EmptyRs
<1>4. Accounted
  BY <1>1 DEF Accounted
<1>5. FilterInv
  <2>1. \A k \in Keys : \A j \in MfRows : MfCell(k, j) = 0
    BY DEF MfCell, EmptyMf
  <2> QED BY <1>1, <2>1 DEF FilterInv
<1>6. WalkInv
  BY <1>1 DEF WalkInv
<1>7. VotesInv
  BY LevelAssumption DEF VotesInv, EmptyRs, EmptyBucket, Noise
<1>8. ShareInv
  BY <1>1, <1>3 DEF ShareInv, EmptyBucket, recorded
<1>9. OwnerInv
  BY DEF OwnerInv, EmptyRs, EmptyBucket
<1>10. NothingBelowTheStop
  BY <1>1 DEF NothingBelowTheStop
<1> QED BY <1>2, <1>4, <1>5, <1>6, <1>7, <1>8, <1>9, <1>10 DEF IInv

\* An insertion that the filter absorbs.
LEMMA InsertMfIInv ==
  ASSUME IInv, NEW k \in Keys, InsertMf(k)
  PROVE  IInv'
<1> USE DEF IInv
<1>1. /\ MfRows # {}
      /\ MinVal(k) \in 0 .. mf_err_bound - 1
      /\ \A j \in MfRows : MinVal(k) <= MfCell(k, j)
      /\ \E j \in MfRows : MinVal(k) = MfCell(k, j)
  BY MinValIsMin, FilterAssumption DEF InsertMf, Absorbs
<1>2. \A j \in MfRows : \A c \in MfCols :
        mf'[j][c] = IF c = mfPos[j][k] /\ mf[j][c] = MinVal(k)
                    THEN MinVal(k) + 1 ELSE mf[j][c]
  <2>1. Min({MinVal(k) + 1, mf_err_bound}) = MinVal(k) + 1
    BY <1>1, FilterAssumption DEF Min
  <2> QED BY <2>1 DEF InsertMf, MfAfter
<1>3. TypeOK'
  <2>1. mf' \in [MfRows -> [MfCols -> 0 .. mf_err_bound]]
    <3>1. \A j \in MfRows : \A c \in MfCols : mf[j][c] \in 0 .. mf_err_bound
      BY DEF TypeOK
    <3>2. \A j \in MfRows : \A c \in MfCols : mf'[j][c] \in 0 .. mf_err_bound
      BY <1>1, <1>2, <3>1, FilterAssumption
    <3> QED BY <3>2 DEF InsertMf, MfAfter
  <2> QED BY <2>1 DEF TypeOK, InsertMf, seeds
<1>4. Accounted'
  <2>1. \A x \in Keys : reach[x][0] \in Nat
    BY LevelAssumption DEF TypeOK, Depths
  <2>2. /\ reach' = reach
        /\ \A x \in Keys :
             /\ flow_cnt'[x] = IF x = k THEN flow_cnt[x] + 1 ELSE flow_cnt[x]
             /\ filtered'[x] = IF x = k THEN filtered[x] + 1 ELSE filtered[x]
    BY DEF InsertMf, TypeOK
  <2> QED BY <2>1, <2>2 DEF Accounted, TypeOK
<1>5. FilterInv'
  <2> SUFFICES ASSUME NEW x \in Keys, NEW j \in MfRows
               PROVE  /\ filtered'[x] <= MfCell(x, j)'
                      /\ reach'[x][0] > 0 => MfCell(x, j)' = mf_err_bound
    BY <1>1 DEF FilterInv
  <2>1. mfPos' = mfPos /\ mfPos[j][x] \in MfCols /\ mfPos[j][k] \in MfCols
    BY DEF InsertMf, seeds, TypeOK
  <2>2. MfCell(x, j)' = IF mfPos[j][x] = mfPos[j][k] /\ MfCell(x, j) = MinVal(k)
                        THEN MinVal(k) + 1 ELSE MfCell(x, j)
    BY <1>2, <2>1 DEF MfCell
  <2>3. MfCell(x, j) \in Nat /\ MfCell(k, j) \in Nat /\ filtered[x] \in Nat
    BY <2>1, FilterAssumption DEF TypeOK, MfCell
  <2>4. filtered'[x] <= MfCell(x, j)'
    <3>1. CASE x = k
      <4>1. filtered'[x] = filtered[k] + 1
        BY <3>1 DEF InsertMf, TypeOK
      <4>2. filtered[k] <= MinVal(k)
        BY <1>1 DEF FilterInv
      <4> QED BY <1>1, <2>2, <2>3, <3>1, <4>1, <4>2
    <3>2. CASE x # k
      <4>1. filtered'[x] = filtered[x]
        BY <3>2 DEF InsertMf, TypeOK
      <4>2. filtered[x] <= MfCell(x, j)
        BY DEF FilterInv
      <4> QED BY <1>1, <2>2, <2>3, <4>1, <4>2
    <3> QED BY <3>1, <3>2
  <2>5. ASSUME reach'[x][0] > 0
        PROVE  MfCell(x, j)' = mf_err_bound
    <3>1. MfCell(x, j) = mf_err_bound
      BY <2>5 DEF FilterInv, InsertMf
    <3> QED BY <1>1, <2>2, <3>1, FilterAssumption
  <2> QED BY <2>4, <2>5
<1>6. WalkInv' /\ VotesInv' /\ ShareInv' /\ OwnerInv' /\ NothingBelowTheStop'
  BY DEF InsertMf, seeds, WalkInv, VotesInv, ShareInv, OwnerInv, NothingBelowTheStop,
         BucketOf, Passes, recorded
<1> QED BY <1>3, <1>4, <1>5, <1>6
\* The two outcomes of a vote, field by field.
LEMMA VoteFields ==
  ASSUME NEW b \in Bucket, NEW k \in Keys, NEW n \in Nat
  PROVE  /\ Vote(b, k, n) \in Bucket
         /\ b.yes_cnt <= b.no_cnt \/ b.id = k =>
              /\ Vote(b, k, n).id = k
              /\ Vote(b, k, n).yes_cnt = b.yes_cnt + 1
              /\ Vote(b, k, n).no_cnt = b.no_cnt
              /\ Vote(b, k, n).locked = b.locked
         /\ ~ (b.yes_cnt <= b.no_cnt \/ b.id = k) =>
              /\ Vote(b, k, n).id = b.id
              /\ Vote(b, k, n).yes_cnt = b.yes_cnt
              /\ Vote(b, k, n).no_cnt = b.no_cnt + 1
              /\ Vote(b, k, n).locked = (b.locked \/ b.no_cnt + 1 >= n)
<1> DEFINE yes == b.yes_cnt + 1
           no == b.no_cnt + 1
           lock == (b.locked \/ b.no_cnt + 1 >= n)
<1>1. yes \in Nat /\ no \in Nat /\ lock \in BOOLEAN
  BY DEF Bucket
<1>2. CASE b.yes_cnt <= b.no_cnt \/ b.id = k
  <2>1. Vote(b, k, n) = [b EXCEPT !.id = k, !.yes_cnt = yes]
    BY <1>2 DEF Vote
  <2> HIDE DEF yes
  <2>2. /\ Vote(b, k, n) \in Bucket
        /\ Vote(b, k, n).id = k
        /\ Vote(b, k, n).yes_cnt = yes
        /\ Vote(b, k, n).no_cnt = b.no_cnt
        /\ Vote(b, k, n).locked = b.locked
    BY <1>1, <2>1, Zenon DEF Bucket
  <2> QED BY <1>2, <2>2 DEF yes
<1>3. CASE ~ (b.yes_cnt <= b.no_cnt \/ b.id = k)
  <2>1. Vote(b, k, n) = [b EXCEPT !.no_cnt = no, !.locked = lock]
    BY <1>3 DEF Vote
  <2> HIDE DEF no, lock
  <2>2. /\ Vote(b, k, n) \in Bucket
        /\ Vote(b, k, n).id = b.id
        /\ Vote(b, k, n).yes_cnt = b.yes_cnt
        /\ Vote(b, k, n).no_cnt = no
        /\ Vote(b, k, n).locked = lock
    BY <1>1, <2>1, Zenon DEF Bucket
  <2> QED BY <1>3, <2>2 DEF no, lock
<1> QED BY <1>2, <1>3

\* The effect of an insertion on every bucket and on every walk count.
LEMMA InsertRsEffect ==
  ASSUME TypeOK, NEW k \in Keys, InsertRs(k)
  PROVE  /\ rs' = RsAfter(k)
         /\ \A x \in Keys : \A i \in Levels :
              BucketOf(x, i)' =
                IF i = StopDepth(k) /\ rsPos[i][x] = rsPos[i][k]
                THEN Vote(BucketOf(x, i), k, rs_err_bound[i])
                ELSE BucketOf(x, i)
         /\ \A x \in Keys : \A e \in Depths :
              reach'[x][e] = IF x = k /\ e <= StopDepth(k)
                             THEN reach[x][e] + 1 ELSE reach[x][e]
         /\ \A x \in Keys : \A i \in Levels :
              recorded(x, i)' = IF x = k /\ i = StopDepth(k)
                                THEN recorded(x, i) + 1 ELSE recorded(x, i)
<1>1. rs' = RsAfter(k) /\ rsPos' = rsPos
  BY DEF InsertRs, seeds
<1>2. \A x \in Keys : \A i \in Levels : rsPos[i][x] \in Rows(i)
  BY DEF TypeOK, RowChoices
<1>3. \A x \in Keys : \A i \in Levels :
        BucketOf(x, i)' =
          IF i = StopDepth(k) /\ rsPos[i][x] = rsPos[i][k]
          THEN Vote(BucketOf(x, i), k, rs_err_bound[i])
          ELSE BucketOf(x, i)
  BY <1>1, <1>2 DEF BucketOf, RsAfter
<1>4. \A x \in Keys : \A e \in Depths :
        reach'[x][e] = IF x = k /\ e <= StopDepth(k)
                       THEN reach[x][e] + 1 ELSE reach[x][e]
  BY DEF InsertRs, TypeOK
<1>5. \A x \in Keys : \A i \in Levels :
        recorded(x, i)' = IF x = k /\ i = StopDepth(k)
                          THEN recorded(x, i) + 1 ELSE recorded(x, i)
  <2> SUFFICES ASSUME NEW x \in Keys, NEW i \in Levels
               PROVE  recorded(x, i)' = IF x = k /\ i = StopDepth(k)
                                        THEN recorded(x, i) + 1 ELSE recorded(x, i)
    OBVIOUS
  <2>1. i \in Int /\ i \in Depths /\ i + 1 \in Depths /\ StopDepth(k) \in Int
    BY LevelAssumption, StopDepthExists DEF Depths, Levels
  <2>2. reach[x][i] \in Int /\ reach[x][i + 1] \in Int
    BY <2>1 DEF TypeOK
  <2>3. /\ reach'[x][i] = IF x = k /\ i <= StopDepth(k)
                          THEN reach[x][i] + 1 ELSE reach[x][i]
        /\ reach'[x][i + 1] = IF x = k /\ i + 1 <= StopDepth(k)
                              THEN reach[x][i + 1] + 1 ELSE reach[x][i + 1]
    BY <1>4, <2>1
  <2> QED BY <2>1, <2>2, <2>3 DEF recorded
<1> QED BY <1>1, <1>3, <1>4, <1>5

\* An insertion that the filter lets through.
LEMMA InsertRsIInv ==
  ASSUME IInv, NEW k \in Keys, InsertRs(k)
  PROVE  IInv'
<1> USE DEF IInv
<1> DEFINE d == StopDepth(k)
<1>1. /\ d \in Depths
      /\ \A i \in 0 .. d - 1 : Passes(k, i)
      /\ d < rs_level => ~ Passes(k, d)
  BY StopDepthExists
<1>2. /\ \A x \in Keys : \A i \in Levels :
           BucketOf(x, i)' =
             IF i = d /\ rsPos[i][x] = rsPos[i][k]
             THEN Vote(BucketOf(x, i), k, rs_err_bound[i])
             ELSE BucketOf(x, i)
      /\ \A x \in Keys : \A e \in Depths :
           reach'[x][e] = IF x = k /\ e <= d THEN reach[x][e] + 1 ELSE reach[x][e]
      /\ \A x \in Keys : \A i \in Levels :
           recorded(x, i)' = IF x = k /\ i = d
                             THEN recorded(x, i) + 1 ELSE recorded(x, i)
  BY InsertRsEffect
<1>3. \A i \in Levels : /\ i \in Nat /\ i \in Depths /\ i + 1 \in Depths
                        /\ rs_err_bound[i] \in Nat
  BY LevelAssumption DEF Depths, Levels
<1>4. d \in Nat /\ 0 \in Depths /\ 0 <= d
  BY <1>1, LevelAssumption DEF Depths
<1>5. \A x \in Keys : \A e \in Depths : reach[x][e] \in Nat
  BY DEF TypeOK
<1> HIDE DEF d
<1>6. TypeOK'
  <2>1. \A i \in Levels : \A p \in Rows(i) : rs[i][p] \in Bucket
    BY DEF TypeOK
  <2>2. \A i \in Levels : \A p \in Rows(i) :
          Vote(rs[i][p], k, rs_err_bound[i]) \in Bucket
    BY <1>3, <2>1, VoteFields
  <2>3. \A i \in Levels : rs'[i] \in [Rows(i) -> Bucket]
    BY <2>1, <2>2 DEF InsertRs, RsAfter
  <2>4. DOMAIN rs' = Levels
    BY DEF InsertRs, RsAfter
  <2>5. reach' \in [Keys -> [Depths -> Nat]]
    <3>1. [e \in Depths |-> IF e <= StopDepth(k) THEN reach[k][e] + 1
                                                 ELSE reach[k][e]]
            \in [Depths -> Nat]
      BY <1>5
    <3> QED BY <3>1 DEF InsertRs, TypeOK
  <2> QED BY <2>3, <2>4, <2>5 DEF TypeOK, InsertRs, seeds
<1>7. Accounted'
  <2>1. \A x \in Keys : flow_cnt'[x] = IF x = k THEN flow_cnt[x] + 1 ELSE flow_cnt[x]
    BY DEF InsertRs, TypeOK
  <2>2. \A x \in Keys : reach'[x][0] = IF x = k THEN reach[x][0] + 1 ELSE reach[x][0]
    BY <1>2, <1>4
  <2>3. \A x \in Keys : flow_cnt[x] = filtered[x] + reach[x][0]
                        /\ filtered[x] \in Nat /\ reach[x][0] \in Nat
    BY <1>4, <1>5 DEF Accounted, TypeOK
  <2>4. filtered' = filtered
    BY DEF InsertRs
  <2> QED BY <2>1, <2>2, <2>3, <2>4 DEF Accounted
<1>8. FilterInv'
  <2>1. ASSUME NEW j \in MfRows PROVE MfCell(k, j) = mf_err_bound
    <3>1. MinVal(k) = mf_err_bound
      BY <2>1 DEF InsertRs, Absorbs
    <3>2. mf_err_bound <= MfCell(k, j)
      BY <2>1, <3>1, MinValIsMin
    <3>3. MfCell(k, j) \in 0 .. mf_err_bound
      BY <2>1 DEF MfCell, TypeOK
    <3> QED BY <3>2, <3>3, FilterAssumption
  <2>2. filtered' = filtered /\ \A x \in Keys : \A j \in MfRows :
          MfCell(x, j)' = MfCell(x, j)
    BY DEF InsertRs, seeds, MfCell
  <2>3. \A x \in Keys : x # k => reach'[x][0] = reach[x][0]
    BY <1>2, <1>4
  <2> QED BY <2>1, <2>2, <2>3 DEF FilterInv
<1>9. WalkInv'
  <2> SUFFICES ASSUME NEW x \in Keys, NEW c \in Depths, NEW e \in Depths, c <= e
               PROVE  reach'[x][e] <= reach'[x][c]
    BY DEF WalkInv
  <2>1. reach[x][e] <= reach[x][c] /\ reach[x][e] \in Nat /\ reach[x][c] \in Nat
    BY <1>5 DEF WalkInv
  <2>2. c \in Int /\ e \in Int
    BY LevelAssumption DEF Depths
  <2> QED BY <1>2, <1>4, <2>1, <2>2
<1>10. VotesInv'
  <2> SUFFICES ASSUME NEW i \in Levels, NEW p \in Rows(i)
               PROVE  /\ rs'[i][p].no_cnt <= rs'[i][p].yes_cnt
                      /\ rs'[i][p].no_cnt <= Noise(i)
                      /\ rs'[i][p].locked <=>
                           /\ rs'[i][p].no_cnt > 0
                           /\ rs'[i][p].no_cnt >= rs_err_bound[i]
    BY DEF VotesInv
  <2> DEFINE b == rs[i][p]
  <2>1. b \in Bucket
    BY DEF TypeOK
  <2>2. /\ b.no_cnt <= b.yes_cnt /\ b.no_cnt <= Noise(i)
        /\ b.locked <=> b.no_cnt > 0 /\ b.no_cnt >= rs_err_bound[i]
    BY DEF VotesInv
  <2>3. rs'[i][p] = IF i = d /\ p = rsPos[i][k]
                    THEN Vote(b, k, rs_err_bound[i]) ELSE b
    BY DEF InsertRs, RsAfter, d
  <2>4. CASE i = d /\ p = rsPos[i][k]
    <3>1. ~ (b.locked /\ b.id # k)
      BY <1>1, <2>4, <1>3, LevelAssumption DEF Passes, BucketOf, Levels
    <3>2. b.yes_cnt \in Nat /\ b.no_cnt \in Nat /\ b.locked \in BOOLEAN
      BY <2>1 DEF Bucket
    <3> DEFINE n == rs_err_bound[i]
               v == rs'[i][p]
    <3>3. n \in Nat /\ v = Vote(b, k, n)
      BY <1>3, <2>3, <2>4
    <3>4. v.locked \in BOOLEAN /\ v.no_cnt \in Nat /\ v.yes_cnt \in Nat
      <4>1. v \in Bucket
        BY <2>1, <3>3, VoteFields
      <4> QED BY <4>1 DEF Bucket
    <3>5. CASE b.yes_cnt <= b.no_cnt \/ b.id = k
      <4>1. v.yes_cnt = b.yes_cnt + 1 /\ v.no_cnt = b.no_cnt /\ v.locked = b.locked
        BY <2>1, <3>3, <3>5, VoteFields
      <4> HIDE DEF b, v
      <4>2. v.no_cnt <= v.yes_cnt /\ v.no_cnt <= Noise(i)
        BY <2>2, <3>2, <4>1
      <4>3. v.locked <=> v.no_cnt > 0 /\ v.no_cnt >= n
        BY <2>2, <4>1
      <4> QED BY <4>2, <4>3 DEF v
    <3>6. CASE ~ (b.yes_cnt <= b.no_cnt \/ b.id = k)
      <4>1. /\ v.yes_cnt = b.yes_cnt /\ v.no_cnt = b.no_cnt + 1
            /\ v.locked = (b.locked \/ b.no_cnt + 1 >= n)
        BY <2>1, <3>3, <3>6, VoteFields
      <4>2. ~ b.locked
        BY <3>1, <3>6
      <4>3. ~ (b.no_cnt > 0 /\ b.no_cnt >= n)
        BY <2>2, <4>2
      <4> HIDE DEF b, v, n
      <4>4. v.no_cnt <= v.yes_cnt
        BY <3>2, <3>6, <4>1
      <4>5. v.no_cnt <= Noise(i)
        BY <3>2, <3>3, <4>1, <4>3 DEF Noise, n
      <4>6. v.locked = (v.no_cnt >= n) /\ v.no_cnt > 0
        BY <3>2, <4>1, <4>2
      <4> QED BY <4>4, <4>5, <4>6 DEF v, n
    <3> QED BY <3>5, <3>6
  <2>5. CASE ~ (i = d /\ p = rsPos[i][k])
    BY <2>2, <2>3, <2>5
  <2> QED BY <2>4, <2>5
<1>11. ShareInv'
  <2> SUFFICES ASSUME NEW x \in Keys, NEW i \in Levels
               PROVE  /\ BucketOf(x, i)'.id = x =>
                           /\ recorded(x, i)' <= BucketOf(x, i)'.yes_cnt
                           /\ BucketOf(x, i)'.yes_cnt - BucketOf(x, i)'.no_cnt
                                <= recorded(x, i)'
                      /\ BucketOf(x, i)'.id # x =>
                           recorded(x, i)' <= BucketOf(x, i)'.no_cnt
    BY DEF ShareInv
  <2> DEFINE b == BucketOf(x, i)
             r == recorded(x, i)
  <2>1. b \in Bucket /\ r \in Nat
    BY <1>3, <1>5, BucketOfType DEF WalkInv, recorded
  <2>2. b.yes_cnt \in Nat /\ b.no_cnt \in Nat /\ b.locked \in BOOLEAN
    BY <2>1 DEF Bucket
  <2>3. /\ b.no_cnt <= b.yes_cnt
        /\ b.id = x => r <= b.yes_cnt /\ b.yes_cnt - b.no_cnt <= r
        /\ b.id # x => r <= b.no_cnt
    BY BucketOfType DEF VotesInv, ShareInv
  <2>4. CASE i = d /\ rsPos[i][x] = rsPos[i][k]
    <3>1. BucketOf(x, i)' = Vote(b, k, rs_err_bound[i])
      BY <1>2, <2>4
    <3>2. recorded(x, i)' = IF x = k THEN r + 1 ELSE r
      BY <1>2, <2>4
    <3> DEFINE v == BucketOf(x, i)'
    <3>3. rs_err_bound[i] \in Nat /\ x \in Keys /\ k \in Keys
      BY <1>3
    <3>4. CASE b.yes_cnt <= b.no_cnt \/ b.id = k
      <4>1. v.id = k /\ v.yes_cnt = b.yes_cnt + 1 /\ v.no_cnt = b.no_cnt
        BY <2>1, <3>1, <3>3, <3>4, VoteFields
      <4> HIDE DEF b, r, v
      <4>2. v.id = x => recorded(x, i)' <= v.yes_cnt
                        /\ v.yes_cnt - v.no_cnt <= recorded(x, i)'
        BY <2>1, <2>2, <2>3, <3>2, <3>4, <4>1
      <4>3. v.id # x => recorded(x, i)' <= v.no_cnt
        BY <2>1, <2>2, <2>3, <3>2, <3>4, <4>1
      <4> QED BY <4>2, <4>3 DEF v
    <3>5. CASE ~ (b.yes_cnt <= b.no_cnt \/ b.id = k)
      <4>1. v.id = b.id /\ v.yes_cnt = b.yes_cnt /\ v.no_cnt = b.no_cnt + 1
        BY <2>1, <3>1, <3>3, <3>5, VoteFields
      <4> HIDE DEF b, r, v
      <4>2. v.id = x => recorded(x, i)' <= v.yes_cnt
                        /\ v.yes_cnt - v.no_cnt <= recorded(x, i)'
        BY <2>1, <2>2, <2>3, <3>2, <3>5, <4>1
      <4>3. v.id # x => recorded(x, i)' <= v.no_cnt
        BY <2>1, <2>2, <2>3, <3>2, <3>5, <4>1
      <4> QED BY <4>2, <4>3 DEF v
    <3> QED BY <3>4, <3>5
  <2>5. CASE ~ (i = d /\ rsPos[i][x] = rsPos[i][k])
    <3>1. BucketOf(x, i)' = b /\ recorded(x, i)' = r
      BY <1>2, <2>5
    <3> QED BY <2>3, <3>1
  <2> QED BY <2>4, <2>5
<1>12. NothingBelowTheStop'
  <2> SUFFICES ASSUME NEW x \in Keys, NEW i \in Levels, ~ Passes(x, i)'
               PROVE  reach'[x][i + 1] = 0
    BY DEF NothingBelowTheStop
  <2> DEFINE b == BucketOf(x, i)
  <2>1. b \in Bucket
    BY BucketOfType
  <2>2. ~ (BucketOf(x, i)'.locked /\ BucketOf(x, i)'.id # x)
    BY DEF Passes
  <2>3. ~ Passes(x, i)
    <3>1. CASE i = d /\ rsPos[i][x] = rsPos[i][k]
      <4>1. BucketOf(x, i)' = Vote(b, k, rs_err_bound[i])
        BY <1>2, <3>1
      <4>2. ~ (b.locked /\ b.id # k)
        <5>1. ~ Passes(k, i) /\ BucketOf(k, i) = b
          BY <1>1, <1>3, <3>1, LevelAssumption DEF Levels, BucketOf
        <5> QED BY <5>1 DEF Passes
      <4>3. b.locked \in BOOLEAN
        BY <2>1 DEF Bucket
      <4> HIDE DEF b
      <4>4. b.locked => Vote(b, k, rs_err_bound[i]).locked
                        /\ Vote(b, k, rs_err_bound[i]).id = b.id
        BY <2>1, <1>3, <4>2, <4>3, VoteFields
      <4>5. ~ (b.locked /\ b.id # x)
        BY <2>2, <4>1, <4>4
      <4> QED BY <4>5 DEF Passes, b
    <3>2. CASE ~ (i = d /\ rsPos[i][x] = rsPos[i][k])
      <4>1. BucketOf(x, i)' = b
        BY <1>2, <3>2
      <4> QED BY <2>2, <4>1 DEF Passes
    <3> QED BY <3>1, <3>2
  <2>4. reach[x][i + 1] = 0
    BY <2>3 DEF NothingBelowTheStop
  <2>5. ~ (x = k /\ i + 1 <= d)
    BY <1>1, <1>3, <1>4, <2>3
  <2> QED BY <1>2, <1>3, <2>4, <2>5
<1>13. OwnerInv'
  <2> SUFFICES ASSUME NEW i \in Levels, NEW p \in Rows(i), rs'[i][p].yes_cnt > 0
               PROVE  /\ rs'[i][p].id \in Keys
                      /\ rsPos[i][rs'[i][p].id] = p
                      /\ reach'[rs'[i][p].id][i] - reach'[rs'[i][p].id][i + 1] > 0
    BY DEF OwnerInv, InsertRs, seeds, recorded
  <2> DEFINE b == rs[i][p]
             v == rs'[i][p]
  <2>1. b \in Bucket /\ rs_err_bound[i] \in Nat
    BY <1>3 DEF TypeOK
  <2>2. b.yes_cnt > 0 => /\ b.id \in Keys /\ rsPos[i][b.id] = p
                         /\ recorded(b.id, i) > 0
    BY DEF OwnerInv
  <2>3. v = IF i = d /\ p = rsPos[i][k] THEN Vote(b, k, rs_err_bound[i]) ELSE b
    BY DEF InsertRs, RsAfter, d
  <2>4. \A x \in Keys : recorded(x, i) \in Nat
    BY <1>3, <1>5 DEF WalkInv, recorded
  <2>5. CASE /\ i = d /\ p = rsPos[i][k]
             /\ b.yes_cnt <= b.no_cnt \/ b.id = k
    <3>1. v.id = k
      BY <2>1, <2>3, <2>5, VoteFields
    <3>2. reach'[k][i] - reach'[k][i + 1] = recorded(k, i) + 1
      BY <1>2, <2>5 DEF recorded
    <3>3. reach'[k][i] - reach'[k][i + 1] > 0
      BY <2>4, <3>2
    <3> QED BY <2>5, <3>1, <3>3
  <2>6. CASE ~ (/\ i = d /\ p = rsPos[i][k]
                /\ b.yes_cnt <= b.no_cnt \/ b.id = k)
    <3>1. v.id = b.id /\ v.yes_cnt = b.yes_cnt
      BY <2>1, <2>3, <2>6, VoteFields
    <3>2. b.id \in Keys /\ rsPos[i][b.id] = p /\ recorded(b.id, i) > 0
      BY <2>2, <3>1
    <3>3. ~ (b.id = k /\ i = d)
      BY <2>6, <3>2
    <3>4. \A x \in Keys : ~ (x = k /\ i = d) =>
            reach'[x][i] - reach'[x][i + 1] = recorded(x, i)
      BY <1>2 DEF recorded
    <3>5. reach'[b.id][i] - reach'[b.id][i + 1] > 0
      BY <3>2, <3>3, <3>4
    <3> QED BY <3>1, <3>2, <3>5
  <2> QED BY <2>5, <2>6
<1> QED BY <1>6, <1>7, <1>8, <1>9, <1>10, <1>11, <1>12, <1>13

\* The strengthened invariant holds of every behaviour.
THEOREM SketchInvariant == Spec => []IInv
<1>1. Init => IInv
  BY EmptyIInv
<1>2. IInv /\ [Next]_vars => IInv'
  <2> SUFFICES ASSUME IInv, [Next]_vars
               PROVE  IInv'
    OBVIOUS
  <2>1. CASE Clear
    <3>1. Init'
      BY <2>1 DEF Clear, Init, seeds, IInv, TypeOK
    <3>2. Init' => IInv'
      BY EmptyIInv, PTL
    <3> QED BY <3>1, <3>2
  <2>2. ASSUME NEW k \in Keys, InsertMf(k) PROVE IInv'
    BY <2>2, InsertMfIInv
  <2>3. ASSUME NEW k \in Keys, InsertRs(k) PROVE IInv'
    BY <2>3, InsertRsIInv
  <2>4. CASE UNCHANGED vars
    BY <2>4 DEF vars, IInv, TypeOK, Accounted, FilterInv, WalkInv, VotesInv,
                ShareInv, OwnerInv, NothingBelowTheStop, MfCell, BucketOf, Passes,
                recorded
  <2> QED BY <2>1, <2>2, <2>3, <2>4 DEF Next
<1> QED BY <1>1, <1>2, PTL DEF Spec
-----------------------------------------------------------------------------
(* Recursion along the levels.                                             *)

\* Induction from the deepest level up, for a set of depths.
LEMMA UpwardFromTheDeepest ==
  ASSUME NEW S, rs_level \in S, \A d \in Levels : d + 1 \in S => d \in S
  PROVE  Depths \subseteq S
  BY LevelAssumption, DownwardInduction DEF Depths, Levels

\* A sum over the levels from a depth on, cut off at the first level that does
\* not go on, is well defined.
LEMMA CutSumExists ==
  ASSUME NEW go, NEW a, \A d \in Levels : a[d] \in Int
  PROVE  \E f : f = [d \in Depths |->
                       IF d = rs_level THEN 0
                       ELSE IF go[d] THEN a[d] + f[d + 1] ELSE a[d]]
<1> DEFINE Term(f, d) == IF d = rs_level THEN 0
                         ELSE IF go[d] THEN a[d] + f[d + 1] ELSE a[d]
           S == {d \in Depths : \E f : \A e \in d .. rs_level : f[e] = Term(f, e)}
<1>1. rs_level \in S
  <2>1. rs_level \in Depths /\ \A e \in rs_level .. rs_level : e = rs_level
    BY LevelAssumption DEF Depths
  <2> DEFINE f == [e \in Depths |-> 0]
  <2>2. \A e \in rs_level .. rs_level : f[e] = Term(f, e)
    BY <2>1
  <2> QED BY <2>1, <2>2
<1>2. ASSUME NEW d \in Levels, d + 1 \in S
      PROVE  d \in S
  <2>1. PICK f : \A e \in d + 1 .. rs_level : f[e] = Term(f, e)
    BY <1>2
  <2> DEFINE g == [e \in Depths |-> IF e = d THEN Term(f, d) ELSE f[e]]
  <2>2. d \in Depths /\ d + 1 \in Depths /\ d \in Int /\ d < rs_level
    BY LevelAssumption DEF Depths, Levels
  <2>3. ASSUME NEW e \in d .. rs_level
        PROVE  g[e] = Term(g, e)
    <3>1. e \in Depths /\ e \in Int /\ (e # rs_level => e + 1 \in Depths /\ e + 1 # d)
      BY <2>2, LevelAssumption DEF Depths
    <3>2. e # rs_level => g[e + 1] = f[e + 1]
      BY <3>1
    <3>3. Term(g, e) = Term(f, e)
      BY <3>2
    <3>4. e # d => f[e] = Term(f, e)
      BY <2>1, <2>2, LevelAssumption
    <3> QED BY <3>1, <3>3, <3>4
  <2> QED BY <2>2, <2>3
<1>3. Depths \subseteq S
  <2> HIDE DEF S
  <2> QED BY <1>1, <1>2, UpwardFromTheDeepest
<1>4. PICK f : \A e \in 0 .. rs_level : f[e] = Term(f, e)
  <2>1. 0 \in Depths
    BY LevelAssumption DEF Depths
  <2> QED BY <1>3, <2>1
<1> DEFINE g == [e \in Depths |-> f[e]]
<1>5. \A e \in Depths : g[e] = Term(g, e)
  <2> SUFFICES ASSUME NEW e \in Depths PROVE g[e] = Term(g, e)
    OBVIOUS
  <2>1. e # rs_level => e + 1 \in Depths
    BY LevelAssumption DEF Depths
  <2>2. Term(g, e) = Term(f, e)
    BY <2>1
  <2> QED BY <1>4, <2>2 DEF Depths
<1>6. g = [e \in Depths |-> Term(g, e)]
  BY <1>5
<1> QED BY <1>6

\* The equations of the loop of query_freq.
LEMMA EstFromEquations ==
  ASSUME TypeOK, NEW k \in Keys
  PROVE  \A d \in Depths :
           /\ EstFrom(k)[d] = IF d = rs_level THEN 0
                              ELSE IF Passes(k, d) THEN Est(k, d) + EstFrom(k)[d + 1]
                              ELSE Est(k, d)
           /\ EstFrom(k)[d] \in Nat
<1> DEFINE go == [d \in Levels |-> Passes(k, d)]
           a == [d \in Levels |-> Est(k, d)]
<1>1. \A d \in Levels : Est(k, d) \in Nat
  BY BucketOfType DEF Est, Bucket
<1>2. \A d \in Depths : d # rs_level => d \in Levels
  BY LevelAssumption DEF Depths, Levels
<1>3. \E f : f = [d \in Depths |->
                    IF d = rs_level THEN 0
                    ELSE IF go[d] THEN a[d] + f[d + 1] ELSE a[d]]
  <2>1. \A d \in Levels : a[d] \in Int
    BY <1>1
  <2> HIDE DEF go, a
  <2> QED BY <2>1, CutSumExists
<1>4. PICK g : g = [d \in Depths |->
                    IF d = rs_level THEN 0
                    ELSE IF go[d] THEN a[d] + g[d + 1] ELSE a[d]]
  BY <1>3
<1>5. g = [d \in Depths |->
                    IF d = rs_level THEN 0
                    ELSE IF Passes(k, d) THEN Est(k, d) + g[d + 1] ELSE Est(k, d)]
  BY <1>2, <1>4
<1>6. EstFrom(k) = [d \in Depths |->
                    IF d = rs_level THEN 0
                    ELSE IF Passes(k, d) THEN Est(k, d) + EstFrom(k)[d + 1]
                    ELSE Est(k, d)]
  BY <1>5 DEF EstFrom
<1>7. \A d \in Depths :
        EstFrom(k)[d] = IF d = rs_level THEN 0
                        ELSE IF Passes(k, d) THEN Est(k, d) + EstFrom(k)[d + 1]
                        ELSE Est(k, d)
  BY <1>6
<1>8. Depths \subseteq {d \in Depths : EstFrom(k)[d] \in Nat}
  <2> DEFINE S == {d \in Depths : EstFrom(k)[d] \in Nat}
  <2>1. rs_level \in S
    BY <1>7, LevelAssumption DEF Depths
  <2>2. \A d \in Levels : d + 1 \in S => d \in S
    <3>1. \A d \in Levels : d \in Depths /\ d # rs_level
      BY LevelAssumption DEF Levels, Depths
    <3> QED BY <1>1, <1>7, <3>1
  <2> HIDE DEF S
  <2>3. Depths \subseteq S
    BY <2>1, <2>2, UpwardFromTheDeepest
  <2> QED BY <2>3 DEF S
<1> QED BY <1>7, <1>8

\* A sum over all levels from a depth on is well defined.
LEMMA LevelSumExists ==
  ASSUME NEW a, \A d \in Levels : a[d] \in Nat
  PROVE  \E f : f = [d \in Depths |-> IF d = rs_level THEN 0 ELSE a[d] + f[d + 1]]
<1> DEFINE go == [d \in Levels |-> TRUE]
<1>1. \A d \in Depths : d # rs_level => d \in Levels
  BY LevelAssumption DEF Depths, Levels
<1>2. \E f : f = [d \in Depths |->
                    IF d = rs_level THEN 0
                    ELSE IF go[d] THEN a[d] + f[d + 1] ELSE a[d]]
  <2>1. \A d \in Levels : a[d] \in Int
    OBVIOUS
  <2> HIDE DEF go
  <2> QED BY <2>1, CutSumExists
<1> QED BY <1>1, <1>2

\* The equations of such a sum.
LEMMA LevelSumEquations ==
  ASSUME NEW a, \A d \in Levels : a[d] \in Nat,
         NEW f, f = [d \in Depths |-> IF d = rs_level THEN 0 ELSE a[d] + f[d + 1]]
  PROVE  \A d \in Depths :
           /\ f[d] = IF d = rs_level THEN 0 ELSE a[d] + f[d + 1]
           /\ f[d] \in Nat
<1> DEFINE S == {d \in Depths : f[d] \in Nat}
<1>1. \A d \in Depths : f[d] = IF d = rs_level THEN 0 ELSE a[d] + f[d + 1]
  OBVIOUS
<1>2. rs_level \in S
  BY <1>1, LevelAssumption DEF Depths
<1>3. \A d \in Levels : d + 1 \in S => d \in S
  <2>1. \A d \in Levels : d \in Depths /\ d # rs_level
    BY LevelAssumption DEF Levels, Depths
  <2> QED BY <1>1, <2>1
<1>4. Depths \subseteq S
  <2> HIDE DEF S
  <2> QED BY <1>2, <1>3, UpwardFromTheDeepest
<1> QED BY <1>1, <1>4

\* The noise of each level, and the equations of the sum of it.
NoiseOf == [d \in Levels |-> Noise(d)]

LEMMA NoiseFromEquations ==
  /\ \A d \in Levels : NoiseOf[d] \in Nat
  /\ \A d \in Depths :
       /\ NoiseFrom[d] = IF d = rs_level THEN 0 ELSE NoiseOf[d] + NoiseFrom[d + 1]
       /\ NoiseFrom[d] \in Nat
<1>1. \A d \in Levels : NoiseOf[d] \in Nat
  BY LevelAssumption DEF Noise, NoiseOf
<1>2. \A d \in Depths : d # rs_level => NoiseOf[d] = Noise(d)
  BY LevelAssumption DEF NoiseOf, Depths, Levels
<1>3. PICK g : g = [d \in Depths |->
                     IF d = rs_level THEN 0 ELSE NoiseOf[d] + g[d + 1]]
  BY <1>1, LevelSumExists
<1>4. g = [d \in Depths |-> IF d = rs_level THEN 0 ELSE Noise(d) + g[d + 1]]
  BY <1>2, <1>3
<1>5. NoiseFrom = [d \in Depths |->
                    IF d = rs_level THEN 0 ELSE Noise(d) + NoiseFrom[d + 1]]
  BY <1>4 DEF NoiseFrom
<1>6. NoiseFrom = [d \in Depths |->
                    IF d = rs_level THEN 0 ELSE NoiseOf[d] + NoiseFrom[d + 1]]
  BY <1>2, <1>5
<1> QED BY <1>1, <1>6, LevelSumEquations
-----------------------------------------------------------------------------
(* What the queries answer in a state that satisfies the invariant.        *)

\* The queries may rely on their part of the invariant.
LEMMA IInvForQueries == IInv => QueryInv
  BY DEF IInv, QueryInv, VotesInv, LeadInv

\* When the filter no longer answers for k, it absorbed at most its noise; when
\* it answers, k never walked the levels.
LEMMA FilterVerdict ==
  ASSUME QueryInv, NEW k \in Keys
  PROVE  /\ FilterAnswers(k) => /\ reach[k][0] = 0
                                /\ MinVal(k) \in Nat
                                /\ filtered[k] <= MinVal(k)
                                /\ MinVal(k) <= MfNoise
         /\ filtered[k] <= MfNoise
         /\ MfNoise \in Nat
<1>1. MfNoise \in Nat
  BY FilterAssumption DEF MfNoise
<1>2. filtered[k] \in Nat /\ reach[k][0] \in Nat
  BY LevelAssumption DEF QueryInv, TypeOK, Depths
<1>3. CASE MfRows = {}
  BY <1>1, <1>2, <1>3 DEF FilterAnswers, QueryInv, FilterInv, MfNoise
<1>4. CASE MfRows # {}
  <2>1. PICK j \in MfRows : MinVal(k) = MfCell(k, j)
    BY <1>4, MinValIsMin DEF QueryInv
  <2>2. MinVal(k) \in 0 .. mf_err_bound
    BY <1>4, MinValIsMin DEF QueryInv
  <2>3. filtered[k] <= MinVal(k)
    BY <2>1 DEF QueryInv, FilterInv
  <2>4. reach[k][0] > 0 => MinVal(k) = mf_err_bound
    BY <2>1 DEF QueryInv, FilterInv
  <2> QED BY <1>1, <1>2, <1>4, <2>2, <2>3, <2>4, FilterAssumption
          DEF FilterAnswers, MfNoise
<1> QED BY <1>3, <1>4

\* The levels from a depth on account for every insertion that came down to it
\* and was not dropped.
LEMMA EstFromCovers ==
  ASSUME QueryInv, NEW k \in Keys
  PROVE  \A d \in Depths : EstFrom(k)[d] >= reach[k][d] - dropped(k)
<1> DEFINE S == {d \in Depths : EstFrom(k)[d] >= reach[k][d] - dropped(k)}
<1>1. TypeOK /\ NothingBelowTheStop /\ ShareInv /\ WalkInv
  BY DEF QueryInv
<1>2. \A d \in Depths : reach[k][d] \in Nat
  BY <1>1 DEF TypeOK
<1>3. rs_level \in Depths
  BY LevelAssumption DEF Depths
<1>4. rs_level \in S
  BY <1>1, <1>2, <1>3, EstFromEquations DEF dropped
<1>5. ASSUME NEW d \in Levels, d + 1 \in S
      PROVE  d \in S
  <2>1. d \in Depths /\ d + 1 \in Depths /\ d # rs_level
    BY LevelAssumption DEF Levels, Depths
  <2>2. Est(k, d) \in Nat /\ recorded(k, d) <= Est(k, d)
    BY <1>1, BucketOfType DEF Est, Bucket, ShareInv
  <2>3. recorded(k, d) = reach[k][d] - reach[k][d + 1] /\ dropped(k) \in Nat
    BY <1>2, <1>3 DEF recorded, dropped
  <2>4. /\ EstFrom(k)[d] = IF Passes(k, d) THEN Est(k, d) + EstFrom(k)[d + 1]
                                           ELSE Est(k, d)
        /\ EstFrom(k)[d + 1] \in Nat
    BY <1>1, <2>1, EstFromEquations
  <2>5. EstFrom(k)[d + 1] >= reach[k][d + 1] - dropped(k)
    BY <1>5
  <2>6. ~ Passes(k, d) => reach[k][d + 1] = 0
    BY <1>1 DEF NothingBelowTheStop
  <2>7. EstFrom(k)[d] >= reach[k][d] - dropped(k)
    BY <1>2, <2>1, <2>2, <2>3, <2>4, <2>5, <2>6
  <2> QED BY <2>1, <2>7
<1>6. Depths \subseteq S
  <2> HIDE DEF S
  <2> QED BY <1>4, <1>5, UpwardFromTheDeepest
<1> QED BY <1>6

\* The query never falls below the insertions that were not dropped.
LEMMA NeverUnderestimatesStep == QueryInv => NeverUnderestimates
<1> SUFFICES ASSUME QueryInv, NEW k \in Keys
             PROVE  query_freq(k) >= flow_cnt[k] - dropped(k)
  BY DEF NeverUnderestimates
<1>1. 0 \in Depths /\ rs_level \in Depths
  BY LevelAssumption DEF Depths
<1>2. /\ reach[k][0] \in Nat /\ dropped(k) \in Nat /\ filtered[k] \in Nat
      /\ flow_cnt[k] = filtered[k] + reach[k][0]
  BY <1>1 DEF QueryInv, TypeOK, Accounted, dropped
<1>3. EstFrom(k)[0] \in Nat /\ EstFrom(k)[0] >= reach[k][0] - dropped(k)
  BY <1>1, EstFromCovers, EstFromEquations DEF QueryInv
<1>4. CASE FilterAnswers(k)
  BY <1>2, <1>4, FilterVerdict DEF query_freq
<1>5. CASE ~ FilterAnswers(k)
  <2>1. query_freq(k) = MfNoise + EstFrom(k)[0]
    BY <1>5 DEF query_freq, MfNoise
  <2> QED BY <1>2, <1>3, <2>1, FilterVerdict
<1> QED BY <1>4, <1>5

\* Where the walk stops, by the kind of the stop.
LEMMA StopFacts ==
  ASSUME QueryInv, NEW k \in Keys, StopDepth(k) # rs_level
  PROVE  LET d == StopDepth(k)
             b == BucketOf(k, d)
         IN  /\ d \in Levels /\ b \in Bucket /\ ~ Passes(k, d)
             /\ b.no_cnt <= b.yes_cnt
             /\ b.id = k => b.yes_cnt - b.no_cnt <= recorded(k, d)
<1>1. StopDepth(k) \in Levels /\ ~ Passes(k, StopDepth(k))
  BY StopDepthExists, LevelAssumption DEF Depths, Levels
<1>2. /\ rsPos[StopDepth(k)][k] \in Rows(StopDepth(k))
      /\ BucketOf(k, StopDepth(k)) \in Bucket
      /\ BucketOf(k, StopDepth(k)) = rs[StopDepth(k)][rsPos[StopDepth(k)][k]]
  BY <1>1, BucketOfType DEF QueryInv
<1> QED BY <1>1, <1>2 DEF QueryInv, LeadInv, ShareInv

\* The candidate's lead over the votes against was all recorded in its bucket.
LEMMA LowerBoundSoundStep == QueryInv => LowerBoundSound
<1> SUFFICES ASSUME QueryInv, NEW k \in Keys
             PROVE  query_freq_low(k) <= flow_cnt[k]
  BY DEF LowerBoundSound
<1> DEFINE d == StopDepth(k)
           b == BucketOf(k, d)
<1>1. 0 \in Depths /\ \A e \in Levels : e \in Depths /\ e + 1 \in Depths /\ 0 <= e
  BY LevelAssumption DEF Depths, Levels
<1>2. /\ flow_cnt[k] = filtered[k] + reach[k][0] /\ filtered[k] \in Nat
      /\ \A e \in Depths : reach[k][e] \in Nat
  BY DEF QueryInv, TypeOK, Accounted
<1>3. CASE FilterAnswers(k) \/ d = rs_level \/ b.id # k
  BY <1>1, <1>2, <1>3 DEF query_freq_low
<1>4. CASE ~ (FilterAnswers(k) \/ d = rs_level \/ b.id # k)
  <2>1. query_freq_low(k) = b.yes_cnt - b.no_cnt
    BY <1>4 DEF query_freq_low
  <2>2. d \in Levels /\ b \in Bucket /\ b.yes_cnt - b.no_cnt <= recorded(k, d)
    BY <1>4, StopFacts
  <2>3. b.yes_cnt - b.no_cnt \in Int
    BY <2>2 DEF Bucket
  <2>4. reach[k][d] <= reach[k][0]
    BY <1>1, <2>2 DEF QueryInv, WalkInv
  <2>5. recorded(k, d) <= reach[k][d] /\ recorded(k, d) \in Int
    BY <1>1, <1>2, <2>2 DEF recorded
  <2> HIDE DEF d, b
  <2> QED BY <1>1, <1>2, <2>1, <2>2, <2>3, <2>4, <2>5
<1> QED BY <1>3, <1>4

\* The lead query_freq_low reports for k when the filter does not answer.
Lead(k) ==
  IF StopDepth(k) = rs_level THEN 0
  ELSE LET b == BucketOf(k, StopDepth(k))
       IN  IF b.id = k THEN b.yes_cnt - b.no_cnt ELSE 0

\* The loop of query_freq exceeds the lead by at most what the levels hide, where
\* cap bounds the votes against of a level and CapFrom sums it up.
LEMMA EstFromRange ==
  ASSUME QueryInv, NEW k \in Keys,
         NEW cap, \A i \in Levels : cap[i] \in Nat,
         \A i \in Levels : \A p \in Rows(i) : rs[i][p].no_cnt <= cap[i],
         NEW CapFrom,
         \A d \in Depths :
           /\ CapFrom[d] = IF d = rs_level THEN 0 ELSE cap[d] + CapFrom[d + 1]
           /\ CapFrom[d] \in Nat
  PROVE  /\ Lead(k) \in Nat
         /\ EstFrom(k)[0] - Lead(k) <= CapFrom[0]
<1> DEFINE s == StopDepth(k)
           S == {d \in Depths : d <= s => EstFrom(k)[d] - Lead(k) <= CapFrom[d]}
<1>1. /\ s \in Depths /\ s \in Nat /\ s <= rs_level
      /\ \A i \in 0 .. s - 1 : Passes(k, i)
      /\ s < rs_level => ~ Passes(k, s)
      /\ 0 \in Depths /\ rs_level \in Depths
  BY StopDepthExists, LevelAssumption DEF Depths
<1>2. \A d \in Depths :
        /\ EstFrom(k)[d] = IF d = rs_level THEN 0
                           ELSE IF Passes(k, d) THEN Est(k, d) + EstFrom(k)[d + 1]
                           ELSE Est(k, d)
        /\ EstFrom(k)[d] \in Nat
  BY EstFromEquations DEF QueryInv
<1>3. \A d \in Levels : cap[d] \in Nat /\ cap[d] >= 0
  OBVIOUS
<1>4. Lead(k) \in Nat
  <2>1. CASE s = rs_level \/ BucketOf(k, s).id # k
    BY <2>1 DEF Lead
  <2>2. CASE ~ (s = rs_level \/ BucketOf(k, s).id # k)
    <3>1. BucketOf(k, s) \in Bucket /\ BucketOf(k, s).no_cnt <= BucketOf(k, s).yes_cnt
      BY <2>2, StopFacts
    <3>2. BucketOf(k, s).yes_cnt - BucketOf(k, s).no_cnt \in Nat
      BY <3>1 DEF Bucket
    <3> QED BY <2>2, <3>2 DEF Lead
  <2> QED BY <2>1, <2>2
<1>5. rs_level \in S
  BY <1>1, <1>2, <1>4
<1>6. ASSUME NEW d \in Levels, d + 1 \in S
      PROVE  d \in S
  <2>1. /\ d \in Depths /\ d + 1 \in Depths /\ d # rs_level /\ d \in Nat
        /\ CapFrom[d] = cap[d] + CapFrom[d + 1]
        /\ CapFrom[d + 1] \in Nat /\ cap[d] \in Nat
    BY <1>3, LevelAssumption DEF Levels, Depths
  <2>2. EstFrom(k)[d + 1] \in Nat /\ Est(k, d) \in Nat
    BY <1>2, <2>1, BucketOfType DEF QueryInv, Est, Bucket
  <2>3. CASE d < s
    <3>1. Passes(k, d)
      BY <1>1, <2>1, <2>3
    <3>2. EstFrom(k)[d] = Est(k, d) + EstFrom(k)[d + 1]
      BY <1>2, <2>1, <3>1
    <3>3. Est(k, d) <= cap[d]
      BY <3>1, BucketOfType DEF Passes, Est, QueryInv
    <3>4. EstFrom(k)[d + 1] - Lead(k) <= CapFrom[d + 1]
      BY <1>1, <1>6, <2>1, <2>3
    <3>5. EstFrom(k)[d] - Lead(k) <= CapFrom[d]
      BY <1>3, <1>4, <2>1, <2>2, <3>2, <3>3, <3>4
    <3> QED BY <2>1, <3>5
  <2>4. CASE d = s
    <3>1. EstFrom(k)[d] = Est(k, d)
      BY <1>1, <1>2, <2>1, <2>4, LevelAssumption DEF Levels
    <3>2. /\ BucketOf(k, d) \in Bucket
          /\ BucketOf(k, d).no_cnt <= cap[d]
      BY <2>1, <2>4, BucketOfType DEF QueryInv
    <3>3. BucketOf(k, d).no_cnt \in Nat /\ BucketOf(k, d).yes_cnt \in Nat
      BY <3>2 DEF Bucket
    <3>4. Lead(k) = IF BucketOf(k, d).id = k
                    THEN BucketOf(k, d).yes_cnt - BucketOf(k, d).no_cnt ELSE 0
      BY <2>1, <2>4 DEF Lead
    <3>5. Est(k, d) - Lead(k) = BucketOf(k, d).no_cnt
      BY <3>3, <3>4 DEF Est
    <3>6. EstFrom(k)[d] - Lead(k) <= CapFrom[d]
      BY <1>3, <2>1, <3>1, <3>2, <3>3, <3>5
    <3> QED BY <2>1, <3>6
  <2>5. CASE d > s
    BY <1>1, <2>1, <2>5
  <2> QED BY <1>1, <2>1, <2>3, <2>4, <2>5
<1>7. Depths \subseteq S
  <2> HIDE DEF S
  <2> QED BY <1>5, <1>6, UpwardFromTheDeepest
<1>8. EstFrom(k)[0] - Lead(k) <= CapFrom[0]
  BY <1>1, <1>7
<1> QED BY <1>4, <1>8

\* What the levels hide bounds the certified range.
LEMMA RangeWithin ==
  ASSUME QueryInv, NEW k \in Keys, NEW n \in Nat,
         Lead(k) \in Nat, EstFrom(k)[0] - Lead(k) <= n
  PROVE  query_freq(k) - query_freq_low(k) <= MfNoise + n
<1>1. 0 \in Depths
  BY LevelAssumption DEF Depths
<1>2. EstFrom(k)[0] \in Nat /\ MfNoise \in Nat
  BY <1>1, EstFromEquations, FilterVerdict DEF QueryInv
<1>3. CASE FilterAnswers(k)
  <2>1. query_freq(k) = MinVal(k) /\ query_freq_low(k) = 0
    BY <1>3 DEF query_freq, query_freq_low
  <2> QED BY <1>2, <1>3, <2>1, FilterVerdict
<1>4. CASE ~ FilterAnswers(k)
  <2>1. query_freq(k) = MfNoise + EstFrom(k)[0] /\ query_freq_low(k) = Lead(k)
    BY <1>4 DEF query_freq, query_freq_low, MfNoise, Lead
  <2> QED BY <1>2, <2>1
<1> QED BY <1>3, <1>4

\* The votes against a candidate stay within the noise of its level.
LEMMA NoiseOfLevels ==
  ASSUME IInv, NEW k \in Keys
  PROVE  /\ Lead(k) \in Nat /\ NoiseFrom[0] \in Nat
         /\ EstFrom(k)[0] - Lead(k) <= NoiseFrom[0]
<1>1. \A i \in Levels : \A p \in Rows(i) : rs[i][p].no_cnt <= NoiseOf[i]
  BY DEF IInv, VotesInv, NoiseOf
<1>2. 0 \in Depths
  BY LevelAssumption DEF Depths
<1> QED BY <1>1, <1>2, NoiseFromEquations, EstFromRange, IInvForQueries

\* The certified range is bounded by the noise of the filter and the levels.
LEMMA RangeBoundedStep == IInv => RangeBounded
  BY NoiseOfLevels, RangeWithin, IInvForQueries DEF RangeBounded

\* A key with a candidate bucket on one level stops there, so it was never
\* recorded on a deeper one.
LEMMA NoDuplicateReportStep == IInv => NoDuplicateReport
<1> DEFINE Owns(i, p) == i \in Levels /\ p \in Rows(i) /\ rs[i][p].yes_cnt > 0
<1> SUFFICES ASSUME IInv PROVE NoDuplicateReport
  OBVIOUS
<1>1. ASSUME NEW i, NEW p, Owns(i, p)
      PROVE  LET x == rs[i][p].id
             IN  /\ x \in Keys /\ p = rsPos[i][x]
                 /\ recorded(x, i) > 0 /\ reach[x][i + 1] = 0
  <2>1. rs[i][p].id \in Keys /\ p = rsPos[i][rs[i][p].id] /\ recorded(rs[i][p].id, i) > 0
    BY <1>1 DEF IInv, OwnerInv
  <2>2. ~ Passes(rs[i][p].id, i)
    BY <2>1 DEF Passes, BucketOf
  <2> QED BY <1>1, <2>1, <2>2 DEF IInv, NothingBelowTheStop
<1>2. ASSUME NEW i, NEW p, NEW j, NEW q, Owns(i, p), Owns(j, q),
             rs[i][p].id = rs[j][q].id, i < j
      PROVE  FALSE
  <2> DEFINE x == rs[i][p].id
  <2>1. x \in Keys /\ recorded(x, j) > 0 /\ reach[x][i + 1] = 0
    BY <1>1, <1>2
  <2>2. i + 1 \in Depths /\ j \in Depths /\ j + 1 \in Depths /\ i + 1 <= j
    BY <1>2, LevelAssumption DEF Levels, Depths
  <2>3. reach[x][j] <= reach[x][i + 1]
    BY <2>1, <2>2 DEF IInv, WalkInv
  <2>4. reach[x][j] \in Nat /\ reach[x][j + 1] \in Nat
    BY <2>1, <2>2 DEF IInv, TypeOK
  <2> HIDE DEF x
  <2> QED BY <2>1, <2>3, <2>4 DEF recorded
<1>3. ASSUME NEW e \in query_heavyhitter(0), NEW f \in query_heavyhitter(0),
             rs[e.level][e.pos].id = rs[f.level][f.pos].id
      PROVE  e = f
  <2>1. /\ Owns(e.level, e.pos) /\ Owns(f.level, f.pos)
        /\ e = [level |-> e.level, pos |-> e.pos]
        /\ f = [level |-> f.level, pos |-> f.pos]
    BY DEF query_heavyhitter
  <2>2. e.level \in Int /\ f.level \in Int
    BY <2>1, LevelAssumption DEF Levels
  <2>3. e.level = f.level
    BY <1>2, <1>3, <2>1, <2>2
  <2>4. e.pos = f.pos
    BY <1>1, <1>3, <2>1, <2>3
  <2> QED BY <2>1, <2>3, <2>4
<1> QED BY <1>3 DEF NoDuplicateReport

\* A key whose count exceeds all noise leads in the bucket where its walk stops.
LEMMA HeavyHitterCompleteStep == IInv => HeavyHitterComplete
<1> SUFFICES ASSUME IInv, NEW k \in Keys, dropped(k) = 0,
                    flow_cnt[k] > MfNoise + NoiseFrom[0]
             PROVE  \E e \in query_heavyhitter(flow_cnt[k]) : rs[e.level][e.pos].id = k
  BY DEF HeavyHitterComplete
<1>1. 0 \in Depths
  BY LevelAssumption DEF Depths
<1>2. /\ EstFrom(k)[0] \in Nat /\ NoiseFrom[0] \in Nat /\ MfNoise \in Nat
      /\ flow_cnt[k] \in Nat
  BY <1>1, EstFromEquations, NoiseFromEquations, FilterVerdict, IInvForQueries
     DEF IInv, TypeOK
<1>3. query_freq(k) >= flow_cnt[k]
  BY <1>2, NeverUnderestimatesStep, IInvForQueries DEF NeverUnderestimates
<1>4. ~ FilterAnswers(k)
  <2>1. ASSUME FilterAnswers(k) PROVE FALSE
    <3>1. query_freq(k) = MinVal(k)
      BY <2>1 DEF query_freq
    <3> QED BY <1>2, <1>3, <2>1, <3>1, FilterVerdict, IInvForQueries
  <2> QED BY <2>1
<1>5. query_freq(k) = MfNoise + EstFrom(k)[0]
  BY <1>4 DEF query_freq, MfNoise
<1>6. Lead(k) > 0
  BY <1>2, <1>3, <1>5, NoiseOfLevels
<1> DEFINE d == StopDepth(k)
           p == rsPos[d][k]
<1>7. /\ d # rs_level /\ BucketOf(k, d).id = k
      /\ BucketOf(k, d).yes_cnt - BucketOf(k, d).no_cnt > 0
  BY <1>6 DEF Lead
<1>8. d \in Levels /\ BucketOf(k, d) \in Bucket
  BY <1>7, StopFacts, IInvForQueries
<1>9. p \in Rows(d) /\ rs[d][p] = BucketOf(k, d)
  BY <1>8, BucketOfType DEF IInv
<1>10. rs[d][p].yes_cnt > 0 /\ rs[d][p].id = k
  <2>1. BucketOf(k, d).yes_cnt \in Nat /\ BucketOf(k, d).no_cnt \in Nat
    BY <1>8 DEF Bucket
  <2> QED BY <1>7, <1>9, <2>1
<1> DEFINE e == [level |-> d, pos |-> p]
<1>11. e \in [level : Levels, pos : UNION {Rows(i) : i \in Levels}]
  BY <1>8, <1>9
<1> HIDE DEF d, p
<1>12. e \in query_heavyhitter(flow_cnt[k])
  BY <1>3, <1>9, <1>10, <1>11 DEF query_heavyhitter
<1> QED BY <1>10, <1>12

\* A dropped insertion went past every level; locks and candidates stay.
LEMMA DropsAreVisibleStep == QueryInv => DropsAreVisible
<1> SUFFICES ASSUME QueryInv, NEW k \in Keys, dropped(k) > 0
             PROVE  query_freq_level(k) = rs_level
  BY DEF DropsAreVisible
<1>1. 0 \in Depths /\ rs_level \in Depths /\ 0 <= rs_level
      /\ \A i \in Levels : i + 1 \in Depths /\ i + 1 <= rs_level
  BY LevelAssumption DEF Depths, Levels
<1>2. \A e \in Depths : reach[k][e] \in Nat
  BY DEF QueryInv, TypeOK
<1>3. ~ FilterAnswers(k)
  <2>1. reach[k][0] >= reach[k][rs_level]
    BY <1>1, <1>2 DEF QueryInv, WalkInv
  <2> QED BY <1>1, <1>2, <2>1, FilterVerdict DEF dropped
<1>4. \A i \in Levels : Passes(k, i)
  <2>1. \A i \in Levels : reach[k][i + 1] >= reach[k][rs_level]
    BY <1>1, <1>2 DEF QueryInv, WalkInv
  <2>2. \A i \in Levels : reach[k][i + 1] # 0
    BY <1>1, <1>2, <2>1 DEF dropped
  <2> QED BY <2>2 DEF QueryInv, NothingBelowTheStop
<1>5. StopDepth(k) = rs_level
  BY <1>4, StopDepthExists, LevelAssumption DEF Depths, Levels
<1> QED BY <1>3, <1>5 DEF query_freq_level

\* No insertion moves the candidate or the votes against of a locked bucket.
LEMMA LockedIsFinalStep ==
  ASSUME IInv, [Next]_vars
  PROVE  \A i \in Levels : \A p \in Rows(i) :
           rs[i][p].locked =>
             \/ rs' = EmptyRs
             \/ /\ rs'[i][p].locked
                /\ rs'[i][p].id = rs[i][p].id
                /\ rs'[i][p].no_cnt = rs[i][p].no_cnt
<1> SUFFICES ASSUME NEW i \in Levels, NEW p \in Rows(i), rs[i][p].locked, rs' # EmptyRs
             PROVE  /\ rs'[i][p].locked
                    /\ rs'[i][p].id = rs[i][p].id
                    /\ rs'[i][p].no_cnt = rs[i][p].no_cnt
  OBVIOUS
<1>1. CASE Clear
  BY <1>1 DEF Clear
<1>2. CASE \E k \in Keys : InsertMf(k)
  BY <1>2 DEF InsertMf
<1>3. ASSUME NEW k \in Keys, InsertRs(k)
      PROVE  /\ rs'[i][p].locked
             /\ rs'[i][p].id = rs[i][p].id
             /\ rs'[i][p].no_cnt = rs[i][p].no_cnt
  <2>1. rs'[i][p] = IF i = StopDepth(k) /\ p = rsPos[i][k]
                    THEN Vote(rs[i][p], k, rs_err_bound[i]) ELSE rs[i][p]
    BY <1>3 DEF InsertRs, RsAfter
  <2>2. CASE i = StopDepth(k) /\ p = rsPos[i][k]
    <3>1. ~ Passes(k, i)
      BY <2>2, StopDepthExists, LevelAssumption DEF Levels
    <3>2. rs[i][p].id = k
      BY <2>2, <3>1 DEF Passes, BucketOf
    <3>3. rs[i][p] \in Bucket /\ rs_err_bound[i] \in Nat
      BY LevelAssumption DEF IInv, TypeOK
    <3> QED BY <2>1, <2>2, <3>2, <3>3, VoteFields
  <2>3. CASE ~ (i = StopDepth(k) /\ p = rsPos[i][k])
    BY <2>1, <2>3
  <2> QED BY <2>2, <2>3
<1>4. CASE UNCHANGED vars
  BY <1>4 DEF vars
<1> QED BY <1>1, <1>2, <1>3, <1>4 DEF Next
-----------------------------------------------------------------------------
(* The theorems.                                                           *)

\* The tables keep their shape, and no filter counter passes saturation.
THEOREM TypeCorrect == Spec => []TypeOK
<1>1. IInv => TypeOK
  BY DEF IInv
<1> QED BY <1>1, SketchInvariant, PTL

\* query_freq never loses a recorded insertion, for any geometry and stream.
THEOREM NeverUnderestimatesAlways == Spec => []NeverUnderestimates
  BY IInvForQueries, NeverUnderestimatesStep, SketchInvariant, PTL

\* query_freq_low never exceeds the true count.
THEOREM LowerBoundAlways == Spec => []LowerBoundSound
  BY IInvForQueries, LowerBoundSoundStep, SketchInvariant, PTL

\* The certified range is at most what the filter and the levels can hide.
THEOREM RangeBoundedAlways == Spec => []RangeBounded
  BY RangeBoundedStep, SketchInvariant, PTL

\* Nothing of a key lies below the bucket at which its walk stops.
THEOREM NothingBelowAlways == Spec => []NothingBelowTheStop
<1>1. IInv => NothingBelowTheStop
  BY DEF IInv
<1> QED BY <1>1, SketchInvariant, PTL

\* query_heavyhitter reports no key twice.
THEOREM NoDuplicateReportAlways == Spec => []NoDuplicateReport
  BY NoDuplicateReportStep, SketchInvariant, PTL

\* query_heavyhitter misses no undropped key above the noise.
THEOREM HeavyHitterCompleteAlways == Spec => []HeavyHitterComplete
  BY HeavyHitterCompleteStep, SketchInvariant, PTL

\* A key that lost an insertion answers "not recorded" ever after.
THEOREM DropsAreVisibleAlways == Spec => []DropsAreVisible
  BY IInvForQueries, DropsAreVisibleStep, SketchInvariant, PTL

\* A locked bucket keeps candidate and votes against until init.
THEOREM LockedIsFinalAlways == Spec => LockedIsFinal
<1>1. IInv /\ [Next]_vars =>
        [\A i \in Levels : \A p \in Rows(i) :
           rs[i][p].locked =>
             \/ rs' = EmptyRs
             \/ /\ rs'[i][p].locked
                /\ rs'[i][p].id = rs[i][p].id
                /\ rs'[i][p].no_cnt = rs[i][p].no_cnt]_vars
  BY LockedIsFinalStep
<1> QED BY <1>1, SketchInvariant, PTL DEF Spec, LockedIsFinal
=============================================================================
