--------------------------- MODULE WeightedSketch ---------------------------
(***************************************************************************)
(* ReliableSketch with its second insertion, insert(v, f), which counts f  *)
(* items of key v in one call (rs.cpp).  One call may fill the bucket of a *)
(* level, lock it, and carry the rest of f on to the next level.  A caller *)
(* may mix both insertions.                                                *)
(***************************************************************************)
EXTENDS ReliableSketch

CONSTANTS
  KeyValue,  \* key -> the int that it is: insert(v, f) compares v with a count
  Weights    \* the values of f

ASSUME WeightAssumption ==
  /\ KeyValue \in [Keys -> Int]
  /\ ZeroKey \in Keys => KeyValue[ZeroKey] = 0
  /\ Weights \subseteq Nat
-----------------------------------------------------------------------------
(* The mice filter.                                                        *)

\* add_val: how far the counters of k move.  The code limits the step by the key
\* v where one expects the weight f.
AddVal(k) ==
  IF Absorbs(k) THEN Min({KeyValue[k], mf_err_bound - MinVal(k)}) ELSE 0

\* All counters of k move alike; one that other keys raised may pass the bound.
WMfAfter(k) ==
  [j \in MfRows |->
    [c \in MfCols |-> IF c = mfPos[j][k] THEN mf[j][c] + AddVal(k) ELSE mf[j][c]]]
-----------------------------------------------------------------------------
(* The levels.                                                             *)

\* What is left of f after the bucket b took its part.
Offered(b, left) == [bucket |-> b, left |-> left]

\* Faulty: the bucket that is filled up to its bound stays open.
OfferWithoutLock(b, k, err_bound, f) ==
  LET rem_occupy == b.yes_cnt - b.no_cnt
      rem_lock == err_bound - b.no_cnt
  IN  IF b.id = k THEN Offered([b EXCEPT !.yes_cnt = @ + f], 0)
      ELSE IF rem_occupy <= rem_lock /\ f >= rem_occupy
      THEN Offered([b EXCEPT !.no_cnt = @ + rem_occupy, !.id = k,
                             !.yes_cnt = @ + f - rem_occupy], 0)
      ELSE IF rem_occupy > rem_lock /\ f >= rem_lock
      THEN Offered([b EXCEPT !.no_cnt = @ + rem_lock], f - rem_lock)
      ELSE Offered([b EXCEPT !.no_cnt = @ + f], 0)

\* Faulty: the new candidate keeps the part of f that levelled the votes.
OfferKeepsAll(b, k, err_bound, f) ==
  LET rem_occupy == b.yes_cnt - b.no_cnt
      rem_lock == err_bound - b.no_cnt
  IN  IF b.id = k THEN Offered([b EXCEPT !.yes_cnt = @ + f], 0)
      ELSE IF rem_occupy <= rem_lock /\ f >= rem_occupy
      THEN Offered([b EXCEPT !.id = k, !.yes_cnt = @ + f], 0)
      ELSE IF rem_occupy > rem_lock /\ f >= rem_lock
      THEN Offered([b EXCEPT !.no_cnt = @ + rem_lock, !.locked = TRUE], f - rem_lock)
      ELSE Offered([b EXCEPT !.no_cnt = @ + f], 0)

\* Faulty: the bucket that was filled up to its bound takes the rest as well.
OfferOverfills(b, k, err_bound, f) ==
  LET rem_occupy == b.yes_cnt - b.no_cnt
      rem_lock == err_bound - b.no_cnt
  IN  IF b.id = k THEN Offered([b EXCEPT !.yes_cnt = @ + f], 0)
      ELSE IF rem_occupy <= rem_lock /\ f >= rem_occupy
      THEN Offered([b EXCEPT !.no_cnt = @ + rem_occupy, !.id = k,
                             !.yes_cnt = @ + f - rem_occupy], 0)
      ELSE Offered([b EXCEPT !.no_cnt = @ + f, !.locked = @ \/ f >= rem_lock], 0)

\* An open bucket, or one of k itself, is offered f items of k: they count for the
\* candidate, level its lead and replace it, or count against it up to the bound.
Offer(b, k, err_bound, f) ==
  LET rem_occupy == b.yes_cnt - b.no_cnt
      rem_lock == err_bound - b.no_cnt
  IN  IF b.id = k THEN Offered([b EXCEPT !.yes_cnt = @ + f], 0)
      ELSE IF rem_occupy <= rem_lock /\ f >= rem_occupy
      THEN Offered([b EXCEPT !.no_cnt = @ + rem_occupy, !.id = k,
                             !.yes_cnt = @ + f - rem_occupy], 0)
      ELSE IF rem_occupy > rem_lock /\ f >= rem_lock
      THEN Offered([b EXCEPT !.no_cnt = @ + rem_lock, !.locked = TRUE], f - rem_lock)
      ELSE Offered([b EXCEPT !.no_cnt = @ + f], 0)

OfferAt(k, i, f) == Offer(BucketOf(k, i), k, rs_err_bound[i], f)

\* The walk of insert(k, f) down the levels: whether the loop still runs when it
\* comes to a depth, and what is left of f there.
Arrival(k, f) ==
  LET at[d \in Depths] ==
        IF d = 0 THEN [runs |-> TRUE, left |-> f]
        ELSE LET above == at[d - 1]
                 left == OfferAt(k, d - 1, above.left).left
             IN  IF ~ above.runs \/ Passes(k, d - 1) THEN above
                 ELSE [runs |-> left # 0, left |-> left]
  IN  at

\* Level i is offered what arrives there.
Takes(k, f, i) == Arrival(k, f)[i].runs /\ ~ Passes(k, i)

WRsAfter(k, f) ==
  [i \in Levels |->
    [p \in Rows(i) |->
      IF Takes(k, f, i) /\ p = rsPos[i][k]
      THEN OfferAt(k, i, Arrival(k, f)[i].left).bucket
      ELSE rs[i][p]]]
-----------------------------------------------------------------------------
(* Steps.                                                                  *)

\* insert(k, f); without levels to walk when the filter absorbed all of f.
InsertWeighted(k, f) ==
  /\ StreamLength + f <= MaxStream
  /\ LET rest == f - AddVal(k)
     IN  /\ mf' = WMfAfter(k)
         /\ flow_cnt' = [flow_cnt EXCEPT ![k] = @ + f]
         /\ filtered' = [filtered EXCEPT ![k] = @ + AddVal(k)]
         /\ IF Absorbs(k) /\ rest = 0
            THEN UNCHANGED <<rs, reach>>
            ELSE /\ rs' = WRsAfter(k, rest)
                 /\ reach' = [reach EXCEPT ![k] = [d \in Depths |->
                      IF Arrival(k, rest)[d].runs
                      THEN @[d] + Arrival(k, rest)[d].left ELSE @[d]]]
  /\ UNCHANGED seeds

WNext == Next \/ \E k \in Keys : \E f \in Weights : InsertWeighted(k, f)

WSpec == Init /\ [][WNext]_vars
-----------------------------------------------------------------------------
(* What holds of it.                                                       *)

\* A bucket that insert(v, f) filled exactly to its bound is still open, so that
\* one more vote of insert(v) fits in: every level hides up to its bound plus one.
MixedNoiseFrom[d \in Depths] ==
  IF d = rs_level THEN 0 ELSE rs_err_bound[d] + 1 + MixedNoiseFrom[d + 1]

\* Without a filter, the range that the queries certify stays bounded whatever
\* way both insertions are mixed.
MixedRangeBounded ==
  \A k \in Keys :
    query_freq(k) - query_freq_low(k) <= MfNoise + MixedNoiseFrom[0]

\* The claim of the parameter names for the weighted insertion with a filter: an
\* estimate is at most the filter's threshold plus rs_eps away from the truth.
WeightedErrorWithinThreshold ==
  \A k \in Keys : flow_cnt[k] > 0 /\ dropped(k) = 0 =>
    /\ query_freq(k) - flow_cnt[k] <= MfNoise + EpsFrom[0]
    /\ flow_cnt[k] - query_freq(k) <= MfNoise + EpsFrom[0]
=============================================================================
