------------------------------- MODULE RSSizing -------------------------------
(***************************************************************************)
(* How the constructor of ReliableSketch sizes its levels (rs.cpp).  It    *)
(* gets a memory budget and an error threshold, searches the greatest size *)
(* of level 0 whose geometric series of levels stays below the budget, and *)
(* lays the levels out in a second loop.                                   *)
(***************************************************************************)
EXTENDS Integers

CONSTANTS
  MaxLevels,       \* the parameter rs_level: at most so many levels
  RS_BUCKET_SIZE,  \* bytes of a bucket: 10
  Budgets,         \* the values of rs_mem, in bytes
  Thresholds,      \* the values of the parameter rs_threshold
  Rates            \* the values of rs_r_w and rs_r_l, fractions [num, den]

ASSUME SizingAssumption ==
  /\ MaxLevels \in Nat \ {0}
  /\ RS_BUCKET_SIZE \in Nat \ {0}
  /\ Budgets \subseteq Nat /\ Budgets # {}
  /\ Thresholds \subseteq Nat /\ Thresholds # {}
  /\ Rates \subseteq [num : Nat \ {0}, den : Nat \ {0}] /\ Rates # {}
  /\ \A r \in Rates : r.den < r.num

VARIABLES
  par,     \* the arguments of the constructor: [rs_mem, rs_threshold, rs_r_w, rs_r_l]
  loop,    \* "search" in get_rs_bkt_0_by_mem, "build" in construct_rs, "built";
           \* "idle" outside the constructor
  search,  \* L, R and ans of the binary search
  build    \* i, now_bkt, now_err, rs_num_bkt and rs_eps of construct_rs

sizingVars == <<par, loop, search, build>>

Params == [rs_mem : Budgets, rs_threshold : Thresholds, rs_r_w : Rates, rs_r_l : Rates]

\* (int)floor(n / r) and (int)ceil(n / r) of the fraction r.
Floor(n, r) == (n * r.den) \div r.num
Ceil(n, r) == (n * r.den + r.num - 1) \div r.num

\* ceil(rs_threshold / rs_r_l * (rs_r_l - 1)).
rs_threshold_0 ==
  Ceil(par.rs_threshold, [num |-> par.rs_r_l.num, den |-> par.rs_r_l.num - par.rs_r_l.den])

NextBkt(n) == Ceil(n, par.rs_r_w)

\* Faulty: the error bound of a level is rounded up, as its size is.
NextErrRoundedUp(n) == Ceil(n, par.rs_r_l)

NextErr(n) == Floor(n, par.rs_r_l)

\* A loop over the levels goes on at level i: RS_MIN_BKT is 1, RS_MIN_ERR is 0.
HasLevel(i, now_bkt, now_err) == i < MaxLevels /\ now_bkt >= 1 /\ now_err >= 0

\* The bytes of level i and of those below it, when level i has now_bkt buckets.
MemFrom[i \in 0 .. MaxLevels] ==
  [now_bkt \in Nat |-> [now_err \in Int |->
    IF HasLevel(i, now_bkt, now_err)
    THEN now_bkt * RS_BUCKET_SIZE + MemFrom[i + 1][NextBkt(now_bkt)][NextErr(now_err)]
    ELSE 0]]

\* The bytes of all levels when level 0 has n buckets.
get_rs_mem_by_bkt_0(n) == MemFrom[0][n][rs_threshold_0]

\* R before the search: as many buckets as the budget pays for one level.
MostBuckets == par.rs_mem \div RS_BUCKET_SIZE

NoLevels == [i |-> 0, now_bkt |-> 0, now_err |-> 0, rs_num_bkt |-> 0, rs_eps |-> 0]

\* No constructor runs: its arguments and variables are of no interest.
SizingIdle(p, l, s, b) ==
  /\ p = CHOOSE q \in Params : TRUE
  /\ l = "idle"
  /\ s = [L |-> 0, R |-> 0, ans |-> 0]
  /\ b = NoLevels

\* The constructor is called with the arguments p.
SizingStart(p) ==
  /\ loop = "idle"
  /\ par' = p
  /\ loop' = "search"
  /\ search' = [L |-> 0, R |-> p.rs_mem \div RS_BUCKET_SIZE, ans |-> 0]
  /\ build' = NoLevels
-----------------------------------------------------------------------------
(* get_rs_bkt_0_by_mem, by the iterations of its loop.                     *)

\* The middle of the interval is accepted or excluded.
Probe ==
  LET mid == (search.L + search.R) \div 2
  IN  /\ loop = "search" /\ search.L <= search.R
      /\ search' = IF get_rs_mem_by_bkt_0(mid) < par.rs_mem
                   THEN [L |-> mid + 1, R |-> search.R, ans |-> mid]
                   ELSE [search EXCEPT !.R = mid - 1]
      /\ UNCHANGED <<par, loop, build>>

\* The interval is empty; construct_rs starts with the last accepted size.
SearchEnds ==
  /\ loop = "search" /\ search.L > search.R
  /\ loop' = "build"
  /\ build' = [NoLevels EXCEPT !.now_bkt = search.ans, !.now_err = rs_threshold_0]
  /\ UNCHANGED <<par, search>>
-----------------------------------------------------------------------------
(* construct_rs, by the iterations of its loop.                            *)

Building == loop = "build"
MoreLevels == HasLevel(build.i, build.now_bkt, build.now_err)

\* Level i gets its buckets and its error bound.
BuildLevel ==
  /\ Building /\ MoreLevels
  /\ build' = [i |-> build.i + 1,
               now_bkt |-> NextBkt(build.now_bkt),
               now_err |-> NextErr(build.now_err),
               rs_num_bkt |-> build.rs_num_bkt + build.now_bkt,
               rs_eps |-> build.rs_eps + build.now_err]
  /\ UNCHANGED <<par, loop, search>>

\* rs_level = i: the levels that were built are the levels there are.
BuildEnds ==
  /\ Building /\ ~ MoreLevels
  /\ loop' = "built"
  /\ UNCHANGED <<par, search, build>>

SizingNext ==
  (\E p \in Params : SizingStart(p)) \/ Probe \/ SearchEnds \/ BuildLevel \/ BuildEnds
-----------------------------------------------------------------------------
(* What the sizing owes to its arguments.                                  *)

\* The search ends with a size that fits, next to one that does not: the binary
\* search neither passes the edge nor stops short of it.
SizedToBudget ==
  loop \in {"build", "built"} =>
    /\ search.ans = 0 \/ get_rs_mem_by_bkt_0(search.ans) < par.rs_mem
    /\ search.ans = MostBuckets \/ get_rs_mem_by_bkt_0(search.ans + 1) >= par.rs_mem

\* The bounds of the levels never add up to more than the threshold, although the
\* first one is rounded up.
EpsWithinThreshold == build.rs_eps <= par.rs_threshold

\* The levels that are built are those that the search measured.
BuiltAsMeasured ==
  loop = "built" =>
    build.rs_num_bkt * RS_BUCKET_SIZE = get_rs_mem_by_bkt_0(search.ans)

LevelsFitBudgets == SizedToBudget /\ EpsWithinThreshold /\ BuiltAsMeasured
=============================================================================
