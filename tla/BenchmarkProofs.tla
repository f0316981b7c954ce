--------------------------- MODULE BenchmarkProofs ---------------------------
(***************************************************************************)
(* What the sizing of the levels owes to its arguments, for every budget,  *)
(* threshold, number of levels and pair of rates above 1; and what holds   *)
(* of the sketches under test for every set of keys, geometry, hash        *)
(* function and stream.                                                    *)
(***************************************************************************)
EXTENDS Benchmark, NumberLemmas

\* Of a budget of errors n, what a level may take: n less what is left for the
\* levels below it.
Share(n) == n - NextErr(n)

SizingTypeOK ==
  /\ par \in Params
  /\ loop \in {"idle", "search", "build", "built"}
  /\ search \in [L : Int, R : Int, ans : Nat]
  /\ build \in [i : Nat, now_bkt : Int, now_err : Int, rs_num_bkt : Int, rs_eps : Int]

\* The interval of the search lies between a size that fits and one that does not.
SearchInv ==
  loop = "search" =>
    /\ search.L \in Nat /\ search.L <= search.R + 1
    /\ search.R <= MostBuckets
    /\ search.L = 0 => search.ans = 0
    /\ search.L # 0 => search.ans = search.L - 1
    /\ search.ans = 0 \/ get_rs_mem_by_bkt_0(search.ans) < par.rs_mem
    /\ search.R = MostBuckets \/ get_rs_mem_by_bkt_0(search.R + 1) >= par.rs_mem

\* What is left of the threshold after a level pays for the bound of the next one
\* and all below it.
BoundInv ==
  /\ build.rs_eps \in Nat /\ build.now_err \in Nat
  /\ build.rs_eps <= par.rs_threshold
  /\ loop \in {"build", "built"} =>
       build.now_err <= Share(par.rs_threshold - build.rs_eps)

\* The levels that are built and those that are still to come are the measured ones.
MeasureInv ==
  loop \in {"build", "built"} =>
    /\ build.i <= MaxLevels /\ build.now_bkt \in Nat /\ build.rs_num_bkt \in Nat
    /\ build.rs_num_bkt * RS_BUCKET_SIZE + MemFrom[build.i][build.now_bkt][build.now_err]
         = get_rs_mem_by_bkt_0(search.ans)
    /\ loop = "built" => ~ MoreLevels

SizingInv == SizingTypeOK /\ SearchInv /\ SizedToBudget /\ BoundInv /\ MeasureInv
-----------------------------------------------------------------------------
(* Rounding.                                                               *)

\* The bound of the first level, rounded up, is the share of the threshold.
LEMMA FirstBound ==
  ASSUME par \in Params
  PROVE  /\ rs_threshold_0 = Share(par.rs_threshold)
         /\ rs_threshold_0 \in Nat
<1> DEFINE t == par.rs_threshold  p == par.rs_r_l.num  q == par.rs_r_l.den
           a == (t * q) \div p
           b == (t * (p - q) + p - 1) \div p
<1>1. t \in Nat /\ p \in Nat \ {0} /\ q \in Nat \ {0} /\ q < p
  BY SizingAssumption DEF Params
<1>2. rs_threshold_0 = b /\ NextErr(t) = a
  BY DEF rs_threshold_0, Ceil, NextErr, Floor
<1>3. t * q \in Nat /\ t * (p - q) \in Nat /\ t * q + t * (p - q) = t * p
  <2> DEFINE d == p - q
  <2>1. d \in Nat /\ p = q + d
    BY <1>1
  <2> HIDE DEF t, p, q, d
  <2>2. t * q \in Nat /\ t * d \in Nat /\ t * (q + d) = t * q + t * d
    BY <1>1, <2>1
  <2> QED BY <2>1, <2>2 DEF d
<1>4. a \in Int /\ b \in Int /\ p * a <= t * q /\ t * q < p * a + p
      /\ p * b <= t * (p - q) + p - 1 /\ t * (p - q) + p - 1 < p * b + p
  <2> DEFINE x == t * q  y == t * (p - q) + p - 1
  <2>1. x \in Int /\ y \in Int
    BY <1>1, <1>3
  <2> HIDE DEF x, y, p
  <2>2. /\ x \div p \in Int /\ p * (x \div p) <= x /\ x < p * (x \div p) + p
        /\ y \div p \in Int /\ p * (y \div p) <= y /\ y < p * (y \div p) + p
    BY <1>1, <2>1, DivBounds
  <2> QED BY <2>2 DEF x, y
<1> HIDE DEF t, p, q, a, b
<1>5. p * (a + b - t) <= p - 1 /\ p * (a + b - t) > - p
  <2> DEFINE x == t * q  y == t * (p - q)
  <2>1. x \in Int /\ y \in Int /\ x + y = p * t
    BY <1>1, <1>3
  <2>2. p * a <= x /\ x < p * a + p /\ p * b <= y + p - 1 /\ y + p - 1 < p * b + p
    BY <1>4
  <2>3. p * (a + b - t) = p * a + p * b - p * t
        /\ p * a \in Int /\ p * b \in Int /\ p * t \in Int
    BY <1>1, <1>4
  <2> HIDE DEF x, y
  <2> QED BY <1>1, <2>1, <2>2, <2>3
<1>6. a + b = t
  <2> DEFINE d == a + b - t
  <2>1. d \in Int /\ p * d <= p - 1 /\ p * d > - p
    BY <1>1, <1>4, <1>5
  <2> HIDE DEF d
  <2>2. d = 0
    BY <1>1, <2>1
  <2> QED BY <1>1, <1>4, <2>2 DEF d
<1>7. b >= 0
  BY <1>1, <1>3, <1>4
<1> QED BY <1>1, <1>2, <1>4, <1>6, <1>7 DEF Share, t

\* Rounding a bound down to the next level.
LEMMA NextErrFacts ==
  ASSUME par \in Params
  PROVE  /\ \A n \in Nat : NextErr(n) \in Nat /\ NextErr(n) <= n
         /\ \A m, n \in Nat : NextErr(m) + NextErr(n) <= NextErr(m + n)
         /\ \A m, n \in Nat : m <= n => Share(m) <= Share(n)
<1> DEFINE p == par.rs_r_l.num  q == par.rs_r_l.den
<1>1. p \in Nat \ {0} /\ q \in Nat \ {0} /\ q < p
  BY SizingAssumption DEF Params
<1>2. \A n : NextErr(n) = (n * q) \div p
  BY DEF NextErr, Floor
<1> HIDE DEF p, q
<1>3. ASSUME NEW n \in Nat
      PROVE  NextErr(n) \in Nat /\ NextErr(n) <= n
  <2> DEFINE x == n * q  a == x \div p
  <2>1. x \in Nat /\ x <= n * p
    BY <1>1
  <2>2. a \in Int /\ p * a <= x /\ x < p * a + p
    <3> HIDE DEF x
    <3> QED BY <1>1, <2>1, DivBounds
  <2> HIDE DEF a
  <2>3. p * (a + 1) > 0 /\ p * a <= p * n
    <3> HIDE DEF x
    <3> QED BY <1>1, <2>1, <2>2
  <2>4. a >= 0 /\ a <= n
    BY <1>1, <2>2, <2>3
  <2> QED BY <1>2, <2>2, <2>4 DEF a
<1>4. ASSUME NEW m \in Nat, NEW n \in Nat
      PROVE  NextErr(m) + NextErr(n) <= NextErr(m + n)
  <2> DEFINE x == m * q  y == n * q
  <2>1. x \in Int /\ y \in Int /\ (m + n) * q = x + y
    BY <1>1
  <2> HIDE DEF x, y
  <2>2. x \div p + y \div p <= (x + y) \div p
    BY <1>1, <2>1, DivOfSum
  <2> QED BY <1>2, <2>1, <2>2 DEF x, y
<1>5. ASSUME NEW m \in Nat, NEW n \in Nat, m <= n
      PROVE  Share(m) <= Share(n)
  <2> DEFINE d == n - m  x == m * q  a == x \div p  c == (n * q) \div p
  <2>1. d \in Nat /\ n = m + d /\ x \in Nat /\ n * q = x + d * q /\ d * q <= p * d
    BY <1>1, <1>5
  <2>2. a \in Int /\ x < p * a + p
    <3> HIDE DEF x
    <3> QED BY <1>1, <2>1, DivBounds
  <2>3. c \in Int /\ p * c <= n * q
    <3> DEFINE y == n * q
    <3>1. y \in Int
      BY <1>1
    <3> HIDE DEF y
    <3> QED BY <1>1, <3>1, DivBounds
  <2>4. p * c < p * a + p + p * d
    <3> DEFINE e == d * q  f == n * q
    <3>1. e \in Int /\ f = x + e /\ e <= p * d
      BY <1>1, <2>1
    <3> HIDE DEF e, f, x, a, c, d
    <3> QED BY <1>1, <2>1, <2>2, <2>3, <3>1 DEF f
  <2> HIDE DEF a, c, d, x
  <2>5. p * c < p * (a + 1 + d)
    BY <1>1, <2>1, <2>2, <2>3, <2>4
  <2>6. c < a + 1 + d
    BY <1>1, <2>1, <2>2, <2>3, <2>5
  <2>7. NextErr(m) = a /\ NextErr(n) = c
    BY <1>2 DEF a, c, x
  <2> QED BY <2>1, <2>2, <2>3, <2>6, <2>7 DEF Share
<1> QED BY <1>3, <1>4, <1>5

\* What a level leaves of a budget of errors pays for the levels below it.
LEMMA BudgetStep ==
  ASSUME par \in Params, NEW left \in Nat, NEW err \in Nat, err <= Share(left)
  PROVE  /\ err <= left
         /\ NextErr(err) <= Share(left - err)
<1> DEFINE a == NextErr(left)
<1>1. a \in Nat /\ a <= left /\ Share(left) = left - a
  BY NextErrFacts DEF Share
<1>2. err + a <= left /\ err + a \in Nat /\ left - err \in Nat /\ a <= left - err
  BY <1>1
<1>3. NextErr(err) \in Nat /\ NextErr(a) \in Nat /\ NextErr(err + a) \in Nat
  BY <1>1, <1>2, NextErrFacts
<1>4. NextErr(err) + NextErr(a) <= NextErr(err + a)
  BY <1>1, NextErrFacts
<1>5. NextErr(err + a) <= a
  <2> DEFINE n == left - (err + a)
  <2>1. n \in Nat /\ (err + a) + n = left
    BY <1>1, <1>2
  <2> HIDE DEF n
  <2>2. NextErr(n) \in Nat /\ NextErr(err + a) + NextErr(n) <= NextErr((err + a) + n)
    BY <1>2, <2>1, NextErrFacts
  <2>3. NextErr((err + a) + n) = a
    BY <2>1
  <2> HIDE DEF a
  <2> QED BY <1>1, <1>3, <2>2, <2>3
<1>6. Share(a) <= Share(left - err)
  BY <1>1, <1>2, NextErrFacts
<1>7. Share(left - err) \in Int
  BY <1>2, NextErrFacts DEF Share
<1> QED BY <1>1, <1>2, <1>3, <1>4, <1>5, <1>6, <1>7 DEF Share
-----------------------------------------------------------------------------
(* The memory of the levels.                                               *)

\* The recursion over the levels is well defined.
LEMMA MemFromExists ==
  \E f : f = [i \in 0 .. MaxLevels |->
    [now_bkt \in Nat |-> [now_err \in Int |->
      IF HasLevel(i, now_bkt, now_err)
      THEN now_bkt * RS_BUCKET_SIZE + f[i + 1][NextBkt(now_bkt)][NextErr(now_err)]
      ELSE 0]]]
<1> DEFINE Term(g, i) ==
             [now_bkt \in Nat |-> [now_err \in Int |->
               IF HasLevel(i, now_bkt, now_err)
               THEN now_bkt * RS_BUCKET_SIZE + g[NextBkt(now_bkt)][NextErr(now_err)]
               ELSE 0]]
           S == {d \in 0 .. MaxLevels :
                  \E f : \A e \in d .. MaxLevels : f[e] = Term(f[e + 1], e)}
<1>1. MaxLevels \in Nat
  BY SizingAssumption
<1>2. \A g, h : Term(g, MaxLevels) = Term(h, MaxLevels)
  BY <1>1 DEF HasLevel
<1>3. MaxLevels \in S
  <2> DEFINE f == [e \in 0 .. MaxLevels |-> Term(0, e)]
  <2>1. \A e \in MaxLevels .. MaxLevels : e = MaxLevels /\ e \in 0 .. MaxLevels
    BY <1>1
  <2> HIDE DEF Term
  <2>2. \A e \in MaxLevels .. MaxLevels : f[e] = Term(f[e + 1], e)
    BY <1>2, <2>1
  <2> QED BY <1>1, <2>2
<1>4. ASSUME NEW d \in 0 .. MaxLevels - 1, d + 1 \in S
      PROVE  d \in S
  <2> HIDE DEF Term
  <2>1. PICK f : \A e \in d + 1 .. MaxLevels : f[e] = Term(f[e + 1], e)
    BY <1>4
  <2> DEFINE g == [e \in d .. MaxLevels + 1 |-> IF e = d THEN Term(f[d + 1], d) ELSE f[e]]
  <2>2. ASSUME NEW e \in d .. MaxLevels
        PROVE  g[e] = Term(g[e + 1], e)
    <3>1. e + 1 \in d .. MaxLevels + 1 /\ e + 1 # d /\ e \in d .. MaxLevels + 1
      BY <1>1
    <3>2. g[e + 1] = f[e + 1]
      BY <3>1
    <3>3. e # d => e \in d + 1 .. MaxLevels
      BY <1>1
    <3> QED BY <2>1, <3>1, <3>2, <3>3
  <2>3. d \in 0 .. MaxLevels
    BY <1>1
  <2> HIDE DEF g
  <2> QED BY <2>2, <2>3
<1>5. 0 .. MaxLevels \subseteq S
  <2> HIDE DEF S
  <2> QED BY <1>1, <1>3, <1>4, DownwardInduction
<1> HIDE DEF Term
<1>6. PICK f : \A e \in 0 .. MaxLevels : f[e] = Term(f[e + 1], e)
  BY <1>1, <1>5
<1> DEFINE g == [e \in 0 .. MaxLevels |-> f[e]]
<1>7. \A e \in 0 .. MaxLevels : Term(f[e + 1], e) = Term(g[e + 1], e)
  <2> SUFFICES ASSUME NEW e \in 0 .. MaxLevels
               PROVE  Term(f[e + 1], e) = Term(g[e + 1], e)
    OBVIOUS
  <2>1. CASE e = MaxLevels
    BY <1>2, <2>1
  <2>2. CASE e # MaxLevels
    <3>1. e + 1 \in 0 .. MaxLevels
      BY <1>1, <2>2
    <3> QED BY <3>1
  <2> QED BY <2>1, <2>2
<1>8. \A e \in 0 .. MaxLevels : g[e] = Term(g[e + 1], e)
  BY <1>6, <1>7
<1>9. g = [e \in 0 .. MaxLevels |-> Term(g[e + 1], e)]
  BY <1>8
<1> QED BY <1>9 DEF Term

\* The rounding of sizes stays in the numbers.
LEMMA NextBktType ==
  ASSUME par \in Params, NEW n \in Nat
  PROVE  NextBkt(n) \in Nat
<1> DEFINE p == par.rs_r_w.num  q == par.rs_r_w.den  x == n * q + p - 1
<1>1. p \in Nat \ {0} /\ q \in Nat \ {0} /\ x \in Nat
  BY SizingAssumption DEF Params
<1>2. NextBkt(n) = x \div p
  BY DEF NextBkt, Ceil
<1> HIDE DEF x, p, q
<1>3. x \div p \in Int /\ x < p * (x \div p) + p
  BY <1>1, DivBounds
<1> QED BY <1>1, <1>2, <1>3

\* The equations of the recursion, and that it yields numbers.
LEMMA MemFromEquations ==
  ASSUME par \in Params
  PROVE  \A i \in 0 .. MaxLevels : \A now_bkt \in Nat : \A now_err \in Int :
           /\ MemFrom[i][now_bkt][now_err] =
                IF HasLevel(i, now_bkt, now_err)
                THEN now_bkt * RS_BUCKET_SIZE
                       + MemFrom[i + 1][NextBkt(now_bkt)][NextErr(now_err)]
                ELSE 0
           /\ now_err \in Nat => MemFrom[i][now_bkt][now_err] \in Nat
<1> DEFINE Body(i) == [now_bkt \in Nat |-> [now_err \in Int |->
             IF HasLevel(i, now_bkt, now_err)
             THEN now_bkt * RS_BUCKET_SIZE
                    + MemFrom[i + 1][NextBkt(now_bkt)][NextErr(now_err)]
             ELSE 0]]
<1>1. MemFrom = [i \in 0 .. MaxLevels |-> Body(i)]
  BY MemFromExists DEF MemFrom
<1>2. \A i \in 0 .. MaxLevels : \A now_bkt \in Nat : \A now_err \in Int :
        MemFrom[i][now_bkt][now_err] =
          IF HasLevel(i, now_bkt, now_err)
          THEN now_bkt * RS_BUCKET_SIZE
                 + MemFrom[i + 1][NextBkt(now_bkt)][NextErr(now_err)]
          ELSE 0
  <2> SUFFICES ASSUME NEW i \in 0 .. MaxLevels, NEW now_bkt \in Nat, NEW now_err \in Int
               PROVE  MemFrom[i][now_bkt][now_err] =
                        IF HasLevel(i, now_bkt, now_err)
                        THEN now_bkt * RS_BUCKET_SIZE
                               + MemFrom[i + 1][NextBkt(now_bkt)][NextErr(now_err)]
                        ELSE 0
    OBVIOUS
  <2>1. Body(i)[now_bkt][now_err] =
          IF HasLevel(i, now_bkt, now_err)
          THEN now_bkt * RS_BUCKET_SIZE
                 + MemFrom[i + 1][NextBkt(now_bkt)][NextErr(now_err)]
          ELSE 0
    OBVIOUS
  <2>2. MemFrom[i] = Body(i)
    <3> HIDE DEF Body
    <3> QED BY <1>1
  <2> HIDE DEF Body
  <2> QED BY <2>1, <2>2
<1> HIDE DEF Body
<1> DEFINE S == {i \in 0 .. MaxLevels : \A now_bkt \in Nat : \A now_err \in Nat :
                   MemFrom[i][now_bkt][now_err] \in Nat}
<1>3. MaxLevels \in S
  BY <1>2, SizingAssumption DEF HasLevel
<1>4. ASSUME NEW d \in 0 .. MaxLevels - 1, d + 1 \in S
      PROVE  d \in S
  <2>1. ASSUME NEW now_bkt \in Nat, NEW now_err \in Nat
        PROVE  MemFrom[d][now_bkt][now_err] \in Nat
    <3>1. NextBkt(now_bkt) \in Nat /\ NextErr(now_err) \in Nat
      BY NextBktType, NextErrFacts
    <3>2. MemFrom[d + 1][NextBkt(now_bkt)][NextErr(now_err)] \in Nat
      BY <1>4, <3>1
    <3>3. d \in 0 .. MaxLevels /\ now_bkt * RS_BUCKET_SIZE \in Nat /\ now_err \in Int
      BY SizingAssumption
    <3> QED BY <1>2, <3>2, <3>3
  <2>2. d \in 0 .. MaxLevels
    BY SizingAssumption
  <2> QED BY <2>1, <2>2
<1>5. 0 .. MaxLevels \subseteq S
  <2>1. MaxLevels \in Nat
    BY SizingAssumption
  <2> HIDE DEF S
  <2> QED BY <1>3, <1>4, <2>1, DownwardInduction
<1> QED BY <1>2, <1>5

\* The measure of a size depends on the arguments only.
LEMMA MemUnchanged ==
  ASSUME par' = par
  PROVE  /\ MemFrom' = MemFrom
         /\ rs_threshold_0' = rs_threshold_0
         /\ \A n : get_rs_mem_by_bkt_0(n)' = get_rs_mem_by_bkt_0(n)
<1>1. MemFrom' = MemFrom
  BY DEF MemFrom, HasLevel, NextBkt, NextErr, Floor, Ceil
<1>2. rs_threshold_0' = rs_threshold_0
  BY DEF rs_threshold_0, Ceil
<1> QED BY <1>1, <1>2 DEF get_rs_mem_by_bkt_0
-----------------------------------------------------------------------------
(* The invariant.                                                          *)

\* Outside the constructor the invariant holds.
LEMMA SizingIdleInv == SizingIdle(par, loop, search, build) => SizingInv
<1> SUFFICES ASSUME SizingIdle(par, loop, search, build) PROVE SizingInv
  OBVIOUS
<1>1. Params # {}
  <2>1. PICK b \in Budgets, t \in Thresholds, r \in Rates : TRUE
    BY SizingAssumption
  <2>2. [rs_mem |-> b, rs_threshold |-> t, rs_r_w |-> r, rs_r_l |-> r] \in Params
    BY DEF Params
  <2> QED BY <2>2
<1>2. par \in Params
  BY <1>1 DEF SizingIdle
<1>3. par.rs_threshold \in Nat
  BY <1>2, SizingAssumption DEF Params
<1> QED BY <1>2, <1>3 DEF SizingIdle, SizingInv, SizingTypeOK, SearchInv, SizedToBudget,
                          BoundInv, MeasureInv, NoLevels

\* Every step of the constructor preserves the invariant.
LEMMA SizingStepInv == SizingInv /\ [SizingNext]_sizingVars => SizingInv'
<1> SUFFICES ASSUME SizingInv, [SizingNext]_sizingVars
             PROVE  SizingInv'
  OBVIOUS
<1> USE DEF SizingInv
<1>1. par.rs_mem \in Nat /\ par.rs_threshold \in Nat /\ RS_BUCKET_SIZE \in Nat \ {0}
  BY SizingAssumption DEF SizingTypeOK, Params
<1>2. \A p \in Params : p.rs_mem \div RS_BUCKET_SIZE \in Nat
  <2> SUFFICES ASSUME NEW p \in Params PROVE p.rs_mem \div RS_BUCKET_SIZE \in Nat
    OBVIOUS
  <2> DEFINE m == p.rs_mem
  <2>1. m \in Nat
    BY SizingAssumption DEF Params
  <2> HIDE DEF m
  <2>2. m \div RS_BUCKET_SIZE \in Int /\ m < RS_BUCKET_SIZE * (m \div RS_BUCKET_SIZE) + RS_BUCKET_SIZE
    BY <1>1, <2>1, DivBounds
  <2>3. m \div RS_BUCKET_SIZE \in Nat
    BY <1>1, <2>1, <2>2
  <2> QED BY <2>3 DEF m
<1>3. ASSUME NEW p \in Params, SizingStart(p)
      PROVE  SizingInv'
  <2>1. p.rs_threshold \in Nat /\ p.rs_mem \div RS_BUCKET_SIZE \in Nat
    BY <1>2, SizingAssumption DEF Params
  <2>2. MostBuckets' = p.rs_mem \div RS_BUCKET_SIZE
    BY <1>3 DEF SizingStart, MostBuckets
  <2>3. SearchInv'
    BY <1>3, <2>1, <2>2 DEF SizingStart, SearchInv
  <2> QED BY <1>3, <2>1, <2>3 DEF SizingStart, SizingTypeOK, SizedToBudget, BoundInv,
                                  MeasureInv, NoLevels
<1>4. CASE Probe
  <2> DEFINE mid == (search.L + search.R) \div 2
  <2>1. /\ par' = par /\ loop' = loop /\ build' = build
        /\ loop = "search" /\ search.L <= search.R
    BY <1>4 DEF Probe
  <2>2. search.L \in Nat /\ search.R \in Int /\ search.ans \in Nat
    BY <2>1 DEF SizingTypeOK, SearchInv
  <2>3. mid \in Nat /\ search.L <= mid /\ mid <= search.R
    BY <2>1, <2>2
  <2>4. MostBuckets' = MostBuckets /\ \A n : get_rs_mem_by_bkt_0(n)' = get_rs_mem_by_bkt_0(n)
    BY <2>1, MemUnchanged DEF MostBuckets
  <2>5. search' = IF get_rs_mem_by_bkt_0(mid) < par.rs_mem
                  THEN [L |-> mid + 1, R |-> search.R, ans |-> mid]
                  ELSE [search EXCEPT !.R = mid - 1]
    BY <1>4 DEF Probe
  <2> HIDE DEF mid
  <2>6. search' \in [L : Int, R : Int, ans : Nat]
    BY <2>2, <2>3, <2>5 DEF SizingTypeOK
  <2>7. SearchInv'
    <3>1. CASE get_rs_mem_by_bkt_0(mid) < par.rs_mem
      <4>1. search'.L = mid + 1 /\ search'.R = search.R /\ search'.ans = mid
        BY <2>5, <3>1
      <4> QED BY <2>1, <2>2, <2>3, <2>4, <3>1, <4>1 DEF SearchInv
    <3>2. CASE ~ (get_rs_mem_by_bkt_0(mid) < par.rs_mem)
      <4>1. search'.L = search.L /\ search'.R = mid - 1 /\ search'.ans = search.ans
        BY <2>5, <3>2 DEF SizingTypeOK
      <4>2. par \in Params /\ mid \in Nat
        BY <2>3 DEF SizingTypeOK
      <4>3. get_rs_mem_by_bkt_0(mid) \in Nat
        <5>1. rs_threshold_0 \in Nat /\ 0 \in 0 .. MaxLevels
          BY <4>2, FirstBound, SizingAssumption
        <5> QED BY <4>2, <5>1, MemFromEquations DEF get_rs_mem_by_bkt_0
      <4>4. (mid - 1) + 1 = mid
        BY <2>3
      <4>5. get_rs_mem_by_bkt_0(search'.R + 1) = get_rs_mem_by_bkt_0(mid)
        BY <4>1, <4>4
      <4>6. get_rs_mem_by_bkt_0(search.ans)' = get_rs_mem_by_bkt_0(search.ans)
            /\ get_rs_mem_by_bkt_0(search.R + 1)' = get_rs_mem_by_bkt_0(search'.R + 1)
        BY <2>1, <4>1, MemUnchanged DEF get_rs_mem_by_bkt_0
      <4>7. get_rs_mem_by_bkt_0(mid) >= par.rs_mem
        BY <1>1, <3>2, <4>3
      <4>8. search'.L \in Nat /\ search'.L <= search'.R + 1 /\ search'.R <= MostBuckets
        <5>1. MostBuckets \in Nat /\ search.R <= MostBuckets
          BY <1>2, <2>1, <4>2 DEF SearchInv, MostBuckets
        <5> QED BY <2>2, <2>3, <4>1, <5>1
      <4> QED BY <2>1, <2>4, <4>1, <4>5, <4>6, <4>7, <4>8 DEF SearchInv
    <3> QED BY <3>1, <3>2
  <2> QED BY <2>1, <2>6, <2>7 DEF SizingTypeOK, SizedToBudget, BoundInv, MeasureInv
<1>5. CASE SearchEnds
  <2>1. /\ par' = par /\ search' = search /\ loop = "search" /\ loop' = "build"
        /\ search.L > search.R
        /\ build' = [NoLevels EXCEPT !.now_bkt = search.ans, !.now_err = rs_threshold_0]
    BY <1>5 DEF SearchEnds
  <2>2. par \in Params /\ search.ans \in Nat /\ search.R \in Int
    BY DEF SizingTypeOK
  <2>3. rs_threshold_0 = Share(par.rs_threshold) /\ rs_threshold_0 \in Nat
    BY <2>2, FirstBound
  <2>4. /\ build'.i = 0 /\ build'.now_bkt = search.ans /\ build'.now_err = rs_threshold_0
        /\ build'.rs_num_bkt = 0 /\ build'.rs_eps = 0
    BY <2>1 DEF NoLevels
  <2>5. SizingTypeOK'
    <3>1. build' = [i |-> 0, now_bkt |-> search.ans, now_err |-> rs_threshold_0,
                    rs_num_bkt |-> 0, rs_eps |-> 0]
      BY <2>1 DEF NoLevels
    <3> QED BY <2>1, <2>2, <2>3, <3>1 DEF SizingTypeOK
  <2>6. \A n : get_rs_mem_by_bkt_0(n)' = get_rs_mem_by_bkt_0(n)
    BY <2>1, MemUnchanged
  <2>7. SizedToBudget'
    <3>1. search.R = search.L - 1 /\ search.L \in Nat
      BY <2>1, <2>2 DEF SearchInv
    <3>2. MostBuckets' = MostBuckets /\ MostBuckets \in Nat /\ search'.ans = search.ans
      BY <1>2, <2>1, <2>2 DEF MostBuckets
    <3>3. get_rs_mem_by_bkt_0(search.ans)' = get_rs_mem_by_bkt_0(search.ans)
          /\ get_rs_mem_by_bkt_0(search.ans + 1)' = get_rs_mem_by_bkt_0(search.ans + 1)
      BY <2>1, MemUnchanged DEF get_rs_mem_by_bkt_0
    <3>4. CASE search.L # 0
      <4>1. search.ans = search.R
        BY <2>1, <3>1, <3>4 DEF SearchInv
      <4> QED BY <2>1, <3>2, <3>3, <4>1 DEF SearchInv, SizedToBudget
    <3>5. CASE search.L = 0
      <4>1. search.ans = 0 /\ search.R + 1 = 0 /\ search.R # MostBuckets
        BY <2>1, <3>1, <3>2, <3>5 DEF SearchInv
      <4>2. get_rs_mem_by_bkt_0(0) >= par.rs_mem
        BY <2>1, <4>1 DEF SearchInv
      <4>3. get_rs_mem_by_bkt_0(0) = 0
        BY <2>2, <2>3, MemFromEquations, SizingAssumption DEF get_rs_mem_by_bkt_0, HasLevel
      <4>4. get_rs_mem_by_bkt_0(1) \in Nat
        BY <2>2, <2>3, MemFromEquations, SizingAssumption DEF get_rs_mem_by_bkt_0
      <4>5. search.ans + 1 = 1 /\ get_rs_mem_by_bkt_0(search.ans + 1) >= par.rs_mem
        BY <1>1, <4>1, <4>2, <4>3, <4>4
      <4> QED BY <2>1, <3>2, <3>3, <4>1, <4>5 DEF SizedToBudget
    <3> QED BY <3>4, <3>5
  <2>8. BoundInv'
    <3>1. Share(par.rs_threshold - build.rs_eps)' = Share(par.rs_threshold - build'.rs_eps)
      BY <2>1 DEF Share, NextErr, Floor
    <3> QED BY <1>1, <2>1, <2>3, <2>4, <3>1 DEF BoundInv
  <2>9. MeasureInv'
    <3>1. MemFrom[0][search.ans][rs_threshold_0] \in Nat /\ MemFrom' = MemFrom
      BY <2>1, <2>2, <2>3, MemFromEquations, MemUnchanged, SizingAssumption
    <3>2. get_rs_mem_by_bkt_0(search.ans)' = MemFrom[0][search.ans][rs_threshold_0]
      BY <2>1, MemUnchanged DEF get_rs_mem_by_bkt_0
    <3> QED BY <1>1, <2>1, <2>2, <2>4, <3>1, <3>2, SizingAssumption DEF MeasureInv
  <2>10. SearchInv'
    BY <2>1 DEF SearchInv
  <2> QED BY <2>5, <2>7, <2>8, <2>9, <2>10
<1>6. CASE BuildLevel
  <2>1. /\ par' = par /\ search' = search /\ loop = "build" /\ loop' = loop
        /\ HasLevel(build.i, build.now_bkt, build.now_err)
        /\ build' = [i |-> build.i + 1,
                     now_bkt |-> NextBkt(build.now_bkt),
                     now_err |-> NextErr(build.now_err),
                     rs_num_bkt |-> build.rs_num_bkt + build.now_bkt,
                     rs_eps |-> build.rs_eps + build.now_err]
    BY <1>6 DEF BuildLevel, Building, MoreLevels
  <2>2. par \in Params /\ build.i \in Nat
    BY DEF SizingTypeOK
  <2>3. /\ build.now_bkt \in Nat /\ build.rs_num_bkt \in Nat
        /\ build.now_err \in Nat /\ build.rs_eps \in Nat
        /\ build.rs_eps <= par.rs_threshold
        /\ build.now_err <= Share(par.rs_threshold - build.rs_eps)
    BY <2>1 DEF MeasureInv, BoundInv
  <2>4. NextBkt(build.now_bkt) \in Nat /\ NextErr(build.now_err) \in Nat
    BY <2>2, <2>3, NextBktType, NextErrFacts
  <2>5. SizingTypeOK'
    BY <2>1, <2>2, <2>3, <2>4 DEF SizingTypeOK
  <2>6. BoundInv'
    <3> DEFINE left == par.rs_threshold - build.rs_eps
    <3>1. left \in Nat
      BY <1>1, <2>3
    <3>2. build.now_err <= left /\ NextErr(build.now_err) <= Share(left - build.now_err)
      BY <2>2, <2>3, <3>1, BudgetStep
    <3>3. left - build.now_err = par.rs_threshold - build'.rs_eps
      BY <1>1, <2>1, <2>3
    <3>4. Share(par.rs_threshold - build.rs_eps)' = Share(par.rs_threshold - build'.rs_eps)
      BY <2>1 DEF Share, NextErr, Floor
    <3> QED BY <1>1, <2>1, <2>3, <2>4, <3>2, <3>3, <3>4 DEF BoundInv
  <2>7. MeasureInv'
    <3>1. build.i \in 0 .. MaxLevels /\ build.i + 1 \in 0 .. MaxLevels /\ build.now_err \in Int
      BY <2>1, <2>2, <2>3, SizingAssumption DEF HasLevel
    <3>2. MemFrom[build.i][build.now_bkt][build.now_err] =
            build.now_bkt * RS_BUCKET_SIZE
              + MemFrom[build.i + 1][NextBkt(build.now_bkt)][NextErr(build.now_err)]
      BY <2>1, <2>2, <2>3, <3>1, MemFromEquations
    <3>3. MemFrom[build.i + 1][NextBkt(build.now_bkt)][NextErr(build.now_err)] \in Nat
      BY <2>2, <2>4, <3>1, MemFromEquations
    <3>4. /\ build'.i = build.i + 1 /\ build'.now_bkt = NextBkt(build.now_bkt)
          /\ build'.now_err = NextErr(build.now_err)
          /\ build'.rs_num_bkt = build.rs_num_bkt + build.now_bkt
      BY <2>1
    <3>5. MemFrom' = MemFrom /\ get_rs_mem_by_bkt_0(search.ans)' = get_rs_mem_by_bkt_0(search.ans)
      BY <2>1, MemUnchanged DEF get_rs_mem_by_bkt_0
    <3>6. (build.rs_num_bkt + build.now_bkt) * RS_BUCKET_SIZE
            = build.rs_num_bkt * RS_BUCKET_SIZE + build.now_bkt * RS_BUCKET_SIZE
          /\ build.rs_num_bkt * RS_BUCKET_SIZE \in Nat
          /\ build.now_bkt * RS_BUCKET_SIZE \in Nat
      BY <1>1, <2>3
    <3>7. build.rs_num_bkt * RS_BUCKET_SIZE
            + MemFrom[build.i][build.now_bkt][build.now_err]
              = get_rs_mem_by_bkt_0(search.ans)
      BY <2>1 DEF MeasureInv
    <3> QED BY <2>1, <2>3, <2>4, <3>1, <3>2, <3>3, <3>4, <3>5, <3>6, <3>7 DEF MeasureInv
  <2>8. SizedToBudget'
    BY <2>1, MemUnchanged DEF SizedToBudget, MostBuckets, get_rs_mem_by_bkt_0
  <2> QED BY <2>1, <2>5, <2>6, <2>7, <2>8 DEF SearchInv
<1>7. CASE BuildEnds \/ UNCHANGED sizingVars
  <2>1. /\ par' = par /\ search' = search /\ build' = build
        /\ MoreLevels' = MoreLevels
        /\ (loop' = loop \/ ~ MoreLevels)
        /\ (loop' = loop \/ (loop = "build" /\ loop' = "built"))
    BY <1>7 DEF BuildEnds, Building, sizingVars, MoreLevels, HasLevel
  <2>2. SizedToBudget' /\ MeasureInv'
    BY <2>1, MemUnchanged
       DEF SizedToBudget, MeasureInv, MostBuckets, get_rs_mem_by_bkt_0
  <2>3. BoundInv'
    BY <2>1 DEF BoundInv, Share, NextErr, Floor
  <2>4. SearchInv'
    BY <2>1, MemUnchanged DEF SearchInv, MostBuckets, get_rs_mem_by_bkt_0
  <2> QED BY <2>1, <2>2, <2>3, <2>4 DEF SizingTypeOK
<1> QED BY <1>3, <1>4, <1>5, <1>6, <1>7 DEF SizingNext

\* The invariant says what the sizing owes to its arguments.
LEMMA SizingInvFits == SizingInv => LevelsFitBudgets
<1> SUFFICES ASSUME SizingInv PROVE LevelsFitBudgets
  OBVIOUS
<1>1. EpsWithinThreshold /\ SizedToBudget
  BY DEF SizingInv, BoundInv, EpsWithinThreshold
<1>2. ASSUME loop = "built"
      PROVE  build.rs_num_bkt * RS_BUCKET_SIZE = get_rs_mem_by_bkt_0(search.ans)
  <2>1. /\ par \in Params /\ build.i \in 0 .. MaxLevels /\ build.now_bkt \in Nat
        /\ build.now_err \in Int /\ build.rs_num_bkt \in Nat
    BY <1>2 DEF SizingInv, SizingTypeOK, MeasureInv
  <2>2. MemFrom[build.i][build.now_bkt][build.now_err] = 0
    BY <1>2, <2>1, MemFromEquations DEF SizingInv, MeasureInv, MoreLevels
  <2>3. build.rs_num_bkt * RS_BUCKET_SIZE \in Nat
    BY <2>1, SizingAssumption
  <2> QED BY <1>2, <2>2, <2>3 DEF SizingInv, MeasureInv
<1> QED BY <1>1, <1>2 DEF LevelsFitBudgets, BuiltAsMeasured
-----------------------------------------------------------------------------
(* The sketches under test.                                                *)

\* The stream and the hash functions, and that a test starts from nothing.
BaseInv ==
  /\ task \in SketchNames \cup {"construct"}
  /\ hash \in Hashes
  /\ flow_cnt \in [Keys -> Nat]
  /\ task = "construct" => flow_cnt = NoCounts

\* Raising only the least counters stays below raising all of them, and above the
\* truth, in every single counter.
CounterInv ==
  /\ cm \in [RowIds -> [Cols -> Nat]] /\ cu \in [RowIds -> [Cols -> Nat]]
  /\ \A j \in RowIds : \A c \in Cols : cu[j][c] <= cm[j][c]
  /\ task = "counters" => \A k \in Keys : \A j \in RowIds : flow_cnt[k] <= cu[j][Col(j, k)]
  /\ task # "counters" => CountersInit(cm, cu)

Slot == [key : Keys, cnt : Nat, flag : BOOLEAN]

\* Without the key 0 in the stream, no key stands twice in a bucket, and a bucket
\* with a free counter has not counted any key it does not hold.
SlotsInv ==
  /\ \A b \in HeavyBkts : \A i, j \in Slots :
       heavy[b][i].key = heavy[b][j].key /\ heavy[b][i].key # ZeroKey => i = j
  /\ \A k \in Keys : \A i \in Slots :
       /\ k # ZeroKey
       /\ \A j \in Slots : heavy[HeavyPos(k)][j].key # k
       /\ heavy[HeavyPos(k)][i].key = ZeroKey
       => flow_cnt[k] = 0

\* What the two parts hold of a key covers its true count.
PartsCover ==
  \A k \in Keys : k # ZeroKey /\ LightPos(k) \notin spoiled =>
    /\ \A i \in Slots : heavy[HeavyPos(k)][i].key = k =>
         flow_cnt[k] <= heavy[HeavyPos(k)][i].cnt
                          + (IF heavy[HeavyPos(k)][i].flag THEN light[LightPos(k)] ELSE 0)
    /\ (\A i \in Slots : heavy[HeavyPos(k)][i].key # k) => flow_cnt[k] <= light[LightPos(k)]

ElasticInv ==
  /\ heavy \in [HeavyBkts -> [Slots -> Slot]]
  /\ light \in [LightBkts -> Nat]
  /\ task = "elastic" /\ flow_cnt[ZeroKey] = 0 => SlotsInv /\ PartsCover
  /\ task # "elastic" => ElasticInit(heavy, guard, light, spoiled)

Entry == [key : Keys, val : Nat]
EntryTable == [RowIds -> [Cols -> Entry]]

\* CountedOnce(t) for the hash functions h.
CountedOnceUnder(h, t) ==
  \A j \in RowIds : \A c \in Cols :
    t[j][c].val > 0 =>
      /\ c = h[j][t[j][c].key] % row_size
      /\ j = Min({i \in RowIds :
                   t[i][h[i][t[j][c].key] % row_size].key = t[j][c].key})

SampledInv ==
  /\ task = "construct" => coco = EmptyEntries /\ precision = EmptyEntries
  /\ coco \in EntryTable /\ CountedOnce(coco)
  /\ precision \in EntryTable /\ CountedOnce(precision)
-----------------------------------------------------------------------------
(* Rows, columns and least elements.                                       *)

\* The least element of a set of numbers is one.
LEMMA MinIsLeast ==
  ASSUME NEW S \in SUBSET Nat, S # {}
  PROVE  Min(S) \in S /\ \A y \in S : Min(S) <= y
<1>1. \E x \in S : \A y \in S : x <= y
  BY LeastNat
<1> QED BY <1>1 DEF Min

\* There is a seed for every row, and there are two for Elastic.
LEMMA SeedsSuffice == RowIds \subseteq Seeds /\ 0 \in Seeds /\ 1 \in Seeds
<1> DEFINE S == {num_hash, 2}  m == Max(S)
<1>1. num_hash \in Nat \ {0}
  BY StreamAssumption
<1>2. \E x \in S : \A y \in S : x >= y
  BY <1>1
<1>3. m \in S /\ \A y \in S : m >= y
  BY <1>2 DEF Max
<1>4. m \in Nat /\ m >= num_hash /\ m >= 2
  BY <1>1, <1>3
<1> HIDE DEF m
<1>5. Seeds = 0 .. m - 1
  BY DEF Seeds, m
<1> QED BY <1>1, <1>4, <1>5 DEF RowIds

\* A hash value selects a place in every array.
LEMMA Places ==
  ASSUME hash \in Hashes, NEW k \in Keys
  PROVE  /\ \A j \in RowIds : Col(j, k) \in Cols
         /\ HeavyPos(k) \in HeavyBkts
         /\ LightPos(k) \in LightBkts
<1>1. \A s \in Seeds : hash[s][k] \in Nat
  BY StreamAssumption DEF Hashes
<1>2. ASSUME NEW n \in Nat, NEW p \in Nat \ {0} PROVE n % p \in 0 .. p - 1
  OBVIOUS
<1>3. /\ row_size \in Nat \ {0} /\ heavy_num_bkt \in Nat \ {0}
      /\ light_num_bkt \in Nat \ {0}
  BY StreamAssumption, ElasticAssumption
<1>4. \A j \in RowIds : Col(j, k) \in Cols
  BY <1>1, <1>2, <1>3, SeedsSuffice DEF Col, Cols
<1>5. HeavyPos(k) \in HeavyBkts
  BY <1>1, <1>2, <1>3, SeedsSuffice DEF HeavyPos, HeavyBkts
<1>6. LightPos(k) \in LightBkts
  BY <1>1, <1>2, <1>3, SeedsSuffice DEF LightPos, LightBkts
<1> QED BY <1>4, <1>5, <1>6
-----------------------------------------------------------------------------
(* The stream.                                                             *)

\* Before anything is tested.
LEMMA InitBase == Init => BaseInv
<1>1. ASSUME TRUE PROVE NoHash \in Hashes
  BY StreamAssumption DEF NoHash, Hashes
<1> QED BY <1>1 DEF Init, BaseInv, NoCounts

\* Every step keeps the stream and the hash functions well formed.
LEMMA BaseStep == BaseInv /\ [Next]_vars => BaseInv'
<1> SUFFICES ASSUME BaseInv, [Next]_vars PROVE BaseInv'
  OBVIOUS
<1>1. CASE SizingStep
  BY <1>1 DEF SizingStep, BaseInv
<1>2. ASSUME NEW t \in SketchNames, StartTest(t) PROVE BaseInv'
  BY <1>2 DEF StartTest, BaseInv, SketchNames
<1>3. ASSUME NEW k \in Keys, Feed(k) PROVE BaseInv'
  <2>1. PICK t \in SketchNames : Feeding(k, t)
    BY <1>3 DEF Feed, FeedCounters, FeedElastic, FeedHashPipe, FeedCoco, FeedPrecision,
                SketchNames
  <2> QED BY <2>1 DEF Feeding, BaseInv, SketchNames
<1>4. CASE NextRound
  BY <1>4, StreamAssumption DEF NextRound, BaseInv, NoCounts, NoHash, Hashes
<1>5. CASE UNCHANGED vars
  BY <1>5 DEF vars, BaseInv
<1> QED BY <1>1, <1>2, <1>3, <1>4, <1>5 DEF Next

\* Every behaviour has a well-formed stream.
LEMMA BaseAlways == Spec => []BaseInv
  BY InitBase, BaseStep, PTL DEF Spec
-----------------------------------------------------------------------------
(* Sizing.                                                                 *)

\* The levels of ReliableSketch fit its budgets of memory and of errors: the two
\* loops of the constructor agree, for every budget, threshold and pair of rates.
THEOREM LevelsFitAlways == Spec => []LevelsFitBudgets
<1>1. Init => SizingInv
  BY SizingIdleInv DEF Init
<1>2. SizingInv /\ [Next]_vars => SizingInv'
  <2> SUFFICES ASSUME SizingInv, [Next]_vars PROVE SizingInv'
    OBVIOUS
  <2>1. CASE SizingStep
    BY <2>1, SizingStepInv DEF SizingStep
  <2>2. ASSUME NEW t \in SketchNames, StartTest(t) PROVE SizingInv'
    <3>1. SizingIdle(par, loop, search, build)'
      BY <2>2 DEF StartTest, SizingIdle, NoLevels, Params
    <3>2. (SizingIdle(par, loop, search, build) => SizingInv)'
      BY SizingIdleInv, PTL
    <3> QED BY <3>1, <3>2
  <2>3. ASSUME UNCHANGED sizingVars PROVE SizingInv'
    BY <2>3, SizingStepInv
  <2>4. ASSUME NEW k \in Keys, Feed(k) PROVE SizingInv'
    BY <2>3, <2>4 DEF Feed, FeedCounters, FeedElastic, FeedHashPipe, FeedCoco,
                      FeedPrecision, Feeding
  <2>5. CASE NextRound
    BY <2>3, <2>5 DEF NextRound
  <2>6. CASE UNCHANGED vars
    BY <2>3, <2>6 DEF vars
  <2> QED BY <2>1, <2>2, <2>4, <2>5, <2>6 DEF Next
<1> QED BY <1>1, <1>2, SizingInvFits, PTL DEF Spec
-----------------------------------------------------------------------------
(* Count-Min and its conservative-update variant.                          *)

\* The least counter of a key in a table of counters.
LEMMA LeastCounterIsLeast ==
  ASSUME hash \in Hashes, NEW cnt \in [RowIds -> [Cols -> Nat]], NEW k \in Keys
  PROVE  /\ \E j \in RowIds : LeastCounter(cnt, k) = cnt[j][Col(j, k)]
         /\ \A j \in RowIds : LeastCounter(cnt, k) <= cnt[j][Col(j, k)]
<1> DEFINE S == {cnt[j][Col(j, k)] : j \in RowIds}
<1>1. 0 \in RowIds
  BY StreamAssumption DEF RowIds
<1>2. S \in SUBSET Nat /\ S # {}
  BY <1>1, Places
<1>3. Min(S) \in S /\ \A y \in S : Min(S) <= y
  <2> HIDE DEF S
  <2> QED BY <1>2, MinIsLeast
<1> QED BY <1>3 DEF LeastCounter

\* An insertion keeps the counters between the truth and each other.
LEMMA CountersStep ==
  ASSUME BaseInv, CounterInv, NEW k \in Keys, FeedCounters(k)
  PROVE  CounterInv'
<1>1. /\ task = "counters" /\ task' = task /\ hash' = hash
      /\ flow_cnt' = [flow_cnt EXCEPT ![k] = @ + 1]
      /\ cm' = CMAfter(k) /\ cu' = CUAfter(k)
  BY DEF FeedCounters, Feeding, CountersInsert
<1>2. /\ hash \in Hashes /\ flow_cnt \in [Keys -> Nat]
      /\ cm \in [RowIds -> [Cols -> Nat]] /\ cu \in [RowIds -> [Cols -> Nat]]
  BY DEF BaseInv, CounterInv
<1>3. cm' \in [RowIds -> [Cols -> Nat]] /\ cu' \in [RowIds -> [Cols -> Nat]]
  BY <1>1, <1>2 DEF CMAfter, CUAfter
<1>4. \A j \in RowIds : \A c \in Cols : cu'[j][c] <= cm'[j][c]
  BY <1>1, <1>2 DEF CMAfter, CUAfter, CounterInv
<1>5. ASSUME NEW x \in Keys, NEW j \in RowIds
      PROVE  flow_cnt'[x] <= cu'[j][Col(j, x)]
  <2> DEFINE c == Col(j, x)
  <2> SUFFICES flow_cnt'[x] <= cu'[j][c]
    OBVIOUS
  <2>1. c \in Cols
    BY <1>2, Places
  <2>2. cu'[j][c] = IF c = Col(j, k) /\ cu[j][c] = LeastCounter(cu, k)
                    THEN cu[j][c] + 1 ELSE cu[j][c]
    BY <1>1, <2>1 DEF CUAfter
  <2>3. flow_cnt[x] <= cu[j][c] /\ cu[j][c] \in Nat
    BY <1>1, <1>2, <2>1 DEF CounterInv
  <2> HIDE DEF c
  <2>4. CASE x # k
    BY <1>1, <1>2, <2>2, <2>3, <2>4
  <2>5. CASE x = k
    <3>1. c = Col(j, k)
      BY <2>5 DEF c
    <3>2. PICK i \in RowIds : LeastCounter(cu, k) = cu[i][Col(i, k)]
      BY <1>2, LeastCounterIsLeast
    <3>3. flow_cnt[k] <= LeastCounter(cu, k) /\ LeastCounter(cu, k) \in Nat
      BY <1>1, <1>2, <3>2, Places DEF CounterInv
    <3>4. LeastCounter(cu, k) <= cu[j][c]
      BY <1>2, <3>1, LeastCounterIsLeast
    <3>5. flow_cnt'[x] = flow_cnt[k] + 1 /\ flow_cnt[k] \in Nat
      BY <1>1, <1>2, <2>5
    <3> QED BY <2>2, <2>3, <3>1, <3>3, <3>4, <3>5
  <2> QED BY <2>4, <2>5
<1>6. \A x \in Keys : \A j \in RowIds : Col(j, x)' = Col(j, x)
  BY <1>1 DEF Col
<1> QED BY <1>1, <1>3, <1>4, <1>5, <1>6 DEF CounterInv

\* Cleared counters are in order before a stream begins.
LEMMA ClearedCounters ==
  ASSUME CountersInit(cm, cu), flow_cnt = NoCounts, hash \in Hashes
  PROVE  CounterInv
  BY Places DEF CountersInit, EmptyCounters, CounterInv, NoCounts

\* Count-Min and CU never answer less than the truth, and CU never answers more
\* than Count-Min with the same hash functions.
THEOREM CountersSoundAlways == Spec => []CountersSound
<1>1. Init => CounterInv
  BY InitBase, ClearedCounters DEF Init, TablesInit, BaseInv
<1>2. BaseInv /\ BaseInv' /\ CounterInv /\ [Next]_vars => CounterInv'
  <2> SUFFICES ASSUME BaseInv, BaseInv', CounterInv, [Next]_vars PROVE CounterInv'
    OBVIOUS
  <2>1. ASSUME UNCHANGED <<cm, cu>>, task # "counters", task' # "counters"
        PROVE  CounterInv'
    BY <2>1 DEF CounterInv, CountersInit
  <2>2. ASSUME CountersInit(cm', cu'), flow_cnt' = NoCounts PROVE CounterInv'
    <3>1. (CountersInit(cm, cu) /\ flow_cnt = NoCounts /\ hash \in Hashes => CounterInv)'
      BY ClearedCounters, PTL
    <3>2. CountersInit(cm, cu)' /\ (flow_cnt = NoCounts)' /\ (hash \in Hashes)'
      BY <2>2 DEF CountersInit, NoCounts, EmptyCounters, BaseInv, Hashes
    <3> QED BY <3>1, <3>2
  <2>3. CASE SizingStep
    BY <2>1, <2>3 DEF SizingStep, tables, counterTables
  <2>4. ASSUME NEW t \in SketchNames, StartTest(t) PROVE CounterInv'
    BY <2>2, <2>4 DEF StartTest, tables, counterTables, CounterInv, BaseInv
  <2>5. ASSUME NEW k \in Keys, FeedCounters(k) PROVE CounterInv'
    BY <2>5, CountersStep
  <2>6. ASSUME NEW k \in Keys, Feed(k), ~ FeedCounters(k) PROVE CounterInv'
    BY <2>1, <2>6 DEF Feed, FeedElastic, FeedHashPipe, FeedCoco, FeedPrecision, Feeding,
                      counterTables
  <2>7. CASE NextRound
    BY <2>2, <2>7 DEF NextRound, TablesReset
  <2>8. CASE UNCHANGED vars
    BY <2>8 DEF vars, tables, counterTables, CounterInv, CountersInit, Col
  <2> QED BY <2>3, <2>4, <2>5, <2>6, <2>7, <2>8 DEF Next
<1>3. BaseInv /\ CounterInv => CountersSound
  <2> SUFFICES ASSUME BaseInv, CounterInv, task = "counters", NEW k \in Keys
               PROVE  /\ flow_cnt[k] <= LeastCounter(cu, k)
                      /\ LeastCounter(cu, k) <= LeastCounter(cm, k)
    BY DEF CountersSound, CountersBracket
  <2>1. /\ hash \in Hashes /\ flow_cnt[k] \in Nat
        /\ cm \in [RowIds -> [Cols -> Nat]] /\ cu \in [RowIds -> [Cols -> Nat]]
    BY DEF BaseInv, CounterInv
  <2>2. PICK i \in RowIds : LeastCounter(cu, k) = cu[i][Col(i, k)]
    BY <2>1, LeastCounterIsLeast
  <2>3. PICK j \in RowIds : LeastCounter(cm, k) = cm[j][Col(j, k)]
    BY <2>1, LeastCounterIsLeast
  <2>4. Col(i, k) \in Cols /\ Col(j, k) \in Cols
    BY <2>1, Places
  <2>5. LeastCounter(cu, k) <= cu[j][Col(j, k)]
    BY <2>1, LeastCounterIsLeast
  <2>6. cu[j][Col(j, k)] <= cm[j][Col(j, k)] /\ flow_cnt[k] <= cu[i][Col(i, k)]
    BY <2>4 DEF CounterInv
  <2>7. cu[j][Col(j, k)] \in Nat /\ cm[j][Col(j, k)] \in Nat /\ cu[i][Col(i, k)] \in Nat
    BY <2>1, <2>4
  <2> QED BY <2>2, <2>3, <2>5, <2>6, <2>7
<1> QED BY <1>1, <1>2, <1>3, BaseAlways, PTL DEF Spec
-----------------------------------------------------------------------------
(* The sketches that draw random numbers.                                  *)

\* The row that an insertion counts in, and the one that it takes over.
LEMMA RowChoice ==
  ASSUME hash \in Hashes, NEW t \in EntryTable, NEW k \in Keys
  PROVE  /\ RowsHolding(t, k) # {} =>
              /\ FirstRow(t, k) \in RowsHolding(t, k)
              /\ \A i \in RowsHolding(t, k) : FirstRow(t, k) <= i
         /\ LeastRow(t, k) \in RowIds
<1>1. RowsHolding(t, k) \in SUBSET Nat
  BY DEF RowsHolding, RowIds
<1>2. RowsHolding(t, k) # {} =>
        /\ FirstRow(t, k) \in RowsHolding(t, k)
        /\ \A i \in RowsHolding(t, k) : FirstRow(t, k) <= i
  BY <1>1, MinIsLeast DEF FirstRow
<1> DEFINE V == {EntryOf(t, k, j).val : j \in RowIds}
           L == {j \in RowIds : \A i \in RowIds : EntryOf(t, k, j).val <= EntryOf(t, k, i).val}
<1>3. \A j \in RowIds : EntryOf(t, k, j).val \in Nat
  BY Places DEF EntryOf, EntryTable, Entry
<1>4. V \in SUBSET Nat /\ V # {}
  <2>1. 0 \in RowIds
    BY StreamAssumption DEF RowIds
  <2> QED BY <1>3, <2>1
<1>5. \E x \in V : \A y \in V : x <= y
  <2> HIDE DEF V
  <2> QED BY <1>4, LeastNat
<1>6. L \in SUBSET Nat /\ L # {}
  BY <1>5 DEF RowIds
<1>7. Min(L) \in L
  <2> HIDE DEF L
  <2> QED BY <1>6, MinIsLeast
<1> QED BY <1>2, <1>7 DEF LeastRow

\* An entry whose count grows and whose key either stays, or becomes a key that no
\* row held, leaves every counted key where its query finds it.
LEMMA CountedOnceStep ==
  ASSUME hash \in Hashes, NEW t \in EntryTable, CountedOnce(t),
         NEW k \in Keys, NEW j \in RowIds, NEW u,
         \/ RowsHolding(t, k) # {} /\ j = FirstRow(t, k) /\ u = Counted(t, k, j)
         \/ RowsHolding(t, k) = {} /\ u = Replaced(t, k, j)
         \/ EntryOf(t, k, j).val # 0 /\ u = Counted(t, k, j)
  PROVE  u \in EntryTable /\ CountedOnce(u)
<1> DEFINE c == Col(j, k)
<1>1. c \in Cols /\ \A x \in Keys : \A i \in RowIds : Col(i, x) \in Cols
  BY Places
<1>2. t[j][c] \in Entry /\ EntryOf(t, k, j) = t[j][c]
  BY <1>1 DEF EntryTable, EntryOf
<1> DEFINE e == IF u = Counted(t, k, j) THEN [t[j][c] EXCEPT !.val = @ + 1]
                ELSE [key |-> k, val |-> t[j][c].val + 1]
<1>e. e \in Entry /\ e.val = t[j][c].val + 1 /\ e.key \in {k, t[j][c].key}
  BY <1>2 DEF Entry
<1>u. u = [t EXCEPT ![j][c] = e]
  <2>1. CASE u = Counted(t, k, j)
    BY <1>1, <1>2, <2>1 DEF Counted, EntryTable
  <2>2. CASE u # Counted(t, k, j)
    <3>1. u = Replaced(t, k, j)
      BY <2>2
    <3>2. [key |-> k, val |-> t[j][c].val + 1] = e
      BY <2>2
    <3> HIDE DEF e
    <3> QED BY <1>1, <1>2, <3>1, <3>2 DEF Replaced, EntryTable
  <2> QED BY <2>1, <2>2
<1> HIDE DEF c, e
<1>t. u[j][c] = e
  BY <1>1, <1>u DEF EntryTable, c
<1>3. /\ \A i \in RowIds : \A d \in Cols : ~ (i = j /\ d = c) => u[i][d] = t[i][d]
      /\ u[j][c].val = t[j][c].val + 1
      /\ u[j][c] \in Entry
      /\ u \in EntryTable
  BY <1>1, <1>e, <1>t, <1>u DEF EntryTable, c
<1>4. u[j][c].key \in {k, t[j][c].key}
  BY <1>e, <1>t
<1>5. CASE u[j][c].key = t[j][c].key
  <2>1. \A x \in Keys : RowsHolding(u, x) = RowsHolding(t, x)
    BY <1>1, <1>3, <1>5 DEF RowsHolding, EntryOf
  <2>2. \A x \in Keys : FirstRow(u, x) = FirstRow(t, x)
    BY <2>1 DEF FirstRow
  <2>3. ASSUME NEW i \in RowIds, NEW d \in Cols, u[i][d].val > 0
        PROVE  d = Col(i, u[i][d].key) /\ i = FirstRow(u, u[i][d].key)
    <3>1. u[i][d].key = t[i][d].key /\ t[i][d].key \in Keys
      BY <1>3, <1>5 DEF EntryTable, Entry
    <3>2. CASE t[i][d].val > 0
      BY <2>2, <3>1, <3>2 DEF CountedOnce
    <3>3. CASE ~ (t[i][d].val > 0)
      <4>1. i = j /\ d = c
        BY <1>3, <2>3, <3>3
      <4>2. t[j][c].val = 0
        BY <1>2, <3>3, <4>1 DEF Entry
      <4>3. t[j][c].key = k /\ j = FirstRow(t, k)
        <5>1. CASE RowsHolding(t, k) # {} /\ j = FirstRow(t, k)
          <6>1. j \in RowsHolding(t, k)
            BY <5>1, RowChoice
          <6> QED BY <1>2, <5>1, <6>1 DEF RowsHolding
        <5>2. CASE RowsHolding(t, k) = {} /\ u = Replaced(t, k, j)
          <6>1. u[j][c].key = k
            BY <1>1, <1>2, <5>2 DEF Replaced, EntryTable, Entry, c
          <6>2. j \in RowsHolding(t, k)
            BY <1>2, <1>5, <6>1 DEF RowsHolding
          <6> QED BY <5>2, <6>2
        <5> QED BY <1>2, <4>2, <5>1, <5>2
      <4> QED BY <2>2, <3>1, <4>1, <4>3 DEF c
    <3> QED BY <3>2, <3>3
  <2> QED BY <1>3, <2>3 DEF CountedOnce
<1>6. CASE u[j][c].key = k /\ t[j][c].key # k
  <2>1. RowsHolding(t, k) = {}
    <3>1. ASSUME u = Counted(t, k, j) PROVE FALSE
      BY <1>1, <1>2, <1>6, <3>1 DEF Counted, EntryTable, Entry, c
    <3> QED BY <3>1
  <2>2. \A i \in RowIds : u[i][Col(i, k)].key = k <=> i = j
    <3> SUFFICES ASSUME NEW i \in RowIds PROVE u[i][Col(i, k)].key = k <=> i = j
      OBVIOUS
    <3>1. t[i][Col(i, k)].key # k
      BY <2>1 DEF RowsHolding, EntryOf
    <3> QED BY <1>1, <1>3, <1>6, <3>1 DEF c
  <2>3. RowsHolding(u, k) = {j}
    BY <2>2 DEF RowsHolding, EntryOf
  <2>4. FirstRow(u, k) = j
    <3>1. {j} \in SUBSET Nat /\ {j} # {}
      BY DEF RowIds
    <3>2. Min({j}) \in {j}
      BY <3>1, MinIsLeast
    <3> QED BY <2>3, <3>2 DEF FirstRow
  <2>5. ASSUME NEW i \in RowIds, NEW d \in Cols, u[i][d].val > 0
        PROVE  d = Col(i, u[i][d].key) /\ i = FirstRow(u, u[i][d].key)
    <3>1. CASE i = j /\ d = c
      BY <1>6, <2>4, <3>1 DEF c
    <3>2. CASE ~ (i = j /\ d = c)
      <4> DEFINE x == t[i][d].key
      <4>1. u[i][d] = t[i][d] /\ x \in Keys /\ d = Col(i, x) /\ i = FirstRow(t, x)
        BY <1>3, <2>5, <3>2 DEF CountedOnce, EntryTable, Entry
      <4>2. i \in RowsHolding(t, x) /\ x # k
        BY <2>1, <4>1 DEF RowsHolding, EntryOf
      <4>3. \A h \in RowsHolding(t, x) : i <= h
        BY <4>1, <4>2, RowChoice
      <4>4. i \in RowsHolding(u, x)
        BY <4>1 DEF RowsHolding, EntryOf
      <4>5. RowsHolding(u, x) \subseteq RowsHolding(t, x)
        <5> HIDE DEF x
        <5> SUFFICES ASSUME NEW h \in RowIds, u[h][Col(h, x)].key = x
                     PROVE  t[h][Col(h, x)].key = x
          BY DEF RowsHolding, EntryOf
        <5> QED BY <1>1, <1>3, <1>6, <4>1, <4>2
      <4>6. FirstRow(u, x) \in RowsHolding(u, x) /\ \A h \in RowsHolding(u, x) : FirstRow(u, x) <= h
        BY <1>3, <4>1, <4>4, RowChoice
      <4>7. FirstRow(u, x) = i
        <5> HIDE DEF x
        <5>1. FirstRow(u, x) \in Nat /\ i \in Nat
          BY <4>6 DEF RowsHolding, RowIds
        <5> QED BY <4>3, <4>4, <4>5, <4>6, <5>1
      <4> QED BY <4>1, <4>7
    <3> QED BY <3>1, <3>2
  <2> QED BY <1>3, <2>5 DEF CountedOnce
<1> QED BY <1>4, <1>5, <1>6

\* Cleared tables hold no counted key.
LEMMA ClearedEntries == EmptyEntries \in EntryTable /\ CountedOnce(EmptyEntries)
  BY StreamAssumption DEF EmptyEntries, EntryTable, Entry, CountedOnce

\* Both forms of the property say the same.
LEMMA CountedOnceForms ==
  /\ CountedOnce(coco) <=> CountedOnceUnder(hash, coco)
  /\ CountedOnce(precision) <=> CountedOnceUnder(hash, precision)
  /\ CountedOnce(coco') <=> CountedOnceUnder(hash, coco')
  /\ CountedOnce(precision') <=> CountedOnceUnder(hash, precision')
  /\ CountedOnce(coco)' <=> CountedOnceUnder(hash', coco')
  /\ CountedOnce(precision)' <=> CountedOnceUnder(hash', precision')
  BY DEF CountedOnce, CountedOnceUnder, FirstRow, RowsHolding, EntryOf, Col

LEMMA SampledAlways == Spec => []SampledInv
<1>1. Init => SampledInv
  BY ClearedEntries DEF Init, TablesInit, SamplingInit, SampledInv
<1>2. BaseInv /\ SampledInv /\ [Next]_vars => SampledInv'
  <2> SUFFICES ASSUME BaseInv, SampledInv, [Next]_vars PROVE SampledInv'
    OBVIOUS
  <2>1. hash \in Hashes /\ coco \in EntryTable /\ precision \in EntryTable
        /\ CountedOnce(coco) /\ CountedOnce(precision)
    BY DEF BaseInv, SampledInv
  <2>2. ASSUME UNCHANGED <<hash, task>>, task # "construct",
               coco' \in EntryTable, precision' \in EntryTable,
               CountedOnce(coco'), CountedOnce(precision')
        PROVE  SampledInv'
    <3>1. CountedOnce(coco)'
      BY <2>2, CountedOnceForms
    <3>2. CountedOnce(precision)'
      BY <2>2, CountedOnceForms
    <3> QED BY <2>2, <3>1, <3>2 DEF SampledInv
  <2>3. ASSUME UNCHANGED <<task, hash, coco, precision>> PROVE SampledInv'
    <3>1. CountedOnce(coco)'
      BY <2>1, <2>3, CountedOnceForms
    <3>2. CountedOnce(precision)'
      BY <2>1, <2>3, CountedOnceForms
    <3> QED BY <2>3, <3>1, <3>2 DEF SampledInv
  <2>4. ASSUME coco' = EmptyEntries, precision' = EmptyEntries PROVE SampledInv'
    <3>1. CountedOnce(coco)' /\ CountedOnce(precision)'
      BY <2>4 DEF CountedOnce, EmptyEntries
    <3> QED BY <2>4, <3>1, ClearedEntries DEF SampledInv
  <2>5. CASE SizingStep
    BY <2>3, <2>5 DEF SizingStep, tables, samplingTables
  <2>6. ASSUME NEW t \in SketchNames, StartTest(t) PROVE SampledInv'
    BY <2>4, <2>6 DEF StartTest, tables, samplingTables, SampledInv
  <2>7. ASSUME NEW k \in Keys, FeedCoco(k) PROVE SampledInv'
    <3>1. task' = task /\ task = "coco" /\ hash' = hash /\ precision' = precision /\ coco' \in CocoAfter(k)
      BY <2>7 DEF FeedCoco, Feeding, CocoInsert
    <3> DEFINE f == FirstRow(coco, k)  l == LeastRow(coco, k)
    <3>2. coco' \in EntryTable /\ CountedOnce(coco')
      <4>1. CASE RowsHolding(coco, k) # {}
        <5>1. coco' = Counted(coco, k, f) /\ f \in RowIds
          BY <2>1, <3>1, <4>1, RowChoice DEF CocoAfter, RowsHolding
        <5> QED BY <2>1, <4>1, <5>1, CountedOnceStep
      <4>2. CASE RowsHolding(coco, k) = {}
        <5>1. l \in RowIds /\ EntryOf(coco, k, l).val \in Nat
          BY <2>1, RowChoice, Places DEF EntryOf, EntryTable, Entry
        <5>2. PICK zero \in Draws(EntryOf(coco, k, l).val + 1) :
                coco' = IF zero THEN Replaced(coco, k, l) ELSE Counted(coco, k, l)
          BY <3>1, <4>2 DEF CocoAfter
        <5>3. CASE zero
          <6>1. coco' = Replaced(coco, k, l)
            BY <5>2, <5>3
          <6> QED BY <2>1, <4>2, <5>1, <6>1, CountedOnceStep
        <5>4. CASE ~ zero
          <6>1. coco' = Counted(coco, k, l)
            BY <5>2, <5>4
          <6>2. EntryOf(coco, k, l).val # 0
            <7> DEFINE n == EntryOf(coco, k, l).val
            <7>1. n = 0 => Draws(n + 1) = {TRUE}
              BY DEF Draws
            <7>2. zero \in Draws(n + 1) /\ zero # TRUE
              BY <5>4
            <7> HIDE DEF n
            <7> QED BY <7>1, <7>2 DEF n
          <6> QED BY <2>1, <5>1, <6>1, <6>2, CountedOnceStep
        <5> QED BY <5>3, <5>4
      <4> QED BY <4>1, <4>2
    <3> QED BY <2>1, <2>2, <3>1, <3>2
  <2>8. ASSUME NEW k \in Keys, FeedPrecision(k) PROVE SampledInv'
    <3>1. task' = task /\ task = "precision" /\ hash' = hash /\ coco' = coco /\ precision' \in PrecisionAfter(k)
      BY <2>8 DEF FeedPrecision, Feeding, PrecisionInsert
    <3> DEFINE f == FirstRow(precision, k)  l == LeastRow(precision, k)
    <3>2. precision' \in EntryTable /\ CountedOnce(precision')
      <4>1. CASE RowsHolding(precision, k) # {}
        <5>1. precision' = Counted(precision, k, f) /\ f \in RowIds
          BY <2>1, <3>1, <4>1, RowChoice DEF PrecisionAfter, RowsHolding
        <5> QED BY <2>1, <4>1, <5>1, CountedOnceStep
      <4>2. CASE RowsHolding(precision, k) = {}
        <5>1. l \in RowIds
          BY <2>1, RowChoice
        <5>2. precision' = Replaced(precision, k, l) \/ precision' = precision
          BY <3>1, <4>2 DEF PrecisionAfter
        <5>3. CASE precision' = Replaced(precision, k, l)
          BY <2>1, <4>2, <5>1, <5>3, CountedOnceStep
        <5> QED BY <2>1, <5>2, <5>3
      <4> QED BY <4>1, <4>2
    <3> QED BY <2>1, <2>2, <3>1, <3>2
  <2>9. ASSUME NEW k \in Keys, Feed(k), ~ FeedCoco(k), ~ FeedPrecision(k)
        PROVE  SampledInv'
    BY <2>3, <2>9 DEF Feed, FeedCounters, FeedElastic, FeedHashPipe, Feeding, samplingTables
  <2>10. CASE NextRound
    BY <2>4, <2>10 DEF NextRound, TablesReset, SamplingInit
  <2>11. CASE UNCHANGED vars
    BY <2>3, <2>11 DEF vars, tables, samplingTables
  <2> QED BY <2>5, <2>6, <2>7, <2>8, <2>9, <2>10, <2>11 DEF Next
<1> QED BY <1>1, <1>2, BaseAlways, PTL DEF Spec

\* No key is ever counted in two entries of CocoSketch or PRECISION, or in one that
\* its query does not find, whatever the random draws.
THEOREM CountedOnceAlways == Spec => [](CountedOnce(coco) /\ CountedOnce(precision))
<1>1. SampledInv => CountedOnce(coco) /\ CountedOnce(precision)
  BY DEF SampledInv
<1> QED BY <1>1, SampledAlways, PTL

TablePlaces == RowIds \X Cols

\* The tables have finitely many entries, and the stream has finitely many keys.
LEMMA FiniteTables ==
  /\ IsFiniteSet(TablePlaces) /\ IsFiniteSet(RowIds)
  /\ IsFiniteSet(HeavyBkts \X Slots) /\ IsFiniteSet(Keys)
<1>1. /\ num_hash \in Nat \ {0} /\ row_size \in Nat \ {0} /\ IsFiniteSet(Keys)
      /\ heavy_num_bkt \in Nat \ {0} /\ MAX_VALID_COUNTER \in Nat \ {0}
  BY StreamAssumption, ElasticAssumption
<1>2. \A n \in Nat \ {0} : IsFiniteSet(0 .. n - 1)
  BY FS_Interval
<1>3. IsFiniteSet(RowIds) /\ IsFiniteSet(Cols) /\ IsFiniteSet(HeavyBkts) /\ IsFiniteSet(Slots)
  BY <1>1, <1>2 DEF RowIds, Cols, HeavyBkts, Slots
<1> QED BY <1>1, <1>3, FS_Product DEF TablePlaces

\* An insertion makes the stream longer by one.
LEMMA StreamGrows ==
  ASSUME BaseInv, NEW k \in Keys, NEW t, Feeding(k, t)
  PROVE  StreamLength \in Nat /\ StreamLength' = StreamLength + 1
<1>1. /\ flow_cnt \in [Keys -> Nat] /\ flow_cnt' \in [Keys -> Nat]
      /\ flow_cnt' = [flow_cnt EXCEPT ![k] = @ + 1]
  BY DEF BaseInv, Feeding
<1>2. /\ \A x \in Keys : flow_cnt[x] \in Nat /\ flow_cnt[x] \in Int /\ flow_cnt'[x] \in Int
      /\ \A x \in Keys : x # k => flow_cnt[x] = flow_cnt'[x]
      /\ flow_cnt'[k] = flow_cnt[k] + 1
      /\ DOMAIN flow_cnt = Keys /\ DOMAIN flow_cnt' = Keys
  BY <1>1
<1>3. StreamLength = SumFunctionOnSet(flow_cnt, Keys)
      /\ StreamLength' = SumFunctionOnSet(flow_cnt', Keys)
  BY <1>2 DEF StreamLength, SumFunction
<1>4. SumFunctionOnSet(flow_cnt, Keys) \in Nat
  BY <1>2, FiniteTables, SumOfNat
<1>5. SumFunctionOnSet(flow_cnt', Keys)
        = SumFunctionOnSet(flow_cnt, Keys) + (flow_cnt'[k] - flow_cnt[k])
  BY <1>2, FiniteTables, SumUpdate
<1> QED BY <1>2, <1>3, <1>4, <1>5

\* What the entries of a table count.
Vals(t) == [e \in TablePlaces |-> t[e[1]][e[2]].val]

LEMMA ValsSum ==
  ASSUME NEW t \in EntryTable
  PROVE  /\ SumFunction(Vals(t)) = SumFunctionOnSet(Vals(t), TablePlaces)
         /\ \A e \in TablePlaces : Vals(t)[e] \in Nat
         /\ SumFunction(Vals(t)) \in Nat
<1>1. SumFunction(Vals(t)) = SumFunctionOnSet(Vals(t), TablePlaces)
  BY DEF Vals, SumFunction
<1>2. \A e \in TablePlaces : Vals(t)[e] \in Nat
  BY DEF Vals, TablePlaces, EntryTable, Entry
<1>3. SumFunctionOnSet(Vals(t), TablePlaces) \in Nat
  BY <1>2, FiniteTables, SumOfNat
<1> QED BY <1>1, <1>2, <1>3

\* Both ways to count, with and without a new key, add one to one entry.
LEMMA CreditStep ==
  ASSUME hash \in Hashes, NEW t \in EntryTable, NEW k \in Keys, NEW j \in RowIds,
         NEW u, u = Counted(t, k, j) \/ u = Replaced(t, k, j)
  PROVE  u \in EntryTable /\ SumFunction(Vals(u)) = SumFunction(Vals(t)) + 1
<1> DEFINE c == Col(j, k)
<1>1. c \in Cols
  BY Places
<1>2. t[j][c] \in Entry
  BY <1>1 DEF EntryTable
<1> HIDE DEF c
<1>3. PICK e \in Entry : u = [t EXCEPT ![j][c] = e] /\ e.val = t[j][c].val + 1
  <2>1. CASE u = Counted(t, k, j)
    <3> DEFINE e == [t[j][c] EXCEPT !.val = @ + 1]
    <3>1. e \in Entry /\ e.val = t[j][c].val + 1
      BY <1>2 DEF Entry
    <3>2. u = [t EXCEPT ![j][c] = e]
      BY <1>1, <2>1 DEF Counted, c, EntryTable
    <3> QED BY <3>1, <3>2
  <2>2. CASE u = Replaced(t, k, j)
    <3> DEFINE e == [key |-> k, val |-> t[j][c].val + 1]
    <3>1. e \in Entry /\ e.val = t[j][c].val + 1
      BY <1>2 DEF Entry
    <3>2. u = [t EXCEPT ![j][c] = e]
      BY <1>1, <2>2 DEF Replaced, c, EntryTable
    <3> QED BY <3>1, <3>2
  <2> QED BY <2>1, <2>2
<1>4. u \in EntryTable
  BY <1>1, <1>3 DEF EntryTable
<1>5. u[j][c] = e /\ \A i \in RowIds : \A d \in Cols : ~ (i = j /\ d = c) => u[i][d] = t[i][d]
  BY <1>1, <1>3 DEF EntryTable
<1> DEFINE a == <<j, c>>
<1>6. a \in TablePlaces /\ a[1] = j /\ a[2] = c
  BY <1>1 DEF TablePlaces
<1>7. \A x \in TablePlaces : /\ x[1] \in RowIds /\ x[2] \in Cols
                        /\ (x # a => ~ (x[1] = j /\ x[2] = c))
  BY DEF TablePlaces
<1> HIDE DEF a
<1>8. /\ \A x \in TablePlaces : x # a => Vals(t)[x] = Vals(u)[x]
      /\ Vals(u)[a] = Vals(t)[a] + 1
  BY <1>3, <1>5, <1>6, <1>7 DEF Vals
<1>9. /\ SumFunction(Vals(t)) = SumFunctionOnSet(Vals(t), TablePlaces)
      /\ SumFunction(Vals(u)) = SumFunctionOnSet(Vals(u), TablePlaces)
      /\ \A x \in TablePlaces : Vals(t)[x] \in Int /\ Vals(u)[x] \in Int
      /\ SumFunction(Vals(t)) \in Nat
  BY <1>4, ValsSum
<1>10. SumFunctionOnSet(Vals(u), TablePlaces)
         = SumFunctionOnSet(Vals(t), TablePlaces) + (Vals(u)[a] - Vals(t)[a])
  BY <1>6, <1>8, <1>9, FiniteTables, SumUpdate
<1> QED BY <1>4, <1>6, <1>8, <1>9, <1>10

\* What the queries answer of the recorded keys is what the entries count.
Credits(t) ==
  [k \in Keys |-> IF RowsHolding(t, k) # {} THEN EntryOf(t, k, FirstRow(t, k)).val ELSE 0]

LEMMA CreditsAreVals ==
  ASSUME hash \in Hashes, NEW t \in EntryTable, CountedOnce(t)
  PROVE  SumFunction(Credits(t)) = SumFunction(Vals(t))
<1>1. ASSUME NEW k \in Keys, RowsHolding(t, k) # {}
      PROVE  LET i == FirstRow(t, k)
             IN  /\ <<i, Col(i, k)>> \in TablePlaces /\ t[i][Col(i, k)].key = k
                 /\ Credits(t)[k] = Vals(t)[<<i, Col(i, k)>>]
  <2> DEFINE i == FirstRow(t, k)  a == <<i, Col(i, k)>>
  <2>1. i \in RowIds /\ EntryOf(t, k, i).key = k
    BY <1>1, RowChoice DEF RowsHolding
  <2>2. Col(i, k) \in Cols
    BY <2>1, Places
  <2>3. a \in TablePlaces /\ a[1] = i /\ a[2] = Col(i, k)
    BY <2>1, <2>2 DEF TablePlaces
  <2>4. Credits(t)[k] = EntryOf(t, k, i).val
    BY <1>1 DEF Credits
  <2> HIDE DEF i
  <2>5. Vals(t)[a] = t[i][Col(i, k)].val
    BY <2>3 DEF Vals
  <2> QED BY <2>1, <2>3, <2>4, <2>5 DEF EntryOf, i
<1>2. \A k \in Keys : Credits(t)[k] \in Nat
  <2>1. \A e \in TablePlaces : Vals(t)[e] \in Nat
    BY ValsSum
  <2>2. ASSUME NEW k \in Keys PROVE Credits(t)[k] \in Nat
    <3>1. CASE RowsHolding(t, k) = {}
      BY <3>1 DEF Credits
    <3>2. CASE RowsHolding(t, k) # {}
      <4>1. PICK a \in TablePlaces : Credits(t)[k] = Vals(t)[a]
        BY <1>1, <3>2
      <4> QED BY <2>1, <4>1
    <3> QED BY <3>1, <3>2
  <2> QED BY <2>2
<1>3. \A e \in TablePlaces : Vals(t)[e] \in Nat
  BY ValsSum
<1>4. SumFunctionOnSet(Credits(t), Keys) <= SumFunctionOnSet(Vals(t), TablePlaces)
  <2> DEFINE m == [k \in Keys |-> <<FirstRow(t, k), Col(FirstRow(t, k), k)>>]
  <2>1. ASSUME NEW k \in Keys, Credits(t)[k] # 0
        PROVE  /\ m[k] \in TablePlaces /\ Credits(t)[k] = Vals(t)[m[k]]
               /\ t[m[k][1]][m[k][2]].key = k
    <3>1. RowsHolding(t, k) # {}
      BY <2>1 DEF Credits
    <3> QED BY <1>1, <3>1
  <2> HIDE DEF m
  <2>2. \A k \in Keys : Credits(t)[k] # 0 => m[k] \in TablePlaces /\ Credits(t)[k] <= Vals(t)[m[k]]
    BY <1>2, <2>1
  <2>3. \A k, l \in Keys : Credits(t)[k] # 0 /\ Credits(t)[l] # 0 /\ m[k] = m[l] => k = l
    BY <2>1
  <2> QED BY <1>2, <1>3, <2>2, <2>3, FiniteTables, SumInjection
<1>5. SumFunctionOnSet(Vals(t), TablePlaces) <= SumFunctionOnSet(Credits(t), Keys)
  <2> DEFINE m == [e \in TablePlaces |-> t[e[1]][e[2]].key]
  <2>1. ASSUME NEW e \in TablePlaces, Vals(t)[e] # 0
        PROVE  /\ m[e] \in Keys /\ e = <<FirstRow(t, m[e]), Col(FirstRow(t, m[e]), m[e])>>
               /\ RowsHolding(t, m[e]) # {}
    <3>1. e[1] \in RowIds /\ e[2] \in Cols /\ e = <<e[1], e[2]>> /\ t[e[1]][e[2]] \in Entry
      BY DEF TablePlaces, EntryTable
    <3>2. m[e] = t[e[1]][e[2]].key /\ m[e] \in Keys /\ t[e[1]][e[2]].val > 0
      BY <2>1, <3>1 DEF Vals, Entry
    <3>3. e[2] = Col(e[1], m[e]) /\ e[1] = FirstRow(t, m[e])
      BY <3>1, <3>2 DEF CountedOnce
    <3>4. e[1] \in RowsHolding(t, m[e])
      BY <3>1, <3>2, <3>3 DEF RowsHolding, EntryOf
    <3> QED BY <3>1, <3>2, <3>3, <3>4
  <2> HIDE DEF m
  <2>2. \A e \in TablePlaces : Vals(t)[e] # 0 => m[e] \in Keys /\ Vals(t)[e] <= Credits(t)[m[e]]
    BY <1>1, <1>2, <2>1
  <2>3. \A e, d \in TablePlaces : Vals(t)[e] # 0 /\ Vals(t)[d] # 0 /\ m[e] = m[d] => e = d
    BY <2>1
  <2> QED BY <1>2, <1>3, <2>2, <2>3, FiniteTables, SumInjection
<1>6. /\ SumFunction(Credits(t)) = SumFunctionOnSet(Credits(t), Keys)
      /\ SumFunction(Vals(t)) = SumFunctionOnSet(Vals(t), TablePlaces)
      /\ SumFunctionOnSet(Credits(t), Keys) \in Nat /\ SumFunction(Vals(t)) \in Nat
  <2>1. SumFunction(Credits(t)) = SumFunctionOnSet(Credits(t), Keys)
    BY DEF Credits, SumFunction
  <2>2. SumFunctionOnSet(Credits(t), Keys) \in Nat
    BY <1>2, FiniteTables, SumOfNat
  <2> QED BY <2>1, <2>2, ValsSum
<1> QED BY <1>4, <1>5, <1>6

\* The entries of a sketch under test count the stream, or a part of it.
CreditInv ==
  /\ task = "coco" => SumFunction(Vals(coco)) = StreamLength
  /\ task = "precision" => SumFunction(Vals(precision)) <= StreamLength

\* Cleared tables count nothing.
LEMMA ClearedVals ==
  ASSUME flow_cnt = NoCounts
  PROVE  SumFunction(Vals(EmptyEntries)) = 0 /\ StreamLength = 0
<1>1. \A e \in TablePlaces : Vals(EmptyEntries)[e] = 0
  BY DEF Vals, TablePlaces, EmptyEntries
<1>2. SumFunction(Vals(EmptyEntries)) = SumFunctionOnSet(Vals(EmptyEntries), TablePlaces)
  BY DEF Vals, SumFunction
<1>3. StreamLength = SumFunctionOnSet(flow_cnt, Keys) /\ \A k \in Keys : flow_cnt[k] = 0
  BY DEF StreamLength, NoCounts, SumFunction
<1>4. SumFunctionOnSet(Vals(EmptyEntries), TablePlaces) = 0
  BY <1>1, FiniteTables, SumOfNat
<1>5. SumFunctionOnSet(flow_cnt, Keys) = 0
  BY <1>3, FiniteTables, SumOfNat
<1> QED BY <1>2, <1>3, <1>4, <1>5

\* CocoSketch credits every insertion to exactly one recorded key, and PRECISION to
\* at most one, for every stream and size, any hash functions and any random draws.
THEOREM SampledSoundAlways == Spec => []SampledSound
<1>1. Init => CreditInv
  BY DEF Init, CreditInv
<1>2. BaseInv /\ SampledInv /\ CreditInv /\ [Next]_vars => CreditInv'
  <2> SUFFICES ASSUME BaseInv, SampledInv, CreditInv, [Next]_vars PROVE CreditInv'
    OBVIOUS
  <2>1. hash \in Hashes /\ coco \in EntryTable /\ precision \in EntryTable
    BY DEF BaseInv, SampledInv
  <2>2. ASSUME task' \notin {"coco", "precision"} PROVE CreditInv'
    BY <2>2 DEF CreditInv
  <2>3. CASE SizingStep
    BY <2>2, <2>3 DEF SizingStep
  <2>4. ASSUME NEW t \in SketchNames, StartTest(t) PROVE CreditInv'
    <3>1. /\ coco' = EmptyEntries /\ precision' = EmptyEntries /\ flow_cnt' = flow_cnt
          /\ flow_cnt = NoCounts
      BY <2>4 DEF StartTest, tables, samplingTables, SampledInv, BaseInv
    <3>2. SumFunction(Vals(EmptyEntries)) = 0 /\ StreamLength = 0
      BY <3>1, ClearedVals
    <3>3. StreamLength' = StreamLength
      BY <3>1 DEF StreamLength
    <3> QED BY <3>1, <3>2, <3>3 DEF CreditInv
  <2>5. ASSUME NEW k \in Keys, FeedCoco(k) PROVE CreditInv'
    <3>1. task = "coco" /\ task' = "coco" /\ Feeding(k, "coco") /\ coco' \in CocoAfter(k)
      BY <2>5 DEF FeedCoco, Feeding, CocoInsert
    <3>2. \E j \in RowIds : coco' = Counted(coco, k, j) \/ coco' = Replaced(coco, k, j)
      <4>1. RowsHolding(coco, k) # {} => FirstRow(coco, k) \in RowIds
        BY <2>1, RowChoice DEF RowsHolding
      <4>2. LeastRow(coco, k) \in RowIds
        BY <2>1, RowChoice
      <4> QED BY <3>1, <4>1, <4>2 DEF CocoAfter
    <3>3. SumFunction(Vals(coco')) = SumFunction(Vals(coco)) + 1
      BY <2>1, <3>2, CreditStep
    <3>4. StreamLength' = StreamLength + 1
      BY <3>1, StreamGrows
    <3> QED BY <3>1, <3>3, <3>4 DEF CreditInv
  <2>6. ASSUME NEW k \in Keys, FeedPrecision(k) PROVE CreditInv'
    <3>1. /\ task = "precision" /\ task' = "precision" /\ Feeding(k, "precision")
          /\ precision' \in PrecisionAfter(k)
      BY <2>6 DEF FeedPrecision, Feeding, PrecisionInsert
    <3>2. \/ precision' = precision
          \/ \E j \in RowIds : \/ precision' = Counted(precision, k, j)
                              \/ precision' = Replaced(precision, k, j)
      <4>1. RowsHolding(precision, k) # {} => FirstRow(precision, k) \in RowIds
        BY <2>1, RowChoice DEF RowsHolding
      <4>2. LeastRow(precision, k) \in RowIds
        BY <2>1, RowChoice
      <4> QED BY <3>1, <4>1, <4>2 DEF PrecisionAfter
    <3>3. \/ precision' = precision
          \/ SumFunction(Vals(precision')) = SumFunction(Vals(precision)) + 1
      BY <2>1, <3>2, CreditStep
    <3>4. StreamLength \in Nat /\ StreamLength' = StreamLength + 1
      BY <3>1, StreamGrows
    <3>5. SumFunction(Vals(precision)) \in Nat
      BY <2>1, ValsSum
    <3> QED BY <3>1, <3>3, <3>4, <3>5 DEF CreditInv
  <2>7. ASSUME NEW k \in Keys, Feed(k), ~ FeedCoco(k), ~ FeedPrecision(k)
        PROVE  CreditInv'
    BY <2>2, <2>7 DEF Feed, FeedCounters, FeedElastic, FeedHashPipe, Feeding
  <2>8. CASE NextRound
    BY <2>2, <2>8 DEF NextRound
  <2>9. CASE UNCHANGED vars
    BY <2>9 DEF vars, tables, samplingTables, CreditInv, StreamLength
  <2> QED BY <2>3, <2>4, <2>5, <2>6, <2>7, <2>8, <2>9 DEF Next
<1>3. ASSUME BaseInv, SampledInv, CreditInv PROVE SampledSound
  <2>1. /\ hash \in Hashes /\ coco \in EntryTable /\ CountedOnce(coco)
        /\ precision \in EntryTable /\ CountedOnce(precision)
    BY <1>3 DEF BaseInv, SampledInv
  <2>2. CocoCredits = Credits(coco) /\ PrecisionCredits = Credits(precision)
    BY DEF CocoCredits, PrecisionCredits, Credits, coco_query_freq, precision_query_freq
  <2>3. /\ SumFunction(Credits(coco)) = SumFunction(Vals(coco))
        /\ SumFunction(Credits(precision)) = SumFunction(Vals(precision))
    BY <2>1, CreditsAreVals
  <2> QED BY <1>3, <2>1, <2>2, <2>3
          DEF SampledSound, CocoCreditsAll, PrecisionCreditsOnce, CreditInv
<1> QED BY <1>1, <1>2, <1>3, BaseAlways, SampledAlways, PTL DEF Spec
-----------------------------------------------------------------------------
(* Elastic.                                                                *)

\* The first of a set of slots, and the slot of the least counter, are slots.
LEMMA SlotChoice ==
  ASSUME hash \in Hashes, heavy \in [HeavyBkts -> [Slots -> Slot]], NEW k \in Keys
  PROVE  /\ \A S \in SUBSET Slots : S # {} => First(S) \in S
         /\ LeastSlot(k) \in Slots
<1>1. ASSUME NEW S \in SUBSET Slots, S # {} PROVE First(S) \in S
  <2>1. S \in SUBSET Nat
    BY DEF Slots
  <2> QED BY <1>1, <2>1, MinIsLeast DEF First
<1> DEFINE b == HeavyPos(k)
           V == {heavy[b][i].cnt : i \in Slots}
           L == {i \in Slots : \A j \in Slots : heavy[b][i].cnt <= heavy[b][j].cnt}
<1>2. b \in HeavyBkts
  BY Places
<1> HIDE DEF b
<1>3. V \in SUBSET Nat /\ V # {}
  <2>1. 0 \in Slots
    BY ElasticAssumption DEF Slots
  <2>2. \A i \in Slots : heavy[b][i].cnt \in Nat
    BY <1>2 DEF Slot
  <2> QED BY <2>1, <2>2
<1>4. \E x \in V : \A y \in V : x <= y
  <2> HIDE DEF V
  <2> QED BY <1>3, LeastNat
<1>5. L \in SUBSET Slots /\ L # {}
  BY <1>4
<1>6. LeastSlot(k) = First(L)
  BY DEF LeastSlot, b
<1> HIDE DEF L
<1>7. First(L) \in L
  BY <1>1, <1>5
<1> QED BY <1>1, <1>5, <1>6, <1>7

\* A light counter never falls, takes in what it is given, and a counter that is
\* not spoiled was not raised to the count of a key that came back.
LEMMA InsertLightFacts ==
  ASSUME hash \in Hashes, light \in [LightBkts -> Nat],
         NEW k \in Keys, NEW f \in Nat, NEW is_swap \in BOOLEAN,
         InsertLight(k, f, is_swap)
  PROVE  /\ light' \in [LightBkts -> Nat]
         /\ spoiled \subseteq spoiled'
         /\ \A p \in LightBkts : p \notin spoiled' => light[p] <= light'[p]
         /\ LightPos(k) \notin spoiled' =>
              is_swap = FALSE /\ light'[LightPos(k)] = light[LightPos(k)] + f
<1> DEFINE q == LightPos(k)
<1>1. q \in LightBkts
  BY Places
<1>2. /\ light' = LightAfter(q, f, is_swap)
      /\ spoiled' = IF is_swap \/ light[q] + f > LightMax THEN spoiled \cup {q} ELSE spoiled
  BY DEF InsertLight
<1> HIDE DEF q
<1>3. LightMax \in Nat /\ light[q] \in Nat
  BY <1>1, ElasticAssumption
<1>4. ASSUME NEW n \in Nat PROVE Min({n, LightMax}) \in Nat /\ (n <= LightMax => Min({n, LightMax}) = n)
  <2>1. {n, LightMax} \in SUBSET Nat /\ {n, LightMax} # {}
    BY <1>3
  <2>2. Min({n, LightMax}) \in {n, LightMax} /\ \A y \in {n, LightMax} : Min({n, LightMax}) <= y
    BY <2>1, MinIsLeast
  <2> QED BY <1>3, <2>2
<1>5. CASE q \in spoiled'
  <2>1. light' \in [LightBkts -> Nat] /\ \A p \in LightBkts : p # q => light'[p] = light[p]
    BY <1>1, <1>2, <1>3, <1>4 DEF LightAfter
  <2>2. \A p \in LightBkts : light[p] \in Nat
    OBVIOUS
  <2> QED BY <1>2, <1>5, <2>1, <2>2 DEF q
<1>6. CASE q \notin spoiled'
  <2>1. ~ is_swap /\ light[q] + f <= LightMax /\ spoiled' = spoiled
    BY <1>2, <1>3, <1>6
  <2>2. light' = [light EXCEPT ![q] = light[q] + f]
    <3>1. Min({light[q] + f, LightMax}) = light[q] + f
      BY <1>3, <1>4, <2>1
    <3> QED BY <1>1, <1>2, <2>1, <3>1 DEF LightAfter
  <2>3. light' \in [LightBkts -> Nat] /\ light'[q] = light[q] + f
        /\ \A p \in LightBkts : light[p] <= light'[p]
    BY <1>1, <1>3, <2>2
  <2> QED BY <2>1, <2>3 DEF q
<1> QED BY <1>5, <1>6

\* Whichever way an insertion ends, the parts cover the true counts.
LEMMA ElasticStep ==
  ASSUME BaseInv, ElasticInv, NEW k \in Keys, FeedElastic(k)
  PROVE  ElasticInv'
<1> DEFINE b == HeavyPos(k)
<1>1. /\ task = "elastic" /\ task' = task /\ hash' = hash
      /\ flow_cnt' = [flow_cnt EXCEPT ![k] = @ + 1]
      /\ ElasticInsert(k)
  BY DEF FeedElastic, Feeding
<1>2. /\ hash \in Hashes /\ flow_cnt \in [Keys -> Nat]
      /\ heavy \in [HeavyBkts -> [Slots -> Slot]] /\ light \in [LightBkts -> Nat]
  BY DEF BaseInv, ElasticInv
<1>3. b \in HeavyBkts /\ \A x \in Keys : HeavyPos(x) \in HeavyBkts /\ LightPos(x) \in LightBkts
  BY <1>2, Places
<1>4. \A x \in Keys : HeavyPos(x)' = HeavyPos(x) /\ LightPos(x)' = LightPos(x)
  BY <1>1 DEF HeavyPos, LightPos
<1>5. \A S \in SUBSET Slots : S # {} => First(S) \in S
  BY <1>2, SlotChoice
<1> HIDE DEF b
<1>6. ASSUME heavy' \in [HeavyBkts -> [Slots -> Slot]], light' \in [LightBkts -> Nat],
             flow_cnt'[ZeroKey] = 0 => SlotsInv' /\ PartsCover'
      PROVE  ElasticInv'
  BY <1>1, <1>6 DEF ElasticInv
<1>7. flow_cnt'[ZeroKey] = 0 => /\ k # ZeroKey /\ flow_cnt[ZeroKey] = 0
                                /\ SlotsInv /\ PartsCover
  BY <1>1, <1>2, StreamAssumption DEF ElasticInv
<1>8. /\ \A x \in Keys : flow_cnt[x] \in Nat
      /\ \A x \in Keys : flow_cnt'[x] = IF x = k THEN flow_cnt[k] + 1 ELSE flow_cnt[x]
  BY <1>1, <1>2
<1>9. \A d \in HeavyBkts : \A i \in Slots :
        heavy[d][i].key \in Keys /\ heavy[d][i].cnt \in Nat /\ heavy[d][i].flag \in BOOLEAN
  BY <1>2 DEF Slot
<1>10. \A p \in LightBkts : light[p] \in Nat
  BY <1>2
<1>11. /\ \A i \in Slots : i \in Carrying(k, k) <=> heavy[b][i].key = k
       /\ \A i \in Slots : i \in Carrying(k, ZeroKey) <=> heavy[b][i].key = ZeroKey
       /\ Carrying(k, k) \in SUBSET Slots /\ Carrying(k, ZeroKey) \in SUBSET Slots
  BY DEF Carrying, b
<1>12. CASE InsertMatched(k)
  <2> DEFINE i == First(Carrying(k, k))
  <2>1. i \in Slots /\ heavy[b][i].key = k
    BY <1>5, <1>11, <1>12 DEF InsertMatched
  <2>2. heavy' = [heavy EXCEPT ![b][i].cnt = @ + 1] /\ light' = light /\ spoiled' = spoiled
    BY <1>12 DEF InsertMatched, b
  <2> HIDE DEF i
  <2>3. heavy' \in [HeavyBkts -> [Slots -> Slot]]
    <3> DEFINE e == [heavy[b][i] EXCEPT !.cnt = @ + 1]
    <3>1. heavy[b][i] \in Slot
      BY <1>2, <1>3, <2>1
    <3>2. e \in Slot
      BY <3>1 DEF Slot
    <3>3. heavy' = [heavy EXCEPT ![b][i] = e]
      BY <1>2, <1>3, <2>1, <2>2
    <3> HIDE DEF e
    <3> QED BY <1>2, <1>3, <2>1, <3>2, <3>3
  <2>4. \A d \in HeavyBkts : \A j \in Slots :
          /\ heavy'[d][j].key = heavy[d][j].key /\ heavy'[d][j].flag = heavy[d][j].flag
          /\ heavy'[d][j].cnt = IF d = b /\ j = i THEN heavy[d][j].cnt + 1
                                                ELSE heavy[d][j].cnt
    BY <1>2, <1>3, <2>1, <2>2 DEF Slot
  <2>5. ASSUME flow_cnt'[ZeroKey] = 0 PROVE SlotsInv'
    BY <1>3, <1>4, <1>7, <1>8, <2>1, <2>4, <2>5 DEF SlotsInv, b
  <2>6. ASSUME flow_cnt'[ZeroKey] = 0 PROVE PartsCover'
    <3>1. ASSUME NEW x \in Keys, x # ZeroKey, LightPos(x) \notin spoiled,
                 NEW j \in Slots, heavy[HeavyPos(x)][j].key = x
          PROVE  flow_cnt'[x] <= heavy'[HeavyPos(x)][j].cnt
                   + (IF heavy'[HeavyPos(x)][j].flag THEN light[LightPos(x)] ELSE 0)
      <4> DEFINE d == HeavyPos(x)
                 n == IF heavy[d][j].flag THEN light[LightPos(x)] ELSE 0
      <4>1. d \in HeavyBkts /\ n \in Nat /\ heavy[d][j].cnt \in Nat
        BY <1>3, <1>9, <1>10
      <4>2. flow_cnt[x] <= heavy[d][j].cnt + n
        BY <1>7, <2>6, <3>1 DEF PartsCover
      <4>3. heavy'[d][j].flag = heavy[d][j].flag
        BY <2>4, <4>1
      <4>4. x = k => d = b /\ j = i
        BY <1>3, <1>7, <2>1, <2>6, <3>1 DEF SlotsInv, b
      <4>5. flow_cnt'[x] <= heavy'[d][j].cnt + n
        <5> HIDE DEF d, n
        <5> QED BY <1>8, <2>4, <4>1, <4>2, <4>4
      <4> QED BY <4>3, <4>5
    <3>2. ASSUME NEW x \in Keys, x # ZeroKey, LightPos(x) \notin spoiled,
                 \A j \in Slots : heavy[HeavyPos(x)][j].key # x
          PROVE  flow_cnt'[x] <= light[LightPos(x)]
      <4>1. x # k
        BY <2>1, <3>2 DEF b
      <4> QED BY <1>7, <1>8, <2>6, <3>2, <4>1 DEF PartsCover
    <3> QED BY <1>3, <1>4, <2>2, <2>4, <3>1, <3>2 DEF PartsCover
  <2> QED BY <1>2, <1>6, <2>2, <2>3, <2>5, <2>6
\* The other ways put an entry of k in a slot, or none.
<1>13. ASSUME NEW i \in Slots, NEW e \in Slot, heavy' = [heavy EXCEPT ![b][i] = e]
       PROVE  /\ heavy' \in [HeavyBkts -> [Slots -> Slot]]
              /\ \A d \in HeavyBkts : \A j \in Slots :
                   heavy'[d][j] = IF d = b /\ j = i THEN e ELSE heavy[d][j]
  BY <1>2, <1>3, <1>13
<1>14. CASE InsertEmpty(k)
  <2> DEFINE i == First(Carrying(k, ZeroKey))
             e == [key |-> k, cnt |-> 1, flag |-> FALSE]
  <2>1. i \in Slots /\ heavy[b][i].key = ZeroKey /\ \A j \in Slots : heavy[b][j].key # k
    BY <1>5, <1>11, <1>14 DEF InsertEmpty
  <2>2. /\ heavy' = [heavy EXCEPT ![b][i] = e] /\ light' = light /\ spoiled' = spoiled
        /\ e \in Slot /\ e.key = k /\ e.cnt = 1 /\ e.flag = FALSE
    BY <1>14 DEF InsertEmpty, b, Slot
  <2> HIDE DEF i, e
  <2>3. /\ heavy' \in [HeavyBkts -> [Slots -> Slot]]
        /\ \A d \in HeavyBkts : \A j \in Slots :
             heavy'[d][j] = IF d = b /\ j = i THEN e ELSE heavy[d][j]
    BY <1>13, <2>1, <2>2
  <2>4. ASSUME flow_cnt'[ZeroKey] = 0 PROVE SlotsInv'
    <3>1. ASSUME NEW d \in HeavyBkts, NEW j \in Slots, NEW h \in Slots,
                 heavy'[d][j].key = heavy'[d][h].key, heavy'[d][j].key # ZeroKey
          PROVE  j = h
      BY <1>7, <2>1, <2>2, <2>3, <2>4, <3>1 DEF SlotsInv
    <3>2. ASSUME NEW x \in Keys, NEW j \in Slots, x # ZeroKey,
                 \A h \in Slots : heavy'[HeavyPos(x)][h].key # x,
                 heavy'[HeavyPos(x)][j].key = ZeroKey
          PROVE  flow_cnt'[x] = 0
      <4>1. x # k
        BY <1>3, <2>1, <2>2, <2>3, <3>2 DEF b
      <4>2. \A h \in Slots : heavy[HeavyPos(x)][h].key # x
        BY <1>3, <2>1, <2>3, <3>2
      <4>3. heavy[HeavyPos(x)][j].key = ZeroKey
        BY <1>3, <1>7, <2>2, <2>3, <2>4, <3>2
      <4> QED BY <1>7, <1>8, <2>4, <3>2, <4>1, <4>2, <4>3 DEF SlotsInv
    <3> QED BY <1>4, <3>1, <3>2 DEF SlotsInv
  <2>5. ASSUME flow_cnt'[ZeroKey] = 0 PROVE PartsCover'
    <3>1. flow_cnt[k] = 0
      BY <1>7, <2>1, <2>5 DEF SlotsInv, b
    <3>2. ASSUME NEW x \in Keys, x # ZeroKey, LightPos(x) \notin spoiled,
                 NEW j \in Slots, heavy'[HeavyPos(x)][j].key = x
          PROVE  flow_cnt'[x] <= heavy'[HeavyPos(x)][j].cnt
                   + (IF heavy'[HeavyPos(x)][j].flag THEN light[LightPos(x)] ELSE 0)
      <4>1. CASE HeavyPos(x) = b /\ j = i
        <5>1. heavy'[HeavyPos(x)][j] = e /\ x = k
          BY <1>3, <2>2, <2>3, <3>2, <4>1
        <5> QED BY <1>8, <2>2, <3>1, <5>1
      <4>2. CASE ~ (HeavyPos(x) = b /\ j = i)
        <5>1. heavy'[HeavyPos(x)][j] = heavy[HeavyPos(x)][j]
          BY <1>3, <2>3, <4>2
        <5>2. x # k
          BY <2>1, <3>2, <5>1 DEF b
        <5> QED BY <1>7, <1>8, <2>5, <3>2, <5>1, <5>2 DEF PartsCover
      <4> QED BY <4>1, <4>2
    <3>3. ASSUME NEW x \in Keys, x # ZeroKey, LightPos(x) \notin spoiled,
                 \A j \in Slots : heavy'[HeavyPos(x)][j].key # x
          PROVE  flow_cnt'[x] <= light[LightPos(x)]
      <4>1. x # k
        BY <1>3, <2>1, <2>2, <2>3, <3>3 DEF b
      <4>2. \A j \in Slots : heavy[HeavyPos(x)][j].key # x
        BY <1>3, <2>1, <2>3, <3>3
      <4> QED BY <1>7, <1>8, <2>5, <3>3, <4>1, <4>2 DEF PartsCover
    <3> QED BY <1>4, <2>2, <3>2, <3>3 DEF PartsCover
  <2> QED BY <1>2, <1>6, <2>2, <2>3, <2>4, <2>5
<1>15. CASE InsertVote(k)
  <2>1. /\ heavy' = heavy /\ InsertLight(k, 1, FALSE)
        /\ \A j \in Slots : heavy[b][j].key # k /\ heavy[b][j].key # ZeroKey
    BY <1>11, <1>15 DEF InsertVote
  <2>2. /\ light' \in [LightBkts -> Nat] /\ spoiled \subseteq spoiled'
        /\ \A p \in LightBkts : p \notin spoiled' => light[p] <= light'[p]
        /\ LightPos(k) \notin spoiled' => light'[LightPos(k)] = light[LightPos(k)] + 1
    BY <1>2, <2>1, InsertLightFacts
  <2>3. ASSUME flow_cnt'[ZeroKey] = 0 PROVE SlotsInv'
    BY <1>4, <1>7, <1>8, <2>1, <2>3 DEF SlotsInv, b
  <2>4. ASSUME flow_cnt'[ZeroKey] = 0 PROVE PartsCover'
    <3>1. ASSUME NEW x \in Keys, x # ZeroKey, LightPos(x) \notin spoiled',
                 NEW j \in Slots, heavy[HeavyPos(x)][j].key = x
          PROVE  flow_cnt'[x] <= heavy[HeavyPos(x)][j].cnt
                   + (IF heavy[HeavyPos(x)][j].flag THEN light'[LightPos(x)] ELSE 0)
      <4> DEFINE m == light[LightPos(x)]  n == light'[LightPos(x)]
                 s == heavy[HeavyPos(x)][j]
      <4>1. m \in Nat /\ n \in Nat /\ m <= n /\ s.cnt \in Nat
        BY <1>3, <1>9, <1>10, <2>2, <3>1
      <4>2. x # k /\ LightPos(x) \notin spoiled
        BY <2>1, <2>2, <3>1 DEF b
      <4>3. flow_cnt[x] <= s.cnt + (IF s.flag THEN m ELSE 0)
        BY <1>7, <2>4, <3>1, <4>2 DEF PartsCover
      <4> HIDE DEF m, n, s
      <4>4. flow_cnt'[x] <= s.cnt + (IF s.flag THEN n ELSE 0)
        BY <1>8, <4>1, <4>2, <4>3
      <4> QED BY <4>4 DEF n, s
    <3>2. ASSUME NEW x \in Keys, x # ZeroKey, LightPos(x) \notin spoiled',
                 \A j \in Slots : heavy[HeavyPos(x)][j].key # x
          PROVE  flow_cnt'[x] <= light'[LightPos(x)]
      <4> DEFINE m == light[LightPos(x)]  n == light'[LightPos(x)]
      <4>1. m \in Nat /\ n \in Nat /\ m <= n /\ (x = k => n = m + 1)
        BY <1>3, <1>10, <2>2, <3>2
      <4>2. flow_cnt[x] <= m
        BY <1>7, <2>2, <2>4, <3>2 DEF PartsCover
      <4> HIDE DEF m, n
      <4>3. flow_cnt'[x] <= n
        BY <1>8, <4>1, <4>2
      <4> QED BY <4>3 DEF n
    <3> QED BY <1>4, <2>1, <3>1, <3>2 DEF PartsCover
  <2> QED BY <1>2, <1>6, <2>1, <2>2, <2>3, <2>4
<1>16. CASE InsertSwap(k)
  <2> DEFINE l == LeastSlot(k)  s == heavy[b][l]  e == Taken(k)
  <2>1. /\ l \in Slots
        /\ \A j \in Slots : heavy[b][j].key # k /\ heavy[b][j].key # ZeroKey
    BY <1>2, <1>11, <1>16, SlotChoice DEF InsertSwap
  <2>2. /\ heavy' = [heavy EXCEPT ![b][l] = e] /\ InsertLight(s.key, s.cnt, s.flag)
        /\ e \in Slot /\ e.key = k /\ e.cnt = 1 /\ e.flag = TRUE
    BY <1>16 DEF InsertSwap, b, Taken, Slot
  <2>3. s.key \in Keys /\ s.cnt \in Nat /\ s.flag \in BOOLEAN /\ s.key # k
    BY <1>3, <1>9, <2>1
  <2>4. /\ light' \in [LightBkts -> Nat] /\ spoiled \subseteq spoiled'
        /\ \A p \in LightBkts : p \notin spoiled' => light[p] <= light'[p]
        /\ LightPos(s.key) \notin spoiled' =>
             s.flag = FALSE /\ light'[LightPos(s.key)] = light[LightPos(s.key)] + s.cnt
    <3> HIDE DEF s
    <3> QED BY <1>2, <2>2, <2>3, InsertLightFacts
  <2> HIDE DEF l, e
  <2>5. /\ heavy' \in [HeavyBkts -> [Slots -> Slot]]
        /\ \A d \in HeavyBkts : \A j \in Slots :
             heavy'[d][j] = IF d = b /\ j = l THEN e ELSE heavy[d][j]
    BY <1>13, <2>1, <2>2
  <2>6. ASSUME flow_cnt'[ZeroKey] = 0 PROVE SlotsInv'
    <3>1. ASSUME NEW d \in HeavyBkts, NEW j \in Slots, NEW h \in Slots,
                 heavy'[d][j].key = heavy'[d][h].key, heavy'[d][j].key # ZeroKey
          PROVE  j = h
      BY <1>7, <2>1, <2>2, <2>5, <2>6, <3>1 DEF SlotsInv
    <3>2. ASSUME NEW x \in Keys, NEW j \in Slots, x # ZeroKey,
                 \A h \in Slots : heavy'[HeavyPos(x)][h].key # x,
                 heavy'[HeavyPos(x)][j].key = ZeroKey
          PROVE  flow_cnt'[x] = 0
      <4>1. HeavyPos(x) # b
        BY <1>3, <1>7, <2>1, <2>2, <2>5, <2>6, <3>2
      <4>2. x # k
        BY <4>1 DEF b
      <4>3. \A h \in Slots : heavy'[HeavyPos(x)][h] = heavy[HeavyPos(x)][h]
        BY <1>3, <2>5, <4>1
      <4> QED BY <1>7, <1>8, <2>6, <3>2, <4>2, <4>3 DEF SlotsInv
    <3> QED BY <1>4, <3>1, <3>2 DEF SlotsInv
  <2>7. ASSUME flow_cnt'[ZeroKey] = 0 PROVE PartsCover'
    <3>1. ASSUME NEW x \in Keys, x # ZeroKey, LightPos(x) \notin spoiled',
                 NEW j \in Slots, heavy'[HeavyPos(x)][j].key = x
          PROVE  flow_cnt'[x] <= heavy'[HeavyPos(x)][j].cnt
                   + (IF heavy'[HeavyPos(x)][j].flag THEN light'[LightPos(x)] ELSE 0)
      <4> DEFINE m == light[LightPos(x)]  n == light'[LightPos(x)]
                 r == heavy[HeavyPos(x)][j]
      <4>1. m \in Nat /\ n \in Nat /\ m <= n /\ r.cnt \in Nat /\ LightPos(x) \notin spoiled
        BY <1>3, <1>9, <1>10, <2>4, <3>1
      <4>2. CASE HeavyPos(x) = b /\ j = l
        <5>1. heavy'[HeavyPos(x)][j] = e /\ x = k
          BY <1>3, <2>2, <2>5, <3>1, <4>2
        <5>2. flow_cnt[k] <= m
          BY <1>7, <2>1, <2>7, <3>1, <4>1, <5>1 DEF PartsCover, b
        <5> HIDE DEF m, n, r
        <5>3. flow_cnt'[x] <= 1 + n
          BY <1>8, <4>1, <5>1, <5>2
        <5> QED BY <2>2, <5>1, <5>3 DEF n
      <4>3. CASE ~ (HeavyPos(x) = b /\ j = l)
        <5>1. heavy'[HeavyPos(x)][j] = r
          BY <1>3, <2>5, <4>3
        <5>2. x # k
          BY <2>1, <3>1, <5>1 DEF b
        <5>3. flow_cnt[x] <= r.cnt + (IF r.flag THEN m ELSE 0)
          BY <1>7, <2>7, <3>1, <4>1, <5>1 DEF PartsCover
        <5> HIDE DEF m, n, r
        <5>4. flow_cnt'[x] <= r.cnt + (IF r.flag THEN n ELSE 0)
          BY <1>8, <4>1, <5>2, <5>3
        <5> QED BY <5>1, <5>4 DEF n
      <4> QED BY <4>2, <4>3
    <3>2. ASSUME NEW x \in Keys, x # ZeroKey, LightPos(x) \notin spoiled',
                 \A j \in Slots : heavy'[HeavyPos(x)][j].key # x
          PROVE  flow_cnt'[x] <= light'[LightPos(x)]
      <4> DEFINE m == light[LightPos(x)]  n == light'[LightPos(x)]
      <4>1. m \in Nat /\ n \in Nat /\ m <= n /\ LightPos(x) \notin spoiled
        BY <1>3, <1>10, <2>4, <3>2
      <4>2. x # k
        BY <1>3, <2>1, <2>2, <2>5, <3>2 DEF b
      <4>3. CASE HeavyPos(x) = b /\ s.key = x
        <5>1. flow_cnt[x] <= s.cnt + (IF s.flag THEN m ELSE 0)
          BY <1>7, <2>1, <2>7, <3>2, <4>1, <4>3 DEF PartsCover
        <5>2. s.flag = FALSE /\ n = m + s.cnt
          BY <2>4, <3>2, <4>3
        <5> HIDE DEF m, n, s
        <5>3. flow_cnt'[x] <= n
          BY <1>8, <2>3, <4>1, <4>2, <5>1, <5>2
        <5> QED BY <5>3 DEF n
      <4>4. CASE ~ (HeavyPos(x) = b /\ s.key = x)
        <5>1. \A j \in Slots : heavy[HeavyPos(x)][j].key # x
          BY <1>3, <2>1, <2>5, <3>2, <4>4
        <5>2. flow_cnt[x] <= m
          BY <1>7, <2>7, <3>2, <4>1, <5>1 DEF PartsCover
        <5> HIDE DEF m, n
        <5>3. flow_cnt'[x] <= n
          BY <1>8, <4>1, <4>2, <5>2
        <5> QED BY <5>3 DEF n
      <4> QED BY <4>3, <4>4
    <3> QED BY <1>4, <3>1, <3>2 DEF PartsCover
  <2> QED BY <1>6, <2>4, <2>5, <2>6, <2>7
<1> QED BY <1>1, <1>12, <1>14, <1>15, <1>16 DEF ElasticInsert

\* Cleared tables are in order before a stream begins.
LEMMA ClearedElastic ==
  ASSUME ElasticInit(heavy, guard, light, spoiled), flow_cnt = NoCounts, hash \in Hashes
  PROVE  ElasticInv
<1>1. EmptySlot \in Slot /\ EmptySlot.key = ZeroKey
  BY StreamAssumption DEF EmptySlot, Slot
<1>2. /\ heavy = [b \in HeavyBkts |-> [i \in Slots |-> EmptySlot]]
      /\ light = [p \in LightBkts |-> 0] /\ flow_cnt = [x \in Keys |-> 0]
  BY DEF ElasticInit, NoCounts
<1>3. \A x \in Keys : HeavyPos(x) \in HeavyBkts /\ LightPos(x) \in LightBkts
  BY Places
<1> HIDE DEF EmptySlot
<1>4. /\ heavy \in [HeavyBkts -> [Slots -> Slot]] /\ light \in [LightBkts -> Nat]
      /\ \A b \in HeavyBkts : \A i \in Slots : heavy[b][i].key = ZeroKey
      /\ \A x \in Keys : flow_cnt[x] = 0
      /\ \A p \in LightBkts : light[p] = 0
  BY <1>1, <1>2
<1>5. SlotsInv
  BY <1>3, <1>4 DEF SlotsInv
<1>6. PartsCover
  <2>1. 0 \in Slots
    BY ElasticAssumption DEF Slots
  <2> QED BY <1>3, <1>4, <2>1 DEF PartsCover
<1> QED BY <1>4, <1>5, <1>6 DEF ElasticInv

\* The parts cover the true counts whenever Elastic is under test.
LEMMA ElasticAlways == Spec => []ElasticInv
<1>1. Init => ElasticInv
  BY InitBase, ClearedElastic DEF Init, TablesInit, BaseInv
<1>2. BaseInv /\ BaseInv' /\ ElasticInv /\ [Next]_vars => ElasticInv'
  <2> SUFFICES ASSUME BaseInv, BaseInv', ElasticInv, [Next]_vars PROVE ElasticInv'
    OBVIOUS
  <2>1. ASSUME UNCHANGED elasticTables, task # "elastic", task' # "elastic"
        PROVE  ElasticInv'
    BY <2>1 DEF ElasticInv, ElasticInit, elasticTables
  <2>2. ASSUME ElasticInit(heavy', guard', light', spoiled'), flow_cnt' = NoCounts
        PROVE  ElasticInv'
    <3>1. (ElasticInit(heavy, guard, light, spoiled) /\ flow_cnt = NoCounts /\ hash \in Hashes
             => ElasticInv)'
      BY ClearedElastic, PTL
    <3>2. ElasticInit(heavy, guard, light, spoiled)' /\ (flow_cnt = NoCounts)'
          /\ (hash \in Hashes)'
      BY <2>2 DEF ElasticInit, NoCounts, BaseInv, Hashes
    <3> QED BY <3>1, <3>2
  <2>3. CASE SizingStep
    BY <2>1, <2>3 DEF SizingStep, tables
  <2>4. ASSUME NEW t \in SketchNames, StartTest(t) PROVE ElasticInv'
    <3>1. ElasticInit(heavy, guard, light, spoiled) /\ flow_cnt' = NoCounts
      BY <2>4 DEF StartTest, ElasticInv, BaseInv
    <3>2. ElasticInit(heavy', guard', light', spoiled')
      BY <2>4, <3>1 DEF StartTest, tables, elasticTables
    <3> QED BY <2>2, <3>1, <3>2
  <2>5. ASSUME NEW k \in Keys, FeedElastic(k) PROVE ElasticInv'
    BY <2>5, ElasticStep
  <2>6. ASSUME NEW k \in Keys, Feed(k), ~ FeedElastic(k) PROVE ElasticInv'
    BY <2>1, <2>6 DEF Feed, FeedCounters, FeedHashPipe, FeedCoco, FeedPrecision, Feeding
  <2>7. CASE NextRound
    BY <2>2, <2>7 DEF NextRound, TablesReset
  <2>8. CASE UNCHANGED vars
    <3>1. UNCHANGED <<task, hash, flow_cnt, heavy, guard, light, spoiled>>
      BY <2>8 DEF vars, tables, elasticTables
    <3>2. \A x \in Keys : HeavyPos(x)' = HeavyPos(x) /\ LightPos(x)' = LightPos(x)
      BY <3>1 DEF HeavyPos, LightPos
    <3>3. SlotsInv' <=> SlotsInv
      BY <3>1, <3>2 DEF SlotsInv
    <3>4. PartsCover' <=> PartsCover
      BY <3>1, <3>2 DEF PartsCover
    <3> QED BY <3>1, <3>3, <3>4 DEF ElasticInv, ElasticInit
  <2> QED BY <2>3, <2>4, <2>5, <2>6, <2>7, <2>8 DEF Next
<1> QED BY <1>1, <1>2, BaseAlways, PTL DEF Spec

\* An Elastic estimate falls below the truth only where the light part is spoiled,
\* for every shape of the tables, every Lambda and every width of a light counter.
THEOREM ElasticSoundAlways == Spec => []ElasticSound
<1>1. BaseInv /\ ElasticInv => ElasticSound
  <2> SUFFICES ASSUME BaseInv, ElasticInv, task = "elastic", flow_cnt[ZeroKey] = 0,
                      NEW k \in Keys \ {ZeroKey}, LightPos(k) \notin spoiled
               PROVE  elastic_query_freq(k) >= flow_cnt[k]
    BY DEF ElasticSound, ElasticUnderestimatesOnlySpoiled
  <2>1. /\ hash \in Hashes /\ flow_cnt[k] \in Nat /\ PartsCover
        /\ heavy \in [HeavyBkts -> [Slots -> Slot]] /\ light \in [LightBkts -> Nat]
    BY DEF BaseInv, ElasticInv
  <2>2. light[LightPos(k)] \in Nat /\ HeavyPos(k) \in HeavyBkts
    BY <2>1, Places
  <2>3. CASE Carrying(k, k) = {}
    <3>1. \A i \in Slots : heavy[HeavyPos(k)][i].key # k
      BY <2>3 DEF Carrying
    <3>2. flow_cnt[k] <= light[LightPos(k)]
      BY <2>1, <3>1 DEF PartsCover
    <3> QED BY <2>1, <2>2, <2>3, <3>2 DEF elastic_query_freq
  <2>4. CASE Carrying(k, k) # {}
    <3> DEFINE i == First(Carrying(k, k))  s == heavy[HeavyPos(k)][i]
               n == IF s.flag THEN light[LightPos(k)] ELSE 0
    <3>1. Carrying(k, k) \in SUBSET Slots
      BY DEF Carrying
    <3>2. i \in Carrying(k, k)
      BY <2>1, <2>4, <3>1, SlotChoice
    <3>3. i \in Slots /\ s.key = k /\ s.cnt \in Nat
      BY <2>1, <2>2, <3>2 DEF Carrying, Slot
    <3>4. elastic_query_freq(k) = s.cnt + n
      BY <2>4 DEF elastic_query_freq
    <3> HIDE DEF i
    <3>5. flow_cnt[k] <= s.cnt + n
      BY <2>1, <3>3 DEF PartsCover
    <3>6. n \in Nat
      BY <2>2
    <3> HIDE DEF s, n
    <3> QED BY <2>1, <3>3, <3>4, <3>5, <3>6
  <2> QED BY <2>3, <2>4
<1> QED BY <1>1, BaseAlways, ElasticAlways, PTL

HeavyPlaces == HeavyBkts \X Slots

\* What the slot s adds to HeavyCounts(p).
PartFor(s, p) == IF LightPos(s.key) = p THEN s.cnt ELSE 0

\* HeavyCounts(p) for the heavy part t.
HeavyShares(t, p) == [e \in HeavyPlaces |-> PartFor(t[e[1]][e[2]], p)]

LEMMA HeavySum ==
  ASSUME NEW t \in [HeavyBkts -> [Slots -> Slot]], NEW p
  PROVE  /\ \A e \in HeavyPlaces : HeavyShares(t, p)[e] \in Nat
         /\ SumFunction(HeavyShares(t, p)) = SumFunctionOnSet(HeavyShares(t, p), HeavyPlaces)
         /\ SumFunction(HeavyShares(t, p)) \in Nat
<1>1. SumFunction(HeavyShares(t, p)) = SumFunctionOnSet(HeavyShares(t, p), HeavyPlaces)
  BY DEF HeavyShares, SumFunction
<1>2. \A e \in HeavyPlaces : HeavyShares(t, p)[e] \in Nat
  BY DEF HeavyShares, HeavyPlaces, PartFor, Slot
<1>3. SumFunctionOnSet(HeavyShares(t, p), HeavyPlaces) \in Nat
  BY <1>2, FiniteTables, SumOfNat DEF HeavyPlaces
<1> QED BY <1>1, <1>2, <1>3

\* A slot that changes hands.
LEMMA HeavyUpdate ==
  ASSUME NEW t \in [HeavyBkts -> [Slots -> Slot]], NEW u \in [HeavyBkts -> [Slots -> Slot]],
         NEW p, NEW b \in HeavyBkts, NEW i \in Slots,
         \A d \in HeavyBkts : \A j \in Slots : ~ (d = b /\ j = i) => u[d][j] = t[d][j]
  PROVE  SumFunction(HeavyShares(u, p))
           = SumFunction(HeavyShares(t, p)) + (PartFor(u[b][i], p) - PartFor(t[b][i], p))
<1> DEFINE a == <<b, i>>
<1>1. a \in HeavyPlaces /\ a[1] = b /\ a[2] = i
  BY DEF HeavyPlaces
<1>2. \A x \in HeavyPlaces : /\ x[1] \in HeavyBkts /\ x[2] \in Slots
                            /\ (x # a => ~ (x[1] = b /\ x[2] = i))
  BY DEF HeavyPlaces
<1> HIDE DEF a
<1>3. /\ HeavyShares(t, p)[a] = PartFor(t[b][i], p)
      /\ HeavyShares(u, p)[a] = PartFor(u[b][i], p)
  BY <1>1 DEF HeavyShares
<1>4. \A x \in HeavyPlaces : x # a => HeavyShares(t, p)[x] = HeavyShares(u, p)[x]
  BY <1>2 DEF HeavyShares
<1>5. /\ SumFunction(HeavyShares(t, p)) = SumFunctionOnSet(HeavyShares(t, p), HeavyPlaces)
      /\ SumFunction(HeavyShares(u, p)) = SumFunctionOnSet(HeavyShares(u, p), HeavyPlaces)
      /\ \A x \in HeavyPlaces : HeavyShares(t, p)[x] \in Int /\ HeavyShares(u, p)[x] \in Int
  BY HeavySum
<1>6. IsFiniteSet(HeavyPlaces)
  BY FiniteTables DEF HeavyPlaces
<1>7. SumFunctionOnSet(HeavyShares(u, p), HeavyPlaces)
        = SumFunctionOnSet(HeavyShares(t, p), HeavyPlaces)
            + (HeavyShares(u, p)[a] - HeavyShares(t, p)[a])
  BY <1>1, <1>4, <1>5, <1>6, SumUpdate
<1> QED BY <1>3, <1>5, <1>7

\* No light counter grows by more than it is given.
LEMMA LightGrows ==
  ASSUME hash \in Hashes, light \in [LightBkts -> Nat],
         NEW k \in Keys, NEW f \in Nat, NEW is_swap \in BOOLEAN,
         InsertLight(k, f, is_swap), NEW p \in LightBkts
  PROVE  light'[p] <= light[p] + (IF LightPos(k) = p THEN f ELSE 0)
<1> DEFINE q == LightPos(k)
<1>1. q \in LightBkts /\ LightMax \in Nat /\ \A r \in LightBkts : light[r] \in Nat
  BY Places, ElasticAssumption
<1>2. light' = LightAfter(q, f, is_swap)
  BY DEF InsertLight
<1> HIDE DEF q
<1>3. ASSUME NEW n \in Nat PROVE Min({n, LightMax}) \in Nat /\ Min({n, LightMax}) <= n
  <2>1. {n, LightMax} \in SUBSET Nat /\ {n, LightMax} # {}
    BY <1>1
  <2>2. Min({n, LightMax}) \in {n, LightMax} /\ \A y \in {n, LightMax} : Min({n, LightMax}) <= y
    BY <2>1, MinIsLeast
  <2> QED BY <1>1, <2>2
<1>4. CASE p # q
  <2>1. light'[p] = light[p]
    BY <1>2, <1>4 DEF LightAfter
  <2> QED BY <1>1, <1>4, <2>1 DEF q
<1>5. CASE p = q
  <2>1. light[q] + f \in Nat
    BY <1>1
  <2>2. light'[q] \in {Min({light[q] + f, LightMax}), Min({f, LightMax}), light[q]}
    BY <1>1, <1>2 DEF LightAfter
  <2>3. light'[q] <= light[q] + f
    BY <1>1, <1>3, <2>1, <2>2
  <2> QED BY <1>5, <2>3 DEF q
<1> QED BY <1>4, <1>5

\* Whichever way an insertion ends, it adds at most one, and that to the key inserted.
LEMMA InventsNothingStep ==
  ASSUME BaseInv, ElasticInv, ElasticNeverInvents, NEW k \in Keys, FeedElastic(k)
  PROVE  ElasticNeverInvents'
<1> DEFINE b == HeavyPos(k)
<1>1. /\ hash' = hash /\ ElasticInsert(k) /\ flow_cnt' = [flow_cnt EXCEPT ![k] = @ + 1]
      /\ hash \in Hashes /\ flow_cnt \in [Keys -> Nat]
      /\ heavy \in [HeavyBkts -> [Slots -> Slot]] /\ light \in [LightBkts -> Nat]
  BY DEF FeedElastic, Feeding, BaseInv, ElasticInv
<1>2. /\ heavy' \in [HeavyBkts -> [Slots -> Slot]] /\ light' \in [LightBkts -> Nat]
  BY ElasticStep DEF ElasticInv
<1>3. b \in HeavyBkts /\ \A x \in Keys : LightPos(x) \in LightBkts
  BY <1>1, Places
<1>4. \A S \in SUBSET Slots : S # {} => First(S) \in S
  BY <1>1, SlotChoice
<1>5. \A x : LightPos(x)' = LightPos(x)
  BY <1>1 DEF LightPos
<1>6. \A d \in HeavyBkts : \A i \in Slots :
        heavy[d][i] \in Slot /\ heavy[d][i].key \in Keys /\ heavy[d][i].cnt \in Nat
        /\ heavy[d][i].flag \in BOOLEAN
  BY <1>1 DEF Slot
<1>7. /\ \A i \in Slots : i \in Carrying(k, k) <=> heavy[b][i].key = k
      /\ Carrying(k, k) \in SUBSET Slots /\ Carrying(k, ZeroKey) \in SUBSET Slots
  BY DEF Carrying
<1>b. b = HeavyPos(k)
  OBVIOUS
<1> HIDE DEF b
<1>8. ASSUME NEW p \in LightBkts
      PROVE  light'[p] + SumFunction(HeavyCounts(p)') <= SumFunction(TrueCounts(p)')
  <2> DEFINE d == IF LightPos(k) = p THEN 1 ELSE 0
             S == SumFunction(HeavyShares(heavy, p))  U == SumFunction(HeavyShares(heavy', p))
             L == light[p]  M == light'[p]
             F == SumFunction(TrueCounts(p))  G == SumFunction(TrueCounts(p)')
  <2>1. S \in Nat /\ U \in Nat /\ L \in Nat /\ M \in Nat /\ d \in Nat
    BY <1>1, <1>2, HeavySum
  <2>2. SumFunction(HeavyCounts(p)) = S
    BY DEF HeavyCounts, HeavyShares, HeavyPlaces, PartFor
  <2>3. SumFunction(HeavyCounts(p)') = U
    BY <1>5 DEF HeavyCounts, HeavyShares, HeavyPlaces, PartFor
  <2>4. L + S <= F
    BY <2>2 DEF ElasticNeverInvents
  <2>5. F \in Nat /\ G = F + d
    <3> DEFINE f == TrueCounts(p)  g == TrueCounts(p)'
    <3>1. f = [x \in Keys |-> IF LightPos(x) = p THEN flow_cnt[x] ELSE 0]
      BY DEF TrueCounts
    <3>2. g = [x \in Keys |-> IF LightPos(x) = p THEN flow_cnt'[x] ELSE 0]
      BY <1>5 DEF TrueCounts
    <3> HIDE DEF f, g
    <3>3. /\ \A x \in Keys : f[x] \in Nat /\ f[x] \in Int /\ g[x] \in Int
          /\ \A x \in Keys : x # k => f[x] = g[x]
          /\ g[k] = f[k] + d
      BY <1>1, <3>1, <3>2
    <3>4. F = SumFunctionOnSet(f, Keys) /\ G = SumFunctionOnSet(g, Keys)
      BY <3>1, <3>2 DEF f, g, SumFunction
    <3>5. SumFunctionOnSet(f, Keys) \in Nat
      BY <3>3, FiniteTables, SumOfNat
    <3>6. SumFunctionOnSet(g, Keys) = SumFunctionOnSet(f, Keys) + (g[k] - f[k])
      BY <3>3, FiniteTables, SumUpdate
    <3> HIDE DEF F, G, d
    <3> QED BY <2>1, <3>3, <3>4, <3>5, <3>6
  <2>6. M + U <= L + S + d
    <3>1. CASE InsertMatched(k)
      <4> DEFINE i == First(Carrying(k, k))  s == heavy[b][i]  e == [s EXCEPT !.cnt = @ + 1]
      <4>1. i \in Slots /\ s.key = k /\ s \in Slot /\ s.cnt \in Nat
        BY <1>3, <1>4, <1>6, <1>7, <3>1 DEF InsertMatched
      <4>2. e \in Slot /\ e.key = k /\ e.cnt = s.cnt + 1
        BY <4>1 DEF Slot
      <4>3. heavy' = [heavy EXCEPT ![b][i] = e] /\ light' = light
        BY <1>1, <1>3, <1>b, <3>1, <4>1 DEF InsertMatched
      <4> HIDE DEF e, i
      <4>4. U = S + (PartFor(e, p) - PartFor(s, p))
        <5>1. /\ heavy'[b][i] = e
              /\ \A c \in HeavyBkts : \A j \in Slots :
                   ~ (c = b /\ j = i) => heavy'[c][j] = heavy[c][j]
          BY <1>1, <1>3, <4>1, <4>3
        <5>2. U = S + (PartFor(heavy'[b][i], p) - PartFor(heavy[b][i], p))
          BY <1>1, <1>2, <1>3, <4>1, <5>1, HeavyUpdate
        <5> QED BY <5>1, <5>2
      <4>5. M = L
        BY <4>3
      <4> HIDE DEF s, S, U, L, M
      <4> QED BY <2>1, <4>1, <4>2, <4>4, <4>5 DEF PartFor
    <3>2. CASE InsertEmpty(k)
      <4> DEFINE i == First(Carrying(k, ZeroKey))  s == heavy[b][i]
                 e == [key |-> k, cnt |-> 1, flag |-> FALSE]
      <4>1. i \in Slots /\ s \in Slot /\ s.cnt \in Nat
        BY <1>3, <1>4, <1>6, <1>7, <3>2 DEF InsertEmpty
      <4>2. e \in Slot /\ e.key = k /\ e.cnt = 1
        BY DEF Slot
      <4>3. heavy' = [heavy EXCEPT ![b][i] = e] /\ light' = light
        BY <1>b, <3>2 DEF InsertEmpty
      <4> HIDE DEF e, i
      <4>4. U = S + (PartFor(e, p) - PartFor(s, p))
        <5>1. /\ heavy'[b][i] = e
              /\ \A c \in HeavyBkts : \A j \in Slots :
                   ~ (c = b /\ j = i) => heavy'[c][j] = heavy[c][j]
          BY <1>1, <1>3, <4>1, <4>3
        <5>2. U = S + (PartFor(heavy'[b][i], p) - PartFor(heavy[b][i], p))
          BY <1>1, <1>2, <1>3, <4>1, <5>1, HeavyUpdate
        <5> QED BY <5>1, <5>2
      <4>5. M = L
        BY <4>3
      <4> HIDE DEF s, S, U, L, M
      <4> QED BY <2>1, <4>1, <4>2, <4>4, <4>5 DEF PartFor
    <3>3. CASE InsertVote(k)
      <4>1. heavy' = heavy /\ InsertLight(k, 1, FALSE)
        BY <3>3 DEF InsertVote
      <4>2. M <= L + d
        BY <1>1, <4>1, LightGrows
      <4>3. U = S
        BY <4>1
      <4> HIDE DEF S, U, L, M, d
      <4> QED BY <2>1, <4>2, <4>3
    <3>4. CASE InsertSwap(k)
      <4> DEFINE i == LeastSlot(k)  s == heavy[b][i]  e == Taken(k)
      <4>1. i \in Slots /\ s \in Slot /\ s.cnt \in Nat /\ s.key \in Keys /\ s.flag \in BOOLEAN
        BY <1>1, <1>3, <1>6, SlotChoice
      <4>2. e \in Slot /\ e.key = k /\ e.cnt = 1
        BY DEF Taken, Slot
      <4>3. heavy' = [heavy EXCEPT ![b][i] = e] /\ InsertLight(s.key, s.cnt, s.flag)
        BY <1>b, <3>4 DEF InsertSwap
      <4> HIDE DEF e, i
      <4>4. U = S + (PartFor(e, p) - PartFor(s, p))
        <5>1. /\ heavy'[b][i] = e
              /\ \A c \in HeavyBkts : \A j \in Slots :
                   ~ (c = b /\ j = i) => heavy'[c][j] = heavy[c][j]
          BY <1>1, <1>3, <4>1, <4>3
        <5>2. U = S + (PartFor(heavy'[b][i], p) - PartFor(heavy[b][i], p))
          BY <1>1, <1>2, <1>3, <4>1, <5>1, HeavyUpdate
        <5> QED BY <5>1, <5>2
      <4> HIDE DEF s
      <4>5. M <= L + (IF LightPos(s.key) = p THEN s.cnt ELSE 0)
        BY <1>1, <4>1, <4>3, LightGrows
      <4> HIDE DEF S, U, L, M
      <4> QED BY <2>1, <4>1, <4>2, <4>4, <4>5 DEF PartFor
    <3> QED BY <1>1, <3>1, <3>2, <3>3, <3>4 DEF ElasticInsert
  <2> HIDE DEF S, U, L, F, G, d
  <2>7. M + U <= G
    BY <2>1, <2>4, <2>5, <2>6
  <2> QED BY <2>3, <2>7 DEF G
<1> QED BY <1>8 DEF ElasticNeverInvents

\* Cleared tables count nothing, whatever was inserted elsewhere.
LEMMA ClearedInventsNothing ==
  ASSUME ElasticInit(heavy, guard, light, spoiled), flow_cnt \in [Keys -> Nat]
  PROVE  ElasticNeverInvents
<1> SUFFICES ASSUME NEW p \in LightBkts
             PROVE  light[p] + SumFunction(HeavyCounts(p)) <= SumFunction(TrueCounts(p))
  BY DEF ElasticNeverInvents
<1>1. light[p] = 0
  BY DEF ElasticInit
<1>2. SumFunction(HeavyCounts(p)) = SumFunctionOnSet(HeavyCounts(p), HeavyPlaces)
      /\ SumFunction(TrueCounts(p)) = SumFunctionOnSet(TrueCounts(p), Keys)
  BY DEF HeavyCounts, TrueCounts, SumFunction, HeavyPlaces
<1>3. \A e \in HeavyPlaces : HeavyCounts(p)[e] = 0
  BY DEF HeavyCounts, HeavyPlaces, ElasticInit, EmptySlot
<1>4. SumFunctionOnSet(HeavyCounts(p), HeavyPlaces) = 0
  BY <1>3, FiniteTables, SumOfNat DEF HeavyPlaces
<1>5. \A k \in Keys : TrueCounts(p)[k] \in Nat
  BY DEF TrueCounts
<1>6. SumFunctionOnSet(TrueCounts(p), Keys) \in Nat
  BY <1>5, FiniteTables, SumOfNat
<1> QED BY <1>1, <1>2, <1>4, <1>6

\* Elastic invents nothing: no light counter, with the heavy counters of the keys that
\* share it, exceeds what was inserted of these keys, for every shape of the tables,
\* every Lambda and every width of a light counter.
THEOREM ElasticNeverInventsAlways == Spec => []ElasticNeverInvents
<1>1. Init => ElasticNeverInvents
  <2> SUFFICES ASSUME Init PROVE ElasticNeverInvents
    OBVIOUS
  <2>1. flow_cnt \in [Keys -> Nat] /\ ElasticInit(heavy, guard, light, spoiled)
    BY InitBase DEF Init, TablesInit, BaseInv
  <2> QED BY <2>1, ClearedInventsNothing
<1>2. BaseInv /\ BaseInv' /\ ElasticInv /\ ElasticInv' /\ ElasticNeverInvents /\ [Next]_vars
        => ElasticNeverInvents'
  <2> SUFFICES ASSUME BaseInv, BaseInv', ElasticInv, ElasticInv', ElasticNeverInvents,
                      [Next]_vars
               PROVE  ElasticNeverInvents'
    OBVIOUS
  <2>1. ASSUME ElasticInit(heavy, guard, light, spoiled)' PROVE ElasticNeverInvents'
    <3>1. (ElasticInit(heavy, guard, light, spoiled) /\ flow_cnt \in [Keys -> Nat]
             => ElasticNeverInvents)'
      BY ClearedInventsNothing, PTL
    <3>2. (flow_cnt \in [Keys -> Nat])'
      BY DEF BaseInv
    <3> QED BY <2>1, <3>1, <3>2
  <2>2. CASE task' # "elastic"
    BY <2>1, <2>2 DEF ElasticInv
  <2>3. CASE SizingStep
    BY <2>2, <2>3 DEF SizingStep
  <2>4. ASSUME NEW t \in SketchNames, StartTest(t) PROVE ElasticNeverInvents'
    <3>1. ElasticInit(heavy, guard, light, spoiled) /\ UNCHANGED elasticTables
      BY <2>4 DEF StartTest, tables, ElasticInv
    <3> QED BY <2>1, <3>1 DEF elasticTables, ElasticInit
  <2>5. ASSUME NEW k \in Keys, FeedElastic(k) PROVE ElasticNeverInvents'
    BY <2>5, InventsNothingStep
  <2>6. ASSUME NEW k \in Keys, Feed(k), ~ FeedElastic(k) PROVE ElasticNeverInvents'
    BY <2>2, <2>6 DEF Feed, FeedCounters, FeedHashPipe, FeedCoco, FeedPrecision, Feeding
  <2>7. CASE NextRound
    BY <2>2, <2>7 DEF NextRound
  <2>8. CASE UNCHANGED vars
    BY <2>8 DEF vars, tables, elasticTables, ElasticNeverInvents, HeavyCounts, TrueCounts,
                LightPos
  <2> QED BY <2>3, <2>4, <2>5, <2>6, <2>7, <2>8 DEF Next
<1> QED BY <1>1, <1>2, BaseAlways, ElasticAlways, PTL DEF Spec
-----------------------------------------------------------------------------
(* HashPipe.                                                               *)

PipeEntries == [fp : Keys, cnt : Nat]
PipeTable == [RowIds -> [Cols -> PipeEntries]]

\* While HashPipe is under test, what its stages hold of a key and what fell out of
\* the pipe add up to its insertions.
PipeInv ==
  /\ pipe \in PipeTable /\ fallen \in [Keys -> Nat]
  /\ task = "construct" => PipeInit(pipe, fallen)
  /\ task = "hashpipe" => \A k \in Keys : local_ans(k) + fallen[k] = flow_cnt[k]

\* A stage passes on what it does not store.
LEMMA MeetKeeps ==
  ASSUME NEW j, NEW s \in PipeEntries, NEW c \in PipeEntries
  PROVE  /\ Meet(j, s, c).stored \in PipeEntries /\ Meet(j, s, c).carried \in PipeEntries
         /\ \A k \in Keys :
              CountOf(Meet(j, s, c).stored, k) + CountOf(Meet(j, s, c).carried, k)
                = CountOf(s, k) + CountOf(c, k)
<1>1. CASE s.fp = c.fp /\ c.cnt > 0
  <2> DEFINE m == [s EXCEPT !.cnt = @ + c.cnt]
  <2>1. Meet(j, s, c).stored = m /\ Meet(j, s, c).carried = Nothing
    BY <1>1 DEF Meet, Passing
  <2>2. m \in PipeEntries /\ m.fp = s.fp /\ m.cnt = s.cnt + c.cnt
    BY DEF PipeEntries
  <2>3. Nothing \in PipeEntries /\ Nothing.cnt = 0
    BY StreamAssumption DEF Nothing, PipeEntry, PipeEntries
  <2>4. s.cnt \in Nat /\ c.cnt \in Nat
    BY DEF PipeEntries
  <2> HIDE DEF m
  <2> QED BY <1>1, <2>1, <2>2, <2>3, <2>4 DEF CountOf
<1>2. CASE ~ (s.fp = c.fp /\ c.cnt > 0)
  <2>1. \/ Meet(j, s, c) = Passing(c, s)
        \/ Meet(j, s, c) = Passing(s, c)
    BY <1>2 DEF Meet
  <2>2. s.cnt \in Nat /\ c.cnt \in Nat
    BY DEF PipeEntries
  <2> QED BY <2>1, <2>2 DEF Passing, CountOf
<1> QED BY <1>1, <1>2

\* What goes into stage j, given what goes into the others.
Into(v, f, j) ==
  IF j = 0 THEN PipeEntry(v, 1) ELSE Meet(j - 1, Stored(v, j - 1), f[j - 1]).carried

\* The walk through the stages is well defined.
LEMMA WalkExists ==
  ASSUME NEW v PROVE \E f : f = [j \in 0 .. num_hash |-> Into(v, f, j)]
<1> DEFINE T == {i \in 0 .. num_hash : \E f : \A j \in 0 .. i : f[j] = Into(v, f, j)}
<1>1. num_hash \in Nat
  BY StreamAssumption
<1>2. 0 \in T
  <2> DEFINE f == [j \in {0} |-> PipeEntry(v, 1)]
  <2>1. \A j \in 0 .. 0 : f[j] = Into(v, f, j)
    BY DEF Into
  <2> HIDE DEF f
  <2> QED BY <1>1, <2>1
<1>3. ASSUME NEW i \in 0 .. num_hash - 1, i \in T PROVE i + 1 \in T
  <2>1. PICK f : \A j \in 0 .. i : f[j] = Into(v, f, j)
    BY <1>3
  <2> DEFINE g == [j \in 0 .. i + 1 |-> IF j = i + 1 THEN Into(v, f, i + 1) ELSE f[j]]
  <2>2. ASSUME NEW j \in 0 .. i + 1 PROVE g[j] = Into(v, g, j)
    <3>1. j # 0 => g[j - 1] = f[j - 1]
      <4>1. j # 0 => j - 1 \in 0 .. i + 1 /\ j - 1 # i + 1
        BY <1>1
      <4> QED BY <4>1
    <3>2. g[j] = Into(v, f, j)
      BY <2>1
    <3> HIDE DEF g
    <3> QED BY <3>1, <3>2 DEF Into
  <2>3. i + 1 \in 0 .. num_hash
    BY <1>1
  <2> HIDE DEF g
  <2> QED BY <2>2, <2>3
<1>4. num_hash \in T
  <2> HIDE DEF T
  <2>1. 0 .. num_hash \subseteq T
    BY <1>1, <1>2, <1>3, UpwardInduction
  <2> QED BY <1>1, <2>1
<1>5. PICK f : \A j \in 0 .. num_hash : f[j] = Into(v, f, j)
  BY <1>4
<1> DEFINE g == [j \in 0 .. num_hash |-> f[j]]
<1>6. ASSUME NEW j \in 0 .. num_hash PROVE g[j] = Into(v, g, j)
  <2>1. j # 0 => g[j - 1] = f[j - 1]
    <3>1. j # 0 => j - 1 \in 0 .. num_hash
      BY <1>1
    <3> QED BY <3>1
  <2>2. g[j] = Into(v, f, j)
    BY <1>5
  <2> HIDE DEF g
  <2> QED BY <2>1, <2>2 DEF Into
<1>7. g = [j \in 0 .. num_hash |-> Into(v, g, j)]
  <2>1. g = [j \in 0 .. num_hash |-> g[j]]
    OBVIOUS
  <2> HIDE DEF g
  <2> QED BY <1>6, <2>1
<1> QED BY <1>7

\* What insert(v) carries into its stages.
LEMMA Walk ==
  ASSUME hash \in Hashes, pipe \in PipeTable, NEW v \in Keys
  PROVE  /\ \A j \in 0 .. num_hash : /\ Carried(v)[j] \in PipeEntries
                                     /\ Carried(v)[j] = Into(v, Carried(v), j)
         /\ \A j \in RowIds : Stored(v, j) \in PipeEntries
<1>1. \A j \in RowIds : Stored(v, j) \in PipeEntries
  BY Places DEF Stored, PipeTable
<1>2. Carried(v) = CHOOSE f : f = [j \in 0 .. num_hash |-> Into(v, f, j)]
  BY DEF Carried, Into
<1> DEFINE into == Carried(v)
           T == {i \in 0 .. num_hash : into[i] \in PipeEntries}
<1>3. into = [j \in 0 .. num_hash |-> Into(v, into, j)]
  BY <1>2, WalkExists
<1> HIDE DEF into
<1>4. \A j \in 0 .. num_hash : into[j] = Into(v, into, j)
  <2> DEFINE I(j) == Into(v, into, j)
  <2>1. into = [j \in 0 .. num_hash |-> I(j)]
    BY <1>3
  <2> HIDE DEF I
  <2>2. \A j \in 0 .. num_hash : into[j] = I(j)
    BY <2>1
  <2> QED BY <2>2 DEF I
<1>5. num_hash \in Nat
  BY StreamAssumption
<1>6. 0 \in T
  BY <1>4, <1>5 DEF Into, PipeEntry, PipeEntries
<1>7. ASSUME NEW i \in 0 .. num_hash - 1, i \in T PROVE i + 1 \in T
  <2>1. i + 1 \in 0 .. num_hash /\ i \in RowIds /\ (i + 1) - 1 = i /\ i + 1 # 0
    BY <1>5 DEF RowIds
  <2>2. into[i + 1] = Meet(i, Stored(v, i), into[i]).carried
    BY <1>4, <2>1 DEF Into
  <2>3. into[i] \in PipeEntries
    BY <1>7
  <2> QED BY <1>1, <2>1, <2>2, <2>3, MeetKeeps
<1>8. 0 .. num_hash \subseteq T
  <2> HIDE DEF T
  <2> QED BY <1>5, <1>6, <1>7, UpwardInduction
<1> QED BY <1>1, <1>4, <1>8 DEF into

\* What the entries of a table count of a key.
Shares(t, k) == [e \in TablePlaces |-> CountOf(t[e[1]][e[2]], k)]

LEMMA SharesSum ==
  ASSUME NEW t \in PipeTable, NEW k
  PROVE  /\ \A e \in TablePlaces : Shares(t, k)[e] \in Nat
         /\ SumFunction(Shares(t, k)) = SumFunctionOnSet(Shares(t, k), TablePlaces)
         /\ SumFunction(Shares(t, k)) \in Nat
<1>1. SumFunction(Shares(t, k)) = SumFunctionOnSet(Shares(t, k), TablePlaces)
  BY DEF Shares, SumFunction
<1>2. \A e \in TablePlaces : Shares(t, k)[e] \in Nat
  BY DEF Shares, TablePlaces, PipeTable, PipeEntries, CountOf
<1>3. SumFunctionOnSet(Shares(t, k), TablePlaces) \in Nat
  BY <1>2, FiniteTables, SumOfNat
<1> QED BY <1>1, <1>2, <1>3

\* The first i stages behind an insertion of v, and the others before it.
Half(v, i) ==
  [j \in RowIds |->
     IF j < i THEN [pipe[j] EXCEPT ![Col(j, v)] = Meet(j, @, Carried(v)[j]).stored] ELSE pipe[j]]

\* Stage by stage, what is stored and what is carried on add up.
LEMMA HalfKeeps ==
  ASSUME hash \in Hashes, pipe \in PipeTable, NEW v \in Keys, NEW k \in Keys
  PROVE  /\ Half(v, num_hash) \in PipeTable
         /\ SumFunction(Shares(Half(v, num_hash), k)) + CountOf(Carried(v)[num_hash], k)
              = SumFunction(Shares(pipe, k)) + (IF k = v THEN 1 ELSE 0)
<1> DEFINE into == Carried(v)
           P(i) == /\ Half(v, i) \in PipeTable
                   /\ SumFunction(Shares(Half(v, i), k)) + CountOf(into[i], k)
                        = SumFunction(Shares(pipe, k)) + (IF k = v THEN 1 ELSE 0)
           T == {i \in 0 .. num_hash : P(i)}
<1>1. /\ num_hash \in Nat
      /\ \A j \in 0 .. num_hash : into[j] \in PipeEntries /\ into[j] = Into(v, into, j)
      /\ \A j \in RowIds : Stored(v, j) \in PipeEntries
  BY StreamAssumption, Walk
<1> HIDE DEF into
<1>2. 0 \in T
  <2>1. \A j \in RowIds : ~ (j < 0)
    BY DEF RowIds
  <2>2. Half(v, 0) = pipe
    BY <2>1 DEF Half, PipeTable
  <2>3. into[0] = PipeEntry(v, 1)
    BY <1>1 DEF Into
  <2>4. CountOf(into[0], k) = IF k = v THEN 1 ELSE 0
    BY <2>3 DEF CountOf, PipeEntry
  <2> QED BY <1>1, <2>2, <2>4
<1>3. ASSUME NEW i \in 0 .. num_hash - 1, i \in T PROVE i + 1 \in T
  <2> DEFINE c == Col(i, v)  m == Meet(i, Stored(v, i), into[i])  a == <<i, c>>
             h == Half(v, i)  g == Half(v, i + 1)
  <2>1. i \in RowIds /\ i + 1 \in 0 .. num_hash /\ i \in 0 .. num_hash /\ c \in Cols
        /\ \A j \in RowIds : j < i + 1 <=> j < i \/ j = i
    BY <1>1, Places DEF RowIds
  <2>2. h \in PipeTable /\ P(i)
    BY <1>3
  <2>3. into[i + 1] = m.carried
    <3>1. (i + 1) - 1 = i /\ i + 1 # 0
      BY <2>1
    <3> QED BY <1>1, <2>1, <3>1 DEF Into
  <2>4. /\ m.stored \in PipeEntries
        /\ CountOf(m.stored, k) + CountOf(m.carried, k)
             = CountOf(Stored(v, i), k) + CountOf(into[i], k)
    BY <1>1, <2>1, MeetKeeps
  <2>5. h[i] = pipe[i] /\ g[i] = [pipe[i] EXCEPT ![c] = m.stored]
        /\ \A j \in RowIds : j # i => g[j] = h[j]
    BY <2>1 DEF Half, Stored, into
  <2>6. pipe[i] \in [Cols -> PipeEntries] /\ Stored(v, i) = pipe[i][c]
    BY <2>1 DEF PipeTable, Stored
  <2>g. g = [j \in RowIds |-> g[j]] /\ h = [j \in RowIds |-> h[j]]
    BY DEF Half
  <2> HIDE DEF c, m, h, g
  <2>7. g \in PipeTable
    <3>1. \A j \in RowIds : g[j] \in [Cols -> PipeEntries]
      BY <2>1, <2>2, <2>4, <2>5, <2>6 DEF PipeTable
    <3> QED BY <2>g, <3>1 DEF PipeTable
  <2>8. a \in TablePlaces /\ a[1] = i /\ a[2] = c
        /\ \A e \in TablePlaces : /\ e[1] \in RowIds /\ e[2] \in Cols
                                  /\ (e # a => e[1] # i \/ e[2] # c)
    BY <2>1 DEF TablePlaces
  <2> HIDE DEF a
  <2>9. ASSUME NEW e \in TablePlaces, e # a PROVE Shares(h, k)[e] = Shares(g, k)[e]
    <3>1. CASE e[1] = i
      <4>1. e[2] \in Cols /\ e[2] # c
        BY <2>8, <2>9, <3>1
      <4>2. g[i][e[2]] = pipe[i][e[2]]
        BY <2>5, <2>6, <4>1
      <4>3. g[e[1]][e[2]] = h[e[1]][e[2]]
        BY <2>5, <3>1, <4>2
      <4> QED BY <4>3 DEF Shares
    <3>2. CASE e[1] # i
      <4>1. g[e[1]][e[2]] = h[e[1]][e[2]]
        BY <2>5, <2>8, <3>2
      <4> QED BY <4>1 DEF Shares
    <3> QED BY <3>1, <3>2
  <2>10. /\ Shares(h, k)[a] = CountOf(Stored(v, i), k)
         /\ Shares(g, k)[a] = CountOf(m.stored, k)
    BY <2>1, <2>5, <2>6, <2>8 DEF Shares
  <2>11. /\ SumFunction(Shares(h, k)) = SumFunctionOnSet(Shares(h, k), TablePlaces)
         /\ SumFunction(Shares(g, k)) = SumFunctionOnSet(Shares(g, k), TablePlaces)
         /\ SumFunction(Shares(h, k)) \in Nat
         /\ \A e \in TablePlaces : Shares(h, k)[e] \in Int /\ Shares(g, k)[e] \in Int
    BY <2>2, <2>7, SharesSum
  <2>12. SumFunctionOnSet(Shares(g, k), TablePlaces)
           = SumFunctionOnSet(Shares(h, k), TablePlaces) + (Shares(g, k)[a] - Shares(h, k)[a])
    BY <2>8, <2>9, <2>11, FiniteTables, SumUpdate
  <2>13. /\ CountOf(m.stored, k) \in Nat /\ CountOf(Stored(v, i), k) \in Nat
         /\ CountOf(into[i], k) \in Nat /\ CountOf(into[i + 1], k) \in Nat
    BY <1>1, <2>1, <2>4 DEF CountOf, PipeEntries
  <2>14. SumFunction(Shares(g, k)) + CountOf(into[i + 1], k)
           = SumFunction(Shares(h, k)) + CountOf(into[i], k)
    BY <2>3, <2>4, <2>10, <2>11, <2>12, <2>13
  <2> QED BY <2>1, <2>2, <2>7, <2>14 DEF g, h
<1>4. num_hash \in T
  <2> HIDE DEF T
  <2>1. 0 .. num_hash \subseteq T
    BY <1>1, <1>2, <1>3, UpwardInduction
  <2> QED BY <1>1, <2>1
<1> QED BY <1>4 DEF into

\* An insertion is counted in a stage or falls out of the pipe.
LEMMA PipeStep ==
  ASSUME BaseInv, PipeInv, NEW v \in Keys, FeedHashPipe(v)
  PROVE  PipeInv'
<1>1. /\ task = "hashpipe" /\ task' = "hashpipe"
      /\ flow_cnt' = [flow_cnt EXCEPT ![v] = @ + 1] /\ PipeInsert(v)
  BY DEF FeedHashPipe, Feeding
<1>2. /\ hash \in Hashes /\ flow_cnt \in [Keys -> Nat] /\ pipe \in PipeTable
      /\ fallen \in [Keys -> Nat] /\ num_hash \in Nat \ {0}
  BY StreamAssumption DEF BaseInv, PipeInv
<1> DEFINE lost == Carried(v)[num_hash]
<1>3. lost \in PipeEntries
  BY <1>2, Walk
<1>4. pipe' = Half(v, num_hash)
  <2>1. \A j \in RowIds : j < num_hash
    BY <1>2 DEF RowIds
  <2> QED BY <1>1, <2>1 DEF PipeInsert, Half
<1>5. fallen' = [fallen EXCEPT ![lost.fp] = @ + lost.cnt]
  BY <1>1 DEF PipeInsert
<1> HIDE DEF lost
<1>6. /\ fallen' \in [Keys -> Nat]
      /\ \A k \in Keys : fallen'[k] = fallen[k] + CountOf(lost, k)
  BY <1>2, <1>3, <1>5 DEF PipeEntries, CountOf
<1>7. ASSUME NEW k \in Keys
      PROVE  pipe' \in PipeTable /\ local_ans(k)' + fallen'[k] = flow_cnt'[k]
  <2>1. /\ pipe' \in PipeTable
        /\ SumFunction(Shares(pipe', k)) + CountOf(lost, k)
             = SumFunction(Shares(pipe, k)) + (IF k = v THEN 1 ELSE 0)
    BY <1>2, <1>4, HalfKeeps DEF lost
  <2>2. local_ans(k) = SumFunction(Shares(pipe, k))
        /\ local_ans(k)' = SumFunction(Shares(pipe', k))
    BY DEF local_ans, Shares, TablePlaces
  <2>3. SumFunction(Shares(pipe, k)) \in Nat /\ SumFunction(Shares(pipe', k)) \in Nat
        /\ CountOf(lost, k) \in Nat
    BY <1>2, <1>3, <2>1, SharesSum DEF CountOf, PipeEntries
  <2>4. local_ans(k) + fallen[k] = flow_cnt[k]
    BY <1>1 DEF PipeInv
  <2>5. flow_cnt'[k] = flow_cnt[k] + (IF k = v THEN 1 ELSE 0) /\ flow_cnt[k] \in Nat
        /\ fallen[k] \in Nat
    BY <1>1, <1>2
  <2> QED BY <1>6, <2>1, <2>2, <2>3, <2>4, <2>5
<1>8. pipe' \in PipeTable
  BY <1>7, StreamAssumption
<1> QED BY <1>1, <1>6, <1>7, <1>8 DEF PipeInv

\* Cleared stages hold nothing.
LEMMA ClearedPipe ==
  ASSUME PipeInit(pipe, fallen), flow_cnt = NoCounts
  PROVE  PipeInv
<1>1. Nothing \in PipeEntries /\ Nothing.cnt = 0
  BY StreamAssumption DEF Nothing, PipeEntry, PipeEntries
<1>2. /\ pipe = [j \in RowIds |-> [c \in Cols |-> Nothing]]
      /\ fallen = [k \in Keys |-> 0] /\ flow_cnt = [k \in Keys |-> 0]
  BY DEF PipeInit, NoCounts
<1>3. pipe \in PipeTable /\ fallen \in [Keys -> Nat]
  BY <1>1, <1>2 DEF PipeTable
<1>4. ASSUME NEW k \in Keys PROVE local_ans(k) + fallen[k] = flow_cnt[k]
  <2>1. \A e \in TablePlaces : Shares(pipe, k)[e] = 0
    BY <1>1, <1>2 DEF Shares, TablePlaces, CountOf
  <2>2. SumFunctionOnSet(Shares(pipe, k), TablePlaces) = 0
    BY <2>1, FiniteTables, SumOfNat
  <2>3. local_ans(k) = 0
    BY <1>3, <2>2, SharesSum DEF local_ans, Shares, TablePlaces
  <2> QED BY <1>2, <2>3
<1> QED BY <1>3, <1>4 DEF PipeInv

\* The columns of a key are some of the places where it may stand.
LEMMA QueryWithin ==
  ASSUME hash \in Hashes, pipe \in PipeTable, NEW k \in Keys
  PROVE  pipe_query_freq(k) <= local_ans(k)
<1> DEFINE f == [j \in RowIds |-> CountOf(Stored(k, j), k)]
           m == [j \in RowIds |-> <<j, Col(j, k)>>]
<1>1. pipe_query_freq(k) = SumFunctionOnSet(f, RowIds)
  BY DEF pipe_query_freq, SumFunction
<1>2. local_ans(k) = SumFunctionOnSet(Shares(pipe, k), TablePlaces)
  BY SharesSum DEF local_ans, Shares, TablePlaces
<1>3. \A j \in RowIds : /\ m[j] \in TablePlaces /\ f[j] = Shares(pipe, k)[m[j]]
                        /\ m[j][1] = j
  BY Places DEF TablePlaces, Shares, Stored
<1>4. \A e \in TablePlaces : Shares(pipe, k)[e] \in Nat
  BY SharesSum
<1> HIDE DEF f, m
<1>5. /\ \A j \in RowIds : f[j] \in Nat
      /\ \A j \in RowIds : f[j] # 0 => m[j] \in TablePlaces /\ f[j] <= Shares(pipe, k)[m[j]]
      /\ \A i, j \in RowIds : f[i] # 0 /\ f[j] # 0 /\ m[i] = m[j] => i = j
  BY <1>3, <1>4
<1> QED BY <1>1, <1>2, <1>4, <1>5, FiniteTables, SumInjection

\* HashPipe loses exactly what is carried out of its last stage, for every number of
\* stages, any hash functions and any stream: query_heavyhitter answers what was not
\* lost, and query_freq no more.
THEOREM PipeSoundAlways == Spec => []PipeSound
<1>1. Init => PipeInv
  BY ClearedPipe DEF Init, TablesInit
<1>2. BaseInv /\ PipeInv /\ [Next]_vars => PipeInv'
  <2> SUFFICES ASSUME BaseInv, PipeInv, [Next]_vars PROVE PipeInv'
    OBVIOUS
  <2>1. ASSUME PipeInit(pipe', fallen'), flow_cnt' = NoCounts PROVE PipeInv'
    <3>1. (PipeInit(pipe, fallen) /\ flow_cnt = NoCounts => PipeInv)'
      BY ClearedPipe, PTL
    <3>2. PipeInit(pipe, fallen)' /\ (flow_cnt = NoCounts)'
      BY <2>1 DEF PipeInit, NoCounts, Nothing, PipeEntry
    <3> QED BY <3>1, <3>2
  <2>2. ASSUME UNCHANGED <<pipe, fallen>>, task' = task, task # "hashpipe"
        PROVE  PipeInv'
    BY <2>2 DEF PipeInv, PipeInit, NoCounts, Nothing, PipeEntry
  <2>3. CASE SizingStep
    BY <2>2, <2>3 DEF SizingStep, tables, pipeTables
  <2>4. ASSUME NEW t \in SketchNames, StartTest(t) PROVE PipeInv'
    <3>1. PipeInit(pipe, fallen) /\ flow_cnt = NoCounts /\ UNCHANGED <<pipe, fallen, flow_cnt>>
      BY <2>4 DEF StartTest, tables, pipeTables, PipeInv, BaseInv
    <3> QED BY <2>1, <3>1
  <2>5. ASSUME NEW k \in Keys, FeedHashPipe(k) PROVE PipeInv'
    BY <2>5, PipeStep
  <2>6. ASSUME NEW k \in Keys, Feed(k), ~ FeedHashPipe(k) PROVE PipeInv'
    BY <2>2, <2>6 DEF Feed, FeedCounters, FeedElastic, FeedCoco, FeedPrecision, Feeding,
                      pipeTables
  <2>7. CASE NextRound
    BY <2>1, <2>7 DEF NextRound, TablesReset
  <2>8. CASE UNCHANGED vars
    BY <2>8 DEF vars, tables, pipeTables, PipeInv, PipeInit, NoCounts, Nothing, PipeEntry,
                local_ans
  <2> QED BY <2>3, <2>4, <2>5, <2>6, <2>7, <2>8 DEF Next
<1>3. BaseInv /\ PipeInv => PipeSound
  BY QueryWithin DEF BaseInv, PipeInv, PipeSound, PipeConserves
<1> QED BY <1>1, <1>2, <1>3, BaseAlways, PTL DEF Spec
=============================================================================
