------------------------ MODULE WeightedSketchProofs ------------------------
(***************************************************************************)
(* What holds of a ReliableSketch without a mice filter, for every set of  *)
(* keys, every geometry, every hash function and every stream of both      *)
(* insertions, insert(v) and insert(v, f), in any order.                   *)
(***************************************************************************)
EXTENDS WeightedSketch, ReliableSketchProofs
-----------------------------------------------------------------------------
(* The inductive invariant.                                                *)

\* A vote of insert(v) may exceed the bound by one, and then it sets the lock; a
\* bucket that insert(v, f) filled up to its bound is still open.
VotesWithin(b, err_bound) ==
  /\ b.no_cnt <= err_bound + 1
  /\ ~ b.locked => b.no_cnt <= err_bound

MixedVotesInv ==
  \A i \in Levels : \A p \in Rows(i) : VotesWithin(rs[i][p], rs_err_bound[i])

\* A candidate hashes to its bucket and found every bucket above it locked.  An
\* insertion of weight 0 makes candidates, so it need not have been counted.
CandidateInv ==
  \A i \in Levels : \A p \in Rows(i) :
    rs[i][p].yes_cnt > 0 => /\ rs[i][p].id \in Keys
                            /\ rsPos[i][rs[i][p].id] = p
                            /\ \A j \in 0 .. i - 1 : Passes(rs[i][p].id, j)

MixedInv == QueryInv /\ MixedVotesInv /\ CandidateInv
-----------------------------------------------------------------------------
(* One bucket.                                                             *)

\* r items of x can be what the bucket b counted of x.
Share(b, x, r) ==
  /\ b.id = x => r <= b.yes_cnt /\ b.yes_cnt - b.no_cnt <= r
  /\ b.id # x => r <= b.no_cnt

\* Counting w items of k turned the bucket b into c.
Counted(b, c, k, w, err_bound) ==
  /\ c \in Bucket
  /\ c.no_cnt <= c.yes_cnt
  /\ VotesWithin(c, err_bound)
  /\ b.locked => c.locked /\ c.id = b.id /\ c.no_cnt = b.no_cnt
  /\ c.id # k => c.id = b.id /\ c.yes_cnt = b.yes_cnt
  /\ \A x \in Keys : \A r \in Nat :
       Share(b, x, r) => Share(c, x, IF x = k THEN r + w ELSE r)

\* A vote counts one item.
LEMMA VoteCounted ==
  ASSUME NEW b \in Bucket, NEW k \in Keys, NEW n \in Nat,
         b.no_cnt <= b.yes_cnt, VotesWithin(b, n), ~ (b.locked /\ b.id # k)
  PROVE  Counted(b, Vote(b, k, n), k, 1, n)
<1> DEFINE c == Vote(b, k, n)
<1>1. c \in Bucket
  BY VoteFields
<1>2. /\ b.yes_cnt \in Nat /\ b.no_cnt \in Nat /\ b.locked \in BOOLEAN
      /\ c.yes_cnt \in Nat /\ c.no_cnt \in Nat /\ c.locked \in BOOLEAN
  BY <1>1 DEF Bucket
<1>3. CASE b.yes_cnt <= b.no_cnt \/ b.id = k
  <2>1. /\ c.id = k /\ c.yes_cnt = b.yes_cnt + 1
        /\ c.no_cnt = b.no_cnt /\ c.locked = b.locked
    BY <1>3, VoteFields
  <2> HIDE DEF c
  <2>2. c.no_cnt <= c.yes_cnt /\ VotesWithin(c, n)
    BY <1>2, <2>1 DEF VotesWithin
  <2>3. b.locked => c.locked /\ c.id = b.id /\ c.no_cnt = b.no_cnt
    BY <2>1
  <2>4. ASSUME NEW x \in Keys, NEW r \in Nat, Share(b, x, r)
        PROVE  Share(c, x, IF x = k THEN r + 1 ELSE r)
    BY <1>2, <1>3, <2>1, <2>4 DEF Share
  <2>5. Counted(b, c, k, 1, n)
    BY <1>1, <2>1, <2>2, <2>3, <2>4 DEF Counted
  <2> QED BY <2>5 DEF c
<1>4. CASE ~ (b.yes_cnt <= b.no_cnt \/ b.id = k)
  <2>1. /\ c.id = b.id /\ c.yes_cnt = b.yes_cnt /\ c.no_cnt = b.no_cnt + 1
        /\ c.locked = (b.locked \/ b.no_cnt + 1 >= n)
    BY <1>4, VoteFields
  <2>2. ~ b.locked
    BY <1>4
  <2> HIDE DEF c
  <2>3. c.no_cnt <= c.yes_cnt /\ VotesWithin(c, n)
    <3>1. c.no_cnt <= c.yes_cnt /\ c.no_cnt <= n + 1
      BY <1>2, <1>4, <2>1, <2>2 DEF VotesWithin
    <3>2. ~ c.locked => ~ (b.no_cnt + 1 >= n)
      BY <2>1, Zenon
    <3>3. ~ c.locked => c.no_cnt < n
      BY <1>2, <2>1, <3>2
    <3> QED BY <1>2, <3>1, <3>3 DEF VotesWithin
  <2>4. ASSUME NEW x \in Keys, NEW r \in Nat, Share(b, x, r)
        PROVE  Share(c, x, IF x = k THEN r + 1 ELSE r)
    BY <1>2, <1>4, <2>1, <2>4 DEF Share
  <2>5. Counted(b, c, k, 1, n)
    BY <1>1, <2>1, <2>2, <2>3, <2>4 DEF Counted
  <2> QED BY <2>5 DEF c
<1> QED BY <1>3, <1>4

\* The four outcomes of an offer, field by field.
LEMMA OfferFields ==
  ASSUME NEW b \in Bucket, NEW k \in Keys, NEW n \in Nat, NEW f \in Nat,
         b.no_cnt <= b.yes_cnt, b.id = k \/ b.no_cnt <= n
  PROVE  LET occupy == b.yes_cnt - b.no_cnt
             lock == n - b.no_cnt
             o == Offer(b, k, n, f)
             c == o.bucket
         IN  /\ c \in Bucket
             /\ b.id = k =>
                  /\ c.id = k /\ c.yes_cnt = b.yes_cnt + f /\ c.no_cnt = b.no_cnt
                  /\ c.locked = b.locked /\ o.left = 0
             /\ b.id # k /\ occupy <= lock /\ f >= occupy =>
                  /\ c.id = k /\ c.yes_cnt = b.yes_cnt + f - occupy
                  /\ c.no_cnt = b.no_cnt + occupy /\ c.locked = b.locked /\ o.left = 0
             /\ b.id # k /\ occupy > lock /\ f >= lock =>
                  /\ c.id = b.id /\ c.yes_cnt = b.yes_cnt /\ c.no_cnt = b.no_cnt + lock
                  /\ c.locked = TRUE /\ o.left = f - lock
             /\ b.id # k /\ f < occupy /\ f < lock =>
                  /\ c.id = b.id /\ c.yes_cnt = b.yes_cnt /\ c.no_cnt = b.no_cnt + f
                  /\ c.locked = b.locked /\ o.left = 0
<1> DEFINE occupy == b.yes_cnt - b.no_cnt
           lock == n - b.no_cnt
           o == Offer(b, k, n, f)
           c == o.bucket
<1>1. b.yes_cnt \in Nat /\ b.no_cnt \in Nat
  BY DEF Bucket
<1>2. CASE b.id = k
  <2> DEFINE yes == b.yes_cnt + f
  <2>1. c = [b EXCEPT !.yes_cnt = yes] /\ o.left = 0
    BY <1>2 DEF Offer, Offered
  <2>2. yes \in Nat
    BY <1>1
  <2> HIDE DEF yes, o, c
  <2>3. /\ c \in Bucket /\ c.id = b.id /\ c.yes_cnt = yes
        /\ c.no_cnt = b.no_cnt /\ c.locked = b.locked
    BY <2>1, <2>2, Zenon DEF Bucket
  <2> QED BY <1>2, <2>1, <2>3 DEF yes, o, c
<1>3. CASE b.id # k /\ occupy <= lock /\ f >= occupy
  <2> DEFINE yes == b.yes_cnt + f - occupy
             no == b.no_cnt + occupy
  <2>1. c = [b EXCEPT !.no_cnt = no, !.id = k, !.yes_cnt = yes] /\ o.left = 0
    BY <1>3 DEF Offer, Offered
  <2>2. yes \in Nat /\ no \in Nat
    BY <1>1, <1>3
  <2> HIDE DEF yes, no, o, c
  <2>3. /\ c \in Bucket /\ c.id = k /\ c.yes_cnt = yes
        /\ c.no_cnt = no /\ c.locked = b.locked
    BY <2>1, <2>2, Zenon DEF Bucket
  <2>4. ~ (occupy > lock /\ f >= lock) /\ ~ (f < occupy /\ f < lock)
    BY <1>1, <1>3
  <2> QED BY <1>3, <2>1, <2>3, <2>4 DEF yes, no, o, c
<1>4. CASE b.id # k /\ occupy > lock /\ f >= lock
  <2> DEFINE no == b.no_cnt + lock
  <2>1. ~ (occupy <= lock) /\ ~ (f < lock)
    BY <1>1, <1>4
  <2>2. c = [b EXCEPT !.no_cnt = no, !.locked = TRUE] /\ o.left = f - lock
    BY <1>4, <2>1 DEF Offer, Offered
  <2>3. no \in Nat
    BY <1>1, <1>4
  <2> HIDE DEF no, o, c
  <2>4. /\ c \in Bucket /\ c.id = b.id /\ c.yes_cnt = b.yes_cnt
        /\ c.no_cnt = no /\ c.locked = TRUE
    BY <2>2, <2>3, Zenon DEF Bucket
  <2> QED BY <1>4, <2>1, <2>2, <2>4 DEF no, o, c
<1>5. CASE b.id # k /\ f < occupy /\ f < lock
  <2> DEFINE no == b.no_cnt + f
  <2>1. ~ (f >= occupy) /\ ~ (f >= lock)
    BY <1>1, <1>5
  <2>2. c = [b EXCEPT !.no_cnt = no] /\ o.left = 0
    BY <1>5, <2>1 DEF Offer, Offered
  <2>3. no \in Nat
    BY <1>1
  <2> HIDE DEF no, o, c
  <2>4. /\ c \in Bucket /\ c.id = b.id /\ c.yes_cnt = b.yes_cnt
        /\ c.no_cnt = no /\ c.locked = b.locked
    BY <2>2, <2>3, Zenon DEF Bucket
  <2> QED BY <1>5, <2>1, <2>2, <2>4 DEF no, o, c
<1>6. \/ b.id = k
      \/ b.id # k /\ occupy <= lock /\ f >= occupy
      \/ b.id # k /\ occupy > lock /\ f >= lock
      \/ b.id # k /\ f < occupy /\ f < lock
  BY <1>1
<1> QED BY <1>2, <1>3, <1>4, <1>5, <1>6

\* An offer counts what it does not leave, and what it leaves passes a bucket
\* that it locked.
LEMMA OfferCounted ==
  ASSUME NEW b \in Bucket, NEW k \in Keys, NEW n \in Nat, NEW f \in Nat,
         b.no_cnt <= b.yes_cnt, VotesWithin(b, n), ~ (b.locked /\ b.id # k)
  PROVE  LET o == Offer(b, k, n, f)
         IN  /\ o.left \in 0 .. f
             /\ Counted(b, o.bucket, k, f - o.left, n)
             /\ o.left # 0 => o.bucket.locked /\ o.bucket.id # k
<1> DEFINE occupy == b.yes_cnt - b.no_cnt
           lock == n - b.no_cnt
           o == Offer(b, k, n, f)
           c == o.bucket
           w == f - o.left
<1>1. b.yes_cnt \in Nat /\ b.no_cnt \in Nat /\ b.locked \in BOOLEAN
  BY DEF Bucket
<1>2. b.id # k => ~ b.locked /\ b.no_cnt <= n
  BY <1>1 DEF VotesWithin
<1>3. /\ c \in Bucket
      /\ b.id = k =>
           /\ c.id = k /\ c.yes_cnt = b.yes_cnt + f /\ c.no_cnt = b.no_cnt
           /\ c.locked = b.locked /\ o.left = 0
      /\ b.id # k /\ occupy <= lock /\ f >= occupy =>
           /\ c.id = k /\ c.yes_cnt = b.yes_cnt + f - occupy
           /\ c.no_cnt = b.no_cnt + occupy /\ c.locked = b.locked /\ o.left = 0
      /\ b.id # k /\ occupy > lock /\ f >= lock =>
           /\ c.id = b.id /\ c.yes_cnt = b.yes_cnt /\ c.no_cnt = b.no_cnt + lock
           /\ c.locked = TRUE /\ o.left = f - lock
      /\ b.id # k /\ f < occupy /\ f < lock =>
           /\ c.id = b.id /\ c.yes_cnt = b.yes_cnt /\ c.no_cnt = b.no_cnt + f
           /\ c.locked = b.locked /\ o.left = 0
  <2>1. b.id = k \/ b.no_cnt <= n
    BY <1>2
  <2> QED BY <2>1, OfferFields, Zenon
<1>4. c.yes_cnt \in Nat /\ c.no_cnt \in Nat /\ c.locked \in BOOLEAN
  BY <1>3 DEF Bucket
<1> HIDE DEF o, c
<1>5. CASE b.id = k
  <2>1. /\ c.id = k /\ c.yes_cnt = b.yes_cnt + f /\ c.no_cnt = b.no_cnt
        /\ c.locked = b.locked /\ o.left = 0
    BY <1>3, <1>5
  <2>2. c.no_cnt <= c.yes_cnt /\ VotesWithin(c, n)
    BY <1>1, <2>1 DEF VotesWithin
  <2>3. ASSUME NEW x \in Keys, NEW r \in Nat, Share(b, x, r)
        PROVE  Share(c, x, IF x = k THEN r + w ELSE r)
    BY <1>1, <1>5, <2>1, <2>3 DEF Share
  <2>4. Counted(b, c, k, w, n)
    BY <1>3, <1>5, <2>1, <2>2, <2>3 DEF Counted
  <2> QED BY <2>1, <2>4 DEF o, c
<1>6. CASE b.id # k /\ occupy <= lock /\ f >= occupy
  <2>1. /\ c.id = k /\ c.yes_cnt = b.yes_cnt + f - occupy
        /\ c.no_cnt = b.no_cnt + occupy /\ c.locked = b.locked /\ o.left = 0
    BY <1>3, <1>6
  <2>2. c.no_cnt <= c.yes_cnt /\ VotesWithin(c, n)
    BY <1>1, <1>6, <2>1 DEF VotesWithin
  <2>3. ASSUME NEW x \in Keys, NEW r \in Nat, Share(b, x, r)
        PROVE  Share(c, x, IF x = k THEN r + w ELSE r)
    BY <1>1, <1>6, <2>1, <2>3 DEF Share
  <2>4. Counted(b, c, k, w, n)
    BY <1>2, <1>3, <1>6, <2>1, <2>2, <2>3 DEF Counted
  <2> QED BY <2>1, <2>4 DEF o, c
<1>7. CASE b.id # k /\ occupy > lock /\ f >= lock
  <2>1. /\ c.id = b.id /\ c.yes_cnt = b.yes_cnt /\ c.no_cnt = b.no_cnt + lock
        /\ c.locked = TRUE /\ o.left = f - lock
    BY <1>3, <1>7
  <2>2. c.no_cnt <= c.yes_cnt /\ VotesWithin(c, n)
    BY <1>1, <1>7, <2>1 DEF VotesWithin
  <2>3. o.left \in 0 .. f /\ w = lock /\ w \in Nat
    BY <1>1, <1>2, <1>7, <2>1
  <2>4. ASSUME NEW x \in Keys, NEW r \in Nat, Share(b, x, r)
        PROVE  Share(c, x, IF x = k THEN r + w ELSE r)
    <3> HIDE DEF w
    <3> QED BY <1>1, <1>7, <2>1, <2>3, <2>4 DEF Share
  <2>5. Counted(b, c, k, w, n)
    BY <1>2, <1>3, <1>7, <2>1, <2>2, <2>4 DEF Counted
  <2> QED BY <1>7, <2>1, <2>3, <2>5 DEF o, c
<1>8. CASE b.id # k /\ f < occupy /\ f < lock
  <2>1. /\ c.id = b.id /\ c.yes_cnt = b.yes_cnt /\ c.no_cnt = b.no_cnt + f
        /\ c.locked = b.locked /\ o.left = 0
    BY <1>3, <1>8
  <2>2. c.no_cnt <= c.yes_cnt /\ VotesWithin(c, n)
    BY <1>1, <1>8, <2>1 DEF VotesWithin
  <2>3. ASSUME NEW x \in Keys, NEW r \in Nat, Share(b, x, r)
        PROVE  Share(c, x, IF x = k THEN r + w ELSE r)
    BY <1>1, <1>8, <2>1, <2>3 DEF Share
  <2>4. Counted(b, c, k, w, n)
    BY <1>2, <1>3, <1>8, <2>1, <2>2, <2>3 DEF Counted
  <2> QED BY <2>1, <2>4 DEF o, c
<1>9. \/ b.id = k
      \/ b.id # k /\ occupy <= lock /\ f >= occupy
      \/ b.id # k /\ occupy > lock /\ f >= lock
      \/ b.id # k /\ f < occupy /\ f < lock
  BY <1>1
<1> QED BY <1>5, <1>6, <1>7, <1>8, <1>9
-----------------------------------------------------------------------------
(* One walk down the levels, whichever insertion makes it.                 *)

\* k walks down: C[d] items of it come to depth d, and the levels in T take some.
WalkStep(k, T, C) ==
  /\ UNCHANGED <<seeds, mf, filtered>>
  /\ flow_cnt' = [flow_cnt EXCEPT ![k] = @ + C[0]]
  /\ reach' = [reach EXCEPT ![k] = [d \in Depths |-> @[d] + C[d]]]
  /\ DOMAIN rs' = Levels
  /\ \A i \in Levels : rs'[i] = [p \in Rows(i) |-> rs'[i][p]]
  /\ \A i \in Levels : \A p \in Rows(i) :
       IF i \in T /\ p = rsPos[i][k]
       THEN /\ ~ Passes(k, i)
            /\ Counted(rs[i][p], rs'[i][p], k, C[i] - C[i + 1], rs_err_bound[i])
            /\ \A j \in 0 .. i - 1 : Passes(k, j)'
       ELSE rs'[i][p] = rs[i][p]
  /\ \A i \in Levels : /\ C[i + 1] <= C[i]
                       /\ i \notin T => C[i + 1] = C[i]
                       /\ C[i + 1] > 0 => Passes(k, i)'

\* A walk moves neither the candidate nor the votes against of a locked bucket.
LEMMA WalkKeepsLocks ==
  ASSUME NEW k \in Keys, NEW T \in SUBSET Levels, NEW C \in [Depths -> Nat],
         WalkStep(k, T, C), NEW i \in Levels, NEW p \in Rows(i), rs[i][p].locked
  PROVE  /\ rs'[i][p].locked
         /\ rs'[i][p].id = rs[i][p].id
         /\ rs'[i][p].no_cnt = rs[i][p].no_cnt
  BY DEF WalkStep, Counted

\* Hence a walk that was passed on stays so.
LEMMA WalkKeepsPasses ==
  ASSUME TypeOK, NEW k \in Keys, NEW T \in SUBSET Levels, NEW C \in [Depths -> Nat],
         WalkStep(k, T, C), NEW x \in Keys, NEW i \in Levels, Passes(x, i)
  PROVE  Passes(x, i)'
<1>1. rsPos' = rsPos /\ rsPos[i][x] \in Rows(i)
  BY BucketOfType DEF WalkStep, seeds
<1> QED BY <1>1, WalkKeepsLocks DEF Passes, BucketOf

\* A walk takes its items from depth to depth without gaining any.
LEMMA WalkShrinks ==
  ASSUME NEW C \in [Depths -> Nat], \A i \in Levels : C[i + 1] <= C[i],
         NEW d \in Depths, NEW e \in Depths, d <= e
  PROVE  C[e] <= C[d]
<1> DEFINE S == {c \in Depths : c <= e => C[e] <= C[c]}
<1>1. rs_level \in S
  BY LevelAssumption DEF Depths
<1>2. \A c \in Levels : c + 1 \in S => c \in S
  <2> SUFFICES ASSUME NEW c \in Levels, c + 1 \in S, c <= e
               PROVE  c \in Depths /\ C[e] <= C[c]
    BY LevelAssumption DEF Levels, Depths
  <2>1. c \in Depths /\ c + 1 \in Depths /\ c \in Int /\ e \in Int
    BY LevelAssumption DEF Levels, Depths
  <2>2. C[c] \in Nat /\ C[c + 1] \in Nat /\ C[e] \in Nat /\ C[c + 1] <= C[c]
    BY <2>1
  <2>3. c = e \/ c + 1 <= e
    BY <2>1
  <2> QED BY <2>1, <2>2, <2>3
<1>3. Depths \subseteq S
  <2> HIDE DEF S
  <2> QED BY <1>1, <1>2, UpwardFromTheDeepest
<1> QED BY <1>3

\* A walk keeps the invariant.
LEMMA WalkKeepsMixedInv ==
  ASSUME MixedInv, MfRows = {}, NEW k \in Keys,
         NEW T \in SUBSET Levels, NEW C \in [Depths -> Nat], WalkStep(k, T, C)
  PROVE  MixedInv'
<1> USE DEF MixedInv, QueryInv
<1>1. /\ 0 \in Depths
      /\ \A i \in Levels : i \in Nat /\ i \in Depths /\ i + 1 \in Depths
      /\ \A i \in Levels : rs_err_bound[i] \in Nat
  BY LevelAssumption DEF Depths, Levels
<1>2. /\ mfPos' = mfPos /\ rsPos' = rsPos /\ mf' = mf /\ filtered' = filtered
      /\ \A x \in Keys : flow_cnt'[x] = IF x = k THEN flow_cnt[x] + C[0] ELSE flow_cnt[x]
      /\ \A x \in Keys : \A d \in Depths :
           reach'[x][d] = IF x = k THEN reach[x][d] + C[d] ELSE reach[x][d]
  BY DEF WalkStep, seeds, TypeOK
<1>3. \A x \in Keys : \A d \in Depths : reach[x][d] \in Nat
  BY DEF TypeOK
<1>4. \A i \in Levels : \A p \in Rows(i) :
        /\ rs[i][p] \in Bucket
        /\ IF i \in T /\ p = rsPos[i][k]
           THEN /\ ~ Passes(k, i)
                /\ Counted(rs[i][p], rs'[i][p], k, C[i] - C[i + 1], rs_err_bound[i])
                /\ \A j \in 0 .. i - 1 : Passes(k, j)'
           ELSE rs'[i][p] = rs[i][p]
  BY DEF WalkStep, TypeOK
<1>5. TypeOK'
  <2>1. \A i \in Levels : \A p \in Rows(i) : rs'[i][p] \in Bucket
    BY <1>4 DEF Counted
  <2>2. \A i \in Levels : rs'[i] \in [Rows(i) -> Bucket]
    BY <2>1 DEF WalkStep
  <2>3. flow_cnt' \in [Keys -> Nat]
    BY <1>1 DEF WalkStep, TypeOK
  <2>4. reach' \in [Keys -> [Depths -> Nat]]
    <3>1. [d \in Depths |-> reach[k][d] + C[d]] \in [Depths -> Nat]
      BY <1>3
    <3>2. reach' = [reach EXCEPT ![k] = [d \in Depths |-> reach[k][d] + C[d]]]
      BY DEF WalkStep
    <3> QED BY <3>1, <3>2 DEF TypeOK
  <2> QED BY <1>2, <2>2, <2>3, <2>4 DEF TypeOK, WalkStep
<1>6. Accounted'
  <2>1. \A x \in Keys : /\ flow_cnt[x] = filtered[x] + reach[x][0]
                        /\ filtered[x] \in Nat /\ reach[x][0] \in Nat
    BY <1>1, <1>3 DEF Accounted, TypeOK
  <2>2. C[0] \in Nat
    BY <1>1
  <2> QED BY <1>1, <1>2, <2>1, <2>2 DEF Accounted
<1>7. FilterInv'
  BY <1>2 DEF FilterInv
<1>8. WalkInv'
  <2> SUFFICES ASSUME NEW x \in Keys, NEW d \in Depths, NEW e \in Depths, d <= e
               PROVE  reach'[x][e] <= reach'[x][d]
    BY DEF WalkInv
  <2>1. C[e] <= C[d]
    BY WalkShrinks DEF WalkStep
  <2>2. reach[x][e] <= reach[x][d]
    BY DEF WalkInv
  <2> QED BY <1>2, <1>3, <2>1, <2>2
<1>9. LeadInv'
  BY <1>4 DEF LeadInv, Counted
<1>10. MixedVotesInv'
  BY <1>4 DEF MixedVotesInv, Counted
<1>11. ShareInv'
  <2> SUFFICES ASSUME NEW x \in Keys, NEW i \in Levels
               PROVE  Share(BucketOf(x, i), x, recorded(x, i))'
    BY DEF ShareInv, Share
  <2> DEFINE p == rsPos[i][x]
             w == C[i] - C[i + 1]
  <2>1. p \in Rows(i) /\ BucketOf(x, i) = rs[i][p] /\ BucketOf(x, i)' = rs'[i][p]
    BY <1>2, BucketOfType DEF BucketOf
  <2>2. Share(rs[i][p], x, recorded(x, i))
    BY <2>1 DEF ShareInv, Share
  <2>3. C[i] \in Nat /\ C[i + 1] \in Nat /\ w \in Int
    BY <1>1
  <2>4. recorded(x, i) \in Nat
    BY <1>1, <1>3 DEF WalkInv, recorded
  <2>5. recorded(x, i)' = IF x = k THEN recorded(x, i) + w ELSE recorded(x, i)
    BY <1>1, <1>2, <1>3, <2>3 DEF recorded
  <2>6. CASE i \in T /\ p = rsPos[i][k]
    <3>1. Counted(rs[i][p], rs'[i][p], k, w, rs_err_bound[i])
      BY <1>4, <2>1, <2>6
    <3> HIDE DEF p, w
    <3>2. Share(rs'[i][p], x, IF x = k THEN recorded(x, i) + w ELSE recorded(x, i))
      BY <2>2, <2>4, <3>1 DEF Counted
    <3> QED BY <2>1, <2>5, <3>2 DEF Share
  <2>7. CASE ~ (i \in T /\ p = rsPos[i][k])
    <3>1. rs'[i][p] = rs[i][p]
      BY <1>4, <2>1, <2>7
    <3>2. recorded(x, i)' = recorded(x, i)
      <4>1. x = k => w = 0
        BY <2>3, <2>7 DEF WalkStep
      <4> HIDE DEF w
      <4> QED BY <2>4, <2>5, <4>1
    <3> QED BY <2>1, <2>2, <3>1, <3>2 DEF Share
  <2> QED BY <2>6, <2>7
<1>12. NothingBelowTheStop'
  <2> SUFFICES ASSUME NEW x \in Keys, NEW i \in Levels, ~ Passes(x, i)'
               PROVE  reach'[x][i + 1] = 0
    BY DEF NothingBelowTheStop
  <2>1. ~ Passes(x, i)
    BY WalkKeepsPasses
  <2>2. reach[x][i + 1] = 0
    BY <2>1 DEF NothingBelowTheStop
  <2>3. x = k => C[i + 1] = 0
    BY <1>1 DEF WalkStep
  <2> QED BY <1>1, <1>2, <2>2, <2>3
<1>13. CandidateInv'
  <2> SUFFICES ASSUME NEW i \in Levels, NEW p \in Rows(i), rs'[i][p].yes_cnt > 0,
                      NEW y, y = rs'[i][p].id
               PROVE  /\ y \in Keys /\ rsPos[i][y] = p
                      /\ \A j \in 0 .. i - 1 : Passes(y, j)'
    BY <1>2 DEF CandidateInv, Passes, BucketOf
  <2>1. CASE i \in T /\ p = rsPos[i][k] /\ y = k
    BY <1>4, <2>1
  <2>2. CASE ~ (i \in T /\ p = rsPos[i][k] /\ y = k)
    <3>1. y = rs[i][p].id /\ rs[i][p].yes_cnt > 0
      BY <1>4, <2>2 DEF Counted
    <3>2. /\ y \in Keys /\ rsPos[i][y] = p
          /\ \A j \in 0 .. i - 1 : Passes(y, j)
      BY <3>1 DEF CandidateInv
    <3>3. \A j \in 0 .. i - 1 : j \in Levels
      BY LevelAssumption DEF Levels
    <3>4. \A j \in 0 .. i - 1 : Passes(y, j)'
      BY <3>2, <3>3, WalkKeepsPasses
    <3> QED BY <3>2, <3>4
  <2> QED BY <2>1, <2>2
<1> QED BY <1>5, <1>6, <1>7, <1>8, <1>9, <1>10, <1>11, <1>12, <1>13

\* insert(k) walks with its one item to the first bucket that takes it.
LEMMA InsertRsWalks ==
  ASSUME MixedInv, MfRows = {}, NEW k \in Keys, InsertRs(k)
  PROVE  \E T \in SUBSET Levels : \E C \in [Depths -> Nat] : WalkStep(k, T, C)
<1> DEFINE s == StopDepth(k)
           T == {i \in Levels : i = s}
           C == [d \in Depths |-> IF d <= s THEN 1 ELSE 0]
<1>1. /\ s \in Depths
      /\ \A i \in 0 .. s - 1 : Passes(k, i)
      /\ s < rs_level => ~ Passes(k, s)
  BY StopDepthExists
<1>2. /\ 0 \in Depths /\ s \in Int /\ 0 <= s
      /\ \A i \in Levels : /\ i \in Int /\ i \in Depths /\ i + 1 \in Depths
                           /\ 0 <= i /\ i < rs_level /\ rs_err_bound[i] \in Nat
  BY <1>1, LevelAssumption DEF Depths, Levels
<1> HIDE DEF s
<1>3. C \in [Depths -> Nat] /\ C[0] = 1
  BY <1>2
<1>4. ASSUME NEW i \in Levels, NEW p \in Rows(i)
      PROVE  IF i \in T /\ p = rsPos[i][k]
             THEN /\ ~ Passes(k, i)
                  /\ Counted(rs[i][p], rs'[i][p], k, C[i] - C[i + 1], rs_err_bound[i])
             ELSE rs'[i][p] = rs[i][p]
  <2>1. rs'[i][p] = IF i = s /\ p = rsPos[i][k]
                    THEN Vote(rs[i][p], k, rs_err_bound[i]) ELSE rs[i][p]
    BY DEF InsertRs, RsAfter, s
  <2>2. CASE i = s /\ p = rsPos[i][k]
    <3>1. ~ Passes(k, i)
      BY <1>1, <1>2, <2>2
    <3>2. ~ (rs[i][p].locked /\ rs[i][p].id # k)
      BY <2>2, <3>1 DEF Passes, BucketOf
    <3>3. /\ rs[i][p] \in Bucket /\ rs[i][p].no_cnt <= rs[i][p].yes_cnt
          /\ VotesWithin(rs[i][p], rs_err_bound[i])
      BY DEF MixedInv, QueryInv, TypeOK, LeadInv, MixedVotesInv
    <3>4. Counted(rs[i][p], rs'[i][p], k, 1, rs_err_bound[i])
      BY <1>2, <2>1, <2>2, <3>2, <3>3, VoteCounted
    <3>5. C[i] - C[i + 1] = 1
      BY <1>2, <2>2
    <3> QED BY <2>2, <3>1, <3>4, <3>5
  <2>3. CASE ~ (i = s /\ p = rsPos[i][k])
    BY <2>1, <2>3
  <2> QED BY <2>2, <2>3
<1>5. ASSUME NEW j \in Levels, j < s
      PROVE  Passes(k, j)'
  <2>1. Passes(k, j) /\ j \notin T /\ rsPos' = rsPos /\ rsPos[j][k] \in Rows(j)
    BY <1>1, <1>2, <1>5, BucketOfType DEF MixedInv, QueryInv, InsertRs, seeds
  <2> QED BY <1>4, <2>1 DEF Passes, BucketOf
<1>6. \A i \in Levels : /\ C[i + 1] <= C[i]
                        /\ i \notin T => C[i + 1] = C[i]
                        /\ C[i + 1] > 0 => Passes(k, i)'
  <2> SUFFICES ASSUME NEW i \in Levels
               PROVE  /\ C[i + 1] <= C[i]
                      /\ i \notin T => C[i + 1] = C[i]
                      /\ C[i + 1] > 0 => Passes(k, i)'
    OBVIOUS
  <2>1. /\ C[i] = IF i <= s THEN 1 ELSE 0
        /\ C[i + 1] = IF i + 1 <= s THEN 1 ELSE 0
        /\ i \in T <=> i = s
    BY <1>2
  <2> HIDE DEF C, T
  <2> QED BY <1>2, <1>5, <2>1
<1>7. \A i \in T : \A j \in 0 .. i - 1 : Passes(k, j)'
  BY <1>1, <1>2, <1>5, LevelAssumption DEF Levels
<1>8. WalkStep(k, T, C)
  <2>1. /\ UNCHANGED <<seeds, mf, filtered>>
        /\ flow_cnt' = [flow_cnt EXCEPT ![k] = @ + C[0]]
    BY <1>3 DEF InsertRs
  <2>2. reach' = [reach EXCEPT ![k] = [d \in Depths |-> @[d] + C[d]]]
    <3>1. \A d \in Depths : reach[k][d] \in Nat
      BY DEF MixedInv, QueryInv, TypeOK
    <3>2. [d \in Depths |-> IF d <= s THEN reach[k][d] + 1 ELSE reach[k][d]]
            = [d \in Depths |-> reach[k][d] + C[d]]
      BY <3>1
    <3> QED BY <3>2 DEF InsertRs, s
  <2>3. DOMAIN rs' = Levels /\ \A i \in Levels : rs'[i] = [p \in Rows(i) |-> rs'[i][p]]
    BY DEF InsertRs, RsAfter
  <2> HIDE DEF T, C
  <2> QED BY <1>4, <1>6, <1>7, <2>1, <2>2, <2>3 DEF WalkStep
<1>9. T \in SUBSET Levels
  OBVIOUS
<1> HIDE DEF T, C
<1> QED BY <1>3, <1>8, <1>9

\* What comes to the next depth when above comes to level i.
Onward(k, i, above) ==
  LET left == OfferAt(k, i, above.left).left
  IN  IF ~ above.runs \/ Passes(k, i) THEN above
      ELSE [runs |-> left # 0, left |-> left]

\* The equations of the walk of insert(k, f).
LEMMA ArrivalEquations ==
  ASSUME NEW k, NEW f
  PROVE  \A d \in Depths :
           Arrival(k, f)[d] = IF d = 0 THEN [runs |-> TRUE, left |-> f]
                              ELSE Onward(k, d - 1, Arrival(k, f)[d - 1])
<1> DEFINE Term(g, d) == IF d = 0 THEN [runs |-> TRUE, left |-> f]
                         ELSE Onward(k, d - 1, g[d - 1])
           S == {d \in Depths : \E g : \A e \in 0 .. d : g[e] = Term(g, e)}
<1>1. 0 \in S
  <2>1. 0 \in Depths /\ \A e \in 0 .. 0 : e = 0
    BY LevelAssumption DEF Depths
  <2> DEFINE g == [d \in Depths |-> [runs |-> TRUE, left |-> f]]
  <2>2. \A e \in 0 .. 0 : g[e] = Term(g, e)
    BY <2>1
  <2> QED BY <2>1, <2>2
<1>2. ASSUME NEW d \in 0 .. rs_level - 1, d \in S
      PROVE  d + 1 \in S
  <2>1. PICK g : \A e \in 0 .. d : g[e] = Term(g, e)
    BY <1>2
  <2> DEFINE h == [e \in Depths |-> IF e = d + 1 THEN Term(g, d + 1) ELSE g[e]]
  <2>2. d + 1 \in Depths /\ d \in Nat
    BY LevelAssumption DEF Depths
  <2>3. ASSUME NEW e \in 0 .. d + 1
        PROVE  h[e] = Term(h, e)
    <3>1. e \in Depths /\ e \in Nat /\ (e # 0 => e - 1 \in Depths /\ e - 1 # d + 1)
      BY <2>2, LevelAssumption DEF Depths
    <3>2. e # 0 => h[e - 1] = g[e - 1]
      BY <3>1
    <3>3. Term(h, e) = Term(g, e)
      BY <3>2
    <3>4. e # d + 1 => g[e] = Term(g, e)
      <4>1. e # d + 1 => e \in 0 .. d
        BY <2>2
      <4> HIDE DEF Term
      <4> QED BY <2>1, <4>1
    <3> QED BY <3>1, <3>3, <3>4
  <2> QED BY <2>2, <2>3
<1>3. Depths \subseteq S
  <2> HIDE DEF S
  <2> QED BY <1>1, <1>2, UpwardInduction, LevelAssumption DEF Depths
<1>4. PICK g : \A e \in 0 .. rs_level : g[e] = Term(g, e)
  <2>1. rs_level \in Depths
    BY LevelAssumption DEF Depths
  <2> QED BY <1>3, <2>1
<1> DEFINE h == [e \in Depths |-> g[e]]
<1>5. \A e \in Depths : h[e] = Term(h, e)
  <2> SUFFICES ASSUME NEW e \in Depths PROVE h[e] = Term(h, e)
    OBVIOUS
  <2>1. e # 0 => e - 1 \in Depths
    BY LevelAssumption DEF Depths
  <2>2. Term(h, e) = Term(g, e)
    BY <2>1
  <2> QED BY <1>4, <2>2 DEF Depths
<1>6. h = [e \in Depths |-> Term(h, e)]
  BY <1>5
<1>7. \E at : at = [d \in Depths |-> Term(at, d)]
  BY <1>6
<1>8. Arrival(k, f) = [d \in Depths |-> Term(Arrival(k, f), d)]
  BY <1>7 DEF Arrival, Onward
<1> QED BY <1>8

\* The bucket that is offered what comes to level i.
LEMMA OfferAtCounted ==
  ASSUME MixedInv, NEW k \in Keys, NEW i \in Levels, ~ Passes(k, i), NEW f \in Nat
  PROVE  LET o == OfferAt(k, i, f)
         IN  /\ o.left \in 0 .. f
             /\ Counted(BucketOf(k, i), o.bucket, k, f - o.left, rs_err_bound[i])
             /\ o.left # 0 => o.bucket.locked /\ o.bucket.id # k
<1> DEFINE b == BucketOf(k, i)
<1>1. /\ rsPos[i][k] \in Rows(i) /\ b \in Bucket /\ b = rs[i][rsPos[i][k]]
      /\ rs_err_bound[i] \in Nat
  BY BucketOfType, LevelAssumption DEF MixedInv, QueryInv
<1>2. b.no_cnt <= b.yes_cnt /\ VotesWithin(b, rs_err_bound[i])
  BY <1>1 DEF MixedInv, QueryInv, LeadInv, MixedVotesInv
<1>3. ~ (b.locked /\ b.id # k)
  BY DEF Passes
<1> HIDE DEF b
<1>4. OfferAt(k, i, f) = Offer(b, k, rs_err_bound[i], f)
  BY DEF OfferAt, b
<1> DEFINE n == rs_err_bound[i]
           o == Offer(b, k, n, f)
<1>5. /\ o.left \in 0 .. f
      /\ Counted(b, o.bucket, k, f - o.left, n)
      /\ o.left # 0 => o.bucket.locked /\ o.bucket.id # k
  <2>1. n \in Nat /\ VotesWithin(b, n)
    BY <1>1, <1>2
  <2> HIDE DEF n
  <2> QED BY <1>1, <1>2, <1>3, <2>1, OfferCounted, Zenon
<1> QED BY <1>4, <1>5 DEF b

\* The fields of what comes to a depth.
LEMMA ArrivalRecord ==
  ASSUME NEW runs \in BOOLEAN, NEW left
  PROVE  LET at == [runs |-> runs, left |-> left]
         IN  /\ at.runs = runs /\ at.left = left
             /\ left \in Nat => at \in [runs : BOOLEAN, left : Nat]
  OBVIOUS

\* What comes to a depth is a number of items.
LEMMA ArrivalType ==
  ASSUME MixedInv, NEW k \in Keys, NEW f \in Nat
  PROVE  \A d \in Depths : Arrival(k, f)[d] \in [runs : BOOLEAN, left : Nat]
<1> DEFINE A == Arrival(k, f)
           S == {d \in Depths : A[d] \in [runs : BOOLEAN, left : Nat]}
<1>0. \A d \in Depths : A[d] = IF d = 0 THEN [runs |-> TRUE, left |-> f]
                                 ELSE Onward(k, d - 1, A[d - 1])
  BY ArrivalEquations
<1> HIDE DEF A
<1>1. 0 \in S
  <2>1. 0 \in Depths
    BY LevelAssumption DEF Depths
  <2>2. A[0] = [runs |-> TRUE, left |-> f]
    BY <1>0, <2>1
  <2>3. A[0] \in [runs : BOOLEAN, left : Nat]
    BY <2>2, ArrivalRecord
  <2> QED BY <2>1, <2>3
<1>2. ASSUME NEW d \in 0 .. rs_level - 1, d \in S
      PROVE  d + 1 \in S
  <2>1. d \in Levels /\ d + 1 \in Depths /\ d + 1 # 0 /\ (d + 1) - 1 = d
    BY LevelAssumption DEF Depths, Levels
  <2>2. A[d + 1] = Onward(k, d, A[d])
    BY <1>0, <2>1
  <2>3. A[d] \in [runs : BOOLEAN, left : Nat]
    BY <1>2
  <2>4. ~ Passes(k, d) => OfferAt(k, d, A[d].left).left \in Nat
    BY <2>1, <2>3, OfferAtCounted
  <2>5. A[d + 1] \in [runs : BOOLEAN, left : Nat]
    BY <2>2, <2>3, <2>4 DEF Onward
  <2> QED BY <2>1, <2>5
<1>3. Depths \subseteq S
  <2> HIDE DEF S
  <2> QED BY <1>1, <1>2, UpwardInduction, LevelAssumption DEF Depths
<1> QED BY <1>3 DEF A

\* insert(k, f) walks with its f items.
LEMMA InsertWeightedWalks ==
  ASSUME MixedInv, MfRows = {}, NEW k \in Keys, NEW f \in Weights,
         InsertWeighted(k, f)
  PROVE  \E T \in SUBSET Levels : \E C \in [Depths -> Nat] : WalkStep(k, T, C)
<1> DEFINE A == Arrival(k, f)
           T == {i \in Levels : Takes(k, f, i)}
           C == [d \in Depths |-> IF A[d].runs THEN A[d].left ELSE 0]
<1>1. /\ f \in Nat /\ 0 \in Depths
      /\ \A i \in Levels : /\ i \in Int /\ i \in Depths /\ i + 1 \in Depths
                           /\ i + 1 # 0 /\ (i + 1) - 1 = i
  BY WeightAssumption, LevelAssumption DEF Depths, Levels
<1>2. /\ \A d \in Depths : A[d] \in [runs : BOOLEAN, left : Nat]
      /\ A[0] = [runs |-> TRUE, left |-> f]
      /\ \A i \in Levels : A[i + 1] = Onward(k, i, A[i])
  BY <1>1, ArrivalEquations, ArrivalType
<1>3. /\ ~ Absorbs(k) /\ AddVal(k) = 0 /\ f - AddVal(k) = f
      /\ WMfAfter(k) = mf
  BY <1>1 DEF Absorbs, AddVal, WMfAfter, MixedInv, QueryInv, TypeOK
<1>4. /\ mf' = mf /\ UNCHANGED seeds
      /\ flow_cnt' = [flow_cnt EXCEPT ![k] = @ + f]
      /\ filtered' = [filtered EXCEPT ![k] = @ + 0]
      /\ rs' = WRsAfter(k, f)
      /\ reach' = [reach EXCEPT ![k] = [d \in Depths |->
                     IF A[d].runs THEN @[d] + A[d].left ELSE @[d]]]
  BY <1>3 DEF InsertWeighted
<1>5. filtered' = filtered
  <2>1. filtered[k] + 0 = filtered[k] /\ filtered \in [Keys -> Nat]
    BY DEF MixedInv, QueryInv, TypeOK
  <2> QED BY <1>4, <2>1
<1>6. C \in [Depths -> Nat] /\ C[0] = f
  BY <1>1, <1>2
<1>7. ASSUME NEW i \in Levels
      PROVE  /\ i \in T <=> A[i].runs /\ ~ Passes(k, i)
             /\ i \notin T => A[i + 1] = A[i]
             /\ i \in T => LET o == OfferAt(k, i, A[i].left)
                           IN  (A[i + 1].runs <=> o.left # 0) /\ A[i + 1].left = o.left
  <2>1. i \in T <=> A[i].runs /\ ~ Passes(k, i)
    BY DEF Takes
  <2> HIDE DEF A, T
  <2>2. i \notin T => A[i + 1] = A[i]
    BY <1>2, <2>1 DEF Onward
  <2> DEFINE rest == OfferAt(k, i, A[i].left).left
  <2>3. i \in T => A[i + 1] = [runs |-> rest # 0, left |-> rest]
    BY <1>2, <2>1 DEF Onward
  <2> HIDE DEF rest
  <2>4. i \in T => (A[i + 1].runs <=> rest # 0) /\ A[i + 1].left = rest
    <3>1. (rest # 0) \in BOOLEAN
      OBVIOUS
    <3> QED BY <2>3, <3>1, ArrivalRecord
  <2> QED BY <2>1, <2>2, <2>4 DEF rest
<1> HIDE DEF A
<1>8. ASSUME NEW i \in Levels
      PROVE  /\ C[i + 1] <= C[i]
             /\ i \notin T => C[i + 1] = C[i]
             /\ i \in T => LET o == OfferAt(k, i, A[i].left)
                           IN  /\ Counted(BucketOf(k, i), o.bucket, k, C[i] - C[i + 1],
                                          rs_err_bound[i])
                               /\ C[i + 1] = o.left
                               /\ o.left # 0 => o.bucket.locked /\ o.bucket.id # k
  <2>1. /\ C[i] = IF A[i].runs THEN A[i].left ELSE 0
        /\ C[i + 1] = IF A[i + 1].runs THEN A[i + 1].left ELSE 0
        /\ A[i].left \in Nat
    BY <1>1, <1>2
  <2>2. CASE i \in T
    <3> DEFINE o == OfferAt(k, i, A[i].left)
    <3>1. /\ A[i].runs /\ ~ Passes(k, i)
          /\ A[i + 1].runs <=> o.left # 0
          /\ A[i + 1].left = o.left
      BY <1>7, <2>2
    <3>2. /\ o.left \in 0 .. A[i].left
          /\ Counted(BucketOf(k, i), o.bucket, k, A[i].left - o.left, rs_err_bound[i])
          /\ o.left # 0 => o.bucket.locked /\ o.bucket.id # k
      BY <2>1, <3>1, OfferAtCounted
    <3> HIDE DEF o, T, C
    <3>3. C[i] = A[i].left /\ C[i + 1] = o.left
      BY <2>1, <3>1, <3>2
    <3>4. C[i + 1] <= C[i] /\ C[i] - C[i + 1] = A[i].left - o.left
      BY <2>1, <3>2, <3>3
    <3> QED BY <2>2, <3>2, <3>3, <3>4 DEF o
  <2>3. CASE i \notin T
    <3>1. A[i + 1] = A[i]
      BY <1>7, <2>3
    <3> HIDE DEF T, C
    <3> QED BY <2>1, <2>3, <3>1
  <2> QED BY <2>2, <2>3
<1>9. ASSUME NEW i \in Levels, NEW p \in Rows(i)
      PROVE  rs'[i][p] = IF i \in T /\ p = rsPos[i][k]
                         THEN OfferAt(k, i, A[i].left).bucket ELSE rs[i][p]
  BY <1>4 DEF WRsAfter, A
<1>10. ASSUME NEW i \in Levels
       PROVE  /\ BucketOf(k, i)' = IF i \in T THEN OfferAt(k, i, A[i].left).bucket
                                              ELSE BucketOf(k, i)
              /\ rsPos[i][k] \in Rows(i)
  <2>1. rsPos[i][k] \in Rows(i) /\ rsPos' = rsPos
    BY <1>4, BucketOfType DEF MixedInv, QueryInv, seeds
  <2> QED BY <1>9, <2>1 DEF BucketOf
\* A walk that still runs below level i left a bucket there that passes k on.
<1>11. ASSUME NEW i \in Levels, A[i + 1].runs
       PROVE  Passes(k, i)' /\ A[i].runs
  <2>1. CASE i \in T
    <3>1. A[i].runs /\ OfferAt(k, i, A[i].left).left # 0
      BY <1>7, <1>11, <2>1
    <3>2. BucketOf(k, i)'.locked /\ BucketOf(k, i)'.id # k
      BY <1>8, <1>10, <2>1, <3>1
    <3> QED BY <3>1, <3>2 DEF Passes
  <2>2. CASE i \notin T
    <3>1. A[i].runs /\ Passes(k, i)
      BY <1>7, <1>11, <2>2
    <3>2. BucketOf(k, i)' = BucketOf(k, i)
      BY <1>10, <2>2
    <3> QED BY <3>1, <3>2 DEF Passes
  <2> QED BY <2>1, <2>2
<1>12. \A i \in Levels : A[i].runs => \A j \in 0 .. i - 1 : Passes(k, j)'
  <2> DEFINE S == {d \in Depths : A[d].runs => \A j \in 0 .. d - 1 : Passes(k, j)'}
  <2>1. 0 \in S
    BY <1>1
  <2>2. ASSUME NEW d \in 0 .. rs_level - 1, d \in S
        PROVE  d + 1 \in S
    <3>1. d \in Levels /\ d + 1 \in Depths
      BY LevelAssumption DEF Levels, Depths
    <3>2. ASSUME A[d + 1].runs, NEW j \in 0 .. (d + 1) - 1
          PROVE  Passes(k, j)'
      <4>1. A[d].runs /\ Passes(k, d)'
        BY <1>11, <3>1, <3>2
      <4>2. j = d \/ j \in 0 .. d - 1
        OBVIOUS
      <4> QED BY <2>2, <4>1, <4>2
    <3> QED BY <3>1, <3>2
  <2>3. Depths \subseteq S
    <3> HIDE DEF S
    <3> QED BY <2>1, <2>2, UpwardInduction, LevelAssumption DEF Depths
  <2> QED BY <1>1, <2>3
<1>13. WalkStep(k, T, C)
  <2>1. \A i \in Levels : C[i + 1] > 0 => Passes(k, i)'
    BY <1>1, <1>2, <1>11
  <2>2. reach' = [reach EXCEPT ![k] = [d \in Depths |-> @[d] + C[d]]]
    <3>1. \A d \in Depths : reach[k][d] \in Nat
      BY DEF MixedInv, QueryInv, TypeOK
    <3>2. [d \in Depths |-> IF A[d].runs THEN reach[k][d] + A[d].left ELSE reach[k][d]]
            = [d \in Depths |-> reach[k][d] + C[d]]
      BY <3>1
    <3> QED BY <1>4, <3>2
  <2>3. DOMAIN rs' = Levels /\ \A i \in Levels : rs'[i] = [p \in Rows(i) |-> rs'[i][p]]
    BY <1>4 DEF WRsAfter
  <2>4. \A i \in T : ~ Passes(k, i) /\ \A j \in 0 .. i - 1 : Passes(k, j)'
    BY <1>7, <1>12
  <2>5. \A i \in Levels : BucketOf(k, i) = rs[i][rsPos[i][k]]
    BY DEF BucketOf
  <2> HIDE DEF T, C
  <2>6. ASSUME NEW i \in Levels, NEW p \in Rows(i)
        PROVE  IF i \in T /\ p = rsPos[i][k]
               THEN /\ ~ Passes(k, i)
                    /\ Counted(rs[i][p], rs'[i][p], k, C[i] - C[i + 1], rs_err_bound[i])
                    /\ \A j \in 0 .. i - 1 : Passes(k, j)'
               ELSE rs'[i][p] = rs[i][p]
    BY <1>8, <1>9, <2>4, <2>5
  <2>7. /\ UNCHANGED <<seeds, mf, filtered>>
        /\ flow_cnt' = [flow_cnt EXCEPT ![k] = @ + C[0]]
    BY <1>4, <1>5, <1>6
  <2> QED BY <1>8, <2>1, <2>2, <2>3, <2>6, <2>7 DEF WalkStep
<1>14. T \in SUBSET Levels
  OBVIOUS
<1> HIDE DEF T, C
<1> QED BY <1>6, <1>13, <1>14
-----------------------------------------------------------------------------
(* The invariant of every behaviour.                                       *)

\* Zeroed tables satisfy the invariant.
LEMMA EmptyMixedInv == Init => MixedInv
<1> SUFFICES ASSUME Init PROVE MixedInv
  OBVIOUS
<1>1. QueryInv
  BY EmptyIInv, IInvForQueries
<1>2. MixedVotesInv /\ CandidateInv
  BY LevelAssumption DEF MixedVotesInv, CandidateInv, VotesWithin, Init, EmptyRs,
                         EmptyBucket
<1> QED BY <1>1, <1>2 DEF MixedInv

\* Without a filter every insertion is a walk.
LEMMA MixedSteps ==
  ASSUME mf_row_size = 0, MixedInv, [WNext]_vars
  PROVE  \/ Clear
         \/ UNCHANGED vars
         \/ \E k \in Keys : \E T \in SUBSET Levels : \E C \in [Depths -> Nat] :
              WalkStep(k, T, C)
<1>1. MfRows = {}
  BY DEF MfRows
<1>2. \A k \in Keys : ~ InsertMf(k)
  BY <1>1 DEF InsertMf, Absorbs
<1> QED BY <1>1, <1>2, InsertRsWalks, InsertWeightedWalks DEF WNext, Next

\* The strengthened invariant holds of every mixture of the two insertions.
THEOREM MixedInvariant ==
  ASSUME mf_row_size = 0
  PROVE  WSpec => []MixedInv
<1>1. Init => MixedInv
  BY EmptyMixedInv
<1>2. MixedInv /\ [WNext]_vars => MixedInv'
  <2> SUFFICES ASSUME MixedInv, [WNext]_vars
               PROVE  MixedInv'
    OBVIOUS
  <2>1. CASE Clear
    <3>1. Init'
      BY <2>1 DEF Clear, Init, seeds, MixedInv, QueryInv, TypeOK
    <3>2. Init' => MixedInv'
      BY EmptyMixedInv, PTL
    <3> QED BY <3>1, <3>2
  <2>2. ASSUME NEW k \in Keys, NEW T \in SUBSET Levels, NEW C \in [Depths -> Nat],
               WalkStep(k, T, C)
        PROVE  MixedInv'
    BY <2>2, WalkKeepsMixedInv DEF MfRows
  <2>3. CASE UNCHANGED vars
    BY <2>3 DEF vars, MixedInv, QueryInv, TypeOK, Accounted, FilterInv, WalkInv,
                LeadInv, ShareInv, NothingBelowTheStop, MixedVotesInv, CandidateInv,
                MfCell, BucketOf, Passes, recorded
  <2> QED BY <2>1, <2>2, <2>3, MixedSteps
<1> QED BY <1>1, <1>2, PTL DEF WSpec
-----------------------------------------------------------------------------
(* What the queries answer.                                                *)

\* A candidate on a deeper level found the levels above it locked by others.
LEMMA NoDuplicateMixed == MixedInv => NoDuplicateReport
<1> DEFINE Owns(i, p) == i \in Levels /\ p \in Rows(i) /\ rs[i][p].yes_cnt > 0
<1> SUFFICES ASSUME MixedInv PROVE NoDuplicateReport
  OBVIOUS
<1>1. ASSUME NEW i, NEW p, Owns(i, p)
      PROVE  LET x == rs[i][p].id
             IN  /\ x \in Keys /\ p = rsPos[i][x] /\ ~ Passes(x, i)
                 /\ \A j \in 0 .. i - 1 : Passes(x, j)
  BY <1>1 DEF MixedInv, CandidateInv, Passes, BucketOf
<1>2. ASSUME NEW i, NEW p, NEW j, NEW q, Owns(i, p), Owns(j, q),
             rs[i][p].id = rs[j][q].id
      PROVE  ~ (i < j)
  <2>1. i < j => i \in 0 .. j - 1
    BY <1>2, LevelAssumption DEF Levels
  <2> QED BY <1>1, <1>2, <2>1
<1>3. ASSUME NEW e \in query_heavyhitter(0), NEW f \in query_heavyhitter(0),
             rs[e.level][e.pos].id = rs[f.level][f.pos].id
      PROVE  e = f
  <2>1. /\ Owns(e.level, e.pos) /\ Owns(f.level, f.pos)
        /\ e = [level |-> e.level, pos |-> e.pos]
        /\ f = [level |-> f.level, pos |-> f.pos]
    BY DEF query_heavyhitter
  <2>2. e.level \in Int /\ f.level \in Int
    BY <2>1, LevelAssumption DEF Levels
  <2>3. ~ (e.level < f.level) /\ ~ (f.level < e.level)
    BY <1>2, <1>3, <2>1
  <2>4. e.level = f.level
    BY <2>2, <2>3
  <2>5. e.pos = f.pos
    BY <1>1, <1>3, <2>1, <2>4
  <2> QED BY <2>1, <2>4, <2>5
<1> QED BY <1>3 DEF NoDuplicateReport

\* What each level hides when both insertions are used, and the sum of it.
MixedNoiseOf == [d \in Levels |-> rs_err_bound[d] + 1]

LEMMA MixedNoiseFromEquations ==
  /\ \A d \in Levels : MixedNoiseOf[d] \in Nat
  /\ \A d \in Depths :
       /\ MixedNoiseFrom[d] =
            IF d = rs_level THEN 0 ELSE MixedNoiseOf[d] + MixedNoiseFrom[d + 1]
       /\ MixedNoiseFrom[d] \in Nat
<1>1. \A d \in Levels : MixedNoiseOf[d] \in Nat
  BY LevelAssumption DEF MixedNoiseOf
<1>2. \A d \in Depths : d # rs_level => MixedNoiseOf[d] = rs_err_bound[d] + 1
  BY LevelAssumption DEF MixedNoiseOf, Depths, Levels
<1>3. PICK g : g = [d \in Depths |->
                     IF d = rs_level THEN 0 ELSE MixedNoiseOf[d] + g[d + 1]]
  BY <1>1, LevelSumExists
<1>4. g = [d \in Depths |-> IF d = rs_level THEN 0 ELSE rs_err_bound[d] + 1 + g[d + 1]]
  BY <1>2, <1>3
<1>5. MixedNoiseFrom =
        [d \in Depths |->
          IF d = rs_level THEN 0 ELSE rs_err_bound[d] + 1 + MixedNoiseFrom[d + 1]]
  BY <1>4 DEF MixedNoiseFrom
<1>6. MixedNoiseFrom =
        [d \in Depths |->
          IF d = rs_level THEN 0 ELSE MixedNoiseOf[d] + MixedNoiseFrom[d + 1]]
  BY <1>2, <1>5
<1> QED BY <1>1, <1>6, LevelSumEquations

\* The range of a query holds the votes against on the levels that it passes.
LEMMA MixedRangeBoundedStep == MixedInv => MixedRangeBounded
<1> SUFFICES ASSUME MixedInv, NEW k \in Keys
             PROVE  query_freq(k) - query_freq_low(k) <= MfNoise + MixedNoiseFrom[0]
  BY DEF MixedRangeBounded
<1>1. \A i \in Levels : \A p \in Rows(i) : rs[i][p].no_cnt <= MixedNoiseOf[i]
  BY DEF MixedInv, MixedVotesInv, VotesWithin, MixedNoiseOf
<1>2. 0 \in Depths /\ QueryInv
  BY LevelAssumption DEF Depths, MixedInv
<1> QED BY <1>1, <1>2, MixedNoiseFromEquations, EstFromRange, RangeWithin
-----------------------------------------------------------------------------
(* The theorems.                                                           *)

\* query_freq loses no item that was not dropped, however the weights are carried
\* from level to level.
THEOREM MixedNeverUnderestimates ==
  ASSUME mf_row_size = 0
  PROVE  WSpec => []NeverUnderestimates
<1>1. MixedInv => NeverUnderestimates
  BY NeverUnderestimatesStep DEF MixedInv
<1> QED BY <1>1, MixedInvariant, PTL

\* query_freq_low never exceeds the true count.
THEOREM MixedLowerBound ==
  ASSUME mf_row_size = 0
  PROVE  WSpec => []LowerBoundSound
<1>1. MixedInv => LowerBoundSound
  BY LowerBoundSoundStep DEF MixedInv
<1> QED BY <1>1, MixedInvariant, PTL

\* The certified range is at most the bounds of the levels, one more for each.
THEOREM MixedRange ==
  ASSUME mf_row_size = 0
  PROVE  WSpec => []MixedRangeBounded
  BY MixedRangeBoundedStep, MixedInvariant, PTL

\* Nothing of a key lies below the bucket at which its walk stops.
THEOREM MixedNothingBelow ==
  ASSUME mf_row_size = 0
  PROVE  WSpec => []NothingBelowTheStop
<1>1. MixedInv => NothingBelowTheStop
  BY DEF MixedInv, QueryInv
<1> QED BY <1>1, MixedInvariant, PTL

\* query_heavyhitter reports no key twice.
THEOREM MixedNoDuplicateReport ==
  ASSUME mf_row_size = 0
  PROVE  WSpec => []NoDuplicateReport
  BY NoDuplicateMixed, MixedInvariant, PTL

\* A key that lost items answers "not recorded" ever after.
THEOREM MixedDropsAreVisible ==
  ASSUME mf_row_size = 0
  PROVE  WSpec => []DropsAreVisible
<1>1. MixedInv => DropsAreVisible
  BY DropsAreVisibleStep DEF MixedInv
<1> QED BY <1>1, MixedInvariant, PTL

\* A locked bucket keeps candidate and votes against until init.
THEOREM MixedLockedIsFinal ==
  ASSUME mf_row_size = 0
  PROVE  WSpec => LockedIsFinal
<1> DEFINE Final ==
      \A i \in Levels : \A p \in Rows(i) :
        rs[i][p].locked =>
          \/ rs' = EmptyRs
          \/ /\ rs'[i][p].locked
             /\ rs'[i][p].id = rs[i][p].id
             /\ rs'[i][p].no_cnt = rs[i][p].no_cnt
<1>1. MixedInv /\ [WNext]_vars => [Final]_vars
  <2> SUFFICES ASSUME MixedInv, [WNext]_vars
               PROVE  Final \/ UNCHANGED vars
    OBVIOUS
  <2>1. CASE Clear
    BY <2>1 DEF Clear
  <2>2. ASSUME NEW k \in Keys, NEW T \in SUBSET Levels, NEW C \in [Depths -> Nat],
               WalkStep(k, T, C)
        PROVE  Final
    BY <2>2, WalkKeepsLocks
  <2> QED BY <2>1, <2>2, MixedSteps
<1> QED BY <1>1, MixedInvariant, PTL DEF WSpec, LockedIsFinal
=============================================================================
