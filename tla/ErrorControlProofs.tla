------------------------- MODULE ErrorControlProofs -------------------------
(* Proofs about ErrorControl, for every number of keys, layers and buckets *)
(* and for every pattern of late, repeated and lost INFORM copies.         *)
EXTENDS ErrorControl, TLAPS

Even(n) == \E h \in Nat : n = 2 * h

\* The counters that are compared for equality move on the even numbers.
EvenInv ==
  /\ \A f \in Filters : \A c \in FilterIndexes : Even(filter_counter[f][c])
  /\ \A s \in Slots : Even(collision(s))

\* Each packet the filter absorbed has moved both counters of its key.
FilterInv ==
  \A k \in Keys : \A f \in Filters :
    2 * absorbed[k] <= filter_counter[f][index_cf[f][k]]

IInv ==
  /\ TypeOK
  /\ EvenInv
  /\ FilterInv
  /\ NoNegativeLead
  /\ ShareCovered
  /\ LeadSound
  /\ LockedMeansExhausted
  /\ NothingBelow
  /\ ExhaustedIsAnnounced
-----------------------------------------------------------------------------
(* Numbers, slots and registers.                                           *)

LEMMA EvenStep ==
  ASSUME NEW a \in Nat, NEW b \in Nat, Even(a), Even(b), a < b
  PROVE  a + 2 <= b
BY DEF Even

LEMMA EvenNext == ASSUME NEW a \in Nat, Even(a) PROVE Even(a + 2)
<1>1. PICK h \in Nat : a = 2 * h BY DEF Even
<1>2. a + 2 = 2 * (h + 1) /\ h + 1 \in Nat BY <1>1
<1> QED BY <1>2 DEF Even

LEMMA MaxColType ==
  ASSUME NEW i \in Layers
  PROVE  max_col[i] \in Nat /\ max_col[i] > 0 /\ Even(max_col[i])
BY CollisionAssumption DEF Even

LEMMA ThresholdType == cf_threshold \in Nat /\ Even(cf_threshold)
BY FilterAssumption DEF Even

LEMMA SlotType ==
  ASSUME NEW k \in Keys, NEW i \in Layers
  PROVE  Slot(k, i) \in Slots /\ Slot(k, i)[1] = i
BY LayerAssumption DEF Slot, Slots

LEMMA SlotLayer == ASSUME NEW s \in Slots PROVE s[1] \in Layers
BY DEF Slots

\* The three ways an unlocked bucket counts a packet, given that the difference
\* of its counters did not wrap around.
LEMMA ElectSplit ==
  ASSUME NEW r \in ID_collision, NEW k \in Keys, NEW T \in Nat, T + 1 >= r.collision
  PROVE  LET e == Elect(r, k, T + 1)
         IN  /\ e \in ID_collision
             /\ \/ T + 1 = r.collision /\ e.ID = k /\ e.collision = r.collision
                \/ T + 1 > r.collision /\ k # r.ID /\ e.ID = r.ID
                   /\ e.collision = r.collision + 2
                \/ T + 1 > r.collision /\ k = r.ID /\ e.ID = r.ID
                   /\ e.collision = r.collision
BY DEF ID_collision, Elect
-----------------------------------------------------------------------------
LEMMA InitInv == Init => IInv
<1> SUFFICES ASSUME Init PROVE IInv OBVIOUS
<1> USE DEF Init
<1>0. Even(0) BY DEF Even
<1>1. TypeOK BY LayerAssumption, FilterAssumption DEF TypeOK, ID_collision
<1>2. EvenInv BY <1>0 DEF EvenInv, collision
<1>3. FilterInv BY FilterAssumption DEF FilterInv
<1>4. NoNegativeLead BY DEF NoNegativeLead, collision
<1>5. ASSUME NEW k \in Keys, NEW i \in Layers
      PROVE  /\ Slot(k, i) \in Slots
             /\ recorded[k][i] = 0
             /\ ~ flag_bit[Slot(k, i)]
             /\ collision(Slot(k, i)) = 0
             /\ total_counter[Slot(k, i)] = 0
  <2>1. i \in Depths BY LayerAssumption DEF Layers, Depths
  <2>2. Slot(k, i) \in Slots BY SlotType
  <2> QED BY <2>1, <2>2 DEF collision
<1>6. ShareCovered BY <1>5 DEF ShareCovered
<1>7. LeadSound BY <1>5 DEF LeadSound
<1>8. LockedMeansExhausted BY DEF LockedMeansExhausted
<1>9. NothingBelow BY DEF NothingBelow
<1>10. ExhaustedIsAnnounced
  BY MaxColType, SlotLayer DEF ExhaustedIsAnnounced, collision
<1> QED BY <1>1, <1>2, <1>3, <1>4, <1>6, <1>7, <1>8, <1>9, <1>10 DEF IInv
-----------------------------------------------------------------------------
(* Absorb touches the filter only.                                         *)
LEMMA AbsorbKeeps ==
  ASSUME IInv, NEW k \in Keys, Absorb(k)
  PROVE  IInv'
<1> USE DEF IInv
<1>1. ASSUME NEW f \in Filters, NEW c \in FilterIndexes
      PROVE  /\ FilterStep(filter_counter[f][c]) \in 0 .. cf_threshold
             /\ Even(FilterStep(filter_counter[f][c]))
             /\ FilterStep(filter_counter[f][c]) >= filter_counter[f][c]
             /\ filter_counter[f][c] # cf_threshold =>
                  FilterStep(filter_counter[f][c]) = filter_counter[f][c] + 2
  <2>1. filter_counter[f][c] \in 0 .. cf_threshold /\ Even(filter_counter[f][c])
    BY DEF TypeOK, EvenInv
  <2>2. filter_counter[f][c] # cf_threshold =>
          /\ filter_counter[f][c] + 2 <= cf_threshold
          /\ Even(filter_counter[f][c] + 2)
    BY <2>1, ThresholdType, EvenStep, EvenNext
  <2> QED BY <2>1, <2>2, ThresholdType DEF FilterStep
<1>2. /\ filter_counter' \in [Filters -> [FilterIndexes -> 0 .. cf_threshold]]
      /\ \A f \in Filters : \A c \in FilterIndexes :
           filter_counter'[f][c] = IF c = index_cf[f][k]
                                   THEN FilterStep(filter_counter[f][c])
                                   ELSE filter_counter[f][c]
  BY <1>1 DEF Absorb, FilterAfter, TypeOK
<1>3. absorbed' \in [Keys -> Nat] /\ packets' \in Nat
  BY DEF Absorb, Receive, TypeOK
<1>4. TypeOK' BY <1>2, <1>3 DEF Absorb, TypeOK
<1>5. EvenInv' BY <1>1, <1>2 DEF Absorb, EvenInv, collision
<1>6. FilterInv'
  <2> SUFFICES ASSUME NEW q \in Keys, NEW f \in Filters
               PROVE  2 * absorbed'[q] <= filter_counter'[f][index_cf[f][q]]
    BY DEF FilterInv
  <2>1. index_cf[f][q] \in FilterIndexes BY FilterAssumption
  <2> DEFINE c == filter_counter[f][index_cf[f][q]]
             d == filter_counter'[f][index_cf[f][q]]
  <2>2. /\ c \in 0 .. cf_threshold /\ d \in 0 .. cf_threshold /\ d >= c
        /\ absorbed[q] \in Nat /\ 2 * absorbed[q] <= c
    BY <1>1, <1>2, <2>1 DEF TypeOK, FilterInv
  <2>3. CASE q # k BY <2>2, <2>3 DEF Absorb, TypeOK
  <2>4. CASE q = k
    <3>1. absorbed'[q] = absorbed[q] + 1 BY <2>4 DEF Absorb, TypeOK
    <3>2. PICK g \in Filters : filter_counter[g][index_cf[g][k]] # cf_threshold
      BY DEF Absorb, PassesFilter
    <3>3. /\ index_cf[g][k] \in FilterIndexes
          /\ filter_counter[g][index_cf[g][k]] \in 0 .. cf_threshold
          /\ Even(filter_counter[g][index_cf[g][k]])
          /\ 2 * absorbed[q] <= filter_counter[g][index_cf[g][k]]
      BY <2>4, FilterAssumption DEF TypeOK, FilterInv, EvenInv
    <3>4. 2 * absorbed[q] + 2 <= cf_threshold
      BY <2>2, <3>2, <3>3, ThresholdType, EvenStep
    <3>5. d = FilterStep(c) BY <2>1, <2>4, <1>2
    <3>6. CASE c = cf_threshold
      BY <2>2, <3>1, <3>4, <3>5, <3>6, ThresholdType DEF FilterStep
    <3>7. CASE c # cf_threshold
      BY <2>2, <3>1, <3>5, <3>7, ThresholdType DEF FilterStep
    <3> QED BY <3>6, <3>7
  <2> QED BY <2>3, <2>4
<1>7. /\ NoNegativeLead' /\ ShareCovered' /\ LeadSound' /\ LockedMeansExhausted'
      /\ NothingBelow' /\ ExhaustedIsAnnounced'
  BY DEF Absorb, NoNegativeLead, ShareCovered, LeadSound, LockedMeansExhausted,
         NothingBelow, ExhaustedIsAnnounced, PassesOn, collision, ID, Slot
<1> QED BY <1>4, <1>5, <1>6, <1>7
-----------------------------------------------------------------------------
(* Counting in a bucket.                                                   *)

\* Counting in a bucket of layer i that k reaches leaves nothing below an
\* unpassed bucket, provided no key is passed on by fewer buckets than before.
LEMMA CountBelow ==
  ASSUME TypeOK, NothingBelow, NEW k \in Keys, NEW i \in Depths, Reaches(k, i),
         recorded' = [recorded EXCEPT ![k][i] = @ + 1],
         \A q \in Keys : \A j \in Layers : PassesOn(q, j) => PassesOn(q, j)'
  PROVE  NothingBelow'
<1> SUFFICES ASSUME NEW q \in Keys, NEW j \in Layers, ~ PassesOn(q, j)',
                    NEW d \in Depths, d > j
             PROVE  recorded'[q][d] = 0
  BY DEF NothingBelow
<1>1. recorded[q][d] = 0 /\ ~ PassesOn(q, j) BY DEF NothingBelow
<1>2. CASE q = k /\ d = i BY <1>1, <1>2 DEF Reaches, Layers, Depths
<1>3. CASE ~ (q = k /\ d = i) BY <1>1, <1>3 DEF TypeOK
<1> QED BY <1>2, <1>3

LEMMA RecordedType ==
  ASSUME TypeOK, NEW k \in Keys, NEW i \in Depths,
         recorded' = [recorded EXCEPT ![k][i] = @ + 1]
  PROVE  /\ recorded' \in [Keys -> [Depths -> Nat]]
         /\ \A q \in Keys : \A d \in Depths :
              recorded'[q][d] = IF q = k /\ d = i THEN recorded[q][d] + 1
                                ELSE recorded[q][d]
BY DEF TypeOK

LEMMA LayerDepth == /\ Layers \subseteq Depths
                    /\ num_layers \in Layers
                    /\ num_layers + 1 \in Depths
                    /\ num_layers + 1 \notin Layers
BY LayerAssumption DEF Layers, Depths

LEMMA CountOpenKeeps ==
  ASSUME IInv, NEW k \in Keys, NEW i \in Layers, CountOpen(k, i)
  PROVE  /\ IInv'
         /\ \A s \in Slots : flag_bit[s] => ID_collision_counter'[s].ID = ID(s)
<1> DEFINE s == Slot(k, i)
           r == ID_collision_counter[s]
           T == total_counter[s]
           e == Elect(r, k, T + 1)
<1> USE DEF IInv
<1>s. s \in Slots /\ s[1] = i /\ s = Slot(k, i) BY SlotType
<1>d. i \in Depths /\ Layers \subseteq Depths BY LayerDepth
<1>t. r \in ID_collision /\ T \in Nat /\ ~ flag_bit[s] /\ T + 1 >= r.collision
  BY <1>s DEF TypeOK, NoNegativeLead, CountOpen, collision
<1>e. /\ e \in ID_collision
      /\ \/ T + 1 = r.collision /\ e.ID = k /\ e.collision = r.collision
         \/ T + 1 > r.collision /\ k # r.ID /\ e.ID = r.ID
            /\ e.collision = r.collision + 2
         \/ T + 1 > r.collision /\ k = r.ID /\ e.ID = r.ID
            /\ e.collision = r.collision
  BY <1>t, ElectSplit
<1>c. /\ total_counter' = [total_counter EXCEPT ![s] = T + 1]
      /\ ID_collision_counter' = [ID_collision_counter EXCEPT ![s] = e]
      /\ informs' = [informs EXCEPT ![s] = IF Mirrors(i, e.collision) THEN @ + 1 ELSE @]
      /\ recorded' = [recorded EXCEPT ![k][i] = @ + 1]
      /\ UNCHANGED <<filter_counter, flag_bit, out_c, absorbed>>
      /\ Reaches(k, i)
      /\ packets' = packets + 1
  BY DEF CountOpen, Receive
<1> HIDE DEF e
<1>1. TypeOK' BY <1>s, <1>d, <1>t, <1>e, <1>c, RecordedType DEF TypeOK
<1>u. /\ total_counter'[s] = T + 1
      /\ ID_collision_counter'[s] = e
      /\ \A u \in Slots : u # s =>
           /\ total_counter'[u] = total_counter[u]
           /\ ID_collision_counter'[u] = ID_collision_counter[u]
           /\ informs'[u] = informs[u]
      /\ flag_bit' = flag_bit
      /\ informs'[s] = IF Mirrors(i, e.collision) THEN informs[s] + 1 ELSE informs[s]
  BY <1>s, <1>c DEF TypeOK
<1>v. /\ r.collision \in Nat /\ e.collision \in Nat /\ e.collision >= r.collision
      /\ Even(r.collision) /\ Even(e.collision)
      /\ e.collision # r.collision => e.collision = r.collision + 2
  <2>1. r.collision \in Nat /\ e.collision \in Nat BY <1>t, <1>e DEF ID_collision
  <2>2. Even(r.collision) BY <1>s DEF EvenInv, collision
  <2> QED BY <2>1, <2>2, <1>e, EvenNext
<1>2. EvenInv' BY <1>c, <1>u, <1>v DEF EvenInv, collision
<1>3. FilterInv' BY <1>c DEF FilterInv
<1>4. NoNegativeLead'
  BY <1>t, <1>u, <1>v, <1>e DEF NoNegativeLead, collision
<1>id. \A u \in Slots : flag_bit[u] => ID_collision_counter'[u].ID = ID(u)
  BY <1>t, <1>u DEF ID
<1>5. ShareCovered' /\ LeadSound'
  <2> SUFFICES ASSUME NEW q \in Keys, NEW j \in Layers
               PROVE  LET u == Slot(q, j)
                          C == ID_collision_counter'[u].collision
                          n == recorded'[q][j]
                      IN  /\ IF ID_collision_counter'[u].ID # q THEN 2 * n <= C
                             ELSE IF ~ flag_bit'[u]
                             THEN 2 * n <= 2 * total_counter'[u] - C + 2
                             ELSE 2 * n <= 2 * total_counter'[u] + C - 2 * max_col[j] + 2
                          /\ ~ flag_bit'[u] /\ ID_collision_counter'[u].ID = q =>
                               total_counter'[u] - C <= n
    BY DEF ShareCovered, LeadSound, ID, collision, Slot
  <2>1. Slot(q, j) \in Slots /\ Slot(q, j)[1] = j BY SlotType
  <2>2. /\ recorded[q][j] \in Nat
        /\ recorded'[q][j] = IF q = k /\ j = i THEN recorded[q][j] + 1
                             ELSE recorded[q][j]
    BY <1>c, <1>d, RecordedType DEF TypeOK
  <2>3. CASE Slot(q, j) # s
    <3>1. ~ (q = k /\ j = i) BY <2>3
    <3> QED BY <2>1, <2>2, <2>3, <3>1, <1>u DEF ShareCovered, LeadSound, ID, collision
  <2>4. CASE Slot(q, j) = s
    <3>1. j = i BY <2>1, <2>4, <1>s
    <3>2. /\ r.ID # q => 2 * recorded[q][j] <= r.collision
          /\ r.ID = q => 2 * recorded[q][j] <= 2 * T - r.collision + 2
          /\ r.ID = q => T - r.collision <= recorded[q][j]
      BY <2>4, <1>t DEF ShareCovered, LeadSound, ID, collision
    <3>3. /\ e.ID # q => 2 * recorded'[q][j] <= e.collision
          /\ e.ID = q => 2 * recorded'[q][j] <= 2 * (T + 1) - e.collision + 2
          /\ e.ID = q => T + 1 - e.collision <= recorded'[q][j]
      <4> HIDE DEF s, r, T
      <4> QED BY <3>1, <3>2, <2>2, <1>e, <1>v, <1>t
    <3>4. /\ ~ flag_bit'[Slot(q, j)]
          /\ ID_collision_counter'[Slot(q, j)] = e
          /\ total_counter'[Slot(q, j)] = T + 1
      BY <2>4, <1>u, <1>t
    <3> HIDE DEF s, r, T
    <3> QED BY <3>3, <3>4, <2>2, <1>v, <1>t
  <2> QED BY <2>3, <2>4
<1>6. LockedMeansExhausted'
  <2> SUFFICES ASSUME NEW u \in Slots, flag_bit'[u] \/ informs'[u] > 0
               PROVE  ID_collision_counter'[u].collision >= max_col[u[1]]
    BY DEF LockedMeansExhausted, collision
  <2>1. CASE u # s BY <2>1, <1>u DEF LockedMeansExhausted, collision
  <2>2. CASE u = s /\ Mirrors(i, e.collision)
    BY <2>2, <1>u, <1>s, <1>v, MaxColType DEF Mirrors
  <2>3. CASE u = s /\ ~ Mirrors(i, e.collision)
    <3>1. r.collision >= max_col[i]
      BY <2>3, <1>u, <1>s DEF LockedMeansExhausted, collision
    <3> QED BY <3>1, <2>3, <1>u, <1>s, <1>v, MaxColType
  <2> QED BY <2>1, <2>2, <2>3
<1>7. NothingBelow'
  <2>1. \A q \in Keys : \A j \in Layers : PassesOn(q, j) => PassesOn(q, j)'
    BY <1>id, <1>u, SlotType DEF PassesOn, ID, Slot
  <2> QED BY <2>1, <1>c, <1>d, CountBelow
<1>8. ExhaustedIsAnnounced'
  <2> SUFFICES ASSUME ~ MirrorMayDrop, NEW u \in Slots,
                      ID_collision_counter'[u].collision >= max_col[u[1]]
               PROVE  flag_bit'[u] \/ informs'[u] > 0
    BY DEF ExhaustedIsAnnounced, collision
  <2>1. CASE u # s BY <2>1, <1>u DEF ExhaustedIsAnnounced, collision
  <2>2. CASE u = s
    <3>1. informs[s] \in Nat BY <1>s DEF TypeOK
    <3>2. CASE r.collision >= max_col[i]
      BY <2>2, <3>1, <3>2, <1>u, <1>s DEF ExhaustedIsAnnounced, collision
    <3>3. CASE r.collision < max_col[i]
      <4>1. r.collision + 2 <= max_col[i] BY <3>3, <1>v, MaxColType, EvenStep
      <4>2. e.collision = max_col[i]
        BY <4>1, <2>2, <1>u, <1>s, <1>v, MaxColType
      <4> QED BY <4>2, <3>1, <2>2, <1>u DEF Mirrors
    <3> QED BY <3>2, <3>3, <1>v, MaxColType
  <2> QED BY <2>1, <2>2
<1> QED
  BY <1>1, <1>2, <1>3, <1>4, <1>5, <1>6, <1>7, <1>8, <1>id

LEMMA CountOwnerKeeps ==
  ASSUME IInv, NEW k \in Keys, NEW i \in Layers, CountOwner(k, i)
  PROVE  /\ IInv'
         /\ \A s \in Slots : flag_bit[s] => ID_collision_counter'[s].ID = ID(s)
<1> DEFINE s == Slot(k, i)
           r == ID_collision_counter[s]
           e == CountLocked(r)
<1> USE DEF IInv
<1>s. s \in Slots /\ s[1] = i BY SlotType
<1>d. i \in Depths /\ Layers \subseteq Depths BY LayerDepth
<1>t. r \in ID_collision /\ flag_bit[s] /\ r.ID = k /\ total_counter[s] \in Nat
  BY <1>s DEF TypeOK, CountOwner, ID
<1>e. e \in ID_collision /\ e.ID = r.ID /\ e.collision = r.collision + 2
  BY <1>t DEF ID_collision, CountLocked
<1>c. /\ ID_collision_counter' = [ID_collision_counter EXCEPT ![s] = e]
      /\ recorded' = [recorded EXCEPT ![k][i] = @ + 1]
      /\ UNCHANGED <<filter_counter, flag_bit, total_counter, out_c, informs, absorbed>>
      /\ Reaches(k, i)
      /\ packets' = packets + 1
  BY DEF CountOwner, Receive
<1> HIDE DEF e
<1>1. TypeOK'
  <2>1. recorded' \in [Keys -> [Depths -> Nat]] BY <1>d, <1>c, RecordedType
  <2>2. ID_collision_counter' \in [Slots -> ID_collision] BY <1>e, <1>c DEF TypeOK
  <2> QED BY <2>1, <2>2, <1>c DEF TypeOK
<1>u. /\ ID_collision_counter'[s] = e
      /\ \A u \in Slots : u # s =>
           ID_collision_counter'[u] = ID_collision_counter[u]
  BY <1>s, <1>c DEF TypeOK
<1>v. /\ r.collision \in Nat /\ Even(r.collision) /\ Even(e.collision)
  BY <1>s, <1>t, <1>e, EvenNext DEF ID_collision, EvenInv, collision
<1>2. EvenInv' BY <1>c, <1>u, <1>v DEF EvenInv, collision
<1>3. FilterInv' BY <1>c DEF FilterInv
<1>4. NoNegativeLead' BY <1>t, <1>u, <1>c DEF NoNegativeLead, collision
<1>id. \A u \in Slots : ID_collision_counter'[u].ID = ID(u)
  BY <1>u, <1>e DEF ID
<1>5. ShareCovered' /\ LeadSound'
  <2> SUFFICES ASSUME NEW q \in Keys, NEW j \in Layers
               PROVE  LET u == Slot(q, j)
                          C == ID_collision_counter'[u].collision
                          n == recorded'[q][j]
                      IN  /\ IF ID_collision_counter'[u].ID # q THEN 2 * n <= C
                             ELSE IF ~ flag_bit[u]
                             THEN 2 * n <= 2 * total_counter[u] - C + 2
                             ELSE 2 * n <= 2 * total_counter[u] + C - 2 * max_col[j] + 2
                          /\ ~ flag_bit[u] /\ ID_collision_counter'[u].ID = q =>
                               total_counter[u] - C <= n
    BY <1>c DEF ShareCovered, LeadSound, ID, collision, Slot
  <2>1. Slot(q, j) \in Slots /\ Slot(q, j)[1] = j BY SlotType
  <2>2. /\ recorded[q][j] \in Nat
        /\ recorded'[q][j] = IF q = k /\ j = i THEN recorded[q][j] + 1
                             ELSE recorded[q][j]
    BY <1>c, <1>d, RecordedType DEF TypeOK
  <2>3. CASE Slot(q, j) # s
    <3>1. ~ (q = k /\ j = i) BY <2>3
    <3> QED BY <2>1, <2>2, <2>3, <3>1, <1>u DEF ShareCovered, LeadSound, ID, collision
  <2>4. CASE Slot(q, j) = s
    <3>1. j = i BY <2>1, <2>4, <1>s
    <3>2. /\ k # q => 2 * recorded[q][j] <= r.collision
          /\ k = q => 2 * recorded[q][j] <=
                       2 * total_counter[s] + r.collision - 2 * max_col[i] + 2
      BY <2>4, <3>1, <1>t DEF ShareCovered, ID, collision
    <3>3. /\ k # q => 2 * recorded'[q][j] <= e.collision
          /\ k = q => 2 * recorded'[q][j] <=
                       2 * total_counter[s] + e.collision - 2 * max_col[i] + 2
      <4> HIDE DEF s, r
      <4> QED BY <3>1, <3>2, <2>2, <1>e, <1>v, <1>t, MaxColType
    <3>4. /\ flag_bit[Slot(q, j)]
          /\ ID_collision_counter'[Slot(q, j)] = e
          /\ Slot(q, j) = s /\ e.ID = k
      BY <2>4, <1>u, <1>t, <1>e
    <3> HIDE DEF s, r
    <3> QED BY <3>1, <3>3, <3>4
  <2> QED BY <2>3, <2>4
<1>6. LockedMeansExhausted'
  BY <1>c, <1>u, <1>e, <1>v, <1>s, MaxColType DEF LockedMeansExhausted, collision
<1>7. NothingBelow'
  <2>1. \A q \in Keys : \A j \in Layers : PassesOn(q, j) => PassesOn(q, j)'
    BY <1>id, <1>c, SlotType DEF PassesOn, ID, Slot
  <2> QED BY <2>1, <1>c, <1>d, CountBelow
<1>8. ExhaustedIsAnnounced'
  BY <1>c, <1>u, <1>t DEF ExhaustedIsAnnounced, collision
<1> QED
  BY <1>1, <1>2, <1>3, <1>4, <1>5, <1>6, <1>7, <1>8, <1>id

LEMMA OverflowKeeps ==
  ASSUME IInv, NEW k \in Keys, Overflow(k)
  PROVE  IInv'
<1> DEFINE d == num_layers + 1
<1> USE DEF IInv
<1>d. d \in Depths /\ Layers \subseteq Depths /\ d \notin Layers
      /\ num_layers \in Layers
  BY LayerDepth
<1>c. /\ recorded' = [recorded EXCEPT ![k][d] = @ + 1]
      /\ out_c' = [out_c EXCEPT ![index[num_layers][k]] = @ + 1]
      /\ UNCHANGED <<filter_counter, flag_bit, total_counter, ID_collision_counter,
                     informs, absorbed>>
      /\ Reaches(k, d)
      /\ packets' = packets + 1
  BY DEF Overflow, Receive
<1> HIDE DEF d
<1>r. /\ recorded' \in [Keys -> [Depths -> Nat]]
      /\ \A q \in Keys : \A j \in Layers : recorded'[q][j] = recorded[q][j]
  <2>1. TypeOK OBVIOUS
  <2>2. /\ recorded' \in [Keys -> [Depths -> Nat]]
        /\ \A q \in Keys : \A j \in Depths :
             recorded'[q][j] = IF q = k /\ j = d THEN recorded[q][j] + 1
                               ELSE recorded[q][j]
    BY <2>1, <1>c, <1>d, RecordedType
  <2> QED BY <2>2, <1>d
<1>1. TypeOK'
  <2>1. /\ index[num_layers][k] \in Indexes(num_layers)
        /\ out_c \in [Indexes(num_layers) -> Nat] /\ packets \in Nat
    BY <1>d, LayerAssumption DEF TypeOK
  <2>2. out_c' \in [Indexes(num_layers) -> Nat] /\ packets' \in Nat
    BY <2>1, <1>c
  <2> QED BY <2>2, <1>c, <1>r DEF TypeOK
<1>2. EvenInv' /\ FilterInv' /\ NoNegativeLead' /\ LockedMeansExhausted'
      /\ ExhaustedIsAnnounced'
  BY <1>c DEF EvenInv, FilterInv, NoNegativeLead, LockedMeansExhausted,
              ExhaustedIsAnnounced, collision
<1>3. ShareCovered' /\ LeadSound'
  BY <1>c, <1>r DEF ShareCovered, LeadSound, ID, collision, Slot
<1>4. NothingBelow'
  <2>1. \A q \in Keys : \A j \in Layers : PassesOn(q, j) => PassesOn(q, j)'
    BY <1>c DEF PassesOn, ID, Slot
  <2> QED BY <2>1, <1>c, <1>d, CountBelow
<1> QED BY <1>1, <1>2, <1>3, <1>4
-----------------------------------------------------------------------------
(* INFORM copies.                                                          *)

\* A lock may fall at any time after the collisions ran out: what the bucket
\* counted in the meantime is on the right side of the bounds.
LEMMA DeliverKeeps ==
  ASSUME IInv, NEW s \in Slots, Deliver(s)
  PROVE  IInv'
<1> USE DEF IInv
<1>c. /\ informs[s] > 0
      /\ informs' = [informs EXCEPT ![s] = @ - 1]
      /\ flag_bit' = [flag_bit EXCEPT ![s] = TRUE]
      /\ UNCHANGED <<filter_counter, total_counter, ID_collision_counter, out_c,
                     packets, absorbed, recorded>>
  BY DEF Deliver, SetFlag
<1>t. informs[s] \in Nat BY DEF TypeOK
<1>f. /\ flag_bit' \in [Slots -> BOOLEAN]
      /\ flag_bit'[s]
      /\ \A u \in Slots : u # s => flag_bit'[u] = flag_bit[u]
  BY <1>c DEF TypeOK
<1>g. /\ informs' \in [Slots -> Nat]
      /\ \A u \in Slots : u # s => informs'[u] = informs[u]
  BY <1>c, <1>t DEF TypeOK
<1>1. TypeOK' BY <1>c, <1>f, <1>g DEF TypeOK
<1>2. EvenInv' /\ FilterInv' BY <1>c DEF EvenInv, FilterInv, collision
<1>3. NoNegativeLead' BY <1>c, <1>f DEF NoNegativeLead, collision
<1>4. LockedMeansExhausted' /\ ExhaustedIsAnnounced'
  BY <1>c, <1>f, <1>g DEF LockedMeansExhausted, ExhaustedIsAnnounced, collision
<1>5. LeadSound' BY <1>c, <1>f, SlotType DEF LeadSound, ID, collision, Slot
<1>6. ShareCovered'
  <2> SUFFICES ASSUME NEW q \in Keys, NEW j \in Layers,
                      ID(Slot(q, j)) = q, flag_bit'[Slot(q, j)]
               PROVE  2 * recorded[q][j] <= 2 * total_counter[Slot(q, j)]
                        + collision(Slot(q, j)) - 2 * max_col[j] + 2
    BY <1>c, <1>f, SlotType DEF ShareCovered, ID, collision, Slot
  <2>1. Slot(q, j) \in Slots /\ Slot(q, j)[1] = j BY SlotType
  <2>2. CASE flag_bit[Slot(q, j)] BY <2>2 DEF ShareCovered
  <2>3. CASE ~ flag_bit[Slot(q, j)]
    <3>1. Slot(q, j) = s BY <2>1, <2>3, <1>f
    <3>2. collision(s) >= max_col[j]
      BY <3>1, <2>1, <1>c DEF LockedMeansExhausted
    <3>3. 2 * recorded[q][j] <= 2 * total_counter[s] - collision(s) + 2
      BY <3>1, <2>3 DEF ShareCovered
    <3>4. recorded[q][j] \in Nat /\ total_counter[s] \in Nat /\ collision(s) \in Nat
          /\ max_col[j] \in Nat
      BY LayerDepth, MaxColType DEF TypeOK, ID_collision, collision
    <3> QED BY <3>1, <3>2, <3>3, <3>4
  <2> QED BY <2>2, <2>3
<1>7. NothingBelow'
  <2>1. \A q \in Keys : \A j \in Layers : PassesOn(q, j) => PassesOn(q, j)'
    BY <1>c, <1>f, SlotType DEF PassesOn, ID, Slot
  <2> QED BY <2>1, <1>c DEF NothingBelow
<1> QED BY <1>1, <1>2, <1>3, <1>4, <1>5, <1>6, <1>7

LEMMA LoseKeeps ==
  ASSUME IInv, NEW s \in Slots, Lose(s)
  PROVE  IInv'
<1> USE DEF IInv
<1>c. /\ MirrorMayDrop
      /\ informs[s] > 0
      /\ informs' = [informs EXCEPT ![s] = @ - 1]
      /\ UNCHANGED <<filter_counter, flag_bit, total_counter, ID_collision_counter,
                     out_c, packets, absorbed, recorded>>
  BY DEF Lose, registers
<1>t. informs[s] \in Nat BY DEF TypeOK
<1>g. /\ informs' \in [Slots -> Nat]
      /\ \A u \in Slots : u # s => informs'[u] = informs[u]
  BY <1>c, <1>t DEF TypeOK
<1>1. TypeOK' BY <1>c, <1>g DEF TypeOK
<1>2. EvenInv' /\ FilterInv' /\ NoNegativeLead' /\ ShareCovered' /\ LeadSound'
      /\ NothingBelow'
  BY <1>c DEF EvenInv, FilterInv, NoNegativeLead, ShareCovered, LeadSound,
              NothingBelow, PassesOn, ID, collision, Slot
<1>3. LockedMeansExhausted' /\ ExhaustedIsAnnounced'
  BY <1>c, <1>g DEF LockedMeansExhausted, ExhaustedIsAnnounced, collision
<1> QED BY <1>1, <1>2, <1>3
-----------------------------------------------------------------------------
(* The theorems.                                                           *)

LEMMA NextKeeps == IInv /\ [Next]_vars => IInv'
<1> SUFFICES ASSUME IInv, [Next]_vars PROVE IInv' OBVIOUS
<1>1. ASSUME NEW k \in Keys, Absorb(k) PROVE IInv' BY <1>1, AbsorbKeeps
<1>2. ASSUME NEW k \in Keys, NEW i \in Layers, CountOpen(k, i) PROVE IInv'
  BY <1>2, CountOpenKeeps
<1>3. ASSUME NEW k \in Keys, NEW i \in Layers, CountOwner(k, i) PROVE IInv'
  BY <1>3, CountOwnerKeeps
<1>4. ASSUME NEW k \in Keys, Overflow(k) PROVE IInv' BY <1>4, OverflowKeeps
<1>5. ASSUME NEW s \in Slots, Deliver(s) PROVE IInv' BY <1>5, DeliverKeeps
<1>6. ASSUME NEW s \in Slots, Lose(s) PROVE IInv' BY <1>6, LoseKeeps
<1>7. CASE UNCHANGED vars
  BY <1>7 DEF vars, IInv, TypeOK, EvenInv, FilterInv, NoNegativeLead, ShareCovered,
              LeadSound, LockedMeansExhausted, NothingBelow, ExhaustedIsAnnounced,
              PassesOn, ID, collision, Slot
<1> QED BY <1>1, <1>2, <1>3, <1>4, <1>5, <1>6, <1>7 DEF Next, Packet

\* The inductive invariant holds in every reachable state of the switch.
THEOREM SwitchInvariant == Spec => []IInv
BY InitInv, NextKeeps, PTL DEF Spec

\* Every register keeps its shape and no filter counter exceeds the threshold.
THEOREM TypeCorrect == Spec => []TypeOK
<1>1. IInv => TypeOK BY DEF IInv
<1> QED BY <1>1, SwitchInvariant, PTL

\* The unsigned difference an unlocked bucket computes never wraps around.
THEOREM NoNegativeLeadAlways == Spec => []NoNegativeLead
<1>1. IInv => NoNegativeLead BY DEF IInv
<1> QED BY <1>1, SwitchInvariant, PTL

\* The registers of a bucket bound what it counted of every key, however late
\* the lock came.
THEOREM ShareCoveredAlways == Spec => []ShareCovered
<1>1. IInv => ShareCovered BY DEF IInv
<1> QED BY <1>1, SwitchInvariant, PTL

\* The lead of an unlocked bucket's ID is made of its own packets.
THEOREM LeadSoundAlways == Spec => []LeadSound
<1>1. IInv => LeadSound BY DEF IInv
<1> QED BY <1>1, SwitchInvariant, PTL

\* Locks and INFORM copies belong to exhausted buckets.
THEOREM LockedMeansExhaustedAlways == Spec => []LockedMeansExhausted
<1>1. IInv => LockedMeansExhausted BY DEF IInv
<1> QED BY <1>1, SwitchInvariant, PTL

\* A key leaves nothing below a bucket that does not pass it on.
THEOREM NothingBelowAlways == Spec => []NothingBelow
<1>1. IInv => NothingBelow BY DEF IInv
<1> QED BY <1>1, SwitchInvariant, PTL

\* Without loss, every exhausted bucket is locked or announced.
THEOREM ExhaustedIsAnnouncedAlways == Spec => []ExhaustedIsAnnounced
<1>1. IInv => ExhaustedIsAnnounced BY DEF IInv
<1> QED BY <1>1, SwitchInvariant, PTL

\* The filter withholds at most cf_threshold / 2 packets of a key.
THEOREM AbsorbedBoundedAlways == Spec => []AbsorbedBounded
<1>1. IInv => AbsorbedBounded
  <2> SUFFICES ASSUME IInv, NEW k \in Keys PROVE 2 * absorbed[k] <= cf_threshold
    BY DEF AbsorbedBounded
  <2>1. index_cf[1][k] \in FilterIndexes /\ 1 \in Filters
    BY FilterAssumption DEF Filters
  <2>2. /\ filter_counter[1][index_cf[1][k]] \in 0 .. cf_threshold
        /\ 2 * absorbed[k] <= filter_counter[1][index_cf[1][k]]
        /\ absorbed[k] \in Nat
    BY <2>1 DEF IInv, TypeOK, FilterInv
  <2> QED BY <2>2, ThresholdType
<1> QED BY <1>1, SwitchInvariant, PTL

LEMMA LockedIsFinalStep ==
  IInv /\ [Next]_vars =>
    [\A s \in Slots :
       flag_bit[s] =>
         /\ flag_bit'[s]
         /\ ID_collision_counter'[s].ID = ID_collision_counter[s].ID]_vars
<1> DEFINE Final == \A s \in Slots :
              flag_bit[s] => flag_bit'[s] /\ ID_collision_counter'[s].ID = ID(s)
<1> SUFFICES ASSUME IInv, Next PROVE Final BY DEF ID
<1>1. ASSUME NEW k \in Keys, Absorb(k) \/ Overflow(k) PROVE Final
  BY <1>1 DEF Absorb, Overflow, ID
<1>2. ASSUME NEW k \in Keys, NEW i \in Layers, CountOpen(k, i) PROVE Final
  BY <1>2, CountOpenKeeps DEF CountOpen
<1>3. ASSUME NEW k \in Keys, NEW i \in Layers, CountOwner(k, i) PROVE Final
  BY <1>3, CountOwnerKeeps DEF CountOwner
<1>4. ASSUME NEW s \in Slots, Deliver(s) PROVE Final
  BY <1>4 DEF IInv, TypeOK, Deliver, SetFlag, ID
<1>5. ASSUME NEW s \in Slots, Lose(s) PROVE Final
  BY <1>5 DEF Lose, registers, ID
<1> QED BY <1>1, <1>2, <1>3, <1>4, <1>5 DEF Next, Packet

\* A lock, and with it the ID of the bucket, is for good.
THEOREM LockedIsFinalAlways == Spec => LockedIsFinal
<1>1. IInv /\ [Next]_vars =>
        [\A s \in Slots :
           flag_bit[s] =>
             /\ flag_bit'[s]
             /\ ID_collision_counter'[s].ID = ID_collision_counter[s].ID]_vars
  BY LockedIsFinalStep
<1> QED BY <1>1, SwitchInvariant, PTL DEF Spec, LockedIsFinal
=============================================================================
