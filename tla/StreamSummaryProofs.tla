------------------------ MODULE StreamSummaryProofs ------------------------
(***************************************************************************)
(* The pointers of Space-Saving keep their shape, whatever the stream, and *)
(* implement the abstract algorithm, whose queries bracket every frequency:*)
(* for any keys and any number of elements.                                *)
(***************************************************************************)
EXTENDS StreamSummary, NumberLemmas

-----------------------------------------------------------------------------
(* The list of the used groups.                                            *)

\* The groups U, each with a count val of its own, in a list from t upwards.
Chain(U, val, nxt, prv, t) ==
  /\ \A g \in U : val[g] \in Nat
  /\ t \in U /\ prv[t] = NULL /\ NULL \notin U
  /\ \A g \in U : val[t] <= val[g]
  /\ \A g, h \in U : val[g] = val[h] => g = h
  /\ \A g \in U :
       \/ nxt[g] = NULL /\ \A h \in U : val[h] <= val[g]
       \/ /\ nxt[g] \in U /\ prv[nxt[g]] = g /\ val[g] < val[nxt[g]]
          /\ \A h \in U : val[g] < val[h] => val[nxt[g]] <= val[h]

\* The list can be followed backwards.
LEMMA ChainBack ==
  ASSUME NEW U, NEW val, NEW nxt, NEW prv, NEW t, Chain(U, val, nxt, prv, t),
         NEW g \in U, g # t
  PROVE  prv[g] \in U /\ nxt[prv[g]] = g
<1>1. /\ \A h \in U : val[h] \in Nat /\ val[t] <= val[h]
      /\ t \in U /\ \A h, k \in U : val[h] = val[k] => h = k
      /\ \A h \in U :
           \/ nxt[h] = NULL /\ \A k \in U : val[k] <= val[h]
           \/ /\ nxt[h] \in U /\ prv[nxt[h]] = h /\ val[h] < val[nxt[h]]
              /\ \A k \in U : val[h] < val[k] => val[nxt[h]] <= val[k]
  BY DEF Chain
<1> DEFINE T == {val[g] - val[h] : h \in {k \in U : val[k] < val[g]}}
<1>2. T \in SUBSET Nat
  BY <1>1
<1>3. T # {}
  <2>1. val[t] < val[g]
    BY <1>1
  <2> QED BY <1>1, <2>1
<1>4. PICK d \in T : \A x \in T : d <= x
  <2> HIDE DEF T
  <2> QED BY <1>2, <1>3, LeastNat
<1>5. PICK h \in U : val[h] < val[g] /\ d = val[g] - val[h]
  OBVIOUS
<1>6. \A k \in U : val[k] < val[g] => val[k] <= val[h]
  <2>1. ASSUME NEW k \in U, val[k] < val[g] PROVE val[k] <= val[h]
    <3>1. val[g] - val[k] \in T
      BY <2>1
    <3>2. d <= val[g] - val[k]
      BY <1>4, <3>1
    <3> QED BY <1>1, <1>5, <3>2
  <2> QED BY <2>1
<1> HIDE DEF T
<1>7. nxt[h] \in U /\ prv[nxt[h]] = h /\ val[h] < val[nxt[h]] /\ val[nxt[h]] <= val[g]
  BY <1>1, <1>5
<1>8. nxt[h] = g
  BY <1>1, <1>6, <1>7
<1> QED BY <1>5, <1>7, <1>8

\* A group moves up by one where no group has that count.
LEMMA ChainRaise ==
  ASSUME NEW U, NEW val, NEW nxt, NEW prv, NEW t, Chain(U, val, nxt, prv, t),
         NEW p \in U, nxt[p] = NULL \/ val[p] + 1 < val[nxt[p]],
         NEW w, w[p] = val[p] + 1, \A g \in U : g # p => w[g] = val[g]
  PROVE  Chain(U, w, nxt, prv, t)
<1>1. /\ \A g \in U : val[g] \in Nat /\ val[t] <= val[g]
      /\ t \in U /\ prv[t] = NULL /\ NULL \notin U
      /\ \A g, h \in U : val[g] = val[h] => g = h
      /\ \A g \in U :
           \/ nxt[g] = NULL /\ \A h \in U : val[h] <= val[g]
           \/ /\ nxt[g] \in U /\ prv[nxt[g]] = g /\ val[g] < val[nxt[g]]
              /\ \A h \in U : val[g] < val[h] => val[nxt[g]] <= val[h]
  BY DEF Chain
<1>2. \A g \in U : w[g] \in Nat
  BY <1>1
<1>3. \A g \in U : val[g] # val[p] + 1
  BY <1>1
<1>4. \A g \in U : w[t] <= w[g]
  BY <1>1, <1>3
<1>5. \A g, h \in U : w[g] = w[h] => g = h
  BY <1>1, <1>3
<1>6. ASSUME NEW g \in U
      PROVE  \/ nxt[g] = NULL /\ \A h \in U : w[h] <= w[g]
             \/ /\ nxt[g] \in U /\ prv[nxt[g]] = g /\ w[g] < w[nxt[g]]
                /\ \A h \in U : w[g] < w[h] => w[nxt[g]] <= w[h]
  <2>1. CASE nxt[g] = NULL
    <3>1. \A h \in U : val[h] <= val[g]
      BY <1>1, <2>1
    <3>2. \A h \in U : w[h] <= w[g]
      BY <1>1, <1>3, <3>1
    <3> QED BY <2>1, <3>2
  <2>2. CASE nxt[g] # NULL
    <3>1. /\ nxt[g] \in U /\ prv[nxt[g]] = g /\ val[g] < val[nxt[g]]
          /\ \A h \in U : val[g] < val[h] => val[nxt[g]] <= val[h]
      BY <1>1, <2>2
    <3>2. w[g] < w[nxt[g]]
      BY <1>1, <2>2, <3>1
    <3>3. ASSUME NEW h \in U, w[g] < w[h] PROVE w[nxt[g]] <= w[h]
      <4>1. val[g] < val[h]
        BY <1>1, <1>3, <3>3
      <4>2. val[nxt[g]] <= val[h]
        BY <3>1, <4>1
      <4>3. CASE nxt[g] = p
        <5>1. val[h] = val[p] => h = p
          BY <1>1
        <5> QED BY <1>1, <4>2, <4>3, <5>1
      <4>4. CASE nxt[g] # p
        BY <1>1, <3>1, <4>2, <4>4
      <4> QED BY <4>3, <4>4
    <3> QED BY <3>1, <3>2, <3>3
  <2> QED BY <2>1, <2>2
<1> QED BY <1>1, <1>2, <1>4, <1>5, <1>6 DEF Chain

\* A group with another one above it leaves the list.
LEMMA ChainLeave ==
  ASSUME NEW U, NEW val, NEW nxt, NEW prv, NEW t, Chain(U, val, nxt, prv, t),
         NEW p \in U, nxt[p] # NULL,
         NEW n2, \A g \in U \ {p} : n2[g] = IF g = prv[p] THEN nxt[p] ELSE nxt[g],
         NEW p2, \A g \in U \ {p} : p2[g] = IF g = nxt[p] THEN prv[p] ELSE prv[g]
  PROVE  Chain(U \ {p}, val, n2, p2, IF t = p THEN nxt[p] ELSE t)
<1>1. /\ \A g \in U : val[g] \in Nat /\ val[t] <= val[g]
      /\ t \in U /\ prv[t] = NULL /\ NULL \notin U
      /\ \A g, h \in U : val[g] = val[h] => g = h
      /\ \A g \in U :
           \/ nxt[g] = NULL /\ \A h \in U : val[h] <= val[g]
           \/ /\ nxt[g] \in U /\ prv[nxt[g]] = g /\ val[g] < val[nxt[g]]
              /\ \A h \in U : val[g] < val[h] => val[nxt[g]] <= val[h]
  BY DEF Chain
<1> DEFINE up == nxt[p]  V == U \ {p}  s == IF t = p THEN up ELSE t
<1>2. /\ up \in V /\ prv[up] = p /\ val[p] < val[up]
      /\ \A h \in U : val[p] < val[h] => val[up] <= val[h]
  BY <1>1
<1>3. p # t => prv[p] \in U /\ nxt[prv[p]] = p
  BY ChainBack
<1>4. s \in V /\ p2[s] = NULL
  <2>1. CASE t = p
    BY <1>1, <1>2, <2>1
  <2>2. CASE t # p
    <3>1. t # up
      BY <1>1, <1>2, <2>2
    <3> QED BY <1>1, <2>2, <3>1
  <2> QED BY <2>1, <2>2
<1>5. ASSUME NEW g \in V PROVE val[s] <= val[g]
  <2>1. CASE t = p
    <3>1. val[p] # val[g] /\ val[p] <= val[g]
      BY <1>1, <2>1
    <3>2. val[p] < val[g]
      BY <1>1, <3>1
    <3> QED BY <1>2, <2>1, <3>2
  <2>2. CASE t # p
    BY <1>1, <2>2
  <2> QED BY <2>1, <2>2
<1>6. ASSUME NEW g \in V
      PROVE  \/ n2[g] = NULL /\ \A h \in V : val[h] <= val[g]
             \/ /\ n2[g] \in V /\ p2[n2[g]] = g /\ val[g] < val[n2[g]]
                /\ \A h \in V : val[g] < val[h] => val[n2[g]] <= val[h]
  <2>1. CASE g = prv[p]
    <3>1. p # t
      BY <1>1, <2>1
    <3>2. nxt[g] = p /\ n2[g] = up
      BY <1>3, <2>1, <3>1
    <3>3. val[g] < val[p] /\ \A h \in U : val[g] < val[h] => val[p] <= val[h]
      BY <1>1, <3>2
    <3>4. p2[up] = g
      BY <1>2, <2>1
    <3>5. val[g] < val[up]
      BY <1>1, <1>2, <3>3
    <3>6. ASSUME NEW h \in V, val[g] < val[h] PROVE val[up] <= val[h]
      <4>1. val[p] <= val[h] /\ val[p] # val[h]
        BY <1>1, <3>3, <3>6
      <4>2. val[p] < val[h]
        BY <1>1, <4>1
      <4> QED BY <1>2, <4>2
    <3> QED BY <1>2, <3>2, <3>4, <3>5, <3>6
  <2>2. CASE g # prv[p]
    <3>1. n2[g] = nxt[g]
      BY <2>2
    <3>2. CASE nxt[g] = NULL
      BY <1>1, <3>1, <3>2
    <3>3. CASE nxt[g] # NULL
      <4>1. nxt[g] \in U /\ prv[nxt[g]] = g
        BY <1>1, <3>3
      <4>2. nxt[g] # p
        BY <2>2, <4>1
      <4>3. nxt[g] # up
        BY <1>2, <4>1
      <4> QED BY <1>1, <3>1, <4>1, <4>2, <4>3
    <3> QED BY <3>2, <3>3
  <2> QED BY <2>1, <2>2
<1> QED BY <1>1, <1>4, <1>5, <1>6 DEF Chain

\* A new group enters the list behind p, with the count above that of p.
LEMMA ChainEnter ==
  ASSUME NEW U, NEW val, NEW nxt, NEW prv, NEW t, Chain(U, val, nxt, prv, t),
         NEW p \in U, nxt[p] = NULL \/ val[p] + 1 < val[nxt[p]],
         NEW a, a \notin U, a # NULL,
         NEW w, w[a] = val[p] + 1, \A g \in U : w[g] = val[g],
         NEW n2, n2[a] = nxt[p], \A g \in U : n2[g] = IF g = p THEN a ELSE nxt[g],
         NEW p2, p2[a] = p, \A g \in U : p2[g] = IF g = nxt[p] THEN a ELSE prv[g]
  PROVE  Chain(U \cup {a}, w, n2, p2, t)
<1>1. /\ \A g \in U : val[g] \in Nat /\ val[t] <= val[g]
      /\ t \in U /\ prv[t] = NULL /\ NULL \notin U
      /\ \A g, h \in U : val[g] = val[h] => g = h
      /\ \A g \in U :
           \/ nxt[g] = NULL /\ \A h \in U : val[h] <= val[g]
           \/ /\ nxt[g] \in U /\ prv[nxt[g]] = g /\ val[g] < val[nxt[g]]
              /\ \A h \in U : val[g] < val[h] => val[nxt[g]] <= val[h]
  BY DEF Chain
<1> DEFINE V == U \cup {a}
<1>2. \A g \in U : val[g] # val[p] + 1
  BY <1>1
<1>3. \A g \in V : w[g] \in Nat /\ w[t] <= w[g]
  BY <1>1
<1>4. \A g, h \in V : w[g] = w[h] => g = h
  BY <1>1, <1>2
<1>5. t # nxt[p] /\ p2[t] = NULL
  BY <1>1
<1>6. ASSUME NEW g \in V
      PROVE  \/ n2[g] = NULL /\ \A h \in V : w[h] <= w[g]
             \/ /\ n2[g] \in V /\ p2[n2[g]] = g /\ w[g] < w[n2[g]]
                /\ \A h \in V : w[g] < w[h] => w[n2[g]] <= w[h]
  <2>1. CASE g = p
    <3>1. n2[p] = a /\ p2[a] = p /\ w[p] < w[a]
      BY <1>1
    <3>2. ASSUME NEW h \in V, w[p] < w[h] PROVE w[a] <= w[h]
      BY <1>1, <3>2
    <3> QED BY <2>1, <3>1, <3>2
  <2>2. CASE g = a
    <3>1. CASE nxt[p] = NULL
      <4>1. \A h \in U : val[h] <= val[p]
        BY <1>1, <3>1
      <4>2. \A h \in V : w[h] <= w[a]
        BY <1>1, <4>1
      <4> QED BY <2>2, <3>1, <4>2
    <3>2. CASE nxt[p] # NULL
      <4>1. /\ nxt[p] \in U /\ val[p] + 1 < val[nxt[p]]
            /\ \A h \in U : val[p] < val[h] => val[nxt[p]] <= val[h]
        BY <1>1, <3>2
      <4>2. \A h \in V : w[a] < w[h] => w[nxt[p]] <= w[h]
        BY <1>1, <4>1
      <4> QED BY <2>2, <4>1, <4>2
    <3> QED BY <3>1, <3>2
  <2>3. CASE g \in U /\ g # p
    <3>1. n2[g] = nxt[g] /\ w[g] = val[g]
      BY <2>3
    <3>2. CASE nxt[g] = NULL
      <4>1. \A h \in U : val[h] <= val[g]
        BY <1>1, <2>3, <3>2
      <4>2. val[p] < val[g]
        BY <1>1, <2>3, <4>1
      <4>3. \A h \in V : w[h] <= w[g]
        BY <1>1, <2>3, <4>1, <4>2
      <4> QED BY <3>1, <3>2, <4>3
    <3>3. CASE nxt[g] # NULL
      <4>1. /\ nxt[g] \in U /\ prv[nxt[g]] = g /\ val[g] < val[nxt[g]]
            /\ \A h \in U : val[g] < val[h] => val[nxt[g]] <= val[h]
        BY <1>1, <2>3, <3>3
      <4>2. nxt[g] # nxt[p]
        <5>1. nxt[p] = nxt[g] => prv[nxt[p]] = p
          BY <1>1, <4>1
        <5> QED BY <2>3, <4>1, <5>1
      <4>3. p2[n2[g]] = g /\ w[g] < w[n2[g]]
        BY <2>3, <3>1, <4>1, <4>2
      <4>4. ASSUME w[g] < w[a] PROVE w[nxt[g]] <= w[a]
        <5>1. val[g] <= val[p]
          BY <1>1, <2>3, <4>4
        <5>2. val[g] < val[p]
          BY <1>1, <2>3, <5>1
        <5>3. val[nxt[g]] <= val[p]
          BY <4>1, <5>2
        <5> QED BY <1>1, <4>1, <5>3
      <4> QED BY <3>1, <4>1, <4>3, <4>4
    <3> QED BY <3>2, <3>3
  <2> QED BY <2>1, <2>2, <2>3
<1> QED BY <1>1, <1>3, <1>4, <1>5, <1>6 DEF Chain
-----------------------------------------------------------------------------
(* The rings of the elements.                                              *)

\* The elements M in one ring: no part of them is closed under nx.
Ring(nx, pv, M) ==
  /\ \A n \in M : nx[n] \in M /\ pv[nx[n]] = n
  /\ \A S \in SUBSET M : S # {} /\ S # M => \E n \in S : nx[n] \notin S

\* The ring can be followed backwards.
LEMMA RingBack ==
  ASSUME NEW nx, NEW pv, NEW M, Ring(nx, pv, M), NEW n \in M
  PROVE  pv[n] \in M /\ nx[pv[n]] = n
<1>1. CASE M = {n}
  BY <1>1 DEF Ring
<1>2. CASE M # {n}
  <2>1. M \ {n} \in SUBSET M /\ M \ {n} # {} /\ M \ {n} # M
    BY <1>2
  <2>2. PICK m \in M \ {n} : nx[m] \notin M \ {n}
    BY <2>1 DEF Ring
  <2>3. nx[m] = n
    BY <2>2 DEF Ring
  <2> QED BY <2>2, <2>3 DEF Ring
<1> QED BY <1>1, <1>2

\* An element that follows itself is the only one, and only that one does.
LEMMA RingAlone ==
  ASSUME NEW nx, NEW pv, NEW M, Ring(nx, pv, M), NEW n \in M
  PROVE  nx[n] = n <=> M = {n}
<1>1. ASSUME nx[n] = n, M # {n} PROVE FALSE
  <2>1. {n} \in SUBSET M /\ {n} # {} /\ {n} # M
    BY <1>1
  <2>2. \E m \in {n} : nx[m] \notin {n}
    BY <2>1 DEF Ring
  <2> QED BY <1>1, <2>2
<1>2. M = {n} => nx[n] = n
  BY DEF Ring
<1> QED BY <1>1, <1>2

\* Pointers elsewhere do not matter.
LEMMA RingSame ==
  ASSUME NEW nx, NEW pv, NEW M, Ring(nx, pv, M), NEW ny, NEW py,
         \A n \in M : ny[n] = nx[n] /\ py[n] = pv[n]
  PROVE  Ring(ny, py, M)
<1>1. \A n \in M : nx[n] \in M /\ pv[nx[n]] = n
  BY DEF Ring
<1>2. \A n \in M : ny[n] \in M /\ py[ny[n]] = n
  BY <1>1
<1>3. ASSUME NEW S \in SUBSET M, S # {}, S # M PROVE \E n \in S : ny[n] \notin S
  <2>1. PICK n \in S : nx[n] \notin S
    BY <1>3 DEF Ring
  <2> QED BY <2>1
<1> QED BY <1>2, <1>3 DEF Ring

\* Unlink: the ring without n.
LEMMA RingOut ==
  ASSUME NEW nx, NEW pv, NEW M, Ring(nx, pv, M), NEW n \in M, M # {n},
         NEW N, N = M \ {n}, NEW ny, NEW py,
         \A m \in N : ny[m] = IF m = pv[n] THEN nx[n] ELSE nx[m],
         \A m \in N : py[m] = IF m = nx[n] THEN pv[n] ELSE pv[m]
  PROVE  Ring(ny, py, N) /\ nx[n] \in N /\ pv[n] \in N
<1> DEFINE a == pv[n]  b == nx[n]
<1>0. \A m \in M : nx[m] \in M /\ pv[nx[m]] = m
  BY DEF Ring
<1>1. \A m \in M : nx[m] \in M /\ pv[nx[m]] = m /\ pv[m] \in M /\ nx[pv[m]] = m
  <2>1. ASSUME NEW m \in M PROVE pv[m] \in M /\ nx[pv[m]] = m
    BY RingBack
  <2> QED BY <1>0, <2>1
<1>2. a \in N /\ b \in N
  BY <1>1, RingAlone
<1>3. ny[a] = b /\ \A m \in N : m # a => ny[m] = nx[m]
  BY <1>2
<1>4. py[b] = a /\ \A m \in N : m # b => py[m] = pv[m]
  BY <1>2
<1>5. \A m \in N : m # a => nx[m] \in N /\ nx[m] # b
  BY <1>1
<1> HIDE DEF a, b
<1>6. \A m \in N : ny[m] \in N /\ py[ny[m]] = m
  BY <1>1, <1>2, <1>3, <1>4, <1>5
<1>7. ASSUME NEW S \in SUBSET N, S # {}, S # N PROVE \E m \in S : ny[m] \notin S
  <2>1. CASE a \in S
    <3> DEFINE T == S \cup {n}
    <3>1. T \in SUBSET M /\ T # {} /\ T # M
      BY <1>7
    <3>2. PICK m \in T : nx[m] \notin T
      <4> HIDE DEF T
      <4> QED BY <3>1 DEF Ring
    <3>3. CASE m = n
      BY <1>3, <2>1, <3>2, <3>3 DEF b
    <3>4. CASE m # n
      <4>1. m \in S /\ m # a
        BY <1>1, <3>2, <3>4 DEF a
      <4> QED BY <1>3, <3>2, <4>1
    <3> QED BY <3>3, <3>4
  <2>2. CASE a \notin S
    <3>1. S \in SUBSET M /\ S # M
      BY <1>7
    <3>2. PICK m \in S : nx[m] \notin S
      BY <1>7, <3>1 DEF Ring
    <3> QED BY <1>3, <1>7, <2>2, <3>2
  <2> QED BY <2>1, <2>2
<1> QED BY <1>2, <1>6, <1>7 DEF Ring, a, b

\* LinkBefore: the ring with n in front of h.
LEMMA RingIn ==
  ASSUME NEW nx, NEW pv, NEW M, Ring(nx, pv, M), NEW h \in M, NEW n, n \notin M,
         NEW ny, NEW py,
         ny[n] = h, \A m \in M : ny[m] = IF m = pv[h] THEN n ELSE nx[m],
         py[n] = pv[h], \A m \in M : py[m] = IF m = h THEN n ELSE pv[m]
  PROVE  Ring(ny, py, M \cup {n})
<1> DEFINE a == pv[h]  N == M \cup {n}
<1>0. \A m \in M : nx[m] \in M /\ pv[nx[m]] = m
  BY DEF Ring
<1>1. \A m \in M : nx[m] \in M /\ pv[nx[m]] = m /\ pv[m] \in M /\ nx[pv[m]] = m
  <2>1. ASSUME NEW m \in M PROVE pv[m] \in M /\ nx[pv[m]] = m
    BY RingBack
  <2> QED BY <1>0, <2>1
<1>2. a \in M /\ nx[a] = h /\ ny[a] = n /\ py[h] = n /\ py[n] = a
  BY <1>1
<1>3. \A m \in M : m # a => ny[m] = nx[m] /\ nx[m] # h
  BY <1>1
<1>4. \A m \in M : m # h => py[m] = pv[m]
  OBVIOUS
<1> HIDE DEF a
<1>5. \A m \in N : ny[m] \in N /\ py[ny[m]] = m
  BY <1>1, <1>2, <1>3, <1>4
<1>6. ASSUME NEW S \in SUBSET N, S # {}, S # N PROVE \E m \in S : ny[m] \notin S
  <2> DEFINE T == S \ {n}
  <2>0. T \in SUBSET M /\ \A m : m \in T <=> m \in S /\ m # n
    OBVIOUS
  <2> HIDE DEF T
  <2>1. CASE T = {}
    <3>1. n \in S /\ h \notin S
      BY <1>6, <2>0, <2>1
    <3> QED BY <3>1
  <2>2. CASE T = M
    <3>1. a \in S /\ n \notin S
      BY <1>2, <1>6, <2>0, <2>2
    <3> QED BY <1>2, <3>1
  <2>3. CASE T # {} /\ T # M
    <3>1. PICK m \in T : nx[m] \notin T
      BY <2>0, <2>3 DEF Ring
    <3>2. nx[m] \in M /\ nx[m] # n /\ m \in S /\ m \in M
      BY <1>1, <2>0, <3>1
    <3>3. nx[m] \notin S
      BY <2>0, <3>1, <3>2
    <3>4. CASE m # a
      BY <1>3, <3>2, <3>3, <3>4
    <3>5. CASE m = a /\ n \in S
      <4>1. h \notin S
        BY <1>2, <3>3, <3>5
      <4> QED BY <3>5, <4>1
    <3>6. CASE m = a /\ n \notin S
      BY <1>2, <3>2, <3>6
    <3> QED BY <3>4, <3>5, <3>6
  <2> QED BY <2>1, <2>2, <2>3
<1> QED BY <1>5, <1>6 DEF Ring

\* An element on its own is a ring.
LEMMA RingOne ==
  ASSUME NEW nx, NEW pv, NEW n, nx[n] = n, pv[n] = n
  PROVE  Ring(nx, pv, {n})
BY DEF Ring

\* The ring of init, through all elements.
LEMMA RingOfAll ==
  ASSUME NEW m \in Nat, m >= 1, NEW nx, NEW pv,
         \A i \in 0 .. m - 1 : nx[i] = IF i = m - 1 THEN 0 ELSE i + 1,
         \A i \in 0 .. m - 1 : pv[i] = IF i = 0 THEN m - 1 ELSE i - 1
  PROVE  Ring(nx, pv, 0 .. m - 1)
<1> DEFINE M == 0 .. m - 1
<1>1. \A i \in M : nx[i] \in M /\ pv[nx[i]] = i
  OBVIOUS
<1>2. ASSUME NEW S \in SUBSET M, S # {}, S # M PROVE \E i \in S : nx[i] \notin S
  <2>1. PICK y \in M \ S : \A x \in M \ S : y <= x
    <3>1. (M \ S) \in SUBSET Nat
      OBVIOUS
    <3>2. M \ S # {}
      <4> HIDE DEF M
      <4> QED BY <1>2
    <3> QED BY <3>1, <3>2, LeastNat
  <2>2. CASE y # 0
    <3>1. y - 1 \in M /\ nx[y - 1] = y
      BY <2>2
    <3>2. y - 1 \in S
      BY <2>1, <3>1
    <3> QED BY <3>1, <3>2
  <2>3. CASE y = 0
    <3> DEFINE T == {m - 1 - i : i \in S}
    <3>1. T \in SUBSET Nat
      <4>1. \A i \in S : m - 1 - i \in Nat
        OBVIOUS
      <4> QED BY <4>1
    <3>2. PICK d \in T : \A x \in T : d <= x
      <4>1. T # {}
        BY <1>2
      <4> HIDE DEF T
      <4> QED BY <3>1, <4>1, LeastNat
    <3>3. PICK i \in S : d = m - 1 - i
      OBVIOUS
    <3>4. \A j \in S : j <= i
      <4>1. ASSUME NEW j \in S PROVE j <= i
        <5>1. d <= m - 1 - j
          BY <3>2
        <5> QED BY <3>3, <5>1
      <4> QED BY <4>1
    <3> HIDE DEF T
    <3>5. CASE i = m - 1
      BY <2>3, <3>5
    <3>6. CASE i # m - 1
      <4>1. nx[i] = i + 1 /\ i \in M
        BY <3>6
      <4>2. i + 1 \notin S
        BY <3>4, <4>1
      <4> QED BY <4>1, <4>2
    <3> QED BY <3>5, <3>6
  <2> QED BY <2>2, <2>3
<1> QED BY <1>1, <1>2 DEF Ring
-----------------------------------------------------------------------------
(* The free list.                                                          *)

\* c holds the m free groups F, the one that is taken next on top.
Stack(F, nxt, head, c, m) ==
  /\ \A i \in 0 .. m - 1 : c[i] \in F /\ nxt[c[i]] = IF i = 0 THEN NULL ELSE c[i - 1]
  /\ \A i, j \in 0 .. m - 1 : c[i] = c[j] => i = j
  /\ \A g \in F : \E i \in 0 .. m - 1 : c[i] = g
  /\ head = IF m = 0 THEN NULL ELSE c[m - 1]

FreeList(F, nxt, head) == \E m \in Nat : \E c : Stack(F, nxt, head, c, m)

\* A group that was given back.
LEMMA Push ==
  ASSUME NEW F, NEW nxt, NEW head, FreeList(F, nxt, head), NEW p, p \notin F,
         NEW n2, n2[p] = head, \A g \in F : n2[g] = nxt[g]
  PROVE  FreeList(F \cup {p}, n2, p)
<1>1. PICK m \in Nat : \E c : Stack(F, nxt, head, c, m)
  BY DEF FreeList
<1>2. PICK c : Stack(F, nxt, head, c, m)
  BY <1>1
<1> DEFINE d == [i \in 0 .. m |-> IF i = m THEN p ELSE c[i]]
<1>3. d[m] = p /\ \A i \in 0 .. m - 1 : d[i] = c[i] /\ d[i] \in F
  BY <1>2 DEF Stack
<1> HIDE DEF d
<1>4. (m + 1) - 1 = m /\ m + 1 \in Nat /\ m + 1 # 0
  OBVIOUS
<1>5. ASSUME NEW i \in 0 .. m PROVE d[i] \in F \cup {p} /\ n2[d[i]] = IF i = 0 THEN NULL ELSE d[i - 1]
  <2>1. CASE i = m
    <3>1. m # 0 => m - 1 \in 0 .. m - 1
      OBVIOUS
    <3>2. head = IF m = 0 THEN NULL ELSE d[m - 1]
      BY <1>2, <1>3, <3>1 DEF Stack
    <3> QED BY <1>3, <2>1, <3>2
  <2>2. CASE i # m
    <3>1. i \in 0 .. m - 1 /\ (i # 0 => i - 1 \in 0 .. m - 1)
      BY <2>2
    <3>2. d[i] \in F /\ nxt[d[i]] = IF i = 0 THEN NULL ELSE d[i - 1]
      BY <1>2, <1>3, <3>1 DEF Stack
    <3> QED BY <3>2
  <2> QED BY <2>1, <2>2
<1>6. ASSUME NEW i \in 0 .. m, NEW j \in 0 .. m, d[i] = d[j] PROVE i = j
  <2>1. i = m \/ i \in 0 .. m - 1
    OBVIOUS
  <2>2. j = m \/ j \in 0 .. m - 1
    OBVIOUS
  <2> QED BY <1>2, <1>3, <1>6, <2>1, <2>2 DEF Stack
<1>7. ASSUME NEW g \in F \cup {p} PROVE \E i \in 0 .. m : d[i] = g
  <2>1. CASE g = p
    BY <1>3, <2>1
  <2>2. CASE g \in F
    <3>1. PICK i \in 0 .. m - 1 : c[i] = g
      BY <1>2, <2>2 DEF Stack
    <3> QED BY <1>3, <3>1
  <2> QED BY <2>1, <2>2
<1>8. Stack(F \cup {p}, n2, p, d, m + 1)
  BY <1>3, <1>4, <1>5, <1>6, <1>7 DEF Stack
<1> QED BY <1>4, <1>8 DEF FreeList

\* A group that is taken.
LEMMA Pop ==
  ASSUME NEW F, NEW nxt, NEW head, FreeList(F, nxt, head), head # NULL,
         NEW n2, \A g \in F \ {head} : n2[g] = nxt[g]
  PROVE  head \in F /\ FreeList(F \ {head}, n2, nxt[head])
<1>1. PICK m \in Nat : \E c : Stack(F, nxt, head, c, m)
  BY DEF FreeList
<1>2. PICK c : Stack(F, nxt, head, c, m)
  BY <1>1
<1>3. m # 0 /\ m - 1 \in Nat /\ m - 1 \in 0 .. m - 1
  BY <1>2 DEF Stack
<1> DEFINE k == m - 1
<1>4. k \in Nat /\ head = c[k] /\ head \in F
      /\ nxt[head] = IF k = 0 THEN NULL ELSE c[k - 1]
  BY <1>2, <1>3 DEF Stack
<1>5. \A i \in 0 .. k - 1 : i \in 0 .. m - 1 /\ i # k
  BY <1>3
<1>6. \A i \in 0 .. m - 1 : i = k \/ i \in 0 .. k - 1
  BY <1>3
<1>k. k \in 0 .. m - 1
  BY <1>3
<1> HIDE DEF k
<1>7. \A i \in 0 .. k - 1 : c[i] \in F \ {head}
  BY <1>2, <1>4, <1>5, <1>k DEF Stack
<1>8. \A i \in 0 .. k - 1 : n2[c[i]] = IF i = 0 THEN NULL ELSE c[i - 1]
  BY <1>2, <1>5, <1>7 DEF Stack
<1>9. \A i, j \in 0 .. k - 1 : c[i] = c[j] => i = j
  BY <1>2, <1>5 DEF Stack
<1>10. \A g \in F \ {head} : \E i \in 0 .. k - 1 : c[i] = g
  BY <1>2, <1>4, <1>6 DEF Stack
<1>11. Stack(F \ {head}, n2, nxt[head], c, k)
  BY <1>4, <1>7, <1>8, <1>9, <1>10 DEF Stack
<1> QED BY <1>4, <1>11 DEF FreeList

Nexts == [g \in Cells |-> bkt[g].next]
Prevs == [g \in Cells |-> bkt[g].prev]
Values == [g \in Cells |-> bkt[g].value]

\* The free list has as many entries as there are free groups.
LEMMA StackSize ==
  ASSUME NEW F, NEW nxt, NEW head, NEW c, NEW m \in Nat, Stack(F, nxt, head, c, m)
  PROVE  IsFiniteSet(F) /\ Cardinality(F) = m
<1> DEFINE d == [i \in 0 .. m - 1 |-> c[i]]
<1>1. d \in Bijection(0 .. m - 1, F)
  <2>1. \A i \in 0 .. m - 1 : d[i] = c[i] /\ d[i] \in F
    BY DEF Stack
  <2>2. d \in [0 .. m - 1 -> F]
    BY <2>1
  <2> HIDE DEF d
  <2> QED BY <2>1, <2>2 DEF Stack, Bijection, Injection, Surjection, IsInjective
<1>2. ExistsBijection(0 .. m - 1, F)
  BY <1>1 DEF ExistsBijection
<1>3. IsFiniteSet(0 .. m - 1) /\ Cardinality(0 .. m - 1) = m
  BY FS_Interval
<1> QED BY <1>2, <1>3, FS_Bijection

CellsFinite == IsFiniteSet(Cells) /\ Cardinality(Cells) = size

LEMMA CellsAreFinite == CellsFinite
BY SizeAssumption, FS_Interval DEF Cells, CellsFinite

\* What the free list holds is what following it from free_head finds.
LEMMA FreeListSound ==
  ASSUME FreeList(Cells \ Used, Nexts, free_head) PROVE FreeSound
<1> DEFINE F == Cells \ Used
<1>1. PICK m \in Nat : \E c : Stack(F, Nexts, free_head, c, m)
  BY DEF FreeList
<1>2. PICK c : Stack(F, Nexts, free_head, c, m)
  BY <1>1
<1>3. Cardinality(F) = m
  BY <1>2, StackSize
<1>4. m <= size /\ size \in Nat
  <2>1. Cardinality(F) <= Cardinality(Cells)
    BY CellsAreFinite, FS_Subset DEF CellsFinite
  <2> QED BY <1>3, <2>1, CellsAreFinite, SizeAssumption DEF CellsFinite
<1> DEFINE L(f) == [i \in Cells |-> IF i = 0 THEN free_head
                                    ELSE IF f[i - 1] = NULL THEN NULL ELSE bkt[f[i - 1]].next]
           f == [i \in Cells |-> IF i < m THEN c[m - 1 - i] ELSE NULL]
<1>5. \A i \in 0 .. m - 1 : c[i] \in F /\ c[i] \in Cells /\ c[i] # NULL
                           /\ bkt[c[i]].next = IF i = 0 THEN NULL ELSE c[i - 1]
  BY <1>2 DEF Stack, Nexts, Cells, NULL
<1>6. \A i \in Cells : i \in Nat /\ (i # 0 => i - 1 \in Cells)
  BY <1>4 DEF Cells
<1>7. ASSUME NEW i \in Cells PROVE f[i] = L(f)[i]
  <2>1. CASE i = 0
    <3>1. free_head = IF m = 0 THEN NULL ELSE c[m - 1]
      BY <1>2 DEF Stack
    <3>2. f[0] = IF 0 < m THEN c[m - 1 - 0] ELSE NULL
      BY <2>1
    <3> HIDE DEF f
    <3>3. f[0] = free_head
      BY <3>1, <3>2
    <3> QED BY <2>1, <3>3
  <2>2. CASE i # 0
    <3>1. i - 1 \in Cells /\ i \in Nat
      BY <1>6, <2>2
    <3>2. f[i - 1] = IF i - 1 < m THEN c[m - 1 - (i - 1)] ELSE NULL
      BY <3>1
    <3>3. f[i] = IF i < m THEN c[m - 1 - i] ELSE NULL
      OBVIOUS
    <3> HIDE DEF f
    <3>4. CASE i - 1 < m
      <4>1. m - 1 - (i - 1) \in 0 .. m - 1 /\ m - 1 - (i - 1) - 1 = m - 1 - i
            /\ (m - 1 - (i - 1) = 0 <=> ~ i < m)
        BY <2>2, <3>1, <3>4
      <4>2. f[i - 1] # NULL /\ bkt[f[i - 1]].next = f[i]
        BY <1>5, <3>2, <3>3, <3>4, <4>1
      <4> QED BY <2>2, <4>2
    <3>5. CASE ~ i - 1 < m
      <4>1. f[i - 1] = NULL /\ f[i] = NULL
        BY <3>1, <3>2, <3>3, <3>5
      <4> QED BY <2>2, <4>1
    <3> QED BY <3>4, <3>5
  <2> QED BY <2>1, <2>2
<1>8. f = L(f)
  <2>1. f = [i \in Cells |-> f[i]] /\ L(f) = [i \in Cells |-> L(f)[i]]
    OBVIOUS
  <2> HIDE DEF f, L
  <2> QED BY <1>7, <2>1
<1>9. FreeChain = L(FreeChain)
  <2>1. FreeChain = CHOOSE g : g = L(g)
    BY DEF FreeChain
  <2> HIDE DEF f, L
  <2> QED BY <1>8, <2>1
<1>10. \A i \in Cells : FreeChain[i] = f[i]
  <2> DEFINE T == {i \in Cells : FreeChain[i] = f[i]}
  <2>0. /\ \A i \in Cells : FreeChain[i] = L(FreeChain)[i] /\ f[i] = L(f)[i]
        /\ size - 1 \in Nat /\ 0 \in Cells /\ Cells = 0 .. size - 1
    <3>1. size - 1 \in Nat /\ 0 \in Cells /\ Cells = 0 .. size - 1
      BY SizeAssumption DEF Cells
    <3> HIDE DEF f, L
    <3> QED BY <1>7, <1>9, <3>1
  <2> HIDE DEF f
  <2>1. 0 \in T
    BY <2>0
  <2>2. ASSUME NEW d \in 0 .. (size - 1) - 1, d \in T PROVE d + 1 \in T
    <3>1. d + 1 \in Cells /\ d + 1 # 0 /\ (d + 1) - 1 = d
      BY <1>4 DEF Cells
    <3> QED BY <2>0, <2>2, <3>1
  <2> HIDE DEF T
  <2>3. 0 .. size - 1 \subseteq T
    BY <2>0, <2>1, <2>2, UpwardInduction
  <2> QED BY <2>0, <2>3 DEF T
<1>11. FreeChain = [i \in Cells |-> FreeChain[i]]
  BY <1>9
<1>12. \A i \in Cells : FreeChain[i] # NULL <=> i < m
  <2>1. \A i \in Cells : i < m => m - 1 - i \in 0 .. m - 1
    BY <1>6
  <2>2. \A i \in Cells : f[i] = IF i < m THEN c[m - 1 - i] ELSE NULL
    OBVIOUS
  <2> HIDE DEF f
  <2> QED BY <1>5, <1>10, <2>1, <2>2
<1>13. {i \in Cells : FreeChain[i] # NULL} = 0 .. m - 1
  BY <1>4, <1>12 DEF Cells
<1>14. Range(FreeChain) \ {NULL} = F
  <2>1. ASSUME NEW g \in F PROVE g \in Range(FreeChain) \ {NULL}
    <3>1. PICK i \in 0 .. m - 1 : c[i] = g
      BY <1>2 DEF Stack
    <3>2. m - 1 - i \in Cells /\ m - 1 - i < m /\ m - 1 - (m - 1 - i) = i
      BY <1>4 DEF Cells
    <3>3. FreeChain[m - 1 - i] = g /\ g # NULL
      BY <1>5, <1>10, <3>1, <3>2
    <3> QED BY <1>11, <3>2, <3>3 DEF Range
  <2>2. ASSUME NEW g \in Range(FreeChain), g # NULL PROVE g \in F
    <3>1. PICK i \in Cells : FreeChain[i] = g
      BY <1>11 DEF Range
    <3>2. i < m /\ i \in Nat /\ m - 1 - i \in 0 .. m - 1
      BY <1>6, <1>12, <2>2, <3>1
    <3> QED BY <1>5, <1>10, <3>1, <3>2
  <2> QED BY <2>1, <2>2
<1>15. Cardinality(0 .. m - 1) = m
  BY FS_Interval
<1> QED BY <1>3, <1>13, <1>14, <1>15 DEF FreeSound
-----------------------------------------------------------------------------
(* The invariant.                                                          *)

Follows == [n \in Cells |-> ele[n].next]
Precedes == [n \in Cells |-> ele[n].prev]

Links == Cells \cup {NULL}
Group == [prev : Links, next : Links, son : Cells, value : Nat]
Element == [parent : Cells, prev : Cells, next : Cells, fp : Keys \cup {NoKey}]

TypeInv ==
  /\ bkt \in [Cells -> Group] /\ ele \in [Cells -> Element]
  /\ seen \in [Keys -> Nat]
  /\ DOMAIN ele_idx \subseteq Keys /\ \A k \in DOMAIN ele_idx : ele_idx[k] \in Cells

ShapeInv ==
  /\ Chain(Used, Values, Nexts, Prevs, tail)
  /\ \A g \in Used : bkt[g].son \in Members(g) /\ Ring(Follows, Precedes, Members(g))
  /\ FreeList(Cells \ Used, Nexts, free_head)

\* e links the elements as ele does.
Alike(e) ==
  /\ e \in [Cells -> Element]
  /\ \A m \in Cells : e[m].parent = ele[m].parent /\ e[m].next = ele[m].next
                      /\ e[m].prev = ele[m].prev

\* Assignments to one field of one element.
WithNext(e, x, y) == [e EXCEPT ![x].next = y]
WithPrev(e, x, y) == [e EXCEPT ![x].prev = y]
WithParent(e, x, y) == [e EXCEPT ![x].parent = y]

LEMMA SetNext ==
  ASSUME NEW e \in [Cells -> Element], NEW x \in Cells, NEW y \in Cells
  PROVE  LET d == WithNext(e, x, y)
         IN  /\ d \in [Cells -> Element]
             /\ \A m \in Cells :
                  /\ d[m].next = IF m = x THEN y ELSE e[m].next
                  /\ d[m].prev = e[m].prev /\ d[m].parent = e[m].parent /\ d[m].fp = e[m].fp
BY DEF Element, WithNext

LEMMA SetPrev ==
  ASSUME NEW e \in [Cells -> Element], NEW x \in Cells, NEW y \in Cells
  PROVE  LET d == WithPrev(e, x, y)
         IN  /\ d \in [Cells -> Element]
             /\ \A m \in Cells :
                  /\ d[m].prev = IF m = x THEN y ELSE e[m].prev
                  /\ d[m].next = e[m].next /\ d[m].parent = e[m].parent /\ d[m].fp = e[m].fp
BY DEF Element, WithPrev

LEMMA SetParent ==
  ASSUME NEW e \in [Cells -> Element], NEW x \in Cells, NEW y \in Cells
  PROVE  LET d == WithParent(e, x, y)
         IN  /\ d \in [Cells -> Element]
             /\ \A m \in Cells :
                  /\ d[m].parent = IF m = x THEN y ELSE e[m].parent
                  /\ d[m].next = e[m].next /\ d[m].prev = e[m].prev /\ d[m].fp = e[m].fp
BY DEF Element, WithParent

LEMMA UnlinkFields ==
  ASSUME NEW e \in [Cells -> Element], NEW n \in Cells
  PROVE  LET d == Unlink(e, n)
         IN  /\ d \in [Cells -> Element]
             /\ \A m \in Cells :
                  /\ d[m].next = IF m = e[n].prev THEN e[n].next ELSE e[m].next
                  /\ d[m].prev = IF m = e[n].next THEN e[n].prev ELSE e[m].prev
                  /\ d[m].parent = e[m].parent /\ d[m].fp = e[m].fp
<1> DEFINE x == e[n].next  y == e[n].prev
           c == WithPrev(e, x, y)  d == WithNext(c, y, x)
<1>1. x \in Cells /\ y \in Cells
  BY DEF Element
<1>2. Unlink(e, n) = d
  BY DEF Unlink, WithNext, WithPrev
<1> HIDE DEF x, y
<1>3. /\ c \in [Cells -> Element]
      /\ \A m \in Cells :
           /\ c[m].prev = IF m = x THEN y ELSE e[m].prev
           /\ c[m].next = e[m].next /\ c[m].parent = e[m].parent /\ c[m].fp = e[m].fp
  BY <1>1, SetPrev
<1> HIDE DEF c
<1>4. /\ d \in [Cells -> Element]
      /\ \A m \in Cells :
           /\ d[m].next = IF m = y THEN x ELSE c[m].next
           /\ d[m].prev = c[m].prev /\ d[m].parent = c[m].parent /\ d[m].fp = c[m].fp
  <2>1. c \in [Cells -> Element]
    BY <1>3
  <2> QED BY <1>1, <2>1, SetNext
<1> HIDE DEF d
<1> QED BY <1>2, <1>3, <1>4 DEF x, y

LEMMA LinkFields ==
  ASSUME NEW e \in [Cells -> Element], NEW n \in Cells, NEW h \in Cells, n # h
  PROVE  LET d == LinkBefore(e, n, h)
         IN  /\ d \in [Cells -> Element]
             /\ \A m \in Cells :
                  /\ d[m].next = IF m = n THEN h ELSE IF m = e[h].prev THEN n ELSE e[m].next
                  /\ d[m].prev = IF m = n THEN e[h].prev ELSE IF m = h THEN n ELSE e[m].prev
                  /\ d[m].parent = e[m].parent /\ d[m].fp = e[m].fp
<1> DEFINE y == e[h].prev
           a == WithNext(e, y, n)  b == WithPrev(a, h, n)
           c == WithNext(b, n, h)  d == WithPrev(c, n, y)
<1>1. y \in Cells
  BY DEF Element
<1>2. LinkBefore(e, n, h) = d
  BY DEF LinkBefore, WithNext, WithPrev
<1> HIDE DEF y
<1>3. /\ a \in [Cells -> Element]
      /\ \A m \in Cells :
           /\ a[m].next = IF m = y THEN n ELSE e[m].next
           /\ a[m].prev = e[m].prev /\ a[m].parent = e[m].parent /\ a[m].fp = e[m].fp
  BY <1>1, SetNext
<1> HIDE DEF a
<1>4. /\ b \in [Cells -> Element]
      /\ \A m \in Cells :
           /\ b[m].prev = IF m = h THEN n ELSE a[m].prev
           /\ b[m].next = a[m].next /\ b[m].parent = a[m].parent /\ b[m].fp = a[m].fp
  BY <1>3, SetPrev
<1> HIDE DEF b
<1>5. /\ c \in [Cells -> Element]
      /\ \A m \in Cells :
           /\ c[m].next = IF m = n THEN h ELSE b[m].next
           /\ c[m].prev = b[m].prev /\ c[m].parent = b[m].parent /\ c[m].fp = b[m].fp
  <2>1. b \in [Cells -> Element]
    BY <1>4
  <2> QED BY <2>1, SetNext
<1> HIDE DEF c
<1>6. /\ d \in [Cells -> Element]
      /\ \A m \in Cells :
           /\ d[m].prev = IF m = n THEN y ELSE c[m].prev
           /\ d[m].next = c[m].next /\ d[m].parent = c[m].parent /\ d[m].fp = c[m].fp
  BY <1>1, <1>5, SetPrev
<1> HIDE DEF d
<1> QED BY <1>2, <1>3, <1>4, <1>5, <1>6 DEF y

\* Where the element n of the group p stands.
LEMMA Standing ==
  ASSUME TypeInv, ShapeInv, NEW n \in Cells
  PROVE  LET p == ele[n].parent  up == bkt[p].next  h == bkt[up].son
         IN  /\ p \in Used /\ p \in Cells /\ n \in Members(p) /\ Members(p) \in SUBSET Cells
             /\ Ring(Follows, Precedes, Members(p))
             /\ Alone(n) <=> Members(p) = {n}
             /\ bkt[p].value \in Nat
             /\ JoinsNext(p) => /\ up \in Used /\ up \in Cells /\ up # p /\ up # NULL
                                /\ bkt[up].value = bkt[p].value + 1
                                /\ h \in Members(up) /\ h \in Cells /\ h # n
                                /\ Ring(Follows, Precedes, Members(up))
             /\ ~ JoinsNext(p) => Nexts[p] = NULL \/ Values[p] + 1 < Values[Nexts[p]]
<1> DEFINE p == ele[n].parent  up == bkt[p].next  h == bkt[up].son
<1>1. p \in Used /\ p \in Cells /\ n \in Members(p) /\ Members(p) \in SUBSET Cells
  BY DEF TypeInv, Element, Used, Members
<1>2. Ring(Follows, Precedes, Members(p)) /\ bkt[p].value \in Nat
      /\ up \in Cells \cup {NULL}
  BY <1>1 DEF ShapeInv, TypeInv, Group, Links
<1>3. Follows[n] = ele[n].next
  BY DEF Follows
<1>4. Alone(n) <=> Members(p) = {n}
  BY <1>1, <1>2, <1>3, RingAlone DEF Alone
<1>5. Nexts[p] = up /\ Values[p] = bkt[p].value
  BY <1>1 DEF Nexts, Values
<1>6. up # NULL => up \in Used /\ up \in Cells /\ bkt[p].value < bkt[up].value
                   /\ bkt[up].value \in Nat
  <2>1. up # NULL => up \in Used /\ Values[p] < Values[up]
    BY <1>1, <1>5 DEF ShapeInv, Chain
  <2>2. up # NULL => Values[up] = bkt[up].value /\ bkt[up].value \in Nat
    BY <1>2 DEF Values, TypeInv, Group
  <2> QED BY <1>2, <1>5, <2>1, <2>2
<1> HIDE DEF p
<1>7. ASSUME JoinsNext(p)
      PROVE  /\ up \in Used /\ up \in Cells /\ up # p /\ up # NULL
             /\ bkt[up].value = bkt[p].value + 1
             /\ h \in Members(up) /\ h \in Cells /\ h # n
             /\ Ring(Follows, Precedes, Members(up))
  <2>1. up # NULL /\ bkt[up].value <= bkt[p].value + 1
    BY <1>7 DEF JoinsNext
  <2>2. up \in Used /\ up \in Cells /\ up # p /\ bkt[up].value = bkt[p].value + 1
    BY <1>2, <1>6, <2>1
  <2>3. h \in Members(up) /\ Ring(Follows, Precedes, Members(up))
    BY <2>2 DEF ShapeInv
  <2>4. h \in Cells /\ h # n
    BY <2>2, <2>3 DEF Members, p
  <2> QED BY <2>1, <2>2, <2>3, <2>4
<1>8. ASSUME ~ JoinsNext(p)
      PROVE  Nexts[p] = NULL \/ Values[p] + 1 < Values[Nexts[p]]
  <2>1. CASE up = NULL
    BY <1>5, <2>1
  <2>2. CASE up # NULL
    <3>1. ~ bkt[up].value <= bkt[p].value + 1
      BY <1>8, <2>2 DEF JoinsNext
    <3>2. Values[Nexts[p]] = bkt[up].value
      BY <1>5, <1>6, <2>2 DEF Values
    <3> QED BY <1>2, <1>5, <1>6, <2>2, <3>1, <3>2
  <2> QED BY <2>1, <2>2
<1> QED BY <1>1, <1>2, <1>4, <1>7, <1>8 DEF p

\* Assignments to one field of one group.
WithSon(b, x, y) == [b EXCEPT ![x].son = y]

LEMMA SetNextGroup ==
  ASSUME NEW b \in [Cells -> Group], NEW x \in Cells, NEW y \in Links
  PROVE  LET d == WithNext(b, x, y)
         IN  /\ d \in [Cells -> Group]
             /\ \A g \in Cells :
                  /\ d[g].next = IF g = x THEN y ELSE b[g].next
                  /\ d[g].prev = b[g].prev /\ d[g].son = b[g].son /\ d[g].value = b[g].value
BY DEF Group, WithNext

LEMMA SetPrevGroup ==
  ASSUME NEW b \in [Cells -> Group], NEW x \in Cells, NEW y \in Links
  PROVE  LET d == WithPrev(b, x, y)
         IN  /\ d \in [Cells -> Group]
             /\ \A g \in Cells :
                  /\ d[g].prev = IF g = x THEN y ELSE b[g].prev
                  /\ d[g].next = b[g].next /\ d[g].son = b[g].son /\ d[g].value = b[g].value
BY DEF Group, WithPrev

LEMMA SetSon ==
  ASSUME NEW b \in [Cells -> Group], NEW x \in Cells, NEW y \in Cells
  PROVE  LET d == WithSon(b, x, y)
         IN  /\ d \in [Cells -> Group]
             /\ \A g \in Cells :
                  /\ d[g].son = IF g = x THEN y ELSE b[g].son
                  /\ d[g].next = b[g].next /\ d[g].prev = b[g].prev /\ d[g].value = b[g].value
BY DEF Group, WithSon

\* The element n counts one more, no other does, and the pointers keep their shape.
Moved(e, n) ==
  /\ bkt' \in [Cells -> Group] /\ ele' \in [Cells -> Element]
  /\ \A m \in Cells : ele'[m].fp = e[m].fp
  /\ ShapeInv'
  /\ \A m \in Cells : CountOf(m)' = IF m = n THEN CountOf(m) + 1 ELSE CountOf(m)

LEMMA RaiseMoves ==
  ASSUME TypeInv, ShapeInv, NEW n \in Cells, NEW e, Alike(e),
         ele' = Relink(e, n, ele[n].parent), Raise(n, ele[n].parent)
  PROVE  Moved(e, n)
<1> DEFINE p == ele[n].parent
<1>1. /\ p \in Used /\ p \in Cells /\ Members(p) = {n} /\ bkt[p].value \in Nat
      /\ Nexts[p] = NULL \/ Values[p] + 1 < Values[Nexts[p]]
  BY Standing DEF Raise
<1>2. ele' = e /\ tail' = tail /\ free_head' = free_head
  BY DEF Raise, Relink
<1>3. /\ bkt' \in [Cells -> Group]
      /\ \A g \in Cells :
           /\ bkt'[g].value = IF g = p THEN bkt[g].value + 1 ELSE bkt[g].value
           /\ bkt'[g].next = bkt[g].next /\ bkt'[g].prev = bkt[g].prev
           /\ bkt'[g].son = bkt[g].son
  BY <1>1 DEF Raise, TypeInv, Group
<1>4. \A m \in Cells : /\ ele'[m].parent = ele[m].parent
                       /\ ele'[m].next = ele[m].next /\ ele'[m].prev = ele[m].prev
  BY <1>2 DEF Alike
<1>5. Used' = Used /\ \A g : Members(g)' = Members(g)
  BY <1>4 DEF Used, Members
<1>6. Follows' = Follows /\ Precedes' = Precedes /\ Nexts' = Nexts /\ Prevs' = Prevs
  BY <1>3, <1>4 DEF Follows, Precedes, Nexts, Prevs
<1>7. Used \subseteq Cells
  BY DEF Used, TypeInv, Element
<1>8. Values'[p] = Values[p] + 1 /\ \A g \in Used : g # p => Values'[g] = Values[g]
  BY <1>1, <1>3, <1>7 DEF Values
<1>9. Chain(Used, Values', Nexts, Prevs, tail)
  <2>1. Chain(Used, Values, Nexts, Prevs, tail)
    BY DEF ShapeInv
  <2> QED BY <1>1, <1>8, <2>1, ChainRaise
<1>10. ShapeInv'
  BY <1>2, <1>3, <1>5, <1>6, <1>7, <1>9 DEF ShapeInv
<1>11. \A m \in Cells : ele[m].parent \in Cells /\ (ele[m].parent = p <=> m = n)
  BY <1>1 DEF Members, TypeInv, Element
<1>12. \A m \in Cells : CountOf(m)' = IF m = n THEN CountOf(m) + 1 ELSE CountOf(m)
  BY <1>3, <1>4, <1>11 DEF CountOf
<1> QED BY <1>2, <1>3, <1>10, <1>12 DEF Moved, Alike

\* What Merge does to the groups.
LEMMA MergeFields ==
  ASSUME TypeInv, NEW n \in Cells, NEW p \in Cells, Merge(n, p), bkt[p].next \in Cells,
         free_head \in Links
  PROVE  /\ bkt' \in [Cells -> Group]
         /\ \A g \in Cells :
              /\ bkt'[g].value = bkt[g].value
              /\ bkt'[g].son = IF g = bkt[p].next THEN n ELSE bkt[g].son
              /\ bkt'[g].prev = IF g = bkt[p].next THEN bkt[p].prev ELSE bkt[g].prev
              /\ bkt'[g].next = IF g = p THEN free_head
                                ELSE IF g = bkt[p].prev THEN bkt[p].next ELSE bkt[g].next
<1> DEFINE up == bkt[p].next  x == bkt[p].prev
           a == WithSon(bkt, up, n)  b == WithPrev(a, up, x)
           c == IF x = NULL THEN b ELSE WithNext(b, x, up)
           d == WithNext(c, p, free_head)
<1>1. bkt \in [Cells -> Group] /\ x \in Links /\ up \in Cells /\ up \in Links
  BY DEF TypeInv, Group, Links
<1>2. bkt' = d
  BY DEF Merge, WithSon, WithPrev, WithNext
<1> HIDE DEF up, x
<1>3. /\ a \in [Cells -> Group]
      /\ \A g \in Cells :
           /\ a[g].son = IF g = up THEN n ELSE bkt[g].son
           /\ a[g].next = bkt[g].next /\ a[g].prev = bkt[g].prev /\ a[g].value = bkt[g].value
  BY <1>1, SetSon
<1> HIDE DEF a
<1>4. /\ b \in [Cells -> Group]
      /\ \A g \in Cells :
           /\ b[g].prev = IF g = up THEN x ELSE a[g].prev
           /\ b[g].next = a[g].next /\ b[g].son = a[g].son /\ b[g].value = a[g].value
  <2>1. a \in [Cells -> Group]
    BY <1>3
  <2> QED BY <1>1, <2>1, SetPrevGroup
<1> HIDE DEF b
<1>5. /\ c \in [Cells -> Group]
      /\ \A g \in Cells :
           /\ c[g].next = IF g = x THEN up ELSE b[g].next
           /\ c[g].prev = b[g].prev /\ c[g].son = b[g].son /\ c[g].value = b[g].value
  <2>1. b \in [Cells -> Group]
    BY <1>4
  <2>2. CASE x = NULL
    <3>1. NULL \notin Cells
      BY DEF NULL, Cells
    <3> QED BY <2>1, <2>2, <3>1
  <2>3. CASE x # NULL
    <3>1. x \in Cells /\ c = WithNext(b, x, up)
      BY <1>1, <2>3 DEF Links
    <3> HIDE DEF c
    <3> QED BY <1>1, <2>1, <3>1, SetNextGroup
  <2> QED BY <2>2, <2>3
<1> HIDE DEF c
<1>6. /\ d \in [Cells -> Group]
      /\ \A g \in Cells :
           /\ d[g].next = IF g = p THEN free_head ELSE c[g].next
           /\ d[g].prev = c[g].prev /\ d[g].son = c[g].son /\ d[g].value = c[g].value
  <2>1. c \in [Cells -> Group]
    BY <1>5
  <2> QED BY <2>1, SetNextGroup
<1> HIDE DEF d
<1> QED BY <1>2, <1>3, <1>4, <1>5, <1>6 DEF up, x

\* The free list starts with a group or is empty.
LEMMA FreeHead ==
  ASSUME ShapeInv PROVE free_head \in (Cells \ Used) \cup {NULL}
<1>1. free_head # NULL => free_head \in Cells \ Used
  <2>1. FreeList(Cells \ Used, Nexts, free_head)
    BY DEF ShapeInv
  <2>2. \A g \in (Cells \ Used) \ {free_head} : Nexts[g] = Nexts[g]
    OBVIOUS
  <2> QED BY <2>1, <2>2, Pop
<1> QED BY <1>1

\* The element n leaves its place and is linked in front of h.
LEMMA JoinedFields ==
  ASSUME NEW e \in [Cells -> Element], NEW n \in Cells, NEW h \in Cells, n # h,
         NEW up \in Cells
  PROVE  LET d == [LinkBefore(e, n, h) EXCEPT ![n].parent = up]
         IN  /\ d \in [Cells -> Element]
             /\ \A m \in Cells :
                  /\ d[m].next = IF m = n THEN h ELSE IF m = e[h].prev THEN n ELSE e[m].next
                  /\ d[m].prev = IF m = n THEN e[h].prev ELSE IF m = h THEN n ELSE e[m].prev
                  /\ d[m].parent = IF m = n THEN up ELSE e[m].parent
                  /\ d[m].fp = e[m].fp
<1> DEFINE c == LinkBefore(e, n, h)  d == WithParent(c, n, up)
<1>1. /\ c \in [Cells -> Element]
      /\ \A m \in Cells :
           /\ c[m].next = IF m = n THEN h ELSE IF m = e[h].prev THEN n ELSE e[m].next
           /\ c[m].prev = IF m = n THEN e[h].prev ELSE IF m = h THEN n ELSE e[m].prev
           /\ c[m].parent = e[m].parent /\ c[m].fp = e[m].fp
  BY LinkFields
<1>2. d = [LinkBefore(e, n, h) EXCEPT ![n].parent = up]
  BY DEF WithParent
<1> HIDE DEF c
<1>3. /\ d \in [Cells -> Element]
      /\ \A m \in Cells :
           /\ d[m].parent = IF m = n THEN up ELSE c[m].parent
           /\ d[m].next = c[m].next /\ d[m].prev = c[m].prev /\ d[m].fp = c[m].fp
  <2>1. c \in [Cells -> Element]
    BY <1>1
  <2> QED BY <2>1, SetParent
<1> HIDE DEF d
<1> QED BY <1>1, <1>2, <1>3

\* The group of an element that stands alone joins the next one.
LEMMA MergeMoves ==
  ASSUME TypeInv, ShapeInv, NEW n \in Cells, NEW e, Alike(e),
         ele' = Relink(e, n, ele[n].parent), Merge(n, ele[n].parent)
  PROVE  Moved(e, n)
<1>p. PICK p : p = ele[n].parent
  OBVIOUS
<1>u. PICK up : up = bkt[p].next
  OBVIOUS
<1>h. PICK h : h = bkt[up].son
  OBVIOUS
<1>y. PICK y : y = ele[h].prev
  OBVIOUS
<1> DEFINE U == Used
<1>0. Alone(n) /\ JoinsNext(p) /\ Merge(n, p)
  BY <1>p DEF Merge
<1>1. /\ p \in U /\ p \in Cells /\ n \in Members(p) /\ Members(p) = {n}
      /\ up \in U /\ up \in Cells /\ up # p /\ up # NULL
      /\ bkt[up].value = bkt[p].value + 1
      /\ h \in Members(up) /\ h \in Cells /\ h # n
      /\ Ring(Follows, Precedes, Members(up))
  BY <1>0, <1>p, <1>u, <1>h, Standing
<1>2. ele' = [LinkBefore(e, n, h) EXCEPT ![n].parent = up]
  BY <1>0, <1>p, <1>u, <1>h DEF Relink
<1>3. tail' = (IF tail = p THEN up ELSE tail) /\ free_head' = p
  BY <1>0, <1>u DEF Merge, TailAfter
<1>4. /\ free_head \in (Cells \ U) \cup {NULL} /\ free_head \in Links /\ U \subseteq Cells
  BY FreeHead DEF Links, Used, TypeInv, Element
<1>5. /\ bkt' \in [Cells -> Group]
      /\ \A g \in Cells :
           /\ bkt'[g].value = bkt[g].value
           /\ bkt'[g].son = IF g = up THEN n ELSE bkt[g].son
           /\ bkt'[g].prev = IF g = up THEN bkt[p].prev ELSE bkt[g].prev
           /\ bkt'[g].next = IF g = p THEN free_head
                             ELSE IF g = bkt[p].prev THEN up ELSE bkt[g].next
  BY <1>0, <1>1, <1>4, <1>u, MergeFields
<1>6. /\ ele' \in [Cells -> Element]
      /\ \A m \in Cells :
           /\ ele'[m].next = IF m = n THEN h ELSE IF m = y THEN n ELSE ele[m].next
           /\ ele'[m].prev = IF m = n THEN y ELSE IF m = h THEN n ELSE ele[m].prev
           /\ ele'[m].parent = IF m = n THEN up ELSE ele[m].parent
           /\ ele'[m].fp = e[m].fp
  <2>1. /\ e \in [Cells -> Element]
        /\ \A m \in Cells : e[m].parent = ele[m].parent /\ e[m].next = ele[m].next
                            /\ e[m].prev = ele[m].prev
    BY DEF Alike
  <2>2. LET d == [LinkBefore(e, n, h) EXCEPT ![n].parent = up]
         IN  /\ d \in [Cells -> Element]
             /\ \A m \in Cells :
                  /\ d[m].next = IF m = n THEN h ELSE IF m = e[h].prev THEN n ELSE e[m].next
                  /\ d[m].prev = IF m = n THEN e[h].prev ELSE IF m = h THEN n ELSE e[m].prev
                  /\ d[m].parent = IF m = n THEN up ELSE e[m].parent
                  /\ d[m].fp = e[m].fp
    BY <1>1, <2>1, JoinedFields
  <2>3. e[h].prev = y
    BY <1>1, <1>y, <2>1
  <2> QED BY <1>2, <2>1, <2>2, <2>3
<1>7. ele[n].parent = p
  BY <1>p
<1>8. \A m \in Cells : ele[m].parent = p <=> m = n
  BY <1>1 DEF Members
<1>9. Used' = U \ {p}
  <2>1. ASSUME NEW g \in U, g # p PROVE g \in Used'
    <3>1. PICK m \in Cells : ele[m].parent = g
      BY <2>1 DEF Used
    <3>2. ele'[m].parent = g
      BY <1>6, <1>8, <2>1, <3>1
    <3> QED BY <3>2 DEF Used
  <2>2. ASSUME NEW m \in Cells PROVE ele'[m].parent \in U \ {p}
    BY <1>1, <1>6, <1>8 DEF Used
  <2> QED BY <2>1, <2>2 DEF Used
<1>10. /\ Members(up)' = Members(up) \cup {n} /\ n \notin Members(up)
       /\ \A g : g # p /\ g # up => Members(g)' = Members(g)
  BY <1>1, <1>6, <1>8 DEF Members
<1>11. \A m \in Cells :
         /\ Follows[m] = ele[m].next /\ Precedes[m] = ele[m].prev
         /\ Follows'[m] = IF m = n THEN h ELSE IF m = y THEN n ELSE ele[m].next
         /\ Precedes'[m] = IF m = n THEN y ELSE IF m = h THEN n ELSE ele[m].prev
  BY <1>6 DEF Follows, Precedes
<1>12. y = Precedes[h] /\ y \in Members(up) /\ Members(up) \subseteq Cells
  <2>1. y = Precedes[h]
    BY <1>1, <1>y DEF Precedes
  <2> QED BY <1>1, <2>1, RingBack DEF Members
<1>13. ASSUME NEW g \in Used'
       PROVE  bkt'[g].son \in Members(g)' /\ Ring(Follows', Precedes', Members(g)')
  <2>1. CASE g = up
    <3>1. bkt'[g].son = n
      BY <1>1, <1>5, <2>1
    <3>2. /\ Follows'[n] = h /\ Precedes'[n] = Precedes[h]
          /\ \A m \in Members(up) : Follows'[m] = IF m = Precedes[h] THEN n ELSE Follows[m]
          /\ \A m \in Members(up) : Precedes'[m] = IF m = h THEN n ELSE Precedes[m]
      BY <1>10, <1>11, <1>12
    <3>3. Ring(Follows', Precedes', Members(up) \cup {n})
      BY <1>1, <1>10, <3>2, RingIn
    <3> QED BY <1>10, <2>1, <3>1, <3>3
  <2>2. CASE g # up
    <3>1. g # p /\ g \in U /\ g \in Cells /\ Members(g)' = Members(g)
      BY <1>4, <1>9, <1>10, <2>2
    <3>2. bkt'[g].son = bkt[g].son /\ bkt[g].son \in Members(g)
          /\ Ring(Follows, Precedes, Members(g))
      BY <1>5, <2>2, <3>1 DEF ShapeInv
    <3>3. \A m \in Members(g) : m \in Cells /\ m # n /\ m # h /\ m # y
      BY <1>1, <1>8, <1>12, <2>2, <3>1 DEF Members
    <3>4. \A m \in Members(g) : Follows'[m] = Follows[m] /\ Precedes'[m] = Precedes[m]
      BY <1>11, <3>3
    <3>5. Ring(Follows', Precedes', Members(g))
      BY <3>2, <3>4, RingSame
    <3> QED BY <3>1, <3>2, <3>5
  <2> QED BY <2>1, <2>2
<1>14. Chain(U, Values, Nexts, Prevs, tail) /\ FreeList(Cells \ U, Nexts, free_head)
  BY DEF ShapeInv
<1>15. \A g \in Cells :
         /\ Values[g] = bkt[g].value /\ Nexts[g] = bkt[g].next /\ Prevs[g] = bkt[g].prev
         /\ Values'[g] = bkt'[g].value /\ Nexts'[g] = bkt'[g].next
         /\ Prevs'[g] = bkt'[g].prev
  BY DEF Values, Nexts, Prevs
<1>16. Nexts[p] = up /\ Values' = Values
  BY <1>1, <1>5, <1>u DEF Values, Nexts
<1>17. Prevs[p] = bkt[p].prev /\ Prevs[p] \in U \cup {NULL}
  <2>1. p # tail => Prevs[p] \in U
    BY <1>1, <1>14, ChainBack
  <2>2. Prevs[tail] = NULL
    BY <1>14 DEF Chain
  <2> QED BY <1>1, <1>15, <2>1, <2>2
<1>18. Chain(U \ {p}, Values, Nexts', Prevs', IF tail = p THEN up ELSE tail)
  <2>1. \A g \in U \ {p} : Nexts'[g] = IF g = Prevs[p] THEN Nexts[p] ELSE Nexts[g]
    BY <1>4, <1>5, <1>15, <1>16, <1>17
  <2>2. \A g \in U \ {p} : Prevs'[g] = IF g = Nexts[p] THEN Prevs[p] ELSE Prevs[g]
    BY <1>4, <1>5, <1>15, <1>16, <1>17
  <2>3. Chain(U \ {p}, Values, Nexts', Prevs', IF tail = p THEN Nexts[p] ELSE tail)
    <3>1. Chain(U, Values, Nexts, Prevs, tail) /\ p \in U /\ Nexts[p] # NULL
      BY <1>1, <1>14, <1>16
    <3> HIDE DEF U
    <3> QED BY <2>1, <2>2, <3>1, ChainLeave
  <2> QED BY <1>16, <2>3
<1>19. FreeList(Cells \ Used', Nexts', free_head')
  <2>1. Cells \ Used' = (Cells \ U) \cup {p} /\ p \notin Cells \ U
    BY <1>1, <1>9
  <2>2. Nexts'[p] = free_head
    BY <1>1, <1>5, <1>15
  <2>3. \A g \in Cells \ U : g # p /\ g # bkt[p].prev
    <3>1. NULL \notin Cells
      BY DEF NULL, Cells
    <3> QED BY <1>1, <1>17, <3>1
  <2>4. \A g \in Cells \ U : Nexts'[g] = Nexts[g]
    BY <1>5, <1>15, <2>3
  <2>5. FreeList((Cells \ U) \cup {p}, Nexts', p)
    BY <1>14, <2>1, <2>2, <2>4, Push
  <2> QED BY <1>3, <2>1, <2>5
<1>20. ShapeInv'
  BY <1>3, <1>9, <1>13, <1>16, <1>18, <1>19 DEF ShapeInv
<1>21. \A m \in Cells : CountOf(m)' = IF m = n THEN CountOf(m) + 1 ELSE CountOf(m)
  <2>1. \A m \in Cells : ele[m].parent \in Cells
    BY DEF TypeInv, Element
  <2>2. CountOf(n)' = bkt[up].value /\ CountOf(n) = bkt[p].value
    BY <1>1, <1>5, <1>6, <1>7 DEF CountOf
  <2>3. \A m \in Cells : m # n => CountOf(m)' = CountOf(m)
    BY <1>5, <1>6, <2>1 DEF CountOf
  <2> QED BY <1>1, <2>2, <2>3
<1> QED BY <1>5, <1>6, <1>20, <1>21 DEF Moved

\* What Split does to the groups.
LEMMA SplitFields ==
  ASSUME TypeInv, NEW n \in Cells, NEW p \in Cells, Split(n, p),
         free_head \in Cells, free_head # p, bkt[p].next # free_head,
         SonWithout(n, p) \in Cells
  PROVE  /\ bkt' \in [Cells -> Group]
         /\ \A g \in Cells :
              /\ bkt'[g].value = IF g = free_head THEN bkt[p].value + 1 ELSE bkt[g].value
              /\ bkt'[g].son = IF g = free_head THEN n
                               ELSE IF g = p THEN SonWithout(n, p) ELSE bkt[g].son
              /\ bkt'[g].prev = IF g = free_head THEN p
                                ELSE IF g = bkt[p].next THEN free_head ELSE bkt[g].prev
              /\ bkt'[g].next = IF g = free_head THEN bkt[p].next
                                ELSE IF g = p THEN free_head ELSE bkt[g].next
<1>f. PICK new : new = free_head
  OBVIOUS
<1> DEFINE above == bkt[p].next
           a == WithSon(bkt, p, SonWithout(n, p))  b == WithNext(a, p, new)
           c == IF above = NULL THEN b ELSE WithPrev(b, above, new)
           r == [prev |-> p, next |-> above, value |-> bkt[p].value + 1, son |-> n]
<1>1. /\ bkt \in [Cells -> Group] /\ above \in Links /\ new \in Cells /\ new \in Links
      /\ p \in Links /\ bkt[p].value \in Nat /\ above # new /\ new # p
  BY <1>f DEF TypeInv, Group, Links
<1>2. bkt' = [c EXCEPT ![new] = r]
  BY <1>f DEF Split, WithSon, WithPrev, WithNext
<1>3. r \in Group /\ r.prev = p /\ r.next = above /\ r.value = bkt[p].value + 1 /\ r.son = n
  BY <1>1 DEF Group
<1> HIDE DEF r, above
<1>4. /\ a \in [Cells -> Group]
      /\ \A g \in Cells :
           /\ a[g].son = IF g = p THEN SonWithout(n, p) ELSE bkt[g].son
           /\ a[g].next = bkt[g].next /\ a[g].prev = bkt[g].prev /\ a[g].value = bkt[g].value
  BY <1>1, SetSon
<1> HIDE DEF a
<1>5. /\ b \in [Cells -> Group]
      /\ \A g \in Cells :
           /\ b[g].next = IF g = p THEN new ELSE a[g].next
           /\ b[g].prev = a[g].prev /\ b[g].son = a[g].son /\ b[g].value = a[g].value
  <2>1. a \in [Cells -> Group]
    BY <1>4
  <2> QED BY <1>1, <2>1, SetNextGroup
<1> HIDE DEF b
<1>6. /\ c \in [Cells -> Group]
      /\ \A g \in Cells :
           /\ c[g].prev = IF g = above THEN new ELSE b[g].prev
           /\ c[g].next = b[g].next /\ c[g].son = b[g].son /\ c[g].value = b[g].value
  <2>1. b \in [Cells -> Group]
    BY <1>5
  <2>2. CASE above = NULL
    <3>1. NULL \notin Cells
      BY DEF NULL, Cells
    <3> QED BY <2>1, <2>2, <3>1
  <2>3. CASE above # NULL
    <3>1. above \in Cells /\ c = WithPrev(b, above, new)
      BY <1>1, <2>3 DEF Links
    <3> HIDE DEF c
    <3> QED BY <1>1, <2>1, <3>1, SetPrevGroup
  <2> QED BY <2>2, <2>3
<1> HIDE DEF c
<1>7. /\ bkt' \in [Cells -> Group]
      /\ \A g \in Cells : bkt'[g] = IF g = new THEN r ELSE c[g]
  <2>1. c \in [Cells -> Group]
    BY <1>6
  <2> QED BY <1>1, <1>2, <1>3, <2>1
<1> QED BY <1>1, <1>3, <1>4, <1>5, <1>6, <1>7, <1>f DEF above

\* An element that is not alone leaves its ring for one of its own.
LEMMA SplitElements ==
  ASSUME NEW e \in [Cells -> Element], NEW n \in Cells, NEW new \in Cells
  PROVE  LET d == [Unlink(e, n) EXCEPT ![n].next = n, ![n].prev = n, ![n].parent = new]
         IN  /\ d \in [Cells -> Element]
             /\ \A m \in Cells :
                  /\ d[m].next = IF m = n THEN n
                                 ELSE IF m = e[n].prev THEN e[n].next ELSE e[m].next
                  /\ d[m].prev = IF m = n THEN n
                                 ELSE IF m = e[n].next THEN e[n].prev ELSE e[m].prev
                  /\ d[m].parent = IF m = n THEN new ELSE e[m].parent
                  /\ d[m].fp = e[m].fp
<1> DEFINE a == Unlink(e, n)  b == WithNext(a, n, n)  c == WithPrev(b, n, n)
           d == WithParent(c, n, new)
<1>1. d = [Unlink(e, n) EXCEPT ![n].next = n, ![n].prev = n, ![n].parent = new]
  BY DEF WithNext, WithPrev, WithParent
<1>2. /\ a \in [Cells -> Element]
      /\ \A m \in Cells :
           /\ a[m].next = IF m = e[n].prev THEN e[n].next ELSE e[m].next
           /\ a[m].prev = IF m = e[n].next THEN e[n].prev ELSE e[m].prev
           /\ a[m].parent = e[m].parent /\ a[m].fp = e[m].fp
  BY UnlinkFields
<1> HIDE DEF a
<1>3. /\ b \in [Cells -> Element]
      /\ \A m \in Cells :
           /\ b[m].next = IF m = n THEN n ELSE a[m].next
           /\ b[m].prev = a[m].prev /\ b[m].parent = a[m].parent /\ b[m].fp = a[m].fp
  <2>1. a \in [Cells -> Element]
    BY <1>2
  <2> QED BY <2>1, SetNext
<1> HIDE DEF b
<1>4. /\ c \in [Cells -> Element]
      /\ \A m \in Cells :
           /\ c[m].prev = IF m = n THEN n ELSE b[m].prev
           /\ c[m].next = b[m].next /\ c[m].parent = b[m].parent /\ c[m].fp = b[m].fp
  <2>1. b \in [Cells -> Element]
    BY <1>3
  <2> QED BY <2>1, SetPrev
<1> HIDE DEF c
<1>5. /\ d \in [Cells -> Element]
      /\ \A m \in Cells :
           /\ d[m].parent = IF m = n THEN new ELSE c[m].parent
           /\ d[m].next = c[m].next /\ d[m].prev = c[m].prev /\ d[m].fp = c[m].fp
  <2>1. c \in [Cells -> Element]
    BY <1>4
  <2> QED BY <2>1, SetParent
<1> HIDE DEF d
<1> QED BY <1>1, <1>2, <1>3, <1>4, <1>5

\* The son of the group that n leaves.
LEMMA SonStays ==
  ASSUME TypeInv, ShapeInv, NEW n \in Cells, ~ Alone(n)
  PROVE  SonWithout(n, ele[n].parent) \in Members(ele[n].parent) \ {n}
<1>p. PICK p : p = ele[n].parent
  OBVIOUS
<1>1. p \in Used /\ n \in Members(p) /\ Ring(Follows, Precedes, Members(p))
  BY <1>p, Standing
<1>2. Follows[n] = ele[n].next /\ ele[n].next # n
  BY DEF Follows, Alone
<1>3. ele[n].next \in Members(p) \ {n}
  BY <1>1, <1>2 DEF Ring
<1>4. bkt[p].son \in Members(p)
  BY <1>1 DEF ShapeInv
<1> QED BY <1>p, <1>3, <1>4 DEF SonWithout

\* An element that is not alone gets a group of its own.
LEMMA SplitMoves ==
  ASSUME TypeInv, ShapeInv, NEW n \in Cells, NEW e, Alike(e),
         ele' = Relink(e, n, ele[n].parent), Split(n, ele[n].parent)
  PROVE  Moved(e, n)
<1>p. PICK p : p = ele[n].parent
  OBVIOUS
<1>f. PICK new : new = free_head
  OBVIOUS
<1>x. PICK x : x = ele[n].next
  OBVIOUS
<1>y. PICK y : y = ele[n].prev
  OBVIOUS
<1>s. PICK s : s = SonWithout(n, p)
  OBVIOUS
<1> DEFINE U == Used
<1>0. ~ Alone(n) /\ ~ JoinsNext(p) /\ Split(n, p) /\ new # NULL
  BY <1>p, <1>f DEF Split
<1>1. /\ p \in U /\ p \in Cells /\ n \in Members(p) /\ Members(p) # {n}
      /\ Members(p) \in SUBSET Cells /\ bkt[p].value \in Nat
      /\ Nexts[p] = NULL \/ Values[p] + 1 < Values[Nexts[p]]
      /\ Ring(Follows, Precedes, Members(p))
  BY <1>0, <1>p, Standing
<1>2. Chain(U, Values, Nexts, Prevs, tail) /\ FreeList(Cells \ U, Nexts, new)
  BY <1>f DEF ShapeInv
<1>3. /\ new \in Cells /\ new \notin U /\ new # p /\ U \subseteq Cells
  BY <1>0, <1>1, <1>f, FreeHead DEF Used, TypeInv, Element
<1>4. s \in Members(p) \ {n} /\ s \in Cells
  BY <1>0, <1>1, <1>p, <1>s, SonStays
<1>5. \A g \in Cells :
        /\ Values[g] = bkt[g].value /\ Nexts[g] = bkt[g].next /\ Prevs[g] = bkt[g].prev
        /\ Values'[g] = bkt'[g].value /\ Nexts'[g] = bkt'[g].next
        /\ Prevs'[g] = bkt'[g].prev
  BY DEF Values, Nexts, Prevs
<1>6. Nexts[p] \in U \cup {NULL} /\ Nexts[p] # new
  BY <1>0, <1>1, <1>2, <1>3 DEF Chain
<1>7. /\ bkt' \in [Cells -> Group]
      /\ \A g \in Cells :
           /\ bkt'[g].value = IF g = new THEN bkt[p].value + 1 ELSE bkt[g].value
           /\ bkt'[g].son = IF g = new THEN n ELSE IF g = p THEN s ELSE bkt[g].son
           /\ bkt'[g].prev = IF g = new THEN p
                             ELSE IF g = Nexts[p] THEN new ELSE bkt[g].prev
           /\ bkt'[g].next = IF g = new THEN Nexts[p] ELSE IF g = p THEN new ELSE bkt[g].next
  <2>1. Nexts[p] = bkt[p].next
    BY <1>1, <1>5
  <2> QED BY <1>0, <1>1, <1>3, <1>4, <1>6, <1>f, <1>s, <2>1, SplitFields
<1>8. tail' = tail /\ free_head' = Nexts[new]
  BY <1>0, <1>3, <1>5, <1>f DEF Split
<1>9. /\ ele' \in [Cells -> Element]
      /\ \A m \in Cells :
           /\ ele'[m].next = IF m = n THEN n ELSE IF m = y THEN x ELSE ele[m].next
           /\ ele'[m].prev = IF m = n THEN n ELSE IF m = x THEN y ELSE ele[m].prev
           /\ ele'[m].parent = IF m = n THEN new ELSE ele[m].parent
           /\ ele'[m].fp = e[m].fp
  <2>1. /\ e \in [Cells -> Element]
        /\ \A m \in Cells : e[m].parent = ele[m].parent /\ e[m].next = ele[m].next
                            /\ e[m].prev = ele[m].prev
    BY DEF Alike
  <2>2. ele' = [Unlink(e, n) EXCEPT ![n].next = n, ![n].prev = n, ![n].parent = new]
    BY <1>0, <1>p, <1>f DEF Relink
  <2>3. e[n].next = x /\ e[n].prev = y
    BY <1>x, <1>y, <2>1
  <2>4. LET d == [Unlink(e, n) EXCEPT ![n].next = n, ![n].prev = n, ![n].parent = new]
         IN  /\ d \in [Cells -> Element]
             /\ \A m \in Cells :
                  /\ d[m].next = IF m = n THEN n
                                 ELSE IF m = e[n].prev THEN e[n].next ELSE e[m].next
                  /\ d[m].prev = IF m = n THEN n
                                 ELSE IF m = e[n].next THEN e[n].prev ELSE e[m].prev
                  /\ d[m].parent = IF m = n THEN new ELSE e[m].parent
                  /\ d[m].fp = e[m].fp
    <3>1. e \in [Cells -> Element] /\ new \in Cells
      BY <1>3, <2>1
    <3> QED BY <3>1, SplitElements
  <2> QED BY <2>1, <2>2, <2>3, <2>4
<1>10. ele[n].parent = p
  BY <1>p
<1>11. \A m \in Cells :
         /\ Follows[m] = ele[m].next /\ Precedes[m] = ele[m].prev
         /\ Follows'[m] = IF m = n THEN n ELSE IF m = y THEN x ELSE ele[m].next
         /\ Precedes'[m] = IF m = n THEN n ELSE IF m = x THEN y ELSE ele[m].prev
  BY <1>9 DEF Follows, Precedes
<1>12. x = Follows[n] /\ y = Precedes[n]
  BY <1>x, <1>y DEF Follows, Precedes
<1>13. /\ \A m \in Members(p) \ {n} : Follows'[m] = IF m = Precedes[n] THEN Follows[n] ELSE Follows[m]
       /\ \A m \in Members(p) \ {n} : Precedes'[m] = IF m = Follows[n] THEN Precedes[n] ELSE Precedes[m]
  BY <1>1, <1>11, <1>12
<1>14. Ring(Follows', Precedes', Members(p) \ {n}) /\ x \in Members(p) /\ y \in Members(p)
  <2>1. Ring(Follows, Precedes, Members(p)) /\ n \in Members(p) /\ Members(p) # {n}
    BY <1>1
  <2>2. /\ Ring(Follows', Precedes', Members(p) \ {n})
        /\ Follows[n] \in Members(p) \ {n} /\ Precedes[n] \in Members(p) \ {n}
    <3>m. PICK M : M = Members(p)
      OBVIOUS
    <3>n. PICK N : N = Members(p) \ {n}
      OBVIOUS
    <3>f. PICK ny : ny = Follows'
      OBVIOUS
    <3>r. PICK py : py = Precedes'
      OBVIOUS
    <3>1. /\ Ring(Follows, Precedes, M) /\ n \in M /\ M # {n} /\ N = M \ {n}
          /\ \A m \in N : ny[m] = IF m = Precedes[n] THEN Follows[n] ELSE Follows[m]
          /\ \A m \in N : py[m] = IF m = Follows[n] THEN Precedes[n] ELSE Precedes[m]
      BY <1>13, <2>1, <3>m, <3>n, <3>f, <3>r
    <3>2. Ring(ny, py, N) /\ Follows[n] \in N /\ Precedes[n] \in N
      BY <3>1, RingOut
    <3> QED BY <3>2, <3>n, <3>f, <3>r
  <2> QED BY <1>12, <2>2
<1>15. /\ Members(p)' = Members(p) \ {n} /\ Members(new)' = {n}
       /\ \A g : g # p /\ g # new => Members(g)' = Members(g)
  <2>1. \A m \in Cells : ele[m].parent # new
    BY <1>3 DEF Used
  <2> QED BY <1>9, <1>10, <1>3, <2>1 DEF Members
<1>16. Used' = U \cup {new}
  <2>1. ASSUME NEW g \in U PROVE g \in Used'
    <3>1. CASE g = p
      <4>1. s \in Cells /\ s \in Members(p)'
        BY <1>4, <1>15
      <4>2. ele'[s].parent = p
        BY <4>1 DEF Members
      <4> QED BY <3>1, <4>1, <4>2 DEF Used
    <3>2. CASE g # p
      <4>1. PICK m \in Cells : ele[m].parent = g
        BY <2>1 DEF Used
      <4>2. ele'[m].parent = g
        BY <1>9, <1>10, <3>2, <4>1
      <4> QED BY <4>2 DEF Used
    <3> QED BY <3>1, <3>2
  <2>2. new \in Used'
    BY <1>9 DEF Used
  <2>3. ASSUME NEW m \in Cells PROVE ele'[m].parent \in U \cup {new}
    BY <1>9 DEF Used
  <2> QED BY <2>1, <2>2, <2>3 DEF Used
<1>17. ASSUME NEW g \in Used'
       PROVE  bkt'[g].son \in Members(g)' /\ Ring(Follows', Precedes', Members(g)')
  <2>1. CASE g = p
    <3>1. bkt'[g].son = s
      BY <1>1, <1>3, <1>7, <2>1
    <3> QED BY <1>4, <1>14, <1>15, <2>1, <3>1
  <2>2. CASE g = new
    <3>1. bkt'[g].son = n
      BY <1>3, <1>7, <2>2
    <3>2. Ring(Follows', Precedes', {n})
      <4>1. Follows'[n] = n /\ Precedes'[n] = n
        BY <1>11
      <4> QED BY <4>1, RingOne
    <3> QED BY <1>15, <2>2, <3>1, <3>2
  <2>3. CASE g # p /\ g # new
    <3>1. g \in U /\ g \in Cells /\ Members(g)' = Members(g)
      BY <1>3, <1>15, <1>16, <2>3
    <3>2. bkt'[g].son = bkt[g].son /\ bkt[g].son \in Members(g)
          /\ Ring(Follows, Precedes, Members(g))
      BY <1>7, <2>3, <3>1 DEF ShapeInv
    <3>3. \A m \in Members(g) : m \in Cells /\ m # n /\ m # x /\ m # y
      BY <1>1, <1>14, <2>3 DEF Members
    <3>4. \A m \in Members(g) : Follows'[m] = Follows[m] /\ Precedes'[m] = Precedes[m]
      BY <1>11, <3>3
    <3>5. Ring(Follows', Precedes', Members(g))
      BY <3>2, <3>4, RingSame
    <3> QED BY <3>1, <3>2, <3>5
  <2> QED BY <2>1, <2>2, <2>3
<1>18. Chain(U \cup {new}, Values', Nexts', Prevs', tail)
  <2>1. Values'[new] = Values[p] + 1 /\ \A g \in U : Values'[g] = Values[g]
    BY <1>1, <1>3, <1>5, <1>7
  <2>2. Nexts'[new] = Nexts[p] /\ \A g \in U : Nexts'[g] = IF g = p THEN new ELSE Nexts[g]
    BY <1>1, <1>3, <1>5, <1>7
  <2>3. Prevs'[new] = p /\ \A g \in U : Prevs'[g] = IF g = Nexts[p] THEN new ELSE Prevs[g]
    BY <1>1, <1>3, <1>5, <1>7
  <2>4. /\ Chain(U, Values, Nexts, Prevs, tail) /\ p \in U /\ new \notin U /\ new # NULL
        /\ Nexts[p] = NULL \/ Values[p] + 1 < Values[Nexts[p]]
    BY <1>0, <1>1, <1>2, <1>3
  <2> HIDE DEF U
  <2> QED BY <2>1, <2>2, <2>3, <2>4, ChainEnter
<1>19. FreeList(Cells \ Used', Nexts', free_head')
  <2>1. Cells \ Used' = (Cells \ U) \ {new}
    BY <1>16
  <2>2. \A g \in (Cells \ U) \ {new} : Nexts'[g] = Nexts[g]
    BY <1>1, <1>5, <1>7
  <2>3. FreeList((Cells \ U) \ {new}, Nexts', Nexts[new])
    BY <1>0, <1>2, <2>2, Pop
  <2> QED BY <1>8, <2>1, <2>3
<1>20. ShapeInv'
  BY <1>8, <1>16, <1>17, <1>18, <1>19 DEF ShapeInv
<1>21. \A m \in Cells : CountOf(m)' = IF m = n THEN CountOf(m) + 1 ELSE CountOf(m)
  <2>1. \A m \in Cells : ele[m].parent \in U /\ ele[m].parent \in Cells
    BY <1>3 DEF Used
  <2>2. CountOf(n)' = bkt[p].value + 1 /\ CountOf(n) = bkt[p].value
    BY <1>3, <1>7, <1>9, <1>10 DEF CountOf
  <2>3. \A m \in Cells : m # n => CountOf(m)' = CountOf(m)
    BY <1>3, <1>7, <1>9, <2>1 DEF CountOf
  <2> QED BY <2>2, <2>3
<1> QED BY <1>7, <1>9, <1>20, <1>21 DEF Moved

\* An element that is not alone leaves its group for the next one.
LEMMA JoinMoves ==
  ASSUME TypeInv, ShapeInv, NEW n \in Cells, NEW e, Alike(e),
         ele' = Relink(e, n, ele[n].parent), Join(n, ele[n].parent)
  PROVE  Moved(e, n)
<1>p. PICK p : p = ele[n].parent
  OBVIOUS
<1>u. PICK up : up = bkt[p].next
  OBVIOUS
<1>h. PICK h : h = bkt[up].son
  OBVIOUS
<1>x. PICK x : x = ele[n].next
  OBVIOUS
<1>y. PICK y : y = ele[n].prev
  OBVIOUS
<1>z. PICK z : z = ele[h].prev
  OBVIOUS
<1>s. PICK s : s = SonWithout(n, p)
  OBVIOUS
<1>0. ~ Alone(n) /\ JoinsNext(p) /\ Join(n, p)
  BY <1>p DEF Join
<1>1. /\ p \in Used /\ p \in Cells /\ n \in Members(p) /\ Members(p) # {n}
      /\ Members(p) \in SUBSET Cells /\ Ring(Follows, Precedes, Members(p))
      /\ up \in Used /\ up \in Cells /\ up # p /\ up # NULL
      /\ bkt[up].value = bkt[p].value + 1
      /\ h \in Members(up) /\ h \in Cells /\ h # n
      /\ Ring(Follows, Precedes, Members(up))
  BY <1>0, <1>p, <1>u, <1>h, Standing
<1>2. s \in Members(p) \ {n} /\ s \in Cells
  BY <1>0, <1>1, <1>p, <1>s, SonStays
<1>3. Used \subseteq Cells /\ bkt \in [Cells -> Group] /\ ele[n].parent = p
  BY <1>p DEF Used, TypeInv, Element
<1>4. /\ bkt' \in [Cells -> Group]
      /\ \A g \in Cells :
           /\ bkt'[g].son = IF g = up THEN n ELSE IF g = p THEN s ELSE bkt[g].son
           /\ bkt'[g].value = bkt[g].value /\ bkt'[g].next = bkt[g].next
           /\ bkt'[g].prev = bkt[g].prev
  <2> DEFINE a == WithSon(bkt, p, s)  b == WithSon(a, up, n)
  <2>1. bkt' = b
    BY <1>0, <1>s, <1>u DEF Join, WithSon
  <2>2. /\ a \in [Cells -> Group]
        /\ \A g \in Cells :
             /\ a[g].son = IF g = p THEN s ELSE bkt[g].son
             /\ a[g].next = bkt[g].next /\ a[g].prev = bkt[g].prev /\ a[g].value = bkt[g].value
    BY <1>1, <1>2, <1>3, SetSon
  <2> HIDE DEF a
  <2>3. /\ b \in [Cells -> Group]
        /\ \A g \in Cells :
             /\ b[g].son = IF g = up THEN n ELSE a[g].son
             /\ b[g].next = a[g].next /\ b[g].prev = a[g].prev /\ b[g].value = a[g].value
    <3>1. a \in [Cells -> Group] /\ up \in Cells
      BY <1>1, <2>2
    <3> QED BY <3>1, SetSon
  <2> HIDE DEF b
  <2> QED BY <2>1, <2>2, <2>3
<1>5. tail' = tail /\ free_head' = free_head
  BY <1>0 DEF Join
<1>6. \A m \in Cells : Follows[m] = ele[m].next /\ Precedes[m] = ele[m].prev
  BY DEF Follows, Precedes
<1>7. /\ x = Follows[n] /\ y = Precedes[n] /\ z = Precedes[h]
      /\ x \in Members(p) /\ y \in Members(p) /\ z \in Members(up)
      /\ x \in Cells /\ y \in Cells /\ z \in Cells
  <2>1. x = Follows[n] /\ y = Precedes[n] /\ z = Precedes[h]
    BY <1>1, <1>6, <1>x, <1>y, <1>z
  <2>2. Follows[n] \in Members(p)
    BY <1>1 DEF Ring
  <2>3. Precedes[n] \in Members(p)
    BY <1>1, RingBack
  <2>4. Precedes[h] \in Members(up)
    BY <1>1, RingBack
  <2> QED BY <2>1, <2>2, <2>3, <2>4 DEF Members
<1>8. \A m : ~ (m \in Members(p) /\ m \in Members(up))
  BY <1>1 DEF Members
<1>9. /\ ele' \in [Cells -> Element]
      /\ \A m \in Cells :
           /\ ele'[m].next = IF m = n THEN h ELSE IF m = z THEN n
                             ELSE IF m = y THEN x ELSE ele[m].next
           /\ ele'[m].prev = IF m = n THEN z ELSE IF m = h THEN n
                             ELSE IF m = x THEN y ELSE ele[m].prev
           /\ ele'[m].parent = IF m = n THEN up ELSE ele[m].parent
           /\ ele'[m].fp = e[m].fp
  <2> DEFINE out == Unlink(e, n)  d == [LinkBefore(out, n, h) EXCEPT ![n].parent = up]
  <2>1. /\ e \in [Cells -> Element]
        /\ \A m \in Cells : e[m].parent = ele[m].parent /\ e[m].next = ele[m].next
                            /\ e[m].prev = ele[m].prev
    BY DEF Alike
  <2>2. ele' = d
    BY <1>0, <1>p, <1>u, <1>h DEF Relink
  <2>3. /\ out \in [Cells -> Element]
        /\ \A m \in Cells :
             /\ out[m].next = IF m = e[n].prev THEN e[n].next ELSE e[m].next
             /\ out[m].prev = IF m = e[n].next THEN e[n].prev ELSE e[m].prev
             /\ out[m].parent = e[m].parent /\ out[m].fp = e[m].fp
    <3>1. e \in [Cells -> Element]
      BY <2>1
    <3> QED BY <3>1, UnlinkFields
  <2>4. e[n].next = x /\ e[n].prev = y
    BY <1>x, <1>y, <2>1
  <2> HIDE DEF out
  <2>5. out[h].prev = z
    <3>1. h # x
      BY <1>1, <1>7, <1>8
    <3> QED BY <1>1, <1>z, <2>1, <2>3, <2>4, <3>1
  <2>6. /\ d \in [Cells -> Element]
        /\ \A m \in Cells :
             /\ d[m].next = IF m = n THEN h ELSE IF m = out[h].prev THEN n ELSE out[m].next
             /\ d[m].prev = IF m = n THEN out[h].prev ELSE IF m = h THEN n ELSE out[m].prev
             /\ d[m].parent = IF m = n THEN up ELSE out[m].parent
             /\ d[m].fp = out[m].fp
    <3>1. out \in [Cells -> Element] /\ h \in Cells /\ h # n /\ up \in Cells
      BY <1>1, <2>3
    <3> QED BY <3>1, JoinedFields
  <2> HIDE DEF d
  <2> QED BY <2>1, <2>2, <2>3, <2>4, <2>5, <2>6
<1>10. \A m \in Cells :
         /\ Follows'[m] = IF m = n THEN h ELSE IF m = z THEN n
                          ELSE IF m = y THEN x ELSE ele[m].next
         /\ Precedes'[m] = IF m = n THEN z ELSE IF m = h THEN n
                           ELSE IF m = x THEN y ELSE ele[m].prev
  BY <1>9 DEF Follows, Precedes
<1>11. /\ Members(p)' = Members(p) \ {n} /\ Members(up)' = Members(up) \cup {n}
       /\ n \notin Members(up)
       /\ \A g : g # p /\ g # up => Members(g)' = Members(g)
  BY <1>1, <1>3, <1>9 DEF Members
<1>12. Used' = Used
  <2>1. ASSUME NEW g \in Used PROVE g \in Used'
    <3>1. CASE g = p
      <4>1. ele'[s].parent = p
        BY <1>2, <1>9 DEF Members
      <4> QED BY <1>2, <3>1, <4>1 DEF Used
    <3>2. CASE g # p
      <4>1. PICK m \in Cells : ele[m].parent = g
        BY <2>1 DEF Used
      <4>2. ele'[m].parent = g
        BY <1>3, <1>9, <3>2, <4>1
      <4> QED BY <4>2 DEF Used
    <3> QED BY <3>1, <3>2
  <2>2. ASSUME NEW m \in Cells PROVE ele'[m].parent \in Used
    BY <1>1, <1>9 DEF Used
  <2> QED BY <2>1, <2>2 DEF Used
<1>13. Ring(Follows', Precedes', Members(p)')
  <2>m. PICK M : M = Members(p)
    OBVIOUS
  <2>n. PICK N : N = Members(p) \ {n}
    OBVIOUS
  <2>f. PICK ny : ny = Follows'
    OBVIOUS
  <2>r. PICK py : py = Precedes'
    OBVIOUS
  <2>1. \A m \in N : m \in Cells /\ m # n /\ m # z /\ m # h
    BY <1>1, <1>7, <1>8, <2>n
  <2>2. /\ Ring(Follows, Precedes, M) /\ n \in M /\ M # {n} /\ N = M \ {n}
        /\ \A m \in N : ny[m] = IF m = Precedes[n] THEN Follows[n] ELSE Follows[m]
        /\ \A m \in N : py[m] = IF m = Follows[n] THEN Precedes[n] ELSE Precedes[m]
    BY <1>1, <1>6, <1>7, <1>10, <2>1, <2>m, <2>n, <2>f, <2>r
  <2>3. Ring(ny, py, N)
    BY <2>2, RingOut
  <2> QED BY <1>11, <2>3, <2>n, <2>f, <2>r
<1>14. Ring(Follows', Precedes', Members(up)')
  <2>1. \A m \in Members(up) : m \in Cells /\ m # n /\ m # x /\ m # y
    BY <1>7, <1>8, <1>11 DEF Members
  <2>2. /\ Follows'[n] = h /\ Precedes'[n] = Precedes[h]
        /\ \A m \in Members(up) : Follows'[m] = IF m = Precedes[h] THEN n ELSE Follows[m]
        /\ \A m \in Members(up) : Precedes'[m] = IF m = h THEN n ELSE Precedes[m]
    BY <1>6, <1>7, <1>10, <2>1
  <2>3. Ring(Follows', Precedes', Members(up) \cup {n})
    BY <1>1, <1>11, <2>2, RingIn
  <2> QED BY <1>11, <2>3
<1>15. ASSUME NEW g \in Used'
       PROVE  bkt'[g].son \in Members(g)' /\ Ring(Follows', Precedes', Members(g)')
  <2>1. CASE g = p
    <3>1. bkt'[g].son = s
      BY <1>1, <1>4, <2>1
    <3> QED BY <1>2, <1>11, <1>13, <2>1, <3>1
  <2>2. CASE g = up
    <3>1. bkt'[g].son = n
      BY <1>1, <1>4, <2>2
    <3> QED BY <1>11, <1>14, <2>2, <3>1
  <2>3. CASE g # p /\ g # up
    <3>1. g \in Used /\ g \in Cells /\ Members(g)' = Members(g)
      BY <1>3, <1>11, <1>12, <2>3
    <3>2. bkt'[g].son = bkt[g].son /\ bkt[g].son \in Members(g)
          /\ Ring(Follows, Precedes, Members(g))
      BY <1>4, <2>3, <3>1 DEF ShapeInv
    <3>3. \A m \in Members(g) : m \in Cells /\ m # n /\ m # h /\ m # x /\ m # y /\ m # z
      BY <1>1, <1>7, <2>3 DEF Members
    <3>4. \A m \in Members(g) : Follows'[m] = Follows[m] /\ Precedes'[m] = Precedes[m]
      BY <1>6, <1>10, <3>3
    <3>5. Ring(Follows', Precedes', Members(g))
      BY <3>2, <3>4, RingSame
    <3> QED BY <3>1, <3>2, <3>5
  <2> QED BY <2>1, <2>2, <2>3
<1>16. Values' = Values /\ Nexts' = Nexts /\ Prevs' = Prevs
  BY <1>4 DEF Values, Nexts, Prevs
<1>17. ShapeInv'
  BY <1>5, <1>12, <1>15, <1>16 DEF ShapeInv
<1>18. \A m \in Cells : CountOf(m)' = IF m = n THEN CountOf(m) + 1 ELSE CountOf(m)
  <2>1. \A m \in Cells : ele[m].parent \in Cells
    BY <1>3 DEF Used
  <2>2. CountOf(n)' = bkt[up].value /\ CountOf(n) = bkt[p].value
    BY <1>1, <1>3, <1>4, <1>9 DEF CountOf
  <2>3. \A m \in Cells : m # n => CountOf(m)' = CountOf(m)
    BY <1>4, <1>9, <2>1 DEF CountOf
  <2> QED BY <1>1, <2>2, <2>3
<1> QED BY <1>4, <1>9, <1>17, <1>18 DEF Moved
-----------------------------------------------------------------------------
(* Every insertion keeps the shape.                                        *)

\* The element that v takes, labelled.
LEMMA Takes ==
  ASSUME TypeInv, ShapeInv, NEW v \in Keys
  PROVE  /\ ElementOf(v) \in Cells /\ Alike(Labelled(v))
         /\ \A m \in Cells : Labelled(v)[m].fp = IF m = ElementOf(v) THEN v ELSE ele[m].fp
         /\ ~ Indexed(v) => ElementOf(v) \in Members(tail)
         /\ tail \in Used /\ tail \in Cells /\ bkt[tail].son \in Members(tail)
<1>1. tail \in Used /\ tail \in Cells
  BY DEF ShapeInv, Chain, Used, TypeInv, Element
<1>2. bkt[tail].son \in Members(tail) /\ bkt[tail].son \in Cells
  BY <1>1 DEF ShapeInv, Members
<1>3. ElementOf(v) \in Cells /\ (~ Indexed(v) => ElementOf(v) \in Members(tail))
  BY <1>2 DEF ElementOf, Indexed, TypeInv
<1>4. /\ Labelled(v) \in [Cells -> Element]
      /\ \A m \in Cells :
           /\ Labelled(v)[m].fp = IF m = ElementOf(v) THEN v ELSE ele[m].fp
           /\ Labelled(v)[m].parent = ele[m].parent /\ Labelled(v)[m].next = ele[m].next
           /\ Labelled(v)[m].prev = ele[m].prev
  <2>n. PICK n : n = ElementOf(v)
    OBVIOUS
  <2>1. n \in Cells /\ ele \in [Cells -> Element]
    BY <1>3, <2>n DEF TypeInv
  <2>2. Labelled(v) = [ele EXCEPT ![n].fp = v]
    BY <2>n DEF Labelled
  <2>3. /\ Labelled(v) \in [Cells -> Element]
        /\ \A m \in Cells :
             /\ Labelled(v)[m].fp = IF m = n THEN v ELSE ele[m].fp
             /\ Labelled(v)[m].parent = ele[m].parent /\ Labelled(v)[m].next = ele[m].next
             /\ Labelled(v)[m].prev = ele[m].prev
    BY <2>1, <2>2 DEF Element
  <2> QED BY <2>3, <2>n
<1> QED BY <1>1, <1>2, <1>3, <1>4 DEF Alike

\* Whichever of the four ways the element goes.
LEMMA InsertMoves ==
  ASSUME TypeInv, ShapeInv, NEW v \in Keys, Insert(v)
  PROVE  Moved(Labelled(v), ElementOf(v))
<1>n. PICK n : n = ElementOf(v)
  OBVIOUS
<1>e. PICK e : e = Labelled(v)
  OBVIOUS
<1>1. n \in Cells /\ Alike(e)
  BY <1>n, <1>e, Takes
<1>2. /\ ele' = Relink(e, n, ele[n].parent)
      /\ \/ Raise(n, ele[n].parent) \/ Merge(n, ele[n].parent)
         \/ Split(n, ele[n].parent) \/ Join(n, ele[n].parent)
  BY <1>n, <1>e DEF Insert
<1>3. Moved(e, n)
  BY <1>1, <1>2, RaiseMoves, MergeMoves, SplitMoves, JoinMoves
<1> QED BY <1>3, <1>n, <1>e

ListInv == TypeInv /\ ShapeInv

LEMMA IndexTyped ==
  ASSUME TypeInv, ShapeInv, NEW v \in Keys
  PROVE  /\ DOMAIN Index(v) \subseteq Keys
         /\ \A k \in DOMAIN Index(v) :
              Index(v)[k] \in Cells
<1>1. ElementOf(v) \in Cells
  BY Takes
<1> QED BY <1>1 DEF Index, TypeInv, Indexed

LEMMA InsertKeeps ==
  ASSUME ListInv, NEW v \in Keys, Insert(v)
  PROVE  ListInv' /\ seen' = [seen EXCEPT ![v] = @ + 1] /\ seen' \in [Keys -> Nat]
<1>1. Moved(Labelled(v), ElementOf(v))
  BY InsertMoves DEF ListInv
<1>2. seen' = [seen EXCEPT ![v] = @ + 1] /\ ele_idx' = Index(v)
  BY DEF Insert
<1>3. seen' \in [Keys -> Nat]
  BY <1>2 DEF ListInv, TypeInv
<1>4. DOMAIN ele_idx' \subseteq Keys /\ \A k \in DOMAIN ele_idx' : ele_idx'[k] \in Cells
  BY <1>2, IndexTyped DEF ListInv
<1> QED BY <1>1, <1>2, <1>3, <1>4 DEF Moved, ListInv, TypeInv

\* init: one group with all elements, the others free in their order.
LEMMA ListInit == Init => ListInv /\ \A n \in Cells : CountOf(n) = 0
<1> SUFFICES ASSUME Init PROVE ListInv /\ \A n \in Cells : CountOf(n) = 0
  OBVIOUS
<1>1. size \in Nat /\ size >= 2 /\ Cells = 0 .. size - 1 /\ NULL \notin Cells /\ 0 \in Cells
      /\ NULL \in Links /\ \A i \in Cells : i \in Links
  BY SizeAssumption DEF Cells, NULL, Links
<1>2. \A i \in Cells : (i + 1) % size = (IF i = size - 1 THEN 0 ELSE i + 1)
                       /\ (i - 1 + size) % size = (IF i = 0 THEN size - 1 ELSE i - 1)
  <2>1. ASSUME NEW x \in 0 .. size - 1 PROVE x % size = x /\ (x + size) % size = x
    BY <1>1
  <2>2. ASSUME NEW i \in Cells PROVE (i + 1) % size = IF i = size - 1 THEN 0 ELSE i + 1
    <3>1. CASE i = size - 1
      <4>1. i + 1 = 0 + size /\ 0 \in 0 .. size - 1
        BY <1>1, <3>1
      <4> QED BY <2>1, <3>1, <4>1
    <3>2. CASE i # size - 1
      <4>1. i + 1 \in 0 .. size - 1
        BY <1>1, <3>2
      <4> QED BY <2>1, <3>2, <4>1
    <3> QED BY <3>1, <3>2
  <2>3. ASSUME NEW i \in Cells PROVE (i - 1 + size) % size = IF i = 0 THEN size - 1 ELSE i - 1
    <3>1. CASE i = 0
      <4>1. i - 1 + size = size - 1 /\ size - 1 \in 0 .. size - 1
        BY <1>1, <3>1
      <4> QED BY <2>1, <3>1, <4>1
    <3>2. CASE i # 0
      <4>1. i - 1 \in 0 .. size - 1
        BY <1>1, <3>2
      <4> QED BY <2>1, <3>2, <4>1
    <3> QED BY <3>1, <3>2
  <2> QED BY <2>2, <2>3
<1>3. /\ bkt \in [Cells -> Group]
      /\ \A i \in Cells :
           /\ bkt[i].value = 0 /\ bkt[i].son = 0
           /\ bkt[i].next = IF i \in {0, size - 1} THEN NULL ELSE i + 1
           /\ bkt[i].prev = IF i \in {0, 1} THEN NULL ELSE i - 1
  <2>1. \A i \in Cells : /\ (IF i \in {0, size - 1} THEN NULL ELSE i + 1) \in Links
                         /\ (IF i \in {0, 1} THEN NULL ELSE i - 1) \in Links
    <3>1. ASSUME NEW i \in Cells, i # 0, i # size - 1 PROVE i + 1 \in Links
      BY <1>1, <3>1 DEF Links
    <3>2. ASSUME NEW i \in Cells, i # 0 PROVE i - 1 \in Links
      BY <1>1, <3>2 DEF Links
    <3> QED BY <1>1, <3>1, <3>2
  <2> QED BY <1>1, <2>1 DEF Init, Group
<1>4. PICK fp \in [Cells -> Garbage] :
        ele = [i \in Cells |-> [parent |-> 0, fp |-> fp[i],
                 next |-> (i + 1) % size, prev |-> (i - 1 + size) % size]]
  BY DEF Init
<1>5. /\ ele \in [Cells -> Element]
      /\ \A i \in Cells : /\ ele[i].parent = 0 /\ ele[i].next = (i + 1) % size
                          /\ ele[i].prev = (i - 1 + size) % size
  <2>1. \A i \in Cells : /\ (i + 1) % size \in Cells /\ (i - 1 + size) % size \in Cells
                         /\ fp[i] \in Keys \cup {NoKey}
    BY <1>1, <1>2, KeyAssumption
  <2> QED BY <1>1, <1>4, <2>1 DEF Element
<1>6. tail = 0 /\ free_head = 1 /\ DOMAIN ele_idx = {} /\ seen \in [Keys -> Nat]
  BY DEF Init
<1>7. Used = {0} /\ Members(0) = Cells
  BY <1>1, <1>5 DEF Used, Members
<1>8. TypeInv
  BY <1>3, <1>5, <1>6 DEF TypeInv
<1>9. Chain(Used, Values, Nexts, Prevs, tail)
  <2>1. Values[0] = 0 /\ Nexts[0] = NULL /\ Prevs[0] = NULL
    BY <1>1, <1>3 DEF Values, Nexts, Prevs
  <2>2. NULL \notin {0}
    BY DEF NULL
  <2> QED BY <1>6, <1>7, <2>1, <2>2 DEF Chain
<1>10. Ring(Follows, Precedes, Cells)
  <2>1. /\ \A i \in Cells : Follows[i] = IF i = size - 1 THEN 0 ELSE i + 1
        /\ \A i \in Cells : Precedes[i] = IF i = 0 THEN size - 1 ELSE i - 1
    BY <1>2, <1>5 DEF Follows, Precedes
  <2>2. Ring(Follows, Precedes, 0 .. size - 1)
    BY <1>1, <2>1, RingOfAll
  <2> QED BY <1>1, <2>2
<1>11. FreeList(Cells \ Used, Nexts, free_head)
  <2> DEFINE m == size - 1  c == [i \in 0 .. m - 1 |-> m - i]
  <2>1. m \in Nat /\ m >= 1
    BY <1>1
  <2>2. \A g : g \in Cells \ Used <=> g \in 1 .. m
    BY <1>1, <1>7
  <2>3. \A g \in 1 .. m : Nexts[g] = IF g = m THEN NULL ELSE g + 1
    BY <1>1, <1>3 DEF Nexts
  <2> HIDE DEF m
  <2>4. \A i \in 0 .. m - 1 : c[i] = m - i /\ c[i] \in 1 .. m
    BY <2>1
  <2> HIDE DEF c
  <2>5. ASSUME NEW i \in 0 .. m - 1 PROVE Nexts[c[i]] = IF i = 0 THEN NULL ELSE c[i - 1]
    <3>1. CASE i = 0
      BY <2>1, <2>3, <2>4, <3>1
    <3>2. CASE i # 0
      <4>1. i - 1 \in 0 .. m - 1 /\ m - i # m /\ (m - i) + 1 = m - (i - 1)
        BY <2>1, <3>2
      <4> QED BY <2>3, <2>4, <3>2, <4>1
    <3> QED BY <3>1, <3>2
  <2>6. \A i, j \in 0 .. m - 1 : c[i] = c[j] => i = j
    BY <2>1, <2>4
  <2>7. ASSUME NEW g \in 1 .. m PROVE \E i \in 0 .. m - 1 : c[i] = g
    <3>1. m - g \in 0 .. m - 1 /\ m - (m - g) = g
      BY <2>1
    <3> QED BY <2>4, <3>1
  <2>8. free_head = IF m = 0 THEN NULL ELSE c[m - 1]
    <3>1. m - 1 \in 0 .. m - 1 /\ m - (m - 1) = 1 /\ m # 0
      BY <2>1
    <3> QED BY <1>6, <2>4, <3>1
  <2>9. Stack(Cells \ Used, Nexts, free_head, c, m)
    BY <2>2, <2>4, <2>5, <2>6, <2>7, <2>8 DEF Stack
  <2> QED BY <2>1, <2>9 DEF FreeList
<1>12. ShapeInv
  BY <1>1, <1>3, <1>7, <1>9, <1>10, <1>11 DEF ShapeInv
<1>13. \A n \in Cells : CountOf(n) = 0
  BY <1>1, <1>3, <1>5 DEF CountOf
<1> QED BY <1>8, <1>12, <1>13 DEF ListInv

LEMMA ListNext == ListInv /\ [Next]_vars => ListInv'
<1>1. ASSUME ListInv, NEW v \in Keys, Insert(v) PROVE ListInv'
  BY <1>1, InsertKeeps
<1>2. ASSUME ListInv, UNCHANGED vars PROVE ListInv'
  BY <1>2 DEF vars, ListInv, TypeInv, ShapeInv, Used, Members, Values, Nexts, Prevs,
              Follows, Precedes
<1> QED BY <1>1, <1>2 DEF Next, StreamEnds

LEMMA ListAlways == Spec => []ListInv
<1>1. Init => ListInv
  BY ListInit
<1> QED BY <1>1, ListNext, PTL DEF Spec

\* The parts of ListSound.
LEMMA ChainIsSound == ASSUME ListInv PROVE ChainSound
<1>1. /\ \A g \in Used : g \in Cells /\ bkt[g].value \in Nat /\ Values[g] = bkt[g].value
                         /\ Nexts[g] = bkt[g].next /\ Prevs[g] = bkt[g].prev
  BY DEF ListInv, TypeInv, Used, Element, Group, Values, Nexts, Prevs
<1>2. /\ tail \in Used /\ Prevs[tail] = NULL /\ NULL \notin Used
      /\ \A g \in Used : Values[tail] <= Values[g]
      /\ \A g, h \in Used : Values[g] = Values[h] => g = h
      /\ \A g \in Used :
           \/ Nexts[g] = NULL /\ \A h \in Used : Values[h] <= Values[g]
           \/ /\ Nexts[g] \in Used /\ Prevs[Nexts[g]] = g /\ Values[g] < Values[Nexts[g]]
              /\ \A h \in Used : Values[g] < Values[h] => Values[Nexts[g]] <= Values[h]
  BY DEF ListInv, ShapeInv, Chain
<1>3. ASSUME NEW g \in Used
      PROVE  LET above == {h \in Used : bkt[h].value > bkt[g].value}
                 next == bkt[g].next
             IN  IF above = {} THEN next = NULL
                 ELSE /\ next \in above
                      /\ \A h \in above : bkt[next].value <= bkt[h].value
                      /\ bkt[next].prev = g
  <2>1. CASE Nexts[g] = NULL
    <3>1. {h \in Used : bkt[h].value > bkt[g].value} = {}
      BY <1>1, <1>2, <2>1
    <3> QED BY <1>1, <2>1, <3>1
  <2>2. CASE Nexts[g] # NULL
    <3>1. /\ Nexts[g] \in Used /\ Prevs[Nexts[g]] = g /\ Values[g] < Values[Nexts[g]]
          /\ \A h \in Used : Values[g] < Values[h] => Values[Nexts[g]] <= Values[h]
      BY <1>2, <2>2
    <3> QED BY <1>1, <3>1
  <2> QED BY <2>1, <2>2
<1> QED BY <1>1, <1>2, <1>3 DEF ChainSound

LEMMA RingsAreSound == ASSUME ListInv PROVE RingsSound
<1>1. ASSUME NEW g \in Used
      PROVE  /\ bkt[g].son \in Members(g)
             /\ \A n \in Members(g) : ele[n].next \in Members(g) /\ ele[ele[n].next].prev = n
             /\ \A S \in (SUBSET Members(g)) \ {{}, Members(g)} :
                  \E n \in S : ele[n].next \notin S
  <2>1. bkt[g].son \in Members(g) /\ Ring(Follows, Precedes, Members(g))
    BY DEF ListInv, ShapeInv
  <2>2. \A n \in Members(g) : n \in Cells /\ Follows[n] = ele[n].next
                              /\ Precedes[n] = ele[n].prev
    BY DEF Members, Follows, Precedes
  <2>3. \A n \in Members(g) : ele[n].next \in Members(g) /\ ele[ele[n].next].prev = n
    BY <2>1, <2>2 DEF Ring
  <2>4. ASSUME NEW S \in (SUBSET Members(g)) \ {{}, Members(g)}
        PROVE  \E n \in S : ele[n].next \notin S
    <3>m. PICK M : M = Members(g)
      OBVIOUS
    <3>1. S \in SUBSET M /\ S # {} /\ S # M /\ Ring(Follows, Precedes, M)
      BY <2>1, <3>m
    <3>2. PICK n \in S : Follows[n] \notin S
      BY <3>1 DEF Ring
    <3> QED BY <2>2, <3>1, <3>2, <3>m
  <2> QED BY <2>1, <2>3, <2>4
<1> QED BY <1>1 DEF RingsSound

LEMMA GroupIsLeft == ASSUME ListInv PROVE GroupLeft
<1> SUFFICES ASSUME free_head = NULL, NEW n \in Cells PROVE Alone(n)
  BY DEF GroupLeft
<1>1. Cells \ Used = {}
  <2>1. PICK m \in Nat : \E c : Stack(Cells \ Used, Nexts, free_head, c, m)
    BY DEF ListInv, ShapeInv, FreeList
  <2>2. PICK c : Stack(Cells \ Used, Nexts, free_head, c, m)
    BY <2>1
  <2>3. m = 0
    <3>1. m # 0 => m - 1 \in 0 .. m - 1
      OBVIOUS
    <3>2. NULL \notin Cells
      BY DEF NULL, Cells
    <3> QED BY <2>2, <3>1, <3>2 DEF Stack
  <2> QED BY <2>2, <2>3 DEF Stack
<1> DEFINE f == [m \in Cells |-> ele[m].parent]
<1>2. f \in Surjection(Cells, Cells)
  <2>1. f \in [Cells -> Cells]
    BY DEF ListInv, TypeInv, Element
  <2>2. \A g \in Cells : \E m \in Cells : f[m] = g
    BY <1>1 DEF Used
  <2> HIDE DEF f
  <2> QED BY <2>1, <2>2 DEF Surjection
<1>3. f \in Injection(Cells, Cells)
  <2> HIDE DEF f
  <2> QED BY <1>2, CellsAreFinite, FS_SurjSameCardinalityImpliesInj DEF CellsFinite
<1>4. \A m \in Cells : f[m] = f[n] => m = n
  <2> HIDE DEF f
  <2> QED BY <1>3 DEF Injection, IsInjective
<1>5. Members(ele[n].parent) = {n}
  BY <1>4 DEF Members
<1> QED BY <1>5, Standing DEF ListInv

\* ListSound: insert keeps the list of groups, the rings of elements and the free
\* list as they should be, for any number of elements and whatever the fingerprints
\* of new elements hold.
THEOREM ListSoundAlways == Spec => []ListSound
<1>1. ListInv => ListSound
  <2>1. ASSUME ListInv PROVE FreeSound
    BY <2>1, FreeListSound DEF ListInv, ShapeInv
  <2> QED BY <2>1, ChainIsSound, RingsAreSound, GroupIsLeft DEF ListSound
<1> QED BY <1>1, ListAlways, PTL
-----------------------------------------------------------------------------
(* The counts.                                                             *)

KeysFinite == IsFiniteSet(Keys)

SumInv ==
  /\ Counts \in [Cells -> Nat] /\ seen \in [Keys -> Nat]
  /\ SumFunctionOnSet(Counts, Cells) = SumFunctionOnSet(seen, Keys)

LEMMA CountsTyped == ASSUME TypeInv PROVE Counts \in [Cells -> Nat]
<1>1. \A n \in Cells : CountOf(n) \in Nat
  BY DEF TypeInv, CountOf, Group, Element
<1> QED BY <1>1 DEF Counts

\* Nothing was counted.
LEMMA SumInit == Init => SumInv
<1> SUFFICES ASSUME Init PROVE SumInv
  OBVIOUS
<1>1. ListInv /\ \A n \in Cells : CountOf(n) = 0
  BY ListInit
<1>2. Counts \in [Cells -> Nat] /\ \A n \in Cells : Counts[n] = 0
  BY <1>1, CountsTyped DEF ListInv, Counts
<1>3. seen \in [Keys -> Nat] /\ \A k \in Keys : seen[k] = 0
  BY DEF Init
<1>4. SumFunctionOnSet(Counts, Cells) = 0
  BY <1>2, CellsAreFinite, SumOfNat DEF CellsFinite
<1>5. SumFunctionOnSet(seen, Keys) = 0
  BY <1>3, KeyAssumption, SumOfNat
<1> QED BY <1>2, <1>3, <1>4, <1>5 DEF SumInv

\* An insertion adds one on either side.
LEMMA SumStep ==
  ASSUME ListInv, SumInv, NEW v \in Keys, Insert(v)
  PROVE  /\ SumInv'
         /\ ElementOf(v) \in Cells
         /\ Counts' = [Counts EXCEPT ![ElementOf(v)] = @ + 1]
<1>n. PICK n : n = ElementOf(v)
  OBVIOUS
<1>c. PICK c : c = Counts
  OBVIOUS
<1>d. PICK d : d = Counts'
  OBVIOUS
<1>s. PICK s : s = seen'
  OBVIOUS
<1>1. n \in Cells /\ c \in [Cells -> Nat] /\ \A m \in Cells : c[m] = CountOf(m)
  BY <1>n, <1>c, Takes, CountsTyped DEF ListInv, Counts
<1>2. ListInv' /\ s = [seen EXCEPT ![v] = @ + 1] /\ s \in [Keys -> Nat]
      /\ seen \in [Keys -> Nat]
  BY <1>s, InsertKeeps DEF ListInv, TypeInv
<1>3. d \in [Cells -> Nat]
  <2>1. (TypeInv => Counts \in [Cells -> Nat])'
    BY CountsTyped, PTL
  <2>2. Cells' = Cells
    BY DEF Cells
  <2> QED BY <1>d, <1>2, <2>1, <2>2 DEF ListInv
<1>4. \A m \in Cells : d[m] = IF m = n THEN c[m] + 1 ELSE c[m]
  <2>1. \A m \in Cells : CountOf(m)' = IF m = n THEN CountOf(m) + 1 ELSE CountOf(m)
    BY <1>n, InsertMoves DEF ListInv, Moved
  <2>2. \A m \in Cells : d[m] = CountOf(m)'
    BY <1>d DEF Counts, Cells
  <2> QED BY <1>1, <2>1, <2>2
<1>5. d = [c EXCEPT ![n] = @ + 1]
  BY <1>1, <1>3, <1>4
<1>6. SumFunctionOnSet(d, Cells) = SumFunctionOnSet(c, Cells) + (d[n] - c[n])
  <2>1. \A m \in Cells : c[m] \in Int /\ d[m] \in Int
    BY <1>1, <1>3
  <2>2. \A m \in Cells : m # n => c[m] = d[m]
    BY <1>4
  <2> QED BY <1>1, <2>1, <2>2, CellsAreFinite, SumUpdate DEF CellsFinite
<1>7. SumFunctionOnSet(s, Keys) = SumFunctionOnSet(seen, Keys) + (s[v] - seen[v])
  <2>1. \A k \in Keys : seen[k] \in Int /\ s[k] \in Int
    BY <1>2
  <2>2. \A k \in Keys : k # v => seen[k] = s[k]
    BY <1>2
  <2> QED BY <2>1, <2>2, KeyAssumption, SumUpdate
<1>8. d[n] - c[n] = 1 /\ s[v] - seen[v] = 1
  BY <1>1, <1>2, <1>4
<1>9. SumFunctionOnSet(d, Cells) = SumFunctionOnSet(s, Keys)
  BY <1>6, <1>7, <1>8, <1>c DEF SumInv
<1>10. SumInv'
  <2>1. Cells' = Cells /\ Keys' = Keys
    BY DEF Cells
  <2> QED BY <1>2, <1>3, <1>9, <1>d, <1>s, <2>1 DEF SumInv
<1> QED BY <1>1, <1>5, <1>10, <1>n, <1>c, <1>d

\* The list and the sums together.
LEMMA SumAlways == Spec => [](ListInv /\ SumInv)
<1>1. Init => ListInv /\ SumInv
  BY ListInit, SumInit
<1>2. ListInv /\ SumInv /\ [Next]_vars => (ListInv /\ SumInv)'
  <2>1. ASSUME ListInv, SumInv, NEW v \in Keys, Insert(v) PROVE SumInv'
    BY <2>1, SumStep
  <2>2. ASSUME SumInv, UNCHANGED vars PROVE SumInv'
    BY <2>2 DEF vars, SumInv, Counts, CountOf
  <2>3. ListInv /\ [Next]_vars => ListInv'
    BY ListNext
  <2> QED BY <2>1, <2>2, <2>3 DEF Next, StreamEnds
<1> QED BY <1>1, <1>2, PTL DEF Spec

\* The two sums of CountsAddUp are those of SumInv.
LEMMA SumsOfRun ==
  ASSUME SumInv
  PROVE  /\ SumFunction(Counts) = SumFunctionOnSet(Counts, Cells)
         /\ Inserted = SumFunctionOnSet(seen, Keys)
<1>1. DOMAIN Counts = Cells /\ DOMAIN seen = Keys
  BY DEF SumInv
<1> QED BY <1>1 DEF SumFunction, Inserted

\* CountsAddUp: every insertion is counted in one element, whatever the fingerprints
\* of new elements hold.
THEOREM CountsAddUpAlways == Spec => []CountsAddUp
<1>1. SumInv => CountsAddUp
  BY SumsOfRun DEF SumInv, CountsAddUp
<1> QED BY <1>1, SumAlways, PTL
-----------------------------------------------------------------------------
(* The names: with new fingerprints that name no key, the index and the    *)
(* fingerprints agree.                                                     *)

NamesInv ==
  /\ \A k \in DOMAIN ele_idx : ele[ele_idx[k]].fp = k
  /\ \A n \in Cells : ele[n].fp \in Keys =>
       ele[n].fp \in DOMAIN ele_idx /\ ele_idx[ele[n].fp] = n

LEMMA NamesInit == ASSUME Garbage \subseteq {NoKey} PROVE Init => NamesInv
<1> SUFFICES ASSUME Init PROVE NamesInv
  OBVIOUS
<1>1. PICK fp \in [Cells -> Garbage] :
        ele = [i \in Cells |-> [parent |-> 0, fp |-> fp[i],
                 next |-> (i + 1) % size, prev |-> (i - 1 + size) % size]]
  BY DEF Init
<1>2. \A n \in Cells : ele[n].fp = NoKey
  BY <1>1
<1>3. DOMAIN ele_idx = {}
  BY DEF Init
<1> QED BY <1>2, <1>3, KeyAssumption DEF NamesInv

\* The element that is taken over loses its old name in the index and gets the new.
LEMMA NamesStep ==
  ASSUME ListInv, NamesInv, NEW v \in Keys, Insert(v)
  PROVE  NamesInv'
<1>n. PICK n : n = ElementOf(v)
  OBVIOUS
<1>1. n \in Cells
  BY <1>n, Takes DEF ListInv
<1>2. \A m \in Cells : ele'[m].fp = IF m = n THEN v ELSE ele[m].fp
  <2>1. \A m \in Cells : ele'[m].fp = Labelled(v)[m].fp
    BY InsertMoves DEF ListInv, Moved
  <2>2. \A m \in Cells : Labelled(v)[m].fp = IF m = n THEN v ELSE ele[m].fp
    BY <1>n, Takes DEF ListInv
  <2> QED BY <2>1, <2>2
<1>3. /\ DOMAIN ele_idx \subseteq Keys /\ \A k \in DOMAIN ele_idx : ele_idx[k] \in Cells
      /\ \A k \in DOMAIN ele_idx : ele[ele_idx[k]].fp = k
      /\ \A m \in Cells : ele[m].fp \in Keys =>
           ele[m].fp \in DOMAIN ele_idx /\ ele_idx[ele[m].fp] = m
  BY DEF ListInv, TypeInv, NamesInv
<1>4. Cells' = Cells
  BY DEF Cells
<1>5. CASE Indexed(v)
  <2>1. ele_idx' = ele_idx /\ v \in DOMAIN ele_idx /\ n = ele_idx[v]
    BY <1>5, <1>n DEF Insert, Index, ElementOf, Indexed
  <2>2. \A m \in Cells : ele'[m].fp = ele[m].fp
    BY <1>2, <1>3, <2>1
  <2> QED BY <1>3, <1>4, <2>1, <2>2 DEF NamesInv
<1>6. CASE ~ Indexed(v)
  <2>1. ele_idx' = [k \in (DOMAIN ele_idx \ {ele[n].fp}) \cup {v} |->
                      IF k = v THEN n ELSE ele_idx[k]]
    BY <1>6, <1>n DEF Insert, Index
  <2>2. v \notin DOMAIN ele_idx
    BY <1>6 DEF Indexed
  <2>3. /\ DOMAIN ele_idx' = (DOMAIN ele_idx \ {ele[n].fp}) \cup {v}
        /\ ele_idx'[v] = n
        /\ \A k \in DOMAIN ele_idx : k # ele[n].fp => ele_idx'[k] = ele_idx[k]
    BY <2>1, <2>2
  <2>4. \A k \in DOMAIN ele_idx' : ele'[ele_idx'[k]].fp = k
    <3>1. ASSUME NEW k \in DOMAIN ele_idx, k # ele[n].fp PROVE ele'[ele_idx'[k]].fp = k
      BY <1>2, <1>3, <2>3, <3>1
    <3>2. ele'[ele_idx'[v]].fp = v
      BY <1>1, <1>2, <2>3
    <3> QED BY <2>3, <3>1, <3>2
  <2>5. ASSUME NEW m \in Cells, ele'[m].fp \in Keys
        PROVE  ele'[m].fp \in DOMAIN ele_idx' /\ ele_idx'[ele'[m].fp] = m
    <3>1. CASE m = n
      BY <1>2, <2>3, <3>1
    <3>2. CASE m # n
      <4>1. ele'[m].fp = ele[m].fp /\ ele[m].fp \in DOMAIN ele_idx
            /\ ele_idx[ele[m].fp] = m
        BY <1>2, <1>3, <2>5, <3>2
      <4>2. ele[m].fp # ele[n].fp
        BY <1>1, <1>3, <3>2, <4>1
      <4> QED BY <2>3, <4>1, <4>2
    <3> QED BY <3>1, <3>2
  <2> QED BY <1>4, <2>4, <2>5 DEF NamesInv
<1> QED BY <1>5, <1>6

Fingerprints == [n \in Cells |-> ele[n].fp]

\* The key of an element is its fingerprint.
LEMMA LabelsAre ==
  ASSUME TypeInv, NamesInv
  PROVE  Labels = Fingerprints
<1>1. ASSUME NEW n \in Cells PROVE KeyOf(n) = ele[n].fp
  <2>1. \A k \in DOMAIN ele_idx : ele_idx[k] = n => k = ele[n].fp
    BY DEF NamesInv
  <2>2. CASE ele[n].fp \in Keys
    <3>1. ele[n].fp \in DOMAIN ele_idx /\ ele_idx[ele[n].fp] = n
      BY <2>2 DEF NamesInv
    <3> QED BY <2>1, <3>1 DEF KeyOf
  <2>3. CASE ele[n].fp \notin Keys
    <3>1. ele[n].fp = NoKey
      BY <2>3 DEF TypeInv, Element
    <3>2. ~ \E k \in DOMAIN ele_idx : ele_idx[k] = n
      BY <2>1, <2>3 DEF TypeInv
    <3> QED BY <3>1, <3>2 DEF KeyOf
  <2> QED BY <2>2, <2>3
<1> QED BY <1>1 DEF Labels, Fingerprints

\* A key is counted where the index leads to.
LEMMA CountedIsIndexed ==
  ASSUME TypeInv, NamesInv, NEW k \in Keys
  PROVE  /\ Abstract!Counted(k) <=> Indexed(k)
         /\ Indexed(k) => ele_idx[k] \in Cells /\ Labels[ele_idx[k]] = k
<1>1. \A c \in Cells : Labels[c] = ele[c].fp
  BY LabelsAre DEF Fingerprints
<1>2. Indexed(k) => ele_idx[k] \in Cells /\ Labels[ele_idx[k]] = k
  BY <1>1 DEF Indexed, TypeInv, NamesInv
<1>3. ASSUME NEW c \in Cells, Labels[c] = k PROVE Indexed(k)
  BY <1>1, <1>3 DEF NamesInv, Indexed
<1> QED BY <1>2, <1>3 DEF Abstract!Counted

\* Every insertion is a step of Space-Saving.
LEMMA InsertTakes ==
  ASSUME ListInv, SumInv, NamesInv, NEW v \in Keys, Insert(v)
  PROVE  Abstract!Take(v, ElementOf(v)) /\ ElementOf(v) \in Cells
<1>n. PICK n : n = ElementOf(v)
  OBVIOUS
<1>1. n \in Cells /\ Counts' = [Counts EXCEPT ![n] = @ + 1]
  BY <1>n, SumStep
<1>2. seen' = [seen EXCEPT ![v] = @ + 1]
  BY InsertKeeps
<1>3. Labels' = [Labels EXCEPT ![n] = v]
  <2>1. \A m \in Cells : ele'[m].fp = IF m = n THEN v ELSE ele[m].fp
    <3>1. \A m \in Cells : ele'[m].fp = Labelled(v)[m].fp
      BY InsertMoves DEF ListInv, Moved
    <3>2. \A m \in Cells : Labelled(v)[m].fp = IF m = n THEN v ELSE ele[m].fp
      BY <1>n, Takes DEF ListInv
    <3> QED BY <3>1, <3>2
  <2>2. Labels = [m \in Cells |-> ele[m].fp]
    BY LabelsAre DEF ListInv, Fingerprints
  <2>3. Labels' = [m \in Cells |-> ele'[m].fp]
    <3>1. (TypeInv /\ NamesInv => Labels = Fingerprints)'
      BY LabelsAre, PTL
    <3>2. TypeInv' /\ NamesInv'
      BY InsertKeeps, NamesStep DEF ListInv
    <3>3. Cells' = Cells
      BY DEF Cells
    <3> QED BY <3>1, <3>2, <3>3 DEF Fingerprints
  <2> QED BY <2>1, <2>2, <2>3
<1>4. CASE Indexed(v)
  <2>1. Labels[n] = v /\ Abstract!Counted(v)
    BY <1>4, <1>n, CountedIsIndexed DEF ElementOf, ListInv
  <2> QED BY <1>1, <1>2, <1>3, <1>n, <2>1 DEF Abstract!Take
<1>5. CASE ~ Indexed(v)
  <2>1. n \in Members(tail)
    BY <1>5, <1>n, Takes DEF ListInv
  <2>2. \A m \in Cells : Counts[n] <= Counts[m]
    <3>1. \A g \in Used : bkt[tail].value <= bkt[g].value
      BY ChainIsSound DEF ChainSound
    <3>2. \A m \in Cells : ele[m].parent \in Used /\ Counts[m] = bkt[ele[m].parent].value
      BY DEF Used, Counts, CountOf
    <3>3. ele[n].parent = tail
      BY <2>1 DEF Members
    <3> QED BY <1>1, <3>1, <3>2, <3>3
  <2>3. Abstract!Smallest(n) /\ ~ Abstract!Counted(v)
    BY <1>5, <2>2, CountedIsIndexed DEF Abstract!Smallest, ListInv
  <2> QED BY <1>1, <1>2, <1>3, <1>n, <2>3 DEF Abstract!Take
<1> QED BY <1>4, <1>5

\* All parts of the invariant of an array whose fingerprints name no key.
LEMMA NamesAlways ==
  ASSUME Garbage \subseteq {NoKey} PROVE Spec => [](ListInv /\ SumInv /\ NamesInv)
<1>1. Init => NamesInv
  BY NamesInit
<1>2. ListInv /\ NamesInv /\ [Next]_vars => NamesInv'
  <2>1. ASSUME ListInv, NamesInv, NEW v \in Keys, Insert(v) PROVE NamesInv'
    BY <2>1, NamesStep
  <2>2. ASSUME NamesInv, UNCHANGED vars PROVE NamesInv'
    BY <2>2 DEF vars, NamesInv
  <2> QED BY <2>1, <2>2 DEF Next, StreamEnds
<1> QED BY <1>1, <1>2, SumAlways, PTL DEF Spec

\* ImplementsSpaceSaving: from an array whose fingerprints name no key, every
\* insertion counts the key in its own element or else in one of the smallest count.
THEOREM ImplementsSpaceSavingAlways ==
  ASSUME Garbage \subseteq {NoKey} PROVE Spec => ImplementsSpaceSaving
<1>1. Init => Abstract!Init
  <2> SUFFICES ASSUME Init PROVE Abstract!Init
    OBVIOUS
  <2>1. Counts = [c \in Cells |-> 0]
    BY ListInit DEF Counts
  <2>2. Labels = [c \in Cells |-> NoKey]
    <3>1. DOMAIN ele_idx = {}
      BY DEF Init
    <3> QED BY <3>1 DEF Labels, KeyOf
  <2> QED BY <2>1, <2>2 DEF Init, Abstract!Init
<1>2. ListInv /\ SumInv /\ NamesInv /\ [Next]_vars => [Abstract!Next]_(Abstract!vars)
  <2>1. ASSUME ListInv, SumInv, NamesInv, NEW v \in Keys, Insert(v) PROVE Abstract!Next
    BY <2>1, InsertTakes DEF Abstract!Next
  <2>2. ASSUME UNCHANGED vars PROVE UNCHANGED Abstract!vars
    BY <2>2 DEF vars, Abstract!vars, Labels, KeyOf, Counts, CountOf, Cells
  <2> QED BY <2>1, <2>2 DEF Next, StreamEnds
<1> QED BY <1>1, <1>2, NamesAlways, PTL DEF Spec, ImplementsSpaceSaving, Abstract!Spec
-----------------------------------------------------------------------------
(* What Space-Saving promises, and with it the queries.                    *)

AbstractInv == Abstract!TypeOK /\ Abstract!OneCounterEach /\ Abstract!Bracket

\* No counter has counted anything, and no key was seen.
LEMMA AbstractInit == Abstract!Init => AbstractInv
<1> SUFFICES ASSUME Abstract!Init PROVE AbstractInv
  OBVIOUS
<1>1. /\ Labels = [c \in Cells |-> NoKey] /\ Counts = [c \in Cells |-> 0]
      /\ seen = [k \in Keys |-> 0] /\ NoKey \notin Keys
  BY KeyAssumption DEF Abstract!Init
<1>2. Abstract!TypeOK
  BY <1>1 DEF Abstract!TypeOK
<1>3. Abstract!OneCounterEach
  BY <1>1 DEF Abstract!OneCounterEach
<1>4. Abstract!Bracket
  BY <1>1 DEF Abstract!Bracket
<1> QED BY <1>2, <1>3, <1>4 DEF AbstractInv

\* Counting a key in its own counter or in a smallest one keeps every bracket.
LEMMA AbstractTake ==
  ASSUME AbstractInv, NEW k \in Keys, NEW c \in Cells, Abstract!Take(k, c)
  PROVE  AbstractInv'
<1>1. /\ Labels \in [Cells -> Keys \cup {NoKey}] /\ Counts \in [Cells -> Nat]
      /\ seen \in [Keys -> Nat]
  BY DEF AbstractInv, Abstract!TypeOK
<1>2. /\ Labels' = [Labels EXCEPT ![c] = k]
      /\ Counts' = [Counts EXCEPT ![c] = @ + 1]
      /\ seen' = [seen EXCEPT ![k] = @ + 1]
  BY DEF Abstract!Take
<1>3. /\ \A d \in Cells : Labels'[d] = IF d = c THEN k ELSE Labels[d]
      /\ \A d \in Cells : Counts'[d] = IF d = c THEN Counts[d] + 1 ELSE Counts[d]
      /\ \A j \in Keys : seen'[j] = IF j = k THEN seen[j] + 1 ELSE seen[j]
      /\ Cells' = Cells
  BY <1>1, <1>2 DEF Cells
<1>4. Abstract!TypeOK'
  BY <1>1, <1>2, <1>3 DEF Abstract!TypeOK
<1>5. \A d \in Cells : Labels[d] = k => d = c
  <2>1. CASE Abstract!Counted(k)
    BY <2>1 DEF Abstract!Take, AbstractInv, Abstract!OneCounterEach
  <2>2. CASE ~ Abstract!Counted(k)
    BY <2>2 DEF Abstract!Counted
  <2> QED
    BY <2>1, <2>2
<1>6. Abstract!OneCounterEach'
  BY <1>3, <1>5 DEF AbstractInv, Abstract!OneCounterEach
<1>7. ASSUME NEW j \in Keys, NEW d \in Cells, Labels'[d] = j
      PROVE  /\ seen'[j] <= Counts'[d]
             /\ \A e \in Cells : Counts'[d] - Counts'[e] <= seen'[j]
  <2>1. CASE d # c
    <3>1. Labels[d] = j /\ j # k
      BY <2>1, <1>3, <1>5, <1>7
    <3>2. /\ seen[j] <= Counts[d]
          /\ \A e \in Cells : Counts[d] - Counts[e] <= seen[j]
      BY <3>1 DEF AbstractInv, Abstract!Bracket
    <3>3. ASSUME NEW e \in Cells PROVE Counts'[d] - Counts'[e] <= seen'[j]
      BY <3>1, <3>2, <3>3, <2>1, <1>1, <1>3
    <3> QED
      BY <3>1, <3>2, <3>3, <2>1, <1>3
  <2>2. CASE d = c /\ Abstract!Counted(k)
    <3>1. j = k /\ Labels[c] = k
      BY <2>2, <1>3, <1>7 DEF Abstract!Take
    <3>2. /\ seen[k] <= Counts[c]
          /\ \A e \in Cells : Counts[c] - Counts[e] <= seen[k]
      BY <3>1 DEF AbstractInv, Abstract!Bracket
    <3>3. ASSUME NEW e \in Cells PROVE Counts'[d] - Counts'[e] <= seen'[j]
      BY <3>1, <3>2, <3>3, <2>2, <1>1, <1>3
    <3> QED
      BY <3>1, <3>2, <3>3, <2>2, <1>1, <1>3
  <2>3. CASE d = c /\ ~ Abstract!Counted(k)
    <3>1. j = k /\ Abstract!Smallest(c)
      BY <2>3, <1>3, <1>7 DEF Abstract!Take
    <3>2. seen[k] <= Counts[c]
      BY <2>3 DEF AbstractInv, Abstract!Bracket
    <3>3. ASSUME NEW e \in Cells PROVE Counts'[d] - Counts'[e] <= seen'[j]
      BY <3>1, <3>3, <2>3, <1>1, <1>3 DEF Abstract!Smallest
    <3> QED
      BY <3>1, <3>2, <3>3, <2>3, <1>1, <1>3
  <2> QED
    BY <2>1, <2>2, <2>3
<1>8. ASSUME NEW j \in Keys, NEW d \in Cells, ~ \E e \in Cells : Labels'[e] = j
      PROVE  seen'[j] <= Counts'[d]
  <2>0. \A e \in Cells : Labels'[e] # j
    BY <1>8
  <2>1. j # k
    BY <1>3, <2>0
  <2>2. seen[j] <= Counts[d]
    <3>1. CASE Abstract!Counted(j)
      <4>1. Labels[c] = j
        BY <3>1, <1>3, <2>0 DEF Abstract!Counted
      <4>2. Abstract!Smallest(c)
        BY <4>1, <2>1 DEF Abstract!Take
      <4>3. seen[j] <= Counts[c]
        BY <4>1 DEF AbstractInv, Abstract!Bracket
      <4> QED
        BY <4>2, <4>3, <1>1 DEF Abstract!Smallest
    <3>2. CASE ~ Abstract!Counted(j)
      BY <3>2 DEF AbstractInv, Abstract!Bracket
    <3> QED
      BY <3>1, <3>2
  <2> QED
    BY <2>1, <2>2, <1>1, <1>3
<1>9. Abstract!Bracket'
  <2>1. \A j \in Keys, d \in Cells :
          /\ Labels'[d] = j => /\ seen'[j] <= Counts'[d]
                               /\ \A e \in Cells : Counts'[d] - Counts'[e] <= seen'[j]
          /\ ~ (\E e \in Cells : Labels'[e] = j) => seen'[j] <= Counts'[d]
    BY <1>7, <1>8
  <2> QED BY <1>3, <2>1 DEF Abstract!Bracket, Abstract!Counted
<1> QED
  BY <1>4, <1>6, <1>9 DEF AbstractInv

\* In Space-Saving with size counters, a counted key is overestimated by the smallest
\* count at most, a key without a counter was seen at most that often, and no key has
\* two counters.
THEOREM SpaceSavingBrackets ==
  Abstract!Spec => [](Abstract!TypeOK /\ Abstract!OneCounterEach /\ Abstract!Bracket)
<1>1. AbstractInv /\ [Abstract!Next]_(Abstract!vars) => AbstractInv'
  <2>1. ASSUME AbstractInv, Abstract!Next PROVE AbstractInv'
    BY <2>1, AbstractTake DEF Abstract!Next
  <2>2. ASSUME AbstractInv, UNCHANGED Abstract!vars PROVE AbstractInv'
    <3>1. Labels' = Labels /\ Counts' = Counts /\ seen' = seen /\ Cells' = Cells
      BY <2>2 DEF Abstract!vars, Cells
    <3> QED BY <2>2, <3>1 DEF AbstractInv, Abstract!TypeOK, Abstract!OneCounterEach,
                              Abstract!Bracket, Abstract!Counted
  <2> QED BY <2>1, <2>2
<1>2. AbstractInv => Abstract!TypeOK /\ Abstract!OneCounterEach /\ Abstract!Bracket
  BY DEF AbstractInv
<1> QED BY <1>1, <1>2, AbstractInit, PTL DEF Abstract!Spec

\* The queries are the two ends of the bracket; the smallest count is at most the
\* size-th part of the stream, because all of them add up to it.
LEMMA QueriesFollow ==
  ASSUME ListInv, SumInv, NamesInv, Abstract!OneCounterEach, Abstract!Bracket
  PROVE  QueriesBracket
<1>l. PICK low : low = bkt[tail].value
  OBVIOUS
<1>t. PICK t : t = bkt[tail].son
  OBVIOUS
<1>1. t \in Cells /\ Counts[t] = low /\ low \in Nat
  <2>1. tail \in Used
    BY ChainIsSound DEF ChainSound
  <2>2. t \in Members(tail)
    BY <1>t, <2>1 DEF ListInv, ShapeInv
  <2>3. t \in Cells /\ ele[t].parent = tail
    BY <2>2 DEF Members
  <2>4. Counts[t] = bkt[tail].value
    BY <2>3 DEF Counts, CountOf
  <2> QED BY <1>l, <2>3, <2>4 DEF SumInv
<1>2. \A m \in Cells : low <= Counts[m]
  <2>1. \A g \in Used : low <= bkt[g].value
    BY <1>l, ChainIsSound DEF ChainSound
  <2>2. \A m \in Cells : ele[m].parent \in Used /\ Counts[m] = bkt[ele[m].parent].value
    BY DEF Used, Counts, CountOf
  <2> QED BY <2>1, <2>2
<1>3. size * low <= Inserted /\ Inserted \in Int
  <2>1. Cardinality(Cells) * low <= SumFunctionOnSet(Counts, Cells)
    BY <1>1, <1>2, CellsAreFinite, SumOfLeast DEF SumInv, CellsFinite
  <2>2. SumFunctionOnSet(Counts, Cells) \in Nat
    BY CellsAreFinite, SumOfNat DEF SumInv, CellsFinite
  <2>3. SumFunctionOnSet(Counts, Cells) = Inserted
    BY SumsOfRun DEF SumInv
  <2> QED BY <2>1, <2>2, <2>3, CellsAreFinite DEF CellsFinite
<1>4. ASSUME NEW x \in Int, x <= low PROVE size * x <= Inserted
  <2>1. size * x <= size * low
    BY <1>1, <1>4, SizeAssumption
  <2>2. size * x \in Int /\ size * low \in Int
    BY <1>1, SizeAssumption
  <2> QED BY <1>3, <2>1, <2>2
<1>5. ASSUME NEW k \in Keys
      PROVE  /\ query_freq_low(k) <= seen[k] /\ seen[k] <= query_freq(k)
             /\ size * (query_freq(k) - seen[k]) <= Inserted
  <2>1. seen[k] \in Nat
    BY DEF SumInv
  <2>2. CASE Indexed(k)
    <3>c. PICK c : c = ele_idx[k]
      OBVIOUS
    <3>1. c \in Cells /\ Labels[c] = k
      BY <2>2, <3>c, CountedIsIndexed DEF ListInv
    <3>2. seen[k] <= Counts[c] /\ Counts[c] - low <= seen[k] /\ Counts[c] \in Nat
      BY <1>1, <3>1 DEF Abstract!Bracket, SumInv
    <3>3. query_freq(k) = Counts[c] /\ query_freq_low(k) = Counts[c] - low
      BY <1>l, <2>2, <3>c, <3>1 DEF query_freq, query_freq_low, Counts
    <3>4. Counts[c] - seen[k] \in Int /\ Counts[c] - seen[k] <= low
      BY <1>1, <2>1, <3>2
    <3>5. size * (Counts[c] - seen[k]) <= Inserted
      BY <1>4, <3>4
    <3> QED BY <3>2, <3>3, <3>5
  <2>3. CASE ~ Indexed(k)
    <3>1. ~ Abstract!Counted(k)
      BY <2>3, CountedIsIndexed DEF ListInv
    <3>2. seen[k] <= low
      BY <1>1, <3>1 DEF Abstract!Bracket
    <3>3. query_freq(k) = low /\ query_freq_low(k) = 0
      BY <1>l, <2>3 DEF query_freq, query_freq_low
    <3>4. low - seen[k] \in Int /\ low - seen[k] <= low
      BY <1>1, <2>1
    <3>5. size * (low - seen[k]) <= Inserted
      BY <1>4, <3>4
    <3> QED BY <2>1, <3>2, <3>3, <3>5
  <2> QED BY <2>2, <2>3
<1> QED BY <1>5 DEF QueriesBracket

\* QueriesBracket: from an array whose fingerprints name no key, the true frequency
\* lies between the two queries, and the upper one exceeds it by at most the size-th
\* part of the stream.  It is carried over from the abstract algorithm.
THEOREM QueriesBracketAlways ==
  ASSUME Garbage \subseteq {NoKey} PROVE Spec => []QueriesBracket
<1>1. Spec => Abstract!Spec
  BY ImplementsSpaceSavingAlways DEF ImplementsSpaceSaving
<1>2. ListInv /\ SumInv /\ NamesInv /\ Abstract!OneCounterEach /\ Abstract!Bracket
        => QueriesBracket
  BY QueriesFollow
<1> QED BY <1>1, <1>2, NamesAlways, SpaceSavingBrackets, PTL
=============================================================================
