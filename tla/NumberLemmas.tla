---------------------------- MODULE NumberLemmas ----------------------------
(* Facts about numbers that the proofs about several components rest on.   *)
EXTENDS Integers, FiniteSetTheorems, Functions, WellFoundedInduction, TLAPS

\* Every nonempty set of naturals has a least element: the finite initial
\* segments that end in the set have a minimal one under strict inclusion.
LEMMA LeastNat ==
  ASSUME NEW T \in SUBSET Nat, T # {}
  PROVE  \E x \in T : \A y \in T : x <= y
<1> DEFINE Segments == {0 .. n : n \in T}
<1>1. Segments \subseteq FiniteSubsetsOf(Nat)
  <2>1. \A n \in T : IsFiniteSet(0 .. n)
    BY FS_Interval
  <2> QED BY <2>1 DEF FiniteSubsetsOf
<1>2. Segments # {}
  OBVIOUS
<1>3. PICK X \in Segments :
        \A Y \in Segments : <<Y, X>> \notin StrictSubsetOrdering(Nat)
  <2> HIDE DEF Segments
  <2> QED BY <1>1, <1>2, FS_StrictSubsetOrderingWellFounded, WFMin
<1>4. PICK x \in T : X = 0 .. x
  OBVIOUS
<1>5. ASSUME NEW y \in T, y < x
      PROVE  FALSE
  <2>1. 0 .. y \in Segments
    OBVIOUS
  <2>2. 0 .. y \subseteq 0 .. x /\ x \in 0 .. x /\ x \notin 0 .. y
    BY <1>5
  <2>3. (0 .. y) \in SUBSET Nat /\ (0 .. x) \in SUBSET Nat
    OBVIOUS
  <2> QED BY <1>3, <1>4, <2>1, <2>2, <2>3 DEF StrictSubsetOrdering
<1> QED BY <1>5

\* Induction from n down to 0, for a set of numbers.
LEMMA DownwardInduction ==
  ASSUME NEW n \in Nat, NEW S, n \in S,
         \A d \in 0 .. n - 1 : d + 1 \in S => d \in S
  PROVE  0 .. n \subseteq S
<1> DEFINE T == {m \in Nat : m <= n /\ n - m \notin S}
<1>1. SUFFICES ASSUME T # {} PROVE FALSE
  <2>1. ASSUME NEW d \in 0 .. n, d \notin S PROVE FALSE
    <3>1. n - d \in Nat /\ n - d <= n /\ n - (n - d) = d
      OBVIOUS
    <3>2. n - d \in T
      BY <2>1, <3>1
    <3> QED BY <1>1, <3>2
  <2> QED BY <2>1
<1>2. PICK m \in T : \A y \in T : m <= y
  <2>1. T \in SUBSET Nat
    OBVIOUS
  <2> HIDE DEF T
  <2> QED BY <1>1, <2>1, LeastNat
<1>3. m \in Nat /\ m <= n /\ n - m \notin S
  OBVIOUS
<1>4. m # 0
  BY <1>3
<1>5. m - 1 \in Nat /\ m - 1 <= n /\ m - 1 \notin T
  BY <1>2, <1>3, <1>4
<1>6. n - (m - 1) \in S
  BY <1>5
<1>7. n - (m - 1) = (n - m) + 1 /\ n - m \in 0 .. n - 1
  BY <1>3, <1>4
<1> QED BY <1>3, <1>6, <1>7

\* Induction from 0 up to n, for a set of numbers.
LEMMA UpwardInduction ==
  ASSUME NEW n \in Nat, NEW S, 0 \in S,
         \A d \in 0 .. n - 1 : d \in S => d + 1 \in S
  PROVE  0 .. n \subseteq S
<1> DEFINE T == {m \in Nat : m <= n /\ m \notin S}
<1>1. SUFFICES ASSUME T # {} PROVE FALSE
  OBVIOUS
<1>2. PICK m \in T : \A y \in T : m <= y
  <2>1. T \in SUBSET Nat
    OBVIOUS
  <2> HIDE DEF T
  <2> QED BY <1>1, <2>1, LeastNat
<1>3. m \in Nat /\ m <= n /\ m \notin S /\ m # 0
  OBVIOUS
<1>4. m - 1 \in 0 .. n - 1 /\ m - 1 \notin T /\ (m - 1) + 1 = m
  BY <1>2, <1>3
<1> QED BY <1>3, <1>4

\* What division with rounding down does.
LEMMA DivBounds ==
  ASSUME NEW x \in Int, NEW p \in Nat \ {0}
  PROVE  /\ x \div p \in Int
         /\ p * (x \div p) <= x
         /\ x < p * (x \div p) + p
  OBVIOUS

\* The quotient of a sum is at least the sum of the quotients.
LEMMA DivOfSum ==
  ASSUME NEW x \in Int, NEW y \in Int, NEW p \in Nat \ {0}
  PROVE  x \div p + y \div p <= (x + y) \div p
<1> DEFINE a == x \div p  b == y \div p  c == (x + y) \div p
<1>1. a \in Int /\ b \in Int /\ c \in Int
  BY DivBounds
<1>2. p * a <= x /\ p * b <= y /\ x + y < p * c + p
  BY DivBounds
<1> HIDE DEF a, b, c
<1>3. p * (a + b) < p * (c + 1)
  BY <1>1, <1>2
<1>4. a + b < c + 1
  BY <1>1, <1>3
<1> QED BY <1>1, <1>4 DEF a, b, c
-----------------------------------------------------------------------------
(* Sums over the domain of a function.  SumFunctionOnSet picks the elements *)
(* one after another, so its recursion runs over the subsets of the domain. *)

Chosen(s) == CHOOSE x \in s : TRUE

\* A set of subsets that holds the empty set, and each set that lost its chosen
\* element, holds every subset.
LEMMA SubsetInduction ==
  ASSUME NEW S, IsFiniteSet(S), NEW P, {} \in P,
         \A s \in SUBSET S : s # {} /\ s \ {Chosen(s)} \in P => s \in P
  PROVE  SUBSET S \subseteq P
<1> DEFINE Bad == (SUBSET S) \ P
<1>1. SUFFICES ASSUME Bad # {} PROVE FALSE
  OBVIOUS
<1>2. Bad \subseteq FiniteSubsetsOf(S)
  BY FS_Subset DEF FiniteSubsetsOf
<1>3. PICK s \in Bad : \A t \in Bad : <<t, s>> \notin StrictSubsetOrdering(S)
  <2> HIDE DEF Bad
  <2> QED BY <1>1, <1>2, FS_StrictSubsetOrderingWellFounded, WFMin
<1>4. s \in SUBSET S /\ s # {} /\ Chosen(s) \in s
  BY DEF Chosen
<1>5. s \ {Chosen(s)} \in Bad
  BY <1>4
<1>6. <<s \ {Chosen(s)}, s>> \in StrictSubsetOrdering(S)
  BY <1>4 DEF StrictSubsetOrdering
<1> QED BY <1>3, <1>5, <1>6

\* One level of the recursion, for all subsets at once.
SumLevel(f, S, g) ==
  [s \in SUBSET S |-> IF s = {} THEN 0 ELSE f[Chosen(s)] + g[s \ {Chosen(s)}]]

\* The recursion has a solution: the levels fill it up to the size of the set.
LEMMA SumLevelsEnd ==
  ASSUME NEW f, NEW S, IsFiniteSet(S)
  PROVE  \E g : g = SumLevel(f, S, g)
<1> DEFINE n == Cardinality(S)
           Solves(g, m) == /\ g = [s \in SUBSET S |-> g[s]]
                           /\ \A s \in SUBSET S :
                                Cardinality(s) <= m => g[s] = SumLevel(f, S, g)[s]
           T == {m \in 0 .. n : \E g : Solves(g, m)}
<1>1. n \in Nat /\ \A s \in SUBSET S : Cardinality(s) \in Nat /\ Cardinality(s) <= n
  BY FS_CardinalityType, FS_Subset
<1>2. 0 \in T
  <2> DEFINE g == [s \in SUBSET S |-> 0]
  <2>1. \A s \in SUBSET S : Cardinality(s) <= 0 => s = {}
    BY <1>1, FS_EmptySet, FS_Subset
  <2>2. Solves(g, 0)
    BY <2>1 DEF SumLevel
  <2> HIDE DEF g, Solves
  <2> QED BY <1>1, <2>2
<1>3. ASSUME NEW m \in 0 .. n - 1, m \in T PROVE m + 1 \in T
  <2>1. PICK g : Solves(g, m)
    BY <1>3
  <2> DEFINE h == SumLevel(f, S, g)
  <2>2. ASSUME NEW s \in SUBSET S, Cardinality(s) <= m + 1 PROVE h[s] = SumLevel(f, S, h)[s]
    <3>1. CASE s = {}
      BY <3>1 DEF SumLevel
    <3>2. CASE s # {}
      <4> DEFINE t == s \ {Chosen(s)}
      <4>1. Chosen(s) \in s /\ t \in SUBSET S
        BY <3>2 DEF Chosen
      <4>2. Cardinality(t) = Cardinality(s) - 1
        BY <4>1, FS_RemoveElement, FS_Subset
      <4>3. Cardinality(t) <= m
        BY <1>1, <1>3, <2>2, <4>1, <4>2
      <4>4. g[t] = h[t]
        BY <2>1, <4>1, <4>3
      <4> QED BY <3>2, <4>1, <4>4 DEF SumLevel
    <3> QED BY <3>1, <3>2
  <2>3. h = [s \in SUBSET S |-> h[s]]
    BY DEF SumLevel
  <2>4. Solves(h, m + 1)
    BY <2>2, <2>3
  <2>5. m + 1 \in 0 .. n
    BY <1>1
  <2> HIDE DEF h, n, Solves
  <2> QED BY <2>4, <2>5
<1>4. n \in T
  <2>1. \A m \in 0 .. n - 1 : m \in T => m + 1 \in T
    BY <1>3
  <2> HIDE DEF T, n
  <2>2. 0 .. n \subseteq T
    BY <1>1, <1>2, <2>1, UpwardInduction
  <2> QED BY <1>1, <2>2
<1>5. PICK g : Solves(g, n)
  BY <1>4
<1>6. \A s \in SUBSET S : g[s] = SumLevel(f, S, g)[s]
  BY <1>1, <1>5
<1>7. g = SumLevel(f, S, g)
  BY <1>5, <1>6 DEF SumLevel
<1> QED BY <1>7

\* Sums(f, S, g): g sums f over every subset of S, as the recursion does.
Sums(f, S, g) ==
  /\ SumFunctionOnSet(f, S) = g[S] /\ g[{}] = 0
  /\ \A s \in SUBSET S : s # {} =>
       /\ Chosen(s) \in s /\ s \ {Chosen(s)} \in SUBSET S
       /\ g[s] = f[Chosen(s)] + g[s \ {Chosen(s)}]

LEMMA SumRecursion == ASSUME NEW f, NEW S, IsFiniteSet(S) PROVE \E g : Sums(f, S, g)
<1> DEFINE g == CHOOSE g : g = SumLevel(f, S, g)
<1>1. SumFunctionOnSet(f, S) = g[S]
  BY DEF SumFunctionOnSet, FoldFunctionOnSet, MapThenFoldSet, SumLevel, Chosen
<1>2. g = SumLevel(f, S, g)
  BY SumLevelsEnd
<1> HIDE DEF g
<1>3. g[{}] = 0
  BY <1>2 DEF SumLevel
<1>4. ASSUME NEW s \in SUBSET S, s # {}
      PROVE  /\ Chosen(s) \in s /\ s \ {Chosen(s)} \in SUBSET S
             /\ g[s] = f[Chosen(s)] + g[s \ {Chosen(s)}]
  BY <1>2, <1>4 DEF SumLevel, Chosen
<1> QED BY <1>1, <1>3, <1>4 DEF Sums

\* What every sum of numbers obeys: it is at least every summand, and 0 when all are.
LEMMA SumOfNat ==
  ASSUME NEW f, NEW S, IsFiniteSet(S), \A x \in S : f[x] \in Nat
  PROVE  /\ SumFunctionOnSet(f, S) \in Nat
         /\ \A x \in S : f[x] <= SumFunctionOnSet(f, S)
         /\ (\A x \in S : f[x] = 0) => SumFunctionOnSet(f, S) = 0
<1>0. PICK g : Sums(f, S, g)
  BY SumRecursion
<1> DEFINE P == {s \in SUBSET S : /\ g[s] \in Nat
                                  /\ \A x \in s : f[x] <= g[s]
                                  /\ (\A x \in s : f[x] = 0) => g[s] = 0}
<1>1. /\ g[{}] = 0
      /\ \A s \in SUBSET S : s # {} =>
           /\ Chosen(s) \in s /\ s \ {Chosen(s)} \in SUBSET S
           /\ g[s] = f[Chosen(s)] + g[s \ {Chosen(s)}]
  BY <1>0 DEF Sums
<1>2. ASSUME NEW s \in SUBSET S, s # {}, s \ {Chosen(s)} \in P PROVE s \in P
  <2> DEFINE x == Chosen(s)  t == s \ {x}
  <2>1. x \in s /\ x \in S /\ t \in SUBSET S /\ g[s] = f[x] + g[t]
    BY <1>1, <1>2
  <2>2. /\ g[t] \in Nat /\ (\A y \in t : f[y] <= g[t])
        /\ (\A y \in t : f[y] = 0) => g[t] = 0
    BY <1>2
  <2>3. f[x] \in Nat /\ g[s] \in Nat
    BY <2>1, <2>2
  <2> HIDE DEF x
  <2>4. \A y \in s : f[y] <= g[s]
    <3>1. ASSUME NEW y \in s PROVE f[y] <= g[s]
      <4>1. y = x \/ y \in t
        OBVIOUS
      <4>2. f[y] \in Nat
        OBVIOUS
      <4> QED BY <2>1, <2>2, <2>3, <4>1, <4>2
    <3> QED BY <3>1
  <2>5. (\A y \in s : f[y] = 0) => g[s] = 0
    BY <2>1, <2>2
  <2> QED BY <2>3, <2>4, <2>5
<1>3. {} \in P
  BY <1>1
<1>4. S \in P
  <2> HIDE DEF P
  <2> QED BY <1>2, <1>3, SubsetInduction
<1> QED BY <1>4, <1>0 DEF Sums

\* Sums of pointwise ordered functions are ordered; sums that differ in one summand
\* differ by as much.
LEMMA SumOrder ==
  ASSUME NEW f, NEW h, NEW S, IsFiniteSet(S),
         \A x \in S : f[x] \in Int /\ h[x] \in Int /\ f[x] <= h[x]
  PROVE  /\ SumFunctionOnSet(f, S) \in Int /\ SumFunctionOnSet(h, S) \in Int
         /\ SumFunctionOnSet(f, S) <= SumFunctionOnSet(h, S)
<1>a. PICK g : Sums(f, S, g)
  BY SumRecursion
<1>b. PICK k : Sums(h, S, k)
  BY SumRecursion
<1> DEFINE P == {s \in SUBSET S : g[s] \in Int /\ k[s] \in Int /\ g[s] <= k[s]}
<1>1. /\ g[{}] = 0 /\ k[{}] = 0
      /\ \A s \in SUBSET S : s # {} =>
           /\ Chosen(s) \in s /\ s \ {Chosen(s)} \in SUBSET S
           /\ g[s] = f[Chosen(s)] + g[s \ {Chosen(s)}]
           /\ k[s] = h[Chosen(s)] + k[s \ {Chosen(s)}]
  BY <1>a, <1>b DEF Sums
<1>2. ASSUME NEW s \in SUBSET S, s # {}, s \ {Chosen(s)} \in P PROVE s \in P
  BY <1>1, <1>2
<1>3. {} \in P
  BY <1>1
<1>4. S \in P
  <2> HIDE DEF P
  <2> QED BY <1>2, <1>3, SubsetInduction
<1> QED BY <1>4, <1>a, <1>b DEF Sums

LEMMA SumUpdate ==
  ASSUME NEW f, NEW h, NEW S, IsFiniteSet(S), NEW a \in S,
         \A x \in S : f[x] \in Int /\ h[x] \in Int,
         \A x \in S : x # a => f[x] = h[x]
  PROVE  SumFunctionOnSet(h, S) = SumFunctionOnSet(f, S) + (h[a] - f[a])
<1>a. PICK g : Sums(f, S, g)
  BY SumRecursion
<1>b. PICK k : Sums(h, S, k)
  BY SumRecursion
<1> DEFINE P == {s \in SUBSET S :
                   /\ g[s] \in Int /\ k[s] \in Int
                   /\ k[s] = g[s] + (IF a \in s THEN h[a] - f[a] ELSE 0)}
<1>1. /\ g[{}] = 0 /\ k[{}] = 0
      /\ \A s \in SUBSET S : s # {} =>
           /\ Chosen(s) \in s /\ s \ {Chosen(s)} \in SUBSET S
           /\ g[s] = f[Chosen(s)] + g[s \ {Chosen(s)}]
           /\ k[s] = h[Chosen(s)] + k[s \ {Chosen(s)}]
  BY <1>a, <1>b DEF Sums
<1>2. ASSUME NEW s \in SUBSET S, s # {}, s \ {Chosen(s)} \in P PROVE s \in P
  <2> DEFINE x == Chosen(s)  t == s \ {x}
  <2>1. x \in s /\ x \in S /\ t \in SUBSET S /\ g[s] = f[x] + g[t] /\ k[s] = h[x] + k[t]
    BY <1>1, <1>2
  <2>2. /\ g[t] \in Int /\ k[t] \in Int
        /\ k[t] = g[t] + (IF a \in t THEN h[a] - f[a] ELSE 0)
    BY <1>2
  <2>3. f[x] \in Int /\ h[x] \in Int /\ f[a] \in Int /\ h[a] \in Int
    BY <2>1
  <2> HIDE DEF x
  <2>4. CASE x = a
    <3>1. a \in s /\ a \notin t
      BY <2>1, <2>4
    <3> QED BY <2>1, <2>2, <2>3, <2>4, <3>1
  <2>5. CASE x # a
    <3>1. f[x] = h[x] /\ (a \in s <=> a \in t)
      BY <2>1, <2>5
    <3> QED BY <2>1, <2>2, <2>3, <3>1
  <2> QED BY <2>4, <2>5
<1>3. {} \in P
  BY <1>1
<1>4. S \in P
  <2> HIDE DEF P
  <2> QED BY <1>2, <1>3, SubsetInduction
<1> QED BY <1>4, <1>a, <1>b DEF Sums

\* A sum whose summands other than 0 stand, each at a place of its own, in another
\* sum is at most that sum.
LEMMA SumInjection ==
  ASSUME NEW f, NEW S, IsFiniteSet(S), \A x \in S : f[x] \in Nat,
         NEW h, NEW T, IsFiniteSet(T), \A y \in T : h[y] \in Nat,
         NEW m, \A x \in S : f[x] # 0 => m[x] \in T /\ f[x] <= h[m[x]],
         \A x, y \in S : f[x] # 0 /\ f[y] # 0 /\ m[x] = m[y] => x = y
  PROVE  SumFunctionOnSet(f, S) <= SumFunctionOnSet(h, T)
<1>a. PICK g : Sums(f, S, g)
  BY SumRecursion
<1> DEFINE Met(s) == {y \in T : \E x \in s : f[x] # 0 /\ m[x] = y}
           H(s) == [y \in T |-> IF y \in Met(s) THEN h[y] ELSE 0]
           P == {s \in SUBSET S : g[s] \in Int /\ g[s] <= SumFunctionOnSet(H(s), T)}
<1>1. /\ g[{}] = 0
      /\ \A s \in SUBSET S : s # {} =>
           /\ Chosen(s) \in s /\ s \ {Chosen(s)} \in SUBSET S
           /\ g[s] = f[Chosen(s)] + g[s \ {Chosen(s)}]
  BY <1>a DEF Sums
<1>2. ASSUME NEW s \in SUBSET S
      PROVE  /\ SumFunctionOnSet(H(s), T) \in Nat
             /\ \A y \in T : H(s)[y] \in Nat /\ H(s)[y] \in Int
  <2>1. \A y \in T : H(s)[y] \in Nat
    OBVIOUS
  <2> HIDE DEF H
  <2> QED BY <2>1, SumOfNat
<1>3. ASSUME NEW s \in SUBSET S, s # {}, s \ {Chosen(s)} \in P PROVE s \in P
  <2> DEFINE x == Chosen(s)  t == s \ {x}
  <2>1. x \in s /\ x \in S /\ t \in SUBSET S /\ g[s] = f[x] + g[t] /\ s = t \cup {x}
    BY <1>1, <1>3
  <2>2. g[t] \in Int /\ g[t] <= SumFunctionOnSet(H(t), T) /\ f[x] \in Nat
    BY <1>3, <2>1
  <2>x. x \notin t
    OBVIOUS
  <2> HIDE DEF x, t
  <2>3. CASE f[x] = 0
    <3>1. Met(s) = Met(t)
      BY <2>1, <2>3
    <3>2. H(s) = H(t)
      BY <3>1
    <3> QED BY <2>1, <2>2, <2>3, <3>2
  <2>4. CASE f[x] # 0
    <3> DEFINE a == m[x]
    <3>1. a \in T /\ f[x] <= h[a] /\ h[a] \in Nat
      BY <2>1, <2>4
    <3>2. a \in Met(s) /\ a \notin Met(t)
      BY <2>1, <2>x, <2>4, <3>1
    <3>3. ASSUME NEW y \in T, y # a PROVE y \in Met(s) <=> y \in Met(t)
      BY <2>1, <3>3
    <3> HIDE DEF a, Met
    <3>4. H(s)[a] = h[a] /\ H(t)[a] = 0 /\ \A y \in T : y # a => H(t)[y] = H(s)[y]
      BY <3>1, <3>2, <3>3
    <3>5. /\ \A y \in T : H(t)[y] \in Int /\ H(s)[y] \in Int
          /\ SumFunctionOnSet(H(t), T) \in Nat
      BY <1>2, <2>1
    <3> HIDE DEF H
    <3>6. SumFunctionOnSet(H(s), T) = SumFunctionOnSet(H(t), T) + (H(s)[a] - H(t)[a])
      BY <3>1, <3>4, <3>5, SumUpdate
    <3> QED BY <2>1, <2>2, <3>1, <3>4, <3>5, <3>6
  <2> QED BY <2>3, <2>4
<1>4. {} \in P
  <2> HIDE DEF H
  <2>1. {} \in SUBSET S
    OBVIOUS
  <2>2. SumFunctionOnSet(H({}), T) \in Nat
    BY <1>2, <2>1
  <2> QED BY <1>1, <2>2
<1>5. S \in P
  <2> HIDE DEF P
  <2> QED BY <1>3, <1>4, SubsetInduction
<1>6. SumFunctionOnSet(H(S), T) <= SumFunctionOnSet(h, T)
  <2>1. \A y \in T : H(S)[y] \in Int /\ h[y] \in Int /\ H(S)[y] <= h[y]
    OBVIOUS
  <2> HIDE DEF H
  <2> QED BY <2>1, SumOrder
<1>7. SumFunctionOnSet(f, S) = g[S] /\ SumFunctionOnSet(h, T) \in Nat
  BY <1>a, SumOfNat DEF Sums
<1>8. SumFunctionOnSet(H(S), T) \in Nat /\ g[S] \in Int /\ g[S] <= SumFunctionOnSet(H(S), T)
  BY <1>2, <1>5
<1> HIDE DEF H
<1> QED BY <1>6, <1>7, <1>8

\* A sum is at least its smallest summand as often as there are summands.
LEMMA SumOfLeast ==
  ASSUME NEW f, NEW S, IsFiniteSet(S), \A x \in S : f[x] \in Nat,
         NEW c \in Nat, \A x \in S : c <= f[x]
  PROVE  Cardinality(S) * c <= SumFunctionOnSet(f, S)
<1>a. PICK g : Sums(f, S, g)
  BY SumRecursion
<1> DEFINE P == {s \in SUBSET S : g[s] \in Nat /\ Cardinality(s) * c <= g[s]}
<1>1. /\ g[{}] = 0
      /\ \A s \in SUBSET S : s # {} =>
           /\ Chosen(s) \in s /\ s \ {Chosen(s)} \in SUBSET S
           /\ g[s] = f[Chosen(s)] + g[s \ {Chosen(s)}]
  BY <1>a DEF Sums
<1>2. ASSUME NEW s \in SUBSET S, s # {}, s \ {Chosen(s)} \in P PROVE s \in P
  <2> DEFINE x == Chosen(s)  t == s \ {x}
  <2>1. x \in s /\ x \in S /\ t \in SUBSET S /\ g[s] = f[x] + g[t]
    BY <1>1, <1>2
  <2>2. g[t] \in Nat /\ Cardinality(t) * c <= g[t]
    BY <1>2
  <2>3. f[x] \in Nat /\ c <= f[x]
    BY <2>1
  <2>4. IsFiniteSet(s)
    BY FS_Subset
  <2>5. Cardinality(t) = Cardinality(s) - 1 /\ Cardinality(s) \in Nat
    BY <2>1, <2>4, FS_RemoveElement, FS_CardinalityType
  <2>6. PICK m : m = Cardinality(s)
    OBVIOUS
  <2>7. m * c = (m - 1) * c + c
    BY <2>5, <2>6
  <2>8. (m - 1) * c <= g[t] /\ (m - 1) * c \in Int
    BY <2>2, <2>5, <2>6
  <2> HIDE DEF x, t
  <2>9. g[s] \in Nat /\ m * c <= g[s]
    BY <2>1, <2>2, <2>3, <2>7, <2>8
  <2> QED BY <2>6, <2>9
<1>3. {} \in P
  <2>1. Cardinality({}) = 0 /\ 0 * c = 0
    BY FS_EmptySet
  <2> QED BY <1>1, <2>1
<1>4. S \in P
  <2> HIDE DEF P
  <2> QED BY <1>2, <1>3, SubsetInduction
<1> QED BY <1>4, <1>a DEF Sums
=============================================================================
