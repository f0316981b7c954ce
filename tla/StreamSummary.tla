--------------------------- MODULE StreamSummary ---------------------------
(***************************************************************************)
(* The Space-Saving baseline (CPU/src/sketch/ss.cpp) pointer by pointer:   *)
(* groups of elements with one count, in a doubly linked list from the     *)
(* smallest count (tail) upwards; the elements of a group in a ring; the   *)
(* unused groups in a free list; and an index from keys to elements.       *)
(***************************************************************************)
EXTENDS Integers, FiniteSets, Functions

CONSTANTS
  Keys, NoKey,
  size,       \* number of elements, and of groups
  Garbage,    \* what the fingerprints of a new array of elements may hold
  MaxInserts  \* bound on the insertions of a run

ASSUME SizeAssumption == size \in Nat /\ size >= 2 /\ MaxInserts \in Nat
ASSUME KeyAssumption ==
  IsFiniteSet(Keys) /\ NoKey \notin Keys /\ Garbage \subseteq Keys \cup {NoKey}

NULL == -1
Cells == 0 .. size - 1

VARIABLES
  bkt,        \* group -> [prev, next, son, value]
  ele,        \* element -> [parent, prev, next, fp]
  tail,       \* the group of the smallest count
  free_head,  \* the first unused group
  ele_idx,    \* key -> element, where the key has one
  seen        \* verification: key -> how often it was inserted

vars == <<bkt, ele, tail, free_head, ele_idx, seen>>

Init ==
  /\ bkt = [i \in Cells |->
       [value |-> 0,
        son |-> 0,
        next |-> IF i \in {0, size - 1} THEN NULL ELSE i + 1,
        prev |-> IF i \in {0, 1} THEN NULL ELSE i - 1]]
  /\ \E fp \in [Cells -> Garbage] :
       ele = [i \in Cells |->
         [parent |-> 0, fp |-> fp[i],
          next |-> (i + 1) % size, prev |-> (i - 1 + size) % size]]
  /\ tail = 0
  /\ free_head = 1
  /\ ele_idx = [k \in {} |-> 0]
  /\ seen = [k \in Keys |-> 0]
-----------------------------------------------------------------------------
Indexed(k) == k \in DOMAIN ele_idx

\* Faulty: the key takes over an element of the second smallest group.
ElementOfNext(v) ==
  IF Indexed(v) THEN ele_idx[v]
  ELSE IF bkt[tail].next = NULL THEN bkt[tail].son ELSE bkt[bkt[tail].next].son

\* The element that counts v, or else the one v takes over.
ElementOf(v) == IF Indexed(v) THEN ele_idx[v] ELSE bkt[tail].son

\* The fingerprint that element held is erased from the index, whatever it is.
Index(v) ==
  IF Indexed(v) THEN ele_idx
  ELSE [k \in (DOMAIN ele_idx \ {ele[ElementOf(v)].fp}) \cup {v} |->
          IF k = v THEN ElementOf(v) ELSE ele_idx[k]]

Labelled(v) == [ele EXCEPT ![ElementOf(v)].fp = v]

Unlink(e, n) ==
  [e EXCEPT ![e[n].next].prev = e[n].prev, ![e[n].prev].next = e[n].next]

\* n enters the ring of h, in front of h.
LinkBefore(e, n, h) ==
  [e EXCEPT ![e[h].prev].next = n, ![h].prev = n,
            ![n].next = h, ![n].prev = e[h].prev]

Alone(n) == ele[n].next = n

\* Faulty: the group above p is joined whatever its count is.
JoinsAny(p) == bkt[p].next # NULL

\* The group above p has the count an element of p is about to reach.
JoinsNext(p) ==
  /\ bkt[p].next # NULL
  /\ bkt[bkt[p].next].value <= bkt[p].value + 1

\* Faulty: the tail stays with a group that was given back.
TailWithout(p) == tail

\* The tail after group p was given back.
TailAfter(p) == IF tail = p THEN bkt[p].next ELSE tail

\* A group of one element moves up in place.
Raise(n, p) ==
  /\ Alone(n) /\ ~ JoinsNext(p)
  /\ bkt' = [bkt EXCEPT ![p].value = @ + 1]
  /\ UNCHANGED <<tail, free_head>>

\* The only element of p joins the next group, and p is given back.
Merge(n, p) ==
  LET up == bkt[p].next
      linked == [bkt EXCEPT ![up].son = n, ![up].prev = bkt[p].prev]
      bypassed == IF bkt[p].prev = NULL THEN linked
                  ELSE [linked EXCEPT ![bkt[p].prev].next = up]
  IN  /\ Alone(n) /\ JoinsNext(p)
      /\ bkt' = [bypassed EXCEPT ![p].next = free_head]
      /\ tail' = TailAfter(p)
      /\ free_head' = p

\* The first element of p after n left it.
SonWithout(n, p) == IF bkt[p].son = n THEN ele[n].next ELSE bkt[p].son

\* n leaves p for a group of its own, taken from the free list.
Split(n, p) ==
  LET new == free_head
      above == bkt[p].next
      linked == [bkt EXCEPT ![p].son = SonWithout(n, p), ![p].next = new]
      pushed == IF above = NULL THEN linked ELSE [linked EXCEPT ![above].prev = new]
  IN  /\ ~ Alone(n) /\ ~ JoinsNext(p)
      /\ free_head # NULL
      /\ bkt' = [pushed EXCEPT ![new] =
                   [prev |-> p, next |-> above, value |-> bkt[p].value + 1, son |-> n]]
      /\ free_head' = bkt[new].next
      /\ UNCHANGED tail

\* n leaves p for the next group.
Join(n, p) ==
  /\ ~ Alone(n) /\ JoinsNext(p)
  /\ bkt' = [bkt EXCEPT ![p].son = SonWithout(n, p), ![bkt[p].next].son = n]
  /\ UNCHANGED <<tail, free_head>>

\* The rings of the elements after each of the four.
Relink(e, n, p) ==
  LET out == IF Alone(n) THEN e ELSE Unlink(e, n)
  IN  IF JoinsNext(p)
      THEN [LinkBefore(out, n, bkt[bkt[p].next].son) EXCEPT ![n].parent = bkt[p].next]
      ELSE IF Alone(n) THEN e
      ELSE [out EXCEPT ![n].next = n, ![n].prev = n, ![n].parent = free_head]

Insert(v) ==
  LET n == ElementOf(v)
      p == ele[n].parent
  IN  /\ Raise(n, p) \/ Merge(n, p) \/ Split(n, p) \/ Join(n, p)
      /\ ele' = Relink(Labelled(v), n, p)
      /\ ele_idx' = Index(v)
      /\ seen' = [seen EXCEPT ![v] = @ + 1]

Inserted == SumFunction(seen)

StreamEnds == Inserted = MaxInserts /\ UNCHANGED vars

Next == (Inserted < MaxInserts /\ \E v \in Keys : Insert(v)) \/ StreamEnds

Spec == Init /\ [][Next]_vars
-----------------------------------------------------------------------------
CountOf(n) == bkt[ele[n].parent].value

\* Faulty: a key without an element is reported as never seen.
FreqOrZero(v) == IF Indexed(v) THEN CountOf(ele_idx[v]) ELSE 0

query_freq(v) == IF Indexed(v) THEN CountOf(ele_idx[v]) ELSE bkt[tail].value

query_freq_low(v) ==
  IF Indexed(v) THEN CountOf(ele_idx[v]) - bkt[tail].value ELSE 0
-----------------------------------------------------------------------------
Used == {ele[n].parent : n \in Cells}
Members(g) == {n \in Cells : ele[n].parent = g}

\* The unused groups in the order of the free list.
FreeChain ==
  LET chain[i \in Cells] ==
        IF i = 0 THEN free_head
        ELSE IF chain[i - 1] = NULL THEN NULL ELSE bkt[chain[i - 1]].next
  IN  chain

\* The next group of g is the one with the next higher count, g is the one before
\* it, and no two groups have one count.
ChainSound ==
  /\ \A g \in Used : bkt[tail].value <= bkt[g].value
  /\ \A g, h \in Used : bkt[g].value = bkt[h].value => g = h
  /\ tail \in Used /\ bkt[tail].prev = NULL
  /\ \A g \in Used :
       LET above == {h \in Used : bkt[h].value > bkt[g].value}
           next == bkt[g].next
       IN  IF above = {} THEN next = NULL
           ELSE /\ next \in above
                /\ \A h \in above : bkt[next].value <= bkt[h].value
                /\ bkt[next].prev = g

\* The elements of a group form one ring through its son.
RingsSound ==
  \A g \in Used :
    /\ bkt[g].son \in Members(g)
    /\ \A n \in Members(g) : ele[n].next \in Members(g) /\ ele[ele[n].next].prev = n
    /\ \A S \in (SUBSET Members(g)) \ {{}, Members(g)} :
         \E n \in S : ele[n].next \notin S

\* Exactly the groups that are not used are in the free list, once each.
FreeSound ==
  /\ Range(FreeChain) \ {NULL} = Cells \ Used
  /\ Cardinality({i \in Cells : FreeChain[i] # NULL}) = Cardinality(Cells \ Used)

\* Without a free group every element has a group of its own, and none needs one.
GroupLeft == free_head = NULL => \A n \in Cells : Alone(n)

\* However the elements moved through the groups, no pointer leads to a group that
\* was given back, no element is lost between two rings, and a group is free when
\* one is taken (the messages "error!", "No more free bucket!" and "Order error!"
\* are never printed).
ListSound == ChainSound /\ RingsSound /\ FreeSound /\ GroupLeft

\* The two queries bracket the true frequency, and the upper one is above it by at
\* most the size-th part of the stream.
QueriesBracket ==
  \A k \in Keys :
    /\ query_freq_low(k) <= seen[k] /\ seen[k] <= query_freq(k)
    /\ size * (query_freq(k) - seen[k]) <= Inserted

Counts == [n \in Cells |-> CountOf(n)]

\* The counts add up to the length of the stream, so that the smallest, which
\* bounds every error, is at most its size-th part.
CountsAddUp == SumFunction(Counts) = Inserted

\* The key that the index leads to this element from.
KeyOf(n) ==
  IF \E k \in DOMAIN ele_idx : ele_idx[k] = n
  THEN CHOOSE k \in DOMAIN ele_idx : ele_idx[k] = n ELSE NoKey

Labels == [n \in Cells |-> KeyOf(n)]

Abstract == INSTANCE SpaceSaving WITH Counters <- Cells, key <- Labels, count <- Counts

\* Every insertion is one of Space-Saving: the key's own counter or a smallest one
\* moves, and no other changes its key or its count.
\* (README.md of the CPU code: ss.cpp "contains the implementation of Space-Saving".)
ImplementsSpaceSaving == Abstract!Spec
=============================================================================
