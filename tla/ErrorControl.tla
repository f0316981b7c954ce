---------------------------- MODULE ErrorControl ----------------------------
(***************************************************************************)
(* ReliableSketch in the data plane of a programmable switch               *)
(* (TestBed/ErrorControlShort.p4): a two-counter filter in front of layers *)
(* of buckets.  A bucket is spread over three registers that a packet      *)
(* meets in different pipeline stages: its lock (flag_bit), the number of  *)
(* packets it counted (total_counter), and its candidate ID with twice the *)
(* number of packets counted against a candidate (collision).              *)
(*                                                                         *)
(* The pipeline handles packets one after the other, so a packet is one    *)
(* step.  It cannot go back to the stage that holds the lock, though: when *)
(* a bucket is exhausted the packet is mirrored, and the copy comes back   *)
(* as an INFORM packet that sets the lock.  Until then, other packets are  *)
(* counted as if nothing had happened, and the copy may be lost.           *)
(***************************************************************************)
EXTENDS Integers, FiniteSets

CONSTANTS
  Keys,           \* the source addresses that occur
  ZeroID,         \* the address 0, the ID of a bucket no packet has taken
  num_layers,     \* 3 in the program: a, b and c
  length,         \* layer -> buckets of the layer
  max_col,        \* layer -> the collision value the mirror table matches
  index,          \* layer -> key -> bucket (the CRC hashes)
  filter_length,  \* counters of each of the two filter registers
  index_cf,       \* filter register -> key -> counter
  cf_threshold,   \* the value at which a filter counter stays
  MirrorMayDrop,  \* whether mirrored copies may be lost on their way back
  MaxPackets      \* bound on the packets of a run

Layers == 1 .. num_layers
Indexes(i) == 0 .. length[i] - 1
Slots == UNION {{i} \X Indexes(i) : i \in Layers}
Filters == {1, 2}
FilterIndexes == 0 .. filter_length - 1

\* A packet is counted at one of the layers, or below all of them (out_c).
Depths == 1 .. num_layers + 1

ASSUME LayerAssumption ==
  /\ num_layers \in Nat \ {0}
  /\ length \in [Layers -> Nat \ {0}]
  /\ index \in [Layers -> [Keys -> Nat]]
  /\ \A i \in Layers : \A k \in Keys : index[i][k] \in Indexes(i)

\* collision moves in steps of 2 and the mirror table matches one value exactly.
ASSUME CollisionAssumption ==
  /\ max_col \in [Layers -> Nat]
  /\ \A i \in Layers : \E h \in 1 .. max_col[i] : max_col[i] = 2 * h

ASSUME FilterAssumption ==
  /\ filter_length \in Nat \ {0}
  /\ index_cf \in [Filters -> [Keys -> FilterIndexes]]
  /\ cf_threshold \in Nat
  /\ \E h \in 0 .. cf_threshold : cf_threshold = 2 * h

ASSUME RunAssumption == MirrorMayDrop \in BOOLEAN /\ MaxPackets \in Nat

VARIABLES
  filter_counter,        \* filter register -> counter
  flag_bit,              \* slot -> locked
  total_counter,         \* slot -> packets counted while it was unlocked
  ID_collision_counter,  \* slot -> [ID, collision]
  out_c,                 \* last layer's index -> packets no layer took
  informs,               \* slot -> INFORM copies on their way back
  \* Bookkeeping of the verification:
  packets,               \* packets seen
  absorbed,              \* key -> its packets the filter absorbed
  recorded               \* key -> depth -> its packets counted there

registers == <<filter_counter, flag_bit, total_counter, ID_collision_counter, out_c>>
vars == <<filter_counter, flag_bit, total_counter, ID_collision_counter, out_c,
          informs, packets, absorbed, recorded>>

ID_collision == [ID : Keys \cup {ZeroID}, collision : Nat]

Slot(k, i) == <<i, index[i][k]>>
ID(s) == ID_collision_counter[s].ID
collision(s) == ID_collision_counter[s].collision
-----------------------------------------------------------------------------
(* What the tables of a packet of key k do.                                *)

\* Faulty: a counter has to be above the threshold it stops at.
PassesAbove(k) ==
  \A f \in Filters : filter_counter[f][index_cf[f][k]] > cf_threshold

\* flag_cf and flag_cf2: both counters of k were at the threshold already.
PassesFilter(k) ==
  \A f \in Filters : filter_counter[f][index_cf[f][k]] = cf_threshold

\* Faulty: the counter moves without being compared with the threshold.
FilterStepUncapped(c) == c + 2

\* set_filter_counter: a counter below the threshold moves by 2.
FilterStep(c) == IF c = cf_threshold THEN c ELSE c + 2

FilterAfter(k) ==
  [f \in Filters |->
    [c \in FilterIndexes |->
      IF c = index_cf[f][k] THEN FilterStep(filter_counter[f][c])
                            ELSE filter_counter[f][c]]]

\* The locked branch of a layer answers 0: the packet goes on to the next one.
PassesOn(k, i) == flag_bit[Slot(k, i)] /\ ID(Slot(k, i)) # k

\* Faulty: the layers above are asked for their locks only, not for their IDs.
ReachesPastOwner(k, i) ==
  PassesFilter(k) /\ \A j \in 1 .. i - 1 : flag_bit[Slot(k, j)]

\* The packet gets through the filter and down to layer i.
Reaches(k, i) == PassesFilter(k) /\ \A j \in 1 .. i - 1 : PassesOn(k, j)

\* Faulty: the ID changes hands while it still leads.
ElectEarly(r, k, total) ==
  IF total - r.collision <= 2 THEN [r EXCEPT !.ID = k]
  ELSE IF k # r.ID THEN [r EXCEPT !.collision = @ + 2]
  ELSE r

\* Faulty: a new ID's packet is also counted as a collision.
ElectTwice(r, k, total) ==
  [ID |-> IF total - r.collision <= 0 THEN k ELSE r.ID,
   collision |-> IF k # r.ID THEN r.collision + 2 ELSE r.collision]

\* Faulty: collisions are counted one by one, not in pairs.
ElectSingly(r, k, total) ==
  IF total - r.collision <= 0 THEN [r EXCEPT !.ID = k]
  ELSE IF k # r.ID THEN [r EXCEPT !.collision = @ + 1]
  ELSE r

\* inc_ID_collision_counter, with meta.total as the stage before left it.
Elect(r, k, total) ==
  IF total - r.collision <= 0 THEN [r EXCEPT !.ID = k]
  ELSE IF k # r.ID THEN [r EXCEPT !.collision = @ + 2]
  ELSE r

\* Faulty: the mirror table is looked up with the threshold of the layer above.
MirrorsLayerAbove(i, c) == c = max_col[IF i = 1 THEN 1 ELSE i - 1]

\* Faulty: the copy is sent one collision too early.
MirrorsEarly(i, c) == c + 2 = max_col[i]

\* mirror_set_t: an exact match on the value the register action returned.
Mirrors(i, c) == c = max_col[i]

\* Faulty: the one-bit register is counted up, so a second copy clears it.
ToggleFlag(s) == [flag_bit EXCEPT ![s] = ~ @]

\* set_flag_bit of an INFORM packet.
SetFlag(s) == [flag_bit EXCEPT ![s] = TRUE]

\* inc_locked_ID_collision_counter of the candidate of a locked bucket.
CountLocked(r) == [r EXCEPT !.collision = @ + 2]
-----------------------------------------------------------------------------
(* Steps.                                                                  *)

Init ==
  /\ filter_counter = [f \in Filters |-> [c \in FilterIndexes |-> 0]]
  /\ flag_bit = [s \in Slots |-> FALSE]
  /\ total_counter = [s \in Slots |-> 0]
  /\ ID_collision_counter = [s \in Slots |-> [ID |-> ZeroID, collision |-> 0]]
  /\ out_c = [p \in Indexes(num_layers) |-> 0]
  /\ informs = [s \in Slots |-> 0]
  /\ packets = 0
  /\ absorbed = [k \in Keys |-> 0]
  /\ recorded = [k \in Keys |-> [d \in Depths |-> 0]]

Receive == packets < MaxPackets /\ packets' = packets + 1

\* A packet that stops at the filter.
Absorb(k) ==
  /\ Receive
  /\ ~ PassesFilter(k)
  /\ filter_counter' = FilterAfter(k)
  /\ absorbed' = [absorbed EXCEPT ![k] = @ + 1]
  /\ UNCHANGED <<flag_bit, total_counter, ID_collision_counter, out_c, informs, recorded>>

\* A packet that finds the bucket of layer i unlocked.
CountOpen(k, i) ==
  LET s == Slot(k, i)
      r == Elect(ID_collision_counter[s], k, total_counter[s] + 1)
  IN  /\ Receive
      /\ Reaches(k, i)
      /\ ~ flag_bit[s]
      /\ total_counter' = [total_counter EXCEPT ![s] = @ + 1]
      /\ ID_collision_counter' = [ID_collision_counter EXCEPT ![s] = r]
      /\ informs' = [informs EXCEPT ![s] =
                       IF Mirrors(i, r.collision) THEN @ + 1 ELSE @]
      /\ recorded' = [recorded EXCEPT ![k][i] = @ + 1]
      /\ UNCHANGED <<filter_counter, flag_bit, out_c, absorbed>>

\* A packet that finds its own ID in a locked bucket of layer i.
CountOwner(k, i) ==
  LET s == Slot(k, i)
  IN  /\ Receive
      /\ Reaches(k, i)
      /\ flag_bit[s] /\ ID(s) = k
      /\ ID_collision_counter' =
           [ID_collision_counter EXCEPT ![s] = CountLocked(@)]
      /\ recorded' = [recorded EXCEPT ![k][i] = @ + 1]
      /\ UNCHANGED <<filter_counter, flag_bit, total_counter, out_c, informs, absorbed>>

\* A packet that every layer passes on.
Overflow(k) ==
  /\ Receive
  /\ Reaches(k, num_layers + 1)
  /\ out_c' = [out_c EXCEPT ![index[num_layers][k]] = @ + 1]
  /\ recorded' = [recorded EXCEPT ![k][num_layers + 1] = @ + 1]
  /\ UNCHANGED <<filter_counter, flag_bit, total_counter, ID_collision_counter,
                 informs, absorbed>>

\* An INFORM packet comes back and sets the lock.
Deliver(s) ==
  /\ informs[s] > 0
  /\ informs' = [informs EXCEPT ![s] = @ - 1]
  /\ flag_bit' = SetFlag(s)
  /\ UNCHANGED <<filter_counter, total_counter, ID_collision_counter, out_c,
                 packets, absorbed, recorded>>

\* A mirrored copy is dropped on its way back.
Lose(s) ==
  /\ MirrorMayDrop
  /\ informs[s] > 0
  /\ informs' = [informs EXCEPT ![s] = @ - 1]
  /\ UNCHANGED <<registers, packets, absorbed, recorded>>

Packet(k) ==
  \/ Absorb(k)
  \/ \E i \in Layers : CountOpen(k, i) \/ CountOwner(k, i)
  \/ Overflow(k)

Next ==
  \/ \E k \in Keys : Packet(k)
  \/ \E s \in Slots : Deliver(s) \/ Lose(s)

Spec == Init /\ [][Next]_vars

\* A copy on its way back arrives, unless it is dropped.
FairSpec == Spec /\ \A s \in Slots : WF_vars(Deliver(s))
-----------------------------------------------------------------------------
(* What the registers promise.                                             *)

\* The registers keep their shape; no filter counter runs past its threshold.
TypeOK ==
  /\ filter_counter \in [Filters -> [FilterIndexes -> 0 .. cf_threshold]]
  /\ flag_bit \in [Slots -> BOOLEAN]
  /\ total_counter \in [Slots -> Nat]
  /\ ID_collision_counter \in [Slots -> ID_collision]
  /\ out_c \in [Indexes(num_layers) -> Nat]
  /\ informs \in [Slots -> Nat]
  /\ packets \in Nat
  /\ absorbed \in [Keys -> Nat]
  /\ recorded \in [Keys -> [Depths -> Nat]]

\* The difference meta.total - collision that an unlocked bucket computes on the
\* next packet never wraps around, as unsigned arithmetic on the switch would.
NoNegativeLead ==
  \A s \in Slots : ~ flag_bit[s] => total_counter[s] + 1 >= collision(s)

\* What a bucket counted of each key can be read off its registers: of a key
\* other than the ID at most collision / 2, of the ID of an unlocked bucket at
\* most the rest plus one, of the ID of a locked bucket what it held at the lock
\* plus what it added since, however late the INFORM packet came.
ShareCovered ==
  \A k \in Keys : \A i \in Layers :
    LET s == Slot(k, i)
    IN  IF ID(s) # k THEN 2 * recorded[k][i] <= collision(s)
        ELSE IF ~ flag_bit[s]
        THEN 2 * recorded[k][i] <= 2 * total_counter[s] - collision(s) + 2
        ELSE 2 * recorded[k][i] <=
               2 * total_counter[s] + collision(s) - 2 * max_col[i] + 2

\* The lead of the ID of an unlocked bucket is made of its own packets.
LeadSound ==
  \A k \in Keys : \A i \in Layers :
    LET s == Slot(k, i)
    IN  ~ flag_bit[s] /\ ID(s) = k => total_counter[s] - collision(s) <= recorded[k][i]

\* A bucket is locked, or about to be, only once its collisions are used up.
LockedMeansExhausted ==
  \A s \in Slots : flag_bit[s] \/ informs[s] > 0 => collision(s) >= max_col[s[1]]

\* A key that a bucket does not pass on has left nothing below that bucket.
NothingBelow ==
  \A k \in Keys : \A i \in Layers :
    ~ PassesOn(k, i) => \A d \in Depths : d > i => recorded[k][d] = 0

\* The filter withholds at most cf_threshold / 2 packets of a key, whatever
\* other keys did to its counters.
AbsorbedBounded == \A k \in Keys : 2 * absorbed[k] <= cf_threshold

\* A lock is for good, and with it the ID of the bucket.
LockedIsFinal ==
  [][\A s \in Slots :
       flag_bit[s] =>
         /\ flag_bit'[s]
         /\ ID_collision_counter'[s].ID = ID_collision_counter[s].ID]_vars

\* While no copy is lost, an exhausted bucket is locked or will be: the exact
\* match of the mirror table does not jump over the threshold.
ExhaustedIsAnnounced ==
  ~ MirrorMayDrop =>
    \A s \in Slots : collision(s) >= max_col[s[1]] => flag_bit[s] \/ informs[s] > 0

\* While no copy is lost, an exhausted bucket is eventually locked.
ExhaustedGetsLocked ==
  \A s \in Slots : (collision(s) >= max_col[s[1]]) ~> flag_bit[s]
=============================================================================
