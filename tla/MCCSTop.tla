------------------------------ MODULE MCCSTop ------------------------------
(* A small instance of CSTop for TLC: two buckets in the first layer, whose *)
(* addresses differ in the bit that the second layer drops.                 *)
EXTENDS CSTop

CONSTANTS k1, k2, k3, k4

TwoBuckets == [e \in Entries \cup {Stale} |-> IF e \in {k2, k4} THEN 1 ELSE 0]
DropTheBit == [b \in Buckets |-> 0]

\* One vote; closed for all but the candidate.
Once(k) == [total |-> 1, no |-> 0, key |-> k]
Closed(k) == [total |-> 3, no |-> 1, key |-> k]

BothClosed == [b \in Buckets |-> IF b = 0 THEN Closed(k1) ELSE Closed(k2)]
FirstOpen == [BothClosed EXCEPT ![0] = Once(k1)]

\* k3 and k4 leave the first layer from different buckets and meet in the second one.
EarlierKeys ==
  { [first |-> FirstOpen, second |-> [b \in Buckets2 |-> L2!ZeroWord]],
    [first |-> BothClosed, second |-> [b \in Buckets2 |-> Once(k3)]],
    [first |-> BothClosed, second |-> [b \in Buckets2 |-> Closed(k3)]] }
=============================================================================
