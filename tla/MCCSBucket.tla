----------------------------- MODULE MCCSBucket -----------------------------
(* Small instances of CSBucket for TLC.                                    *)
EXTENDS CSBucket, TLC

CONSTANT k3

ASSUME BucketAssumption == LayerAssumption

\* All keys in the bucket at address 0, which the zeros read as well.
OneBucket == [e \in Entries \cup {Stale} |-> 0]

\* One key in a bucket of its own.
TwoBuckets == [e \in Entries \cup {Stale} |-> IF e = k3 THEN 1 ELSE 0]
=============================================================================
