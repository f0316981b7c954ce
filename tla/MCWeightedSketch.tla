-------------------------- MODULE MCWeightedSketch --------------------------
(* Small instances of WeightedSketch for TLC.                              *)
EXTENDS WeightedSketch, TLC

\* Three levels, the lower two with bound 0, and no filter (mem_ratio 0).
BareRows == (0 :> 2) @@ (1 :> 1) @@ (2 :> 1)
BareBounds == (0 :> 1) @@ (1 :> 0) @@ (2 :> 0)

\* No filter: the values of the keys are never read.
NoValues == [k \in Keys |-> 0]

\* A filter with threshold 2 and one level with bound 1; every key but 0 has a
\* small value.
SmallRows == (0 :> 2)
SmallBounds == (0 :> 1)
SmallValues == [k \in Keys |-> IF k = ZeroKey THEN 0 ELSE 1]
=============================================================================
