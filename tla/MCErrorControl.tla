--------------------------- MODULE MCErrorControl ---------------------------
(* Small instances of ErrorControl for TLC.                                *)
EXTENDS ErrorControl, TLC

\* All keys share the one bucket of each layer: every conflict happens.
OneBucket == [i \in Layers |-> 1]
AllCollide == [i \in Layers |-> [k \in Keys |-> 0]]
CollideInFilter == [f \in Filters |-> [k \in Keys |-> 0]]

\* Thresholds fall from layer to layer as 18, 10, 6 do.
SmallMaxCol == (1 :> 4) @@ (2 :> 2)

\* Two filter counters per register; two keys share one of theirs.
CONSTANTS k1, k2, k3
SplitFilter == (1 :> [k \in Keys |-> IF k = k3 THEN 1 ELSE 0])
            @@ (2 :> [k \in Keys |-> IF k = k1 THEN 0 ELSE 1])

KeySymmetry == Permutations(Keys)
=============================================================================
