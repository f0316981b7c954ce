-------------------------- MODULE MCReliableSketch --------------------------
(* Small instances of ReliableSketch for TLC.                              *)
EXTENDS ReliableSketch, TLC

\* Keys other than the identifier 0 are interchangeable.
KeySymmetry == Permutations(Keys \ {ZeroKey})

\* Two levels behind a filter; the second has a zero bound, as main.cpp's
\* threshold 22 gives from the fourth level on.
FilterRows == (0 :> 2) @@ (1 :> 1)
FilterBounds == (0 :> 2) @@ (1 :> 0)

\* What construct_rs builds for rs_threshold_0 = 1 and rs_r_l = 2.
TinyRows == (0 :> 1) @@ (1 :> 1) @@ (2 :> 1)
TinyBounds == (0 :> 1) @@ (1 :> 0) @@ (2 :> 0)

=============================================================================
