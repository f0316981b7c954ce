----------------------------- MODULE MCBenchmark -----------------------------
(* A small instance of Benchmark for TLC.                                  *)
EXTENDS Benchmark, TLC

CONSTANTS k0, k1, k2, k3

\* The rates 2 and 2.5 of main, and one between 1 and 2.
SmallRates == {[num |-> 2, den |-> 1], [num |-> 5, den |-> 2], [num |-> 3, den |-> 2]}

\* The key 0 is told apart from the others.
KeySymmetry == Permutations(Keys \ {ZeroKey})
=============================================================================
