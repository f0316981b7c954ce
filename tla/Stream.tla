------------------------------- MODULE Stream -------------------------------
(* What the sketches under test share (MPETest in main.cpp): the keys of   *)
(* the stream, their true counts and a family of hash functions.           *)
EXTENDS Integers, FiniteSetsExt, Functions

CONSTANTS
  Keys,        \* the flow identifiers that occur in the stream
  ZeroKey,     \* the identifier 0, which every cleared table entry carries
  num_hash,    \* rows of a table: num_hash, or n_stage of a pipeline
  row_size,    \* entries per row
  HashRange    \* the hash values are 0 .. HashRange - 1

ASSUME StreamAssumption ==
  /\ ZeroKey \in Keys /\ IsFiniteSet(Keys)
  /\ num_hash \in Nat \ {0}
  /\ row_size \in Nat \ {0}
  /\ HashRange \in Nat \ {0}

VARIABLES
  hash,     \* seed -> key -> hash value
  flow_cnt  \* key -> its insertions into the sketch under test

\* There is a seed per row; Elastic takes two whatever num_hash is.
Seeds == 0 .. Max({num_hash, 2}) - 1
Hashes == [Seeds -> [Keys -> 0 .. HashRange - 1]]

RowIds == 0 .. num_hash - 1
Cols == 0 .. row_size - 1

\* The column of k in row j.
Col(j, k) == hash[j][k] % row_size

NoCounts == [k \in Keys |-> 0]
StreamLength == SumFunction(flow_cnt)
=============================================================================
