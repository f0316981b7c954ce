# ReliableSketch in TLA+

This directory is the verification project of the ReliableSketch repository:
TLA+ modules translated from the code under `src/`, TLC configurations that
check them on small instances, and TLAPS proofs of the core properties for every
value of the constants.

## 1. Inventory of the system

The repository implements one data structure three times (a C++ library, an FPGA
pipeline, two P4 programs) and a set of competing sketches for comparison.

| Component | Code | State | Operations | What makes it correct |
|---|---|---|---|---|
| ReliableSketch (CPU) | `CPU/src/sketch/rs.cpp`, `rs.h` | filter counters `mf`, buckets `rs[level][pos]` = (yes, no, id, locked), seeds | `init`, `insert(v)`, `insert(v,f)`, `query_freq`, `query_freq_low`, `query_freq_level`, `query_hash`, `query_heavyhitter`, sizing in the constructor | the two frequency queries bracket the true count, the range is bounded, locks are final, a key owns one bucket |
| Benchmark driver | `CPU/src/main/main.cpp`, `utils.cpp` | sketches under test, ground truth | `main`: rounds that construct, test and delete all sketches; `MPETest`: init, insert the stream, query | every sketch starts a test from nothing, with one ground truth |
| Space-Saving | `ss.cpp`, `ss.h` | groups of equal counts in a list, elements in rings, an index | `init`, `insert`, `query_freq`, `query_freq_low` | the list stays sorted and closed, the index leads to the element of its key, both queries bracket the truth |
| Count-Min, CU | `cm.cpp`, `cu.cpp` | rows of counters | `init`, `insert`, `query_freq` | never below the truth; CU never above Count-Min |
| Elastic | `elastic.cpp` | buckets of seven counters and a guard, an array of 8-bit counters | `init`, `insert`, `insert_light`, `query_freq`, `query_heavyhitter` | a count that is split over both parts is added up again; nothing is invented |
| HashPipe | `hashpipe.cpp` | stages of (key, count) | `init`, `insert`, `query_freq`, `query_heavyhitter` | the parts of a key add up to its count, but for what leaves the last stage |
| Coco, PRECISION | `coco.cpp`, `precision.cpp` | rows of (key, count) | `init`, `insert`, `query_freq`, PRECISION's `query_heavyhitter` | a key has one entry; no insertion is credited twice; (an expected value) |
| FPGA layers | `FPGA/.../CS_Bucket_1..5.v`, `CS_top.v` | FSM per layer, bucket RAM, read pipeline, input FIFO | clocked steps | one result per input key, no lost updates, back-pressure |
| FPGA FIFOs | `SYNCFIFO.v`, `ASYNCFIFO.v`, `ASYNCRAM.v`, `fifo_top.v` | pointers, flags, memory | write, read per clock | order, no loss, flags agree with occupancy |
| FPGA spill bucket | `ES_Bucket.v` | write index | stores keys that no layer took | every such key stored once |
| P4 program (packets) | `TestBed/ErrorControlShort.p4`, `tableinit.py` | register arrays per layer: filter, id, total, collision, lock flag | per-packet pipeline, mirrored INFORM packet that sets the lock | as the CPU sketch, with a lock that arrives late |
| P4 program (bytes) | `TestBed/weight/ErrorControlWeight_4layer.p4`, `table_init_weight.py` | as above with yes-no difference | as above, weighted | as above, weighted |
| Hash functions | `murmur3.h`, `CRC32_D32.v`, `CRC32h_32bit.v`, P4 CRC externs | none | hash of a key | any function: the models quantify over all of them |
| Build, generated IP, scripts, data | `Makefile`, `*.xci`, `*.xpr`, `*.xdc`, `p4_build.sh`, loaders | none | | not modelled |

Interactions.  `main.cpp` constructs all sketches, feeds the same stream to each of
them, queries each, deletes them and starts over with more memory; there is one
thread, and no sketch sees the state of another.  In the FPGA a key flows through the five layers, each
behind a FIFO, with back-pressure from a layer to the one before it; all layers
step on one clock.  In P4 the packets pass the stages in order; the one feedback
is the mirrored INFORM packet, which comes back behind an unknown number of other
packets, or not at all.

Hard behaviours: long streams in which candidates are replaced and buckets lock
(CPU), one weighted insertion that fills several levels (CPU), counts that are split
over parts or stages of a table and must be found again (baselines), reads of a bucket that overtake the write of the previous key (FPGA), FIFOs
at their limit (FPGA), the window between a bucket's exhaustion and its lock (P4),
overflow and zero bounds (all).

## 2. Modules and the code they model

| Module | Models | Correspondence |
|---|---|---|
| `ReliableSketch` | `rs.cpp`, `rs.h` | `mf`, `rs` and the hash choices `mfPos`, `rsPos` (drawn once: every hash function is a choice) are the object's fields. `InsertMf` and `InsertRs` are the two ends of `insert(v)`: the filter takes the key, or the walk over the levels ends in a vote or a drop. `Clear` is `init`. The queries are operators with the names of the methods. `flow_cnt`, `filtered`, `reach` are bookkeeping: the true counts and how often a key reached each level |
| `WeightedSketch` | `insert(v, f)` of `rs.cpp` | extends `ReliableSketch` by `InsertWeighted`: `Offer` is one pass of the loop over the levels, `Arrival` the loop; callers may mix both insertions |
| `ReliableSketchProofs` | | proofs about `ReliableSketch` |
| `WeightedSketchProofs` | | proofs about both insertions without a filter |
| `RSSizing` | the constructor of `rs.cpp` | `Probe` is one iteration of the binary search in `get_rs_bkt_0_by_mem`, `BuildLevel` one of the loop in `construct_rs`, `MemFrom` the loop of `get_rs_mem_by_bkt_0` |
| `Stream` | what the sketches under test share | hash functions (seed and key to a value; arbitrary, drawn once) and the ground truth `flow_cnt` |
| `CounterSketches` | `cm.cpp`, `cu.cpp` | `cm`, `cu` are the two `cnt` arrays, by row and column |
| `Elastic` | `elastic.cpp` | `heavy`, `guard`, `light`; bit 31 of a heavy counter is the field `flag`; `InsertMatched`, `InsertEmpty`, `InsertVote`, `InsertSwap` are the four ends of `insert`. `spoiled` is bookkeeping |
| `HashPipe` | `hashpipe.cpp` | `pipe` is `fp` and `cnt`; `Carried` follows `ckey`, `cval` through the stages, `Meet` is one stage. `fallen` is bookkeeping: what left the last stage |
| `Sampling` | `coco.cpp`, `precision.cpp` | `coco`, `precision`: rows of (key, count); a random draw that may be 0 is a choice |
| `Benchmark` | `main`, `MPETest` | composes the modules from `RSSizing` to `Sampling`: a round sizes ReliableSketch (`SizingStep`), starts a test of a sketch (`StartTest`), feeds it (`Feed...`) and deletes it (`NextRound`) |
| `BenchmarkProofs` | | proofs about it |
| `NumberLemmas` | | least elements, induction over an interval, division, sums over the domain of a function; used by the proofs |
| `ErrorControl` | `ErrorControlShort.p4`, `tableinit.py` | one variable per register array; one action per path of a packet (`Absorb`, `CountOpen`, `CountOwner`, `Overflow`), `Deliver` for an INFORM packet that comes back, `Lose` for one that does not |
| `ErrorControlProofs` | | proofs about it |
| `CSWord` | the decision in `CS_Bucket_1.v` (`pharse_4_s`, `read_s`) | a RAM word and what a layer does with a key |
| `CSLayer` | what a layer promises | keys are served one at a time, in order, against the newest word |
| `CSBucket` | `CS_Bucket_1..5.v`, `SYNCFIFO.v`, `ASYNCRAM.v` | `Tick` is one clock: the FIFO, the RAM and one state of the state machine move together; one operator per state |
| `CSBucketProofs` | | proofs about it |
| `CSTop` | `CS_top.v`, `ES_Bucket.v` | two instances of `CSBucket`, wired, and the escape bucket; `Clock` moves all of them. The second layer addresses its RAM with the low bits of the first one's addresses (`lowbits`, 15 bits of 16 in the code) |
| `CSTopProofs` | | proofs about it |
| `SpaceSaving` | what `ss.cpp` promises | the algorithm on counters, without lists |
| `StreamSummary` | `ss.cpp`, `ss.h` | groups, elements, tail, free list and index pointer by pointer; `Raise`, `Merge`, `Split`, `Join` are the four branches of `insert` |
| `StreamSummaryProofs` | | proofs about both |
| `MC*` | | the instances that TLC checks |

`CSTop` composes two `CSBucket`s, and `Benchmark` composes the constructor of
ReliableSketch and the five sketches of four modules.  Because sketches share nothing, a
round of `Benchmark` tests one of them (Count-Min and CU together, on the same hash
functions): testing all in one round would only multiply their states.  Two implementations are shown to refine an
abstract specification: `CSBucket` refines `CSLayer` (`ServesAsPromised`) and
`StreamSummary` refines `SpaceSaving` (`ImplementsSpaceSaving`); both refinements are
checked and proved.

Operators that a comment calls *Faulty* are not part of a specification.  Each is a
plausible mistake in the operator below it, and replacing the one by the other makes
a property fail: it shows that the property depends on that piece of code.

## 3. Runs

| Run | Instance | What it shows |
|---|---|---|
| `rs_filtered` | filter 2x2 with threshold 2, two levels (the second with bound 0), 3 keys, 11 insertions, all hash functions | the tables keep their shape; `query_freq` never underestimates what was not dropped; `query_freq_low` never overestimates; their range is bounded; heavy hitters are complete |
| `rs_bare` | no filter, three levels, 4 keys, both insertions mixed, weights 0, 2 and 5, at most 9 items | both bounds hold for weighted insertions as well; the range grows by at most one vote per level; locks are final; nothing is recorded below the bucket a query stops at; no key is reported twice; dropped keys say so |
| `rs_threshold` (violation) | three levels with bounds 1, 0, 0 | the error can exceed the configured threshold (section 6) |
| `rs_weighted` (violation) | filter 2x2 with threshold 2, one level, weights 1 and 5 | the weighted insertion misses the threshold by far (section 6) |
| `bench` | sizing: ten budgets, eight thresholds, three rates for each series, up to four levels; tests: 4 keys, one of them 0, 2 rows of 2 columns, one heavy bucket of two counters, light counters up to 3, 8 insertions, all hash functions | the levels of ReliableSketch fit the budgets; Count-Min and CU bracket the truth; Elastic invents nothing and falls short only where its light part is spoiled; HashPipe's parts add up; Coco and PRECISION credit no insertion twice |
| `p4_lossy` | two layers, shared filter counters, 3 keys, 11 packets, copies late, duplicated or lost | what the registers say of each key is sound, the unsigned difference never wraps, locks are final |
| `p4_lossless` | two layers, 9 packets, copies late but not lost | an exhausted bucket has a copy under way or is locked, and is locked in the end |
| `fpga_layer` | one layer, 3 keys in two buckets, 6 keys mixed with any number of zeros and pauses, keys of one bucket at least four entries apart | the layer implements `CSLayer`, serves every key, its words are sound, and its FIFO never fills |
| `fpga_top` | two layers and the escape bucket, 4 keys in two buckets of the first layer and one word of the second, 2 of them sent, any number of zeros, one pause | no hand-over loses or repeats a key; what a layer hands on, its word refuses in all three tests (threshold, candidate, contested), then and later; all leave |
| `fpga_race` (violation) | two keys in one bucket at any distance, 6 keys | updates are lost (section 6); proved is that every word still is one that some election produced, and that nothing is lost at a distance of four entries (section 5) |
| `ss_list` | 4 elements, 5 keys, 8 insertions | the lists stay sound and a free group is left when one is taken; the counts add up; the queries bracket the truth, the upper one within the size-th part of the stream; every insertion is one of Space-Saving |
| `ss_garbage` (violation) | the same, with uninitialised fingerprints that may name a key | a key can be forgotten (section 6) |

Bounds.  `MaxStream`, `MaxPackets`, `MaxKeys`, `MaxPauses`, `MaxInserts` only end a
run; no property mentions them.  They are large enough for the cases that matter:

- In the CPU and P4 runs a bucket is taken, loses its candidate, is exhausted, is
  locked, and is passed by other keys, and the level or layer below goes through the
  same once more.  The proofs remove these bounds altogether.
- In `rs_bare` a weight of 5 goes through all three levels in one call (bounds 1, 0, 0), a
  weight of 2 levels, replaces or fills, and a weight of 0, which is legal, still replaces
  a candidate whose lead is used up.
- In `bench` eight insertions let a key be counted, evicted from Elastic's heavy part, come
  back, be evicted again, and saturate a light counter; a HashPipe key sits in both stages
  and falls out of the second; entries of Coco and PRECISION change hands repeatedly.  The
  real numbers of the constructor are doubles; the model computes with fractions exactly,
  which for `main`'s rates 2 and 2.5 and sizes below 2^31 differs from the code at most
  where a double result falls on the other side of an integer.  The range of the hash
  values, 2, is enough for two columns, two buckets and two light counters.
- In `fpga_layer` six keys with zeros between them make bursts of every length: from
  the one-key burst that ends in `wait_1_s` to the steady state of `pharse_4_s`, and
  every position of a key in them.  The zeros and the pauses are not bounded, so the
  FIFO is driven as hard as the input allows.  The start tables of `fpga_top` stand
  for the keys of an earlier stream.  In each layer they hold a word with one vote, which two
  keys first close and then contest, and a closed one, so a key is kept for each of the
  three reasons, and both keys can reach the escape bucket.  k3 and k4 come from
  different buckets of the first layer and meet in the word of the second one; the spacing is
  therefore that of keys which share a word in any layer.  Measured on the first layer's
  addresses alone (`L1!Sendable` in `SendKey`), TLC finds `Conserved` violated.
- In `ss_list` eight insertions reach every shape of the list: one to four groups,
  merges at the tail, in the middle and at the top, and groups that were given back
  and taken again.

Deadlock is checked except in the P4 runs, whose traffic ends.

## 4. Fairness

- `ErrorControl!FairSpec`: each copy on its way back arrives (`WF` on `Deliver`), used
  only where no copy is lost.   Packets are
  under no fairness.
- `CSBucket!CSFairSpec`, `CSTop!FairSpec`: the clock does not stop.  Clocks without an
  entry follow as long as they change anything, unless entries arrive for ever.  Nothing
  forces an entry to arrive; in `CSTop` the bound on pauses does so until the keys of the
  run are sent, and not after.

## 5. Proofs

All theorems hold for every value of the constants under the named assumptions of the
modules (`LevelAssumption`, `FilterAssumption` and so on), which TLC evaluates on every
instance.

**`ReliableSketchProofs`.**  The properties of section 3 are not inductive.  `IInv` adds:
every insertion is accounted for by the filter or by a walk (`Accounted`); a filter
counter covers what it absorbed of each of its keys, and only keys with saturated
counters walk (`FilterInv`); walks pass levels in order (`WalkInv`); a bucket's
candidate leads, and the lock marks exactly that the votes against have reached the
bound (`VotesInv`); what a bucket counted of a key lies between its lead and its votes
for the candidate, and within the votes against for other keys (`ShareInv`); the
candidate hashes to its bucket and was counted there (`OwnerInv`).  `SketchInvariant`
proves `Spec => []IInv` step by step.  The two queries add up buckets along a walk, so
their bounds need a second argument: `EstFromCovers` and `EstFromRange` go upwards from
the deepest level (`UpwardFromTheDeepest`, from the well-foundedness of the naturals
rather than an induction theorem).  Proved: type correctness, `NeverUnderestimates`,
`LowerBoundSound`, `RangeBounded`, `NothingBelowTheStop`, `NoDuplicateReport`,
`HeavyHitterComplete`, `DropsAreVisible`, and the action property `LockedIsFinal`.

**`WeightedSketchProofs`.**  For a sketch without a filter (`mf_row_size = 0`, the assumption
of every theorem there; with a filter `query_freq` can lose items, section 6) and any mixture of
`insert(v)` and `insert(v, f)`.  `IInv` no longer holds: a bucket that a weight filled to its
bound stays open, one more vote then exceeds the bound, and a weight of 0 elects a candidate
that was never counted.  `MixedInv` replaces `VotesInv` by `MixedVotesInv` (one vote past the
bound at most, and only in a locked bucket) and `OwnerInv` by `CandidateInv` (a candidate
found every bucket above it locked by another key); the part that the queries rest on,
`QueryInv`, is shared with `IInv`, and so are the lemmas about the queries.  Both insertions
are instances of one step, `WalkStep`: C[d] items come to depth d and some levels each take
C[d] - C[d + 1] of them; `VoteCounted` and `OfferCounted` say what one bucket does with
its part, `WalkKeepsMixedInv` that the step keeps the invariant, `InsertRsWalks` and
`InsertWeightedWalks` that the insertions are such steps.  The loop of `insert(v, f)` is
followed downwards (`ArrivalEquations`, `UpwardInduction` on the depth).  Proved: all the
properties of `rs_bare`.

**`ErrorControlProofs`.**  Here the invariant is the conjunction of the safety
properties with two more: filter counters and collisions are even (`EvenInv`), which is
why an exact match cannot be jumped over, and both counters of a key have moved for
each packet the filter absorbed (`FilterInv`).  `ShareCovered` and `LeadSound` hold for
any delay and any loss of the copies.  Proved: all safety properties of the two P4
runs and `LockedIsFinal`.

**`BenchmarkProofs`: sizing.**  `LevelsFitAlways` rests on three
invariants of the constructor's loops (`SizingInv`).  The interval of the binary search lies
between a size that fits and one that does not (`SearchInv`).  The levels that
`construct_rs` has built and those that `MemFrom` still counts add up to what was measured
(`MeasureInv`).  The bound of the next level is at most its share of what is left of the
threshold (`BoundInv`): for the first level, which is rounded up, it is exactly that
(`FirstBound`), and for the others rounding down loses nothing (`DivOfSum`).  That the
recursive function `MemFrom` is defined needs a downward induction on the level.

**`BenchmarkProofs`: the sketches.**  `CountersSoundAlways`: in every single counter, CU
stays below Count-Min, and every counter of a key is at least its count; the minimum follows.
`ElasticSoundAlways`: `ElasticInv` says that a key stands in one slot, that a full bucket
stays full, that a key without a counter is covered by its light counter and one with a
flagged counter by both, unless that light counter is spoiled; `InsertLightFacts` and
`ElasticStep` carry it through the four ends of `insert`.  `CountedOnceAlways`: a counted key
stands in the entry that the query of CocoSketch or PRECISION finds.

**Sums.**  `SumFunction` of the community modules picks the elements of the domain one after
another, a recursion over sets for which no induction theorem can be used.  `NumberLemmas`
proves instead that its levels have a fixed point (`SumLevelsEnd`, by induction on the
cardinality) and that a family of subsets which holds the empty set, and each set that lost
its chosen element, holds all (`SubsetInduction`).  From these follow what the proofs need: a
sum changes by what one summand changes (`SumUpdate`), is ordered as its summands are
(`SumOrder`), is at least its least summand as often as there are summands (`SumOfLeast`), and
is at most another sum in which each of its summands has a place of its own
(`SumInjection`).  With them, `BenchmarkProofs` proves `SampledSound` (`CreditInv`: the entries
of the table count the stream or a part of it; each counted key stands in one entry, so the
queries add up to the entries), `PipeSound` (`PipeInv`; `MeetKeeps` says that a stage keeps or
passes on all it was given, and the sum over the stages of `Carried` follows) and
`ElasticNeverInvents`, which is inductive: `insert` moves a count between the two sides
of one light counter or adds one to both.

**`CSBucketProofs`.**  `WordsSoundAlways` follows the words through the RAM, its two output
registers and the write port: each is sound, and an election of a sound word gives one
(`CountSound`).  No spacing of the keys is assumed, so it covers the behaviours of
`fpga_race` as well.  `NeverFullAlways` needs none either: `PipeInv` bounds the FIFO in each
state of the state machine (`LengthInv`), because the pause after a burst is as long as the
burst was short.  It holds for every layer that nothing stops (`InKeyAlf` holds FALSE only).
The other two assume `SpacedAssumption`: nothing stops the layer, and at least three entries
come between two keys of one bucket.  `SpacingInv` says so of the entries that are still
owed, `Remembered` ties them to what the environment remembers, and `NewestInv` says that the
word of each key in the read pipeline is the newest of its bucket, the one on the write port
included.  So `EveryKeyCounted` holds, which `fpga_race` refutes at smaller distances, and each clock
is a step of `CSLayer` or none: one entry is served against the newest table, or one arrives, or
both (`ImplementsLayer`).

**`CSTopProofs`.**  Both layers are instances of the lemmas of `CSBucketProofs`.  `FlowInv`, without any
spacing, gives `NeverFull`: the almost-full signals stay low, so each layer behaves as one that
nothing stops, whatever the wires could say.  With spacing, `TopInv` adds that the first layer
hands entries on in their order, so that what is `Coming` to the second layer is spaced as the
input was (`SpacingInv`); that every key behind a layer is refused by its word there (`RefusedInv`); and the balance of
the keys (`ConservedInv`).  `Refuses` spells out the three tests of `CS_Bucket_1.v:213`
apart from `Keeps`.  A refusal is final (`RefusalStays`): a word at the threshold whose candidate
leads counts only for that candidate, whose lead grows.  The spacing is measured on the
addresses of the second layer; since they are the low bits of the first's, it holds for the first layer
too (`Coarser`).  `EscapesAreJustified` and `Conserved` follow for any number of keys and
buckets, any hash, any map of the first layer's addresses to the second's, and any thresholds.
The start tables are those an earlier stream can leave (`LeftBehind`).

**`StreamSummaryProofs`.**  `ShapeInv` describes the three linked structures without any
reachability along pointers.  `Chain`: counts differ, and the next group has the next higher
count, the least above one's own; `Ring`: following next from any proper part of a group leaves the part;
`FreeList`: some enumeration of the unused groups starts at `free_head` and follows next.
Each is kept by a lemma about functions (`ChainRaise`, `ChainEnter`, `ChainLeave`, `RingIn`,
`RingOut`, `Push`, `Pop`), and each of the four branches of `insert` is shown to be a
combination of them (`RaiseMoves`, `MergeMoves`, `SplitMoves`, `JoinMoves`) that raises the
count of one element by one and of no other (`Moved`).  That a group is left for `Split` is a count
(`GroupIsLeft`): without a free group, as many groups as elements are in use, so each
element is alone.  `ListSoundAlways` and `CountsAddUpAlways` hold whatever the fingerprints of new
elements are.  The other results assume that they name no key (`Garbage` at most
`NoKey`), since otherwise `ss_garbage` refutes them: then index and fingerprints agree
(`NamesInv`), each insertion is a step of `SpaceSaving` (`ImplementsSpaceSavingAlways`),
and the bracket proved of that algorithm (`SpaceSavingBrackets`) carries over to the two
queries (`QueriesBracketAlways`).  The size-th part of the stream comes from `CountsAddUp`: the
smallest count is at most the average.

Only model-checked: the three liveness properties (`KeysAreServed` and `KeysLeave` of the FPGA,
`ExhaustedGetsLocked` of the P4 program), since liveness under fairness is beyond TLAPS.  Every
other property of the passing runs is a theorem, under the assumptions given with it above;
the instances of the runs satisfy them.

## 6. Disagreements found

1. *Error threshold* (`rs_threshold`).  A level whose bound has fallen to 0 still hides
   one vote, because `insert` tests the lock after counting (`rs.cpp:204`).  The error
   can exceed `rs_threshold` (`rs.cpp:63`) and `eps` (`main.cpp:162`).
2. *One key per clock* (`fpga_race`).  A layer reads a word three clocks before it uses it
   and does not forward: of two keys of one bucket less than four entries apart, the
   first update is lost (`CS_Bucket_1.v:218`).  The README of the FPGA design says that
   a key can enter in every clock.
3. *Uninitialised fingerprints* (`ss_garbage`).  `insert` erases the old fingerprint of an
   element from the index even if it was never set (`ss.cpp:73`), and with it perhaps a
   key that another element counts.

4. *The filter of the weighted insertion* (`rs_weighted`).  `insert(v, f)` limits the step of
   the filter counters by the key `v` where the weight `f` is meant (`rs.cpp:223`).  The
   filter takes nothing of a key 0, a negative amount of a negative key and too much of a
   large one; the threshold of `main.cpp:162` and `rs.cpp:66` is missed by any amount.
   Without a filter (`rs_bare`) the weighted insertion keeps both bounds.

Two observations that contradict no text of the repository and are therefore not listed as
disagreements.  HashPipe addresses its later stages with the hash of the inserted key
(`hashpipe.cpp:65`), so that a carried key comes to rest where `query_freq` does not look for
it; `PipeSound` says what is left of the answers.  Elastic takes a counter of the key 0 for a
free one (`elastic.cpp:69`): a stream that contains the key 0 can make it, and keys that share
its bucket, fall below the truth, which is why `ElasticSound` excludes such streams.

## 7. Not modelled

- Hash functions: the models quantify over the positions of keys.
- Parsing, forwarding and reports of the P4 program; the dump scripts.
- In `main.cpp`, loading the traces and the error measures; in `utils.cpp`, the timer.
- Reports: `status`, `print_mf_payload`, `query_hash`, and `query_heavyhitter` of Elastic and
  PRECISION, which list what the modelled queries answer.
- The sizes that the constructors of the filter and of the baselines compute: the modules
  take any number of rows, columns and buckets.
- Integer overflow of the counters: streams of 2^31 insertions.
- The clock-crossing FIFO, which nothing instantiates, and the pointers inside the
  synchronous one, whose contents are a sequence here.
- The Verilog reset other than as the initial state; unused RAM ports.
- The wrap of the escape bucket's index after 128 keys.
- Layers 3 to 5 of the chip, which lose one more address bit each: `CSTop` has two layers.
- A second `init()` of the Space-Saving baseline, which no caller makes.

## 8. Plan

Done: the CPU sketch with both insertions and its sizing, all baselines and the benchmark
that feeds them, the P4 packet program, the FPGA pipeline.  Left, in this order:

1. An abstract layered recorder (levels that keep or pass on, and never reopen), with the
   CPU sketch and the P4 program as implementations, proved.
2. `SYNCFIFO.v` with its pointers, as an implementation of the sequence in `CSBucket`.
3. The weighted P4 program with four layers.
4. All five layers of the FPGA as one family of layers, with the proofs of `CSTopProofs` by
   induction over the layers.
