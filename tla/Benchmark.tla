------------------------------ MODULE Benchmark ------------------------------
(***************************************************************************)
(* The benchmark (main.cpp) around the sketches that are compared with     *)
(* ReliableSketch.  A round of main constructs all sketches for one amount *)
(* of memory, MPETest initialises each and feeds it with the stream, and   *)
(* the sketches are deleted.  Sketches share no state, so a round here     *)
(* sizes ReliableSketch and then tests one of the others; ReliableSketch   *)
(* and Space-Saving have modules of their own.                             *)
(***************************************************************************)
EXTENDS RSSizing, CounterSketches, Elastic, HashPipe, Sampling

CONSTANT MaxStream  \* bound of the checks: insertions per test

ASSUME BenchmarkAssumption == MaxStream \in Nat

VARIABLE task  \* what the round is at: "construct", or the sketch under test

tables == <<counterTables, elasticTables, pipeTables, samplingTables>>
vars == <<task, sizingVars, hash, flow_cnt, tables>>

SketchNames == {"counters", "elastic", "hashpipe", "coco", "precision"}

\* The seeds before any is drawn, and the arguments before any are chosen.
NoHash == [s \in Seeds |-> [k \in Keys |-> 0]]

\* What the init functions of all sketches leave.
TablesInit ==
  /\ CountersInit(cm, cu) /\ ElasticInit(heavy, guard, light, spoiled)
  /\ PipeInit(pipe, fallen) /\ SamplingInit(coco, precision)
TablesReset ==
  /\ CountersInit(cm', cu') /\ ElasticInit(heavy', guard', light', spoiled')
  /\ PipeInit(pipe', fallen') /\ SamplingInit(coco', precision')

\* main is about to construct the sketches of its first round.
Init ==
  /\ task = "construct"
  /\ SizingIdle(par, loop, search, build)
  /\ hash = NoHash /\ flow_cnt = NoCounts
  /\ TablesInit

\* The constructor of ReliableSketch, with any arguments, by its steps.
SizingStep == task = "construct" /\ SizingNext /\ UNCHANGED <<task, hash, flow_cnt, tables>>

\* MPETest starts with a sketch whose constructor or init drew its seeds.
StartTest(t) ==
  /\ task = "construct" /\ loop = "built"
  /\ task' = t
  /\ hash' \in Hashes
  /\ SizingIdle(par', loop', search', build')
  /\ UNCHANGED <<flow_cnt, tables>>

\* sk[id]->insert(k) and the count of the ground truth.
Feeding(k, t) ==
  /\ task = t
  /\ StreamLength < MaxStream
  /\ flow_cnt' = [flow_cnt EXCEPT ![k] = @ + 1]
  /\ UNCHANGED <<task, sizingVars, hash>>

FeedCounters(k) ==
  /\ Feeding(k, "counters") /\ CountersInsert(k)
  /\ UNCHANGED <<elasticTables, pipeTables, samplingTables>>

FeedElastic(k) ==
  /\ Feeding(k, "elastic") /\ ElasticInsert(k)
  /\ UNCHANGED <<counterTables, pipeTables, samplingTables>>

FeedHashPipe(k) ==
  /\ Feeding(k, "hashpipe") /\ PipeInsert(k)
  /\ UNCHANGED <<counterTables, elasticTables, samplingTables>>

FeedCoco(k) ==
  /\ Feeding(k, "coco") /\ CocoInsert(k)
  /\ UNCHANGED <<counterTables, elasticTables, pipeTables>>

FeedPrecision(k) ==
  /\ Feeding(k, "precision") /\ PrecisionInsert(k)
  /\ UNCHANGED <<counterTables, elasticTables, pipeTables>>

Feed(k) ==
  FeedCounters(k) \/ FeedElastic(k) \/ FeedHashPipe(k) \/ FeedCoco(k) \/ FeedPrecision(k)

\* The sketches are deleted, and the next round constructs them anew.
NextRound ==
  /\ task # "construct"
  /\ task' = "construct"
  /\ UNCHANGED sizingVars
  /\ hash' = NoHash /\ flow_cnt' = NoCounts
  /\ TablesReset

Next ==
  \/ SizingStep
  \/ \E t \in SketchNames : StartTest(t)
  \/ \E k \in Keys : Feed(k)
  \/ NextRound

Spec == Init /\ [][Next]_vars
-----------------------------------------------------------------------------
(* What holds of a sketch while it is under test.                          *)

\* Count-Min and its conservative-update variant bracket the true counts.
CountersSound == task = "counters" => CountersBracket

\* Elastic answers too little only where its light part is spoiled.
ElasticSound == task = "elastic" => ElasticUnderestimatesOnlySpoiled

\* HashPipe loses nothing but what is carried out of its last stage.
PipeSound == task = "hashpipe" => PipeConserves

\* The two sketches that draw random numbers credit no insertion twice.
SampledSound ==
  /\ task = "coco" => CocoCreditsAll
  /\ task = "precision" => PrecisionCreditsOnce
=============================================================================
