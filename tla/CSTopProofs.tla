----------------------------- MODULE CSTopProofs -----------------------------
(***************************************************************************)
(* Two layers and the escape bucket together: no FIFO fills, no hand-over  *)
(* loses or repeats a key, and only keys that both words refuse escape,    *)
(* for every number of keys and buckets, any hash, any split of its bits   *)
(* between the layers and any thresholds.                                  *)
(***************************************************************************)
EXTENDS CSTop, NumberLemmas, SequenceTheorems

P1 == INSTANCE CSBucketProofs WITH
        fifo <- fifo1, q <- q1, empty_reg <- empty_reg1, fsm <- fsm1, reg <- reg1,
        port_a <- port_a1, douta <- douta1, ram_out_a <- ram_out_a1,
        port_b <- port_b1, ram <- ram1, out <- out1,
        ErrorThreshold <- Threshold1, InKeyAlf <- BOOLEAN, kept <- <<>>

P2 == INSTANCE CSBucketProofs WITH
        fifo <- fifo2, q <- q2, empty_reg <- empty_reg2, fsm <- fsm2, reg <- reg2,
        port_a <- port_a2, douta <- douta2, ram_out_a <- ram_out_a2,
        port_b <- port_b2, ram <- ram2, out <- out2,
        Buckets <- Buckets2, bucket <- bucket2,
        ErrorThreshold <- Threshold2, InKeyAlf <- BOOLEAN, kept <- <<>>
-----------------------------------------------------------------------------
(* The layers of the chip are the layers that the lemmas are about.        *)

LEMMA Tick1 == ASSUME NEW ins, NEW alf, L1!Tick(ins, alf) PROVE P1!Tick(ins, alf)
BY DEF L1!Tick, P1!Tick, L1!FifoClock, P1!FifoClock, L1!RamClock, P1!RamClock,
       L1!Idle, P1!Idle, L1!Pharse, P1!Pharse, L1!Pharse4, P1!Pharse4, L1!Wait1, P1!Wait1,
       L1!Wait2, P1!Wait2, L1!Read, P1!Read, L1!Overflows, P1!Overflows,
       L1!ReadResults, P1!ReadResults, L1!NoFetch, P1!NoFetch, L1!Fetch, P1!Fetch,
       L1!Decide, P1!Decide, L1!GoTo, P1!GoTo, L1!ShiftIn, P1!ShiftIn,
       L1!NoWrite, P1!NoWrite, L1!NoRead, P1!NoRead, L1!Empty, P1!Empty,
       L1!MoreToRead, P1!MoreToRead, L1!Usedw, P1!Usedw, L1!LastOfBurst, P1!LastOfBurst,
       L1!Counted, P1!Counted, L1!Keeps, P1!Keeps, L1!Contested, P1!Contested,
       L1!Count, P1!Count, L1!ZeroWord, P1!ZeroWord

LEMMA Tick2 == ASSUME NEW ins, NEW alf, L2!Tick(ins, alf) PROVE P2!Tick(ins, alf)
BY DEF L2!Tick, P2!Tick, L2!FifoClock, P2!FifoClock, L2!RamClock, P2!RamClock,
       L2!Idle, P2!Idle, L2!Pharse, P2!Pharse, L2!Pharse4, P2!Pharse4, L2!Wait1, P2!Wait1,
       L2!Wait2, P2!Wait2, L2!Read, P2!Read, L2!Overflows, P2!Overflows,
       L2!ReadResults, P2!ReadResults, L2!NoFetch, P2!NoFetch, L2!Fetch, P2!Fetch,
       L2!Decide, P2!Decide, L2!GoTo, P2!GoTo, L2!ShiftIn, P2!ShiftIn,
       L2!NoWrite, P2!NoWrite, L2!NoRead, P2!NoRead, L2!Empty, P2!Empty,
       L2!MoreToRead, P2!MoreToRead, L2!Usedw, P2!Usedw, L2!LastOfBurst, P2!LastOfBurst,
       L2!Counted, P2!Counted, L2!Keeps, P2!Keeps, L2!Contested, P2!Contested,
       L2!Count, P2!Count, L2!ZeroWord, P2!ZeroWord

LEMMA SameLayer1 ==
  /\ L1!LayerAssumption = P1!LayerAssumption /\ L1!clocked = P1!clocked
  /\ L1!Table = P1!Table /\ L1!UnderWay = P1!UnderWay
  /\ P1!Entries = Entries /\ P1!Owed = L1!UnderWay \o fifo1
  /\ L1!NeverFull = P1!NeverFull
  /\ \A words : L1!InitLayerAt(words) = P1!InitLayerAt(words)
  /\ \A s : L1!LastOf(s) = P1!LastOf(s)
BY DEF L1!LayerAssumption, P1!LayerAssumption, L1!EntryAssumption, P1!EntryAssumption,
       L1!ThresholdAssumption, P1!ThresholdAssumption, L1!FifoAssumption, P1!FifoAssumption,
       L1!EnvironmentAssumption, P1!EnvironmentAssumption, L1!clocked, P1!clocked,
       L1!Table, P1!Table, L1!UnderWay, P1!UnderWay, L1!Entries, P1!Entries, Entries, P1!Owed,
       L1!NeverFull, P1!NeverFull, L1!AllmostFull, P1!AllmostFull, L1!Usedw, P1!Usedw,
       L1!InitLayerAt, P1!InitLayerAt, L1!NoRead, P1!NoRead, L1!NoWrite, P1!NoWrite,
       L1!ZeroWord, P1!ZeroWord, L1!LastOf, P1!LastOf

LEMMA SameLayer2 ==
  /\ L2!LayerAssumption = P2!LayerAssumption /\ L2!clocked = P2!clocked
  /\ L2!Table = P2!Table /\ L2!UnderWay = P2!UnderWay
  /\ P2!Entries = Entries /\ P2!Owed = L2!UnderWay \o fifo2
  /\ L2!NeverFull = P2!NeverFull
  /\ \A words : L2!InitLayerAt(words) = P2!InitLayerAt(words)
BY DEF L2!LayerAssumption, P2!LayerAssumption, L2!EntryAssumption, P2!EntryAssumption,
       L2!ThresholdAssumption, P2!ThresholdAssumption, L2!FifoAssumption, P2!FifoAssumption,
       L2!EnvironmentAssumption, P2!EnvironmentAssumption, L2!clocked, P2!clocked,
       L2!Table, P2!Table, L2!UnderWay, P2!UnderWay, L2!Entries, P2!Entries, Entries, P2!Owed,
       L2!NeverFull, P2!NeverFull, L2!AllmostFull, P2!AllmostFull, L2!Usedw, P2!Usedw,
       L2!InitLayerAt, P2!InitLayerAt, L2!NoRead, P2!NoRead, L2!NoWrite, P2!NoWrite,
       L2!ZeroWord, P2!ZeroWord

\* What depends neither on the registers nor on the addresses is the same for both.
LEMMA SameSequences ==
  /\ P1!Arrivals = P2!Arrivals /\ P1!Entries = Entries /\ P2!Entries = Entries
  /\ \A s, t : P1!Weaker(t, s) = P2!Weaker(t, s)
  /\ \A s : P1!KeyCount(s) = P2!KeyCount(s) /\ P1!KeyCount(s) = Cardinality(KeysIn(s))
<1>1. P1!Arrivals = P2!Arrivals /\ P1!Entries = Entries /\ P2!Entries = Entries
  BY DEF P1!Arrivals, P2!Arrivals, P1!Entries, P2!Entries, Entries
<1>2. \A s, t : P1!Weaker(t, s) = P2!Weaker(t, s)
  BY DEF P1!Weaker, P2!Weaker
<1>3. ASSUME NEW s
      PROVE  P1!KeyCount(s) = P2!KeyCount(s) /\ P1!KeyCount(s) = Cardinality(KeysIn(s))
  BY DEF P1!KeyCount, P2!KeyCount, KeysIn, P1!Cardinality, P2!Cardinality, Cardinality
<1> QED BY <1>1, <1>2, <1>3

\* Entries that share a word of the first layer share one of the second layer.
LEMMA Coarser ==
  ASSUME NEW e \in Entries, NEW f \in Entries, bucket2[e] # bucket2[f]
  PROVE  bucket[e] # bucket[f]
BY DEF bucket2
-----------------------------------------------------------------------------
(* The flow of the entries, whatever their spacing.                        *)

FlowInv == P1!Working /\ P2!Working /\ out1 \in P1!Arrivals

\* The layers at the start: nothing is owed, and the words are those left behind.
LEMMA LayersInit ==
  ASSUME Init
  PROVE  /\ P1!Working /\ P1!NewestInv /\ P1!Owed = <<>> /\ P1!Writing = {} /\ P1!Table = ram1
         /\ P2!Working /\ P2!NewestInv /\ P2!Owed = <<>> /\ P2!Writing = {} /\ P2!Table = ram2
         /\ out1 = <<>> /\ out2 = <<>>
<1>0. P1!LayerAssumption /\ P2!LayerAssumption /\ DataDepth >= 8
  BY TopAssumption, SameLayer1, SameLayer2
<1>a. PICK s \in Start : L1!InitLayerAt(s.first) /\ L2!InitLayerAt(s.second)
  BY DEF Init
<1>1. P1!InitLayerAt(s.first)
  BY <1>a, SameLayer1
<1>2. P2!InitLayerAt(s.second)
  BY <1>a, SameLayer2
<1>b. /\ LeftBehind(s.first, bucket, Buckets, Threshold1)
      /\ LeftBehind(s.second, bucket2, Buckets2, Threshold2)
  BY TopAssumption
<1>3. /\ s.first \in [Buckets -> P1!Word]
      /\ \A b \in Buckets : /\ s.first[b].no <= Threshold1
                            /\ 2 * s.first[b].no <= s.first[b].total
                            /\ (s.first[b].total = 0) <=> (s.first[b].key = Zero)
  BY <1>b DEF LeftBehind, P1!Word, P1!Entries, Entries
<1>4. /\ s.second \in [Buckets2 -> P2!Word]
      /\ \A b \in Buckets2 : /\ s.second[b].no <= Threshold2
                             /\ 2 * s.second[b].no <= s.second[b].total
                             /\ (s.second[b].total = 0) <=> (s.second[b].key = Zero)
  BY <1>b DEF LeftBehind, P2!Word, P2!Entries, Entries
<1>5. P1!LayerInv
  BY <1>0, <1>1, <1>3, P1!StartSound
<1>6. P2!LayerInv
  BY <1>0, <1>2, <1>4, P2!StartSound
<1>7. /\ P1!Working /\ P1!NewestInv /\ P1!Owed = <<>> /\ P1!Writing = {} /\ P1!Table = ram1
  BY <1>0, <1>1, <1>5, P1!WorkingInit
<1>8. /\ P2!Working /\ P2!NewestInv /\ P2!Owed = <<>> /\ P2!Writing = {} /\ P2!Table = ram2
  BY <1>0, <1>2, <1>6, P2!WorkingInit
<1>9. out1 = <<>> /\ out2 = <<>>
  BY <1>1, <1>2 DEF P1!InitLayerAt, P2!InitLayerAt
<1> QED BY <1>7, <1>8, <1>9

\* No layer is asked to stop, so both go on undisturbed.
LEMMA LayersTick ==
  ASSUME FlowInv, NEW ins \in P1!Arrivals, Clock(ins)
  PROVE  \E alf : ~ alf /\ P1!Tick(ins, alf) /\ P2!Tick(out1, alf)
<1>1. L1!Tick(ins, L2!AllmostFull) /\ L2!Tick(out1, FALSE)
  BY DEF Clock
<1>2. ~ L2!AllmostFull
  <2>1. L2!NeverFull
    BY P2!ShortFifo, SameLayer2 DEF FlowInv
  <2> QED BY <2>1 DEF L2!NeverFull
<1>3. P1!Tick(ins, L2!AllmostFull) /\ P2!Tick(out1, FALSE)
  BY <1>1, Tick1, Tick2
<1>4. L2!AllmostFull = FALSE
  BY <1>2 DEF L2!AllmostFull
<1> QED BY <1>3, <1>4

LEMMA FlowClock ==
  ASSUME FlowInv, NEW ins \in P1!Arrivals, Clock(ins)
  PROVE  FlowInv' /\ out2' \in P2!Arrivals
<1>1. PICK alf : ~ alf /\ P1!Tick(ins, alf) /\ P2!Tick(out1, alf)
  BY LayersTick
<1>2. out1 \in P2!Arrivals
  BY SameSequences DEF FlowInv
<1>3. P1!Working' /\ out1' \in P1!Arrivals
  BY <1>1, P1!WorkingTick, P1!ShowsEntries DEF FlowInv
<1>4. P2!Working' /\ out2' \in P2!Arrivals
  BY <1>1, <1>2, P2!WorkingTick, P2!ShowsEntries DEF FlowInv
<1>5. P1!Arrivals' = P1!Arrivals
  BY DEF P1!Arrivals, P1!Entries
<1> QED BY <1>3, <1>4, <1>5 DEF FlowInv

\* Every step is a clock with an entry or without.
LEMMA ClockOfNext == ASSUME Next PROVE \E ins \in P1!Arrivals : Clock(ins)
<1>1. <<>> \in P1!Arrivals /\ \A e \in Entries : <<e>> \in P1!Arrivals
  BY SameSequences DEF P1!Arrivals
<1>2. CASE Quiet
  BY <1>1, <1>2 DEF Quiet
<1>3. CASE SendZero
  BY <1>1, <1>3 DEF SendZero, Entries
<1>4. ASSUME NEW k \in Keys, SendKey(k) PROVE Clock(<<k>>) /\ k \in Entries
  BY <1>4 DEF SendKey, Entries
<1> QED BY <1>1, <1>2, <1>3, <1>4 DEF Next, Send

LEMMA FlowAlways == Spec => []FlowInv
<1>1. Init => FlowInv
  BY LayersInit DEF FlowInv, P1!Arrivals
<1>2. FlowInv /\ [Next]_vars => FlowInv'
  <2> SUFFICES ASSUME FlowInv, [Next]_vars PROVE FlowInv'
    OBVIOUS
  <2>1. CASE Next
    BY <2>1, ClockOfNext, FlowClock
  <2>2. CASE UNCHANGED vars
    <3>1. UNCHANGED P1!clocked /\ UNCHANGED P2!clocked
      BY <2>2 DEF vars, L1!clocked, P1!clocked, L2!clocked, P2!clocked
    <3>2. out1' = out1
      BY <3>1 DEF P1!clocked
    <3> QED BY <3>1, <3>2, P1!LayerStutter, P2!LayerStutter DEF FlowInv, P1!Arrivals, P1!Entries
  <2> QED BY <2>1, <2>2
<1> QED BY <1>1, <1>2, PTL DEF Spec

\* No FIFO of the chip ever comes near being full, at any rate and spacing of the keys,
\* so that no layer is asked to stop by CS_Bucket_out_key_alf.
THEOREM NeverFullAlways == Spec => []NeverFull
<1>1. FlowInv => NeverFull
  BY P1!ShortFifo, P2!ShortFifo, SameLayer1, SameLayer2 DEF FlowInv, NeverFull
<1> QED BY <1>1, FlowAlways, PTL
-----------------------------------------------------------------------------
(* The spacing of the keys, in the first layer and from the second one on. *)

\* What the second layer has to serve, the entries in the first one included.
Coming == P2!Owed \o (out1 \o P1!Owed)

SpacingInv ==
  /\ recent \in Seq(Entries) /\ Len(recent) <= Spacing
  /\ P1!NewestInv /\ P2!NewestInv
  /\ P1!Apart(P1!Owed, P1!Writing) /\ P1!Remembered(P1!Owed, P1!Writing, recent)
  /\ P2!Apart(Coming, P2!Writing) /\ P2!Remembered(Coming, P2!Writing, recent)

LEMMA SequencesTyped ==
  ASSUME FlowInv
  PROVE  /\ P1!Owed \in Seq(Entries) /\ P2!Owed \in Seq(Entries)
         /\ out1 \in Seq(Entries) /\ out1 \o P1!Owed \in Seq(Entries)
         /\ P1!LayerAssumption /\ P2!LayerAssumption
<1>1. P1!Owed \in Seq(Entries) /\ P2!Owed \in Seq(Entries)
  BY P1!FilledPlaces, P2!FilledPlaces, SameSequences DEF FlowInv
<1>2. P1!LayerAssumption /\ P2!LayerAssumption
  BY DEF FlowInv, P1!Working, P2!Working
<1>3. out1 \in Seq(Entries)
  BY SameSequences, P1!ArrivalFacts DEF FlowInv
<1> QED BY <1>1, <1>2, <1>3, ConcatProperties

\* Both layers serve as they promise.
LEMMA LayersServe ==
  ASSUME FlowInv, SpacingInv, NEW ins \in P1!Arrivals, Clock(ins)
  PROVE  /\ P1!NewestInv' /\ (P1!Waits(ins) \/ P1!Serves(ins))
         /\ P2!NewestInv' /\ (P2!Waits(out1) \/ P2!Serves(out1))
<1>1. PICK alf : ~ alf /\ P1!Tick(ins, alf) /\ P2!Tick(out1, alf)
  BY LayersTick
<1>2. out1 \in P2!Arrivals
  BY SameSequences DEF FlowInv
<1>3. P2!Apart(P2!Owed, P2!Writing)
  <2>1. P2!Owed \in Seq(P2!Entries) /\ out1 \o P1!Owed \in Seq(P2!Entries)
    BY SequencesTyped, SameSequences
  <2>2. P2!Apart(P2!Owed \o (out1 \o P1!Owed), P2!Writing)
    BY DEF SpacingInv, Coming
  <2> QED BY <2>1, <2>2, P2!FrontApart
<1>4. P1!NewestInv' /\ (P1!Waits(ins) \/ P1!Serves(ins))
  BY <1>1, P1!LayerTick DEF FlowInv, SpacingInv
<1>5. P2!NewestInv' /\ (P2!Waits(out1) \/ P2!Serves(out1))
  BY <1>1, <1>2, <1>3, P2!LayerTick DEF FlowInv, SpacingInv
<1> QED BY <1>4, <1>5

\* What is left for the first layer after a clock is spaced, and so is what is coming
\* to the second one, where some keys have become 0.
LEMMA FirstLeft ==
  ASSUME FlowInv, SpacingInv, NEW ins \in P1!Arrivals, Clock(ins)
  PROVE  \E s \in Seq(Entries) :
           /\ P1!Owed' = s \o ins
           /\ P1!Apart(s, P1!Writing') /\ P1!Remembered(s, P1!Writing', recent)
<1>1. P1!Waits(ins) \/ P1!Serves(ins)
  BY LayersServe
<1>2. recent \in Seq(P1!Entries)
  BY SameSequences DEF SpacingInv
<1> QED BY <1>1, <1>2, SameSequences, P1!LeftSpaced DEF FlowInv, SpacingInv

LEMMA SecondLeft ==
  ASSUME FlowInv, SpacingInv, NEW ins \in P1!Arrivals, Clock(ins)
  PROVE  \E s \in Seq(Entries) :
           /\ Coming' = s \o ins
           /\ P2!Apart(s, P2!Writing') /\ P2!Remembered(s, P2!Writing', recent)
<1>1. (P1!Waits(ins) \/ P1!Serves(ins)) /\ (P2!Waits(out1) \/ P2!Serves(out1))
  BY LayersServe
<1>2. PICK w \in Seq(Entries) : P1!Weaker(w, P1!Owed) /\ out1' \o P1!Owed' = w \o ins
  BY <1>1, P1!HandsOn, SameSequences DEF FlowInv
<1>3. /\ P2!Owed' \in Seq(Entries)
      /\ P2!Apart(P2!Owed' \o P1!Owed, P2!Writing')
      /\ P2!Remembered(P2!Owed' \o P1!Owed, P2!Writing', recent)
  <2>1. recent \in Seq(P2!Entries) /\ out1 \in P2!Arrivals /\ P1!Owed \in Seq(P2!Entries)
    BY SequencesTyped, SameSequences DEF SpacingInv, FlowInv
  <2>2. P2!Entries = Entries
    BY SameSequences
  <2> QED BY <1>1, <2>1, <2>2, P2!LeftSpacedBehind DEF FlowInv, SpacingInv, Coming
<1> DEFINE o == P2!Owed'  u == P1!Owed  s == o \o w
<1>4. s \in Seq(Entries) /\ o \o u \in Seq(Entries) /\ u \in Seq(Entries)
  BY <1>2, <1>3, SequencesTyped, ConcatProperties
<1>5. P2!Apart(s, P2!Writing') /\ P2!Remembered(s, P2!Writing', recent)
  <2>1. P2!Weaker(w, u) /\ P2!Entries = Entries
    BY <1>2, SameSequences
  <2> HIDE DEF o, u, s
  <2>2. P2!Weaker(s, o \o u)
    BY <1>2, <1>3, <1>4, <2>1, P2!WeakerBehind DEF o, s
  <2>3. P2!Apart(o \o u, P2!Writing') /\ P2!Remembered(o \o u, P2!Writing', recent)
    BY <1>3 DEF o, u
  <2> QED BY <1>4, <2>1, <2>2, <2>3, P2!WeakerSpaced
<1>6. Coming' = s \o ins
  <2>1. ins \in Seq(Entries)
    BY SameSequences, P1!ArrivalFacts
  <2>2. Coming' = o \o (w \o ins)
    BY <1>2 DEF Coming
  <2> HIDE DEF o
  <2>3. (o \o w) \o ins = o \o (w \o ins)
    BY <1>2, <1>3, <2>1, ConcatAssociative DEF o
  <2> QED BY <2>2, <2>3
<1> QED BY <1>4, <1>5, <1>6
-----------------------------------------------------------------------------
(* The keys behind a layer, and the keys altogether.                       *)

\* The keys that have no room in their word, in either layer.
Refused1 == {k \in Keys : P1!Refuses(P1!Table[bucket[k]], k)}
Refused2 == {k \in Keys : P2!Refuses(P2!Table[bucket2[k]], k)}

\* What a layer may show when it refuses the keys of R.
Arrived(R) == {<<>>} \cup {<<e>> : e \in R \cup {Zero}}

\* Every key behind the first layer is refused there, and every key behind the second
\* layer in both.
RefusedInv ==
  /\ P2!Owed \in Seq(Refused1 \cup {Zero}) /\ out1 \in Seq(Refused1 \cup {Zero})
  /\ out2 \in Seq(Refused1 \cup {Zero}) /\ out2 \in Seq(Refused2 \cup {Zero})
  /\ es_reg \in Refused1 \cup {Zero} /\ es_reg \in Refused2 \cup {Zero}
  /\ escaped \in Seq(Refused1) /\ escaped \in Seq(Refused2)

EscapeInv ==
  /\ out2 \in P2!Arrivals
  /\ es_reg \in Entries /\ escaped \in Seq(Keys)
  /\ es_state \in {"idle", "pharse_1"} /\ (es_state = "idle" => es_reg = Zero)

ConservedInv ==
  /\ before \in Nat /\ sent \in Nat
  /\ before + sent = P1!Total(P1!Table) + P2!Total(P2!Table) + Len(escaped)
       + P1!KeyCount(P1!Owed) + P1!KeyCount(out1) + P1!KeyCount(P2!Owed)
       + P1!KeyCount(out2) + P1!KeyCount(<<es_reg>>)

TopInv == FlowInv /\ SpacingInv /\ EscapeInv /\ RefusedInv /\ ConservedInv

LEMMA SeqGrows ==
  ASSUME NEW S, NEW T, S \subseteq T
  PROVE  Seq(S) \subseteq Seq(T)
<1>1. ASSUME NEW s \in Seq(S) PROVE s \in Seq(T)
  <2>1. s \in [1 .. Len(s) -> S] /\ Len(s) \in Nat
    OBVIOUS
  <2>2. s \in [1 .. Len(s) -> T]
    BY <2>1
  <2> QED BY <2>1, <2>2, SeqDef
<1> QED BY <1>1

\* The escape bucket takes what was shown, and stores what it took a clock before.
LEMMA EscapeTakes ==
  ASSUME EscapeInv, EscapeClock
  PROVE  /\ es_reg' \in Entries /\ escaped' \in Seq(Keys) /\ es_state' = "pharse_1"
         /\ P1!KeyCount(out2) \in Nat /\ Len(escaped) \in Nat
         /\ P1!KeyCount(<<es_reg>>) \in Nat
         /\ Len(escaped') + P1!KeyCount(<<es_reg'>>)
              = Len(escaped) + P1!KeyCount(<<es_reg>>) + P1!KeyCount(out2)
         /\ \A R : /\ out2 \in Seq(R \cup {Zero}) => es_reg' \in R \cup {Zero}
                   /\ es_reg \in R \cup {Zero} /\ escaped \in Seq(R) => escaped' \in Seq(R)
<1>0. /\ es_reg \in Entries /\ escaped \in Seq(Keys) /\ Len(escaped) \in Nat
      /\ out2 = <<>> \/ (out2 = <<out2[1]>> /\ out2[1] \in Entries)
      /\ Zero \in Entries /\ P1!Entries = Entries
  BY SameSequences DEF EscapeInv, P2!Arrivals, Entries
<1>1. /\ es_reg' \in Entries
      /\ P1!KeyCount(out2) = P1!KeyCount(<<es_reg'>>)
      /\ \A R : out2 \in Seq(R \cup {Zero}) => es_reg' \in R \cup {Zero}
  <2>1. CASE out2 = <<>>
    <3>1. es_reg' = Zero
      BY <2>1 DEF EscapeClock, ShownKey
    <3>2. P1!KeyCount(out2) = P1!KeyCount(<<Zero>>)
      BY <1>0, <2>1, P1!KeyCountShort
    <3> QED BY <1>0, <3>1, <3>2
  <2>2. CASE out2 # <<>>
    <3>1. es_reg' = out2[1]
      BY <2>2 DEF EscapeClock, ShownKey
    <3>2. ASSUME NEW R, out2 \in Seq(R \cup {Zero}) PROVE out2[1] \in R \cup {Zero}
      BY <2>2, <3>2
    <3>3. P1!KeyCount(out2) = P1!KeyCount(<<es_reg'>>) /\ es_reg' \in Entries
      BY <1>0, <2>2, <3>1
    <3> QED BY <3>1, <3>2, <3>3
  <2> QED BY <2>1, <2>2
<1>2. P1!KeyCount(<<es_reg>>) = IF es_reg = Zero THEN 0 ELSE 1
  BY <1>0, P1!KeyCountShort
<1>3. P1!KeyCount(<<es_reg'>>) \in Nat
  BY <1>0, <1>1, P1!KeyCountShort
<1>4. CASE es_reg = Zero
  <2>1. escaped' = escaped
    BY <1>4 DEF EscapeClock
  <2> QED BY <1>0, <1>1, <1>2, <1>3, <1>4, <2>1 DEF EscapeClock
<1>5. CASE es_reg # Zero
  <2>1. es_state # "idle" /\ es_reg \in Keys
    BY <1>0, <1>5 DEF EscapeInv, Entries
  <2>2. escaped' = Append(escaped, es_reg)
    BY <1>5, <2>1 DEF EscapeClock, EscapeInv
  <2>3. escaped' \in Seq(Keys) /\ Len(escaped') = Len(escaped) + 1
    BY <1>0, <2>1, <2>2
  <2>4. ASSUME NEW R, es_reg \in R \cup {Zero}, escaped \in Seq(R) PROVE escaped' \in Seq(R)
    <3>1. es_reg \in R
      BY <1>5, <2>4
    <3> QED BY <2>2, <2>4, <3>1
  <2> QED BY <1>0, <1>1, <1>2, <1>3, <1>5, <2>3, <2>4 DEF EscapeClock
<1> QED BY <1>4, <1>5

\* What a clock does to the refusals: they stay, and what is handed on is refused where
\* it comes from.
LEMMA RefusedClock ==
  ASSUME FlowInv, SpacingInv, EscapeInv, RefusedInv, NEW ins \in P1!Arrivals, Clock(ins)
  PROVE  RefusedInv'
<1>1. (P1!Waits(ins) \/ P1!Serves(ins)) /\ (P2!Waits(out1) \/ P2!Serves(out1))
  BY LayersServe
<1>2. /\ P1!Working /\ P2!Working
      /\ bucket \in [Entries \cup {Stale} -> Buckets]
      /\ bucket2 \in [Entries \cup {Stale} -> Buckets2]
      /\ Zero \notin Keys /\ Keys \subseteq Entries
  BY SameSequences DEF FlowInv, P1!Working, P2!Working, P1!LayerAssumption,
     P2!LayerAssumption, P1!EntryAssumption, P2!EntryAssumption, Entries
<1>3. Refused1 \subseteq Refused1'
  <2> SUFFICES ASSUME NEW k \in Refused1 PROVE k \in Refused1'
    OBVIOUS
  <2>1. k \in Keys /\ bucket[k] \in Buckets /\ P1!Refuses(P1!Table[bucket[k]], k)
    BY <1>2 DEF Refused1
  <2>2. P1!Refuses(P1!Table'[bucket[k]], k)
    BY <1>1, <1>2, <2>1, P1!RefusalStays
  <2> QED BY <2>1, <2>2 DEF Refused1, P1!Refuses
<1>4. Refused2 \subseteq Refused2'
  <2> SUFFICES ASSUME NEW k \in Refused2 PROVE k \in Refused2'
    OBVIOUS
  <2>1. k \in Keys /\ bucket2[k] \in Buckets2 /\ P2!Refuses(P2!Table[bucket2[k]], k)
    BY <1>2 DEF Refused2
  <2>2. P2!Refuses(P2!Table'[bucket2[k]], k)
    BY <1>1, <1>2, <2>1, P2!RefusalStays
  <2> QED BY <2>1, <2>2 DEF Refused2, P2!Refuses, bucket2
<1>5. PICK R1, R2 : R1 = Refused1' /\ R2 = Refused2'
  OBVIOUS
<1> DEFINE Z1 == R1 \cup {Zero}  Z2 == R2 \cup {Zero}
<1>6. /\ P2!Owed \in Seq(Z1) /\ out1 \in Seq(Z1) /\ out2 \in Seq(Z1) /\ out2 \in Seq(Z2)
      /\ es_reg \in Z1 /\ es_reg \in Z2 /\ escaped \in Seq(R1) /\ escaped \in Seq(R2)
  <2>1. /\ Refused1 \subseteq R1 /\ Refused2 \subseteq R2
        /\ Refused1 \cup {Zero} \subseteq Z1 /\ Refused2 \cup {Zero} \subseteq Z2
    BY <1>3, <1>4, <1>5
  <2>2. /\ Seq(Refused1) \subseteq Seq(R1) /\ Seq(Refused2) \subseteq Seq(R2)
        /\ Seq(Refused1 \cup {Zero}) \subseteq Seq(Z1)
        /\ Seq(Refused2 \cup {Zero}) \subseteq Seq(Z2)
    BY <2>1, SeqGrows
  <2> HIDE DEF Z1, Z2
  <2> QED BY <2>1, <2>2 DEF RefusedInv
<1>7. EscapeClock
  BY DEF Clock
<1>8. es_reg' \in Z1 /\ es_reg' \in Z2 /\ escaped' \in Seq(R1) /\ escaped' \in Seq(R2)
  BY <1>6, <1>7, EscapeTakes
<1>9. out1' \in Arrived(R1) /\ out2' \in Arrived(R2)
  <2>1. /\ P1!Arrivals' = P1!Arrivals /\ out1' \in P1!Arrivals /\ out2' \in P2!Arrivals
    BY FlowClock, SameSequences DEF FlowInv, P1!Arrivals, P1!Entries
  <2>2. ASSUME out1' # <<>>, out1'[1] # Zero PROVE out1'[1] \in R1
    <3>1. 1 \in 1 .. Len(out1') /\ out1'[1] \in Keys
      BY <2>1, <2>2, SameSequences DEF P1!Arrivals, Entries
    <3>2. P1!Refuses(P1!Table'[bucket[out1'[1]]], out1'[1])
      BY <1>1, <1>2, <2>2, <3>1, P1!HandedOnRefused
    <3> QED BY <1>5, <3>1, <3>2 DEF Refused1, P1!Refuses
  <2>3. ASSUME out2' # <<>>, out2'[1] # Zero PROVE out2'[1] \in R2
    <3>1. 1 \in 1 .. Len(out2') /\ out2'[1] \in Keys
      BY <2>1, <2>3, SameSequences DEF P2!Arrivals, Entries
    <3>2. P2!Refuses(P2!Table'[bucket2[out2'[1]]], out2'[1])
      BY <1>1, <1>2, <2>3, <3>1, P2!HandedOnRefused
    <3> QED BY <1>5, <3>1, <3>2 DEF Refused2, P2!Refuses, bucket2
  <2> QED BY <2>1, <2>2, <2>3 DEF P1!Arrivals, P2!Arrivals, Arrived
<1>10. out1' \in Seq(Z1) /\ out2' \in Seq(Z2)
  <2>1. ASSUME NEW R, NEW o \in Arrived(R) PROVE o \in Seq(R \cup {Zero})
    <3>1. CASE o = <<>>
      BY <3>1
    <3>2. ASSUME NEW e \in R \cup {Zero}, o = <<e>> PROVE o \in Seq(R \cup {Zero})
      BY <3>2
    <3> QED BY <2>1, <3>1, <3>2 DEF Arrived
  <2> QED BY <1>9, <2>1
<1>11. P2!Owed' \in Seq(Z1) /\ out2' \in Seq(Z1)
  <2> HIDE DEF Z1
  <2>1. Zero \in Z1
    BY DEF Z1
  <2>2. CASE P2!Waits(out1)
    BY <1>6, <2>2, ConcatProperties DEF P2!Waits
  <2>3. CASE P2!Serves(out1)
    <3>1. /\ P2!Owed # <<>> /\ P2!Owed' = Tail(P2!Owed) \o out1
          /\ out2' = <<Zero>> \/ out2' = <<Head(P2!Owed)>>
      BY <2>3 DEF P2!Serves
    <3>2. Head(P2!Owed) \in Z1 /\ Tail(P2!Owed) \in Seq(Z1)
      BY <1>6, <3>1
    <3>3. P2!Owed' \in Seq(Z1)
      BY <1>6, <3>1, <3>2, ConcatProperties
    <3>4. out2' \in Seq(Z1)
      <4>1. PICK e \in Z1 : out2' = <<e>>
        BY <2>1, <3>1, <3>2
      <4> QED BY <4>1
    <3> QED BY <3>3, <3>4
  <2> QED BY <1>1, <2>2, <2>3
<1> QED BY <1>5, <1>8, <1>10, <1>11 DEF RefusedInv

\* What a clock does to the keys: the one that entered is there.
LEMMA ConservedClock ==
  ASSUME FlowInv, SpacingInv, EscapeInv, ConservedInv, NEW ins \in P1!Arrivals, Clock(ins),
         before' = before, sent' = sent + P1!KeyCount(ins)
  PROVE  ConservedInv'
<1>1. (P1!Waits(ins) \/ P1!Serves(ins)) /\ (P2!Waits(out1) \/ P2!Serves(out1))
  BY LayersServe
<1>2. P1!IsFiniteSet(Buckets) /\ P2!IsFiniteSet(Buckets2)
  BY TopAssumption DEF P1!IsFiniteSet, P2!IsFiniteSet, IsFiniteSet
<1>3. /\ P1!KeyCount(P1!Owed) \in Nat /\ P1!KeyCount(ins) \in Nat /\ P1!Total(P1!Table) \in Nat
      /\ P1!KeyCount(P1!Owed') \in Nat /\ P1!KeyCount(out1') \in Nat
      /\ P1!Total(P1!Table') \in Nat
      /\ P1!KeyCount(P1!Owed') + P1!KeyCount(out1') + P1!Total(P1!Table')
           = P1!KeyCount(P1!Owed) + P1!KeyCount(ins) + P1!Total(P1!Table)
  BY <1>1, <1>2, P1!LayerConserves DEF FlowInv
<1>4. /\ P1!KeyCount(P2!Owed) \in Nat /\ P1!KeyCount(out1) \in Nat
      /\ P2!Total(P2!Table) \in Nat
      /\ P1!KeyCount(P2!Owed') \in Nat /\ P1!KeyCount(out2') \in Nat
      /\ P2!Total(P2!Table') \in Nat
      /\ P1!KeyCount(P2!Owed') + P1!KeyCount(out2') + P2!Total(P2!Table')
           = P1!KeyCount(P2!Owed) + P1!KeyCount(out1) + P2!Total(P2!Table)
  <2>1. out1 \in P2!Arrivals /\ \A s : P1!KeyCount(s) = P2!KeyCount(s)
    BY SameSequences DEF FlowInv
  <2> QED BY <1>1, <1>2, <2>1, P2!LayerConserves DEF FlowInv
<1>5. /\ P1!KeyCount(out2) \in Nat /\ Len(escaped) \in Nat
      /\ P1!KeyCount(<<es_reg>>) \in Nat
      /\ P1!KeyCount(<<es_reg'>>) \in Nat /\ Len(escaped') \in Nat
      /\ Len(escaped') + P1!KeyCount(<<es_reg'>>)
           = Len(escaped) + P1!KeyCount(<<es_reg>>) + P1!KeyCount(out2)
  <2>1. es_reg' \in Entries /\ escaped' \in Seq(Keys)
    BY EscapeTakes DEF Clock
  <2>2. P1!KeyCount(<<es_reg'>>) \in Nat /\ Len(escaped') \in Nat
    BY <2>1, P1!KeyCountShort, SameSequences
  <2> QED BY <2>2, EscapeTakes DEF Clock
<1>6. before' \in Nat /\ sent' \in Nat
  BY <1>3 DEF ConservedInv
<1>7. before' + sent' = P1!Total(P1!Table') + P2!Total(P2!Table') + Len(escaped')
        + P1!KeyCount(P1!Owed') + P1!KeyCount(out1') + P1!KeyCount(P2!Owed')
        + P1!KeyCount(out2') + P1!KeyCount(<<es_reg'>>)
  <2> DEFINE t1 == P1!Total(P1!Table)  T1 == P1!Total(P1!Table')
             o1 == P1!KeyCount(P1!Owed)  O1 == P1!KeyCount(P1!Owed')
             u1 == P1!KeyCount(out1)  U1 == P1!KeyCount(out1')
             t2 == P2!Total(P2!Table)  T2 == P2!Total(P2!Table')
             o2 == P1!KeyCount(P2!Owed)  O2 == P1!KeyCount(P2!Owed')
             u2 == P1!KeyCount(out2)  U2 == P1!KeyCount(out2')
             e == Len(escaped)  E == Len(escaped')
             r == P1!KeyCount(<<es_reg>>)  R == P1!KeyCount(<<es_reg'>>)
             k == P1!KeyCount(ins)
  <2>1. /\ t1 \in Nat /\ T1 \in Nat /\ o1 \in Nat /\ O1 \in Nat /\ u1 \in Nat /\ U1 \in Nat
        /\ t2 \in Nat /\ T2 \in Nat /\ o2 \in Nat /\ O2 \in Nat /\ u2 \in Nat /\ U2 \in Nat
        /\ e \in Nat /\ E \in Nat /\ r \in Nat /\ R \in Nat /\ k \in Nat
        /\ O1 + U1 + T1 = o1 + k + t1
        /\ O2 + U2 + T2 = o2 + u1 + t2
        /\ E + R = e + r + u2
    BY <1>3, <1>4, <1>5
  <2>2. /\ before \in Nat /\ sent \in Nat
        /\ before + sent = t1 + t2 + e + o1 + u1 + o2 + u2 + r
    BY DEF ConservedInv
  <2> HIDE DEF t1, T1, o1, O1, u1, U1, t2, T2, o2, O2, u2, U2, e, E, r, R, k
  <2>3. before + (sent + k) = T1 + T2 + E + O1 + U1 + O2 + U2 + R
    BY <2>1, <2>2
  <2> QED BY <2>3 DEF T1, T2, E, O1, U1, O2, U2, R, k
<1> QED BY <1>6, <1>7 DEF ConservedInv

LEMMA SameTotals ==
  /\ \A tab : DOMAIN tab = Buckets => P1!Total(tab) = CountedIn(tab)
  /\ \A tab : DOMAIN tab = Buckets2 => P2!Total(tab) = CountedIn(tab)
  /\ P1!IsFiniteSet(Buckets) /\ P2!IsFiniteSet(Buckets2)
<1>1. P1!IsFiniteSet(Buckets) /\ P2!IsFiniteSet(Buckets2)
  BY TopAssumption DEF P1!IsFiniteSet, P2!IsFiniteSet, IsFiniteSet
<1>2. ASSUME NEW tab, DOMAIN tab = Buckets PROVE P1!Total(tab) = CountedIn(tab)
  BY <1>2 DEF P1!Total, CountedIn, P1!SumFunction, SumFunction, P1!SumFunctionOnSet,
         SumFunctionOnSet, P1!FoldFunctionOnSet, FoldFunctionOnSet, P1!MapThenFoldSet,
         MapThenFoldSet
<1>3. ASSUME NEW tab, DOMAIN tab = Buckets2 PROVE P2!Total(tab) = CountedIn(tab)
  BY <1>3 DEF P2!Total, CountedIn, P2!SumFunction, SumFunction, P2!SumFunctionOnSet,
         SumFunctionOnSet, P2!FoldFunctionOnSet, FoldFunctionOnSet, P2!MapThenFoldSet,
         MapThenFoldSet
<1> QED BY <1>1, <1>2, <1>3

LEMMA TableDomains ==
  ASSUME FlowInv
  PROVE  DOMAIN P1!Table = Buckets /\ DOMAIN P2!Table = Buckets2
<1>1. P1!Table \in [Buckets -> P1!SoundWord]
  BY P1!TableSound DEF FlowInv, P1!Working
<1>2. P2!Table \in [Buckets2 -> P2!SoundWord]
  BY P2!TableSound DEF FlowInv, P2!Working
<1> QED BY <1>1, <1>2
-----------------------------------------------------------------------------
(* The chip from its first clock on, when keys of one word are four        *)
(* entries apart.                                                          *)

LEMMA TopInit == ASSUME Init PROVE TopInv
<1>1. FlowInv
  BY LayersInit DEF FlowInv, P1!Arrivals
<1>2. /\ P1!NewestInv /\ P1!Owed = <<>> /\ P1!Writing = {} /\ P1!Table = ram1
      /\ P2!NewestInv /\ P2!Owed = <<>> /\ P2!Writing = {} /\ P2!Table = ram2
      /\ out1 = <<>> /\ out2 = <<>>
  BY LayersInit
<1>3. /\ es_reg = Zero /\ escaped = <<>> /\ es_state = "idle" /\ sent = 0 /\ recent = <<>>
      /\ before = CountedIn(ram1) + CountedIn(ram2)
  BY DEF Init
<1>4. EscapeInv
  BY <1>2, <1>3 DEF EscapeInv, P2!Arrivals, Entries
<1>5. SpacingInv
  <2>1. recent \in Seq(Entries) /\ Len(recent) = 0 /\ Spacing \in Nat
        /\ P1!LayerAssumption /\ P2!LayerAssumption /\ recent \in Seq(P1!Entries)
        /\ recent \in Seq(P2!Entries)
    BY <1>1, <1>3, SequencesTyped, SameSequences
       DEF P1!LayerAssumption, P1!EnvironmentAssumption
  <2>2. Coming = <<>>
    BY <1>2 DEF Coming
  <2>3. /\ P1!Apart(<<>>, {}) /\ P1!Remembered(<<>>, {}, recent)
        /\ P2!Apart(<<>>, {}) /\ P2!Remembered(<<>>, {}, recent)
    BY <2>1, P1!EmptySpaced, P2!EmptySpaced
  <2> QED BY <1>2, <2>1, <2>2, <2>3 DEF SpacingInv
<1>6. RefusedInv
  BY <1>2, <1>3 DEF RefusedInv
<1>7. ConservedInv
  <2>1. P1!Total(P1!Table) \in Nat /\ P2!Total(P2!Table) \in Nat
    BY <1>1, SameTotals, P1!TotalFinite, P2!TotalFinite DEF FlowInv, P1!Working, P2!Working
  <2>2. Zero \in P1!Entries
    BY DEF P1!Entries
  <2>3. P1!KeyCount(<<>>) = 0 /\ P1!KeyCount(<<Zero>>) = 0
    BY <2>2, P1!KeyCountShort
  <2>4. before = P1!Total(P1!Table) + P2!Total(P2!Table)
    BY <1>1, <1>2, <1>3, SameTotals, TableDomains
  <2>5. Len(escaped) = 0
    BY <1>3
  <2> QED BY <1>2, <1>3, <2>1, <2>3, <2>4, <2>5 DEF ConservedInv
<1> QED BY <1>1, <1>4, <1>5, <1>6, <1>7 DEF TopInv

\* A clock in which the entry e may enter, or none.
LEMMA TopClock ==
  ASSUME TopInv, NEW ins \in P1!Arrivals, Clock(ins),
         before' = before, sent' = sent + P1!KeyCount(ins)
  PROVE  FlowInv' /\ EscapeInv' /\ RefusedInv' /\ ConservedInv' /\ P1!NewestInv' /\ P2!NewestInv'
<1>1. FlowInv' /\ out2' \in P2!Arrivals
  BY FlowClock DEF TopInv
<1>2. P1!NewestInv' /\ P2!NewestInv'
  BY LayersServe DEF TopInv
<1>3. EscapeInv'
  <2>1. es_reg' \in Entries /\ escaped' \in Seq(Keys) /\ es_state' = "pharse_1"
    BY EscapeTakes DEF TopInv, Clock
  <2>2. P2!Arrivals' = P2!Arrivals
    BY DEF P2!Arrivals, P2!Entries
  <2> QED BY <1>1, <2>1, <2>2 DEF EscapeInv, Entries
<1>4. RefusedInv'
  BY RefusedClock DEF TopInv
<1>5. ConservedInv'
  BY ConservedClock DEF TopInv
<1> QED BY <1>1, <1>2, <1>3, <1>4, <1>5

LEMMA TopStep == ASSUME Spacing >= 3, TopInv, [Next]_vars PROVE TopInv'
<1>0. /\ P1!LayerAssumption /\ P2!LayerAssumption
      /\ recent \in Seq(Entries) /\ Len(recent) <= Spacing
      /\ P1!Entries = Entries /\ P2!Entries = Entries
  BY SequencesTyped, SameSequences DEF TopInv, SpacingInv
<1>a. FlowInv /\ SpacingInv
  BY DEF TopInv
<1>1. ASSUME Quiet PROVE TopInv'
  <2>1. <<>> \in P1!Arrivals /\ Clock(<<>>) /\ sent' = sent /\ recent' = recent /\ before' = before
    BY <1>1 DEF Quiet, P1!Arrivals
  <2>2. sent' = sent + P1!KeyCount(<<>>)
    <3>1. Zero \in P1!Entries
      BY DEF P1!Entries
    <3>2. P1!KeyCount(<<>>) = 0
      BY <3>1, P1!KeyCountShort
    <3> QED BY <2>1, <3>2 DEF TopInv, ConservedInv
  <2>3. PICK s \in Seq(Entries) :
          /\ P1!Owed' = s \o <<>>
          /\ P1!Apart(s, P1!Writing') /\ P1!Remembered(s, P1!Writing', recent)
    BY <1>a, <2>1, FirstLeft
  <2>4. PICK t \in Seq(Entries) :
          /\ Coming' = t \o <<>>
          /\ P2!Apart(t, P2!Writing') /\ P2!Remembered(t, P2!Writing', recent)
    BY <1>a, <2>1, SecondLeft
  <2>5. s \o <<>> = s /\ t \o <<>> = t
    BY ConcatEmptySeq
  <2>6. SpacingInv'
    BY <1>0, <2>1, <2>2, <2>3, <2>4, <2>5, TopClock DEF SpacingInv, Entries
  <2> QED BY <2>1, <2>2, <2>6, TopClock DEF TopInv
<1>2. ASSUME NEW e \in Entries, Clock(<<e>>), before' = before,
             sent' = sent + P1!KeyCount(<<e>>), recent' = L1!LastOf(Append(recent, e)),
             e # Zero => \A i \in 1 .. Len(recent) :
                           recent[i] # Zero => bucket2[recent[i]] # bucket2[e]
      PROVE  TopInv'
  <2>0. e # Zero => \A i \in 1 .. Len(recent) :
                      recent[i] # Zero => bucket[recent[i]] # bucket[e]
    <3>1. \A i \in 1 .. Len(recent) : recent[i] \in Entries
      BY <1>0
    <3> QED BY <1>2, <3>1, Coarser
  <2>1. <<e>> \in P1!Arrivals
    BY <1>0 DEF P1!Arrivals
  <2>2. PICK s \in Seq(Entries) :
          /\ P1!Owed' = s \o <<e>>
          /\ P1!Apart(s, P1!Writing') /\ P1!Remembered(s, P1!Writing', recent)
    BY <1>a, <1>2, <2>1, FirstLeft
  <2>3. PICK t \in Seq(Entries) :
          /\ Coming' = t \o <<e>>
          /\ P2!Apart(t, P2!Writing') /\ P2!Remembered(t, P2!Writing', recent)
    BY <1>a, <1>2, <2>1, SecondLeft
  <2>4. recent' = P1!LastOf(Append(recent, e)) /\ recent' = P2!LastOf(Append(recent, e))
    BY <1>2 DEF L1!LastOf, P1!LastOf, P2!LastOf
  <2>5. /\ P1!Apart(s \o <<e>>, P1!Writing') /\ P1!Remembered(s \o <<e>>, P1!Writing', recent')
        /\ recent' \in Seq(Entries) /\ Len(recent') <= Spacing
    <3>1. P1!Apart(s \o <<e>>, P1!Writing') /\ P1!Remembered(s \o <<e>>, P1!Writing', recent')
      BY <1>0, <1>2, <2>0, <2>2, <2>4, P1!ArrivesSpaced
    <3>2. recent \in Seq(P1!Entries) /\ e \in P1!Entries /\ Spacing > 0
      BY <1>0, <1>2 DEF P1!LayerAssumption, P1!EnvironmentAssumption
    <3>3. recent' \in Seq(P1!Entries) /\ Len(recent') <= Spacing
      BY <1>0, <2>4, <3>2, P1!LastOfFacts
    <3> QED BY <1>0, <3>1, <3>3
  <2>6. P2!Apart(t \o <<e>>, P2!Writing') /\ P2!Remembered(t \o <<e>>, P2!Writing', recent')
    BY <1>0, <1>2, <2>3, <2>4, P2!ArrivesSpaced
  <2>7. SpacingInv'
    BY <1>2, <2>1, <2>2, <2>3, <2>5, <2>6, TopClock DEF SpacingInv, Entries
  <2> QED BY <1>2, <2>1, <2>7, TopClock DEF TopInv
<1>3. ASSUME SendZero PROVE TopInv'
  <2>1. Zero \in Entries
    BY DEF Entries
  <2>2. P1!KeyCount(<<Zero>>) = 0
    BY <1>0, <2>1, P1!KeyCountShort
  <2>3. sent' = sent + P1!KeyCount(<<Zero>>)
    BY <1>3, <2>2 DEF SendZero, TopInv, ConservedInv
  <2> QED BY <1>2, <1>3, <2>1, <2>3 DEF SendZero
<1>4. ASSUME NEW k \in Keys, SendKey(k) PROVE TopInv'
  <2>1. k \in Entries /\ k # Zero
    BY <1>0 DEF Entries, P1!LayerAssumption, P1!EntryAssumption
  <2>2. P1!KeyCount(<<k>>) = 1
    BY <1>0, <2>1, P1!KeyCountShort
  <2> QED BY <1>2, <1>4, <2>1, <2>2 DEF SendKey, L2!Sendable
<1>5. CASE UNCHANGED vars
  <2>1. UNCHANGED P1!clocked /\ UNCHANGED P2!clocked
        /\ UNCHANGED <<es_state, es_reg, escaped, sent, recent, pauses, before>>
    BY <1>5 DEF vars, L1!clocked, P1!clocked, L2!clocked, P2!clocked
  <2>2. out1' = out1 /\ out2' = out2
    BY <2>1 DEF P1!clocked, P2!clocked
  <2>3. /\ P1!Working' /\ P1!NewestInv' = P1!NewestInv /\ P1!Owed' = P1!Owed
        /\ P1!Writing' = P1!Writing /\ P1!Table' = P1!Table
        /\ P2!Working' /\ P2!NewestInv' = P2!NewestInv /\ P2!Owed' = P2!Owed
        /\ P2!Writing' = P2!Writing /\ P2!Table' = P2!Table
    BY <1>a, <2>1, P1!LayerStutter, P2!LayerStutter DEF FlowInv
  <2>4. Coming' = Coming
    BY <2>2, <2>3 DEF Coming
  <2>5. FlowInv' /\ SpacingInv'
    BY <1>a, <2>1, <2>2, <2>3, <2>4 DEF FlowInv, SpacingInv
  <2>6. EscapeInv' /\ RefusedInv' /\ ConservedInv'
    <3>1. Refused1' = Refused1 /\ Refused2' = Refused2
      BY <2>3 DEF Refused1, Refused2, P1!Refuses, P2!Refuses, bucket2
    <3> QED BY <2>1, <2>2, <2>3, <3>1 DEF TopInv, EscapeInv, RefusedInv, ConservedInv
  <2> QED BY <2>5, <2>6 DEF TopInv
<1> QED BY <1>1, <1>3, <1>4, <1>5 DEF Next, Send

LEMMA TopAlways == ASSUME Spacing >= 3 PROVE Spec => []TopInv
<1>1. Init => TopInv
  BY TopInit
<1>2. TopInv /\ [Next]_vars => TopInv'
  BY TopStep
<1> QED BY <1>1, <1>2, PTL DEF Spec

\* With keys that share a word in either layer four entries apart, no key is handed on
\* that the newest word of its bucket could take (the test of CS_Bucket_1.v, in the
\* clock of the decision and ever after), and only keys refused twice reach ES_Bucket.v.
THEOREM EscapesAreJustifiedAlways ==
  ASSUME Spacing >= 3 PROVE Spec => []EscapesAreJustified
<1>1. ASSUME TopInv PROVE EscapesAreJustified
  <2> DEFINE last == IF es_state = "idle" THEN <<>> ELSE <<es_reg>>
             Z1 == Refused1 \cup {Zero}  Z2 == Refused2 \cup {Zero}
             second == escaped \o BehindSecond  first == escaped \o BehindFirst
  <2>1. /\ last \in Seq(Z1) /\ last \in Seq(Z2) /\ out2 \in Seq(Z1) /\ out2 \in Seq(Z2)
        /\ P2!Owed \in Seq(Z1) /\ out1 \in Seq(Z1)
        /\ escaped \in Seq(Z1) /\ escaped \in Seq(Z2)
    <3>1. Seq(Refused1) \subseteq Seq(Z1) /\ Seq(Refused2) \subseteq Seq(Z2)
      BY SeqGrows
    <3>2. /\ out2 \in Seq(Z1) /\ out2 \in Seq(Z2) /\ es_reg \in Z1 /\ es_reg \in Z2
          /\ P2!Owed \in Seq(Z1) /\ out1 \in Seq(Z1)
          /\ escaped \in Seq(Refused1) /\ escaped \in Seq(Refused2)
      BY <1>1 DEF TopInv, RefusedInv
    <3> HIDE DEF Z1, Z2
    <3>3. last \in Seq(Z1) /\ last \in Seq(Z2)
      BY <3>2
    <3> QED BY <3>1, <3>2, <3>3
  <2> HIDE DEF last, Z1, Z2
  <2>2. BehindSecond \in Seq(Z1) /\ BehindSecond \in Seq(Z2)
    BY <2>1, ConcatProperties DEF BehindSecond, last
  <2>3. BehindFirst \in Seq(Z1)
    <3>1. BehindFirst = (BehindSecond \o P2!Owed) \o out1
      BY SameLayer2 DEF BehindFirst
    <3>2. BehindSecond \o P2!Owed \in Seq(Z1)
      BY <2>1, <2>2, ConcatProperties
    <3> QED BY <2>1, <3>1, <3>2, ConcatProperties
  <2>4. first \in Seq(Z1) /\ second \in Seq(Z2)
    BY <2>1, <2>2, <2>3, ConcatProperties
  <2> HIDE DEF first, second
  <2>5. ASSUME NEW k \in Range(first) \ {Zero} PROVE L1!Refuses(L1!Table[bucket[k]], k)
    <3>1. k \in Z1
      BY <2>4, <2>5 DEF Range
    <3>2. k \in Refused1
      BY <2>5, <3>1 DEF Z1
    <3> QED BY <3>2, SameLayer1 DEF Refused1, P1!Refuses, L1!Refuses
  <2>6. ASSUME NEW k \in Range(second) \ {Zero} PROVE L2!Refuses(L2!Table[bucket2[k]], k)
    <3>1. k \in Z2
      BY <2>4, <2>6 DEF Range
    <3>2. k \in Refused2
      BY <2>6, <3>1 DEF Z2
    <3> QED BY <3>2, SameLayer2 DEF Refused2, P2!Refuses, L2!Refuses
  <2> QED BY <2>5, <2>6 DEF EscapesAreJustified, first, second
<1> QED BY <1>1, TopAlways, PTL

\* The keys of the pipe are those of its parts.
LEMMA PipeParts ==
  ASSUME FlowInv, EscapeInv
  PROVE  Cardinality(KeysIn(InThePipe))
           = P1!KeyCount(<<es_reg>>) + (P1!KeyCount(out2) + (P1!KeyCount(P2!Owed)
               + (P1!KeyCount(out1) + P1!KeyCount(P1!Owed))))
<1> DEFINE last == IF es_state = "idle" THEN <<>> ELSE <<es_reg>>
           a == out2  b == P2!Owed  c == out1  d == P1!Owed
<1>1. /\ P1!Entries = Entries /\ b \in Seq(P1!Entries) /\ c \in Seq(P1!Entries)
      /\ d \in Seq(P1!Entries) /\ P1!LayerAssumption
  BY SequencesTyped, SameSequences
<1>2. a \in Seq(P1!Entries) /\ es_reg \in P1!Entries
  BY SameSequences, P2!ArrivalFacts DEF EscapeInv
<1>3. last \in Seq(P1!Entries) /\ Zero \in P1!Entries
  <2>1. Zero \in P1!Entries
    BY DEF P1!Entries
  <2>2. <<>> \in Seq(P1!Entries) /\ <<es_reg>> \in Seq(P1!Entries)
    BY <1>2
  <2> QED BY <2>1, <2>2
<1>4. P1!KeyCount(last) = P1!KeyCount(<<es_reg>>)
  BY <1>2, <1>3, P1!KeyCountShort DEF EscapeInv
<1>5. InThePipe = (((last \o a) \o b) \o c) \o d
  BY SameLayer1, SameLayer2 DEF InThePipe, BehindFirst, BehindSecond
<1>6. Cardinality(KeysIn(InThePipe)) = P1!KeyCount(InThePipe)
  BY DEF P1!KeyCount, KeysIn, P1!Cardinality, Cardinality
<1> HIDE DEF last, a, b, c, d
<1>7. last \o a \in Seq(P1!Entries) /\ P1!KeyCount(last \o a) = P1!KeyCount(last) + P1!KeyCount(a)
  BY <1>2, <1>3, P1!KeyCountConcat, ConcatProperties
<1>8. /\ (last \o a) \o b \in Seq(P1!Entries)
      /\ P1!KeyCount((last \o a) \o b) = P1!KeyCount(last \o a) + P1!KeyCount(b)
  BY <1>1, <1>7, P1!KeyCountConcat, ConcatProperties
<1>9. /\ ((last \o a) \o b) \o c \in Seq(P1!Entries)
      /\ P1!KeyCount(((last \o a) \o b) \o c) = P1!KeyCount((last \o a) \o b) + P1!KeyCount(c)
  BY <1>1, <1>8, P1!KeyCountConcat, ConcatProperties
<1>10. P1!KeyCount((((last \o a) \o b) \o c) \o d)
         = P1!KeyCount(((last \o a) \o b) \o c) + P1!KeyCount(d)
  BY <1>1, <1>9, P1!KeyCountConcat
<1>11. /\ P1!KeyCount(last) \in Nat /\ P1!KeyCount(a) \in Nat /\ P1!KeyCount(b) \in Nat
       /\ P1!KeyCount(c) \in Nat /\ P1!KeyCount(d) \in Nat
  BY <1>1, <1>2, <1>3, P1!KeyCountFinite
<1> DEFINE A == P1!KeyCount(a)  B == P1!KeyCount(b)  C == P1!KeyCount(c)  D == P1!KeyCount(d)
           L == P1!KeyCount(last)
<1>12. A \in Nat /\ B \in Nat /\ C \in Nat /\ D \in Nat /\ L \in Nat
  BY <1>11
<1>13. P1!KeyCount(InThePipe) = (((L + A) + B) + C) + D
  BY <1>5, <1>7, <1>8, <1>9, <1>10
<1> HIDE DEF A, B, C, D, L
<1>14. (((L + A) + B) + C) + D = L + (A + (B + (C + D)))
  BY <1>12
<1> QED BY <1>4, <1>6, <1>13, <1>14 DEF A, B, C, D, L, a, b, c, d

\* Conserved: with keys that share a word in either layer four entries apart, the FIFOs and registers of
\* CS_Bucket_1.v and the register of ES_Bucket.v lose no key and repeat none.
THEOREM ConservedAlways == ASSUME Spacing >= 3 PROVE Spec => []Conserved
<1>1. ASSUME TopInv PROVE Conserved
  <2> DEFINE A == P1!KeyCount(out2)  B == P1!KeyCount(P2!Owed)  C == P1!KeyCount(out1)
             D == P1!KeyCount(P1!Owed)  E == P1!KeyCount(<<es_reg>>)
             T == CountedIn(P1!Table)  U == CountedIn(P2!Table)
             n == Len(escaped)  pipe == Cardinality(KeysIn(InThePipe))
  <2>1. pipe = E + (A + (B + (C + D)))
    BY <1>1, PipeParts DEF TopInv
  <2>2. A \in Nat /\ B \in Nat /\ C \in Nat /\ D \in Nat /\ E \in Nat
    <3>1. /\ P1!Entries = Entries /\ P2!Owed \in Seq(P1!Entries) /\ out1 \in Seq(P1!Entries)
          /\ P1!Owed \in Seq(P1!Entries)
      BY <1>1, SequencesTyped, SameSequences DEF TopInv
    <3>2. out2 \in Seq(P1!Entries) /\ es_reg \in P1!Entries
      BY <1>1, SameSequences, P2!ArrivalFacts DEF TopInv, EscapeInv
    <3>3. <<es_reg>> \in Seq(P1!Entries)
      BY <3>2
    <3> QED BY <3>1, <3>2, <3>3, P1!KeyCountFinite
  <2>3. T \in Nat /\ U \in Nat /\ n \in Nat
    <3>1. P1!Total(P1!Table) \in Nat /\ P2!Total(P2!Table) \in Nat
      BY <1>1, SameTotals, P1!TotalFinite, P2!TotalFinite
         DEF TopInv, FlowInv, P1!Working, P2!Working
    <3> QED BY <1>1, <3>1, SameTotals, TableDomains DEF TopInv, EscapeInv
  <2>4. before + sent = T + U + n + D + C + B + A + E
    BY <1>1, SameTotals, TableDomains DEF TopInv, ConservedInv
  <2>5. Conserved = (before + sent = T + U + n + pipe)
    BY SameLayer1, SameLayer2 DEF Conserved
  <2> HIDE DEF A, B, C, D, E, T, U, n, pipe
  <2>6. T + U + n + D + C + B + A + E = T + U + n + (E + (A + (B + (C + D))))
    BY <2>2, <2>3
  <2> QED BY <2>1, <2>4, <2>5, <2>6
<1> QED BY <1>1, TopAlways, PTL
=============================================================================
