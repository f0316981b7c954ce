--------------------------- MODULE CSBucketProofs ---------------------------
(***************************************************************************)
(* One FPGA layer, clock by clock, for any keys, any hash and threshold.   *)
(* At any spacing of the entries the words stay sound, and the FIFO never  *)
(* fills.  With keys of one bucket four entries apart, every key is counted*)
(* and the layer implements CSLayer.                                       *)
(***************************************************************************)
EXTENDS CSBucket, NumberLemmas, SequenceTheorems

\* What the registers of the pipe may hold.
Shown == Entries \cup {Stale}

\* A word that some election can have produced.
SoundWord ==
  {w \in [total : Nat, no : Nat, key : Shown] :
     /\ w.no <= ErrorThreshold
     /\ 2 * w.no <= w.total
     /\ (w.total = 0) <=> (w.key = Zero)}

\* The words are sound wherever they are: in the RAM, on their way out of it, on
\* their way into it.  A word that overtakes another one is sound as well.
WordsInv ==
  /\ ram \in [Buckets -> SoundWord]
  /\ douta \in SoundWord
  /\ ram_out_a \in SoundWord
  /\ port_b \in [wren : BOOLEAN, addr : Buckets, data : SoundWord]

\* The entries on their way are entries, so the addresses are addresses.
EntriesInv ==
  /\ fifo \in Seq(Entries)
  /\ q \in Shown
  /\ reg \in [1 .. 3 -> Shown]
  /\ port_a \in [rden : BOOLEAN, addr : Buckets]

LayerInv == WordsInv /\ EntriesInv

\* Counting a key in a sound word that keeps it gives a sound word.
LEMMA CountSound ==
  ASSUME LayerAssumption, NEW w \in SoundWord, NEW e \in Shown, Counted(w, e)
  PROVE  Count(w, e) \in SoundWord
<1>1. /\ w \in [total : Nat, no : Nat, key : Shown]
      /\ w.no <= ErrorThreshold /\ 2 * w.no <= w.total
      /\ (w.total = 0) <=> (w.key = Zero)
  BY DEF SoundWord
<1>2. w.total \in Nat /\ w.no \in Nat /\ w.key \in Shown /\ e # Zero
  BY <1>1 DEF Counted
<1>t. ErrorThreshold \in Nat
  BY DEF LayerAssumption, ThresholdAssumption
<1>3. CASE Contested(w)
  <2>0. Count(w, e) = [w EXCEPT !.total = w.total + 1, !.key = e]
    BY <1>3 DEF Count
  <2>1. Count(w, e) = [total |-> w.total + 1, no |-> w.no, key |-> e]
    BY <1>1, <2>0
  <2>2. /\ Count(w, e) \in [total : Nat, no : Nat, key : Shown]
        /\ Count(w, e).total = w.total + 1 /\ Count(w, e).no = w.no
        /\ Count(w, e).key = e
    BY <1>1, <1>2, <2>1
  <2>3. /\ Count(w, e).no <= ErrorThreshold
        /\ 2 * Count(w, e).no <= Count(w, e).total
        /\ Count(w, e).total # 0 /\ Count(w, e).key # Zero
    BY <1>1, <1>2, <2>2, <1>t
  <2> QED BY <2>2, <2>3 DEF SoundWord
<1>4. CASE ~ Contested(w) /\ w.key # e
  <2>0. Count(w, e) = [w EXCEPT !.total = w.total + 1, !.no = w.no + 1]
    BY <1>4 DEF Count
  <2>1. Count(w, e) = [total |-> w.total + 1, no |-> w.no + 1, key |-> w.key]
    BY <1>1, <2>0
  <2>2. /\ Count(w, e) \in [total : Nat, no : Nat, key : Shown]
        /\ Count(w, e).total = w.total + 1 /\ Count(w, e).no = w.no + 1
        /\ Count(w, e).key = w.key
    BY <1>1, <1>2, <2>1
  <2>3. w.no < ErrorThreshold /\ w.no + w.no < w.total
    BY <1>4, <1>2 DEF Counted, Keeps, Contested
  <2>4. w.total # 0 /\ w.key # Zero
    BY <1>1, <1>2, <2>3
  <2>5. /\ Count(w, e).no <= ErrorThreshold
        /\ 2 * Count(w, e).no <= Count(w, e).total
        /\ Count(w, e).total # 0 /\ Count(w, e).key # Zero
    BY <1>2, <2>2, <2>3, <2>4, <1>t
  <2> QED BY <2>2, <2>5 DEF SoundWord
<1>5. CASE ~ Contested(w) /\ w.key = e
  <2>0. Count(w, e) = [w EXCEPT !.total = w.total + 1]
    BY <1>5 DEF Count
  <2>1. Count(w, e) = [total |-> w.total + 1, no |-> w.no, key |-> w.key]
    BY <1>1, <2>0
  <2>2. /\ Count(w, e) \in [total : Nat, no : Nat, key : Shown]
        /\ Count(w, e).total = w.total + 1 /\ Count(w, e).no = w.no
        /\ Count(w, e).key = e
    BY <1>1, <1>2, <1>5, <2>1
  <2>3. /\ Count(w, e).no <= ErrorThreshold
        /\ 2 * Count(w, e).no <= Count(w, e).total
        /\ Count(w, e).total # 0 /\ Count(w, e).key # Zero
    BY <1>1, <1>2, <2>2, <1>t
  <2> QED BY <2>2, <2>3 DEF SoundWord
<1> QED BY <1>3, <1>4, <1>5

LEMMA ZeroWordSound == ASSUME LayerAssumption PROVE ZeroWord \in SoundWord
<1>1. ErrorThreshold \in Nat
  BY DEF LayerAssumption, ThresholdAssumption
<1> QED BY <1>1 DEF SoundWord, ZeroWord, Shown, Entries

\* The registers before the first clock.
LEMMA LayerInit == LayerAssumption /\ CSInit => LayerInv
<1> SUFFICES ASSUME LayerAssumption, CSInit PROVE LayerInv
  OBVIOUS
<1>1. ZeroWord \in SoundWord
  BY ZeroWordSound
<1>2. Zero \in Shown /\ Stale \in Shown /\ bucket[Zero] \in Buckets
  BY DEF LayerAssumption, EntryAssumption, Shown, Entries
<1>3. WordsInv
  BY <1>1, <1>2 DEF CSInit, InitLayer, InitLayerAt, WordsInv, NoWrite
<1>4. reg \in [1 .. 3 -> Shown]
  BY <1>2 DEF CSInit, InitLayer, InitLayerAt
<1>5. EntriesInv
  BY <1>2, <1>4 DEF CSInit, InitLayer, InitLayerAt, EntriesInv, NoRead
<1> QED BY <1>3, <1>5 DEF LayerInv

\* A clock of the RAM moves sound words only.
LEMMA RamClockSound ==
  ASSUME LayerAssumption, LayerInv, RamClock
  PROVE  ram' \in [Buckets -> SoundWord] /\ douta' \in SoundWord /\ ram_out_a' \in SoundWord
<1>1. /\ ram \in [Buckets -> SoundWord] /\ douta \in SoundWord
      /\ port_b.addr \in Buckets /\ port_b.data \in SoundWord
      /\ port_a.addr \in Buckets
  BY DEF LayerInv, WordsInv, EntriesInv
<1>2. ram' \in [Buckets -> SoundWord]
  BY <1>1 DEF RamClock
<1>3. ReadResults \subseteq SoundWord
  BY <1>1 DEF ReadResults
<1>4. douta' \in SoundWord
  BY <1>1, <1>3 DEF RamClock
<1> QED BY <1>1, <1>2, <1>4 DEF RamClock

\* A clock of the FIFO moves entries only.
LEMMA FifoClockSound ==
  ASSUME LayerAssumption, LayerInv, NEW ins \in Seq(Entries), FifoClock(ins)
  PROVE  fifo' \in Seq(Entries) /\ q' \in Shown
<1> DEFINE rest == IF fsm.rd /\ fifo # <<>> THEN Tail(fifo) ELSE fifo
           added == IF Overflows(ins) THEN <<>> ELSE ins
<1>1. fifo \in Seq(Entries) /\ q \in Shown
  BY DEF LayerInv, EntriesInv
<1>2. rest \in Seq(Entries) /\ added \in Seq(Entries)
  BY <1>1
<1>3. fifo' = rest \o added
      /\ q' = IF fifo = <<>> THEN q ELSE IF rest = <<>> THEN Stale ELSE Head(rest)
  BY DEF FifoClock
<1> HIDE DEF rest, added
<1>4. rest # <<>> => Head(rest) \in Entries
  BY <1>2
<1>5. fifo' \in Seq(Entries)
  BY <1>2, <1>3
<1> QED BY <1>1, <1>3, <1>4, <1>5 DEF Shown

\* The two ways the registers in front of the decision move.
LEMMA FetchSound ==
  ASSUME LayerAssumption, LayerInv, Fetch \/ NoFetch
  PROVE  reg' \in [1 .. 3 -> Shown] /\ port_a' \in [rden : BOOLEAN, addr : Buckets]
<1>1. q \in Shown /\ Zero \in Shown /\ reg \in [1 .. 3 -> Shown]
  BY DEF LayerInv, EntriesInv, Shown, Entries
<1>2. reg[1] \in Shown /\ reg[2] \in Shown
  BY <1>1
<1>3. bucket[q] \in Buckets /\ bucket[Zero] \in Buckets
  BY <1>1 DEF LayerAssumption, EntryAssumption, Shown
<1>4. \A e \in Shown : <<e, reg[1], reg[2]>> \in [1 .. 3 -> Shown]
  BY <1>2
<1>5. reg' \in [1 .. 3 -> Shown]
  BY <1>1, <1>4 DEF Fetch, NoFetch, ShiftIn
<1>a. TRUE \in BOOLEAN /\ FALSE \in BOOLEAN
  OBVIOUS
<1>b. \A a \in Buckets : /\ [rden |-> TRUE, addr |-> a] \in [rden : BOOLEAN, addr : Buckets]
                        /\ [rden |-> FALSE, addr |-> a] \in [rden : BOOLEAN, addr : Buckets]
  BY <1>a
<1>6. port_a' \in [rden : BOOLEAN, addr : Buckets]
  BY <1>3, <1>b DEF Fetch, NoFetch, NoRead
<1> QED BY <1>5, <1>6

\* A decision sends a sound word to the RAM, or none.
LEMMA DecideSound ==
  ASSUME LayerAssumption, LayerInv, Decide \/ port_b' = NoWrite \/ UNCHANGED port_b
  PROVE  port_b' \in [wren : BOOLEAN, addr : Buckets, data : SoundWord]
<1>1. /\ ram_out_a \in SoundWord
      /\ port_b \in [wren : BOOLEAN, addr : Buckets, data : SoundWord]
      /\ reg[3] \in Shown
  BY DEF LayerInv, WordsInv, EntriesInv
<1>2. bucket[reg[3]] \in Buckets /\ bucket[Zero] \in Buckets
  BY <1>1 DEF LayerAssumption, EntryAssumption, Shown, Entries
<1>3. NoWrite \in [wren : BOOLEAN, addr : Buckets, data : SoundWord]
  BY <1>2, ZeroWordSound DEF NoWrite
<1>4. CASE Decide /\ Counted(ram_out_a, reg[3])
  <2>1. Count(ram_out_a, reg[3]) \in SoundWord
    BY <1>1, <1>4, CountSound
  <2>2. port_b' = [wren |-> TRUE, addr |-> bucket[reg[3]],
                   data |-> Count(ram_out_a, reg[3])]
    BY <1>4 DEF Decide
  <2> QED BY <1>2, <2>1, <2>2
<1>5. CASE Decide /\ ~ Counted(ram_out_a, reg[3])
  BY <1>3, <1>5 DEF Decide
<1>6. CASE port_b' = NoWrite \/ UNCHANGED port_b
  BY <1>1, <1>3, <1>6
<1> QED BY <1>4, <1>5, <1>6

\* One clock, in whatever state the machine is.
LEMMA TickSound ==
  ASSUME LayerAssumption, LayerInv, NEW ins \in Seq(Entries), NEW alf, Tick(ins, alf)
  PROVE  LayerInv'
<1>1. Fetch \/ NoFetch
  BY DEF Tick, Idle, Pharse, Pharse4, Wait1, Wait2, Read
<1>2. Decide \/ port_b' = NoWrite \/ UNCHANGED port_b
  BY DEF Tick, Idle, Pharse, Pharse4, Wait1, Wait2, Read
<1>3. FifoClock(ins) /\ RamClock
  BY DEF Tick
<1>4. fifo' \in Seq(Entries) /\ q' \in Shown
  BY <1>3, FifoClockSound
<1>5. ram' \in [Buckets -> SoundWord] /\ douta' \in SoundWord /\ ram_out_a' \in SoundWord
  BY <1>3, RamClockSound
<1>6. reg' \in [1 .. 3 -> Shown] /\ port_a' \in [rden : BOOLEAN, addr : Buckets]
  BY <1>1, FetchSound
<1>7. port_b' \in [wren : BOOLEAN, addr : Buckets, data : SoundWord]
  BY <1>2, DecideSound
<1> QED BY <1>4, <1>5, <1>6, <1>7 DEF LayerInv, WordsInv, EntriesInv

\* One step of the layer with its environment.
LEMMA LayerStep == LayerAssumption /\ LayerInv /\ [CSNext]_vars => LayerInv'
<1> SUFFICES ASSUME LayerAssumption, LayerInv, [CSNext]_vars PROVE LayerInv'
  OBVIOUS
<1>1. CASE Quiet
  <2>1. PICK alf \in InKeyAlf : Tick(<<>>, alf)
    BY <1>1 DEF Quiet, TickIn
  <2> QED BY <2>1, TickSound, <<>> \in Seq(Entries)
<1>2. CASE SendZero
  <2>1. PICK alf \in InKeyAlf : Tick(<<Zero>>, alf)
    BY <1>2 DEF SendZero, TickIn
  <2>2. <<Zero>> \in Seq(Entries)
    BY DEF Entries
  <2> QED BY <2>1, <2>2, TickSound
<1>3. ASSUME NEW k \in Keys, SendKey(k) PROVE LayerInv'
  <2>1. PICK alf \in InKeyAlf : Tick(<<k>>, alf)
    BY <1>3 DEF SendKey, TickIn
  <2>2. <<k>> \in Seq(Entries)
    BY DEF Entries
  <2> QED BY <2>1, <2>2, TickSound
<1>4. CASE UNCHANGED vars
  BY <1>4 DEF vars, clocked, LayerInv, WordsInv, EntriesInv
<1> QED BY <1>1, <1>2, <1>3, <1>4 DEF CSNext, Send

\* Whatever the entries and however close together, every word in the RAM is one
\* that some election produced (WordsSound).
THEOREM WordsSoundAlways == ASSUME LayerAssumption PROVE CSSpec => []WordsSound
<1>1. LayerInv => WordsSound
  BY DEF LayerInv, WordsInv, SoundWord, WordsSound
<1> QED BY <1>1, LayerInit, LayerStep, PTL DEF CSSpec
-----------------------------------------------------------------------------
(* The order of the entries: what is under way, its words and its spacing. *)

Bursts == {"pharse_1", "pharse_2", "pharse_3", "pharse_4"}
Arrivals == {<<>>} \cup {<<e>> : e \in Entries}

\* Everything the layer received and did not serve.
Owed == UnderWay \o fifo

\* The address of the word that is being written.
Writing == IF port_b.wren THEN {port_b.addr} ELSE {}

\* The registers of fetched keys that are not decided yet.
Filled(i) ==
  \/ fsm.state \in {"pharse_2", "wait_1"} /\ i = 1
  \/ fsm.state = "pharse_3" /\ i <= 2
  \/ fsm.state = "pharse_4"
  \/ fsm.state = "wait_2" /\ i \in {2, 3 - fsm.count}
  \/ fsm.state = "read" /\ i > 3 - fsm.count

\* How many keys a burst fetched, and how many of the last ones are not decided.
CountInv ==
  /\ fsm \in [state : States, rd : BOOLEAN, count : Nat]
  /\ fsm.rd <=> fsm.state \in Bursts
  /\ fsm.state \in {"pharse_1", "wait_1"} => fsm.count = 1
  /\ fsm.state = "pharse_2" => fsm.count = 2
  /\ fsm.state = "pharse_3" => fsm.count = 3
  /\ fsm.state = "pharse_4" => fsm.count = 4
  /\ fsm.state = "wait_2" => fsm.count \in {1, 2}
  /\ fsm.state = "read" => fsm.count \in {1, 2, 3}

\* What arrives in the pause between two bursts, at one entry a clock.
LengthInv ==
  /\ empty_reg \in BOOLEAN /\ (empty_reg => Len(fifo) <= 1)
  /\ fsm.state = "idle" => Len(fifo) <= 5
  /\ fsm.state \in Bursts => Len(fifo) <= 6
  /\ fsm.state = "wait_1" => Len(fifo) <= 2
  /\ fsm.state = "wait_2" => Len(fifo) <= 4 - fsm.count
  /\ fsm.state = "read" => Len(fifo) <= 5 - fsm.count

\* A burst reads the head of a queue that is not empty, and nothing is written or
\* shown before the first word of a burst has arrived.
BurstInv ==
  /\ fsm.state \in Bursts => fifo # <<>> /\ q = Head(fifo)
  /\ \A i \in 1 .. 3 : Filled(i) => reg[i] \in Entries
  /\ fsm.state \in {"pharse_1", "pharse_2", "pharse_3", "wait_1", "wait_2"}
       => port_b = NoWrite /\ out = <<>>

\* The word of a key is the newest one of its bucket, wherever it is on its way.
NewestInv ==
  /\ Filled(3) /\ reg[3] # Zero => ram_out_a = Table[bucket[reg[3]]]
  /\ Filled(2) /\ reg[2] # Zero => douta = Table[bucket[reg[2]]]
  /\ Filled(1) => port_a.rden /\ port_a.addr = bucket[reg[1]]

\* Keys of one bucket are four entries apart in s, B being the bucket that the
\* entry in front of s was counted in.
Apart(s, B) ==
  /\ \A i, j \in 1 .. Len(s) :
       i < j /\ j <= i + 3 /\ s[i] # Zero /\ s[j] # Zero => bucket[s[i]] # bucket[s[j]]
  /\ \A i \in 1 .. Len(s) : i <= 3 /\ s[i] # Zero => bucket[s[i]] \notin B

\* The environment remembers the last entries of s, and the one in front of it.
Remembered(s, B, r) ==
  /\ \A i \in 1 .. Len(s) :
       Len(s) - i < Spacing /\ s[i] # Zero =>
         Len(s) - i < Len(r) /\ r[Len(r) - (Len(s) - i)] = s[i]
  /\ Len(s) < Spacing /\ B # {} =>
       /\ Len(s) < Len(r) /\ r[Len(r) - Len(s)] # Zero
       /\ B = {bucket[r[Len(r) - Len(s)]]}

PipeInv == CountInv /\ LengthInv /\ BurstInv
SpacingInv ==
  /\ recent \in Seq(Entries) /\ Len(recent) <= Spacing
  /\ Apart(Owed, Writing) /\ Remembered(Owed, Writing, recent)
-----------------------------------------------------------------------------
(* The spacing of a sequence of entries that is served and added to.       *)

\* Where the entries of a sequence are after another one was put behind it.
LEMMA Behind ==
  ASSUME NEW s \in Seq(Entries), NEW e \in Entries
  PROVE  /\ s \o <<e>> \in Seq(Entries) /\ Len(s \o <<e>>) = Len(s) + 1
         /\ \A i \in 1 .. Len(s) : (s \o <<e>>)[i] = s[i]
         /\ (s \o <<e>>)[Len(s) + 1] = e
  OBVIOUS

\* Where the entries of a sequence are after the first one was taken.
LEMMA Ahead ==
  ASSUME NEW s \in Seq(Entries), s # <<>>
  PROVE  /\ Tail(s) \in Seq(Entries) /\ Len(Tail(s)) = Len(s) - 1
         /\ \A i \in 1 .. Len(s) - 1 : Tail(s)[i] = s[i + 1]
         /\ Head(s) = s[1] /\ Head(s) \in Entries /\ Len(s) \in Nat \ {0}
  OBVIOUS

\* The rest of a sequence is spaced when its first entry was served.
LEMMA ServeKeepsApart ==
  ASSUME NEW s \in Seq(Entries), s # <<>>, NEW B, Apart(s, B),
         NEW C, C \subseteq {bucket[Head(s)]}, C # {} => Head(s) # Zero
  PROVE  Apart(Tail(s), C)
<1> DEFINE t == Tail(s)  n == Len(s)
<1>1. /\ Len(t) = n - 1 /\ n \in Nat \ {0} /\ Head(s) = s[1]
      /\ \A i \in 1 .. n - 1 : t[i] = s[i + 1]
  BY Ahead
<1>2. ASSUME NEW i \in 1 .. Len(t), NEW j \in 1 .. Len(t),
             i < j, j <= i + 3, t[i] # Zero, t[j] # Zero
      PROVE  bucket[t[i]] # bucket[t[j]]
  <2>1. /\ i + 1 \in 1 .. n /\ j + 1 \in 1 .. n /\ i + 1 < j + 1 /\ j + 1 <= (i + 1) + 3
        /\ t[i] = s[i + 1] /\ t[j] = s[j + 1]
    BY <1>1, <1>2
  <2> QED BY <1>2, <2>1 DEF Apart
<1>3. ASSUME NEW i \in 1 .. Len(t), i <= 3, t[i] # Zero, bucket[t[i]] \in C
      PROVE  FALSE
  <2>1. /\ 1 \in 1 .. n /\ i + 1 \in 1 .. n /\ 1 < i + 1 /\ i + 1 <= 1 + 3
        /\ t[i] = s[i + 1]
    BY <1>1, <1>3
  <2>2. s[1] # Zero /\ bucket[t[i]] = bucket[s[1]]
    BY <1>1, <1>3
  <2> QED BY <1>3, <2>1, <2>2 DEF Apart
<1> QED BY <1>2, <1>3 DEF Apart

\* The environment remembers the entry that was served.
LEMMA ServeKeepsRemembered ==
  ASSUME NEW s \in Seq(Entries), s # <<>>, NEW B, NEW r \in Seq(Entries),
         Remembered(s, B, r),
         NEW C, C \subseteq {bucket[Head(s)]}, C # {} => Head(s) # Zero
  PROVE  Remembered(Tail(s), C, r)
<1> DEFINE t == Tail(s)  n == Len(s)
<1>1. /\ Len(t) = n - 1 /\ n \in Nat \ {0} /\ Head(s) = s[1]
      /\ \A i \in 1 .. n - 1 : t[i] = s[i + 1]
  BY Ahead
<1>2. ASSUME NEW i \in 1 .. Len(t), Len(t) - i < Spacing, t[i] # Zero
      PROVE  Len(t) - i < Len(r) /\ r[Len(r) - (Len(t) - i)] = t[i]
  <2>1. i + 1 \in 1 .. n /\ n - (i + 1) = Len(t) - i /\ t[i] = s[i + 1]
    BY <1>1
  <2> HIDE DEF t
  <2> QED BY <1>2, <2>1 DEF Remembered
<1>3. ASSUME Len(t) < Spacing, C # {}
      PROVE  /\ Len(t) < Len(r) /\ r[Len(r) - Len(t)] # Zero
             /\ C = {bucket[r[Len(r) - Len(t)]]}
  <2>1. 1 \in 1 .. n /\ n - 1 = Len(t) /\ s[1] # Zero
    BY <1>1, <1>3
  <2>2. Len(t) < Len(r) /\ r[Len(r) - Len(t)] = s[1]
    BY <1>3, <2>1 DEF Remembered
  <2> QED BY <1>1, <1>3, <2>1, <2>2
<1> QED BY <1>2, <1>3 DEF Remembered

\* What the environment remembers after it sent an entry.
LEMMA LastOfFacts ==
  ASSUME LayerAssumption, NEW r \in Seq(Entries), Len(r) <= Spacing, NEW e \in Entries
  PROVE  /\ LastOf(Append(r, e)) \in Seq(Entries) /\ Len(LastOf(Append(r, e))) <= Spacing
         /\ Spacing > 0 => /\ Len(LastOf(Append(r, e))) > 0
                           /\ LastOf(Append(r, e))[Len(LastOf(Append(r, e)))] = e
         /\ \A d \in Nat : d < Len(r) /\ d + 1 < Spacing =>
              /\ d + 1 < Len(LastOf(Append(r, e)))
              /\ LastOf(Append(r, e))[Len(LastOf(Append(r, e))) - (d + 1)] = r[Len(r) - d]
<1> DEFINE a == Append(r, e)  n == Len(r)
<1>1. /\ a \in Seq(Entries) /\ Len(a) = n + 1 /\ n \in Nat /\ a[n + 1] = e
      /\ \A i \in 1 .. n : a[i] = r[i]
  OBVIOUS
<1>2. Spacing \in Nat
  BY DEF LayerAssumption, EnvironmentAssumption
<1> HIDE DEF a
<1>3. CASE n + 1 > Spacing
  <2>1. LastOf(a) = Tail(a) /\ a # <<>> /\ n = Spacing
    BY <1>1, <1>2, <1>3 DEF LastOf
  <2>2. /\ Tail(a) \in Seq(Entries) /\ Len(Tail(a)) = n
        /\ \A i \in 1 .. n : Tail(a)[i] = a[i + 1]
    BY <1>1, <2>1, Ahead
  <2>3. ASSUME NEW d \in Nat, d < n, d + 1 < Spacing
        PROVE  d + 1 < n /\ Tail(a)[n - (d + 1)] = r[n - d]
    <3>1. n - (d + 1) \in 1 .. n /\ n - d \in 1 .. n /\ n - (d + 1) + 1 = n - d
      BY <1>1, <2>1, <2>3
    <3> QED BY <1>1, <2>1, <2>2, <2>3, <3>1
  <2> QED BY <1>1, <2>1, <2>2, <2>3 DEF a
<1>4. CASE ~ (n + 1 > Spacing)
  <2>1. LastOf(a) = a
    BY <1>1, <1>4 DEF LastOf
  <2>2. ASSUME NEW d \in Nat, d < n PROVE d + 1 < n + 1 /\ a[n + 1 - (d + 1)] = r[n - d]
    <3>1. n - d \in 1 .. n /\ n + 1 - (d + 1) = n - d
      BY <1>1, <2>2
    <3> QED BY <1>1, <2>2, <3>1
  <2> QED BY <1>1, <1>2, <1>4, <2>1, <2>2 DEF a
<1> QED BY <1>3, <1>4

\* An entry far enough from those of its bucket keeps the sequence spaced.
LEMMA ArriveKeepsApart ==
  ASSUME LayerAssumption, Spacing >= 3,
         NEW s \in Seq(Entries), NEW B, NEW r \in Seq(Entries), NEW e \in Entries,
         Apart(s, B), Remembered(s, B, r),
         e # Zero => \A i \in 1 .. Len(r) : r[i] # Zero => bucket[r[i]] # bucket[e]
  PROVE  Apart(s \o <<e>>, B)
<1> DEFINE t == s \o <<e>>  n == Len(s)
<1>1. /\ Len(t) = n + 1 /\ n \in Nat /\ t[n + 1] = e /\ \A i \in 1 .. n : t[i] = s[i]
  BY Behind
<1>2. Spacing \in Nat /\ Spacing >= 3 /\ Len(r) \in Nat
  BY DEF LayerAssumption, EnvironmentAssumption
<1>3. ASSUME NEW i \in 1 .. n, n - i < Spacing, s[i] # Zero, e # Zero
      PROVE  bucket[s[i]] # bucket[e]
  <2>1. n - i < Len(r) /\ r[Len(r) - (n - i)] = s[i]
    BY <1>1, <1>3 DEF Remembered
  <2>2. Len(r) - (n - i) \in 1 .. Len(r)
    BY <1>1, <1>2, <2>1
  <2> QED BY <1>3, <2>1, <2>2
<1>4. ASSUME NEW i \in 1 .. Len(t), NEW j \in 1 .. Len(t),
             i < j, j <= i + 3, t[i] # Zero, t[j] # Zero
      PROVE  bucket[t[i]] # bucket[t[j]]
  <2>1. CASE j = n + 1
    <3>1. i \in 1 .. n /\ n - i < Spacing /\ t[i] = s[i] /\ t[j] = e
      BY <1>1, <1>2, <1>4, <2>1
    <3> QED BY <1>3, <1>4, <3>1
  <2>2. CASE j # n + 1
    <3>1. i \in 1 .. n /\ j \in 1 .. n /\ t[i] = s[i] /\ t[j] = s[j]
      BY <1>1, <1>4, <2>2
    <3> QED BY <1>4, <3>1 DEF Apart
  <2> QED BY <2>1, <2>2
<1>5. ASSUME NEW i \in 1 .. Len(t), i <= 3, t[i] # Zero, bucket[t[i]] \in B
      PROVE  FALSE
  <2>1. CASE i = n + 1
    <3>1. n < Spacing /\ B # {}
      BY <1>2, <1>5, <2>1
    <3>2. /\ n < Len(r) /\ r[Len(r) - n] # Zero /\ B = {bucket[r[Len(r) - n]]}
      BY <3>1 DEF Remembered
    <3>3. Len(r) - n \in 1 .. Len(r) /\ t[i] = e
      BY <1>1, <1>2, <2>1, <3>2
    <3> QED BY <1>5, <3>2, <3>3
  <2>2. CASE i # n + 1
    <3>1. i \in 1 .. n /\ t[i] = s[i]
      BY <1>1, <2>2
    <3> QED BY <1>5, <3>1 DEF Apart
  <2> QED BY <2>1, <2>2
<1> QED BY <1>4, <1>5 DEF Apart

\* The environment remembers the entry it sent and those before it.
LEMMA ArriveKeepsRemembered ==
  ASSUME LayerAssumption, Spacing > 0,
         NEW s \in Seq(Entries), NEW B, NEW r \in Seq(Entries), Len(r) <= Spacing,
         NEW e \in Entries, Remembered(s, B, r)
  PROVE  Remembered(s \o <<e>>, B, LastOf(Append(r, e)))
<1> DEFINE t == s \o <<e>>  n == Len(s)  l == LastOf(Append(r, e))
<1>1. /\ Len(t) = n + 1 /\ n \in Nat /\ t[n + 1] = e /\ \A i \in 1 .. n : t[i] = s[i]
  BY Behind
<1>2. Spacing \in Nat /\ Len(r) \in Nat
  BY DEF LayerAssumption, EnvironmentAssumption
<1>3. /\ l \in Seq(Entries) /\ Len(l) > 0 /\ l[Len(l)] = e
      /\ \A d \in Nat : d < Len(r) /\ d + 1 < Spacing =>
           d + 1 < Len(l) /\ l[Len(l) - (d + 1)] = r[Len(r) - d]
  BY LastOfFacts
<1> HIDE DEF l
<1>a. Len(l) \in Nat
  BY <1>3
<1>4. ASSUME NEW i \in 1 .. Len(t), Len(t) - i < Spacing, t[i] # Zero
      PROVE  Len(t) - i < Len(l) /\ l[Len(l) - (Len(t) - i)] = t[i]
  <2>1. CASE i = n + 1
    BY <1>1, <1>3, <1>a, <2>1
  <2>2. CASE i # n + 1
    <3> DEFINE d == n - i
    <3>1. /\ i \in 1 .. n /\ t[i] = s[i] /\ d \in Nat /\ Len(t) - i = d + 1
          /\ d < Spacing /\ d + 1 < Spacing
      BY <1>1, <1>2, <1>4, <2>2
    <3>2. d < Len(r) /\ r[Len(r) - d] = s[i]
      BY <1>4, <3>1 DEF Remembered
    <3> HIDE DEF d
    <3> QED BY <1>3, <3>1, <3>2
  <2> QED BY <2>1, <2>2
<1>5. ASSUME Len(t) < Spacing, B # {}
      PROVE  /\ Len(t) < Len(l) /\ l[Len(l) - Len(t)] # Zero
             /\ B = {bucket[l[Len(l) - Len(t)]]}
  <2>1. n < Spacing /\ n + 1 < Spacing
    BY <1>1, <1>2, <1>5
  <2>2. n < Len(r) /\ r[Len(r) - n] # Zero /\ B = {bucket[r[Len(r) - n]]}
    BY <1>5, <2>1 DEF Remembered
  <2>3. n + 1 < Len(l) /\ l[Len(l) - (n + 1)] = r[Len(r) - n]
    BY <1>1, <1>3, <2>1, <2>2
  <2> QED BY <1>1, <2>2, <2>3
<1> QED BY <1>4, <1>5 DEF Remembered, l
-----------------------------------------------------------------------------
(* One clock of the pipe.                                                  *)

\* A clock without a decision, and one in which the oldest entry is decided.
Moves(ins) == Owed' = Owed \o ins /\ out' = <<>> /\ port_b' = NoWrite
Decides(ins) ==
  /\ Filled(3) /\ Owed # <<>> /\ Head(Owed) = reg[3]
  /\ Decide
  /\ Owed' = Tail(Owed) \o ins

\* Every register that is filled was filled from the one before it.
Shifts ==
  /\ reg'[2] = reg[1] /\ reg'[3] = reg[2]
  /\ Filled(3)' => Filled(2)
  /\ Filled(2)' => Filled(1)
  /\ Filled(1)' => Fetch /\ reg'[1] = q

\* A key moves from the FIFO to the registers.
LEMMA Refetch ==
  ASSUME NEW u \in Seq(Entries), NEW f \in Seq(Entries), f # <<>>, NEW ins \in Seq(Entries)
  PROVE  (u \o <<Head(f)>>) \o (Tail(f) \o ins) = (u \o f) \o ins
<1> DEFINE l == (u \o <<Head(f)>>) \o (Tail(f) \o ins)  r == (u \o f) \o ins
<1>1. /\ Tail(f) \in Seq(Entries) /\ Len(Tail(f)) = Len(f) - 1
      /\ \A i \in 1 .. Len(f) - 1 : Tail(f)[i] = f[i + 1]
      /\ Head(f) = f[1] /\ Head(f) \in Entries /\ Len(f) \in Nat \ {0}
  BY Ahead
<1>2. l \in Seq(Entries) /\ Len(l) = Len(u) + 1 + (Len(f) - 1 + Len(ins))
  BY <1>1
<1>3. r \in Seq(Entries) /\ Len(r) = Len(u) + Len(f) + Len(ins)
  OBVIOUS
<1>4. ASSUME NEW i \in 1 .. Len(r) PROVE l[i] = r[i]
  <2>1. CASE i <= Len(u)
    BY <1>1, <1>3, <2>1
  <2>2. CASE i = Len(u) + 1
    BY <1>1, <1>3, <2>2
  <2>3. CASE i > Len(u) + 1 /\ i <= Len(u) + Len(f)
    <3>1. l[i] = Tail(f)[i - (Len(u) + 1)]
      BY <1>1, <1>3, <2>3
    <3>2. r[i] = f[i - Len(u)]
      BY <1>1, <1>3, <2>3
    <3>3. i - (Len(u) + 1) \in 1 .. Len(f) - 1 /\ i - (Len(u) + 1) + 1 = i - Len(u)
      BY <1>1, <2>3
    <3> QED BY <1>1, <3>1, <3>2, <3>3
  <2>4. CASE i > Len(u) + Len(f)
    <3>1. l[i] = ins[i - (Len(u) + 1) - (Len(f) - 1)]
      BY <1>1, <1>3, <2>4
    <3>2. r[i] = ins[i - (Len(u) + Len(f))]
      BY <1>1, <1>3, <2>4
    <3>3. i - (Len(u) + 1) - (Len(f) - 1) = i - (Len(u) + Len(f))
      BY <1>1
    <3> QED BY <3>1, <3>2, <3>3
  <2> QED BY <1>1, <2>1, <2>2, <2>3, <2>4
<1>5. Len(l) = Len(r)
  BY <1>1, <1>2, <1>3
<1> HIDE DEF l, r
<1>6. l = r
  BY <1>2, <1>3, <1>4, <1>5
<1> QED BY <1>6 DEF l, r

\* The entry at the front of a sequence and the rest of it.
LEMMA Front ==
  ASSUME NEW a \in Entries, NEW s \in Seq(Entries)
  PROVE  /\ <<a>> \o s \in Seq(Entries) /\ <<a>> \o s # <<>>
         /\ Head(<<a>> \o s) = a /\ Tail(<<a>> \o s) = s
<1>1. /\ <<a>> \o s \in Seq(Entries) /\ Len(<<a>> \o s) = Len(s) + 1 /\ Len(s) \in Nat
      /\ (<<a>> \o s)[1] = a
      /\ \A i \in 1 .. Len(s) : (<<a>> \o s)[i + 1] = s[i]
  OBVIOUS
<1> DEFINE t == <<a>> \o s
<1> HIDE DEF t
<1>2. t \in Seq(Entries) /\ Len(t) = Len(s) + 1 /\ t[1] = a
      /\ \A i \in 1 .. Len(s) : t[i + 1] = s[i]
  BY <1>1 DEF t
<1>3. t # <<>> /\ Head(t) = a
  BY <1>1, <1>2
<1>4. Tail(t) \in Seq(Entries) /\ Len(Tail(t)) = Len(s)
      /\ \A i \in 1 .. Len(s) : Tail(t)[i] = t[i + 1]
  BY <1>1, <1>2, <1>3, Ahead
<1>5. Tail(t) = s
  BY <1>2, <1>4
<1> QED BY <1>2, <1>3, <1>5 DEF t

\* Short sequences are their entries.
LEMMA ShortSequences ==
  ASSUME NEW E, NEW t \in Seq(E)
  PROVE  /\ Len(t) = 1 => t = <<t[1]>>
         /\ Len(t) = 2 => t = <<t[1], t[2]>>
         /\ Len(t) = 3 => t = <<t[1], t[2], t[3]>>
  OBVIOUS

\* The front of a short sequence.
LEMMA ShortFronts ==
  ASSUME NEW a, NEW b, NEW c
  PROVE  /\ SubSeq(<<a, b, c>>, 1, 1) = <<a>> /\ SubSeq(<<a, b, c>>, 1, 2) = <<a, b>>
         /\ SubSeq(<<a, b, c>>, 1, 3) = <<a, b, c>>
<1> DEFINE s == <<a, b, c>>  E == {a, b, c}
<1>1. s \in Seq(E) /\ Len(s) = 3 /\ s[1] = a /\ s[2] = b /\ s[3] = c
  OBVIOUS
<1> HIDE DEF s
<1>2. ASSUME NEW n \in 1 .. 3
      PROVE  /\ SubSeq(s, 1, n) \in Seq(E) /\ Len(SubSeq(s, 1, n)) = n
             /\ \A i \in 1 .. n : SubSeq(s, 1, n)[i] = s[i]
  BY <1>1, SubSeqProperties
<1>3. /\ SubSeq(s, 1, 1) \in Seq(E) /\ Len(SubSeq(s, 1, 1)) = 1
      /\ SubSeq(s, 1, 1)[1] = a
  BY <1>1, <1>2
<1>4. /\ SubSeq(s, 1, 2) \in Seq(E) /\ Len(SubSeq(s, 1, 2)) = 2
      /\ SubSeq(s, 1, 2)[1] = a /\ SubSeq(s, 1, 2)[2] = b
  BY <1>1, <1>2
<1>5. /\ SubSeq(s, 1, 3) \in Seq(E) /\ Len(SubSeq(s, 1, 3)) = 3
      /\ SubSeq(s, 1, 3)[1] = a /\ SubSeq(s, 1, 3)[2] = b /\ SubSeq(s, 1, 3)[3] = c
  BY <1>1, <1>2
<1> QED BY <1>3, <1>4, <1>5, ShortSequences DEF s

\* Registers in front of a queue.
LEMMA Rows ==
  ASSUME NEW a \in Entries, NEW b \in Entries, NEW c \in Entries, NEW s \in Seq(Entries)
  PROVE  /\ <<a>> \o (<<b>> \o s) = <<a, b>> \o s
         /\ <<a>> \o (<<b, c>> \o s) = <<a, b, c>> \o s
         /\ <<a>> \o <<b>> = <<a, b>> /\ <<a, b>> \o <<c>> = <<a, b, c>>
         /\ <<a>> \o <<b, c>> = <<a, b, c>>
         /\ <<>> \o s = s /\ s \o <<>> = s
<1>a. /\ <<a>> \o <<b>> \in Seq(Entries) /\ Len(<<a>> \o <<b>>) = 2
      /\ (<<a>> \o <<b>>)[1] = a /\ (<<a>> \o <<b>>)[2] = b
  OBVIOUS
<1>b. /\ <<a>> \o <<b, c>> \in Seq(Entries) /\ Len(<<a>> \o <<b, c>>) = 3
      /\ (<<a>> \o <<b, c>>)[1] = a /\ (<<a>> \o <<b, c>>)[2] = b
      /\ (<<a>> \o <<b, c>>)[3] = c
  OBVIOUS
<1>c. /\ <<a, b>> \o <<c>> \in Seq(Entries) /\ Len(<<a, b>> \o <<c>>) = 3
      /\ (<<a, b>> \o <<c>>)[1] = a /\ (<<a, b>> \o <<c>>)[2] = b
      /\ (<<a, b>> \o <<c>>)[3] = c
  OBVIOUS
<1>1. /\ <<a>> \o <<b>> = <<a, b>> /\ <<a>> \o <<b, c>> = <<a, b, c>>
      /\ <<a, b>> \o <<c>> = <<a, b, c>>
  BY <1>a, <1>b, <1>c, ShortSequences, Zenon
<1>2. /\ <<a>> \in Seq(Entries) /\ <<b>> \in Seq(Entries) /\ <<b, c>> \in Seq(Entries)
  OBVIOUS
<1>3. /\ <<a>> \o (<<b>> \o s) = (<<a>> \o <<b>>) \o s
      /\ <<a>> \o (<<b, c>> \o s) = (<<a>> \o <<b, c>>) \o s
  BY <1>2, ConcatAssociative
<1>4. <<>> \o s = s /\ s \o <<>> = s
  BY ConcatEmptySeq
<1> QED BY <1>1, <1>3, <1>4, Zenon

\* What is under way, state by state.
LEMMA UnderWayBy ==
  CountInv =>
    /\ fsm.state \in {"idle", "pharse_1"} => UnderWay = <<>>
    /\ fsm.state \in {"pharse_2", "wait_1"} => UnderWay = <<reg[1]>>
    /\ fsm.state = "pharse_3" => UnderWay = <<reg[2], reg[1]>>
    /\ fsm.state = "pharse_4" => UnderWay = <<reg[3], reg[2], reg[1]>>
    /\ fsm.state = "wait_2" /\ fsm.count = 1 => UnderWay = <<reg[2]>>
    /\ fsm.state = "wait_2" /\ fsm.count = 2 => UnderWay = <<reg[2], reg[1]>>
    /\ fsm.state = "read" /\ fsm.count = 1 => UnderWay = <<reg[3]>>
    /\ fsm.state = "read" /\ fsm.count = 2 => UnderWay = <<reg[3], reg[2]>>
    /\ fsm.state = "read" /\ fsm.count = 3 => UnderWay = <<reg[3], reg[2], reg[1]>>
<1> SUFFICES ASSUME CountInv, fsm.state \in States
             PROVE  /\ fsm.state \in {"idle", "pharse_1"} => UnderWay = <<>>
                    /\ fsm.state \in {"pharse_2", "wait_1"} => UnderWay = <<reg[1]>>
                    /\ fsm.state = "pharse_3" => UnderWay = <<reg[2], reg[1]>>
                    /\ fsm.state = "pharse_4" => UnderWay = <<reg[3], reg[2], reg[1]>>
                    /\ fsm.state = "wait_2" /\ fsm.count = 1 => UnderWay = <<reg[2]>>
                    /\ fsm.state = "wait_2" /\ fsm.count = 2 => UnderWay = <<reg[2], reg[1]>>
                    /\ fsm.state = "read" /\ fsm.count = 1 => UnderWay = <<reg[3]>>
                    /\ fsm.state = "read" /\ fsm.count = 2 => UnderWay = <<reg[3], reg[2]>>
                    /\ fsm.state = "read" /\ fsm.count = 3
                         => UnderWay = <<reg[3], reg[2], reg[1]>>
  BY DEF CountInv
<1>2. /\ fsm.state \in {"idle", "pharse_1"} => UnderWay = <<>>
      /\ fsm.state \in {"pharse_2", "wait_1"} => UnderWay = <<reg[1]>>
      /\ fsm.state = "pharse_3" => UnderWay = <<reg[2], reg[1]>>
      /\ fsm.state = "pharse_4" => UnderWay = <<reg[3], reg[2], reg[1]>>
  BY DEF UnderWay
<1>3. fsm.state = "wait_2" =>
        UnderWay = IF fsm.count = 1 THEN <<reg[2]>> ELSE <<reg[2], reg[1]>>
  BY DEF UnderWay
<1>4. fsm.state = "read" => UnderWay = SubSeq(<<reg[3], reg[2], reg[1]>>, 1, fsm.count)
  BY DEF UnderWay
<1>5. /\ fsm.state = "read" /\ fsm.count = 1 => UnderWay = <<reg[3]>>
      /\ fsm.state = "read" /\ fsm.count = 2 => UnderWay = <<reg[3], reg[2]>>
      /\ fsm.state = "read" /\ fsm.count = 3 => UnderWay = <<reg[3], reg[2], reg[1]>>
  <2> DEFINE f == <<reg[3], reg[2], reg[1]>>
  <2>1. /\ SubSeq(f, 1, 1) = <<reg[3]>> /\ SubSeq(f, 1, 2) = <<reg[3], reg[2]>>
        /\ SubSeq(f, 1, 3) = <<reg[3], reg[2], reg[1]>>
    BY ShortFronts, Zenon
  <2>2. fsm.state = "read" => UnderWay = SubSeq(f, 1, fsm.count)
    BY <1>4
  <2> HIDE DEF f
  <2> QED BY <2>1, <2>2
<1>6. /\ fsm.state = "wait_2" /\ fsm.count = 1 => UnderWay = <<reg[2]>>
      /\ fsm.state = "wait_2" /\ fsm.count = 2 => UnderWay = <<reg[2], reg[1]>>
  BY <1>3
<1> QED BY <1>2, <1>5, <1>6, Zenon
\* A layer in the middle of its work, with room for what a pause lets in.
Working == LayerAssumption /\ DataDepth >= 8 /\ LayerInv /\ PipeInv

\* The entries behind the one that is read in this clock.
Rest == IF fsm.rd THEN Tail(fifo) ELSE fifo

\* What arrives in a clock: nothing or one entry.
LEMMA ArrivalFacts ==
  ASSUME NEW ins \in Arrivals
  PROVE  ins \in Seq(Entries) /\ Len(ins) <= 1 /\ Len(ins) \in Nat
<1>1. CASE ins = <<>>
  BY <1>1
<1>2. ASSUME NEW e \in Entries, ins = <<e>>
      PROVE  ins \in Seq(Entries) /\ Len(ins) <= 1 /\ Len(ins) \in Nat
  BY <1>2
<1> QED BY <1>1, <1>2 DEF Arrivals

\* The FIFO never comes near its limits, so it loses nothing and its count does
\* not wrap, and the head of the rest is shown after the clock.
LEMMA FifoTick ==
  ASSUME Working, NEW ins \in Arrivals, FifoClock(ins)
  PROVE  /\ Rest \in Seq(Entries) /\ fifo' = Rest \o ins /\ fifo' \in Seq(Entries)
         /\ Len(fifo') = Len(Rest) + Len(ins)
         /\ Len(Rest) = IF fsm.rd THEN Len(fifo) - 1 ELSE Len(fifo)
         /\ fsm.rd => q = Head(fifo) /\ q \in Entries /\ fifo # <<>>
         /\ Rest # <<>> => fifo' # <<>> /\ q' = Head(fifo')
         /\ empty_reg' \in BOOLEAN /\ (empty_reg' => Len(fifo') <= 1)
         /\ MoreToRead <=> Len(fifo) > 2
<1>1. /\ fifo \in Seq(Entries) /\ DataDepth >= 8 /\ DataDepth \in Nat
      /\ fsm.rd \in BOOLEAN /\ (fsm.rd <=> fsm.state \in Bursts)
      /\ fsm.state \in Bursts => fifo # <<>> /\ q = Head(fifo)
  BY DEF Working, LayerInv, EntriesInv, PipeInv, CountInv, BurstInv, LayerAssumption,
         FifoAssumption
<1>2. Len(fifo) \in Nat /\ Len(fifo) <= 6
  BY <1>1 DEF Working, PipeInv, LengthInv, CountInv, States, Bursts
<1>3. ins \in Seq(Entries) /\ Len(ins) <= 1 /\ Len(ins) \in Nat
  BY ArrivalFacts
<1>4. /\ Rest \in Seq(Entries)
      /\ Len(Rest) = IF fsm.rd THEN Len(fifo) - 1 ELSE Len(fifo)
      /\ fsm.rd => q = Head(fifo) /\ q \in Entries /\ fifo # <<>>
  BY <1>1, <1>2, Ahead DEF Rest
<1>5. ~ Overflows(ins) /\ Usedw = Len(fifo)
  <2>1. ASSUME NEW n \in Nat, NEW d \in Nat, n < d PROVE n % d = n
    BY <2>1
  <2>2. Len(fifo) < DataDepth
    BY <1>1, <1>2
  <2> QED BY <1>1, <1>2, <2>1, <2>2 DEF Overflows, Usedw
<1>6. /\ fifo' = Rest \o ins
      /\ q' = IF fifo = <<>> THEN q ELSE IF Rest = <<>> THEN Stale ELSE Head(Rest)
      /\ empty_reg' = (fifo = <<>>)
  <2>1. Rest = IF fsm.rd /\ fifo # <<>> THEN Tail(fifo) ELSE fifo
    BY <1>4 DEF Rest
  <2> QED BY <1>5, <2>1 DEF FifoClock
<1>7. fifo' \in Seq(Entries) /\ Len(fifo') = Len(Rest) + Len(ins)
  BY <1>3, <1>4, <1>6
<1>8. Rest # <<>> => fifo' # <<>> /\ q' = Head(fifo')
  <2> SUFFICES ASSUME Rest # <<>> PROVE fifo' # <<>> /\ q' = Head(fifo')
    OBVIOUS
  <2>1. fifo # <<>> /\ Rest[1] = Head(Rest) /\ Len(Rest) \in Nat \ {0}
    BY <1>4, Ahead DEF Rest
  <2>2. (Rest \o ins)[1] = Rest[1] /\ Rest \o ins # <<>>
    BY <1>3, <1>4, <2>1
  <2>3. fifo' # <<>> /\ Head(fifo') = fifo'[1]
    BY <1>6, <1>7, <2>2, Ahead
  <2> QED BY <1>6, <2>1, <2>2, <2>3
<1>9. empty_reg' \in BOOLEAN /\ (empty_reg' => Len(fifo') <= 1)
  <2>1. fifo = <<>> => Len(fifo') <= 1
    BY <1>1, <1>2, <1>3, <1>4, <1>7
  <2> QED BY <1>6, <2>1
<1> QED BY <1>4, <1>5, <1>6, <1>7, <1>8, <1>9 DEF MoreToRead

\* A clock in which a key is fetched.
LEMMA FetchOne ==
  ASSUME NEW u \in Seq(Entries), UnderWay = u, UnderWay' = u \o <<q>>,
         fifo \in Seq(Entries), fifo # <<>>, q = Head(fifo),
         NEW ins \in Seq(Entries), fifo' = Tail(fifo) \o ins
  PROVE  Owed' = Owed \o ins
<1>1. (u \o <<Head(fifo)>>) \o (Tail(fifo) \o ins) = (u \o fifo) \o ins
  BY Refetch
<1> QED BY <1>1 DEF Owed

\* A clock in which the oldest entry is served and none is fetched.
LEMMA ServeOne ==
  ASSUME NEW a \in Entries, NEW u \in Seq(Entries), UnderWay = <<a>> \o u, UnderWay' = u,
         fifo \in Seq(Entries), NEW ins \in Seq(Entries), fifo' = fifo \o ins
  PROVE  Owed # <<>> /\ Head(Owed) = a /\ Owed' = Tail(Owed) \o ins
<1>1. <<a>> \in Seq(Entries) /\ u \o fifo \in Seq(Entries)
  OBVIOUS
<1>2. Owed = <<a>> \o (u \o fifo)
  BY <1>1, ConcatAssociative DEF Owed
<1>3. Owed # <<>> /\ Head(Owed) = a /\ Tail(Owed) = u \o fifo
  BY <1>1, <1>2, Front
<1>4. Owed' = (u \o fifo) \o ins
  BY ConcatAssociative DEF Owed
<1> QED BY <1>3, <1>4

\* A clock in which the oldest entry is served and one is fetched.
LEMMA ServeAndFetch ==
  ASSUME NEW a \in Entries, NEW u \in Seq(Entries), UnderWay = <<a>> \o u,
         UnderWay' = u \o <<q>>,
         fifo \in Seq(Entries), fifo # <<>>, q = Head(fifo),
         NEW ins \in Seq(Entries), fifo' = Tail(fifo) \o ins
  PROVE  Owed # <<>> /\ Head(Owed) = a /\ Owed' = Tail(Owed) \o ins
<1>1. <<a>> \in Seq(Entries) /\ u \o fifo \in Seq(Entries)
  OBVIOUS
<1>2. Owed = <<a>> \o (u \o fifo)
  BY <1>1, ConcatAssociative DEF Owed
<1>3. Owed # <<>> /\ Head(Owed) = a /\ Tail(Owed) = u \o fifo
  BY <1>1, <1>2, Front
<1>4. (u \o <<Head(fifo)>>) \o (Tail(fifo) \o ins) = (u \o fifo) \o ins
  BY Refetch
<1>5. Owed' = (u \o fifo) \o ins
  BY <1>4 DEF Owed
<1> QED BY <1>3, <1>5
\* What a clock does to the registers and to the order of the entries.
Orderly(ins) ==
  /\ CountInv' /\ LengthInv' /\ BurstInv' /\ Shifts
  /\ Moves(ins) \/ Decides(ins)

\* The registers after a clock.
LEMMA Registers ==
  ASSUME LayerInv, Fetch \/ NoFetch
  PROVE  /\ reg'[2] = reg[1] /\ reg'[3] = reg[2]
         /\ Fetch => reg'[1] = q
         /\ NoFetch => reg'[1] = Zero
  BY DEF LayerInv, EntriesInv, Fetch, NoFetch, ShiftIn

\* The state that is gone to, where the count fits it.
LEMMA GoToCounts ==
  ASSUME NEW s \in States, NEW d \in BOOLEAN, NEW c \in Nat, GoTo(s, d, c),
         d <=> s \in Bursts,
         s \in {"pharse_1", "wait_1"} => c = 1,
         s = "pharse_2" => c = 2, s = "pharse_3" => c = 3, s = "pharse_4" => c = 4,
         s = "wait_2" => c \in {1, 2}, s = "read" => c \in {1, 2, 3}
  PROVE  CountInv' /\ fsm'.state = s /\ fsm'.count = c
<1>1. fsm' = [state |-> s, rd |-> d, count |-> c]
  BY DEF GoTo
<1>2. fsm'.state = s /\ fsm'.count = c /\ fsm'.rd = d
  BY <1>1
<1>3. fsm' \in [state : States, rd : BOOLEAN, count : Nat]
  BY <1>1
<1>4. fsm'.rd <=> fsm'.state \in Bursts
  BY <1>2, Zenon
<1> QED BY <1>2, <1>3, <1>4, Zenon DEF CountInv

\* The pause between two bursts, or the start of one.
LEMMA IdleClock ==
  ASSUME Working, NEW ins \in Arrivals, FifoClock(ins), NEW alf, ~ alf, Idle(alf)
  PROVE  Orderly(ins)
<1>1. /\ fsm \in [state : States, rd : BOOLEAN, count : Nat]
      /\ fsm.state = "idle" /\ ~ fsm.rd /\ fifo \in Seq(Entries) /\ Len(fifo) <= 5
      /\ empty_reg \in BOOLEAN /\ (empty_reg => Len(fifo) <= 1)
  BY DEF Working, PipeInv, CountInv, LengthInv, LayerInv, EntriesInv, Idle, Bursts
<1>2. /\ Rest = fifo /\ fifo' = fifo \o ins /\ fifo' \in Seq(Entries)
      /\ Len(fifo') = Len(fifo) + Len(ins)
      /\ fifo # <<>> => fifo' # <<>> /\ q' = Head(fifo')
      /\ empty_reg' \in BOOLEAN /\ (empty_reg' => Len(fifo') <= 1)
  BY <1>1, FifoTick DEF Rest
<1>3. Len(ins) \in Nat /\ Len(ins) <= 1 /\ ins \in Seq(Entries) /\ Len(fifo) \in Nat
  BY <1>1, ArrivalFacts
<1>4. \/ GoTo("pharse_1", TRUE, 1) /\ fifo # <<>>
      \/ GoTo("idle", FALSE, fsm.count) /\ Len(fifo) <= 1
  <2>1. ~ Empty => fifo # <<>>
    BY DEF Empty
  <2>2. Empty => Len(fifo) <= 1
    BY <1>1 DEF Empty
  <2> QED BY <2>1, <2>2 DEF Idle
<1>5. /\ CountInv'
      /\ \/ fsm'.state = "pharse_1" /\ fifo # <<>>
         \/ fsm'.state = "idle" /\ Len(fifo) <= 1
  <2>1. fsm.count \in Nat
    BY <1>1
  <2>2. CASE GoTo("pharse_1", TRUE, 1) /\ fifo # <<>>
    BY <2>2, GoToCounts DEF States, Bursts
  <2>3. CASE GoTo("idle", FALSE, fsm.count) /\ Len(fifo) <= 1
    BY <2>1, <2>3, GoToCounts DEF States, Bursts
  <2> QED BY <1>4, <2>2, <2>3
<1>6. LengthInv'
  BY <1>1, <1>2, <1>3, <1>5 DEF LengthInv, Bursts
<1>7. ~ Filled(1)' /\ ~ Filled(2)' /\ ~ Filled(3)'
  BY <1>5 DEF Filled
<1>8. out' = <<>> /\ port_b' = NoWrite /\ NoFetch
  BY DEF Idle
<1>9. BurstInv'
  <2>1. \A i \in 1 .. 3 : ~ Filled(i)'
    BY <1>5 DEF Filled
  <2>2. fsm'.state \in Bursts => fifo' # <<>> /\ q' = Head(fifo')
    BY <1>2, <1>5 DEF Bursts
  <2> QED BY <1>8, <2>1, <2>2 DEF BurstInv
<1>10. Shifts
  BY <1>7, <1>8, Registers DEF Shifts, Working
<1>11. Owed' = Owed \o ins
  <2>1. UnderWay = <<>>
    BY <1>1, UnderWayBy DEF Working, PipeInv
  <2>2. (CountInv /\ fsm.state \in {"idle", "pharse_1"} => UnderWay = <<>>)'
    BY UnderWayBy, PTL
  <2>3. UnderWay' = <<>>
    BY <1>5, <2>2
  <2>4. Owed = fifo /\ Owed' = fifo'
    BY <1>1, <1>2, <2>1, <2>3, ConcatEmptySeq DEF Owed
  <2> QED BY <1>2, <2>4
<1> QED BY <1>5, <1>6, <1>8, <1>9, <1>10, <1>11 DEF Orderly, Moves
\* A clock of a burst takes the head of the FIFO; the burst ends when few are left.
LEMMA FetchClock ==
  ASSUME Working, NEW ins \in Arrivals, FifoClock(ins), fsm.state \in Bursts, Fetch, CountInv',
         MoreToRead => fsm'.state \in Bursts,
         ~ MoreToRead => \/ fsm'.state = "wait_1"
                         \/ fsm'.state = "wait_2" /\ fsm'.count = 2
                         \/ fsm'.state = "read" /\ fsm'.count = 3
  PROVE  /\ LengthInv'
         /\ fsm'.state \in Bursts => fifo' # <<>> /\ q' = Head(fifo')
         /\ fifo \in Seq(Entries) /\ fifo # <<>> /\ q = Head(fifo) /\ q \in Entries
         /\ fifo' = Tail(fifo) \o ins /\ ins \in Seq(Entries)
         /\ reg'[1] = q /\ reg'[2] = reg[1] /\ reg'[3] = reg[2]
<1>1. /\ fsm.rd /\ fifo \in Seq(Entries) /\ Len(fifo) <= 6
  BY DEF Working, PipeInv, CountInv, LengthInv, LayerInv, EntriesInv
<1>2. /\ Rest = Tail(fifo) /\ fifo' = Rest \o ins /\ fifo' \in Seq(Entries)
      /\ Len(fifo') = Len(Rest) + Len(ins) /\ Len(Rest) = Len(fifo) - 1
      /\ q = Head(fifo) /\ q \in Entries /\ fifo # <<>>
      /\ Rest # <<>> => fifo' # <<>> /\ q' = Head(fifo')
      /\ empty_reg' \in BOOLEAN /\ (empty_reg' => Len(fifo') <= 1)
      /\ MoreToRead <=> Len(fifo) > 2
  BY <1>1, FifoTick DEF Rest
<1>3. Len(ins) \in Nat /\ Len(ins) <= 1 /\ ins \in Seq(Entries) /\ Len(fifo) \in Nat
  BY <1>1, ArrivalFacts
<1>4. reg'[1] = q /\ reg'[2] = reg[1] /\ reg'[3] = reg[2]
  BY Registers DEF Working
<1>5. LengthInv'
  <2>1. CASE MoreToRead
    <3>1. fsm'.state \in Bursts /\ Len(fifo') <= 6
      BY <1>1, <1>2, <1>3, <2>1
    <3> QED BY <1>2, <3>1 DEF LengthInv, Bursts
  <2>2. CASE ~ MoreToRead
    <3>1. Len(fifo') <= 2
      BY <1>1, <1>2, <1>3, <2>2
    <3>2. \/ fsm'.state = "wait_1"
          \/ fsm'.state = "wait_2" /\ fsm'.count = 2
          \/ fsm'.state = "read" /\ fsm'.count = 3
      BY <2>2
    <3> QED BY <1>2, <3>1, <3>2 DEF LengthInv, Bursts
  <2> QED BY <2>1, <2>2
<1>6. fsm'.state \in Bursts => Rest # <<>>
  <2>1. fsm'.state \in Bursts => MoreToRead
    BY DEF Bursts
  <2>2. MoreToRead => Len(Rest) > 1
    BY <1>2, <1>3
  <2> QED BY <2>1, <2>2
<1> QED BY <1>1, <1>2, <1>3, <1>4, <1>5, <1>6

\* The registers that are filled hold entries.
LEMMA FilledEntries ==
  ASSUME Working, NEW i \in 1 .. 3, Filled(i)
  PROVE  reg[i] \in Entries
  BY DEF Working, PipeInv, BurstInv

\* The first clock of a burst.
LEMMA Pharse1Clock ==
  ASSUME Working, NEW ins \in Arrivals, FifoClock(ins), Pharse(1, "wait_1")
  PROVE  Orderly(ins)
<1>1. /\ fsm.state = "pharse_1" /\ Fetch /\ out' = out /\ port_b' = port_b
      /\ IF MoreToRead THEN GoTo("pharse_2", TRUE, fsm.count + 1)
                       ELSE GoTo("wait_1", FALSE, fsm.count)
  BY DEF Pharse
<1>2. /\ fsm.count = 1 /\ port_b = NoWrite /\ out = <<>> /\ UnderWay = <<>>
  BY <1>1, UnderWayBy DEF Working, PipeInv, CountInv, BurstInv
<1>3. /\ CountInv' /\ fsm'.state \in {"pharse_2", "wait_1"}
      /\ MoreToRead => fsm'.state = "pharse_2"
      /\ ~ MoreToRead => fsm'.state = "wait_1"
  <2>1. CASE MoreToRead
    <3>1. fsm.count + 1 = 2
      BY <1>2
    <3>2. GoTo("pharse_2", TRUE, 2)
      BY <1>1, <2>1, <3>1, Zenon
    <3> QED BY <2>1, <3>2, GoToCounts DEF States, Bursts
  <2>2. CASE ~ MoreToRead
    BY <1>1, <1>2, <2>2, GoToCounts DEF States, Bursts
  <2> QED BY <2>1, <2>2
<1>4. /\ LengthInv'
      /\ fsm'.state \in Bursts => fifo' # <<>> /\ q' = Head(fifo')
      /\ fifo \in Seq(Entries) /\ fifo # <<>> /\ q = Head(fifo) /\ q \in Entries
      /\ fifo' = Tail(fifo) \o ins /\ ins \in Seq(Entries)
      /\ reg'[1] = q /\ reg'[2] = reg[1] /\ reg'[3] = reg[2]
  BY <1>1, <1>3, FetchClock DEF Bursts
<1>5. Filled(1)' /\ ~ Filled(2)' /\ ~ Filled(3)'
  BY <1>3 DEF Filled
<1>6. BurstInv'
  <2>1. \A i \in 1 .. 3 : Filled(i)' => reg'[i] \in Entries
    BY <1>3, <1>4 DEF Filled
  <2> QED BY <1>1, <1>2, <1>4, <2>1 DEF BurstInv
<1>7. UnderWay' = <<>> \o <<q>>
  <2>1. (CountInv /\ fsm.state \in {"pharse_2", "wait_1"} => UnderWay = <<reg[1]>>)'
    BY UnderWayBy, PTL
  <2>2. <<>> \o <<q>> = <<q>>
    BY <1>4, ConcatEmptySeq
  <2> QED BY <1>3, <1>4, <2>1, <2>2
<1>8. Owed' = Owed \o ins
  <2>1. <<>> \in Seq(Entries)
    OBVIOUS
  <2> QED BY <1>2, <1>4, <1>7, <2>1, FetchOne
<1> QED BY <1>1, <1>2, <1>3, <1>4, <1>5, <1>6, <1>8 DEF Orderly, Moves, Shifts

\* The second clock of a burst.
LEMMA Pharse2Clock ==
  ASSUME Working, NEW ins \in Arrivals, FifoClock(ins), Pharse(2, "wait_2")
  PROVE  Orderly(ins)
<1>1. /\ fsm.state = "pharse_2" /\ Fetch /\ out' = out /\ port_b' = port_b
      /\ IF MoreToRead THEN GoTo("pharse_3", TRUE, fsm.count + 1)
                       ELSE GoTo("wait_2", FALSE, fsm.count)
  BY DEF Pharse
<1>2. /\ fsm.count = 2 /\ port_b = NoWrite /\ out = <<>> /\ UnderWay = <<reg[1]>>
      /\ Filled(1)
  BY <1>1, UnderWayBy DEF Working, PipeInv, CountInv, BurstInv, Filled
<1>3. /\ CountInv'
      /\ \/ MoreToRead /\ fsm'.state = "pharse_3"
         \/ ~ MoreToRead /\ fsm'.state = "wait_2" /\ fsm'.count = 2
  <2>1. CASE MoreToRead
    <3>1. fsm.count + 1 = 3
      BY <1>2
    <3>2. GoTo("pharse_3", TRUE, 3)
      BY <1>1, <2>1, <3>1, Zenon
    <3> QED BY <2>1, <3>2, GoToCounts DEF States, Bursts
  <2>2. CASE ~ MoreToRead
    BY <1>1, <1>2, <2>2, GoToCounts DEF States, Bursts
  <2> QED BY <2>1, <2>2
<1>4. /\ LengthInv'
      /\ fsm'.state \in Bursts => fifo' # <<>> /\ q' = Head(fifo')
      /\ fifo \in Seq(Entries) /\ fifo # <<>> /\ q = Head(fifo) /\ q \in Entries
      /\ fifo' = Tail(fifo) \o ins /\ ins \in Seq(Entries)
      /\ reg'[1] = q /\ reg'[2] = reg[1] /\ reg'[3] = reg[2]
  BY <1>1, <1>3, FetchClock DEF Bursts
<1>5. Filled(1)' /\ Filled(2)' /\ ~ Filled(3)'
  BY <1>3 DEF Filled
<1>e. reg[1] \in Entries
  BY <1>2, FilledEntries
<1>6. BurstInv'
  <2>1. \A i \in 1 .. 3 : Filled(i)' => reg'[i] \in Entries
    BY <1>3, <1>4, <1>e DEF Filled
  <2> QED BY <1>1, <1>2, <1>4, <2>1 DEF BurstInv
<1>7. UnderWay' = <<reg[1]>> \o <<q>>
  <2>1. (CountInv => /\ fsm.state = "pharse_3" => UnderWay = <<reg[2], reg[1]>>
                     /\ fsm.state = "wait_2" /\ fsm.count = 2
                          => UnderWay = <<reg[2], reg[1]>>)'
    BY UnderWayBy, PTL
  <2>2. <<reg[1]>> \o <<q>> = <<reg[1], q>>
    BY <1>4, <1>e, Rows
  <2> QED BY <1>3, <1>4, <2>1, <2>2
<1>8. Owed' = Owed \o ins
  <2>1. <<reg[1]>> \in Seq(Entries)
    BY <1>e
  <2> QED BY <1>2, <1>4, <1>7, <2>1, FetchOne
<1> QED BY <1>1, <1>2, <1>3, <1>4, <1>5, <1>6, <1>8 DEF Orderly, Moves, Shifts

\* The third clock of a burst.
LEMMA Pharse3Clock ==
  ASSUME Working, NEW ins \in Arrivals, FifoClock(ins), Pharse(3, "read")
  PROVE  Orderly(ins)
<1>1. /\ fsm.state = "pharse_3" /\ Fetch /\ out' = out /\ port_b' = port_b
      /\ IF MoreToRead THEN GoTo("pharse_4", TRUE, fsm.count + 1)
                       ELSE GoTo("read", FALSE, fsm.count)
  BY DEF Pharse
<1>2. /\ fsm.count = 3 /\ port_b = NoWrite /\ out = <<>> /\ UnderWay = <<reg[2], reg[1]>>
      /\ Filled(1) /\ Filled(2)
  BY <1>1, UnderWayBy DEF Working, PipeInv, CountInv, BurstInv, Filled
<1>3. /\ CountInv'
      /\ \/ MoreToRead /\ fsm'.state = "pharse_4"
         \/ ~ MoreToRead /\ fsm'.state = "read" /\ fsm'.count = 3
  <2>1. CASE MoreToRead
    <3>1. fsm.count + 1 = 4
      BY <1>2
    <3>2. GoTo("pharse_4", TRUE, 4)
      BY <1>1, <2>1, <3>1, Zenon
    <3> QED BY <2>1, <3>2, GoToCounts DEF States, Bursts
  <2>2. CASE ~ MoreToRead
    BY <1>1, <1>2, <2>2, GoToCounts DEF States, Bursts
  <2> QED BY <2>1, <2>2
<1>4. /\ LengthInv'
      /\ fsm'.state \in Bursts => fifo' # <<>> /\ q' = Head(fifo')
      /\ fifo \in Seq(Entries) /\ fifo # <<>> /\ q = Head(fifo) /\ q \in Entries
      /\ fifo' = Tail(fifo) \o ins /\ ins \in Seq(Entries)
      /\ reg'[1] = q /\ reg'[2] = reg[1] /\ reg'[3] = reg[2]
  BY <1>1, <1>3, FetchClock DEF Bursts
<1>5. Filled(1)' /\ Filled(2)' /\ Filled(3)'
  BY <1>3 DEF Filled
<1>e. reg[1] \in Entries /\ reg[2] \in Entries
  BY <1>2, FilledEntries
<1>6. BurstInv'
  <2>1. \A i \in 1 .. 3 : reg'[i] \in Entries
    BY <1>4, <1>e
  <2> QED BY <1>3, <1>4, <2>1 DEF BurstInv
<1>7. UnderWay' = <<reg[2], reg[1]>> \o <<q>>
  <2>1. (CountInv => /\ fsm.state = "pharse_4" => UnderWay = <<reg[3], reg[2], reg[1]>>
                     /\ fsm.state = "read" /\ fsm.count = 3
                          => UnderWay = <<reg[3], reg[2], reg[1]>>)'
    BY UnderWayBy, PTL
  <2>2. <<reg[2], reg[1]>> \o <<q>> = <<reg[2], reg[1], q>>
    BY <1>4, <1>e, Rows
  <2> QED BY <1>3, <1>4, <2>1, <2>2
<1>8. Owed' = Owed \o ins
  <2>1. <<reg[2], reg[1]>> \in Seq(Entries)
    BY <1>e
  <2> QED BY <1>2, <1>4, <1>7, <2>1, FetchOne
<1> QED BY <1>1, <1>2, <1>3, <1>4, <1>5, <1>6, <1>8 DEF Orderly, Moves, Shifts
\* A clock in the steady state of a burst.
LEMMA Pharse4Clock ==
  ASSUME Working, NEW ins \in Arrivals, FifoClock(ins), Pharse4
  PROVE  Orderly(ins)
<1>1. /\ fsm.state = "pharse_4" /\ Fetch /\ Decide
      /\ IF MoreToRead THEN GoTo("pharse_4", TRUE, fsm.count)
                       ELSE GoTo("read", FALSE, fsm.count - 1)
  BY DEF Pharse4
<1>2. /\ fsm.count = 4 /\ UnderWay = <<reg[3], reg[2], reg[1]>>
      /\ Filled(1) /\ Filled(2) /\ Filled(3)
  BY <1>1, UnderWayBy DEF Working, PipeInv, CountInv, Filled
<1>3. /\ CountInv'
      /\ \/ MoreToRead /\ fsm'.state = "pharse_4"
         \/ ~ MoreToRead /\ fsm'.state = "read" /\ fsm'.count = 3
  <2>1. CASE MoreToRead
    BY <1>1, <1>2, <2>1, GoToCounts DEF States, Bursts
  <2>2. CASE ~ MoreToRead
    <3>1. fsm.count - 1 = 3
      BY <1>2
    <3>2. GoTo("read", FALSE, 3)
      BY <1>1, <2>2, <3>1, Zenon
    <3> QED BY <2>2, <3>2, GoToCounts DEF States, Bursts
  <2> QED BY <2>1, <2>2
<1>4. /\ LengthInv'
      /\ fsm'.state \in Bursts => fifo' # <<>> /\ q' = Head(fifo')
      /\ fifo \in Seq(Entries) /\ fifo # <<>> /\ q = Head(fifo) /\ q \in Entries
      /\ fifo' = Tail(fifo) \o ins /\ ins \in Seq(Entries)
      /\ reg'[1] = q /\ reg'[2] = reg[1] /\ reg'[3] = reg[2]
  BY <1>1, <1>3, FetchClock DEF Bursts
<1>e. reg[1] \in Entries /\ reg[2] \in Entries /\ reg[3] \in Entries
  BY <1>2, FilledEntries
<1>6. BurstInv'
  <2>1. \A i \in 1 .. 3 : reg'[i] \in Entries
    BY <1>4, <1>e
  <2> QED BY <1>3, <1>4, <2>1 DEF BurstInv
<1>7. /\ UnderWay = <<reg[3]>> \o <<reg[2], reg[1]>>
      /\ UnderWay' = <<reg[2], reg[1]>> \o <<q>>
  <2>1. (CountInv => /\ fsm.state = "pharse_4" => UnderWay = <<reg[3], reg[2], reg[1]>>
                     /\ fsm.state = "read" /\ fsm.count = 3
                          => UnderWay = <<reg[3], reg[2], reg[1]>>)'
    BY UnderWayBy, PTL
  <2>2. <<reg[2], reg[1]>> \o <<q>> = <<reg[2], reg[1], q>>
    BY <1>4, <1>e, Rows
  <2>3. <<reg[3]>> \o <<reg[2], reg[1]>> = <<reg[3], reg[2], reg[1]>>
    BY <1>e, <<reg[1]>> \in Seq(Entries), Rows
  <2>4. UnderWay' = <<reg'[3], reg'[2], reg'[1]>>
    BY <1>3, <2>1
  <2> QED BY <1>2, <1>4, <2>2, <2>3, <2>4
<1>8. Owed # <<>> /\ Head(Owed) = reg[3] /\ Owed' = Tail(Owed) \o ins
  <2>1. <<reg[2], reg[1]>> \in Seq(Entries)
    BY <1>e
  <2> QED BY <1>4, <1>7, <1>e, <2>1, ServeAndFetch
<1> QED BY <1>1, <1>2, <1>3, <1>4, <1>6, <1>8 DEF Orderly, Decides, Shifts

\* A clock in which no key is fetched: the FIFO takes what arrives.
LEMMA RestClock ==
  ASSUME Working, NEW ins \in Arrivals, FifoClock(ins), fsm.state \notin Bursts, NoFetch
  PROVE  /\ fifo' = fifo \o ins /\ ins \in Seq(Entries) /\ fifo \in Seq(Entries)
         /\ Len(fifo') <= Len(fifo) + 1 /\ Len(fifo) \in Nat /\ Len(fifo') \in Nat
         /\ empty_reg' \in BOOLEAN /\ (empty_reg' => Len(fifo') <= 1)
         /\ reg'[2] = reg[1] /\ reg'[3] = reg[2]
<1>1. ~ fsm.rd /\ fifo \in Seq(Entries)
  BY DEF Working, PipeInv, CountInv, LayerInv, EntriesInv
<1>2. /\ Rest = fifo /\ fifo' = fifo \o ins /\ fifo' \in Seq(Entries)
      /\ Len(fifo') = Len(fifo) + Len(ins)
      /\ empty_reg' \in BOOLEAN /\ (empty_reg' => Len(fifo') <= 1)
  BY <1>1, FifoTick DEF Rest
<1>3. Len(ins) \in Nat /\ Len(ins) <= 1 /\ ins \in Seq(Entries) /\ Len(fifo) \in Nat
  BY <1>1, ArrivalFacts
<1>4. reg'[2] = reg[1] /\ reg'[3] = reg[2]
  BY Registers DEF Working
<1> QED BY <1>1, <1>2, <1>3, <1>4

\* The first clock after a burst of one key.
LEMMA Wait1Clock ==
  ASSUME Working, NEW ins \in Arrivals, FifoClock(ins), Wait1
  PROVE  Orderly(ins)
<1>1. /\ fsm.state = "wait_1" /\ NoFetch /\ out' = out /\ port_b' = NoWrite
      /\ GoTo("wait_2", fsm.rd, fsm.count)
  BY DEF Wait1
<1>2. /\ fsm.count = 1 /\ out = <<>> /\ UnderWay = <<reg[1]>> /\ Filled(1)
      /\ fsm.rd = FALSE /\ Len(fifo) <= 2
  <2>1. fsm.rd \in BOOLEAN /\ ~ fsm.rd
    BY <1>1 DEF Working, PipeInv, CountInv, Bursts
  <2> QED BY <1>1, <2>1, UnderWayBy DEF Working, PipeInv, CountInv, BurstInv, Filled, LengthInv
<1>3. CountInv' /\ fsm'.state = "wait_2" /\ fsm'.count = 1
  BY <1>1, <1>2, GoToCounts DEF States, Bursts
<1>4. /\ fifo' = fifo \o ins /\ ins \in Seq(Entries) /\ fifo \in Seq(Entries)
      /\ Len(fifo') <= Len(fifo) + 1 /\ Len(fifo) \in Nat /\ Len(fifo') \in Nat
      /\ empty_reg' \in BOOLEAN /\ (empty_reg' => Len(fifo') <= 1)
      /\ reg'[2] = reg[1] /\ reg'[3] = reg[2]
  BY <1>1, RestClock DEF Bursts
<1>5. LengthInv'
  BY <1>2, <1>3, <1>4 DEF LengthInv, Bursts
<1>6. Filled(2)' /\ ~ Filled(1)' /\ ~ Filled(3)' /\ reg[1] \in Entries
  BY <1>2, <1>3, FilledEntries DEF Filled
<1>7. BurstInv'
  <2>1. \A i \in 1 .. 3 : Filled(i)' => reg'[i] \in Entries
    BY <1>3, <1>4, <1>6 DEF Filled
  <2> QED BY <1>1, <1>2, <1>3, <2>1 DEF BurstInv, Bursts
<1>8. Owed' = Owed \o ins
  <2>1. (CountInv => (fsm.state = "wait_2" /\ fsm.count = 1 => UnderWay = <<reg[2]>>))'
    BY UnderWayBy, PTL
  <2>2. UnderWay' = <<reg[1]>>
    BY <1>3, <1>4, <2>1
  <2>3. <<reg[1]>> \in Seq(Entries)
    BY <1>6
  <2> QED BY <1>2, <1>4, <2>2, <2>3, ConcatAssociative DEF Owed
<1> QED BY <1>1, <1>2, <1>3, <1>4, <1>5, <1>6, <1>7, <1>8 DEF Orderly, Moves, Shifts

\* The second clock after a burst of one key, the first after one of two.
LEMMA Wait2Clock ==
  ASSUME Working, NEW ins \in Arrivals, FifoClock(ins), Wait2
  PROVE  Orderly(ins)
<1>1. /\ fsm.state = "wait_2" /\ NoFetch /\ out' = out /\ port_b' = NoWrite
      /\ GoTo("read", fsm.rd, fsm.count)
  BY DEF Wait2
<1>2. /\ fsm.count \in {1, 2} /\ out = <<>> /\ Filled(2) /\ (fsm.count = 2 => Filled(1))
      /\ fsm.rd = FALSE /\ Len(fifo) <= 4 - fsm.count
      /\ fsm.count = 1 => UnderWay = <<reg[2]>>
      /\ fsm.count = 2 => UnderWay = <<reg[2], reg[1]>>
  <2>1. fsm.rd \in BOOLEAN /\ ~ fsm.rd
    BY <1>1 DEF Working, PipeInv, CountInv, Bursts
  <2>2. fsm.count \in {1, 2} /\ out = <<>> /\ Len(fifo) <= 4 - fsm.count
    BY <1>1 DEF Working, PipeInv, CountInv, BurstInv, LengthInv
  <2>3. Filled(2) /\ (fsm.count = 2 => Filled(1))
    BY <1>1, <2>2 DEF Filled
  <2> QED BY <1>1, <2>1, <2>2, <2>3, UnderWayBy DEF Working, PipeInv
<1>3. CountInv' /\ fsm'.state = "read" /\ fsm'.count = fsm.count
  BY <1>1, <1>2, GoToCounts DEF States, Bursts
<1>4. /\ fifo' = fifo \o ins /\ ins \in Seq(Entries) /\ fifo \in Seq(Entries)
      /\ Len(fifo') <= Len(fifo) + 1 /\ Len(fifo) \in Nat /\ Len(fifo') \in Nat
      /\ empty_reg' \in BOOLEAN /\ (empty_reg' => Len(fifo') <= 1)
      /\ reg'[2] = reg[1] /\ reg'[3] = reg[2]
  BY <1>1, RestClock DEF Bursts
<1>5. LengthInv'
  BY <1>2, <1>3, <1>4 DEF LengthInv, Bursts
<1>6. /\ Filled(3)' /\ ~ Filled(1)' /\ (Filled(2)' <=> fsm.count = 2)
      /\ reg[2] \in Entries /\ (fsm.count = 2 => reg[1] \in Entries)
  BY <1>2, <1>3, FilledEntries DEF Filled
<1>7. BurstInv'
  <2>1. \A i \in 1 .. 3 : Filled(i)' => reg'[i] \in Entries
    <3>1. \A i \in 1 .. 3 : Filled(i)' => i = 3 \/ (i = 2 /\ fsm.count = 2)
      BY <1>2, <1>3 DEF Filled
    <3> QED BY <1>4, <1>6, <3>1
  <2> QED BY <1>1, <1>2, <1>3, <2>1 DEF BurstInv, Bursts
<1>8. UnderWay' = UnderWay /\ UnderWay \in Seq(Entries)
  <2>1. (CountInv => /\ fsm.state = "read" /\ fsm.count = 1 => UnderWay = <<reg[3]>>
                     /\ fsm.state = "read" /\ fsm.count = 2
                          => UnderWay = <<reg[3], reg[2]>>)'
    BY UnderWayBy, PTL
  <2>2. CASE fsm.count = 1
    <3>1. UnderWay' = <<reg'[3]>> /\ UnderWay = <<reg[2]>>
      BY <1>2, <1>3, <2>1, <2>2
    <3> QED BY <1>4, <1>6, <3>1
  <2>3. CASE fsm.count = 2
    <3>1. UnderWay' = <<reg'[3], reg'[2]>> /\ UnderWay = <<reg[2], reg[1]>>
      BY <1>2, <1>3, <2>1, <2>3
    <3> QED BY <1>4, <1>6, <2>3, <3>1
  <2> QED BY <1>2, <2>2, <2>3
<1>9. Owed' = Owed \o ins
  <2> DEFINE u == UnderWay
  <2>1. u \in Seq(Entries) /\ fifo \in Seq(Entries) /\ ins \in Seq(Entries)
    BY <1>4, <1>8
  <2> HIDE DEF u
  <2>2. (u \o fifo) \o ins = u \o (fifo \o ins)
    BY <2>1, ConcatAssociative
  <2> QED BY <1>4, <1>8, <2>2 DEF Owed, u
<1> QED BY <1>1, <1>2, <1>3, <1>4, <1>5, <1>6, <1>7, <1>9 DEF Orderly, Moves, Shifts
\* A clock after a burst in which one of its last keys is decided.
LEMMA ReadClock ==
  ASSUME Working, NEW ins \in Arrivals, FifoClock(ins), Read
  PROVE  Orderly(ins)
<1>1. /\ fsm.state = "read" /\ NoFetch /\ Decide
      /\ IF LastOfBurst THEN GoTo("idle", fsm.rd, fsm.count)
                        ELSE GoTo("read", fsm.rd, fsm.count - 1)
  BY DEF Read
<1>2. /\ fsm.count \in {1, 2, 3} /\ fsm.rd = FALSE /\ Len(fifo) <= 5 - fsm.count
      /\ Filled(3) /\ (fsm.count >= 2 => Filled(2)) /\ (fsm.count = 3 => Filled(1))
      /\ fsm.count = 1 => UnderWay = <<reg[3]>>
      /\ fsm.count = 2 => UnderWay = <<reg[3], reg[2]>>
      /\ fsm.count = 3 => UnderWay = <<reg[3], reg[2], reg[1]>>
  <2>1. fsm.rd \in BOOLEAN /\ ~ fsm.rd
    BY <1>1 DEF Working, PipeInv, CountInv, Bursts
  <2>2. fsm.count \in {1, 2, 3} /\ Len(fifo) <= 5 - fsm.count
    BY <1>1 DEF Working, PipeInv, CountInv, LengthInv
  <2>3. Filled(3) /\ (fsm.count >= 2 => Filled(2)) /\ (fsm.count = 3 => Filled(1))
    BY <1>1, <2>2 DEF Filled
  <2> QED BY <1>1, <2>1, <2>2, <2>3, UnderWayBy DEF Working, PipeInv
<1>3. /\ CountInv'
      /\ \/ fsm.count = 1 /\ fsm'.state = "idle"
         \/ fsm.count = 2 /\ fsm'.state = "read" /\ fsm'.count = 1
         \/ fsm.count = 3 /\ fsm'.state = "read" /\ fsm'.count = 2
  <2>1. CASE fsm.count = 1
    <3>1. GoTo("idle", FALSE, 1)
      BY <1>1, <1>2, <2>1 DEF LastOfBurst
    <3> QED BY <2>1, <3>1, GoToCounts DEF States, Bursts
  <2>2. CASE fsm.count = 2
    <3>1. fsm.count - 1 = 1 /\ ~ LastOfBurst
      BY <2>2 DEF LastOfBurst
    <3>2. GoTo("read", FALSE, 1)
      BY <1>1, <1>2, <3>1, Zenon
    <3> QED BY <2>2, <3>2, GoToCounts DEF States, Bursts
  <2>3. CASE fsm.count = 3
    <3>1. fsm.count - 1 = 2 /\ ~ LastOfBurst
      BY <2>3 DEF LastOfBurst
    <3>2. GoTo("read", FALSE, 2)
      BY <1>1, <1>2, <3>1, Zenon
    <3> QED BY <2>3, <3>2, GoToCounts DEF States, Bursts
  <2> QED BY <1>2, <2>1, <2>2, <2>3
<1>4. /\ fifo' = fifo \o ins /\ ins \in Seq(Entries) /\ fifo \in Seq(Entries)
      /\ Len(fifo') <= Len(fifo) + 1 /\ Len(fifo) \in Nat /\ Len(fifo') \in Nat
      /\ empty_reg' \in BOOLEAN /\ (empty_reg' => Len(fifo') <= 1)
      /\ reg'[2] = reg[1] /\ reg'[3] = reg[2]
  BY <1>1, RestClock DEF Bursts
<1>5. LengthInv'
  BY <1>2, <1>3, <1>4 DEF LengthInv, Bursts
<1>6. /\ ~ Filled(1)' /\ (Filled(2)' => fsm.count = 3) /\ (Filled(3)' => fsm.count >= 2)
      /\ \A i \in 1 .. 3 : Filled(i)' =>
           \/ i = 3 /\ fsm.count >= 2
           \/ i = 2 /\ fsm.count = 3
  BY <1>3 DEF Filled
<1>e. /\ reg[3] \in Entries /\ (fsm.count >= 2 => reg[2] \in Entries)
      /\ (fsm.count = 3 => reg[1] \in Entries)
  BY <1>2, FilledEntries
<1>7. BurstInv'
  <2>1. \A i \in 1 .. 3 : Filled(i)' => reg'[i] \in Entries
    BY <1>4, <1>6, <1>e
  <2> QED BY <1>3, <2>1 DEF BurstInv, Bursts
<1>8. \E u \in Seq(Entries) : UnderWay = <<reg[3]>> \o u /\ UnderWay' = u
  <2>1. (CountInv => /\ fsm.state \in {"idle", "pharse_1"} => UnderWay = <<>>
                     /\ fsm.state = "read" /\ fsm.count = 1 => UnderWay = <<reg[3]>>
                     /\ fsm.state = "read" /\ fsm.count = 2
                          => UnderWay = <<reg[3], reg[2]>>)'
    BY UnderWayBy, PTL
  <2>2. CASE fsm.count = 1
    <3>1. UnderWay' = <<>> /\ UnderWay = <<reg[3]>>
      BY <1>2, <1>3, <2>1, <2>2
    <3>2. <<reg[3]>> \o <<>> = <<reg[3]>> /\ <<>> \in Seq(Entries)
      <4>1. <<reg[3]>> \in Seq(Entries)
        BY <1>e
      <4> QED BY <4>1, ConcatEmptySeq
    <3> QED BY <3>1, <3>2
  <2>3. CASE fsm.count = 2
    <3>1. UnderWay' = <<reg[2]>> /\ UnderWay = <<reg[3], reg[2]>>
      BY <1>2, <1>3, <1>4, <2>1, <2>3
    <3>2. <<reg[3]>> \o <<reg[2]>> = <<reg[3], reg[2]>> /\ <<reg[2]>> \in Seq(Entries)
      <4>1. reg[2] \in Entries /\ <<reg[2]>> \in Seq(Entries)
        BY <1>e, <2>3
      <4> QED BY <1>e, <4>1, Rows
    <3> QED BY <3>1, <3>2
  <2>4. CASE fsm.count = 3
    <3>1. UnderWay' = <<reg[2], reg[1]>> /\ UnderWay = <<reg[3], reg[2], reg[1]>>
      BY <1>2, <1>3, <1>4, <2>1, <2>4
    <3>2. /\ <<reg[3]>> \o <<reg[2], reg[1]>> = <<reg[3], reg[2], reg[1]>>
          /\ <<reg[2], reg[1]>> \in Seq(Entries)
      <4>1. reg[2] \in Entries /\ reg[1] \in Entries /\ <<reg[2], reg[1]>> \in Seq(Entries)
        BY <1>e, <2>4
      <4> QED BY <1>e, <4>1, Rows
    <3> QED BY <3>1, <3>2
  <2> QED BY <1>2, <2>2, <2>3, <2>4
<1>9. Owed # <<>> /\ Head(Owed) = reg[3] /\ Owed' = Tail(Owed) \o ins
  <2>1. PICK u \in Seq(Entries) : UnderWay = <<reg[3]>> \o u /\ UnderWay' = u
    BY <1>8
  <2> QED BY <1>4, <1>e, <2>1, ServeOne
<1>10. Shifts
  BY <1>2, <1>4, <1>6 DEF Shifts
<1> QED BY <1>1, <1>2, <1>3, <1>5, <1>7, <1>9, <1>10 DEF Orderly, Decides

\* Whatever the state, a clock keeps the order of the entries, as long as the next
\* layer does not ask this one to stop.
LEMMA OrderlyTick ==
  ASSUME Working, NEW ins \in Arrivals, NEW alf, ~ alf, Tick(ins, alf)
  PROVE  Orderly(ins)
<1>1. FifoClock(ins)
  BY DEF Tick
<1>2. \/ Idle(alf) \/ Pharse(1, "wait_1") \/ Pharse(2, "wait_2") \/ Pharse(3, "read")
      \/ Pharse4 \/ Wait1 \/ Wait2 \/ Read
  BY DEF Tick
<1> QED BY <1>1, <1>2, IdleClock, Pharse1Clock, Pharse2Clock, Pharse3Clock, Pharse4Clock,
           Wait1Clock, Wait2Clock, ReadClock
-----------------------------------------------------------------------------
(* The words on their way out of the RAM.                                  *)

\* Where the filled registers are in the order of the entries.
LEMMA FilledPlaces ==
  ASSUME Working
  PROVE  /\ Owed \in Seq(Entries)
         /\ \A i \in 1 .. 3 : Filled(i) =>
              \E p \in 1 .. 3 : p <= Len(Owed) /\ Owed[p] = reg[i]
         /\ \A i \in 1 .. 2 : Filled(i) /\ Filled(3) =>
              \E p \in 2 .. 3 : p <= Len(Owed) /\ Owed[p] = reg[i]
         /\ Filled(3) => 1 <= Len(Owed) /\ Owed[1] = reg[3]
<1>1. fifo \in Seq(Entries) /\ CountInv /\ fsm.state \in States
  BY DEF Working, LayerInv, EntriesInv, PipeInv, CountInv
<1>2. \A i \in 1 .. 3 : Filled(i) => reg[i] \in Entries
  BY FilledEntries
<1>3. UnderWay \in Seq(Entries) =>
        /\ Owed \in Seq(Entries) /\ Len(UnderWay) <= Len(Owed)
        /\ \A p \in 1 .. Len(UnderWay) : Owed[p] = UnderWay[p]
  <2> DEFINE u == UnderWay
  <2> HIDE DEF u
  <2>1. u \in Seq(Entries) =>
          /\ u \o fifo \in Seq(Entries) /\ Len(u) <= Len(u \o fifo)
          /\ \A p \in 1 .. Len(u) : (u \o fifo)[p] = u[p]
    BY <1>1
  <2> QED BY <2>1 DEF Owed, u
<1>4. CASE fsm.state \in {"idle", "pharse_1"}
  <2>1. (\A i \in 1 .. 3 : ~ Filled(i)) /\ UnderWay = <<>>
    BY <1>1, <1>4, UnderWayBy DEF Filled
  <2> QED BY <1>3, <2>1
<1>5. CASE fsm.state \in {"pharse_2", "wait_1"}
  <2>1. /\ Filled(1) /\ ~ Filled(3) /\ (\A i \in 1 .. 3 : Filled(i) => i = 1)
        /\ UnderWay = <<reg[1]>>
    BY <1>1, <1>5, UnderWayBy DEF Filled
  <2>2. <<reg[1]>> \in Seq(Entries) /\ Len(<<reg[1]>>) = 1 /\ <<reg[1]>>[1] = reg[1]
    BY <1>2, <2>1
  <2>3. Owed \in Seq(Entries) /\ 1 <= Len(Owed) /\ Owed[1] = reg[1]
    BY <1>3, <2>1, <2>2
  <2> QED BY <2>1, <2>3
<1>6. CASE fsm.state = "wait_2" /\ fsm.count = 1
  <2>1. /\ Filled(2) /\ ~ Filled(3) /\ (\A i \in 1 .. 3 : Filled(i) => i = 2)
        /\ UnderWay = <<reg[2]>>
    BY <1>1, <1>6, UnderWayBy DEF Filled
  <2>2. <<reg[2]>> \in Seq(Entries) /\ Len(<<reg[2]>>) = 1 /\ <<reg[2]>>[1] = reg[2]
    BY <1>2, <2>1
  <2>3. Owed \in Seq(Entries) /\ 1 <= Len(Owed) /\ Owed[1] = reg[2]
    BY <1>3, <2>1, <2>2
  <2> QED BY <2>1, <2>3
<1>7. CASE fsm.state = "pharse_3" \/ (fsm.state = "wait_2" /\ fsm.count = 2)
  <2>1. /\ Filled(1) /\ Filled(2) /\ ~ Filled(3) /\ UnderWay = <<reg[2], reg[1]>>
    BY <1>1, <1>7, UnderWayBy DEF Filled
  <2>2. /\ <<reg[2], reg[1]>> \in Seq(Entries) /\ Len(<<reg[2], reg[1]>>) = 2
        /\ <<reg[2], reg[1]>>[1] = reg[2] /\ <<reg[2], reg[1]>>[2] = reg[1]
    BY <1>2, <2>1
  <2>3. /\ Owed \in Seq(Entries) /\ 2 <= Len(Owed)
        /\ Owed[1] = reg[2] /\ Owed[2] = reg[1]
    BY <1>3, <2>1, <2>2
  <2> QED BY <2>1, <2>3
<1>8. CASE fsm.state = "read" /\ fsm.count = 1
  <2>1. /\ Filled(3) /\ (\A i \in 1 .. 3 : Filled(i) => i = 3) /\ UnderWay = <<reg[3]>>
    BY <1>1, <1>8, UnderWayBy DEF Filled
  <2>2. <<reg[3]>> \in Seq(Entries) /\ Len(<<reg[3]>>) = 1 /\ <<reg[3]>>[1] = reg[3]
    BY <1>2, <2>1
  <2>3. Owed \in Seq(Entries) /\ 1 <= Len(Owed) /\ Owed[1] = reg[3]
    BY <1>3, <2>1, <2>2
  <2> QED BY <2>1, <2>3
<1>9. CASE fsm.state = "read" /\ fsm.count = 2
  <2>1. /\ Filled(2) /\ Filled(3) /\ ~ Filled(1) /\ UnderWay = <<reg[3], reg[2]>>
    BY <1>1, <1>9, UnderWayBy DEF Filled
  <2>2. /\ <<reg[3], reg[2]>> \in Seq(Entries) /\ Len(<<reg[3], reg[2]>>) = 2
        /\ <<reg[3], reg[2]>>[1] = reg[3] /\ <<reg[3], reg[2]>>[2] = reg[2]
    BY <1>2, <2>1
  <2>3. /\ Owed \in Seq(Entries) /\ 2 <= Len(Owed)
        /\ Owed[1] = reg[3] /\ Owed[2] = reg[2]
    BY <1>3, <2>1, <2>2
  <2> QED BY <2>1, <2>3
<1>10. CASE fsm.state = "pharse_4" \/ (fsm.state = "read" /\ fsm.count = 3)
  <2> DEFINE u == <<reg[3], reg[2], reg[1]>>
  <2>1. Filled(1) /\ Filled(2) /\ Filled(3) /\ UnderWay = u
    BY <1>1, <1>10, UnderWayBy DEF Filled
  <2>2. /\ u \in Seq(Entries) /\ Len(u) = 3
        /\ u[1] = reg[3] /\ u[2] = reg[2] /\ u[3] = reg[1]
    BY <1>2, <2>1
  <2> HIDE DEF u
  <2>3. /\ Owed \in Seq(Entries) /\ 3 <= Len(Owed)
        /\ Owed[1] = reg[3] /\ Owed[2] = reg[2] /\ Owed[3] = reg[1]
    BY <1>3, <2>1, <2>2
  <2> QED BY <2>1, <2>3
<1>11. /\ fsm.state = "wait_2" => fsm.count \in {1, 2}
       /\ fsm.state = "read" => fsm.count \in {1, 2, 3}
  BY <1>1 DEF CountInv
<1> QED BY <1>1, <1>4, <1>5, <1>6, <1>7, <1>8, <1>9, <1>10, <1>11 DEF States
\* What a clock does to the abstract layer: a pause, or the oldest entry is served.
Waits(ins) == Owed' = Owed \o ins /\ out' = <<>> /\ Table' = Table /\ Writing' = {}
Serves(ins) ==
  /\ Owed # <<>>
  /\ Owed' = Tail(Owed) \o ins
  /\ Counted(Table[bucket[Head(Owed)]], Head(Owed)) =>
       /\ Table' = [Table EXCEPT ![bucket[Head(Owed)]] =
                      Count(Table[bucket[Head(Owed)]], Head(Owed))]
       /\ out' = <<Zero>> /\ Writing' = {bucket[Head(Owed)]}
  /\ ~ Counted(Table[bucket[Head(Owed)]], Head(Owed)) =>
       Table' = Table /\ out' = <<Head(Owed)>> /\ Writing' = {}

\* Keys under way differ in their buckets from each other and from the word that is
\* being written.
LEMMA FilledApart ==
  ASSUME Working, Apart(Owed, Writing)
  PROVE  /\ \A i \in 1 .. 3 : Filled(i) /\ reg[i] # Zero => bucket[reg[i]] \notin Writing
         /\ \A i \in 1 .. 2 : Filled(i) /\ Filled(3) /\ reg[i] # Zero /\ reg[3] # Zero =>
              bucket[reg[3]] # bucket[reg[i]]
<1>1. Owed \in Seq(Entries) /\ Len(Owed) \in Nat
  BY FilledPlaces
<1>2. ASSUME NEW i \in 1 .. 3, Filled(i), reg[i] # Zero PROVE bucket[reg[i]] \notin Writing
  <2>1. PICK p \in 1 .. 3 : p <= Len(Owed) /\ Owed[p] = reg[i]
    BY <1>2, FilledPlaces
  <2>2. p \in 1 .. Len(Owed) /\ p <= 3
    BY <1>1, <2>1
  <2> QED BY <1>2, <2>1, <2>2 DEF Apart
<1>3. ASSUME NEW i \in 1 .. 2, Filled(i), Filled(3), reg[i] # Zero, reg[3] # Zero
      PROVE  bucket[reg[3]] # bucket[reg[i]]
  <2>1. PICK p \in 2 .. 3 : p <= Len(Owed) /\ Owed[p] = reg[i]
    BY <1>3, FilledPlaces
  <2>2. 1 <= Len(Owed) /\ Owed[1] = reg[3]
    BY <1>3, FilledPlaces
  <2>3. 1 \in 1 .. Len(Owed) /\ p \in 1 .. Len(Owed) /\ 1 < p /\ p <= 1 + 3
    BY <1>1, <2>1, <2>2
  <2> QED BY <1>3, <2>1, <2>2, <2>3 DEF Apart
<1> QED BY <1>2, <1>3

\* The words of the table are sound, the one on its way included.
LEMMA TableSound ==
  ASSUME LayerAssumption, LayerInv
  PROVE  Table \in [Buckets -> SoundWord]
<1>1. /\ ram \in [Buckets -> SoundWord]
      /\ port_b.addr \in Buckets /\ port_b.data \in SoundWord
  BY DEF LayerInv, WordsInv
<1> QED BY <1>1 DEF Table

\* A clock of the RAM writes the word on its way and reads the newest word of the
\* key that was fetched last.
LEMMA RamTick ==
  ASSUME Working, NewestInv, Apart(Owed, Writing), RamClock
  PROVE  /\ ram' = Table /\ ram_out_a' = douta
         /\ Filled(1) /\ reg[1] # Zero => douta' = Table[bucket[reg[1]]]
<1>1. ram' = Table /\ ram_out_a' = douta
  BY DEF RamClock, Table
<1>2. ASSUME Filled(1), reg[1] # Zero PROVE douta' = Table[bucket[reg[1]]]
  <2>1. port_a.rden /\ port_a.addr = bucket[reg[1]]
    BY <1>2 DEF NewestInv
  <2>2. bucket[reg[1]] \notin Writing
    BY <1>2, FilledApart
  <2>3. port_b.wren => port_b.addr # port_a.addr
    BY <2>1, <2>2 DEF Writing
  <2>4. ReadResults = {ram[port_a.addr]}
    BY <2>3 DEF ReadResults
  <2>5. douta' = ram[port_a.addr]
    BY <2>1, <2>4 DEF RamClock
  <2>6. Table[port_a.addr] = ram[port_a.addr]
    <3>1. ram \in [Buckets -> SoundWord] /\ port_a.addr \in Buckets
      BY DEF Working, LayerInv, WordsInv, EntriesInv
    <3> QED BY <2>3, <3>1 DEF Table
  <2> QED BY <2>1, <2>5, <2>6
<1> QED BY <1>1, <1>2

\* The word that is decided on is the newest one of its bucket.
LEMMA DecideTick ==
  ASSUME Working, NewestInv, Apart(Owed, Writing), NEW ins, RamClock, Moves(ins) \/ Decides(ins)
  PROVE  /\ Waits(ins) \/ Serves(ins)
         /\ \A b \in Buckets : (Filled(3) /\ reg[3] # Zero /\ bucket[reg[3]] = b)
                               \/ Table'[b] = Table[b]
<1>1. ram' = Table /\ Table \in [Buckets -> SoundWord]
  BY RamTick, TableSound DEF Working
<1>2. port_b' = NoWrite => Table' = Table /\ Writing' = {}
  <2>1. NoWrite.wren = FALSE
    BY DEF NoWrite
  <2> QED BY <1>1, <2>1 DEF Table, Writing
<1>3. CASE Moves(ins)
  BY <1>2, <1>3 DEF Moves, Waits
<1>4. CASE Decides(ins)
  <2> DEFINE e == Head(Owed)  w == Table[bucket[e]]
  <2>1. Filled(3) /\ Owed # <<>> /\ e = reg[3] /\ Decide /\ Owed' = Tail(Owed) \o ins
    BY <1>4 DEF Decides
  <2>2. e # Zero => w = ram_out_a
    BY <2>1 DEF NewestInv
  <2>3. Counted(w, e) <=> Counted(ram_out_a, reg[3])
    BY <2>1, <2>2 DEF Counted
  <2>4. CASE Counted(w, e)
    <3>1. /\ port_b' = [wren |-> TRUE, addr |-> bucket[reg[3]],
                        data |-> Count(ram_out_a, reg[3])]
          /\ out' = <<Zero>> /\ e # Zero
      BY <2>1, <2>3, <2>4 DEF Decide, Counted
    <3>2. /\ port_b'.wren /\ port_b'.addr = bucket[e] /\ port_b'.data = Count(w, e)
      BY <2>1, <2>2, <3>1
    <3>3. Table' = [Table EXCEPT ![bucket[e]] = Count(w, e)] /\ Writing' = {bucket[e]}
      BY <1>1, <3>2 DEF Table, Writing
    <3>4. Serves(ins)
      BY <2>1, <2>4, <3>1, <3>3 DEF Serves
    <3>5. \A b \in Buckets : b # bucket[e] => Table'[b] = Table[b]
      BY <1>1, <3>3
    <3> QED BY <2>1, <3>1, <3>4, <3>5
  <2>5. CASE ~ Counted(w, e)
    <3>1. port_b' = NoWrite /\ out' = <<e>>
      BY <2>1, <2>3, <2>5 DEF Decide
    <3> QED BY <1>2, <2>1, <2>5, <3>1 DEF Serves
  <2> QED BY <2>4, <2>5
<1> QED BY <1>3, <1>4

\* The word of every key under way stays the newest one of its bucket.
LEMMA NewestTick ==
  ASSUME Working, NewestInv, Apart(Owed, Writing), NEW ins \in Arrivals, RamClock, Orderly(ins)
  PROVE  NewestInv'
<1>1. /\ Shifts /\ (Moves(ins) \/ Decides(ins))
  BY DEF Orderly
<1>2. /\ reg'[2] = reg[1] /\ reg'[3] = reg[2]
      /\ Filled(3)' => Filled(2)
      /\ Filled(2)' => Filled(1)
      /\ Filled(1)' => (Fetch /\ reg'[1] = q)
  BY <1>1 DEF Shifts
<1>3. \A b \in Buckets : (Filled(3) /\ reg[3] # Zero /\ bucket[reg[3]] = b)
                         \/ Table'[b] = Table[b]
  BY <1>1, DecideTick
<1>4. ASSUME NEW i \in 1 .. 2, Filled(i), reg[i] # Zero
      PROVE  Table'[bucket[reg[i]]] = Table[bucket[reg[i]]]
  <2>1. bucket[reg[i]] \in Buckets
    <3>1. reg[i] \in Entries
      BY <1>4, FilledEntries
    <3> QED BY <3>1 DEF Working, LayerAssumption, EntryAssumption
  <2>2. ~ (Filled(3) /\ reg[3] # Zero /\ bucket[reg[3]] = bucket[reg[i]])
    BY <1>4, FilledApart
  <2> QED BY <1>3, <2>1, <2>2
<1>5. /\ ram_out_a' = douta
      /\ Filled(1) /\ reg[1] # Zero => douta' = Table[bucket[reg[1]]]
  BY RamTick
<1>6. ASSUME Filled(3)', reg'[3] # Zero PROVE ram_out_a' = Table'[bucket[reg'[3]]]
  <2>1. Filled(2) /\ reg[2] # Zero /\ reg'[3] = reg[2]
    BY <1>2, <1>6
  <2>2. douta = Table[bucket[reg[2]]]
    BY <2>1 DEF NewestInv
  <2> QED BY <1>4, <1>5, <2>1, <2>2
<1>7. ASSUME Filled(2)', reg'[2] # Zero PROVE douta' = Table'[bucket[reg'[2]]]
  <2>1. Filled(1) /\ reg[1] # Zero /\ reg'[2] = reg[1]
    BY <1>2, <1>7
  <2> QED BY <1>4, <1>5, <2>1
<1>8. ASSUME Filled(1)' PROVE port_a'.rden /\ port_a'.addr = bucket[reg'[1]]
  BY <1>2, <1>8 DEF Fetch
<1> QED BY <1>6, <1>7, <1>8 DEF NewestInv

\* A clock keeps what the pipe relies on, whatever the spacing of the keys.
LEMMA WorkingTick ==
  ASSUME Working, NEW ins \in Arrivals, NEW alf, ~ alf, Tick(ins, alf)
  PROVE  Working'
<1>1. Orderly(ins)
  BY OrderlyTick
<1>2. LayerInv'
  BY ArrivalFacts, TickSound DEF Working
<1> QED BY <1>1, <1>2
        DEF Working, PipeInv, Orderly, LayerAssumption, EntryAssumption, ThresholdAssumption,
            FifoAssumption, EnvironmentAssumption

\* One clock of a layer whose keys are far enough apart is one step of the abstract
\* layer, and keeps everything the pipe relies on but the spacing.
LEMMA LayerTick ==
  ASSUME Working, NewestInv, Apart(Owed, Writing),
         NEW ins \in Arrivals, NEW alf, ~ alf, Tick(ins, alf)
  PROVE  Working' /\ NewestInv' /\ (Waits(ins) \/ Serves(ins))
<1>1. Orderly(ins) /\ RamClock
  BY OrderlyTick DEF Tick
<1>2. NewestInv'
  BY <1>1, NewestTick
<1>3. Waits(ins) \/ Serves(ins)
  BY <1>1, DecideTick DEF Orderly
<1> QED BY <1>2, <1>3, WorkingTick
-----------------------------------------------------------------------------
(* The layer from its first clock on.                                      *)

\* What holds when the clock starts: nothing is owed and nothing is on its way.
LEMMA WorkingInit ==
  ASSUME LayerAssumption, DataDepth >= 8, LayerInv, NEW words, InitLayerAt(words)
  PROVE  /\ Working /\ NewestInv /\ ~ Filled(1) /\ ~ Filled(2) /\ ~ Filled(3)
         /\ UnderWay = <<>> /\ Owed = <<>> /\ Writing = {} /\ Table = ram
<1>1. /\ fifo = <<>> /\ empty_reg = TRUE /\ port_b = NoWrite /\ out = <<>>
      /\ fsm = [state |-> "idle", rd |-> FALSE, count |-> 0]
  BY DEF InitLayerAt
<1>2. fsm.state = "idle" /\ fsm.count = 0 /\ port_b.wren = FALSE
  BY <1>1 DEF NoWrite
<1>3. UnderWay = <<>> /\ Owed = <<>>
  BY <1>1, <1>2 DEF UnderWay, Owed
<1>4. Writing = {} /\ Table = ram
  BY <1>2 DEF Writing, Table
<1>5. ~ Filled(1) /\ ~ Filled(2) /\ ~ Filled(3)
  BY <1>2 DEF Filled
<1>6. CountInv
  <2>1. fsm \in [state : States, rd : BOOLEAN, count : Nat] /\ fsm.rd = FALSE
    BY <1>1 DEF States
  <2> QED BY <1>2, <2>1 DEF CountInv, Bursts
<1>7. LengthInv
  <2>1. Len(fifo) = 0 /\ empty_reg \in BOOLEAN
    BY <1>1
  <2> QED BY <1>2, <2>1 DEF LengthInv, Bursts
<1>8. BurstInv
  <2>1. \A i \in 1 .. 3 : ~ Filled(i)
    BY <1>2 DEF Filled
  <2> QED BY <1>1, <1>2, <2>1 DEF BurstInv, Bursts
<1>9. NewestInv
  BY <1>5 DEF NewestInv
<1> QED BY <1>3, <1>4, <1>5, <1>6, <1>7, <1>8, <1>9 DEF Working, PipeInv

\* What the layer relies on is about its own registers.
LEMMA LayerStutter ==
  ASSUME UNCHANGED clocked
  PROVE  /\ Working => Working'
         /\ NewestInv' = NewestInv /\ Owed' = Owed /\ UnderWay' = UnderWay
         /\ Writing' = Writing /\ Table' = Table
<1>1. UNCHANGED <<fifo, q, empty_reg, fsm, reg, port_a, douta, ram_out_a, port_b, ram, out>>
  BY DEF clocked
<1>2. LayerInv' = LayerInv
  BY <1>1 DEF LayerInv, WordsInv, EntriesInv
<1>3. (\A i \in 1 .. 3 : Filled(i)' = Filled(i)) /\ Table' = Table
  BY <1>1 DEF Filled, Table
<1>4. CountInv' = CountInv /\ LengthInv' = LengthInv
  BY <1>1 DEF CountInv, LengthInv
<1>5. BurstInv' = BurstInv
  BY <1>1, <1>3 DEF BurstInv
<1>6. NewestInv' = NewestInv
  BY <1>1, <1>3 DEF NewestInv
<1>7. Owed' = Owed /\ UnderWay' = UnderWay /\ Writing' = Writing
  BY <1>1 DEF Owed, UnderWay, Writing
<1>8. Working => Working'
  BY <1>2, <1>4, <1>5 DEF Working, PipeInv, LayerAssumption
<1> QED BY <1>3, <1>6, <1>7, <1>8

\* A sequence without entries is spaced.
LEMMA EmptySpaced ==
  ASSUME LayerAssumption, NEW r \in Seq(Entries)
  PROVE  Apart(<<>>, {}) /\ Remembered(<<>>, {}, r)
BY DEF Apart, Remembered

\* What is left of the entries after a clock is spaced.
LEMMA LeftSpaced ==
  ASSUME Working, NEW r \in Seq(Entries), NEW ins \in Arrivals,
         Apart(Owed, Writing), Remembered(Owed, Writing, r), Waits(ins) \/ Serves(ins)
  PROVE  \E s \in Seq(Entries) :
           Owed' = s \o ins /\ Apart(s, Writing') /\ Remembered(s, Writing', r)
<1>1. Owed \in Seq(Entries)
  BY FilledPlaces
<1>2. CASE Waits(ins)
  <2>1. Apart(Owed, {}) /\ Remembered(Owed, {}, r)
    BY DEF Apart, Remembered
  <2> QED BY <1>1, <1>2, <2>1 DEF Waits
<1>3. CASE Serves(ins)
  <2> DEFINE e == Head(Owed)
  <2>1. Owed # <<>> /\ Owed' = Tail(Owed) \o ins
    BY <1>3 DEF Serves
  <2>2. Writing' \subseteq {bucket[e]} /\ (Writing' # {} => e # Zero)
    BY <1>3 DEF Serves, Counted
  <2>3. Apart(Tail(Owed), Writing') /\ Remembered(Tail(Owed), Writing', r)
    BY <1>1, <2>1, <2>2, ServeKeepsApart, ServeKeepsRemembered
  <2>4. Tail(Owed) \in Seq(Entries)
    BY <1>1, <2>1
  <2> QED BY <2>1, <2>3, <2>4
<1> QED BY <1>2, <1>3

\* A sequence stays spaced when the environment sends nothing or something it may.
LEMMA ArrivesSpaced ==
  ASSUME LayerAssumption, Spacing >= 3, NEW s \in Seq(Entries), NEW B,
         NEW r \in Seq(Entries), Len(r) <= Spacing, NEW e \in Entries,
         Apart(s, B), Remembered(s, B, r),
         e # Zero => \A i \in 1 .. Len(r) : r[i] # Zero => bucket[r[i]] # bucket[e]
  PROVE  /\ Apart(s \o <<e>>, B) /\ Remembered(s \o <<e>>, B, LastOf(Append(r, e)))
         /\ LastOf(Append(r, e)) \in Seq(Entries) /\ Len(LastOf(Append(r, e))) <= Spacing
<1>1. Spacing > 0
  BY DEF LayerAssumption, EnvironmentAssumption
<1> QED BY <1>1, ArriveKeepsApart, ArriveKeepsRemembered, LastOfFacts

\* A clock counts a key in the table exactly where the layer keeps one.
LEMMA KeptTick ==
  ASSUME Working, NewestInv, Apart(Owed, Writing), NEW ins \in Arrivals, NEW alf, ~ alf,
         Tick(ins, alf), NEW b \in Buckets
  PROVE  /\ Table[b].total \in Nat
         /\ Table'[b].total = IF KeepsKey(b) THEN Table[b].total + 1 ELSE Table[b].total
<1>1. /\ Moves(ins) \/ Decides(ins)
      /\ ram' = Table /\ Table \in [Buckets -> SoundWord]
  BY OrderlyTick, RamTick, TableSound DEF Tick, Orderly, Working
<1>2. Table[b].total \in Nat /\ DOMAIN Table = Buckets
  BY <1>1 DEF SoundWord
<1>3. Filled(3) <=> fsm.state \in {"pharse_4", "read"}
  BY DEF Working, PipeInv, CountInv, Filled, States
<1>4. fsm.state \in {"pharse_4", "read"} => Decide
  BY DEF Tick, Idle, Pharse, Pharse4, Wait1, Wait2, Read
<1>5. NoWrite.wren = FALSE
  BY DEF NoWrite
<1>6. CASE Moves(ins)
  <2>1. Table' = Table
    BY <1>1, <1>5, <1>6 DEF Moves, Table
  <2>2. ~ Decide
    BY <1>6 DEF Moves, Decide
  <2> QED BY <1>2, <1>4, <2>1, <2>2 DEF KeepsKey
<1>7. CASE Decides(ins)
  <2> DEFINE a == bucket[reg[3]]
  <2>1. Filled(3) /\ Decide /\ fsm.state \in {"pharse_4", "read"}
    BY <1>3, <1>7 DEF Decides
  <2>2. CASE Counted(ram_out_a, reg[3])
    <3>1. ram_out_a = Table[a]
      BY <2>1, <2>2 DEF NewestInv, Counted
    <3>2. /\ port_b'.wren /\ port_b'.addr = a
          /\ port_b'.data = Count(Table[a], reg[3])
      BY <2>1, <2>2, <3>1 DEF Decide
    <3>3. Table' = [Table EXCEPT ![a] = Count(Table[a], reg[3])]
      BY <1>1, <3>2 DEF Table
    <3>4. CASE a = b
      <4>1. Table[b] \in [total : Nat, no : Nat, key : Shown]
        BY <1>1 DEF SoundWord
      <4>2. Count(Table[b], reg[3]).total = Table[b].total + 1
        BY <4>1 DEF Count
      <4>3. Table'[b] = Count(Table[b], reg[3])
        BY <1>2, <3>3, <3>4
      <4> QED BY <1>2, <2>1, <2>2, <3>4, <4>2, <4>3 DEF KeepsKey
    <3>5. CASE a # b
      BY <1>2, <3>3, <3>5 DEF KeepsKey
    <3> QED BY <3>4, <3>5
  <2>3. CASE ~ Counted(ram_out_a, reg[3])
    <3>1. port_b' = NoWrite
      BY <2>1, <2>3 DEF Decide
    <3>2. Table' = Table
      BY <1>1, <1>5, <3>1 DEF Table
    <3> QED BY <1>2, <2>3, <3>2 DEF KeepsKey
  <2> QED BY <2>2, <2>3
<1> QED BY <1>1, <1>6, <1>7

\* The environment and the wiring under which a layer keeps its promise: the next
\* layer never asks it to stop, the FIFO has eight entries or more (it has 16), and
\* three entries or more come between two keys of one bucket.
SpacedAssumption ==
  LayerAssumption /\ InKeyAlf \subseteq {FALSE} /\ DataDepth >= 8 /\ Spacing >= 3

SpacedInv == Working /\ NewestInv /\ SpacingInv /\ EveryKeyCounted

LEMMA SpacedInit == ASSUME SpacedAssumption, CSInit PROVE SpacedInv
<1>1. LayerAssumption /\ DataDepth >= 8
  BY DEF SpacedAssumption
<1>2. LayerInv
  BY <1>1, LayerInit
<1>3. InitLayerAt([b \in Buckets |-> ZeroWord])
  BY DEF CSInit, InitLayer
<1>4. Working /\ NewestInv /\ Owed = <<>> /\ Writing = {} /\ Table = ram
  BY <1>1, <1>2, <1>3, WorkingInit
<1>5. SpacingInv
  <2>1. recent = <<>> /\ recent \in Seq(Entries) /\ Len(recent) = 0 /\ Spacing \in Nat
    BY <1>1 DEF CSInit, LayerAssumption, EnvironmentAssumption
  <2>2. Apart(<<>>, {}) /\ Remembered(<<>>, {}, recent)
    BY <1>1, <2>1, EmptySpaced
  <2> QED BY <1>4, <2>1, <2>2 DEF SpacingInv
<1>6. EveryKeyCounted
  <2>1. Table = [b \in Buckets |-> ZeroWord] /\ kept = [b \in Buckets |-> 0]
    BY <1>3, <1>4 DEF CSInit, InitLayerAt
  <2> QED BY <2>1 DEF EveryKeyCounted, ZeroWord
<1> QED BY <1>4, <1>5, <1>6 DEF SpacedInv

\* One clock with the input ins, as far as it does not depend on what the
\* environment remembers.
LEMMA ClockSpaced ==
  ASSUME SpacedAssumption, SpacedInv, NEW ins \in Arrivals, TickIn(ins)
  PROVE  /\ Working' /\ NewestInv' /\ (Waits(ins) \/ Serves(ins)) /\ EveryKeyCounted'
         /\ \E s \in Seq(Entries) :
              Owed' = s \o ins /\ Apart(s, Writing') /\ Remembered(s, Writing', recent)
<1>1. PICK alf \in InKeyAlf : Tick(ins, alf)
  BY DEF TickIn
<1>2. ~ alf /\ Working /\ NewestInv /\ Apart(Owed, Writing)
  BY DEF SpacedAssumption, SpacedInv, SpacingInv
<1>3. Working' /\ NewestInv' /\ (Waits(ins) \/ Serves(ins))
  BY <1>1, <1>2, LayerTick
<1>4. EveryKeyCounted'
  <2>1. ASSUME NEW b \in Buckets PROVE Table'[b].total = kept'[b]
    <3>1. Table[b].total = kept[b]
      BY DEF SpacedInv, EveryKeyCounted
    <3>2. kept'[b] = IF KeepsKey(b) THEN kept[b] + 1 ELSE kept[b]
      BY DEF TickIn
    <3>3. Table'[b].total = IF KeepsKey(b) THEN Table[b].total + 1 ELSE Table[b].total
      BY <1>1, <1>2, KeptTick
    <3> QED BY <3>1, <3>2, <3>3
  <2> QED BY <2>1 DEF EveryKeyCounted
<1>5. \E s \in Seq(Entries) :
        Owed' = s \o ins /\ Apart(s, Writing') /\ Remembered(s, Writing', recent)
  BY <1>2, <1>3, LeftSpaced DEF SpacedInv, SpacingInv
<1> QED BY <1>3, <1>4, <1>5

\* Every step is a clock with an entry or without.
LEMMA TickOfNext == ASSUME CSNext PROVE \E ins \in Arrivals : TickIn(ins)
<1>1. <<>> \in Arrivals /\ \A e \in Entries : <<e>> \in Arrivals
  BY DEF Arrivals
<1>2. CASE Quiet
  BY <1>1, <1>2 DEF Quiet
<1>3. CASE SendZero
  BY <1>1, <1>3 DEF SendZero, Entries
<1>4. ASSUME NEW k \in Keys, SendKey(k) PROVE TickIn(<<k>>) /\ k \in Entries
  BY <1>4 DEF SendKey, Entries
<1> QED BY <1>1, <1>2, <1>3, <1>4 DEF CSNext, Send

LEMMA SpacedStep == ASSUME SpacedAssumption, SpacedInv, [CSNext]_vars PROVE SpacedInv'
<1>1. Working /\ SpacingInv /\ LayerAssumption /\ Spacing >= 3
  BY DEF SpacedInv, SpacedAssumption
<1>2. recent \in Seq(Entries) /\ Len(recent) <= Spacing
  BY <1>1 DEF SpacingInv
<1>3. ASSUME Quiet PROVE SpacedInv'
  <2>1. TickIn(<<>>) /\ recent' = recent /\ <<>> \in Arrivals
    BY <1>3 DEF Quiet, Arrivals
  <2>2. PICK s \in Seq(Entries) :
          Owed' = s \o <<>> /\ Apart(s, Writing') /\ Remembered(s, Writing', recent)
    BY <2>1, ClockSpaced
  <2>3. s \o <<>> = s
    BY ConcatEmptySeq
  <2>4. SpacingInv'
    BY <1>2, <2>1, <2>2, <2>3 DEF SpacingInv
  <2> QED BY <2>1, <2>4, ClockSpaced DEF SpacedInv
<1>4. ASSUME NEW e \in Entries, TickIn(<<e>>), recent' = LastOf(Append(recent, e)),
             e # Zero => \A i \in 1 .. Len(recent) :
                           recent[i] # Zero => bucket[recent[i]] # bucket[e]
      PROVE  SpacedInv'
  <2>1. <<e>> \in Arrivals
    BY DEF Arrivals
  <2>2. PICK s \in Seq(Entries) :
          Owed' = s \o <<e>> /\ Apart(s, Writing') /\ Remembered(s, Writing', recent)
    BY <1>4, <2>1, ClockSpaced
  <2>3. SpacingInv'
    BY <1>1, <1>2, <1>4, <2>2, ArrivesSpaced DEF SpacingInv
  <2> QED BY <1>4, <2>1, <2>3, ClockSpaced DEF SpacedInv
<1>5. ASSUME SendZero PROVE SpacedInv'
  BY <1>4, <1>5 DEF SendZero, Entries
<1>6. ASSUME NEW k \in Keys, SendKey(k) PROVE SpacedInv'
  <2>1. k \in Entries
    BY DEF Entries
  <2> QED BY <1>4, <1>6, <2>1 DEF SendKey, Sendable
<1>7. CASE UNCHANGED vars
  <2>1. UNCHANGED clocked /\ UNCHANGED <<recent, kept>>
    BY <1>7 DEF vars
  <2>2. /\ Working' /\ NewestInv' = NewestInv /\ Owed' = Owed /\ Writing' = Writing
        /\ Table' = Table
    BY <1>1, <2>1, LayerStutter
  <2>3. SpacingInv' = SpacingInv /\ EveryKeyCounted' = EveryKeyCounted
    BY <2>1, <2>2 DEF SpacingInv, EveryKeyCounted
  <2> QED BY <2>2, <2>3 DEF SpacedInv
<1> QED BY <1>3, <1>5, <1>6, <1>7 DEF CSNext, Send

LEMMA SpacedAlways == ASSUME SpacedAssumption PROVE CSSpec => []SpacedInv
<1>1. CSInit => SpacedInv
  BY SpacedInit
<1>2. SpacedInv /\ [CSNext]_vars => SpacedInv'
  BY SpacedStep
<1> QED BY <1>1, <1>2, PTL DEF CSSpec

\* The pause between two bursts is short enough for the entries that arrive in it:
\* the FIFO never holds more than six, however they arrive.
LEMMA ShortFifo == ASSUME Working PROVE NeverFull
<1>1. fifo \in Seq(Entries) /\ Len(fifo) \in Nat /\ DataDepth \in Nat /\ DataDepth >= 8
  BY DEF Working, LayerInv, EntriesInv, LayerAssumption, FifoAssumption
<1>2. Len(fifo) <= 6
  BY <1>1 DEF Working, PipeInv, LengthInv, CountInv, States, Bursts
<1>3. Len(fifo) % DataDepth = Len(fifo)
  BY <1>1, <1>2
<1> QED BY <1>1, <1>2, <1>3 DEF NeverFull, AllmostFull, Usedw

\* No pattern of arrivals fills the FIFO of a layer that is never asked to stop,
\* however close keys of one bucket follow each other (MoreToRead and the pauses of the
\* state machine in CS_Bucket_1.v).
THEOREM NeverFullAlways ==
  ASSUME LayerAssumption, InKeyAlf \subseteq {FALSE}, DataDepth >= 8
  PROVE  CSSpec => []NeverFull
<1>1. CSInit => Working
  BY LayerInit, WorkingInit DEF CSInit, InitLayer
<1>2. Working /\ [CSNext]_vars => Working'
  <2> SUFFICES ASSUME Working, [CSNext]_vars PROVE Working'
    OBVIOUS
  <2>1. ASSUME NEW ins \in Arrivals, TickIn(ins) PROVE Working'
    BY <2>1, WorkingTick DEF TickIn
  <2>2. CASE CSNext
    BY <2>1, <2>2, TickOfNext
  <2>3. CASE UNCHANGED vars
    BY <2>3, LayerStutter DEF vars
  <2> QED BY <2>2, <2>3
<1>3. Working => NeverFull
  BY ShortFifo
<1> QED BY <1>1, <1>2, <1>3, PTL DEF CSSpec

\* No word that is written overtakes a newer one when keys of one bucket are four
\* entries apart: every key the layer kept is counted in its bucket.
THEOREM EveryKeyCountedAlways == ASSUME SpacedAssumption PROVE CSSpec => []EveryKeyCounted
<1>1. SpacedInv => EveryKeyCounted
  BY DEF SpacedInv
<1> QED BY <1>1, SpacedAlways, PTL

\* The layer, with its bursts, its read pipeline and its write port, implements the
\* layer that serves one key after another, each against the newest table.
THEOREM ImplementsLayer == ASSUME SpacedAssumption PROVE CSSpec => ServesAsPromised
<1>1. CSInit => Abstract!Init
  <2> SUFFICES ASSUME CSInit PROVE Abstract!Init
    OBVIOUS
  <2>1. LayerAssumption /\ DataDepth >= 8 /\ LayerInv /\ InitLayerAt([b \in Buckets |-> ZeroWord])
    BY LayerInit DEF SpacedAssumption, CSInit, InitLayer
  <2>2. UnderWay = <<>> /\ Table = ram
    BY <2>1, WorkingInit
  <2>3. UnderWay \o fifo = <<>>
    BY <2>1, <2>2 DEF InitLayerAt
  <2> QED BY <2>1, <2>2, <2>3 DEF Abstract!Init, InitLayerAt, ZeroWord, Abstract!ZeroWord
<1>2. ASSUME SpacedInv, NEW ins \in Arrivals, TickIn(ins) PROVE Abstract!Next
  <2>1. ins \in {<<>>} \cup {<<e>> : e \in Abstract!Entries}
    BY DEF Arrivals, Entries, Abstract!Entries
  <2>2. CASE Waits(ins)
    <3>1. Abstract!Wait(ins)
      BY <2>2 DEF Waits, Owed, Abstract!Wait
    <3> QED BY <2>1, <3>1 DEF Abstract!Next
  <2>3. CASE Serves(ins)
    <3> DEFINE e == Head(Owed)  w == Table[bucket[e]]
    <3>1. /\ Abstract!Counted(w, e) <=> Counted(w, e)
          /\ Abstract!Count(w, e) = Count(w, e)
      BY DEF Abstract!Counted, Counted, Abstract!Keeps, Keeps, Abstract!Contested, Contested,
             Abstract!Count, Count
    <3>2. /\ Owed # <<>> /\ Owed' = Tail(Owed) \o ins
          /\ Counted(w, e) => Table' = [Table EXCEPT ![bucket[e]] = Count(w, e)]
                              /\ out' = <<Zero>>
          /\ ~ Counted(w, e) => Table' = Table /\ out' = <<e>>
      BY <2>3 DEF Serves
    <3>3. Abstract!Serve(ins)
      BY <3>1, <3>2 DEF Owed, Abstract!Serve
    <3> QED BY <2>1, <3>3 DEF Abstract!Next
  <2> QED BY <1>2, <2>2, <2>3, ClockSpaced
<1>3. SpacedInv /\ [CSNext]_vars => [Abstract!Next]_<<Table, UnderWay \o fifo, out>>
  <2> SUFFICES ASSUME SpacedInv, [CSNext]_vars
               PROVE  [Abstract!Next]_<<Table, UnderWay \o fifo, out>>
    OBVIOUS
  <2>3. ASSUME CSNext PROVE \E ins \in Arrivals : TickIn(ins)
    BY <2>3, TickOfNext
  <2>4. CASE UNCHANGED vars
    BY <2>4 DEF vars, clocked, Table, UnderWay
  <2> QED BY <1>2, <2>3, <2>4
<1> QED BY <1>1, <1>3, SpacedAlways, PTL DEF CSSpec, ServesAsPromised, Abstract!Spec
-----------------------------------------------------------------------------
(* What a layer hands on, as the layer behind it needs it.                 *)

\* A sequence that is served is its first entry and the rest.
LEMMA FirstAndRest ==
  ASSUME NEW s \in Seq(Entries), s # <<>>, NEW t \in Seq(Entries)
  PROVE  /\ s = <<Head(s)>> \o Tail(s)
         /\ s \o t # <<>> /\ Head(s \o t) = Head(s) /\ Tail(s \o t) = Tail(s) \o t
<1>1. Head(s) \in Entries /\ Tail(s) \in Seq(Entries) /\ <<Head(s)>> \in Seq(Entries)
  BY Ahead
<1> DEFINE h == Head(s)  u == Tail(s)  f == <<h>>
<1>2. s = f \o u
  <2> DEFINE l == f \o u
  <2>1. /\ l \in Seq(Entries) /\ Len(l) = Len(u) + 1 /\ l[1] = h
        /\ \A i \in 1 .. Len(u) : l[i + 1] = u[i]
    BY <1>1
  <2>2. Len(u) = Len(s) - 1 /\ (\A i \in 1 .. Len(s) - 1 : u[i] = s[i + 1]) /\ h = s[1]
        /\ Len(s) \in Nat
    BY Ahead
  <2> HIDE DEF l, u, h
  <2>3. Len(l) = Len(s) /\ s \in Seq(Entries) /\ DOMAIN l = DOMAIN s
    BY <2>1, <2>2
  <2>4. ASSUME NEW i \in 1 .. Len(s) PROVE l[i] = s[i]
    <3>1. CASE i = 1
      BY <2>1, <2>2, <3>1
    <3>2. CASE i # 1
      <4>1. i - 1 \in 1 .. Len(u) /\ (i - 1) + 1 = i
        BY <2>2, <3>2
      <4> QED BY <2>1, <2>2, <4>1
    <3> QED BY <3>1, <3>2
  <2>5. l = s
    BY <2>1, <2>3, <2>4
  <2> QED BY <2>5 DEF l
<1>3. s \o t = f \o (u \o t) /\ u \o t \in Seq(Entries)
  <2> HIDE DEF f, u
  <2>1. (f \o u) \o t = f \o (u \o t)
    BY <1>1, ConcatAssociative DEF f, u
  <2> QED BY <1>1, <1>2, <2>1, ConcatProperties DEF u
<1> QED BY <1>1, <1>2, <1>3, Front

\* t is s with some keys replaced by 0, as a layer does with the keys it keeps.
Weaker(t, s) == Len(t) = Len(s) /\ \A i \in 1 .. Len(s) : t[i] \in {s[i], Zero}

LEMMA WeakerSpaced ==
  ASSUME NEW s \in Seq(Entries), NEW t \in Seq(Entries), Weaker(t, s), NEW B, NEW r
  PROVE  /\ Apart(s, B) => Apart(t, B)
         /\ Remembered(s, B, r) => Remembered(t, B, r)
<1>1. \A i \in 1 .. Len(s) : t[i] # Zero => t[i] = s[i]
  BY DEF Weaker
<1>2. Len(t) = Len(s)
  BY DEF Weaker
<1>3. Apart(s, B) => Apart(t, B)
  BY <1>1, <1>2 DEF Apart
<1>4. Remembered(s, B, r) => Remembered(t, B, r)
  BY <1>1, <1>2 DEF Remembered
<1> QED BY <1>3, <1>4

LEMMA WeakerBehind ==
  ASSUME NEW s \in Seq(Entries), NEW t \in Seq(Entries), Weaker(t, s), NEW u \in Seq(Entries)
  PROVE  Weaker(u \o t, u \o s)
<1> DEFINE a == u \o t  b == u \o s  n == Len(u)
<1>1. /\ Len(a) = n + Len(t) /\ n \in Nat /\ Len(t) \in Nat
      /\ \A i \in 1 .. n + Len(t) : a[i] = IF i <= n THEN u[i] ELSE t[i - n]
  BY ConcatProperties
<1>2. /\ Len(b) = n + Len(s) /\ Len(s) = Len(t)
      /\ \A i \in 1 .. n + Len(s) : b[i] = IF i <= n THEN u[i] ELSE s[i - n]
  BY ConcatProperties DEF Weaker
<1> HIDE DEF a, b
<1>3. ASSUME NEW i \in 1 .. Len(b) PROVE a[i] \in {b[i], Zero}
  <2>1. CASE i <= n
    BY <1>1, <1>2, <2>1
  <2>2. CASE ~ (i <= n)
    <3>1. i - n \in 1 .. Len(s)
      BY <1>1, <1>2, <2>2
    <3>2. t[i - n] \in {s[i - n], Zero}
      BY <3>1 DEF Weaker
    <3> QED BY <1>1, <1>2, <2>2, <3>2
  <2> QED BY <2>1, <2>2
<1>4. Len(a) = Len(b)
  BY <1>1, <1>2
<1> QED BY <1>3, <1>4 DEF Weaker, a, b

\* What a layer shows is its oldest entry, or 0 when it kept it.
LEMMA HandsOn ==
  ASSUME Working, NEW ins \in Arrivals, Waits(ins) \/ Serves(ins)
  PROVE  /\ out' \in Arrivals
         /\ \E t \in Seq(Entries) : Weaker(t, Owed) /\ out' \o Owed' = t \o ins
<1>1. Owed \in Seq(Entries) /\ ins \in Seq(Entries) /\ Zero \in Entries
  BY FilledPlaces, ArrivalFacts DEF Entries
<1>2. CASE Waits(ins)
  <2>1. out' \o Owed' = Owed \o ins
    <3>1. Owed \o ins \in Seq(Entries)
      BY <1>1, ConcatProperties
    <3>2. <<>> \o (Owed \o ins) = Owed \o ins
      BY <3>1, ConcatEmptySeq
    <3> QED BY <1>2, <3>2 DEF Waits
  <2>2. Weaker(Owed, Owed)
    BY DEF Weaker
  <2>3. out' = <<>>
    BY <1>2 DEF Waits
  <2> QED BY <1>1, <2>1, <2>2, <2>3 DEF Arrivals
<1>3. CASE Serves(ins)
  <2> DEFINE h == Head(Owed)  u == Tail(Owed)
  <2>1. Owed # <<>> /\ Owed' = u \o ins
    BY <1>3 DEF Serves
  <2>2. h \in Entries /\ u \in Seq(Entries) /\ Owed = <<h>> \o u
    BY <1>1, <2>1, FirstAndRest, Ahead
  <2>3. PICK x \in {h, Zero} : out' = <<x>>
    BY <1>3 DEF Serves
  <2>4. x \in Entries /\ <<x>> \in Seq(Entries) /\ <<x>> \in Arrivals
    BY <1>1, <2>2, <2>3 DEF Arrivals
  <2> HIDE DEF h, u
  <2>5. <<x>> \o (u \o ins) = (<<x>> \o u) \o ins
    BY <1>1, <2>2, <2>4, ConcatAssociative
  <2>6. <<x>> \o u \in Seq(Entries) /\ Weaker(<<x>> \o u, <<h>> \o u)
    <3>1. /\ Len(<<x>> \o u) = Len(u) + 1 /\ (<<x>> \o u)[1] = x
          /\ Len(<<h>> \o u) = Len(u) + 1 /\ (<<h>> \o u)[1] = h
          /\ <<x>> \o u \in Seq(Entries) /\ Len(u) \in Nat
          /\ \A i \in 1 .. Len(u) + 1 : i # 1 => (<<x>> \o u)[i] = (<<h>> \o u)[i]
      BY <2>2, <2>4
    <3> QED BY <2>3, <3>1 DEF Weaker
  <2> QED BY <2>1, <2>2, <2>3, <2>4, <2>5, <2>6
<1> QED BY <1>2, <1>3

\* The front of a spaced sequence is spaced.
LEMMA FrontApart ==
  ASSUME NEW s \in Seq(Entries), NEW t \in Seq(Entries), NEW B, Apart(s \o t, B)
  PROVE  Apart(s, B)
<1> DEFINE a == s \o t
<1>1. /\ \A i \in 1 .. Len(s) : i \in 1 .. Len(a) /\ a[i] = s[i]
      /\ Len(s) \in Nat /\ Len(a) \in Nat
  OBVIOUS
<1> HIDE DEF a
<1>2. Apart(a, B)
  BY DEF a
<1> QED BY <1>1, <1>2 DEF Apart

\* A layer that serves keeps the spacing of its entries and of those behind them.
LEMMA LeftSpacedBehind ==
  ASSUME Working, NEW r \in Seq(Entries), NEW ins \in Arrivals, NEW rest \in Seq(Entries),
         Apart(Owed \o (ins \o rest), Writing), Remembered(Owed \o (ins \o rest), Writing, r),
         Waits(ins) \/ Serves(ins)
  PROVE  /\ Owed' \in Seq(Entries)
         /\ Apart(Owed' \o rest, Writing') /\ Remembered(Owed' \o rest, Writing', r)
<1> DEFINE o == Owed  u == Tail(Owed)  all == o \o (ins \o rest)
<1>1. o \in Seq(Entries) /\ ins \in Seq(Entries) /\ ins \o rest \in Seq(Entries)
      /\ all \in Seq(Entries)
  BY FilledPlaces, ArrivalFacts, ConcatProperties
<1>2. CASE Waits(ins)
  <2>1. Apart(all, {}) /\ Remembered(all, {}, r)
    BY DEF Apart, Remembered
  <2> HIDE DEF o, all
  <2>2. all = (o \o ins) \o rest /\ o \o ins \in Seq(Entries)
    BY <1>1, ConcatAssociative, ConcatProperties DEF all
  <2>3. Owed' = o \o ins /\ Writing' = {}
    BY <1>2 DEF Waits, o
  <2> QED BY <2>1, <2>2, <2>3
<1>3. CASE Serves(ins)
  <2>1. Owed # <<>> /\ Owed' = u \o ins
    BY <1>3 DEF Serves
  <2>2. Writing' \subseteq {bucket[Head(Owed)]} /\ (Writing' # {} => Head(Owed) # Zero)
    BY <1>3 DEF Serves, Counted
  <2>3. u \in Seq(Entries) /\ u \o ins \in Seq(Entries)
    BY <1>1, <2>1, Ahead, ConcatProperties
  <2>4. all # <<>> /\ Head(all) = Head(Owed) /\ Tail(all) = u \o (ins \o rest)
    BY <1>1, <2>1, FirstAndRest
  <2>5. Apart(Tail(all), Writing') /\ Remembered(Tail(all), Writing', r)
    <3> HIDE DEF all
    <3>1. Apart(all, Writing) /\ Remembered(all, Writing, r)
      BY DEF all
    <3> QED BY <1>1, <2>2, <2>4, <3>1, ServeKeepsApart, ServeKeepsRemembered
  <2> HIDE DEF u, all, o
  <2>6. (u \o ins) \o rest = u \o (ins \o rest)
    BY <1>1, <2>3, ConcatAssociative
  <2> QED BY <2>1, <2>3, <2>4, <2>5, <2>6
<1> QED BY <1>2, <1>3

\* A word that refuses a key refuses it for good, and a layer hands a key on only when
\* the key's word refuses it.
LEMMA RefusalStays ==
  ASSUME Working, NEW ins, Waits(ins) \/ Serves(ins), NEW b \in Buckets, NEW k,
         Refuses(Table[b], k)
  PROVE  Refuses(Table'[b], k)
<1>1. Table \in [Buckets -> SoundWord] /\ ErrorThreshold \in Nat
  BY TableSound DEF Working, LayerAssumption, ThresholdAssumption
<1>2. CASE Table' = Table
  BY <1>2 DEF Refuses
<1>3. CASE Table' # Table
  <2> DEFINE e == Head(Owed)  a == bucket[e]  w == Table[a]
  <2>1. Serves(ins) /\ Counted(w, e) /\ Table' = [Table EXCEPT ![a] = Count(w, e)]
    BY <1>3 DEF Waits, Serves
  <2>2. CASE a = b
    <3>1. /\ w \in [total : Nat, no : Nat, key : Shown]
          /\ w.no >= ErrorThreshold /\ w.key # k /\ w.total > 2 * w.no
      BY <1>1, <2>2 DEF SoundWord, Refuses
    <3>2. w.total \in Nat /\ w.no \in Nat /\ ~ Contested(w)
      BY <3>1 DEF Contested
    <3>3. w.key = e
      BY <1>1, <2>1, <3>1, <3>2 DEF Counted, Keeps
    <3>4. Count(w, e) = [w EXCEPT !.total = @ + 1]
      BY <3>2, <3>3 DEF Count
    <3>5. /\ Count(w, e).no = w.no /\ Count(w, e).key = w.key
          /\ Count(w, e).total = w.total + 1
      BY <3>1, <3>4
    <3>6. Table'[b] = Count(w, e)
      BY <1>1, <2>1, <2>2
    <3> HIDE DEF w
    <3>7. Count(w, e).no >= ErrorThreshold /\ Count(w, e).key # k
      BY <3>1, <3>5
    <3>8. Count(w, e).total > 2 * Count(w, e).no
      BY <3>1, <3>2, <3>5
    <3> QED BY <3>6, <3>7, <3>8 DEF Refuses
  <2>3. CASE a # b
    <3>1. Table'[b] = Table[b]
      BY <1>1, <2>1, <2>3
    <3> QED BY <3>1 DEF Refuses
  <2> QED BY <2>2, <2>3
<1> QED BY <1>2, <1>3

LEMMA HandedOnRefused ==
  ASSUME Working, NEW ins, Waits(ins) \/ Serves(ins),
         NEW i \in 1 .. Len(out'), out'[i] # Zero
  PROVE  Refuses(Table'[bucket[out'[i]]], out'[i])
<1> DEFINE e == Head(Owed)  a == bucket[e]  w == Table[a]
<1>1. /\ Table \in [Buckets -> SoundWord] /\ ErrorThreshold \in Nat
      /\ Owed \in Seq(Entries) /\ bucket \in [Entries \cup {Stale} -> Buckets]
  BY TableSound, FilledPlaces
     DEF Working, LayerAssumption, ThresholdAssumption, EntryAssumption
<1>2. Serves(ins)
  BY DEF Waits
<1>3. ~ Counted(w, e)
  BY <1>2 DEF Serves
<1>4. Owed # <<>> /\ Table' = Table /\ out' = <<e>>
  BY <1>2, <1>3 DEF Serves
<1>5. out'[i] = e /\ e # Zero /\ e \in Entries
  BY <1>1, <1>4, Ahead
<1>6. w \in SoundWord
  BY <1>1, <1>5
<1>7. w.no \in Nat /\ w.total \in Nat
  BY <1>6 DEF SoundWord
<1>8. ~ (w.no < ErrorThreshold) /\ w.key # e /\ ~ (w.total <= w.no + w.no)
  BY <1>3, <1>5 DEF Counted, Keeps, Contested
<1>9. Refuses(w, e)
  <2> HIDE DEF w, e
  <2>1. w.no >= ErrorThreshold /\ w.total > 2 * w.no
    BY <1>1, <1>7, <1>8
  <2> QED BY <1>8, <2>1 DEF Refuses
<1> QED BY <1>4, <1>5, <1>9
-----------------------------------------------------------------------------
(* No key is lost or counted twice.                                        *)

\* How many keys a sequence of entries holds, and how many a table has counted.
KeyCount(s) == Cardinality({i \in 1 .. Len(s) : s[i] # Zero})
Total(tab) == SumFunction([b \in Buckets |-> tab[b].total])

LEMMA KeyCountFinite ==
  ASSUME NEW s \in Seq(Entries)
  PROVE  IsFiniteSet({i \in 1 .. Len(s) : s[i] # Zero}) /\ KeyCount(s) \in Nat
<1>1. IsFiniteSet(1 .. Len(s))
  BY FS_Interval
<1>2. {i \in 1 .. Len(s) : s[i] # Zero} \in SUBSET (1 .. Len(s))
  OBVIOUS
<1>3. IsFiniteSet({i \in 1 .. Len(s) : s[i] # Zero})
  BY <1>1, <1>2, FS_Subset
<1> QED BY <1>3, FS_CardinalityType DEF KeyCount

LEMMA KeyCountShort ==
  ASSUME NEW e \in Entries
  PROVE  KeyCount(<<>>) = 0 /\ KeyCount(<<e>>) = IF e = Zero THEN 0 ELSE 1
<1>1. {i \in 1 .. Len(<<>>) : <<>>[i] # Zero} = {}
  OBVIOUS
<1>2. {i \in 1 .. Len(<<e>>) : <<e>>[i] # Zero} = IF e = Zero THEN {} ELSE {1}
  OBVIOUS
<1> QED BY <1>1, <1>2, FS_EmptySet, FS_Singleton DEF KeyCount

LEMMA KeyCountConcat ==
  ASSUME NEW s \in Seq(Entries), NEW t \in Seq(Entries)
  PROVE  KeyCount(s \o t) = KeyCount(s) + KeyCount(t)
<1> DEFINE n == Len(s)  c == s \o t
           A == {i \in 1 .. Len(s) : s[i] # Zero}
           B == {i \in 1 .. Len(t) : t[i] # Zero}
           C == {i \in 1 .. Len(c) : c[i] # Zero}
           D == {i \in C : i > n}
           f == [i \in B |-> i + n]
<1>1. /\ Len(c) = n + Len(t) /\ n \in Nat /\ Len(t) \in Nat
      /\ \A i \in 1 .. n + Len(t) : c[i] = IF i <= n THEN s[i] ELSE t[i - n]
  BY ConcatProperties
<1>2. IsFiniteSet(A) /\ IsFiniteSet(B) /\ KeyCount(s) \in Nat /\ KeyCount(t) \in Nat
  BY KeyCountFinite
<1> HIDE DEF c
<1>3. C = A \cup D /\ A \cap D = {}
  BY <1>1
<1>4. f \in Bijection(B, D)
  <2>1. \A i \in B : i + n \in D
    BY <1>1
  <2>2. \A j \in D : j - n \in B /\ (j - n) + n = j
    BY <1>1
  <2>3. \A i, j \in B : i + n = j + n => i = j
    BY <1>1
  <2> HIDE DEF B, D, n
  <2>4. f \in [B -> D]
    BY <2>1
  <2>a. \A i \in B : f[i] = i + n
    OBVIOUS
  <2> HIDE DEF f
  <2>5. f \in Injection(B, D)
    BY <2>3, <2>4, <2>a DEF Injection, IsInjective
  <2>6. f \in Surjection(B, D)
    BY <2>2, <2>4, <2>a DEF Surjection
  <2> QED BY <2>5, <2>6 DEF Bijection
<1>5. IsFiniteSet(D) /\ Cardinality(D) = Cardinality(B)
  <2> HIDE DEF B, D, f
  <2> QED BY <1>2, <1>4, FS_Bijection DEF ExistsBijection
<1>6. Cardinality(C) = Cardinality(A) + Cardinality(D) - Cardinality(A \cap D)
  <2> HIDE DEF A, C, D
  <2> QED BY <1>2, <1>3, <1>5, FS_Union
<1>7. Cardinality(A \cap D) = 0
  <2> HIDE DEF A, D
  <2> QED BY <1>3, FS_EmptySet
<1>8. KeyCount(s) = Cardinality(A) /\ KeyCount(t) = Cardinality(B) /\ KeyCount(c) = Cardinality(C)
  BY DEF KeyCount
<1> HIDE DEF A, B, C, D
<1> QED BY <1>2, <1>5, <1>6, <1>7, <1>8 DEF c

LEMMA TotalFinite ==
  ASSUME LayerAssumption, LayerInv, IsFiniteSet(Buckets)
  PROVE  Total(Table) \in Nat
<1> DEFINE F == [b \in Buckets |-> Table[b].total]
<1>1. (\A b \in Buckets : F[b] \in Nat) /\ Total(Table) = SumFunctionOnSet(F, Buckets)
  BY TableSound DEF SoundWord, Total, SumFunction
<1> HIDE DEF F
<1> QED BY <1>1, SumOfNat

\* Whatever a clock does, the keys owed, shown and counted after it are those owed and
\* counted before it, and the one that came in.
LEMMA LayerConserves ==
  ASSUME Working, IsFiniteSet(Buckets), NEW ins \in Arrivals, Waits(ins) \/ Serves(ins)
  PROVE  /\ KeyCount(Owed) \in Nat /\ KeyCount(ins) \in Nat /\ Total(Table) \in Nat
         /\ KeyCount(Owed') \in Nat /\ KeyCount(out') \in Nat /\ Total(Table') \in Nat
         /\ KeyCount(Owed') + KeyCount(out') + Total(Table')
              = KeyCount(Owed) + KeyCount(ins) + Total(Table)
<1>1. /\ Owed \in Seq(Entries) /\ ins \in Seq(Entries) /\ Zero \in Entries
      /\ bucket \in [Entries \cup {Stale} -> Buckets]
      /\ Table \in [Buckets -> SoundWord]
  BY FilledPlaces, ArrivalFacts, TableSound
     DEF Entries, Working, LayerAssumption, EntryAssumption
<1> DEFINE F == [b \in Buckets |-> Table[b].total]
<1>2. (\A b \in Buckets : F[b] \in Nat /\ F[b] \in Int) /\ Total(Table) = SumFunctionOnSet(F, Buckets)
  BY <1>1 DEF SoundWord, Total, SumFunction
<1>3. Total(Table) \in Nat
  BY TotalFinite DEF Working
<1>4. KeyCount(Owed) \in Nat /\ KeyCount(ins) \in Nat
  BY <1>1, KeyCountFinite
<1>5. CASE Waits(ins)
  <2>1. Owed' = Owed \o ins /\ out' = <<>> /\ Table' = Table
    BY <1>5 DEF Waits
  <2>2. KeyCount(Owed') = KeyCount(Owed) + KeyCount(ins)
    BY <1>1, <2>1, KeyCountConcat
  <2>3. KeyCount(out') = 0
    BY <1>1, <2>1, KeyCountShort
  <2> QED BY <1>3, <1>4, <2>1, <2>2, <2>3
<1>6. CASE Serves(ins)
  <2> DEFINE e == Head(Owed)  u == Tail(Owed)  a == bucket[e]  w == Table[a]
             K(x) == IF x = Zero THEN 0 ELSE 1
  <2>1. Owed # <<>> /\ Owed' = u \o ins
    BY <1>6 DEF Serves
  <2>2. e \in Entries /\ u \in Seq(Entries) /\ Owed = <<e>> \o u /\ <<e>> \in Seq(Entries)
        /\ a \in Buckets
    BY <1>1, <2>1, FirstAndRest, Ahead
  <2>3. KeyCount(Owed) = K(e) + KeyCount(u) /\ KeyCount(u) \in Nat
    BY <2>2, KeyCountConcat, KeyCountShort, KeyCountFinite
  <2>4. KeyCount(Owed') = KeyCount(u) + KeyCount(ins)
    BY <1>1, <2>1, <2>2, KeyCountConcat
  <2>5. CASE Counted(w, e)
    <3>1. Table' = [Table EXCEPT ![a] = Count(w, e)] /\ out' = <<Zero>> /\ e # Zero
      BY <1>6, <2>5 DEF Serves, Counted
    <3>2. KeyCount(out') = 0
      BY <1>1, <3>1, KeyCountShort
    <3> DEFINE G == [b \in Buckets |-> Table'[b].total]
    <3>3. Count(w, e).total = w.total + 1
      <4>1. w \in [total : Nat, no : Nat, key : Shown]
        BY <1>1, <2>2 DEF SoundWord
      <4> QED BY <4>1 DEF Count
    <3>4. \A b \in Buckets : G[b] = IF b = a THEN F[a] + 1 ELSE F[b]
      <4>1. \A b \in Buckets : Table'[b] = IF b = a THEN Count(w, e) ELSE Table[b]
        BY <1>1, <3>1
      <4> QED BY <2>2, <3>3, <4>1
    <3>5. Total(Table') = SumFunctionOnSet(G, Buckets)
      BY DEF Total, SumFunction
    <3>6. Total(Table') = Total(Table) + 1
      <4> HIDE DEF F, G
      <4>1. \A b \in Buckets : F[b] \in Int /\ G[b] \in Int
        BY <1>2, <2>2, <3>4
      <4>2. SumFunctionOnSet(G, Buckets) = SumFunctionOnSet(F, Buckets) + (G[a] - F[a])
        <5> HIDE DEF a
        <5> QED BY <2>2, <3>4, <4>1, SumUpdate
      <4> QED BY <1>2, <1>3, <2>2, <3>4, <3>5, <4>2
    <3> QED BY <1>3, <1>4, <2>3, <2>4, <3>1, <3>2, <3>6
  <2>6. CASE ~ Counted(w, e)
    <3>1. Table' = Table /\ out' = <<e>>
      BY <1>6, <2>6 DEF Serves
    <3>2. KeyCount(out') = K(e)
      BY <2>2, <3>1, KeyCountShort
    <3> QED BY <1>3, <1>4, <2>3, <2>4, <3>1, <3>2
  <2> QED BY <2>5, <2>6
<1> QED BY <1>5, <1>6

\* A clock shows nothing or one entry, whatever the spacing of the keys.
LEMMA ShowsEntries ==
  ASSUME Working, NEW ins \in Arrivals, NEW alf, ~ alf, Tick(ins, alf)
  PROVE  out' \in Arrivals
<1>1. Moves(ins) \/ Decides(ins)
  BY OrderlyTick DEF Orderly
<1>2. Owed \in Seq(Entries) /\ Zero \in Entries
  BY FilledPlaces DEF Entries
<1>3. CASE Decides(ins)
  <2>1. Decide /\ reg[3] \in Entries
    BY <1>2, <1>3, Ahead DEF Decides
  <2> QED BY <1>2, <2>1 DEF Decide, Arrivals
<1> QED BY <1>1, <1>3 DEF Moves, Arrivals

\* The words of a table that earlier keys can have left are sound.
LEMMA StartSound ==
  ASSUME LayerAssumption, NEW words \in [Buckets -> Word],
         \A b \in Buckets : /\ words[b].no <= ErrorThreshold
                            /\ 2 * words[b].no <= words[b].total
                            /\ (words[b].total = 0) <=> (words[b].key = Zero),
         InitLayerAt(words)
  PROVE  LayerInv
<1>1. words \in [Buckets -> SoundWord] /\ ZeroWord \in SoundWord
  BY ZeroWordSound DEF Word, SoundWord, Shown
<1>2. bucket[Zero] \in Buckets /\ Zero \in Entries
  BY DEF LayerAssumption, EntryAssumption, Entries
<1>3. WordsInv
  BY <1>1, <1>2 DEF InitLayerAt, WordsInv, NoWrite
<1>4. EntriesInv
  BY <1>2 DEF InitLayerAt, EntriesInv, NoRead, Shown
<1> QED BY <1>3, <1>4 DEF LayerInv
=============================================================================
