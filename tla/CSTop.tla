------------------------------- MODULE CSTop -------------------------------
(***************************************************************************)
(* Two layers and the escape bucket of the FPGA sketch, wired as in        *)
(* CS_top.v and clocked together: what a layer shows goes into the FIFO of *)
(* the next one, whose almost-full signal comes back, and the keys that    *)
(* the last layer hands on are stored by ES_Bucket.v.                      *)
(***************************************************************************)
EXTENDS Integers, Sequences, FiniteSets, Functions

CONSTANTS
  Keys, Zero, Stale, DataDepth, MaxKeys,
  Buckets, bucket,         \* the addresses of the first layer, and the one of every entry
  Buckets2, lowbits,       \* the addresses of the second one: the low bits of the first's
  Spacing,                 \* entries between two keys that share a word in any layer
  Threshold1, Threshold2,  \* ErrorThreshold of the two layers
  Start,                   \* pairs of tables that earlier keys may have left
  MaxPauses                \* bound on the clocks without an entry while keys are to be sent

Entries == Keys \cup {Zero}

(* The hash travels with the key.  CS_top.v gives a layer one address bit less than *)
(* the one before (RAMAddWidth), so keys of two buckets can meet in one word later. *)
bucket2 == [e \in Entries \cup {Stale} |-> lowbits[bucket[e]]]

VARIABLES
  fifo1, q1, empty_reg1, fsm1, reg1, port_a1, douta1, ram_out_a1, port_b1, ram1, out1,
  fifo2, q2, empty_reg2, fsm2, reg2, port_a2, douta2, ram_out_a2, port_b2, ram2, out2,
  es_state,  \* lookup_state of the escape bucket
  es_reg,    \* its check_key_q_reg0
  escaped,   \* the keys it stored, in the order of index_bucket
  sent, recent, pauses,
  before     \* verification: what the buckets counted before the run

L1 == INSTANCE CSBucket WITH
        fifo <- fifo1, q <- q1, empty_reg <- empty_reg1, fsm <- fsm1, reg <- reg1,
        port_a <- port_a1, douta <- douta1, ram_out_a <- ram_out_a1,
        port_b <- port_b1, ram <- ram1, out <- out1,
        ErrorThreshold <- Threshold1, InKeyAlf <- BOOLEAN, kept <- <<>>

L2 == INSTANCE CSBucket WITH
        fifo <- fifo2, q <- q2, empty_reg <- empty_reg2, fsm <- fsm2, reg <- reg2,
        port_a <- port_a2, douta <- douta2, ram_out_a <- ram_out_a2,
        port_b <- port_b2, ram <- ram2, out <- out2,
        Buckets <- Buckets2, bucket <- bucket2,
        ErrorThreshold <- Threshold2, InKeyAlf <- BOOLEAN, kept <- <<>>

\* A table that earlier keys can have left in a layer.
LeftBehind(tab, address, addresses, threshold) ==
  /\ tab \in [addresses -> [total : Nat, no : Nat, key : Entries]]
  /\ \A b \in addresses :
       /\ tab[b].no <= threshold /\ 2 * tab[b].no <= tab[b].total
       /\ (tab[b].total = 0) = (tab[b].key = Zero)
       /\ tab[b].key # Zero => address[tab[b].key] = b

ASSUME TopAssumption ==
  /\ L1!LayerAssumption /\ L2!LayerAssumption
  /\ IsFiniteSet(Buckets) /\ IsFiniteSet(Buckets2)
  /\ lowbits \in [Buckets -> Buckets2]
  /\ DataDepth >= 8
  /\ \A s \in Start : /\ LeftBehind(s.first, bucket, Buckets, Threshold1)
                     /\ LeftBehind(s.second, bucket2, Buckets2, Threshold2)
  /\ MaxPauses \in Nat

vars == <<L1!clocked, L2!clocked, es_state, es_reg, escaped, sent, recent, pauses, before>>

CountedIn(tab) == SumFunction([b \in DOMAIN tab |-> tab[b].total])

\* Nothing is under way, but earlier keys may have left their marks.
Init ==
  /\ \E s \in Start : L1!InitLayerAt(s.first) /\ L2!InitLayerAt(s.second)
  /\ es_state = "idle"
  /\ es_reg = Zero
  /\ escaped = <<>>
  /\ sent = 0
  /\ recent = <<>>
  /\ pauses = 0
  /\ before = CountedIn(ram1) + CountedIn(ram2)

\* CS_Bucket_out_value of the last layer, which is 0 when nothing is shown.
ShownKey == IF out2 = <<>> THEN Zero ELSE out2[1]

\* Faulty: the escape bucket stores what it reads in its first state, too.
EscapeClockTwice ==
  /\ es_state' = "pharse_1"
  /\ es_reg' = IF es_reg = Zero THEN ShownKey ELSE es_reg
  /\ escaped' = IF es_reg # Zero THEN Append(escaped, es_reg) ELSE escaped

\* The escape bucket looks at the value only, never at its write signal.
EscapeClock ==
  /\ es_state' = "pharse_1"
  /\ es_reg' = ShownKey
  /\ escaped' = IF es_state = "pharse_1" /\ es_reg # Zero
                THEN Append(escaped, es_reg) ELSE escaped

\* One clock of the chip; KEY_VALUE_ALLMOSTFULL is 0.
Clock(ins) ==
  /\ L1!Tick(ins, L2!AllmostFull)
  /\ L2!Tick(out1, FALSE)
  /\ EscapeClock

Quiet ==
  /\ Clock(<<>>)
  /\ IF sent = MaxKeys THEN UNCHANGED pauses
     ELSE pauses < MaxPauses /\ pauses' = pauses + 1
  /\ UNCHANGED <<sent, recent, before>>

SendZero ==
  /\ Clock(<<Zero>>)
  /\ recent' = L1!LastOf(Append(recent, Zero))
  /\ UNCHANGED <<sent, pauses, before>>

\* Keys far enough apart for the coarser addresses are so for the finer ones.
SendKey(k) ==
  /\ L2!Sendable(k)
  /\ Clock(<<k>>)
  /\ sent' = sent + 1
  /\ recent' = L1!LastOf(Append(recent, k))
  /\ UNCHANGED <<pauses, before>>

Send == SendZero \/ \E k \in Keys : SendKey(k)

Next == Quiet \/ Send

Spec == Init /\ [][Next]_vars

\* The clock does not stop.  Clocks without an entry follow when all keys are sent,
\* unless zeros come for ever; before that, the pauses are bounded and entries follow.
FairSpec ==
  /\ Spec
  /\ WF_vars(Next /\ sent < MaxKeys)
  /\ WF_vars(Quiet) \/ []<><<Send>>_vars
-----------------------------------------------------------------------------
\* The places of the keys in a sequence of entries.
KeysIn(s) == {i \in 1 .. Len(s) : s[i] # Zero}

\* Everything that left the second layer, or the first one, for the escape bucket, and
\* everything between the input and the escape bucket; the oldest entry first.
BehindSecond == (IF es_state = "idle" THEN <<>> ELSE <<es_reg>>) \o out2
BehindFirst == BehindSecond \o (L2!UnderWay \o fifo2) \o out1
InThePipe == BehindFirst \o (L1!UnderWay \o fifo1)

\* Every key that entered is counted by exactly one layer, stored once in the
\* escape bucket, or still under way: no hand-over loses or repeats a key.
Conserved ==
  before + sent = CountedIn(L1!Table) + CountedIn(L2!Table)
         + Len(escaped) + Cardinality(KeysIn(InThePipe))

\* No FIFO of the chip ever comes near being full, so that no layer is asked to
\* stop, which it could do between two bursts only.
NeverFull == L1!NeverFull /\ L2!NeverFull

\* Every key leaves the pipe.
KeysLeave == <>[](KeysIn(InThePipe) = {})

\* A layer hands a key on only when its word has no room for it: the votes against are
\* at the threshold, and a candidate other than the key leads them.  So it is in the
\* clock of the hand-over and ever after, until the key is in the escape bucket and
\* then: what it holds could be counted in no bucket of its own.
EscapesAreJustified ==
  /\ \A k \in Range(escaped \o BehindFirst) \ {Zero} : L1!Refuses(L1!Table[bucket[k]], k)
  /\ \A k \in Range(escaped \o BehindSecond) \ {Zero} : L2!Refuses(L2!Table[bucket2[k]], k)
=============================================================================
