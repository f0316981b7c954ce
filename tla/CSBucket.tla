------------------------------ MODULE CSBucket ------------------------------
(***************************************************************************)
(* One layer of the FPGA sketch, clock by clock (CS_Bucket_1.v; the other  *)
(* four differ in the threshold and the RAM size only), with the FIFO in   *)
(* front of it (SYNCFIFO.v in show-ahead mode) and its dual-port RAM       *)
(* (ASYNCRAM.v and the block RAM behind it).                               *)
(*                                                                         *)
(* The state machine fetches keys in bursts.  The word of a key arrives    *)
(* three clocks after the key was fetched and is written back one clock    *)
(* later, so up to four keys are under way at a time.                      *)
(***************************************************************************)
EXTENDS CSWord

CONSTANTS
  DataDepth,    \* entries the FIFO holds
  InKeyAlf,     \* the values CS_Bucket_in_key_alf may take
  Spacing,      \* entries between two keys of one bucket, in this environment
  MaxKeys       \* bound on the keys of a run; the zeros between them are not bounded

FifoAssumption == DataDepth \in Nat \ {0} /\ InKeyAlf \subseteq BOOLEAN
EnvironmentAssumption == Spacing \in Nat /\ MaxKeys \in Nat
LayerAssumption ==
  EntryAssumption /\ ThresholdAssumption /\ FifoAssumption /\ EnvironmentAssumption

VARIABLES
  fifo,       \* the entries between rptr and wptr
  q,          \* output register of the FIFO's RAM (check_key_q)
  empty_reg,  \* Empty_reg of the FIFO
  fsm,        \* lookup_state, check_key_rd and count
  reg,        \* check_key_q_reg0, _reg1 and _reg2
  port_a,     \* ram_rden_a and ram_addr_a
  douta,      \* output register of the block RAM
  ram_out_a,  \* q_a of ASYNCRAM
  port_b,     \* ram_wren_b, ram_addr_b and ram_data_b
  ram,        \* the block RAM
  sent,       \* environment: keys sent so far
  recent,     \* environment: the last Spacing entries it sent
  kept,       \* verification: address -> keys the layer kept
  out         \* CS_Bucket_out_value while CS_Bucket_out_value_wr is high

clocked == <<fifo, q, empty_reg, fsm, reg, port_a, douta, ram_out_a, port_b, ram, out>>

States == {"idle", "pharse_1", "pharse_2", "pharse_3", "pharse_4",
           "wait_1", "wait_2", "read"}
NoRead == [rden |-> FALSE, addr |-> bucket[Zero]]
NoWrite == [wren |-> FALSE, addr |-> bucket[Zero], data |-> ZeroWord]

InitLayerAt(words) ==
  /\ fifo = <<>>
  /\ q = Stale
  /\ empty_reg = TRUE
  /\ fsm = [state |-> "idle", rd |-> FALSE, count |-> 0]
  /\ reg = <<Zero, Zero, Zero>>
  /\ port_a = NoRead
  /\ douta = ZeroWord
  /\ ram_out_a = ZeroWord
  /\ port_b = NoWrite
  /\ ram = words
  /\ out = <<>>

InitLayer == InitLayerAt([b \in Buckets |-> ZeroWord])
-----------------------------------------------------------------------------
(* The FIFO.                                                               *)

\* Faulty: the last entry does not count as one.
EmptyEarly == empty_reg \/ Len(fifo) <= 1

Empty == empty_reg \/ fifo = <<>>

\* Four bits of a count up to 16: a full FIFO shows 0.
Usedw == Len(fifo) % DataDepth

\* CS_Bucket_out_key_alf.
AllmostFull == Usedw = DataDepth - 1

\* An entry written while the FIFO is full is lost.
Overflows(ins) == ins # <<>> /\ Len(fifo) = DataDepth

\* The head shows one clock after the pointers moved; where no entry was behind
\* the one that is read, the RAM is read at the address being written.
FifoClock(ins) ==
  LET rest == IF fsm.rd /\ fifo # <<>> THEN Tail(fifo) ELSE fifo
  IN  /\ fifo' = rest \o (IF Overflows(ins) THEN <<>> ELSE ins)
      /\ q' = IF fifo = <<>> THEN q
              ELSE IF rest = <<>> THEN Stale ELSE Head(rest)
      /\ empty_reg' = (fifo = <<>>)
-----------------------------------------------------------------------------
(* The RAM.                                                                *)

\* What a read can return: a read of the word being written through the other
\* port is undefined in WRITE_FIRST mode and may show the word before or after.
ReadResults ==
  {ram[port_a.addr]}
  \cup (IF port_b.wren /\ port_b.addr = port_a.addr THEN {port_b.data} ELSE {})

RamClock ==
  /\ ram' = IF port_b.wren THEN [ram EXCEPT ![port_b.addr] = port_b.data] ELSE ram
  /\ douta' \in (IF port_a.rden THEN ReadResults ELSE {douta})
  /\ ram_out_a' = douta
-----------------------------------------------------------------------------
(* The state machine.                                                      *)

\* Faulty: the burst goes on as long as the FIFO seems not to be empty.
MoreToReadEagerly == Usedw > 0

\* Faulty: a burst goes on only while the FIFO is nearly full.
MoreToReadLate == Usedw > DataDepth - 3

\* The FIFO holds enough for one more read in this burst.
MoreToRead == Usedw > 2

ShiftIn(e) == reg' = <<e, reg[1], reg[2]>>

GoTo(state, rd, count) == fsm' = [state |-> state, rd |-> rd, count |-> count]

\* A key is fetched from the FIFO and its word is requested.
Fetch ==
  /\ ShiftIn(q)
  /\ port_a' = [rden |-> TRUE, addr |-> bucket[q]]

NoFetch == ShiftIn(Zero) /\ port_a' = NoRead

\* Faulty: an entry that is not counted is not shown to the next layer.
DecideSilently ==
  IF Counted(ram_out_a, reg[3])
  THEN /\ port_b' = [wren |-> TRUE, addr |-> bucket[reg[3]],
                     data |-> Count(ram_out_a, reg[3])]
       /\ out' = <<Zero>>
  ELSE /\ port_b' = NoWrite
       /\ out' = IF reg[3] = Zero THEN <<>> ELSE <<reg[3]>>

\* The word of the oldest key has arrived: count the key or hand it on.
Decide ==
  IF Counted(ram_out_a, reg[3])
  THEN /\ port_b' = [wren |-> TRUE, addr |-> bucket[reg[3]],
                     data |-> Count(ram_out_a, reg[3])]
       /\ out' = <<Zero>>
  ELSE port_b' = NoWrite /\ out' = <<reg[3]>>

Idle(in_key_alf) ==
  /\ fsm.state = "idle"
  /\ out' = <<>> /\ port_b' = NoWrite
  /\ NoFetch
  /\ IF ~ Empty /\ ~ in_key_alf THEN GoTo("pharse_1", TRUE, 1)
                                ELSE GoTo("idle", FALSE, fsm.count)

\* The first three fetches of a burst; the words are still under way.
Pharse(n, stop) ==
  /\ fsm.state = <<"pharse_1", "pharse_2", "pharse_3">>[n]
  /\ Fetch
  /\ IF MoreToRead
     THEN GoTo(<<"pharse_2", "pharse_3", "pharse_4">>[n], TRUE, fsm.count + 1)
     ELSE GoTo(stop, FALSE, fsm.count)
  /\ UNCHANGED <<port_b, out>>

\* The steady state of a burst: one key in, one key out.
Pharse4 ==
  /\ fsm.state = "pharse_4"
  /\ Fetch
  /\ Decide
  /\ IF MoreToRead THEN GoTo("pharse_4", TRUE, fsm.count)
                   ELSE GoTo("read", FALSE, fsm.count - 1)

Wait1 ==
  /\ fsm.state = "wait_1"
  /\ NoFetch
  /\ port_b' = NoWrite
  /\ GoTo("wait_2", fsm.rd, fsm.count)
  /\ UNCHANGED out

Wait2 ==
  /\ fsm.state = "wait_2"
  /\ NoFetch
  /\ port_b' = NoWrite
  /\ GoTo("read", fsm.rd, fsm.count)
  /\ UNCHANGED out

\* Faulty: the last key of a burst is forgotten.
DrainsToZero == fsm.count <= 2

\* The key being decided is the last one of the burst.
LastOfBurst == fsm.count = 1

\* The rest of a burst is decided.
Read ==
  /\ fsm.state = "read"
  /\ NoFetch
  /\ Decide
  /\ IF LastOfBurst THEN GoTo("idle", fsm.rd, fsm.count)
                    ELSE GoTo("read", fsm.rd, fsm.count - 1)

\* One clock of the layer with the input ins.
Tick(ins, in_key_alf) ==
  /\ FifoClock(ins)
  /\ RamClock
  /\ \/ Idle(in_key_alf)
     \/ Pharse(1, "wait_1")
     \/ Pharse(2, "wait_2")
     \/ Pharse(3, "read")
     \/ Pharse4
     \/ Wait1
     \/ Wait2
     \/ Read
-----------------------------------------------------------------------------
(* The environment: entries come at any time, keys of one bucket at least  *)
(* Spacing entries apart.                                                  *)

Sendable(k) ==
  /\ sent < MaxKeys
  /\ \A i \in 1 .. Len(recent) : recent[i] # Zero => bucket[recent[i]] # bucket[k]

LastOf(s) == IF Len(s) > Spacing THEN Tail(s) ELSE s

\* A key is kept in this clock.
KeepsKey(b) ==
  /\ fsm.state \in {"pharse_4", "read"}
  /\ Counted(ram_out_a, reg[3])
  /\ bucket[reg[3]] = b

TickIn(ins) ==
  /\ \E alf \in InKeyAlf : Tick(ins, alf)
  /\ kept' = [b \in Buckets |-> IF KeepsKey(b) THEN kept[b] + 1 ELSE kept[b]]

CSInit ==
  InitLayer /\ sent = 0 /\ recent = <<>> /\ kept = [b \in Buckets |-> 0]

Quiet == TickIn(<<>>) /\ UNCHANGED <<sent, recent>>

SendZero ==
  /\ TickIn(<<Zero>>)
  /\ recent' = LastOf(Append(recent, Zero))
  /\ UNCHANGED sent

SendKey(k) ==
  /\ Sendable(k)
  /\ TickIn(<<k>>)
  /\ sent' = sent + 1
  /\ recent' = LastOf(Append(recent, k))

Send == SendZero \/ \E k \in Keys : SendKey(k)

CSNext == Quiet \/ Send

vars == <<clocked, sent, recent, kept>>

CSSpec == CSInit /\ [][CSNext]_vars


\* The clock does not stop: clocks without an entry come as long as they change
\* anything, unless entries come for ever.
CSFairSpec == CSSpec /\ (WF_vars(Quiet) \/ []<><<Send>>_vars)
-----------------------------------------------------------------------------
(* What the layer promises.                                                *)

\* The fetched keys that are not decided yet, oldest first.
UnderWay ==
  CASE fsm.state \in {"idle", "pharse_1"} -> <<>>
    [] fsm.state \in {"pharse_2", "wait_1"} -> <<reg[1]>>
    [] fsm.state = "pharse_3" -> <<reg[2], reg[1]>>
    [] fsm.state = "pharse_4" -> <<reg[3], reg[2], reg[1]>>
    [] fsm.state = "wait_2" -> IF fsm.count = 1 THEN <<reg[2]>> ELSE <<reg[2], reg[1]>>
    [] fsm.state = "read" -> SubSeq(<<reg[3], reg[2], reg[1]>>, 1, fsm.count)

\* The table with the write that is on its way.
Table == IF port_b.wren THEN [ram EXCEPT ![port_b.addr] = port_b.data] ELSE ram

Abstract == INSTANCE CSLayer WITH table <- Table, owed <- UnderWay \o fifo

\* When keys of one bucket are far enough apart, the layer serves every key once,
\* in order and against the newest word, whatever bursts the clock cuts them into.
ServesAsPromised == Abstract!Spec

\* Every key is served: no burst ends with a key left in a register or in the FIFO.
KeysAreServed ==
  <>[](\A i \in 1 .. Len(UnderWay \o fifo) : (UnderWay \o fifo)[i] = Zero)

\* A word stays within its election, even where writes overtake each other: the
\* votes against never exceed the threshold nor the candidate's own votes, and a
\* word counts nothing only for the key 0.
WordsSound ==
  \A b \in Buckets :
    /\ ram[b].no <= ErrorThreshold
    /\ 2 * ram[b].no <= ram[b].total
    /\ (ram[b].total = 0) = (ram[b].key = Zero)

\* Every key that the layer kept is counted in its bucket.
\* (README.md of the FPGA: one key can enter in every clock.)
EveryKeyCounted ==
  \A b \in Buckets : Table[b].total = kept[b]

\* As long as the next layer never asks this one to stop, as in CS_tb.v, no
\* pattern of arrivals fills the FIFO: the pause after a burst is short enough.
NeverFull == ~ AllmostFull /\ Len(fifo) < DataDepth
=============================================================================
