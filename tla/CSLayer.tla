------------------------------ MODULE CSLayer ------------------------------
(***************************************************************************)
(* What one layer of the FPGA sketch promises (CS_Bucket_1.v to            *)
(* CS_Bucket_5.v): it serves the keys it receives one by one and in order, *)
(* each against the table as all earlier keys left it, and hands each on   *)
(* for exactly one clock, as the key itself or as 0 when it kept it.       *)
(***************************************************************************)
EXTENDS CSWord

VARIABLES
  table,  \* address -> word
  owed,   \* the entries received and not yet served
  out     \* what the layer shows to the next one: nothing or one entry

Init ==
  /\ table = [b \in Buckets |-> ZeroWord]
  /\ owed = <<>>
  /\ out = <<>>

\* One clock without an entry being served.
Wait(ins) ==
  /\ owed' = owed \o ins
  /\ out' = <<>>
  /\ UNCHANGED table

\* One clock in which the oldest entry is served.
Serve(ins) ==
  /\ owed # <<>>
  /\ LET e == Head(owed)
         w == table[bucket[e]]
     IN  IF Counted(w, e)
         THEN table' = [table EXCEPT ![bucket[e]] = Count(w, e)] /\ out' = <<Zero>>
         ELSE out' = <<e>> /\ UNCHANGED table
  /\ owed' = Tail(owed) \o ins

Next == \E ins \in {<<>>} \cup {<<e>> : e \in Entries} : Wait(ins) \/ Serve(ins)

Spec == Init /\ [][Next]_<<table, owed, out>>
=============================================================================
