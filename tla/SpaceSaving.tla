---------------------------- MODULE SpaceSaving ----------------------------
(***************************************************************************)
(* What the Space-Saving baseline promises (CPU/src/sketch/ss.cpp): a      *)
(* fixed number of counted keys.  A key that has no counter takes over one *)
(* with the smallest count.                                                *)
(***************************************************************************)
EXTENDS Integers

CONSTANTS
  Keys,    \* the keys of the stream
  NoKey,   \* the key of a counter that nothing has taken
  Counters

VARIABLES
  key,    \* counter -> the key it counts
  count,  \* counter -> its count
  seen    \* key -> how often it was inserted

vars == <<key, count, seen>>

Init ==
  /\ key = [c \in Counters |-> NoKey]
  /\ count = [c \in Counters |-> 0]
  /\ seen = [k \in Keys |-> 0]

Smallest(c) == \A d \in Counters : count[c] <= count[d]

Counted(k) == \E c \in Counters : key[c] = k

\* The key k is counted in c: its own counter, or else a smallest one.
Take(k, c) ==
  /\ IF Counted(k) THEN key[c] = k ELSE Smallest(c)
  /\ key' = [key EXCEPT ![c] = k]
  /\ count' = [count EXCEPT ![c] = @ + 1]
  /\ seen' = [seen EXCEPT ![k] = @ + 1]

Next == \E k \in Keys, c \in Counters : Take(k, c)

Spec == Init /\ [][Next]_vars
-----------------------------------------------------------------------------
TypeOK ==
  /\ key \in [Counters -> Keys \cup {NoKey}]
  /\ count \in [Counters -> Nat]
  /\ seen \in [Keys -> Nat]

\* No two counters count one key.
OneCounterEach ==
  \A c, d \in Counters : key[c] = key[d] /\ key[c] \in Keys => c = d

\* A counted key is overestimated by the smallest count at most; a key without a
\* counter was seen no more often than the smallest count.  (query_freq and
\* query_freq_low of ss.cpp bracket the true frequency.)
Bracket ==
  \A k \in Keys, c \in Counters :
    /\ key[c] = k => /\ seen[k] <= count[c]
                     /\ \A d \in Counters : count[c] - count[d] <= seen[k]
    /\ ~ Counted(k) => seen[k] <= count[c]
=============================================================================
