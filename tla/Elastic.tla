------------------------------- MODULE Elastic -------------------------------
(***************************************************************************)
(* The Elastic sketch (elastic.cpp): buckets of a few exact counters (the  *)
(* heavy part) in front of an array of small counters (the light part).  A *)
(* key that finds no counter in its bucket votes against the bucket and is *)
(* counted in the light part, until the votes exceed Lambda times the      *)
(* least counter; then it takes that counter, flagged, and the evicted key *)
(* moves to the light part.                                                *)
(***************************************************************************)
EXTENDS Stream

CONSTANTS
  heavy_num_bkt,      \* buckets of the heavy part
  light_num_bkt,      \* counters of the light part
  MAX_VALID_COUNTER,  \* counters in a bucket besides the guard
  Lambda,             \* votes per count that evict a counter: 8 in JUDGE_IF_SWAP
  LightMax            \* the largest value of a light counter: 255

ASSUME ElasticAssumption ==
  /\ heavy_num_bkt \in Nat \ {0} /\ light_num_bkt \in Nat \ {0}
  /\ MAX_VALID_COUNTER \in Nat \ {0}
  /\ Lambda \in Nat /\ LightMax \in Nat

VARIABLES
  heavy,   \* bucket -> slot -> [key, cnt, flag], the flag being bit 31 of val
  guard,   \* bucket -> val[MAX_VALID_COUNTER], the votes against
  light,   \* light_part
  spoiled  \* verification: light counters that saturated or, instead of being
           \* added to, were raised to the count of a key that came back

elasticTables == <<heavy, guard, light, spoiled>>

HeavyBkts == 0 .. heavy_num_bkt - 1
LightBkts == 0 .. light_num_bkt - 1
Slots == 0 .. MAX_VALID_COUNTER - 1

EmptySlot == [key |-> ZeroKey, cnt |-> 0, flag |-> FALSE]

ElasticInit(h, g, l, s) ==
  /\ h = [b \in HeavyBkts |-> [i \in Slots |-> EmptySlot]]
  /\ g = [b \in HeavyBkts |-> 0]
  /\ l = [p \in LightBkts |-> 0]
  /\ s = {}

HeavyPos(k) == hash[0][k] % heavy_num_bkt
LightPos(k) == hash[1][k] % light_num_bkt

\* The slots of k's bucket that carry the key x, and the first of a set of slots.
Carrying(k, x) == {i \in Slots : heavy[HeavyPos(k)][i].key = x}
First(S) == Min(S)

\* min_counter: the first of the least counters of k's bucket.
LeastSlot(k) ==
  First({i \in Slots : \A j \in Slots :
           heavy[HeavyPos(k)][i].cnt <= heavy[HeavyPos(k)][j].cnt})

\* JUDGE_IF_SWAP, with the vote of this insertion.
Evicts(k) == guard[HeavyPos(k)] + 1 > Lambda * heavy[HeavyPos(k)][LeastSlot(k)].cnt
-----------------------------------------------------------------------------
(* insert_light.                                                           *)

\* Faulty: bit 31 of a flagged counter is taken for part of its count.
LightAfterUnmasked(p, f, is_swap) ==
  [light EXCEPT ![p] = IF is_swap THEN LightMax ELSE Min({@ + f, LightMax})]

LightAfter(p, f, is_swap) ==
  IF ~ is_swap THEN [light EXCEPT ![p] = Min({@ + f, LightMax})]
  ELSE IF light[p] < f THEN [light EXCEPT ![p] = Min({f, LightMax})]
  ELSE light

InsertLight(k, f, is_swap) ==
  LET p == LightPos(k)
  IN  /\ light' = LightAfter(p, f, is_swap)
      /\ spoiled' = IF is_swap \/ light[p] + f > LightMax THEN spoiled \cup {p} ELSE spoiled
-----------------------------------------------------------------------------
(* insert(k), by the four ways it ends.                                    *)

\* The key has a counter.
InsertMatched(k) ==
  /\ Carrying(k, k) # {}
  /\ heavy' = [heavy EXCEPT ![HeavyPos(k)][First(Carrying(k, k))].cnt = @ + 1]
  /\ UNCHANGED <<guard, light, spoiled>>

\* A counter is free: one whose key is 0.
InsertEmpty(k) ==
  /\ Carrying(k, k) = {} /\ Carrying(k, ZeroKey) # {}
  /\ heavy' = [heavy EXCEPT ![HeavyPos(k)][First(Carrying(k, ZeroKey))] =
                              [key |-> k, cnt |-> 1, flag |-> FALSE]]
  /\ UNCHANGED <<guard, light, spoiled>>

\* The vote does not suffice to evict a counter.
InsertVote(k) ==
  /\ Carrying(k, k) = {} /\ Carrying(k, ZeroKey) = {}
  /\ ~ Evicts(k)
  /\ guard' = [guard EXCEPT ![HeavyPos(k)] = @ + 1]
  /\ InsertLight(k, 1, FALSE)
  /\ UNCHANGED heavy

\* Faulty: the new counter is not flagged, its earlier part in the light
\* part forgotten.
TakenWithoutFlag(k) == [key |-> k, cnt |-> 1, flag |-> FALSE]

\* 0x80000001: counted once, and perhaps also in the light part.
Taken(k) == [key |-> k, cnt |-> 1, flag |-> TRUE]

\* The least counter is evicted to the light part, and k takes it.
InsertSwap(k) ==
  LET s == heavy[HeavyPos(k)][LeastSlot(k)]
  IN  /\ Carrying(k, k) = {} /\ Carrying(k, ZeroKey) = {}
      /\ Evicts(k)
      /\ guard' = [guard EXCEPT ![HeavyPos(k)] = 0]
      /\ heavy' = [heavy EXCEPT ![HeavyPos(k)][LeastSlot(k)] = Taken(k)]
      /\ InsertLight(s.key, s.cnt, s.flag)

ElasticInsert(k) ==
  InsertMatched(k) \/ InsertEmpty(k) \/ InsertVote(k) \/ InsertSwap(k)
-----------------------------------------------------------------------------
(* Queries and what they promise.                                          *)

elastic_query_freq(k) ==
  IF Carrying(k, k) = {} THEN light[LightPos(k)]
  ELSE LET s == heavy[HeavyPos(k)][First(Carrying(k, k))]
       IN  s.cnt + (IF s.flag THEN light[LightPos(k)] ELSE 0)

\* Of the keys that share the light counter p: what the heavy slots count, and what
\* was inserted.
HeavyCounts(p) ==
  [e \in HeavyBkts \X Slots |->
     LET s == heavy[e[1]][e[2]] IN IF LightPos(s.key) = p THEN s.cnt ELSE 0]
TrueCounts(p) == [k \in Keys |-> IF LightPos(k) = p THEN flow_cnt[k] ELSE 0]

\* The sketch invents nothing: a light counter and the heavy counters of the keys
\* that share it never exceed what was inserted of these keys.
ElasticNeverInvents ==
  \A p \in LightBkts :
    light[p] + SumFunction(HeavyCounts(p)) <= SumFunction(TrueCounts(p))

\* An estimate falls below the truth only where a light counter saturated or a key
\* was evicted that had come back.  The key 0 must not occur: its counter is taken
\* for a free one, and a key that it evicted comes back without the flag.
ElasticUnderestimatesOnlySpoiled ==
  flow_cnt[ZeroKey] = 0 => \A k \in Keys \ {ZeroKey} :
    LightPos(k) \notin spoiled => elastic_query_freq(k) >= flow_cnt[k]
=============================================================================
