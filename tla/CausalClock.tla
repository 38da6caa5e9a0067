---------------------------- MODULE CausalClock ----------------------------
(***************************************************************************)
(* Vector clocks, the sidecar every buffered evidence envelope carries     *)
(* (crates/core/src/vector_clock.rs).                                      *)
(*                                                                         *)
(* The code keeps a BTreeMap<String, u64> and reads a missing component as *)
(* 0, so a clock is here a total function on Source.  A counter saturates  *)
(* at u64::MAX; MaxCounter stands for that largest value.                  *)
(***************************************************************************)
EXTENDS Integers

CONSTANTS Source,      \* the source identifiers, keys of the map
          MaxCounter   \* the largest value a counter can hold (u64::MAX)

ASSUME ClockAssumption == MaxCounter \in Nat

VectorClock == [Source -> 0..MaxCounter]

NewClock == [s \in Source |-> 0]

\* `increment`: a saturating add, so a full counter stays where it is.
Increment(clock, s) ==
    [clock EXCEPT ![s] = IF @ < MaxCounter THEN @ + 1 ELSE @]

\* `merge`: the larger of the two counters, component by component.
Merge(clock, other) ==
    [s \in Source |-> IF other[s] > clock[s] THEN other[s] ELSE clock[s]]

-----------------------------------------------------------------------------
(* `relation` collects two flags over the union of the keys and matches on *)
(* the pair.                                                               *)

SomeLess(a, b) == \E s \in Source : a[s] < b[s]

\* Mutant: equal clocks count as ordered.
MutantRelation(a, b) ==
    CASE ~SomeLess(b, a)                    -> "HappensBefore"
      [] ~SomeLess(a, b) /\  SomeLess(b, a) -> "HappensAfter"
      []  SomeLess(a, b) /\  SomeLess(b, a) -> "Concurrent"

Relation(a, b) ==
    CASE ~SomeLess(a, b) /\ ~SomeLess(b, a) -> "Equal"
      []  SomeLess(a, b) /\ ~SomeLess(b, a) -> "HappensBefore"
      [] ~SomeLess(a, b) /\  SomeLess(b, a) -> "HappensAfter"
      []  SomeLess(a, b) /\  SomeLess(b, a) -> "Concurrent"

HappensBefore(a, b) == Relation(a, b) = "HappensBefore"

IsConcurrentWith(a, b) == Relation(a, b) = "Concurrent"

(* A sequence of records with a clock vc shows no item before one that it  *)
(* happens after.                                                          *)
CausalOrder(items) ==
    \A i, j \in DOMAIN items :
        HappensBefore(items[i].vc, items[j].vc) => i < j
=============================================================================
