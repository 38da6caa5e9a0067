---------------------------- MODULE CausalDrain ----------------------------
(***************************************************************************)
(* The two pure functions `drain` applies to the pending queue             *)
(* (crates/core/src/store_and_forward.rs): the stable topological sort and *)
(* the ORDER_UNKNOWN annotation.  An item is any record with a field vc.   *)
(***************************************************************************)
EXTENDS CausalClock, Sequences, FiniteSets

\* Mutant: only earlier arrivals are compared.
MutantReady(items, emitted) ==
    {i \in DOMAIN items \ emitted :
        \A j \in DOMAIN items \ emitted :
            j < i => ~HappensBefore(items[j].vc, items[i].vc)}

(* An index not yet emitted is ready when no other one left happens before *)
(* it; the code scans the indices upward and takes the first ready one.    *)
Ready(items, emitted) ==
    {i \in DOMAIN items \ emitted :
        \A j \in DOMAIN items \ emitted :
            j # i => ~HappensBefore(items[j].vc, items[i].vc)}

\* Mutant: the scan keeps the last ready index it meets.
MutantLeast(S) == CHOOSE i \in S : \A j \in S : j <= i

Least(S) == CHOOSE i \in S : \A j \in S : i <= j

\* The index emitted in each round of the sort.
EmissionOrder(items) ==
    LET pick[k \in DOMAIN items] ==
            Least(Ready(items, {pick[j] : j \in 1..(k - 1)}))
    IN  pick

CausalSort(items) ==
    LET pick == EmissionOrder(items)
    IN  [k \in DOMAIN items |-> items[pick[k]]]

-----------------------------------------------------------------------------
\* Mutants: concurrent with some other item; with the item before it.
MutantSomeConcurrent(items, i) ==
    \E j \in DOMAIN items : IsConcurrentWith(items[i].vc, items[j].vc)

MutantRunningBase(items, i) ==
    i > 1 /\ IsConcurrentWith(items[i].vc, items[i - 1].vc)

(* An item is ORDER_UNKNOWN when it is not alone in its batch and is       *)
(* concurrent with every other item of the batch.                          *)
OrderUnknown(items, i) ==
    /\ Len(items) > 1
    /\ \A j \in DOMAIN items :
          j = i \/ IsConcurrentWith(items[i].vc, items[j].vc)

AnnotateOrderUnknown(items) ==
    [i \in DOMAIN items |->
        [buffered |-> items[i], order_unknown |-> OrderUnknown(items, i)]]
=============================================================================
