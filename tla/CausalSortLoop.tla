--------------------------- MODULE CausalSortLoop ---------------------------
(***************************************************************************)
(* causal_sort as the loop it is written as                                *)
(* (crates/core/src/store_and_forward.rs): each round scans the items left *)
(* for the first one without a cause among them, and panics ("a ready      *)
(* element must exist") if every item left waits for another: here the     *)
(* loop would then be stuck with items left.                               *)
(* CausalDrain!CausalSort is the value this loop returns.                  *)
(***************************************************************************)
EXTENDS CausalDrain

CONSTANT Inputs    \* the queues sorted: sequences of records with a clock vc

\* All the sort looks at in a BufferedEnvelope.
Item == [vc : VectorClock]

ASSUME InputsAssumption == Inputs \subseteq Seq(Item)

VARIABLES items,    \* the argument
          emitted,  \* the indices with emitted[i] = true
          order,    \* the index picked in each round so far
          status    \* "running" or "returned"

vars == <<items, emitted, order, status>>

Out == [k \in DOMAIN order |-> items[order[k]]]

Init ==
    /\ items \in Inputs
    /\ emitted = {}
    /\ order = <<>>
    /\ status = "running"

\* Mutants: the picked index is marked one too low; is not marked.
MutantUnmarked ==
    /\ status = "running"
    /\ Len(order) < Len(items)
    /\ Ready(items, emitted) # {}
    /\ order' = Append(order, Least(Ready(items, emitted)))
    /\ UNCHANGED <<items, emitted, status>>

EmitFirstReady ==
    /\ status = "running"
    /\ Len(order) < Len(items)
    /\ Ready(items, emitted) # {}
    /\ LET idx == Least(Ready(items, emitted))
       IN  /\ emitted' = emitted \cup {idx}
           /\ order' = Append(order, idx)
    /\ UNCHANGED <<items, status>>

\* Mutant: the loop ends one round early.
MutantReturn ==
    /\ status = "running"
    /\ Len(order) + 1 = Len(items)
    /\ status' = "returned"
    /\ UNCHANGED <<items, emitted, order>>

Return ==
    /\ status = "running"
    /\ Len(order) = Len(items)
    /\ status' = "returned"
    /\ UNCHANGED <<items, emitted, order>>

Next == EmitFirstReady \/ Return

Spec == Init /\ [][Next]_vars

\* A sequential loop keeps running until it returns.
FairSpec == Spec /\ WF_vars(Next)

-----------------------------------------------------------------------------
(* Type invariant. *)
TypeOK ==
    /\ items \in Seq(Item)
    /\ emitted \subseteq DOMAIN items
    /\ order \in Seq(DOMAIN items)
    /\ status \in {"running", "returned"}

(* The expect of the loop never fires: among the items left there is always *)
(* one with no cause among them, whatever clocks senders attached.          *)
NeverPanics == Len(order) < Len(items) => Ready(items, emitted) # {}

(* At every round what is out is causally ordered and closed under causes:  *)
(* nothing still inside happens before anything already out.                *)
PrefixIsCausal ==
    /\ CausalOrder(Out)
    /\ \A i \in emitted, j \in DOMAIN items \ emitted :
          ~HappensBefore(items[j].vc, items[i].vc)

(* When the loop returns, each item has come out exactly once. *)
EachItemOnce ==
    /\ \A p, q \in DOMAIN order : order[p] = order[q] => p = q
    /\ status = "returned" => {order[p] : p \in DOMAIN order} = DOMAIN items

(* The loop is stable up to causality: a later arrival comes out before an  *)
(* earlier one only while the earlier one still waits for a cause, which    *)
(* itself comes out in between.                                             *)
OvertakenOnlyWhileWaiting ==
    \A p, q \in DOMAIN order :
        p < q /\ order[q] < order[p] =>
            \E k \in p..(q - 1) :
                HappensBefore(items[order[k]].vc, items[order[q]].vc)

(* The loop returns, and what it returns is the operator drain is modelled  *)
(* with.                                                                    *)
Returns == <>(status = "returned" /\ Out = CausalSort(items))
=============================================================================
