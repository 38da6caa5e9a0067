------------------------- MODULE CausalSortProofs -------------------------
(***************************************************************************)
(* Proofs about the loop of causal_sort, for every queue of any length and *)
(* any clocks.                                                             *)
(*                                                                         *)
(* The loop cannot get stuck because happens-before is a strict partial    *)
(* order (CausalDrainProofs) and a finite set that is not empty has a      *)
(* minimal element under such an order.  Each round then keeps the set of  *)
(* emitted indices closed under causes, and that is what makes the output  *)
(* causally ordered.                                                       *)
(***************************************************************************)
EXTENDS CausalSortLoop, CausalDrainProofs, SequenceTheorems

(* The argument of the sort is a queue of items with clocks. *)
LEMMA ItemsAreQueue == ASSUME NEW q \in Seq(Item) PROVE Queue(q)
<1>1. Len(q) \in Nat /\ DOMAIN q = 1..Len(q) /\ \A i \in DOMAIN q : q[i] \in Item
  OBVIOUS
<1>2. QED
  BY <1>1 DEF Queue, Item

-----------------------------------------------------------------------------
(* The inductive invariant. *)

(* What is marked emitted is what came out, counted. *)
EmittedIsOrder ==
    /\ emitted = {order[p] : p \in DOMAIN order}
    /\ Cardinality(emitted) = Len(order)

(* Each round took the first index that was ready when it began. *)
RoundsPickLeast ==
    \A p \in DOMAIN order :
        order[p] = Least(Ready(items, {order[r] : r \in 1..(p - 1)}))

IInv ==
    /\ TypeOK
    /\ EmittedIsOrder
    /\ Len(order) <= Len(items)
    /\ status = "returned" => Len(order) = Len(items)
    /\ \A p, q \in DOMAIN order : order[p] = order[q] => p = q
    /\ PrefixIsCausal
    /\ RoundsPickLeast

(* The loop of causal_sort starts with nothing emitted.                    *)
LEMMA InitIInv == Init => IInv
<1> SUFFICES ASSUME Init PROVE IInv
  OBVIOUS
<1>1. /\ items \in Seq(Item) /\ Len(items) \in Nat
      /\ emitted = {} /\ order = <<>> /\ status = "running"
  BY InputsAssumption DEF Init
<1>2. TypeOK
  BY <1>1 DEF TypeOK
<1>3. DOMAIN order = {} /\ Len(order) = 0
  BY <1>1
<1>4. EmittedIsOrder
  BY <1>1, <1>3, FS_EmptySet DEF EmittedIsOrder
<1>5. PrefixIsCausal
  BY <1>1, <1>3 DEF PrefixIsCausal, CausalOrder, Out
<1>6. RoundsPickLeast
  BY <1>3 DEF RoundsPickLeast
<1>7. QED
  BY <1>1, <1>2, <1>3, <1>4, <1>5, <1>6 DEF IInv

(* One round of the loop: the first ready item is emitted and marked.      *)
LEMMA StepIInv == IInv /\ EmitFirstReady => IInv'
<1> SUFFICES ASSUME IInv, EmitFirstReady PROVE IInv'
  OBVIOUS
<1> DEFINE n   == Len(items)
           k   == Len(order)
           idx == Least(Ready(items, emitted))
<1>1. /\ items \in Seq(Item) /\ n \in Nat /\ DOMAIN items = 1..n
      /\ emitted \subseteq 1..n
      /\ order \in Seq(1..n) /\ k \in Nat /\ DOMAIN order = 1..k
      /\ status = "running" /\ k < n
  BY DEF IInv, TypeOK, EmitFirstReady
<1>2. /\ emitted' = emitted \cup {idx} /\ order' = Append(order, idx)
      /\ items' = items /\ status' = status
      /\ Ready(items, emitted) # {}
  BY DEF EmitFirstReady
<1>3. idx \in Ready(items, emitted)
  <2>1. Ready(items, emitted) \in SUBSET (1..n)
    BY <1>1 DEF Ready
  <2>2. QED
    BY <2>1, <1>1, <1>2, LeastIndex
<1>4. /\ idx \in 1..n /\ idx \notin emitted
      /\ \A j \in (1..n) \ emitted :
            j # idx => ~HappensBefore(items[j].vc, items[idx].vc)
  BY <1>1, <1>3 DEF Ready
<1>5. /\ order' \in Seq(1..n) /\ Len(order') = k + 1
      /\ DOMAIN order' = 1..(k + 1)
      /\ \A p \in 1..k : order'[p] = order[p]
      /\ order'[k + 1] = idx
      /\ 1..(k + 1) = (1..k) \cup {k + 1}
  BY <1>1, <1>2, <1>4
<1>6. TypeOK'
  BY <1>1, <1>2, <1>4, <1>5 DEF IInv, TypeOK
<1>7. emitted = {order[p] : p \in 1..k} /\ Cardinality(emitted) = k
  BY <1>1 DEF IInv, EmittedIsOrder
<1>8. \A p \in 1..k : order[p] \in emitted
  BY <1>7
<1>9. EmittedIsOrder'
  <2>1. emitted' = {order'[p] : p \in 1..(k + 1)}
    BY <1>2, <1>5, <1>7
  <2>2. IsFiniteSet(emitted)
    <3>1. IsFiniteSet(1..n)
      BY <1>1, FS_Interval
    <3>2. QED
      BY <3>1, <1>1, FS_Subset
  <2>3. Cardinality(emitted') = k + 1
    BY <2>2, <1>2, <1>4, <1>7, FS_AddElement
  <2>4. QED
    BY <2>1, <2>3, <1>5 DEF EmittedIsOrder
<1>10. Len(order') <= Len(items') /\ status' # "returned"
  BY <1>1, <1>2, <1>5
<1>11. \A p, q \in DOMAIN order' : order'[p] = order'[q] => p = q
  <2>1. \A p, q \in 1..k : order'[p] = order'[q] => p = q
    BY <1>1, <1>5 DEF IInv
  <2>2. \A p \in 1..k : order'[p] # order'[k + 1]
    BY <1>4, <1>5, <1>8
  <2>3. QED
    BY <2>1, <2>2, <1>5
<1>12. PrefixIsCausal'
  <2>1. \A i \in emitted, j \in (1..n) \ emitted :
           ~HappensBefore(items[j].vc, items[i].vc)
    BY <1>1 DEF IInv, PrefixIsCausal
  <2>2. \A i \in emitted', j \in DOMAIN items' \ emitted' :
           ~HappensBefore(items'[j].vc, items'[i].vc)
    BY <2>1, <1>1, <1>2, <1>4
  <2>3. \A p, q \in 1..k :
           HappensBefore(items[order[p]].vc, items[order[q]].vc) => p < q
    BY <1>1 DEF IInv, PrefixIsCausal, CausalOrder, Out
  <2>4. \A p, q \in 1..(k + 1) :
           HappensBefore(items[order'[p]].vc, items[order'[q]].vc) => p < q
    <3> SUFFICES ASSUME NEW p \in 1..(k + 1), NEW q \in 1..(k + 1),
                        HappensBefore(items[order'[p]].vc, items[order'[q]].vc)
                 PROVE  p < q
      OBVIOUS
    <3>1. CASE p \in 1..k /\ q \in 1..k
      BY <3>1, <2>3, <1>5
    <3>2. CASE p \in 1..k /\ q = k + 1
      BY <3>2, <1>1
    <3>3. CASE p = k + 1 /\ q \in 1..k
      BY <3>3, <2>1, <1>4, <1>5, <1>8
    <3>4. CASE p = k + 1 /\ q = k + 1
      <4>1. items[idx] \in Item
        BY <1>1, <1>4
      <4>2. items[idx].vc \in VectorClock
        BY <4>1 DEF Item
      <4>3. QED
        BY <3>4, <4>2, <1>5, HappensBeforeIrreflexive
    <3>5. QED
      BY <3>1, <3>2, <3>3, <3>4, <1>5
  <2>5. CausalOrder(Out)'
    BY <2>4, <1>2, <1>5 DEF CausalOrder, Out
  <2>6. QED
    BY <2>2, <2>5 DEF PrefixIsCausal
<1>13. RoundsPickLeast'
  <2> SUFFICES ASSUME NEW p \in 1..(k + 1)
               PROVE  order'[p] =
                        Least(Ready(items, {order'[r] : r \in 1..(p - 1)}))
    BY <1>2, <1>5 DEF RoundsPickLeast
  <2>1. \A r \in 1..(p - 1) : r \in 1..k
    BY <1>1
  <2>2. {order'[r] : r \in 1..(p - 1)} = {order[r] : r \in 1..(p - 1)}
    BY <2>1, <1>5
  <2>3. CASE p \in 1..k
    BY <2>2, <2>3, <1>1, <1>5 DEF IInv, RoundsPickLeast
  <2>4. CASE p = k + 1
    <3>1. p - 1 = k
      BY <2>4, <1>1
    <3>2. QED
      BY <2>2, <2>4, <3>1, <1>5, <1>7
  <2>5. QED
    BY <2>3, <2>4, <1>5
<1>14. QED
  BY <1>6, <1>9, <1>10, <1>11, <1>12, <1>13 DEF IInv

(* Rounds and the return of causal_sort keep the invariant.                *)
LEMMA NextIInv == IInv /\ [Next]_vars => IInv'
<1> SUFFICES ASSUME IInv, [Next]_vars PROVE IInv'
  OBVIOUS
<1>1. CASE EmitFirstReady
  BY <1>1, StepIInv
<1>2. CASE Return
  BY <1>2 DEF Return, IInv, TypeOK, EmittedIsOrder, PrefixIsCausal,
              CausalOrder, Out, RoundsPickLeast
<1>3. CASE UNCHANGED vars
  BY <1>3 DEF vars, IInv, TypeOK, EmittedIsOrder, PrefixIsCausal,
              CausalOrder, Out, RoundsPickLeast
<1>4. QED
  BY <1>1, <1>2, <1>3 DEF Next

(* The invariant holds all along the loop of causal_sort.                  *)
THEOREM Invariance == Spec => []IInv
BY InitIInv, NextIInv, PTL DEF Spec

-----------------------------------------------------------------------------
(* Every local of the loop keeps its type. *)
THEOREM TypeCorrect == Spec => []TypeOK
<1>1. IInv => TypeOK
  BY DEF IInv
<1>2. QED
  BY <1>1, Invariance, PTL

(* The expect of causal_sort never fires, for any queue and any clocks. *)
THEOREM LoopNeverPanics == Spec => []NeverPanics
<1>1. IInv => NeverPanics
  <2> SUFFICES ASSUME IInv, Len(order) < Len(items)
               PROVE  Ready(items, emitted) # {}
    BY DEF NeverPanics
  <2>1. /\ items \in Seq(Item) /\ emitted \in SUBSET (DOMAIN items)
        /\ Len(items) \in Nat /\ Len(order) \in Nat
        /\ DOMAIN items = 1..Len(items)
    BY DEF IInv, TypeOK
  <2>2. Cardinality(DOMAIN items) = Len(items)
    BY <2>1, FS_Interval
  <2>3. emitted # DOMAIN items
    BY <2>1, <2>2 DEF IInv, EmittedIsOrder
  <2>4. QED
    BY <2>1, <2>3, SomeoneIsReady, ItemsAreQueue
<1>2. QED
  BY <1>1, Invariance, PTL

(* What causal_sort returns shows no effect before its cause; nor does any *)
(* prefix of it, which is moreover closed under causes.                    *)
THEOREM OutputIsCausal == Spec => []PrefixIsCausal
<1>1. IInv => PrefixIsCausal
  BY DEF IInv
<1>2. QED
  BY <1>1, Invariance, PTL

(* causal_sort returns every buffered item, once. *)
THEOREM OutputIsPermutation == Spec => []EachItemOnce
<1>1. IInv => EachItemOnce
  <2> SUFFICES ASSUME IInv, status = "returned"
               PROVE  {order[p] : p \in DOMAIN order} = DOMAIN items
    BY DEF IInv, EachItemOnce
  <2>1. /\ Len(items) \in Nat /\ DOMAIN items = 1..Len(items)
        /\ emitted \in SUBSET (DOMAIN items)
    BY DEF IInv, TypeOK
  <2>2. IsFiniteSet(DOMAIN items) /\ Cardinality(DOMAIN items) = Len(items)
    BY <2>1, FS_Interval
  <2>3. Cardinality(emitted) = Cardinality(DOMAIN items)
    BY <2>2 DEF IInv, EmittedIsOrder
  <2>4. emitted = DOMAIN items
    BY <2>1, <2>2, <2>3, FS_Subset
  <2>5. QED
    BY <2>4 DEF IInv, EmittedIsOrder
<1>2. QED
  BY <1>1, Invariance, PTL

(* causal_sort reorders two arrivals only when causality asks for it.      *)
THEOREM StableUpToCausality == Spec => []OvertakenOnlyWhileWaiting
<1>1. IInv => OvertakenOnlyWhileWaiting
  <2> SUFFICES ASSUME IInv, NEW p \in DOMAIN order, NEW q \in DOMAIN order,
                      p < q, order[q] < order[p]
               PROVE  \E r \in p..(q - 1) :
                         HappensBefore(items[order[r]].vc, items[order[q]].vc)
    BY DEF OvertakenOnlyWhileWaiting
  <2> DEFINE n       == Len(items)
             out(m)  == {order[r] : r \in 1..(m - 1)}
  <2>1. /\ items \in Seq(Item) /\ n \in Nat /\ DOMAIN items = 1..n
        /\ Len(order) \in Nat /\ DOMAIN order = 1..Len(order)
        /\ \A r \in DOMAIN order : order[r] \in 1..n
    BY DEF IInv, TypeOK
  <2>2. \A m \in DOMAIN order :
           /\ out(m) \in SUBSET (1..n)
           /\ \A r \in 1..(m - 1) : r \in DOMAIN order
    BY <2>1
  <2>3. \A m \in DOMAIN order : order[m] \notin out(m)
    <3> SUFFICES ASSUME NEW m \in DOMAIN order, NEW r \in 1..(m - 1),
                        order[r] = order[m]
                 PROVE  FALSE
      OBVIOUS
    <3>1. r \in DOMAIN order /\ r # m
      BY <2>1, <2>2
    <3>2. QED
      BY <3>1 DEF IInv
  <2>4. \A m \in DOMAIN order :
           /\ order[m] \in Ready(items, out(m))
           /\ \A i \in Ready(items, out(m)) : order[m] <= i
    <3> SUFFICES ASSUME NEW m \in DOMAIN order
                 PROVE  /\ order[m] \in Ready(items, out(m))
                        /\ \A i \in Ready(items, out(m)) : order[m] <= i
      OBVIOUS
    <3>1. (1..n) \ out(m) # {}
      BY <2>1, <2>3
    <3>2. Ready(items, out(m)) # {}
      BY <2>1, <2>2, <3>1, SomeoneIsReady, ItemsAreQueue
    <3>3. Ready(items, out(m)) \in SUBSET (1..n)
      BY <2>1 DEF Ready
    <3>4. order[m] = Least(Ready(items, out(m)))
      BY DEF IInv, RoundsPickLeast
    <3>5. /\ Least(Ready(items, out(m))) \in Ready(items, out(m))
          /\ \A i \in Ready(items, out(m)) : Least(Ready(items, out(m))) <= i
      <4> HIDE DEF out
      <4>1. QED
        BY <2>1, <3>2, <3>3, LeastIndex
    <3>6. QED
      BY <3>4, <3>5
  <2>5. order[q] \notin Ready(items, out(p))
    BY <2>1, <2>4
  <2>6. order[q] \in (1..n) \ out(p)
    <3>1. \A r \in 1..(p - 1) : r \in 1..(q - 1)
      BY <2>1
    <3>2. QED
      BY <2>1, <2>3, <3>1
  <2>7. PICK j \in (1..n) \ out(p) :
           j # order[q] /\ HappensBefore(items[j].vc, items[order[q]].vc)
    BY <2>1, <2>5, <2>6 DEF Ready
  <2>8. j \in out(q)
    BY <2>1, <2>4, <2>7 DEF Ready
  <2>9. PICK r \in 1..(q - 1) : j = order[r]
    BY <2>8
  <2>10. ~(r <= p - 1)
    BY <2>1, <2>7, <2>9
  <2>11. r \in p..(q - 1)
    BY <2>1, <2>9, <2>10
  <2>12. QED
    BY <2>7, <2>9, <2>11
<1>2. QED
  BY <1>1, Invariance, PTL

(* What the loop returns is the value drain is modelled with: the function   *)
(* CausalSort picks in each round what the loop picks.                      *)
THEOREM LoopReturnsCausalSort == Spec => [](status = "returned" => Out = CausalSort(items))
<1>1. IInv => (status = "returned" => Out = CausalSort(items))
  <2> SUFFICES ASSUME IInv, status = "returned" PROVE Out = CausalSort(items)
    OBVIOUS
  <2> DEFINE n    == Len(items)
             pick == EmissionOrder(items)
             Bad  == {p \in 1..n : order[p] # pick[p]}
  <2>1. /\ n \in Nat /\ DOMAIN items = 1..n /\ Queue(items)
        /\ Len(order) = n /\ DOMAIN order = 1..n
    BY ItemsAreQueue DEF IInv, TypeOK
  <2>2. \A p \in 1..n : pick[p] = Least(Ready(items, Picked(pick, p)))
    BY <2>1, EmissionOrderRounds
  <2> HIDE DEF pick, n
  <2>3. \A p \in 1..n : order[p] = Least(Ready(items, Picked(order, p)))
    BY <2>1 DEF IInv, RoundsPickLeast, Picked
  <2>4. ASSUME Bad # {} PROVE FALSE
    <3>1. PICK p \in Bad : \A r \in Bad : p <= r
      <4>1. Bad \in SUBSET (1..n)
        OBVIOUS
      <4> HIDE DEF Bad
      <4>2. QED
        BY <4>1, <2>1, <2>4, LeastMember
    <3>2. \A r \in 1..(p - 1) : r \in 1..n /\ ~(p <= r)
      BY <2>1
    <3>3. \A r \in 1..(p - 1) : order[r] = pick[r]
      BY <3>1, <3>2
    <3>4. Picked(order, p) = Picked(pick, p)
      BY <3>3 DEF Picked
    <3>5. QED
      BY <3>4, <2>2, <2>3
  <2>5. \A p \in 1..n : order[p] = pick[p]
    BY <2>4
  <2>6. Out = [p \in 1..n |-> items[order[p]]]
    BY <2>1 DEF Out
  <2>7. CausalSort(items) = [p \in 1..n |-> items[pick[p]]]
    BY <2>1 DEF CausalSort, pick
  <2>8. QED
    BY <2>5, <2>6, <2>7
<1>2. QED
  BY <1>1, Invariance, PTL
=============================================================================
