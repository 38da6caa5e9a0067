------------------------- MODULE CausalDrainProofs -------------------------
(***************************************************************************)
(* Proofs about vector clocks and about the two functions drain applies to *)
(* the queue, for queues of any length and any clocks.                     *)
(*                                                                         *)
(* Happens-before is a strict partial order, `merge` is the least upper    *)
(* bound, and `increment` moves a clock strictly forward until its counter *)
(* is full.                                                                *)
(*                                                                         *)
(* EmissionOrder is defined by recursion over the rounds of the sort, so   *)
(* that the recursion has a solution is proved first (RoundsExist).  The   *)
(* rest follows the rounds: each picks an index that is ready, hence not   *)
(* picked before and without a cause among those left.                     *)
(***************************************************************************)
EXTENDS CausalDrain, OrderLemmas, FunctionTheorems, TLAPS

(* No counter of a is larger than b's. *)
AtMost(a, b) == \A s \in Source : a[s] <= b[s]

(* The counters `relation` compares are numbers up to u64::MAX, written    *)
(* MaxCounter here.                                                        *)
LEMMA ClockCounters ==
    ASSUME NEW a \in VectorClock, NEW s \in Source
    PROVE  a[s] \in Nat /\ a[s] <= MaxCounter
BY ClockAssumption DEF VectorClock

(* The flag `relation` leaves unset says that no counter is smaller.       *)
LEMMA NotSomeLess ==
    ASSUME NEW a \in VectorClock, NEW b \in VectorClock
    PROVE  ~SomeLess(b, a) <=> AtMost(a, b)
BY ClockCounters DEF SomeLess, AtMost

(* What the match of `relation` on its two flags amounts to. *)
LEMMA HappensBeforeMeaning ==
    ASSUME NEW a \in VectorClock, NEW b \in VectorClock
    PROVE  HappensBefore(a, b) <=> SomeLess(a, b) /\ AtMost(a, b)
<1>1. HappensBefore(a, b) <=> SomeLess(a, b) /\ ~SomeLess(b, a)
  BY DEF HappensBefore, Relation
<1>2. QED
  BY <1>1, NotSomeLess

(* A clock does not happen before itself: `relation` of equal clocks is    *)
(* Equal.                                                                  *)
THEOREM HappensBeforeIrreflexive ==
    ASSUME NEW a \in VectorClock
    PROVE  ~HappensBefore(a, a)
<1>1. ~SomeLess(a, a)
  BY ClockCounters DEF SomeLess
<1>2. QED
  BY <1>1, HappensBeforeMeaning

(* Causes of causes are causes: the relation causal_sort goes by is        *)
(* transitive.                                                             *)
THEOREM HappensBeforeTransitive ==
    ASSUME NEW a \in VectorClock, NEW b \in VectorClock, NEW c \in VectorClock,
           HappensBefore(a, b), HappensBefore(b, c)
    PROVE  HappensBefore(a, c)
<1>1. SomeLess(a, b) /\ AtMost(a, b) /\ AtMost(b, c)
  BY HappensBeforeMeaning
<1>2. PICK s \in Source : a[s] < b[s]
  BY <1>1 DEF SomeLess
<1>3. b[s] <= c[s] /\ a[s] \in Nat /\ b[s] \in Nat /\ c[s] \in Nat
  BY <1>1, ClockCounters DEF AtMost
<1>4. SomeLess(a, c)
  BY <1>2, <1>3 DEF SomeLess
<1>5. AtMost(a, c)
  <2> SUFFICES ASSUME NEW r \in Source PROVE a[r] <= c[r]
    BY DEF AtMost
  <2>1. a[r] <= b[r] /\ b[r] <= c[r]
    BY <1>1 DEF AtMost
  <2>2. a[r] \in Nat /\ b[r] \in Nat /\ c[r] \in Nat
    BY ClockCounters
  <2>3. QED
    BY <2>1, <2>2
<1>6. QED
  BY <1>4, <1>5, HappensBeforeMeaning

(* `merge` yields a clock that knows what both knew and nothing more. *)
THEOREM MergeIsLeastUpperBound ==
    ASSUME NEW a \in VectorClock, NEW b \in VectorClock
    PROVE  /\ Merge(a, b) \in VectorClock
           /\ AtMost(a, Merge(a, b)) /\ AtMost(b, Merge(a, b))
           /\ \A c \in VectorClock :
                 AtMost(a, c) /\ AtMost(b, c) => AtMost(Merge(a, b), c)
<1>1. \A s \in Source :
         /\ a[s] \in 0..MaxCounter /\ b[s] \in 0..MaxCounter
         /\ Merge(a, b)[s] = IF b[s] > a[s] THEN b[s] ELSE a[s]
  BY DEF VectorClock, Merge
<1>2. Merge(a, b) \in VectorClock
  BY <1>1 DEF Merge, VectorClock
<1>3. AtMost(a, Merge(a, b)) /\ AtMost(b, Merge(a, b))
  BY <1>1 DEF AtMost
<1>4. \A c \in VectorClock :
         AtMost(a, c) /\ AtMost(b, c) => AtMost(Merge(a, b), c)
  BY <1>1 DEF AtMost
<1>5. QED
  BY <1>2, <1>3, <1>4

(* An event of s is causally after what s knew, until its counter is full: *)
(* from then on `increment` changes nothing and the two clocks are Equal.  *)
THEOREM IncrementMovesForward ==
    ASSUME NEW a \in VectorClock, NEW s \in Source
    PROVE  /\ Increment(a, s) \in VectorClock
           /\ a[s] < MaxCounter => HappensBefore(a, Increment(a, s))
           /\ a[s] = MaxCounter => Increment(a, s) = a
<1> DEFINE next == IF a[s] < MaxCounter THEN a[s] + 1 ELSE a[s]
<1>1. /\ \A r \in Source : a[r] \in 0..MaxCounter
      /\ a = [r \in Source |-> a[r]]
      /\ MaxCounter \in Nat
  BY ClockAssumption DEF VectorClock
<1>2. Increment(a, s) = [r \in Source |-> IF r = s THEN next ELSE a[r]]
  BY <1>1 DEF Increment
<1>3. next \in 0..MaxCounter
  BY <1>1
<1>4. Increment(a, s) \in VectorClock
  BY <1>1, <1>2, <1>3 DEF VectorClock
<1>5. ASSUME a[s] < MaxCounter PROVE HappensBefore(a, Increment(a, s))
  <2>1. next = a[s] + 1
    BY <1>5
  <2>2. SomeLess(a, Increment(a, s))
    <3>1. Increment(a, s)[s] = a[s] + 1
      BY <1>2, <2>1
    <3>2. a[s] < Increment(a, s)[s]
      BY <3>1, <1>1
    <3>3. QED
      BY <3>2 DEF SomeLess
  <2>3. AtMost(a, Increment(a, s))
    <3> SUFFICES ASSUME NEW r \in Source PROVE a[r] <= Increment(a, s)[r]
      BY DEF AtMost
    <3>1. Increment(a, s)[r] = IF r = s THEN a[s] + 1 ELSE a[r]
      BY <1>2, <2>1
    <3>2. a[r] \in 0..MaxCounter
      BY <1>1
    <3>3. QED
      BY <3>1, <3>2
  <2>4. QED
    BY <1>4, <2>2, <2>3, HappensBeforeMeaning
<1>6. ASSUME a[s] = MaxCounter PROVE Increment(a, s) = a
  <2>1. next = a[s]
    BY <1>6, <1>1
  <2>2. QED
    BY <1>1, <1>2, <2>1
<1>7. QED
  BY <1>4, <1>5, <1>6

-----------------------------------------------------------------------------
(* The drained batch. *)

(* The scan of a set of indices upward finds its least member. *)
LEMMA LeastIndex ==
    ASSUME NEW n \in Nat, NEW S \in SUBSET (1..n), S # {}
    PROVE  Least(S) \in S /\ \A i \in S : Least(S) <= i
BY LeastMember DEF Least

(* A queue of items with clocks. *)
Queue(q) ==
    /\ Len(q) \in Nat /\ DOMAIN q = 1..Len(q)
    /\ \A i \in DOMAIN q : q[i].vc \in VectorClock

(* As long as items are left, one of them is ready. *)
LEMMA SomeoneIsReady ==
    ASSUME NEW q, Queue(q), NEW e \in SUBSET (DOMAIN q),
           DOMAIN q \ e # {}
    PROVE  Ready(q, e) # {}
<1> DEFINE R  == DOMAIN q \ e
           Lt == {p \in R \X R : HappensBefore(q[p[1]].vc, q[p[2]].vc)}
<1>1. IsFiniteSet(R)
  <2>1. IsFiniteSet(DOMAIN q)
    BY FS_Interval DEF Queue
  <2>2. QED
    BY <2>1, FS_Subset
<1>2. \A i \in R : q[i].vc \in VectorClock
  BY DEF Queue
<1>3. \A i, j \in R : <<i, j>> \in Lt <=> HappensBefore(q[i].vc, q[j].vc)
  OBVIOUS
<1>4. \E i \in R : \A j \in R : <<j, i>> \notin Lt
  <2>1. \A i \in R : <<i, i>> \notin Lt
    BY <1>2, <1>3, HappensBeforeIrreflexive
  <2>2. \A i, j, k \in R :
           <<i, j>> \in Lt /\ <<j, k>> \in Lt => <<i, k>> \in Lt
    BY <1>2, <1>3, HappensBeforeTransitive
  <2> HIDE DEF R, Lt
  <2>3. R # {}
    BY DEF R
  <2>4. QED
    BY <1>1, <2>1, <2>2, <2>3, MinimalElement
<1>5. QED
  BY <1>3, <1>4 DEF Ready

-----------------------------------------------------------------------------
(* The rounds of the sort. *)

\* The indices a function f on the rounds picks before round k.
Picked(f, k) == {f[j] : j \in 1..(k - 1)}

\* f picks as the sort does in its first n rounds.
Rounds(q, f, n) == f = [k \in 1..n |-> Least(Ready(q, Picked(f, k)))]

(* However many rounds, there is a function that picks as the sort does. *)
LEMMA RoundsExist == ASSUME NEW q, NEW n \in Nat PROVE \E f : Rounds(q, f, n)
<1> SUFFICES ASSUME ~\E f : Rounds(q, f, n) PROVE FALSE
  OBVIOUS
<1> DEFINE S == {m \in 1..(n + 1) : ~\E f : Rounds(q, f, m - 1)}
<1>1. PICK m \in S : \A i \in S : m <= i
  <2>1. n + 1 \in S
    OBVIOUS
  <2> HIDE DEF S
  <2>2. n + 1 \in Nat /\ S \subseteq 1..(n + 1)
    BY DEF S
  <2>3. QED
    BY <2>1, <2>2, LeastMember
<1>2. m # 1
  <2> DEFINE f == [k \in {} |-> 0]
  <2>1. 1..(1 - 1) = {}
    OBVIOUS
  <2>2. f = [k \in {} |-> Least(Ready(q, Picked(f, k)))]
    OBVIOUS
  <2> HIDE DEF f
  <2>3. Rounds(q, f, 1 - 1)
    BY <2>1, <2>2 DEF Rounds
  <2>4. QED
    BY <2>3
<1>3. PICK f : Rounds(q, f, m - 2)
  BY <1>1, <1>2
<1> DEFINE g == [k \in 1..(m - 1) |->
                    IF k = m - 1 THEN Least(Ready(q, Picked(f, k))) ELSE f[k]]
<1>4. \A k \in 1..(m - 1) : Picked(g, k) = Picked(f, k)
  <2> TAKE k \in 1..(m - 1)
  <2>1. \A j \in 1..(k - 1) : j \in 1..(m - 1) /\ j # m - 1
    BY <1>1
  <2>2. \A j \in 1..(k - 1) : g[j] = f[j]
    BY <2>1
  <2> HIDE DEF g, S
  <2>3. QED
    BY <2>2 DEF Picked
<1>5. \A k \in 1..(m - 2) : f[k] = Least(Ready(q, Picked(f, k)))
  <2> HIDE DEF S
  <2>1. f = [k \in 1..(m - 2) |-> Least(Ready(q, Picked(f, k)))]
    BY <1>3 DEF Rounds
  <2>2. QED
    BY <2>1, Zenon
<1>6. g = [k \in 1..(m - 1) |-> Least(Ready(q, Picked(g, k)))]
  <2>1. \A k \in 1..(m - 1) : g[k] = Least(Ready(q, Picked(g, k)))
    <3> TAKE k \in 1..(m - 1)
    <3>1. CASE k = m - 1
      BY <3>1, <1>4
    <3>2. CASE k # m - 1
      <4>1. k \in 1..(m - 2)
        BY <3>2
      <4>2. g[k] = f[k]
        BY <3>2
      <4>3. QED
        BY <4>1, <4>2, <1>4, <1>5
    <3>3. QED
      BY <3>1, <3>2
  <2>2. DOMAIN g = 1..(m - 1) /\ g = [k \in DOMAIN g |-> g[k]]
    OBVIOUS
  <2> HIDE DEF g, S
  <2>3. QED
    BY <2>1, <2>2
<1>7. Rounds(q, g, m - 1)
  BY <1>6 DEF Rounds
<1>8. QED
  BY <1>1, <1>7

(* The recursion of EmissionOrder holds. *)
LEMMA EmissionOrderRounds ==
    ASSUME NEW q, Queue(q)
    PROVE  /\ EmissionOrder(q) = [k \in DOMAIN q |-> EmissionOrder(q)[k]]
           /\ \A k \in DOMAIN q :
                 EmissionOrder(q)[k] = Least(Ready(q, Picked(EmissionOrder(q), k)))
<1> DEFINE n == Len(q)
<1>1. EmissionOrder(q) = CHOOSE f : Rounds(q, f, n)
  <2>1. EmissionOrder(q) =
           CHOOSE f : f = [k \in DOMAIN q |-> Least(Ready(q, {f[j] : j \in 1..(k - 1)}))]
    BY DEF EmissionOrder
  <2>2. QED
    BY <2>1 DEF Rounds, Picked, Queue
<1>2. \E f : Rounds(q, f, n)
  BY RoundsExist DEF Queue
<1>3. Rounds(q, EmissionOrder(q), n)
  BY <1>1, <1>2, Zenon
<1>4. EmissionOrder(q) =
         [k \in DOMAIN q |-> Least(Ready(q, Picked(EmissionOrder(q), k)))]
  BY <1>3 DEF Rounds, Queue
<1>5. QED
  BY <1>4, Zenon

(* Each round picks an index that is ready, the least one. *)
LEMMA RoundsPickReady ==
    ASSUME NEW q, Queue(q)
    PROVE  \A k \in DOMAIN q :
               LET pick == EmissionOrder(q)
               IN  /\ Picked(pick, k) \in SUBSET (DOMAIN q)
                   /\ pick[k] \in Ready(q, Picked(pick, k))
                   /\ \A i \in Ready(q, Picked(pick, k)) : pick[k] <= i
<1> DEFINE n    == Len(q)
           pick == EmissionOrder(q)
           Good(k) == /\ pick[k] \in Ready(q, Picked(pick, k))
                      /\ \A i \in Ready(q, Picked(pick, k)) : pick[k] <= i
<1>1. n \in Nat /\ DOMAIN q = 1..n
  BY DEF Queue
<1>2. ASSUME NEW k \in 1..n, \A j \in 1..(k - 1) : pick[j] \in 1..n
      PROVE  Good(k) /\ pick[k] \in 1..n
  <2>1. Picked(pick, k) \in SUBSET (1..n)
    BY <1>2 DEF Picked
  <2>2. (1..n) \ Picked(pick, k) # {}
    <3> DEFINE f == [j \in 1..(k - 1) |-> pick[j]]
               T == Picked(pick, k)
    <3>1. f \in Surjection(1..(k - 1), T)
      <4>1. f \in [1..(k - 1) -> T]
        BY DEF Picked
      <4>2. \A t \in T : \E s \in 1..(k - 1) : f[s] = t
        BY DEF Picked
      <4>3. QED
        BY <4>1, <4>2, Fun_IsSurj
    <3>2. IsFiniteSet(1..(k - 1)) /\ Cardinality(1..(k - 1)) = k - 1
      <4>1. 1 \in Int /\ k - 1 \in Int /\ k - 1 - 1 + 1 = k - 1 /\ (1 > k - 1 => k - 1 = 0)
        BY <1>1
      <4>2. QED
        BY <4>1, FS_Interval
    <3>3. IsFiniteSet(T) /\ Cardinality(T) <= k - 1
      BY <3>1, <3>2, FS_Surjection
    <3>4. IsFiniteSet(1..n) /\ Cardinality(1..n) = n
      BY <1>1, FS_Interval
    <3>5. T # 1..n
      BY <3>3, <3>4, <1>1
    <3>6. QED
      BY <2>1, <3>5
  <2>3. Ready(q, Picked(pick, k)) # {} /\ Ready(q, Picked(pick, k)) \in SUBSET (1..n)
    <3> HIDE DEF pick
    <3>1. Ready(q, Picked(pick, k)) # {}
      BY <2>1, <2>2, <1>1, SomeoneIsReady
    <3>2. QED
      BY <3>1, <1>1 DEF Ready
  <2>4. pick[k] = Least(Ready(q, Picked(pick, k)))
    BY <1>1, EmissionOrderRounds
  <2> HIDE DEF pick
  <2>5. QED
    BY <2>3, <2>4, <1>1, LeastIndex
<1>3. \A k \in 1..n : pick[k] \in 1..n
  <2> DEFINE Bad == {k \in 1..n : pick[k] \notin 1..n}
  <2> SUFFICES ASSUME Bad # {} PROVE FALSE
    OBVIOUS
  <2>1. PICK k \in Bad : \A j \in Bad : k <= j
    <3>1. Bad \in SUBSET (1..n)
      OBVIOUS
    <3> HIDE DEF Bad
    <3>2. QED
      BY <3>1, <1>1, LeastMember
  <2>2. \A j \in 1..(k - 1) : j \in 1..n /\ ~(k <= j)
    BY <1>1
  <2>3. \A j \in 1..(k - 1) : pick[j] \in 1..n
    BY <2>1, <2>2
  <2> HIDE DEF pick, Good
  <2>4. QED
    BY <2>1, <2>3, <1>2
<1>4. \A k \in 1..n : Good(k)
  <2> HIDE DEF pick, Good
  <2> TAKE k \in 1..n
  <2>1. \A j \in 1..(k - 1) : j \in 1..n
    BY <1>1
  <2>2. QED
    BY <2>1, <1>2, <1>3
<1>5. \A k \in 1..n : Picked(pick, k) \in SUBSET (1..n)
  <2> HIDE DEF pick
  <2> TAKE k \in 1..n
  <2>1. \A j \in 1..(k - 1) : j \in 1..n
    BY <1>1
  <2>2. QED
    BY <2>1, <1>3 DEF Picked
<1>6. QED
  BY <1>1, <1>4, <1>5

(* The sort picks every index exactly once. *)
LEMMA EmissionOrderPermutes ==
    ASSUME NEW q, Queue(q)
    PROVE  EmissionOrder(q) \in Bijection(DOMAIN q, DOMAIN q)
<1> DEFINE n    == Len(q)
           pick == EmissionOrder(q)
<1>1. n \in Nat /\ DOMAIN q = 1..n
  BY DEF Queue
<1>2. \A k \in 1..n : pick[k] \in 1..n /\ pick[k] \notin Picked(pick, k)
  BY <1>1, RoundsPickReady DEF Ready
<1>3. pick \in [1..n -> 1..n]
  <2>1. pick = [k \in 1..n |-> pick[k]]
    BY <1>1, EmissionOrderRounds
  <2> HIDE DEF pick
  <2>2. QED
    BY <1>2, <2>1
<1>4. \A i, j \in 1..n : pick[i] = pick[j] => i = j
  <2> HIDE DEF pick
  <2>1. \A i, j \in 1..n : i < j => pick[i] # pick[j]
    <3> SUFFICES ASSUME NEW i \in 1..n, NEW j \in 1..n, i < j, pick[i] = pick[j]
                 PROVE  FALSE
      OBVIOUS
    <3>1. i \in 1..(j - 1)
      BY <1>1
    <3>2. pick[i] \in Picked(pick, j)
      BY <3>1 DEF Picked
    <3>3. QED
      BY <3>2, <1>2
  <2>2. QED
    BY <2>1, <1>1
<1>5. pick \in Injection(1..n, 1..n)
  <2> HIDE DEF pick
  <2>1. QED
    BY <1>3, <1>4, Fun_IsInj
<1>6. pick \in Surjection(1..n, 1..n)
  <2> HIDE DEF pick
  <2>1. IsFiniteSet(1..n)
    BY <1>1, FS_Interval
  <2>2. QED
    BY <2>1, <1>5, FS_Injection
<1>7. QED
  BY <1>1, <1>5, <1>6 DEF Bijection

-----------------------------------------------------------------------------
(* What causal_sort returns. *)

(* It returns the items of the queue, each once, in some order. *)
THEOREM SortPermutes ==
    ASSUME NEW q, Queue(q)
    PROVE  /\ EmissionOrder(q) \in Bijection(DOMAIN q, DOMAIN q)
           /\ CausalSort(q) = [i \in DOMAIN q |-> q[EmissionOrder(q)[i]]]
BY EmissionOrderPermutes DEF CausalSort

(* It shows no effect before its cause: the index picked in an earlier round  *)
(* was ready while the later one was still left.                            *)
THEOREM SortIsCausal ==
    ASSUME NEW q, Queue(q)
    PROVE  CausalOrder(CausalSort(q))
<1> DEFINE n    == Len(q)
           pick == EmissionOrder(q)
<1>1. n \in Nat /\ DOMAIN q = 1..n
  BY DEF Queue
<1>2. \A k \in 1..n : /\ Picked(pick, k) \in SUBSET (1..n)
                      /\ pick[k] \in Ready(q, Picked(pick, k))
  BY <1>1, RoundsPickReady
<1>3. ASSUME NEW i \in 1..n, NEW j \in 1..n,
             HappensBefore(q[pick[i]].vc, q[pick[j]].vc), ~(i < j)
      PROVE  FALSE
  <2> HIDE DEF pick
  <2>1. pick[i] \in 1..n /\ pick[j] \in 1..n
    BY <1>1, <1>2 DEF Ready
  <2>2. pick[i] # pick[j]
    BY <2>1, <1>1, <1>3, HappensBeforeIrreflexive DEF Queue
  <2>3. j < i
    BY <2>2, <1>1, <1>3
  <2>4. \A m \in 1..(j - 1) : m \in 1..(i - 1)
    BY <2>3, <1>1
  <2>5. pick[i] \notin Picked(pick, j)
    <3>1. pick[i] \notin Picked(pick, i)
      BY <1>2 DEF Ready
    <3>2. QED
      BY <3>1, <2>4 DEF Picked
  <2>6. QED
    BY <2>1, <2>2, <2>5, <1>1, <1>2, <1>3 DEF Ready
<1>4. \A i, j \in 1..n : HappensBefore(q[pick[i]].vc, q[pick[j]].vc) => i < j
  BY <1>3
<1>5. QED
  <2>1. CausalSort(q) = [k \in 1..n |-> q[pick[k]]]
    BY <1>1 DEF CausalSort
  <2> HIDE DEF pick
  <2>2. QED
    BY <2>1, <1>4 DEF CausalOrder

(* It leaves a queue alone whose arrivals already respect causality: in each *)
(* round the first index left is ready.                                     *)
THEOREM SortKeepsCausalQueue ==
    ASSUME NEW q, Queue(q), CausalOrder(q)
    PROVE  \A k \in DOMAIN q : EmissionOrder(q)[k] = k
<1> DEFINE n    == Len(q)
           pick == EmissionOrder(q)
           Bad  == {k \in 1..n : pick[k] # k}
<1> SUFFICES ASSUME Bad # {} PROVE FALSE
  BY DEF Queue
<1>1. n \in Nat /\ DOMAIN q = 1..n
  BY DEF Queue
<1>2. PICK k \in Bad : \A j \in Bad : k <= j
  <2>1. Bad \in SUBSET (1..n)
    OBVIOUS
  <2> HIDE DEF Bad
  <2>2. QED
    BY <2>1, <1>1, LeastMember
<1>3. \A j \in 1..(k - 1) : pick[j] = j
  <2>1. \A j \in 1..(k - 1) : j \in 1..n /\ ~(k <= j)
    BY <1>1
  <2>2. QED
    BY <2>1, <1>2
<1>4. /\ pick[k] \in Ready(q, Picked(pick, k))
      /\ \A i \in Ready(q, Picked(pick, k)) : pick[k] <= i
  BY <1>1, RoundsPickReady
<1> HIDE DEF pick
<1>5. k \in 1..n /\ pick[k] # k
  OBVIOUS
<1> HIDE DEF Bad
<1>6. Picked(pick, k) = 1..(k - 1)
  BY <1>3 DEF Picked
<1>7. k \in Ready(q, Picked(pick, k))
  <2>1. \A j \in (1..n) \ (1..(k - 1)) : j # k => ~HappensBefore(q[j].vc, q[k].vc)
    <3>1. \A j \in (1..n) \ (1..(k - 1)) : ~(j < k)
      BY <1>1, <1>5
    <3>2. QED
      BY <3>1, <1>1, <1>5 DEF CausalOrder
  <2>2. k \notin 1..(k - 1)
    BY <1>1, <1>5
  <2>3. QED
    BY <2>1, <2>2, <1>1, <1>5, <1>6 DEF Ready
<1>8. pick[k] <= k /\ pick[k] \in 1..n /\ pick[k] \notin 1..(k - 1)
  BY <1>1, <1>4, <1>6, <1>7 DEF Ready
<1>9. QED
  BY <1>1, <1>5, <1>8
=============================================================================
