-------------------------- MODULE HumanLaneProofs --------------------------
(***************************************************************************)
(* Proofs about the human review lane, for every capacity, any number of   *)
(* pushes and handoffs, and any set of people.                             *)
(***************************************************************************)
EXTENDS HumanLane, OrderLemmas, SequenceTheorems, FunctionTheorems, TLAPS

(* push appends behind everything held. *)
LEMMA AppendShape ==
    ASSUME NEW S, NEW s \in Seq(S), NEW e \in S
    PROVE  /\ Append(s, e) \in Seq(S)
           /\ Len(Append(s, e)) = Len(s) + 1 /\ Len(s) \in Nat
           /\ DOMAIN s = 1..Len(s)
           /\ DOMAIN Append(s, e) = 1..(Len(s) + 1)
           /\ \A i \in 1..Len(s) : Append(s, e)[i] = s[i]
           /\ Append(s, e)[Len(s) + 1] = e
BY AppendProperties

(* `remove` takes one element out and closes the gap. *)
LEMMA WithoutShape ==
    ASSUME NEW S, NEW s \in Seq(S), NEW k \in 1..Len(s)
    PROVE  /\ Without(s, k) \in Seq(S)
           /\ Len(Without(s, k)) = Len(s) - 1
           /\ DOMAIN Without(s, k) = 1..(Len(s) - 1)
           /\ \A i \in 1..(Len(s) - 1) :
                 Without(s, k)[i] = IF i < k THEN s[i] ELSE s[i + 1]
<1>1. Len(s) \in Nat /\ Len(s) - 1 \in Nat /\ DOMAIN s = 1..Len(s)
  BY LenProperties
<1>2. \A i \in 1..(Len(s) - 1) : i \in 1..Len(s) /\ i + 1 \in 1..Len(s)
  BY <1>1
<1>3. \A i \in 1..Len(s) : s[i] \in S
  BY <1>1, ElementOfSeq
<1>4. \A i \in 1..(Len(s) - 1) : (IF i < k THEN s[i] ELSE s[i + 1]) \in S
  BY <1>2, <1>3
<1>5. Without(s, k) \in Seq(S)
  BY <1>1, <1>4, IsASeq DEF Without
<1>6. Len(Without(s, k)) = Len(s) - 1
  BY <1>1, <1>5, LenProperties DEF Without
<1>7. QED
  BY <1>1, <1>5, <1>6 DEF Without

(* The position eviction takes is one of the lane's: that of a reviewed    *)
(* entry if there is one, else the first.                                  *)
LEMMA EvictPosShape ==
    ASSUME NEW s \in Seq(HumanLaneEntry), Len(s) > 0
    PROVE  /\ EvictPos(s) \in 1..Len(s)
           /\ Acked(s) # {} => EvictPos(s) \in Acked(s)
           /\ Acked(s) = {} => EvictPos(s) = 1
<1>1. Len(s) \in Nat /\ DOMAIN s = 1..Len(s)
  BY LenProperties
<1>2. Acked(s) \subseteq 1..Len(s) /\ Acked(s) \in SUBSET Nat
  BY <1>1 DEF Acked
<1>3. CASE Acked(s) # {}
  <2>1. \E i \in Acked(s) : \A j \in Acked(s) : i <= j
    BY <1>1, <1>2, <1>3, LeastMember
  <2>2. EvictPos(s) \in Acked(s)
    BY <1>3, <2>1 DEF EvictPos
  <2>3. QED
    BY <1>2, <1>3, <2>2
<1>4. CASE Acked(s) = {}
  BY <1>1, <1>4 DEF EvictPos
<1>5. QED
  BY <1>3, <1>4

-----------------------------------------------------------------------------
(* The inductive invariant. *)

(* Of an entry of s whose sequence number was reviewed, the review and the *)
(* reviewer are kept.                                                      *)
Kept(s) ==
    \A r \in DOMAIN reviewer, i \in DOMAIN s :
        s[i].sequence = reviewer[r].sequence =>
            s[i].acked /\ s[i].owner = reviewer[r].by

(* The numbers of s increase, and all of them are below n.                 *)
Increasing(s, n) ==
    /\ \A i, j \in DOMAIN s : i < j => s[i].sequence < s[j].sequence
    /\ \A i \in DOMAIN s : s[i].sequence < n

(* The unreviewed entries of s belong to the person on shift.              *)
OnShift(s) == \A i \in DOMAIN s : ~s[i].acked => s[i].owner = current_owner

(* Each number below n is in the lane s or among the evicted, not in both. *)
Partition(s, out, n) ==
    /\ SequenceNumbers(s) \cup SequenceNumbers(out) = 0..(n - 1)
    /\ SequenceNumbers(s) \cap SequenceNumbers(out) = {}

Counted ==
    /\ Len(entries) <= capacity
    /\ Len(entries) + evicted_total = next_sequence
    /\ evicted_total = Len(evicted)

IInv ==
    /\ TypeOK
    /\ Counted
    /\ Partition(entries, evicted, next_sequence)
    /\ Increasing(entries, next_sequence)
    /\ \A r \in DOMAIN reviewer : reviewer[r].sequence < next_sequence
    /\ OnShift(entries)
    /\ Kept(entries) /\ Kept(evicted)
    /\ CustodyChain
    /\ current_owner = IF handoff_log = <<>> THEN Unassigned
                       ELSE handoff_log[Len(handoff_log)].next_owner

(* `new` builds a lane of which the invariant holds.                       *)
LEMMA InitIInv == Init => IInv
<1> SUFFICES ASSUME Init PROVE IInv
  OBVIOUS
<1>1. capacity \in Nat \ {0}
  BY LaneAssumption DEF Init, AtLeastOne
<1>2. TypeOK
  BY <1>1 DEF Init, TypeOK, Holder
<1>3. Counted
  BY <1>1 DEF Init, Counted
<1>4. Partition(entries, evicted, next_sequence)
  BY DEF Init, Partition, SequenceNumbers
<1>5. QED
  BY <1>2, <1>3, <1>4 DEF Init, IInv, Increasing, OnShift, Kept, CustodyChain

(* What ack has recorded are numbers that push issued.                     *)
LEMMA ReviewedNumbers ==
    ASSUME IInv PROVE \A r \in DOMAIN reviewer : reviewer[r].sequence \in Nat
<1>1. reviewer \in Seq(Review)
  BY DEF IInv, TypeOK
<1>2. \A r \in DOMAIN reviewer : reviewer[r] \in Review
  BY <1>1, LenProperties, ElementOfSeq
<1>3. QED
  BY <1>2 DEF Review

-----------------------------------------------------------------------------
(* The lane right after push_back, before any eviction.                    *)
LEMMA PushedBack ==
    ASSUME IInv, NEW e \in Evidence
    PROVE  LET longer == Append(entries, NewEntry(e))
           IN  /\ longer \in Seq(HumanLaneEntry)
               /\ Len(longer) = Len(entries) + 1
               /\ Increasing(longer, next_sequence + 1)
               /\ OnShift(longer)
               /\ Kept(longer)
               /\ Partition(longer, evicted, next_sequence + 1)
<1> DEFINE n      == Len(entries)
           longer == Append(entries, NewEntry(e))
<1>1. /\ NewEntry(e) \in HumanLaneEntry /\ entries \in Seq(HumanLaneEntry)
      /\ next_sequence \in Nat
  BY DEF IInv, TypeOK, NewEntry, HumanLaneEntry
<1>2. /\ NewEntry(e).sequence = next_sequence /\ ~NewEntry(e).acked
      /\ NewEntry(e).owner = current_owner
  BY DEF NewEntry
<1>3. /\ longer \in Seq(HumanLaneEntry)
      /\ Len(longer) = n + 1 /\ n \in Nat
      /\ DOMAIN entries = 1..n
      /\ DOMAIN longer = 1..(n + 1)
      /\ \A i \in 1..n : longer[i] = entries[i]
      /\ longer[n + 1] = NewEntry(e)
  BY <1>1, AppendShape
<1>4. \A i \in 1..n : entries[i].sequence \in Nat /\ entries[i].sequence < next_sequence
  <2>1. \A i \in 1..n : entries[i] \in HumanLaneEntry
    BY <1>1, <1>3, ElementOfSeq
  <2>2. QED
    BY <1>3, <2>1 DEF IInv, Increasing, HumanLaneEntry
<1>5. \A i \in 1..(n + 1) : i \in 1..n \/ i = n + 1
  BY <1>3
<1> HIDE DEF n, longer
<1>6. Increasing(longer, next_sequence + 1)
  <2>1. ASSUME NEW i \in 1..(n + 1), NEW j \in 1..(n + 1), i < j
        PROVE  longer[i].sequence < longer[j].sequence
    <3>1. i \in 1..n /\ longer[i] = entries[i]
      BY <1>3, <2>1
    <3>2. CASE j \in 1..n
      BY <1>3, <2>1, <3>1, <3>2 DEF IInv, Increasing
    <3>3. CASE j = n + 1
      BY <1>2, <1>3, <1>4, <3>1, <3>3
    <3>4. QED
      BY <1>5, <3>2, <3>3
  <2>2. \A i \in 1..(n + 1) : longer[i].sequence < next_sequence + 1
    BY <1>1, <1>2, <1>3, <1>4, <1>5
  <2>3. QED
    BY <1>3, <2>1, <2>2 DEF Increasing
<1>7. OnShift(longer)
  BY <1>2, <1>3, <1>5 DEF IInv, OnShift
<1>8. Kept(longer)
  <2>1. ASSUME NEW r \in DOMAIN reviewer, NEW i \in 1..(n + 1),
               longer[i].sequence = reviewer[r].sequence
        PROVE  longer[i].acked /\ longer[i].owner = reviewer[r].by
    <3>1. i # n + 1
      <4>1. reviewer[r].sequence < next_sequence
        BY DEF IInv
      <4>2. QED
        BY <1>1, <1>2, <1>3, <2>1, <4>1
    <3>2. i \in 1..n /\ longer[i] = entries[i]
      BY <1>3, <1>5, <3>1
    <3>3. QED
      BY <1>3, <2>1, <3>2 DEF IInv, Kept
  <2>2. QED
    BY <1>3, <2>1 DEF Kept
<1>9. Partition(longer, evicted, next_sequence + 1)
  <2>1. SequenceNumbers(longer) = SequenceNumbers(entries) \cup {next_sequence}
    BY <1>2, <1>3, <1>5 DEF SequenceNumbers
  <2>2. /\ SequenceNumbers(entries) \cup SequenceNumbers(evicted) = 0..(next_sequence - 1)
        /\ SequenceNumbers(entries) \cap SequenceNumbers(evicted) = {}
    BY DEF IInv, Partition
  <2>3. /\ 0..(next_sequence + 1 - 1) = 0..(next_sequence - 1) \cup {next_sequence}
        /\ next_sequence \notin 0..(next_sequence - 1)
    BY <1>1
  <2>4. QED
    BY <2>1, <2>2, <2>3 DEF Partition
<1>10. QED
  BY <1>3, <1>6, <1>7, <1>8, <1>9 DEF n, longer

(* What remove(k) leaves of such a lane.                                   *)
LEMMA Removed ==
    ASSUME NEW s \in Seq(HumanLaneEntry), NEW k \in 1..Len(s), NEW n \in Nat,
           Increasing(s, n), OnShift(s), Kept(s)
    PROVE  /\ Increasing(Without(s, k), n)
           /\ OnShift(Without(s, k))
           /\ Kept(Without(s, k))
           /\ SequenceNumbers(Without(s, k)) = SequenceNumbers(s) \ {s[k].sequence}
<1> DEFINE w == Without(s, k)
           at(i) == IF i < k THEN i ELSE i + 1
<1>1. /\ Len(s) \in Nat /\ DOMAIN s = 1..Len(s)
      /\ DOMAIN w = 1..(Len(s) - 1)
      /\ \A i \in 1..(Len(s) - 1) : w[i] = IF i < k THEN s[i] ELSE s[i + 1]
  BY WithoutShape, LenProperties
<1>2. \A i \in DOMAIN w : /\ at(i) \in DOMAIN s /\ at(i) # k
                          /\ w[i] = s[at(i)]
  BY <1>1
<1>3. \A i, j \in DOMAIN w : i < j => at(i) < at(j)
  BY <1>1
<1>4. \A m \in DOMAIN s : m # k => \E i \in DOMAIN w : at(i) = m
  <2> SUFFICES ASSUME NEW m \in DOMAIN s, m # k
               PROVE  \E i \in DOMAIN w : at(i) = m
    OBVIOUS
  <2>1. CASE m < k
    BY <1>1, <2>1
  <2>2. CASE m > k
    <3>1. m - 1 \in DOMAIN w /\ at(m - 1) = m
      BY <1>1, <2>2
    <3>2. QED
      BY <3>1
  <2>3. QED
    BY <1>1, <2>1, <2>2
<1> HIDE DEF w, at
<1>5. Increasing(w, n)
  BY <1>2, <1>3 DEF Increasing
<1>6. OnShift(w) /\ Kept(w)
  BY <1>2 DEF OnShift, Kept
<1>7. SequenceNumbers(w) = SequenceNumbers(s) \ {s[k].sequence}
  <2>1. \A i \in DOMAIN w : w[i].sequence \in SequenceNumbers(s) \ {s[k].sequence}
    <3> SUFFICES ASSUME NEW i \in DOMAIN w
                 PROVE  w[i].sequence \in SequenceNumbers(s) \ {s[k].sequence}
      OBVIOUS
    <3>1. at(i) \in 1..Len(s) /\ at(i) # k /\ w[i] = s[at(i)]
      BY <1>1, <1>2
    <3>2. at(i) < k \/ k < at(i)
      BY <1>1, <3>1
    <3>3. s[at(i)] \in HumanLaneEntry /\ s[k] \in HumanLaneEntry
      BY <1>1, <3>1, ElementOfSeq
    <3>4. s[at(i)].sequence \in Nat /\ s[k].sequence \in Nat
      BY <3>3 DEF HumanLaneEntry
    <3>5. s[at(i)].sequence < s[k].sequence \/ s[k].sequence < s[at(i)].sequence
      BY <1>1, <3>1, <3>2 DEF Increasing
    <3>6. QED
      BY <1>1, <3>1, <3>4, <3>5 DEF SequenceNumbers
  <2>2. \A m \in DOMAIN s : m # k => s[m].sequence \in SequenceNumbers(w)
    BY <1>2, <1>4 DEF SequenceNumbers
  <2>3. QED
    BY <2>1, <2>2 DEF SequenceNumbers
<1>8. QED
  BY <1>5, <1>6, <1>7 DEF w

(* A push that finds room.                                                 *)
LEMMA KeptIInv ==
    ASSUME IInv, NEW e \in Evidence, Push(e), PushKept(e) PROVE IInv'
<1> DEFINE longer == Append(entries, NewEntry(e))
<1>1. /\ longer \in Seq(HumanLaneEntry)
      /\ Len(longer) = Len(entries) + 1
      /\ Increasing(longer, next_sequence + 1)
      /\ OnShift(longer) /\ Kept(longer)
      /\ Partition(longer, evicted, next_sequence + 1)
  BY PushedBack
<1>2. /\ entries' = longer /\ Len(entries) + 1 <= capacity
      /\ evicted' = evicted /\ evicted_total' = evicted_total
  BY DEF PushKept
<1>3. /\ next_sequence' = next_sequence + 1 /\ capacity' = capacity
      /\ current_owner' = current_owner /\ handoff_log' = handoff_log
      /\ next_handoff_sequence' = next_handoff_sequence
      /\ reviewer' = reviewer
  BY DEF Push
<1> HIDE DEF longer
<1>4. TypeOK'
  BY <1>1, <1>2, <1>3 DEF IInv, TypeOK
<1>5. Counted'
  <2>1. /\ evicted_total \in Nat /\ next_sequence \in Nat
        /\ Len(entries) + evicted_total = next_sequence
        /\ evicted_total = Len(evicted) /\ Len(entries) \in Nat
    BY LenProperties DEF IInv, TypeOK, Counted
  <2>2. QED
    BY <1>1, <1>2, <1>3, <2>1 DEF Counted
<1>6. \A r \in DOMAIN reviewer' : reviewer'[r].sequence < next_sequence'
  <2>1. \A r \in DOMAIN reviewer : reviewer[r].sequence \in Nat
    BY ReviewedNumbers
  <2>2. next_sequence \in Nat
    BY DEF IInv, TypeOK
  <2>3. \A r \in DOMAIN reviewer : reviewer[r].sequence < next_sequence
    BY DEF IInv
  <2>4. ASSUME NEW r \in DOMAIN reviewer PROVE reviewer[r].sequence < next_sequence + 1
    BY <2>1, <2>2, <2>3
  <2>5. QED
    BY <1>3, <2>4
<1>7. /\ Partition(entries, evicted, next_sequence)'
      /\ Increasing(entries, next_sequence)'
      /\ OnShift(entries)' /\ Kept(entries)'
  <2>1. Partition(entries, evicted, next_sequence)'
    <3>1. Partition(longer, evicted, next_sequence + 1)
      BY <1>1
    <3>2. entries' = longer /\ evicted' = evicted /\ next_sequence' = next_sequence + 1
      BY <1>2, <1>3
    <3>3. QED
      BY <3>1, <3>2 DEF Partition, SequenceNumbers
  <2>2. Increasing(entries, next_sequence)'
    BY <1>1, <1>2, <1>3 DEF Increasing
  <2>3. OnShift(entries)' /\ Kept(entries)'
    BY <1>1, <1>2, <1>3 DEF OnShift, Kept
  <2>4. QED
    BY <2>1, <2>2, <2>3
<1>8. /\ Kept(evicted)' /\ CustodyChain'
      /\ (current_owner = IF handoff_log = <<>> THEN Unassigned
                          ELSE handoff_log[Len(handoff_log)].next_owner)'
  BY <1>2, <1>3 DEF IInv, Kept, CustodyChain
<1>9. QED
  BY <1>4, <1>5, <1>6, <1>7, <1>8 DEF IInv

(* A push that evicts.                                                     *)
LEMMA EvictingIInv ==
    ASSUME IInv, NEW e \in Evidence, Push(e), PushEvicting(e) PROVE IInv'
<1> DEFINE longer == Append(entries, NewEntry(e))
           k      == EvictPos(longer)
<1>1. /\ longer \in Seq(HumanLaneEntry)
      /\ Len(longer) = Len(entries) + 1
      /\ Increasing(longer, next_sequence + 1)
      /\ OnShift(longer) /\ Kept(longer)
      /\ Partition(longer, evicted, next_sequence + 1)
  BY PushedBack
<1>2. /\ entries' = Without(longer, k) /\ Len(entries) + 1 > capacity
      /\ evicted' = Append(evicted, longer[k])
      /\ evicted_total' = evicted_total + 1
  BY DEF PushEvicting
<1>3. /\ next_sequence' = next_sequence + 1 /\ capacity' = capacity
      /\ current_owner' = current_owner /\ handoff_log' = handoff_log
      /\ next_handoff_sequence' = next_handoff_sequence
      /\ reviewer' = reviewer
  BY DEF Push
<1>4. /\ evicted_total \in Nat /\ next_sequence \in Nat
      /\ Len(entries) + evicted_total = next_sequence
      /\ Len(entries) <= capacity
      /\ evicted_total = Len(evicted) /\ Len(entries) \in Nat
      /\ evicted \in Seq(HumanLaneEntry)
  BY LenProperties DEF IInv, TypeOK, Counted
<1> HIDE DEF longer, k
<1>5. k \in 1..Len(longer)
  <2>1. Len(longer) > 0
    BY <1>1, <1>4
  <2>2. QED
    BY <1>1, <2>1, EvictPosShape DEF k
<1>6. longer[k] \in HumanLaneEntry
  BY <1>1, <1>5, ElementOfSeq
<1>7. /\ entries' \in Seq(HumanLaneEntry) /\ Len(entries') = Len(entries)
  <2>1. /\ Without(longer, k) \in Seq(HumanLaneEntry)
        /\ Len(Without(longer, k)) = Len(longer) - 1
    BY <1>1, <1>5, WithoutShape
  <2>2. QED
    BY <1>1, <1>2, <1>4, <2>1
<1>8. /\ Increasing(entries', next_sequence + 1)
      /\ OnShift(entries') /\ Kept(entries')
      /\ SequenceNumbers(entries') = SequenceNumbers(longer) \ {longer[k].sequence}
  <2>1. next_sequence + 1 \in Nat
    BY <1>4
  <2>2. QED
    BY <1>1, <1>2, <1>5, <2>1, Removed
<1>9. /\ evicted' \in Seq(HumanLaneEntry) /\ Len(evicted') = Len(evicted) + 1
      /\ DOMAIN evicted = 1..Len(evicted)
      /\ DOMAIN evicted' = 1..(Len(evicted) + 1)
      /\ \A i \in 1..Len(evicted) : evicted'[i] = evicted[i]
      /\ evicted'[Len(evicted) + 1] = longer[k]
      /\ Len(evicted) \in Nat
  BY <1>2, <1>4, <1>6, AppendShape
<1>10. \A i \in DOMAIN evicted' : i \in DOMAIN evicted \/ i = Len(evicted) + 1
  BY <1>9
<1>11. TypeOK'
  <2>1. evicted_total' \in Nat /\ next_sequence' \in Nat
    BY <1>2, <1>3, <1>4
  <2>2. QED
    BY <2>1, <1>3, <1>7, <1>9 DEF IInv, TypeOK
<1>12. Counted'
  <2>1. /\ Len(entries') <= capacity
        /\ Len(entries') + evicted_total' = next_sequence + 1
    <3>1. Len(entries') = Len(entries) /\ evicted_total' = evicted_total + 1
      BY <1>2, <1>7
    <3>2. /\ Len(entries) \in Nat /\ evicted_total \in Nat
          /\ Len(entries) <= capacity
          /\ Len(entries) + evicted_total = next_sequence
      BY <1>4
    <3>3. QED
      BY <3>1, <3>2
  <2>2. evicted_total' = Len(evicted')
    BY <1>2, <1>4, <1>9
  <2>3. QED
    BY <1>3, <2>1, <2>2 DEF Counted
<1>13. Partition(entries', evicted', next_sequence + 1)
  <2>1. SequenceNumbers(evicted') = SequenceNumbers(evicted) \cup {longer[k].sequence}
    BY <1>9, <1>10 DEF SequenceNumbers
  <2>2. longer[k].sequence \in SequenceNumbers(longer)
    BY <1>1, <1>5, LenProperties DEF SequenceNumbers
  <2>3. QED
    BY <1>1, <1>8, <2>1, <2>2 DEF Partition
<1>14. Kept(evicted')
  <2>1. Kept(evicted) /\ k \in DOMAIN longer
    BY <1>1, <1>5, LenProperties DEF IInv
  <2>2. QED
    BY <1>1, <1>9, <1>10, <2>1 DEF Kept
<1>15. \A r \in DOMAIN reviewer' : reviewer'[r].sequence < next_sequence'
  <2>1. \A r \in DOMAIN reviewer : reviewer[r].sequence \in Nat
    BY ReviewedNumbers
  <2>2. QED
    BY <1>3, <1>4, <2>1 DEF IInv
<1>16. /\ Partition(entries, evicted, next_sequence)'
       /\ Increasing(entries, next_sequence)'
       /\ OnShift(entries)' /\ Kept(entries)' /\ Kept(evicted)'
  <2>1. Partition(entries, evicted, next_sequence)'
    BY <1>3, <1>13 DEF Partition, SequenceNumbers
  <2>2. Increasing(entries, next_sequence)'
    BY <1>3, <1>8 DEF Increasing
  <2>3. OnShift(entries)' /\ Kept(entries)' /\ Kept(evicted)'
    BY <1>3, <1>8, <1>14 DEF OnShift, Kept
  <2>4. QED
    BY <2>1, <2>2, <2>3
<1>17. /\ CustodyChain'
       /\ (current_owner = IF handoff_log = <<>> THEN Unassigned
                           ELSE handoff_log[Len(handoff_log)].next_owner)'
  BY <1>3 DEF IInv, CustodyChain
<1>18. QED
  BY <1>11, <1>12, <1>15, <1>16, <1>17 DEF IInv

(* A step that changes only the review state of entries: the numbers stay. *)
LEMMA SameNumbers ==
    ASSUME IInv, DOMAIN entries' = DOMAIN entries,
           \A i \in DOMAIN entries : entries'[i].sequence = entries[i].sequence,
           evicted' = evicted, next_sequence' = next_sequence
    PROVE  /\ Partition(entries, evicted, next_sequence)'
           /\ Increasing(entries, next_sequence)'
<1>1. SequenceNumbers(entries') = SequenceNumbers(entries)
  BY DEF SequenceNumbers
<1>2. Partition(entries, evicted, next_sequence)'
  <2>1. /\ SequenceNumbers(entries) \cup SequenceNumbers(evicted) = 0..(next_sequence - 1)
        /\ SequenceNumbers(entries) \cap SequenceNumbers(evicted) = {}
    BY DEF IInv, Partition
  <2>2. SequenceNumbers(evicted') = SequenceNumbers(evicted)
    OBVIOUS
  <2>3. QED
    BY <1>1, <2>1, <2>2 DEF Partition
<1>3. Increasing(entries, next_sequence)'
  BY DEF IInv, Increasing
<1>4. QED
  BY <1>2, <1>3

(* A person acknowledges an entry that is held.                            *)
LEMMA AckIInv ==
    ASSUME IInv, NEW n \in Nat, Ack(n) PROVE IInv'
<1>1. PICK i \in DOMAIN entries :
        /\ entries[i].sequence = n
        /\ entries' = [entries EXCEPT ![i].acked = TRUE]
        /\ reviewer' = IF entries[i].acked THEN reviewer
                       ELSE Append(reviewer, [sequence |-> n,
                                              by |-> current_owner])
  BY DEF Ack
<1>2. /\ capacity' = capacity /\ next_sequence' = next_sequence
      /\ evicted_total' = evicted_total /\ current_owner' = current_owner
      /\ handoff_log' = handoff_log
      /\ next_handoff_sequence' = next_handoff_sequence
      /\ evicted' = evicted
  BY DEF Ack
<1>3. /\ entries \in Seq(HumanLaneEntry) /\ reviewer \in Seq(Review)
      /\ current_owner \in Holder
      /\ DOMAIN entries = 1..Len(entries) /\ Len(entries) \in Nat
  BY LenProperties DEF IInv, TypeOK
<1>4. \A j \in DOMAIN entries : entries[j] \in HumanLaneEntry
  BY <1>3, ElementOfSeq
<1>5. /\ DOMAIN entries' = DOMAIN entries
      /\ \A j \in DOMAIN entries : j # i => entries'[j] = entries[j]
      /\ entries'[i] = [entries[i] EXCEPT !.acked = TRUE]
  BY <1>1
<1>6. /\ entries'[i] \in HumanLaneEntry /\ entries'[i].acked
      /\ entries'[i].sequence = entries[i].sequence
      /\ entries'[i].owner = entries[i].owner
  BY <1>4, <1>5 DEF HumanLaneEntry
<1>7. /\ entries' \in Seq(HumanLaneEntry) /\ Len(entries') = Len(entries)
  <2>1. \A j \in DOMAIN entries : entries'[j] \in HumanLaneEntry
    BY <1>4, <1>5, <1>6
  <2>2. entries' = [j \in 1..Len(entries) |-> entries'[j]]
    BY <1>1, <1>3, <1>5
  <2>3. entries' \in Seq(HumanLaneEntry)
    BY <1>3, <2>1, <2>2, IsASeq
  <2>4. QED
    BY <1>3, <1>5, <2>3, LenProperties
<1>8. \A j \in DOMAIN entries : /\ entries'[j].sequence = entries[j].sequence
                                /\ entries'[j].owner = entries[j].owner
                                /\ entries[j].acked => entries'[j].acked
  BY <1>5, <1>6
<1>9. /\ Partition(entries, evicted, next_sequence)'
      /\ Increasing(entries, next_sequence)'
  BY <1>2, <1>5, <1>8, SameNumbers
<1>10. OnShift(entries)'
  BY <1>2, <1>5, <1>8 DEF IInv, OnShift
<1>11. n < next_sequence
  BY <1>1 DEF IInv, Increasing
<1>12. /\ reviewer' \in Seq(Review)
       /\ \A r \in DOMAIN reviewer' :
             \/ r \in DOMAIN reviewer /\ reviewer'[r] = reviewer[r]
             \/ /\ ~entries[i].acked /\ reviewer'[r].sequence = n
                /\ reviewer'[r].by = current_owner
  <2>1. CASE entries[i].acked
    BY <1>1, <1>3, <2>1
  <2>2. CASE ~entries[i].acked
    <3> DEFINE new == [sequence |-> n, by |-> current_owner]
    <3>1. new \in Review /\ new.sequence = n /\ new.by = current_owner
      BY <1>3 DEF Review
    <3>2. reviewer' = Append(reviewer, new)
      BY <1>1, <2>2
    <3> HIDE DEF new
    <3>3. /\ reviewer' \in Seq(Review) /\ Len(reviewer) \in Nat
          /\ DOMAIN reviewer = 1..Len(reviewer)
          /\ DOMAIN reviewer' = 1..(Len(reviewer) + 1)
          /\ \A r \in 1..Len(reviewer) : reviewer'[r] = reviewer[r]
          /\ reviewer'[Len(reviewer) + 1] = new
      BY <1>3, <3>1, <3>2, AppendShape
    <3>4. \A r \in 1..(Len(reviewer) + 1) :
             r \in 1..Len(reviewer) \/ r = Len(reviewer) + 1
      BY <3>3
    <3>5. QED
      BY <2>2, <3>1, <3>3, <3>4
  <2>3. QED
    BY <2>1, <2>2
<1>13. \A r \in DOMAIN reviewer' : reviewer'[r].sequence < next_sequence'
  BY <1>2, <1>11, <1>12 DEF IInv
<1>14. Kept(entries)'
  <2> SUFFICES ASSUME NEW r \in DOMAIN reviewer', NEW j \in DOMAIN entries',
                      entries'[j].sequence = reviewer'[r].sequence
               PROVE  entries'[j].acked /\ entries'[j].owner = reviewer'[r].by
    BY DEF Kept
  <2>1. CASE r \in DOMAIN reviewer /\ reviewer'[r] = reviewer[r]
    BY <1>5, <1>8, <2>1 DEF IInv, Kept
  <2>2. CASE /\ ~entries[i].acked /\ reviewer'[r].sequence = n
             /\ reviewer'[r].by = current_owner
    <3>1. entries[j].sequence = entries[i].sequence /\ j \in DOMAIN entries
      BY <1>1, <1>5, <1>8, <2>2
    <3>2. j = i
      <4>1. ~(i < j) /\ ~(j < i)
        <5>1. entries[i].sequence \in Nat
          BY <1>4 DEF HumanLaneEntry
        <5>2. QED
          BY <3>1, <5>1 DEF IInv, Increasing
      <4>2. QED
        BY <1>3, <3>1, <4>1
    <3>3. entries[i].owner = current_owner
      BY <2>2 DEF IInv, OnShift
    <3>4. QED
      BY <1>6, <2>2, <3>2, <3>3
  <2>3. QED
    BY <1>12, <2>1, <2>2
<1>15. Kept(evicted)'
  <2> SUFFICES ASSUME NEW r \in DOMAIN reviewer', NEW j \in DOMAIN evicted,
                      evicted[j].sequence = reviewer'[r].sequence
               PROVE  evicted[j].acked /\ evicted[j].owner = reviewer'[r].by
    BY <1>2 DEF Kept
  <2>1. CASE r \in DOMAIN reviewer /\ reviewer'[r] = reviewer[r]
    BY <2>1 DEF IInv, Kept
  <2>2. CASE reviewer'[r].sequence = n
    <3>1. n \in SequenceNumbers(entries) /\ n \in SequenceNumbers(evicted)
      BY <1>1, <2>2 DEF SequenceNumbers
    <3>2. QED
      BY <3>1 DEF IInv, Partition
  <2>3. QED
    BY <1>12, <2>1, <2>2
<1>16. TypeOK' /\ Counted'
  BY <1>2, <1>7, <1>12 DEF IInv, TypeOK, Counted
<1>17. /\ CustodyChain'
       /\ (current_owner = IF handoff_log = <<>> THEN Unassigned
                           ELSE handoff_log[Len(handoff_log)].next_owner)'
  BY <1>2 DEF IInv, CustodyChain
<1>18. QED
  BY <1>9, <1>10, <1>13, <1>14, <1>15, <1>16, <1>17 DEF IInv

(* A shift change.                                                         *)
LEMMA HandoffIInv ==
    ASSUME IInv, NEW o \in Owner, Handoff(o) PROVE IInv'
<1> DEFINE rec == [previous_owner     |-> current_owner,
                   next_owner         |-> o,
                   handoff_sequence   |-> next_handoff_sequence,
                   pending_at_handoff |-> Cardinality(Unacked(entries))]
           m   == Len(handoff_log)
<1>1. /\ capacity' = capacity /\ next_sequence' = next_sequence
      /\ evicted_total' = evicted_total /\ evicted' = evicted
      /\ reviewer' = reviewer /\ current_owner' = o
      /\ next_handoff_sequence' = next_handoff_sequence + 1
      /\ handoff_log' = Append(handoff_log, rec)
  BY DEF Handoff
<1>2. /\ DOMAIN entries' = DOMAIN entries
      /\ \A i \in DOMAIN entries :
            entries'[i] = IF entries[i].acked THEN entries[i]
                          ELSE [entries[i] EXCEPT !.owner = o]
      /\ entries' = [i \in DOMAIN entries |-> entries'[i]]
  BY DEF Handoff
<1>3. /\ entries \in Seq(HumanLaneEntry) /\ handoff_log \in Seq(HandoffRecord)
      /\ current_owner \in Holder /\ next_handoff_sequence \in Nat
      /\ DOMAIN entries = 1..Len(entries) /\ Len(entries) \in Nat
  BY LenProperties DEF IInv, TypeOK
<1>4. \A i \in DOMAIN entries : entries[i] \in HumanLaneEntry
  BY <1>3, ElementOfSeq
<1>5. \A i \in DOMAIN entries :
         /\ entries'[i] \in HumanLaneEntry
         /\ entries'[i].sequence = entries[i].sequence
         /\ entries'[i].acked = entries[i].acked
         /\ entries[i].acked => entries'[i].owner = entries[i].owner
         /\ ~entries[i].acked => entries'[i].owner = o
  BY <1>2, <1>4 DEF HumanLaneEntry, Holder
<1>6. /\ entries' \in Seq(HumanLaneEntry) /\ Len(entries') = Len(entries)
  <2>1. entries' \in Seq(HumanLaneEntry)
    BY <1>2, <1>3, <1>5, IsASeq
  <2>2. QED
    BY <1>2, <1>3, <2>1, LenProperties
<1>7. rec \in HandoffRecord
  <2>1. IsFiniteSet(Unacked(entries))
    <3>1. IsFiniteSet(1..Len(entries))
      BY <1>3, FS_Interval
    <3>2. QED
      BY <1>3, <3>1, FS_Subset DEF Unacked
  <2>2. Cardinality(Unacked(entries)) \in Nat
    BY <2>1, FS_CardinalityType
  <2>3. QED
    BY <1>3, <2>2 DEF HandoffRecord
<1>8. /\ rec.previous_owner = current_owner /\ rec.next_owner = o
      /\ rec.handoff_sequence = next_handoff_sequence
  OBVIOUS
<1> HIDE DEF rec
<1>9. /\ handoff_log' \in Seq(HandoffRecord)
      /\ Len(handoff_log') = m + 1 /\ m \in Nat
      /\ DOMAIN handoff_log = 1..m /\ DOMAIN handoff_log' = 1..(m + 1)
      /\ \A k \in 1..m : handoff_log'[k] = handoff_log[k]
      /\ handoff_log'[m + 1] = rec
  BY <1>1, <1>3, <1>7, AppendShape
<1>10. TypeOK' /\ Counted'
  <2>1. current_owner' \in Holder /\ next_handoff_sequence' \in Nat
    BY <1>1, <1>3 DEF Holder
  <2>2. QED
    BY <1>1, <1>6, <1>9, <2>1 DEF IInv, TypeOK, Counted
<1>11. /\ Partition(entries, evicted, next_sequence)'
       /\ Increasing(entries, next_sequence)'
  BY <1>1, <1>2, <1>5, SameNumbers
<1>12. OnShift(entries)'
  BY <1>1, <1>2, <1>5 DEF OnShift
<1>13. Kept(entries)' /\ Kept(evicted)'
  BY <1>1, <1>2, <1>5 DEF IInv, Kept
<1>14. CustodyChain'
  <2>1. /\ next_handoff_sequence = m
        /\ \A k \in 1..m :
              /\ handoff_log[k].handoff_sequence = k - 1
              /\ handoff_log[k].previous_owner =
                    IF k = 1 THEN Unassigned ELSE handoff_log[k - 1].next_owner
    BY <1>9 DEF IInv, CustodyChain
  <2>2. ASSUME NEW k \in 1..m
        PROVE  /\ handoff_log'[k].handoff_sequence = k - 1
               /\ handoff_log'[k].previous_owner =
                     IF k = 1 THEN Unassigned ELSE handoff_log'[k - 1].next_owner
    <3>1. k # 1 => k - 1 \in 1..m
      BY <1>9
    <3>2. QED
      BY <1>9, <2>1, <3>1
  <2>3. /\ handoff_log'[m + 1].handoff_sequence = m + 1 - 1
        /\ handoff_log'[m + 1].previous_owner =
              IF m + 1 = 1 THEN Unassigned ELSE handoff_log'[m + 1 - 1].next_owner
    <3>1. handoff_log'[m + 1].handoff_sequence = m + 1 - 1
      BY <1>8, <1>9, <2>1
    <3>2. CASE m = 0
      <4>1. handoff_log = <<>>
        BY <1>3, <3>2, EmptySeq
      <4>2. current_owner = Unassigned
        BY <4>1 DEF IInv
      <4>3. QED
        BY <1>8, <1>9, <3>1, <3>2, <4>2
    <3>3. CASE m # 0
      <4>1. handoff_log # <<>> /\ m \in 1..m /\ m + 1 - 1 = m /\ m + 1 # 1
        BY <1>3, <1>9, <3>3, EmptySeq
      <4>2. current_owner = handoff_log[m].next_owner
        BY <4>1 DEF IInv
      <4>3. handoff_log'[m] = handoff_log[m]
        BY <1>9, <4>1
      <4>4. QED
        BY <1>8, <1>9, <3>1, <4>1, <4>2, <4>3
    <3>4. QED
      BY <3>2, <3>3
  <2>4. \A k \in 1..(m + 1) : k \in 1..m \/ k = m + 1
    BY <1>9
  <2>5. next_handoff_sequence' = Len(handoff_log')
    BY <1>1, <1>9, <2>1
  <2> HIDE DEF m
  <2>6. QED
    BY <1>9, <2>2, <2>3, <2>4, <2>5 DEF CustodyChain
<1>15. (current_owner = IF handoff_log = <<>> THEN Unassigned
                       ELSE handoff_log[Len(handoff_log)].next_owner)'
  <2>1. handoff_log' # <<>>
    BY <1>9
  <2>2. QED
    BY <1>1, <1>8, <1>9, <2>1
<1>16. \A r \in DOMAIN reviewer' : reviewer'[r].sequence < next_sequence'
  BY <1>1 DEF IInv
<1>17. QED
  BY <1>10, <1>11, <1>12, <1>13, <1>14, <1>15, <1>16 DEF IInv

(* Every push, ack and handoff keeps the invariant.                        *)
LEMMA NextIInv == IInv /\ [Next]_vars => IInv'
<1> SUFFICES ASSUME IInv, [Next]_vars PROVE IInv'
  OBVIOUS
<1>1. ASSUME NEW e \in Evidence, Push(e) PROVE IInv'
  BY <1>1, KeptIInv, EvictingIInv DEF Push
<1>2. ASSUME NEW n \in 0..MaxPushes, Ack(n) PROVE IInv'
  BY <1>2, AckIInv
<1>3. ASSUME NEW o \in Owner, Handoff(o) PROVE IInv'
  BY <1>3, HandoffIInv
<1>4. CASE UNCHANGED vars
  <2>1. /\ capacity' = capacity /\ next_sequence' = next_sequence
        /\ entries' = entries /\ evicted_total' = evicted_total
        /\ current_owner' = current_owner /\ handoff_log' = handoff_log
        /\ next_handoff_sequence' = next_handoff_sequence
        /\ evicted' = evicted /\ reviewer' = reviewer
    BY <1>4 DEF vars
  <2>2. TypeOK' /\ Counted' /\ CustodyChain'
    BY <2>1 DEF IInv, TypeOK, Counted, CustodyChain
  <2>3. Partition(entries, evicted, next_sequence)' /\ Increasing(entries, next_sequence)'
    BY <2>1, SameNumbers
  <2>4. OnShift(entries)' /\ Kept(entries)' /\ Kept(evicted)'
    BY <2>1 DEF IInv, OnShift, Kept
  <2>5. QED
    BY <2>1, <2>2, <2>3, <2>4 DEF IInv
<1>5. QED
  BY <1>1, <1>2, <1>3, <1>4 DEF Next

(* The invariant holds after any sequence of calls on the lane.            *)
THEOREM Invariance == Spec => []IInv
BY InitIInv, NextIInv, PTL DEF Spec

-----------------------------------------------------------------------------
(* Every field of the lane keeps its type, also when `new` was given 0.    *)
THEOREM TypeCorrect == Spec => []TypeOK
<1>1. IInv => TypeOK
  BY DEF IInv
<1>2. QED
  BY <1>1, Invariance, PTL

(* Nothing withheld vanishes: each number push issued is held, or was      *)
(* handed back by the push that evicted it, never both.                    *)
THEOREM NothingVanishes == Spec => []EveryEntryAccounted
<1>1. IInv => EveryEntryAccounted
  BY DEF IInv, Counted, Partition, EveryEntryAccounted
<1>2. QED
  BY <1>1, Invariance, PTL

(* remove from the middle keeps the lane in the order of its numbers.      *)
THEOREM OrderIsKept == Spec => []InInsertionOrder
<1>1. IInv => InInsertionOrder
  BY DEF IInv, Increasing, InInsertionOrder
<1>2. QED
  BY <1>1, Invariance, PTL

(* The shift contract of handoff.                                          *)
THEOREM ShiftContract == Spec => []UnreviewedBelongToShift
<1>1. IInv => UnreviewedBelongToShift
  BY DEF IInv, OnShift, UnreviewedBelongToShift, Unacked, Acked
<1>2. QED
  BY <1>1, Invariance, PTL

(* handoff never rewrites who reviewed an entry.                           *)
THEOREM ReviewersAreKept == Spec => []ReviewerIsKept
<1>1. IInv => ReviewerIsKept
  BY DEF IInv, Kept, ReviewerIsKept
<1>2. QED
  BY <1>1, Invariance, PTL

(* The log of handoff is an unbroken chain of custody.                     *)
THEOREM CustodyIsUnbroken == Spec => []CustodyChain
<1>1. IInv => CustodyChain
  BY DEF IInv
<1>2. QED
  BY <1>1, Invariance, PTL

-----------------------------------------------------------------------------
(* What eviction takes and leaves, stated of one step.                     *)
LeavesLast ==
    Len(evicted') > Len(evicted) /\ ~evicted'[Len(evicted')].acked =>
        /\ Acked(entries) = {} /\ Len(entries) = capacity
        /\ \A i \in DOMAIN entries' :
              evicted'[Len(evicted')].sequence < entries'[i].sequence

(* A push gives up an unreviewed entry only from a lane full of them.      *)
LEMMA EvictingLeavesLast ==
    ASSUME IInv, NEW e \in Evidence, PushEvicting(e) PROVE LeavesLast
<1> DEFINE n      == Len(entries)
           longer == Append(entries, NewEntry(e))
           k      == EvictPos(longer)
<1>1. /\ longer \in Seq(HumanLaneEntry) /\ Len(longer) = n + 1
      /\ Increasing(longer, next_sequence + 1)
  BY PushedBack
<1>2. /\ entries' = Without(longer, k) /\ n + 1 > capacity
      /\ evicted' = Append(evicted, longer[k])
  BY DEF PushEvicting
<1>3. /\ n \in Nat /\ n <= capacity /\ capacity \in Nat
      /\ entries \in Seq(HumanLaneEntry) /\ evicted \in Seq(HumanLaneEntry)
      /\ DOMAIN entries = 1..n
  BY LenProperties DEF IInv, TypeOK, Counted
<1>4. NewEntry(e) \in HumanLaneEntry
  BY DEF IInv, TypeOK, NewEntry, HumanLaneEntry
<1>5. \A i \in 1..n : longer[i] = entries[i]
  BY <1>3, <1>4, AppendShape
<1> HIDE DEF n, longer, k
<1>6. /\ k \in 1..Len(longer)
      /\ Acked(longer) # {} => k \in Acked(longer)
      /\ Acked(longer) = {} => k = 1
  <2>1. Len(longer) > 0
    BY <1>1, <1>3
  <2>2. QED
    BY <1>1, <2>1, EvictPosShape DEF k
<1>7. longer[k] \in HumanLaneEntry
  BY <1>1, <1>6, ElementOfSeq
<1>8. evicted'[Len(evicted')] = longer[k]
  BY <1>2, <1>3, <1>7, AppendShape
<1> SUFFICES ASSUME ~longer[k].acked
             PROVE  /\ Acked(entries) = {} /\ Len(entries) = capacity
                    /\ \A i \in DOMAIN entries' :
                          longer[k].sequence < entries'[i].sequence
  BY <1>8 DEF LeavesLast
<1>9. Acked(longer) = {} /\ k = 1
  BY <1>6 DEF Acked
<1>10. Acked(entries) = {}
  <2>1. DOMAIN longer = 1..(n + 1)
    BY <1>1, LenProperties
  <2>2. \A i \in 1..n : i \in 1..(n + 1)
    BY <1>3
  <2>3. QED
    BY <1>3, <1>5, <1>9, <2>1, <2>2 DEF Acked
<1>11. Len(entries) = capacity
  <2>1. n = capacity
    BY <1>2, <1>3
  <2>2. QED
    BY <2>1 DEF n
<1>12. \A i \in DOMAIN entries' : longer[k].sequence < entries'[i].sequence
  <2>1. /\ DOMAIN entries' = 1..n
        /\ \A i \in 1..n : entries'[i] = longer[i + 1]
    <3>1. /\ DOMAIN Without(longer, k) = 1..(Len(longer) - 1)
          /\ \A i \in 1..(Len(longer) - 1) :
                Without(longer, k)[i] = IF i < k THEN longer[i] ELSE longer[i + 1]
      BY <1>1, <1>6, WithoutShape
    <3>2. \A i \in 1..n : ~(i < k)
      BY <1>3, <1>9
    <3>3. Len(longer) - 1 = n
      BY <1>1, <1>3
    <3>4. QED
      BY <1>2, <3>1, <3>2, <3>3
  <2>2. /\ DOMAIN longer = 1..(n + 1)
        /\ \A i \in 1..n : i + 1 \in 1..(n + 1) /\ 1 < i + 1
        /\ 1 \in 1..(n + 1)
    BY <1>1, <1>3, LenProperties
  <2>3. QED
    BY <1>1, <1>9, <2>1, <2>2 DEF Increasing
<1>13. QED
  BY <1>10, <1>11, <1>12

(* No other step hands an entry back.                                      *)
LEMMA StepLeavesLast == IInv /\ [Next]_vars => LeavesLast
<1> SUFFICES ASSUME IInv, [Next]_vars PROVE LeavesLast
  OBVIOUS
<1>1. Len(evicted) \in Nat
  BY LenProperties DEF IInv, TypeOK
<1>2. ASSUME evicted' = evicted PROVE LeavesLast
  BY <1>1, <1>2 DEF LeavesLast
<1>3. ASSUME NEW e \in Evidence, Push(e) PROVE LeavesLast
  BY <1>2, <1>3, EvictingLeavesLast DEF Push, PushKept
<1>4. ASSUME NEW n \in 0..MaxPushes, Ack(n) PROVE LeavesLast
  BY <1>2, <1>4 DEF Ack
<1>5. ASSUME NEW o \in Owner, Handoff(o) PROVE LeavesLast
  BY <1>2, <1>5 DEF Handoff
<1>6. CASE UNCHANGED vars
  BY <1>2, <1>6 DEF vars
<1>7. QED
  BY <1>3, <1>4, <1>5, <1>6 DEF Next

(* push gives up an unreviewed entry only when nothing reviewed could go   *)
(* instead, and then the one that waited longest.                          *)
THEOREM EvictionSparesUnreviewed == Spec => UnreviewedLeaveLast
<1>1. IInv /\ [Next]_vars => [LeavesLast]_vars
  BY StepLeavesLast
<1>2. Spec => [][LeavesLast]_vars
  BY <1>1, Invariance, PTL DEF Spec
<1>3. QED
  BY <1>2 DEF UnreviewedLeaveLast, LeavesLast

-----------------------------------------------------------------------------
(* The age of the longest-waiting entry. *)

(* Until somebody reviews, eviction takes the front, so the numbers held are *)
(* the last ones issued, without a gap.                                     *)
FreshIsContiguous ==
    reviewer = <<>> =>
        /\ Acked(entries) = {}
        /\ \A i \in DOMAIN entries :
              entries[i].sequence = next_sequence - Len(entries) + i - 1

(* The first review ends what the premise asks for; push and handoff keep   *)
(* the numbers contiguous.                                                  *)
LEMMA NextFresh == IInv /\ FreshIsContiguous /\ [Next]_vars => FreshIsContiguous'
<1> SUFFICES ASSUME IInv, FreshIsContiguous, [Next]_vars, reviewer' = <<>>
             PROVE  /\ Acked(entries)' = {}
                    /\ \A i \in DOMAIN entries' :
                          entries'[i].sequence = next_sequence' - Len(entries') + i - 1
  BY DEF FreshIsContiguous
<1> DEFINE n == Len(entries)
<1>1. /\ entries \in Seq(HumanLaneEntry) /\ n \in Nat /\ DOMAIN entries = 1..n
      /\ next_sequence \in Nat /\ reviewer \in Seq(Review)
  BY LenProperties DEF IInv, TypeOK
<1>2. ASSUME NEW e \in Evidence, Push(e)
      PROVE  /\ Acked(entries)' = {}
             /\ \A i \in DOMAIN entries' :
                   entries'[i].sequence = next_sequence' - Len(entries') + i - 1
  <2> DEFINE longer == Append(entries, NewEntry(e))
  <2>1. next_sequence' = next_sequence + 1 /\ reviewer = <<>>
    BY <1>2 DEF Push
  <2>2. /\ longer \in Seq(HumanLaneEntry) /\ Len(longer) = n + 1
        /\ DOMAIN longer = 1..(n + 1)
        /\ \A i \in 1..n : longer[i] = entries[i]
        /\ longer[n + 1] = NewEntry(e)
    <3>1. longer \in Seq(HumanLaneEntry) /\ Len(longer) = n + 1
      BY PushedBack
    <3>2. /\ DOMAIN longer = 1..(n + 1)
          /\ \A i \in 1..n : longer[i] = entries[i]
          /\ longer[n + 1] = NewEntry(e)
      BY <1>1, AppendProperties
    <3>3. QED
      BY <3>1, <3>2
  <2>3. /\ Acked(longer) = {}
        /\ \A i \in 1..(n + 1) : longer[i].sequence = next_sequence + 1 - (n + 1) + i - 1
    <3>1. /\ \A i \in 1..n : /\ ~entries[i].acked
                             /\ entries[i].sequence = next_sequence - n + i - 1
      BY <1>1, <2>1 DEF FreshIsContiguous, Acked
    <3>2. ~NewEntry(e).acked /\ NewEntry(e).sequence = next_sequence
      BY DEF NewEntry
    <3> HIDE DEF longer, n
    <3>3. ASSUME NEW i \in 1..(n + 1)
          PROVE  ~longer[i].acked
                 /\ longer[i].sequence = next_sequence + 1 - (n + 1) + i - 1
      <4>1. CASE i \in 1..n
        <5>1. longer[i] = entries[i]
          BY <4>1, <2>2
        <5>2. entries[i].sequence = next_sequence + 1 - (n + 1) + i - 1
          BY <4>1, <3>1, <1>1
        <5>3. QED
          BY <4>1, <5>1, <5>2, <3>1
      <4>2. CASE i = n + 1
        <5>1. next_sequence = next_sequence + 1 - (n + 1) + i - 1
          BY <4>2, <1>1
        <5>2. QED
          BY <4>2, <5>1, <2>2, <3>2
      <4>3. QED
        BY <4>1, <4>2, <1>1
    <3>4. QED
      BY <3>3, <2>2 DEF Acked
  <2>4. CASE PushKept(e)
    <3>1. entries' = longer
      BY <2>4 DEF PushKept
    <3> HIDE DEF longer, n
    <3>2. /\ DOMAIN entries' = 1..(n + 1) /\ Len(entries') = n + 1
          /\ Acked(entries') = {}
      BY <3>1, <2>2, <2>3
    <3>3. ASSUME NEW i \in 1..(n + 1)
          PROVE  entries'[i].sequence = next_sequence' - (n + 1) + i - 1
      <4>1. entries'[i].sequence = next_sequence + 1 - (n + 1) + i - 1
        BY <3>1, <2>3
      <4>2. next_sequence + 1 - (n + 1) + i - 1 = next_sequence' - (n + 1) + i - 1
        BY <1>1, <2>1
      <4>3. QED
        BY <4>1, <4>2
    <3>4. QED
      BY <3>2, <3>3 DEF Acked
  <2>5. CASE PushEvicting(e)
    <3>1. entries' = Without(longer, 1)
      <4>1. EvictPos(longer) = 1
        BY <2>3 DEF EvictPos
      <4>2. QED
        BY <4>1, <2>5 DEF PushEvicting
    <3>2. 1 \in 1..Len(longer)
      BY <1>1, <2>2
    <3> HIDE DEF longer
    <3>3. /\ Len(entries') = n /\ DOMAIN entries' = 1..n
          /\ \A i \in 1..n : entries'[i] = longer[i + 1]
      <4>1. /\ Len(entries') = Len(longer) - 1
            /\ DOMAIN entries' = 1..(Len(longer) - 1)
            /\ \A i \in 1..(Len(longer) - 1) :
                  entries'[i] = IF i < 1 THEN longer[i] ELSE longer[i + 1]
        BY <3>1, <3>2, <2>2, WithoutShape
      <4>2. QED
        BY <4>1, <2>2, <1>1
    <3>4. \A i \in 1..n :
             /\ ~entries'[i].acked
             /\ entries'[i].sequence = next_sequence' - n + i - 1
      <4> TAKE i \in 1..n
      <4>1. i + 1 \in 1..(n + 1)
        BY <1>1
      <4>2. entries'[i] = longer[i + 1]
        BY <3>3
      <4>3. ~longer[i + 1].acked
        BY <4>1, <2>2, <2>3 DEF Acked
      <4>4. longer[i + 1].sequence = next_sequence + 1 - (n + 1) + (i + 1) - 1
        BY <4>1, <2>3
      <4>5. next_sequence + 1 - (n + 1) + (i + 1) - 1 = next_sequence' - n + i - 1
        BY <1>1, <2>1
      <4>6. QED
        BY <4>2, <4>3, <4>4, <4>5
    <3>5. QED
      BY <3>3, <3>4 DEF Acked
  <2>6. QED
    BY <1>2, <2>4, <2>5 DEF Push
<1>3. ASSUME NEW k \in 0..MaxPushes, Ack(k) PROVE FALSE
  <2>1. PICK i \in DOMAIN entries :
           reviewer' = IF entries[i].acked THEN reviewer
                       ELSE Append(reviewer, [sequence |-> k, by |-> current_owner])
    BY <1>3 DEF Ack
  <2>2. CASE entries[i].acked
    BY <2>1, <2>2 DEF FreshIsContiguous, Acked
  <2>3. CASE ~entries[i].acked
    <3>1. [sequence |-> k, by |-> current_owner] \in Review
      BY DEF Review, IInv, TypeOK
    <3>2. Len(reviewer') = Len(reviewer) + 1
      BY <2>1, <2>3, <3>1, <1>1
    <3>3. QED
      BY <3>2, <1>1
  <2>4. QED
    BY <2>2, <2>3
<1>4. ASSUME NEW o \in Owner, Handoff(o)
      PROVE  /\ Acked(entries)' = {}
             /\ \A i \in DOMAIN entries' :
                   entries'[i].sequence = next_sequence' - Len(entries') + i - 1
  <2>1. /\ reviewer' = reviewer /\ next_sequence' = next_sequence
        /\ entries' = [i \in DOMAIN entries |->
                          IF entries[i].acked THEN entries[i]
                          ELSE [entries[i] EXCEPT !.owner = o]]
    BY <1>4 DEF Handoff
  <2>2. \A i \in 1..n : /\ entries[i] \in HumanLaneEntry /\ ~entries[i].acked
                        /\ entries[i].sequence = next_sequence - n + i - 1
    BY <1>1, <2>1, ElementOfSeq DEF FreshIsContiguous, Acked
  <2>3. /\ DOMAIN entries' = 1..n
        /\ \A i \in 1..n : /\ ~entries'[i].acked
                           /\ entries'[i].sequence = entries[i].sequence
    BY <2>1, <2>2, <1>1 DEF HumanLaneEntry
  <2>4. Len(entries') = n
    <3>1. TypeOK'
      BY <1>4, HandoffIInv DEF IInv
    <3>2. entries' \in Seq(HumanLaneEntry)
      BY <3>1 DEF TypeOK
    <3>3. QED
      BY <3>2, <2>3, <1>1, LenProperties
  <2>5. QED
    BY <2>1, <2>2, <2>3, <2>4 DEF Acked
<1>5. CASE UNCHANGED vars
  BY <1>5 DEF vars, FreshIsContiguous, Acked
<1>6. QED
  BY <1>2, <1>3, <1>4, <1>5 DEF Next

(* The number of the first unreviewed entry is below the numbers of all the *)
(* others, and all are below next_sequence: there is room for no more.      *)
LEMMA AgeIsEnough ==
    ASSUME IInv, FreshIsContiguous, Unacked(entries) # {}
    PROVE  /\ OldestPendingAge + 1 >= Cardinality(Unacked(entries))
           /\ reviewer = <<>> =>
                 OldestPendingAge + 1 = Cardinality(Unacked(entries))
<1> DEFINE n     == Len(entries)
           U     == Unacked(entries)
           first == CHOOSE i \in U : \A j \in U : i <= j
           a     == entries[first].sequence
<1>1. /\ n \in Nat /\ DOMAIN entries = 1..n /\ next_sequence \in Nat
      /\ \A i \in 1..n : entries[i] \in HumanLaneEntry
  BY LenProperties, ElementOfSeq DEF IInv, TypeOK
<1>2. \A i \in 1..n : entries[i].sequence \in Nat /\ entries[i].sequence < next_sequence
  BY <1>1 DEF HumanLaneEntry, IInv, Increasing
<1>3. U \in SUBSET (1..n)
  BY <1>1 DEF Unacked
<1>4. first \in U /\ \A j \in U : first <= j
  <2>1. \E i \in U : \A j \in U : i <= j
    <3> HIDE DEF U
    <3>1. QED
      BY <1>1, <1>3, LeastMember DEF U
  <2> HIDE DEF U
  <2>2. QED
    BY <2>1
<1>5. OldestPendingAge + 1 = next_sequence - a /\ a \in Nat /\ a < next_sequence
  <2>1. a \in Nat /\ a < next_sequence
    BY <1>2, <1>3, <1>4
  <2>2. OldestPendingAge = IF next_sequence - a - 1 < 0 THEN 0 ELSE next_sequence - a - 1
    BY DEF OldestPendingAge
  <2> HIDE DEF a
  <2>3. QED
    BY <2>1, <2>2, <1>1
<1> HIDE DEF U, first
<1>6. Cardinality(U) <= next_sequence - a
  <2> DEFINE f == [i \in U |-> entries[i].sequence]
             R == a..(next_sequence - 1)
  <2>1. ASSUME NEW i \in U, NEW j \in U, i < j
        PROVE  entries[i].sequence < entries[j].sequence
    BY <2>1, <1>1, <1>3 DEF IInv, Increasing
  <2>2. \A i \in U : f[i] \in R
    <3> TAKE i \in U
    <3>1. i = first \/ first < i
      BY <1>1, <1>3, <1>4
    <3>2. a <= entries[i].sequence
      BY <3>1, <2>1, <1>2, <1>3, <1>4
    <3>3. QED
      BY <3>2, <1>1, <1>2, <1>3, <1>5
  <2>3. \A i, j \in U : f[i] = f[j] => i = j
    BY <2>1, <1>1, <1>2, <1>3
  <2>4. f \in [U -> R]
    BY <2>2
  <2>5. f \in Injection(U, R)
    <3> HIDE DEF f, R
    <3>1. QED
      BY <2>3, <2>4, Fun_IsInj
  <2>6. IsFiniteSet(R) /\ Cardinality(R) = next_sequence - a
    <3>1. /\ a \in Int /\ next_sequence - 1 \in Int /\ ~(a > next_sequence - 1)
          /\ next_sequence - 1 - a + 1 = next_sequence - a
      BY <1>1, <1>5
    <3> HIDE DEF a
    <3>2. QED
      BY <3>1, FS_Interval
  <2> HIDE DEF f, R
  <2>7. QED
    BY <2>5, <2>6, FS_Injection
<1>7. ASSUME reviewer = <<>> PROVE Cardinality(U) = next_sequence - a
  <2>1. U = 1..n /\ \A i \in 1..n : entries[i].sequence = next_sequence - n + i - 1
    BY <1>1, <1>7 DEF FreshIsContiguous, Unacked, U
  <2>2. first = 1 /\ n >= 1
    BY <2>1, <1>1, <1>4
  <2>3. a = next_sequence - n
    BY <2>1, <2>2, <1>1
  <2>4. Cardinality(1..n) = n
    BY <1>1, FS_Interval
  <2>5. QED
    BY <2>1, <2>3, <2>4, <1>1
<1>8. QED
  BY <1>5, <1>6, <1>7 DEF U

(* oldest_pending_age never understates the backlog, and is exact while     *)
(* nobody has reviewed anything.                                           *)
THEOREM AgeCoversBacklog == Spec => []AgeBoundsBacklog
<1>1. Init => FreshIsContiguous
  BY DEF Init, FreshIsContiguous, Acked
<1>2. IInv /\ FreshIsContiguous => AgeBoundsBacklog
  BY AgeIsEnough DEF AgeBoundsBacklog
<1>3. QED
  BY <1>1, <1>2, NextFresh, Invariance, PTL DEF Spec
=============================================================================
