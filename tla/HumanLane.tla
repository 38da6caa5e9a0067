----------------------------- MODULE HumanLane -----------------------------
(***************************************************************************)
(* HumanLane (crates/northbound/src/fanout.rs): the bounded lane that      *)
(* keeps the envelopes fan-out withheld from a sink until a person has     *)
(* reviewed them, with eviction at capacity and shift handoff.  One action *)
(* per public method that changes state; the pipeline pushes, the person   *)
(* on shift acknowledges and hands over, in any order of calls.            *)
(***************************************************************************)
EXTENDS Integers, Sequences, FiniteSets

CONSTANTS Evidence,      \* the withheld (envelope, dialect) pairs
          Owner,         \* people who can be on shift
          Unassigned,    \* the owner before the first handoff
          CapacityArgs,  \* arguments of `new`
          MaxPushes,     \* bound: calls of push
          MaxHandoffs    \* bound: calls of handoff

ASSUME LaneAssumption ==
    /\ CapacityArgs \subseteq Nat
    /\ MaxPushes \in Nat /\ MaxHandoffs \in Nat
    /\ Unassigned \notin Owner

Holder == Owner \cup {Unassigned}

HumanLaneEntry ==
    [evidence : Evidence, sequence : Nat, acked : BOOLEAN, owner : Holder]

HandoffRecord ==
    [previous_owner : Holder, next_owner : Owner,
     handoff_sequence : Nat, pending_at_handoff : Nat]

\* A review as it is remembered in the variable reviewer below.
Review == [sequence : Nat, by : Holder]

VARIABLES capacity, next_sequence, entries, evicted_total,
          current_owner, handoff_log, next_handoff_sequence

(* What the caller was told, kept to state properties: the entries `push`  *)
(* returned as evicted, and who was on shift when a sequence was first     *)
(* acknowledged.                                                           *)
VARIABLES evicted, reviewer

vars == <<capacity, next_sequence, entries, evicted_total, current_owner,
          handoff_log, next_handoff_sequence, evicted, reviewer>>

-----------------------------------------------------------------------------
\* Mutant: the argument is taken as it is.
AtLeastOne(n) == IF n < 1 THEN 1 ELSE n

Init ==
    /\ capacity \in {AtLeastOne(c) : c \in CapacityArgs}
    /\ next_sequence = 0
    /\ entries = <<>>
    /\ evicted_total = 0
    /\ current_owner = Unassigned
    /\ handoff_log = <<>>
    /\ next_handoff_sequence = 0
    /\ evicted = <<>>
    /\ reviewer = <<>>

Acked(s) == {i \in DOMAIN s : s[i].acked}

\* Mutant: plain FIFO eviction.
MutantEvictPos(s) == 1

\* The position eviction takes: the first acknowledged entry, else the first.
EvictPos(s) ==
    IF Acked(s) = {} THEN 1
    ELSE CHOOSE i \in Acked(s) : \A j \in Acked(s) : i <= j

\* Mutant: swap_remove in place of remove.
MutantWithout(s, k) ==
    [i \in 1..(Len(s) - 1) |-> IF i = k THEN s[Len(s)] ELSE s[i]]

Without(s, k) ==
    [i \in 1..(Len(s) - 1) |-> IF i < k THEN s[i] ELSE s[i + 1]]

\* Mutant: a new entry has no owner until the next handoff.
MutantNewEntry(e) == [evidence |-> e, sequence |-> next_sequence,
                      acked |-> FALSE, owner |-> Unassigned]

NewEntry(e) == [evidence |-> e, sequence |-> next_sequence,
                acked |-> FALSE, owner |-> current_owner]

PushKept(e) ==
    /\ Len(entries) + 1 <= capacity
    /\ entries' = Append(entries, NewEntry(e))
    /\ UNCHANGED <<evicted_total, evicted>>

\* Mutant: the oldest is removed, another one is handed back.
MutantPushEvicting(e) ==
    /\ Len(entries) + 1 > capacity
    /\ LET longer == Append(entries, NewEntry(e))
       IN  /\ entries' = Tail(longer)
           /\ evicted' = Append(evicted, longer[EvictPos(longer)])
    /\ evicted_total' = evicted_total + 1

PushEvicting(e) ==
    /\ Len(entries) + 1 > capacity
    /\ LET longer == Append(entries, NewEntry(e))
           k      == EvictPos(longer)
       IN  /\ entries' = Without(longer, k)
           /\ evicted' = Append(evicted, longer[k])
    /\ evicted_total' = evicted_total + 1

Push(e) ==
    /\ next_sequence < MaxPushes
    /\ next_sequence' = next_sequence + 1
    /\ PushKept(e) \/ PushEvicting(e)
    /\ UNCHANGED <<capacity, current_owner, handoff_log,
                   next_handoff_sequence, reviewer>>

\* `ack` of a sequence that is held; acknowledging again changes nothing.
Ack(sequence) ==
    /\ \E i \in DOMAIN entries :
          /\ entries[i].sequence = sequence
          /\ entries' = [entries EXCEPT ![i].acked = TRUE]
          /\ reviewer' = IF entries[i].acked THEN reviewer
                         ELSE Append(reviewer, [sequence |-> sequence,
                                                by |-> current_owner])
    /\ UNCHANGED <<capacity, next_sequence, evicted_total, current_owner,
                   handoff_log, next_handoff_sequence, evicted>>

Unacked(s) == DOMAIN s \ Acked(s)

\* Mutant: the age of the entry that waited least.
MutantOldestPendingAge ==
    LET last == CHOOSE i \in Unacked(entries) :
                   \A j \in Unacked(entries) : j <= i
        age  == next_sequence - entries[last].sequence - 1
    IN  IF age < 0 THEN 0 ELSE age

\* oldest_pending_age of a lane with unreviewed entries; subtraction saturates.
OldestPendingAge ==
    LET first == CHOOSE i \in Unacked(entries) :
                    \A j \in Unacked(entries) : i <= j
        age   == next_sequence - entries[first].sequence - 1
    IN  IF age < 0 THEN 0 ELSE age

\* Mutants: reviewed entries change hands too; the record is written after
\* current_owner was replaced.
MutantHandoffAll(next_owner) ==
    /\ next_handoff_sequence < MaxHandoffs
    /\ entries' = [i \in DOMAIN entries |-> [entries[i] EXCEPT !.owner = next_owner]]
    /\ handoff_log' =
          Append(handoff_log,
                 [previous_owner     |-> current_owner,
                  next_owner         |-> next_owner,
                  handoff_sequence   |-> next_handoff_sequence,
                  pending_at_handoff |-> Cardinality(Unacked(entries))])
    /\ current_owner' = next_owner
    /\ next_handoff_sequence' = next_handoff_sequence + 1
    /\ UNCHANGED <<capacity, next_sequence, evicted_total, evicted, reviewer>>

MutantHandoffLate(next_owner) ==
    /\ next_handoff_sequence < MaxHandoffs
    /\ entries' = [i \in DOMAIN entries |->
                      IF entries[i].acked THEN entries[i]
                      ELSE [entries[i] EXCEPT !.owner = next_owner]]
    /\ current_owner' = next_owner
    /\ handoff_log' =
          Append(handoff_log,
                 [previous_owner     |-> current_owner',
                  next_owner         |-> next_owner,
                  handoff_sequence   |-> next_handoff_sequence,
                  pending_at_handoff |-> Cardinality(Unacked(entries))])
    /\ next_handoff_sequence' = next_handoff_sequence + 1
    /\ UNCHANGED <<capacity, next_sequence, evicted_total, evicted, reviewer>>

Handoff(next_owner) ==
    /\ next_handoff_sequence < MaxHandoffs
    /\ entries' = [i \in DOMAIN entries |->
                      IF entries[i].acked THEN entries[i]
                      ELSE [entries[i] EXCEPT !.owner = next_owner]]
    /\ handoff_log' =
          Append(handoff_log,
                 [previous_owner     |-> current_owner,
                  next_owner         |-> next_owner,
                  handoff_sequence   |-> next_handoff_sequence,
                  pending_at_handoff |-> Cardinality(Unacked(entries))])
    /\ current_owner' = next_owner
    /\ next_handoff_sequence' = next_handoff_sequence + 1
    /\ UNCHANGED <<capacity, next_sequence, evicted_total, evicted, reviewer>>

Next ==
    \/ \E e \in Evidence : Push(e)
    \/ \E n \in 0..MaxPushes : Ack(n)
    \/ \E o \in Owner : Handoff(o)

Spec == Init /\ [][Next]_vars

-----------------------------------------------------------------------------
(* Type invariant. *)
TypeOK ==
    /\ capacity \in Nat \ {0}
    /\ next_sequence \in Nat /\ evicted_total \in Nat
    /\ next_handoff_sequence \in Nat
    /\ entries \in Seq(HumanLaneEntry) /\ evicted \in Seq(HumanLaneEntry)
    /\ current_owner \in Holder
    /\ handoff_log \in Seq(HandoffRecord)
    /\ reviewer \in Seq(Review)

SequenceNumbers(s) == {s[i].sequence : i \in DOMAIN s}

(* No withheld envelope vanishes: every sequence number ever issued is in   *)
(* the lane or was returned by the push that evicted it, never both, and    *)
(* the evicted counter is the number returned.                              *)
EveryEntryAccounted ==
    /\ SequenceNumbers(entries) \cup SequenceNumbers(evicted) = 0..(next_sequence - 1)
    /\ SequenceNumbers(entries) \cap SequenceNumbers(evicted) = {}
    /\ Len(entries) <= capacity
    /\ Len(entries) + evicted_total = next_sequence
    /\ evicted_total = Len(evicted)

(* The lane lists its entries in the order of their sequence numbers, also  *)
(* after evictions from the middle: `pending` and the age read from its     *)
(* first entry rely on it.                                                  *)
InInsertionOrder ==
    \A i, j \in DOMAIN entries :
        i < j => entries[i].sequence < entries[j].sequence

(* The shift contract of `handoff`: whatever pushes, acknowledgements and   *)
(* evictions came between handoffs, each unreviewed entry belongs to the    *)
(* person on shift, and that person is the successor of the last record of  *)
(* the log (nobody, while there is none).                                   *)
UnreviewedBelongToShift ==
    /\ \A i \in Unacked(entries) : entries[i].owner = current_owner
    /\ current_owner = IF handoff_log = <<>> THEN Unassigned
                       ELSE handoff_log[Len(handoff_log)].next_owner

(* A reviewed entry keeps the name of whoever reviewed it through all later *)
(* handoffs, and the evicted ones do too.                                   *)
ReviewerIsKept ==
    \A r \in DOMAIN reviewer :
        \A s \in {entries, evicted} : \A i \in DOMAIN s :
            s[i].sequence = reviewer[r].sequence =>
                s[i].acked /\ s[i].owner = reviewer[r].by

(* The log is an unbroken chain of custody in the order of its sequence     *)
(* numbers, starting with nobody.                                           *)
CustodyChain ==
    /\ next_handoff_sequence = Len(handoff_log)
    /\ \A k \in DOMAIN handoff_log :
          /\ handoff_log[k].handoff_sequence = k - 1
          /\ handoff_log[k].previous_owner =
                IF k = 1 THEN Unassigned ELSE handoff_log[k - 1].next_owner

(* The age shown for the longest-waiting entry never understates the        *)
(* backlog: at least as many pushes came after it as other entries wait,    *)
(* and exactly as many while nobody has reviewed anything.                  *)
AgeBoundsBacklog ==
    Unacked(entries) # {} =>
        /\ OldestPendingAge + 1 >= Cardinality(Unacked(entries))
        /\ reviewer = <<>> =>
              OldestPendingAge + 1 = Cardinality(Unacked(entries))

(* An unreviewed envelope is given up only when the lane is full of         *)
(* unreviewed ones, and then it is the one that waited longest.             *)
UnreviewedLeaveLast ==
    [][ Len(evicted') > Len(evicted) /\ ~evicted'[Len(evicted')].acked =>
          /\ Acked(entries) = {} /\ Len(entries) = capacity
          /\ \A i \in DOMAIN entries' :
                evicted'[Len(evicted')].sequence < entries'[i].sequence ]_vars
=============================================================================
