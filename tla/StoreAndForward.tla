-------------------------- MODULE StoreAndForward --------------------------
(***************************************************************************)
(* The DDIL store-and-forward buffer StoreAndForwardBuffer                 *)
(* (crates/core/src/store_and_forward.rs): a bounded queue of evidence     *)
(* envelopes with an anti-replay window, drained in causal order when the  *)
(* link is up.  One action per public method that changes state.           *)
(*                                                                         *)
(* The caller may push any frame at any time, again and in any order: that *)
(* is what a lossy, reordering, retransmitting sender amounts to.          *)
(***************************************************************************)
EXTENDS CausalDrain, Functions

CONSTANTS Content,       \* what position, mode, observed_at, claim_id say
          Receipt,       \* values of the fields that vary on each receipt
          Frame,         \* the (envelope, clock) pairs a caller may push
          CapacityArgs,  \* capacity arguments of with_capacity
          WindowArgs,    \* replay_window_cap arguments of with_capacity
          MaxPushes      \* bound: calls of push a behaviour makes

Envelope == [platform_id : Source, content : Content, received_at : Receipt]

BufferedEnvelope == [envelope : Envelope, vc : VectorClock]

LinkState == {"Up", "Down"}

ASSUME BufferAssumption ==
    /\ Frame \subseteq BufferedEnvelope
    /\ CapacityArgs \subseteq Nat
    /\ WindowArgs \subseteq Nat
    /\ MaxPushes \in Nat

-----------------------------------------------------------------------------
\* Mutant: the receipt time enters the fingerprint.
MutantReplayKey(envelope) ==
    <<envelope.platform_id, envelope.content, envelope.received_at>>

(* replay_key: the fingerprint of what a receipt cannot change.  SHA-256   *)
(* over an injective, domain-separated encoding is taken to be injective.  *)
ReplayKey(envelope) == <<envelope.platform_id, envelope.content>>

Fingerprint == Source \X Content

\* Mutant: the argument is taken as it is.
MutantAtLeastOne(n) == n

AtLeastOne(n) == IF n < 1 THEN 1 ELSE n

VARIABLES
    link,                 \* the gate set by the transport's callback
    pending,              \* the queue, oldest arrival first
    drained_total,
    capacity,
    replay_window,        \* the keys of the last accepted pushes
    replay_window_cap,
    duplicates_rejected,
    evicted_total

(* What the caller saw, kept to state properties and never read by the     *)
(* code: the number of push calls, the frames accepted, handed out by      *)
(* drain and given back as evicted, and the last batch drain returned.     *)
VARIABLES pushes, accepted, delivered, evicted, batch

config  == <<capacity, replay_window_cap>>
history == <<pushes, accepted, delivered, evicted, batch>>
vars    == <<link, pending, drained_total, config, replay_window,
             duplicates_rejected, evicted_total, history>>

-----------------------------------------------------------------------------
\* with_capacity; `new` and `default` are instances of it.
Init ==
    /\ link \in LinkState
    /\ capacity \in {AtLeastOne(c) : c \in CapacityArgs}
    /\ replay_window_cap \in {AtLeastOne(w) : w \in WindowArgs}
    /\ pending = <<>> /\ replay_window = <<>>
    /\ drained_total = 0 /\ duplicates_rejected = 0 /\ evicted_total = 0
    /\ pushes = 0
    /\ accepted = <<>> /\ delivered = <<>> /\ evicted = <<>> /\ batch = <<>>

SetLink(state) ==
    /\ link' = state
    /\ UNCHANGED <<pending, drained_total, config, replay_window,
                   duplicates_rejected, evicted_total, history>>

\* remember_key: the window after `key` entered it.
RememberKey(key) ==
    LET longer == Append(replay_window, key)
    IN  IF Len(longer) > replay_window_cap THEN Tail(longer) ELSE longer

KnownReplay(frame) ==
    \E i \in DOMAIN replay_window :
        replay_window[i] = ReplayKey(frame.envelope)

PushRejected(frame) ==
    /\ KnownReplay(frame)
    /\ duplicates_rejected' = duplicates_rejected + 1
    /\ UNCHANGED <<pending, replay_window, evicted_total, accepted, evicted>>

\* What both ways of accepting a frame share.
Accept(frame) ==
    /\ ~KnownReplay(frame)
    /\ replay_window' = RememberKey(ReplayKey(frame.envelope))
    /\ accepted' = Append(accepted, frame)
    /\ UNCHANGED duplicates_rejected

PushAccepted(frame) ==
    /\ Accept(frame)
    /\ Len(pending) + 1 <= capacity
    /\ pending' = Append(pending, frame)
    /\ UNCHANGED <<evicted_total, evicted>>

\* Mutants: the newcomer is handed back in place of the oldest; the eviction
\* is not counted; the newcomer is the one evicted.
MutantWrongHandback(frame) ==
    /\ Accept(frame)
    /\ Len(pending) + 1 > capacity
    /\ pending' = Tail(Append(pending, frame))
    /\ evicted' = Append(evicted, frame)
    /\ evicted_total' = evicted_total + 1

MutantUncountedEviction(frame) ==
    /\ Accept(frame)
    /\ Len(pending) + 1 > capacity
    /\ pending' = Tail(Append(pending, frame))
    /\ evicted' = Append(evicted, Head(Append(pending, frame)))
    /\ UNCHANGED evicted_total

MutantEvictNewest(frame) ==
    /\ Accept(frame)
    /\ Len(pending) + 1 > capacity
    /\ evicted' = Append(evicted, frame)
    /\ evicted_total' = evicted_total + 1
    /\ UNCHANGED pending

PushEvicting(frame) ==
    /\ Accept(frame)
    /\ Len(pending) + 1 > capacity
    /\ pending' = Tail(Append(pending, frame))
    /\ evicted' = Append(evicted, Head(Append(pending, frame)))
    /\ evicted_total' = evicted_total + 1

Push(frame) ==
    /\ pushes < MaxPushes
    /\ pushes' = pushes + 1
    /\ PushRejected(frame) \/ PushAccepted(frame) \/ PushEvicting(frame)
    /\ UNCHANGED <<link, drained_total, config, delivered, batch>>

DrainDown ==
    /\ link = "Down"
    /\ batch' = <<>>
    /\ UNCHANGED <<pending, drained_total, delivered>>

\* Mutant: the gate is not looked at.
MutantDrainUp ==
    /\ batch' = AnnotateOrderUnknown(CausalSort(pending))
    /\ delivered' = delivered \o [i \in DOMAIN batch' |-> batch'[i].buffered]
    /\ drained_total' = drained_total + Len(pending)
    /\ pending' = <<>>

DrainUp ==
    /\ link # "Down"
    /\ batch' = AnnotateOrderUnknown(CausalSort(pending))
    /\ delivered' = delivered \o [i \in DOMAIN batch' |-> batch'[i].buffered]
    /\ drained_total' = drained_total + Len(pending)
    /\ pending' = <<>>

Drain ==
    /\ DrainDown \/ DrainUp
    /\ UNCHANGED <<link, config, replay_window, duplicates_rejected,
                   evicted_total, pushes, accepted, evicted>>

Next ==
    \/ \E state \in LinkState : SetLink(state)
    \/ \E frame \in Frame : Push(frame)
    \/ Drain

Spec == Init /\ [][Next]_vars

-----------------------------------------------------------------------------
(* Type invariant. *)
TypeOK ==
    /\ link \in LinkState
    /\ pending \in Seq(Frame)
    /\ replay_window \in Seq(Fingerprint)
    /\ capacity \in Nat \ {0} /\ replay_window_cap \in Nat \ {0}
    /\ drained_total \in Nat /\ duplicates_rejected \in Nat
    /\ evicted_total \in Nat /\ pushes \in Nat
    /\ accepted \in Seq(Frame) /\ evicted \in Seq(Frame)

(* Neither the queue nor the memory of keys ever outgrows its bound, even  *)
(* when the constructor was given 0.                                       *)
Bounded ==
    /\ Len(pending) <= capacity
    /\ Len(replay_window) <= replay_window_cap

(* The number of pushes is the number pending, drained, rejected and       *)
(* evicted, as the doc of `drained_total` has it: the counters a caller    *)
(* audits for silent loss add up after any mix of calls.                   *)
Conservation ==
    pushes = Len(pending) + drained_total + duplicates_rejected + evicted_total

Times(s, x) == Cardinality({i \in DOMAIN s : s[i] = x})

(* Not only the numbers: each accepted frame is in exactly one place, still *)
(* pending, handed out by a drain, or handed back by the push that evicted  *)
(* it, as many times as it was accepted.                                    *)
NoSilentDrop ==
    \A x \in {accepted[i] : i \in DOMAIN accepted} :
        Times(accepted, x) =
            Times(pending, x) + Times(delivered, x) + Times(evicted, x)

(* Eviction takes the oldest arrival, so the queue is at all times exactly *)
(* the most recent accepted frames, in arrival order.                      *)
PendingIsMostRecent ==
    /\ Len(pending) <= Len(accepted)
    /\ \A i \in DOMAIN pending :
          pending[i] = accepted[Len(accepted) - Len(pending) + i]

\* Two frames that say the same of the same platform, whatever their receipt.
SameContent(f, g) ==
    /\ f.envelope.platform_id = g.envelope.platform_id
    /\ f.envelope.content = g.envelope.content

(* A content that was accepted is not accepted again until more than       *)
(* replay_window_cap other acceptances have passed, whatever receipt       *)
(* fields the retransmission carries and whether or not a drain or an      *)
(* eviction lies between.                                                  *)
ReplaySpacing ==
    \A i, j \in DOMAIN accepted :
        i < j /\ SameContent(accepted[i], accepted[j])
            => j - i > replay_window_cap

(* A window at least as long as the queue minus one keeps contents that    *)
(* wait together distinct: no run checks it, it follows from               *)
(* PendingIsMostRecent and ReplaySpacing (QueueHasNoTwins).  The shipped   *)
(* defaults (10 000 and 4 096) do not meet the premise.                    *)
PendingDistinct ==
    replay_window_cap + 1 >= capacity =>
        \A i, j \in DOMAIN pending :
            SameContent(pending[i], pending[j]) => i = j

-----------------------------------------------------------------------------
BatchItems == [i \in DOMAIN batch |-> batch[i].buffered]

(* A drained batch never shows an effect before its cause, also when       *)
(* unrelated items arrived between the two.                                *)
BatchIsCausal == CausalOrder(BatchItems)

(* Position p of a batch moved to position q, the rest kept in order. *)
Moved(items, p, q) ==
    [i \in DOMAIN items |->
        IF i = q THEN items[p]
        ELSE IF p <= i /\ i < q THEN items[i + 1]
        ELSE IF q < i /\ i <= p THEN items[i - 1]
        ELSE items[i]]

(* ORDER_UNKNOWN is never raised on an item whose place is known: a flagged *)
(* item may stand anywhere in its batch without breaking causal order.      *)
FlaggedItemsFloat ==
    \A p, q \in DOMAIN batch :
        batch[p].order_unknown => CausalOrder(Moved(BatchItems, p, q))

(* The set of flagged items depends on what is pending, not on the order    *)
(* in which it arrived.                                                     *)
Flagged(items) ==
    LET out == AnnotateOrderUnknown(CausalSort(items))
    IN  {out[i].buffered : i \in {k \in DOMAIN out : out[k].order_unknown}}

FlagsIgnoreArrivalOrder ==
    \A p \in Bijection(DOMAIN pending, DOMAIN pending) :
        Flagged([i \in DOMAIN pending |-> pending[p[i]]]) = Flagged(pending)

(* A queue whose arrivals already respect causality leaves in the very      *)
(* order it arrived: the sort does not reorder what it need not.            *)
DrainKeepsCausalArrivals ==
    [][DrainUp /\ CausalOrder(pending) => BatchItems' = pending]_vars

-----------------------------------------------------------------------------
(* The buffer keeps the promise of a causal outbox, whatever the link does  *)
(* between the calls.                                                       *)
Outbox == INSTANCE CausalOutbox WITH
    KeyOf    <- [f \in Frame |-> <<f.envelope.platform_id, f.envelope.content>>],
    open     <- (link = "Up"),
    bound    <- capacity,
    held     <- pending,
    seen     <- {<<accepted[i].envelope.platform_id, accepted[i].envelope.content>> :
                    i \in DOMAIN accepted},
    refused  <- duplicates_rejected,
    released <- delivered,
    lost     <- evicted

ImplementsOutbox == Outbox!Spec

-----------------------------------------------------------------------------
(* What two comments say, checked and refuted. *)

(* drain's doc: pending_len + drained_total is the number of pushes at all  *)
(* times.                                                                   *)
PendingPlusDrainedIsPushes == pushes = Len(pending) + drained_total

(* README and drain's doc: updates that are causally incomparable are       *)
(* marked ORDER_UNKNOWN.  Read as leniently as can be: of two incomparable  *)
(* frames drained together, one at least is marked.                         *)
IncomparableIsMarked ==
    \A i, j \in DOMAIN batch :
        IsConcurrentWith(batch[i].buffered.vc, batch[j].buffered.vc)
            => batch[i].order_unknown \/ batch[j].order_unknown
=============================================================================
