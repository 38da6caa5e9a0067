----------------------------- MODULE RtpRecords -----------------------------
(***************************************************************************)
(* Ordering and timing of saved RTP packets                                *)
(* (scripts/convert_rtp_records.py).  The converter walks the packets of   *)
(* one capture once.  For every source it keeps the highest sequence       *)
(* number, the wrap cycles, an epoch, a bounded memory of numbers already  *)
(* seen and the highest timestamp; every retained packet becomes one row.  *)
(*                                                                         *)
(* A packet is a record [key, type, seq, ts, digest]: key is the address   *)
(* tuple with the SSRC, digest stands for the payload bytes.  Padding,     *)
(* CSRC and extension fields only travel to the row and are left out.      *)
(***************************************************************************)
EXTENDS Integers, Sequences, FiniteSets, SequencesExt

CONSTANTS RtpSeqMod,           \* RTP_SEQ_MOD
          RtpTsMod,            \* RTP_TS_MOD
          MaxDropout,       \* MAX_DROPOUT
          MaxMisorder,      \* MAX_MISORDER
          MaxForward,       \* the declared forward window in ticks
          RecentSequences,  \* RECENT_SEQUENCES
          MaxSources,       \* MAX_SOURCES
          RtpPackets,       \* packets a capture may hold; NoRtp is any other datagram
          RtpTypes,         \* payload types the caller may select
          MaxRtpPackets     \* bound: packets of a capture

None  == -1
NoRtp == [key |-> None]

(* Header fields of fixed width; the two windows do not meet, and the memory  *)
(* holds more numbers than the window of late arrivals (512 and 100).          *)
ASSUME RtpWindows ==
    /\ {RtpSeqMod, RtpTsMod, MaxDropout, MaxMisorder} \subseteq Nat \ {0}
    /\ {MaxForward, RecentSequences} \subseteq Nat
    /\ MaxDropout + MaxMisorder <= RtpSeqMod /\ MaxMisorder <= RecentSequences
    /\ 2 * MaxForward < RtpTsMod
    /\ \A p \in RtpPackets : p.seq \in 0..(RtpSeqMod - 1) /\ p.ts \in 0..(RtpTsMod - 1)

VARIABLES rtpType,     \* payload_type: the selected type, or None
          rtpObserved, \* observed_payload_type
          rtpSources,  \* states: function from the keys seen to their _Source
          rtpRows,     \* the CSV rows, in capture order
          rtpTally,    \* the report's packet counters
          rtpVerdict   \* "reading", "refused" (an exception) or "converted"

rtpVars == <<rtpType, rtpObserved, rtpSources, rtpRows, rtpTally, rtpVerdict>>

NewSource == [highest |-> None, cycles |-> 0, epoch |-> 0, bad |-> None, seen |-> <<>>,
              tsCycles |-> 0, highestTs |-> None, firstTs |-> None]

Known(s, extended) == {i \in DOMAIN s.seen : s.seen[i].extended = extended}

(* _remember: a known number takes the new digest, a new one may evict the oldest. *)
Remember(s, extended, digest) ==
    LET entry == [extended |-> extended, digest |-> digest]
        grown == Append(s.seen, entry)
    IN IF Known(s, extended) # {}
       THEN [s EXCEPT !.seen = [i \in DOMAIN @ |-> IF i \in Known(s, extended) THEN entry ELSE @[i]]]
       ELSE [s EXCEPT !.seen = IF Len(grown) > RecentSequences THEN Tail(grown) ELSE grown]

(* _repeat *)
Repeat(s, extended, digest) ==
    IF Known(s, extended) = {} THEN "none"
    ELSE IF \A i \in Known(s, extended) : s.seen[i].digest = digest
         THEN "duplicate" ELSE "repeated_sequence_new_payload"

(* _resolve: what one raw number may be under the windows of RFC 3550 A.1. *)
Resolve(s, seq) ==
    LET delta == (seq - s.highest) % RtpSeqMod
        late  == s.cycles - (IF seq > s.highest THEN RtpSeqMod ELSE 0) + seq
    IN CASE delta = 0 -> [kind |-> "repeat_of_highest", extended |-> s.cycles + s.highest]
         [] delta \in 1..(MaxDropout - 1) ->
              [kind |-> "forward",
               extended |-> s.cycles + (IF seq < s.highest THEN RtpSeqMod ELSE 0) + seq]
         [] delta >= MaxDropout /\ delta > RtpSeqMod - MaxMisorder ->
              [kind |-> "late", extended |-> IF late < 0 THEN None ELSE late]
         [] OTHER -> [kind |-> "unknown", extended |-> None]

Ordered(state, extended, s) == [state |-> state, extended |-> extended, source |-> s]

MutantRestarted(s, seq) ==  \* keeps the numbers seen in the old epoch
    [NewSource EXCEPT !.highest = seq, !.epoch = s.epoch + 1, !.seen = s.seen]

Restarted(s, seq) == [NewSource EXCEPT !.highest = seq, !.epoch = s.epoch + 1]

(* order: the state of one arrival, its extended number, the source afterwards. *)
Order(s, seq, digest) ==
    LET r      == Resolve(s, seq)
        repeat == Repeat(s, r.extended, digest)
        calm   == [s EXCEPT !.bad = None]
        moved  == [calm EXCEPT !.highest = seq,
                               !.cycles = @ + (IF seq < s.highest THEN RtpSeqMod ELSE 0)]
    IN CASE s.highest = None ->
              Ordered("first", s.cycles + seq,
                      Remember([s EXCEPT !.highest = seq], s.cycles + seq, digest))
         [] s.highest # None /\ r.extended # None /\ repeat # "none" ->
              Ordered(repeat, r.extended, Remember(calm, r.extended, digest))
         [] s.highest # None /\ repeat = "none" /\ r.kind = "repeat_of_highest" ->
              Ordered("duplicate", r.extended, Remember(calm, r.extended, digest))
         [] s.highest # None /\ repeat = "none" /\ r.kind = "forward" ->
              Ordered("in_order", r.extended, Remember(moved, r.extended, digest))
         [] s.highest # None /\ repeat = "none" /\ r.kind = "late" ->
              Ordered("reorder", r.extended,
                      IF r.extended = None THEN calm ELSE Remember(calm, r.extended, digest))
         [] s.highest # None /\ r.kind = "unknown" /\ seq = s.bad ->
              Ordered("restart", seq, Remember(Restarted(s, seq), seq, digest))
         [] OTHER -> Ordered("discontinuity_unknown", None,
                             [s EXCEPT !.bad = (seq + 1) % RtpSeqMod])

Ticked(state, ticks, s) == [state |-> state, ticks |-> ticks, source |-> s]

(* tick: the extended timestamp under the declared forward window, or None. *)
Tick(s, ts) ==
    LET forward  == (ts - s.highestTs) % RtpTsMod
        backward == (s.highestTs - ts) % RtpTsMod
        cycles   == s.tsCycles + (IF ts < s.highestTs THEN RtpTsMod ELSE 0)
        late     == s.tsCycles - (IF ts > s.highestTs THEN RtpTsMod ELSE 0) + ts
    IN CASE s.highestTs = None -> Ticked("first", ts, [s EXCEPT !.highestTs = ts, !.firstTs = ts])
         [] s.highestTs # None /\ forward = 0 ->
              Ticked("same_timestamp", s.tsCycles + s.highestTs, s)
         [] s.highestTs # None /\ forward \in 1..MaxForward ->
              Ticked("forward", cycles + ts, [s EXCEPT !.highestTs = ts, !.tsCycles = cycles])
         [] s.highestTs # None /\ forward > MaxForward /\ backward <= MaxForward ->
              Ticked("backward", IF late < 0 THEN None ELSE late, s)
         [] OTHER -> Ticked("discontinuity_unknown", None, s)

(* The row of a retained packet: an unsized jump never moves the timestamp state. *)
Row(s, p) ==
    LET o == Order(s, p.seq, p.digest)
        t == IF o.state = "discontinuity_unknown"
             THEN Ticked("discontinuity_unknown", None, o.source)
             ELSE Tick(o.source, p.ts)
    IN [source |-> t.source,
        row |-> [packet |-> p, order |-> o.state, extended |-> o.extended,
                 epoch |-> t.source.epoch, cycles |-> t.source.cycles,
                 time |-> t.state, ticks |-> t.ticks, origin |-> t.source.firstTs]]

RtpInit ==
    /\ rtpType \in RtpTypes \cup {None}
    /\ rtpObserved = None
    /\ rtpSources = [k \in {} |-> NewSource]
    /\ rtpRows = <<>>
    /\ rtpTally = [packets |-> 0, unselected |-> 0, unsupported |-> 0]
    /\ rtpVerdict = "reading"

Reading == rtpVerdict = "reading" /\ rtpTally.packets < MaxRtpPackets

(* A datagram of another port, or of another SSRC than the declared one. *)
SkipUnselected ==
    /\ Reading
    /\ rtpTally' = [rtpTally EXCEPT !.packets = @ + 1, !.unselected = @ + 1]
    /\ UNCHANGED <<rtpType, rtpObserved, rtpSources, rtpRows, rtpVerdict>>

SkipUnsupported(p) ==
    /\ Reading
    /\ rtpType \notin {None, p.type}
    /\ rtpTally' = [rtpTally EXCEPT !.packets = @ + 1, !.unsupported = @ + 1]
    /\ UNCHANGED <<rtpType, rtpObserved, rtpSources, rtpRows, rtpVerdict>>

Retain(p) ==
    LET known  == DOMAIN rtpSources
        source == IF p.key \in known THEN rtpSources[p.key] ELSE NewSource
        result == Row(source, p)
    IN /\ Reading
       /\ rtpType = p.type \/ (rtpType = None /\ rtpObserved \in {None, p.type})
       /\ p.key \in known \/ Cardinality(known) < MaxSources
       /\ rtpObserved' = IF rtpType = None THEN p.type ELSE rtpObserved
       /\ rtpSources' = [k \in known \cup {p.key} |->
                            IF k = p.key THEN result.source ELSE rtpSources[k]]
       /\ rtpRows' = Append(rtpRows, result.row)
       /\ rtpTally' = [rtpTally EXCEPT !.packets = @ + 1]
       /\ UNCHANGED <<rtpType, rtpVerdict>>

(* A packet that changes the payload type of an undeclared selection, one      *)
(* source too many, or a malformed header: the whole conversion is refused.    *)
RefuseRtp(p) ==
    /\ Reading
    /\ \/ rtpType = None /\ rtpObserved \notin {None, p.type}
       \/ /\ rtpType = p.type \/ (rtpType = None /\ rtpObserved \in {None, p.type})
          /\ p.key \notin DOMAIN rtpSources
          /\ Cardinality(DOMAIN rtpSources) >= MaxSources
    /\ rtpVerdict' = "refused"
    /\ UNCHANGED <<rtpType, rtpObserved, rtpSources, rtpRows, rtpTally>>

EndOfRtp ==
    /\ rtpVerdict = "reading"
    /\ rtpVerdict' = IF rtpRows = <<>> THEN "refused" ELSE "converted"
    /\ UNCHANGED <<rtpType, rtpObserved, rtpSources, rtpRows, rtpTally>>

RtpNext ==
    \/ SkipUnselected
    \/ \E p \in RtpPackets : SkipUnsupported(p) \/ Retain(p) \/ RefuseRtp(p)
    \/ EndOfRtp

RtpSpec == RtpInit /\ [][RtpNext]_rtpVars

-----------------------------------------------------------------------------

(* The earlier rows of the source and the epoch of row j. *)
Mates(rows, j) == {i \in 1..(j - 1) : /\ rows[i].packet.key = rows[j].packet.key
                                      /\ rows[i].epoch = rows[j].epoch}

Repeats == {"duplicate", "repeated_sequence_new_payload"}

(* The numbers that rows of S after row i gave out as new ones. *)
GivenAfter(rows, S, i) ==
    {rows[n].extended : n \in {n \in S : n > i /\ rows[n].order \notin Repeats}} \ {None}

(* A restart is never declared on one stray packet: the packet before it, of  *)
(* the same source, was an unsized jump to the number just below (order,      *)
(* "two consecutive observed packets confirm the new numbering").             *)
RestartIsConfirmed(rows, j) ==
    rows[j].order = "restart" =>
        \E i \in 1..(j - 1) :
            /\ rows[i].packet.key = rows[j].packet.key
            /\ \A n \in (i + 1)..(j - 1) : rows[n].packet.key # rows[j].packet.key
            /\ rows[i].order = "discontinuity_unknown"
            /\ rows[j].packet.seq = (rows[i].packet.seq + 1) % RtpSeqMod
            /\ rows[j].epoch = rows[i].epoch + 1

(* The extended number identifies a packet across wraps (the comment on       *)
(* _Source.seen): within one epoch of one source, a number that was given out *)
(* among the last RecentSequences distinct numbers is never given out as new  *)
(* again, and a row called a repeat names a number that was given out before. *)
ExtendedNumberIsIdentity(rows, j) ==
    LET earlier == {i \in Mates(rows, j) : rows[i].extended = rows[j].extended}
    IN rows[j].extended # None =>
          /\ rows[j].order \in Repeats => earlier # {}
          /\ rows[j].order \notin Repeats =>
                \A i \in earlier : rows[i].order \notin Repeats =>
                    Cardinality(GivenAfter(rows, Mates(rows, j), i)) >= RecentSequences

(* In-order arrivals of an epoch only move forward, by less than MaxDropout,  *)
(* through any number of wraps (order, _resolve).                             *)
InOrderMovesForward(rows, j) ==
    rows[j].order = "in_order" =>
        /\ \A i \in Mates(rows, j) :
              rows[i].extended # None => rows[i].extended < rows[j].extended
        /\ \E n \in Mates(rows, j) : /\ rows[n].extended # None
                                     /\ rows[j].extended - rows[n].extended < MaxDropout

(* What _Source promises of the sequence numbers of one source, together.     *)
SequenceNumbersAreSound ==
    \A j \in DOMAIN rtpRows : /\ RestartIsConfirmed(rtpRows, j)
                               /\ ExtendedNumberIsIdentity(rtpRows, j)
                               /\ InOrderMovesForward(rtpRows, j)
=============================================================================
