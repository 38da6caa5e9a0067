---------------------------- MODULE CanTransport ----------------------------
(***************************************************************************)
(* Multi-frame transports rebuilt from saved CAN frames                    *)
(* (scripts/convert_dronecan_capture.py): DroneCAN transfers, J1939 BAM    *)
(* broadcasts, one addressed J1939 RTS/CTS pair and the four-fragment      *)
(* NMEA 2000 engine packet.  A capture is read once, in order; a hole, an  *)
(* overlap or an unfinished transfer refuses the whole conversion.         *)
(*                                                                         *)
(* A frame is [key, kind, n, m, time].  key is the DroneCAN identifier,    *)
(* the BAM source or the fast-packet (source, sequence).  kind and n, m:   *)
(*   DroneCAN  "solo" | "start" | "more" | "end"                           *)
(*   BAM       "announce" (n packets) | "data" (number n) | "single"       *)
(*   RTS/CTS   "rts" (n packets, m at most per grant) | "cts" (next n,     *)
(*             count m) | "data" (number n) | "ack" (n packets) | "abort"  *)
(*   NMEA      "data" (fragment n, 0..3)                                   *)
(* "other" is a frame the selection leaves out.  Payload bytes, sizes and  *)
(* padding checks are left out: a frame they reject is kind "bad".         *)
(***************************************************************************)
EXTENDS Integers, Sequences, FiniteSets, SequencesExt

CONSTANTS CanFrames,      \* function: protocol -> frames a capture may hold
          TransferTimeout,\* 2_000_000 us between the ends of a DroneCAN transfer
          MaxCanFrames    \* bound: frames of a capture

Protocols == {"dronecan", "bam", "rts", "nmea"}

(* A DroneCAN identifier is selected or it is not, and an NMEA frame of another *)
(* PGN has no sequence: what the selection leaves out has a key of its own.     *)
ASSUME CanAssumption ==
    /\ TransferTimeout \in Nat
    /\ \A p \in Protocols : \A f \in CanFrames[p] :
          /\ f.n \in Nat /\ f.m \in Nat /\ f.time \in Nat
          /\ p \in {"dronecan", "nmea"} /\ f.kind = "other" =>
                \A g \in CanFrames[p] : g.key = f.key => g.kind = "other"

VARIABLES canProtocol,    \* --protocol
          canCapture,     \* frames read so far
          canPending,     \* pending: function from keys to open transfers
          canDone,        \* decoded transfers, in completion order
          canUnsupported, \* positions listed under unsupported_frames
          canVerdict      \* "reading", "refused" or "converted"

canVars == <<canProtocol, canCapture, canPending, canDone, canUnsupported, canVerdict>>

CanInit ==
    /\ canProtocol \in Protocols /\ canCapture = <<>> /\ canPending = [k \in {} |-> <<>>]
    /\ canDone = <<>> /\ canUnsupported = {} /\ canVerdict = "reading"

ThisFrame == Len(canCapture) + 1

Open(k) == k \in DOMAIN canPending

With(k, transfer) == [x \in DOMAIN canPending \cup {k} |->
                         IF x = k THEN transfer ELSE canPending[x]]
Without(k) == [x \in DOMAIN canPending \ {k} |-> canPending[x]]

NewTransfer(f) == [key |-> f.key, frames |-> <<ThisFrame>>, first |-> f.time, next |-> 1,
                   packets |-> f.n, maximum |-> f.m, granted |-> 0, grants |-> <<>>,
                   state |-> "CTS"]

Grown(f) == [canPending[f.key] EXCEPT !.frames = Append(@, ThisFrame), !.next = @ + 1]

(* What one frame does: "open", "grow", "grant", "close", "single" or         *)
(* "unsupported"; any other answer is a ValueError.                           *)
DroneCanStep(f) ==   \* convert
    CASE f.kind = "other" -> "unsupported"
      [] f.kind = "solo" /\ ~Open(f.key) -> "single"
      [] f.kind = "start" /\ ~Open(f.key) -> "open"
      [] f.kind \in {"more", "end"} /\ Open(f.key) ->
           IF f.time - canPending[f.key].first > TransferTimeout THEN "refuse"
           ELSE IF f.kind = "end" THEN "close" ELSE "grow"
      [] OTHER -> "refuse"

MutantBamStep(f) ==  \* takes a packet with any later number
    CASE f.kind = "single" -> "single"
      [] f.kind \in {"announce", "other"} /\ Open(f.key) -> "refuse"
      [] f.kind = "announce" /\ ~Open(f.key) -> "open"
      [] f.kind \in {"data", "other"} /\ ~Open(f.key) -> "unsupported"
      [] f.kind = "data" /\ Open(f.key) ->
           IF f.n < canPending[f.key].next THEN "refuse"
           ELSE IF f.n = canPending[f.key].packets THEN "close" ELSE "grow"
      [] OTHER -> "refuse"

BamStep(f) ==        \* _bam_step, diagnostic_messages
    CASE f.kind = "single" -> "single"
      [] f.kind \in {"announce", "other"} /\ Open(f.key) -> "refuse"
      [] f.kind = "announce" /\ ~Open(f.key) -> "open"
      [] f.kind \in {"data", "other"} /\ ~Open(f.key) -> "unsupported"
      [] f.kind = "data" /\ Open(f.key) ->
           IF f.n # canPending[f.key].next THEN "refuse"
           ELSE IF f.n = canPending[f.key].packets THEN "close" ELSE "grow"
      [] OTHER -> "refuse"

RtsStep(f) ==        \* _RtsTransfer.step
    LET p == canPending[f.key] IN
    CASE f.kind = "other" -> IF Open(f.key) THEN "refuse" ELSE "unsupported"
      [] f.kind = "rts" -> IF Open(f.key) \/ f.m = 0 THEN "refuse" ELSE "open"
      [] f.kind = "cts" /\ Open(f.key) ->
           IF /\ p.state = "CTS" /\ f.n = p.next
              /\ f.m \in 1..p.maximum /\ f.m <= p.packets - p.next + 1
           THEN "grant" ELSE "refuse"
      [] f.kind = "data" /\ Open(f.key) ->
           IF p.state = "DT" /\ f.n = p.next THEN "grow" ELSE "refuse"
      [] f.kind = "ack" /\ Open(f.key) ->
           IF p.state = "ACK" /\ f.n = p.packets THEN "close" ELSE "refuse"
      [] OTHER -> "refuse"

NmeaStep(f) ==       \* convert_nmea2000_engine_dynamic
    CASE f.kind = "other" -> "unsupported"
      [] f.kind = "data" /\ f.n = 0 /\ ~Open(f.key) -> "open"
      [] f.kind = "data" /\ f.n > 0 /\ Open(f.key) ->
           IF f.n # canPending[f.key].next THEN "refuse"
           ELSE IF f.n = 3 THEN "close" ELSE "grow"
      [] OTHER -> "refuse"

Step(f) == CASE canProtocol = "dronecan" -> DroneCanStep(f)
             [] canProtocol = "bam" -> BamStep(f)
             [] canProtocol = "rts" -> RtsStep(f)
             [] OTHER -> NmeaStep(f)

(* An RTS transfer leaves DT when its grant is used up, for ACK at the last packet. *)
Regranted(f, p) ==
    IF canProtocol # "rts" THEN p
    ELSE LET left == [p EXCEPT !.granted = @ - 1]
         IN CASE f.n = p.packets -> [left EXCEPT !.state = "ACK"]
              [] f.n # p.packets /\ left.granted = 0 -> [left EXCEPT !.state = "CTS"]
              [] OTHER -> left

CanRead(f, step) ==
    /\ canVerdict = "reading" /\ Len(canCapture) < MaxCanFrames
    /\ canCapture # <<>> => f.time >= Last(canCapture).time     \* capture_rows
    /\ Step(f) = step
    /\ canCapture' = Append(canCapture, f)

Skip(f) ==
    /\ CanRead(f, "unsupported")
    /\ canUnsupported' = canUnsupported \cup {ThisFrame}
    /\ UNCHANGED <<canProtocol, canPending, canDone, canVerdict>>

SingleFrame(f) ==
    /\ CanRead(f, "single")
    /\ canDone' = Append(canDone, NewTransfer(f))
    /\ UNCHANGED <<canProtocol, canPending, canUnsupported, canVerdict>>

OpenTransfer(f) ==
    /\ CanRead(f, "open")
    /\ canPending' = With(f.key, NewTransfer(f))
    /\ UNCHANGED <<canProtocol, canDone, canUnsupported, canVerdict>>

Grant(f) ==
    /\ CanRead(f, "grant")
    /\ canPending' = With(f.key, [canPending[f.key] EXCEPT
                         !.frames = Append(@, ThisFrame), !.grants = Append(@, <<f.n, f.m>>),
                         !.granted = f.m, !.state = "DT"])
    /\ UNCHANGED <<canProtocol, canDone, canUnsupported, canVerdict>>

GrowTransfer(f) ==
    /\ CanRead(f, "grow")
    /\ canPending' = With(f.key, Regranted(f, Grown(f)))
    /\ UNCHANGED <<canProtocol, canDone, canUnsupported, canVerdict>>

CloseTransfer(f) ==
    /\ CanRead(f, "close")
    /\ canDone' = Append(canDone, Grown(f))
    /\ canPending' = Without(f.key)
    /\ UNCHANGED <<canProtocol, canUnsupported, canVerdict>>

RefuseFrame(f) ==
    /\ CanRead(f, "refuse")
    /\ canVerdict' = "refused"
    /\ UNCHANGED <<canProtocol, canPending, canDone, canUnsupported>>

EndOfCan ==
    /\ canVerdict = "reading"
    /\ canVerdict' = IF DOMAIN canPending = {} /\ canDone # <<>> THEN "converted" ELSE "refused"
    /\ UNCHANGED <<canProtocol, canCapture, canPending, canDone, canUnsupported>>

CanNext ==
    \/ \E f \in CanFrames[canProtocol] :
          \/ Skip(f) \/ SingleFrame(f) \/ OpenTransfer(f) \/ Grant(f)
          \/ GrowTransfer(f) \/ CloseTransfer(f) \/ RefuseFrame(f)
    \/ EndOfCan

CanSpec == CanInit /\ [][CanNext]_canVars

-----------------------------------------------------------------------------

Sent(t) == [i \in DOMAIN t.frames |-> canCapture[t.frames[i]]]

DataAt(sent) == {i \in DOMAIN sent : sent[i].kind = "data"}

(* The data packets carry the numbers of S, each once and in increasing order. *)
CountsOver(sent, S) ==
    /\ {sent[i].n : i \in DataAt(sent)} = S
    /\ \A i, j \in DataAt(sent) : i < j => sent[i].n < sent[j].n

(* No decoded transfer is spliced from two, misses a packet or repeats one:   *)
(* its frames share one key and no frame of that key between them is left     *)
(* out, its packets count up without a hole to the announced number, and a    *)
(* DroneCAN transfer stays inside the two-second bound (convert, _bam_step,   *)
(* _RtsTransfer.step, convert_nmea2000_engine_dynamic).                       *)
TransfersAreWhole ==
    \A t \in ToSet(canDone) :
        LET between == {i \in t.frames[1]..Last(t.frames) :
                           canCapture[i].key = t.key /\ canCapture[i].kind # "single"}
        IN /\ Len(t.frames) > 1 => ToSet(t.frames) = between
           /\ canProtocol = "dronecan" =>
                 canCapture[Last(t.frames)].time - canCapture[t.frames[1]].time <= TransferTimeout
           /\ canProtocol \in {"bam", "rts"} /\ Sent(t)[1].kind # "single" =>
                 CountsOver(Sent(t), 1..Sent(t)[1].n)
           /\ canProtocol = "nmea" => CountsOver(Sent(t), 0..3)

(* Nothing is dropped silently: in a converted capture every frame is either  *)
(* in exactly one decoded transfer or listed as unsupported (the reports'     *)
(* frames, decoded_frames and unsupported_frames).                            *)
EveryFrameIsAccounted ==
    canVerdict = "converted" =>
        \A i \in DOMAIN canCapture :
            Cardinality({j \in DOMAIN canDone : i \in ToSet(canDone[j].frames)})
                = IF i \in canUnsupported THEN 0 ELSE 1

(* Packet i comes after a grant that covers it and before the next grant. *)
Granted(sent, i) ==
    \E g \in 1..(i - 1) :
        /\ sent[g].kind = "cts"
        /\ \A j \in (g + 1)..i : sent[j].kind = "data"
        /\ sent[i].n \in sent[g].n..(sent[g].n + sent[g].m - 1)

FlowControlled(sent) ==
    /\ \A i \in DataAt(sent) : Granted(sent, i)
    /\ \A i \in DOMAIN sent : sent[i].kind = "cts" => sent[i].m <= sent[1].m

(* The grants follow each other without a hole or an overlap, up to a packet. *)
Tile(grants, upto) ==
    /\ \A g \in DOMAIN grants :
          grants[g][1] = IF g = 1 THEN 1 ELSE grants[g - 1][1] + grants[g - 1][2]
    /\ upto = IF grants = <<>> THEN 0 ELSE Last(grants)[1] + Last(grants)[2] - 1

(* Flow control (_RtsTransfer): in a completed exchange the grants cover      *)
(* exactly the packets, each grant no larger than the RTS allows, every data  *)
(* packet comes after the grant that covers it and before the next grant.     *)
GrantsCoverData ==
    canProtocol = "rts" =>
        \A t \in ToSet(canDone) :
            /\ Last(Sent(t)).kind = "ack"
            /\ FlowControlled(Sent(t))
            /\ Tile(t.grants, Sent(t)[1].n)

(* What the rebuilt transfers of a capture promise, together.                 *)
TransfersAreSound == TransfersAreWhole /\ EveryFrameIsAccounted /\ GrantsCoverData
=============================================================================
