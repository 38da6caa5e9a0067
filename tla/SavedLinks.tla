----------------------------- MODULE SavedLinks -----------------------------
(***************************************************************************)
(* Converters of radio control links: CRSF frames and parameter entries,   *)
(* S.Port, MSP and Tramp byte streams, the DisplayPort canvas, ELRS        *)
(* settings.  Byte streams are read as sequences of byte kinds; ranges     *)
(* [from, to) of positions, counted from 1, say where the bytes went.      *)
(***************************************************************************)
EXTENDS SavedLines

CONSTANTS CanvasCells,   \* the cells of the canvas, as the caller declares them
          CanvasFrames   \* bound: the DisplayPort frames of a capture

Discard(from, to, why) ==
    IF from < to THEN <<[row |-> Here, from |-> from, to |-> to, why |-> why]>> ELSE <<>>

-----------------------------------------------------------------------------
(* convert_crsf_link: a frame: [time, type, operation, antenna].  declared:    *)
(* [type, optional]: the one type of frame that is decoded, and whether none   *)
(* of it may be found; operation is what a DisplayPort frame asks.             *)
LinkFrame(r) ==
    /\ InTimeOrder(r) /\ Plain
    /\ \/ /\ r.type # declared.type \/ (declared.type = "display" /\ r.operation = "unknown")
          /\ PassOver("unsupported")
       \/ /\ r.type = declared.type /\ ~(declared.type = "display" /\ r.operation = "unknown")
          /\ Carry([row |-> Here, time |-> r.time,
                    antenna |-> IF r.antenna \in 0..1 THEN r.antenna ELSE "unknown code"])

LinkEnd == Ending /\ Keeping /\ (lines # <<>> \/ declared.optional)

(* convert_sport_stream.  declared: [size, from, to]: the bytes of a packet (9 *)
(* in the code) and the packets to write; a byte: "flag" (7E), "escape" (7D)   *)
(* or "data".  held: [start, idle, got, literal, escaped, packets].            *)
SportStart == [start |-> 0, idle |-> 1, got |-> 0, literal |-> FALSE, escaped |-> FALSE, packets |-> 0]

MutantSportByte(r) ==  \* the packet cut short by a delimiter is forgotten
    CASE r = "flag" -> [held EXCEPT !.start = Here, !.literal = FALSE]
      [] r # "flag" /\ held.escaped -> [held EXCEPT !.got = @ + 1, !.escaped = FALSE]
      [] r = "escape" /\ ~held.escaped -> [held EXCEPT !.escaped = TRUE]
      [] OTHER -> [held EXCEPT !.got = @ + 1, !.literal = FALSE]

SportByte(r) ==  \* inside a packet
    CASE held.literal /\ r # "flag" -> [held EXCEPT !.got = @ + 1, !.literal = FALSE]
      [] ~(held.literal /\ r # "flag") /\ held.escaped -> [held EXCEPT !.got = @ + 1, !.escaped = FALSE]
      [] r = "flag" /\ ~held.escaped -> [held EXCEPT !.start = Here, !.literal = FALSE, !.got = 0]
      [] r = "escape" /\ ~held.literal /\ ~held.escaped -> [held EXCEPT !.escaped = TRUE]
      [] OTHER -> [held EXCEPT !.got = @ + 1]

SportStream(r) ==
    /\ UNCHANGED keys
    /\ \/ held.start = 0 /\ r # "flag" /\ Keeping /\ UNCHANGED held
       \/ /\ held.start = 0 /\ r = "flag" /\ UNCHANGED lines
          /\ passed' = passed \o Discard(held.idle, Here, "unframed")
          /\ Hold([held EXCEPT !.start = Here, !.literal = TRUE])
       \/ LET after == SportByte(r)
          IN /\ held.start # 0
             /\ passed' = passed \o Discard(held.start, after.start, "cut by a delimiter")
             /\ \/ after.got # declared.size /\ Hold(after) /\ UNCHANGED lines
                \/ /\ after.got = declared.size
                   /\ Hold([after EXCEPT !.start = 0, !.idle = Here + 1, !.got = 0, !.packets = @ + 1])
                   /\ lines' = Append(lines, [row |-> Here, from |-> held.start, to |-> Here + 1,
                                  wanted |-> declared.from <= held.packets /\ held.packets < declared.to])

SportEnd ==
    /\ Ending /\ UNCHANGED lines
    /\ passed' = passed \o IF held.start = 0 THEN Discard(held.idle, Here, "unframed")
                                             ELSE Discard(held.start, Here, "incomplete at the end")

(* convert_msp_stream: a piece: [kind, bytes]; "packet", "junk" (bytes that    *)
(* start no header) or "cut", what remains when the file ends in a packet.     *)
(* held: [at, idle], the positions after and of the first byte not placed yet. *)
MspStream(r) ==
    /\ UNCHANGED keys
    /\ fed # <<>> => Last(fed).kind # "cut"
    /\ \/ r.kind = "junk" /\ Keeping /\ Hold([held EXCEPT !.at = @ + r.bytes])
       \/ /\ r.kind = "packet"
          /\ passed' = passed \o Discard(held.idle, held.at, "unframed")
          /\ lines' = Append(lines, [row |-> Here, from |-> held.at, to |-> held.at + r.bytes])
          /\ Hold([at |-> held.at + r.bytes, idle |-> held.at + r.bytes])
       \/ /\ r.kind = "cut" /\ UNCHANGED lines
          /\ passed' = passed \o Discard(held.idle, held.at, "unframed")
                              \o Discard(held.at, held.at + r.bytes, "incomplete at the end")
          /\ Hold([at |-> held.at + r.bytes, idle |-> held.at + r.bytes])

MspEnd ==
    /\ Ending /\ UNCHANGED lines /\ lines # <<>>
    /\ passed' = passed \o Discard(held.idle, held.at, "unframed")

(* convert_vtx_tramp_replies: what the pinned receiver, which never pushes a   *)
(* byte back, finds next: [kind, bytes].                                       *)
TrampBytes == [header |-> 1, code |-> 2, mismatch |-> 16, trailer |-> 16, echo |-> 16, frame |-> 16]

TrampReply(r) ==
    /\ UNCHANGED keys
    /\ fed # <<>> => Last(fed).kind # "truncated"
    /\ r.bytes = IF r.kind = "truncated" THEN r.bytes ELSE TrampBytes[r.kind]
    /\ \/ r.kind = "frame" /\ Carry([row |-> Here, from |-> held, to |-> held + r.bytes])
       \/ r.kind # "frame" /\ UNCHANGED lines /\ passed' = passed \o Discard(held, held + r.bytes, r.kind)
    /\ Hold(held + r.bytes)

-----------------------------------------------------------------------------
(* convert_displayport_canvas: a frame: [op, cells, glyph]; op is "write",     *)
(* "clear", "draw", "release", "heartbeat" or "unknown".  held: [written,      *)
(* cleared], written: cell -> [glyph, row] of the last write.                  *)
NoCanvas == [written |-> <<>>, cleared |-> FALSE]

MutantReleased(r) == r.op = "unknown"  \* a release leaves the canvas

Released(r) == r.op \in {"release", "unknown"}

Overwritten(written, r) ==
    [c \in DOMAIN written \cup r.cells |->
        IF c \in r.cells THEN [glyph |-> r.glyph, row |-> Here] ELSE written[c]]

CanvasOperation(r) ==
    /\ UNCHANGED <<keys, passed>>
    /\ r.cells \subseteq declared
    /\ Hold(CASE Released(r)    -> NoCanvas
              [] r.op = "clear" -> [NoCanvas EXCEPT !.cleared = TRUE]
              [] r.op = "write" -> [held EXCEPT !.written = Overwritten(@, r)]
              [] OTHER          -> held)
    /\ IF r.op = "draw"
       THEN lines' = Append(lines, [row |-> Here, written |-> held.written, cleared |-> held.cleared])
       ELSE UNCHANGED lines

CanvasInit == converter = "displayport canvas" /\ declared = CanvasCells /\ Starting(NoCanvas)

CanvasNext ==
    \/ \E r \in CanvasFrames : Taking(r) /\ CanvasOperation(r)
    \/ EndCarried
    \/ Refuse

CanvasSpec == CanvasInit /\ [][CanvasNext]_linesVars

-----------------------------------------------------------------------------
(* convert_crsf_parameters.  A frame: [kind, origin, destination, number,      *)
(* remaining], kind "read", "info", "entry" or "other".  declared: whether the *)
(* caller vouches for complete entries.  held: [pending, reads], pending:      *)
(* origin -> the entry being joined, reads: <<device, asker>> -> the parameter *)
(* whose first chunk was asked for.                                            *)
NothingJoined == [pending |-> <<>>, reads |-> <<>>]

(* A read asks for the first chunk (remaining 0) or for a later one.           *)
ParameterRead(r) ==
    LET to == <<r.destination, r.origin>>
    IN Hold([held EXCEPT !.reads = IF r.remaining = 0 THEN Putting(@, to, r.number) ELSE Dropping(@, to)])

Joined(r) ==
    r.origin \in DOMAIN held.pending
    /\ LET open == held.pending[r.origin]
       IN r.destination = open.destination /\ r.number = open.number /\ r.remaining = open.remaining - 1

Starts(r) ==
    LET asked == <<r.origin, r.destination>>
    IN [destination |-> r.destination, number |-> r.number, remaining |-> r.remaining, refs |-> <<>>,
        observed |-> asked \in DOMAIN held.reads /\ held.reads[asked] = r.number]

ParameterChunk(r) ==
    LET open   == Joined(r)
        before == IF open THEN held.pending[r.origin] ELSE Starts(r)
        entry  == [before EXCEPT !.remaining = r.remaining, !.refs = Append(@, Here)]
    IN /\ open \/ r.origin \notin DOMAIN held.pending
       /\ Hold([pending |-> IF r.remaining = 0 THEN Dropping(held.pending, r.origin)
                            ELSE Putting(held.pending, r.origin, entry),
                reads   |-> IF open THEN held.reads ELSE Dropping(held.reads, <<r.origin, r.destination>>)])
       /\ IF r.remaining > 0 THEN Keeping
          ELSE Carry([row |-> Here, refs |-> entry.refs, number |-> r.number,
                      start |-> IF entry.observed THEN "observed"
                                ELSE IF declared THEN "declared" ELSE "not established"])

ParameterFrame(r) ==
    /\ UNCHANGED keys
    /\ \/ r.kind = "read" /\ ParameterRead(r) /\ PassOver("request")
       \/ r.kind \in {"info", "other"} /\ PassOver(r.kind) /\ UNCHANGED held
       \/ r.kind = "entry" /\ ParameterChunk(r)

(* convert_elrs_settings: a setting: [name, secret, nested, value].  declared: *)
(* whether the radio is known: a rate index means nothing without it.          *)
SettingLabel(r) ==
    CASE r.name = "packet-rate" /\ ~declared                -> "rate unresolved"
      [] r.name \in {"packet-rate", "telemetry-ratio", "switch-mode"} /\ r.value = "unlisted" -> "unknown enum"
      [] OTHER                                              -> "reported"

ElrsSetting(r) ==
    /\ KeepKey(r.name) /\ UNCHANGED held
    /\ \/ r.secret /\ PassOver("redacted")
       \/ ~r.secret /\ r.name = "unlisted" /\ PassOver("unknown, retained")
       \/ ~r.secret /\ r.name # "unlisted" /\ Carry([row |-> Here, label |-> SettingLabel(r)])

-----------------------------------------------------------------------------
(* When a stream is through, each of its bytes is in exactly one packet or one *)
(* discarded range, packets are in the order of the file and of their size.    *)
BytesAreAccounted ==
    converter \in {"sport stream", "msp stream", "tramp replies"} /\ verdict = "converted" =>
        LET ranges == ToSet(lines) \cup ToSet(passed)
            size   == IF converter = "sport stream" THEN Len(fed)
                      ELSE TotalOf([n \in DOMAIN fed |-> fed[n].bytes])
        IN /\ Len(lines) + Len(passed) = Cardinality(ranges)
           /\ \A n \in 1..size : Cardinality({x \in ranges : x.from <= n /\ n < x.to}) = 1
           /\ \A x \in ranges : 1 <= x.from /\ x.to <= size + 1
           /\ \A i, j \in DOMAIN lines : i < j => lines[i].to <= lines[j].from
           /\ converter = "sport stream" =>
                \A i \in DOMAIN lines : \* a delimiter and the packet, each byte of it at most escaped
                    lines[i].to - lines[i].from - 1 \in declared.size..(2 * declared.size)

(* The frames after a row and up to another that write a cell.                 *)
Writes(frames, after, row, c) ==
    {n \in (after + 1)..row : frames[n].op = "write" /\ c \in frames[n].cells}

(* A canvas that a frame emptied, the last to do so up to the row, holds in    *)
(* each cell the last write since, and is cleared if that frame cleared it.    *)
ShowsSince(frames, reset, row, canvas) ==
    /\ reset # 0 => frames[reset].op \in {"clear", "release", "unknown"}
    /\ \A n \in (reset + 1)..row : frames[n].op \notin {"clear", "release", "unknown"}
    /\ canvas.cleared <=> reset # 0 /\ frames[reset].op = "clear"
    /\ DOMAIN canvas.written = {c \in CanvasCells : Writes(frames, reset, row, c) # {}}
    /\ \A c \in DOMAIN canvas.written :
          /\ canvas.written[c].row \in Writes(frames, reset, row, c)
          /\ \A n \in Writes(frames, reset, row, c) : n <= canvas.written[c].row
          /\ canvas.written[c].glyph = frames[canvas.written[c].row].glyph

ShowsLatest(frames, row, canvas) == \E reset \in 0..row : ShowsSince(frames, reset, row, canvas)

(* A drawn canvas shows in each cell the latest write since the canvas was     *)
(* last cleared or became unknown, and is called cleared only since a clear.   *)
CanvasIsLatest ==
    converter = "displayport canvas" =>
        \A i \in DOMAIN lines : ShowsLatest(fed, lines[i].row, lines[i])

(* An entry is joined from consecutive chunks of one parameter, from the       *)
(* device to one asker, and its start counts as observed only if the last read *)
(* request of that asker before it was for the first chunk of this parameter.  *)
EntriesAreWhole ==
    converter = "crsf parameters" =>
        \A i \in DOMAIN lines :
            LET refs  == lines[i].refs
                first == fed[refs[1]]
                asked == {n \in 1..(refs[1] - 1) : /\ fed[n].kind = "read" /\ fed[n].origin = first.destination
                                                   /\ fed[n].destination = first.origin}
            IN /\ \A k \in DOMAIN refs :
                    /\ fed[refs[k]].number = first.number /\ fed[refs[k]].remaining = Len(refs) - k
                    /\ fed[refs[k]].origin = first.origin /\ fed[refs[k]].destination = first.destination
               /\ lines[i].start = "observed" =>
                    \E n \in asked : /\ \A m \in asked : m <= n
                                     /\ fed[n].remaining = 0 /\ fed[n].number = first.number
=============================================================================
