--------------------------- MODULE SavedMissions ---------------------------
(***************************************************************************)
(* What ground stations saved: status texts and ULog streams put together  *)
(* from their chunks, event logs cut into parts, exported telemetry tables *)
(* and mission plans.                                                      *)
(***************************************************************************)
EXTENDS SavedLines

(* convert_mavlink_statustext: a record: [kind, time, key, id, seq, severity,  *)
(* nul]; id 0 is a text of one chunk, nul that the chunk ends its text.        *)
(* held: the open text of each key <<link and sender, id>>.                    *)
Opened(r) == [severity |-> r.severity, refs |-> <<>>, zero |-> r.seq = 0]

ContinuesText(group, r) ==
    /\ r.seq # 0 /\ r.seq = fed[Last(group.refs)].seq + 1
    /\ r.severity = group.severity

Text(group, complete) ==
    [row |-> Last(group.refs), refs |-> group.refs, complete |-> complete]

StatusText(r) ==
    \/ r.kind = "other" /\ PassOver("unselected") /\ Plain
    \/ LET key   == <<r.key, r.id>>
           open  == key \in DOMAIN held
           going == open /\ ContinuesText(held[key], r)
           broken == IF open /\ ~going THEN <<Text(held[key], FALSE)>> ELSE <<>>
           group == [(IF going THEN held[key] ELSE Opened(r)) EXCEPT !.refs = Append(@, Here)]
           ends  == r.id = 0 \/ r.nul
       IN /\ r.kind = "text" /\ UNCHANGED keys
          /\ CarryAll(broken \o (IF ends THEN <<Text(group, r.id = 0 \/ group.zero)>> ELSE <<>>))
          /\ Hold(IF ends THEN Dropping(held, key) ELSE Putting(held, key, group))

(* Texts still open are reported too; rows go by the time of their last chunk. *)
StatusTextEnd ==
    LET open == SetToSeq({Text(held[k], FALSE) : k \in DOMAIN held})
        all  == lines \o open
    IN /\ Ending /\ (\E i \in DOMAIN fed : fed[i].kind = "text") /\ UNCHANGED passed
       /\ lines' = Sorted(all, LAMBDA i, j :
                      \/ fed[all[i].row].time < fed[all[j].row].time
                      \/ fed[all[i].row].time = fed[all[j].row].time /\ all[i].row < all[j].row)

(* assemble_saved_mavlink_ulog: a record: [kind, sender, seq, data, first],    *)
(* first the offset of the first ULog message in it.  declared: the sender or  *)
(* Absent, when the first one is taken.  held: [sender, last], last the row of *)
(* the last fragment that was not a repeat.                                    *)
SequenceModulo == 65536

UlogStep(r) == (r.seq - fed[held.last].seq) % SequenceModulo

UlogNext(r) == IF held.last = Absent THEN r.first = 0 ELSE UlogStep(r) = 1

UlogFragment(r) ==
    /\ UNCHANGED keys
    /\ \/ r.kind = "other" /\ PassOver("unrelated") /\ UNCHANGED held
       \/ /\ r.kind = "log" /\ declared # Absent /\ r.sender # declared
          /\ PassOver("other sender") /\ UNCHANGED held
       \/ /\ r.kind = "log" /\ held.sender \in {Absent, r.sender}
          /\ \/ /\ held.last # Absent /\ UlogStep(r) = 0 /\ r.data = fed[held.last].data
                /\ PassOver("duplicate") /\ UNCHANGED held
             \/ /\ UlogNext(r) /\ Hold([sender |-> r.sender, last |-> Here])
                /\ Carry([row |-> Here, wraps |-> held.last # Absent /\ r.seq < fed[held.last].seq])

UlogEnd == EndCarried

(* export_farmng_eventlog_filter_state and _window.  declared: [start, stop,   *)
(* torn, part]: the selected interval, whether a torn tail is allowed, and the *)
(* bytes of a part; a record: [kind, here, time, bytes].  held: [part, bytes]. *)
EventLogRecord(r) ==
    LET full == held.bytes + r.bytes > declared.part
        part == IF full /\ held.bytes > 0 THEN held.part + 1 ELSE held.part
        inside == declared.start <= Here /\ Here < declared.stop
    IN /\ UNCHANGED keys
       /\ fed # <<>> => Last(fed).kind # "tail"
       /\ \/ r.kind = "tail" /\ declared.torn /\ PassOver("truncated tail") /\ UNCHANGED held
          \/ r.kind = "event" /\ ~(inside /\ r.here) /\ PassOver("unselected") /\ UNCHANGED held
          \/ /\ r.kind = "event" /\ inside /\ r.here
             /\ lines # <<>> => r.time >= Last(lines).time
             /\ r.bytes <= declared.part
             /\ Carry([row |-> Here, time |-> r.time, part |-> part])
             /\ Hold([part |-> part, bytes |-> IF part = held.part THEN held.bytes + r.bytes ELSE r.bytes])

EventLogEnd == EndCarried

(* convert_gcs_tlog_csv.  declared: whether the selected message has a clock;  *)
(* a row: [selected, msgid, time, values], a value "unavailable" where its     *)
(* number is the one that says so.                                             *)
TlogRow(r) ==
    /\ UNCHANGED keys
    /\ \/ ~r.selected /\ PassOver("unselected") /\ UNCHANGED held
       \/ LET withheld == SelectSeq(r.values, LAMBDA v : v = "unavailable")
          IN /\ r.selected /\ r.msgid
             /\ declared /\ lines # <<>> => r.time >= Last(lines).time
             /\ Carry([row |-> Here, time |-> IF declared THEN r.time ELSE Absent,
                       status |-> IF withheld = <<>> THEN "reported" ELSE "unavailable"])
             /\ Hold(held + Len(withheld))

-----------------------------------------------------------------------------
(* recorded_mission_parameters.interpret, one parameter of a mission item:     *)
(* [command, role, value, frame, current, landing]; current is the parameter   *)
(* that says to use the current position (179), landing whether all three      *)
(* coordinates of a landing sequence (189) are zero.                           *)
Coordinates == {"latitude", "longitude", "altitude"}

MissionParameter(p) ==
    CASE p.command = "unknown"                        -> "uninterpreted"
      [] p.command # "unknown" /\ p.role = "unused"   -> "unused"
      [] p.command # "unknown" /\ p.role # "unused" /\ p.value = Absent -> "missing"
      [] p.command # "unknown" /\ p.role \in {"speed", "abort altitude"} /\ p.value = "special" ->
            IF p.role = "speed" THEN "no change or default" ELSE "system default"
      [] p.command # "unknown" /\ p.role # "unused" /\ p.value = "NaN" ->
            IF p.command = "179" /\ p.role = "roll" THEN "not set"
            ELSE IF p.role = "yaw" THEN "default yaw" ELSE "unqualified"
      [] p.command # "unknown" /\ p.role \in Coordinates /\ p.value = "number" ->
            IF p.command = "179" /\ p.current = 1 THEN "ignored, current used"
            ELSE IF p.command = "179" /\ p.current = Absent THEN "withheld, unknown whether used"
            ELSE IF p.command = "189" /\ p.landing THEN "first landing start"
            ELSE IF p.frame = "unqualified" THEN "withheld, frame" ELSE "declared"
      [] OTHER -> "declared"

(* recorded_plan_geometry.read: the rows of a shape, of a fence or rally       *)
(* section and of a complex item [complex, points]; a plain item has none.     *)
Shape(kind, points) == <<kind>> \o [i \in 1..points |-> "VERTEX"]

FenceRows(polygons) ==
    <<"SECTION", "POLYGONS_COLLECTION">>
    \o FlattenSeq([i \in DOMAIN polygons |-> Shape("FENCE_POLYGON", polygons[i])])
    \o <<"CIRCLES_COLLECTION">>

RallyRows(points) == <<"SECTION", "POINT_COLLECTION">> \o [i \in 1..points |-> "RALLY_POINT"]

ComplexRows(item) ==
    CASE item.complex = "unknown"   -> <<"UNINTERPRETED">>
      [] item.complex = "landing"   -> <<"SETTING", "LANDING_APPROACH", "LANDING_POINT">>
      [] item.complex = "structure" -> Shape("STRUCTURE_POLYGON", item.points) \o <<"SETTING", "SETTING">>
      [] item.complex = "survey"    ->
            Shape("SURVEY_POLYGON", item.points) \o <<"SETTING", "SETTING">>
            \o Shape("SAVED_VISUAL_TRANSECT", item.points) \o <<"STORED_INTERNAL_ITEMS", "SETTING">>

(* convert_saved_mission_plan.  declared: [geometry, fence, rally]; an item:   *)
(* [kind, complex, points, parameter].  The header row counts what is there.   *)
MissionItem(r) ==
    /\ Plain
    /\ \/ r.kind \in {"complex", "other"} /\ PassOver(r.kind)
       \/ r.kind = "simple" /\ Carry([row |-> Here, says |-> MissionParameter(r.parameter)])

MissionPlanEnd ==
    LET count(kind) == Cardinality({i \in DOMAIN fed : fed[i].kind = kind})
        complex == SelectSeq([i \in DOMAIN fed |-> [item |-> fed[i], row |-> i]],
                             LAMBDA c : c.item.kind = "complex")
        section(kinds) == [i \in DOMAIN kinds |-> [row |-> 0, says |-> kinds[i]]]
        rows(c) == [i \in DOMAIN ComplexRows(c.item) |-> [row |-> c.row, says |-> ComplexRows(c.item)[i]]]
    IN /\ Ending /\ UNCHANGED passed
       /\ lines' = <<[row |-> 0, says |-> <<count("simple"), count("complex"), count("other")>>]>> \o lines
                   \o IF ~declared.geometry THEN <<>>
                      ELSE section(IF declared.fence = Absent THEN <<>> ELSE FenceRows(declared.fence))
                           \o section(IF declared.rally = Absent THEN <<>> ELSE RallyRows(declared.rally))
                           \o FlattenSeq([i \in DOMAIN complex |-> rows(complex[i])])

-----------------------------------------------------------------------------
(* A text is made of the chunks of one sender and one identity in their order, *)
(* none left out, and is complete only when nothing is missing before its end. *)
TextsAreWhole ==
    converter = "mavlink statustext" =>
        \A i \in DOMAIN lines :
            LET refs == lines[i].refs
                first == fed[refs[1]]
            IN /\ \A k \in DOMAIN refs :
                    /\ fed[refs[k]].key = first.key /\ fed[refs[k]].id = first.id
                    /\ fed[refs[k]].severity = first.severity
                    /\ fed[refs[k]].seq = first.seq + k - 1
               /\ lines[i].complete /\ first.id # 0 => first.seq = 0 /\ fed[Last(refs)].nul
               /\ \A n \in refs[1]..Last(refs) :
                    fed[n].kind = "text" /\ <<fed[n].key, fed[n].id>> = <<first.key, first.id>>
                       => \E k \in DOMAIN refs : refs[k] = n

(* Each fragment of the stream follows the one before it by exactly one, and   *)
(* all are of one sender.                                                      *)
UlogIsGapless ==
    converter = "mavlink ulog" =>
        \A i, j \in DOMAIN lines : j = i + 1 =>
            LET a == fed[lines[i].row]
                b == fed[lines[j].row]
            IN a.sender = b.sender /\ b.seq \in {a.seq + 1, 0} /\ (b.seq = 0 => a.seq = SequenceModulo - 1)
=============================================================================
