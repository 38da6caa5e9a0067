---------------------------- MODULE SavedFlight ----------------------------
(***************************************************************************)
(* Converters of flight logs and of what ground stations saved: exported   *)
(* records, status texts and ULog streams put together from their chunks,  *)
(* parameters in force at a mode change, mission plans, event logs.        *)
(***************************************************************************)
EXTENDS SavedLines

-----------------------------------------------------------------------------
(* convert_ardusub_vertical_reports.  declared: [underwater, anchor], anchor   *)
(* the range of stamps an anchor declaration is valid for, or Absent; a        *)
(* record: [kind, time, firmware].  keys: the records that name the firmware.  *)
VerticalReport(r) ==
    /\ UNCHANGED held
    /\ IF declared.underwater /\ r.kind = "MSG" /\ r.firmware # Absent
       THEN r.firmware = "pinned" /\ KeepKey(Here) ELSE UNCHANGED keys
    /\ \/ r.kind # "CTUN" /\ PassOver("unselected")
       \/ /\ r.kind = "CTUN" /\ (lines # <<>> => r.time >= Last(lines).time)
          /\ declared.anchor # Absent => r.time \in declared.anchor
          /\ Carry([row |-> Here, time |-> r.time, depth |-> declared.anchor # Absent])

VerticalEnd == EndCarried /\ (declared.underwater => keys # {})

(* convert_blackbox_motor_output.  declared: [low, high]; a row: [time,        *)
(* demands].  A demand off the declared scale is counted and kept.             *)
MotorRow(r) ==
    LET off == SelectSeq(r.demands, LAMBDA d : d < declared.low \/ d > declared.high)
    IN /\ InTimeOrder(r) /\ Carry([row |-> Here, time |-> r.time, demands |-> r.demands])
       /\ Hold(held + Len(off)) /\ UNCHANGED keys

(* export_ardupilot_records._decode.  declared: [selected, start, stop]; a     *)
(* record: [name, schema].  held: the schema each name came with.              *)
DecodedRecord(r) ==
    /\ r.name \in DOMAIN held => held[r.name] = r.schema
    /\ Hold((r.name :> r.schema) @@ held) /\ UNCHANGED keys
    /\ \/ r.name \notin declared.selected /\ PassOver("unselected")
       \/ /\ r.name \in declared.selected
          /\ \/ declared.start <= Here /\ Here < declared.stop /\ Carry([row |-> Here, name |-> r.name])
             \/ ~(declared.start <= Here /\ Here < declared.stop) /\ PassOver("outside window")

DecodedEnd == Ending /\ Keeping

(* normalize_ardupilot_report.  A record: [kind, fields]; the table has the    *)
(* fields of all selected records, an empty cell where one has no such field.  *)
NormalizedRecord(r) ==
    /\ UNCHANGED keys
    /\ \/ r.kind # declared /\ PassOver("unselected") /\ UNCHANGED held
       \/ r.kind = declared /\ Carry([row |-> Here, cells |-> r.fields]) /\ Hold(held \cup r.fields)

NormalizedEnd ==
    /\ Ending /\ lines # <<>> /\ UNCHANGED passed
    /\ lines' = [i \in DOMAIN lines |-> [row |-> lines[i].row, columns |-> held, cells |-> lines[i].cells]]

(* convert_dataflash_text: a line: [kind, name, id, columns, text, cells]: a   *)
(* FMT line declares columns under a name and a number, each of them once; the *)
(* last column of a record may hold the delimiter when it is text.             *)
TextLine(r) ==
    \/ /\ r.kind = "FMT" /\ {<<"name", r.name>>, <<"id", r.id>>} \cap keys = {}
       /\ keys' = keys \cup {<<"name", r.name>>, <<"id", r.id>>}
       /\ Hold((r.name :> [columns |-> r.columns, text |-> r.text]) @@ held)
       /\ Carry([row |-> Here, name |-> "FMT", joined |-> FALSE])
    \/ /\ r.kind = "record" /\ r.name \in DOMAIN held /\ Plain
       /\ \/ r.cells = held[r.name].columns
          \/ r.cells > held[r.name].columns /\ held[r.name].text
       /\ Carry([row |-> Here, name |-> r.name, joined |-> r.cells > held[r.name].columns])

-----------------------------------------------------------------------------
(* convert_rover_saved_bundle.  declared: the domain to qualify, "surface",    *)
(* "ground", "air" or Absent; a record: [kind, frame, family, version].        *)
(* held: [frames, families]; the domain is claimed for every row or for none.  *)
NoEvidence == [frames |-> {}, families |-> {}]

BundleRecord(r) ==
    /\ UNCHANGED keys
    /\ r.kind = "VER" => r.version = "4.5.5"
    /\ r.kind = "MSG" /\ declared = "air" /\ r.family # Absent =>
          r.family = "ArduCopter" /\ r.version = "4.5.5"
    /\ Hold([frames   |-> held.frames \cup
                (IF r.kind = "PARM" /\ declared \in {"surface", "ground"} THEN {r.frame} ELSE {}),
             families |-> held.families \cup
                (IF r.kind = "VER" /\ declared \in {"ground", "air"} THEN {r.family} ELSE {})])
    /\ Cardinality(held'.frames) <= 1
    /\ Carry([row |-> Here, kind |-> r.kind, domain |-> Absent])

DomainShown ==
    CASE declared = "surface" -> held.frames = {2}
      [] declared = "ground"  -> held.frames = {1} /\ held.families = {"ArduRover"}
      [] declared = "air"     -> held.families = {"ArduCopter"}
      [] OTHER                -> FALSE

BundleEnd ==
    /\ Ending /\ UNCHANGED passed
    /\ lines' = [i \in DOMAIN lines |->
                    [lines[i] EXCEPT !.domain = IF DomainShown THEN declared ELSE Absent]]

(* convert_quadplane_context: a record: [kind, time, value], kind "PARM"       *)
(* (Q_ENABLE), "MODE" or another.  Each mode gets the parameter group of the   *)
(* latest time not after its own; at the same time the order is not known.     *)
QuadplaneRecord(r) ==
    /\ InTimeOrder(r) /\ Plain
    /\ \/ r.kind # "MODE" /\ PassOver(r.kind)
       \/ r.kind = "MODE" /\ Carry([row |-> Here, time |-> r.time, status |-> Absent, value |-> Absent])

Context(time) ==
    LET settings == {i \in DOMAIN fed : fed[i].kind = "PARM" /\ fed[i].time <= time}
        latest == {i \in settings : \A j \in settings : fed[j].time <= fed[i].time}
        values == {fed[i].value : i \in latest}
        says(status, value) == [status |-> status, value |-> value]
    IN CASE latest = {} -> says("no prior parameter", Absent)
         [] \E i \in latest : fed[i].time = time -> says("same time", Absent)
         [] latest # {} /\ (\A i \in latest : fed[i].time < time) /\ Cardinality(values) > 1 ->
               says("conflicting", Absent)
         [] OTHER -> says("latest prior", CHOOSE v \in values : TRUE)

QuadplaneEnd ==
    /\ Ending /\ lines # <<>> /\ UNCHANGED passed
    /\ lines' = [i \in DOMAIN lines |->
                    LET context == Context(lines[i].time)
                    IN [lines[i] EXCEPT !.status = context.status, !.value = context.value]]
=============================================================================
