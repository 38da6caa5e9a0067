---------------------------- MODULE SavedFleets ----------------------------
(***************************************************************************)
(* Converters of fleet, plant and asset records: VDA 5050 load reports and *)
(* factsheets, RMF text messages put together from WebSocket frames, OPC   *)
(* UA values, SensorThings pages and their chain, AEMP machine hours.      *)
(***************************************************************************)
EXTENDS SavedLines

(* convert_vda_load_report: a row: [kind, version, qualified, identity, loads],*)
(* identity the set of its identity cells as "agrees", "blank" or "differs";   *)
(* loads Absent, or a sequence of load identities, Absent where none is given. *)
LoadIdentification(id) ==
    IF id = Absent THEN "no id" ELSE IF id = "" THEN "unidentified" ELSE "identified"

IdentityBasis(cells) ==
    IF "blank" \notin cells THEN "checked"
    ELSE IF cells = {"blank"} THEN "not supplied" ELSE "checked, except blank"

LoadReport(r) ==
    /\ Plain
    /\ \/ r.kind = "detail" /\ PassOver("detail")
       \/ /\ r.kind = "summary" /\ r.qualified /\ r.version = "selected" /\ "differs" \notin r.identity
          /\ CarryEach(LET says(report, id) ==
                               [report |-> report, id |-> id, basis |-> IdentityBasis(r.identity)]
                       IN IF r.loads = Absent THEN <<says("absent", "")>>
                          ELSE IF r.loads = <<>> THEN <<says("empty", "")>>
                          ELSE [i \in DOMAIN r.loads |-> says("reported", LoadIdentification(r.loads[i]))])

(* With state_context the context columns of the CSV must be what the record   *)
(* in the same row says; every row produced from it carries them.              *)
LoadReportInContext(r) == LoadReport(r) /\ (r.kind = "summary" => r.context = "agrees")

(* convert_vda_factsheet_limits.convert, one record: [limits, geometry]; limits*)
(* Absent, or [timing, lengths]: timing maps each of the times to a value or   *)
(* Absent, lengths maps a limit to a number or Absent; geometry is Absent or   *)
(* the number of 3D envelopes.                                                 *)
RequiredTimes == {"minimumStateInterval", "minimumOrderInterval"}
OptionalTimes == {"defaultStateInterval", "visualizationInterval"}

TimingSays(key, value) ==
    CASE value # Absent                                  -> "reported interval"
      [] value = Absent /\ key = "defaultStateInterval"  -> "documented default, not applied"
      [] OTHER                                           -> "unspecified"

LengthSays(value) == IF value = Absent \/ value = 0 THEN "no explicit limit" ELSE "reported maximum"

LimitsSay(limits) ==
    IF limits = Absent THEN <<"protocol limits absent">>
    ELSE [i \in DOMAIN limits.lengths |-> LengthSays(limits.lengths[i])]
         \o SetToSeq({<<k, TimingSays(k, limits.timing[k])>> : k \in DOMAIN limits.timing})

EnvelopesSay(envelopes) ==
    CASE envelopes = Absent -> <<"absent">>
      [] envelopes = 0      -> <<"empty declared list">>
      [] OTHER              -> [i \in 1..envelopes |-> "not interpreted"]

FactsheetLimits(r) ==
    /\ r.limits # Absent => \A k \in RequiredTimes : r.limits.timing[k] # Absent
    /\ CarryEach(LimitsSay(r.limits) \o EnvelopesSay(r.envelopes)) /\ Plain

(* convert_capabilities: declared is whether the caller takes the maximum      *)
(* speed of a load as the text of the standard has it; a record: [kinematics,  *)
(* actions, sets, configuration]: the spellings of one key, the actions as     *)
(* pairs of whether pausing is there and how it is written, the load sets as   *)
(* whether they have a speed and a box, the spellings of batteryCharging.      *)
TextLeaf(there)   == IF there THEN "reported" ELSE "absent"
TextList(items)   == IF items = Absent THEN <<"absent">>
                     ELSE IF items = <<>> THEN <<"empty declared list">>
                     ELSE [i \in DOMAIN items |-> "reported"]
TruthSays(value)  == CASE value = Absent -> "absent"
                       [] value = "text" -> "reported, string form"
                       [] OTHER          -> "reported"

LoadSetSays(set) ==
    <<IF ~set.speed THEN "absent" ELSE IF declared THEN "reported" ELSE "unit conflict",
      TextLeaf(set.box # {}), TextLeaf("theta" \in set.box)>>

ConfigurationSays(c) ==
    IF c = Absent THEN <<"absent">>
    ELSE <<IF c = {} THEN "absent"
           ELSE IF c = {"batteryCharging "} THEN "reported under the schema spelling" ELSE "reported">>

Capabilities(r) ==
    /\ Cardinality(r.kinematics) = 1
    /\ \A i \in DOMAIN r.actions : r.actions[i] # Absent
    /\ \A i \in DOMAIN r.sets : r.sets[i].box # {} => {"x", "y", "z"} \subseteq r.sets[i].box
    /\ r.configuration # Absent => Cardinality(r.configuration) <= 1
    /\ CarryEach(TextList(r.positions) \o [i \in DOMAIN r.actions |-> TruthSays(r.actions[i])]
                 \o FlattenSeq([i \in DOMAIN r.sets |-> LoadSetSays(r.sets[i])])
                 \o ConfigurationSays(r.configuration))
    /\ Plain

-----------------------------------------------------------------------------
(* convert_rmf_websocket_recorded: a frame: [op, final], op "text", "more" or  *)
(* "control".  declared: the messages selected by their position.  held: the   *)
(* frames of the message being put together, or Absent.                        *)
Message(frames) == [row |-> Here, index |-> Len(lines) + Len(SelectSeq(passed, LAMBDA p : p.why # "control")),
                    frames |-> Append(frames, Here)]

GoesOn(r) == IF r.op = "more" THEN held # Absent ELSE held = Absent

SocketFrame(r) ==
    /\ UNCHANGED keys
    /\ \/ r.op = "control" /\ r.final /\ PassOver("control") /\ UNCHANGED held
       \/ LET frames == IF held = Absent THEN <<>> ELSE held
              message == Message(frames)
          IN /\ r.op # "control" /\ GoesOn(r)
             /\ IF ~r.final THEN Keeping /\ Hold(Append(frames, Here))
                ELSE /\ Hold(Absent)
                     /\ IF message.index \in declared THEN Carry(message) ELSE PassOver("not selected")

SocketEnd ==
    /\ Ending /\ Keeping /\ held = Absent
    /\ \A index \in declared : index < Len(lines) + Cardinality({i \in DOMAIN passed : passed[i].why = "not selected"})

(* convert_odrive_iq: a frame: [id, bytes, setpoint]; declared: the frame id.  *)
OdriveIq(r) ==
    /\ Plain
    /\ \/ r.id # declared /\ PassOver("unselected node or command")
       \/ /\ r.id = declared /\ r.bytes = 8
          /\ Carry([row |-> Here, says |-> IF r.setpoint = 0 THEN "zero or not in that mode" ELSE "reported"])

-----------------------------------------------------------------------------
(* convert_opcua_recorded.convert.  declared: "scalar", "array" or "matrix"; a *)
(* record: [time, node, values, dimensions, code, stamp, pico].  A status other*)
(* than 0 withholds the value; picoseconds need the time they belong to.       *)
OpcuaShape(r) ==
    CASE declared = "matrix" -> r.dimensions # Absent /\ r.dimensions[1] * r.dimensions[2] = Len(r.values)
                                                      /\ 0 < r.dimensions[1] /\ 0 < r.dimensions[2]
      [] declared = "array"  -> r.dimensions = Absent
      [] OTHER               -> r.dimensions = Absent /\ Len(r.values) = 1

OpcuaCell(r, index) ==
    [says |-> IF r.code = 0 THEN "normalized" ELSE "withheld",
     at   |-> IF declared = "matrix" THEN <<(index - 1) \div r.dimensions[2], (index - 1) % r.dimensions[2]>>
              ELSE <<index - 1>>]

OpcuaValue(r) ==
    /\ InTimeOrder(r) /\ r.node = "selected" /\ OpcuaShape(r) /\ (r.pico # 0 => r.stamp) /\ Plain
    /\ CarryEach(IF r.values = <<>> THEN <<[says |-> "empty array", at |-> Absent]>>
                 ELSE [i \in DOMAIN r.values |-> OpcuaCell(r, i)])

OpcuaEnd == Ending /\ Keeping

(* convert_sensorthings: an observation: [id, start, stop, result], the start  *)
(* and stop of a period, stop Absent for an instant.                           *)
PeriodOk(r) == r.stop # Absent => r.start <= r.stop

ObservationSays(r) == IF r.result = Absent THEN "null, not provided" ELSE "reported"

Observation(r) ==
    /\ PeriodOk(r) /\ KeepKey(r.id) /\ UNCHANGED held
    /\ Carry([row |-> Here, says |-> ObservationSays(r)])

(* sensorthings_saved_pages: a page: [url, next, observations]: each page's    *)
(* link is the url of the next one; an identity may come again on a later page *)
(* and is marked.  keys: the urls; held: the identities seen.                  *)
Linked(r) == fed # <<>> => Last(fed).next = r.url

Identities(page) == {page.observations[i].id : i \in DOMAIN page.observations}

SavedPage(r) ==
    /\ KeepKey(r.url) /\ Linked(r)
    /\ Cardinality(Identities(r)) = Len(r.observations)
    /\ \A i \in DOMAIN r.observations : PeriodOk(r.observations[i])
    /\ Hold(held \cup Identities(r))
    /\ IF r.observations = <<>> THEN PassOver("empty page")
       ELSE CarryEach([i \in DOMAIN r.observations |->
                           [says  |-> ObservationSays(r.observations[i]),
                            again |-> r.observations[i].id \in held]])

SavedPagesEnd ==
    /\ Ending /\ fed # <<>> /\ UNCHANGED passed
    /\ lines' = [i \in DOMAIN lines |-> [line |-> lines[i], chain |-> IF Last(fed).next = Absent THEN "terminal" ELSE "not followed"]]

-----------------------------------------------------------------------------
(* convert_aemp_hours and aemp_fleet_records.  declared: "snapshot" of a fleet,*)
(* or the "page" of one machine; a node: [kind, headers, hours], headers and   *)
(* hours how many of those elements an equipment has, hours a number there.    *)
FleetNode(r) ==
    /\ declared = "snapshot" /\ r.kind = "equipment" /\ r.headers = 1 /\ Len(r.hours) <= 1
    /\ Carry([row |-> Here, hours |-> IF r.hours = <<>> THEN "not reported" ELSE "reported"])
    /\ UNCHANGED keys

HoursNode(r) ==
    /\ UNCHANGED held
    /\ \/ r.kind = "links" /\ keys' = keys \cup {Here} /\ PassOver("link")
       \/ r.kind = "other" /\ PassOver("unsupported") /\ UNCHANGED keys
       \/ FleetNode(r)
       \/ /\ declared = "page" /\ r.kind = "equipment" /\ Len(r.hours) = 1 /\ UNCHANGED keys
          /\ Carry([row |-> Here, hours |-> "reported"])

HoursEnd == EndCarried /\ keys # {}

-----------------------------------------------------------------------------
(* A message is a text frame, the continuations of it and nothing else but     *)
(* control frames in between, up to the first frame that is final.             *)
MessagesAreWhole ==
    converter = "rmf websocket" =>
        \A i \in DOMAIN lines :
            LET frames == lines[i].frames
                first  == frames[1]
            IN /\ fed[first].op = "text"
               /\ \A n \in first..Last(frames) :
                     IF \E k \in DOMAIN frames : frames[k] = n
                     THEN (fed[n].op = "text" <=> n = first) /\ (fed[n].final <=> n = Last(frames))
                     ELSE fed[n].op = "control"

(* The pages of a chain are the ones the links name, in that order, and an     *)
(* identity is marked as coming again exactly when an earlier page has it.     *)
ChainIsFollowed ==
    converter = "sensorthings pages" /\ verdict = "converted" =>
        /\ \A n \in 1..(Len(fed) - 1) : fed[n].next = fed[n + 1].url
        /\ \A i \in DOMAIN lines :
              LET line == lines[i].line
                  id == fed[line.row].observations[line.part].id
              IN line.is.again <=> \E n \in 1..(line.row - 1) : id \in Identities(fed[n])
=============================================================================
