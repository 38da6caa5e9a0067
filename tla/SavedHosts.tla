----------------------------- MODULE SavedHosts -----------------------------
(***************************************************************************)
(* Converters of what hosts, services and models logged or answered: audit *)
(* events, journals, token errors, MQTT messages, resources and storage,   *)
(* engine layers, display connectors, link cues and language model output. *)
(***************************************************************************)
EXTENDS SavedLines

(* convert_k8s_audit_events.  declared: [clock, list]; clock names the time    *)
(* field that becomes record_time_us.  An event: [type, id, stage, times];     *)
(* type is "own", "other" or Absent, times a function of the two time fields.  *)
AuditTyped(r) == r.type = "own" \/ (r.type = Absent /\ declared.list)

AuditEvent(r) ==
    /\ AuditTyped(r) /\ r.times[declared.clock] # Absent
    /\ KeepKey(<<r.id, r.stage>>) /\ UNCHANGED held
    /\ Carry([row |-> Here, id |-> <<r.id, r.stage>>, time |-> r.times[declared.clock],
              typed |-> IF r.type = Absent THEN "envelope" ELSE "record",
              supported |-> r.stage \in {"RequestReceived", "ResponseComplete"}])

(* convert_journal_storage_errors.  declared: [clock]; an entry: [cursor,      *)
(* errno, truncatedCore, times].  held counts what the sidecar preserves.      *)
ErrnoClass(r) == CASE r.errno = Absent -> "truncated core" [] r.errno = "EIO" -> "storage"
                   [] OTHER -> "unrecognised"

StorageError(r) ==
    /\ IF r.cursor = Absent THEN UNCHANGED keys ELSE KeepKey(r.cursor)
    /\ \/ r.errno = Absent /\ ~r.truncatedCore /\ PassOver("no ERRNO") /\ UNCHANGED held
       \/ /\ r.errno # Absent \/ r.truncatedCore
          /\ r.times[declared.clock] # Absent
          /\ Carry([row |-> Here, id |-> r.cursor, class |-> ErrnoClass(r),
                    time |-> r.times[declared.clock]])
          /\ Hold(Append(held, Here))

(* convert_journal_power_thermal.  declared: [clock, ups]; an entry: [message, *)
(* transport, comm, times]; message is Absent, "unreadable", "other", or names *)
(* the assertion classify finds in it.                                         *)
Classify(r) ==
    CASE r.message = "on battery" /\ declared.ups -> "UPS"
      [] r.message \in {"undervoltage", "overheated"} -> "KERNEL"
      [] OTHER -> Absent

ReadableMessage(r) == r.message \notin {Absent, "unreadable"}

PowerThermal(r) ==
    /\ Plain
    /\ \/ ~ReadableMessage(r) /\ PassOver(IF r.message = Absent THEN "absent" ELSE "unreadable")
       \/ ReadableMessage(r) /\ Classify(r) = Absent /\ PassOver("no assertion")
       \/ Classify(r) = "KERNEL" /\ r.transport # "kernel" /\ PassOver("not kernel")
       \/ Classify(r) = "UPS" /\ r.comm # "upsmon" /\ PassOver("not upsmon")
       \/ /\ Classify(r) = "KERNEL" => r.transport = "kernel"
          /\ Classify(r) = "UPS" => r.comm = "upsmon"
          /\ Classify(r) # Absent /\ r.times[declared.clock] # Absent
          /\ Carry([row |-> Here, origin |-> Classify(r), time |-> r.times[declared.clock]])

(* convert_oauth_error_responses.  declared: [role, grant, entry]: one entry   *)
(* of the saved HTTP archive is converted.  An entry: [status, body, params]:  *)
(* body is the error of a JSON body, params the error parameters of a Bearer   *)
(* challenge in their order.                                                   *)
DefinedErrors == [token |-> {"invalid_grant"}, resource |-> {"invalid_token"}]

RoleAgrees == (declared.role = "token") <=> (declared.grant # Absent)

(* bearer_challenge_params: a parameter given twice refuses the challenge. *)
ChallengeError(params) ==
    IF params = <<>> THEN Absent ELSE params[1]

ReportedError(r) == IF declared.role = "token" THEN r.body ELSE ChallengeError(r.params)

Registered(error) ==
    CASE error = Absent -> "no error code"
      [] error \in DefinedErrors[declared.role] -> "defined"
      [] OTHER -> IF \E role \in DOMAIN DefinedErrors : error \in DefinedErrors[role]
                  THEN "other role" ELSE "unregistered"

SavedRejection(r) ==
    /\ RoleAgrees /\ Plain
    /\ \/ Here # declared.entry /\ PassOver("unselected")
       \/ /\ Here = declared.entry /\ r.status \in 400..599
          /\ declared.role = "resource" => Len(r.params) <= 1
          /\ Carry([row |-> Here, error |-> ReportedError(r), registered |-> Registered(ReportedError(r))])

-----------------------------------------------------------------------------
(* convert_mqtt_recorded.  declared: [topic]; a message: [topic, time, qos,    *)
(* mid, parts], parts the rows its payload format gives for the payload.       *)
(* Only the first row of a message carries its source.                         *)
Identified(r) == r.qos > 0 => r.mid \in 1..65535

MqttMessage(r) ==
    /\ r.topic = declared.topic /\ InTimeOrder(r) /\ Identified(r)
    /\ r.parts # <<>>
    /\ CarryAll([i \in DOMAIN r.parts |-> [row |-> Here, part |-> i, time |-> r.time, source |-> i = 1]])
    /\ Plain

(* dock_row: a dock state without the mode, or with aircraft batteries, is no  *)
(* dock state.                                                                 *)
DockState(r) == /\ r.topic = declared.topic /\ InTimeOrder(r) /\ r.mode # Absent /\ ~r.batteries
                /\ Carry([row |-> Here, time |-> r.time, mode |-> r.mode]) /\ Plain

(* convert_mqtt_publish_packets: a file of PUBLISH packets.  declared:         *)
(* [selected, window]; a packet: [qos, dup, mid].  held: packets with details. *)
Publish(r) ==
    /\ r.qos = 0 => ~r.dup
    /\ r.qos > 0 => r.mid # 0
    /\ Hold(IF ~declared.window \/ Here \in declared.selected THEN held \cup {Here} ELSE held)
    /\ UNCHANGED keys
    /\ \/ Here \in declared.selected /\ Carry([row |-> Here])
       \/ Here \notin declared.selected /\ PassOver("unselected")

PublishEnd == EndCarried /\ declared.selected \subseteq DOMAIN fed

(* convert_blueos_resources: an item: [kind, total, used]; total and used are  *)
(* those of "ram" or "swap", Absent for the other kinds.                       *)
MemoryRatio(r) ==
    CASE Absent \in {r.total, r.used} -> "missing quantity"
      [] r.total = 0 /\ r.used = 0 -> "zero total"
      [] OTHER -> "ratio"

ResourceItem(r) ==
    /\ Absent \notin {r.total, r.used} => r.used <= r.total
    /\ Carry([row |-> Here, kind |-> r.kind, ratio |-> IF r.kind = "memory" THEN MemoryRatio(r) ELSE Absent])
    /\ Plain

(* convert_saved_storage_state: a record: [time, mounts, passed, bits]; mounts *)
(* is the sequence of the access modes of its partitions, Absent for SMART.    *)
MountAccess(modes) ==
    CASE modes = {} -> "unknown" [] modes = {"ro", "rw"} -> "ambiguous"
      [] OTHER -> CHOOSE m \in modes : TRUE

SmartHealth(r) == CASE r.passed = Absent -> "unknown" [] r.passed = TRUE -> "passed" [] OTHER -> "failed"

StorageState(r) ==
    /\ InTimeOrder(r) /\ Plain
    /\ \/ /\ r.mounts \notin {Absent, <<>>}
          /\ CarryAll([i \in DOMAIN r.mounts |->
                [row |-> Here, part |-> i, time |-> r.time, report |-> MountAccess(r.mounts[i])]])
       \/ r.mounts = <<>> /\ Carry([row |-> Here, time |-> r.time, report |-> "empty mount list"])
       \/ /\ r.mounts = Absent
          /\ r.passed # Absent => (r.passed <=> r.bits = {})
          /\ Carry([row |-> Here, time |-> r.time, report |-> SmartHealth(r)])

-----------------------------------------------------------------------------
(* convert_tensorrt_layerinfo.  declared: [changed, bindings]; changed when    *)
(* the file's status differs after it was read.  A layer: [inputs, outputs,    *)
(* constants]; held is child_records.  MaxChildren stands for 65536.           *)
MaxChildren == 4

EngineLayer(r) ==
    LET children == r.inputs + r.outputs + r.constants
        kinds == <<"LAYER">> \o [i \in 1..r.inputs |-> "INPUT"] \o [i \in 1..r.outputs |-> "OUTPUT"]
                 \o [i \in 1..r.constants |-> "CONSTANT"]
    IN /\ ~declared.changed /\ held + children <= MaxChildren
       /\ Hold(held + children) /\ CarryEach(kinds) /\ UNCHANGED keys

EngineEnd == /\ Ending /\ ~declared.changed /\ held + declared.bindings <= MaxChildren
             /\ CarryAll([i \in 1..declared.bindings |-> [row |-> Absent, part |-> i, is |-> "BINDING"]])

(* convert_drm_connector_report: a connector: [node, id, properties, value,    *)
(* raw, labels]; properties is Absent, "others" or "link-status".              *)
LinkStatus(value) == CASE value = 0 -> "good" [] value = 1 -> "bad" [] OTHER -> "unknown value"

Connector(r) ==
    /\ KeepKey(<<r.node, r.id>>) /\ UNCHANGED held
    /\ \/ r.properties # "link-status"
          /\ Carry([row |-> Here, id |-> <<r.node, r.id>>, state |-> "unknown",
                    disposition |-> IF r.properties = Absent THEN "unavailable" ELSE "not reported"])
       \/ /\ r.properties = "link-status" /\ r.value = r.raw /\ r.labels = <<"Good", "Bad">>
          /\ Carry([row |-> Here, id |-> <<r.node, r.id>>, state |-> LinkStatus(r.value),
                    disposition |-> "reported"])

(* convert_link_cue_fields.  declared: the mapped targets (a target is mapped  *)
(* once); a row: the set of targets with a reading.  held counts, per target,  *)
(* the readings carried and those unavailable.                                 *)
CueRow(r) ==
    /\ declared # {}
    /\ Hold([t \in declared |-> [carried |-> held[t].carried + (IF t \in r THEN 1 ELSE 0),
                                 unavailable |-> held[t].unavailable + (IF t \in r THEN 0 ELSE 1)]])
    /\ Carry([row |-> Here, present |-> declared \cap r]) /\ UNCHANGED keys

(* convert_vlm_response: an output item: [kind, role, parts]; parts are "text" *)
(* and "refusal".  Every row states the number of unhandled items, known only  *)
(* when all items are read.                                                    *)
ResponseItem(r) ==
    /\ Plain
    /\ \/ r.kind # "message" /\ PassOver("unhandled")
       \/ /\ r.kind = "message" /\ r.role = "assistant"
          /\ CarryAll([i \in DOMAIN r.parts |->
                [row |-> Here, part |-> i, of |-> Len(r.parts), assertion |-> r.parts[i], unhandled |-> Absent]])

ResponseEnd == /\ Ending /\ lines # <<>>
               /\ lines' = [i \in DOMAIN lines |-> [lines[i] EXCEPT !.unhandled = Len(passed)]]
               /\ UNCHANGED passed

-----------------------------------------------------------------------------
(* Every record read is carried or counted, never both (the disposition of a   *)
(* row and the report's counts); the unhandled items of a VLM response may     *)
(* also be messages without a part, which are neither.                         *)
RecordsAreAccounted ==
    LET carried == {lines[i].row : i \in DOMAIN lines}
        counted == {passed[i].row : i \in DOMAIN passed}
    IN converter \in {"k8s audit events", "journal storage errors", "journal power thermal",
                      "oauth rejection", "mqtt", "mqtt dock", "mqtt packets", "blueos resources",
                      "storage state", "tensorrt layers", "drm connectors", "link cues",
                      "vlm response"}
       => /\ carried \cap counted = {}
          /\ converter # "vlm response" => (carried \cup counted) \ {Absent} = DOMAIN fed
=============================================================================
