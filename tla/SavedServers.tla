---------------------------- MODULE SavedServers ----------------------------
(***************************************************************************)
(* Converters of what servers and gateways answered: SensorThings data     *)
(* arrays, ONVIF responses, Signal K deltas and logs, gRPC message streams,*)
(* dashboard states.                                                       *)
(***************************************************************************)
EXTENDS SavedLines

(* convert_sensorthings_dataarray: a group: [here, ids], here whether its link *)
(* is the selected stream's.  declared: [start, stop], the window of native    *)
(* row numbers, which go on over the groups, or Absent.  held: the number of   *)
(* native rows before this group.                                              *)
Clamp(n, size) == IF n < 0 THEN 0 ELSE IF n > size THEN size ELSE n

GroupWindow(r) ==
    IF declared = Absent THEN <<0, Len(r.ids)>>
    ELSE <<Clamp(declared.start - held, Len(r.ids)), Clamp(declared.stop - held, Len(r.ids))>>

ArrayGroup(r) ==
    /\ Hold(held + Len(r.ids))
    /\ \/ ~r.here /\ PassOver("excluded") /\ UNCHANGED keys
       \/ LET left == GroupWindow(r)[1]
              right == GroupWindow(r)[2]
              seen(n) == keys \cup {r.ids[k] : k \in (left + 1)..n}
          IN /\ r.here /\ UNCHANGED passed
             /\ Cardinality({r.ids[n] : n \in (left + 1)..right}) = right - left
             /\ lines' = lines \o [i \in 1..(right - left) |->
                    [row |-> Here, native |-> held + left + i - 1, id |-> r.ids[left + i],
                     again |-> r.ids[left + i] \in keys]]
             /\ keys' = seen(right)

ArrayEnd ==
    /\ Ending /\ Keeping
    /\ \E i \in DOMAIN fed : fed[i].here
    /\ declared # Absent => declared.stop <= held

(* convert_onvif_recording_job: the job is a record, then each source and each *)
(* of its tracks: [kind, state, error].                                        *)
TrackSays(state, error) ==
    [error  |-> IF state \in {"Idle", "Active", "Error"} THEN (IF state = "Error" THEN 1 ELSE 0) ELSE Absent,
     text   |-> IF error = Absent THEN "not reported" ELSE IF error = "" THEN "empty" ELSE "reported"]

JobPart(r) ==
    /\ CASE r.kind = "job"    -> fed = <<>>
         [] r.kind = "source" -> fed # <<>>
         [] OTHER             -> fed # <<>> /\ Last(fed).kind # "job"
    /\ Plain
    /\ Carry([row |-> Here, says |-> IF r.kind = "track" THEN TrackSays(r.state, r.error) ELSE "aggregate"])

JobEnd == EndCarried

(* convert_onvif_imaging_settings: one response: [exposure, mode, values].     *)
ImagingSettings(r) ==
    /\ r.exposure => r.mode # Absent
    /\ Plain
    /\ Carry([row |-> Here, values |-> IF r.exposure THEN r.values ELSE {},
              says |-> CASE ~r.exposure -> "not reported"
                         [] r.exposure /\ r.mode \in {"AUTO", "MANUAL"} -> "known"
                         [] OTHER -> "unknown mode"])

(* convert_signalk_recorded._convert and convert_path.  declared: [log, start, *)
(* stop]: whether the records are lines of a server log, and the part of a log *)
(* that is read; a record: [context, text, time, paths], a path "supported" or *)
(* "other", its value negative or not.                                         *)
SignalkInWindow == ~declared.log \/ (declared.start <= Len(fed) /\ Len(fed) < declared.stop)

SignalkRecord(r) ==
    /\ Plain
    /\ \/ ~SignalkInWindow /\ PassOver("outside window")
       \/ SignalkInWindow /\ declared.log /\ r.text /\ PassOver("provider text")
       \/ /\ SignalkInWindow /\ declared.log /\ ~r.text /\ r.context = "other"
          /\ PassOver("unselected context")
       \/ LET ours == SelectSeq(r.paths, LAMBDA p : p.path = "supported")
          IN /\ SignalkInWindow /\ ~r.text /\ r.context = "selected"
             /\ \A i \in DOMAIN ours : ours[i].value # Absent => ours[i].value >= 0
             /\ ours # <<>> /\ lines # <<>> => r.time >= Last(lines).time
             /\ CarryAll([i \in DOMAIN ours |-> [row |-> Here, time |-> r.time, says |-> ours[i].value]])

SignalkEnd == EndCarried /\ (declared.log => declared.stop <= Len(fed))

(* convert_mavsdk_grpc_sequence: a message: [compressed, whole, size], framed  *)
(* by its length; declared is whether gzip is; held: the offset of the next.   *)
GrpcMessage(r) ==
    /\ r.compressed => declared /\ r.whole
    /\ Carry([row |-> Here, offset |-> held, size |-> r.size])
    /\ Hold(held + r.size) /\ UNCHANGED keys

(* convert_robotnik_dashboard_state: a record: [code, table, text, frequency]. *)
(* The two tables the producer describes a code by say UNKNOWN for the codes   *)
(* they do not list, 700 among them, which has a name all the same.            *)
Described == {"INIT", "READY"}
Named == Described \cup {"700"}

DescriptionOf(code) == IF code \in Described THEN code ELSE "UNKNOWN"

DashboardState(r) ==
    /\ Plain
    /\ Carry([row |-> Here, name |-> IF r.code \in Named THEN "known" ELSE "unknown",
              agrees |-> CASE r.table = Absent -> "not a producer name"
                           [] r.table # Absent /\ r.text = DescriptionOf(r.code) -> "matches code"
                           [] OTHER -> "disagrees with code",
              frequency |-> IF r.frequency > 0 THEN "reported" ELSE "not positive"])

-----------------------------------------------------------------------------
(* The rows of a data array are exactly the native rows of the selected stream *)
(* in the declared window, each once and under its own native number.          *)
ArrayWindowIsExact ==
    converter = "sensorthings dataarray" =>
        LET before(g) == TotalOf([n \in 1..(g - 1) |-> Len(fed[n].ids)])
            inside(n) == declared = Absent \/ (declared.start <= n /\ n < declared.stop)
            natives == UNION {{<<before(g) + k - 1, fed[g].ids[k]>> : k \in DOMAIN fed[g].ids} :
                                 g \in {g \in DOMAIN fed : fed[g].here}}
        IN /\ {<<lines[i].native, lines[i].id>> : i \in DOMAIN lines} = {p \in natives : inside(p[1])}
           /\ \A i, j \in DOMAIN lines : i < j => lines[i].native < lines[j].native
=============================================================================
