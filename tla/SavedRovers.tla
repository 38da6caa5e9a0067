---------------------------- MODULE SavedRovers ----------------------------
(***************************************************************************)
(* Converters of what autopilots and vehicle fleets recorded: battery and  *)
(* mode tables, controller reports, IMU batches, VDA 5050 and fleet states *)
(* and the ArduSub sessions cut out of a longer log.                       *)
(***************************************************************************)
EXTENDS SavedLines

(* The records a converter does not select are outside its time order. *)
AfterLastLine(r) == lines # <<>> => r.time >= Last(lines).time

-----------------------------------------------------------------------------
(* convert_ardupilot_battery_csv.  declared: "px4" or "ardupilot"; a row:      *)
(* [time, volt, current, remaining]; each format has its own numbers for "not  *)
(* measured".                                                                  *)
NotMeasured == [px4       |-> [volt |-> 0, current |-> -1, remaining |-> -1],
                ardupilot |-> [volt |-> -1, current |-> Absent, remaining |-> 255]]

Measured(r, name) == IF r[name] = NotMeasured[declared][name] THEN Absent ELSE r[name]

BatteryRow(r) ==
    LET volt == Measured(r, "volt")
        current == Measured(r, "current")
    IN /\ InTimeOrder(r) /\ r.volt >= 0 /\ Plain
       /\ Carry([row |-> Here, time |-> r.time, volt |-> volt, current |-> current,
                 power |-> IF Absent \in {volt, current} THEN Absent ELSE volt * current,
                 remaining |-> Measured(r, "remaining")])

(* convert_json: a saved JSON line per record.  declared: [actions, errors,    *)
(* repeats]; a record: [time, values, actions, errors], the rows its format    *)
(* gives.  The source is kept once per record unless the format repeats it.    *)
JsonRecord(r) ==
    LET rows(kind, n) == [i \in 1..n |-> [row |-> Here, time |-> r.time, kind |-> kind,
                             source |-> kind = "SUMMARY" /\ (i = 1 \/ declared.repeats)]]
    IN /\ InTimeOrder(r) /\ Plain
       /\ CarryAll(rows("SUMMARY", r.values)
                   \o rows("ACTION", IF declared.actions THEN r.actions ELSE 0)
                   \o rows("ERROR", IF declared.errors THEN r.errors ELSE 0))

(* vda_reported_state: [time, old, agvPosition, mobilePosition, localized,     *)
(* score, actions]; a position counts when it is localized with a score other  *)
(* than 0, and the name of another protocol generation refuses the record.     *)
VdaKnown(old) == IF old THEN {"RUNNING"} ELSE {"RUNNING", "RETRIABLE"}

VdaPosition(r) ==
    CASE ~(r.agvPosition \/ r.mobilePosition) -> "not reported"
      [] (r.agvPosition \/ r.mobilePosition) /\ r.localized /\ r.score # 0 -> "reported"
      [] OTHER -> "unavailable"

VdaState(r) ==
    /\ InTimeOrder(r) /\ Plain
    /\ IF r.old THEN ~r.mobilePosition ELSE ~r.agvPosition
    /\ Carry([row |-> Here, time |-> r.time, position |-> VdaPosition(r),
              unknown |-> Len(SelectSeq(r.actions, LAMBDA a : a \notin VdaKnown(r.old))),
              running |-> Len(SelectSeq(r.actions, LAMBDA a : a = "RUNNING"))])

(* rmf_web_quantities: [time, robots]: the sequence of the robots' battery     *)
(* fractions.  An empty or absent fleet still has its one snapshot row.        *)
RmfSnapshot(r) ==
    /\ InTimeOrder(r) /\ Plain
    /\ \/ /\ r.robots \notin {Absent, <<>>}
          /\ CarryAll([i \in DOMAIN r.robots |-> [row |-> Here, part |-> i, time |-> r.time,
                                                  battery |-> r.robots[i], fleet |-> "robots"]])
       \/ /\ r.robots \in {Absent, <<>>}
          /\ Carry([row |-> Here, part |-> 0, time |-> r.time, battery |-> Absent,
                    fleet |-> IF r.robots = <<>> THEN "empty" ELSE "unavailable"])

(* tegrastats_quantities: the words of one report: [kind, name, used, total,   *)
(* parts]; each section is there once, each block and rail named once.  Every  *)
(* row states how many words were left over.                                   *)
TegraWord(r) ==
    \/ r.kind = "other" /\ PassOver("unselected") /\ Plain
    \/ /\ r.kind # "other" /\ KeepKey(<<r.kind, r.name>>) /\ UNCHANGED held
       /\ r.kind = "RAM" => r.total > 0 /\ r.used <= r.total
       /\ CarryAll([i \in 1..r.parts |-> [row |-> Here, part |-> i, unselected |-> Absent]])

TegraEnd == /\ Ending /\ lines # <<>>
            /\ lines' = [i \in DOMAIN lines |-> [lines[i] EXCEPT !.unselected = Len(passed)]]
            /\ UNCHANGED passed

-----------------------------------------------------------------------------
(* convert_ardupilot_mode_csv.  declared: [record, family, version]; a mode    *)
(* row: [time, mode, alias], a version row: [time, numbers, logged, family,    *)
(* custom], logged and family what its firmware string says.                   *)
VersionAgrees(r) ==
    /\ r.logged = r.numbers
    /\ r.family \in {declared.family, "unknown"}
    /\ r.family # "unknown" /\ declared.version # Absent => r.logged = declared.version

ModeRow(r) ==
    /\ InTimeOrder(r) /\ Plain
    /\ \/ declared.record = "mode" /\ r.mode = r.alias /\ Carry([row |-> Here, time |-> r.time, says |-> r.mode])
       \/ /\ declared.record = "ver" /\ r.custom
          /\ Carry([row |-> Here, time |-> r.time, says |-> "custom firmware"])
       \/ /\ declared.record = "ver" /\ ~r.custom /\ VersionAgrees(r)
          /\ Carry([row |-> Here, time |-> r.time,
                    says |-> IF r.family = "unknown" THEN "unknown family" ELSE "agrees"])

(* convert_ardupilot_safety_reports.  declared: whether the vehicle's reason   *)
(* table is qualified; a row: [reason]; nothing is read into a reason without. *)
ReasonClass(reason) ==
    CASE reason = 4 -> "safety" [] reason = 1 -> "commanded" [] reason = 25 -> "recovery"
      [] OTHER -> "unmapped"

SafetyReport(r) ==
    Carry([row |-> Here, class |-> IF declared THEN ReasonClass(r.reason) ELSE "unqualified"]) /\ Plain

-----------------------------------------------------------------------------
(* convert_ardupilot_controller_reports: a record: [kind, time, seq, length,   *)
(* caller, words]; kind is "ERR", "PM", "WDG" (a MSG with the watchdog prefix) *)
(* or another; words says of each word of a watchdog text whether it is one of *)
(* the tokens in its place; length is "short", "cut" (as long as the buffer of *)
(* the producer) or "long".                                                    *)
WatchdogTokens == 3

(* Complete tokens: in a text cut off by the buffer the last word may be torn. *)
WholeWords(r) == IF r.length = "cut" THEN Len(r.words) - 1 ELSE Len(r.words)

DecodedTokens(r) ==
    CHOOSE n \in 0..WatchdogTokens :
        /\ n <= WholeWords(r) /\ \A i \in 1..n : r.words[i]
        /\ \/ n = WatchdogTokens \/ n = WholeWords(r)
           \/ ~r.words[n + 1]

WatchdogMessage(r) ==
    LET n == DecodedTokens(r)
        first      == r.seq \in {Absent, 0}
        malformed  == n < WatchdogTokens /\ n < Len(r.words) /\ ~r.words[n + 1]
        incomplete == r.length = "long" /\ (n < WatchdogTokens \/ n < Len(r.words))
        says(what, tokens) == [says |-> what, tokens |-> tokens]
    IN CASE ~first -> says("later chunk", 0)
         [] first /\ r.length = "long" /\ ~r.caller -> says("undeclared", 0)
         [] first /\ r.length = "short" -> says("short", 0)
         [] OTHER -> IF malformed THEN says("malformed", 0)
                     ELSE IF n = 0 THEN says("nothing whole", 0)
                     ELSE IF incomplete THEN says("incomplete", 0) ELSE says("boot", n)

ControllerRecord(r) ==
    /\ Plain
    /\ \/ r.kind \notin {"ERR", "PM", "WDG"} /\ PassOver("unselected")
       \/ /\ r.kind \in {"ERR", "PM", "WDG"} /\ AfterLastLine(r)
          /\ Carry([row |-> Here, time |-> r.time,
                    says |-> IF r.kind = "WDG" THEN WatchdogMessage(r) ELSE [says |-> r.kind, tokens |-> 0]])

(* convert_ardupilot_imu_batch: a record: [kind, time, batch, seq, count]; a   *)
(* header (ISBH) announces count blocks of 32 samples, an ISBD is one block.   *)
(* held: [batch, count, consumed, header].                                     *)
NoBatch == [batch |-> Absent, count |-> 0, consumed |-> 0, header |-> 0]

BatchHeader(r) == r.kind = "ISBH" /\ r.count > 0 /\ held.consumed = held.count

BatchBlock(r) ==
    /\ r.kind = "ISBD" /\ held.batch # Absent
    /\ r.batch = held.batch /\ r.seq = held.consumed /\ held.consumed < held.count

ImuRecord(r) ==
    /\ UNCHANGED keys
    /\ \/ r.kind = "other" /\ PassOver("unselected") /\ UNCHANGED held
       \/ /\ BatchHeader(r) /\ Keeping
          /\ Hold([batch |-> r.batch, count |-> r.count, consumed |-> 0, header |-> Here])
       \/ /\ BatchBlock(r) /\ Hold([held EXCEPT !.consumed = @ + 1])
          /\ Carry([row |-> Here, header |-> held.header, block |-> r.seq])

ImuEnd == EndCarried /\ held.batch # Absent /\ held.consumed = held.count

-----------------------------------------------------------------------------
(* convert_ardusub_session: [kind, time]; a CSV per kind of record.            *)
SessionKinds == {"CTUN", "MODE"}

SessionRecord(r) ==
    /\ Plain
    /\ \/ r.kind \notin SessionKinds /\ PassOver("unselected")
       \/ r.kind \in SessionKinds /\ AfterLastLine(r) /\ Carry([row |-> Here, time |-> r.time, file |-> r.kind])

(* convert_ardusub_session_window and convert_ardusub_bin_window: records      *)
(* [start, stop) of a longer log.  The record that names the firmware build    *)
(* and the surface anchor may lie outside: they are validated with the others  *)
(* as context and their rows dropped again.  declared: [start, stop, build,    *)
(* anchor]; positions count from 1.                                            *)
InWindow(i) == declared.start <= i /\ i < declared.stop
CutContext == {declared.build, declared.anchor} \ {Absent}

Dropped(i) == i = declared.anchor /\ ~InWindow(i)

SessionWindowRecord(r) ==
    /\ Plain
    /\ Here = declared.build => r.kind = "MSG" /\ declared.build < declared.stop
    /\ Here = declared.anchor => r.kind = "CTUN"
    /\ \/ ~InWindow(Here) /\ Here \notin CutContext /\ PassOver("outside window")
       \/ /\ InWindow(Here) \/ Here \in CutContext
          /\ \/ r.kind \notin SessionKinds /\ PassOver("unselected")
             \/ r.kind \in SessionKinds /\ AfterLastLine(r) /\ Dropped(Here) /\ PassOver("context")
             \/ /\ r.kind \in SessionKinds /\ AfterLastLine(r) /\ ~Dropped(Here)
                /\ Carry([row |-> Here, time |-> r.time, file |-> r.kind])

SessionWindowEnd ==
    /\ EndCarried /\ declared.build \in DOMAIN fed /\ declared.stop <= Len(fed) + 1
    /\ declared.anchor # Absent =>
          declared.anchor \in DOMAIN fed /\ \E i \in DOMAIN fed : InWindow(i) /\ fed[i].kind = "CTUN"

-----------------------------------------------------------------------------
(* A header's batch is whole before the next one starts and when the file      *)
(* ends: as many blocks as announced, from the first, of its own number        *)
(* (convert_ardupilot_imu_batch refuses a header amid a batch).                *)
BatchesAreWhole ==
    converter = "imu batch" => \A h \in DOMAIN fed : fed[h].kind = "ISBH" =>
        LET blocks == {i \in DOMAIN lines : lines[i].header = h}
        IN /\ \A i \in blocks : /\ lines[i].block = Cardinality({j \in blocks : j < i})
                               /\ fed[lines[i].row].batch = fed[h].batch
           /\ h # held.header \/ verdict = "converted" => Cardinality(blocks) = fed[h].count

(* A session cut out of a longer log has the log's rows of [start, stop) and   *)
(* no other: the build record and the anchor are validated with them but leave *)
(* no row of their own (convert_ardusub_session_window, "context").            *)
CutIsExact ==
    converter = "ardusub window" /\ verdict = "converted" =>
        {lines[i].row : i \in DOMAIN lines} =
            {i \in DOMAIN fed : /\ fed[i].kind \in SessionKinds
                                /\ declared.start <= i /\ i < declared.stop}
=============================================================================
