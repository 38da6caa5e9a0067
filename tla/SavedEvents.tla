---------------------------- MODULE SavedEvents ----------------------------
(***************************************************************************)
(* Converters that conclude something from a sequence of saved records:    *)
(* declared electrical limits, state changes and observation windows,      *)
(* black and frozen video, ages, unique identifiers, software versions.    *)
(***************************************************************************)
EXTENDS SavedLines

CONSTANTS EventRecords,       \* converter -> the records a file of it may hold
          EventDeclarations   \* converter -> its arguments and declaration files

-----------------------------------------------------------------------------
(* convert_electrical_events: one declared entry over one instance's samples. *)
(* declared: [downward, limit, release, duration, window, maxGap, sag, signed,*)
(* basis, clock]; a sample: [time, value, basis], value Absent when the cell  *)
(* is empty, unavailable or out of range.                                     *)

NoRun == [count |-> 0, start |-> 0, end |-> 0, after |-> FALSE, measure |-> 0]

ElectricalStart ==
    [current |-> NoRun, any |-> NoRun, transition |-> NoRun, met |-> NoRun,
     previous |-> Absent, crossed |-> "unknown"]

(* checked_entry: a release limit stands on the near side of the limit, a      *)
(* duration needs a bounded gap, a sag by count needs at least two samples.    *)
CheckedEntry(d) ==
    /\ d.release # Absent => IF d.downward THEN d.release >= d.limit ELSE d.release <= d.limit
    /\ d.window >= 1
    /\ d.duration => d.maxGap # Absent
    /\ d.sag => d.downward /\ (d.duration \/ d.window >= 2)
    /\ d.basis # Absent => d.signed

Crosses(value) == IF declared.downward THEN value < declared.limit ELSE value > declared.limit

Released(value) ==
    IF declared.downward THEN value >= declared.release ELSE value <= declared.release

Better(candidate, best) ==
    IF best.count = 0 \/ candidate.measure > best.measure THEN candidate ELSE best

MutantBroken(r) == FALSE  \* a run goes on over a gap

Broken(r) ==
    declared.maxGap # Absent /\ held.previous # Absent /\ r.time - held.previous > declared.maxGap

(* best_run, one sample: a hole or a gap ends a run and forgets the baseline. *)
BestRun(r) ==
    LET current == IF Broken(r) THEN NoRun ELSE held.current
        before  == IF Broken(r) THEN "unknown" ELSE held.crossed
        inside  == Crosses(r.value) \/ (current.count > 0 /\ declared.release # Absent
                                        /\ ~Released(r.value))
        start   == IF current.count = 0 THEN r.time ELSE current.start
        run     == [count |-> current.count + 1, start |-> start, end |-> r.time,
                    after |-> IF current.count = 0 THEN before = "no" ELSE current.after,
                    measure |-> IF declared.duration THEN r.time - start ELSE current.count + 1]
    IN IF r.value = Absent
       THEN [held EXCEPT !.current = NoRun, !.previous = Absent, !.crossed = "unknown"]
       ELSE [current    |-> IF inside THEN run ELSE NoRun,
             any        |-> IF inside THEN Better(run, held.any) ELSE held.any,
             transition |-> IF inside /\ run.after THEN Better(run, held.transition)
                            ELSE held.transition,
             met        |-> IF inside /\ run.after /\ run.measure >= declared.window
                            THEN Better(run, held.met) ELSE held.met,
             previous   |-> r.time,
             crossed    |-> IF Crosses(r.value) THEN "yes" ELSE "no"]

ElectricalSample(r) ==
    /\ CheckedEntry(declared)
    /\ Hold(BestRun(r)) /\ Keeping /\ UNCHANGED keys

ClockOrderOk == \A i \in 2..Len(fed) : fed[i - 1].time < fed[i].time

SignBases == {fed[i].basis : i \in {i \in DOMAIN fed : fed[i].value # Absent}}

(* evaluate: what makes a condition unknown whatever its samples say. *)
Unknowable ==
    \/ \A i \in DOMAIN fed : fed[i].value = Absent
    \/ Cardinality(SignBases \ {Absent}) > 1
    \/ /\ declared.signed
       /\ \/ declared.basis # Absent /\ SignBases \ {Absent} # {} /\ declared.basis \notin SignBases
          \/ declared.basis = Absent /\ Absent \in SignBases
    \/ declared.duration /\ (declared.clock = "unknown" \/ ~ClockOrderOk)

Best == CASE ~declared.sag                              -> held.any
          [] declared.sag /\ held.met.count > 0         -> held.met
          [] declared.sag /\ held.met.count = 0 /\ held.transition.count > 0 -> held.transition
          [] OTHER                                      -> held.any

ConditionStatus ==
    CASE Unknowable -> "UNKNOWN"
      [] ~Unknowable /\ Best.count = 0 -> "NOT_CROSSED"
      [] ~Unknowable /\ Best.count > 0 /\ declared.sag /\ ~Best.after -> "NO_TRANSITION"
      [] OTHER -> IF Best.measure >= declared.window THEN "MET" ELSE "NOT_SUSTAINED"

ElectricalEnd ==
    /\ Ending /\ fed # <<>>
    /\ Carry([status |-> ConditionStatus, run |-> Best])

-----------------------------------------------------------------------------
(* convert_saved_state_transitions: one state column and the windows of each  *)
(* subject.  declared: [span, recordingEnd] (span Absent: no windows asked);  *)
(* a row: [time, subject, value].                                             *)

LastOf(subject) == IF subject \in DOMAIN held THEN held[subject] ELSE [value |-> Absent, time |-> 0]

SetLast(subject, value, time) == Putting(held, subject, [value |-> value, time |-> time])

Transition(r) ==
    LET seen == LastOf(r.subject)
        disposition == CASE r.subject \notin DOMAIN held -> "FIRST"
                         [] r.subject \in DOMAIN held /\ seen.value = Absent -> "PREVIOUS_NOT_REPORTED"
                         [] OTHER -> "CHANGE"
    IN /\ fed # <<>> => r.time >= Last(fed).time    \* read_rows
       /\ Hold(SetLast(r.subject, r.value, r.time)) /\ UNCHANGED keys
       /\ \/ r.value = Absent /\ PassOver("blank")
          \/ r.value # Absent /\ r.value = seen.value /\ PassOver("repeated")
          \/ /\ r.value \notin {Absent, seen.value}
             /\ Carry([kind |-> "transition", time |-> r.time, subject |-> r.subject, value |-> r.value,
                       disposition |-> disposition,
                       previous |-> IF disposition = "CHANGE" THEN seen ELSE [value |-> Absent, time |-> 0]])

RowsOf(subject)   == {i \in DOMAIN fed : fed[i].subject = subject}
LastTime(subject) == CHOOSE t \in {fed[i].time : i \in RowsOf(subject)} :
                        \A i \in RowsOf(subject) : fed[i].time <= t

(* windows: the subjects in the order of their first rows, and from each such  *)
(* row on windows one behind the other, while one begins within the rows.      *)
FirstRows    == {i \in DOMAIN fed : \A j \in 1..(i - 1) : fed[j].subject # fed[i].subject}
Opening(tile) == fed[tile[1]].time + (tile[2] - 1) * declared.span

Tiles ==
    UNION {{tile \in {i} \X (1..(LastTime(fed[i].subject) - fed[i].time + 1)) :
                Opening(tile) <= LastTime(fed[i].subject)} : i \in FirstRows}

Window(tile) ==
    LET subject == fed[tile[1]].subject
        end     == Opening(tile) + declared.span
        covered == IF declared.recordingEnd = Absent \/ declared.recordingEnd < LastTime(subject)
                   THEN LastTime(subject) ELSE declared.recordingEnd
    IN [kind |-> "window", time |-> Opening(tile), subject |-> subject, end |-> end,
        observed |-> Cardinality({i \in RowsOf(subject) : /\ Opening(tile) <= fed[i].time
                                                          /\ fed[i].time < end}),
        partial |-> end > covered]

Follows(a, b) == a[1] < b[1] \/ (a[1] = b[1] /\ a[2] < b[2])

TransitionsEnd ==
    /\ Ending /\ fed # <<>>
    /\ declared.recordingEnd # Absent => declared.recordingEnd >= Last(fed).time
    /\ \E tiles \in SetToSeqs(IF declared.span = Absent THEN {} ELSE Tiles) :
          /\ \A m, n \in DOMAIN tiles : m < n => Follows(tiles[m], tiles[n])
          /\ LET all == lines \o [n \in DOMAIN tiles |-> Window(tiles[n])]
             IN all # <<>> /\ lines' = ByTime(all) /\ UNCHANGED passed

-----------------------------------------------------------------------------
(* convert_video_detector_intervals: a frame: [pts, selected, black, frozen,  *)
(* thawed]; black is "start", "end" or Absent, frozen the reported start time *)
(* of a freeze or Absent, thawed whether a freeze ends here.  Positions in    *)
(* held are those of the open interval's line, 0 for none.                    *)

DetectorStart == [black |-> 0, freeze |-> 0, floor |-> 1]

NewInterval(detector, start, tag) ==
    [detector |-> detector, status |-> "OPEN", start |-> start, tag |-> tag, end |-> Absent]

Closed(line) ==
    [line EXCEPT !.end = Here, !.status = IF @ = "OPEN" THEN "CLOSED" ELSE "END_WITHOUT_START"]

Unstarted(detector) == [NewInterval(detector, Absent, Absent) EXCEPT !.status = "NOT_STARTED"]

ReplaceOrAppend(rows, at, line) ==
    IF at = 0 THEN Append(rows, Closed(line)) ELSE [rows EXCEPT ![at] = Closed(@)]

(* A freeze is reported later than it starts: its start is a frame since the   *)
(* last freeze ended whose time text is the reported one, if it is the only.   *)
FrozenSince(time) ==
    LET found == {i \in held.floor..(Here - 1) : fed[i].selected /\ fed[i].pts = time /\ time # Absent}
    IN IF Cardinality(found) = 1 THEN CHOOSE i \in found : TRUE ELSE Absent

BlackTag(r, rows) ==
    CASE r.black = "start" -> Append(rows, NewInterval("black", Here, Here))
      [] r.black = "end"   -> ReplaceOrAppend(rows, held.black, Unstarted("black"))
      [] OTHER             -> rows

DetectorFrame(r) ==
    LET black  == BlackTag(r, lines)
        frozen == IF r.frozen = Absent THEN black
                  ELSE Append(black, NewInterval("freeze", FrozenSince(r.frozen), Here))
        open   == IF r.frozen = Absent THEN held.freeze ELSE Len(frozen)
    IN \/ ~r.selected /\ PassOver("unselected") /\ UNCHANGED <<keys, held>>
       \/ /\ r.selected
          /\ r.black # Absent => "black" \in declared
          /\ r.frozen # Absent \/ r.thawed => "freeze" \in declared
          /\ r.black = "start" => held.black = 0
          /\ r.frozen # Absent => held.freeze = 0
          /\ lines' = IF r.thawed THEN ReplaceOrAppend(frozen, open, Unstarted("freeze")) ELSE frozen
          /\ Hold([black  |-> CASE r.black = "start" -> Len(black) [] r.black = "end" -> 0
                                [] OTHER -> held.black,
                   freeze |-> IF r.thawed THEN 0 ELSE open,
                   floor  |-> IF r.thawed THEN Here ELSE held.floor])
          /\ UNCHANGED <<passed, keys>>

DetectorEnd ==
    LET silent == {d \in declared : \A i \in DOMAIN lines : lines[i].detector # d}
    IN /\ Ending /\ fed # <<>>
       /\ \E order \in SetToSeqs(silent) :
             CarryAll([i \in DOMAIN order |->
                 [NewInterval(order[i], Absent, Absent) EXCEPT !.status = "NO_INTERVAL_REPORTED"]])

-----------------------------------------------------------------------------
(* check_saved_observation_age: declared: [evaluation, maximum, subject,      *)
(* clock]; a row: [time, subject, clock].                                     *)

AgeDisposition(r) ==
    CASE r.subject # declared.subject ->
            IF r.subject = Absent THEN "SUBJECT_NOT_REPORTED" ELSE "UNQUALIFIED_SUBJECT"
      [] r.subject = declared.subject /\ r.clock # declared.clock ->
            IF r.clock = Absent THEN "CLOCK_NOT_REPORTED" ELSE "UNQUALIFIED_CLOCK"
      [] r.subject = declared.subject /\ r.clock = declared.clock /\ r.time = Absent ->
            "SOURCE_TIME_NOT_REPORTED"
      [] OTHER -> CASE r.time > declared.evaluation -> "SOURCE_TIME_AFTER_EVALUATION"
                    [] declared.evaluation - r.time > declared.maximum -> "STALE"
                    [] OTHER -> "WITHIN_DECLARED_AGE"

AgedObservation(r) ==
    Carry([row |-> Here, disposition |-> AgeDisposition(r)]) /\ UNCHANGED <<keys, held>>

(* convert_recorded_row_identity: a row: [time, run, entity]. *)
RowIdentity(r) ==
    /\ fed # <<>> => r.time >= Last(fed).time
    /\ Carry([row |-> Here, run |-> r.run, entity |-> r.entity]) /\ UNCHANGED <<keys, held>>

-----------------------------------------------------------------------------
(* check_identifier_uniqueness: declared: [windows, subject], windows a       *)
(* sequence of disjoint sets of sources; an observation: [paired, source,     *)
(* pin, name, carried, bound], paired when it is a software PIN+NAME tuple.   *)

Assigned == UNION ToSet(declared.windows)
WindowOf(source) == CHOOSE w \in DOMAIN declared.windows : source \in declared.windows[w]

UniquenessStart(d) == [shapes |-> [s \in {} |-> [bound |-> 0, total |-> 0]],
                       groups |-> [w \in DOMAIN d.windows |-> {}]]

ShapeOf(r) == IF r.source \in DOMAIN held.shapes THEN held.shapes[r.source]
              ELSE [bound |-> r.bound, total |-> 0]

UniquenessRow(r) ==
    LET total == ShapeOf(r).total + r.carried
        shapes == [s \in DOMAIN held.shapes \cup {r.source} |->
                      IF s = r.source THEN [bound |-> r.bound, total |-> total] ELSE held.shapes[s]]
    IN \/ /\ ~r.paired \/ r.source \notin Assigned
          /\ PassOver("unselected") /\ UNCHANGED <<keys, held>>
       \/ /\ r.paired /\ r.source \in Assigned
          /\ KeepKey(<<r.source, r.pin, r.name>>)
          /\ r.bound = ShapeOf(r).bound /\ total <= r.bound
          /\ \/ /\ r.pin \notin {Absent, declared.subject}
                /\ PassOver("other subject") /\ Hold([held EXCEPT !.shapes = shapes])
             \/ /\ r.pin \in {Absent, declared.subject} /\ Keeping
                /\ Hold([shapes |-> shapes, groups |-> [held.groups EXCEPT ![WindowOf(r.source)] = @ \cup {Here}]])

(* The source pairs account for every row of the source, or nothing is concluded. *)
Reported(s)  == s \in DOMAIN held.shapes
Accounted(s) == Reported(s) /\ held.shapes[s].total = held.shapes[s].bound

Insufficient(w) ==
    LET witnesses == {fed[i] : i \in held.groups[w]}
        reported  == \A s \in declared.windows[w] : Reported(s)
        accounted == \A s \in declared.windows[w] : Accounted(s)
    IN CASE ~reported                -> "SOURCE_NOT_REPORTED"
         [] reported /\ ~accounted   -> "ACCOUNTING_INCOMPLETE"
         [] OTHER -> CASE \E r \in witnesses : Absent \in {r.pin, r.name} -> "COMPONENT_NOT_REPORTED"
                       [] witnesses = {} -> "SUBJECT_NOT_REPORTED"
                       [] OTHER -> Absent

NamesOf(w) == {fed[i].name : i \in held.groups[w]} \ {Absent}

WindowDisposition(w) ==
    CASE Insufficient(w) # Absent -> "INSUFFICIENT"
      [] Insufficient(w) = Absent /\ Cardinality(NamesOf(w)) > 1 -> "CONTRADICTION"
      [] OTHER -> "CONSISTENT"

UniquenessEnd ==
    /\ Ending
    /\ CarryAll([w \in DOMAIN declared.windows |-> [window |-> w, disposition |-> WindowDisposition(w)]])

(* compare_producer_software_version: declared: [source, name, expected].     *)
VersionDisposition(r) ==
    CASE Absent \in {r.name, r.version} -> "INSUFFICIENT"
      [] r.name # Absent /\ r.version \in declared.expected -> "MATCH"
      [] OTHER -> "MISMATCH"

VersionRow(r) ==
    /\ UNCHANGED <<keys, held>>
    /\ \/ /\ ~r.paired \/ r.source # declared.source \/ r.name \notin {Absent, declared.name}
          /\ PassOver("unselected")
       \/ /\ r.paired /\ r.source = declared.source /\ r.name \in {Absent, declared.name}
          /\ Carry([row |-> Here, disposition |-> VersionDisposition(r)])

VersionEnd ==
    /\ Ending
    /\ IF lines = <<>> THEN Carry([row |-> Absent, disposition |-> "INSUFFICIENT"]) ELSE Keeping

-----------------------------------------------------------------------------
(* convert_gateway_link_state: one interface: [ifindex, oper, kinds]; oper is  *)
(* the set of forms of the operational state it reports, kinds the statistics. *)
GatewayLink(r) ==
    /\ KeepKey(r.ifindex)
    /\ r.oper # {"name", "index"} /\ Cardinality(r.kinds) <= 1
    /\ Carry([row |-> Here, kinds |-> r.kinds]) /\ UNCHANGED held

-----------------------------------------------------------------------------
(* The eight converters as one specification: a behaviour is one of them on    *)
(* one saved file, under one declaration.                                      *)
EventConverters ==
    {"electrical events", "state transitions", "detector intervals", "observation age",
     "row identity", "identifier uniqueness", "software version", "gateway link"}

EventStart ==
    CASE converter = "electrical events" -> ElectricalStart
      [] converter = "state transitions" -> <<>>
      [] converter = "detector intervals" -> DetectorStart
      [] converter = "identifier uniqueness" -> UniquenessStart(declared)
      [] OTHER -> Absent

EventStep(r) ==
    \/ converter = "electrical events" /\ ElectricalSample(r)
    \/ converter = "state transitions" /\ Transition(r)
    \/ converter = "detector intervals" /\ DetectorFrame(r)
    \/ converter = "observation age" /\ AgedObservation(r)
    \/ converter = "row identity" /\ RowIdentity(r)
    \/ converter = "identifier uniqueness" /\ UniquenessRow(r)
    \/ converter = "software version" /\ VersionRow(r)
    \/ converter = "gateway link" /\ GatewayLink(r)

EventEnd ==
    \/ converter = "electrical events" /\ ElectricalEnd
    \/ converter = "state transitions" /\ TransitionsEnd
    \/ converter = "detector intervals" /\ DetectorEnd
    \/ converter = "identifier uniqueness" /\ UniquenessEnd
    \/ converter = "software version" /\ VersionEnd
    \/ /\ converter \in {"observation age", "row identity", "gateway link"}
       /\ EndCarried

EventInit ==
    /\ converter \in EventConverters /\ declared \in EventDeclarations[converter]
    /\ Starting(EventStart)

EventNext ==
    \/ \E r \in EventRecords[converter] : Taking(r) /\ EventStep(r)
    \/ EventEnd
    \/ Refuse

EventSpec == EventInit /\ [][EventNext]_linesVars

(* What is known before the loops run: an empty cell is no number, and the     *)
(* numbers of a declaration and of a record are numbers.                       *)
ASSUME EventAssumption ==
    /\ Absent \notin Int
    /\ \A d \in EventDeclarations["electrical events"] :
          /\ {d.limit, d.window} \subseteq Int /\ {d.release, d.maxGap} \subseteq Int \cup {Absent}
          /\ {d.downward, d.duration, d.sag} \subseteq BOOLEAN
    /\ \A r \in EventRecords["electrical events"] : r.time \in Nat /\ r.value \in Int \cup {Absent}
    /\ \A d \in EventDeclarations["state transitions"] :
          d.span \in (Nat \ {0}) \cup {Absent} /\ d.recordingEnd \in Nat \cup {Absent}
    /\ \A r \in EventRecords["state transitions"] : r.time \in Nat
    /\ \A d \in EventDeclarations["detector intervals"] : d \subseteq {"black", "freeze"}

(* A source belongs to one window (convert refuses others), a tuple counts     *)
(* the rows it stands for.                                                     *)
ASSUME UniquenessAssumption ==
    /\ \A d \in EventDeclarations["identifier uniqueness"] :
          /\ IsList(d.windows) /\ d.subject # Absent
          /\ \A v, w \in DOMAIN d.windows : v # w => d.windows[v] \cap d.windows[w] = {}
    /\ \A r \in EventRecords["identifier uniqueness"] :
          r.paired \in BOOLEAN /\ r.carried \in Nat /\ r.bound \in Nat
    /\ Absent \notin {"SOURCE_NOT_REPORTED", "ACCOUNTING_INCOMPLETE", "COMPONENT_NOT_REPORTED", "SUBJECT_NOT_REPORTED"}

-----------------------------------------------------------------------------

Judged(name) == converter = name /\ verdict = "converted"

(* A sample is inside a run when it crosses, or follows an inside sample       *)
(* within the gap without being released.                                      *)
Usable(i) == fed[i].value # Absent

Linked(i) ==
    /\ i > 1 /\ Usable(i - 1) /\ Usable(i)
    /\ declared.maxGap = Absent \/ fed[i].time - fed[i - 1].time <= declared.maxGap

Inside(i) == Crosses(fed[i].value) \/ (declared.release # Absent /\ ~Released(fed[i].value))

Chain(k, i) ==
    /\ Usable(k) /\ Crosses(fed[k].value)
    /\ \A m \in (k + 1)..i : Linked(m) /\ Inside(m)

(* The runs up to each of their samples, those that last as declared, and those *)
(* with a sample in front that does not cross.                                 *)
Runs ==
    {x \in (DOMAIN fed) \X (DOMAIN fed) :
        x[1] <= x[2] /\ Chain(x[1], x[2]) /\ \A m \in 1..(x[1] - 1) : ~Chain(m, x[2])}

Measure(x) == IF declared.duration THEN fed[x[2]].time - fed[x[1]].time ELSE x[2] - x[1] + 1

Long  == {x \in Runs : Measure(x) >= declared.window}
After == {x \in Runs : Linked(x[1])}

(* The single pass of best_run finds exactly the runs the samples hold: a hole *)
(* or a gap never lies inside a run and never serves as the baseline a sag     *)
(* needs ("sustained" is never concluded over samples nobody has).             *)
RunsAreUnbroken ==
    Judged("electrical events") =>
        \/ lines[1].status = "UNKNOWN"
        \/ /\ lines[1].status = "MET" <=> (IF declared.sag THEN Long \cap After ELSE Long) # {}
           /\ lines[1].status = "NOT_CROSSED" <=> Runs = {}
           /\ lines[1].status = "NO_TRANSITION" <=> declared.sag /\ Runs # {} /\ After = {}

(* Two neighbouring rows of a subject that report different values.            *)
Neighbours(x) ==
    /\ x[1] < x[2] /\ fed[x[1]].subject = fed[x[2]].subject
    /\ \A k \in (x[1] + 1)..(x[2] - 1) : fed[k].subject # fed[x[2]].subject

Differing ==
    {x \in (DOMAIN fed) \X (DOMAIN fed) :
        Neighbours(x) /\ Absent \notin {fed[x[1]].value, fed[x[2]].value} /\ fed[x[1]].value # fed[x[2]].value}

ChangeRows == {i \in DOMAIN lines : lines[i].kind = "transition" /\ lines[i].disposition = "CHANGE"}
WindowRows == {i \in DOMAIN lines : lines[i].kind = "window"}

Within(k, i) ==
    /\ lines[i].subject = fed[k].subject
    /\ lines[i].time <= fed[k].time /\ fed[k].time < lines[i].end

(* A change is claimed exactly between two neighbouring records of a subject   *)
(* that both report a value; each record lies in one window of its subject and *)
(* is counted there, and the rows come out in the order of their times.        *)
ChangesAreAdjacent ==
    Judged("state transitions") =>
        /\ Cardinality(ChangeRows) = Cardinality(Differing)
        /\ {[subject |-> lines[i].subject, from |-> lines[i].previous.time, at |-> lines[i].time] :
                i \in ChangeRows}
            = {[subject |-> fed[x[2]].subject, from |-> fed[x[1]].time, at |-> fed[x[2]].time] :
                x \in Differing}
        /\ declared.span # Absent =>
              \A k \in DOMAIN fed : Cardinality({i \in WindowRows : Within(k, i)}) = 1
        /\ \A i \in WindowRows : lines[i].observed = Cardinality({k \in DOMAIN fed : Within(k, i)})
        /\ \A i, j \in DOMAIN lines : i < j => lines[i].time <= lines[j].time

(* Two intervals of one detector never overlap, although a freeze is told      *)
(* after it began and its start is looked up by a time text that may repeat.   *)
IntervalsAreDisjoint ==
    converter = "detector intervals" =>
        \A i, j \in DOMAIN lines : i < j /\ lines[i].detector = lines[j].detector =>
            /\ lines[i].status # "OPEN"
            /\ lines[i].end # Absent /\ lines[j].start # Absent => lines[i].end <= lines[j].start
            /\ lines[j].start # Absent /\ lines[j].end # Absent => lines[j].start <= lines[j].end

(* CONSISTENT rests on every row of every source of the window: no tuple was   *)
(* dropped on the way, none counted twice, and one name is all they report.    *)
UniquenessIsWitnessed ==
    Judged("identifier uniqueness") =>
        \A i \in DOMAIN lines : lines[i].disposition = "CONSISTENT" =>
            LET sources == declared.windows[lines[i].window]
                rows(s) == {k \in DOMAIN fed : fed[k].paired /\ fed[k].source = s}
                carried(s) == [k \in DOMAIN fed |-> IF k \in rows(s) THEN fed[k].carried ELSE 0]
            IN /\ \A s \in sources :
                     /\ rows(s) # {}
                     /\ \A k \in rows(s) : TotalOf(carried(s)) = fed[k].bound
               /\ \E name \in {fed[k].name : k \in DOMAIN fed} \ {Absent} : \A s \in sources :
                     \A k \in rows(s) :
                        fed[k].pin \in {Absent, declared.subject} =>
                            fed[k].pin # Absent /\ fed[k].name = name

(* Whatever these converters conclude rests on an unbroken sequence of the     *)
(* records read: the runs of convert_electrical_events, the changes of         *)
(* convert_saved_state_transitions, the intervals of the video detectors and   *)
(* the judgement of check_identifier_uniqueness.                               *)
ConclusionsAreSound ==
    RunsAreUnbroken /\ ChangesAreAdjacent /\ IntervalsAreDisjoint /\ UniquenessIsWitnessed
=============================================================================
