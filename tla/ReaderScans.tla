---------------------------- MODULE ReaderScans ----------------------------
(***************************************************************************)
(* Three scans of the Rust readers, each of which goes once over a list,   *)
(* as the converters do: the absence detector over one source's            *)
(* observations (crates/reference-readers/src/absence.rs), the observation *)
(* grid of the fan-out run over an asset's sources                         *)
(* (crates/reference-fanout/src/lib.rs), and the nesting check of the      *)
(* quarantine boundary over the bytes of a text                            *)
(* (crates/core/src/quarantine.rs).  Only the last can refuse its input.   *)
(***************************************************************************)
EXTENDS SavedLines

-----------------------------------------------------------------------------
(* detect_absences_in_declared_window: one expectation of a profile.  An      *)
(* observation: [time, channel, value, stale, basis], value Absent when a     *)
(* selected field is missing, blank or repeated.  declared: [threshold,       *)
(* frozen, selected, required, from, until, only, basis], threshold the       *)
(* cadence times the grace, frozen Absent without frozen_ms; selected and     *)
(* required say whether frozen_fields and required_fields are given, only     *)
(* whether the expectation looks at its declared window alone.                *)

Observe(r) == Keeping /\ Plain

InDeclaredWindow(r) == declared.only => declared.from <= r.time /\ r.time <= declared.until

Watched == ByTime(SelectSeq(fed, LAMBDA r : r.channel = "own" /\ InDeclaredWindow(r)))

(* apply_frozen_fields_rule: a value that does not change for frozen_ms is    *)
(* stale from then on.                                                        *)
FrozenRule(rows) ==
    LET none == [start |-> Absent, value |-> Absent, out |-> <<>>]
        round(run, r) ==
            CASE declared.selected /\ r.value = Absent -> [none EXCEPT !.out = Append(run.out, r)]
              [] ~(declared.selected /\ r.value = Absent) /\ run.start # Absent /\ run.value = r.value ->
                    [run EXCEPT !.out =
                        Append(@, [r EXCEPT !.stale = @ \/ r.time - run.start >= declared.frozen])]
              [] OTHER -> [start |-> r.time, value |-> r.value, out |-> Append(run.out, r)]
    IN FoldLeft(round, none, rows).out

Sighted == IF declared.frozen = Absent THEN Watched ELSE FrozenRule(Watched)

Good == SelectSeq(Sighted, LAMBDA r :
            ~r.stale /\ (declared.required \/ declared.selected => r.value # Absent))

\* Why the selected fields were missing from `since` on.
GapContent(since, until) ==
    LET inGap == {r \in {Sighted[i] : i \in DOMAIN Sighted} : since <= r.time /\ r.time < until}
    IN CASE \E r \in inGap : ~r.stale /\ r.value = Absent -> "required field absent"
         [] (\A r \in inGap : r.stale \/ r.value # Absent) /\ (\E r \in inGap : r.stale) ->
                "record marked stale"
         [] OTHER -> "no record in gap"

ClockOfGood == IF Good = <<>> THEN declared.basis ELSE Good[1].basis

\* GapBounds: the end of a gap, comparable only on the same, known clock.
GapEnd(i) ==
    CASE i > Len(Good) -> "open end"
      [] i <= Len(Good) /\ Good[i].basis = ClockOfGood /\ Good[i].basis # "unknown" -> "next observation"
      [] OTHER -> "next observation, clock unresolved"

\* The i-th stretch is before the i-th good observation, the last one after all.
StretchStart(i) == IF i = 1 THEN declared.from ELSE Good[i - 1].time
StretchEnd(i) == IF i > Len(Good) THEN declared.until ELSE Good[i].time

SilentStretches ==
    SelectSeq([i \in 1..(Len(Good) + 1) |-> i],
              LAMBDA i : StretchEnd(i) - StretchStart(i) > declared.threshold)

Absences ==
    [k \in DOMAIN SilentStretches |->
        LET i == SilentStretches[k]
        IN [since    |-> StretchStart(i),
            until    |-> StretchEnd(i),
            expected |-> StretchStart(i) + declared.threshold,
            last     |-> IF i = 1 THEN Absent ELSE Good[i - 1],
            end      |-> GapEnd(i),
            content  |-> IF declared.required THEN GapContent(StretchStart(i), StretchEnd(i)) ELSE Absent]]

AbsencesEnd == Ending /\ CarryAll(Absences)

-----------------------------------------------------------------------------
(* build_steps_with: the observation steps of one asset.  declared: [from,    *)
(* until, stride, cadence], cadence a sequence, of each source in order; an   *)
(* observation: [source, wall, positioned], the sources one after the other,  *)
(* wall Absent when its clock has no wall time.                               *)

Locate(r) ==
    /\ fed # <<>> => r.source >= Last(fed).source
    /\ Keeping /\ Plain

Later(a, b) == IF a > b THEN a ELSE b

(* position_at: the last position at or before a time, else the first after.  *)
PositionAt(at) ==
    LET round(best, r) ==
            CASE ~r.positioned \/ r.wall = Absent -> best
              [] r.positioned /\ r.wall # Absent /\ r.wall <= at ->
                    IF best.before = Absent \/ r.wall >= best.before.wall
                    THEN [best EXCEPT !.before = r] ELSE best
              [] OTHER -> IF best.after = Absent \/ r.wall < best.after.wall
                          THEN [best EXCEPT !.after = r] ELSE best
        found == FoldLeft(round, [before |-> Absent, after |-> Absent], fed)
    IN IF found.before # Absent THEN found.before ELSE found.after

StalenessK == 2

(* freshness_of, with the cadence of the source the position came from. *)
AgeOf(at, fix)   == Later(at - fix.wall, 0)
IsStale(at, fix) == AgeOf(at, fix) > StalenessK * Later(declared.cadence[fix.source], 1)

GridTimes ==
    SelectSeq([i \in 1..(declared.until - declared.from + 1) |-> declared.from + i - 1],
              LAMBDA t : (t - declared.from) % declared.stride = 0)

ObservationStep(at) ==
    LET fix == PositionAt(at)
    IN [at |-> at, fix |-> fix, age |-> AgeOf(at, fix), later |-> fix.wall > at,
        status |-> IF IsStale(at, fix) THEN "Degraded" ELSE "Ok"]

GridEnd ==
    /\ Ending
    /\ LET located == SelectSeq(GridTimes, LAMBDA t : PositionAt(t) # Absent)
       IN CarryAll([k \in DOMAIN located |-> ObservationStep(located[k])])

-----------------------------------------------------------------------------
(* reject_if_json_nesting_exceeds: declared is max_depth; a record is a byte, *)
(* "open" and "close" for braces and brackets.  lines and passed stay empty.  *)

NestingStart == [depth |-> 0, inString |-> FALSE, escaped |-> FALSE]

MutantDeepens(r) == r = "open"  \* brackets inside a string count as well

Deepens(r) == r = "open" /\ ~held.inString

NestingByte(r) ==
    /\ Deepens(r) => held.depth < declared
    /\ Hold(IF held.inString
            THEN [held EXCEPT !.escaped = ~held.escaped /\ r = "backslash",
                              !.inString = held.escaped \/ r # "quote"]
            ELSE [held EXCEPT !.inString = (r = "quote"),
                              !.depth = CASE r = "open"  -> held.depth + 1
                                          [] r = "close" -> Later(held.depth - 1, 0)
                                          [] OTHER       -> held.depth])
    /\ Keeping /\ UNCHANGED keys

\* The byte that goes too deep ends the scan with an error.
NestingExceeded(r) ==
    /\ verdict = "reading" /\ Len(fed) < MaxRecords[converter]
    /\ Deepens(r) /\ held.depth = declared
    /\ fed' = Append(fed, r)
    /\ verdict' = "refused"
    /\ UNCHANGED <<converter, declared, lines, passed, keys, held>>

NestingEnd == Ending /\ Keeping

-----------------------------------------------------------------------------
(* The observations that count, said without a scan: on the channel, inside   *)
(* the window, whole, and not the repetition of a value for frozen_ms.        *)
Counted ==
    {i \in DOMAIN fed : /\ fed[i].channel = "own"
                        /\ declared.only => fed[i].time \in declared.from..declared.until}

Precedes(i, j) == fed[i].time < fed[j].time \/ (fed[i].time = fed[j].time /\ i < j)

Repeats(i) ==
    /\ declared.frozen # Absent
    /\ declared.selected => fed[i].value # Absent
    /\ \E j \in Counted :
          /\ Precedes(j, i) /\ fed[i].time - fed[j].time >= declared.frozen
          /\ \A k \in Counted :
                k = j \/ (Precedes(j, k) /\ Precedes(k, i)) => fed[k].value = fed[i].value

Sightings ==
    {fed[i].time : i \in {i \in Counted :
        /\ ~fed[i].stale /\ ~Repeats(i)
        /\ declared.required \/ declared.selected => fed[i].value # Absent}}

(* An absence never covers a sighting, no stretch of the window without one   *)
(* that is longer than the threshold goes unreported, and no two overlap; the *)
(* observation an absence names is the one it starts from.                    *)
SilencesAreReported ==
    verdict = "converted" /\ converter = "absences" =>
        /\ \A i \in DOMAIN lines :
              /\ \A t \in Sightings : t <= lines[i].since \/ lines[i].until <= t
              /\ lines[i].until - lines[i].since > declared.threshold
              /\ lines[i].last # Absent => lines[i].last.time = lines[i].since
              /\ lines[i].last = Absent => \A t \in Sightings : lines[i].until <= t
              /\ lines[i].end = "open end" <=> \A t \in Sightings : t <= lines[i].since
              /\ i > 1 => lines[i - 1].until <= lines[i].since
        /\ \A m \in declared.from..declared.until :
              /\ m - declared.from > declared.threshold
              /\ \A t \in Sightings : t <= m => m - t > declared.threshold
              => \E i \in DOMAIN lines : lines[i].expected < m /\ m <= lines[i].until

Located == {i \in DOMAIN fed : fed[i].positioned /\ fed[i].wall # Absent}

(* The grid goes on after a source died: a step shows the latest position of  *)
(* any source, one from the future only if there is none before, and is Ok    *)
(* only while that source is on time; once late, it stays so until something  *)
(* is heard again.                                                            *)
FreshnessIsHonest ==
    verdict = "converted" /\ converter = "observation grid" =>
        /\ \A k \in DOMAIN lines :
              LET s == lines[k]
              IN /\ \A i \in Located : fed[i].wall <= s.at =>
                        ~s.later /\ fed[i].wall <= s.fix.wall
                 /\ s.later => \A i \in Located : s.fix.wall <= fed[i].wall
                 /\ s.status = "Ok" /\ ~s.later =>
                        \E i \in Located :
                            /\ fed[i] = s.fix
                            /\ s.at - fed[i].wall <= StalenessK * declared.cadence[fed[i].source]
        /\ \A j, k \in DOMAIN lines :
              /\ j < k /\ lines[j].status = "Degraded"
              /\ \A i \in Located : ~(lines[j].at < fed[i].wall /\ fed[i].wall <= lines[k].at)
              => lines[k].status = "Degraded"
        /\ Located # {} =>
              /\ Len(lines) = (declared.until - declared.from) \div declared.stride + 1
              /\ \A k \in DOMAIN lines : lines[k].at = declared.from + (k - 1) * declared.stride

\* The backslashes just before position i.
Escapes(i) ==
    Cardinality({j \in 1..(i - 1) : \A k \in j..(i - 1) : fed[k] = "backslash"})

InText(i) ==
    Cardinality({j \in 1..(i - 1) : fed[j] = "quote" /\ Escapes(j) % 2 = 0}) % 2 = 1

Structure(i, j, kind) == Cardinality({k \in i..j : fed[k] = kind /\ ~InText(k)})

(* A text whose backslashes stand inside strings is accepted exactly when no  *)
(* part of it opens more than max_depth more than it closes: what a string    *)
(* holds never counts, and closing too often buys no depth.                   *)
NestingIsBounded ==
    /\ verdict # "reading" /\ converter = "nesting"
    /\ \A i \in DOMAIN fed : fed[i] = "backslash" => InText(i)
    => (verdict = "converted" <=>
            \A i, j \in DOMAIN fed :
                i <= j => Structure(i, j, "open") - Structure(i, j, "close") <= declared)

(* The three scans together: detect_absences_in_declared_window, position_at   *)
(* with freshness_of, and reject_if_json_nesting_exceeds.                      *)
ScansAreExact == SilencesAreReported /\ FreshnessIsHonest /\ NestingIsBounded
=============================================================================
