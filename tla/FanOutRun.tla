----------------------------- MODULE FanOutRun -----------------------------
(***************************************************************************)
(* A reference fan-out run: `run` (crates/reference-fanout/src/lib.rs)     *)
(* calls fan_out (crates/northbound/src/fanout.rs) once per step and keeps *)
(* what fan_out withheld in a HumanLane.  The two nested loops are played  *)
(* one publisher and one withheld envelope at a time.                      *)
(*                                                                         *)
(* An envelope is abstracted to its MARK status and the shape of its       *)
(* observation, which is all that decides its fate at a sink; the step it  *)
(* belongs to identifies it.                                               *)
(***************************************************************************)
EXTENDS Integers, Sequences, FiniteSets

CONSTANTS Publishers,   \* the sinks, in the order of the slice
          StepLists,    \* the step lists a run may be given
          Unassigned    \* the owner of a lane before any handoff

Dialect == {"cot", "nvg", "generic-csv", "legacy-position-csv"}

MarkStatus == {"Ok", "Degraded", "Invalid"}

Shape == {"positioned", "unpositioned", "subsurface", "host-state"}

Step == [status : MarkStatus, shape : Shape]

ASSUME RunAssumption ==
    /\ Publishers \in Seq(Dialect)
    /\ StepLists \subseteq Seq(Step)

SINK_COUNT == Len(Publishers)

\* DialectCapability of the four sinks.
CarriesMarkStatus(d)       == d # "legacy-position-csv"
MarkViaNativeAnnotation(d) == d \in {"cot", "nvg"}

\* The shapes on which `publish` returns an error.
Refuses(d, e) ==
    \/ e.shape \in {"unpositioned", "host-state"}
    \/ e.shape = "subsurface" /\ d \in {"cot", "nvg"}

IsNonOk(e) == e.status # "Ok"

-----------------------------------------------------------------------------
VARIABLES
    steps,         \* the argument of `run`
    done,          \* StepReports pushed to `out` so far
    next,          \* the publisher the current fan_out call is at
    outcomes, mark_ledger, human_lane,     \* the current FanOutReport
    routed,        \* withheld envelopes of the report pushed to the lane
    out,           \* the reports of the finished steps
    published, withheld, failed,
    status         \* "running" or "returned"

(* The lane: the state of HumanLane under its own names. *)
VARIABLES capacity, next_sequence, entries, evicted_total, current_owner,
          handoff_log, next_handoff_sequence, evicted, reviewer

report   == <<outcomes, mark_ledger, human_lane>>
totals   == <<published, withheld, failed>>
laneVars == <<capacity, next_sequence, entries, evicted_total, current_owner,
              handoff_log, next_handoff_sequence, evicted, reviewer>>
vars     == <<steps, done, next, report, routed, out, totals, status, laneVars>>

\* What a lane entry holds: the dialect and the step whose envelope it is.
Withholding ==
    [dialect : Dialect, step : UNION {DOMAIN list : list \in StepLists}]

AtLeastOne(n) == IF n < 1 THEN 1 ELSE n

\* Mutant: one step's withholdings are not counted in.
MutantLaneCapacity(list) == AtLeastOne(Len(list) - 1)

\* The capacity argument `run` computes from its steps.
LaneCapacity(list) == AtLeastOne(Len(list)) * SINK_COUNT

LaneCapacities == {LaneCapacity(list) : list \in StepLists}

Lane == INSTANCE HumanLane WITH
            Evidence     <- Withholding,
            Owner        <- {},
            CapacityArgs <- LaneCapacities,
            MaxPushes    <- Cardinality(Withholding),
            MaxHandoffs  <- 0

Init ==
    /\ steps \in StepLists
    /\ done = 0 /\ next = 1 /\ routed = 0
    /\ outcomes = <<>> /\ mark_ledger = <<>> /\ human_lane = <<>>
    /\ out = <<>>
    /\ published = 0 /\ withheld = 0 /\ failed = 0
    /\ status = "running"
    /\ capacity = LaneCapacity(steps)
    /\ Lane!Init

Envelope == steps[done + 1]

\* fan_out at its next publisher d.
AtPublisher(d) ==
    /\ status = "running"
    /\ done < Len(steps)
    /\ next <= SINK_COUNT
    /\ d = Publishers[next]
    /\ next' = next + 1
    /\ UNCHANGED <<steps, done, routed, out, totals, status, laneVars>>

Outcome(kind, d) == outcomes' = Append(outcomes, [kind |-> kind, dialect |-> d])

Ledger(d, mark) ==
    mark_ledger' = Append(mark_ledger, [dialect |-> d, status |-> mark])

PublishMarked(d) ==
    /\ AtPublisher(d)
    /\ CarriesMarkStatus(d) /\ ~Refuses(d, Envelope)
    /\ Ledger(d, Envelope.status)
    /\ Outcome(IF MarkViaNativeAnnotation(d) THEN "PublishedWithDowngrade"
               ELSE "Published", d)
    /\ UNCHANGED human_lane

\* Mutant: a sink without MARK takes any status.
MutantPublishBare(d) ==
    /\ AtPublisher(d)
    /\ ~CarriesMarkStatus(d) /\ ~Refuses(d, Envelope)
    /\ Ledger(d, Envelope.status)
    /\ Outcome("Published", d)
    /\ UNCHANGED human_lane

PublishBare(d) ==
    /\ AtPublisher(d)
    /\ ~CarriesMarkStatus(d) /\ ~IsNonOk(Envelope) /\ ~Refuses(d, Envelope)
    /\ Ledger(d, Envelope.status)
    /\ Outcome("Published", d)
    /\ UNCHANGED human_lane

\* Mutant: the first error ends the call.
MutantFailEnds(d) ==
    /\ status = "running" /\ done < Len(steps)
    /\ next <= SINK_COUNT /\ d = Publishers[next]
    /\ CarriesMarkStatus(d) \/ ~IsNonOk(Envelope)
    /\ Refuses(d, Envelope)
    /\ Outcome("Failed", d)
    /\ next' = SINK_COUNT + 1
    /\ UNCHANGED <<steps, done, mark_ledger, human_lane, routed, out, totals,
                   status, laneVars>>

PublishFailed(d) ==
    /\ AtPublisher(d)
    /\ CarriesMarkStatus(d) \/ ~IsNonOk(Envelope)
    /\ Refuses(d, Envelope)
    /\ Outcome("Failed", d)
    /\ UNCHANGED <<mark_ledger, human_lane>>

Withhold(d) ==
    /\ AtPublisher(d)
    /\ ~CarriesMarkStatus(d) /\ IsNonOk(Envelope)
    /\ Ledger(d, "Withheld")
    /\ human_lane' = Append(human_lane, [dialect |-> d, step |-> done + 1])
    /\ Outcome("Withheld", d)

Times(kinds) == Cardinality({k \in DOMAIN outcomes : outcomes[k].kind \in kinds})

FanOutReturned ==
    /\ status = "running"
    /\ done < Len(steps)
    /\ next = SINK_COUNT + 1

\* The loop over report.human_lane.
RouteToLane ==
    /\ FanOutReturned
    /\ routed < Len(human_lane)
    /\ Lane!Push(human_lane[routed + 1])
    /\ routed' = routed + 1
    /\ UNCHANGED <<steps, done, next, report, out, totals, status>>

\* Mutant: native annotations are not counted as published.
MutantNoDowngrade ==
    /\ FanOutReturned
    /\ routed = Len(human_lane)
    /\ published' = published + Times({"Published"})
    /\ withheld' = withheld + Times({"Withheld"})
    /\ failed' = failed + Times({"Failed"})
    /\ out' = Append(out, [outcomes |-> outcomes, mark_ledger |-> mark_ledger])
    /\ done' = done + 1 /\ next' = 1 /\ routed' = 0
    /\ outcomes' = <<>> /\ mark_ledger' = <<>> /\ human_lane' = <<>>
    /\ UNCHANGED <<steps, status, laneVars>>

FinishStep ==
    /\ FanOutReturned
    /\ routed = Len(human_lane)
    /\ published' = published + Times({"Published", "PublishedWithDowngrade"})
    /\ withheld' = withheld + Times({"Withheld"})
    /\ failed' = failed + Times({"Failed"})
    /\ out' = Append(out, [outcomes |-> outcomes, mark_ledger |-> mark_ledger])
    /\ done' = done + 1 /\ next' = 1 /\ routed' = 0
    /\ outcomes' = <<>> /\ mark_ledger' = <<>> /\ human_lane' = <<>>
    /\ UNCHANGED <<steps, status, laneVars>>

Return ==
    /\ status = "running"
    /\ done = Len(steps)
    /\ status' = "returned"
    /\ UNCHANGED <<steps, done, next, report, routed, out, totals, laneVars>>

Next ==
    \/ \E d \in Dialect :
          PublishMarked(d) \/ PublishBare(d) \/ PublishFailed(d) \/ Withhold(d)
    \/ RouteToLane \/ FinishStep \/ Return

Spec == Init /\ [][Next]_vars

-----------------------------------------------------------------------------
\* concat_by_dialect: the steps whose bytes reach the stream of a sink.
Emits(s, d) == \E k \in DOMAIN out[s].outcomes :
    /\ out[s].outcomes[k].dialect = d
    /\ out[s].outcomes[k].kind \in {"Published", "PublishedWithDowngrade"}

(* Type invariant. *)
TypeOK ==
    /\ done \in 0..Len(steps) /\ next \in 1..(SINK_COUNT + 1)
    /\ routed \in 0..Len(human_lane)
    /\ human_lane \in Seq(Withholding)
    /\ published \in Nat /\ withheld \in Nat /\ failed \in Nat
    /\ status \in {"running", "returned"}

(* Whatever sinks fail, and wherever in the slice they stand, each step has *)
(* one outcome per sink, in the order of the slice: a failing sink takes no *)
(* other sink's delivery with it, and a run that returned left no step out. *)
EverySinkIsServed ==
    /\ \A s \in DOMAIN out :
          /\ Len(out[s].outcomes) = SINK_COUNT
          /\ \A k \in 1..SINK_COUNT : out[s].outcomes[k].dialect = Publishers[k]
    /\ status = "returned" => Len(out) = Len(steps)

LedgerStatus(s, d) ==
    LET ledger == out[s].mark_ledger
    IN  {ledger[j].status : j \in {i \in DOMAIN ledger : ledger[i].dialect = d}}

(* No trust field is lost in silence: what a step shows to a sink is a      *)
(* faithful MARK, or an OK envelope on a sink without MARK, or nothing; and *)
(* where it shows nothing, the ledger says Withheld or the outcome Failed.  *)
NoSilentTrustDrop ==
    \A s \in DOMAIN out : \A k \in DOMAIN out[s].outcomes :
        LET o == out[s].outcomes[k]
        IN  CASE o.kind = "Failed"   -> LedgerStatus(s, o.dialect) = {}
              [] o.kind = "Withheld" -> LedgerStatus(s, o.dialect) = {"Withheld"}
              [] OTHER ->
                    /\ LedgerStatus(s, o.dialect) = {steps[s].status}
                    /\ CarriesMarkStatus(o.dialect) \/ steps[s].status = "Ok"

(* Every withheld envelope of the run is in the lane, once, in the order it *)
(* was withheld, and unreviewed: the lane `run` makes is large enough never *)
(* to evict one.                                                            *)
WithheldReachLane ==
    LET held == {[dialect |-> d, step |-> s] : d \in Dialect, s \in DOMAIN out}
        missing == {w \in held : \E k \in DOMAIN out[w.step].outcomes :
                       out[w.step].outcomes[k] =
                           [kind |-> "Withheld", dialect |-> w.dialect]}
    IN  /\ evicted_total = 0
        /\ missing \subseteq {entries[i].evidence : i \in DOMAIN entries}
        /\ \A i, j \in DOMAIN entries :
              i < j => entries[i].evidence.step <= entries[j].evidence.step
        /\ status = "returned" => Len(entries) = withheld

(* The totals a run reports add up to steps times sinks, and `published` is *)
(* the number of outputs in the per-dialect streams.                        *)
TotalsAddUp ==
    /\ published + withheld + failed = done * SINK_COUNT
    /\ published = Cardinality({at \in (DOMAIN out) \X (1..SINK_COUNT) :
                                   Emits(at[1], Publishers[at[2]])})
=============================================================================
