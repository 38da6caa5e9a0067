-------------------------- MODULE FanOutRunProofs --------------------------
(***************************************************************************)
(* Proofs about the fan-out run, for every list of sinks, the same dialect *)
(* several times included, and step lists of any length.                   *)
(***************************************************************************)
EXTENDS FanOutRun, SequenceTheorems, FiniteSetTheorems, FunctionTheorems, TLAPS

(* What fan_out does with an envelope at a sink, and what its ledger shows. *)
Kind(d, e) ==
    IF ~CarriesMarkStatus(d) /\ IsNonOk(e) THEN "Withheld"
    ELSE IF Refuses(d, e) THEN "Failed"
    ELSE IF MarkViaNativeAnnotation(d) THEN "PublishedWithDowngrade"
    ELSE "Published"

Shown(d, e) == IF Kind(d, e) = "Withheld" THEN "Withheld" ELSE e.status

Kinds == {"Withheld", "Failed", "PublishedWithDowngrade", "Published"}

OutcomeOf(d, e) == [kind |-> Kind(d, e), dialect |-> d]

EntryOf(d, e) == [dialect |-> d, status |-> Shown(d, e)]

AnOutcome == [kind : Kinds, dialect : Dialect]

AnEntry == [dialect : Dialect, status : MarkStatus \cup {"Withheld"}]

(* A report after n sinks: an outcome for each, and an entry in the ledger for *)
(* exactly those that did not fail.                                            *)
ReportOf(os, ledger, e, n) ==
    /\ os \in Seq(AnOutcome) /\ Len(os) = n
    /\ \A k \in 1..n : os[k] = OutcomeOf(Publishers[k], e)
    /\ ledger \in Seq(AnEntry)
    /\ \A j \in 1..Len(ledger) : \E k \in 1..n :
          Kind(Publishers[k], e) # "Failed" /\ ledger[j] = EntryOf(Publishers[k], e)
    /\ \A k \in 1..n : Kind(Publishers[k], e) # "Failed" =>
          \E j \in 1..Len(ledger) : ledger[j] = EntryOf(Publishers[k], e)

Report == [outcomes : Seq(AnOutcome), mark_ledger : Seq(AnEntry)]

Progress ==
    /\ steps \in StepLists
    /\ done \in 0..Len(steps) /\ next \in 1..(SINK_COUNT + 1)
    /\ out \in Seq(Report) /\ Len(out) = done

FinishedReports ==
    \A s \in 1..done : ReportOf(out[s].outcomes, out[s].mark_ledger, steps[s], SINK_COUNT)

CurrentReport ==
    done < Len(steps) => ReportOf(outcomes, mark_ledger, Envelope, next - 1)

IInv == Progress /\ FinishedReports /\ CurrentReport

-----------------------------------------------------------------------------

(* The sinks and the steps are what the assumption says. *)
LEMMA Shapes ==
    /\ SINK_COUNT \in Nat /\ DOMAIN Publishers = 1..SINK_COUNT
    /\ \A k \in 1..SINK_COUNT : Publishers[k] \in Dialect
    /\ \A list \in StepLists : /\ Len(list) \in Nat /\ DOMAIN list = 1..Len(list)
                               /\ \A s \in 1..Len(list) : list[s] \in Step
<1>1. Publishers \in Seq(Dialect) /\ StepLists \subseteq Seq(Step)
  BY RunAssumption
<1>2. SINK_COUNT \in Nat /\ DOMAIN Publishers = 1..SINK_COUNT
  BY <1>1, LenProperties DEF SINK_COUNT
<1>3. \A k \in 1..SINK_COUNT : Publishers[k] \in Dialect
  BY <1>1, ElementOfSeq DEF SINK_COUNT
<1>4. ASSUME NEW list \in StepLists
      PROVE  /\ Len(list) \in Nat /\ DOMAIN list = 1..Len(list)
             /\ \A s \in 1..Len(list) : list[s] \in Step
  <2>1. list \in Seq(Step)
    BY <1>1
  <2>2. QED
    BY <2>1, LenProperties, ElementOfSeq
<1>5. QED
  BY <1>2, <1>3, <1>4

(* What a sink's turn adds is well formed. *)
LEMMA TurnTypes ==
    ASSUME NEW d \in Dialect, NEW e \in Step
    PROVE  OutcomeOf(d, e) \in AnOutcome /\ EntryOf(d, e) \in AnEntry
<1>1. Kind(d, e) \in Kinds
  BY DEF Kind, Kinds
<1>2. e.status \in MarkStatus
  BY DEF Step
<1>3. Shown(d, e) \in MarkStatus \cup {"Withheld"}
  BY <1>2 DEF Shown
<1>4. QED
  BY <1>1, <1>3 DEF OutcomeOf, EntryOf, AnOutcome, AnEntry

(* What an outcome and an entry of the ledger say. *)
LEMMA Fields ==
    \A d, e : /\ OutcomeOf(d, e).kind = Kind(d, e) /\ OutcomeOf(d, e).dialect = d
              /\ EntryOf(d, e).dialect = d /\ EntryOf(d, e).status = Shown(d, e)
BY DEF OutcomeOf, EntryOf

(* A report of no sink. *)
LEMMA EmptyReport == \A e : ReportOf(<<>>, <<>>, e, 0)
<1>1. <<>> \in Seq(AnOutcome) /\ <<>> \in Seq(AnEntry) /\ Len(<<>>) = 0
  OBVIOUS
<1>2. 1..0 = {}
  OBVIOUS
<1>3. QED
  BY <1>1, <1>2 DEF ReportOf

(* The turn of one more sink, with or without an entry in the ledger. *)
LEMMA NextSink ==
    ASSUME NEW n \in 0..(SINK_COUNT - 1), NEW e \in Step, NEW os, NEW ledger,
           ReportOf(os, ledger, e, n)
    PROVE  LET d == Publishers[n + 1] IN
           /\ Kind(d, e) = "Failed" => ReportOf(Append(os, OutcomeOf(d, e)), ledger, e, n + 1)
           /\ Kind(d, e) # "Failed" =>
                 ReportOf(Append(os, OutcomeOf(d, e)), Append(ledger, EntryOf(d, e)), e, n + 1)
<1> DEFINE d == Publishers[n + 1]
           os1 == Append(os, OutcomeOf(d, e))
           ledger1 == Append(ledger, EntryOf(d, e))
<1>1. n \in Nat /\ n + 1 \in 1..SINK_COUNT /\ n + 1 \in 1..(n + 1)
      /\ (\A k \in 1..n : k \in 1..(n + 1)) /\ (\A k \in 1..(n + 1) : k \in 1..n \/ k = n + 1)
  BY Shapes
<1>2. OutcomeOf(d, e) \in AnOutcome /\ EntryOf(d, e) \in AnEntry
  <2>1. d \in Dialect
    BY <1>1, Shapes
  <2>2. QED
    BY <2>1, TurnTypes
<1>3. os \in Seq(AnOutcome) /\ Len(os) = n /\ \A k \in 1..n : os[k] = OutcomeOf(Publishers[k], e)
  BY DEF ReportOf
<1>4. os1 \in Seq(AnOutcome) /\ Len(os1) = n + 1
      /\ (\A k \in 1..n : os1[k] = os[k]) /\ os1[n + 1] = OutcomeOf(d, e)
  BY <1>2, <1>3, AppendProperties
<1>5. \A k \in 1..(n + 1) : os1[k] = OutcomeOf(Publishers[k], e)
  BY <1>1, <1>3, <1>4
<1>6. /\ ledger \in Seq(AnEntry) /\ Len(ledger) \in Nat
      /\ \A j \in 1..Len(ledger) : \E k \in 1..n :
            Kind(Publishers[k], e) # "Failed" /\ ledger[j] = EntryOf(Publishers[k], e)
      /\ \A k \in 1..n : Kind(Publishers[k], e) # "Failed" =>
            \E j \in 1..Len(ledger) : ledger[j] = EntryOf(Publishers[k], e)
  BY LenProperties DEF ReportOf
<1> HIDE DEF os1
<1>7. ASSUME Kind(d, e) = "Failed" PROVE ReportOf(os1, ledger, e, n + 1)
  <2>1. \A j \in 1..Len(ledger) : \E k \in 1..(n + 1) :
            Kind(Publishers[k], e) # "Failed" /\ ledger[j] = EntryOf(Publishers[k], e)
    BY <1>1, <1>6
  <2>2. \A k \in 1..(n + 1) : Kind(Publishers[k], e) # "Failed" =>
            \E j \in 1..Len(ledger) : ledger[j] = EntryOf(Publishers[k], e)
    BY <1>1, <1>6, <1>7
  <2>3. QED
    BY <1>4, <1>5, <1>6, <2>1, <2>2 DEF ReportOf
<1>8. ASSUME Kind(d, e) # "Failed" PROVE ReportOf(os1, ledger1, e, n + 1)
  <2>1. ledger1 \in Seq(AnEntry) /\ Len(ledger1) = Len(ledger) + 1
        /\ (\A j \in 1..Len(ledger) : ledger1[j] = ledger[j]) /\ ledger1[Len(ledger) + 1] = EntryOf(d, e)
    BY <1>2, <1>6, AppendProperties
  <2>2. (\A j \in 1..Len(ledger1) : j \in 1..Len(ledger) \/ j = Len(ledger) + 1)
        /\ (\A j \in 1..Len(ledger) : j \in 1..Len(ledger1)) /\ Len(ledger) + 1 \in 1..Len(ledger1)
    BY <1>6, <2>1
  <2> HIDE DEF ledger1
  <2>3. \A j \in 1..Len(ledger1) : \E k \in 1..(n + 1) :
            Kind(Publishers[k], e) # "Failed" /\ ledger1[j] = EntryOf(Publishers[k], e)
    BY <1>1, <1>6, <1>8, <2>1, <2>2
  <2>4. \A k \in 1..(n + 1) : Kind(Publishers[k], e) # "Failed" =>
            \E j \in 1..Len(ledger1) : ledger1[j] = EntryOf(Publishers[k], e)
    BY <1>1, <1>6, <2>1, <2>2
  <2>5. QED
    BY <1>4, <1>5, <2>1, <2>3, <2>4 DEF ReportOf
<1>9. QED
  BY <1>7, <1>8 DEF os1

(* A run starts with a report of no sink. *)
LEMMA InitIInv == Init => IInv
<1> SUFFICES ASSUME Init PROVE IInv
  OBVIOUS
<1>1. steps \in StepLists /\ done = 0 /\ next = 1 /\ out = <<>>
      /\ outcomes = <<>> /\ mark_ledger = <<>>
  BY DEF Init
<1>2. Len(steps) \in Nat /\ SINK_COUNT \in Nat
  BY <1>1, Shapes
<1>3. Progress
  <2>1. out \in Seq(Report) /\ Len(out) = 0
    BY <1>1
  <2>2. 0 \in 0..Len(steps) /\ 1 \in 1..(SINK_COUNT + 1)
    BY <1>2
  <2>3. QED
    BY <1>1, <2>1, <2>2 DEF Progress
<1>4. FinishedReports
  <2>1. 1..done = {}
    BY <1>1
  <2>2. QED
    BY <2>1 DEF FinishedReports
<1>5. CurrentReport
  <2>1. next - 1 = 0
    BY <1>1
  <2>2. QED
    BY <1>1, <2>1, EmptyReport DEF CurrentReport
<1>6. QED
  BY <1>3, <1>4, <1>5 DEF IInv

(* The turn of a sink: whichever of the four it is, the report is that of one *)
(* sink more.                                                                 *)
LEMMA SinkIInv ==
    ASSUME IInv, NEW d \in Dialect,
           PublishMarked(d) \/ PublishBare(d) \/ PublishFailed(d) \/ Withhold(d)
    PROVE  IInv'
<1>1. /\ done < Len(steps) /\ next <= SINK_COUNT /\ d = Publishers[next] /\ next' = next + 1
      /\ steps' = steps /\ done' = done /\ out' = out
  BY DEF PublishMarked, PublishBare, PublishFailed, Withhold, AtPublisher
<1>2. /\ steps \in StepLists /\ done \in 0..Len(steps) /\ next \in 1..(SINK_COUNT + 1)
      /\ out \in Seq(Report) /\ Len(out) = done /\ SINK_COUNT \in Nat /\ Len(steps) \in Nat
  BY Shapes DEF IInv, Progress
<1>3. Envelope \in Step /\ Envelope' = Envelope
  <2>1. done + 1 \in 1..Len(steps)
    BY <1>1, <1>2
  <2>2. QED
    BY <1>1, <1>2, <2>1, Shapes DEF Envelope
<1>4. ReportOf(outcomes, mark_ledger, Envelope, next - 1)
  BY <1>1 DEF IInv, CurrentReport
<1>5. next - 1 \in 0..(SINK_COUNT - 1) /\ (next - 1) + 1 = next
  BY <1>1, <1>2
<1>6. /\ Kind(d, Envelope) = "Failed" =>
            ReportOf(Append(outcomes, OutcomeOf(d, Envelope)), mark_ledger, Envelope, next)
      /\ Kind(d, Envelope) # "Failed" =>
            ReportOf(Append(outcomes, OutcomeOf(d, Envelope)),
                     Append(mark_ledger, EntryOf(d, Envelope)), Envelope, next)
  <2> DEFINE n == next - 1
  <2>1. n \in 0..(SINK_COUNT - 1) /\ n + 1 = next /\ ReportOf(outcomes, mark_ledger, Envelope, n)
    BY <1>4, <1>5
  <2> HIDE DEF n
  <2>2. QED
    BY <1>1, <1>3, <2>1, NextSink
<1>7. ReportOf(outcomes', mark_ledger', Envelope, next)
  <2>1. CASE PublishMarked(d)
    <3>1. Kind(d, Envelope) # "Failed"
          /\ OutcomeOf(d, Envelope) = [kind |-> IF MarkViaNativeAnnotation(d) THEN "PublishedWithDowngrade"
                                                ELSE "Published", dialect |-> d]
          /\ EntryOf(d, Envelope) = [dialect |-> d, status |-> Envelope.status]
      BY <2>1 DEF PublishMarked, Kind, OutcomeOf, EntryOf, Shown
    <3>2. QED
      BY <1>6, <2>1, <3>1 DEF PublishMarked, Outcome, Ledger
  <2>2. CASE PublishBare(d)
    <3>1. ~MarkViaNativeAnnotation(d)
      BY <2>2 DEF PublishBare, MarkViaNativeAnnotation, CarriesMarkStatus
    <3>2. Kind(d, Envelope) # "Failed"
          /\ OutcomeOf(d, Envelope) = [kind |-> "Published", dialect |-> d]
          /\ EntryOf(d, Envelope) = [dialect |-> d, status |-> Envelope.status]
      BY <2>2, <3>1 DEF PublishBare, Kind, OutcomeOf, EntryOf, Shown
    <3>3. QED
      BY <1>6, <2>2, <3>2 DEF PublishBare, Outcome, Ledger
  <2>3. CASE PublishFailed(d)
    <3>1. Kind(d, Envelope) = "Failed" /\ OutcomeOf(d, Envelope) = [kind |-> "Failed", dialect |-> d]
      BY <2>3 DEF PublishFailed, Kind, OutcomeOf
    <3>2. QED
      BY <1>6, <2>3, <3>1 DEF PublishFailed, Outcome
  <2>4. CASE Withhold(d)
    <3>1. Kind(d, Envelope) # "Failed"
          /\ OutcomeOf(d, Envelope) = [kind |-> "Withheld", dialect |-> d]
          /\ EntryOf(d, Envelope) = [dialect |-> d, status |-> "Withheld"]
      BY <2>4 DEF Withhold, Kind, OutcomeOf, EntryOf, Shown
    <3>2. QED
      BY <1>6, <2>4, <3>1 DEF Withhold, Outcome, Ledger
  <2>5. QED
    BY <2>1, <2>2, <2>3, <2>4
<1>8. Progress'
  <2>1. next + 1 \in 1..(SINK_COUNT + 1)
    BY <1>1, <1>2
  <2>2. QED
    BY <1>1, <1>2, <2>1 DEF Progress, SINK_COUNT
<1>9. FinishedReports'
  BY <1>1 DEF IInv, FinishedReports, ReportOf, SINK_COUNT
<1>10. CurrentReport'
  <2>1. next' - 1 = next
    BY <1>1, <1>2
  <2>2. QED
    BY <1>3, <1>7, <2>1 DEF CurrentReport, ReportOf
<1>11. QED
  BY <1>8, <1>9, <1>10 DEF IInv

(* The report of a finished step is kept, and the next one starts empty. *)
LEMMA FinishStepIInv == ASSUME IInv, FinishStep PROVE IInv'
<1>1. /\ done < Len(steps) /\ next = SINK_COUNT + 1 /\ next' = 1 /\ done' = done + 1
      /\ steps' = steps /\ outcomes' = <<>> /\ mark_ledger' = <<>>
      /\ out' = Append(out, [outcomes |-> outcomes, mark_ledger |-> mark_ledger])
  BY DEF FinishStep, FanOutReturned
<1>2. /\ steps \in StepLists /\ done \in 0..Len(steps)
      /\ out \in Seq(Report) /\ Len(out) = done /\ SINK_COUNT \in Nat /\ Len(steps) \in Nat
  BY Shapes DEF IInv, Progress
<1>3. ReportOf(outcomes, mark_ledger, steps[done + 1], SINK_COUNT)
  <2>1. next - 1 = SINK_COUNT
    BY <1>1, <1>2
  <2>2. QED
    BY <1>1, <2>1 DEF IInv, CurrentReport, Envelope
<1>4. /\ out' \in Seq(Report) /\ Len(out') = done + 1
      /\ (\A s \in 1..done : out'[s] = out[s])
      /\ out'[done + 1] = [outcomes |-> outcomes, mark_ledger |-> mark_ledger]
  <2> DEFINE new == [outcomes |-> outcomes, mark_ledger |-> mark_ledger]
  <2>1. new \in Report
    BY <1>3 DEF ReportOf, Report
  <2> HIDE DEF new
  <2>2. out' = Append(out, new)
    BY <1>1 DEF new
  <2>3. out' \in Seq(Report) /\ Len(out') = done + 1 /\ (\A s \in 1..done : out'[s] = out[s])
        /\ out'[done + 1] = new
    BY <1>2, <2>1, <2>2, AppendProperties
  <2>4. QED
    BY <2>3 DEF new
<1>5. Progress'
  <2>1. done + 1 \in 0..Len(steps) /\ 1 \in 1..(SINK_COUNT + 1)
    BY <1>1, <1>2
  <2>2. QED
    BY <1>1, <1>2, <1>4, <2>1 DEF Progress, SINK_COUNT
<1>6. FinishedReports'
  <2>1. ASSUME NEW s \in 1..(done + 1)
        PROVE  ReportOf(out'[s].outcomes, out'[s].mark_ledger, steps[s], SINK_COUNT)
    <3>1. CASE s = done + 1
      BY <1>3, <1>4, <3>1
    <3>2. CASE s \in 1..done
      BY <1>4, <3>2 DEF IInv, FinishedReports
    <3>3. QED
      BY <1>2, <3>1, <3>2
  <2>2. QED
    BY <1>1, <2>1 DEF FinishedReports, ReportOf, SINK_COUNT
<1>7. CurrentReport'
  <2>1. next' - 1 = 0
    BY <1>1
  <2>2. QED
    BY <1>1, <2>1, EmptyReport DEF CurrentReport, ReportOf
<1>8. QED
  BY <1>5, <1>6, <1>7 DEF IInv

(* Every step of a run keeps the invariant; the lane does not touch reports. *)
LEMMA NextIInv == IInv /\ [Next]_vars => IInv'
<1>1. ASSUME IInv, UNCHANGED <<steps, done, next, report, out>> PROVE IInv'
  BY <1>1 DEF IInv, Progress, FinishedReports, CurrentReport, Envelope, ReportOf, report, SINK_COUNT
<1>2. ASSUME IInv, RouteToLane \/ Return \/ UNCHANGED vars PROVE IInv'
  BY <1>1, <1>2 DEF RouteToLane, Return, vars
<1>3. QED
  BY <1>2, SinkIInv, FinishStepIInv DEF Next

(* In every reachable state the reports are those of the sinks served so far. *)
THEOREM Invariance == Spec => []IInv
<1>1. QED
  BY InitIInv, NextIInv, PTL DEF Spec

-----------------------------------------------------------------------------
(* A run returns only after its last step. *)
ReturnsAtTheEnd == status \in {"running", "returned"} /\ (status = "returned" => done = Len(steps))

LEMMA EndInvariance == Spec => []ReturnsAtTheEnd
<1>1. Init => ReturnsAtTheEnd
  BY DEF Init, ReturnsAtTheEnd
<1>2. ReturnsAtTheEnd /\ [Next]_vars => ReturnsAtTheEnd'
  <2> SUFFICES ASSUME ReturnsAtTheEnd, [Next]_vars PROVE ReturnsAtTheEnd'
    OBVIOUS
  <2>1. ASSUME NEW d \in Dialect, AtPublisher(d) PROVE ReturnsAtTheEnd'
    BY <2>1 DEF AtPublisher, ReturnsAtTheEnd
  <2>2. CASE \E d \in Dialect : PublishMarked(d) \/ PublishBare(d) \/ PublishFailed(d) \/ Withhold(d)
    BY <2>1, <2>2 DEF PublishMarked, PublishBare, PublishFailed, Withhold
  <2>3. CASE RouteToLane
    BY <2>3 DEF RouteToLane, ReturnsAtTheEnd
  <2>4. CASE FinishStep
    BY <2>4 DEF FinishStep, FanOutReturned, ReturnsAtTheEnd
  <2>5. CASE Return
    BY <2>5 DEF Return, ReturnsAtTheEnd
  <2>6. CASE UNCHANGED vars
    BY <2>6 DEF vars, ReturnsAtTheEnd
  <2>7. QED
    BY <2>2, <2>3, <2>4, <2>5, <2>6 DEF Next
<1>3. QED
  BY <1>1, <1>2, PTL DEF Spec

(* Whatever sinks fail, and wherever they stand in the slice, every finished *)
(* step has one outcome per sink, in order: fan_out goes on after an error,  *)
(* and `run` goes on to the last step.                                       *)
THEOREM FailuresAreIsolated == Spec => []EverySinkIsServed
<1>1. IInv /\ ReturnsAtTheEnd => EverySinkIsServed
  <2> SUFFICES ASSUME IInv, ReturnsAtTheEnd PROVE EverySinkIsServed
    OBVIOUS
  <2>1. ASSUME NEW s \in DOMAIN out
        PROVE  /\ Len(out[s].outcomes) = SINK_COUNT
               /\ \A k \in 1..SINK_COUNT : out[s].outcomes[k].dialect = Publishers[k]
    <3>1. s \in 1..done
      BY <2>1, LenProperties DEF IInv, Progress
    <3>2. ReportOf(out[s].outcomes, out[s].mark_ledger, steps[s], SINK_COUNT)
      BY <3>1 DEF IInv, FinishedReports
    <3>3. Len(out[s].outcomes) = SINK_COUNT
          /\ \A k \in 1..SINK_COUNT : out[s].outcomes[k] = OutcomeOf(Publishers[k], steps[s])
      BY <3>2 DEF ReportOf
    <3>4. QED
      BY <3>3, Fields
  <2>2. status = "returned" => Len(out) = Len(steps)
    BY DEF IInv, Progress, ReturnsAtTheEnd
  <2>3. QED
    BY <2>1, <2>2 DEF EverySinkIsServed
<1>2. QED
  BY <1>1, Invariance, EndInvariance, PTL

(* What the ledger of a finished step says of a sink. *)
LEMMA LedgerShape ==
    ASSUME IInv, NEW s \in DOMAIN out, NEW k \in 1..SINK_COUNT
    PROVE  LedgerStatus(s, Publishers[k]) =
               IF Kind(Publishers[k], steps[s]) = "Failed" THEN {}
               ELSE {Shown(Publishers[k], steps[s])}
<1> DEFINE ledger == out[s].mark_ledger
           d == Publishers[k]
           e == steps[s]
<1>1. s \in 1..done
  BY LenProperties DEF IInv, Progress
<1>2. ReportOf(out[s].outcomes, ledger, e, SINK_COUNT)
  BY <1>1 DEF IInv, FinishedReports
<1>3. DOMAIN ledger = 1..Len(ledger)
  BY <1>2, LenProperties DEF ReportOf
<1>4. /\ \A j \in DOMAIN ledger : \E i \in 1..SINK_COUNT :
            Kind(Publishers[i], e) # "Failed" /\ ledger[j] = EntryOf(Publishers[i], e)
      /\ Kind(d, e) # "Failed" => \E j \in DOMAIN ledger : ledger[j] = EntryOf(d, e)
  BY <1>2, <1>3 DEF ReportOf
<1>5. /\ \A j \in DOMAIN ledger : ledger[j].dialect = d => Kind(d, e) # "Failed" /\ ledger[j].status = Shown(d, e)
      /\ Kind(d, e) # "Failed" => \E j \in DOMAIN ledger : ledger[j].dialect = d /\ ledger[j].status = Shown(d, e)
  BY <1>4, Fields
<1>6. LedgerStatus(s, d) = {ledger[j].status : j \in {i \in DOMAIN ledger : ledger[i].dialect = d}}
  BY DEF LedgerStatus
<1> HIDE DEF ledger, d, e
<1>7. LedgerStatus(s, d) = IF Kind(d, e) = "Failed" THEN {} ELSE {Shown(d, e)}
  BY <1>5, <1>6
<1>8. QED
  BY <1>7 DEF d, e

(* No trust field is lost in silence at any sink: what fan_out shows is the   *)
(* envelope's own status or, where it shows nothing, says so.                 *)
THEOREM TrustIsReported == Spec => []NoSilentTrustDrop
<1>1. IInv => NoSilentTrustDrop
  <2>1. SUFFICES ASSUME IInv, NEW s \in DOMAIN out, NEW k \in DOMAIN out[s].outcomes
        PROVE  LET o == out[s].outcomes[k]
               IN  CASE o.kind = "Failed"   -> LedgerStatus(s, o.dialect) = {}
                     [] o.kind = "Withheld" -> LedgerStatus(s, o.dialect) = {"Withheld"}
                     [] OTHER ->
                           /\ LedgerStatus(s, o.dialect) = {steps[s].status}
                           /\ CarriesMarkStatus(o.dialect) \/ steps[s].status = "Ok"
    BY DEF NoSilentTrustDrop
  <2> DEFINE d == Publishers[k]
             e == steps[s]
  <2>2. s \in 1..done
    BY <2>1, LenProperties DEF IInv, Progress
  <2>3. ReportOf(out[s].outcomes, out[s].mark_ledger, e, SINK_COUNT)
    BY <2>1, <2>2 DEF IInv, FinishedReports
  <2>4. k \in 1..SINK_COUNT
    BY <2>1, <2>3, LenProperties DEF ReportOf
  <2>5. out[s].outcomes[k].kind = Kind(d, e) /\ out[s].outcomes[k].dialect = d
    <3>1. out[s].outcomes[k] = OutcomeOf(d, e)
      BY <2>3, <2>4 DEF ReportOf
    <3>2. QED
      BY <3>1, Fields
  <2>6. LedgerStatus(s, d) = IF Kind(d, e) = "Failed" THEN {} ELSE {Shown(d, e)}
    BY <2>1, <2>4, LedgerShape
  <2> HIDE DEF d
  <2>7. CASE Kind(d, e) = "Failed"
    BY <2>5, <2>6, <2>7
  <2>8. CASE Kind(d, e) = "Withheld"
    BY <2>5, <2>6, <2>8 DEF Shown
  <2>9. CASE Kind(d, e) \notin {"Failed", "Withheld"}
    <3>1. CarriesMarkStatus(d) \/ e.status = "Ok"
      BY <2>9 DEF Kind, IsNonOk
    <3>2. QED
      BY <2>5, <2>6, <2>9, <3>1 DEF Shown
  <2>10. QED
    BY <2>7, <2>8, <2>9
<1>2. QED
  BY <1>1, Invariance, PTL

-----------------------------------------------------------------------------
(* Counting. *)

\* The first n sinks at which e ends as one of K.
EndAs(e, n, K) == {k \in 1..n : Kind(Publishers[k], e) \in K}

(* Of n sinks each ends in one way, and one more sink adds one way. *)
LEMMA Counting ==
    ASSUME NEW e, NEW n \in Nat, NEW K
    PROVE  /\ IsFiniteSet(EndAs(e, n, K)) /\ Cardinality(EndAs(e, n, K)) \in 0..n
           /\ EndAs(e, 0, K) = {}
           /\ Kind(Publishers[n + 1], e) \in K =>
                 Cardinality(EndAs(e, n + 1, K)) = Cardinality(EndAs(e, n, K)) + 1
           /\ Kind(Publishers[n + 1], e) \notin K =>
                 Cardinality(EndAs(e, n + 1, K)) = Cardinality(EndAs(e, n, K))
<1>1. IsFiniteSet(1..n) /\ Cardinality(1..n) = n
  BY FS_Interval
<1>2. EndAs(e, n, K) \in SUBSET (1..n)
  BY DEF EndAs
<1>3. IsFiniteSet(EndAs(e, n, K)) /\ Cardinality(EndAs(e, n, K)) <= n
      /\ Cardinality(EndAs(e, n, K)) \in Nat
  BY <1>1, <1>2, FS_Subset, FS_CardinalityType
<1>4. EndAs(e, 0, K) = {}
  BY DEF EndAs
<1>5. \A k \in 1..(n + 1) : k \in 1..n \/ k = n + 1
  OBVIOUS
<1>6. n + 1 \in 1..(n + 1) /\ n + 1 \notin 1..n /\ \A k \in 1..n : k \in 1..(n + 1)
  OBVIOUS
<1>7. CASE Kind(Publishers[n + 1], e) \in K
  <2>1. EndAs(e, n + 1, K) = EndAs(e, n, K) \cup {n + 1} /\ n + 1 \notin EndAs(e, n, K)
    BY <1>5, <1>6, <1>7 DEF EndAs
  <2>2. QED
    BY <2>1, <1>3, <1>4, <1>7, FS_AddElement
<1>8. CASE Kind(Publishers[n + 1], e) \notin K
  <2>1. EndAs(e, n + 1, K) = EndAs(e, n, K)
    BY <1>5, <1>6, <1>8 DEF EndAs
  <2>2. QED
    BY <2>1, <1>3, <1>4, <1>8
<1>9. QED
  BY <1>7, <1>8

Delivered == {"Published", "PublishedWithDowngrade"}

(* The size of two sets with nothing in common. *)
LEMMA DisjointUnion ==
    ASSUME NEW S, NEW T, IsFiniteSet(S), IsFiniteSet(T), S \cap T = {}
    PROVE  /\ IsFiniteSet(S \cup T)
           /\ Cardinality(S \cup T) = Cardinality(S) + Cardinality(T)
<1>1. Cardinality(S) \in Nat /\ Cardinality(T) \in Nat
  BY FS_CardinalityType
<1>2. IsFiniteSet(S \cup T)
      /\ Cardinality(S \cup T) = Cardinality(S) + Cardinality(T) - Cardinality(S \cap T)
  BY FS_Union
<1>3. Cardinality(S \cap T) = 0
  BY FS_EmptySet
<1>4. QED
  BY <1>1, <1>2, <1>3

(* Published, withheld and failed sinks together are all of them. *)
LEMMA ThreeEnds ==
    ASSUME NEW e, NEW n \in Nat
    PROVE  Cardinality(EndAs(e, n, Delivered)) + Cardinality(EndAs(e, n, {"Withheld"}))
              + Cardinality(EndAs(e, n, {"Failed"})) = n
<1> DEFINE P == EndAs(e, n, Delivered)
           W == EndAs(e, n, {"Withheld"})
           F == EndAs(e, n, {"Failed"})
<1>1. \A k \in 1..n : Kind(Publishers[k], e) \in Kinds
  BY DEF Kind, Kinds
<1>2. /\ (P \cup W) \cup F = 1..n
      /\ P \cap W = {} /\ (P \cup W) \cap F = {}
  BY <1>1 DEF EndAs, Kinds, Delivered
<1>3. IsFiniteSet(P) /\ IsFiniteSet(W) /\ IsFiniteSet(F)
  BY Counting
<1>4. Cardinality(1..n) = n
  BY FS_Interval
<1> HIDE DEF P, W, F
<1>5. IsFiniteSet(P \cup W) /\ Cardinality(P \cup W) = Cardinality(P) + Cardinality(W)
  BY <1>2, <1>3, DisjointUnion
<1>6. Cardinality((P \cup W) \cup F) = Cardinality(P \cup W) + Cardinality(F)
  BY <1>2, <1>3, <1>5, DisjointUnion
<1>7. Cardinality(P) + Cardinality(W) + Cardinality(F) = n
  BY <1>2, <1>4, <1>5, <1>6
<1>8. QED
  BY <1>7 DEF P, W, F

(* What Times counts in a full report. *)
LEMMA TimesMeaning ==
    ASSUME NEW e, NEW K, NEW n \in Nat, ReportOf(outcomes, mark_ledger, e, n)
    PROVE  Times(K) = Cardinality(EndAs(e, n, K))
<1>1. /\ DOMAIN outcomes = 1..n
      /\ \A k \in 1..n : outcomes[k].kind = Kind(Publishers[k], e)
  BY LenProperties, Fields DEF ReportOf
<1>2. {k \in DOMAIN outcomes : outcomes[k].kind \in K} = EndAs(e, n, K)
  BY <1>1 DEF EndAs
<1>3. QED
  BY <1>2 DEF Times

-----------------------------------------------------------------------------
(* The totals. *)

\* The steps and sinks whose bytes reached a stream in the first n steps.
Sent(n) == {at \in (1..n) \X (1..SINK_COUNT) :
               Kind(Publishers[at[2]], steps[at[1]]) \in Delivered}

Totals ==
    /\ published \in Nat /\ withheld \in Nat /\ failed \in Nat
    /\ published + withheld + failed = done * SINK_COUNT
    /\ IsFiniteSet(Sent(done)) /\ published = Cardinality(Sent(done))

(* A finished step adds its own deliveries to those of the steps before. *)
LEMMA SentNext ==
    ASSUME NEW n \in Nat, IsFiniteSet(Sent(n))
    PROVE  /\ IsFiniteSet(Sent(n + 1))
           /\ Cardinality(Sent(n + 1)) =
                Cardinality(Sent(n)) + Cardinality(EndAs(steps[n + 1], SINK_COUNT, Delivered))
<1> DEFINE E   == EndAs(steps[n + 1], SINK_COUNT, Delivered)
           New == {<<n + 1, k>> : k \in E}
           f   == [k \in E |-> <<n + 1, k>>]
<1>1. SINK_COUNT \in Nat
  BY Shapes
<1>2. E = {k \in 1..SINK_COUNT : Kind(Publishers[k], steps[n + 1]) \in Delivered}
  BY DEF EndAs
<1>3. IsFiniteSet(E)
  BY <1>1, Counting
<1>4. f \in [E -> New] /\ (\A t \in New : \E k \in E : f[k] = t)
      /\ \A j, k \in E : f[j] = f[k] => j = k
  <2> HIDE DEF E
  <2>1. QED
    OBVIOUS
<1>5. Sent(n + 1) = Sent(n) \cup New
  <2> HIDE DEF E
  <2>1. \A s \in 1..(n + 1) : s \in 1..n \/ s = n + 1
    OBVIOUS
  <2>2. (\A s \in 1..n : s \in 1..(n + 1)) /\ n + 1 \in 1..(n + 1)
    OBVIOUS
  <2>3. ASSUME NEW at \in Sent(n + 1) PROVE at \in Sent(n) \cup New
    <3>1. PICK s \in 1..(n + 1), k \in 1..SINK_COUNT :
              at = <<s, k>> /\ Kind(Publishers[k], steps[s]) \in Delivered
      BY DEF Sent
    <3>2. CASE s \in 1..n
      BY <3>1, <3>2 DEF Sent
    <3>3. CASE s = n + 1
      BY <1>2, <3>1, <3>3
    <3>4. QED
      BY <2>1, <3>2, <3>3
  <2>4. ASSUME NEW at \in Sent(n) PROVE at \in Sent(n + 1)
    BY <2>2 DEF Sent
  <2>5. ASSUME NEW at \in New PROVE at \in Sent(n + 1)
    BY <1>2, <2>2 DEF Sent
  <2>6. QED
    BY <2>3, <2>4, <2>5
<1>6. Sent(n) \cap New = {}
  <2> HIDE DEF E
  <2>1. \A at \in Sent(n) : at[1] \in 1..n
    BY DEF Sent
  <2>2. \A at \in New : at[1] = n + 1
    OBVIOUS
  <2>3. n + 1 \notin 1..n
    OBVIOUS
  <2>4. QED
    BY <2>1, <2>2, <2>3
<1> HIDE DEF New, E, f
<1>7. f \in Bijection(E, New)
  BY <1>4, Fun_IsBij
<1>8. IsFiniteSet(New) /\ Cardinality(New) = Cardinality(E)
  BY <1>3, <1>7, FS_Bijection, Fun_ExistsBij
<1>9. IsFiniteSet(Sent(n + 1))
      /\ Cardinality(Sent(n + 1)) = Cardinality(Sent(n)) + Cardinality(E)
  BY <1>5, <1>6, <1>8, DisjointUnion
<1>10. QED
  BY <1>9 DEF E

(* No step is finished in an initial state. *)
LEMMA InitTotals == Init => Totals
<1> SUFFICES ASSUME Init PROVE Totals
  OBVIOUS
<1>1. published = 0 /\ withheld = 0 /\ failed = 0 /\ done = 0 /\ SINK_COUNT \in Nat
  BY Shapes DEF Init
<1>2. Sent(done) = {}
  BY <1>1 DEF Sent
<1>3. QED
  BY <1>1, <1>2, FS_EmptySet DEF Totals

(* A finished step counts each of its sinks once. *)
LEMMA FinishTotals == ASSUME IInv, Totals, FinishStep PROVE Totals'
<1>1. /\ done < Len(steps) /\ next = SINK_COUNT + 1 /\ done' = done + 1 /\ steps' = steps
      /\ published' = published + Times(Delivered)
      /\ withheld' = withheld + Times({"Withheld"}) /\ failed' = failed + Times({"Failed"})
  BY DEF FinishStep, FanOutReturned, Delivered
<1>2. /\ done \in Nat /\ SINK_COUNT \in Nat /\ Len(steps) \in Nat
  BY Shapes DEF IInv, Progress
<1>3. ReportOf(outcomes, mark_ledger, Envelope, SINK_COUNT)
  <2>1. next - 1 = SINK_COUNT
    BY <1>1, <1>2
  <2>2. QED
    BY <1>1, <2>1 DEF IInv, CurrentReport
<1>4. \A K : Times(K) = Cardinality(EndAs(Envelope, SINK_COUNT, K))
             /\ Cardinality(EndAs(Envelope, SINK_COUNT, K)) \in Nat
  <2> TAKE K
  <2>1. Cardinality(EndAs(Envelope, SINK_COUNT, K)) \in 0..SINK_COUNT
    BY <1>2, Counting
  <2>2. QED
    BY <1>2, <1>3, <2>1, TimesMeaning
<1>5. Times(Delivered) + Times({"Withheld"}) + Times({"Failed"}) = SINK_COUNT
  BY <1>2, <1>4, ThreeEnds
<1>6. Times(Delivered) \in Nat /\ Times({"Withheld"}) \in Nat /\ Times({"Failed"}) \in Nat
  BY <1>4
<1>7. IsFiniteSet(Sent(done + 1))
      /\ Cardinality(Sent(done + 1)) = Cardinality(Sent(done)) + Times(Delivered)
  BY <1>2, <1>4, SentNext DEF Totals, Envelope
<1>8. Sent(done)' = Sent(done + 1)
  BY <1>1 DEF Sent, SINK_COUNT
<1>9. (done + 1) * SINK_COUNT = done * SINK_COUNT + SINK_COUNT
  BY <1>2
<1>10. done' * SINK_COUNT' = done * SINK_COUNT + SINK_COUNT
  BY <1>1, <1>9 DEF SINK_COUNT
<1>11. /\ published \in Nat /\ withheld \in Nat /\ failed \in Nat
       /\ published + withheld + failed = done * SINK_COUNT
  BY DEF Totals
<1>12. published' + withheld' + failed' = done' * SINK_COUNT'
  <2> DEFINE m == done * SINK_COUNT
             a == Times(Delivered)
             b == Times({"Withheld"})
             c == Times({"Failed"})
  <2>1. m \in Nat /\ a \in Nat /\ b \in Nat /\ c \in Nat /\ a + b + c = SINK_COUNT
    BY <1>2, <1>5, <1>6
  <2>2. published + withheld + failed = m
    BY <1>11
  <2>3. published' = published + a /\ withheld' = withheld + b /\ failed' = failed + c
        /\ done' * SINK_COUNT' = m + SINK_COUNT
    BY <1>1, <1>10
  <2> HIDE DEF m, a, b, c
  <2>4. (published + a) + (withheld + b) + (failed + c) = m + SINK_COUNT
    BY <1>2, <1>11, <2>1, <2>2
  <2>5. QED
    BY <2>3, <2>4
<1>13. published' \in Nat /\ withheld' \in Nat /\ failed' \in Nat
  <2>1. \A p, a \in Nat : p + a \in Nat
    OBVIOUS
  <2>2. QED
    BY <1>1, <1>6, <1>11, <2>1
<1>14. IsFiniteSet(Sent(done)') /\ published' = Cardinality(Sent(done)')
  BY <1>1, <1>7, <1>8 DEF Totals
<1>15. QED
  BY <1>12, <1>13, <1>14 DEF Totals

(* No other step touches the totals. *)
LEMMA NextTotals == IInv /\ Totals /\ [Next]_vars => Totals'
<1>1. ASSUME Totals, UNCHANGED <<steps, done, totals>> PROVE Totals'
  BY <1>1 DEF Totals, Sent, totals, SINK_COUNT
<1>2. ASSUME Totals,
             \/ \E d \in Dialect :
                   PublishMarked(d) \/ PublishBare(d) \/ PublishFailed(d) \/ Withhold(d)
             \/ RouteToLane \/ Return \/ UNCHANGED vars
      PROVE  Totals'
  BY <1>1, <1>2 DEF PublishMarked, PublishBare, PublishFailed, Withhold, AtPublisher,
                    RouteToLane, Return, vars
<1>3. QED
  BY <1>2, FinishTotals DEF Next

(* In every reachable state each sink of each finished step has been counted *)
(* once, and `published` counts what the per-dialect streams hold.           *)
THEOREM TotalsAreRight == Spec => []TotalsAddUp
<1>1. IInv /\ Totals => TotalsAddUp
  <2> SUFFICES ASSUME IInv, Totals PROVE TotalsAddUp
    OBVIOUS
  <2>1. SINK_COUNT \in Nat /\ DOMAIN out = 1..done
    BY Shapes, LenProperties DEF IInv, Progress
  <2>2. ASSUME NEW s \in 1..done, NEW k \in 1..SINK_COUNT
        PROVE  Emits(s, Publishers[k]) <=> Kind(Publishers[k], steps[s]) \in Delivered
    <3>1. ReportOf(out[s].outcomes, out[s].mark_ledger, steps[s], SINK_COUNT)
      BY DEF IInv, FinishedReports
    <3>2. DOMAIN out[s].outcomes = 1..SINK_COUNT
          /\ \A j \in 1..SINK_COUNT : out[s].outcomes[j] = OutcomeOf(Publishers[j], steps[s])
      BY <3>1, LenProperties DEF ReportOf
    <3>3. \A j \in 1..SINK_COUNT : /\ out[s].outcomes[j].dialect = Publishers[j]
                                   /\ out[s].outcomes[j].kind = Kind(Publishers[j], steps[s])
      BY <3>2, Fields
    <3>4. QED
      BY <3>2, <3>3 DEF Emits, Delivered
  <2>3. {at \in (DOMAIN out) \X (1..SINK_COUNT) : Emits(at[1], Publishers[at[2]])} = Sent(done)
    BY <2>1, <2>2 DEF Sent
  <2>4. QED
    BY <2>3 DEF Totals, TotalsAddUp
<1>2. Spec => [](IInv /\ Totals)
  BY InitIInv, NextIInv, InitTotals, NextTotals, PTL DEF Spec
<1>3. QED
  BY <1>1, <1>2, PTL

-----------------------------------------------------------------------------
(* The lane. *)

\* What sink k was not given of step s, as the lane keeps it.
Slip(k, s) == [dialect |-> Publishers[k], step |-> s]

Slips == [dialect : Dialect, step : Nat]

\* human_lane holds what the sinks served so far were not given.
Noted ==
    /\ human_lane \in Seq(Slips)
    /\ Len(human_lane) = Cardinality(EndAs(Envelope, next - 1, {"Withheld"}))
    /\ \A i \in 1..Len(human_lane) : human_lane[i].step = done + 1
    /\ \A k \in 1..(next - 1) : Kind(Publishers[k], Envelope) = "Withheld" =>
          \E i \in 1..Len(human_lane) : human_lane[i] = Slip(k, done + 1)
    /\ done = Len(steps) => human_lane = <<>>

\* The entries are what finished steps withheld, then what is routed of the
\* current one.
Held ==
    /\ entries \in Seq([evidence : Slips, sequence : Nat, acked : BOOLEAN,
                        owner : {current_owner}])
    /\ routed \in 0..Len(human_lane)
    /\ Len(entries) = withheld + routed
    /\ \A i \in 1..routed : entries[withheld + i].evidence = human_lane[i]
    /\ \A s \in 1..done : \A k \in 1..SINK_COUNT :
          Kind(Publishers[k], steps[s]) = "Withheld" =>
              \E i \in 1..Len(entries) : entries[i].evidence = Slip(k, s)
    /\ \A i \in 1..Len(entries) : entries[i].evidence.step <= done + 1
    /\ \A i, j \in 1..Len(entries) :
          i < j => entries[i].evidence.step <= entries[j].evidence.step

Roomy ==
    /\ capacity = LaneCapacity(steps) /\ evicted_total = 0 /\ next_sequence \in Nat
    /\ status = "returned" => done = Len(steps)

LaneInv == Noted /\ Held /\ Roomy

(* The lane starts empty. *)
LEMMA InitLane == Init => LaneInv
<1> SUFFICES ASSUME Init PROVE LaneInv
  OBVIOUS
<1>1. /\ human_lane = <<>> /\ entries = <<>> /\ routed = 0 /\ withheld = 0 /\ done = 0 /\ next = 1
      /\ capacity = LaneCapacity(steps) /\ evicted_total = 0 /\ next_sequence = 0
      /\ status = "running"
  BY DEF Init, Lane!Init
<1>2. 1..0 = {} /\ next - 1 = 0
  BY <1>1
<1>3. Noted
  <2>1. Cardinality(EndAs(Envelope, 0, {"Withheld"})) = 0
    BY Counting, FS_EmptySet
  <2>2. human_lane \in Seq(Slips) /\ Len(human_lane) = 0
    BY <1>1
  <2>3. QED
    BY <1>1, <1>2, <2>1, <2>2 DEF Noted
<1>4. Held
  <2>1. Len(entries) = 0 /\ Len(human_lane) = 0 /\ withheld + routed = 0 /\ 0 \in 0..0
    BY <1>1
  <2>2. entries \in Seq([evidence : Slips, sequence : Nat, acked : BOOLEAN, owner : {current_owner}])
    BY <1>1
  <2>3. QED
    BY <1>1, <1>2, <2>1, <2>2 DEF Held
<1>5. QED
  BY <1>1, <1>3, <1>4 DEF LaneInv, Roomy

(* What a sink was not given is noted, and nothing else is. *)
LEMMA SinkLane ==
    ASSUME IInv, Totals, LaneInv, NEW d \in Dialect,
           PublishMarked(d) \/ PublishBare(d) \/ PublishFailed(d) \/ Withhold(d)
    PROVE  LaneInv'
<1>1. /\ done < Len(steps) /\ next <= SINK_COUNT /\ d = Publishers[next] /\ next' = next + 1
      /\ steps' = steps /\ done' = done /\ routed' = routed /\ withheld' = withheld
      /\ status' = status /\ UNCHANGED laneVars
  BY DEF PublishMarked, PublishBare, PublishFailed, Withhold, AtPublisher, totals
<1>2. /\ done \in Nat /\ next \in 1..(SINK_COUNT + 1) /\ SINK_COUNT \in Nat /\ Len(steps) \in Nat
      /\ withheld \in Nat
  BY Shapes DEF IInv, Progress, Totals
<1>3. Envelope' = Envelope
  BY <1>1 DEF Envelope
<1>4. next - 1 \in Nat /\ (next - 1) + 1 = next /\ next' - 1 = next
      /\ \A k \in 1..next : k \in 1..(next - 1) \/ k = next
  BY <1>1, <1>2
<1>5. human_lane' = IF Kind(d, Envelope) = "Withheld" THEN Append(human_lane, Slip(next, done + 1))
                    ELSE human_lane
  <2>1. CASE Withhold(d)
    BY <1>1, <2>1 DEF Withhold, Kind, Slip
  <2>2. CASE PublishMarked(d) \/ PublishBare(d) \/ PublishFailed(d)
    BY <2>2 DEF PublishMarked, PublishBare, PublishFailed, Kind
  <2>3. QED
    BY <2>1, <2>2
<1>6. Cardinality(EndAs(Envelope, next, {"Withheld"}))
        = Len(human_lane) + IF Kind(d, Envelope) = "Withheld" THEN 1 ELSE 0
  <2> DEFINE n == next - 1
  <2>1. n \in Nat /\ n + 1 = next /\ Len(human_lane) = Cardinality(EndAs(Envelope, n, {"Withheld"}))
    BY <1>4 DEF LaneInv, Noted
  <2> HIDE DEF n
  <2>2. ASSUME NEW e, NEW K
        PROVE  Cardinality(EndAs(e, n + 1, K)) = IF Kind(Publishers[n + 1], e) \in K
                 THEN Cardinality(EndAs(e, n, K)) + 1 ELSE Cardinality(EndAs(e, n, K))
    <3>1. n \in Nat
      BY <2>1
    <3>2. QED
      BY <3>1, Counting
  <2>3. Cardinality(EndAs(Envelope, n + 1, {"Withheld"})) =
          IF Kind(Publishers[n + 1], Envelope) \in {"Withheld"}
          THEN Cardinality(EndAs(Envelope, n, {"Withheld"})) + 1
          ELSE Cardinality(EndAs(Envelope, n, {"Withheld"}))
    BY <2>2
  <2>4. Len(human_lane) \in Nat
    BY LenProperties DEF LaneInv, Noted
  <2>5. QED
    BY <1>1, <2>1, <2>3, <2>4
<1>7. /\ human_lane \in Seq(Slips) /\ Len(human_lane) \in Nat
      /\ \A i \in 1..Len(human_lane) : human_lane[i].step = done + 1
      /\ \A k \in 1..(next - 1) : Kind(Publishers[k], Envelope) = "Withheld" =>
            \E i \in 1..Len(human_lane) : human_lane[i] = Slip(k, done + 1)
  BY LenProperties DEF LaneInv, Noted
<1>8. Slip(next, done + 1) \in Slips /\ Slip(next, done + 1).step = done + 1
  BY <1>1, <1>2 DEF Slip, Slips
<1>9. /\ human_lane' \in Seq(Slips) /\ Len(human_lane') \in Nat
      /\ Len(human_lane') = Len(human_lane) + IF Kind(d, Envelope) = "Withheld" THEN 1 ELSE 0
      /\ \A i \in 1..Len(human_lane) : human_lane'[i] = human_lane[i]
      /\ Kind(d, Envelope) = "Withheld" => human_lane'[Len(human_lane) + 1] = Slip(next, done + 1)
  BY <1>5, <1>7, <1>8, AppendProperties
<1>10. /\ Len(human_lane) <= Len(human_lane')
       /\ (\A i \in 1..Len(human_lane) : i \in 1..Len(human_lane'))
       /\ \A i \in 1..Len(human_lane') :
             i \in 1..Len(human_lane) \/ (i = Len(human_lane) + 1 /\ Kind(d, Envelope) = "Withheld")
  BY <1>7, <1>9
<1>11. Noted'
  <2>1. \A i \in 1..Len(human_lane') : human_lane'[i].step = done + 1
    BY <1>7, <1>8, <1>9, <1>10
  <2>2. \A k \in 1..next : Kind(Publishers[k], Envelope) = "Withheld" =>
            \E i \in 1..Len(human_lane') : human_lane'[i] = Slip(k, done + 1)
    <3>1. ASSUME NEW k \in 1..(next - 1), Kind(Publishers[k], Envelope) = "Withheld"
          PROVE  \E i \in 1..Len(human_lane') : human_lane'[i] = Slip(k, done + 1)
      BY <1>7, <1>9, <1>10, <3>1
    <3>2. ASSUME Kind(d, Envelope) = "Withheld"
          PROVE  \E i \in 1..Len(human_lane') : human_lane'[i] = Slip(next, done + 1)
      <4>1. Len(human_lane) + 1 \in 1..Len(human_lane')
        BY <1>7, <1>9, <3>2
      <4>2. QED
        BY <1>9, <3>2, <4>1
    <3>3. QED
      BY <1>1, <1>4, <3>1, <3>2
  <2>3. Len(human_lane') = Cardinality(EndAs(Envelope, next, {"Withheld"}))
    BY <1>6, <1>9
  <2>4. (Cardinality(EndAs(Envelope, next - 1, {"Withheld"})))'
          = Cardinality(EndAs(Envelope, next, {"Withheld"}))
    BY <1>3, <1>4 DEF EndAs
  <2>5. done' = Len(steps') => human_lane' = <<>>
    BY <1>1, <1>2
  <2> DEFINE size == Cardinality(EndAs(Envelope, next - 1, {"Withheld"}))
  <2>6. Len(human_lane') = size'
    BY <2>3, <2>4
  <2>7. \A k \in 1..(next' - 1) : Kind(Publishers[k], Envelope') = "Withheld" =>
            \E i \in 1..Len(human_lane') : human_lane'[i] = Slip(k, done' + 1)
    BY <1>1, <1>3, <1>4, <2>2
  <2>8. QED
    BY <1>1, <1>9, <2>1, <2>5, <2>6, <2>7 DEF Noted, Slip
<1>12. Held'
  <2>1. routed \in 0..Len(human_lane')
    BY <1>7, <1>10 DEF LaneInv, Held
  <2>2. \A i \in 1..routed : entries[withheld + i].evidence = human_lane'[i]
    <3>1. \A i \in 1..routed : i \in 1..Len(human_lane)
      BY <1>7 DEF LaneInv, Held
    <3>2. QED
      BY <1>9, <3>1 DEF LaneInv, Held
  <2>3. QED
    BY <1>1, <2>1, <2>2 DEF LaneInv, Held, laneVars, SINK_COUNT, Slip
<1>13. Roomy'
  BY <1>1 DEF LaneInv, Roomy, laneVars, LaneCapacity, SINK_COUNT
<1>14. QED
  BY <1>11, <1>12, <1>13 DEF LaneInv

(* A longer run of sinks takes at least as much room. *)
LEMMA MoreSteps == \A a, b, c \in Nat : a <= b => a * c <= b * c
<1> SUFFICES ASSUME NEW a \in Nat, NEW b \in Nat, NEW c \in Nat, a <= b PROVE a * c <= b * c
  OBVIOUS
<1>1. b - a \in Nat /\ a + (b - a) = b
  OBVIOUS
<1>2. \A m \in Nat : (a + m) * c = a * c + m * c /\ a * c \in Nat /\ m * c \in Nat
  OBVIOUS
<1>3. b * c = a * c + (b - a) * c /\ a * c \in Nat /\ (b - a) * c \in Nat
  BY <1>1, <1>2
<1>4. QED
  BY <1>3

(* There is room for one more entry whenever there is one to route: `run`    *)
(* makes the lane for every step withheld at every sink.                     *)
LEMMA RoomForOne ==
    ASSUME IInv, Totals, LaneInv, done < Len(steps), routed < Len(human_lane)
    PROVE  Len(entries) + 1 <= capacity
<1>1. /\ done \in Nat /\ next \in 1..(SINK_COUNT + 1) /\ SINK_COUNT \in Nat /\ Len(steps) \in Nat
      /\ withheld \in Nat /\ published \in Nat /\ failed \in Nat
      /\ published + withheld + failed = done * SINK_COUNT
  BY Shapes DEF IInv, Progress, Totals
<1>2. Len(human_lane) <= next - 1 /\ Len(human_lane) \in Nat
  <2>1. next - 1 \in Nat
    BY <1>1
  <2>2. Cardinality(EndAs(Envelope, next - 1, {"Withheld"})) \in 0..(next - 1)
    BY <2>1, Counting
  <2>3. QED
    BY <2>1, <2>2 DEF LaneInv, Noted
<1>3. Len(entries) = withheld + routed /\ routed \in Nat /\ routed + 1 <= SINK_COUNT
  BY <1>1, <1>2 DEF LaneInv, Held
<1>4. withheld <= done * SINK_COUNT
  <2> DEFINE before == done * SINK_COUNT
  <2>1. before \in Nat /\ published + withheld + failed = before
    BY <1>1
  <2> HIDE DEF before
  <2>2. withheld <= before
    BY <1>1, <2>1
  <2>3. QED
    BY <2>2 DEF before
<1>5. done * SINK_COUNT + SINK_COUNT = (done + 1) * SINK_COUNT
  BY <1>1
<1>6. (done + 1) * SINK_COUNT <= Len(steps) * SINK_COUNT
  <2>1. done + 1 \in Nat /\ done + 1 <= Len(steps)
    BY <1>1
  <2>2. QED
    BY <1>1, <2>1, MoreSteps
<1>7. capacity = Len(steps) * SINK_COUNT
  BY <1>1 DEF LaneInv, Roomy, LaneCapacity, AtLeastOne
<1>8. QED
  <2> DEFINE before == done * SINK_COUNT
             all    == Len(steps) * SINK_COUNT
  <2>1. /\ before \in Nat /\ all \in Nat /\ before + SINK_COUNT <= all
        /\ withheld <= before /\ capacity = all
    BY <1>1, <1>4, <1>5, <1>6, <1>7
  <2> HIDE DEF before, all
  <2>2. withheld \in Nat /\ SINK_COUNT \in Nat
    BY <1>1
  <2>3. QED
    BY <1>3, <2>1, <2>2

(* An envelope that is routed is kept, behind all others. *)
LEMMA RouteLane == ASSUME IInv, Totals, LaneInv, RouteToLane PROVE LaneInv'
<1> DEFINE w   == human_lane[routed + 1]
           new == Lane!NewEntry(w)
<1>1. /\ done < Len(steps) /\ routed < Len(human_lane) /\ routed' = routed + 1
      /\ UNCHANGED <<steps, done, next, outcomes, mark_ledger, human_lane, published, withheld,
                     failed, status>>
      /\ Lane!Push(w)
  BY DEF RouteToLane, FanOutReturned, report, totals
<1>2. done \in Nat /\ Len(steps) \in Nat /\ SINK_COUNT \in Nat /\ withheld \in Nat
  BY Shapes DEF IInv, Progress, Totals
<1>3. /\ human_lane \in Seq(Slips) /\ Len(human_lane) \in Nat /\ routed \in Nat
      /\ routed + 1 \in 1..Len(human_lane)
      /\ \A i \in 1..Len(human_lane) : human_lane[i].step = done + 1
  BY <1>1, LenProperties DEF LaneInv, Noted, Held
<1>4. w \in Slips /\ w.step = done + 1
  BY <1>3, ElementOfSeq
<1>5. /\ next_sequence \in Nat /\ next_sequence' = next_sequence + 1
      /\ Lane!PushKept(w) \/ Lane!PushEvicting(w)
      /\ capacity' = capacity /\ current_owner' = current_owner
  BY <1>1 DEF Lane!Push, LaneInv, Roomy
<1>6. Len(entries) + 1 <= capacity /\ Len(entries) \in Nat /\ capacity \in Nat
  <2>1. Len(entries) + 1 <= capacity
    BY <1>1, RoomForOne
  <2>2. Len(entries) \in Nat
    BY LenProperties DEF LaneInv, Held
  <2>3. capacity = AtLeastOne(Len(steps)) * SINK_COUNT /\ AtLeastOne(Len(steps)) \in Nat
    BY <1>2 DEF LaneInv, Roomy, LaneCapacity, AtLeastOne
  <2>4. AtLeastOne(Len(steps)) * SINK_COUNT \in Nat
    BY <1>2, <2>3
  <2>5. QED
    BY <2>1, <2>2, <2>3, <2>4
<1>7. entries' = Append(entries, new) /\ evicted_total' = evicted_total
  BY <1>5, <1>6 DEF Lane!PushKept, Lane!PushEvicting
<1>8. new \in [evidence : Slips, sequence : Nat, acked : BOOLEAN, owner : {current_owner}]
      /\ new.evidence = w
  BY <1>4, <1>5 DEF Lane!NewEntry
<1> HIDE DEF new, w
<1>9. entries \in Seq([evidence : Slips, sequence : Nat, acked : BOOLEAN, owner : {current_owner}])
  BY DEF LaneInv, Held
<1>10. /\ entries' \in Seq([evidence : Slips, sequence : Nat, acked : BOOLEAN,
                            owner : {current_owner}])
       /\ Len(entries') = Len(entries) + 1
       /\ (\A i \in 1..Len(entries) : entries'[i] = entries[i]) /\ entries'[Len(entries) + 1] = new
  BY <1>7, <1>8, <1>9, AppendProperties
<1>11. /\ Len(entries') = withheld + (routed + 1) /\ Len(entries) = withheld + routed
       /\ (\A i \in 1..Len(entries) : i \in 1..Len(entries')) /\ Len(entries') \in 1..Len(entries')
       /\ \A i \in 1..Len(entries') : i \in 1..Len(entries) \/ i = Len(entries) + 1
  <2>1. Len(entries) = withheld + routed
    BY DEF LaneInv, Held
  <2> DEFINE n == Len(entries)
             m == Len(entries')
  <2>2. m = n + 1 /\ n \in Nat /\ n = withheld + routed /\ withheld \in Nat /\ routed \in Nat
    BY <1>2, <1>3, <1>6, <1>10, <2>1
  <2> HIDE DEF n, m
  <2>3. /\ m = withheld + (routed + 1)
        /\ (\A i \in 1..n : i \in 1..m) /\ m \in 1..m
        /\ \A i \in 1..m : i \in 1..n \/ i = n + 1
    BY <2>2
  <2>4. QED
    BY <2>2, <2>3 DEF n, m
<1>12. Noted'
  BY <1>1 DEF LaneInv, Noted, Envelope, EndAs, Slip
<1>13. Held'
  <2>1. \A i \in 1..(routed + 1) : entries'[withheld + i].evidence = human_lane[i]
    <3>1. ASSUME NEW i \in 1..routed PROVE entries'[withheld + i].evidence = human_lane[i]
      <4>1. withheld + i \in 1..Len(entries)
        BY <1>2, <1>3, <1>11
      <4>2. entries[withheld + i].evidence = human_lane[i]
        BY DEF LaneInv, Held
      <4>3. QED
        BY <1>10, <4>1, <4>2
    <3>2. entries'[withheld + (routed + 1)].evidence = human_lane[routed + 1]
      <4>1. withheld + (routed + 1) = Len(entries) + 1
        BY <1>2, <1>3, <1>11
      <4>2. QED
        BY <1>8, <1>10, <4>1 DEF w
    <3>3. \A i \in 1..(routed + 1) : i \in 1..routed \/ i = routed + 1
      BY <1>3
    <3>4. QED
      BY <3>1, <3>2, <3>3
  <2>2. ASSUME NEW s \in 1..done, NEW k \in 1..SINK_COUNT, Kind(Publishers[k], steps[s]) = "Withheld"
        PROVE  \E i \in 1..Len(entries') : entries'[i].evidence = Slip(k, s)
    <3>1. PICK i \in 1..Len(entries) : entries[i].evidence = Slip(k, s)
      BY <2>2 DEF LaneInv, Held
    <3>2. i \in 1..Len(entries') /\ entries'[i].evidence = Slip(k, s)
      BY <1>10, <1>11, <3>1
    <3>3. QED
      BY <3>2
  <2>3. (\A i \in 1..Len(entries) : entries[i].evidence.step <= done + 1)
        /\ \A i, j \in 1..Len(entries) : i < j => entries[i].evidence.step <= entries[j].evidence.step
    BY DEF LaneInv, Held
  <2>4. \A i \in 1..Len(entries') : entries'[i].evidence.step <= done + 1
    <3>1. new.evidence.step = done + 1 /\ done + 1 <= done + 1
      BY <1>2, <1>4, <1>8
    <3>2. QED
      BY <1>10, <1>11, <2>3, <3>1
  <2>5. ASSUME NEW i \in 1..Len(entries'), NEW j \in 1..Len(entries'), i < j
        PROVE  entries'[i].evidence.step <= entries'[j].evidence.step
    <3>1. i \in 1..Len(entries)
      BY <1>6, <1>10, <2>5
    <3>2. CASE j \in 1..Len(entries)
      BY <1>10, <2>3, <2>5, <3>1, <3>2
    <3>3. CASE j = Len(entries) + 1
      BY <1>4, <1>8, <1>10, <2>3, <3>1, <3>3
    <3>4. QED
      BY <1>11, <3>2, <3>3
  <2>6. routed + 1 \in 0..Len(human_lane)
    BY <1>3
  <2>7. entries' \in Seq([evidence : Slips, sequence : Nat, acked : BOOLEAN, owner : {current_owner'}])
    BY <1>5, <1>10
  <2>8. \A i, j \in 1..Len(entries') :
            i < j => entries'[i].evidence.step <= entries'[j].evidence.step
    BY <2>5
  <2>9. \A s \in 1..done : \A k \in 1..SINK_COUNT : Kind(Publishers[k], steps[s]) = "Withheld" =>
            \E i \in 1..Len(entries') : entries'[i].evidence = Slip(k, s)
    BY <2>2
  <2>10. Len(entries') = withheld + (routed + 1)
    BY <1>11
  <2>11. QED
    BY <1>1, <2>1, <2>4, <2>6, <2>7, <2>8, <2>9, <2>10 DEF Held, SINK_COUNT, Slip
<1>14. Roomy'
  <2>1. next_sequence + 1 \in Nat
    BY <1>5
  <2>2. QED
    BY <1>1, <1>5, <1>7, <2>1 DEF LaneInv, Roomy, LaneCapacity, SINK_COUNT
<1>15. QED
  BY <1>12, <1>13, <1>14 DEF LaneInv

(* What the finished step withheld is in the lane when the next one starts. *)
LEMMA FinishLane == ASSUME IInv, Totals, LaneInv, FinishStep PROVE LaneInv'
<1>1. /\ done < Len(steps) /\ next = SINK_COUNT + 1 /\ routed = Len(human_lane)
      /\ done' = done + 1 /\ next' = 1 /\ routed' = 0 /\ human_lane' = <<>>
      /\ withheld' = withheld + Times({"Withheld"})
      /\ steps' = steps /\ status' = status /\ UNCHANGED laneVars
  BY DEF FinishStep, FanOutReturned
<1>2. /\ done \in Nat /\ SINK_COUNT \in Nat /\ Len(steps) \in Nat /\ withheld \in Nat
  BY Shapes DEF IInv, Progress, Totals
<1>3. next - 1 = SINK_COUNT
  BY <1>1, <1>2
<1>4. Times({"Withheld"}) = Len(human_lane)
  <2>1. ReportOf(outcomes, mark_ledger, Envelope, SINK_COUNT)
    BY <1>1, <1>3 DEF IInv, CurrentReport
  <2>2. ASSUME NEW K PROVE Times(K) = Cardinality(EndAs(Envelope, SINK_COUNT, K))
    BY <1>2, <2>1, TimesMeaning
  <2>3. Len(human_lane) = Cardinality(EndAs(Envelope, SINK_COUNT, {"Withheld"}))
    BY <1>3 DEF LaneInv, Noted
  <2>4. QED
    BY <2>2, <2>3
<1>5. /\ entries \in Seq([evidence : Slips, sequence : Nat, acked : BOOLEAN,
                          owner : {current_owner}])
      /\ Len(entries) = withheld + routed /\ Len(human_lane) \in Nat /\ Len(entries) \in Nat
  BY LenProperties DEF LaneInv, Noted, Held
<1>6. Noted'
  <2>1. (Cardinality(EndAs(Envelope, next - 1, {"Withheld"})))' = 0
    <3>1. (EndAs(Envelope, next - 1, {"Withheld"}))' = {}
      BY <1>1 DEF EndAs
    <3>2. QED
      BY <3>1, FS_EmptySet
  <2>2. human_lane' \in Seq(Slips) /\ Len(human_lane') = 0 /\ 1..0 = {} /\ next' - 1 = 0
    BY <1>1
  <2> DEFINE size == Cardinality(EndAs(Envelope, next - 1, {"Withheld"}))
  <2>3. Len(human_lane') = size'
    BY <2>1, <2>2
  <2>4. \A k \in 1..(next' - 1) : Kind(Publishers[k], Envelope') = "Withheld" =>
            \E i \in 1..Len(human_lane') : human_lane'[i] = Slip(k, done' + 1)
    BY <2>2
  <2>5. \A i \in 1..Len(human_lane') : human_lane'[i].step = done' + 1
    BY <2>2
  <2>6. QED
    BY <1>1, <2>2, <2>3, <2>4, <2>5 DEF Noted, Slip
<1>7. Held'
  <2>1. \A s \in 1..(done + 1) : s \in 1..done \/ s = done + 1
    BY <1>2
  <2>2. ASSUME NEW s \in 1..(done + 1), NEW k \in 1..SINK_COUNT,
               Kind(Publishers[k], steps[s]) = "Withheld"
        PROVE  \E i \in 1..Len(entries) : entries[i].evidence = Slip(k, s)
    <3>1. CASE s \in 1..done
      BY <2>2, <3>1 DEF LaneInv, Held
    <3>2. CASE s = done + 1
      <4>1. PICK j \in 1..Len(human_lane) : human_lane[j] = Slip(k, done + 1)
        BY <1>3, <2>2, <3>2 DEF LaneInv, Noted, Envelope
      <4>2. entries[withheld + j].evidence = human_lane[j]
        BY <1>1 DEF LaneInv, Held
      <4>3. withheld + j \in 1..Len(entries)
        BY <1>1, <1>2, <1>5
      <4>4. QED
        BY <3>2, <4>1, <4>2, <4>3
    <3>3. QED
      BY <2>1, <3>1, <3>2
  <2>3. \A i \in 1..Len(entries) : entries[i].evidence.step <= (done + 1) + 1
    <3>1. ASSUME NEW i \in 1..Len(entries) PROVE entries[i].evidence.step <= (done + 1) + 1
      <4>1. entries[i].evidence.step <= done + 1
        BY DEF LaneInv, Held
      <4>2. entries[i] \in [evidence : Slips, sequence : Nat, acked : BOOLEAN,
                            owner : {current_owner}]
        BY <1>5, ElementOfSeq
      <4>3. entries[i].evidence.step \in Nat
        BY <4>2 DEF Slips
      <4>4. QED
        BY <1>2, <4>1, <4>3
    <3>2. QED
      BY <3>1
  <2>4. Len(entries) = withheld' + 0 /\ 0 \in 0..Len(human_lane') /\ 1..0 = {}
    BY <1>1, <1>2, <1>4, <1>5
  <2>5. \A i, j \in 1..Len(entries) : i < j => entries[i].evidence.step <= entries[j].evidence.step
    BY DEF LaneInv, Held
  <2>6. \A s \in 1..(done + 1) : \A k \in 1..SINK_COUNT :
            Kind(Publishers[k], steps[s]) = "Withheld" =>
                \E i \in 1..Len(entries) : entries[i].evidence = Slip(k, s)
    BY <2>2
  <2>7. entries' = entries /\ current_owner' = current_owner
    BY <1>1 DEF laneVars
  <2>8. QED
    BY <1>1, <1>5, <2>3, <2>4, <2>5, <2>6, <2>7 DEF Held, SINK_COUNT, Slip
<1>8. Roomy'
  <2>1. status # "returned"
    BY DEF FinishStep, FanOutReturned
  <2>2. QED
    BY <1>1, <2>1 DEF LaneInv, Roomy, laneVars, LaneCapacity, SINK_COUNT
<1>9. QED
  BY <1>6, <1>7, <1>8 DEF LaneInv

(* Every step of a run keeps the invariant of the lane. *)
LEMMA NextLane == IInv /\ Totals /\ LaneInv /\ [Next]_vars => LaneInv'
<1>1. ASSUME LaneInv, UNCHANGED <<steps, done, next, human_lane, routed, withheld, laneVars>>,
             status' = status \/ done = Len(steps)
      PROVE  LaneInv'
  BY <1>1 DEF LaneInv, Noted, Held, Roomy, Envelope, EndAs, Slip, laneVars, LaneCapacity, SINK_COUNT
<1>2. ASSUME LaneInv, Return \/ UNCHANGED vars PROVE LaneInv'
  BY <1>1, <1>2 DEF Return, vars, report, totals
<1>3. QED
  BY <1>2, SinkLane, RouteLane, FinishLane DEF Next

(* In every reachable state the lane holds each withheld envelope of the      *)
(* finished steps, in the order of the steps, and none was evicted: at its    *)
(* end it holds as many as the run reports withheld.                          *)
THEOREM LaneIsLargeEnough == Spec => []WithheldReachLane
<1>1. IInv /\ Totals /\ LaneInv => WithheldReachLane
  <2> SUFFICES ASSUME IInv, Totals, LaneInv PROVE WithheldReachLane
    OBVIOUS
  <2>1. /\ evicted_total = 0
        /\ entries \in Seq([evidence : Slips, sequence : Nat, acked : BOOLEAN,
                            owner : {current_owner}])
        /\ \A i, j \in 1..Len(entries) :
              i < j => entries[i].evidence.step <= entries[j].evidence.step
    BY DEF LaneInv, Roomy, Held
  <2>2. SINK_COUNT \in Nat /\ DOMAIN out = 1..done /\ DOMAIN entries = 1..Len(entries)
    BY <2>1, Shapes, LenProperties DEF IInv, Progress
  <2>3. ASSUME NEW d \in Dialect, NEW s \in DOMAIN out, NEW k \in DOMAIN out[s].outcomes,
               out[s].outcomes[k] = [kind |-> "Withheld", dialect |-> d]
        PROVE  \E i \in DOMAIN entries : entries[i].evidence = [dialect |-> d, step |-> s]
    <3>1. ReportOf(out[s].outcomes, out[s].mark_ledger, steps[s], SINK_COUNT)
      BY <2>2 DEF IInv, FinishedReports
    <3>2. k \in 1..SINK_COUNT
      BY <3>1, LenProperties DEF ReportOf
    <3>3. out[s].outcomes[k] = OutcomeOf(Publishers[k], steps[s])
      BY <3>1, <3>2 DEF ReportOf
    <3>4. Kind(Publishers[k], steps[s]) = "Withheld" /\ Publishers[k] = d
      BY <2>3, <3>3 DEF OutcomeOf
    <3>5. \E i \in 1..Len(entries) : entries[i].evidence = Slip(k, s)
      BY <2>2, <3>2, <3>4 DEF LaneInv, Held
    <3>6. QED
      BY <2>2, <3>4, <3>5 DEF Slip
  <2>4. status = "returned" => Len(entries) = withheld
    <3>1. ASSUME status = "returned" PROVE Len(entries) = withheld
      <4>1. human_lane = <<>>
        BY <3>1 DEF LaneInv, Roomy, Noted
      <4>2. routed = 0 /\ Len(entries) = withheld + routed /\ withheld \in Nat
        BY <4>1 DEF LaneInv, Held, Totals
      <4>3. QED
        BY <4>2
    <3>2. QED
      BY <3>1
  <2> DEFINE held == {[dialect |-> d, step |-> s] : d \in Dialect, s \in DOMAIN out}
             missing == {w \in held : \E k \in DOMAIN out[w.step].outcomes :
                           out[w.step].outcomes[k] = [kind |-> "Withheld", dialect |-> w.dialect]}
  <2>5. missing \subseteq {entries[i].evidence : i \in DOMAIN entries}
    <3>1. ASSUME NEW w \in missing PROVE w \in {entries[i].evidence : i \in DOMAIN entries}
      <4>1. PICK d \in Dialect, s \in DOMAIN out : w = [dialect |-> d, step |-> s]
        BY <3>1
      <4>2. \E k \in DOMAIN out[s].outcomes :
                out[s].outcomes[k] = [kind |-> "Withheld", dialect |-> d]
        BY <3>1, <4>1
      <4>3. \E i \in DOMAIN entries : entries[i].evidence = w
        BY <2>3, <4>1, <4>2
      <4>4. QED
        BY <4>3
    <3>2. QED
      BY <3>1
  <2>6. \A i, j \in DOMAIN entries :
            i < j => entries[i].evidence.step <= entries[j].evidence.step
    BY <2>1, <2>2
  <2>7. QED
    BY <2>1, <2>4, <2>5, <2>6 DEF WithheldReachLane
<1>2. Spec => [](IInv /\ Totals /\ LaneInv)
  BY InitIInv, NextIInv, InitTotals, NextTotals, InitLane, NextLane, PTL DEF Spec
<1>3. QED
  BY <1>1, <1>2, PTL

(* Type correctness. *)
THEOREM TypesAreRight == Spec => []TypeOK
<1>1. Spec => [](status \in {"running", "returned"})
  <2>1. Init => status \in {"running", "returned"}
    BY DEF Init
  <2>2. status \in {"running", "returned"} /\ [Next]_vars => (status \in {"running", "returned"})'
    BY DEF Next, PublishMarked, PublishBare, PublishFailed, Withhold, AtPublisher, RouteToLane,
           FinishStep, Return, vars
  <2>3. QED
    BY <2>1, <2>2, PTL DEF Spec
<1>2. IInv /\ Totals /\ LaneInv /\ status \in {"running", "returned"} => TypeOK
  <2> SUFFICES ASSUME IInv, Totals, LaneInv, status \in {"running", "returned"} PROVE TypeOK
    OBVIOUS
  <2>1. /\ steps \in StepLists /\ done \in 0..Len(steps) /\ next \in 1..(SINK_COUNT + 1)
        /\ Len(steps) \in Nat /\ DOMAIN steps = 1..Len(steps)
    BY Shapes DEF IInv, Progress
  <2>2. human_lane \in Seq(Slips) /\ DOMAIN human_lane = 1..Len(human_lane)
        /\ human_lane = [i \in 1..Len(human_lane) |-> human_lane[i]] /\ Len(human_lane) \in Nat
    BY LenProperties DEF LaneInv, Noted
  <2>3. ASSUME NEW i \in 1..Len(human_lane) PROVE human_lane[i] \in Withholding
    <3>1. human_lane[i] \in Slips /\ human_lane[i].step = done + 1
      BY <2>2, ElementOfSeq DEF LaneInv, Noted
    <3>2. done # Len(steps)
      BY <2>3 DEF LaneInv, Noted
    <3>3. done + 1 \in 1..Len(steps)
      <4>1. done \in 0..Len(steps) /\ Len(steps) \in Nat
        BY <2>1
      <4>2. QED
        BY <3>2, <4>1
    <3>4. QED
      BY <2>1, <3>1, <3>3 DEF Slips, Withholding
  <2>4. human_lane \in Seq(Withholding)
    BY <2>2, <2>3, SeqDef
  <2>5. published \in Nat /\ withheld \in Nat /\ failed \in Nat
    BY DEF Totals
  <2>6. routed \in 0..Len(human_lane)
    BY DEF LaneInv, Held
  <2>7. QED
    BY <2>1, <2>4, <2>5, <2>6 DEF TypeOK
<1>3. Spec => [](IInv /\ Totals /\ LaneInv)
  BY InitIInv, NextIInv, InitTotals, NextTotals, InitLane, NextLane, PTL DEF Spec
<1>4. QED
  BY <1>1, <1>2, <1>3, PTL
=============================================================================
