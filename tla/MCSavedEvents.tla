---------------------------- MODULE MCSavedEvents ----------------------------
(***************************************************************************)
(* A small instance of the converters that draw a conclusion from several  *)
(* records and of the readers' scans: SavedEvents and ReaderScans, one     *)
(* converter per behaviour, and RequestMatch as one more.  Times, values   *)
(* and names are the few that tell the conditions apart; MaxRecords and    *)
(* MaxMatchRows bound a file.                                              *)
(***************************************************************************)
EXTENDS SavedEvents, ReaderScans, RequestMatch

Condition(downward, limit, release, duration, maxGap, sag) ==
    [downward |-> downward, limit |-> limit, release |-> release, duration |-> duration,
     window |-> 2, maxGap |-> maxGap, sag |-> sag, signed |-> FALSE, basis |-> Absent,
     clock |-> "known"]

SignedSurge == [Condition(FALSE, 1, Absent, FALSE, Absent, FALSE)
                   EXCEPT !.window = 1, !.signed = TRUE, !.basis = "a"]

Conditions ==
    {Condition(TRUE, 2, 3, FALSE, 2, TRUE), Condition(TRUE, 2, Absent, TRUE, 2, TRUE),
     Condition(FALSE, 1, 0, TRUE, 2, FALSE), Condition(FALSE, 1, Absent, FALSE, Absent, FALSE),
     SignedSurge}

\* Two frozen rules, a required field, and a window that cuts records off.
Expectation(frozen, selected, required, only) ==
    [threshold |-> 2, frozen |-> frozen, selected |-> selected, required |-> required,
     from |-> 1, until |-> 6, only |-> only, basis |-> "host"]

Expectations ==
    {Expectation(Absent, FALSE, FALSE, FALSE), Expectation(Absent, FALSE, TRUE, TRUE),
     Expectation(2, TRUE, FALSE, FALSE), Expectation(1, FALSE, FALSE, TRUE),
     Expectation(2, TRUE, TRUE, TRUE)}

Scans == {"absences", "observation grid", "nesting"}

(* What each converter may be given: its declaration and the records.          *)
Declared ==
    ("electrical events" :> Conditions) @@
    ("state transitions" :>
        {[span |-> Absent, recordingEnd |-> Absent], [span |-> 2, recordingEnd |-> 4]}) @@
    ("detector intervals" :> {{"black", "freeze"}, {"black"}}) @@
    ("observation age" :> {[evaluation |-> 3, maximum |-> 1, subject |-> "s", clock |-> "c"]}) @@
    ("row identity" :> {Absent}) @@
    ("identifier uniqueness" :> {[windows |-> <<{"a"}, {"b", "c"}>>, subject |-> "p"]}) @@
    ("software version" :> {[source |-> "a", name |-> "n", expected |-> {"1", "2"}]}) @@
    ("gateway link" :> {Absent}) @@
    ("absences" :> Expectations) @@
    ("observation grid" :> {[from |-> 0, until |-> 6, stride |-> 2, cadence |-> <<1, 2>>]}) @@
    ("nesting" :> {1, 2})

Records ==
    ("electrical events" :>
        [time : {0, 1, 3, 4}, value : {Absent, 1, 2, 3}, basis : {"a"}] \cup
        [time : {1}, value : {1}, basis : {"b"}]) @@
    ("state transitions" :> [time : 0..3, subject : {"x", "y"}, value : {Absent, "on", "off"}]) @@
    ("detector intervals" :>
        [pts : {0, 1}, selected : {TRUE}, black : {Absent, "start", "end"},
         frozen : {Absent, 0}, thawed : BOOLEAN] \cup
        [pts : {Absent}, selected : {FALSE}, black : {Absent}, frozen : {Absent},
         thawed : {FALSE}]) @@
    ("observation age" :>
        [time : {Absent, 0, 2, 4}, subject : {"s"}, clock : {"c"}] \cup
        [time : {2}, subject : {"s", Absent, "t"}, clock : {"d", Absent}]) @@
    ("row identity" :> [time : 0..1, run : {"r"}, entity : {Absent, "e"}]) @@
    ("identifier uniqueness" :>
        [paired : {TRUE}, source : {"a", "b"}, pin : {"p", "q", Absent}, name : {"n", "m"},
         carried : {1, 2}, bound : {2}] \cup
        [paired : BOOLEAN, source : {"c"}, pin : {"p"}, name : {"n", Absent}, carried : {1},
         bound : {1}]) @@
    ("software version" :>
        [paired : BOOLEAN, source : {"a"}, name : {"n", "o", Absent},
         version : {"1", "3", Absent}]) @@
    ("gateway link" :>
        [ifindex : 1..2, oper : {{}, {"name"}, {"name", "index"}},
         kinds : {{}, {"stats"}, {"stats", "stats64"}}]) @@
    ("absences" :>
        [time : {0, 1, 3, 4, 6}, channel : {"own"}, value : {Absent, 1, 2}, stale : {FALSE},
         basis : {"host"}] \cup
        [time : {3, 4}, channel : {"own"}, value : {1}, stale : {TRUE}, basis : {"host"}] \cup
        [time : {4}, channel : {"own"}, value : {1}, stale : {FALSE},
         basis : {"source", "unknown"}] \cup
        [time : {3}, channel : {"other"}, value : {1}, stale : {FALSE}, basis : {"host"}]) @@
    ("observation grid" :>
        [source : 1..2, wall : {Absent, 0, 1, 3, 4}, positioned : {TRUE}] \cup
        [source : 1..2, wall : {2}, positioned : BOOLEAN]) @@
    ("nesting" :> {"open", "close", "quote", "backslash", "other"})

RecordBound ==
    [c \in DOMAIN Records |->
        CASE c \in {"state transitions", "observation age", "row identity", "identifier uniqueness",
              "software version", "gateway link"} -> 3
          [] c \in {"electrical events", "detector intervals", "observation grid"} -> 4
          [] c = "nesting" -> 6
          [] c = "absences" -> 3
          [] OTHER -> 2]

Step(r) ==
    \/ EventStep(r)
    \/ converter = "absences" /\ Observe(r)
    \/ converter = "observation grid" /\ Locate(r)
    \/ converter = "nesting" /\ NestingByte(r)

End ==
    \/ EventEnd
    \/ converter = "absences" /\ AbsencesEnd
    \/ converter = "observation grid" /\ GridEnd
    \/ converter = "nesting" /\ NestingEnd

-----------------------------------------------------------------------------
(* The rows and declarations of RequestMatch. *)
MatchRow(time, role, key, id, session, terminal) ==
    [time |-> time, roles |-> {role}, key |-> key, id |-> id, session |-> session,
     index |-> Sentinel, confirmed |-> FALSE, terminal |-> terminal, compared |-> "equal"]

Sentinel_1 == -1

SomeMatchRows ==
    {MatchRow(t, "request", k, "a", "s", TRUE) : t \in 0..3, k \in {"k", "l"}}
    \cup {MatchRow(t, "response", "k", "a", "s", b) : t \in 0..3, b \in BOOLEAN}
    \cup {MatchRow(t, "response", "k", "b", "s", TRUE) : t \in 0..3}
    \cup {MatchRow(t, "response", "k", "a", "z", TRUE) : t \in 0..3}
    \cup {MatchRow(2, "response", "k", "", "s", TRUE), MatchRow(2, "response", "k", "a", "", TRUE),
          MatchRow(1, "request", "k", "", "s", TRUE), MatchRow(1, "request", "", "a", "s", TRUE)}

Declares(ack, expects) ==
    [window |-> 2, clock |-> TRUE, identity |-> "complete", session |-> TRUE, index |-> ~ack,
     ack |-> ack, expects |-> expects]

SomeDeclarations == {Declares(TRUE, TRUE), Declares(FALSE, FALSE)}

-----------------------------------------------------------------------------
Init ==
    /\ fed = <<>> /\ lines = <<>> /\ passed = <<>> /\ keys = {} /\ verdict = "reading"
    /\ \/ /\ converter \in DOMAIN Declared /\ declared \in Declared[converter]
          /\ mDeclared = Absent /\ mRows = <<>> /\ mOutcomes = <<>> /\ mVerdict = "reading"
       \/ converter = "request match" /\ declared = Absent /\ MatchInit
    /\ held = IF converter = "nesting" THEN NestingStart ELSE EventStart

Next ==
    \/ converter = "request match" /\ MatchNext /\ UNCHANGED linesVars
    \/ /\ converter # "request match" /\ UNCHANGED mVars
       /\ \/ \E r \in Records[converter] : Taking(r) /\ Step(r)
          \/ converter = "nesting" /\ \E r \in Records[converter] : NestingExceeded(r)
          \/ End
          \/ converter \notin Scans /\ Refuse

Spec == Init /\ [][Next]_<<linesVars, mVars>>
=============================================================================
