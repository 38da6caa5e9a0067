---------------------------- MODULE RequestMatch ----------------------------
(***************************************************************************)
(* Which saved response answers which saved request                        *)
(* (scripts/convert_request_response_match.py).  Rows are read in file     *)
(* order with non-decreasing times; every selected request gets exactly    *)
(* one outcome, and any doubt makes it AMBIGUOUS before matching starts.   *)
(*                                                                         *)
(* A row is [time, roles, key, id, session, index, confirmed, terminal,    *)
(* compared]: roles are the selectors it satisfies, Blank is an empty      *)
(* cell, confirmed and terminal are the ACK mode's confirmation # 0 and    *)
(* final result, compared is what the expectation pairs give against any   *)
(* request: "equal", "differs" or "blank".                                 *)
(***************************************************************************)
EXTENDS Integers, Sequences, FiniteSets, SequencesExt

CONSTANTS Blank, Sentinel,   \* an empty cell; the -1 index
          MatchRows,         \* rows a saved file may hold
          Declarations,      \* what the caller declares
          MaxMatchRows       \* bound: rows of a file

(* read_rows and convert refuse any other time and any other window. *)
ASSUME MatchAssumption ==
    /\ \A r \in MatchRows : r.time \in Nat
    /\ \A d \in Declarations : d.window \in Nat \ {0}

VARIABLES mDeclared,   \* [window, clock, identity, session, index, ack, expects]
          mRows,       \* the saved rows read so far
          mOutcomes,   \* function: request position -> [outcome, reasons, answer]
          mVerdict     \* "reading", "refused" or "converted"

mVars == <<mDeclared, mRows, mOutcomes, mVerdict>>

Requests  == {i \in DOMAIN mRows : "request" \in mRows[i].roles}
Responses == {i \in DOMAIN mRows : "response" \in mRows[i].roles}

Session(i) == IF mDeclared.session THEN mRows[i].session ELSE "undeclared"
Identity(i) == IF mDeclared.identity = "undeclared" THEN "undeclared" ELSE mRows[i].id
Party(i)   == <<Identity(i), Session(i)>>

(* The indexes of the single pass: identity is asked first, then the session. *)
BlankIdentity(i) == Identity(i) = Blank
BlankSession(i)  == ~BlankIdentity(i) /\ Session(i) = Blank
Reports(i)       == ~BlankIdentity(i) /\ ~BlankSession(i)

(* how_many: strictly after one time and up to another. *)
Between(S, after, upto) == {j \in S : after < mRows[j].time /\ mRows[j].time <= upto}

Until(i) == mRows[i].time + mDeclared.window

OfKey(i)   == {j \in Responses : mRows[j].key = mRows[i].key /\ mRows[i].key # Blank}
Answers(i) == {j \in OfKey(i) : Reports(j) /\ Party(j) = Party(i)}
Candidates(i) == Between(Answers(i), mRows[i].time, Until(i))

(* Progress and unknown results cannot clear an earlier request in the ACK mode. *)
Clearing(i) == IF mDeclared.ack
               THEN {j \in Responses : /\ mRows[j].terminal /\ mRows[j].key = mRows[i].key
                                       /\ Reports(j) /\ Party(j) = Party(i)}
               ELSE Answers(i)

Peers(i) == {j \in Requests \ {i} : mRows[j].key = mRows[i].key /\ Party(j) = Party(i)}

(* The latest other request at or before this one settles the class. *)
MutantOutstanding(i) ==  \* the earliest other request
    \E j \in Peers(i) :
        /\ mRows[j].time <= mRows[i].time
        /\ \A k \in Peers(i) : mRows[k].time <= mRows[i].time => mRows[j].time <= mRows[k].time
        /\ Between(Clearing(i), mRows[j].time, mRows[i].time) = {}

Outstanding(i) ==
    \E j \in Peers(i) :
        /\ mRows[j].time <= mRows[i].time
        /\ \A k \in Peers(i) : mRows[k].time <= mRows[i].time => mRows[k].time <= mRows[j].time
        /\ Between(Clearing(i), mRows[j].time, mRows[i].time) = {}

Retried(i) == Between(Peers(i), mRows[i].time, Until(i)) # {}

(* The caller's standing gaps: they never depend on the data. *)
Standing ==
    {g \in {"clock", "identity", "session", "index"} :
        \/ g = "clock" /\ ~mDeclared.clock
        \/ g = "identity" /\ mDeclared.identity # "complete"
        \/ g = "session" /\ ~mDeclared.session
        \/ g = "index" /\ ~mDeclared.index /\ ~mDeclared.ack}

Doubts(i) ==
    LET heard == Between(OfKey(i), mRows[i].time, Until(i))
        told  == {j \in heard : Reports(j)}
    IN {d \in {"key", "index", "id", "confirmation", "blank session", "mixed sessions",
               "multiple", "outstanding", "retry"} :
        \/ d = "key" /\ mRows[i].key = Blank
        \/ d = "index" /\ mDeclared.index /\ mRows[i].index # Sentinel
        \/ d = "id" /\ (BlankIdentity(i) \/ \E j \in heard : BlankIdentity(j))
        \/ d = "confirmation" /\ mDeclared.ack /\ mRows[i].confirmed
        \/ d = "blank session" /\ (Session(i) = Blank \/ \E j \in heard : BlankSession(j))
        \/ d = "mixed sessions" /\ \E j \in told : Session(j) # Session(i)
        \/ d = "multiple" /\ Cardinality(Candidates(i)) > 1
        \/ d = "outstanding" /\ Outstanding(i)
        \/ d = "retry" /\ Retried(i)}

Outcome(i) ==
    LET reasons == Standing \cup Doubts(i)
        answer  == CHOOSE j \in Candidates(i) : TRUE
        verdict(what, j) == [outcome |-> what, reasons |-> reasons, answer |-> j]
    IN CASE reasons # {} -> verdict("AMBIGUOUS", 0)
         [] reasons = {} /\ Candidates(i) = {} -> verdict("MISSING", 0)
         [] reasons = {} /\ Candidates(i) # {} /\ ~mDeclared.expects -> verdict("PAIRED", answer)
         [] OTHER -> verdict(CASE mRows[answer].compared = "blank" -> "UNKNOWN"
                               [] mRows[answer].compared = "differs" -> "MISMATCHED"
                               [] OTHER -> "MATCHED", answer)

MatchInit ==
    /\ mDeclared \in Declarations /\ mRows = <<>>
    /\ mOutcomes = [i \in {} |-> <<>>] /\ mVerdict = "reading"

ReadRow(r) ==
    /\ mVerdict = "reading" /\ Len(mRows) < MaxMatchRows
    /\ mRows # <<>> => r.time >= Last(mRows).time
    /\ mRows' = Append(mRows, r)
    /\ UNCHANGED <<mDeclared, mOutcomes, mVerdict>>

RefuseDecreasing(r) ==  \* read_rows never reorders a saved file
    /\ mVerdict = "reading" /\ Len(mRows) < MaxMatchRows
    /\ mRows # <<>> /\ r.time < Last(mRows).time
    /\ mVerdict' = "refused"
    /\ UNCHANGED <<mDeclared, mRows, mOutcomes>>

ConvertRows ==
    /\ mVerdict = "reading"
    /\ mVerdict' = IF Requests = {} THEN "refused" ELSE "converted"
    /\ mOutcomes' = [i \in Requests |-> Outcome(i)]
    /\ UNCHANGED <<mDeclared, mRows>>

MatchNext == (\E r \in MatchRows : ReadRow(r) \/ RefuseDecreasing(r)) \/ ConvertRows

MatchSpec == MatchInit /\ [][MatchNext]_mVars

-----------------------------------------------------------------------------

Concluded(i) == mOutcomes[i].answer # 0

(* No reply is credited to two requests and no request to a reply of another  *)
(* key, another party, its own past or beyond its window (convert: "no        *)
(* candidate is ever chosen for the caller").                                 *)
RepliesAreNotShared ==
    \A i \in DOMAIN mOutcomes : Concluded(i) =>
        LET j == mOutcomes[i].answer IN
        /\ \A k \in DOMAIN mOutcomes \ {i} : mOutcomes[k].answer # j
        /\ mRows[j].key = mRows[i].key /\ mRows[j].id = mRows[i].id /\ mRows[j].id # Blank
        /\ mRows[j].session = mRows[i].session
        /\ mRows[i].time < mRows[j].time /\ mRows[j].time <= Until(i)

(* The comment on the class of outstanding requests: asking only the latest   *)
(* other request is the same as asking whether any earlier one is still       *)
(* without a clearing reply; a concluded request never has one.               *)
NoneLeftOutstanding ==
    \A i \in DOMAIN mOutcomes :
        (\E j \in Peers(i) : /\ mRows[j].time <= mRows[i].time
                             /\ Between(Clearing(i), mRows[j].time, mRows[i].time) = {})
            <=> "outstanding" \in mOutcomes[i].reasons

(* What the outcomes of one file promise, together.                           *)
MatchesAreSound == RepliesAreNotShared /\ NoneLeftOutstanding
=============================================================================
