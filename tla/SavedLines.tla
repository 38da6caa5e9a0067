----------------------------- MODULE SavedLines -----------------------------
(***************************************************************************)
(* What the converters under scripts/ have in common: convert() loops once *)
(* over the records of a saved file, carries some of them into the output  *)
(* CSV, passes over others with a count in the report, and raises          *)
(* ValueError on the first one it cannot account for; nothing is written   *)
(* then.  The modules that extend this one have an action per converter,   *)
(* which is one round of its loop, and one for what follows the loop.      *)
(* ReaderScans treats three scans of the Rust crates in the same way.      *)
(*                                                                         *)
(* Refuse is always possible: every converter bounds its input, its rows,  *)
(* its output and the form of every cell, and those checks are left out.   *)
(* Only conditions that relate a record to others, to the declaration or   *)
(* to its own fields are guards of the actions.                            *)
(***************************************************************************)
EXTENDS SavedLists, Integers, Sequences, FiniteSets, SequencesExt

CONSTANTS Absent,     \* None, an empty cell or a missing key
          MaxRecords  \* bound: records of a file, per converter

VARIABLES converter,  \* which script runs
          declared,   \* its arguments or declaration file
          fed,        \* records read so far
          lines,      \* rows written so far
          passed,     \* what it counted instead of carrying, in order
          keys,       \* the set it refuses duplicates with
          held,       \* its other local variables
          verdict     \* "reading", "refused" or "converted"

linesVars == <<converter, declared, fed, lines, passed, keys, held, verdict>>

Here == Len(fed) + 1   \* position of the record being read

Carry(line)      == lines' = Append(lines, line) /\ UNCHANGED passed
CarryAll(some)   == lines' = lines \o some /\ UNCHANGED passed
CarryEach(some)  == CarryAll([i \in DOMAIN some |-> [row |-> Here, part |-> i, is |-> some[i]]])
PassOver(why)    == passed' = Append(passed, [row |-> Here, why |-> why]) /\ UNCHANGED lines
KeepKey(key)     == key \notin keys /\ keys' = keys \cup {key}
Hold(value)      == held' = value
Keeping          == UNCHANGED <<lines, passed>>
Plain            == UNCHANGED <<keys, held>>
InTimeOrder(r)   == fed # <<>> => r.time >= Last(fed).time

(* Before the loop: nothing is read and nothing is carried.                    *)
Starting(local) ==
    /\ fed = <<>> /\ lines = <<>> /\ passed = <<>> /\ keys = {} /\ verdict = "reading"
    /\ held = local

(* One round of the loop: the converter's own action Step(r) does the rest. *)
Taking(r) ==
    /\ verdict = "reading" /\ Len(fed) < MaxRecords[converter]
    /\ fed' = Append(fed, r)
    /\ UNCHANGED <<converter, declared, verdict>>

(* After the loop.  A converter that carried nothing refuses, most of them. *)
Ending ==
    /\ verdict = "reading"
    /\ verdict' = "converted"
    /\ UNCHANGED <<converter, declared, fed, keys, held>>

EndCarried == Ending /\ lines # <<>> /\ Keeping

Refuse ==
    /\ verdict = "reading"
    /\ verdict' = "refused"
    /\ UNCHANGED <<converter, declared, fed, lines, passed, keys, held>>
=============================================================================
