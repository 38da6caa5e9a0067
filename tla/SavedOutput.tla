----------------------------- MODULE SavedOutput -----------------------------
(***************************************************************************)
(* How the command-line tools under scripts/ publish what they converted.  *)
(* Every main() reads its bounded inputs, converts them in memory, creates *)
(* its target and writes a fixed list of files one after the other; the    *)
(* tools differ in the list, in what they ask before and in what they undo *)
(* after an error (module SavedOutputTools has one definition per main).   *)
(*                                                                         *)
(* Several processes of one tool run on one target: two at the same time,  *)
(* or a second attempt after the first one failed or died.  Any open or    *)
(* write may fail (OSError) and any process may be killed.  What convert   *)
(* does to its input is left out: it may refuse (ValueError).  A main that *)
(* catches nothing ends with a traceback, the others with exit code 1 or   *)
(* 2: both are "refused" here.                                             *)
(***************************************************************************)
EXTENDS Integers, Sequences, FiniteSets, SequencesExt

CONSTANTS Tools,      \* the tools, each a record as NewDirectory builds it
          Processes   \* processes started on the same target

NoOne == "no one"

(* A tool: directory - files go to a directory it creates; files - in the order  *)
(* they are written; optional - files some arguments leave out; asks - a target  *)
(* that exists is refused before anything is created; exclusive - files are      *)
(* opened with mode "x" (in a new directory nobody else opens them at all);      *)
(* rollback - the files removed again after an error; claim - when the message   *)
(* of a refusal says "nothing was written".                                      *)
LooseFiles(files) ==
    [directory |-> FALSE, files |-> files, optional |-> {}, asks |-> FALSE,
     exclusive |-> TRUE, rollback |-> {}, claim |-> "never"]

NewDirectory(files) == [LooseFiles(files) EXCEPT !.directory = TRUE, !.exclusive = FALSE]

Optionally(names, tool) == [tool EXCEPT !.optional = names]
Asking(tool)            == [tool EXCEPT !.asks = TRUE]
Overwriting(tool)       == [tool EXCEPT !.exclusive = FALSE]
Unmarking(names, tool)  == [tool EXCEPT !.rollback = names]
Rollback(tool)          == [tool EXCEPT !.rollback = ToSet(tool.files)]
Claiming(when, tool)    == [tool EXCEPT !.claim = when]

(* What the tools have in common that never touch the files of another run: a  *)
(* directory of their own, or mode "x".  Only loose files are all taken back.  *)
SafeTool(t) ==
    /\ t.files \in Seq(STRING) /\ t.files # <<>>
    /\ "." \notin ToSet(t.files)
    /\ t.directory \in BOOLEAN
    /\ t.directory \/ t.exclusive
    /\ t.rollback = ToSet(t.files) => ~t.directory

(* Files that account for a conversion, and files that hold its data. *)
Accounts == {"report.json", "accounting.json", "access_units.json", "references.json"}
Data     == {"observations.csv", "converted.csv", "elementary.h264", "reconstructed.ulg"}

(* The order the tools have in common: in a directory the data come before the *)
(* account and no argument leaves them out; a sidecar comes before its output. *)
OrderedTool(t) ==
    /\ t.directory =>
          /\ \A i, j \in DOMAIN t.files :
                t.files[i] \in Data /\ t.files[j] \in Accounts => i < j
          /\ Data \cap t.optional = {}
    /\ "record_sidecar" \in ToSet(t.files) =>
          /\ \A i \in DOMAIN t.files : t.files[i] = "output" => i = Len(t.files)
          /\ "record_sidecar" \notin t.optional

VARIABLES tool,     \* the tool the processes run
          disk,     \* function from the names that exist to [by, whole]; "." is the directory
          process   \* function: process -> [at, next, wrote, stuck]

outVars == <<tool, disk, process>>

(* at: "converting", "creating", "writing" (next is the file to open, or the   *)
(* open one when the process owns it and it is not whole), "undoing", and the  *)
(* ends "done", "refused", "killed".  wrote: files it opened; stuck: files it  *)
(* could not remove.                                                           *)
OutInit ==
    /\ tool \in Tools
    /\ disk = [n \in {} |-> NoOne]
    /\ process = [p \in Processes |-> [at |-> "converting", next |-> 1, wrote |-> {}, stuck |-> {}]]

Exists(n) == n \in DOMAIN disk

Targets == IF tool.directory THEN {"."} ELSE ToSet(tool.files)

Put(n, entry) == [m \in DOMAIN disk \cup {n} |-> IF m = n THEN entry ELSE disk[m]]

Drop(n) == [m \in DOMAIN disk \ {n} |-> disk[m]]

Moves(p, at) == process' = [process EXCEPT ![p].at = at]

(* convert raises, or a target that is asked for exists already. *)
RefuseInput(p) ==
    /\ process[p].at = "converting"
    /\ Moves(p, "refused")
    /\ UNCHANGED <<tool, disk>>

Convert(p) ==
    /\ process[p].at = "converting"
    /\ tool.asks => \A n \in Targets : ~Exists(n)
    /\ Moves(p, IF tool.directory THEN "creating" ELSE "writing")
    /\ UNCHANGED <<tool, disk>>

MutantCreateDirectory(p) ==  \* exist_ok=True
    /\ process[p].at = "creating"
    /\ disk' = Put(".", [by |-> p, whole |-> TRUE])
    /\ Moves(p, "writing")
    /\ UNCHANGED tool

(* mkdir without exist_ok: the one step that decides between two processes. *)
CreateDirectory(p) ==
    /\ process[p].at = "creating" /\ ~Exists(".")
    /\ disk' = Put(".", [by |-> p, whole |-> TRUE])
    /\ Moves(p, "writing")
    /\ UNCHANGED tool

DirectoryExists(p) ==
    /\ process[p].at = "creating"   \* FileExistsError, or any other OSError
    /\ Moves(p, "refused")
    /\ UNCHANGED <<tool, disk>>

NextFile(p) == tool.files[process[p].next]

MayOpen(p) == process[p].at = "writing" /\ NextFile(p) \notin process[p].wrote

OpenFile(p) ==
    /\ MayOpen(p)
    /\ tool.exclusive => ~Exists(NextFile(p))
    /\ disk' = Put(NextFile(p), [by |-> p, whole |-> FALSE])
    /\ process' = [process EXCEPT ![p].wrote = @ \cup {NextFile(p)}]
    /\ UNCHANGED tool

Advance(p) == IF process[p].next = Len(tool.files)
              THEN [process[p] EXCEPT !.at = "done"]
              ELSE [process[p] EXCEPT !.next = @ + 1]

(* The body is written and the file closed; with mode "w" the last writer wins. *)
WriteFile(p) ==
    /\ process[p].at = "writing" /\ NextFile(p) \in process[p].wrote
    /\ disk' = IF Exists(NextFile(p)) THEN Put(NextFile(p), [by |-> p, whole |-> TRUE]) ELSE disk
    /\ process' = [process EXCEPT ![p] = Advance(p)]
    /\ UNCHANGED tool

LeaveOut(p) ==
    /\ MayOpen(p) /\ NextFile(p) \in tool.optional
    /\ process' = [process EXCEPT ![p] = Advance(p)]
    /\ UNCHANGED <<tool, disk>>

(* An error while a file is opened or written (FileExistsError included). The  *)
(* tools that undo a single file undo the one being written.                   *)
MutantToUndo(p) ==  \* forgets the files that were already complete
    {NextFile(p)} \cap process[p].wrote \cap tool.rollback

ToUndo(p) ==
    IF tool.directory THEN {NextFile(p)} \cap process[p].wrote \cap tool.rollback
    ELSE process[p].wrote \cap tool.rollback

MutantFailFile(p) ==  \* goes on with the next file
    /\ process[p].at = "writing"
    /\ process' = [process EXCEPT ![p] = Advance(p)]
    /\ UNCHANGED <<tool, disk>>

FailFile(p) ==
    /\ process[p].at = "writing"
    /\ process' = [process EXCEPT ![p].at = IF ToUndo(p) = {} THEN "refused" ELSE "undoing",
                                  ![p].wrote = IF ToUndo(p) = {} THEN @ ELSE ToUndo(p)]
    /\ UNCHANGED <<tool, disk>>

(* unlink by name; an error of unlink itself is passed over (or re-raised at once). *)
Undo(p, n, removed) ==
    /\ process[p].at = "undoing" /\ n \in process[p].wrote
    /\ disk' = IF removed THEN Drop(n) ELSE disk
    /\ process' = [process EXCEPT ![p].wrote = @ \ {n},
                                  ![p].stuck = IF removed THEN @ ELSE @ \cup {n},
                                  ![p].at = IF process[p].wrote = {n} THEN "refused" ELSE @]
    /\ UNCHANGED tool

Kill(p) ==
    /\ process[p].at \notin {"done", "refused", "killed"}
    /\ Moves(p, "killed")
    /\ UNCHANGED <<tool, disk>>

OutNext ==
    \E p \in Processes :
        \/ RefuseInput(p) \/ Convert(p) \/ CreateDirectory(p) \/ DirectoryExists(p)
        \/ OpenFile(p) \/ WriteFile(p) \/ LeaveOut(p) \/ FailFile(p) \/ Kill(p)
        \/ \E n \in process[p].wrote, removed \in BOOLEAN : Undo(p, n, removed)

OutSpec == OutInit /\ [][OutNext]_outVars

-----------------------------------------------------------------------------

WholeBy(n, p) == Exists(n) /\ disk[n].whole /\ disk[n].by = p

(* What one process published is never changed by another: no file of a        *)
(* target ever goes from one process to the next without having been removed   *)
(* by its own writer, so outputs of two runs are never mixed ("existing inputs *)
(* and evidence are never overwritten": mkdir, or mode "x", of every main but  *)
(* that of convert_ping_frames).                                               *)
PublishedIsFinal ==
    [][\A n \in DOMAIN disk :
          /\ Exists(n)' => disk'[n].by = disk[n].by /\ (disk[n].whole => disk'[n].whole)
          /\ ~Exists(n)' => process[disk[n].by].at = "undoing"]_outVars

(* The account never stands without what it accounts for, whatever failed, was *)
(* killed or tried again: in a directory the report comes after the data of    *)
(* the same run, a completed run has every file of its own, and a CSV whose    *)
(* sidecar could not be written is not published (journal_storage_errors,      *)
(* "the CSV is written last").                                                 *)
DataBeforeAccount ==
    /\ \A a \in Accounts \cap DOMAIN disk, d \in Data \cap ToSet(tool.files) :
          tool.directory => WholeBy(d, disk[a].by)
    /\ \A p \in Processes : process[p].at = "done" =>
          \A n \in ToSet(tool.files) \ tool.optional : WholeBy(n, p)
    /\ "record_sidecar" \in ToSet(tool.files) /\ Exists("output") /\ disk["output"].whole =>
          WholeBy("record_sidecar", disk["output"].by)

(* A refusal leaves nothing behind where the tool says so: a process refused   *)
(* before it created its target has changed nothing, and one that rolls back   *)
(* leaves only the files it could not remove.                                  *)
RefusalIsClean ==
    \A p \in Processes : process[p].at = "refused" =>
        LET mine == {n \in DOMAIN disk : disk[n].by = p} IN
        /\ process[p].wrote = {} /\ process[p].next = 1 => mine \subseteq ({"."} \cup process[p].stuck)
        /\ tool.rollback = ToSet(tool.files) => mine \subseteq process[p].stuck

(* "nothing was written": the words a refused run ends with (for the tools     *)
(* that ask whether they had created the directory, the comment "only claim    *)
(* nothing was written when nothing could have been").                         *)
SaysNothingWritten(p) ==
    /\ process[p].at = "refused"
    /\ \/ tool.claim = "always"
       \/ tool.claim = "unless created" /\ ~(Exists(".") /\ disk["."].by = p)

(* A run that ends with these words has written nothing.                       *)
NothingWrittenIsTrue ==
    \A p \in Processes : SaysNothingWritten(p) => \A n \in DOMAIN disk : disk[n].by # p
=============================================================================
