------------------------- MODULE SavedOutputProofs -------------------------
(***************************************************************************)
(* Proofs about what the tools under scripts/ write.  First the            *)
(* publication of files (SavedOutput), for any number of processes on one  *)
(* target and any set of tools that either make a directory of their own   *)
(* or open their files with mode "x"; then the rows of two converters: the *)
(* DisplayPort canvas (SavedLinks) and echo exchanges (SavedPackets); then *)
(* what all converters together promise (SavedConversions), for every file *)
(* they may be given: exact windows, complete accounts and whole messages. *)
(***************************************************************************)
EXTENDS SavedOutput, SavedConversions, SequenceTheorems, FiniteSetTheorems, OrderLemmas, TLAPS

(* The premise; TLC checks it of the tools under scripts/ (ToolsAreSafe). *)
SafeTools == \A t \in Tools : SafeTool(t)

States == {"converting", "creating", "writing", "undoing", "done", "refused", "killed"}

Names == ToSet(tool.files)

Mine(p) == {n \in DOMAIN disk : disk[n].by = p}

TypeOK ==
    /\ tool \in Tools
    /\ disk \in [DOMAIN disk -> [by : Processes, whole : BOOLEAN]]
    /\ process \in [Processes -> [at : States, next : DOMAIN tool.files,
                                  wrote : SUBSET Names, stuck : SUBSET Names]]

Working(p) == process[p].at \in {"writing", "undoing"}

(* What a process opened and has not undone is there, and is its own. *)
OwnsWhatItWrote ==
    \A p \in Processes : Working(p) => process[p].wrote \subseteq Mine(p)

(* One process made the directory; only that one works in it, and every file *)
(* in it is that one's.                                                      *)
DirectoryHasOneOwner ==
    /\ tool.directory => \A p \in Processes : Working(p) => "." \in Mine(p)
    /\ tool.directory => \A n \in DOMAIN disk :
          Exists(".") /\ disk[n].by = disk["."].by

(* The order of the files: what the writer of a directory has in it, it opened. *)
WriterKnowsItsFiles ==
    tool.directory => \A p \in Processes :
        process[p].at = "writing" => Mine(p) \subseteq {"."} \cup process[p].wrote

(* Before the first file is finished, it is the only one. *)
FirstFileFirst ==
    \A p \in Processes : process[p].next = 1 =>
        /\ process[p].wrote \subseteq {NextFile(p)}
        /\ Mine(p) \subseteq {"."} \cup process[p].wrote \cup process[p].stuck

(* Where every file is taken back, what is left is known. *)
RollbackKnowsItsFiles ==
    tool.rollback = Names => \A p \in Processes :
        /\ Mine(p) \subseteq process[p].wrote \cup process[p].stuck
        /\ process[p].at = "refused" => process[p].wrote = {}

NothingYet ==
    \A p \in Processes :
        /\ process[p].at = "converting" => process[p].wrote = {}
        /\ process[p].at = "creating" => tool.directory /\ process[p].wrote = {}

IInv == /\ SafeTools /\ TypeOK
        /\ OwnsWhatItWrote /\ DirectoryHasOneOwner /\ WriterKnowsItsFiles
        /\ FirstFileFirst /\ RollbackKnowsItsFiles /\ NothingYet

-----------------------------------------------------------------------------

(* The tool the processes run is a safe one, and each has a file to write. *)
LEMMA ToolShape ==
    ASSUME SafeTools, TypeOK
    PROVE  /\ SafeTool(tool)
           /\ DOMAIN tool.files = 1..Len(tool.files) /\ Len(tool.files) \in Nat
           /\ "." \notin Names
           /\ \A p \in Processes : NextFile(p) \in Names
           /\ \A p \in Processes : process[p].next \in 1..Len(tool.files)
<1>1. SafeTool(tool)
  BY DEF SafeTools, TypeOK
<1>2. DOMAIN tool.files = 1..Len(tool.files) /\ Len(tool.files) \in Nat
  BY <1>1, LenProperties DEF SafeTool
<1>3. \A p \in Processes : process[p].next \in DOMAIN tool.files
  BY DEF TypeOK
<1>4. \A p \in Processes : NextFile(p) \in Names
  BY <1>3 DEF NextFile, Names, ToSet
<1>5. QED
  BY <1>1, <1>2, <1>3, <1>4 DEF SafeTool, Names

(* At the start no file exists. *)
LEMMA InitIInv == SafeTools /\ OutInit => IInv
<1>1. SUFFICES ASSUME SafeTools, OutInit PROVE IInv
  OBVIOUS
<1>2. SafeTool(tool) /\ tool.files \in Seq(STRING) /\ tool.files # <<>>
  BY <1>1 DEF SafeTools, OutInit, SafeTool
<1>3. 1 \in DOMAIN tool.files
  <2>1. DOMAIN tool.files = 1..Len(tool.files) /\ Len(tool.files) \in Nat
    BY <1>2, LenProperties
  <2>2. Len(tool.files) # 0
    BY <1>2, EmptySeq
  <2>3. QED
    BY <2>1, <2>2
<1>4. DOMAIN disk = {}
  BY <1>1 DEF OutInit
<1>5. \A p \in Processes : Mine(p) = {}
  BY <1>4 DEF Mine
<1>6. \A p \in Processes : process[p] = [at |-> "converting", next |-> 1, wrote |-> {}, stuck |-> {}]
  BY <1>1 DEF OutInit
<1>7. TypeOK
  <2>1. disk \in [DOMAIN disk -> [by : Processes, whole : BOOLEAN]]
    BY <1>1, <1>4 DEF OutInit
  <2>2. process \in [Processes -> [at : States, next : DOMAIN tool.files, wrote : SUBSET Names, stuck : SUBSET Names]]
    BY <1>1, <1>3 DEF OutInit, States
  <2>3. QED
    BY <1>1, <2>1, <2>2 DEF TypeOK, OutInit
<1>8. QED
  BY <1>1, <1>4, <1>5, <1>6, <1>7 DEF IInv, OwnsWhatItWrote, DirectoryHasOneOwner, WriterKnowsItsFiles,
     FirstFileFirst, RollbackKnowsItsFiles, NothingYet, Working

(* An action of p that touches no file keeps what holds between the files and *)
(* the other processes: it is enough to look at what p does with its own.     *)
LEMMA QuietStep ==
    ASSUME IInv, NEW p \in Processes, UNCHANGED <<tool, disk>>,
           NEW e \in [at : States, next : DOMAIN tool.files, wrote : SUBSET Names, stuck : SUBSET Names],
           process' = [process EXCEPT ![p] = e],
           e.stuck = process[p].stuck,
           e.at \in {"writing", "undoing"} =>
               e.wrote \subseteq Mine(p) /\ (tool.directory => "." \in Mine(p)),
           tool.directory /\ e.at = "writing" => Mine(p) \subseteq {"."} \cup e.wrote,
           e.next = 1 => process[p].next = 1 /\ e.wrote = process[p].wrote,
           tool.rollback = Names => /\ process[p].wrote \subseteq e.wrote
                                    /\ e.at = "refused" => e.wrote = {},
           e.at # "converting",
           e.at = "creating" => tool.directory /\ e.wrote = {}
    PROVE  IInv'
<1>1. TypeOK /\ SafeTools
  BY DEF IInv
<1>2. process'[p] = e /\ \A q \in Processes : q # p => process'[q] = process[q]
  BY <1>1 DEF TypeOK
<1>3. \A q : Mine(q)' = Mine(q)
  BY DEF Mine
<1>4. TypeOK'
  BY <1>1 DEF TypeOK, Names
<1>5. Names' = Names /\ SafeTools'
  BY <1>1 DEF Names, SafeTools
<1>6. OwnsWhatItWrote'
  BY <1>2, <1>3 DEF IInv, OwnsWhatItWrote, Working
<1>7. DirectoryHasOneOwner'
  <2>1. ASSUME tool'.directory, NEW q \in Processes, Working(q)' PROVE "." \in Mine(q)'
    BY <1>2, <1>3, <2>1 DEF IInv, DirectoryHasOneOwner, Working
  <2>2. ASSUME tool'.directory, NEW n \in DOMAIN disk' PROVE Exists(".")' /\ disk'[n].by = disk'["."].by
    BY <2>2 DEF IInv, DirectoryHasOneOwner, Exists
  <2>3. QED
    BY <2>1, <2>2 DEF DirectoryHasOneOwner
<1>8. WriterKnowsItsFiles'
  BY <1>2, <1>3 DEF IInv, WriterKnowsItsFiles
<1>9. FirstFileFirst'
  <2>1. SUFFICES ASSUME NEW q \in Processes, process'[q].next = 1
                 PROVE  /\ process'[q].wrote \subseteq {NextFile(q)'}
                        /\ Mine(q)' \subseteq {"."} \cup process'[q].wrote \cup process'[q].stuck
    BY DEF FirstFileFirst
  <2>2. process[q].next = 1 /\ process'[q].wrote = process[q].wrote /\ process'[q].stuck = process[q].stuck
    BY <1>2, <2>1
  <2>3. NextFile(q)' = NextFile(q)
    BY <2>1, <2>2 DEF NextFile
  <2>4. QED
    BY <1>3, <2>2, <2>3 DEF IInv, FirstFileFirst
<1>10. RollbackKnowsItsFiles'
  <2>1. SUFFICES ASSUME tool.rollback = Names, NEW q \in Processes
                 PROVE  /\ Mine(q) \subseteq process'[q].wrote \cup process'[q].stuck
                        /\ process'[q].at = "refused" => process'[q].wrote = {}
    BY <1>3, <1>5 DEF RollbackKnowsItsFiles
  <2>2. Mine(q) \subseteq process[q].wrote \cup process[q].stuck
        /\ (process[q].at = "refused" => process[q].wrote = {})
    BY <2>1 DEF IInv, RollbackKnowsItsFiles
  <2>3. QED
    BY <1>2, <2>1, <2>2
<1>11. NothingYet'
  BY <1>2 DEF IInv, NothingYet
<1>12. QED
  BY <1>4, <1>5, <1>6, <1>7, <1>8, <1>9, <1>10, <1>11 DEF IInv

(* What p finds when it moves without touching a file. *)
LEMMA OwnState ==
    ASSUME IInv, NEW p \in Processes
    PROVE  /\ process[p] \in [at : States, next : DOMAIN tool.files, wrote : SUBSET Names, stuck : SUBSET Names]
           /\ Working(p) => process[p].wrote \subseteq Mine(p) /\ (tool.directory => "." \in Mine(p))
           /\ tool.directory /\ process[p].at = "writing" => Mine(p) \subseteq {"."} \cup process[p].wrote
           /\ process[p].next = 1 => process[p].wrote \subseteq {NextFile(p)}
           /\ process[p].at \in {"converting", "creating"} => process[p].wrote = {}
           /\ tool.directory \in BOOLEAN
           /\ tool.rollback = Names => ~tool.directory
           /\ process[p].next \in 1..Len(tool.files) /\ Len(tool.files) \in Nat
           /\ DOMAIN tool.files = 1..Len(tool.files)
           /\ NextFile(p) \in Names
<1>1. TypeOK /\ SafeTools
  BY DEF IInv
<1>2. process[p] \in [at : States, next : DOMAIN tool.files, wrote : SUBSET Names, stuck : SUBSET Names]
  BY <1>1 DEF TypeOK
<1>3. tool.directory \in BOOLEAN /\ (tool.rollback = Names => ~tool.directory)
  BY <1>1, ToolShape DEF SafeTool, Names
<1>4. process[p].next \in 1..Len(tool.files) /\ Len(tool.files) \in Nat /\ NextFile(p) \in Names
      /\ DOMAIN tool.files = 1..Len(tool.files)
  BY <1>1, ToolShape
<1>5. Working(p) => process[p].wrote \subseteq Mine(p) /\ (tool.directory => "." \in Mine(p))
  BY DEF IInv, OwnsWhatItWrote, DirectoryHasOneOwner
<1>6. tool.directory /\ process[p].at = "writing" => Mine(p) \subseteq {"."} \cup process[p].wrote
  BY DEF IInv, WriterKnowsItsFiles
<1>7. process[p].next = 1 => process[p].wrote \subseteq {NextFile(p)}
  BY DEF IInv, FirstFileFirst
<1>8. process[p].at \in {"converting", "creating"} => process[p].wrote = {}
  BY DEF IInv, NothingYet
<1>9. QED
  BY <1>2, <1>3, <1>4, <1>5, <1>6, <1>7, <1>8

(* A process that ends before it created anything, or is killed. *)
LEMMA EndsIInv ==
    ASSUME IInv, NEW p \in Processes, RefuseInput(p) \/ DirectoryExists(p) \/ Kill(p)
    PROVE  IInv'
<1> DEFINE e == [process[p] EXCEPT !.at = IF Kill(p) THEN "killed" ELSE "refused"]
<1>1. process[p] \in [at : States, next : DOMAIN tool.files, wrote : SUBSET Names, stuck : SUBSET Names]
      /\ (process[p].at \in {"converting", "creating"} => process[p].wrote = {})
      /\ (tool.rollback = Names => ~tool.directory)
  BY OwnState
<1>2. process' = [process EXCEPT ![p] = e] /\ UNCHANGED <<tool, disk>>
  <2>1. CASE Kill(p)
    BY <1>1, <2>1 DEF Kill, Moves
  <2>2. CASE ~Kill(p)
    BY <1>1, <2>2 DEF RefuseInput, DirectoryExists, Moves
  <2>3. QED
    BY <2>1, <2>2
<1>3. ~Kill(p) => process[p].wrote = {}
  BY <1>1 DEF RefuseInput, DirectoryExists
<1>4. e \in [at : States, next : DOMAIN tool.files, wrote : SUBSET Names, stuck : SUBSET Names]
      /\ e.wrote = process[p].wrote /\ e.stuck = process[p].stuck /\ e.next = process[p].next
      /\ e.at = (IF Kill(p) THEN "killed" ELSE "refused")
  BY <1>1 DEF States
<1> HIDE DEF e
<1>5. QED
  BY <1>2, <1>3, <1>4, QuietStep

(* A process whose input is accepted starts on its directory, or on its files. *)
LEMMA ConvertIInv ==
    ASSUME IInv, NEW p \in Processes, Convert(p)
    PROVE  IInv'
<1> DEFINE e == [process[p] EXCEPT !.at = IF tool.directory THEN "creating" ELSE "writing"]
<1>1. process[p] \in [at : States, next : DOMAIN tool.files, wrote : SUBSET Names, stuck : SUBSET Names]
      /\ process[p].at = "converting" /\ process[p].wrote = {}
  BY OwnState DEF Convert
<1>2. process' = [process EXCEPT ![p] = e] /\ UNCHANGED <<tool, disk>>
  BY <1>1 DEF Convert, Moves
<1>3. e \in [at : States, next : DOMAIN tool.files, wrote : SUBSET Names, stuck : SUBSET Names]
      /\ e.wrote = process[p].wrote /\ e.stuck = process[p].stuck /\ e.next = process[p].next
      /\ e.at = (IF tool.directory THEN "creating" ELSE "writing")
  BY <1>1 DEF States
<1> HIDE DEF e
<1>4. QED
  BY <1>1, <1>2, <1>3, QuietStep

(* A file the arguments leave out. *)
LEMMA LeaveOutIInv ==
    ASSUME IInv, NEW p \in Processes, LeaveOut(p)
    PROVE  IInv'
<1>1. process[p] \in [at : States, next : DOMAIN tool.files, wrote : SUBSET Names, stuck : SUBSET Names]
      /\ process[p].at = "writing"
      /\ process[p].wrote \subseteq Mine(p) /\ (tool.directory => "." \in Mine(p))
      /\ (tool.directory => Mine(p) \subseteq {"."} \cup process[p].wrote)
      /\ process[p].next \in 1..Len(tool.files) /\ Len(tool.files) \in Nat
      /\ DOMAIN tool.files = 1..Len(tool.files)
  BY OwnState DEF LeaveOut, MayOpen, Working
<1>2. process' = [process EXCEPT ![p] = Advance(p)] /\ UNCHANGED <<tool, disk>>
  BY DEF LeaveOut
<1>3. Advance(p) \in [at : States, next : DOMAIN tool.files, wrote : SUBSET Names, stuck : SUBSET Names]
      /\ Advance(p).wrote = process[p].wrote /\ Advance(p).stuck = process[p].stuck
      /\ Advance(p).at \in {"writing", "done"}
      /\ (Advance(p).next = 1 => process[p].next = 1)
  <2>1. CASE process[p].next = Len(tool.files)
    BY <1>1, <2>1 DEF Advance, States
  <2>2. CASE process[p].next # Len(tool.files)
    <3>1. process[p].next + 1 \in DOMAIN tool.files /\ process[p].next + 1 # 1
      BY <1>1, <2>2
    <3>2. QED
      BY <1>1, <2>2, <3>1 DEF Advance, States
  <2>3. QED
    BY <2>1, <2>2
<1>4. QED
  BY <1>1, <1>2, <1>3, QuietStep

(* After an error a process has either nothing to take back, or just that. *)
LEMMA FailFileIInv ==
    ASSUME IInv, NEW p \in Processes, FailFile(p)
    PROVE  IInv'
<1> DEFINE e == [process[p] EXCEPT !.at = IF ToUndo(p) = {} THEN "refused" ELSE "undoing",
                                   !.wrote = IF ToUndo(p) = {} THEN @ ELSE ToUndo(p)]
<1>1. process[p] \in [at : States, next : DOMAIN tool.files, wrote : SUBSET Names, stuck : SUBSET Names]
      /\ process[p].at = "writing"
      /\ process[p].wrote \subseteq Mine(p) /\ (tool.directory => "." \in Mine(p))
      /\ (process[p].next = 1 => process[p].wrote \subseteq {NextFile(p)})
      /\ (tool.rollback = Names => ~tool.directory)
  BY OwnState DEF FailFile, Working
<1>2. process' = [process EXCEPT ![p] = e] /\ UNCHANGED <<tool, disk>>
  BY <1>1 DEF FailFile
<1>3. /\ ToUndo(p) \subseteq process[p].wrote
      /\ process[p].next = 1 /\ ToUndo(p) # {} => ToUndo(p) = process[p].wrote
      /\ tool.rollback = Names => ToUndo(p) = process[p].wrote
  <2>1. ToUndo(p) \subseteq process[p].wrote
    BY DEF ToUndo
  <2>2. ASSUME process[p].next = 1, ToUndo(p) # {} PROVE process[p].wrote \subseteq ToUndo(p)
    BY <1>1, <2>1, <2>2
  <2>3. ASSUME tool.rollback = Names PROVE process[p].wrote \subseteq ToUndo(p)
    BY <1>1, <2>3 DEF ToUndo
  <2>4. QED
    BY <2>1, <2>2, <2>3
<1>4. e \in [at : States, next : DOMAIN tool.files, wrote : SUBSET Names, stuck : SUBSET Names]
      /\ e.stuck = process[p].stuck /\ e.next = process[p].next
      /\ e.wrote = (IF ToUndo(p) = {} THEN process[p].wrote ELSE ToUndo(p))
      /\ e.at = (IF ToUndo(p) = {} THEN "refused" ELSE "undoing")
  BY <1>1, <1>3 DEF States
<1> HIDE DEF e
<1>5. QED
  BY <1>1, <1>2, <1>3, <1>4, QuietStep

(* A file p puts where nothing is, or where its own is, is its own. *)
LEMMA PutShape ==
    ASSUME NEW p \in Processes, NEW n,
           Exists(n) => disk[n].by = p,
           DOMAIN disk' = DOMAIN disk \cup {n}, disk'[n].by = p,
           \A m \in DOMAIN disk : m # n => disk'[m] = disk[m]
    PROVE  /\ \A m \in DOMAIN disk : disk'[m].by = disk[m].by
           /\ Mine(p)' = Mine(p) \cup {n}
           /\ \A q \in Processes : q # p => Mine(q)' = Mine(q)
<1>1. \A m \in DOMAIN disk : disk'[m].by = disk[m].by
  BY DEF Exists
<1>2. Mine(p)' = Mine(p) \cup {n}
  BY <1>1 DEF Mine
<1>3. \A q \in Processes : q # p => Mine(q)' = Mine(q)
  BY <1>1 DEF Mine
<1>4. QED
  BY <1>1, <1>2, <1>3

(* A writer opens a name that does not exist: mode "x" says so, and in a new *)
(* directory there is nothing the writer has not opened.                     *)
LEMMA OpensNewFile ==
    ASSUME IInv, NEW p \in Processes, OpenFile(p)
    PROVE  ~Exists(NextFile(p))
<1>1. process[p].at = "writing" /\ NextFile(p) \notin process[p].wrote
  BY DEF OpenFile, MayOpen
<1>2. SafeTool(tool) /\ "." \notin Names /\ NextFile(p) \in Names
  BY ToolShape DEF IInv
<1>3. CASE ~tool.directory
  BY <1>2, <1>3 DEF OpenFile, SafeTool
<1>4. CASE tool.directory
  <2>1. "." \in Mine(p) /\ Mine(p) \subseteq {"."} \cup process[p].wrote
    BY <1>1, <1>4, OwnState DEF Working
  <2>2. Exists(NextFile(p)) => NextFile(p) \in Mine(p)
    BY <1>4, <2>1 DEF IInv, DirectoryHasOneOwner, Exists, Mine
  <2>3. NextFile(p) # "."
    BY <1>2
  <2>4. QED
    BY <1>1, <2>1, <2>2, <2>3
<1>5. QED
  BY <1>2, <1>3, <1>4 DEF SafeTool

(* A writer finishes a file that is there, and its own. *)
LEMMA WritesOwnFile ==
    ASSUME IInv, NEW p \in Processes, WriteFile(p)
    PROVE  /\ NextFile(p) \in Mine(p)
           /\ disk' = Put(NextFile(p), [by |-> p, whole |-> TRUE])
<1>1. NextFile(p) \in process[p].wrote /\ process[p].wrote \subseteq Mine(p)
  BY OwnState DEF WriteFile, Working
<1>2. Exists(NextFile(p))
  BY <1>1 DEF Mine, Exists
<1>3. QED
  BY <1>1, <1>2 DEF WriteFile

(* Whoever makes the directory finds no other process at work. *)
LEMMA CreateDirectoryIInv ==
    ASSUME IInv, NEW p \in Processes, CreateDirectory(p)
    PROVE  IInv'
<1>1. TypeOK /\ SafeTools /\ tool' = tool /\ tool.directory /\ ~Exists(".")
      /\ process[p].wrote = {} /\ process' = [process EXCEPT ![p].at = "writing"]
      /\ disk' = Put(".", [by |-> p, whole |-> TRUE])
  BY DEF IInv, NothingYet, CreateDirectory, Moves
<1>2. DOMAIN disk' = DOMAIN disk \cup {"."}
      /\ disk' \in [DOMAIN disk' -> [by : Processes, whole : BOOLEAN]]
      /\ disk'["."].by = p
      /\ Mine(p)' = Mine(p) \cup {"."} /\ \A q \in Processes : q # p => Mine(q)' = Mine(q)
  <2>1. DOMAIN disk' = DOMAIN disk \cup {"."} /\ disk'["."].by = p
        /\ \A m \in DOMAIN disk : m # "." => disk'[m] = disk[m]
    BY <1>1 DEF Put
  <2>2. disk' \in [DOMAIN disk' -> [by : Processes, whole : BOOLEAN]]
    BY <1>1 DEF Put, TypeOK
  <2>3. \A m \in DOMAIN disk : disk'[m] = disk[m]
    BY <1>1, <2>1 DEF Exists
  <2>4. Mine(p)' = Mine(p) \cup {"."}
    BY <2>1, <2>3 DEF Mine
  <2>5. \A q \in Processes : q # p => Mine(q)' = Mine(q)
    BY <2>1, <2>3 DEF Mine
  <2>6. QED
    BY <2>1, <2>2, <2>4, <2>5
<1>3. DOMAIN disk = {} /\ \A q \in Processes : Mine(q) = {} /\ ~Working(q)
  <2>1. DOMAIN disk = {}
    BY <1>1 DEF IInv, DirectoryHasOneOwner
  <2>2. QED
    BY <1>1, <2>1 DEF IInv, DirectoryHasOneOwner, Mine
<1>4. process'[p].at = "writing" /\ process'[p].next = process[p].next
      /\ process'[p].wrote = {} /\ process'[p].stuck = process[p].stuck
      /\ \A q \in Processes : q # p => process'[q] = process[q]
  BY <1>1 DEF TypeOK
<1>5. TypeOK' /\ Names' = Names /\ SafeTools'
  <2>1. process' \in [Processes -> [at : States, next : DOMAIN tool.files, wrote : SUBSET Names, stuck : SUBSET Names]]
    BY <1>1 DEF TypeOK, States
  <2>2. QED
    BY <1>1, <1>2, <2>1 DEF TypeOK, Names, SafeTools
<1>6. OwnsWhatItWrote'
  BY <1>3, <1>4 DEF OwnsWhatItWrote, Working
<1>7. DirectoryHasOneOwner'
  <2>1. ASSUME NEW q \in Processes, Working(q)' PROVE "." \in Mine(q)'
    BY <1>2, <1>3, <1>4, <2>1 DEF Working
  <2>2. QED
    BY <1>2, <1>3, <2>1 DEF DirectoryHasOneOwner, Exists
<1>8. WriterKnowsItsFiles'
  BY <1>2, <1>3, <1>4 DEF WriterKnowsItsFiles, Working
<1>9. FirstFileFirst'
  <2>1. SUFFICES ASSUME NEW q \in Processes, process'[q].next = 1
                 PROVE  /\ process'[q].wrote \subseteq {NextFile(q)'}
                        /\ Mine(q)' \subseteq {"."} \cup process'[q].wrote \cup process'[q].stuck
    BY DEF FirstFileFirst
  <2>2. process[q].next = 1 /\ process'[q].wrote = process[q].wrote
    BY <1>1, <1>4, <2>1
  <2>3. NextFile(q)' = NextFile(q)
    BY <1>1, <2>1, <2>2 DEF NextFile
  <2>4. QED
    BY <1>2, <1>3, <2>2, <2>3 DEF IInv, FirstFileFirst
<1>10. RollbackKnowsItsFiles'
  <2>1. tool'.rollback # Names'
    BY <1>1, <1>5, ToolShape DEF SafeTool, Names
  <2>2. QED
    BY <2>1 DEF RollbackKnowsItsFiles
<1>11. NothingYet'
  BY <1>1, <1>4 DEF IInv, NothingYet
<1>12. QED
  BY <1>5, <1>6, <1>7, <1>8, <1>9, <1>10, <1>11 DEF IInv

(* Opening a file adds it to what the writer opened and to what it owns. *)
LEMMA OpenFileIInv ==
    ASSUME IInv, NEW p \in Processes, OpenFile(p)
    PROVE  IInv'
<1>1. TypeOK /\ SafeTools /\ tool' = tool /\ process[p].at = "writing"
      /\ process' = [process EXCEPT ![p].wrote = @ \cup {NextFile(p)}]
      /\ NextFile(p) \in Names /\ "." \notin Names
      /\ ~Exists(NextFile(p)) /\ disk' = Put(NextFile(p), [by |-> p, whole |-> FALSE])
  BY ToolShape, OpensNewFile DEF IInv, OpenFile, MayOpen
<1>2. DOMAIN disk' = DOMAIN disk \cup {NextFile(p)}
      /\ disk' \in [DOMAIN disk' -> [by : Processes, whole : BOOLEAN]]
      /\ disk'[NextFile(p)].by = p
      /\ (\A m \in DOMAIN disk : disk'[m].by = disk[m].by)
      /\ Mine(p)' = Mine(p) \cup {NextFile(p)} /\ \A q \in Processes : q # p => Mine(q)' = Mine(q)
  <2>1. DOMAIN disk' = DOMAIN disk \cup {NextFile(p)} /\ disk'[NextFile(p)].by = p
        /\ \A m \in DOMAIN disk : m # NextFile(p) => disk'[m] = disk[m]
    BY <1>1 DEF Put
  <2>2. disk' \in [DOMAIN disk' -> [by : Processes, whole : BOOLEAN]]
    BY <1>1 DEF Put, TypeOK
  <2>3. NextFile(p) \notin DOMAIN disk
    BY <1>1 DEF Exists
  <2>4. \A m \in DOMAIN disk : disk'[m].by = disk[m].by
    BY <2>1, <2>3
  <2>5. /\ Mine(p)' = Mine(p) \cup {NextFile(p)}
        /\ \A q \in Processes : q # p => Mine(q)' = Mine(q)
    BY <2>1, <2>3, <2>4 DEF Mine
  <2>6. QED
    BY <2>1, <2>2, <2>4, <2>5
<1>3. process'[p].at = process[p].at /\ process'[p].next = process[p].next
      /\ process'[p].wrote = process[p].wrote \cup {NextFile(p)} /\ process'[p].stuck = process[p].stuck
      /\ \A q \in Processes : q # p => process'[q] = process[q]
  BY <1>1 DEF TypeOK
<1>4. TypeOK' /\ Names' = Names /\ SafeTools'
  <2>1. process' \in [Processes -> [at : States, next : DOMAIN tool.files, wrote : SUBSET Names, stuck : SUBSET Names]]
    BY <1>1 DEF TypeOK
  <2>2. QED
    BY <1>1, <1>2, <2>1 DEF TypeOK, Names, SafeTools
<1>5. OwnsWhatItWrote'
  BY <1>1, <1>2, <1>3 DEF IInv, OwnsWhatItWrote, Working
<1>6. DirectoryHasOneOwner'
  <2>1. ASSUME tool'.directory, NEW q \in Processes, Working(q)' PROVE "." \in Mine(q)'
    BY <1>1, <1>2, <1>3, <2>1 DEF IInv, DirectoryHasOneOwner, Working
  <2>2. ASSUME tool'.directory PROVE Exists(".") /\ disk'["."].by = p
    <3>1. "." \in Mine(p)
      BY <1>1, <2>2 DEF IInv, DirectoryHasOneOwner, Working
    <3>2. QED
      BY <1>2, <3>1 DEF Mine, Exists
  <2>3. ASSUME tool'.directory, NEW n \in DOMAIN disk' PROVE Exists(".")' /\ disk'[n].by = disk'["."].by
    BY <1>1, <1>2, <2>2, <2>3 DEF IInv, DirectoryHasOneOwner, Exists
  <2>4. QED
    BY <2>1, <2>3 DEF DirectoryHasOneOwner
<1>7. WriterKnowsItsFiles'
  BY <1>1, <1>2, <1>3 DEF IInv, WriterKnowsItsFiles
<1>8. FirstFileFirst'
  <2>1. SUFFICES ASSUME NEW q \in Processes, process'[q].next = 1
                 PROVE  /\ process'[q].wrote \subseteq {NextFile(q)'}
                        /\ Mine(q)' \subseteq {"."} \cup process'[q].wrote \cup process'[q].stuck
    BY DEF FirstFileFirst
  <2>2. process[q].next = 1 /\ NextFile(q)' = NextFile(q)
    BY <1>1, <1>3, <2>1 DEF NextFile
  <2>3. process[q].wrote \subseteq {NextFile(q)}
        /\ Mine(q) \subseteq {"."} \cup process[q].wrote \cup process[q].stuck
    BY <2>2 DEF IInv, FirstFileFirst
  <2>4. QED
    BY <1>2, <1>3, <2>2, <2>3
<1>9. RollbackKnowsItsFiles'
  <2>1. SUFFICES ASSUME tool.rollback = Names, NEW q \in Processes
                 PROVE  /\ Mine(q)' \subseteq process'[q].wrote \cup process'[q].stuck
                        /\ process'[q].at = "refused" => process'[q].wrote = {}
    BY <1>1, <1>4 DEF RollbackKnowsItsFiles
  <2>2. Mine(q) \subseteq process[q].wrote \cup process[q].stuck
        /\ (process[q].at = "refused" => process[q].wrote = {})
    BY <2>1 DEF IInv, RollbackKnowsItsFiles
  <2>3. QED
    BY <1>1, <1>2, <1>3, <2>2
<1>10. NothingYet'
  BY <1>1, <1>3 DEF IInv, NothingYet
<1>11. QED
  BY <1>4, <1>5, <1>6, <1>7, <1>8, <1>9, <1>10 DEF IInv

(* Finishing a file moves to the next one, or ends; nobody's files change hands. *)
LEMMA WriteFileIInv ==
    ASSUME IInv, NEW p \in Processes, WriteFile(p)
    PROVE  IInv'
<1>1. TypeOK /\ SafeTools /\ tool' = tool /\ process[p].at = "writing"
      /\ process' = [process EXCEPT ![p] = Advance(p)]
      /\ NextFile(p) \in Mine(p) /\ disk' = Put(NextFile(p), [by |-> p, whole |-> TRUE])
  BY WritesOwnFile DEF IInv, WriteFile
<1>2. process[p] \in [at : States, next : DOMAIN tool.files, wrote : SUBSET Names, stuck : SUBSET Names]
      /\ process[p].next \in 1..Len(tool.files) /\ Len(tool.files) \in Nat
      /\ DOMAIN tool.files = 1..Len(tool.files)
  BY OwnState
<1>3. Advance(p) \in [at : States, next : DOMAIN tool.files, wrote : SUBSET Names, stuck : SUBSET Names]
      /\ Advance(p).wrote = process[p].wrote /\ Advance(p).stuck = process[p].stuck
      /\ Advance(p).at \in {"writing", "done"}
      /\ (Advance(p).next = 1 => process[p].next = 1)
  <2>1. CASE process[p].next = Len(tool.files)
    BY <1>1, <1>2, <2>1 DEF Advance, States
  <2>2. CASE process[p].next # Len(tool.files)
    <3>1. process[p].next + 1 \in DOMAIN tool.files /\ process[p].next + 1 # 1
      BY <1>2, <2>2
    <3>2. QED
      BY <1>1, <1>2, <2>2, <3>1 DEF Advance, States
  <2>3. QED
    BY <2>1, <2>2
<1>4. DOMAIN disk' = DOMAIN disk
      /\ disk' \in [DOMAIN disk' -> [by : Processes, whole : BOOLEAN]]
      /\ (\A m \in DOMAIN disk : disk'[m].by = disk[m].by)
      /\ \A q \in Processes : Mine(q)' = Mine(q)
  <2>1. Exists(NextFile(p)) /\ disk[NextFile(p)].by = p
    BY <1>1 DEF Mine, Exists
  <2>2. DOMAIN disk' = DOMAIN disk \cup {NextFile(p)} /\ disk'[NextFile(p)].by = p
        /\ \A m \in DOMAIN disk : m # NextFile(p) => disk'[m] = disk[m]
    BY <1>1 DEF Put
  <2>3. disk' \in [DOMAIN disk' -> [by : Processes, whole : BOOLEAN]]
    BY <1>1 DEF Put, TypeOK
  <2>4. (\A m \in DOMAIN disk : disk'[m].by = disk[m].by) /\ DOMAIN disk' = DOMAIN disk
    BY <2>1, <2>2 DEF Exists
  <2>5. QED
    BY <2>3, <2>4 DEF Mine
<1>5. process'[p] = Advance(p) /\ \A q \in Processes : q # p => process'[q] = process[q]
  BY <1>1 DEF TypeOK
<1>6. TypeOK' /\ Names' = Names /\ SafeTools'
  <2>1. process' \in [Processes -> [at : States, next : DOMAIN tool.files, wrote : SUBSET Names, stuck : SUBSET Names]]
    BY <1>1, <1>3 DEF TypeOK
  <2>2. QED
    BY <1>1, <1>4, <2>1 DEF TypeOK, Names, SafeTools
<1>7. OwnsWhatItWrote'
  BY <1>1, <1>3, <1>4, <1>5 DEF IInv, OwnsWhatItWrote, Working
<1>8. DirectoryHasOneOwner'
  <2>1. ASSUME tool'.directory, NEW q \in Processes, Working(q)' PROVE "." \in Mine(q)'
    BY <1>1, <1>3, <1>4, <1>5, <2>1 DEF IInv, DirectoryHasOneOwner, Working
  <2>2. ASSUME tool'.directory, NEW n \in DOMAIN disk' PROVE Exists(".")' /\ disk'[n].by = disk'["."].by
    BY <1>1, <1>4, <2>2 DEF IInv, DirectoryHasOneOwner, Exists
  <2>3. QED
    BY <2>1, <2>2 DEF DirectoryHasOneOwner
<1>9. WriterKnowsItsFiles'
  BY <1>1, <1>3, <1>4, <1>5 DEF IInv, WriterKnowsItsFiles
<1>10. FirstFileFirst'
  <2>1. SUFFICES ASSUME NEW q \in Processes, process'[q].next = 1
                 PROVE  /\ process'[q].wrote \subseteq {NextFile(q)'}
                        /\ Mine(q)' \subseteq {"."} \cup process'[q].wrote \cup process'[q].stuck
    BY DEF FirstFileFirst
  <2>2. process[q].next = 1 /\ process'[q].wrote = process[q].wrote /\ process'[q].stuck = process[q].stuck
    BY <1>3, <1>5, <2>1
  <2>3. NextFile(q)' = NextFile(q)
    BY <1>1, <2>1, <2>2 DEF NextFile
  <2>4. QED
    BY <1>4, <2>2, <2>3 DEF IInv, FirstFileFirst
<1>11. RollbackKnowsItsFiles'
  <2>1. SUFFICES ASSUME tool.rollback = Names, NEW q \in Processes
                 PROVE  /\ Mine(q)' \subseteq process'[q].wrote \cup process'[q].stuck
                        /\ process'[q].at = "refused" => process'[q].wrote = {}
    BY <1>1, <1>6 DEF RollbackKnowsItsFiles
  <2>2. Mine(q) \subseteq process[q].wrote \cup process[q].stuck
        /\ (process[q].at = "refused" => process[q].wrote = {})
    BY <2>1 DEF IInv, RollbackKnowsItsFiles
  <2>3. QED
    BY <1>3, <1>4, <1>5, <2>2
<1>12. NothingYet'
  BY <1>1, <1>3, <1>5 DEF IInv, NothingYet
<1>13. QED
  BY <1>6, <1>7, <1>8, <1>9, <1>10, <1>11, <1>12 DEF IInv

(* Taking a file back gives up one the process owns, whether unlink succeeds or not. *)
LEMMA UndoIInv ==
    ASSUME IInv, NEW p \in Processes, NEW n \in process[p].wrote, NEW removed \in BOOLEAN,
           Undo(p, n, removed)
    PROVE  IInv'
<1>1. TypeOK /\ SafeTools /\ tool' = tool /\ process[p].at = "undoing"
      /\ process[p].wrote \subseteq Mine(p) /\ "." \notin Names
      /\ process[p] \in [at : States, next : DOMAIN tool.files, wrote : SUBSET Names, stuck : SUBSET Names]
      /\ (process[p].next = 1 => process[p].wrote \subseteq {NextFile(p)})
  BY OwnState, ToolShape DEF IInv, Undo, Working
<1>2. n \in Mine(p) /\ n \in Names /\ n # "."
  BY <1>1
<1>3. disk' = (IF removed THEN Drop(n) ELSE disk)
  BY DEF Undo
<1>4. /\ DOMAIN disk' = (IF removed THEN DOMAIN disk \ {n} ELSE DOMAIN disk)
      /\ disk' \in [DOMAIN disk' -> [by : Processes, whole : BOOLEAN]]
      /\ \A m \in DOMAIN disk' : m \in DOMAIN disk /\ disk'[m] = disk[m]
  BY <1>1, <1>3 DEF Drop, TypeOK
<1>5. /\ Mine(p)' = (IF removed THEN Mine(p) \ {n} ELSE Mine(p))
      /\ \A q \in Processes : q # p => Mine(q)' = Mine(q)
  <2>1. Mine(p)' = (IF removed THEN Mine(p) \ {n} ELSE Mine(p))
    BY <1>4 DEF Mine
  <2>2. disk[n].by = p
    BY <1>2 DEF Mine
  <2>3. \A q \in Processes : q # p => Mine(q)' = Mine(q)
    BY <1>4, <2>2 DEF Mine
  <2>4. QED
    BY <2>1, <2>3
<1>6. /\ process'[p].next = process[p].next
      /\ process'[p].wrote = process[p].wrote \ {n}
      /\ process'[p].stuck = (IF removed THEN process[p].stuck ELSE process[p].stuck \cup {n})
      /\ process'[p].at = (IF process[p].wrote = {n} THEN "refused" ELSE "undoing")
      /\ \A q \in Processes : q # p => process'[q] = process[q]
  BY <1>1 DEF Undo, TypeOK
<1>7. TypeOK' /\ Names' = Names /\ SafeTools'
  <2>1. process' \in [Processes -> [at : States, next : DOMAIN tool.files, wrote : SUBSET Names, stuck : SUBSET Names]]
    <3>1. process' = [process EXCEPT ![p] = process'[p]] /\ process \in [Processes ->
              [at : States, next : DOMAIN tool.files, wrote : SUBSET Names, stuck : SUBSET Names]]
      BY <1>1 DEF Undo, TypeOK
    <3>2. process'[p] \in [at : States, next : DOMAIN tool.files, wrote : SUBSET Names, stuck : SUBSET Names]
      BY <1>1, <1>2 DEF Undo, TypeOK, States
    <3>3. QED
      BY <3>1, <3>2
  <2>2. QED
    BY <1>1, <1>4, <2>1 DEF TypeOK, Names, SafeTools
<1>8. OwnsWhatItWrote'
  BY <1>1, <1>5, <1>6 DEF IInv, OwnsWhatItWrote, Working
<1>9. DirectoryHasOneOwner'
  <2>1. ASSUME tool'.directory, NEW q \in Processes, Working(q)' PROVE "." \in Mine(q)'
    <3>1. Working(q)
      BY <1>1, <1>6, <2>1 DEF Working
    <3>2. "." \in Mine(q)
      BY <1>1, <2>1, <3>1 DEF IInv, DirectoryHasOneOwner
    <3>3. QED
      BY <1>2, <1>5, <3>2
  <2>2. ASSUME tool'.directory, NEW m \in DOMAIN disk' PROVE Exists(".")' /\ disk'[m].by = disk'["."].by
    BY <1>1, <1>2, <1>4, <2>2 DEF IInv, DirectoryHasOneOwner, Exists
  <2>3. QED
    BY <2>1, <2>2 DEF DirectoryHasOneOwner
<1>10. WriterKnowsItsFiles'
  BY <1>1, <1>5, <1>6 DEF IInv, WriterKnowsItsFiles
<1>11. FirstFileFirst'
  <2>1. SUFFICES ASSUME NEW q \in Processes, process'[q].next = 1
                 PROVE  /\ process'[q].wrote \subseteq {NextFile(q)'}
                        /\ Mine(q)' \subseteq {"."} \cup process'[q].wrote \cup process'[q].stuck
    BY DEF FirstFileFirst
  <2>2. process[q].next = 1 /\ NextFile(q)' = NextFile(q)
    BY <1>1, <1>6, <2>1 DEF NextFile
  <2>3. process[q].wrote \subseteq {NextFile(q)}
        /\ Mine(q) \subseteq {"."} \cup process[q].wrote \cup process[q].stuck
    BY <2>2 DEF IInv, FirstFileFirst
  <2>4. QED
    BY <1>5, <1>6, <2>2, <2>3
<1>12. RollbackKnowsItsFiles'
  <2>1. SUFFICES ASSUME tool.rollback = Names, NEW q \in Processes
                 PROVE  /\ Mine(q)' \subseteq process'[q].wrote \cup process'[q].stuck
                        /\ process'[q].at = "refused" => process'[q].wrote = {}
    BY <1>1, <1>7 DEF RollbackKnowsItsFiles
  <2>2. Mine(q) \subseteq process[q].wrote \cup process[q].stuck
        /\ (process[q].at = "refused" => process[q].wrote = {})
    BY <2>1 DEF IInv, RollbackKnowsItsFiles
  <2>3. QED
    BY <1>5, <1>6, <2>2
<1>13. NothingYet'
  BY <1>1, <1>6 DEF IInv, NothingYet
<1>14. QED
  BY <1>7, <1>8, <1>9, <1>10, <1>11, <1>12, <1>13 DEF IInv

(* Every step of every process keeps the invariant. *)
LEMMA NextIInv == IInv /\ [OutNext]_outVars => IInv'
<1>1. ASSUME IInv, NEW p \in Processes,
             \/ RefuseInput(p) \/ Convert(p) \/ CreateDirectory(p) \/ DirectoryExists(p)
             \/ OpenFile(p) \/ WriteFile(p) \/ LeaveOut(p) \/ FailFile(p) \/ Kill(p)
      PROVE  IInv'
  BY <1>1, EndsIInv, ConvertIInv, CreateDirectoryIInv, OpenFileIInv, WriteFileIInv, LeaveOutIInv, FailFileIInv
<1>2. ASSUME IInv, UNCHANGED outVars PROVE IInv'
  BY <1>2 DEF outVars, IInv, SafeTools, TypeOK, OwnsWhatItWrote, DirectoryHasOneOwner, WriterKnowsItsFiles,
     FirstFileFirst, RollbackKnowsItsFiles, NothingYet, Names, Mine, Working, Exists, NextFile
<1>3. QED
  BY <1>1, <1>2, UndoIInv DEF OutNext

(* The invariant holds in every reachable state of safe tools. *)
THEOREM Ownership == SafeTools /\ OutSpec => []IInv
<1>1. SafeTools /\ OutInit => IInv
  BY InitIInv
<1>2. IInv /\ [OutNext]_outVars => IInv'
  BY NextIInv
<1>3. QED
  BY <1>1, <1>2, PTL DEF OutSpec

(* A process that is refused before its first file leaves nothing but what it *)
(* could not remove, and one that takes everything back likewise: main's      *)
(* handlers remove every file they may have opened.                           *)
THEOREM RefusalsAreClean == SafeTools /\ OutSpec => []RefusalIsClean
<1>1. IInv => RefusalIsClean
  <2>1. SUFFICES ASSUME IInv, NEW p \in Processes, process[p].at = "refused"
        PROVE  /\ process[p].wrote = {} /\ process[p].next = 1 => Mine(p) \subseteq ({"."} \cup process[p].stuck)
               /\ tool.rollback = ToSet(tool.files) => Mine(p) \subseteq process[p].stuck
    BY DEF RefusalIsClean, Mine
  <2>2. ASSUME process[p].wrote = {}, process[p].next = 1
        PROVE  Mine(p) \subseteq ({"."} \cup process[p].stuck)
    BY <2>1, <2>2 DEF IInv, FirstFileFirst
  <2>3. ASSUME tool.rollback = ToSet(tool.files) PROVE Mine(p) \subseteq process[p].stuck
    BY <2>1, <2>3 DEF IInv, RollbackKnowsItsFiles, Names
  <2>4. QED
    BY <2>2, <2>3
<1>2. QED
  BY <1>1, Ownership, PTL

-----------------------------------------------------------------------------

(* What a step leaves of the files, stated of one step. *)
FilesStay ==
    \A n \in DOMAIN disk :
        /\ Exists(n)' => disk'[n].by = disk[n].by /\ (disk[n].whole => disk'[n].whole)
        /\ ~Exists(n)' => process[disk[n].by].at = "undoing"

(* No step of any process changes a file that stays, and a file goes only when *)
(* its writer takes it back.                                                 *)
LEMMA StepFilesStay == IInv /\ [OutNext]_outVars => FilesStay
<1> SUFFICES ASSUME IInv, [OutNext]_outVars PROVE FilesStay
  OBVIOUS
<1>1. ASSUME disk' = disk PROVE FilesStay
  BY <1>1 DEF FilesStay, Exists
<1>2. ASSUME NEW p \in Processes, CreateDirectory(p) PROVE FilesStay
  <2>1. ~Exists(".") /\ disk' = Put(".", [by |-> p, whole |-> TRUE])
    BY <1>2 DEF CreateDirectory
  <2>2. DOMAIN disk' = DOMAIN disk \cup {"."} /\ \A m \in DOMAIN disk : disk'[m] = disk[m]
    BY <2>1 DEF Put, Exists
  <2>3. QED
    BY <2>2 DEF FilesStay, Exists
<1>3. ASSUME NEW p \in Processes, OpenFile(p) PROVE FilesStay
  <2>1. ~Exists(NextFile(p)) /\ disk' = Put(NextFile(p), [by |-> p, whole |-> FALSE])
    BY <1>3, OpensNewFile DEF OpenFile
  <2>2. DOMAIN disk' = DOMAIN disk \cup {NextFile(p)} /\ \A m \in DOMAIN disk : disk'[m] = disk[m]
    BY <2>1 DEF Put, Exists
  <2>3. QED
    BY <2>2 DEF FilesStay, Exists
<1>4. ASSUME NEW p \in Processes, WriteFile(p) PROVE FilesStay
  <2>1. NextFile(p) \in Mine(p) /\ disk' = Put(NextFile(p), [by |-> p, whole |-> TRUE])
    BY <1>4, WritesOwnFile
  <2>2. disk[NextFile(p)].by = p
    BY <2>1 DEF Mine
  <2>3. DOMAIN disk' = DOMAIN disk \cup {NextFile(p)}
        /\ disk'[NextFile(p)].by = p /\ disk'[NextFile(p)].whole
        /\ \A m \in DOMAIN disk : m # NextFile(p) => disk'[m] = disk[m]
    BY <2>1 DEF Put
  <2>4. QED
    BY <2>2, <2>3 DEF FilesStay, Exists
<1>5. ASSUME NEW p \in Processes, NEW n \in process[p].wrote, NEW removed \in BOOLEAN, Undo(p, n, removed)
      PROVE  FilesStay
  <2>1. process[p].at = "undoing" /\ disk' = (IF removed THEN Drop(n) ELSE disk)
    BY <1>5 DEF Undo
  <2>2. disk[n].by = p
    BY <2>1, OwnState DEF Working, Mine
  <2>3. DOMAIN disk' = (IF removed THEN DOMAIN disk \ {n} ELSE DOMAIN disk)
        /\ \A m \in DOMAIN disk' : disk'[m] = disk[m]
    BY <2>1 DEF Drop
  <2>4. QED
    BY <2>1, <2>2, <2>3 DEF FilesStay, Exists
<1>6. ASSUME NEW p \in Processes,
             RefuseInput(p) \/ Convert(p) \/ DirectoryExists(p) \/ LeaveOut(p) \/ FailFile(p) \/ Kill(p)
      PROVE  FilesStay
  BY <1>1, <1>6 DEF RefuseInput, Convert, DirectoryExists, LeaveOut, FailFile, Kill
<1>7. CASE UNCHANGED outVars
  BY <1>1, <1>7 DEF outVars
<1>8. QED
  BY <1>2, <1>3, <1>4, <1>5, <1>6, <1>7 DEF OutNext

(* No process changes or replaces a file another one published, however many *)
(* run at once, fail, are killed or tried again: mkdir without exist_ok, or  *)
(* mode "x", in each main.                                                   *)
THEOREM PublicationIsFinal == SafeTools /\ OutSpec => PublishedIsFinal
<1>1. IInv /\ [OutNext]_outVars => [FilesStay]_outVars
  BY StepFilesStay
<1>2. SafeTools /\ OutSpec => [][FilesStay]_outVars
  BY <1>1, Ownership, PTL DEF OutSpec
<1>3. QED
  BY <1>2 DEF PublishedIsFinal, FilesStay

-----------------------------------------------------------------------------
(* The order of the files. *)

(* The premise about the order; TLC checks it of the tools under scripts/ *)
(* (ToolsAreOrdered).                                                     *)
OrderedTools == \A t \in Tools : OrderedTool(t)

Finished(p) == IF process[p].at = "done" THEN DOMAIN tool.files ELSE 1..(process[p].next - 1)

(* What a process has behind it is whole and its own, or was left out. *)
BehindIsWhole ==
    \A p \in Processes : process[p].at \in {"writing", "done"} =>
        \A i \in Finished(p) :
            tool.files[i] \in tool.optional \/ WholeBy(tool.files[i], p)

(* Nothing of a process stands that is still ahead of it. *)
AheadIsEmpty ==
    \A p \in Processes : \A n \in Mine(p) :
        n = "." \/ \E i \in 1..process[p].next : tool.files[i] = n

(* In a directory only the file being written is taken back. *)
UndoesTheLast ==
    tool.directory => \A p \in Processes :
        process[p].at = "undoing" => process[p].wrote \subseteq {NextFile(p)}

(* An account has its data with it. *)
AccountHasItsData ==
    tool.directory => \A a \in Accounts \cap DOMAIN disk, d \in Data \cap Names :
        WholeBy(d, disk[a].by)

(* The output that a sidecar describes is the last file. *)
OutputEndsTheRun ==
    "record_sidecar" \in Names => \A p \in Processes :
        WholeBy("output", p) => process[p].at = "done"

(* A process comes to its files with the first one. *)
StartsWithTheFirst ==
    \A p \in Processes : process[p].at \in {"converting", "creating"} => process[p].next = 1

OrderInv == /\ IInv /\ OrderedTools /\ StartsWithTheFirst
            /\ BehindIsWhole /\ AheadIsEmpty /\ UndoesTheLast
            /\ AccountHasItsData /\ OutputEndsTheRun

(* The steps of one process. *)
Act(p) ==
    \/ RefuseInput(p) \/ Convert(p) \/ CreateDirectory(p) \/ DirectoryExists(p)
    \/ OpenFile(p) \/ WriteFile(p) \/ LeaveOut(p) \/ FailFile(p) \/ Kill(p)
    \/ \E n \in process[p].wrote, removed \in BOOLEAN : Undo(p, n, removed)

(* A process moves only itself, at most one file ahead. *)
LEMMA ActProcess ==
    ASSUME IInv, NEW p \in Processes, Act(p)
    PROVE  /\ tool' = tool /\ process[p].at # "done"
           /\ \A q \in Processes : q # p => process'[q] = process[q]
           /\ process'[p].next \in {process[p].next, process[p].next + 1}
<1>1. /\ TypeOK
      /\ process[p] \in [at : States, next : DOMAIN tool.files, wrote : SUBSET Names, stuck : SUBSET Names]
  BY DEF IInv, TypeOK
<1>2. /\ Advance(p).next \in {process[p].next, process[p].next + 1}
  BY <1>1 DEF Advance
<1>3. CASE RefuseInput(p) \/ Convert(p) \/ CreateDirectory(p) \/ DirectoryExists(p) \/ Kill(p)
  BY <1>1, <1>3 DEF RefuseInput, Convert, CreateDirectory, DirectoryExists, Kill, Moves, TypeOK
<1>4. CASE OpenFile(p)
  BY <1>1, <1>4 DEF OpenFile, MayOpen, TypeOK
<1>5. CASE WriteFile(p)
  BY <1>1, <1>2, <1>5 DEF WriteFile, TypeOK
<1>6. CASE LeaveOut(p)
  BY <1>1, <1>2, <1>6 DEF LeaveOut, MayOpen, TypeOK
<1>7. CASE FailFile(p)
  BY <1>1, <1>7 DEF FailFile, TypeOK
<1>8. ASSUME NEW n \in process[p].wrote, NEW removed \in BOOLEAN, Undo(p, n, removed)
      PROVE  /\ tool' = tool /\ process[p].at # "done"
             /\ \A q \in Processes : q # p => process'[q] = process[q]
             /\ process'[p].next = process[p].next
  BY <1>1, <1>8 DEF Undo, TypeOK
<1>9. QED
  BY <1>3, <1>4, <1>5, <1>6, <1>7, <1>8 DEF Act

(* What a process puts on the disk: its directory, or its next file. *)
LEMMA ActDisk ==
    ASSUME IInv, NEW p \in Processes, Act(p), NEW n \in DOMAIN disk'
    PROVE  \/ n \in DOMAIN disk /\ disk'[n].by = disk[n].by
           \/ n = "." /\ disk'[n].by = p /\ CreateDirectory(p)
           \/ n = NextFile(p) /\ disk'[n].by = p /\ OpenFile(p)
<1>1. CASE disk' = disk
  BY <1>1
<1>2. CASE CreateDirectory(p)
  BY <1>2 DEF CreateDirectory, Put
<1>3. CASE OpenFile(p)
  BY <1>3 DEF OpenFile, Put
<1>4. CASE WriteFile(p)
  <2>1. /\ NextFile(p) \in DOMAIN disk /\ disk[NextFile(p)].by = p
        /\ disk' = Put(NextFile(p), [by |-> p, whole |-> TRUE])
    BY <1>4, WritesOwnFile DEF Mine
  <2>2. DOMAIN disk' = DOMAIN disk
    BY <2>1 DEF Put
  <2>3. disk'[n].by = IF n = NextFile(p) THEN p ELSE disk[n].by
    BY <2>1, <2>2 DEF Put
  <2>4. QED
    BY <2>1, <2>2, <2>3
<1>5. ASSUME NEW m \in process[p].wrote, NEW removed \in BOOLEAN, Undo(p, m, removed)
      PROVE  n \in DOMAIN disk /\ disk'[n].by = disk[n].by
  BY <1>5 DEF Undo, Drop
<1>6. CASE RefuseInput(p) \/ Convert(p) \/ DirectoryExists(p) \/ LeaveOut(p) \/ FailFile(p) \/ Kill(p)
  BY <1>1, <1>6 DEF RefuseInput, Convert, DirectoryExists, LeaveOut, FailFile, Kill
<1>7. QED
  BY <1>2, <1>3, <1>4, <1>5, <1>6 DEF Act

\* n is whole and p's after the step.
WholeNext(n, p) == n \in DOMAIN disk' /\ disk'[n].whole /\ disk'[n].by = p

(* A whole file stays whole unless it is the one its writer takes back. *)
LEMMA WholeKept ==
    ASSUME IInv, NEW p \in Processes, Act(p), NEW n, NEW o, WholeBy(n, o),
           process[p].at = "undoing" => n \notin process[p].wrote
    PROVE  WholeNext(n, o)
<1>1. Exists(n) /\ disk[n].whole /\ disk[n].by = o
  BY DEF WholeBy
<1>2. Exists(n)'
  <2>1. CASE CreateDirectory(p)
    BY <1>1, <2>1 DEF CreateDirectory, Put, Exists
  <2>2. CASE OpenFile(p)
    BY <1>1, <2>2 DEF OpenFile, Put, Exists
  <2>3. CASE WriteFile(p)
    BY <1>1, <2>3, WritesOwnFile DEF Put, Exists
  <2>4. ASSUME NEW m \in process[p].wrote, NEW removed \in BOOLEAN, Undo(p, m, removed)
        PROVE  Exists(n)'
    <3>1. m # n
      BY <2>4 DEF Undo
    <3>2. QED
      BY <1>1, <2>4, <3>1 DEF Undo, Drop, Exists
  <2>5. CASE RefuseInput(p) \/ Convert(p) \/ DirectoryExists(p) \/ LeaveOut(p) \/ FailFile(p) \/ Kill(p)
    BY <1>1, <2>5 DEF RefuseInput, Convert, DirectoryExists, LeaveOut, FailFile, Kill, Exists
  <2>6. QED
    BY <2>1, <2>2, <2>3, <2>4, <2>5 DEF Act
<1>3. FilesStay
  <2>1. OutNext
    BY DEF OutNext, Act
  <2>2. QED
    BY <2>1, StepFilesStay
<1>4. n \in DOMAIN disk
  BY <1>1 DEF Exists
<1>5. QED
  BY <1>1, <1>2, <1>3, <1>4 DEF FilesStay, WholeNext, Exists

(* A process that takes nothing back keeps what it finished, whoever moves. *)
LEMMA WholeStays ==
    ASSUME IInv, NEW p \in Processes, Act(p), NEW q \in Processes, NEW n,
           WholeBy(n, q), process[q].at # "undoing"
    PROVE  WholeNext(n, q)
<1>1. ASSUME process[p].at = "undoing" PROVE n \notin process[p].wrote
  <2>1. process[p].wrote \subseteq Mine(p)
    BY <1>1, OwnState DEF Working
  <2>2. n \notin Mine(p)
    BY <1>1 DEF WholeBy, Mine
  <2>3. QED
    BY <2>1, <2>2
<1>2. QED
  BY <1>1, WholeKept

LEMMA InitOrderInv == SafeTools /\ OrderedTools /\ OutInit => OrderInv
<1> SUFFICES ASSUME SafeTools, OrderedTools, OutInit PROVE OrderInv
  OBVIOUS
<1>1. IInv
  BY InitIInv
<1>2. \A p \in Processes : process[p] = [at |-> "converting", next |-> 1, wrote |-> {}, stuck |-> {}]
  BY DEF OutInit
<1>3. DOMAIN disk = {} /\ \A p \in Processes : Mine(p) = {}
  BY DEF OutInit, Mine
<1>4. \A n, p : ~WholeBy(n, p)
  BY <1>3 DEF WholeBy, Exists
<1>5. QED
  BY <1>1, <1>2, <1>3, <1>4 DEF OrderInv, StartsWithTheFirst, BehindIsWhole, AheadIsEmpty,
     UndoesTheLast, AccountHasItsData, OutputEndsTheRun

(* Going on to the next file adds the one just done to those behind. *)
LEMMA AdvanceFinishes ==
    ASSUME IInv, NEW p \in Processes, process[p].at = "writing", process'[p] = Advance(p),
           tool' = tool, NEW i \in Finished(p)'
    PROVE  i \in Finished(p) \/ i = process[p].next
<1>1. /\ process[p] \in [at : States, next : DOMAIN tool.files, wrote : SUBSET Names, stuck : SUBSET Names]
      /\ process[p].next \in 1..Len(tool.files) /\ Len(tool.files) \in Nat
      /\ DOMAIN tool.files = 1..Len(tool.files)
  BY OwnState
<1>2. Finished(p) = 1..(process[p].next - 1)
  BY DEF Finished
<1>3. CASE process[p].next = Len(tool.files)
  <2>1. i \in 1..Len(tool.files)
    BY <1>1, <1>3 DEF Finished, Advance
  <2>2. QED
    BY <1>1, <1>2, <1>3, <2>1
<1>4. CASE process[p].next # Len(tool.files)
  <2>1. process'[p].at = "writing" /\ process'[p].next = process[p].next + 1
    BY <1>1, <1>4 DEF Advance
  <2>2. i \in 1..((process[p].next + 1) - 1)
    BY <2>1 DEF Finished
  <2>3. QED
    BY <1>1, <1>2, <2>2
<1>5. QED
  BY <1>3, <1>4

(* A file is behind only when it was written whole or may be left out. *)
LEMMA ActBehind ==
    ASSUME OrderInv, NEW p \in Processes, Act(p)
    PROVE  BehindIsWhole'
<1>1. /\ IInv /\ tool' = tool
      /\ \A r \in Processes : r # p => process'[r] = process[r]
  BY ActProcess DEF OrderInv
<1> SUFFICES ASSUME NEW q \in Processes, process'[q].at \in {"writing", "done"},
                    NEW i \in Finished(q)'
             PROVE  tool.files[i] \in tool.optional \/ WholeNext(tool.files[i], q)
  BY <1>1 DEF BehindIsWhole, WholeBy, WholeNext, Exists
<1>2. ASSUME process[q].at \in {"writing", "done"}, i \in Finished(q)
      PROVE  tool.files[i] \in tool.optional \/ WholeNext(tool.files[i], q)
  <2>1. tool.files[i] \in tool.optional \/ WholeBy(tool.files[i], q)
    BY <1>2 DEF OrderInv, BehindIsWhole
  <2>2. process[q].at # "undoing"
    BY <1>2
  <2>3. QED
    BY <1>1, <2>1, <2>2, WholeStays
<1>3. CASE q # p
  <2>1. process[q].at \in {"writing", "done"} /\ i \in Finished(q)
    BY <1>1, <1>3 DEF Finished
  <2>2. QED
    BY <1>1, <1>2, <2>1
<1>4. CASE q = p /\ (Convert(p) \/ CreateDirectory(p))
  <2>1. process[p].at \in {"converting", "creating"}
    BY <1>4 DEF Convert, CreateDirectory
  <2>2. process[p].next = 1
    BY <2>1 DEF OrderInv, StartsWithTheFirst
  <2>3. process'[p].next = 1 /\ process'[p].at # "done"
    BY <1>1, <1>4, <2>2 DEF Convert, CreateDirectory, Moves, IInv, TypeOK
  <2>4. Finished(p)' = 1..0
    BY <2>3 DEF Finished
  <2>5. QED
    BY <1>4, <2>4
<1>5. CASE q = p /\ OpenFile(p)
  <2>1. process[p].at = "writing" /\ process'[p].at = "writing" /\ process'[p].next = process[p].next
    BY <1>1, <1>5 DEF OpenFile, MayOpen, IInv, TypeOK
  <2>2. i \in Finished(q)
    BY <1>5, <2>1 DEF Finished
  <2>3. QED
    BY <1>1, <1>2, <1>5, <2>1, <2>2
<1>6. CASE q = p /\ (WriteFile(p) \/ LeaveOut(p))
  <2>1. process[p].at = "writing" /\ process'[p] = Advance(p)
    BY <1>1, <1>6 DEF WriteFile, LeaveOut, MayOpen, IInv, TypeOK
  <2>2. i \in Finished(p) \/ i = process[p].next
    BY <1>1, <1>6, <2>1, AdvanceFinishes
  <2>3. CASE i = process[p].next /\ WriteFile(p)
    <3>1. tool.files[i] = NextFile(p) /\ disk' = Put(NextFile(p), [by |-> p, whole |-> TRUE])
      BY <1>1, <2>3, WritesOwnFile DEF NextFile
    <3>2. WholeNext(NextFile(p), p)
      BY <3>1 DEF Put, WholeNext
    <3>3. QED
      BY <1>6, <3>1, <3>2
  <2>4. CASE i = process[p].next /\ LeaveOut(p)
    BY <1>1, <2>4 DEF LeaveOut, NextFile
  <2>5. QED
    BY <1>1, <1>2, <1>6, <2>1, <2>2, <2>3, <2>4
<1>7. CASE q = p /\ (RefuseInput(p) \/ DirectoryExists(p) \/ FailFile(p) \/ Kill(p))
  BY <1>1, <1>7 DEF RefuseInput, DirectoryExists, FailFile, Kill, Moves, IInv, TypeOK
<1>8. ASSUME q = p, NEW n \in process[p].wrote, NEW removed \in BOOLEAN, Undo(p, n, removed)
      PROVE  FALSE
  BY <1>1, <1>8 DEF Undo, IInv, TypeOK
<1>9. QED
  BY <1>3, <1>4, <1>5, <1>6, <1>7, <1>8 DEF Act

(* The position of a process never goes back, and it opens only what is there. *)
LEMMA ActAhead ==
    ASSUME OrderInv, NEW p \in Processes, Act(p)
    PROVE  AheadIsEmpty'
<1>1. /\ IInv /\ tool' = tool
      /\ \A r \in Processes : r # p => process'[r] = process[r]
      /\ process'[p].next \in {process[p].next, process[p].next + 1}
  BY ActProcess DEF OrderInv
<1>2. \A r \in Processes : process[r].next \in Nat \ {0}
  BY <1>1, OwnState
<1> SUFFICES ASSUME NEW q \in Processes, NEW n \in DOMAIN disk', disk'[n].by = q
             PROVE  n = "." \/ \E i \in 1..process'[q].next : tool.files[i] = n
  BY <1>1 DEF AheadIsEmpty, Mine
<1>3. \A i \in 1..process[q].next : i \in 1..process'[q].next
  BY <1>1, <1>2
<1>4. CASE n \in DOMAIN disk /\ disk'[n].by = disk[n].by
  <2>1. n \in Mine(q)
    BY <1>4 DEF Mine
  <2>2. n = "." \/ \E i \in 1..process[q].next : tool.files[i] = n
    BY <2>1 DEF OrderInv, AheadIsEmpty
  <2>3. QED
    BY <1>3, <2>2
<1>5. CASE n = NextFile(p) /\ disk'[n].by = p
  <2>1. q = p /\ tool.files[process[p].next] = n
    BY <1>5 DEF NextFile
  <2>2. process[q].next \in 1..process[q].next
    BY <1>2
  <2>3. QED
    BY <1>3, <2>1, <2>2
<1>6. QED
  BY <1>1, <1>4, <1>5, ActDisk

(* Only a process that failed takes files back, and in a directory only the   *)
(* one it was writing; a process comes to its first file from its directory.  *)
LEMMA ActPlaces ==
    ASSUME OrderInv, NEW p \in Processes, Act(p)
    PROVE  /\ process'[p].at \in {"converting", "creating"} => process'[p].next = 1
           /\ tool.directory /\ process'[p].at = "undoing" =>
                 process'[p].wrote \subseteq {tool.files[process'[p].next]}
<1>1. /\ IInv /\ TypeOK
      /\ process[p] \in [at : States, next : DOMAIN tool.files, wrote : SUBSET Names, stuck : SUBSET Names]
  BY OwnState DEF OrderInv, IInv
<1>2. CASE RefuseInput(p) \/ DirectoryExists(p) \/ Kill(p)
  BY <1>1, <1>2 DEF RefuseInput, DirectoryExists, Kill, Moves, TypeOK
<1>3. CASE Convert(p) \/ CreateDirectory(p)
  <2>1. process[p].at \in {"converting", "creating"}
    BY <1>3 DEF Convert, CreateDirectory
  <2>2. process[p].next = 1
    BY <2>1 DEF OrderInv, StartsWithTheFirst
  <2>3. QED
    BY <1>1, <1>3, <2>2 DEF Convert, CreateDirectory, Moves, TypeOK
<1>4. CASE OpenFile(p)
  BY <1>1, <1>4 DEF OpenFile, MayOpen, TypeOK
<1>5. CASE WriteFile(p) \/ LeaveOut(p)
  <2>1. process[p].at = "writing" /\ process'[p] = Advance(p)
    BY <1>1, <1>5 DEF WriteFile, LeaveOut, MayOpen, TypeOK
  <2>2. process'[p].at \in {"writing", "done"}
    BY <1>1, <2>1 DEF Advance
  <2>3. QED
    BY <2>2
<1>6. CASE FailFile(p)
  <2>1. /\ process'[p].at \in {"refused", "undoing"} /\ process'[p].next = process[p].next
        /\ process'[p].at = "undoing" => process'[p].wrote = ToUndo(p)
    BY <1>1, <1>6 DEF FailFile, TypeOK
  <2>2. tool.directory => ToUndo(p) \subseteq {NextFile(p)}
    BY DEF ToUndo
  <2>3. QED
    BY <2>1, <2>2 DEF NextFile
<1>7. ASSUME NEW n \in process[p].wrote, NEW removed \in BOOLEAN, Undo(p, n, removed)
      PROVE  /\ process'[p].at \in {"refused", "undoing"}
             /\ tool.directory /\ process'[p].at = "undoing" =>
                   process'[p].wrote \subseteq {tool.files[process'[p].next]}
  <2>1. /\ process[p].at = "undoing" /\ process'[p].at \in {"refused", "undoing"}
        /\ process'[p].next = process[p].next /\ process'[p].wrote = process[p].wrote \ {n}
    BY <1>1, <1>7 DEF Undo, TypeOK
  <2>2. tool.directory => process[p].wrote \subseteq {NextFile(p)}
    BY <2>1 DEF OrderInv, UndoesTheLast
  <2>3. QED
    BY <2>1, <2>2 DEF NextFile
<1>8. QED
  BY <1>2, <1>3, <1>4, <1>5, <1>6, <1>7 DEF Act

(* In a directory the file that is taken back is not one an account stands on: *)
(* the account would be ahead of its writer.                                   *)
LEMMA TakesBackNoData ==
    ASSUME OrderInv, tool.directory, NEW p \in Processes, process[p].at = "undoing",
           NEW a \in Accounts \cap DOMAIN disk, NEW d \in Data \cap Names,
           WholeBy(d, disk[a].by)
    PROVE  d \notin process[p].wrote
<1> SUFFICES ASSUME d \in process[p].wrote PROVE FALSE
  OBVIOUS
<1>1. d \in Mine(p) /\ d = NextFile(p)
  BY OwnState DEF OrderInv, UndoesTheLast, Working
<1>2. a \in Mine(p) /\ a # "."
  BY <1>1 DEF WholeBy, Mine, Accounts
<1>3. PICK k \in 1..process[p].next : tool.files[k] = a
  BY <1>2 DEF OrderInv, AheadIsEmpty
<1>4. /\ process[p].next \in 1..Len(tool.files) /\ Len(tool.files) \in Nat
      /\ DOMAIN tool.files = 1..Len(tool.files)
  BY OwnState DEF OrderInv
<1>5. OrderedTool(tool)
  BY DEF OrderInv, OrderedTools, IInv, TypeOK
<1>6. k \in DOMAIN tool.files /\ process[p].next \in DOMAIN tool.files
  BY <1>4
<1>7. process[p].next < k
  BY <1>1, <1>3, <1>5, <1>6 DEF OrderedTool, NextFile
<1>8. QED
  BY <1>3, <1>4, <1>7

(* An account is opened when all the data of its run are whole. *)
LEMMA DataAreBehind ==
    ASSUME OrderInv, tool.directory, NEW p \in Processes, OpenFile(p),
           NextFile(p) \in Accounts, NEW d \in Data \cap Names
    PROVE  WholeBy(d, p)
<1>1. process[p].at = "writing"
  BY DEF OpenFile, MayOpen
<1>2. PICK i \in DOMAIN tool.files : tool.files[i] = d
  BY DEF Names, ToSet
<1>3. OrderedTool(tool)
  BY DEF OrderInv, OrderedTools, IInv, TypeOK
<1>4. /\ process[p].next \in 1..Len(tool.files) /\ Len(tool.files) \in Nat
      /\ DOMAIN tool.files = 1..Len(tool.files)
  BY OwnState DEF OrderInv
<1>5. i < process[p].next /\ d \notin tool.optional
  BY <1>2, <1>3, <1>4 DEF OrderedTool, NextFile
<1>6. i \in Finished(p)
  BY <1>1, <1>2, <1>4, <1>5 DEF Finished
<1>7. QED
  BY <1>1, <1>2, <1>5, <1>6 DEF OrderInv, BehindIsWhole

(* No account comes before its data, and no data go from under an account. *)
LEMMA ActAccount ==
    ASSUME OrderInv, NEW p \in Processes, Act(p)
    PROVE  AccountHasItsData'
<1>1. IInv /\ tool' = tool /\ Names' = Names
  BY ActProcess DEF OrderInv, Names
<1> SUFFICES ASSUME tool.directory, NEW a \in Accounts \cap DOMAIN disk', NEW d \in Data \cap Names
             PROVE  WholeNext(d, disk'[a].by)
  BY <1>1 DEF AccountHasItsData, WholeBy, WholeNext, Exists
<1>2. CASE a \in DOMAIN disk /\ disk'[a].by = disk[a].by
  <2>1. WholeBy(d, disk[a].by)
    BY <1>2 DEF OrderInv, AccountHasItsData
  <2>2. process[p].at = "undoing" => d \notin process[p].wrote
    BY <1>2, <2>1, TakesBackNoData
  <2>3. QED
    BY <1>1, <1>2, <2>1, <2>2, WholeKept
<1>3. CASE a = NextFile(p) /\ disk'[a].by = p /\ OpenFile(p)
  <2>1. WholeBy(d, p)
    BY <1>3, DataAreBehind
  <2>2. process[p].at # "undoing"
    BY <1>3 DEF OpenFile, MayOpen
  <2>3. QED
    BY <1>1, <1>3, <2>1, <2>2, WholeKept
<1>4. a # "."
  BY DEF Accounts
<1>5. QED
  BY <1>1, <1>2, <1>3, <1>4, ActDisk

(* A file becomes whole when its writer closes it; a directory always is. *)
LEMMA ActWhole ==
    ASSUME IInv, NEW p \in Processes, Act(p), NEW n, NEW q \in Processes, n # ".",
           WholeNext(n, q), ~WholeBy(n, q)
    PROVE  WriteFile(p) /\ n = NextFile(p) /\ q = p
<1>1. CASE disk' = disk
  BY <1>1 DEF WholeNext, WholeBy, Exists
<1>2. CASE CreateDirectory(p)
  BY <1>2 DEF CreateDirectory, Put, WholeNext, WholeBy, Exists
<1>3. CASE OpenFile(p)
  BY <1>3 DEF OpenFile, Put, WholeNext, WholeBy, Exists
<1>4. CASE WriteFile(p)
  <2>1. disk' = Put(NextFile(p), [by |-> p, whole |-> TRUE])
    BY <1>4, WritesOwnFile
  <2>2. n # NextFile(p) => n \in DOMAIN disk /\ disk'[n] = disk[n]
    BY <2>1 DEF Put, WholeNext
  <2>3. n = NextFile(p)
    BY <2>2 DEF WholeNext, WholeBy, Exists
  <2>4. disk'[n].by = p
    BY <2>1, <2>3 DEF Put
  <2>5. QED
    BY <1>4, <2>3, <2>4 DEF WholeNext
<1>5. ASSUME NEW m \in process[p].wrote, NEW removed \in BOOLEAN, Undo(p, m, removed)
      PROVE  FALSE
  BY <1>5 DEF Undo, Drop, WholeNext, WholeBy, Exists
<1>6. CASE RefuseInput(p) \/ Convert(p) \/ DirectoryExists(p) \/ LeaveOut(p) \/ FailFile(p) \/ Kill(p)
  BY <1>1, <1>6 DEF RefuseInput, Convert, DirectoryExists, LeaveOut, FailFile, Kill
<1>7. QED
  BY <1>2, <1>3, <1>4, <1>5, <1>6 DEF Act

(* Whoever closes the output has no file left to write. *)
LEMMA ActOutput ==
    ASSUME OrderInv, NEW p \in Processes, Act(p)
    PROVE  OutputEndsTheRun'
<1>1. /\ IInv /\ tool' = tool /\ Names' = Names /\ process[p].at # "done"
      /\ \A r \in Processes : r # p => process'[r] = process[r]
  BY ActProcess DEF OrderInv, Names
<1> SUFFICES ASSUME "record_sidecar" \in Names, NEW q \in Processes, WholeNext("output", q)
             PROVE  process'[q].at = "done"
  BY <1>1 DEF OutputEndsTheRun, WholeBy, WholeNext, Exists
<1>2. CASE WholeBy("output", q)
  <2>1. process[q].at = "done"
    BY <1>2 DEF OrderInv, OutputEndsTheRun
  <2>2. QED
    BY <1>1, <2>1
<1>3. CASE ~WholeBy("output", q)
  <2>1. WriteFile(p) /\ NextFile(p) = "output" /\ q = p
    BY <1>1, <1>3, ActWhole
  <2>2. OrderedTool(tool) /\ "record_sidecar" \in ToSet(tool.files)
    BY DEF OrderInv, OrderedTools, IInv, TypeOK, Names
  <2>3. process[p].next \in DOMAIN tool.files
    BY <1>1, OwnState
  <2>4. process[p].next = Len(tool.files)
    BY <2>1, <2>2, <2>3 DEF OrderedTool, NextFile
  <2>5. process'[p] = Advance(p)
    BY <1>1, <2>1 DEF WriteFile, IInv, TypeOK
  <2>6. process[p] \in [at : States, next : DOMAIN tool.files, wrote : SUBSET Names, stuck : SUBSET Names]
    BY <1>1, OwnState
  <2>7. QED
    BY <2>1, <2>4, <2>5, <2>6 DEF Advance
<1>4. QED
  BY <1>2, <1>3

(* Every step keeps the order of the files. *)
LEMMA NextOrderInv == OrderInv /\ [OutNext]_outVars => OrderInv'
<1>1. ASSUME OrderInv, NEW p \in Processes, Act(p) PROVE OrderInv'
  <2>1. /\ IInv /\ tool' = tool
        /\ \A r \in Processes : r # p => process'[r] = process[r]
    BY <1>1, ActProcess DEF OrderInv
  <2>2. IInv'
    <3>1. OutNext
      BY <1>1 DEF OutNext, Act
    <3>2. QED
      BY <2>1, <3>1, NextIInv
  <2>3. OrderedTools'
    BY <1>1 DEF OrderInv, OrderedTools, OrderedTool
  <2>4. StartsWithTheFirst'
    <3>1. \A q \in Processes : process[q].at \in {"converting", "creating"} => process[q].next = 1
      BY <1>1 DEF OrderInv, StartsWithTheFirst
    <3>2. process'[p].at \in {"converting", "creating"} => process'[p].next = 1
      BY <1>1, ActPlaces
    <3>3. QED
      BY <2>1, <3>1, <3>2 DEF StartsWithTheFirst
  <2>5. UndoesTheLast'
    <3> SUFFICES ASSUME tool.directory, NEW q \in Processes, process'[q].at = "undoing"
                 PROVE  process'[q].wrote \subseteq {tool.files[process'[q].next]}
      BY <2>1 DEF UndoesTheLast, NextFile
    <3>1. CASE q = p
      BY <1>1, <3>1, ActPlaces
    <3>2. CASE q # p
      BY <1>1, <2>1, <3>2 DEF OrderInv, UndoesTheLast, NextFile
    <3>3. QED
      BY <3>1, <3>2
  <2>6. QED
    BY <1>1, <2>2, <2>3, <2>4, <2>5, ActBehind, ActAhead, ActAccount, ActOutput DEF OrderInv
<1>2. ASSUME OrderInv, UNCHANGED outVars PROVE OrderInv'
  <2>1. IInv'
    BY <1>2, NextIInv DEF OrderInv
  <2>2. tool' = tool /\ disk' = disk /\ process' = process
    BY <1>2 DEF outVars
  <2>3. QED
    BY <1>2, <2>1, <2>2 DEF OrderInv, OrderedTools, StartsWithTheFirst, BehindIsWhole, AheadIsEmpty,
       UndoesTheLast, AccountHasItsData, OutputEndsTheRun, WholeBy, Exists, Mine, Names, NextFile, Finished
<1>3. QED
  BY <1>1, <1>2 DEF OutNext, Act

(* However many processes run at once, fail, are killed or tried again: an    *)
(* account never stands without the data of its own run, a completed run has  *)
(* every file of its own, and an output that promises a sidecar has it, for   *)
(* every set of tools that write their files in the order OrderedTool states. *)
THEOREM AccountsHaveTheirData == SafeTools /\ OrderedTools /\ OutSpec => []DataBeforeAccount
<1>1. OrderInv => DataBeforeAccount
  <2> SUFFICES ASSUME OrderInv PROVE DataBeforeAccount
    OBVIOUS
  <2>1. ASSUME NEW a \in Accounts \cap DOMAIN disk, NEW d \in Data \cap ToSet(tool.files), tool.directory
        PROVE  WholeBy(d, disk[a].by)
    BY <2>1 DEF OrderInv, AccountHasItsData, Names
  <2>2. ASSUME NEW p \in Processes, process[p].at = "done", NEW n \in ToSet(tool.files) \ tool.optional
        PROVE  WholeBy(n, p)
    <3>1. PICK i \in DOMAIN tool.files : tool.files[i] = n
      BY DEF ToSet
    <3>2. i \in Finished(p)
      BY <2>2 DEF Finished
    <3>3. QED
      BY <2>2, <3>1, <3>2 DEF OrderInv, BehindIsWhole
  <2>3. ASSUME "record_sidecar" \in ToSet(tool.files), Exists("output"), disk["output"].whole
        PROVE  WholeBy("record_sidecar", disk["output"].by)
    <3>1. disk["output"].by \in Processes
      BY <2>3 DEF OrderInv, IInv, TypeOK, Exists
    <3>2. WholeBy("output", disk["output"].by)
      BY <2>3 DEF WholeBy
    <3>3. process[disk["output"].by].at = "done"
      BY <2>3, <3>1, <3>2 DEF OrderInv, OutputEndsTheRun, Names
    <3>4. "record_sidecar" \notin tool.optional
      BY <2>3 DEF OrderInv, OrderedTools, OrderedTool, IInv, TypeOK
    <3>5. QED
      BY <2>2, <2>3, <3>1, <3>3, <3>4
  <2>4. QED
    BY <2>1, <2>2, <2>3 DEF DataBeforeAccount
<1>2. QED
  BY <1>1, InitOrderInv, NextOrderInv, PTL DEF OutSpec

-----------------------------------------------------------------------------
(* Rows of a CSV that a converter writes. *)

-----------------------------------------------------------------------------
(* The DisplayPort canvas. *)

(* What the frames up to a row say does not depend on later frames. *)
LEMMA ShownStays ==
    ASSUME NEW frames, NEW longer, NEW row \in Nat, NEW canvas,
           \A n \in 1..row : longer[n] = frames[n],
           ShowsLatest(frames, row, canvas)
    PROVE  ShowsLatest(longer, row, canvas)
<1>1. PICK reset \in 0..row : ShowsSince(frames, reset, row, canvas)
  BY DEF ShowsLatest
<1>2. /\ \A n \in (reset + 1)..row : longer[n] = frames[n]
      /\ reset # 0 => longer[reset] = frames[reset]
  OBVIOUS
<1>3. \A c : Writes(longer, reset, row, c) = Writes(frames, reset, row, c)
  BY <1>2 DEF Writes
<1>4. \A c \in DOMAIN canvas.written : canvas.written[c].row \in (reset + 1)..row
  BY <1>1 DEF ShowsSince, Writes
<1>5. ShowsSince(longer, reset, row, canvas)
  BY <1>1, <1>2, <1>3, <1>4 DEF ShowsSince
<1>6. QED
  BY <1>5 DEF ShowsLatest

(* A frame that empties the canvas leaves nothing to show. *)
LEMMA ShownEmptied ==
    ASSUME NEW frames, NEW row \in Nat, NEW canvas,
           frames[row + 1].op \in {"clear", "release", "unknown"},
           canvas.written = <<>>,
           canvas.cleared <=> frames[row + 1].op = "clear"
    PROVE  ShowsLatest(frames, row + 1, canvas)
<1>1. \A c : Writes(frames, row + 1, row + 1, c) = {}
  BY DEF Writes
<1>2. DOMAIN canvas.written = {}
  OBVIOUS
<1>3. ShowsSince(frames, row + 1, row + 1, canvas)
  BY <1>1, <1>2 DEF ShowsSince
<1>4. QED
  BY <1>3 DEF ShowsLatest

(* A frame that neither empties the canvas nor writes leaves it as it was. *)
LEMMA ShownAgain ==
    ASSUME NEW frames, NEW row \in Nat, NEW canvas,
           frames[row + 1].op \notin {"clear", "release", "unknown", "write"},
           ShowsLatest(frames, row, canvas)
    PROVE  ShowsLatest(frames, row + 1, canvas)
<1>1. PICK reset \in 0..row : ShowsSince(frames, reset, row, canvas)
  BY DEF ShowsLatest
<1>2. \A n \in (reset + 1)..(row + 1) : n \in (reset + 1)..row \/ n = row + 1
  OBVIOUS
<1>3. \A c : Writes(frames, reset, row + 1, c) = Writes(frames, reset, row, c)
  BY <1>2 DEF Writes
<1>4. ShowsSince(frames, reset, row + 1, canvas)
  BY <1>1, <1>2, <1>3 DEF ShowsSince
<1>5. QED
  BY <1>4 DEF ShowsLatest

(* A write is the last of the cells it writes, and touches no other. *)
LEMMA ShownWritten ==
    ASSUME NEW frames, NEW row \in Nat, NEW canvas, NEW after,
           frames[row + 1].op = "write", frames[row + 1].cells \subseteq CanvasCells,
           ShowsLatest(frames, row, canvas),
           after.cleared = canvas.cleared,
           DOMAIN after.written = DOMAIN canvas.written \cup frames[row + 1].cells,
           \A c \in frames[row + 1].cells :
              after.written[c].row = row + 1 /\ after.written[c].glyph = frames[row + 1].glyph,
           \A c \in DOMAIN canvas.written \ frames[row + 1].cells :
              after.written[c] = canvas.written[c]
    PROVE  ShowsLatest(frames, row + 1, after)
<1> DEFINE new == frames[row + 1].cells
<1>1. PICK reset \in 0..row : ShowsSince(frames, reset, row, canvas)
  BY DEF ShowsLatest
<1>2. \A n : n \in (reset + 1)..(row + 1) <=> n \in (reset + 1)..row \/ n = row + 1
  OBVIOUS
<1>3. \A c \in new : Writes(frames, reset, row + 1, c) = Writes(frames, reset, row, c) \cup {row + 1}
  BY <1>2 DEF Writes
<1>4. \A c : c \notin new => Writes(frames, reset, row + 1, c) = Writes(frames, reset, row, c)
  BY <1>2 DEF Writes
<1>5. \A n \in (reset + 1)..(row + 1) : frames[n].op \notin {"clear", "release", "unknown"}
  BY <1>1, <1>2 DEF ShowsSince
<1>6. DOMAIN after.written = {c \in CanvasCells : Writes(frames, reset, row + 1, c) # {}}
  BY <1>1, <1>3, <1>4 DEF ShowsSince
<1>7. ASSUME NEW c \in DOMAIN after.written
      PROVE  /\ after.written[c].row \in Writes(frames, reset, row + 1, c)
             /\ \A n \in Writes(frames, reset, row + 1, c) : n <= after.written[c].row
             /\ after.written[c].glyph = frames[after.written[c].row].glyph
  <2>1. CASE c \in new
    <3>1. after.written[c].row = row + 1 /\ after.written[c].glyph = frames[row + 1].glyph
      BY <2>1
    <3>2. \A n \in Writes(frames, reset, row + 1, c) : n <= row + 1
      BY DEF Writes
    <3>3. row + 1 \in Writes(frames, reset, row + 1, c)
      BY <1>3, <2>1
    <3>4. QED
      BY <3>1, <3>2, <3>3
  <2>2. CASE c \notin new
    <3>1. c \in DOMAIN canvas.written /\ after.written[c] = canvas.written[c]
      BY <2>2
    <3>2. Writes(frames, reset, row + 1, c) = Writes(frames, reset, row, c)
      BY <1>4, <2>2
    <3>3. QED
      BY <1>1, <3>1, <3>2 DEF ShowsSince
  <2>3. QED
    BY <2>1, <2>2
<1>8. ShowsSince(frames, reset, row + 1, after)
  BY <1>1, <1>5, <1>6, <1>7 DEF ShowsSince
<1>9. QED
  BY <1>8 DEF ShowsLatest

(* Beside the rows, the canvas that is held is the latest of all the frames   *)
(* read; a row then only has to be a copy of it.                              *)
CanvasInv ==
    /\ converter = "displayport canvas" /\ declared = CanvasCells
    /\ IsRows(fed) /\ IsRows(lines)
    /\ held = [written |-> held.written, cleared |-> held.cleared]
    /\ ShowsLatest(fed, Len(fed), held)
    /\ \A i \in DOMAIN lines : lines[i].row \in 1..Len(fed) /\ ShowsLatest(fed, lines[i].row, lines[i])

(* One frame more. *)
LEMMA CanvasFrameInv ==
    ASSUME CanvasInv, NEW r \in CanvasFrames, Taking(r), CanvasOperation(r)
    PROVE  CanvasInv'
<1> DEFINE row == Len(fed)
<1>1. /\ row \in Nat /\ IsRows(fed') /\ Len(fed') = row + 1
      /\ \A n \in 1..row : fed'[n] = fed[n]
      /\ fed'[row + 1] = r
  <2>1. fed' = Append(fed, r)
    BY DEF Taking
  <2>2. /\ IsRows(Append(fed, r)) /\ Len(fed) \in Nat /\ DOMAIN fed = 1..Len(fed)
        /\ DOMAIN Append(fed, r) = 1..(Len(fed) + 1)
        /\ \A i \in DOMAIN fed : Append(fed, r)[i] = fed[i]
        /\ Append(fed, r)[Len(fed) + 1] = r
    <3>1. IsRows(fed)
      BY DEF CanvasInv
    <3>2. QED
      BY <3>1, AppendedRow
  <2>3. Len(fed') \in Nat /\ DOMAIN fed' = 1..Len(fed')
    BY <2>1, <2>2, LenProperties DEF IsRows
  <2>4. QED
    BY <2>1, <2>2, <2>3
<1>2. ShowsLatest(fed', row, held)
  <2>1. ShowsLatest(fed, row, held)
    BY DEF CanvasInv
  <2>2. QED
    BY <1>1, <2>1, ShownStays
<1>3. held' = [written |-> held'.written, cleared |-> held'.cleared]
      /\ ShowsLatest(fed', row + 1, held')
  <2>1. CASE Released(r)
    <3>1. held' = NoCanvas /\ r.op \in {"release", "unknown"}
      BY <2>1 DEF CanvasOperation, Hold, Released
    <3>2. held' = [written |-> <<>>, cleared |-> FALSE]
      BY <3>1 DEF NoCanvas
    <3>3. /\ held'.written = <<>> /\ (held'.cleared <=> fed'[row + 1].op = "clear")
          /\ fed'[row + 1].op \in {"clear", "release", "unknown"}
      BY <1>1, <3>1, <3>2
    <3>4. ShowsLatest(fed', row + 1, held')
      BY <1>1, <3>3, ShownEmptied
    <3>5. QED
      BY <3>2, <3>4
  <2>2. CASE r.op = "clear"
    <3>1. held' = [NoCanvas EXCEPT !.cleared = TRUE]
      BY <2>2 DEF CanvasOperation, Hold, Released
    <3>2. held' = [written |-> <<>>, cleared |-> TRUE]
      BY <3>1 DEF NoCanvas
    <3>3. /\ held'.written = <<>> /\ (held'.cleared <=> fed'[row + 1].op = "clear")
          /\ fed'[row + 1].op \in {"clear", "release", "unknown"}
      BY <1>1, <2>2, <3>2
    <3>4. ShowsLatest(fed', row + 1, held')
      BY <1>1, <3>3, ShownEmptied
    <3>5. QED
      BY <3>2, <3>4
  <2>3. CASE r.op = "write"
    <3>1. held' = [held EXCEPT !.written = Overwritten(@, r)] /\ r.cells \subseteq CanvasCells
      BY <2>3 DEF CanvasOperation, Hold, Released, CanvasInv
    <3>2. held' = [written |-> Overwritten(held.written, r), cleared |-> held.cleared]
      BY <3>1 DEF CanvasInv
    <3>3. held'.cleared = held.cleared /\ held'.written = Overwritten(held.written, r)
      BY <3>2
    <3>4. /\ DOMAIN held'.written = DOMAIN held.written \cup r.cells
          /\ \A c \in r.cells : held'.written[c].row = row + 1 /\ held'.written[c].glyph = r.glyph
          /\ \A c \in DOMAIN held.written \ r.cells : held'.written[c] = held.written[c]
      BY <3>3 DEF Overwritten, Here
    <3>5. /\ fed'[row + 1].op = "write" /\ fed'[row + 1].cells \subseteq CanvasCells
          /\ DOMAIN held'.written = DOMAIN held.written \cup fed'[row + 1].cells
          /\ \A c \in fed'[row + 1].cells :
                held'.written[c].row = row + 1 /\ held'.written[c].glyph = fed'[row + 1].glyph
          /\ \A c \in DOMAIN held.written \ fed'[row + 1].cells :
                held'.written[c] = held.written[c]
      BY <1>1, <2>3, <3>1, <3>4
    <3>6. row \in Nat /\ held'.cleared = held.cleared
      BY <1>1, <3>3
    <3>7. ShowsLatest(fed', row + 1, held')
      BY <1>2, <3>5, <3>6, ShownWritten
    <3>8. QED
      BY <3>2, <3>7
  <2>4. CASE r.op \notin {"clear", "release", "unknown", "write"}
    <3>1. held' = held
      BY <2>4 DEF CanvasOperation, Hold, Released
    <3>2. QED
      BY <1>1, <1>2, <2>4, <3>1, ShownAgain DEF CanvasInv
  <2>5. QED
    BY <2>1, <2>2, <2>3, <2>4 DEF Released
<1>4. \A i \in DOMAIN lines : lines[i].row \in 1..row /\ ShowsLatest(fed', lines[i].row, lines[i])
  <2> SUFFICES ASSUME NEW i \in DOMAIN lines
               PROVE  lines[i].row \in 1..row /\ ShowsLatest(fed', lines[i].row, lines[i])
    OBVIOUS
  <2>1. lines[i].row \in 1..row /\ ShowsLatest(fed, lines[i].row, lines[i])
    BY DEF CanvasInv
  <2>2. lines[i].row \in Nat /\ \A n \in 1..lines[i].row : fed'[n] = fed[n]
    BY <1>1, <2>1
  <2>3. QED
    BY <2>1, <2>2, ShownStays
<1>5. IsRows(lines')
      /\ \A i \in DOMAIN lines' :
            lines'[i].row \in 1..(row + 1) /\ ShowsLatest(fed', lines'[i].row, lines'[i])
  <2>1. CASE r.op = "draw"
    <3> DEFINE drawn == [row |-> row + 1, written |-> held.written, cleared |-> held.cleared]
    <3>1. lines' = Append(lines, drawn) /\ held' = held
      BY <2>1 DEF CanvasOperation, Hold, Released, Here
    <3>2. ShowsLatest(fed', row + 1, drawn)
      <4>1. drawn.written = held.written /\ drawn.cleared = held.cleared
        OBVIOUS
      <4>2. ShowsLatest(fed', row + 1, held)
        BY <1>3, <3>1
      <4>3. QED
        BY <4>1, <4>2 DEF ShowsLatest, ShowsSince
    <3>3. /\ IsRows(Append(lines, drawn))
          /\ Len(lines) \in Nat /\ DOMAIN lines = 1..Len(lines)
          /\ DOMAIN Append(lines, drawn) = 1..(Len(lines) + 1)
          /\ \A i \in DOMAIN lines : Append(lines, drawn)[i] = lines[i]
          /\ Append(lines, drawn)[Len(lines) + 1] = drawn
      BY AppendedRow DEF CanvasInv
    <3>4. \A i \in DOMAIN lines' : i \in DOMAIN lines \/ i = Len(lines) + 1
      BY <3>1, <3>3
    <3>5. drawn.row = row + 1
      OBVIOUS
    <3> HIDE DEF drawn
    <3>6. ASSUME NEW i \in DOMAIN lines'
          PROVE  lines'[i].row \in 1..(row + 1) /\ ShowsLatest(fed', lines'[i].row, lines'[i])
      <4>1. CASE i \in DOMAIN lines
        BY <1>1, <1>4, <3>1, <3>3, <4>1
      <4>2. CASE i = Len(lines) + 1
        BY <1>1, <3>1, <3>2, <3>3, <3>5, <4>2
      <4>3. QED
        BY <3>4, <3>6, <4>1, <4>2
    <3>7. QED
      BY <3>1, <3>3, <3>6
  <2>2. CASE r.op # "draw"
    <3>1. lines' = lines
      BY <2>2 DEF CanvasOperation
    <3>2. QED
      <4>1. IsRows(lines')
        BY <3>1 DEF CanvasInv
      <4>2. ASSUME NEW i \in DOMAIN lines'
            PROVE  lines'[i].row \in 1..(row + 1) /\ ShowsLatest(fed', lines'[i].row, lines'[i])
        <5>1. i \in DOMAIN lines /\ lines'[i] = lines[i]
          BY <3>1
        <5>2. lines[i].row \in 1..row /\ ShowsLatest(fed', lines[i].row, lines[i])
          BY <1>4, <5>1
        <5>3. QED
          BY <1>1, <5>1, <5>2
      <4>3. QED
        BY <4>1, <4>2
  <2>3. QED
    BY <2>1, <2>2
<1>6. converter' = converter /\ declared' = declared
  BY DEF Taking
<1>7. QED
  BY <1>1, <1>3, <1>5, <1>6 DEF CanvasInv

(* A drawn canvas shows the last write of each cell since it was last emptied *)
(* (convert_displayport_canvas.convert), for any canvas and any frames.       *)
THEOREM CanvasesAreLatest == CanvasSpec => []CanvasIsLatest
<1>1. CanvasInit => CanvasInv
  <2> SUFFICES ASSUME CanvasInit PROVE CanvasInv
    OBVIOUS
  <2>1. fed = <<>> /\ lines = <<>> /\ held = [written |-> <<>>, cleared |-> FALSE]
    BY DEF CanvasInit, Starting, NoCanvas
  <2>2. IsRows(<<>>) /\ Len(<<>>) = 0 /\ DOMAIN <<>> = {}
    BY EmptySeq DEF IsRows
  <2>3. ShowsLatest(fed, 0, held)
    <3>1. \A c : Writes(fed, 0, 0, c) = {}
      BY DEF Writes
    <3>2. DOMAIN held.written = {} /\ held.cleared = FALSE
      BY <2>1, <2>2
    <3>3. \A n : n \notin (0 + 1)..0
      OBVIOUS
    <3>4. {c \in CanvasCells : Writes(fed, 0, 0, c) # {}} = {}
      BY <3>1
    <3>5. ShowsSince(fed, 0, 0, held)
      BY <3>2, <3>3, <3>4 DEF ShowsSince
    <3>6. QED
      BY <3>5 DEF ShowsLatest
  <2>4. QED
    BY <2>1, <2>2, <2>3 DEF CanvasInit, CanvasInv
<1>2. CanvasInv /\ [CanvasNext]_linesVars => CanvasInv'
  <2> SUFFICES ASSUME CanvasInv, [CanvasNext]_linesVars PROVE CanvasInv'
    OBVIOUS
  <2>1. CASE \E r \in CanvasFrames : Taking(r) /\ CanvasOperation(r)
    BY <2>1, CanvasFrameInv
  <2>2. CASE EndCarried \/ Refuse \/ UNCHANGED linesVars
    BY <2>2 DEF EndCarried, Ending, Keeping, Refuse, linesVars, CanvasInv
  <2>3. QED
    BY <2>1, <2>2 DEF CanvasNext
<1>3. CanvasInv => CanvasIsLatest
  BY DEF CanvasInv, CanvasIsLatest
<1>4. QED
  BY <1>1, <1>2, <1>3, PTL DEF CanvasSpec

-----------------------------------------------------------------------------
(* Echo requests and replies. *)

Asked(f)   == {n \in DOMAIN f : f[n].kind = "request"}
Answers(f) == {n \in DOMAIN f : f[n].kind = "reply"}

(* No packet is in two rows. *)
Once(rows) ==
    \A i, j \in DOMAIN rows : i # j =>
        /\ rows[i].request \in Nat => rows[i].request # rows[j].request
        /\ rows[i].reply \in Nat => rows[i].reply # rows[j].reply

(* A row names packets, and a pair is the one request of an answered key with *)
(* a later reply that returns its data.                                       *)
RowSound(f, answered, row) ==
    /\ row.request \in Asked(f) \cup {Absent}
    /\ row.reply \in Answers(f) \cup {Absent}
    /\ row.status # "no reply in capture"
    /\ row.status = "paired" =>
          /\ row.request \in Asked(f) /\ row.reply \in Answers(f) /\ row.request < row.reply
          /\ f[row.request].key = f[row.reply].key /\ f[row.request].payload = f[row.reply].payload
          /\ f[row.request].key \in answered
          /\ \A n \in Asked(f) : f[n].key = f[row.request].key => n = row.request

(* The request a key waits with is the only one of the key, is in no row yet, *)
(* and no reply of the key came after it.                                     *)
WaitsAlone(f, rows, k, n) ==
    /\ n \in Asked(f) /\ f[n].key = k
    /\ \A m \in Asked(f) : f[m].key = k => m = n
    /\ \A m \in Answers(f) : f[m].key = k => m < n
    /\ \A i \in DOMAIN rows : rows[i].request # n

(* Every request read is waiting or in a row, every reply is in a row. *)
AllTold(f, rows, waiting, settled) ==
    /\ \A n \in Asked(f) : /\ f[n].key \in DOMAIN waiting \cup settled
                           /\ f[n].key \in DOMAIN waiting \/ \E i \in DOMAIN rows : rows[i].request = n
    /\ \A n \in Answers(f) : \E i \in DOMAIN rows : rows[i].reply = n

EchoKept(f, rows, waiting, poisoned, answered) ==
    /\ IsRows(f) /\ IsRows(rows) /\ IsFiniteSet(DOMAIN waiting)
    /\ poisoned \cap answered = {} /\ DOMAIN waiting \cap (poisoned \cup answered) = {}
    /\ \A k \in DOMAIN waiting : WaitsAlone(f, rows, k, waiting[k])
    /\ AllTold(f, rows, waiting, poisoned \cup answered)
    /\ Once(rows)
    /\ \A i \in DOMAIN rows : RowSound(f, answered, rows[i])

(* Rows of packets that are in no row yet. *)
LEMMA OnceConcat ==
    ASSUME NEW s, NEW t, IsRows(s), IsRows(t), Once(s), Once(t),
           \A i \in DOMAIN s, j \in DOMAIN t :
              /\ s[i].request \in Nat => s[i].request # t[j].request
              /\ s[i].reply \in Nat => s[i].reply # t[j].reply
    PROVE  Once(s \o t)
<1> DEFINE st == s \o t
<1>1. /\ \A i \in DOMAIN s : i \in DOMAIN st /\ st[i] = s[i]
      /\ \A j \in DOMAIN t : Len(s) + j \in DOMAIN st /\ st[Len(s) + j] = t[j]
      /\ \A n \in DOMAIN st : n \in DOMAIN s \/ \E j \in DOMAIN t : n = Len(s) + j
  BY ConcatRows
<1> HIDE DEF st
<1>2. ASSUME NEW a \in DOMAIN st, NEW b \in DOMAIN st, a # b
      PROVE  /\ st[a].request \in Nat => st[a].request # st[b].request
             /\ st[a].reply \in Nat => st[a].reply # st[b].reply
  <2>1. CASE a \in DOMAIN s /\ b \in DOMAIN s
    BY <1>1, <1>2, <2>1 DEF Once
  <2>2. CASE a \in DOMAIN s /\ b \notin DOMAIN s
    <3>1. PICK j \in DOMAIN t : b = Len(s) + j
      BY <1>1, <2>2
    <3>2. st[a] = s[a] /\ st[b] = t[j]
      BY <1>1, <2>2, <3>1
    <3>3. QED
      BY <2>2, <3>2
  <2>3. CASE a \notin DOMAIN s /\ b \in DOMAIN s
    <3>1. PICK j \in DOMAIN t : a = Len(s) + j
      BY <1>1, <2>3
    <3>2. st[b] = s[b] /\ st[a] = t[j]
      BY <1>1, <2>3, <3>1
    <3>3. QED
      BY <2>3, <3>2
  <2>4. CASE a \notin DOMAIN s /\ b \notin DOMAIN s
    <3>1. PICK j \in DOMAIN t : a = Len(s) + j
      BY <1>1, <2>4
    <3>2. PICK k \in DOMAIN t : b = Len(s) + k
      BY <1>1, <2>4
    <3>3. st[a] = t[j] /\ st[b] = t[k] /\ j # k
      BY <1>1, <1>2, <3>1, <3>2
    <3>4. QED
      BY <3>3 DEF Once
  <2>5. QED
    BY <2>1, <2>2, <2>3, <2>4
<1>3. QED
  BY <1>2 DEF Once, st

(* One packet more is a request or a reply more, or neither. *)
OneMore(f, r, g) ==
    /\ IsRows(g) /\ Len(f) + 1 \in Nat
    /\ \A n \in DOMAIN f : n \in Nat /\ n < Len(f) + 1 /\ g[n] = f[n]
    /\ g[Len(f) + 1] = r
    /\ Asked(g) = Asked(f) \cup (IF r.kind = "request" THEN {Len(f) + 1} ELSE {})
    /\ Answers(g) = Answers(f) \cup (IF r.kind = "reply" THEN {Len(f) + 1} ELSE {})
    /\ Asked(f) \subseteq DOMAIN f /\ Answers(f) \subseteq DOMAIN f

(* Reading a packet adds one. *)
LEMMA OnePacketMore ==
    ASSUME NEW f, IsRows(f), NEW r
    PROVE  OneMore(f, r, Append(f, r))
<1> DEFINE g == Append(f, r)
           h == Len(f) + 1
<1>1. /\ IsRows(g) /\ Len(f) \in Nat /\ DOMAIN f = 1..Len(f) /\ DOMAIN g = 1..h
      /\ \A n \in DOMAIN f : g[n] = f[n]
      /\ g[h] = r
  BY AppendedRow
<1> HIDE DEF g
<1>2. \A n : n \in DOMAIN g <=> n \in DOMAIN f \/ n = h
  BY <1>1
<1>3. h \in Nat /\ \A n \in DOMAIN f : n \in Nat /\ n < h
  BY <1>1
<1> HIDE DEF h
<1>4. Asked(g) = Asked(f) \cup (IF r.kind = "request" THEN {h} ELSE {})
  BY <1>1, <1>2 DEF Asked
<1>5. Answers(g) = Answers(f) \cup (IF r.kind = "reply" THEN {h} ELSE {})
  BY <1>1, <1>2 DEF Answers
<1>6. Asked(f) \subseteq DOMAIN f /\ Answers(f) \subseteq DOMAIN f
  BY DEF Asked, Answers
<1>7. h = Len(f) + 1
  BY DEF h
<1>8. OneMore(f, r, g)
  BY <1>1, <1>3, <1>4, <1>5, <1>6, <1>7 DEF OneMore
<1>9. QED
  BY <1>8 DEF g

(* A sound row stays so: an answered key gets no other request. *)
LEMMA RowStaysSound ==
    ASSUME NEW f, IsRows(f), NEW r, NEW answered, NEW more, answered \subseteq more, NEW row,
           r.kind = "request" => r.key \notin answered,
           RowSound(f, answered, row)
    PROVE  RowSound(Append(f, r), more, row)
<1> DEFINE g == Append(f, r)
           h == Len(f) + 1
<1>0. OneMore(f, r, g)
  BY OnePacketMore
<1> HIDE DEF g
<1>1. /\ \A n \in DOMAIN f : g[n] = f[n]
      /\ g[h] = r
      /\ Asked(g) = Asked(f) \cup (IF r.kind = "request" THEN {h} ELSE {})
      /\ Answers(g) = Answers(f) \cup (IF r.kind = "reply" THEN {h} ELSE {})
      /\ Asked(f) \subseteq DOMAIN f /\ Answers(f) \subseteq DOMAIN f
  BY <1>0 DEF OneMore
<1> HIDE DEF h
<1>2. ASSUME row.status = "paired"
      PROVE  /\ row.request \in Asked(g) /\ row.reply \in Answers(g) /\ row.request < row.reply
             /\ g[row.request].key = g[row.reply].key /\ g[row.request].payload = g[row.reply].payload
             /\ g[row.request].key \in more
             /\ \A n \in Asked(g) : g[n].key = g[row.request].key => n = row.request
  <2>1. /\ row.request \in Asked(f) /\ row.reply \in Answers(f) /\ row.request < row.reply
        /\ f[row.request].key = f[row.reply].key /\ f[row.request].payload = f[row.reply].payload
        /\ f[row.request].key \in answered
        /\ \A n \in Asked(f) : f[n].key = f[row.request].key => n = row.request
    BY <1>2 DEF RowSound
  <2>2. g[row.request] = f[row.request] /\ g[row.reply] = f[row.reply]
    BY <1>1, <2>1
  <2>3. ASSUME NEW n \in Asked(g), g[n].key = g[row.request].key PROVE n = row.request
    <3>1. CASE n \in Asked(f)
      BY <1>1, <2>1, <2>2, <2>3, <3>1
    <3>2. CASE n = h /\ r.kind = "request"
      BY <1>1, <2>1, <2>2, <2>3, <3>2
    <3>3. QED
      BY <1>1, <3>1, <3>2
  <2>4. QED
    BY <1>1, <2>1, <2>2, <2>3
<1>3. /\ row.request \in Asked(g) \cup {Absent} /\ row.reply \in Answers(g) \cup {Absent}
      /\ row.status # "no reply in capture"
  BY <1>1 DEF RowSound
<1>4. QED
  BY <1>2, <1>3 DEF RowSound, g
(* What a packet r may change of what is waiting, ambiguous and answered, and *)
(* which rows it may carry, h being its number.                               *)
EchoMove(f, r, some, waiting, poisoned, answered, waiting2, poisoned2, answered2, h) ==
    /\ IsRows(some) /\ Once(some) /\ IsFiniteSet(DOMAIN waiting2)
    /\ poisoned2 \cap answered2 = {} /\ DOMAIN waiting2 \cap (poisoned2 \cup answered2) = {}
    /\ poisoned \subseteq poisoned2 /\ answered \subseteq answered2
    /\ \A k \in DOMAIN waiting2 :
          \/ /\ k \in DOMAIN waiting /\ waiting2[k] = waiting[k]
             /\ r.kind \in {"request", "reply"} => k # r.key
          \/ /\ k = r.key /\ r.kind = "request" /\ waiting2[k] = h
             /\ r.key \notin DOMAIN waiting \cup poisoned
    /\ \A k \in DOMAIN waiting \ DOMAIN waiting2 :
          k \in poisoned2 \cup answered2 /\ \E j \in DOMAIN some : some[j].request = waiting[k]
    /\ r.kind = "request" =>
          /\ r.key \notin answered
          /\ r.key \in DOMAIN waiting2 \cup poisoned2
          /\ r.key \in DOMAIN waiting2 \/ \E j \in DOMAIN some : some[j].request = h
    /\ r.kind = "reply" => \E j \in DOMAIN some : some[j].reply = h
    /\ \A j \in DOMAIN some :
          /\ \/ some[j].request \in {Absent, h}
             \/ \E k \in DOMAIN waiting \ DOMAIN waiting2 : some[j].request = waiting[k]
          /\ some[j].reply \in {Absent, h}
          /\ some[j].request = h => r.key \notin DOMAIN waiting2
          /\ RowSound(Append(f, r), answered2, some[j])

(* Such a change keeps the rows and what is waiting in order. *)
LEMMA EchoStep ==
    ASSUME NEW f, NEW rows, NEW r, NEW some,
           NEW waiting, NEW poisoned, NEW answered,
           NEW waiting2, NEW poisoned2, NEW answered2,
           EchoKept(f, rows, waiting, poisoned, answered),
           EchoMove(f, r, some, waiting, poisoned, answered, waiting2, poisoned2, answered2, Len(f) + 1)
    PROVE  EchoKept(Append(f, r), rows \o some, waiting2, poisoned2, answered2)
<1> DEFINE g == Append(f, r)
           h == Len(f) + 1
           all == rows \o some
<1>0. OneMore(f, r, g)
  BY OnePacketMore DEF EchoKept
<1> HIDE DEF g
<1>1. /\ IsRows(g) /\ h \in Nat
      /\ \A n \in DOMAIN f : n \in Nat /\ n < h /\ g[n] = f[n]
      /\ g[h] = r
      /\ Asked(g) = Asked(f) \cup (IF r.kind = "request" THEN {h} ELSE {})
      /\ Answers(g) = Answers(f) \cup (IF r.kind = "reply" THEN {h} ELSE {})
      /\ Asked(f) \subseteq DOMAIN f /\ Answers(f) \subseteq DOMAIN f
  BY <1>0 DEF OneMore
<1>2. /\ IsRows(all)
      /\ \A i \in DOMAIN rows : i \in DOMAIN all /\ all[i] = rows[i]
      /\ \A j \in DOMAIN some : Len(rows) + j \in DOMAIN all /\ all[Len(rows) + j] = some[j]
      /\ \A n \in DOMAIN all : n \in DOMAIN rows \/ \E j \in DOMAIN some : n = Len(rows) + j
  BY ConcatRows DEF EchoKept, EchoMove
<1>3. /\ \A k \in DOMAIN waiting : WaitsAlone(f, rows, k, waiting[k])
      /\ \A i \in DOMAIN rows : RowSound(f, answered, rows[i])
      /\ AllTold(f, rows, waiting, poisoned \cup answered)
      /\ DOMAIN waiting \cap (poisoned \cup answered) = {}
  BY DEF EchoKept
<1> HIDE DEF g, h, all
<1>4. \A i \in DOMAIN all : RowSound(g, answered2, all[i])
  <2>1. \A i \in DOMAIN rows : RowSound(g, answered2, rows[i])
    <3>1. /\ IsRows(f) /\ answered \subseteq answered2
          /\ r.kind = "request" => r.key \notin answered
      BY DEF EchoKept, EchoMove
    <3>2. QED
      BY <1>3, <3>1, RowStaysSound DEF g
  <2>2. \A j \in DOMAIN some : RowSound(g, answered2, some[j])
    BY DEF EchoMove, g
  <2>3. QED
    BY <1>2, <2>1, <2>2
<1>5. \A i \in DOMAIN rows : /\ rows[i].request # h /\ rows[i].reply # h
                             /\ rows[i].request \in Nat => rows[i].request \in Asked(f)
  <2> SUFFICES ASSUME NEW i \in DOMAIN rows
               PROVE  /\ rows[i].request # h /\ rows[i].reply # h
                      /\ rows[i].request \in Nat => rows[i].request \in Asked(f)
    OBVIOUS
  <2>1. rows[i].request \in Asked(f) \cup {Absent} /\ rows[i].reply \in Answers(f) \cup {Absent}
    BY <1>3 DEF RowSound
  <2>2. h \notin Asked(f) /\ h \notin Answers(f) /\ h # Absent
    BY <1>1, EchoAssumption
  <2>3. QED
    BY <2>1, <2>2, EchoAssumption
<1>6. Once(all)
  <2>1. ASSUME NEW i \in DOMAIN rows, NEW j \in DOMAIN some
        PROVE  /\ rows[i].request \in Nat => rows[i].request # some[j].request
               /\ rows[i].reply \in Nat => rows[i].reply # some[j].reply
    <3>1. some[j].request \in {Absent, h} \/ \E k \in DOMAIN waiting : some[j].request = waiting[k]
      BY DEF EchoMove, h
    <3>2. some[j].reply \in {Absent, h}
      BY DEF EchoMove, h
    <3>3. \A k \in DOMAIN waiting : rows[i].request # waiting[k]
      BY <1>3 DEF WaitsAlone
    <3>4. QED
      BY <1>5, <3>1, <3>2, <3>3, EchoAssumption
  <2>2. QED
    BY <2>1, OnceConcat DEF EchoKept, EchoMove, all
<1>7. ASSUME NEW k \in DOMAIN waiting2
      PROVE  WaitsAlone(g, all, k, waiting2[k])
  <2>1. CASE /\ k \in DOMAIN waiting /\ waiting2[k] = waiting[k]
             /\ r.kind \in {"request", "reply"} => k # r.key
    <3> DEFINE n == waiting[k]
    <3>1. /\ n \in Asked(f) /\ f[n].key = k
          /\ \A m \in Asked(f) : f[m].key = k => m = n
          /\ \A m \in Answers(f) : f[m].key = k => m < n
          /\ \A i \in DOMAIN rows : rows[i].request # n
      BY <1>3, <2>1 DEF WaitsAlone
    <3>2. \A j \in DOMAIN some : some[j].request # n
      <4> SUFFICES ASSUME NEW j \in DOMAIN some PROVE some[j].request # n
        OBVIOUS
      <4>1. n \in Nat /\ n # h
        BY <1>1, <3>1
      <4>2. \A c \in DOMAIN waiting \ DOMAIN waiting2 : waiting[c] # n
        <5> SUFFICES ASSUME NEW c \in DOMAIN waiting \ DOMAIN waiting2 PROVE waiting[c] # n
          OBVIOUS
        <5>1. f[waiting[c]].key = c /\ c # k
          BY <1>3 DEF WaitsAlone
        <5>2. QED
          BY <3>1, <5>1
      <4>3. \/ some[j].request \in {Absent, h}
            \/ \E c \in DOMAIN waiting \ DOMAIN waiting2 : some[j].request = waiting[c]
        BY DEF EchoMove, h
      <4>4. QED
        BY <4>1, <4>2, <4>3, EchoAssumption
    <3>3. \A i \in DOMAIN all : all[i].request # n
      BY <1>2, <3>1, <3>2
    <3> HIDE DEF n
    <3>4. n \in Asked(g) /\ g[n].key = k
      BY <1>1, <3>1
    <3>5. \A m \in Asked(g) : g[m].key = k => m = n
      BY <1>1, <2>1, <3>1
    <3>6. \A m \in Answers(g) : g[m].key = k => m < n
      BY <1>1, <2>1, <3>1
    <3>7. WaitsAlone(g, all, k, n)
      BY <3>3, <3>4, <3>5, <3>6 DEF WaitsAlone
    <3>8. QED
      BY <2>1, <3>7 DEF n
  <2>2. CASE /\ k = r.key /\ r.kind = "request" /\ waiting2[k] = h
             /\ r.key \notin DOMAIN waiting \cup poisoned
    <3>1. h \in Asked(g) /\ g[h].key = k /\ Answers(g) = Answers(f)
      BY <1>1, <2>2
    <3>2. \A m \in Asked(f) : f[m].key # k
      <4>1. k \notin DOMAIN waiting \cup (poisoned \cup answered)
        BY <2>2 DEF EchoMove
      <4>2. QED
        BY <1>3, <4>1 DEF AllTold
    <3>3. \A m \in Asked(g) : g[m].key = k => m = h
      BY <1>1, <2>2, <3>2
    <3>4. \A m \in Answers(g) : m < h
      BY <1>1, <3>1
    <3>5. \A j \in DOMAIN some : some[j].request # h
      BY <2>2 DEF EchoMove, h
    <3>6. \A i \in DOMAIN all : all[i].request # h
      BY <1>2, <1>5, <3>5
    <3>7. QED
      BY <2>2, <3>1, <3>3, <3>4, <3>6 DEF WaitsAlone
  <2>3. QED
    BY <2>1, <2>2 DEF EchoMove, h
<1>8. AllTold(g, all, waiting2, poisoned2 \cup answered2)
  <2>1. ASSUME NEW n \in Asked(g)
        PROVE  /\ g[n].key \in DOMAIN waiting2 \cup (poisoned2 \cup answered2)
               /\ g[n].key \in DOMAIN waiting2 \/ \E i \in DOMAIN all : all[i].request = n
    <3>1. CASE n \in Asked(f)
      <4> DEFINE k == f[n].key
      <4>1. /\ g[n].key = k
            /\ k \in DOMAIN waiting \cup (poisoned \cup answered)
            /\ k \in DOMAIN waiting \/ \E i \in DOMAIN rows : rows[i].request = n
        BY <1>1, <1>3, <3>1 DEF AllTold
      <4>2. CASE k \in DOMAIN waiting \ DOMAIN waiting2
        <5>1. n = waiting[k]
          BY <1>3, <3>1, <4>2 DEF WaitsAlone
        <5>2. k \in poisoned2 \cup answered2 /\ \E j \in DOMAIN some : some[j].request = waiting[k]
          BY <4>2 DEF EchoMove
        <5>3. QED
          BY <1>2, <4>1, <5>1, <5>2
      <4>3. CASE k \notin DOMAIN waiting \ DOMAIN waiting2
        <5>1. poisoned \subseteq poisoned2 /\ answered \subseteq answered2
          BY DEF EchoMove
        <5>2. QED
          BY <1>2, <4>1, <4>3, <5>1
      <4>4. QED
        BY <4>2, <4>3
    <3>2. CASE n = h /\ r.kind = "request"
      <4>1. /\ r.key \in DOMAIN waiting2 \cup poisoned2
            /\ r.key \in DOMAIN waiting2 \/ \E j \in DOMAIN some : some[j].request = h
        BY <3>2 DEF EchoMove, h
      <4>2. QED
        BY <1>1, <1>2, <3>2, <4>1
    <3>3. QED
      BY <1>1, <3>1, <3>2
  <2>2. ASSUME NEW n \in Answers(g)
        PROVE  \E i \in DOMAIN all : all[i].reply = n
    <3>1. CASE n \in Answers(f)
      BY <1>2, <1>3, <3>1 DEF AllTold
    <3>2. CASE n = h /\ r.kind = "reply"
      <4>1. \E j \in DOMAIN some : some[j].reply = h
        BY <3>2 DEF EchoMove, h
      <4>2. QED
        BY <1>2, <3>2, <4>1
    <3>3. QED
      BY <1>1, <3>1, <3>2
  <2>3. QED
    BY <2>1, <2>2 DEF AllTold
<1>9. EchoKept(g, all, waiting2, poisoned2, answered2)
  BY <1>1, <1>2, <1>4, <1>6, <1>7, <1>8 DEF EchoKept, EchoMove
<1>10. QED
  BY <1>9 DEF g, all

(* Until the capture is converted, its packets are in order; then the rows     *)
(* are those of EchoesArePaired.                                               *)
EchoInv ==
    /\ converter = "icmp echo"
    /\ held = [waiting |-> held.waiting, poisoned |-> held.poisoned, resolved |-> held.resolved]
    /\ verdict # "converted" => EchoKept(fed, lines, held.waiting, held.poisoned, held.resolved)
    /\ EchoesArePaired

(* One packet more. *)
LEMMA EchoPacketKept ==
    ASSUME EchoInv, verdict # "converted", NEW r \in EchoPackets, Taking(r), IcmpEcho(r)
    PROVE  /\ held' = [waiting |-> held'.waiting, poisoned |-> held'.poisoned, resolved |-> held'.resolved]
           /\ EchoKept(fed', lines', held'.waiting, held'.poisoned, held'.resolved)
<1> DEFINE f == fed
           h == Len(fed) + 1
           g == Append(fed, r)
           W == held.waiting
           P == held.poisoned
           R == held.resolved
           Move(some, W2, P2, R2) == EchoMove(f, r, some, W, P, R, W2, P2, R2, h)
<1>1. EchoKept(f, lines, W, P, R) /\ fed' = g /\ IsRows(lines) /\ IsFiniteSet(DOMAIN W)
  BY DEF EchoInv, EchoKept, Taking
<1>2. OneMore(f, r, g)
  BY <1>1, OnePacketMore DEF EchoKept
<1>3. /\ P \cap R = {} /\ DOMAIN W \cap (P \cup R) = {}
      /\ \A k \in DOMAIN W : WaitsAlone(f, lines, k, W[k])
  BY <1>1 DEF EchoKept
<1> HIDE DEF g, f
<1>4. /\ h \in Nat /\ h # Absent /\ Absent \notin Nat
      /\ Asked(f) \subseteq Asked(g) /\ Answers(f) \subseteq Answers(g)
      /\ r.kind = "request" => h \in Asked(g)
      /\ r.kind = "reply" => h \in Answers(g)
      /\ \A n \in Asked(f) : n \in Nat /\ n < h /\ n \in DOMAIN f /\ g[n] = f[n]
      /\ g[h] = r
      /\ r.kind = "reply" => Asked(g) = Asked(f)
  BY <1>2, EchoAssumption DEF OneMore, f
<1>5. /\ held = [waiting |-> W, poisoned |-> P, resolved |-> R]
  BY DEF EchoInv
<1>6. ASSUME NEW some, NEW W2, NEW P2, NEW R2, Move(some, W2, P2, R2),
             lines' = lines \o some, held' = [waiting |-> W2, poisoned |-> P2, resolved |-> R2]
      PROVE  /\ held' = [waiting |-> held'.waiting, poisoned |-> held'.poisoned, resolved |-> held'.resolved]
             /\ EchoKept(fed', lines', held'.waiting, held'.poisoned, held'.resolved)
  <2>1. EchoKept(g, lines \o some, W2, P2, R2)
    BY <1>1, <1>6, EchoStep DEF g, f
  <2>2. held'.waiting = W2 /\ held'.poisoned = P2 /\ held'.resolved = R2
    BY <1>6
  <2>3. QED
    BY <1>1, <1>6, <2>1, <2>2
<1>7. lines \o <<>> = lines
  BY <1>1, ConcatEmptySeq DEF IsRows
<1> HIDE DEF h, W, P, R
<1>8. CASE r.kind \notin {"request", "reply"}
  <2>1. lines' = lines /\ held' = held
    BY <1>8 DEF IcmpEcho, PassOver
  <2>2. Move(<<>>, W, P, R)
    BY <1>1, <1>3, <1>8, FewRows DEF EchoMove, Once
  <2>3. QED
    BY <1>5, <1>6, <1>7, <2>1, <2>2
<1>9. CASE r.kind = "request" /\ r.key \in P
  <2> DEFINE some == <<Exchange("ambiguous", h, Absent)>>
  <2>1. lines' = lines \o some /\ held' = held
    BY <1>5, <1>9 DEF IcmpEcho, EchoRequest, Report, CarryAll, Here, h, P
  <2>2. IsRows(some) /\ DOMAIN some = {1} /\ some[1] = Exchange("ambiguous", h, Absent)
    BY FewRows
  <2> HIDE DEF some
  <2>3. Once(some) /\ RowSound(g, R, some[1]) /\ some[1].request = h /\ some[1].reply = Absent
    BY <1>4, <1>9, <2>2 DEF Once, RowSound, Exchange
  <2>4. Move(some, W, P, R)
    BY <1>1, <1>3, <1>4, <1>9, <2>2, <2>3 DEF EchoMove, g, f
  <2>5. QED
    BY <1>5, <1>6, <2>1, <2>4
<1>10. CASE r.kind = "request" /\ r.key \notin P \cup R /\ r.key \in DOMAIN W
  <2> DEFINE k == r.key
             W2 == [c \in DOMAIN W \ {k} |-> W[c]]
             P2 == P \cup {k}
             first == Exchange("ambiguous", W[k], Absent)
             second == Exchange("ambiguous", h, Absent)
             some == <<first, second>>
  <2>1. lines' = lines \o some /\ held' = [held EXCEPT !.poisoned = @ \cup {r.key}, !.waiting = Waiting(r.key)]
    BY <1>10 DEF IcmpEcho, EchoRequest, CarryAll, Hold, Here, h, P, R, W
  <2>2. held' = [waiting |-> W2, poisoned |-> P2, resolved |-> R]
    <3>1. Waiting(r.key) = W2
      BY DEF Waiting, W
    <3>2. QED
      BY <1>5, <2>1, <3>1
  <2>3. IsRows(some) /\ DOMAIN some = {1, 2} /\ some[1] = first /\ some[2] = second
    BY FewRows
  <2>4. /\ first.request = W[k] /\ first.reply = Absent /\ first.status = "ambiguous"
        /\ second.request = h /\ second.reply = Absent /\ second.status = "ambiguous"
    BY DEF Exchange
  <2>5. W[k] \in Asked(f) /\ W[k] \in Nat /\ W[k] # h
    BY <1>3, <1>4, <1>10 DEF WaitsAlone
  <2>6. DOMAIN W2 = DOMAIN W \ {k} /\ \A c \in DOMAIN W2 : W2[c] = W[c]
    OBVIOUS
  <2>7. IsFiniteSet(DOMAIN W2)
    BY <1>1, <2>6, FS_Subset
  <2> HIDE DEF some, first, second, W2
  <2>8. Once(some)
    BY <1>4, <2>3, <2>4, <2>5 DEF Once
  <2>9. RowSound(g, R, some[1]) /\ RowSound(g, R, some[2])
    BY <1>4, <1>10, <2>3, <2>4, <2>5 DEF RowSound
  <2>10. P2 \cap R = {} /\ DOMAIN W2 \cap (P2 \cup R) = {} /\ P \subseteq P2
    BY <1>3, <1>10, <2>6
  <2>11. Move(some, W2, P2, R)
    BY <1>10, <2>3, <2>4, <2>6, <2>7, <2>8, <2>9, <2>10 DEF EchoMove, g, f
  <2>12. QED
    BY <1>6, <2>1, <2>2, <2>11
<1>11. CASE r.kind = "request" /\ r.key \notin P \cup R \cup DOMAIN W
  <2> DEFINE k == r.key
             W2 == [c \in DOMAIN W \cup {k} |-> IF c = k THEN h ELSE W[c]]
  <2>1. lines' = lines /\ held' = [held EXCEPT !.waiting = Opening(r)]
    BY <1>11 DEF IcmpEcho, EchoRequest, Keeping, Hold, Here, h, P, R, W
  <2>2. held' = [waiting |-> W2, poisoned |-> P, resolved |-> R]
    <3>1. Opening(r) = W2
      BY DEF Opening, W, Here, h
    <3>2. QED
      BY <1>5, <2>1, <3>1
  <2>3. /\ DOMAIN W2 = DOMAIN W \cup {k} /\ W2[k] = h
        /\ \A c \in DOMAIN W : c # k => W2[c] = W[c]
    OBVIOUS
  <2>4. IsFiniteSet(DOMAIN W2)
    BY <1>1, <2>3, FS_AddElement
  <2> HIDE DEF W2
  <2>5. DOMAIN W2 \cap (P \cup R) = {}
    BY <1>3, <1>11, <2>3
  <2>6. Move(<<>>, W2, P, R)
    <3>1. IsRows(<<>>) /\ DOMAIN <<>> = {}
      BY FewRows
    <3>2. Once(<<>>)
      BY <3>1 DEF Once
    <3>3. QED
      BY <1>3, <1>11, <2>3, <2>4, <2>5, <3>1, <3>2 DEF EchoMove
  <2>7. QED
    BY <1>6, <1>7, <2>1, <2>2, <2>6
<1>12. CASE r.kind = "reply" /\ r.key \notin DOMAIN W \ P
  <2> DEFINE row == Exchange(IF r.key \in P THEN "ambiguous" ELSE "reply without request", Absent, h)
             some == <<row>>
  <2>1. lines' = lines \o some /\ held' = held
    BY <1>12 DEF IcmpEcho, EchoReply, Report, CarryAll, Here, h, P, W
  <2>2. IsRows(some) /\ DOMAIN some = {1} /\ some[1] = row
    BY FewRows
  <2>3. /\ row.request = Absent /\ row.reply = h
        /\ row.status \notin {"paired", "no reply in capture"}
    BY DEF Exchange
  <2> HIDE DEF some, row
  <2>4. Once(some) /\ RowSound(g, R, some[1])
    BY <1>4, <1>12, <2>2, <2>3 DEF Once, RowSound
  <2>5. \A k \in DOMAIN W : k # r.key
    BY <1>3, <1>12
  <2>6. Move(some, W, P, R)
    BY <1>1, <1>3, <1>4, <1>12, <2>2, <2>3, <2>4, <2>5 DEF EchoMove, g, f
  <2>7. QED
    BY <1>5, <1>6, <2>1, <2>6
<1>13. CASE r.kind = "reply" /\ r.key \in DOMAIN W \ P
  <2> DEFINE k == r.key
             q == W[k]
             same == f[q].payload = r.payload
             W2 == [c \in DOMAIN W \ {k} |-> W[c]]
             P2 == IF same THEN P ELSE P \cup {k}
             R2 == IF same THEN R \cup {k} ELSE R
             row == Exchange(IF same THEN "paired" ELSE "returned data mismatch", q, h)
             some == <<row>>
  <2>1. lines' = lines \o some /\ held' = Settled(r, same)
    BY <1>13 DEF IcmpEcho, EchoReply, Report, CarryAll, Hold, Here, h, P, W, f
  <2>2. held' = [waiting |-> W2, poisoned |-> P2, resolved |-> R2]
    <3>1. Waiting(r.key) = W2
      BY DEF Waiting, W
    <3> HIDE DEF W2, same
    <3>2. QED
      BY <1>5, <2>1, <3>1 DEF Settled
  <2>3. IsRows(some) /\ DOMAIN some = {1} /\ some[1] = row
    BY FewRows
  <2>4. /\ row.request = q /\ row.reply = h
        /\ row.status = IF same THEN "paired" ELSE "returned data mismatch"
    BY DEF Exchange
  <2>5. /\ q \in Asked(f) /\ q \in Nat /\ q < h /\ q # h /\ f[q].key = k /\ g[q] = f[q]
        /\ \A m \in Asked(f) : f[m].key = k => m = q
    BY <1>3, <1>4, <1>13 DEF WaitsAlone
  <2>6. DOMAIN W2 = DOMAIN W \ {k} /\ \A c \in DOMAIN W2 : W2[c] = W[c]
    OBVIOUS
  <2>7. IsFiniteSet(DOMAIN W2)
    BY <1>1, <2>6, FS_Subset
  <2>8. k \in P2 \cup R2 /\ k \in DOMAIN W \ DOMAIN W2
    BY <1>13, <2>6
  <2>9. P2 \cap R2 = {} /\ DOMAIN W2 \cap (P2 \cup R2) = {} /\ P \subseteq P2 /\ R \subseteq R2
    BY <1>3, <1>13, <2>6
  <2>10. same => k \in R2
    OBVIOUS
  <2>11. same => g[q].payload = g[h].payload
    BY <1>4, <2>5
  <2> HIDE DEF some, row, W2, P2, R2, same, q
  <2>12. RowSound(g, R2, some[1])
    <3>1. q \in Asked(g) /\ h \in Answers(g)
      BY <1>4, <1>13, <2>5
    <3>2. CASE same
      <4>1. row.status = "paired"
        BY <2>4, <3>2
      <4>2. \A n \in Asked(g) : g[n].key = g[q].key => n = q
        BY <1>4, <1>13, <2>5
      <4>3. g[q].key = g[h].key /\ g[q].payload = g[h].payload /\ g[q].key \in R2
        BY <1>4, <2>5, <2>10, <2>11, <3>2
      <4>4. QED
        BY <2>3, <2>4, <2>5, <3>1, <4>1, <4>2, <4>3 DEF RowSound
    <3>3. CASE ~same
      <4>1. row.status = "returned data mismatch"
        BY <2>4, <3>3
      <4>2. QED
        BY <2>3, <2>4, <3>1, <4>1 DEF RowSound
    <3>4. QED
      BY <3>2, <3>3
  <2>13. Once(some)
    BY <2>3 DEF Once
  <2>14. Move(some, W2, P2, R2)
    BY <1>13, <2>3, <2>4, <2>5, <2>6, <2>7, <2>8, <2>9, <2>12, <2>13 DEF EchoMove, g, f, q
  <2>15. QED
    BY <1>6, <2>1, <2>2, <2>14
<1>14. r.kind = "request" => r.key \in P \/ r.key \notin P \cup R
  BY DEF IcmpEcho, EchoRequest, P, R
<1>15. QED
  BY <1>8, <1>9, <1>10, <1>11, <1>12, <1>13, <1>14
(* A finite set as a sequence has each of its elements in one place. *)
LEMMA SetAsRows ==
    ASSUME NEW S, IsFiniteSet(S)
    PROVE  /\ IsRows(SetToSeq(S))
           /\ \A j \in DOMAIN SetToSeq(S) : SetToSeq(S)[j] \in S
           /\ \A e \in S : \E j \in DOMAIN SetToSeq(S) : SetToSeq(S)[j] = e
           /\ \A i, j \in DOMAIN SetToSeq(S) : SetToSeq(S)[i] = SetToSeq(S)[j] => i = j
<1> DEFINE n == Cardinality(S)
           s == SetToSeq(S)
<1>1. n \in Nat /\ ExistsBijection(1..n, S)
  BY FS_CardinalityType
<1>2. PICK b : b \in Bijection(1..n, S)
  BY <1>1 DEF ExistsBijection
<1>3. b \in [1..n -> S] /\ IsInjective(b)
  BY <1>2 DEF Bijection, Injection
<1>4. s \in [1..n -> S] /\ IsInjective(s)
  BY <1>3 DEF SetToSeq
<1> HIDE DEF s, n
<1>5. s \in Seq(S) /\ DOMAIN s = 1..n
  BY <1>1, <1>4, SeqDef
<1>6. s \in Injection(1..n, S)
  BY <1>4 DEF Injection
<1>7. IsFiniteSet(1..n) /\ Cardinality(1..n) = n
  BY <1>1, FS_Interval
<1>8. s \in Surjection(1..n, S)
  BY <1>6, <1>7, FS_Injection DEF n
<1>9. \A e \in S : \E j \in 1..n : s[j] = e
  BY <1>8 DEF Surjection
<1>10. \A i, j \in DOMAIN s : s[i] = s[j] => i = j
  BY <1>4 DEF IsInjective
<1>11. IsRows(s) /\ \A j \in DOMAIN s : s[j] \in S
  BY <1>4, <1>5 DEF IsRows
<1>12. QED
  BY <1>5, <1>9, <1>10, <1>11 DEF s

(* What is left waiting at the end of the capture is told as unanswered, and  *)
(* with that every echo has its row.                                          *)
LEMMA EchoEnds ==
    ASSUME EchoInv, IcmpEchoEnd
    PROVE  EchoInv'
<1> DEFINE f == fed
           W == held.waiting
           R == held.resolved
           told(k) == Exchange("no reply in capture", W[k], Absent)
           left == {told(k) : k \in DOMAIN W}
           some == SetToSeq(left)
           all == lines \o some
<1>1. /\ verdict # "converted" /\ lines' = all /\ verdict' = "converted"
      /\ fed' = f /\ held' = held /\ converter' = converter
  BY DEF IcmpEchoEnd, Ending
<1>2. EchoKept(f, lines, W, held.poisoned, R)
  BY <1>1 DEF EchoInv
<1>3. /\ IsFiniteSet(DOMAIN W) /\ IsRows(lines) /\ Once(lines)
      /\ \A k \in DOMAIN W : WaitsAlone(f, lines, k, W[k])
      /\ AllTold(f, lines, W, held.poisoned \cup R)
      /\ \A i \in DOMAIN lines : RowSound(f, R, lines[i])
      /\ Asked(f) \subseteq Nat /\ Answers(f) \subseteq Nat
  <2>1. Asked(f) \subseteq Nat /\ Answers(f) \subseteq Nat
    BY <1>2, LenProperties DEF Asked, Answers, EchoKept, IsRows
  <2>2. QED
    BY <1>2, <2>1 DEF EchoKept
<1>4. \A k : told(k).status = "no reply in capture" /\ told(k).request = W[k] /\ told(k).reply = Absent
  BY DEF Exchange
<1>5. IsFiniteSet(left)
  <2> DEFINE each == [k \in DOMAIN W |-> told(k)]
  <2>1. each \in Surjection(DOMAIN W, left)
    BY DEF Surjection
  <2>2. IsFiniteSet(DOMAIN W)
    BY <1>3
  <2> HIDE DEF each, left
  <2>3. QED
    BY <2>1, <2>2, FS_Surjection
<1>6. /\ IsRows(some)
      /\ \A j \in DOMAIN some : some[j] \in left
      /\ \A e \in left : \E j \in DOMAIN some : some[j] = e
      /\ \A i, j \in DOMAIN some : some[i] = some[j] => i = j
  BY <1>5, SetAsRows
<1>7. /\ \A i \in DOMAIN lines : i \in DOMAIN all /\ all[i] = lines[i]
      /\ \A j \in DOMAIN some : Len(lines) + j \in DOMAIN all /\ all[Len(lines) + j] = some[j]
      /\ \A n \in DOMAIN all : n \in DOMAIN lines \/ \E j \in DOMAIN some : n = Len(lines) + j
  <2>1. IsRows(lines) /\ IsRows(some)
    BY <1>3, <1>6
  <2> HIDE DEF some
  <2>2. QED
    BY <2>1, ConcatRows
<1> HIDE DEF all, some
<1>8. \A j \in DOMAIN some : \E k \in DOMAIN W : some[j] = told(k)
  BY <1>6
<1>9. \A k \in DOMAIN W : \E j \in DOMAIN some : some[j] = told(k)
  BY <1>6
<1> HIDE DEF left, told, W, R, f
<1>10. Once(all)
  <2>1. Once(some)
    <3> SUFFICES ASSUME NEW i \in DOMAIN some, NEW j \in DOMAIN some, i # j
                 PROVE  /\ some[i].request # some[j].request
                        /\ some[i].reply \notin Nat
      BY DEF Once
    <3>1. PICK k \in DOMAIN W : some[i] = told(k)
      BY <1>8
    <3>2. PICK c \in DOMAIN W : some[j] = told(c)
      BY <1>8
    <3>3. k # c
      BY <1>6, <3>1, <3>2
    <3>4. W[k] # W[c]
      BY <1>3, <3>3 DEF WaitsAlone
    <3>5. QED
      BY <1>4, <3>1, <3>2, <3>4, EchoAssumption
  <2>2. ASSUME NEW i \in DOMAIN lines, NEW j \in DOMAIN some
        PROVE  /\ lines[i].request \in Nat => lines[i].request # some[j].request
               /\ lines[i].reply \in Nat => lines[i].reply # some[j].reply
    <3>1. PICK k \in DOMAIN W : some[j] = told(k)
      BY <1>8
    <3>2. lines[i].request # W[k]
      BY <1>3 DEF WaitsAlone
    <3>3. QED
      BY <1>4, <3>1, <3>2, EchoAssumption
  <2>3. QED
    BY <1>3, <1>6, <2>1, <2>2, OnceConcat DEF all
<1>11. ASSUME NEW n \in Asked(f)
       PROVE  Cardinality({i \in DOMAIN all : all[i].request = n}) = 1
  <2>1. \E i \in DOMAIN all : all[i].request = n
    <3>1. CASE f[n].key \in DOMAIN W
      <4>1. PICK j \in DOMAIN some : some[j] = told(f[n].key)
        BY <1>9, <3>1
      <4>2. W[f[n].key] = n
        BY <1>3, <3>1 DEF WaitsAlone
      <4>3. some[j].request = n
        BY <1>4, <4>1, <4>2
      <4>4. QED
        BY <1>7, <4>3
    <3>2. CASE f[n].key \notin DOMAIN W
      BY <1>3, <1>7, <3>2 DEF AllTold
    <3>3. QED
      BY <3>1, <3>2
  <2>2. PICK i \in DOMAIN all : all[i].request = n
    BY <2>1
  <2>3. {j \in DOMAIN all : all[j].request = n} = {i}
    BY <1>3, <1>10, <2>2 DEF Once
  <2>4. QED
    BY <2>3, FS_Singleton
<1>12. ASSUME NEW n \in Answers(f)
       PROVE  Cardinality({i \in DOMAIN all : all[i].reply = n}) = 1
  <2>1. PICK i \in DOMAIN all : all[i].reply = n
    BY <1>3, <1>7 DEF AllTold
  <2>2. {j \in DOMAIN all : all[j].reply = n} = {i}
    BY <1>3, <1>10, <2>1 DEF Once
  <2>3. QED
    BY <2>2, FS_Singleton
<1>13. ASSUME NEW i \in DOMAIN all, all[i].status = "paired"
       PROVE  /\ all[i].request < all[i].reply
              /\ f[all[i].request].key = f[all[i].reply].key
              /\ f[all[i].request].payload = f[all[i].reply].payload
              /\ \A n \in Asked(f) : f[n].key = f[all[i].reply].key => n = all[i].request
  <2>1. i \in DOMAIN lines /\ all[i] = lines[i]
    <3>1. \A j \in DOMAIN some : some[j].status # "paired"
      BY <1>4, <1>8
    <3>2. QED
      BY <1>7, <1>13, <3>1
  <2>2. RowSound(f, R, all[i])
    BY <1>3, <2>1
  <2>3. QED
    BY <1>13, <2>2 DEF RowSound
<1>14. ASSUME NEW i \in DOMAIN all, all[i].status = "no reply in capture"
       PROVE  \A n \in Answers(f) : f[n].key = f[all[i].request].key => n < all[i].request
  <2>1. \A j \in DOMAIN lines : lines[j].status # "no reply in capture"
    BY <1>3 DEF RowSound
  <2>2. PICK j \in DOMAIN some : all[i] = some[j]
    BY <1>7, <1>14, <2>1
  <2>3. PICK k \in DOMAIN W : all[i] = told(k)
    BY <1>8, <2>2
  <2>4. all[i].request = W[k]
    BY <1>4, <2>3
  <2>5. QED
    BY <1>3, <2>4 DEF WaitsAlone
<1>15. TellOfEchoes(all, f)
  BY <1>11, <1>12, <1>13, <1>14 DEF TellOfEchoes, Asked, Answers
<1>16. lines' = all /\ fed' = f
  BY <1>1 DEF all, f
<1>17. TellOfEchoes(lines', fed')
  BY <1>15, <1>16
<1>18. QED
  BY <1>1, <1>17 DEF EchoInv, EchoesArePaired

(* In a converted capture every echo is in one row, a pair is a request with  *)
(* its only possible reply, and an unanswered request has none after it       *)
(* (convert_imc_sensors.convert_icmp_echo), for any packets.                  *)
THEOREM EchoesFindTheirReplies == EchoSpec => []EchoesArePaired
<1>1. EchoInit => EchoInv
  <2> SUFFICES ASSUME EchoInit PROVE EchoInv
    OBVIOUS
  <2>1. /\ fed = <<>> /\ lines = <<>> /\ verdict = "reading" /\ converter = "icmp echo"
        /\ held = [waiting |-> <<>>, poisoned |-> {}, resolved |-> {}]
    BY DEF EchoInit, Starting, NoExchange
  <2>2. IsRows(<<>>) /\ DOMAIN <<>> = {}
    BY FewRows
  <2>3. EchoKept(<<>>, <<>>, <<>>, {}, {})
    BY <2>2, FS_EmptySet DEF EchoKept, AllTold, Once, Asked, Answers
  <2>4. QED
    BY <2>1, <2>3 DEF EchoInv, EchoesArePaired
<1>2. EchoInv /\ [EchoNext]_linesVars => EchoInv'
  <2> SUFFICES ASSUME EchoInv, [EchoNext]_linesVars PROVE EchoInv'
    OBVIOUS
  <2>1. ASSUME NEW r \in EchoPackets, Taking(r), IcmpEcho(r) PROVE EchoInv'
    <3>1. verdict = "reading" /\ verdict' = "reading" /\ converter' = converter
      BY <2>1 DEF Taking
    <3>2. /\ held' = [waiting |-> held'.waiting, poisoned |-> held'.poisoned, resolved |-> held'.resolved]
          /\ EchoKept(fed', lines', held'.waiting, held'.poisoned, held'.resolved)
      BY <2>1, <3>1, EchoPacketKept
    <3>3. QED
      BY <3>1, <3>2 DEF EchoInv, EchoesArePaired
  <2>2. CASE IcmpEchoEnd
    BY <2>2, EchoEnds
  <2>3. CASE Refuse
    BY <2>3, ZenonT(60) DEF Refuse, EchoInv, EchoesArePaired
  <2>4. CASE UNCHANGED linesVars
    BY <2>4, ZenonT(60) DEF linesVars, EchoInv, EchoesArePaired
  <2>5. QED
    BY <2>1, <2>2, <2>3, <2>4 DEF EchoNext
<1>3. EchoInv => EchoesArePaired
  BY ZenonT(60) DEF EchoInv
<1>4. QED
  BY <1>1, <1>2, <1>3, PTL DEF EchoSpec

-----------------------------------------------------------------------------
(* A converter of saved records, from its first record to its output. *)

(* What follows a loop follows it once. *)
LEMMA EndsOnce == ConverterEnd => Ending
  BY DEF ConverterEnd, EndCarried, PublishEnd, EngineEnd, ResponseEnd, TegraEnd, ImuEnd, SessionWindowEnd,
     VerticalEnd, DecodedEnd, NormalizedEnd, BundleEnd, QuadplaneEnd, StatusTextEnd, UlogEnd,
     EventLogEnd, MissionPlanEnd, LinkEnd, SportEnd, MspEnd, SocketEnd, OpcuaEnd, SavedPagesEnd,
     HoursEnd, ArrayEnd, JobEnd, SignalkEnd, BagEnd, IndexEnd, BagEntryEnd, SqliteEnd, MapEnd,
     IcmpEchoEnd, TcpEnd, RtcpEnd, ImcWindowEnd, SlogEnd

(* The records read are a file of the script that runs, with its arguments. *)
SavedFile == fed \in Seq(Records[converter]) /\ declared \in Declared[converter]

(* One record more has been read. *)
ReadOne(r) ==
    /\ r \in Records[converter] /\ SavedFile /\ verdict = "reading" /\ verdict' = "reading"
    /\ Len(fed) \in Nat /\ Here = Len(fed) + 1 /\ Len(fed') = Here
    /\ DOMAIN fed = 1..Len(fed) /\ DOMAIN fed' = 1..Here
    /\ DOMAIN fed' = DOMAIN fed \cup {Here} /\ Here \notin DOMAIN fed
    /\ \A i \in DOMAIN fed : fed'[i] = fed[i]
    /\ fed'[Here] = r
    /\ converter' = converter /\ declared' = declared

(* Reading a record puts it behind the others. *)
LEMMA RecordRead ==
    ASSUME SavedFile, NEW r \in Records[converter], Taking(r)
    PROVE  ReadOne(r)
<1>1. /\ Append(fed, r) \in Seq(Records[converter])
      /\ Len(Append(fed, r)) = Len(fed) + 1
      /\ \A i \in 1..Len(fed) : Append(fed, r)[i] = fed[i]
      /\ Append(fed, r)[Len(fed) + 1] = r
  BY AppendProperties DEF SavedFile
<1>2. Len(fed) \in Nat /\ DOMAIN fed = 1..Len(fed) /\ DOMAIN Append(fed, r) = 1..Len(Append(fed, r))
  BY <1>1, LenProperties DEF SavedFile
<1>3. fed' = Append(fed, r) /\ verdict = "reading" /\ verdict' = verdict
      /\ converter' = converter /\ declared' = declared
  BY DEF Taking
<1> DEFINE n == Len(fed)
<1>4. 1..(n + 1) = 1..n \cup {n + 1} /\ n + 1 \notin 1..n
  BY <1>2
<1>5. QED
  BY <1>1, <1>2, <1>3, <1>4 DEF ReadOne, Here

(* A script does not change its mind about what it converts. *)
LEMMA SameScript == [ConverterNext]_linesVars => converter' = converter /\ declared' = declared
  BY EndsOnce DEF ConverterNext, Taking, Ending, Refuse, linesVars

(* Whatever script runs, it reads a file of its own kind of records. *)
LEMMA FileIsSaved == ConverterSpec => []SavedFile
<1>1. ConverterInit => SavedFile
  BY EmptySeq DEF ConverterInit, Starting, SavedFile
<1>2. SavedFile /\ [ConverterNext]_linesVars => SavedFile'
  <2> SUFFICES ASSUME SavedFile, [ConverterNext]_linesVars PROVE SavedFile'
    OBVIOUS
  <2>1. ASSUME NEW r \in Records[converter], Taking(r) PROVE SavedFile'
    BY <2>1, AppendProperties DEF SavedFile, Taking
  <2>2. CASE ConverterEnd
    BY <2>2, EndsOnce DEF SavedFile, Ending
  <2>3. CASE Refuse
    BY <2>3 DEF SavedFile, Refuse
  <2>4. CASE UNCHANGED linesVars
    BY <2>4 DEF SavedFile, linesVars
  <2>5. QED
    BY <2>1, <2>2, <2>3, <2>4 DEF ConverterNext
<1>3. QED
  BY <1>1, <1>2, PTL DEF ConverterSpec

-----------------------------------------------------------------------------
(* The source rows some lines stand for. *)

RowsOf(s) == {s[i].row : i \in DOMAIN s}

(* One line more stands for one source row more. *)
LEMMA RowsAppend ==
    ASSUME NEW s, IsRows(s), NEW e
    PROVE  RowsOf(Append(s, e)) = RowsOf(s) \cup {e.row}
<1> DEFINE t == Append(s, e)
<1>1. /\ Len(s) \in Nat /\ DOMAIN s = 1..Len(s) /\ DOMAIN t = 1..(Len(s) + 1)
      /\ \A i \in DOMAIN s : t[i] = s[i]
      /\ t[Len(s) + 1] = e
  BY AppendedRow
<1> HIDE DEF t
<1>2. \A i : i \in DOMAIN t <=> i \in DOMAIN s \/ i = Len(s) + 1
  BY <1>1
<1>3. RowsOf(t) = RowsOf(s) \cup {e.row}
  BY <1>1, <1>2 DEF RowsOf
<1>4. QED
  BY <1>3 DEF t

(* Lines carried together stand for the rows of each of them. *)
LEMMA RowsConcat ==
    ASSUME NEW s, NEW t, IsRows(s), IsRows(t)
    PROVE  RowsOf(s \o t) = RowsOf(s) \cup RowsOf(t)
<1> DEFINE st == s \o t
<1>1. /\ \A i \in DOMAIN s : i \in DOMAIN st /\ st[i] = s[i]
      /\ \A j \in DOMAIN t : Len(s) + j \in DOMAIN st /\ st[Len(s) + j] = t[j]
      /\ \A n \in DOMAIN st : n \in DOMAIN s \/ \E j \in DOMAIN t : n = Len(s) + j
  BY ConcatRows
<1> HIDE DEF st
<1>2. RowsOf(st) = RowsOf(s) \cup RowsOf(t)
  <2>1. ASSUME NEW n \in DOMAIN st PROVE st[n].row \in RowsOf(s) \cup RowsOf(t)
    <3>1. CASE n \in DOMAIN s
      BY <1>1, <3>1 DEF RowsOf
    <3>2. CASE \E j \in DOMAIN t : n = Len(s) + j
      BY <1>1, <3>2 DEF RowsOf
    <3>3. QED
      BY <1>1, <2>1, <3>1, <3>2
  <2>2. \A i \in DOMAIN s : s[i].row \in RowsOf(st)
    BY <1>1 DEF RowsOf
  <2>3. \A j \in DOMAIN t : t[j].row \in RowsOf(st)
    BY <1>1 DEF RowsOf
  <2>4. QED
    BY <2>1, <2>2, <2>3 DEF RowsOf
<1>3. QED
  BY <1>2 DEF st

-----------------------------------------------------------------------------
(* A session cut out of a longer log. *)

(* The rows carried are those of the window, whatever lies outside it. *)
CutInv ==
    converter = "ardusub window" =>
        /\ IsRows(lines)
        /\ RowsOf(lines) = {i \in DOMAIN fed : fed[i].kind \in SessionKinds /\ InWindow(i)}

(* A record is carried exactly when it is of the session and in the window. *)
LEMMA CutRecordInv ==
    ASSUME CutInv, converter = "ardusub window", NEW r, ReadOne(r), SessionWindowRecord(r)
    PROVE  CutInv'
<1> DEFINE W(f) == {i \in DOMAIN f : f[i].kind \in SessionKinds /\ InWindow(i)}
           inside == r.kind \in SessionKinds /\ InWindow(Here)
<1>1. W(fed') = W(fed) \cup (IF inside THEN {Here} ELSE {})
  <2>1. /\ DOMAIN fed' = DOMAIN fed \cup {Here} /\ Here \notin DOMAIN fed
        /\ fed'[Here] = r /\ \A i \in DOMAIN fed : fed'[i] = fed[i]
    BY DEF ReadOne
  <2>2. QED
    BY <2>1
<1>2. CASE inside
  <2>1. lines' = Append(lines, [row |-> Here, time |-> r.time, file |-> r.kind])
    BY <1>2 DEF SessionWindowRecord, Dropped, Carry, PassOver, SessionKinds
  <2>2. RowsOf(lines') = RowsOf(lines) \cup {Here} /\ IsRows(lines')
    BY <2>1, RowsAppend, AppendedRow DEF CutInv
  <2>3. QED
    BY <1>1, <1>2, <2>2 DEF CutInv, InWindow, ReadOne
<1>3. CASE ~inside
  <2>1. lines' = lines
    BY <1>3 DEF SessionWindowRecord, Dropped, Carry, PassOver, SessionKinds, CutContext
  <2>2. QED
    BY <1>1, <1>3, <2>1 DEF CutInv, InWindow, ReadOne
<1>4. QED
  BY <1>2, <1>3

(* A session that is cut out has all its records, and only those. *)
LEMMA CutHolds == ConverterSpec => []CutInv
<1>1. ConverterInit => CutInv
  <2>1. IsRows(<<>>) /\ RowsOf(<<>>) = {} /\ DOMAIN <<>> = {}
    BY FewRows DEF RowsOf
  <2>2. QED
    BY <2>1 DEF ConverterInit, Starting, CutInv
<1>2. SavedFile /\ CutInv /\ [ConverterNext]_linesVars => CutInv'
  <2> SUFFICES ASSUME SavedFile, CutInv, [ConverterNext]_linesVars, converter = "ardusub window"
               PROVE  CutInv'
    BY SameScript DEF CutInv
  <2>1. ASSUME NEW r \in Records[converter], Taking(r), ConverterStep(r) PROVE CutInv'
    <3>1. SessionWindowRecord(r)
      BY <2>1 DEF ConverterStep, HostsStep, RoversStep, FlightStep, MissionsStep, LinksStep, FleetsStep,
         ServersStep, BagsStep, PacketsStep
    <3>2. QED
      BY <2>1, <3>1, RecordRead, CutRecordInv
  <2>2. CASE ConverterEnd \/ Refuse \/ UNCHANGED linesVars
    <3>1. UNCHANGED <<converter, declared, fed, lines>>
      BY <2>2 DEF ConverterEnd, SessionWindowEnd, EndCarried, Ending, Keeping, Refuse, linesVars
    <3>2. QED
      BY <3>1 DEF CutInv, InWindow
  <2>3. QED
    BY <2>1, <2>2 DEF ConverterNext
<1>3. QED
  BY <1>1, <1>2, FileIsSaved, PTL DEF ConverterSpec

(* Positions in ascending order are each in one place. *)
LEMMA AscendingRows ==
    ASSUME NEW S \in SUBSET Nat, IsFiniteSet(S)
    PROVE  /\ IsRows(Ascending(S))
           /\ \A j \in DOMAIN Ascending(S) : Ascending(S)[j] \in S
           /\ \A e \in S : \E j \in DOMAIN Ascending(S) : Ascending(S)[j] = e
           /\ DOMAIN Ascending(S) = 1..Cardinality(S)
           /\ \A i, j \in DOMAIN Ascending(S) : i < j => Ascending(S)[i] < Ascending(S)[j]
<1> DEFINE n == Cardinality(S)
           below(e) == {m \in S : m < e}
           rank == [e \in S |-> Cardinality(below(e)) + 1]
           Orders(s) == \A i, j \in DOMAIN s : i < j => s[i] < s[j]
           a == Ascending(S)
<1>1. n \in Nat
  BY FS_CardinalityType
<1>2. \A e \in S : IsFiniteSet(below(e)) /\ Cardinality(below(e)) \in Nat
  BY FS_Subset, FS_CardinalityType
<1>3. ASSUME NEW e \in S, NEW f \in S, e < f PROVE Cardinality(below(e)) < Cardinality(below(f))
  <2>1. /\ IsFiniteSet(below(f)) /\ IsFiniteSet(below(e))
        /\ Cardinality(below(f)) \in Nat /\ Cardinality(below(e)) \in Nat
    BY <1>2
  <2>2. below(e) \cup {e} \in SUBSET below(f) /\ e \notin below(e)
    <3>1. \A m \in S : m \in Nat
      OBVIOUS
    <3>2. \A m \in S : m < e => m < f
      BY <1>3, <3>1
    <3>3. ~(e < e)
      BY <3>1
    <3>4. QED
      BY <1>3, <3>2, <3>3
  <2> HIDE DEF below
  <2>3. Cardinality(below(e) \cup {e}) = Cardinality(below(e)) + 1
    BY <2>1, <2>2, FS_AddElement
  <2>4. Cardinality(below(e) \cup {e}) <= Cardinality(below(f))
    BY <2>1, <2>2, FS_Subset
  <2>5. QED
    BY <2>1, <2>3, <2>4
<1>4. ASSUME NEW e \in S PROVE Cardinality(below(e)) < n
  <2>1. /\ IsFiniteSet(below(e)) /\ Cardinality(below(e)) \in Nat
    BY <1>2
  <2>2. below(e) \cup {e} \in SUBSET S /\ e \notin below(e)
    OBVIOUS
  <2> HIDE DEF below
  <2>3. Cardinality(below(e) \cup {e}) = Cardinality(below(e)) + 1
    BY <2>1, <2>2, FS_AddElement
  <2>4. Cardinality(below(e) \cup {e}) <= n
    BY <2>1, <2>2, FS_Subset
  <2>5. QED
    BY <1>1, <2>1, <2>3, <2>4
<1> HIDE DEF below, n
<1>5. rank \in [S -> 1..n] /\ \A e, f \in S : e < f => rank[e] < rank[f]
  <2>1. \A e \in S : Cardinality(below(e)) + 1 \in 1..n
    BY <1>1, <1>2, <1>4
  <2>2. \A e, f \in S : e < f => Cardinality(below(e)) + 1 < Cardinality(below(f)) + 1
    BY <1>2, <1>3
  <2>3. QED
    BY <2>1, <2>2
<1> HIDE DEF rank
<1>6. rank \in Bijection(S, 1..n)
  <2>1. \A e, f \in S : e # f => rank[e] # rank[f]
    <3> SUFFICES ASSUME NEW e \in S, NEW f \in S, e # f PROVE rank[e] # rank[f]
      OBVIOUS
    <3>1. e \in Nat /\ f \in Nat /\ rank[e] \in 1..n /\ rank[f] \in 1..n
      BY <1>5
    <3>2. CASE e < f
      BY <1>5, <3>1, <3>2
    <3>3. CASE f < e
      BY <1>5, <3>1, <3>3
    <3>4. QED
      BY <3>1, <3>2, <3>3
  <2>2. rank \in Injection(S, 1..n)
    BY <1>5, <2>1 DEF Injection, IsInjective
  <2>3. IsFiniteSet(1..n) /\ Cardinality(1..n) = Cardinality(S)
    BY <1>1, FS_Interval DEF n
  <2>4. rank \in Surjection(S, 1..n)
    BY <2>2, <2>3, FS_Injection
  <2>5. QED
    BY <2>2, <2>4 DEF Bijection
<1>7. \A i \in 1..n : \E e \in S : rank[e] = i
  BY <1>6 DEF Bijection, Surjection
<1> DEFINE up == [i \in 1..n |-> CHOOSE e \in S : rank[e] = i]
<1>8. \A i \in 1..n : up[i] \in S /\ rank[up[i]] = i
  BY <1>7
<1>9. up \in [1..n -> S] /\ DOMAIN up = 1..n
  BY <1>8
<1> HIDE DEF up
<1>10. Orders(up)
  <2> SUFFICES ASSUME NEW i \in 1..n, NEW j \in 1..n, i < j PROVE up[i] < up[j]
    BY <1>9
  <2>1. up[i] \in S /\ up[j] \in S /\ rank[up[i]] = i /\ rank[up[j]] = j
    BY <1>8
  <2>2. up[i] \in Nat /\ up[j] \in Nat
    BY <2>1
  <2>3. ~(j < i) /\ i # j
    BY <1>1
  <2>4. ~(up[j] < up[i]) /\ up[i] # up[j]
    BY <1>5, <2>1, <2>3
  <2>5. QED
    BY <2>2, <2>4
<1>11. a = CHOOSE s \in [1..n -> S] : Orders(s)
  BY DEF Ascending, n
<1> HIDE DEF a, Orders
<1>12. a \in [1..n -> S] /\ Orders(a)
  BY <1>9, <1>10, <1>11
<1>13. a \in Injection(1..n, S)
  <2>1. \A i, j \in 1..n : i # j => a[i] # a[j]
    <3> SUFFICES ASSUME NEW i \in 1..n, NEW j \in 1..n, i # j PROVE a[i] # a[j]
      OBVIOUS
    <3>1. i \in Nat /\ j \in Nat /\ a[i] \in Nat /\ a[j] \in Nat /\ DOMAIN a = 1..n
      <4>1. a[i] \in S /\ a[j] \in S /\ DOMAIN a = 1..n
        BY <1>12
      <4>2. a[i] \in Nat /\ a[j] \in Nat
        BY <4>1
      <4>3. i \in Nat /\ j \in Nat
        BY <1>1
      <4>4. QED
        BY <4>1, <4>2, <4>3
    <3>2. CASE i < j
      BY <1>12, <3>1, <3>2 DEF Orders
    <3>3. CASE j < i
      BY <1>12, <3>1, <3>3 DEF Orders
    <3>4. QED
      BY <3>1, <3>2, <3>3
  <2>2. QED
    BY <1>12, <2>1 DEF Injection, IsInjective
<1>14. IsFiniteSet(1..n) /\ Cardinality(1..n) = Cardinality(S)
  BY <1>1, FS_Interval DEF n
<1>15. a \in Surjection(1..n, S)
  BY <1>13, <1>14, FS_Injection
<1>16. a \in Seq(S) /\ DOMAIN a = 1..n
  BY <1>1, <1>12, SeqDef
<1>17. \A i, j \in DOMAIN a : i < j => a[i] < a[j]
  BY <1>12 DEF Orders
<1>18. QED
  BY <1>12, <1>15, <1>16, <1>17 DEF a, n, IsRows, Surjection

-----------------------------------------------------------------------------
(* The messages of an interval of a bag. *)

(* The values some rows have. *)
ValuesOf(s) == {s[i] : i \in DOMAIN s}

(* One value more. *)
LEMMA ValuesAppend ==
    ASSUME NEW s, IsRows(s), NEW e
    PROVE  ValuesOf(Append(s, e)) = ValuesOf(s) \cup {e}
<1> DEFINE t == Append(s, e)
<1>1. /\ Len(s) \in Nat /\ DOMAIN s = 1..Len(s) /\ DOMAIN t = 1..(Len(s) + 1)
      /\ \A i \in DOMAIN s : t[i] = s[i]
      /\ t[Len(s) + 1] = e
  BY AppendedRow
<1> HIDE DEF t
<1>2. \A i : i \in DOMAIN t <=> i \in DOMAIN s \/ i = Len(s) + 1
  BY <1>1
<1>3. ValuesOf(t) = ValuesOf(s) \cup {e}
  BY <1>1, <1>2 DEF ValuesOf
<1>4. QED
  BY <1>3 DEF t

(* The source rows passed over for a reason. *)
RowsWhy(s, why) == {s[i].row : i \in {k \in DOMAIN s : s[k].why = why}}

(* One more record passed over. *)
LEMMA WhyAppend ==
    ASSUME NEW s, IsRows(s), NEW e, NEW w
    PROVE  RowsWhy(Append(s, e), w) = RowsWhy(s, w) \cup (IF e.why = w THEN {e.row} ELSE {})
<1> DEFINE t == Append(s, e)
<1>1. /\ Len(s) \in Nat /\ DOMAIN s = 1..Len(s) /\ DOMAIN t = 1..(Len(s) + 1)
      /\ \A i \in DOMAIN s : t[i] = s[i]
      /\ t[Len(s) + 1] = e
  BY AppendedRow
<1> HIDE DEF t
<1>2. \A i : i \in DOMAIN t <=> i \in DOMAIN s \/ i = Len(s) + 1
  BY <1>1
<1>3. RowsWhy(t, w) = RowsWhy(s, w) \cup (IF e.why = w THEN {e.row} ELSE {})
  BY <1>1, <1>2 DEF RowsWhy
<1>4. QED
  BY <1>3 DEF t

(* A message that belongs in the output. *)
Chosen(r) ==
    /\ r.topic \in declared.topics
    /\ declared.start = Absent \/ (declared.start <= r.time /\ r.time < declared.stop)

ChosenOf(f, kind) == {n \in DOMAIN f : Chosen(f[n]) /\ f[n].kind = kind}

(* What the reader yields and the start does not filter is what belongs. *)
LEMMA WindowIsReader ==
    ASSUME converter = "rosbag", SavedFile, NEW r \in Records[converter]
    PROVE  Chosen(r) <=> YieldedByReader(r) /\ ~BeforeWindow(r)
<1>1. /\ r.time \in Nat /\ r.chunk \in Nat /\ r.time <= r.chunk /\ Absent \notin Int
      /\ \/ declared.start = Absent /\ declared.stop = Absent
         \/ declared.start \in Nat /\ declared.stop \in Nat /\ declared.start # Absent /\ declared.stop # Absent
  BY BagAssumption DEF SavedFile
<1>2. CASE declared.start = Absent
  BY <1>1, <1>2 DEF Chosen, YieldedByReader, BeforeWindow, Windowed, StorageStart
<1>3. CASE declared.start \in Nat /\ declared.start # Absent /\ declared.stop \in Nat /\ declared.stop # Absent
  <2>1. CASE declared.storage # "mcap"
    BY <1>1, <1>3, <2>1 DEF Chosen, YieldedByReader, BeforeWindow, Windowed, StorageStart
  <2>2. CASE declared.storage = "mcap" /\ declared.start = 0
    BY <1>1, <1>3, <2>2 DEF Chosen, YieldedByReader, BeforeWindow, Windowed, StorageStart
  <2>3. CASE declared.storage = "mcap" /\ declared.start > 0
    <3>1. StorageStart = declared.start - 1 /\ StorageStart \in Int /\ StorageStart # Absent
      BY <1>1, <1>3, <2>3 DEF StorageStart
    <3>2. r.time >= declared.start => r.time >= StorageStart /\ r.chunk > StorageStart
      BY <1>1, <1>3, <3>1
    <3>3. QED
      BY <1>1, <1>3, <2>3, <3>1, <3>2 DEF Chosen, YieldedByReader, BeforeWindow, Windowed
  <2>4. QED
    BY <1>1, <1>3, <2>1, <2>2, <2>3
<1>4. QED
  BY <1>1, <1>2, <1>3

BagInv ==
    converter = "rosbag" /\ verdict # "converted" =>
        /\ IsRows(lines) /\ IsRows(passed) /\ IsRows(held)
        /\ \A i \in DOMAIN lines : lines[i].says = "quantities"
        /\ RowsOf(lines) = ChosenOf(fed, "quantities")
        /\ RowsWhy(passed, "unsupported") = ChosenOf(fed, "unsupported")
        /\ ValuesOf(held) = ChosenOf(fed, "service")

(* Each message read goes to the output, to the calls, to a count, or is left out. *)
LEMMA BagRecordInv ==
    ASSUME BagInv, converter = "rosbag", NEW r, ReadOne(r), BagMessage(r)
    PROVE  BagInv'
<1>1. /\ IsRows(lines) /\ IsRows(passed) /\ IsRows(held)
      /\ \A i \in DOMAIN lines : lines[i].says = "quantities"
      /\ RowsOf(lines) = ChosenOf(fed, "quantities")
      /\ RowsWhy(passed, "unsupported") = ChosenOf(fed, "unsupported")
      /\ ValuesOf(held) = ChosenOf(fed, "service")
  BY DEF BagInv, ReadOne
<1>2. Chosen(r) <=> YieldedByReader(r) /\ ~BeforeWindow(r)
  BY WindowIsReader DEF ReadOne
<1>3. \A kind : ChosenOf(fed', kind) =
          ChosenOf(fed, kind) \cup (IF Chosen(r) /\ r.kind = kind THEN {Here} ELSE {})
  <2>1. /\ DOMAIN fed' = DOMAIN fed \cup {Here} /\ Here \notin DOMAIN fed
        /\ fed'[Here] = r /\ \A i \in DOMAIN fed : fed'[i] = fed[i]
    BY DEF ReadOne
  <2>2. QED
    BY <2>1 DEF ChosenOf
<1>4. \A kind : ChosenOf(fed, kind)' = ChosenOf(fed', kind)
  BY DEF ChosenOf, Chosen, ReadOne
<1>5. CASE ~Chosen(r)
  <2>1. /\ lines' = lines /\ held' = held
        /\ \E w \in {"not read", "before window"} : passed' = Append(passed, [row |-> Here, why |-> w])
    BY <1>2, <1>5 DEF BagMessage, PassOver
  <2>2. RowsWhy(passed', "unsupported") = RowsWhy(passed, "unsupported") /\ IsRows(passed')
    <3>1. PICK e : e.why # "unsupported" /\ passed' = Append(passed, e)
      BY <2>1
    <3>2. RowsWhy(Append(passed, e), "unsupported") =
             RowsWhy(passed, "unsupported") \cup (IF e.why = "unsupported" THEN {e.row} ELSE {})
      BY <1>1, WhyAppend
    <3>3. RowsWhy(Append(passed, e), "unsupported") = RowsWhy(passed, "unsupported")
      BY <3>1, <3>2
    <3>4. QED
      BY <1>1, <3>1, <3>3, AppendedRow
  <2>3. \A kind : ChosenOf(fed, kind)' = ChosenOf(fed, kind)
    BY <1>3, <1>4, <1>5
  <2>4. QED
    BY <1>1, <2>1, <2>2, <2>3 DEF BagInv
<1>6. CASE Chosen(r) /\ r.kind = "unsupported"
  <2>1. lines' = lines /\ held' = held /\ passed' = Append(passed, [row |-> Here, why |-> "unsupported"])
    BY <1>2, <1>6 DEF BagMessage, PassOver
  <2>2. RowsWhy(passed', "unsupported") = RowsWhy(passed, "unsupported") \cup {Here} /\ IsRows(passed')
    BY <1>1, <2>1, WhyAppend, AppendedRow
  <2>3. /\ ChosenOf(fed, "unsupported")' = ChosenOf(fed, "unsupported") \cup {Here}
        /\ ChosenOf(fed, "quantities")' = ChosenOf(fed, "quantities")
        /\ ChosenOf(fed, "service")' = ChosenOf(fed, "service")
    BY <1>3, <1>4, <1>6
  <2>4. QED
    BY <1>1, <2>1, <2>2, <2>3 DEF BagInv
<1>7. CASE Chosen(r) /\ r.kind = "quantities"
  <2>1. passed' = passed /\ held' = held /\ lines' = Append(lines, [row |-> Here, says |-> "quantities"])
    BY <1>2, <1>7 DEF BagMessage, Carry
  <2>2. RowsOf(lines') = RowsOf(lines) \cup {Here} /\ IsRows(lines')
    BY <1>1, <2>1, RowsAppend, AppendedRow
  <2>3. \A i \in DOMAIN lines' : lines'[i].says = "quantities"
    <3>1. /\ DOMAIN lines' = 1..(Len(lines) + 1) /\ DOMAIN lines = 1..Len(lines) /\ Len(lines) \in Nat
          /\ \A i \in DOMAIN lines : lines'[i] = lines[i]
          /\ lines'[Len(lines) + 1] = [row |-> Here, says |-> "quantities"]
      BY <1>1, <2>1, AppendedRow
    <3>2. \A i \in DOMAIN lines' : i \in DOMAIN lines \/ i = Len(lines) + 1
      BY <3>1
    <3>3. QED
      BY <1>1, <3>1, <3>2
  <2>4. /\ ChosenOf(fed, "quantities")' = ChosenOf(fed, "quantities") \cup {Here}
        /\ ChosenOf(fed, "unsupported")' = ChosenOf(fed, "unsupported")
        /\ ChosenOf(fed, "service")' = ChosenOf(fed, "service")
    BY <1>3, <1>4, <1>7
  <2>5. QED
    BY <1>1, <2>1, <2>2, <2>3, <2>4 DEF BagInv
<1>8. CASE Chosen(r) /\ r.kind = "service"
  <2>1. passed' = passed /\ lines' = lines /\ held' = Append(held, Here)
    BY <1>2, <1>8 DEF BagMessage, Hold, Keeping
  <2>2. ValuesOf(held') = ValuesOf(held) \cup {Here} /\ IsRows(held')
    BY <1>1, <2>1, ValuesAppend, AppendedRow
  <2>3. /\ ChosenOf(fed, "service")' = ChosenOf(fed, "service") \cup {Here}
        /\ ChosenOf(fed, "quantities")' = ChosenOf(fed, "quantities")
        /\ ChosenOf(fed, "unsupported")' = ChosenOf(fed, "unsupported")
    BY <1>3, <1>4, <1>8
  <2>4. QED
    BY <1>1, <2>1, <2>2, <2>3 DEF BagInv
<1>9. Chosen(r) => r.kind \in {"unsupported", "quantities", "service"}
  BY <1>2 DEF BagMessage
<1>10. QED
  BY <1>5, <1>6, <1>7, <1>8, <1>9

(* No verdict on a call is the word of the other rows. *)
LEMMA StatusIsOther == ASSUME NEW S PROVE TransactionStatus(S) # "quantities"
  BY DEF TransactionStatus

(* Every call has its row among the transactions, at its first event, and no other row is there. *)
LEMMA CallsAreAnswered ==
    ASSUME NEW n \in Nat, ValuesOf(held) \in SUBSET (1..n)
    PROVE  /\ IsRows(Transactions)
           /\ \A i \in DOMAIN Transactions :
                 Transactions[i].row \in ValuesOf(held) /\ Transactions[i].says # "quantities"
           /\ \A m \in ValuesOf(held) : \E i \in DOMAIN Transactions :
                 /\ fed[Transactions[i].row].topic = fed[m].topic
                 /\ fed[Transactions[i].row].call.id = fed[m].call.id
<1> DEFINE id(k) == <<fed[k].topic, fed[k].call.id>>
           events == {held[i] : i \in DOMAIN held}
           rows(k) == {m \in events : id(m) = id(k)}
           starts == {k \in events : \A m \in rows(k) : k <= m}
           firsts == Ascending(starts)
           T == [i \in DOMAIN firsts |-> [row |-> firsts[i], says |-> TransactionStatus(rows(firsts[i]))]]
<1>1. Transactions = T
  BY DEF Transactions
<1>2. events \in SUBSET (1..n) /\ events = ValuesOf(held)
  BY DEF ValuesOf
<1> HIDE DEF events
<1>3. starts \in SUBSET Nat /\ IsFiniteSet(starts)
  <2>1. IsFiniteSet(1..n) /\ 1..n \subseteq Nat
    BY FS_Interval
  <2>2. starts \in SUBSET (1..n)
    BY <1>2
  <2> HIDE DEF starts
  <2>3. QED
    BY <2>1, <2>2, FS_Subset
<1>4. \A m \in events : \E k \in starts : id(k) = id(m)
  <2> SUFFICES ASSUME NEW m \in events PROVE \E k \in starts : id(k) = id(m)
    OBVIOUS
  <2>1. rows(m) \in SUBSET (1..n) /\ rows(m) # {}
    BY <1>2
  <2>2. PICK k \in rows(m) : \A j \in rows(m) : k <= j
    <3> HIDE DEF rows
    <3>1. QED
      BY <2>1, LeastMember
  <2>3. k \in events /\ id(k) = id(m)
    BY <2>2
  <2>4. rows(k) = rows(m)
    BY <2>3
  <2>5. k \in starts
    <3> HIDE DEF rows, id
    <3>1. QED
      BY <2>2, <2>3, <2>4
  <2>6. QED
    BY <2>3, <2>5
<1>5. starts \subseteq events
  OBVIOUS
<1> HIDE DEF starts
<1>6. /\ IsRows(firsts) /\ \A j \in DOMAIN firsts : firsts[j] \in starts
      /\ \A e \in starts : \E j \in DOMAIN firsts : firsts[j] = e
  BY <1>3, AscendingRows
<1> HIDE DEF firsts
<1>7. IsRows(T)
  <2>1. PICK S : firsts \in Seq(S)
    BY <1>6 DEF IsRows
  <2>2. DOMAIN firsts = 1..Len(firsts) /\ Len(firsts) \in Nat
    BY <2>1, LenProperties
  <2>3. T \in [1..Len(firsts) -> {T[i] : i \in DOMAIN firsts}]
    BY <2>2
  <2> HIDE DEF T
  <2>4. T \in Seq({T[i] : i \in DOMAIN firsts})
    BY <2>2, <2>3, SeqDef
  <2>5. QED
    BY <2>4 DEF IsRows
<1> HIDE DEF rows
<1>8. \A i \in DOMAIN T : T[i].row \in events /\ T[i].says # "quantities"
  BY <1>5, <1>6, StatusIsOther
<1>9. \A m \in events : \E i \in DOMAIN T : id(T[i].row) = id(m)
  <2> SUFFICES ASSUME NEW m \in events PROVE \E i \in DOMAIN T : id(T[i].row) = id(m)
    OBVIOUS
  <2>1. PICK k \in starts : id(k) = id(m)
    BY <1>4
  <2>2. PICK j \in DOMAIN firsts : firsts[j] = k
    BY <1>6
  <2>3. j \in DOMAIN T /\ T[j].row = k
    BY <2>2
  <2>4. QED
    BY <2>1, <2>3
<1> HIDE DEF T
<1>10. QED
  BY <1>1, <1>2, <1>7, <1>8, <1>9

(* The rows of the calls follow the others, and are told apart from them. *)
LEMMA WindowEnds ==
    ASSUME SavedFile, BagInv, converter = "rosbag", BagEnd
    PROVE  BagInv' /\ WindowIsComplete'
<1>1. /\ IsRows(lines) /\ \A i \in DOMAIN lines : lines[i].says = "quantities"
      /\ RowsOf(lines) = ChosenOf(fed, "quantities")
      /\ RowsWhy(passed, "unsupported") = ChosenOf(fed, "unsupported")
      /\ ValuesOf(held) = ChosenOf(fed, "service")
  BY DEF BagInv, BagEnd, Ending
<1>2. /\ lines' = lines \o Transactions /\ verdict' = "converted"
      /\ fed' = fed /\ declared' = declared /\ passed' = passed /\ converter' = converter
  BY DEF BagEnd, Ending
<1>3. Len(fed) \in Nat /\ DOMAIN fed = 1..Len(fed)
  BY LenProperties DEF SavedFile
<1>4. ValuesOf(held) \in SUBSET (1..Len(fed))
  BY <1>1, <1>3 DEF ChosenOf
<1> DEFINE T == Transactions
           all == lines \o T
           id(n) == <<fed[n].topic, fed[n].call.id>>
<1>5. /\ IsRows(T)
      /\ \A i \in DOMAIN T : T[i].row \in ValuesOf(held) /\ T[i].says # "quantities"
      /\ \A m \in ValuesOf(held) : \E i \in DOMAIN T : id(T[i].row) = id(m)
  <2>1. /\ IsRows(Transactions)
        /\ \A i \in DOMAIN Transactions :
              Transactions[i].row \in ValuesOf(held) /\ Transactions[i].says # "quantities"
        /\ \A m \in ValuesOf(held) : \E i \in DOMAIN Transactions :
              /\ fed[Transactions[i].row].topic = fed[m].topic
              /\ fed[Transactions[i].row].call.id = fed[m].call.id
    BY <1>3, <1>4, CallsAreAnswered
  <2>2. QED
    BY <2>1
<1> HIDE DEF T
<1>6. /\ \A i \in DOMAIN lines : i \in DOMAIN all /\ all[i] = lines[i]
      /\ \A j \in DOMAIN T : Len(lines) + j \in DOMAIN all /\ all[Len(lines) + j] = T[j]
      /\ \A n \in DOMAIN all : n \in DOMAIN lines \/ \E j \in DOMAIN T : n = Len(lines) + j
  BY <1>1, <1>5, ConcatRows
<1> HIDE DEF all
<1>7. {all[i].row : i \in {k \in DOMAIN all : all[k].says = "quantities"}} = ChosenOf(fed, "quantities")
  <2>1. \A k \in DOMAIN all : all[k].says = "quantities" => k \in DOMAIN lines /\ all[k] = lines[k]
    BY <1>5, <1>6
  <2>2. \A k \in DOMAIN lines : k \in DOMAIN all /\ all[k].says = "quantities" /\ all[k] = lines[k]
    BY <1>1, <1>6
  <2>3. {all[i].row : i \in {k \in DOMAIN all : all[k].says = "quantities"}} = RowsOf(lines)
    BY <2>1, <2>2 DEF RowsOf
  <2>4. QED
    BY <1>1, <2>3
<1>8. {id(all[i].row) : i \in {k \in DOMAIN all : all[k].says # "quantities"}} =
      {id(n) : n \in ChosenOf(fed, "service")}
  <2> HIDE DEF id
  <2>1. \A k \in DOMAIN all : all[k].says # "quantities" => \E m \in ValuesOf(held) : id(all[k].row) = id(m)
    BY <1>1, <1>5, <1>6
  <2>2. \A m \in ValuesOf(held) : \E k \in DOMAIN all : all[k].says # "quantities" /\ id(all[k].row) = id(m)
    BY <1>5, <1>6
  <2>3. QED
    BY <1>1, <2>1, <2>2
<1> DEFINE chosen == {n \in DOMAIN fed : Chosen(fed[n])}
           of(kind) == {n \in chosen : fed[n].kind = kind}
<1>9. \A kind : ChosenOf(fed, kind) = of(kind)
  BY DEF ChosenOf
<1>10. /\ {all[i].row : i \in {k \in DOMAIN all : all[k].says = "quantities"}} = of("quantities")
       /\ {passed[i].row : i \in {k \in DOMAIN passed : passed[k].why = "unsupported"}} = of("unsupported")
       /\ {id(all[i].row) : i \in {k \in DOMAIN all : all[k].says # "quantities"}} =
          {id(n) : n \in of("service")}
  <2> HIDE DEF of, id
  <2>1. QED
    BY <1>1, <1>7, <1>8, <1>9 DEF RowsWhy
<1>11. lines' = all
  BY <1>2 DEF all, T
<1>12. WindowIsComplete'
  BY <1>2, <1>10, <1>11 DEF WindowIsComplete, Chosen
<1>13. BagInv'
  BY <1>2 DEF BagInv
<1>14. QED
  BY <1>12, <1>13

(* A window of a bag has all its messages, however the reader filters. *)
LEMMA WindowHolds == ConverterSpec => []WindowIsComplete
<1> DEFINE J == BagInv /\ WindowIsComplete
<1>1. ConverterInit => J
  <2>1. IsRows(<<>>) /\ DOMAIN <<>> = {}
    BY FewRows
  <2>2. RowsOf(<<>>) = {} /\ RowsWhy(<<>>, "unsupported") = {} /\ ValuesOf(<<>>) = {}
    BY <2>1 DEF RowsOf, RowsWhy, ValuesOf
  <2>3. ConverterInit => fed = <<>> /\ lines = <<>> /\ passed = <<>> /\ verdict = "reading"
    BY DEF ConverterInit, Starting
  <2>4. ConverterInit /\ converter = "rosbag" => held = <<>>
    BY DEF ConverterInit, Starting, ConverterStart
  <2>5. fed = <<>> => \A kind : ChosenOf(fed, kind) = {}
    BY <2>1 DEF ChosenOf
  <2>6. ConverterInit => BagInv
    BY <2>1, <2>2, <2>3, <2>4, <2>5 DEF BagInv
  <2>7. ConverterInit => WindowIsComplete
    BY <2>3 DEF WindowIsComplete
  <2>8. QED
    BY <2>6, <2>7
<1>2. SavedFile /\ J /\ [ConverterNext]_linesVars => J'
  <2> SUFFICES ASSUME SavedFile, J, [ConverterNext]_linesVars, converter = "rosbag"
               PROVE  J'
    BY SameScript DEF BagInv, WindowIsComplete
  <2>1. ASSUME NEW r \in Records[converter], Taking(r), ConverterStep(r) PROVE J'
    <3>1. BagMessage(r)
      BY <2>1 DEF ConverterStep, HostsStep, RoversStep, FlightStep, MissionsStep, LinksStep, FleetsStep,
         ServersStep, BagsStep, PacketsStep
    <3>2. ReadOne(r)
      BY <2>1, RecordRead
    <3>3. BagInv'
      BY <2>1, <3>1, <3>2, BagRecordInv
    <3>4. WindowIsComplete'
      BY <3>2 DEF WindowIsComplete, ReadOne
    <3>5. QED
      BY <3>3, <3>4
  <2>2. CASE ConverterEnd
    <3>1. BagEnd
      BY <2>2 DEF ConverterEnd
    <3>2. QED
      BY <3>1, WindowEnds
  <2>3. CASE Refuse
    <3>1. UNCHANGED <<converter, declared, fed, lines, passed, held>> /\ verdict = "reading" /\ verdict' = "refused"
      BY <2>3 DEF Refuse
    <3>2. BagInv'
      BY <3>1 DEF BagInv, ChosenOf, Chosen
    <3>3. WindowIsComplete'
      BY <3>1 DEF WindowIsComplete
    <3>4. QED
      BY <3>2, <3>3
  <2>4. CASE UNCHANGED linesVars
    <3>1. UNCHANGED <<converter, declared, fed, lines, passed, held, verdict>>
      BY <2>4 DEF linesVars
    <3>2. BagInv'
      BY <3>1 DEF BagInv, ChosenOf, Chosen
    <3>3. WindowIsComplete'
      BY <3>1 DEF WindowIsComplete
    <3>4. QED
      BY <3>2, <3>3
  <2>5. QED
    BY <2>1, <2>2, <2>3, <2>4 DEF ConverterNext
<1>3. QED
  <2> HIDE DEF J
  <2>1. ConverterSpec => []J
    BY <1>1, <1>2, FileIsSaved, PTL DEF ConverterSpec
  <2>2. J => WindowIsComplete
    BY DEF J
  <2>3. QED
    BY <2>1, <2>2, PTL

-----------------------------------------------------------------------------
(* The rows of a data array. *)

(* The sizes of the first groups, the native rows, and those in the output. *)
Sizes(f, g) == [n \in 1..g |-> Len(f[n].ids)]

NativesOf(f) ==
    UNION {{<<TotalOf(Sizes(f, g - 1)) + k - 1, f[g].ids[k]>> : k \in DOMAIN f[g].ids} :
              g \in {g \in DOMAIN f : f[g].here}}

InArray(n) == declared = Absent \/ (declared.start <= n /\ n < declared.stop)

PairsOf(s) == {<<s[i].native, s[i].id>> : i \in DOMAIN s}

ArrayRuns == converter = "sensorthings dataarray"

ArrayInv ==
    ArrayRuns =>
        /\ IsRows(lines)
        /\ held = TotalOf(Sizes(fed, Len(fed)))
        /\ \A i \in DOMAIN lines : lines[i].native \in Nat /\ lines[i].native < held
        /\ PairsOf(lines) = {p \in NativesOf(fed) : InArray(p[1])}
        /\ \A i, j \in DOMAIN lines : i < j => lines[i].native < lines[j].native

(* The next group's rows stand behind all native rows before it. *)
LEMMA GroupIsNext ==
    ASSUME ArrayRuns, NEW r, ReadOne(r)
    PROVE  /\ IsList(r.ids)
           /\ TotalOf(Sizes(fed, Len(fed))) \in Nat
           /\ TotalOf(Sizes(fed', Len(fed'))) = TotalOf(Sizes(fed, Len(fed))) + Len(r.ids)
           /\ NativesOf(fed') = NativesOf(fed) \cup
                 (IF r.here THEN {<<TotalOf(Sizes(fed, Len(fed))) + k - 1, r.ids[k]>> : k \in DOMAIN r.ids}
                  ELSE {})
<1>1. /\ Len(fed) \in Nat /\ Here = Len(fed) + 1 /\ Len(fed') = Here
      /\ DOMAIN fed = 1..Len(fed) /\ DOMAIN fed' = 1..Here
      /\ DOMAIN fed' = DOMAIN fed \cup {Here} /\ Here \notin DOMAIN fed
      /\ \A i \in DOMAIN fed : fed'[i] = fed[i]
      /\ fed'[Here] = r /\ r \in Records[converter] /\ fed \in Seq(Records[converter])
  BY DEF ReadOne, SavedFile
<1>2. \A x \in Records[converter] : IsList(x.ids)
  BY ArrayAssumption DEF ArrayRuns
<1>3. \A i \in DOMAIN fed : IsList(fed[i].ids)
  <2>1. \A i \in DOMAIN fed : fed[i] \in Records[converter]
    BY <1>1
  <2>2. QED
    BY <1>2, <2>1
<1>4. IsList(r.ids)
  BY <1>1, <1>2
<1>5. Sizes(fed, Len(fed)) \in [1..Len(fed) -> Nat] /\ Sizes(fed', Here) \in [1..(Len(fed) + 1) -> Nat]
  <2>1. \A i \in 1..Here : Len(fed'[i].ids) \in Nat
    BY <1>1, <1>3, <1>4 DEF IsList
  <2>2. QED
    BY <1>1, <1>3, <2>1 DEF Sizes, IsList
<1>6. /\ \A n \in 1..Len(fed) : Sizes(fed', Here)[n] = Sizes(fed, Len(fed))[n]
      /\ Sizes(fed', Here)[Len(fed) + 1] = Len(r.ids)
  BY <1>1 DEF Sizes
<1>7. /\ TotalOf(Sizes(fed, Len(fed))) \in Nat
      /\ TotalOf(Sizes(fed', Here)) = TotalOf(Sizes(fed, Len(fed))) + Len(r.ids)
  <2> DEFINE s == Sizes(fed, Len(fed))
             t == Sizes(fed', Here)
             k == Len(fed)
  <2>1. k \in Nat /\ s \in [1..k -> Nat] /\ t \in [1..(k + 1) -> Nat] /\ \A n \in 1..k : t[n] = s[n]
    BY <1>1, <1>5, <1>6
  <2>2. t[k + 1] = Len(r.ids)
    BY <1>6
  <2> HIDE DEF s, t, k
  <2>3. TotalOf(s) \in Nat /\ TotalOf(t) = TotalOf(s) + t[k + 1]
    BY <2>1, TotalStep
  <2>4. TotalOf(s) \in Nat /\ TotalOf(t) = TotalOf(s) + Len(r.ids)
    BY <2>2, <2>3
  <2>5. QED
    BY <2>4 DEF s, t
<1>8. \A g \in DOMAIN fed' : Sizes(fed', g - 1) = Sizes(fed, g - 1)
  <2> SUFFICES ASSUME NEW g \in DOMAIN fed' PROVE Sizes(fed', g - 1) = Sizes(fed, g - 1)
    OBVIOUS
  <2>1. g \in 1..(Len(fed) + 1) /\ Len(fed) \in Nat
    BY <1>1
  <2>2. \A n \in 1..(g - 1) : n \in 1..Len(fed)
    BY <2>1
  <2>3. \A n \in 1..(g - 1) : fed'[n] = fed[n]
    BY <1>1, <2>2
  <2>4. QED
    BY <2>3 DEF Sizes
<1> DEFINE Of(f, g) == {<<TotalOf(Sizes(f, g - 1)) + k - 1, f[g].ids[k]>> : k \in DOMAIN f[g].ids}
<1>9. \A g \in DOMAIN fed : Of(fed', g) = Of(fed, g)
  BY <1>1, <1>8
<1>10. Of(fed', Here) = {<<TotalOf(Sizes(fed, Len(fed))) + k - 1, r.ids[k]>> : k \in DOMAIN r.ids}
  <2>1. Len(fed) \in Nat /\ Here = Len(fed) + 1
    BY <1>1
  <2>2. Here - 1 = Len(fed)
    BY <2>1
  <2>3. Sizes(fed', Here - 1) = Sizes(fed, Here - 1)
    BY <1>1, <1>8
  <2>4. QED
    BY <1>1, <2>2, <2>3
<1>11. \A f : NativesOf(f) = UNION {Of(f, g) : g \in {g \in DOMAIN f : f[g].here}}
  BY DEF NativesOf
<1> HIDE DEF Of
<1>12. NativesOf(fed') = NativesOf(fed) \cup (IF r.here THEN Of(fed', Here) ELSE {})
  <2>1. \A g \in DOMAIN fed : fed'[g].here <=> fed[g].here
    BY <1>1
  <2>2. \A p : p \in NativesOf(fed') <=> \E g \in DOMAIN fed' : fed'[g].here /\ p \in Of(fed', g)
    BY <1>11
  <2>3. \A p : p \in NativesOf(fed) <=> \E g \in DOMAIN fed : fed[g].here /\ p \in Of(fed, g)
    BY <1>11
  <2>4. \A p : p \in NativesOf(fed') <=> p \in NativesOf(fed) \/ (r.here /\ p \in Of(fed', Here))
    BY <1>1, <1>9, <2>1, <2>2, <2>3
  <2>5. QED
    BY <2>4
<1>13. QED
  BY <1>1, <1>4, <1>7, <1>10, <1>12

(* A row of the group is in the window exactly when it lies between the ends. *)
LEMMA ClampIsWindow ==
    ASSUME NEW start \in Nat, NEW stop \in Nat, NEW before \in Nat, NEW size \in Nat, NEW k \in 1..size
    PROVE  /\ Clamp(start - before, size) \in 0..size /\ Clamp(stop - before, size) \in 0..size
           /\ (start <= before + k - 1 /\ before + k - 1 < stop) <=>
                 (k \in (Clamp(start - before, size) + 1)..Clamp(stop - before, size))
  BY DEF Clamp

(* A group that is not selected only moves the numbers on. *)
LEMMA ArrayRecordInv ==
    ASSUME ArrayInv, ArrayRuns, NEW r, ReadOne(r), ArrayGroup(r)
    PROVE  ArrayInv'
<1> DEFINE size == Len(r.ids)
           new == {<<held + k - 1, r.ids[k]>> : k \in DOMAIN r.ids}
<1>1. /\ IsRows(lines) /\ held = TotalOf(Sizes(fed, Len(fed)))
      /\ \A i \in DOMAIN lines : lines[i].native \in Nat /\ lines[i].native < held
      /\ PairsOf(lines) = {p \in NativesOf(fed) : InArray(p[1])}
      /\ \A i, j \in DOMAIN lines : i < j => lines[i].native < lines[j].native
  BY DEF ArrayInv
<1>0. /\ IsList(r.ids) /\ TotalOf(Sizes(fed, Len(fed))) \in Nat
      /\ TotalOf(Sizes(fed', Len(fed'))) = TotalOf(Sizes(fed, Len(fed))) + Len(r.ids)
      /\ NativesOf(fed') = NativesOf(fed) \cup
            (IF r.here THEN {<<TotalOf(Sizes(fed, Len(fed))) + k - 1, r.ids[k]>> : k \in DOMAIN r.ids}
             ELSE {})
  BY GroupIsNext
<1>2. size \in Nat /\ DOMAIN r.ids = 1..size /\ held \in Nat /\ held' = held + size
  BY <1>0, <1>1 DEF IsList, ArrayGroup, Hold
<1>s. /\ held' = TotalOf(Sizes(fed', Len(fed')))
      /\ NativesOf(fed') = NativesOf(fed) \cup (IF r.here THEN new ELSE {})
  BY <1>0, <1>1, <1>2
<1>3. declared' = declared /\ converter' = converter
  BY DEF ReadOne
<1>4. CASE ~r.here
  <2>1. lines' = lines
    BY <1>4 DEF ArrayGroup, PassOver
  <2>2. NativesOf(fed') = NativesOf(fed)
    BY <1>s, <1>4
  <2>3. \A i \in DOMAIN lines : lines[i].native < held'
    <3> SUFFICES ASSUME NEW i \in DOMAIN lines PROVE lines[i].native < held'
      OBVIOUS
    <3>1. lines[i].native \in Nat /\ lines[i].native < held
      BY <1>1
    <3> HIDE DEF size
    <3>2. QED
      BY <1>2, <3>1
  <2>4. QED
    BY <1>1, <1>s, <1>3, <2>1, <2>2, <2>3 DEF ArrayInv, ArrayRuns, InArray
<1>5. CASE r.here
  <2> DEFINE left == GroupWindow(r)[1]
             right == GroupWindow(r)[2]
             added == [i \in 1..(right - left) |->
                          [row |-> Here, native |-> held + left + i - 1, id |-> r.ids[left + i],
                           again |-> r.ids[left + i] \in keys]]
             all == lines \o added
  <2>1. /\ lines' = all /\ Cardinality({r.ids[n] : n \in (left + 1)..right}) = right - left
    BY <1>5 DEF ArrayGroup
  <2>2. declared \in Declared["sensorthings dataarray"]
    BY DEF ReadOne, SavedFile, ArrayRuns
  <2>3. declared = Absent \/ (declared.start \in Nat /\ declared.stop \in Nat)
    BY <2>2, ArrayAssumption
  <2>4. left \in 0..size /\ right \in 0..size
        /\ \A k \in 1..size : InArray(held + k - 1) <=> k \in (left + 1)..right
    <3> DEFINE s == size
    <3>1. CASE declared = Absent
      <4>1. left = 0 /\ right = size
        BY <3>1 DEF GroupWindow
      <4> HIDE DEF left, right
      <4>2. QED
        BY <1>2, <3>1, <4>1 DEF InArray
    <3>2. CASE declared # Absent
      <4>1. left = Clamp(declared.start - held, size) /\ right = Clamp(declared.stop - held, size)
        BY <3>2 DEF GroupWindow
      <4> HIDE DEF left, right
      <4>2. left \in 0..size /\ right \in 0..size
        BY <1>2, <2>3, <3>2, <4>1 DEF Clamp
      <4>3. \A k \in 1..size : InArray(held + k - 1) <=> k \in (left + 1)..right
        <5> SUFFICES ASSUME NEW k \in 1..size PROVE InArray(held + k - 1) <=> k \in (left + 1)..right
          OBVIOUS
        <5>1. (declared.start <= held + k - 1 /\ held + k - 1 < declared.stop) <=> k \in (left + 1)..right
          <6> HIDE DEF size
          <6>1. QED
            BY <1>2, <2>3, <3>2, <4>1, ClampIsWindow
        <5>2. QED
          BY <3>2, <5>1 DEF InArray
      <4>4. QED
        BY <4>2, <4>3
    <3>3. QED
      BY <3>1, <3>2
  <2>5. left \in Nat /\ right \in Nat /\ right - left \in Nat
    <3>1. IsFiniteSet({r.ids[n] : n \in (left + 1)..right})
      <4> DEFINE f == [n \in (left + 1)..right |-> r.ids[n]]
                 T == {r.ids[n] : n \in (left + 1)..right}
      <4>1. left \in Nat /\ right \in Nat
        <5> HIDE DEF left, right, size
        <5>1. QED
          BY <1>2, <2>4
      <4>2. IsFiniteSet((left + 1)..right)
        <5> HIDE DEF left, right
        <5>1. QED
          BY <4>1, FS_Interval
      <4>3. f \in Surjection((left + 1)..right, T)
        <5> HIDE DEF left, right
        <5>1. QED
          BY DEF Surjection
      <4> HIDE DEF f, T, left, right
      <4>4. IsFiniteSet(T)
        BY <4>2, <4>3, FS_Surjection
      <4>5. QED
        BY <4>4 DEF T
    <3> HIDE DEF left, right, size
    <3>2. QED
      BY <1>2, <2>1, <2>4, <3>1, FS_CardinalityType
  <2>6. IsRows(added) /\ DOMAIN added = 1..(right - left)
    <3> DEFINE S == {added[i] : i \in 1..(right - left)}
    <3>1. added \in [1..(right - left) -> S]
      BY <2>5
    <3> HIDE DEF added, left, right, S
    <3>2. added \in Seq(S)
      BY <2>5, <3>1, SeqDef
    <3>3. QED
      BY <3>1, <3>2 DEF IsRows
  <2>7. \A i \in DOMAIN added : added[i].native = held + left + i - 1 /\ added[i].id = r.ids[left + i]
    <3> HIDE DEF left, right
    <3>1. QED
      OBVIOUS
  <2> HIDE DEF added, left, right, size
  <2>8. /\ IsRows(all) /\ Len(lines) \in Nat /\ DOMAIN lines = 1..Len(lines)
        /\ \A i \in DOMAIN lines : i \in DOMAIN all /\ all[i] = lines[i]
        /\ \A j \in DOMAIN added : Len(lines) + j \in DOMAIN all /\ all[Len(lines) + j] = added[j]
        /\ \A n \in DOMAIN all : n \in DOMAIN lines \/ \E j \in DOMAIN added : n = Len(lines) + j
    BY <1>1, <2>6, ConcatRows
  <2> HIDE DEF all
  <2>9. PairsOf(added) = {p \in new : InArray(p[1])}
    <3>1. ASSUME NEW i \in DOMAIN added
          PROVE  /\ left + i \in DOMAIN r.ids /\ left + i \in (left + 1)..right
                 /\ added[i].native = held + (left + i) - 1 /\ added[i].id = r.ids[left + i]
      BY <1>2, <2>4, <2>5, <2>6, <2>7
    <3>2. ASSUME NEW k \in DOMAIN r.ids, k \in (left + 1)..right
          PROVE  k - left \in DOMAIN added /\ k = left + (k - left)
      <4>1. DOMAIN added = 1..(right - left) /\ left \in Nat /\ right \in Nat
        BY <2>5, <2>6
      <4>2. k \in (left + 1)..right
        BY <3>2
      <4>3. k - left \in 1..(right - left) /\ k = left + (k - left)
        BY <4>1, <4>2
      <4>4. QED
        BY <4>1, <4>3
    <3>3. \A k \in DOMAIN r.ids : InArray(held + k - 1) <=> k \in (left + 1)..right
      BY <1>2, <2>4
    <3>4. ASSUME NEW i \in DOMAIN added PROVE <<added[i].native, added[i].id>> \in {p \in new : InArray(p[1])}
      BY <3>1, <3>3
    <3>5. ASSUME NEW k \in DOMAIN r.ids, InArray(held + k - 1)
          PROVE  <<held + k - 1, r.ids[k]>> \in PairsOf(added)
      <4>1. k - left \in DOMAIN added /\ k = left + (k - left)
        BY <3>2, <3>3, <3>5
      <4>2. added[k - left].native = held + k - 1 /\ added[k - left].id = r.ids[k]
        BY <3>1, <4>1
      <4>3. QED
        BY <4>1, <4>2 DEF PairsOf
    <3>6. QED
      BY <3>4, <3>5 DEF PairsOf
  <2>10. PairsOf(all) = PairsOf(lines) \cup PairsOf(added)
    <3>1. \A i \in DOMAIN lines : <<lines[i].native, lines[i].id>> \in PairsOf(all)
      BY <2>8 DEF PairsOf
    <3>2. \A j \in DOMAIN added : <<added[j].native, added[j].id>> \in PairsOf(all)
      BY <2>8 DEF PairsOf
    <3>3. \A n \in DOMAIN all : <<all[n].native, all[n].id>> \in PairsOf(lines) \cup PairsOf(added)
      BY <2>8 DEF PairsOf
    <3>4. QED
      BY <3>1, <3>2, <3>3 DEF PairsOf
  <2>11. PairsOf(all) = {p \in NativesOf(fed') : InArray(p[1])}
    BY <1>1, <1>s, <1>5, <2>9, <2>10
  <2>12. \A j \in DOMAIN added : added[j].native \in Nat /\ held <= added[j].native /\ added[j].native < held'
    BY <1>2, <2>4, <2>5, <2>6, <2>7
  <2>13. \A n \in DOMAIN all : all[n].native \in Nat /\ all[n].native < held'
    <3>1. \A i \in DOMAIN lines : lines[i].native < held'
      BY <1>1, <1>2
    <3>2. QED
      BY <1>1, <2>8, <2>12, <3>1
  <2>14. ASSUME NEW m \in DOMAIN all, NEW n \in DOMAIN all, m < n PROVE all[m].native < all[n].native
    <3>1. CASE n \in DOMAIN lines
      <4>1. m \in DOMAIN lines
        BY <2>6, <2>8, <2>14, <3>1
      <4>2. QED
        BY <1>1, <2>8, <2>14, <3>1, <4>1
    <3>2. CASE \E j \in DOMAIN added : n = Len(lines) + j
      <4>1. PICK j \in DOMAIN added : n = Len(lines) + j
        BY <3>2
      <4>2. CASE m \in DOMAIN lines
        <5>1. all[m].native \in Nat /\ all[m].native < held
          BY <1>1, <2>8, <4>2
        <5>2. all[n].native \in Nat /\ held <= all[n].native
          BY <2>8, <2>12, <4>1
        <5>3. QED
          BY <1>2, <5>1, <5>2
      <4>3. CASE \E i \in DOMAIN added : m = Len(lines) + i
        <5>1. PICK i \in DOMAIN added : m = Len(lines) + i
          BY <4>3
        <5>2. i \in Nat /\ j \in Nat /\ i < j
          BY <2>6, <2>8, <2>14, <4>1, <5>1
        <5>3. all[m].native = held + left + i - 1 /\ all[n].native = held + left + j - 1
          BY <2>7, <2>8, <4>1, <5>1
        <5>4. QED
          BY <1>2, <2>5, <5>2, <5>3
      <4>4. QED
        BY <2>8, <4>2, <4>3
    <3>3. QED
      BY <2>8, <3>1, <3>2
  <2>15. QED
    BY <1>s, <1>3, <2>1, <2>8, <2>11, <2>13, <2>14 DEF ArrayInv, ArrayRuns, InArray
<1>6. QED
  BY <1>4, <1>5

(* The numbers go on over the groups, whichever of them are selected. *)
LEMMA ArrayHolds == ConverterSpec => []ArrayInv
<1>1. ConverterInit => ArrayInv
  <2>1. IsRows(<<>>) /\ DOMAIN <<>> = {} /\ Len(<<>>) = 0
    BY FewRows
  <2>2. ConverterInit => fed = <<>> /\ lines = <<>>
    BY DEF ConverterInit, Starting
  <2>3. ConverterInit /\ ArrayRuns => held = 0
    BY DEF ConverterInit, Starting, ConverterStart, ArrayRuns
  <2>4. DOMAIN Sizes(<<>>, 0) = {}
    BY DEF Sizes
  <2>5. TotalOf(Sizes(<<>>, 0)) = 0
    BY <2>4, TotalOfNone
  <2>6. PairsOf(<<>>) = {} /\ NativesOf(<<>>) = {}
    BY <2>1 DEF PairsOf, NativesOf
  <2>7. QED
    BY <2>1, <2>2, <2>3, <2>5, <2>6 DEF ArrayInv
<1>2. SavedFile /\ ArrayInv /\ [ConverterNext]_linesVars => ArrayInv'
  <2> SUFFICES ASSUME SavedFile, ArrayInv, [ConverterNext]_linesVars, ArrayRuns
               PROVE  ArrayInv'
    BY SameScript DEF ArrayInv, ArrayRuns
  <2>1. ASSUME NEW r \in Records[converter], Taking(r), ConverterStep(r) PROVE ArrayInv'
    <3>1. ArrayGroup(r)
      BY <2>1 DEF ConverterStep, HostsStep, RoversStep, FlightStep, MissionsStep, LinksStep, FleetsStep,
         ServersStep, BagsStep, PacketsStep, ArrayRuns
    <3>2. QED
      BY <2>1, <3>1, RecordRead, ArrayRecordInv
  <2>2. CASE ConverterEnd \/ Refuse \/ UNCHANGED linesVars
    <3>1. UNCHANGED <<converter, declared, fed, lines, held>>
      BY <2>2 DEF ConverterEnd, ArrayEnd, EndCarried, Ending, Keeping, Refuse, linesVars, ArrayRuns
    <3>2. QED
      BY <3>1 DEF ArrayInv, ArrayRuns, InArray
  <2>3. QED
    BY <2>1, <2>2 DEF ConverterNext
<1>3. QED
  BY <1>1, <1>2, FileIsSaved, PTL DEF ConverterSpec

(* A selected window of a bag, of a data array or of a log has all its records *)
(* and no other, whatever the files are and however long.                      *)
THEOREM SelectionsAreExact == ConverterSpec => []WindowsAreExact
<1>1. CutInv => CutIsExact
  BY DEF CutInv, CutIsExact, RowsOf, InWindow
<1>2. ArrayInv => ArrayWindowIsExact
  <2> SUFFICES ASSUME ArrayInv, ArrayRuns PROVE ArrayWindowIsExact
    BY DEF ArrayWindowIsExact, ArrayRuns
  <2>1. /\ PairsOf(lines) = {p \in NativesOf(fed) : InArray(p[1])}
        /\ \A i, j \in DOMAIN lines : i < j => lines[i].native < lines[j].native
    BY DEF ArrayInv
  <2>2. QED
    BY <2>1 DEF ArrayWindowIsExact, PairsOf, NativesOf, InArray, Sizes
<1>3. QED
  BY <1>1, <1>2, CutHolds, ArrayHolds, WindowHolds, PTL DEF WindowsAreExact

-----------------------------------------------------------------------------
(* The runs of a map. *)

MapRuns == converter = "occupancy map"

(* Runs that cover the cells from the first on, one behind the other. *)
Covers(s, first, next) ==
    /\ IsRows(s) /\ first \in Int /\ next \in Int /\ first <= next
    /\ \A i \in DOMAIN s : /\ s[i].start \in Int /\ s[i].length \in Int /\ s[i].length > 0
                           /\ first <= s[i].start /\ s[i].start + s[i].length <= next
                           /\ \A c \in s[i].start..(s[i].start + s[i].length - 1) : s[i].value = CellValue(c)
                           /\ i > 1 => s[i].value # s[i - 1].value
    /\ \A i, j \in DOMAIN s : i < j => s[i].start + s[i].length <= s[j].start
    /\ \A c \in first..(next - 1) : \E i \in DOMAIN s : s[i].start <= c /\ c < s[i].start + s[i].length

(* A run that is going on: behind those written, of one value, and not theirs. *)
Goes(h, s, next) ==
    /\ h.start = next /\ h.length \in Int /\ h.length > 0
    /\ \A c \in h.start..(h.start + h.length - 1) : h.value = CellValue(c)
    /\ \A i \in DOMAIN s : i = Len(s) => s[i].value # h.value

(* A run that ends is written behind the others. *)
LEMMA CoversOneMore ==
    ASSUME NEW s, NEW first, NEW m, NEW h, Covers(s, first, m), Goes(h, s, m)
    PROVE  Covers(Append(s, h), first, m + h.length)
<1> DEFINE t == Append(s, h)
           k == Len(s)
           hs == h.start
           hl == h.length
<1>1. /\ IsRows(t) /\ k \in Nat /\ DOMAIN s = 1..k /\ DOMAIN t = 1..(k + 1)
      /\ \A i \in DOMAIN s : t[i] = s[i]
      /\ t[k + 1] = h
  BY AppendedRow DEF Covers
<1> HIDE DEF t, k
<1>2. /\ first \in Int /\ m \in Int /\ first <= m /\ hs = m /\ hl \in Int /\ hl > 0
      /\ \A c \in hs..(hs + hl - 1) : h.value = CellValue(c)
  BY DEF Covers, Goes
<1>3. \A i \in DOMAIN s : /\ s[i].start \in Int /\ s[i].length \in Int /\ s[i].length > 0
                          /\ first <= s[i].start /\ s[i].start + s[i].length <= m
                          /\ \A c \in s[i].start..(s[i].start + s[i].length - 1) : s[i].value = CellValue(c)
                          /\ i > 1 => s[i].value # s[i - 1].value
  BY DEF Covers
<1>4. \A i \in DOMAIN t : i \in DOMAIN s \/ i = k + 1
  BY <1>1
<1> HIDE DEF hs, hl
<1>5. ASSUME NEW i \in DOMAIN t
      PROVE  /\ t[i].start \in Int /\ t[i].length \in Int /\ t[i].length > 0
             /\ first <= t[i].start /\ t[i].start + t[i].length <= m + hl
             /\ \A c \in t[i].start..(t[i].start + t[i].length - 1) : t[i].value = CellValue(c)
             /\ i > 1 => t[i].value # t[i - 1].value
  <2>1. CASE i \in DOMAIN s
    <3>1. t[i] = s[i] /\ (i > 1 => i - 1 \in DOMAIN s)
      BY <1>1, <2>1
    <3>2. i > 1 => t[i - 1] = s[i - 1]
      BY <1>1, <3>1
    <3>3. s[i].start + s[i].length <= m + hl
      BY <1>2, <1>3, <2>1
    <3>4. QED
      BY <1>3, <2>1, <3>1, <3>2, <3>3
  <2>2. CASE i = k + 1
    <3>1. t[i] = h /\ (i > 1 => i - 1 \in DOMAIN s /\ i - 1 = k)
      BY <1>1, <2>2
    <3>2. i > 1 => t[i - 1] = s[k] /\ s[k].value # h.value
      <4>1. \A j \in DOMAIN s : j = k => s[j].value # h.value
        BY DEF Goes, k
      <4>2. QED
        BY <1>1, <3>1, <4>1
    <3>3. h.start = hs /\ h.length = hl
      BY DEF hs, hl
    <3>4. hs \in Int /\ first <= hs /\ hs + hl <= m + hl
      BY <1>2
    <3>5. QED
      BY <1>2, <3>1, <3>2, <3>3, <3>4
  <2>3. QED
    BY <1>4, <1>5, <2>1, <2>2
<1>6. ASSUME NEW i \in DOMAIN t, NEW j \in DOMAIN t, i < j PROVE t[i].start + t[i].length <= t[j].start
  <2>1. i \in DOMAIN s
    BY <1>1, <1>6
  <2>2. CASE j \in DOMAIN s
    <3>1. s[i].start + s[i].length <= s[j].start
      BY <1>6, <2>1, <2>2 DEF Covers
    <3>2. QED
      BY <1>1, <2>1, <2>2, <3>1
  <2>3. CASE j = k + 1
    BY <1>1, <1>2, <1>3, <2>1, <2>3 DEF hs
  <2>4. QED
    BY <1>4, <2>2, <2>3
<1>7. ASSUME NEW c \in first..(m + hl - 1) PROVE \E i \in DOMAIN t : t[i].start <= c /\ c < t[i].start + t[i].length
  <2>1. CASE c < m
    <3>1. c \in first..(m - 1)
      BY <1>2, <2>1
    <3>2. PICK i \in DOMAIN s : s[i].start <= c /\ c < s[i].start + s[i].length
      BY <3>1 DEF Covers
    <3>3. i \in DOMAIN t /\ t[i] = s[i]
      BY <1>1, <3>2
    <3>4. QED
      BY <3>2, <3>3
  <2>2. CASE ~(c < m)
    <3>1. k + 1 \in DOMAIN t /\ t[k + 1] = h
      BY <1>1
    <3>2. hs <= c /\ c < hs + hl
      BY <1>2, <2>2
    <3>3. QED
      BY <3>1, <3>2 DEF hs, hl
  <2>3. QED
    BY <2>1, <2>2
<1>8. m + hl \in Int /\ first <= m + hl
  BY <1>2
<1>9. Covers(t, first, m + hl)
  BY <1>1, <1>2, <1>5, <1>6, <1>7, <1>8 DEF Covers
<1>10. QED
  BY <1>9 DEF t, hl

(* Every cell is then in one run, and only in one. *)
LEMMA CoveredOnce ==
    ASSUME NEW s, NEW first, NEW next, Covers(s, first, next), NEW c \in first..(next - 1)
    PROVE  Cardinality({i \in DOMAIN s : /\ s[i].start <= c /\ c < s[i].start + s[i].length
                                         /\ s[i].value = CellValue(c)}) = 1
<1> DEFINE R == {i \in DOMAIN s : /\ s[i].start <= c /\ c < s[i].start + s[i].length
                                  /\ s[i].value = CellValue(c)}
<1>0. first \in Int /\ next \in Int
  BY DEF Covers
<1>1. PICK i \in DOMAIN s : s[i].start <= c /\ c < s[i].start + s[i].length
  BY DEF Covers
<1>2. c \in Int
  BY <1>0
<1>3. \A j \in DOMAIN s : s[j].start \in Int /\ s[j].length \in Int
  BY DEF Covers
<1>4. s[i].value = CellValue(c)
  <2>1. c \in s[i].start..(s[i].start + s[i].length - 1)
    BY <1>1, <1>2, <1>3
  <2>2. QED
    BY <2>1 DEF Covers
<1>5. \A j \in R : j = i
  <2> SUFFICES ASSUME NEW j \in DOMAIN s, s[j].start <= c, c < s[j].start + s[j].length PROVE j = i
    OBVIOUS
  <2>1. i \in Int /\ j \in Int
    <3>1. PICK S : s \in Seq(S)
      BY DEF Covers, IsRows
    <3>2. DOMAIN s = 1..Len(s) /\ Len(s) \in Nat
      BY <3>1, LenProperties
    <3>3. QED
      BY <3>2
  <2>2. ~(i < j)
    <3>1. i < j => s[i].start + s[i].length <= s[j].start
      BY DEF Covers
    <3>2. QED
      BY <1>1, <1>2, <1>3, <3>1
  <2>3. ~(j < i)
    <3>1. j < i => s[j].start + s[j].length <= s[i].start
      BY DEF Covers
    <3>2. QED
      BY <1>1, <1>2, <1>3, <3>1
  <2>4. QED
    BY <2>1, <2>2, <2>3
<1>6. R = {i}
  BY <1>1, <1>4, <1>5
<1> HIDE DEF R
<1>7. Cardinality(R) = 1
  BY <1>6, FS_Singleton
<1>8. QED
  BY <1>7 DEF R

(* What the map's property says of the lines of a finished output. *)
WholeMap(s) ==
    /\ \A index \in declared.start..(declared.stop - 1) :
          Cardinality({i \in DOMAIN s : /\ s[i].start <= index /\ index < s[i].start + s[i].length
                                        /\ s[i].value = CellValue(index)}) = 1
    /\ \A i \in DOMAIN s : i > 1 => s[i].value # s[i - 1].value

(* What the runs of a map say, before and after a step. *)
LEMMA MapIsWhole ==
    /\ RunsCoverTheMap <=> (MapRuns /\ verdict = "converted" => WholeMap(lines))
    /\ RunsCoverTheMap' <=> (MapRuns' /\ verdict' = "converted" => WholeMap(lines)')
  BY DEF RunsCoverTheMap, MapRuns, WholeMap

MapInv ==
    MapRuns /\ verdict # "converted" =>
        \/ fed = <<>> /\ lines = <<>> /\ held = <<>>
        \/ \E h : /\ held = <<h>>
                  /\ Covers(lines, declared.start, h.start)
                  /\ Goes(h, lines, h.start)
                  /\ h.start + h.length = declared.start + Len(fed)

(* Nothing is covered by nothing. *)
LEMMA CoversNothing == ASSUME NEW first \in Int PROVE Covers(<<>>, first, first)
<1>1. IsRows(<<>>) /\ DOMAIN <<>> = {}
  BY FewRows
<1>2. first..(first - 1) = {} /\ first <= first
  OBVIOUS
<1>3. QED
  BY <1>1, <1>2 DEF Covers

(* A cell goes on with the run before it, or ends it and begins its own. *)
LEMMA MapRecordInv ==
    ASSUME MapInv, MapRuns, NEW r, ReadOne(r), MapCell(r)
    PROVE  MapInv'
<1> DEFINE first == declared.start
           index == first + Len(fed)
           begun == [start |-> index, length |-> 1, value |-> CellValue(index)]
<1>0. declared \in Declared["occupancy map"]
  BY DEF ReadOne, SavedFile, MapRuns
<1>1. first \in Nat /\ declared' = declared /\ Len(fed) \in Nat /\ Len(fed') = Len(fed) + 1 /\ verdict # "converted"
  BY <1>0, MapAssumption DEF ReadOne
<1>2. index \in Int /\ declared'.start + Len(fed') = index + 1
  BY <1>1
<1>3. \A h : Covers(lines, first, h.start)' <=> Covers(lines', first, h.start)
  BY <1>1 DEF Covers, CellValue
<1>4. \A h : Goes(h, lines, h.start)' <=> Goes(h, lines', h.start)
  BY <1>1 DEF Goes, CellValue
<1>5. \A h : held' = <<h>> /\ Covers(lines', first, h.start) /\ Goes(h, lines', h.start)
             /\ h.start + h.length = index + 1 => MapInv'
  BY <1>1, <1>2, <1>3, <1>4 DEF MapInv
<1>6. begun.start = index /\ begun.length = 1 /\ begun.value = CellValue(index)
  OBVIOUS
<1>7. \A c \in begun.start..(begun.start + begun.length - 1) : begun.value = CellValue(c)
  <2> HIDE DEF begun
  <2>1. index..(index + 1 - 1) = {index}
    BY <1>2
  <2>2. QED
    BY <1>6, <2>1
<1> HIDE DEF index
<1>8. CASE fed = <<>> /\ lines = <<>> /\ held = <<>>
  <2>1. Len(fed) = 0 /\ index = first
    BY <1>1, <1>8 DEF index
  <2>2. lines' = <<>> \o <<>> /\ held' = <<begun>>
    BY <1>8 DEF MapCell, RunGoesOn, Hold, index
  <2>3. lines' = <<>> /\ DOMAIN lines' = {}
    BY <2>2
  <2> HIDE DEF begun, first
  <2>4. Covers(lines', first, begun.start)
    BY <1>1, <1>6, <2>1, <2>3, CoversNothing
  <2>5. Goes(begun, lines', begun.start)
    BY <1>6, <1>7, <2>3 DEF Goes
  <2>6. begun.start + begun.length = index + 1
    BY <1>6
  <2>7. QED
    BY <1>5, <2>2, <2>4, <2>5, <2>6
<1>9. ASSUME NEW h, held = <<h>>, Covers(lines, first, h.start), Goes(h, lines, h.start),
             h.start + h.length = index
      PROVE  MapInv'
  <2>1. held # <<>> /\ held[1] = h
    BY <1>9
  <2>2. h.start \in Int /\ h.length \in Int /\ h.length > 0
    BY <1>9 DEF Goes, Covers
  <2>3. CASE RunGoesOn(index)
    <3> DEFINE longer == [start |-> h.start, length |-> h.length + 1, value |-> h.value]
    <3>1. lines' = lines /\ held' = <<longer>>
      BY <2>1, <2>3 DEF MapCell, Hold, index
    <3>2. longer.start = h.start /\ longer.length = h.length + 1 /\ longer.value = h.value
      OBVIOUS
    <3>3. h.value = CellValue(index)
      BY <2>1, <2>3 DEF RunGoesOn
    <3> HIDE DEF longer
    <3>4. \A c \in longer.start..(longer.start + longer.length - 1) : longer.value = CellValue(c)
      <4> SUFFICES ASSUME NEW c \in h.start..(h.start + (h.length + 1) - 1) PROVE h.value = CellValue(c)
        BY <3>2
      <4>1. c = index \/ c \in h.start..(h.start + h.length - 1)
        BY <1>9, <2>2
      <4>2. QED
        BY <1>9, <3>3, <4>1 DEF Goes
    <3>5. Covers(lines', first, longer.start)
      BY <1>9, <3>1, <3>2
    <3>6. Goes(longer, lines', longer.start)
      BY <1>9, <2>2, <3>1, <3>2, <3>4 DEF Goes
    <3>7. longer.start + longer.length = index + 1
      BY <1>9, <2>2, <3>2
    <3>8. QED
      BY <1>5, <3>1, <3>5, <3>6, <3>7
  <2>4. CASE ~RunGoesOn(index)
    <3>1. lines' = lines \o <<h>> /\ held' = <<begun>>
      BY <1>9, <2>4 DEF MapCell, Hold, index
    <3>2. h.value # CellValue(index)
      BY <2>1, <2>4 DEF RunGoesOn
    <3>3. lines' = Append(lines, h)
      <4>1. PICK S : lines \in Seq(S)
        BY <1>9 DEF Covers, IsRows
      <4>2. QED
        BY <3>1, <4>1
    <3> HIDE DEF begun, first
    <3>4. Covers(Append(lines, h), first, h.start + h.length)
      BY <1>9, CoversOneMore
    <3>5. \A i \in DOMAIN lines' : i = Len(lines') => lines'[i] = h
      <4>1. IsRows(lines)
        BY <1>9 DEF Covers
      <4>2. /\ IsRows(Append(lines, h)) /\ Len(lines) \in Nat
            /\ DOMAIN Append(lines, h) = 1..(Len(lines) + 1)
            /\ Append(lines, h)[Len(lines) + 1] = h
        BY <4>1, AppendedRow
      <4>3. Len(lines') \in Nat /\ DOMAIN lines' = 1..Len(lines')
        <5>1. PICK S : lines' \in Seq(S)
          BY <3>3, <4>2 DEF IsRows
        <5>2. QED
          BY <5>1, LenProperties
      <4>4. Len(lines') = Len(lines) + 1
        <5>1. Len(lines) + 1 \in 1..Len(lines')
          BY <3>3, <4>2, <4>3
        <5>2. Len(lines') \in 1..Len(lines')
          BY <4>2, <4>3, <5>1
        <5>3. Len(lines') \in 1..(Len(lines) + 1)
          BY <3>3, <4>2, <4>3, <5>2
        <5> DEFINE m == Len(lines)
                   n == Len(lines')
        <5>4. m \in Nat /\ n \in Nat /\ m + 1 \in 1..n /\ n \in 1..(m + 1)
          BY <4>2, <4>3, <5>1, <5>3
        <5> HIDE DEF m, n
        <5>5. n = m + 1
          BY <5>4
        <5>6. QED
          BY <5>5 DEF m, n
      <4>5. QED
        BY <3>3, <4>2, <4>4
    <3>6. Goes(begun, lines', begun.start)
      BY <1>6, <1>7, <3>2, <3>5 DEF Goes
    <3>7. begun.start + begun.length = index + 1
      BY <1>6
    <3>8. Covers(lines', first, begun.start)
      BY <1>6, <1>9, <3>3, <3>4
    <3>9. QED
      BY <1>5, <3>1, <3>6, <3>7, <3>8
  <2>5. QED
    BY <2>3, <2>4
<1>10. QED
  BY <1>1, <1>8, <1>9 DEF MapInv, index

(* The last run is written when all the cells are read. *)
LEMMA MapEnds ==
    ASSUME SavedFile, MapInv, MapRuns, MapEnd
    PROVE  MapInv' /\ RunsCoverTheMap'
<1> DEFINE first == declared.start
           stop == declared.stop
<1>0. declared \in Declared["occupancy map"]
  BY DEF SavedFile, MapRuns
<1>1. /\ first \in Nat /\ stop \in Nat /\ declared' = declared /\ verdict = "reading" /\ verdict' = "converted"
      /\ Len(fed) = stop - first /\ lines' = lines \o held
  BY <1>0, MapAssumption DEF MapEnd, Ending
<1>2. Len(fed) \in Nat
  BY LenProperties DEF SavedFile
<1>3. \A s : Covers(s, first, stop) /\ lines' = s => RunsCoverTheMap'
  <2> SUFFICES ASSUME NEW s, Covers(s, first, stop), lines' = s PROVE RunsCoverTheMap'
    OBVIOUS
  <2>1. \A c \in first..(stop - 1) :
           Cardinality({i \in DOMAIN s : /\ s[i].start <= c /\ c < s[i].start + s[i].length
                                         /\ s[i].value = CellValue(c)}) = 1
    BY CoveredOnce
  <2>2. \A i \in DOMAIN s : i > 1 => s[i].value # s[i - 1].value
    BY DEF Covers
  <2>3. WholeMap(s)
    BY <2>1, <2>2 DEF WholeMap
  <2>4. \A c : CellValue(c)' = CellValue(c)
    BY <1>1 DEF CellValue
  <2>5. \A c : {i \in DOMAIN lines' : /\ lines'[i].start <= c /\ c < lines'[i].start + lines'[i].length
                                      /\ lines'[i].value = CellValue(c)'} =
               {i \in DOMAIN s : /\ s[i].start <= c /\ c < s[i].start + s[i].length
                                 /\ s[i].value = CellValue(c)}
    BY <2>4
  <2>6. WholeMap(lines)'
    BY <1>1, <2>3, <2>5 DEF WholeMap
  <2>7. QED
    BY <2>6, MapIsWhole
<1>4. CASE fed = <<>> /\ lines = <<>> /\ held = <<>>
  <2>1. stop = first
    BY <1>1, <1>4
  <2>2. lines' = <<>>
    BY <1>1, <1>4
  <2>3. Covers(<<>>, first, stop)
    BY <1>1, <2>1, CoversNothing
  <2>4. QED
    BY <1>1, <1>3, <2>2, <2>3 DEF MapInv
<1>5. ASSUME NEW h, held = <<h>>, Covers(lines, first, h.start), Goes(h, lines, h.start),
             h.start + h.length = first + Len(fed)
      PROVE  MapInv' /\ RunsCoverTheMap'
  <2>1. lines' = Append(lines, h)
    <3>1. PICK S : lines \in Seq(S)
      BY <1>5 DEF Covers, IsRows
    <3>2. QED
      BY <1>1, <1>5, <3>1
  <2>2. Covers(Append(lines, h), first, h.start + h.length)
    BY <1>5, CoversOneMore
  <2>3. h.start + h.length = stop
    BY <1>1, <1>2, <1>5
  <2>4. QED
    BY <1>1, <1>3, <2>1, <2>2, <2>3 DEF MapInv
<1>6. QED
  BY <1>1, <1>4, <1>5 DEF MapInv

(* A converted map has each selected cell in one run of its value. *)
LEMMA MapHolds == ConverterSpec => []RunsCoverTheMap
<1> DEFINE J == MapInv /\ RunsCoverTheMap
<1>1. ConverterInit => J
  <2>1. ConverterInit => fed = <<>> /\ lines = <<>> /\ verdict = "reading"
    BY DEF ConverterInit, Starting
  <2>2. ConverterInit /\ MapRuns => held = <<>>
    BY DEF ConverterInit, Starting, ConverterStart, MapRuns
  <2>3. QED
    BY <2>1, <2>2 DEF MapInv, RunsCoverTheMap
<1>2. SavedFile /\ J /\ [ConverterNext]_linesVars => J'
  <2> SUFFICES ASSUME SavedFile, J, [ConverterNext]_linesVars, MapRuns
               PROVE  J'
    BY SameScript DEF MapInv, RunsCoverTheMap, MapRuns
  <2>1. ASSUME NEW r \in Records[converter], Taking(r), ConverterStep(r) PROVE J'
    <3>1. MapCell(r)
      BY <2>1 DEF ConverterStep, HostsStep, RoversStep, FlightStep, MissionsStep, LinksStep, FleetsStep,
         ServersStep, BagsStep, PacketsStep, MapRuns
    <3>2. ReadOne(r)
      BY <2>1, RecordRead
    <3>3. MapInv'
      BY <3>1, <3>2, MapRecordInv
    <3>4. RunsCoverTheMap'
      BY <3>2 DEF RunsCoverTheMap, ReadOne
    <3>5. QED
      BY <3>3, <3>4
  <2>2. CASE ConverterEnd
    <3>1. MapEnd
      BY <2>2 DEF ConverterEnd, MapRuns
    <3>2. QED
      BY <3>1, MapEnds
  <2>3. CASE Refuse \/ UNCHANGED linesVars
    <3>1. UNCHANGED <<converter, declared, fed, lines, held>>
          /\ (verdict' = "converted" => verdict = "converted") /\ (verdict = "converted" => verdict' = "converted")
      BY <2>3 DEF Refuse, linesVars
    <3>2. MapRuns' <=> MapRuns
      BY <3>1 DEF MapRuns
    <3>3. MapInv'
      BY <3>1, <3>2 DEF MapInv, Covers, Goes, CellValue
    <3>4. WholeMap(lines)' <=> WholeMap(lines)
      BY <3>1 DEF WholeMap, CellValue
    <3>5. QED
      BY <3>1, <3>2, <3>3, <3>4, MapIsWhole
  <2>4. QED
    BY <2>1, <2>2, <2>3 DEF ConverterNext
<1>3. QED
  <2> HIDE DEF J
  <2>1. ConverterSpec => []J
    BY <1>1, <1>2, FileIsSaved, PTL DEF ConverterSpec
  <2>2. J => RunsCoverTheMap
    BY DEF J
  <2>3. QED
    BY <2>1, <2>2, PTL

-----------------------------------------------------------------------------
(* The records of the host reports. *)

(* A function on the first numbers is rows. *)
LEMMA FunctionIsRows ==
    ASSUME NEW n \in Nat, NEW f, f = [i \in 1..n |-> f[i]]
    PROVE  IsRows(f) /\ DOMAIN f = 1..n /\ Len(f) = n
<1>1. f \in [1..n -> {f[i] : i \in 1..n}]
  OBVIOUS
<1>2. f \in Seq({f[i] : i \in 1..n})
  BY <1>1, SeqDef
<1>3. DOMAIN f = 1..n
  BY <1>1
<1>4. Len(f) = n
  BY <1>2, <1>3, LenProperties
<1>5. QED
  BY <1>2, <1>3, <1>4 DEF IsRows

VlmRuns    == converter = "vlm response"
EngineRuns == converter = "tensorrt layers"
HostRuns   == converter \in {"k8s audit events", "journal storage errors", "journal power thermal",
                             "oauth rejection", "mqtt", "mqtt dock", "mqtt packets",
                             "blueos resources", "storage state", "tensorrt layers",
                             "drm connectors", "link cues", "vlm response"}

(* What happens to a record: it is carried in a line, counted, or carried in as many as it has parts. *)
CarriedOne  == \E e : lines' = Append(lines, e) /\ e.row = Here /\ passed' = passed
CountedOne  == \E e : passed' = Append(passed, e) /\ e.row = Here /\ lines' = lines
CarriedParts == \E t : /\ lines' = lines \o t /\ IsRows(t) /\ passed' = passed
                       /\ \A i \in DOMAIN t : t[i].row = Here
                       /\ t = <<>> => VlmRuns

VlmLine(e) ==
    \E a, p, n, s : e = [row |-> a, part |-> p, of |-> n, assertion |-> s, unhandled |-> Absent]

(* Each of the converters does one of the three with every record. *)
LEMMA RecordIsTaken ==
    ASSUME HostRuns, NEW r, ReadOne(r), HostsStep(r)
    PROVE  CarriedOne \/ CountedOne \/ CarriedParts
<1>1. CASE converter = "k8s audit events" /\ AuditEvent(r)
  <2> DEFINE e == [row |-> Here, id |-> <<r.id, r.stage>>, time |-> r.times[declared.clock],
                   typed |-> IF r.type = Absent THEN "envelope" ELSE "record",
                   supported |-> r.stage \in {"RequestReceived", "ResponseComplete"}]
  <2>1. lines' = Append(lines, e) /\ passed' = passed
    BY <1>1, Zenon DEF AuditEvent, Carry
  <2>2. e.row = Here
    OBVIOUS
  <2> HIDE DEF e
  <2>3. QED
    BY <2>1, <2>2 DEF CarriedOne
<1>2. CASE converter = "journal storage errors" /\ StorageError(r)
  BY <1>2, Zenon DEF StorageError, Carry, PassOver, CarriedOne, CountedOne
<1>3. CASE converter = "journal power thermal" /\ PowerThermal(r)
  BY <1>3, Zenon DEF PowerThermal, Carry, PassOver, CarriedOne, CountedOne
<1>4. CASE converter = "oauth rejection" /\ SavedRejection(r)
  BY <1>4, Zenon DEF SavedRejection, Carry, PassOver, CarriedOne, CountedOne
<1>5. CASE converter = "mqtt dock" /\ DockState(r)
  BY <1>5, Zenon DEF DockState, Carry, CarriedOne
<1>6. CASE converter = "mqtt packets" /\ Publish(r)
  BY <1>6, Zenon DEF Publish, Carry, PassOver, CarriedOne, CountedOne
<1>7. CASE converter = "blueos resources" /\ ResourceItem(r)
  <2> DEFINE e == [row |-> Here, kind |-> r.kind, ratio |-> IF r.kind = "memory" THEN MemoryRatio(r) ELSE Absent]
  <2>1. lines' = Append(lines, e) /\ passed' = passed
    BY <1>7, Zenon DEF ResourceItem, Carry
  <2>2. e.row = Here
    OBVIOUS
  <2> HIDE DEF e
  <2>3. QED
    BY <2>1, <2>2 DEF CarriedOne
<1>8. CASE converter = "drm connectors" /\ Connector(r)
  BY <1>8, Zenon DEF Connector, Carry, CarriedOne
<1>9. CASE converter = "link cues" /\ CueRow(r)
  BY <1>9, Zenon DEF CueRow, Carry, CarriedOne
<1>10. CASE converter = "mqtt" /\ MqttMessage(r)
  <2> DEFINE t == [i \in DOMAIN r.parts |-> [row |-> Here, part |-> i, time |-> r.time, source |-> i = 1]]
  <2>1. IsList(r.parts) /\ r.parts # <<>>
    <3>1. r \in Records["mqtt"]
      BY <1>10 DEF ReadOne
    <3>2. r.parts # <<>>
      BY <1>10, Zenon DEF MqttMessage
    <3>3. IsList(r.parts)
      BY <3>1, HostAssumption
    <3>4. QED
      BY <3>2, <3>3
  <2>2. lines' = lines \o t /\ passed' = passed
    <3>1. CarryAll(t)
      BY <1>10, Zenon DEF MqttMessage
    <3>2. QED
      BY <3>1 DEF CarryAll
  <2>3. Len(r.parts) \in Nat /\ DOMAIN r.parts = 1..Len(r.parts) /\ 1 \in DOMAIN r.parts
    BY <2>1 DEF IsList
  <2>4. IsRows(t)
    BY <2>3, FunctionIsRows
  <2>5. \A i \in DOMAIN t : t[i].row = Here
    OBVIOUS
  <2>6. t # <<>>
    BY <2>3
  <2> HIDE DEF t
  <2>7. QED
    BY <2>2, <2>4, <2>5, <2>6 DEF CarriedParts
<1>11. CASE converter = "storage state" /\ StorageState(r)
  <2>1. CASE r.mounts \in {Absent, <<>>}
    BY <1>11, <2>1, Zenon DEF StorageState, Carry, CarriedOne
  <2>2. CASE r.mounts \notin {Absent, <<>>}
    <3> DEFINE t == [i \in DOMAIN r.mounts |->
                        [row |-> Here, part |-> i, time |-> r.time, report |-> MountAccess(r.mounts[i])]]
    <3>1. IsList(r.mounts) /\ r.mounts # <<>>
      BY <1>11, <2>2, HostAssumption DEF ReadOne
    <3>2. lines' = lines \o t /\ passed' = passed
      BY <1>11, <2>2 DEF StorageState, CarryAll
    <3>3. Len(r.mounts) \in Nat /\ DOMAIN r.mounts = 1..Len(r.mounts) /\ 1 \in DOMAIN r.mounts
      BY <3>1 DEF IsList
    <3>4. IsRows(t)
      BY <3>3, FunctionIsRows
    <3>5. \A i \in DOMAIN t : t[i].row = Here
      OBVIOUS
    <3>6. t # <<>>
      BY <3>3
    <3> HIDE DEF t
    <3>7. QED
      BY <3>2, <3>4, <3>5, <3>6 DEF CarriedParts
  <2>3. QED
    BY <2>1, <2>2
<1>12. CASE converter = "tensorrt layers" /\ EngineLayer(r)
  <2> DEFINE a == [i \in 1..r.inputs |-> "INPUT"]
             b == [i \in 1..r.outputs |-> "OUTPUT"]
             c == [i \in 1..r.constants |-> "CONSTANT"]
             kinds == <<"LAYER">> \o a \o b \o c
             t == [i \in DOMAIN kinds |-> [row |-> Here, part |-> i, is |-> kinds[i]]]
  <2>1. r.inputs \in Nat /\ r.outputs \in Nat /\ r.constants \in Nat
    BY <1>12, HostAssumption DEF ReadOne
  <2>2. lines' = lines \o t /\ passed' = passed
    BY <1>12 DEF EngineLayer, CarryEach, CarryAll
  <2>3. IsRows(a) /\ IsRows(b) /\ IsRows(c) /\ IsRows(<<"LAYER">>)
    BY <2>1, FunctionIsRows, FewRows
  <2>4. 1 \in DOMAIN <<"LAYER">>
    OBVIOUS
  <2> HIDE DEF a, b, c
  <2>5. IsRows(<<"LAYER">> \o a) /\ 1 \in DOMAIN (<<"LAYER">> \o a)
    BY <2>3, <2>4, ConcatRows
  <2>6. IsRows(<<"LAYER">> \o a \o b) /\ 1 \in DOMAIN (<<"LAYER">> \o a \o b)
    BY <2>3, <2>5, ConcatRows
  <2>7. IsRows(kinds) /\ 1 \in DOMAIN kinds
    BY <2>3, <2>6, ConcatRows
  <2> HIDE DEF kinds
  <2>8. Len(kinds) \in Nat /\ DOMAIN kinds = 1..Len(kinds)
    BY <2>7, LenProperties DEF IsRows
  <2>9. IsRows(t)
    BY <2>8, FunctionIsRows
  <2>10. t # <<>>
    BY <2>7
  <2>11. \A i \in DOMAIN t : t[i].row = Here
    OBVIOUS
  <2> HIDE DEF t
  <2>12. QED
    BY <2>2, <2>9, <2>10, <2>11 DEF CarriedParts
<1>13. CASE converter = "vlm response" /\ ResponseItem(r)
  <2>1. CASE r.kind # "message"
    BY <1>13, <2>1, Zenon DEF ResponseItem, PassOver, CountedOne
  <2>2. CASE r.kind = "message"
    <3> DEFINE t == [i \in DOMAIN r.parts |-> [row |-> Here, part |-> i, of |-> Len(r.parts),
                                                assertion |-> r.parts[i], unhandled |-> Absent]]
    <3>1. IsList(r.parts)
      BY <1>13, HostAssumption DEF ReadOne
    <3>2. lines' = lines \o t /\ passed' = passed
      BY <1>13, <2>2 DEF ResponseItem, CarryAll
    <3>3. Len(r.parts) \in Nat /\ DOMAIN r.parts = 1..Len(r.parts)
      BY <3>1 DEF IsList
    <3>4. IsRows(t)
      BY <3>3, FunctionIsRows
    <3>5. \A i \in DOMAIN t : t[i].row = Here
      OBVIOUS
    <3>6. VlmRuns
      BY <1>13 DEF VlmRuns
    <3> HIDE DEF t
    <3>7. QED
      BY <3>2, <3>4, <3>5, <3>6 DEF CarriedParts
  <2>3. QED
    BY <2>1, <2>2
<1>14. QED
  BY <1>1, <1>2, <1>3, <1>4, <1>5, <1>6, <1>7, <1>8, <1>9, <1>10, <1>11, <1>12, <1>13 DEF HostsStep

(* Lines carried together that all stand for one record. *)
LEMMA RowsOfParts ==
    ASSUME NEW t, NEW n, \A i \in DOMAIN t : t[i].row = n
    PROVE  RowsOf(t) \subseteq {n} /\ (DOMAIN t # {} => RowsOf(t) = {n})
  BY DEF RowsOf

(* Before the output, every record read is in the lines or in the counts. *)
HostInv ==
    HostRuns /\ verdict # "converted" =>
        /\ IsRows(lines) /\ IsRows(passed)
        /\ RowsOf(lines) \cap RowsOf(passed) = {}
        /\ RowsOf(lines) \subseteq DOMAIN fed /\ RowsOf(passed) \subseteq DOMAIN fed
        /\ ~VlmRuns => RowsOf(lines) \cup RowsOf(passed) = DOMAIN fed
        /\ VlmRuns => \A i \in DOMAIN lines : VlmLine(lines[i])

(* What the accounts say of the output. *)
Accounted ==
    /\ RowsOf(lines) \cap RowsOf(passed) = {}
    /\ ~VlmRuns => (RowsOf(lines) \cup RowsOf(passed)) \ {Absent} = DOMAIN fed

(* What the account of a host report says, before and after a step. *)
LEMMA AccountsSay ==
    /\ RecordsAreAccounted <=> (HostRuns => Accounted)
    /\ RecordsAreAccounted' <=> (HostRuns' => Accounted')
  BY Zenon DEF RecordsAreAccounted, HostRuns, VlmRuns, Accounted, RowsOf

(* The parts of an item of the model's output are rows of its lines. *)
LEMMA VlmPartsAreLines ==
    ASSUME VlmRuns, HostRuns, NEW r, ReadOne(r), HostsStep(r), IsRows(lines),
           \A i \in DOMAIN lines : VlmLine(lines[i])
    PROVE  \A i \in DOMAIN lines' : VlmLine(lines'[i])
<1>1. ResponseItem(r)
  BY DEF VlmRuns, HostsStep
<1>2. CASE r.kind # "message"
  <2>1. lines' = lines
    BY <1>1, <1>2, Zenon DEF ResponseItem, PassOver
  <2>2. QED
    BY <2>1
<1>3. CASE r.kind = "message"
  <2> DEFINE t == [i \in DOMAIN r.parts |-> [row |-> Here, part |-> i, of |-> Len(r.parts),
                                              assertion |-> r.parts[i], unhandled |-> Absent]]
             all == lines \o t
  <2>1. IsList(r.parts)
    BY HostAssumption DEF ReadOne, VlmRuns
  <2>2. lines' = lines \o t
    BY <1>1, <1>3 DEF ResponseItem, CarryAll
  <2>3. Len(r.parts) \in Nat /\ DOMAIN r.parts = 1..Len(r.parts)
    BY <2>1 DEF IsList
  <2>4. IsRows(t)
    BY <2>3, FunctionIsRows
  <2>5. \A i \in DOMAIN t : VlmLine(t[i])
    BY Zenon DEF VlmLine
  <2> HIDE DEF t
  <2>6. /\ \A i \in DOMAIN lines : i \in DOMAIN all /\ all[i] = lines[i]
        /\ \A j \in DOMAIN t : Len(lines) + j \in DOMAIN all /\ all[Len(lines) + j] = t[j]
        /\ \A n \in DOMAIN all : n \in DOMAIN lines \/ \E j \in DOMAIN t : n = Len(lines) + j
    BY <2>4, ConcatRows
  <2> HIDE DEF all
  <2>7. \A n \in DOMAIN all : VlmLine(all[n])
    <3> SUFFICES ASSUME NEW n \in DOMAIN all PROVE VlmLine(all[n])
      OBVIOUS
    <3>1. CASE n \in DOMAIN lines
      BY <2>6, <3>1
    <3>2. CASE \E j \in DOMAIN t : n = Len(lines) + j
      BY <2>5, <2>6, <3>2
    <3>3. QED
      BY <2>6, <3>1, <3>2
  <2>8. QED
    BY <2>2, <2>7 DEF all
<1>4. QED
  BY <1>2, <1>3

(* A record read is in the lines or in the counts, and in none of them before. *)
LEMMA HostRecordInv ==
    ASSUME HostInv, HostRuns, NEW r, ReadOne(r), HostsStep(r)
    PROVE  HostInv'
<1>1. /\ IsRows(lines) /\ IsRows(passed)
      /\ RowsOf(lines) \cap RowsOf(passed) = {}
      /\ RowsOf(lines) \subseteq DOMAIN fed /\ RowsOf(passed) \subseteq DOMAIN fed
      /\ ~VlmRuns => RowsOf(lines) \cup RowsOf(passed) = DOMAIN fed
      /\ VlmRuns => \A i \in DOMAIN lines : VlmLine(lines[i])
  BY DEF HostInv, ReadOne
<1>2. DOMAIN fed' = DOMAIN fed \cup {Here} /\ Here \notin DOMAIN fed
  BY DEF ReadOne
<1>3. VlmRuns' = VlmRuns
  BY DEF ReadOne, VlmRuns
<1>4. VlmRuns => \A i \in DOMAIN lines' : VlmLine(lines'[i])
  BY <1>1, VlmPartsAreLines
<1>5. CASE CarriedOne
  <2>1. PICK e : lines' = Append(lines, e) /\ e.row = Here /\ passed' = passed
    BY <1>5 DEF CarriedOne
  <2>2. RowsOf(lines') = RowsOf(lines) \cup {Here} /\ IsRows(lines')
    BY <1>1, <2>1, RowsAppend, AppendedRow
  <2>3. QED
    BY <1>1, <1>2, <1>3, <1>4, <2>1, <2>2 DEF HostInv
<1>6. CASE CountedOne
  <2>1. PICK e : passed' = Append(passed, e) /\ e.row = Here /\ lines' = lines
    BY <1>6 DEF CountedOne
  <2>2. RowsOf(passed') = RowsOf(passed) \cup {Here} /\ IsRows(passed')
    BY <1>1, <2>1, RowsAppend, AppendedRow
  <2>3. QED
    BY <1>1, <1>2, <1>3, <1>4, <2>1, <2>2 DEF HostInv
<1>7. CASE CarriedParts
  <2>1. PICK t : /\ lines' = lines \o t /\ IsRows(t) /\ passed' = passed
                 /\ \A i \in DOMAIN t : t[i].row = Here
                 /\ t = <<>> => VlmRuns
    BY <1>7 DEF CarriedParts
  <2>2. RowsOf(lines') = RowsOf(lines) \cup RowsOf(t) /\ IsRows(lines')
    BY <1>1, <2>1, RowsConcat, ConcatRows
  <2>3. RowsOf(t) \subseteq {Here} /\ (DOMAIN t # {} => RowsOf(t) = {Here})
    BY <2>1, RowsOfParts
  <2>4. t # <<>> => DOMAIN t # {}
    <3>1. PICK S : t \in Seq(S)
      BY <2>1 DEF IsRows
    <3>2. t # <<>> => 1 \in DOMAIN t
      BY <3>1, EmptySeq, LenProperties
    <3>3. QED
      BY <3>2
  <2>5. ~VlmRuns => RowsOf(t) = {Here}
    BY <2>1, <2>3, <2>4
  <2>6. QED
    BY <1>1, <1>2, <1>3, <1>4, <2>1, <2>2, <2>3, <2>5 DEF HostInv
<1>8. QED
  BY <1>5, <1>6, <1>7, RecordIsTaken

(* What follows the loop adds no record and takes none away. *)
LEMMA HostEnds ==
    ASSUME SavedFile, HostInv, HostRuns, ConverterEnd
    PROVE  Accounted'
<1>0. ConverterEnd => Ending
  BY EndsOnce
<1>1. /\ IsRows(lines) /\ IsRows(passed)
      /\ RowsOf(lines) \cap RowsOf(passed) = {}
      /\ RowsOf(lines) \subseteq DOMAIN fed /\ RowsOf(passed) \subseteq DOMAIN fed
      /\ ~VlmRuns => RowsOf(lines) \cup RowsOf(passed) = DOMAIN fed
      /\ VlmRuns => \A i \in DOMAIN lines : VlmLine(lines[i])
  BY <1>0 DEF HostInv, Ending
<1>2. fed' = fed /\ converter' = converter
  BY <1>0 DEF Ending
<1>3. VlmRuns' = VlmRuns
  BY <1>2 DEF VlmRuns
<1>4. Absent \notin DOMAIN fed
  <2>1. DOMAIN fed = 1..Len(fed) /\ Len(fed) \in Nat
    BY LenProperties DEF SavedFile
  <2>2. QED
    BY <2>1, EchoAssumption
<1>5. CASE VlmRuns
  <2>1. ResponseEnd
    BY <1>5, Zenon DEF ConverterEnd, VlmRuns
  <2> DEFINE n == Len(passed)
             t == [i \in DOMAIN lines |-> [lines[i] EXCEPT !.unhandled = n]]
  <2>2. lines' = t /\ passed' = passed
    BY <2>1 DEF ResponseEnd
  <2>3. \A i \in DOMAIN lines : t[i].row = lines[i].row
    <3> SUFFICES ASSUME NEW i \in DOMAIN lines PROVE t[i].row = lines[i].row
      OBVIOUS
    <3>1. PICK a, p, k, s : lines[i] = [row |-> a, part |-> p, of |-> k, assertion |-> s, unhandled |-> Absent]
      BY <1>1, <1>5 DEF VlmLine
    <3> HIDE DEF n
    <3>2. QED
      BY <3>1
  <2>4. DOMAIN t = DOMAIN lines
    OBVIOUS
  <2> HIDE DEF t
  <2>5. RowsOf(t) = RowsOf(lines)
    BY <2>3, <2>4 DEF RowsOf
  <2>6. QED
    BY <1>1, <1>3, <1>5, <2>2, <2>5 DEF Accounted
<1>6. CASE EngineRuns
  <2>1. EngineEnd
    BY <1>6, Zenon DEF ConverterEnd, EngineRuns
  <2> DEFINE t == [i \in 1..declared.bindings |-> [row |-> Absent, part |-> i, is |-> "BINDING"]]
  <2>2. lines' = lines \o t /\ passed' = passed
    BY <2>1 DEF EngineEnd, CarryAll
  <2>3. declared.bindings \in Nat
    BY <1>6, HostAssumption DEF SavedFile, EngineRuns
  <2>4. IsRows(t)
    BY <2>3, FunctionIsRows
  <2>5. \A i \in DOMAIN t : t[i].row = Absent
    OBVIOUS
  <2> HIDE DEF t
  <2>6. RowsOf(lines \o t) = RowsOf(lines) \cup RowsOf(t) /\ RowsOf(t) \subseteq {Absent}
    BY <1>1, <2>4, <2>5, RowsConcat, RowsOfParts
  <2>7. QED
    BY <1>1, <1>2, <1>3, <1>4, <2>2, <2>6 DEF Accounted
<1>7. CASE ~VlmRuns /\ ~EngineRuns
  <2>1. EndCarried
    BY <1>7, Zenon DEF ConverterEnd, HostRuns, VlmRuns, EngineRuns, PublishEnd
  <2>2. lines' = lines /\ passed' = passed
    BY <2>1 DEF EndCarried, Keeping
  <2>3. QED
    BY <1>1, <1>2, <1>3, <1>4, <2>2 DEF Accounted
<1>8. QED
  BY <1>5, <1>6, <1>7

(* Every record of a host report is in a row or counted. *)
LEMMA AccountsHold == ConverterSpec => []RecordsAreAccounted
<1> DEFINE J == HostInv /\ RecordsAreAccounted
<1>1. ConverterInit => J
  <2>1. IsRows(<<>>) /\ DOMAIN <<>> = {}
    BY FewRows
  <2>2. RowsOf(<<>>) = {}
    BY <2>1 DEF RowsOf
  <2>3. ConverterInit => fed = <<>> /\ lines = <<>> /\ passed = <<>>
    BY DEF ConverterInit, Starting
  <2>4. QED
    BY <2>1, <2>2, <2>3, AccountsSay DEF HostInv, Accounted
<1>2. SavedFile /\ SavedFile' /\ J /\ [ConverterNext]_linesVars => J'
  <2> SUFFICES ASSUME SavedFile, SavedFile', J, [ConverterNext]_linesVars
               PROVE  J'
    OBVIOUS
  <2>0. HostRuns' = HostRuns /\ VlmRuns' = VlmRuns
    BY SameScript DEF HostRuns, VlmRuns
  <2>1. CASE ~HostRuns
    BY <2>0, <2>1, AccountsSay DEF HostInv
  <2>2. ASSUME HostRuns, NEW r \in Records[converter], Taking(r), ConverterStep(r) PROVE J'
    <3>1. HostsStep(r)
      BY <2>2, Zenon DEF ConverterStep, RoversStep, FlightStep, MissionsStep, LinksStep, FleetsStep,
         ServersStep, BagsStep, PacketsStep, HostRuns
    <3>2. ReadOne(r)
      BY <2>2, RecordRead
    <3>3. HostInv'
      BY <2>2, <3>1, <3>2, HostRecordInv
    <3>4. verdict' # "converted" /\ verdict' = "reading"
      BY <3>2 DEF ReadOne
    <3>5. Accounted'
      <4>1. DOMAIN fed' = 1..Here /\ Here = Len(fed) + 1 /\ Len(fed) \in Nat
        BY <3>2 DEF ReadOne
      <4>2. Absent \notin DOMAIN fed'
        BY <4>1, EchoAssumption
      <4>3. QED
        BY <2>0, <2>2, <3>3, <3>4, <4>2 DEF HostInv, Accounted
    <3>6. QED
      BY <3>3, <3>5, AccountsSay
  <2>3. ASSUME HostRuns, ConverterEnd PROVE J'
    <3>1. Accounted' /\ verdict' = "converted"
      BY <2>3, HostEnds, EndsOnce DEF Ending
    <3>2. QED
      BY <3>1, AccountsSay DEF HostInv
  <2>4. ASSUME Refuse \/ UNCHANGED linesVars PROVE J'
    <3>1. UNCHANGED <<fed, lines, passed>> /\ (verdict' # "converted" => verdict # "converted")
      BY <2>4 DEF Refuse, linesVars
    <3>2. HostInv'
      BY <2>0, <3>1 DEF HostInv
    <3>3. Accounted' <=> Accounted
      BY <2>0, <3>1 DEF Accounted
    <3>4. QED
      BY <2>0, <3>2, <3>3, AccountsSay
  <2>5. QED
    BY <2>1, <2>2, <2>3, <2>4 DEF ConverterNext
<1>3. QED
  <2> HIDE DEF J
  <2>1. ConverterSpec => []J
    BY <1>1, <1>2, FileIsSaved, PTL DEF ConverterSpec
  <2>2. J => RecordsAreAccounted
    BY DEF J
  <2>3. QED
    BY <2>1, <2>2, PTL

-----------------------------------------------------------------------------
(* Where the bytes of a stream went. *)

(* Rows that are all different are as many as there are places. *)
LEMMA RowsAreCounted ==
    ASSUME NEW s, IsRows(s), \A i, j \in DOMAIN s : s[i] = s[j] => i = j
    PROVE  IsFiniteSet(ToSet(s)) /\ Cardinality(ToSet(s)) = Len(s) /\ Len(s) \in Nat
<1>1. PICK S : s \in Seq(S)
  BY DEF IsRows
<1>2. DOMAIN s = 1..Len(s) /\ Len(s) \in Nat /\ s \in [1..Len(s) -> S]
  BY <1>1, LenProperties, SeqDef
<1> DEFINE T == ToSet(s)
           n == Len(s)
<1>3. s \in Bijection(1..n, T)
  <2>1. s \in [1..n -> T] /\ \A e \in T : \E i \in 1..n : s[i] = e
    BY <1>2 DEF ToSet
  <2> HIDE DEF T, n
  <2>2. \A i, j \in 1..n : s[i] = s[j] => i = j
    BY <2>1
  <2>3. QED
    BY <2>1, <2>2 DEF Bijection, Injection, Surjection, IsInjective
<1>4. IsFiniteSet(1..n) /\ Cardinality(1..n) = n
  <2>1. n \in Nat
    BY <1>2
  <2> HIDE DEF n
  <2>2. IsFiniteSet(1..n) /\ Cardinality(1..n) = IF 1 > n THEN 0 ELSE n - 1 + 1
    BY <2>1, FS_Interval
  <2>3. QED
    BY <2>1, <2>2
<1>5. ExistsBijection(1..n, T)
  BY <1>3 DEF ExistsBijection
<1> HIDE DEF T
<1>6. IsFiniteSet(T) /\ Cardinality(T) = n
  BY <1>4, <1>5, FS_Bijection
<1>7. QED
  BY <1>2, <1>6 DEF T

(* A range of positions up to a frontier. *)
RangeUpTo(x, f) == x.from \in Nat /\ x.to \in Nat /\ 1 <= x.from /\ x.from < x.to /\ x.to <= f

Apart(x, y) == x.to <= y.from \/ y.to <= x.from

(* Lines and discarded ranges that have each position before a frontier once. *)
Tiles(ls, ps, f) ==
    /\ IsRows(ls) /\ IsRows(ps) /\ f \in Nat /\ 1 <= f
    /\ \A i \in DOMAIN ls : RangeUpTo(ls[i], f)
    /\ \A i \in DOMAIN ps : RangeUpTo(ps[i], f)
    /\ \A i, j \in DOMAIN ls : i < j => ls[i].to <= ls[j].from
    /\ \A i, j \in DOMAIN ps : i < j => ps[i].to <= ps[j].from
    /\ \A i \in DOMAIN ls, j \in DOMAIN ps : Apart(ls[i], ps[j])
    /\ \A n \in 1..(f - 1) : \/ \E i \in DOMAIN ls : ls[i].from <= n /\ n < ls[i].to
                             \/ \E i \in DOMAIN ps : ps[i].from <= n /\ n < ps[i].to

(* Nothing is placed before the first position. *)
LEMMA TilesNothing == Tiles(<<>>, <<>>, 1)
<1>1. IsRows(<<>>) /\ DOMAIN <<>> = {}
  BY FewRows
<1>2. 1..(1 - 1) = {}
  OBVIOUS
<1>3. QED
  BY <1>1, <1>2 DEF Tiles

(* One range more, from the frontier on. *)
Further(s, t, f, e) ==
    /\ IsRows(t) /\ DOMAIN t = DOMAIN s \cup {Len(s) + 1} /\ DOMAIN s \subseteq DOMAIN t
    /\ \A i \in DOMAIN s : t[i] = s[i] /\ i < Len(s) + 1 /\ i \in Nat
    /\ t[Len(s) + 1] = e /\ Len(s) + 1 \in Nat

(* The row carried last is behind all others. *)
LEMMA OneFurther ==
    ASSUME NEW s, IsRows(s), NEW e, NEW f
    PROVE  Further(s, Append(s, e), f, e)
<1> DEFINE t == Append(s, e)
           k == Len(s)
<1>1. /\ IsRows(t) /\ k \in Nat /\ DOMAIN s = 1..k /\ DOMAIN t = 1..(k + 1)
      /\ \A i \in DOMAIN s : t[i] = s[i]
      /\ t[k + 1] = e
  BY AppendedRow
<1> HIDE DEF t, k
<1>2. 1..(k + 1) = 1..k \cup {k + 1} /\ \A i \in 1..k : i < k + 1 /\ i \in Nat
  BY <1>1
<1>3. /\ IsRows(t) /\ DOMAIN t = DOMAIN s \cup {k + 1} /\ DOMAIN s \subseteq DOMAIN t
      /\ \A i \in DOMAIN s : t[i] = s[i] /\ i < k + 1 /\ i \in Nat
      /\ t[k + 1] = e /\ k + 1 \in Nat
  BY <1>1, <1>2
<1>4. QED
  BY <1>3 DEF t, k, Further

(* A line from the frontier on moves it to where the line ends. *)
LEMMA TilesLine ==
    ASSUME NEW ls, NEW ps, NEW f, Tiles(ls, ps, f), NEW e, e.from = f, e.to \in Nat, f < e.to
    PROVE  Tiles(Append(ls, e), ps, e.to)
<1> DEFINE t == Append(ls, e)
           g == e.to
           k == Len(ls) + 1
<1>0. IsRows(ls) /\ IsRows(ps) /\ f \in Nat /\ 1 <= f
  BY DEF Tiles
<1>1. /\ IsRows(t) /\ DOMAIN t = DOMAIN ls \cup {k}
      /\ \A i \in DOMAIN ls : t[i] = ls[i] /\ i < k /\ i \in Nat
      /\ t[k] = e /\ k \in Nat
  BY <1>0, OneFurther DEF Further
<1> HIDE DEF t, k, g
<1>2. e.to = g /\ g \in Nat /\ f < g /\ 1 <= g
  BY <1>0 DEF g
<1>3. \A x : RangeUpTo(x, f) => RangeUpTo(x, g)
  BY <1>0, <1>2 DEF RangeUpTo
<1>4. RangeUpTo(e, g)
  BY <1>0, <1>2 DEF RangeUpTo
<1>5. \A i \in DOMAIN t : RangeUpTo(t[i], g)
  BY <1>1, <1>3, <1>4 DEF Tiles
<1>6. \A i \in DOMAIN ps : RangeUpTo(ps[i], g)
  BY <1>3 DEF Tiles
<1>7. ASSUME NEW i \in DOMAIN t, NEW j \in DOMAIN t, i < j PROVE t[i].to <= t[j].from
  <2>1. i \in DOMAIN ls
    BY <1>1, <1>7
  <2>2. CASE j \in DOMAIN ls
    BY <1>1, <1>7, <2>1, <2>2 DEF Tiles
  <2>3. CASE j = k
    <3>1. RangeUpTo(ls[i], f)
      BY <2>1 DEF Tiles
    <3>2. QED
      BY <1>1, <2>1, <2>3, <3>1 DEF RangeUpTo
  <2>4. QED
    BY <1>1, <2>2, <2>3
<1>8. ASSUME NEW i \in DOMAIN t, NEW j \in DOMAIN ps PROVE Apart(t[i], ps[j])
  <2>1. CASE i \in DOMAIN ls
    BY <1>1, <2>1 DEF Tiles
  <2>2. CASE i = k
    <3>1. RangeUpTo(ps[j], f)
      BY DEF Tiles
    <3>2. QED
      BY <1>1, <2>2, <3>1 DEF RangeUpTo, Apart
  <2>3. QED
    BY <1>1, <2>1, <2>2
<1>9. ASSUME NEW n \in 1..(g - 1)
      PROVE  \/ \E i \in DOMAIN t : t[i].from <= n /\ n < t[i].to
             \/ \E i \in DOMAIN ps : ps[i].from <= n /\ n < ps[i].to
  <2>1. CASE n < f
    <3>1. n \in 1..(f - 1)
      BY <1>0, <1>2, <2>1
    <3>2. \/ \E i \in DOMAIN ls : ls[i].from <= n /\ n < ls[i].to
          \/ \E i \in DOMAIN ps : ps[i].from <= n /\ n < ps[i].to
      BY <3>1 DEF Tiles
    <3>3. QED
      BY <1>1, <3>2
  <2>2. CASE ~(n < f)
    <3>1. f <= n /\ n < g
      BY <1>0, <1>2, <2>2
    <3>2. k \in DOMAIN t /\ t[k].from = f /\ t[k].to = g
      BY <1>1, <1>2
    <3>3. QED
      BY <3>1, <3>2
  <2>3. QED
    BY <2>1, <2>2
<1>10. /\ \A i, j \in DOMAIN ps : i < j => ps[i].to <= ps[j].from
  BY DEF Tiles
<1>11. Tiles(t, ps, g)
  BY <1>0, <1>1, <1>2, <1>5, <1>6, <1>7, <1>8, <1>9, <1>10 DEF Tiles
<1>12. QED
  BY <1>11 DEF t, g

(* A line and a discarded range are alike here. *)
LEMMA TilesOther == ASSUME NEW ls, NEW ps, NEW f PROVE Tiles(ls, ps, f) <=> Tiles(ps, ls, f)
<1>1. \A x, y : Apart(x, y) <=> Apart(y, x)
  BY DEF Apart
<1>2. QED
  BY <1>1 DEF Tiles

(* A discarded range moves the frontier like a line, and an empty one leaves it. *)
LEMMA TilesDiscard ==
    ASSUME NEW ls, NEW ps, NEW f, Tiles(ls, ps, f), NEW g \in Nat, f <= g, NEW why
    PROVE  Tiles(ls, ps \o Discard(f, g, why), g)
<1>0. IsRows(ps) /\ f \in Nat
  BY DEF Tiles
<1>1. PICK S : ps \in Seq(S)
  BY <1>0 DEF IsRows
<1>2. CASE f < g
  <2> DEFINE e == [row |-> Here, from |-> f, to |-> g, why |-> why]
  <2>1. Discard(f, g, why) = <<e>>
    BY <1>2 DEF Discard
  <2>2. e.from = f /\ e.to = g
    OBVIOUS
  <2> HIDE DEF e
  <2>3. ps \o <<e>> = Append(ps, e)
    BY <1>1
  <2>4. Tiles(ps, ls, f)
    BY TilesOther
  <2>5. Tiles(Append(ps, e), ls, g)
    BY <1>2, <2>2, <2>4, TilesLine
  <2>6. QED
    BY <2>1, <2>3, <2>5, TilesOther
<1>3. CASE f = g
  <2>1. Discard(f, g, why) = <<>>
    BY <1>0, <1>3 DEF Discard
  <2>2. ps \o <<>> = ps
    BY <1>1
  <2>3. QED
    BY <1>3, <2>1, <2>2
<1>4. QED
  BY <1>0, <1>2, <1>3

(* Each position is then in one range, and there are as many ranges as rows. *)
LEMMA TilesAccount ==
    ASSUME NEW ls, NEW ps, NEW f, Tiles(ls, ps, f)
    PROVE  /\ Len(ls) + Len(ps) = Cardinality(ToSet(ls) \cup ToSet(ps))
           /\ \A n \in 1..(f - 1) : Cardinality({x \in ToSet(ls) \cup ToSet(ps) : x.from <= n /\ n < x.to}) = 1
           /\ \A x \in ToSet(ls) \cup ToSet(ps) : 1 <= x.from /\ x.to <= f
           /\ \A i, j \in DOMAIN ls : i < j => ls[i].to <= ls[j].from
<1> DEFINE A == ToSet(ls)
           B == ToSet(ps)
<1>0. IsRows(ls) /\ IsRows(ps) /\ f \in Nat
  BY DEF Tiles
<1>1. DOMAIN ls \subseteq Nat /\ DOMAIN ps \subseteq Nat
  BY <1>0, LenProperties DEF IsRows
<1>2. \A x \in A \cup B : RangeUpTo(x, f)
  BY DEF Tiles, ToSet
<1>3. ASSUME NEW i \in DOMAIN ls, NEW j \in DOMAIN ls, i # j PROVE Apart(ls[i], ls[j])
  <2>1. i \in Nat /\ j \in Nat
    BY <1>1
  <2>2. i < j \/ j < i
    BY <1>3, <2>1
  <2>3. QED
    BY <2>2 DEF Tiles, Apart
<1>4. ASSUME NEW i \in DOMAIN ps, NEW j \in DOMAIN ps, i # j PROVE Apart(ps[i], ps[j])
  <2>1. i \in Nat /\ j \in Nat
    BY <1>1
  <2>2. i < j \/ j < i
    BY <1>4, <2>1
  <2>3. QED
    BY <2>2 DEF Tiles, Apart
<1>5. \A x : RangeUpTo(x, f) => ~Apart(x, x)
  BY DEF RangeUpTo, Apart
<1>6. \A i, j \in DOMAIN ls : ls[i] = ls[j] => i = j
  <2>1. \A i \in DOMAIN ls : ls[i] \in A
    BY DEF ToSet
  <2>2. QED
    BY <1>2, <1>3, <1>5, <2>1
<1>7. \A i, j \in DOMAIN ps : ps[i] = ps[j] => i = j
  <2>1. \A i \in DOMAIN ps : ps[i] \in B
    BY DEF ToSet
  <2>2. QED
    BY <1>2, <1>4, <1>5, <2>1
<1>8. \A x \in A, y \in B : Apart(x, y)
  BY DEF Tiles, ToSet
<1>9. A \cap B = {}
  BY <1>2, <1>5, <1>8
<1>10. \A x, y \in A \cup B : x = y \/ Apart(x, y)
  <2>1. \A x, y : Apart(x, y) <=> Apart(y, x)
    BY DEF Apart
  <2>2. \A x, y \in A : x = y \/ Apart(x, y)
    BY <1>3 DEF ToSet
  <2>3. \A x, y \in B : x = y \/ Apart(x, y)
    BY <1>4 DEF ToSet
  <2>4. QED
    BY <1>8, <2>1, <2>2, <2>3
<1>11. /\ IsFiniteSet(A) /\ Cardinality(A) = Len(ls) /\ Len(ls) \in Nat
       /\ IsFiniteSet(B) /\ Cardinality(B) = Len(ps) /\ Len(ps) \in Nat
  BY <1>0, <1>6, <1>7, RowsAreCounted
<1>12. ASSUME NEW n \in 1..(f - 1) PROVE \E x \in A \cup B : x.from <= n /\ n < x.to
  BY DEF Tiles, ToSet
<1> HIDE DEF A, B
<1>13. Cardinality(A \cup B) = Len(ls) + Len(ps)
  <2>1. Cardinality(A \cup B) = Cardinality(A) + Cardinality(B) - Cardinality({})
    BY <1>9, <1>11, FS_Union
  <2>2. Cardinality({}) = 0
    BY FS_EmptySet
  <2>3. QED
    BY <1>11, <2>1, <2>2
<1>14. ASSUME NEW n \in 1..(f - 1) PROVE Cardinality({x \in A \cup B : x.from <= n /\ n < x.to}) = 1
  <2>1. PICK x \in A \cup B : x.from <= n /\ n < x.to
    BY <1>12
  <2>2. n \in Nat
    BY <1>0
  <2>3. \A y \in A \cup B : y.from <= n /\ n < y.to => y = x
    <3> SUFFICES ASSUME NEW y \in A \cup B, y.from <= n, n < y.to PROVE y = x
      OBVIOUS
    <3>1. RangeUpTo(x, f) /\ RangeUpTo(y, f)
      BY <1>2
    <3>2. ~Apart(x, y)
      BY <2>1, <2>2, <3>1 DEF Apart, RangeUpTo
    <3>3. QED
      BY <1>10, <3>2
  <2>4. {y \in A \cup B : y.from <= n /\ n < y.to} = {x}
    BY <2>1, <2>3
  <2>5. QED
    BY <2>4, FS_Singleton
<1>15. \A x \in A \cup B : 1 <= x.from /\ x.to <= f
  BY <1>2 DEF RangeUpTo
<1>16. \A i, j \in DOMAIN ls : i < j => ls[i].to <= ls[j].from
  BY DEF Tiles
<1>17. QED
  BY <1>13, <1>14, <1>15, <1>16 DEF A, B

-----------------------------------------------------------------------------
(* The byte streams. *)

SportRuns == converter = "sport stream"
MspRuns   == converter = "msp stream"
TrampRuns == converter = "tramp replies"

BytesOf(f) == [n \in 1..Len(f) |-> f[n].bytes]

(* One piece more, and the bytes of it come behind those before. *)
LEMMA BytesAreNext ==
    ASSUME MspRuns \/ TrampRuns, NEW r, ReadOne(r)
    PROVE  /\ r.bytes \in Nat /\ 0 < r.bytes
           /\ TotalOf(BytesOf(fed)) \in Nat
           /\ TotalOf(BytesOf(fed')) = TotalOf(BytesOf(fed)) + r.bytes
<1>1. /\ Len(fed) \in Nat /\ Here = Len(fed) + 1 /\ Len(fed') = Here
      /\ DOMAIN fed = 1..Len(fed) /\ DOMAIN fed' = 1..Here
      /\ DOMAIN fed' = DOMAIN fed \cup {Here}
      /\ \A i \in DOMAIN fed : fed'[i] = fed[i]
      /\ fed'[Here] = r /\ r \in Records[converter] /\ fed \in Seq(Records[converter])
  BY DEF ReadOne, SavedFile
<1>2. \A x \in Records[converter] : x.bytes \in Nat \ {0}
  BY StreamAssumption, Zenon DEF MspRuns, TrampRuns
<1>3. r.bytes \in Nat /\ 0 < r.bytes
  BY <1>1, <1>2
<1>4. \A i \in DOMAIN fed : fed[i].bytes \in Nat
  <2>1. \A i \in DOMAIN fed : fed[i] \in Records[converter]
    BY <1>1
  <2>2. QED
    BY <1>2, <2>1
<1>5. \A i \in DOMAIN fed' : fed'[i].bytes \in Nat
  BY <1>1, <1>3, <1>4
<1> DEFINE k == Len(fed)
           s == BytesOf(fed)
           t == BytesOf(fed')
<1>6. k \in Nat /\ s \in [1..k -> Nat] /\ t \in [1..(k + 1) -> Nat] /\ \A n \in 1..k : t[n] = s[n]
  BY <1>1, <1>4, <1>5 DEF BytesOf
<1>7. t[k + 1] = r.bytes
  BY <1>1 DEF BytesOf
<1> HIDE DEF k, s, t
<1>8. TotalOf(s) \in Nat /\ TotalOf(t) = TotalOf(s) + t[k + 1]
  BY <1>6, TotalStep
<1>9. QED
  BY <1>3, <1>7, <1>8 DEF s, t

(* Up to the frontier everything is in a line or a discarded range; behind it   *)
(* is what an MSP or S.Port reader has not placed yet.                          *)
TrampInv ==
    TrampRuns /\ verdict = "reading" =>
        /\ Tiles(lines, passed, held)
        /\ held = TotalOf(BytesOf(fed)) + 1

MspInv ==
    MspRuns /\ verdict = "reading" =>
        /\ held = [at |-> held.at, idle |-> held.idle]
        /\ Tiles(lines, passed, held.idle)
        /\ held.at = TotalOf(BytesOf(fed)) + 1 /\ held.idle <= held.at

(* A Tramp reply is a line or a discarded range of its own. *)
LEMMA TrampRecordInv ==
    ASSUME TrampInv, TrampRuns, NEW r, ReadOne(r), TrampReply(r)
    PROVE  TrampInv'
<1>1. /\ r.bytes \in Nat /\ 0 < r.bytes /\ TotalOf(BytesOf(fed)) \in Nat
      /\ TotalOf(BytesOf(fed')) = TotalOf(BytesOf(fed)) + r.bytes
  BY BytesAreNext
<1>2. verdict = "reading"
  BY DEF ReadOne
<1>3. Tiles(lines, passed, held) /\ held = TotalOf(BytesOf(fed)) + 1
  BY <1>2 DEF TrampInv
<1>4. held' = held + r.bytes /\ held \in Nat /\ held + r.bytes \in Nat /\ held < held + r.bytes
  BY <1>1, <1>3 DEF TrampReply, Hold
<1>5. Tiles(lines, passed, held)'
  <2>1. CASE r.kind = "frame"
    <3> DEFINE e == [row |-> Here, from |-> held, to |-> held + r.bytes]
    <3>1. lines' = Append(lines, e) /\ passed' = passed
      BY <2>1 DEF TrampReply, Carry
    <3>2. e.from = held /\ e.to = held + r.bytes
      OBVIOUS
    <3> HIDE DEF e
    <3>3. Tiles(Append(lines, e), passed, e.to)
      BY <1>3, <1>4, <3>2, TilesLine
    <3>4. QED
      BY <1>4, <3>1, <3>2, <3>3
  <2>2. CASE r.kind # "frame"
    <3>1. lines' = lines /\ passed' = passed \o Discard(held, held + r.bytes, r.kind)
      BY <2>2 DEF TrampReply
    <3>2. Tiles(lines, passed \o Discard(held, held + r.bytes, r.kind), held + r.bytes)
      BY <1>3, <1>4, TilesDiscard
    <3>3. QED
      BY <1>4, <3>1, <3>2
  <2>3. QED
    BY <2>1, <2>2
<1>6. held' = TotalOf(BytesOf(fed)') + 1
  <2> DEFINE n == TotalOf(BytesOf(fed))
             m == TotalOf(BytesOf(fed'))
  <2>1. BytesOf(fed)' = BytesOf(fed')
    BY DEF BytesOf
  <2>2. n \in Nat /\ r.bytes \in Nat /\ m = n + r.bytes /\ held = n + 1 /\ held' = held + r.bytes
    BY <1>1, <1>3, <1>4
  <2> HIDE DEF n, m
  <2>3. held' = m + 1
    BY <2>2
  <2>4. QED
    BY <2>1, <2>3 DEF m
<1>7. QED
  BY <1>5, <1>6 DEF TrampInv

(* Junk waits; a packet, or what is cut off, comes after the junk before it. *)
LEMMA MspRecordInv ==
    ASSUME MspInv, MspRuns, NEW r, ReadOne(r), MspStream(r)
    PROVE  MspInv'
<1> DEFINE a == held.at
           b == held.idle
           c == held.at + r.bytes
<1>1. /\ r.bytes \in Nat /\ 0 < r.bytes /\ TotalOf(BytesOf(fed)) \in Nat
      /\ TotalOf(BytesOf(fed')) = TotalOf(BytesOf(fed)) + r.bytes
  BY BytesAreNext
<1>2. verdict = "reading"
  BY DEF ReadOne
<1>3. /\ held = [at |-> a, idle |-> b] /\ Tiles(lines, passed, b)
      /\ a = TotalOf(BytesOf(fed)) + 1 /\ b <= a
  BY <1>2 DEF MspInv
<1>4. b \in Nat /\ a \in Nat /\ c \in Nat /\ b <= a /\ a < c /\ b <= c /\ a <= c /\ c = TotalOf(BytesOf(fed)) + 1 + r.bytes
  <2>1. b \in Nat
    BY <1>3 DEF Tiles
  <2>2. QED
    BY <1>1, <1>3, <2>1
<1>5. /\ held' = [at |-> held'.at, idle |-> held'.idle] /\ Tiles(lines', passed', held'.idle)
      /\ held'.at = c /\ held'.idle <= c
  <2>1. CASE r.kind = "junk"
    <3>1. lines' = lines /\ passed' = passed /\ held' = [held EXCEPT !.at = @ + r.bytes]
      BY <2>1 DEF MspStream, Keeping, Hold
    <3>2. held' = [at |-> c, idle |-> b]
      BY <1>3, <3>1
    <3>3. held'.at = c /\ held'.idle = b
      BY <3>2
    <3>4. QED
      BY <1>3, <1>4, <3>1, <3>2, <3>3
  <2>2. CASE r.kind = "packet"
    <3> DEFINE e == [row |-> Here, from |-> held.at, to |-> held.at + r.bytes]
    <3>1. /\ lines' = Append(lines, e) /\ passed' = passed \o Discard(b, a, "unframed")
          /\ held' = [at |-> c, idle |-> c]
      BY <2>2 DEF MspStream, Hold
    <3>2. held'.at = c /\ held'.idle = c
      BY <3>1
    <3>3. e.from = a /\ e.to = c
      OBVIOUS
    <3> HIDE DEF e, a, b, c
    <3>4. Tiles(lines, passed \o Discard(b, a, "unframed"), a)
      BY <1>3, <1>4, TilesDiscard
    <3>5. Tiles(Append(lines, e), passed \o Discard(b, a, "unframed"), c)
      BY <1>4, <3>3, <3>4, TilesLine
    <3>6. QED
      BY <1>4, <3>1, <3>2, <3>5
  <2>3. CASE r.kind = "cut"
    <3>1. \E w : /\ lines' = lines /\ passed' = passed \o Discard(b, a, "unframed") \o Discard(a, c, w)
                 /\ held' = [at |-> c, idle |-> c]
      BY <2>3, Zenon DEF MspStream, Hold
    <3>2. PICK w : /\ lines' = lines /\ passed' = passed \o Discard(b, a, "unframed") \o Discard(a, c, w)
                   /\ held' = [at |-> c, idle |-> c]
      BY <3>1, Zenon
    <3>3. held'.at = c /\ held'.idle = c
      BY <3>2
    <3> HIDE DEF a, b, c
    <3>4. Tiles(lines, passed \o Discard(b, a, "unframed"), a)
      BY <1>3, <1>4, TilesDiscard
    <3>5. Tiles(lines, passed \o Discard(b, a, "unframed") \o Discard(a, c, w), c)
      BY <1>4, <3>4, TilesDiscard
    <3>6. QED
      BY <1>4, <3>2, <3>3, <3>5
  <2>4. QED
    BY <2>1, <2>2, <2>3, Zenon DEF MspStream
<1>6. c = TotalOf(BytesOf(fed)') + 1
  <2> HIDE DEF c, a, b
  <2>1. BytesOf(fed)' = BytesOf(fed')
    BY DEF BytesOf
  <2>2. QED
    BY <1>1, <1>4, <2>1
<1> HIDE DEF a, b, c
<1>7. QED
  BY <1>5, <1>6 DEF MspInv

-----------------------------------------------------------------------------
(* S.Port packets. *)

SportState == [start : Nat, idle : Nat, got : Nat, literal : BOOLEAN, escaped : BOOLEAN, packets : Nat]

(* Of the bytes behind the delimiter, k, each stands for one of the packet or   *)
(* escapes the next.                                                            *)
Escapes(h, k) == h.got + (IF h.escaped THEN 1 ELSE 0) <= k /\ k <= 2 * h.got + (IF h.escaped THEN 1 ELSE 0)

SportPacket(x) == declared.size <= x.to - x.from - 1 /\ x.to - x.from - 1 <= 2 * declared.size

SportInv ==
    SportRuns /\ verdict = "reading" =>
        /\ held \in SportState
        /\ held.start = 0 => /\ Tiles(lines, passed, held.idle) /\ held.idle <= Here
                             /\ held.got = 0 /\ ~held.escaped
        /\ held.start # 0 => /\ Tiles(lines, passed, held.start) /\ held.start < Here
                             /\ held.got < declared.size /\ (held.literal => ~held.escaped)
                             /\ Escapes(held, Here - held.start - 1)
        /\ \A i \in DOMAIN lines : SportPacket(lines[i])

(* What a byte inside a packet is: the next of the packet, the first half of an *)
(* escaped one, or the delimiter that cuts the packet short.                    *)
ByteCounts(h, g) ==
    /\ g.start = h.start /\ g.packets = h.packets /\ ~g.escaped
    /\ g.got = h.got + 1

ByteEscapes(h, g) ==
    /\ g.start = h.start /\ g.packets = h.packets /\ g.escaped /\ ~h.escaped /\ ~g.literal
    /\ g.got = h.got

ByteCuts(g) == g.start = Here /\ ~g.escaped /\ g.got = 0

(* Inside a packet a byte has one of these three meanings. *)
LEMMA SportByteSays ==
    ASSUME held \in SportState, Here \in Nat, held.literal => ~held.escaped, NEW r
    PROVE  /\ SportByte(r) \in SportState
           /\ ByteCounts(held, SportByte(r)) \/ ByteEscapes(held, SportByte(r)) \/ ByteCuts(SportByte(r))
<1> DEFINE g == SportByte(r)
<1>1. CASE held.literal /\ r # "flag"
  <2>1. g = [held EXCEPT !.got = held.got + 1, !.literal = FALSE]
    BY <1>1 DEF SportByte
  <2> HIDE DEF g
  <2> DEFINE n == held.got + 1
  <2>2. n \in Nat
    BY DEF SportState
  <2>3. g \in SportState /\ g.start = held.start /\ g.packets = held.packets /\ g.got = held.got + 1
        /\ g.escaped = held.escaped
    <3> HIDE DEF n
    <3>1. g = [held EXCEPT !.got = n, !.literal = FALSE]
      BY <2>1 DEF n
    <3>2. g \in SportState
      BY <2>2, <3>1 DEF SportState
    <3>3. g.start = held.start /\ g.packets = held.packets /\ g.got = n /\ g.literal = FALSE /\ g.escaped = held.escaped
      BY <3>1 DEF SportState
    <3>4. QED
      BY <3>2, <3>3 DEF n
  <2>4. g \in SportState /\ ByteCounts(held, g)
    BY <1>1, <2>3 DEF ByteCounts
  <2>5. QED
    BY <2>4 DEF g
<1>2. CASE ~(held.literal /\ r # "flag") /\ held.escaped
  <2>1. g = [held EXCEPT !.got = held.got + 1, !.escaped = FALSE]
    BY <1>2 DEF SportByte
  <2> HIDE DEF g
  <2> DEFINE n == held.got + 1
  <2>2. n \in Nat
    BY DEF SportState
  <2>3. g \in SportState /\ g.start = held.start /\ g.packets = held.packets /\ g.got = held.got + 1
        /\ g.escaped = FALSE
    <3> HIDE DEF n
    <3>1. g = [held EXCEPT !.got = n, !.escaped = FALSE]
      BY <2>1 DEF n
    <3>2. g \in SportState
      BY <2>2, <3>1 DEF SportState
    <3>3. g.start = held.start /\ g.packets = held.packets /\ g.got = n /\ g.escaped = FALSE /\ g.literal = held.literal
      BY <3>1 DEF SportState
    <3>4. QED
      BY <3>2, <3>3 DEF n
  <2>4. g \in SportState /\ ByteCounts(held, g)
    BY <1>2, <2>3 DEF ByteCounts
  <2>5. QED
    BY <2>4 DEF g
<1>3. CASE r = "flag" /\ ~held.escaped
  <2>1. g = [held EXCEPT !.start = Here, !.literal = FALSE, !.got = 0]
    BY <1>3 DEF SportByte
  <2> HIDE DEF g
  <2>2. g \in SportState /\ g.start = Here /\ g.got = 0 /\ g.escaped = held.escaped
    BY <2>1 DEF SportState
  <2>3. g \in SportState /\ ByteCuts(g)
    BY <1>3, <2>2 DEF ByteCuts
  <2>4. QED
    BY <2>3 DEF g
<1>4. CASE r = "escape" /\ ~held.literal /\ ~held.escaped
  <2>1. g = [held EXCEPT !.escaped = TRUE]
    BY <1>4 DEF SportByte
  <2> HIDE DEF g
  <2>2. g \in SportState /\ g.start = held.start /\ g.packets = held.packets /\ g.got = held.got
        /\ g.escaped = TRUE /\ g.literal = held.literal
    BY <2>1 DEF SportState
  <2>3. g \in SportState /\ ByteEscapes(held, g)
    BY <1>4, <2>2 DEF ByteEscapes
  <2>4. QED
    BY <2>3 DEF g
<1>5. CASE r # "flag" /\ r # "escape" /\ ~held.literal /\ ~held.escaped
  <2>1. g = [held EXCEPT !.got = @ + 1]
    BY <1>5 DEF SportByte
  <2> HIDE DEF g
  <2>2. g \in SportState /\ g.start = held.start /\ g.packets = held.packets /\ g.got = held.got + 1
        /\ g.escaped = held.escaped
    BY <2>1 DEF SportState
  <2>3. g \in SportState /\ ByteCounts(held, g)
    BY <1>5, <2>2 DEF ByteCounts
  <2>4. QED
    BY <2>3 DEF g
<1>6. QED
  BY <1>1, <1>2, <1>3, <1>4, <1>5

(* The step of a byte, in terms of what it is. *)
LEMMA EscapesGoOn ==
    ASSUME NEW h \in SportState, NEW g \in SportState, NEW k \in Nat, Escapes(h, k)
    PROVE  ByteCounts(h, g) \/ ByteEscapes(h, g) => Escapes(g, k + 1)
<1>1. h.got \in Nat /\ g.got \in Nat
  BY DEF SportState
<1>2. CASE ByteCounts(h, g)
  <2>1. Escapes(g, k + 1) <=> g.got <= k + 1 /\ k + 1 <= 2 * g.got
    BY <1>1, <1>2 DEF Escapes, ByteCounts
  <2>2. h.got <= k /\ k <= 2 * h.got + 1
    BY <1>1 DEF Escapes
  <2>3. QED
    BY <1>1, <1>2, <2>1, <2>2 DEF ByteCounts
<1>3. CASE ByteEscapes(h, g)
  <2>1. h.got <= k /\ k <= 2 * h.got /\ g.got = h.got
    BY <1>1, <1>3 DEF Escapes, ByteEscapes
  <2>2. QED
    BY <1>1, <1>3, <2>1 DEF Escapes, ByteEscapes
<1>4. QED
  BY <1>2, <1>3

(* Outside a packet a delimiter opens one, and what came before is discarded.   *)
LEMMA SportOpens ==
    ASSUME SportInv, SportRuns, NEW r, ReadOne(r), SportStream(r), held.start = 0, Here \in Nat,
           declared.size \in Nat, 0 < declared.size
    PROVE  /\ held' \in SportState /\ lines' = lines
           /\ held'.start = 0 => /\ Tiles(lines', passed', held'.idle) /\ held'.idle <= Here + 1
                                 /\ held'.got = 0 /\ ~held'.escaped
           /\ held'.start # 0 => /\ Tiles(lines', passed', held'.start) /\ held'.start = Here
                                 /\ held'.got < declared.size /\ (held'.literal => ~held'.escaped)
                                 /\ Escapes(held', 0)
<1>1. verdict = "reading"
  BY DEF ReadOne
<1>2. /\ held \in SportState /\ Tiles(lines, passed, held.idle) /\ held.idle <= Here
      /\ held.got = 0 /\ ~held.escaped
  BY <1>1 DEF SportInv
<1>3. held.idle \in Nat
  BY <1>2 DEF SportState
<1>4. CASE r # "flag"
  <2>1. lines' = lines /\ passed' = passed /\ held' = held
    BY <1>4 DEF SportStream, Keeping
  <2>2. QED
    BY <1>2, <1>3, <2>1
<1>5. CASE r = "flag"
  <2>1. /\ lines' = lines /\ passed' = passed \o Discard(held.idle, Here, "unframed")
        /\ held' = [held EXCEPT !.start = Here, !.literal = TRUE]
    BY <1>5 DEF SportStream, Hold
  <2>2. Tiles(lines, passed \o Discard(held.idle, Here, "unframed"), Here)
    BY <1>2, <1>3, TilesDiscard
  <2>3. held' \in SportState
    BY <1>2, <2>1 DEF SportState
  <2>4. held'.start = Here /\ held'.got = held.got /\ held'.escaped = held.escaped
    BY <1>2, <2>1 DEF SportState
  <2>5. Here # 0
    BY <2>2 DEF Tiles
  <2>6. Escapes(held', 0)
    <3>1. held'.got = 0 /\ ~held'.escaped
      BY <1>2, <2>4
    <3>2. QED
      BY <3>1 DEF Escapes
  <2>7. QED
    BY <1>2, <2>1, <2>2, <2>3, <2>4, <2>5, <2>6
<1>6. QED
  BY <1>4, <1>5

(* Inside a packet a byte goes on with it, ends it or cuts it short. *)
LEMMA SportGoesOn ==
    ASSUME SportInv, SportRuns, NEW r, ReadOne(r), SportStream(r), held.start # 0, Here \in Nat,
           declared.size \in Nat, 0 < declared.size
    PROVE  /\ held' \in SportState
           /\ held'.start = 0 => /\ Tiles(lines', passed', held'.idle) /\ held'.idle = Here + 1
                                 /\ held'.got = 0 /\ ~held'.escaped
           /\ held'.start # 0 => /\ Tiles(lines', passed', held'.start) /\ held'.start < Here + 1
                                 /\ held'.got < declared.size /\ (held'.literal => ~held'.escaped)
                                 /\ Escapes(held', Here + 1 - held'.start - 1)
           /\ \A i \in DOMAIN lines' : SportPacket(lines'[i])
<1> DEFINE g == SportByte(r)
           h == held
<1>1. verdict = "reading"
  BY DEF ReadOne
<1>2. /\ h \in SportState /\ Tiles(lines, passed, h.start) /\ h.start < Here
      /\ h.got < declared.size /\ (h.literal => ~h.escaped)
      /\ Escapes(h, Here - h.start - 1)
      /\ \A i \in DOMAIN lines : SportPacket(lines[i])
  BY <1>1 DEF SportInv
<1>3. g \in SportState /\ (ByteCounts(h, g) \/ ByteEscapes(h, g) \/ ByteCuts(g))
  BY <1>2, SportByteSays
<1>4. \E w, i : /\ passed' = passed \o Discard(h.start, g.start, w)
                /\ \/ g.got # declared.size /\ held' = g /\ lines' = lines
                   \/ /\ g.got = declared.size
                      /\ held' = [g EXCEPT !.start = 0, !.idle = Here + 1, !.got = 0, !.packets = @ + 1]
                      /\ lines' = Append(lines, [row |-> Here, from |-> h.start, to |-> Here + 1, wanted |-> i])
  BY Zenon DEF SportStream, Hold
<1>5. PICK w, i : /\ passed' = passed \o Discard(h.start, g.start, w)
                  /\ \/ g.got # declared.size /\ held' = g /\ lines' = lines
                     \/ /\ g.got = declared.size
                        /\ held' = [g EXCEPT !.start = 0, !.idle = Here + 1, !.got = 0, !.packets = @ + 1]
                        /\ lines' = Append(lines, [row |-> Here, from |-> h.start, to |-> Here + 1, wanted |-> i])
  BY <1>4, Zenon
<1> HIDE DEF g
<1>6. h.start \in Nat /\ h.got \in Nat /\ g.got \in Nat /\ g.start \in Nat /\ h.start # 0
      /\ Here - h.start - 1 \in Nat /\ h.start < Here + 1
  BY <1>2, <1>3 DEF SportState
<1>7. CASE ByteCuts(g)
  <2>1. g.start = Here /\ ~g.escaped /\ g.got = 0
    BY <1>7 DEF ByteCuts
  <2>2. held' = g /\ lines' = lines
    BY <1>5, <2>1
  <2>3. Tiles(lines, passed \o Discard(h.start, Here, w), Here)
    BY <1>2, <1>6, TilesDiscard
  <2>4. Escapes(g, 0)
    BY <2>1 DEF Escapes
  <2>5. Here + 1 - g.start - 1 = 0 /\ g.start # 0 /\ g.start < Here + 1
    BY <1>2, <1>6, <2>1
  <2>6. QED
    BY <1>2, <1>3, <1>5, <2>1, <2>2, <2>3, <2>4, <2>5
<1>8. CASE ByteCounts(h, g) \/ ByteEscapes(h, g)
  <2>1. g.start = h.start /\ g.got \in Nat /\ g.got <= h.got + 1
    BY <1>6, <1>8 DEF ByteCounts, ByteEscapes
  <2>2. Escapes(g, Here - h.start - 1 + 1)
    BY <1>2, <1>3, <1>6, <1>8, EscapesGoOn
  <2>3. Here - h.start - 1 + 1 = Here + 1 - h.start - 1
    BY <1>6
  <2>4. Tiles(lines, passed', h.start)
    <3>1. Tiles(lines, passed \o Discard(h.start, h.start, w), h.start)
      BY <1>2, <1>6, TilesDiscard
    <3>2. QED
      BY <1>5, <2>1, <3>1
  <2>5. CASE g.got # declared.size
    <3>1. held' = g /\ lines' = lines
      BY <1>5, <2>5
    <3>2. g.got < declared.size
      BY <1>2, <1>6, <2>1, <2>5
    <3>3. g.literal => ~g.escaped
      BY <1>8 DEF ByteCounts, ByteEscapes
    <3>4. held' \in SportState /\ held'.start # 0 /\ held'.start = h.start
      BY <1>3, <1>6, <2>1, <3>1
    <3>5. Escapes(held', Here + 1 - held'.start - 1)
      BY <2>2, <2>3, <3>1, <3>4
    <3>6. QED
      BY <1>2, <1>6, <2>4, <3>1, <3>2, <3>3, <3>4, <3>5
  <2>6. CASE g.got = declared.size
    <3> DEFINE e == [row |-> Here, from |-> h.start, to |-> Here + 1, wanted |-> i]
    <3>1. /\ held' = [g EXCEPT !.start = 0, !.idle = Here + 1, !.got = 0, !.packets = @ + 1]
          /\ lines' = Append(lines, e)
      BY <1>5, <2>6
    <3>2. ~g.escaped
      <4>1. ByteCounts(h, g)
        BY <1>2, <1>6, <1>8, <2>6 DEF ByteEscapes
      <4>2. QED
        BY <4>1 DEF ByteCounts
    <3>3. /\ held' \in SportState /\ held'.start = 0 /\ held'.idle = Here + 1 /\ held'.got = 0
          /\ held'.escaped = g.escaped
      <4>1. g.packets + 1 \in Nat /\ Here + 1 \in Nat
        BY <1>3 DEF SportState
      <4> DEFINE p == g.packets + 1
                 n == Here + 1
      <4>2. held' = [g EXCEPT !.start = 0, !.idle = n, !.got = 0, !.packets = p]
        BY <3>1
      <4> HIDE DEF p, n
      <4>3. /\ held' \in SportState /\ held'.start = 0 /\ held'.idle = n /\ held'.got = 0
            /\ held'.escaped = g.escaped
        BY <1>3, <4>1, <4>2 DEF SportState, p, n
      <4>4. QED
        BY <4>3 DEF n
    <3>4. e.from = h.start /\ e.to = Here + 1
      OBVIOUS
    <3> HIDE DEF e
    <3>5. Tiles(Append(lines, e), passed', e.to)
      BY <1>6, <2>4, <3>4, TilesLine
    <3>6. SportPacket(e)
      <4>1. g.got <= Here + 1 - h.start - 1 /\ Here + 1 - h.start - 1 <= 2 * g.got
        <5> DEFINE k == Here + 1 - h.start - 1
        <5>1. Escapes(g, k)
          BY <2>2, <2>3
        <5>2. k \in Nat
          BY <1>6, <2>3
        <5> HIDE DEF k
        <5>3. g.got + 0 <= k /\ k <= 2 * g.got + 0
          BY <3>2, <5>1 DEF Escapes
        <5>4. g.got <= k /\ k <= 2 * g.got
          BY <1>6, <5>2, <5>3
        <5>5. QED
          BY <5>4 DEF k
      <4>2. e.to - e.from - 1 = Here + 1 - h.start - 1
        <5> DEFINE a == e.from
                   b == e.to
        <5>1. a = h.start /\ b = Here + 1
          BY <3>4
        <5> HIDE DEF a, b
        <5>2. b - a - 1 = Here + 1 - h.start - 1
          BY <1>6, <5>1
        <5>3. QED
          BY <5>2 DEF a, b
      <4>3. declared.size <= e.to - e.from - 1 /\ e.to - e.from - 1 <= 2 * declared.size
        BY <2>6, <4>1, <4>2
      <4>4. QED
        BY <4>3 DEF SportPacket
    <3>7. \A n \in DOMAIN lines' : SportPacket(lines'[n])
      <4>1. IsRows(lines)
        BY <1>2 DEF Tiles
      <4>2. Further(lines, Append(lines, e), h.start, e)
        BY <4>1, OneFurther
      <4>3. QED
        BY <1>2, <3>1, <3>6, <4>2 DEF Further
    <3>8. QED
      BY <3>1, <3>2, <3>3, <3>4, <3>5, <3>7
  <2>7. QED
    BY <2>5, <2>6
<1>9. QED
  BY <1>3, <1>7, <1>8

(* A byte of S.Port keeps the account, inside a packet and outside. *)
LEMMA SportRecordInv ==
    ASSUME SportInv, SportRuns, NEW r, ReadOne(r), SportStream(r)
    PROVE  SportInv'
<1>1. verdict = "reading" /\ Here \in Nat /\ Here' = Here + 1 /\ declared' = declared
  BY DEF ReadOne, Here
<1>2. declared.size \in Nat /\ 0 < declared.size
  <2>1. declared \in Declared[converter]
    BY DEF ReadOne, SavedFile
  <2>2. \A d \in Declared[converter] : d.size \in Nat \ {0}
    BY StreamAssumption, Zenon DEF SportRuns
  <2>3. QED
    BY <2>1, <2>2
<1>3. \A x : SportPacket(x)' <=> SportPacket(x)
  BY <1>1 DEF SportPacket
<1>4. \A i \in DOMAIN lines : SportPacket(lines[i])
  BY <1>1 DEF SportInv
<1>5. CASE held.start = 0
  <2>1. /\ held' \in SportState /\ lines' = lines
        /\ held'.start = 0 => /\ Tiles(lines', passed', held'.idle) /\ held'.idle <= Here + 1
                              /\ held'.got = 0 /\ ~held'.escaped
        /\ held'.start # 0 => /\ Tiles(lines', passed', held'.start) /\ held'.start = Here
                              /\ held'.got < declared.size /\ (held'.literal => ~held'.escaped)
                              /\ Escapes(held', 0)
    BY <1>1, <1>2, <1>5, SportOpens
  <2>2. held'.start # 0 => held'.start < Here + 1 /\ Here + 1 - held'.start - 1 = 0
    BY <1>1, <2>1
  <2>3. QED
    BY <1>1, <1>3, <1>4, <2>1, <2>2 DEF SportInv, Escapes
<1>6. CASE held.start # 0
  <2>1. /\ held' \in SportState
        /\ held'.start = 0 => /\ Tiles(lines', passed', held'.idle) /\ held'.idle = Here + 1
                              /\ held'.got = 0 /\ ~held'.escaped
        /\ held'.start # 0 => /\ Tiles(lines', passed', held'.start) /\ held'.start < Here + 1
                              /\ held'.got < declared.size /\ (held'.literal => ~held'.escaped)
                              /\ Escapes(held', Here + 1 - held'.start - 1)
        /\ \A i \in DOMAIN lines' : SportPacket(lines'[i])
    BY <1>1, <1>2, <1>6, SportGoesOn
  <2>2. \A i \in DOMAIN lines' : SportPacket(lines[i])'
    <3> SUFFICES ASSUME NEW i \in DOMAIN lines' PROVE SportPacket(lines[i])'
      OBVIOUS
    <3> DEFINE x == lines'[i]
    <3>1. SportPacket(x)
      BY <2>1
    <3> HIDE DEF x
    <3>2. declared.size <= x.to - x.from - 1 /\ x.to - x.from - 1 <= 2 * declared.size
      BY <3>1 DEF SportPacket
    <3>3. declared'.size <= x.to - x.from - 1 /\ x.to - x.from - 1 <= 2 * declared'.size
      BY <1>1, <3>2
    <3>4. QED
      BY <3>3 DEF SportPacket, x
  <2>3. held'.start = 0 => held'.idle <= Here'
    BY <1>1, <2>1
  <2>4. held'.start # 0 => held'.start < Here'
    BY <1>1, <2>1
  <2>5. held'.start # 0 => Escapes(held, Here - held.start - 1)'
    <3> DEFINE k == Here + 1 - held'.start - 1
    <3>1. (Here - held.start - 1)' = k
      <4>1. (Here - held.start - 1)' = Here' - held'.start - 1
        OBVIOUS
      <4> DEFINE m == held'.start
                 n == Here'
      <4>2. m \in Nat
        BY <2>1 DEF SportState
      <4>3. n = Here + 1
        BY <1>1
      <4> HIDE DEF m, n
      <4>4. n - m - 1 = Here + 1 - m - 1
        BY <1>1, <4>2, <4>3
      <4>5. QED
        BY <4>1, <4>4 DEF m, n
    <3>2. held'.start # 0 => Escapes(held', k)
      BY <2>1
    <3> HIDE DEF k
    <3>3. QED
      BY <3>1, <3>2 DEF Escapes
  <2>6. (held \in SportState)' <=> held' \in SportState
    BY DEF SportState
  <2>7. QED
    BY <1>1, <2>1, <2>2, <2>3, <2>4, <2>5, <2>6 DEF SportInv
<1>7. QED
  BY <1>5, <1>6

(* When a stream is through. *)
StreamRuns == SportRuns \/ MspRuns \/ TrampRuns

StreamSize == IF SportRuns THEN Len(fed) ELSE TotalOf([n \in DOMAIN fed |-> fed[n].bytes])

StreamWhole ==
    LET ranges == ToSet(lines) \cup ToSet(passed)
        size   == StreamSize
    IN /\ Len(lines) + Len(passed) = Cardinality(ranges)
       /\ \A n \in 1..size : Cardinality({x \in ranges : x.from <= n /\ n < x.to}) = 1
       /\ \A x \in ranges : 1 <= x.from /\ x.to <= size + 1
       /\ \A i, j \in DOMAIN lines : i < j => lines[i].to <= lines[j].from
       /\ SportRuns => \A i \in DOMAIN lines :
             lines[i].to - lines[i].from - 1 \in declared.size..(2 * declared.size)

(* What the account of a stream says, before and after a step. *)
LEMMA StreamsSay ==
    /\ BytesAreAccounted <=> (StreamRuns /\ verdict = "converted" => StreamWhole)
    /\ BytesAreAccounted' <=> (StreamRuns' /\ verdict' = "converted" => StreamWhole')
  BY Zenon DEF BytesAreAccounted, StreamWhole, StreamSize, StreamRuns, SportRuns, MspRuns, TrampRuns

StreamInv == TrampInv /\ MspInv /\ SportInv

(* One script runs at a time. *)
LEMMA OneStream ==
    /\ SportRuns => ~MspRuns /\ ~TrampRuns
    /\ MspRuns => ~SportRuns /\ ~TrampRuns
    /\ TrampRuns => ~SportRuns /\ ~MspRuns
  BY Zenon DEF SportRuns, MspRuns, TrampRuns

(* A piece of any of the three streams keeps its account. *)
LEMMA StreamRecordInv ==
    ASSUME StreamInv, StreamRuns, NEW r, ReadOne(r), ConverterStep(r)
    PROVE  StreamInv'
<1>1. /\ SportRuns' = SportRuns /\ MspRuns' = MspRuns /\ TrampRuns' = TrampRuns
  BY DEF ReadOne, SportRuns, MspRuns, TrampRuns
<1>2. LinksStep(r)
  BY Zenon DEF ConverterStep, HostsStep, RoversStep, FlightStep, MissionsStep, FleetsStep,
     ServersStep, BagsStep, PacketsStep, StreamRuns, SportRuns, MspRuns, TrampRuns
<1>3. /\ SportRuns => SportStream(r)
      /\ MspRuns => MspStream(r)
      /\ TrampRuns => TrampReply(r)
  BY <1>2, Zenon DEF LinksStep, SportRuns, MspRuns, TrampRuns
<1>4. CASE SportRuns
  BY <1>1, <1>3, <1>4, OneStream, SportRecordInv DEF StreamInv, TrampInv, MspInv
<1>5. CASE MspRuns
  BY <1>1, <1>3, <1>5, OneStream, MspRecordInv DEF StreamInv, TrampInv, SportInv
<1>6. CASE TrampRuns
  BY <1>1, <1>3, <1>6, OneStream, TrampRecordInv DEF StreamInv, SportInv, MspInv
<1>7. QED
  BY <1>4, <1>5, <1>6 DEF StreamRuns

(* Lines and ranges that have every byte up to the end are the account.         *)
LEMMA TilesAreWhole ==
    ASSUME NEW f, Tiles(lines', passed', f), f = StreamSize' + 1, StreamSize' \in Nat,
           SportRuns' => /\ declared'.size \in Nat
                         /\ \A i \in DOMAIN lines' : SportPacket(lines[i])'
    PROVE  StreamWhole'
<1> DEFINE ls == lines'
           ps == passed'
           size == StreamSize'
           d == declared'.size
<1>0. Tiles(ls, ps, f) /\ f = size + 1 /\ size \in Nat
  OBVIOUS
<1>t. SportRuns' => /\ d \in Nat
                    /\ \A i \in DOMAIN ls : d <= ls[i].to - ls[i].from - 1 /\ ls[i].to - ls[i].from - 1 <= 2 * d
  BY DEF SportPacket
<1> HIDE DEF ls, ps, size, d
<1>1. f - 1 = size
  <2>1. \A n \in Nat : \A e : e = n + 1 => e - 1 = n
    OBVIOUS
  <2>2. QED
    BY <1>0, <2>1
<1>2. /\ Len(ls) + Len(ps) = Cardinality(ToSet(ls) \cup ToSet(ps))
      /\ \A n \in 1..(f - 1) : Cardinality({x \in ToSet(ls) \cup ToSet(ps) : x.from <= n /\ n < x.to}) = 1
      /\ \A x \in ToSet(ls) \cup ToSet(ps) : 1 <= x.from /\ x.to <= f
      /\ \A i, j \in DOMAIN ls : i < j => ls[i].to <= ls[j].from
  BY <1>0, TilesAccount
<1>3. /\ Len(ls) + Len(ps) = Cardinality(ToSet(ls) \cup ToSet(ps))
      /\ \A n \in 1..size : Cardinality({x \in ToSet(ls) \cup ToSet(ps) : x.from <= n /\ n < x.to}) = 1
      /\ \A x \in ToSet(ls) \cup ToSet(ps) : 1 <= x.from /\ x.to <= size + 1
      /\ \A i, j \in DOMAIN ls : i < j => ls[i].to <= ls[j].from
  BY <1>0, <1>1, <1>2
<1>4. ASSUME SportRuns', NEW i \in DOMAIN ls PROVE ls[i].to - ls[i].from - 1 \in d..(2 * d)
  <2>1. d <= ls[i].to - ls[i].from - 1 /\ ls[i].to - ls[i].from - 1 <= 2 * d /\ d \in Nat
    BY <1>t, <1>4
  <2>2. ls[i].to \in Nat /\ ls[i].from \in Nat
    BY <1>0 DEF Tiles, RangeUpTo
  <2>3. QED
    BY <2>1, <2>2
<1>5. QED
  BY <1>3, <1>4 DEF StreamWhole, ls, ps, size, d

(* At the end of a stream what is left over is discarded with a reason. *)
LEMMA StreamEnds ==
    ASSUME StreamInv, StreamRuns, SavedFile, SavedFile', ConverterEnd
    PROVE  StreamWhole'
<1>1. UNCHANGED <<converter, declared, fed, held>> /\ verdict = "reading"
  BY EndsOnce DEF Ending
<1>2. Len(fed) \in Nat /\ DOMAIN fed = 1..Len(fed) /\ Here = Len(fed) + 1 /\ Here \in Nat
  BY LenProperties DEF SavedFile, Here
<1>3. /\ SportRuns' = SportRuns /\ MspRuns' = MspRuns /\ TrampRuns' = TrampRuns
  BY <1>1 DEF SportRuns, MspRuns, TrampRuns
<1>4. SportRuns \/ (TotalOf(BytesOf(fed)) \in Nat /\ [n \in DOMAIN fed |-> fed[n].bytes] = BytesOf(fed))
  <2>1. [n \in DOMAIN fed |-> fed[n].bytes] = BytesOf(fed)
    BY <1>2 DEF BytesOf
  <2>2. ASSUME MspRuns \/ TrampRuns PROVE TotalOf(BytesOf(fed)) \in Nat
    <3>1. \A x \in Records[converter] : x.bytes \in Nat \ {0}
      BY <2>2, StreamAssumption, Zenon DEF MspRuns, TrampRuns
    <3>2. \A i \in DOMAIN fed : fed[i].bytes \in Nat
      BY <3>1 DEF SavedFile
    <3>3. Len(fed) \in Nat /\ BytesOf(fed) \in [1..Len(fed) -> Nat]
      BY <1>2, <3>2 DEF BytesOf
    <3>4. QED
      BY <3>3, PlacesAreFinite
  <2>3. QED
    BY <2>1, <2>2 DEF StreamRuns
<1>5. /\ SportRuns => StreamSize' = Len(fed)
      /\ ~SportRuns => StreamSize' = TotalOf(BytesOf(fed)) /\ TotalOf(BytesOf(fed)) \in Nat
  <2>1. StreamSize' = StreamSize
    BY <1>1, <1>3 DEF StreamSize
  <2>2. QED
    BY <1>4, <2>1 DEF StreamSize
<1>6. CASE TrampRuns
  <2>1. EndCarried
    BY <1>6, Zenon DEF ConverterEnd, TrampRuns
  <2>2. lines' = lines /\ passed' = passed
    BY <2>1 DEF EndCarried, Keeping
  <2>3. Tiles(lines, passed, held) /\ held = TotalOf(BytesOf(fed)) + 1
    BY <1>1, <1>6 DEF StreamInv, TrampInv
  <2>4. QED
    BY <1>3, <1>5, <1>6, <2>2, <2>3, OneStream, TilesAreWhole
<1>7. CASE MspRuns
  <2>1. MspEnd
    BY <1>7, Zenon DEF ConverterEnd, MspRuns
  <2>2. lines' = lines /\ passed' = passed \o Discard(held.idle, held.at, "unframed")
    BY <2>1 DEF MspEnd
  <2>3. ~SportRuns
    BY <1>7, OneStream
  <2>4. Tiles(lines, passed, held.idle) /\ held.at = TotalOf(BytesOf(fed)) + 1 /\ held.idle <= held.at
        /\ held.at \in Nat
    BY <1>1, <1>5, <1>7, <2>3 DEF StreamInv, MspInv
  <2>5. Tiles(lines', passed', held.at)
    BY <2>2, <2>4, TilesDiscard
  <2>6. QED
    BY <1>3, <1>5, <2>3, <2>4, <2>5, TilesAreWhole
<1>8. CASE SportRuns
  <2>1. SportEnd
    BY <1>8, Zenon DEF ConverterEnd, SportRuns
  <2>2. \E w : /\ lines' = lines
               /\ passed' = passed \o (IF held.start = 0 THEN Discard(held.idle, Here, "unframed")
                                                         ELSE Discard(held.start, Here, w))
    BY <2>1, Zenon DEF SportEnd
  <2>3. PICK w : /\ lines' = lines
                 /\ passed' = passed \o (IF held.start = 0 THEN Discard(held.idle, Here, "unframed")
                                                           ELSE Discard(held.start, Here, w))
    BY <2>2, Zenon
  <2>4. /\ held.start = 0 => Tiles(lines, passed, held.idle) /\ held.idle <= Here
        /\ held.start # 0 => Tiles(lines, passed, held.start) /\ held.start <= Here
        /\ \A i \in DOMAIN lines : SportPacket(lines[i])
    <3>1. /\ held \in SportState
          /\ held.start = 0 => Tiles(lines, passed, held.idle) /\ held.idle <= Here
          /\ held.start # 0 => Tiles(lines, passed, held.start) /\ held.start < Here
          /\ \A i \in DOMAIN lines : SportPacket(lines[i])
      BY <1>1, <1>8 DEF StreamInv, SportInv
    <3>2. held.start < Here => held.start <= Here
      BY <1>2, <3>1 DEF SportState
    <3>3. QED
      BY <3>1, <3>2
  <2>5. Tiles(lines', passed', Here)
    <3>1. CASE held.start = 0
      BY <1>2, <2>3, <2>4, <3>1, TilesDiscard
    <3>2. CASE held.start # 0
      BY <1>2, <2>3, <2>4, <3>2, TilesDiscard
    <3>3. QED
      BY <3>1, <3>2
  <2>6. declared'.size \in Nat
    <3>1. \A d \in Declared[converter] : d.size \in Nat \ {0}
      BY <1>8, StreamAssumption, Zenon DEF SportRuns
    <3>2. QED
      BY <1>1, <3>1 DEF SavedFile
  <2>7. \A i \in DOMAIN lines' : SportPacket(lines[i])'
    <3>1. \A x : SportPacket(x) <=> declared.size <= x.to - x.from - 1 /\ x.to - x.from - 1 <= 2 * declared.size
      BY DEF SportPacket
    <3>2. QED
      BY <1>1, <2>3, <2>4, <3>1 DEF SportPacket
  <2>8. QED
    BY <1>2, <1>3, <1>5, <1>8, <2>5, <2>6, <2>7, TilesAreWhole
<1>9. QED
  BY <1>6, <1>7, <1>8 DEF StreamRuns

(* Each byte of a converted stream is in one packet or one discarded range. *)
LEMMA StreamsHold == ConverterSpec => []BytesAreAccounted
<1> DEFINE J == StreamInv /\ BytesAreAccounted
<1>1. ConverterInit => J
  <2>1. ConverterInit => fed = <<>> /\ lines = <<>> /\ passed = <<>> /\ verdict = "reading"
                         /\ declared \in Declared[converter]
    BY DEF ConverterInit, Starting
  <2>2. /\ ConverterInit /\ TrampRuns => held = 1
        /\ ConverterInit /\ MspRuns => held = [at |-> 1, idle |-> 1]
        /\ ConverterInit /\ SportRuns => held = SportStart
    BY Zenon DEF ConverterInit, Starting, ConverterStart, TrampRuns, MspRuns, SportRuns
  <2>3. TotalOf(BytesOf(<<>>)) = 0
    <3>1. DOMAIN BytesOf(<<>>) = {}
      BY EmptySeq DEF BytesOf
    <3>2. QED
      BY <3>1, TotalOfNone
  <2>4. ConverterInit => TrampInv
    BY <2>1, <2>2, <2>3, TilesNothing DEF TrampInv
  <2>5. ConverterInit => MspInv
    BY <2>1, <2>2, <2>3, TilesNothing DEF MspInv
  <2>6. ConverterInit => SportInv
    <3>1. /\ SportStart \in SportState /\ SportStart.start = 0 /\ SportStart.idle = 1
          /\ SportStart.got = 0 /\ ~SportStart.escaped
      BY DEF SportStart, SportState
    <3>2. ConverterInit => Here = 1 /\ DOMAIN lines = {}
      BY <2>1 DEF Here
    <3>3. QED
      BY <2>1, <2>2, <3>1, <3>2, TilesNothing DEF SportInv
  <2>7. ConverterInit => BytesAreAccounted
    BY <2>1, StreamsSay
  <2>8. QED
    BY <2>4, <2>5, <2>6, <2>7 DEF StreamInv
<1>2. SavedFile /\ SavedFile' /\ J /\ [ConverterNext]_linesVars => J'
  <2> SUFFICES ASSUME SavedFile, SavedFile', J, [ConverterNext]_linesVars
               PROVE  J'
    OBVIOUS
  <2>0. SportRuns' = SportRuns /\ MspRuns' = MspRuns /\ TrampRuns' = TrampRuns /\ StreamRuns' = StreamRuns
    BY SameScript DEF SportRuns, MspRuns, TrampRuns, StreamRuns
  <2>1. CASE ~StreamRuns
    BY <2>0, <2>1, StreamsSay DEF StreamInv, TrampInv, MspInv, SportInv, StreamRuns
  <2>2. ASSUME StreamRuns, NEW r \in Records[converter], Taking(r), ConverterStep(r) PROVE J'
    <3>1. ReadOne(r)
      BY <2>2, RecordRead
    <3>2. StreamInv'
      BY <2>2, <3>1, StreamRecordInv
    <3>3. verdict' # "converted"
      BY <3>1 DEF ReadOne
    <3>4. QED
      BY <3>2, <3>3, StreamsSay
  <2>3. ASSUME StreamRuns, ConverterEnd PROVE J'
    <3>1. verdict' = "converted"
      BY <2>3, EndsOnce DEF Ending
    <3>2. StreamWhole'
      BY <2>3, StreamEnds
    <3>3. QED
      BY <3>1, <3>2, StreamsSay DEF StreamInv, TrampInv, MspInv, SportInv
  <2>4. CASE Refuse
    <3>1. verdict' = "refused"
      BY <2>4 DEF Refuse
    <3>2. QED
      BY <3>1, StreamsSay DEF StreamInv, TrampInv, MspInv, SportInv
  <2>5. CASE UNCHANGED linesVars
    <3>1. UNCHANGED <<declared, fed, lines, passed, held, verdict>> /\ Here' = Here
      BY <2>5 DEF linesVars, Here
    <3>2. StreamWhole' <=> StreamWhole
      BY <2>0, <3>1 DEF StreamWhole, StreamSize
    <3>3. TrampInv'
      BY <2>0, <3>1 DEF StreamInv, TrampInv, BytesOf
    <3>4. MspInv'
      BY <2>0, <3>1 DEF StreamInv, MspInv, BytesOf
    <3>5. SportInv'
      BY <2>0, <3>1 DEF StreamInv, SportInv, Escapes, SportPacket
    <3>6. QED
      BY <2>0, <3>1, <3>2, <3>3, <3>4, <3>5, StreamsSay DEF StreamInv
  <2>6. QED
    BY <2>1, <2>2, <2>3, <2>4, <2>5 DEF ConverterNext
<1>3. QED
  <2> HIDE DEF J
  <2>1. ConverterSpec => []J
    BY <1>1, <1>2, FileIsSaved, PTL DEF ConverterSpec
  <2>2. J => BytesAreAccounted
    BY DEF J
  <2>3. QED
    BY <2>1, <2>2, PTL

(* Whatever the file, what a converter does not carry it counts. *)
THEOREM NothingIsLost == ConverterSpec => []AccountsAreComplete
<1>1. BytesAreAccounted /\ RunsCoverTheMap /\ RecordsAreAccounted => AccountsAreComplete
  BY DEF AccountsAreComplete
<1>2. QED
  BY <1>1, StreamsHold, MapHolds, AccountsHold, PTL

-----------------------------------------------------------------------------
(* The fragments of a ULog stream. *)

UlogRuns == converter = "mavlink ulog"

(* The fragment after another has the next number, and 0 comes after 65535.     *)
Follows(a, b) == a.sender = b.sender /\ b.seq \in {a.seq + 1, 0} /\ (b.seq = 0 => a.seq = SequenceModulo - 1)

(* The sender and the last row kept are those of the last line.                 *)
UlogInv ==
    UlogRuns =>
        /\ IsRows(lines)
        /\ \A i \in DOMAIN lines : lines[i].row \in DOMAIN fed
        /\ Len(lines) = 0 => held.last = Absent
        /\ Len(lines) # 0 => /\ held.last = lines[Len(lines)].row
                             /\ held.sender = fed[held.last].sender
        /\ \A i, j \in DOMAIN lines : j = i + 1 => Follows(fed[lines[i].row], fed[lines[j].row])

(* The number one more, where numbers begin again. *)
LEMMA NextNumber ==
    ASSUME NEW n \in Nat, n > 1, NEW a \in 0..(n - 1), NEW b \in 0..(n - 1), (b - a) % n = 1
    PROVE  b \in {a + 1, 0} /\ (b = 0 => a = n - 1)
<1>1. b = a + 1 \/ (b = 0 /\ a = n - 1)
  OBVIOUS
<1>2. QED
  BY <1>1

(* A fragment that is carried follows the one carried last. *)
LEMMA UlogRecordInv ==
    ASSUME UlogInv, UlogRuns, NEW r, ReadOne(r), UlogFragment(r)
    PROVE  UlogInv'
<1>1. /\ IsRows(lines) /\ Len(lines) \in Nat /\ DOMAIN lines = 1..Len(lines)
      /\ \A i \in DOMAIN lines : lines[i].row \in DOMAIN fed
      /\ Len(lines) = 0 => held.last = Absent
      /\ Len(lines) # 0 => held.last = lines[Len(lines)].row /\ held.sender = fed[held.last].sender
      /\ \A i, j \in DOMAIN lines : j = i + 1 => Follows(fed[lines[i].row], fed[lines[j].row])
  <2>1. IsRows(lines)
    BY DEF UlogInv
  <2>2. Len(lines) \in Nat /\ DOMAIN lines = 1..Len(lines)
    BY <2>1, AppendedRow
  <2>3. QED
    BY <2>1, <2>2 DEF UlogInv
<1>2. /\ DOMAIN fed' = DOMAIN fed \cup {Here} /\ Here \notin DOMAIN fed
      /\ \A i \in DOMAIN fed : fed'[i] = fed[i]
      /\ fed'[Here] = r /\ UlogRuns' /\ DOMAIN fed \subseteq Nat /\ Here \in Nat
  <2>1. UlogRuns'
    BY Zenon DEF ReadOne, UlogRuns
  <2>2. QED
    BY <2>1 DEF ReadOne
<1>3. \A x \in Records[converter] : x.sender # Absent /\ x.seq \in 0..(SequenceModulo - 1)
  BY PartAssumption DEF UlogRuns
<1>4. r \in Records[converter] /\ \A i \in DOMAIN fed : fed[i] \in Records[converter]
  BY DEF ReadOne, SavedFile
<1>5. CASE UNCHANGED <<lines, held>>
  BY <1>1, <1>2, <1>5 DEF UlogInv
<1>6. CASE ~UNCHANGED <<lines, held>>
  <2>1. PICK w : /\ r.kind = "log" /\ held.sender \in {Absent, r.sender} /\ UlogNext(r)
                 /\ held' = [sender |-> r.sender, last |-> Here]
                 /\ lines' = Append(lines, [row |-> Here, wraps |-> w])
    BY <1>6 DEF UlogFragment, Hold, Carry, PassOver
  <2> DEFINE e == [row |-> Here, wraps |-> w]
             t == Append(lines, e)
             k == Len(lines)
  <2>2. /\ IsRows(t) /\ DOMAIN t = 1..(k + 1)
        /\ \A i \in DOMAIN lines : t[i] = lines[i]
        /\ t[k + 1] = e
    BY <1>1, AppendedRow
  <2>3. Len(t) = k + 1
    <3>1. PICK S : lines \in Seq(S)
      BY <1>1 DEF IsRows
    <3>2. QED
      BY <3>1
  <2>4. e.row = Here
    OBVIOUS
  <2>5. lines' = t
    BY <2>1
  <2> HIDE DEF e, t
  <2>6. held'.last = Here /\ held'.sender = r.sender
    BY <2>1
  <2>7. ASSUME NEW i \in 1..(k + 1), NEW j \in 1..(k + 1), j = i + 1
        PROVE  Follows(fed'[t[i].row], fed'[t[j].row])
    <3>1. i \in 1..k
      BY <1>1, <2>7
    <3>2. fed'[t[i].row] = fed[lines[i].row]
      BY <1>1, <1>2, <2>2, <3>1
    <3>3. CASE j \in 1..k
      <4>1. fed'[t[j].row] = fed[lines[j].row]
        BY <1>1, <1>2, <2>2, <3>3
      <4>2. QED
        BY <1>1, <2>7, <3>1, <3>2, <3>3, <4>1
    <3>4. CASE j = k + 1
      <4>1. i = k /\ k # 0
        <5>1. i \in Nat /\ k \in Nat /\ i >= 1
          BY <1>1, <3>1
        <5> HIDE DEF k
        <5>2. i + 1 = k + 1
          BY <2>7, <3>4
        <5>3. QED
          BY <5>1, <5>2
      <4>2. /\ held.last = lines[k].row /\ held.last \in DOMAIN fed
            /\ held.sender = fed[held.last].sender
        BY <1>1, <3>1, <4>1
      <4>3. held.last # Absent
        BY <1>2, <4>2, EchoAssumption
      <4>4. (r.seq - fed[held.last].seq) % SequenceModulo = 1
        BY <2>1, <4>3 DEF UlogNext, UlogStep
      <4>5. r.seq \in 0..(SequenceModulo - 1) /\ fed[held.last].seq \in 0..(SequenceModulo - 1) /\ fed[held.last].sender # Absent
        BY <1>3, <1>4, <4>2
      <4>6. r.seq \in {fed[held.last].seq + 1, 0} /\ (r.seq = 0 => fed[held.last].seq = SequenceModulo - 1)
        <5>1. SequenceModulo \in Nat /\ SequenceModulo > 1
          BY DEF SequenceModulo
        <5>2. QED
          BY <4>4, <4>5, <5>1, NextNumber
      <4>7. r.sender = fed[held.last].sender
        BY <2>1, <4>2, <4>5
      <4>8. fed'[t[j].row] = r
        BY <1>2, <2>2, <2>4, <3>4
      <4>9. QED
        BY <3>2, <4>1, <4>2, <4>6, <4>7, <4>8 DEF Follows
    <3>5. QED
      BY <1>1, <3>3, <3>4
  <2>8. \A i \in DOMAIN t : t[i].row \in DOMAIN fed'
    BY <1>1, <1>2, <2>2, <2>4
  <2>9. k + 1 # 0
    BY <1>1
  <2>10. /\ UlogRuns' /\ IsRows(t) /\ Len(t) # 0 /\ held'.last = t[Len(t)].row
         /\ held'.sender = fed'[held'.last].sender
    BY <1>2, <2>2, <2>3, <2>4, <2>6, <2>9
  <2>11. \A i, j \in DOMAIN t : j = i + 1 => Follows(fed'[t[i].row], fed'[t[j].row])
    BY <2>2, <2>7
  <2>12. QED
    BY <2>5, <2>8, <2>10, <2>11 DEF UlogInv
<1>7. QED
  BY <1>5, <1>6

(* The carried fragments of a ULog stream leave no gap. *)
LEMMA UlogHolds == ConverterSpec => []UlogIsGapless
<1>1. ConverterInit => UlogInv
  <2>1. ConverterInit => lines = <<>>
    BY DEF ConverterInit, Starting
  <2>2. IsRows(<<>>) /\ DOMAIN <<>> = {} /\ Len(<<>>) = 0
    BY FewRows
  <2>3. ConverterInit /\ UlogRuns => held = [sender |-> declared, last |-> Absent]
    BY Zenon DEF ConverterInit, Starting, ConverterStart, UlogRuns
  <2>4. QED
    BY <2>1, <2>2, <2>3 DEF UlogInv
<1>2. SavedFile /\ UlogInv /\ [ConverterNext]_linesVars => UlogInv'
  <2> SUFFICES ASSUME SavedFile, UlogInv, [ConverterNext]_linesVars, UlogRuns
               PROVE  UlogInv'
    BY SameScript DEF UlogInv, UlogRuns
  <2>1. ASSUME NEW r \in Records[converter], Taking(r), ConverterStep(r) PROVE UlogInv'
    <3>1. UlogFragment(r)
      BY <2>1, Zenon DEF ConverterStep, HostsStep, RoversStep, FlightStep, MissionsStep, LinksStep, FleetsStep,
         ServersStep, BagsStep, PacketsStep, UlogRuns
    <3>2. QED
      BY <2>1, <3>1, RecordRead, UlogRecordInv
  <2>2. CASE ConverterEnd \/ Refuse \/ UNCHANGED linesVars
    <3>1. ConverterEnd => UlogEnd
      BY Zenon DEF ConverterEnd, UlogRuns
    <3>2. UNCHANGED <<converter, fed, lines, held>>
      BY <2>2, <3>1 DEF UlogEnd, EndCarried, Ending, Keeping, Refuse, linesVars
    <3>3. QED
      BY <3>2 DEF UlogInv, UlogRuns
  <2>3. QED
    BY <2>1, <2>2 DEF ConverterNext
<1>3. UlogInv => UlogIsGapless
  BY Zenon DEF UlogInv, UlogIsGapless, UlogRuns, Follows
<1>4. QED
  BY <1>1, <1>2, <1>3, FileIsSaved, PTL DEF ConverterSpec

-----------------------------------------------------------------------------
(* Messages in several WebSocket frames. *)

SocketRuns == converter = "rmf websocket"

(* From the first frame on, a frame read is one of the message's, or a control  *)
(* frame; the first is a text frame, the others continue it, and only the frame *)
(* named last is final.                                                         *)
FrameAt(frames, f, n, last) ==
    IF \E k \in DOMAIN frames : frames[k] = n
    THEN (f[n].op = "text" <=> n = frames[1]) /\ (f[n].final <=> n = last)
    ELSE f[n].op = "control"

Spans(frames, f, upto, last) ==
    /\ frames \in Seq(Nat) /\ Len(frames) # 0
    /\ \A k \in DOMAIN frames : frames[k] \in DOMAIN f
    /\ f[frames[1]].op = "text"
    /\ \A n \in frames[1]..upto : FrameAt(frames, f, n, last)

WholeMessage(frames, f) == Spans(frames, f, Last(frames), Last(frames))

OpenMessage(frames, f, n) == frames # Absent /\ Spans(frames, f, n, 0)

SocketInv ==
    SocketRuns =>
        /\ IsRows(lines)
        /\ \A i \in DOMAIN lines : WholeMessage(lines[i].frames, fed)
        /\ held = Absent \/ OpenMessage(held, fed, Len(fed))

(* Frames read later change nothing in what was put together before. *)
LEMMA SpansStay ==
    ASSUME NEW r, ReadOne(r), NEW frames, NEW upto \in DOMAIN fed, NEW last, Spans(frames, fed, upto, last)
    PROVE  Spans(frames, fed', upto, last)
<1>1. /\ DOMAIN fed' = DOMAIN fed \cup {Here} /\ \A i \in DOMAIN fed : fed'[i] = fed[i]
      /\ DOMAIN fed = 1..Len(fed) /\ Len(fed) \in Nat
  BY DEF ReadOne
<1>2. frames \in Seq(Nat) /\ Len(frames) # 0 /\ \A k \in DOMAIN frames : frames[k] \in DOMAIN fed
  BY DEF Spans
<1>3. 1 \in DOMAIN frames
  BY <1>2
<1>4. frames[1] \in DOMAIN fed
  BY <1>2, <1>3
<1>5. \A n \in frames[1]..upto : n \in DOMAIN fed
  BY <1>1, <1>4
<1>6. ASSUME NEW n \in frames[1]..upto PROVE FrameAt(frames, fed', n, last)
  <2>1. FrameAt(frames, fed, n, last) /\ fed'[n] = fed[n]
    BY <1>1, <1>5 DEF Spans
  <2>2. QED
    BY <2>1 DEF FrameAt
<1>7. \A k \in DOMAIN frames : frames[k] \in DOMAIN fed'
  BY <1>1, <1>2
<1>8. fed'[frames[1]].op = "text"
  BY <1>1, <1>4 DEF Spans
<1>9. QED
  BY <1>2, <1>6, <1>7, <1>8 DEF Spans

(* A frame that is not a control frame goes behind those of the open message. *)
LEMMA FrameJoins ==
    ASSUME SocketInv, SocketRuns, NEW r, ReadOne(r), r.op # "control", GoesOn(r),
           NEW last, last = IF r.final THEN Here ELSE 0
    PROVE  Spans(Append(IF held = Absent THEN <<>> ELSE held, Here), fed', Here, last)
<1> DEFINE h == IF held = Absent THEN <<>> ELSE held
           g == Append(h, Here)
<1>1. /\ DOMAIN fed' = DOMAIN fed \cup {Here} /\ Here \notin DOMAIN fed
      /\ \A i \in DOMAIN fed : fed'[i] = fed[i] /\ fed'[Here] = r
      /\ DOMAIN fed = 1..Len(fed) /\ Len(fed) \in Nat /\ Here = Len(fed) + 1 /\ fed'[Here] = r
  BY DEF ReadOne
<1>2. r.op \in {"text", "more", "control"}
  <2>1. \A x \in Records[converter] : x.op \in {"text", "more", "control"}
    BY PartAssumption, Zenon DEF SocketRuns
  <2>2. QED
    BY <2>1 DEF ReadOne
<1>3. CASE held = Absent
  <2>1. h = <<>> /\ g = <<Here>>
    BY <1>3
  <2>2. r.op = "text"
    BY <1>2, <1>3 DEF GoesOn
  <2> HIDE DEF g, h
  <2>3. g \in Seq(Nat) /\ Len(g) # 0 /\ DOMAIN g = {1} /\ g[1] = Here
    BY <1>1, <2>1
  <2>4. \A n \in Here..Here : n = Here
    BY <1>1
  <2>5. fed'[Here].final <=> Here = last
    BY <1>1
  <2>6. FrameAt(g, fed', Here, last)
    BY <1>1, <2>2, <2>3, <2>5 DEF FrameAt
  <2>7. \A i \in DOMAIN g : g[i] \in DOMAIN fed'
    BY <1>1, <2>3
  <2>8. fed'[g[1]].op = "text" /\ \A n \in g[1]..Here : FrameAt(g, fed', n, last)
    BY <1>1, <2>2, <2>3, <2>4, <2>6
  <2>9. Spans(g, fed', Here, last)
    BY <2>3, <2>7, <2>8 DEF Spans
  <2>10. QED
    BY <2>9 DEF g, h
<1>4. CASE held # Absent
  <2>1. h = held /\ Spans(h, fed, Len(fed), 0)
    BY <1>4 DEF SocketInv, OpenMessage
  <2>2. r.op # "text"
    BY <1>2, <1>4 DEF GoesOn
  <2> DEFINE k == Len(h)
  <2>3. /\ h \in Seq(Nat) /\ k # 0 /\ \A i \in DOMAIN h : h[i] \in DOMAIN fed
        /\ fed[h[1]].op = "text"
        /\ \A n \in h[1]..Len(fed) :
              IF \E i \in DOMAIN h : h[i] = n
              THEN (fed[n].op = "text" <=> n = h[1]) /\ (fed[n].final <=> n = 0)
              ELSE fed[n].op = "control"
    BY <2>1 DEF Spans, FrameAt
  <2> HIDE DEF h
  <2>4. k \in Nat /\ DOMAIN h = 1..k
    BY <2>3
  <2>5. /\ g \in Seq(Nat) /\ Len(g) = k + 1 /\ DOMAIN g = 1..(k + 1)
        /\ \A i \in 1..k : g[i] = h[i]
        /\ g[k + 1] = Here
    BY <1>1, <2>3, <2>4
  <2> HIDE DEF g, k
  <2>6. 1 \in 1..k /\ k + 1 \in 1..(k + 1) /\ 1..k \subseteq 1..(k + 1) /\ k + 1 # 0
    BY <2>3, <2>4
  <2>7. g[1] = h[1] /\ h[1] \in DOMAIN fed
    BY <2>3, <2>4, <2>5, <2>6
  <2>8. \A n : (\E i \in DOMAIN g : g[i] = n) <=> (\E i \in DOMAIN h : h[i] = n) \/ n = Here
    <3>1. \A i \in 1..(k + 1) : i \in 1..k \/ i = k + 1
      BY <2>4
    <3>2. QED
      BY <2>4, <2>5, <2>6, <3>1
  <2>9. \A n \in h[1]..Here : n \in h[1]..Len(fed) \/ n = Here
    BY <1>1, <2>7
  <2>10. \A n \in h[1]..Len(fed) : n \in DOMAIN fed /\ n # 0 /\ n # Here
    BY <1>1, <2>7
  <2>11. ASSUME NEW n \in g[1]..Here
         PROVE  FrameAt(g, fed', n, last)
    <3>1. CASE n \in h[1]..Len(fed)
      <4>1. n \in DOMAIN fed /\ n # 0 /\ n # Here /\ fed'[n] = fed[n]
        BY <1>1, <2>10, <3>1
      <4>2. n # last
        BY <4>1
      <4>3. CASE \E i \in DOMAIN h : h[i] = n
        <5>1. (fed[n].op = "text" <=> n = h[1]) /\ ~fed[n].final
          BY <2>3, <3>1, <4>1, <4>3
        <5>2. QED
          BY <2>7, <2>8, <4>1, <4>2, <4>3, <5>1 DEF FrameAt
      <4>4. CASE ~\E i \in DOMAIN h : h[i] = n
        BY <2>3, <2>8, <3>1, <4>1, <4>4 DEF FrameAt
      <4>5. QED
        BY <4>3, <4>4
    <3>2. CASE n = Here
      <4>1. n # g[1]
        BY <1>1, <2>7, <3>2
      <4>2. fed'[n].final <=> n = last
        BY <1>1, <3>2
      <4>3. QED
        BY <1>1, <2>2, <2>8, <3>2, <4>1, <4>2 DEF FrameAt
    <3>3. QED
      BY <2>7, <2>9, <3>1, <3>2
  <2>12. \A i \in DOMAIN g : g[i] \in DOMAIN fed'
    BY <1>1, <2>3, <2>8
  <2>13. fed'[g[1]].op = "text" /\ Len(g) # 0
    BY <1>1, <2>3, <2>5, <2>6, <2>7
  <2>14. Spans(g, fed', Here, last)
    BY <2>5, <2>11, <2>12, <2>13 DEF Spans
  <2>15. QED
    BY <2>14 DEF g, h
<1>5. QED
  BY <1>3, <1>4

(* A control frame stands in the middle of a message, or between two. *)
LEMMA FrameStandsBy ==
    ASSUME NEW r, ReadOne(r), r.op = "control", NEW h, OpenMessage(h, fed, Len(fed))
    PROVE  OpenMessage(h, fed', Here)
<1>1. /\ DOMAIN fed' = DOMAIN fed \cup {Here} /\ Here \notin DOMAIN fed
      /\ \A i \in DOMAIN fed : fed'[i] = fed[i] /\ fed'[Here] = r
      /\ DOMAIN fed = 1..Len(fed) /\ Len(fed) \in Nat /\ Here = Len(fed) + 1 /\ fed'[Here] = r
  BY DEF ReadOne
<1>2. /\ h \in Seq(Nat) /\ Len(h) # 0 /\ h # Absent
      /\ \A k \in DOMAIN h : h[k] \in DOMAIN fed
      /\ fed[h[1]].op = "text"
      /\ \A n \in h[1]..Len(fed) : FrameAt(h, fed, n, 0)
  BY DEF OpenMessage, Spans
<1>3. h[1] \in DOMAIN fed
  BY <1>2
<1>4. ASSUME NEW n \in h[1]..Here PROVE FrameAt(h, fed', n, 0)
  <2>1. CASE n = Here
    <3>1. ~\E k \in DOMAIN h : h[k] = n
      BY <1>1, <1>2, <2>1
    <3>2. QED
      BY <1>1, <2>1, <3>1 DEF FrameAt
  <2>2. CASE n # Here
    <3>1. n \in h[1]..Len(fed) /\ n \in DOMAIN fed
      BY <1>1, <1>3, <2>2
    <3>2. FrameAt(h, fed, n, 0) /\ fed'[n] = fed[n]
      BY <1>1, <1>2, <3>1
    <3>3. QED
      BY <3>2 DEF FrameAt
  <2>3. QED
    BY <2>1, <2>2
<1>5. (\A k \in DOMAIN h : h[k] \in DOMAIN fed') /\ fed'[h[1]].op = "text"
  BY <1>1, <1>2, <1>3
<1>6. QED
  BY <1>2, <1>4, <1>5 DEF OpenMessage, Spans

(* A frame keeps the messages before it whole, and the open one open. *)
LEMMA SocketRecordInv ==
    ASSUME SocketInv, SocketRuns, NEW r, ReadOne(r), SocketFrame(r)
    PROVE  SocketInv'
<1>1. /\ IsRows(lines) /\ \A i \in DOMAIN lines : WholeMessage(lines[i].frames, fed)
      /\ held = Absent \/ OpenMessage(held, fed, Len(fed))
  BY DEF SocketInv
<1>2. Len(fed') = Here /\ Here \in Nat /\ fed'[Here] = r
  BY DEF ReadOne
<1>3. \A i \in DOMAIN lines : WholeMessage(lines[i].frames, fed')
  <2> SUFFICES ASSUME NEW i \in DOMAIN lines PROVE WholeMessage(lines[i].frames, fed')
    OBVIOUS
  <2> DEFINE g == lines[i].frames
  <2>1. Spans(g, fed, Last(g), Last(g))
    BY <1>1 DEF WholeMessage
  <2>2. g \in Seq(Nat) /\ Len(g) # 0 /\ \A k \in DOMAIN g : g[k] \in DOMAIN fed
    BY <2>1 DEF Spans
  <2> HIDE DEF g
  <2>3. Len(g) \in DOMAIN g
    BY <2>2
  <2>4. Last(g) \in DOMAIN fed
    BY <2>2, <2>3 DEF Last
  <2>5. Spans(g, fed', Last(g), Last(g))
    BY <2>1, <2>4, SpansStay
  <2>6. QED
    BY <2>5 DEF WholeMessage, g
<1>4. /\ IsRows(lines') /\ \A i \in DOMAIN lines' : WholeMessage(lines'[i].frames, fed')
      /\ held' = Absent \/ OpenMessage(held', fed', Len(fed'))
      => SocketInv'
  BY DEF SocketInv
<1>5. CASE r.op = "control"
  <2>1. lines' = lines /\ held' = held
    BY <1>5, Zenon DEF SocketFrame, PassOver
  <2>2. QED
    BY <1>1, <1>2, <1>3, <1>4, <1>5, <2>1, FrameStandsBy
<1>6. CASE r.op # "control"
  <2> DEFINE h == IF held = Absent THEN <<>> ELSE held
             g == Append(h, Here)
  <2>1. /\ GoesOn(r)
        /\ ~r.final => lines' = lines /\ held' = g
        /\ r.final => /\ held' = Absent
                      /\ \/ lines' = lines
                         \/ \E w : lines' = Append(lines, [row |-> Here, index |-> w, frames |-> g])
    BY <1>6, Zenon DEF SocketFrame, PassOver, Keeping, Hold, Carry, Message
  <2>2. CASE ~r.final
    <3>1. Spans(g, fed', Here, 0)
      BY <1>6, <2>1, <2>2, FrameJoins
    <3>2. g \in Seq(Nat)
      BY <3>1 DEF Spans
    <3>3. g # Absent
      BY <3>2, PartAssumption
    <3> HIDE DEF g
    <3>4. OpenMessage(g, fed', Here)
      BY <3>1, <3>3 DEF OpenMessage
    <3>5. QED
      BY <1>1, <1>2, <1>3, <1>4, <2>1, <2>2, <3>4
  <2>3. CASE r.final
    <3>1. Spans(g, fed', Here, Here)
      BY <1>6, <2>1, <2>3, FrameJoins
    <3>2. h \in Seq(Nat)
      <4>1. CASE held = Absent
        BY <4>1
      <4>2. CASE held # Absent
        BY <1>1, <4>2 DEF OpenMessage, Spans
      <4>3. QED
        BY <4>1, <4>2
    <3> HIDE DEF h
    <3>3. Last(g) = Here
      BY <1>2, <3>2 DEF Last
    <3> HIDE DEF g
    <3>4. WholeMessage(g, fed')
      BY <3>1, <3>3 DEF WholeMessage
    <3>5. CASE lines' = lines
      BY <1>1, <1>3, <1>4, <2>1, <2>3, <3>5
    <3>6. CASE lines' # lines
      <4>1. PICK w : lines' = Append(lines, [row |-> Here, index |-> w, frames |-> g])
        BY <2>1, <2>3, <3>6
      <4> DEFINE e == [row |-> Here, index |-> w, frames |-> g]
                 t == Append(lines, e)
      <4>2. e.frames = g /\ lines' = t
        BY <4>1
      <4> HIDE DEF e
      <4>3. /\ IsRows(t) /\ Len(lines) \in Nat /\ DOMAIN lines = 1..Len(lines) /\ DOMAIN t = 1..(Len(lines) + 1)
            /\ \A i \in DOMAIN lines : t[i] = lines[i]
            /\ t[Len(lines) + 1] = e
        BY <1>1, AppendedRow
      <4> HIDE DEF t
      <4>4. \A i \in DOMAIN t : i \in DOMAIN lines \/ i = Len(lines) + 1
        BY <4>3
      <4>5. \A i \in DOMAIN t : WholeMessage(t[i].frames, fed')
        BY <1>3, <3>4, <4>2, <4>3, <4>4
      <4>6. QED
        BY <1>4, <2>1, <2>3, <4>2, <4>3, <4>5
    <3>7. QED
      BY <3>5, <3>6
  <2>4. QED
    BY <2>2, <2>3
<1>7. QED
  BY <1>5, <1>6

(* A message that is carried has all its frames, and no other message's. *)
LEMMA SocketHolds == ConverterSpec => []MessagesAreWhole
<1>1. ConverterInit => SocketInv
  <2>1. ConverterInit => lines = <<>>
    BY DEF ConverterInit, Starting
  <2>2. IsRows(<<>>) /\ DOMAIN <<>> = {}
    BY FewRows
  <2>3. ConverterInit /\ SocketRuns => held = Absent
    BY Zenon DEF ConverterInit, Starting, ConverterStart, SocketRuns
  <2>4. QED
    BY <2>1, <2>2, <2>3 DEF SocketInv
<1>2. SavedFile /\ SocketInv /\ [ConverterNext]_linesVars => SocketInv'
  <2> SUFFICES ASSUME SavedFile, SocketInv, [ConverterNext]_linesVars, SocketRuns
               PROVE  SocketInv'
    BY SameScript DEF SocketInv, SocketRuns
  <2>1. ASSUME NEW r \in Records[converter], Taking(r), ConverterStep(r) PROVE SocketInv'
    <3>1. SocketFrame(r)
      BY <2>1, Zenon DEF ConverterStep, HostsStep, RoversStep, FlightStep, MissionsStep, LinksStep, FleetsStep,
         ServersStep, BagsStep, PacketsStep, SocketRuns
    <3>2. QED
      BY <2>1, <3>1, RecordRead, SocketRecordInv
  <2>2. CASE ConverterEnd \/ Refuse \/ UNCHANGED linesVars
    <3>1. ConverterEnd => SocketEnd
      BY Zenon DEF ConverterEnd, SocketRuns
    <3>2. UNCHANGED <<converter, fed, lines, held>>
      BY <2>2, <3>1 DEF SocketEnd, Ending, Keeping, Refuse, linesVars
    <3>3. QED
      BY <3>2 DEF SocketInv, SocketRuns
  <2>3. QED
    BY <2>1, <2>2 DEF ConverterNext
<1>3. SocketInv => MessagesAreWhole
  <2>1. MessagesAreWhole <=>
           (SocketRuns => \A i \in DOMAIN lines :
               /\ fed[lines[i].frames[1]].op = "text"
               /\ \A n \in lines[i].frames[1]..Last(lines[i].frames) :
                     FrameAt(lines[i].frames, fed, n, Last(lines[i].frames)))
    BY Zenon DEF MessagesAreWhole, SocketRuns, FrameAt
  <2>2. QED
    BY <2>1 DEF SocketInv, WholeMessage, Spans
<1>4. QED
  BY <1>1, <1>2, <1>3, FileIsSaved, PTL DEF ConverterSpec

-----------------------------------------------------------------------------
(* Saved pages, each linked to the next. *)

PagesRun == converter = "sensorthings pages"

(* A line says whether its identity stood on a page before its own. *)
AgainIsSo(line, f) ==
    /\ line.row \in DOMAIN f
    /\ line.is.again <=> \E n \in 1..(line.row - 1) :
                            f[line.row].observations[line.part].id \in Identities(f[n])

ChainInv ==
    PagesRun =>
        /\ IsRows(lines)
        /\ \A n \in 1..(Len(fed) - 1) : fed[n].next = fed[n + 1].url
        /\ held = UNION {Identities(fed[n]) : n \in DOMAIN fed}
        /\ \A i \in DOMAIN lines : AgainIsSo(IF verdict = "converted" THEN lines[i].line ELSE lines[i], fed)

(* A page read later changes nothing in what a line says of the pages before. *)
LEMMA AgainStays ==
    ASSUME NEW r, ReadOne(r), NEW line, AgainIsSo(line, fed)
    PROVE  AgainIsSo(line, fed')
<1> DEFINE k == line.row
<1>1. /\ DOMAIN fed' = DOMAIN fed \cup {Here} /\ DOMAIN fed = 1..Len(fed) /\ Len(fed) \in Nat
      /\ \A n \in DOMAIN fed : fed'[n] = fed[n]
  BY DEF ReadOne
<1>2. k \in DOMAIN fed
  BY DEF AgainIsSo
<1> HIDE DEF k
<1>3. k \in DOMAIN fed' /\ fed'[k] = fed[k] /\ \A n \in 1..(k - 1) : fed'[n] = fed[n]
  BY <1>1, <1>2
<1>4. QED
  BY <1>2, <1>3 DEF AgainIsSo, k

(* A page whose link was followed has the identities of all pages before it. *)
LEMMA PageRecordInv ==
    ASSUME ChainInv, PagesRun, NEW r, ReadOne(r), SavedPage(r)
    PROVE  ChainInv'
<1> DEFINE o == r.observations
           says == [i \in DOMAIN o |-> [says |-> ObservationSays(o[i]), again |-> o[i].id \in held]]
           t == [i \in DOMAIN says |-> [row |-> Here, part |-> i, is |-> says[i]]]
           all == lines \o t
<1>1. /\ DOMAIN fed' = DOMAIN fed \cup {Here} /\ Here \notin DOMAIN fed
      /\ \A i \in DOMAIN fed : fed'[i] = fed[i]
      /\ DOMAIN fed = 1..Len(fed) /\ Len(fed) \in Nat /\ Here = Len(fed) + 1 /\ fed'[Here] = r
      /\ verdict = "reading" /\ verdict' = "reading" /\ DOMAIN fed' = 1..Here /\ Len(fed') = Here
  BY DEF ReadOne
<1>2. /\ IsRows(lines)
      /\ \A n \in 1..(Len(fed) - 1) : fed[n].next = fed[n + 1].url
      /\ held = UNION {Identities(fed[n]) : n \in DOMAIN fed}
      /\ \A i \in DOMAIN lines : AgainIsSo(lines[i], fed)
  BY <1>1 DEF ChainInv
<1>3. IsList(o)
  <2>1. \A x \in Records[converter] : IsList(x.observations)
    BY PartAssumption, Zenon DEF PagesRun
  <2>2. QED
    BY <2>1 DEF ReadOne
<1>4. /\ Linked(r) /\ held' = held \cup Identities(r)
      /\ \/ lines' = lines
         \/ lines' = all
  BY Zenon DEF SavedPage, Hold, PassOver, CarryEach, CarryAll
<1>5. \A n \in 1..(Len(fed') - 1) : fed'[n].next = fed'[n + 1].url
  <2> SUFFICES ASSUME NEW n \in 1..(Len(fed') - 1) PROVE fed'[n].next = fed'[n + 1].url
    OBVIOUS
  <2>1. n \in DOMAIN fed /\ fed'[n] = fed[n]
    BY <1>1
  <2>2. CASE n = Len(fed)
    <3>1. fed # <<>> /\ Last(fed) = fed[n] /\ n + 1 = Here
      BY <1>1, <2>1, <2>2 DEF Last
    <3>2. QED
      BY <1>1, <1>4, <2>1, <3>1 DEF Linked
  <2>3. CASE n # Len(fed)
    <3>1. n \in 1..(Len(fed) - 1) /\ n + 1 \in DOMAIN fed
      BY <1>1, <2>1, <2>3, SMTT(30)
    <3>2. QED
      BY <1>1, <1>2, <2>1, <3>1, SMTT(30)
  <2>4. QED
    BY <2>2, <2>3
<1>6. held' = UNION {Identities(fed'[n]) : n \in DOMAIN fed'}
  <2>1. \A n \in DOMAIN fed : Identities(fed'[n]) = Identities(fed[n])
    BY <1>1
  <2>2. QED
    BY <1>1, <1>2, <1>4, <2>1
<1>7. \A i \in DOMAIN lines : AgainIsSo(lines[i], fed')
  BY <1>2, AgainStays
<1>8. /\ Len(o) \in Nat /\ DOMAIN o = 1..Len(o)
  BY <1>3 DEF IsList
<1>9. DOMAIN says = DOMAIN o /\ \A i \in DOMAIN o : says[i].again <=> o[i].id \in held
  OBVIOUS
<1> HIDE DEF says
<1>10. IsRows(t)
  BY <1>8, <1>9, FunctionIsRows
<1>11. DOMAIN t = DOMAIN o /\ \A i \in DOMAIN o : t[i].row = Here /\ t[i].part = i /\ t[i].is = says[i]
  BY <1>9
<1> HIDE DEF t
<1>12. \A i \in DOMAIN t : AgainIsSo(t[i], fed')
  <2> SUFFICES ASSUME NEW i \in DOMAIN t PROVE AgainIsSo(t[i], fed')
    OBVIOUS
  <2>1. i \in DOMAIN o /\ t[i].row = Here /\ t[i].part = i /\ (t[i].is.again <=> o[i].id \in held)
    BY <1>9, <1>11
  <2>2. o[i].id \in held <=> \E n \in DOMAIN fed : o[i].id \in Identities(fed'[n])
    BY <1>1, <1>2
  <2>3. Here - 1 = Len(fed) /\ DOMAIN fed = 1..(Here - 1) /\ Here \in DOMAIN fed'
    BY <1>1
  <2>4. fed'[Here].observations[i] = o[i]
    BY <1>1
  <2> HIDE DEF o
  <2>5. QED
    BY <2>1, <2>2, <2>3, <2>4 DEF AgainIsSo
<1>13. /\ IsRows(lines') /\ \A i \in DOMAIN lines' : AgainIsSo(lines'[i], fed')
  <2>1. CASE lines' = lines
    BY <1>2, <1>7, <2>1
  <2>2. CASE lines' = all
    <3>1. /\ IsRows(all)
          /\ \A i \in DOMAIN lines : i \in DOMAIN all /\ all[i] = lines[i]
          /\ \A j \in DOMAIN t : Len(lines) + j \in DOMAIN all /\ all[Len(lines) + j] = t[j]
          /\ \A n \in DOMAIN all : n \in DOMAIN lines \/ \E j \in DOMAIN t : n = Len(lines) + j
      BY <1>2, <1>10, ConcatRows
    <3> HIDE DEF all
    <3>2. \A n \in DOMAIN all : AgainIsSo(all[n], fed')
      <4> SUFFICES ASSUME NEW n \in DOMAIN all PROVE AgainIsSo(all[n], fed')
        OBVIOUS
      <4>1. CASE n \in DOMAIN lines
        BY <1>7, <3>1, <4>1
      <4>2. CASE \E j \in DOMAIN t : n = Len(lines) + j
        BY <1>12, <3>1, <4>2
      <4>3. QED
        BY <3>1, <4>1, <4>2
    <3>3. QED
      BY <2>2, <3>1, <3>2
  <2>3. QED
    BY <1>4, <2>1, <2>2
<1>14. /\ IsRows(lines')
       /\ \A n \in 1..(Len(fed') - 1) : fed'[n].next = fed'[n + 1].url
       /\ held' = UNION {Identities(fed'[n]) : n \in DOMAIN fed'}
       /\ verdict' # "converted"
       /\ \A i \in DOMAIN lines' : AgainIsSo(lines'[i], fed')
       => ChainInv'
  BY DEF ChainInv
<1>15. QED
  BY <1>1, <1>5, <1>6, <1>13, <1>14

(* Saved pages are those of one chain, and a line knows what came before it. *)
LEMMA PagesHold == ConverterSpec => []ChainIsFollowed
<1>1. ConverterInit => ChainInv
  <2>1. ConverterInit => lines = <<>> /\ fed = <<>>
    BY DEF ConverterInit, Starting
  <2>2. IsRows(<<>>) /\ DOMAIN <<>> = {} /\ Len(<<>>) = 0
    BY FewRows
  <2>3. ConverterInit /\ PagesRun => held = {}
    BY Zenon DEF ConverterInit, Starting, ConverterStart, PagesRun
  <2>4. 1..(0 - 1) = {}
    OBVIOUS
  <2>5. QED
    BY <2>1, <2>2, <2>3, <2>4 DEF ChainInv
<1>2. SavedFile /\ ChainInv /\ [ConverterNext]_linesVars => ChainInv'
  <2> SUFFICES ASSUME SavedFile, ChainInv, [ConverterNext]_linesVars, PagesRun
               PROVE  ChainInv'
    BY SameScript DEF ChainInv, PagesRun
  <2>1. ASSUME NEW r \in Records[converter], Taking(r), ConverterStep(r) PROVE ChainInv'
    <3>1. SavedPage(r)
      BY <2>1, Zenon DEF ConverterStep, HostsStep, RoversStep, FlightStep, MissionsStep, LinksStep, FleetsStep,
         ServersStep, BagsStep, PacketsStep, PagesRun
    <3>2. QED
      BY <2>1, <3>1, RecordRead, PageRecordInv
  <2>2. CASE ConverterEnd
    <3>1. SavedPagesEnd
      BY <2>2, Zenon DEF ConverterEnd, PagesRun
    <3> DEFINE End(i) == IF Last(fed).next = Absent THEN "terminal" ELSE "not followed"
               t == [i \in DOMAIN lines |-> [line |-> lines[i], chain |-> End(i)]]
    <3>2. lines' = t /\ DOMAIN t = DOMAIN lines /\ \A i \in DOMAIN lines : t[i].line = lines[i]
      BY <3>1, Zenon DEF SavedPagesEnd
    <3>3. verdict = "reading" /\ verdict' = "converted" /\ UNCHANGED <<fed, held>>
      BY <3>1 DEF SavedPagesEnd, Ending
    <3> HIDE DEF End
    <3>4. Len(lines) \in Nat /\ DOMAIN lines = 1..Len(lines)
      BY LenProperties DEF ChainInv, IsRows
    <3>5. IsRows(t)
      BY <3>4, FunctionIsRows
    <3> HIDE DEF t
    <3>6. QED
      BY <3>2, <3>3, <3>5 DEF ChainInv
  <2>3. CASE Refuse \/ UNCHANGED linesVars
    <3>1. UNCHANGED <<converter, fed, lines, held>> /\ (verdict' = "converted" <=> verdict = "converted")
      BY <2>3 DEF Refuse, linesVars
    <3>2. QED
      BY <3>1 DEF ChainInv, PagesRun
  <2>4. QED
    BY <2>1, <2>2, <2>3 DEF ConverterNext
<1>3. ChainInv => ChainIsFollowed
  <2>1. ChainIsFollowed <=>
           (PagesRun /\ verdict = "converted" =>
              /\ \A n \in 1..(Len(fed) - 1) : fed[n].next = fed[n + 1].url
              /\ \A i \in DOMAIN lines :
                    lines[i].line.is.again <=>
                       \E n \in 1..(lines[i].line.row - 1) :
                          fed[lines[i].line.row].observations[lines[i].line.part].id \in Identities(fed[n]))
    BY Zenon DEF ChainIsFollowed, PagesRun
  <2>2. QED
    BY <2>1 DEF ChainInv, AgainIsSo
<1>4. QED
  BY <1>1, <1>2, <1>3, FileIsSaved, PTL DEF ConverterSpec

-----------------------------------------------------------------------------
(* Batches of inertial samples. *)

BatchRuns == converter = "imu batch"

(* The blocks of a header among the lines, and those of them before a line. *)
BlocksOf(s, h)    == {i \in DOMAIN s : s[i].header = h}
BlocksBefore(s, i) == {j \in BlocksOf(s, s[i].header) : j < i}

BlockIsSo(s, f, i) ==
    /\ s[i].row \in DOMAIN f /\ s[i].header \in DOMAIN f
    /\ f[s[i].row].batch = f[s[i].header].batch
    /\ s[i].block = Cardinality(BlocksBefore(s, i))

(* The open header is the last one; every other one has all its blocks. *)
BatchInv ==
    BatchRuns =>
        /\ IsRows(lines)
        /\ held = [batch |-> held.batch, count |-> held.count, consumed |-> held.consumed, header |-> held.header]
        /\ held.consumed = Cardinality(BlocksOf(lines, held.header))
        /\ held.batch # Absent => held.header # 0
        /\ \/ held.header = 0
           \/ /\ held.header \in DOMAIN fed
              /\ held.batch = fed[held.header].batch /\ held.count = fed[held.header].count
        /\ \A i \in DOMAIN lines : BlockIsSo(lines, fed, i)
        /\ \A h \in DOMAIN fed \ {held.header} :
              fed[h].kind = "ISBH" => Cardinality(BlocksOf(lines, h)) = fed[h].count
        /\ verdict = "converted" => held.consumed = held.count

(* A block more is one more of its header's, and of no other's. *)
LEMMA BlocksAppend ==
    ASSUME NEW s, IsRows(s), NEW e
    PROVE  /\ \A h : IsFiniteSet(BlocksOf(s, h)) /\ Cardinality(BlocksOf(s, h)) \in Nat
           /\ \A h : e.header # h => BlocksOf(Append(s, e), h) = BlocksOf(s, h)
           /\ BlocksOf(Append(s, e), e.header) = BlocksOf(s, e.header) \cup {Len(s) + 1}
           /\ Cardinality(BlocksOf(Append(s, e), e.header)) = Cardinality(BlocksOf(s, e.header)) + 1
           /\ \A i \in DOMAIN s : BlocksBefore(Append(s, e), i) = BlocksBefore(s, i)
           /\ BlocksBefore(Append(s, e), Len(s) + 1) = BlocksOf(s, e.header)
<1> DEFINE t == Append(s, e)
           n == Len(s)
<1>1. /\ n \in Nat /\ DOMAIN s = 1..n /\ DOMAIN t = 1..(n + 1)
      /\ \A i \in DOMAIN s : t[i] = s[i]
      /\ t[n + 1] = e
  BY AppendedRow
<1> HIDE DEF t, n
<1>2. /\ \A i : i \in DOMAIN t <=> i \in DOMAIN s \/ i = n + 1
      /\ n + 1 \notin DOMAIN s /\ n + 1 \in DOMAIN t
      /\ \A i \in DOMAIN s : i < n + 1 /\ ~(n + 1 < i)
      /\ ~(n + 1 < n + 1)
  BY <1>1
<1>3. \A h : IsFiniteSet(BlocksOf(s, h)) /\ Cardinality(BlocksOf(s, h)) \in Nat
  <2>1. IsFiniteSet(1..n)
    BY <1>1, FS_Interval
  <2>2. \A h : BlocksOf(s, h) \in SUBSET (1..n)
    BY <1>1 DEF BlocksOf
  <2>3. QED
    BY <2>1, <2>2, FS_Subset, FS_CardinalityType
<1>4. \A h : e.header # h => BlocksOf(t, h) = BlocksOf(s, h)
  BY <1>1, <1>2 DEF BlocksOf
<1>5. BlocksOf(t, e.header) = BlocksOf(s, e.header) \cup {n + 1}
  BY <1>1, <1>2 DEF BlocksOf
<1>6. Cardinality(BlocksOf(t, e.header)) = Cardinality(BlocksOf(s, e.header)) + 1
  <2>1. n + 1 \notin BlocksOf(s, e.header)
    BY <1>2 DEF BlocksOf
  <2>2. QED
    BY <1>3, <1>5, <2>1, FS_AddElement
<1>7. ASSUME NEW i \in DOMAIN s PROVE BlocksBefore(t, i) = BlocksBefore(s, i)
  BY <1>1, <1>2, <1>4, <1>5 DEF BlocksBefore
<1>8. BlocksBefore(t, n + 1) = BlocksOf(s, e.header)
  BY <1>1, <1>2, <1>5 DEF BlocksBefore, BlocksOf
<1>9. QED
  BY <1>3, <1>4, <1>5, <1>6, <1>7, <1>8 DEF t, n

(* A header opens a batch when the one before is whole; a block is the next one. *)
LEMMA BatchRecordInv ==
    ASSUME BatchInv, BatchRuns, NEW r, ReadOne(r), ImuRecord(r)
    PROVE  BatchInv'
<1>1. /\ IsRows(lines)
      /\ held = [batch |-> held.batch, count |-> held.count, consumed |-> held.consumed, header |-> held.header]
      /\ held.consumed = Cardinality(BlocksOf(lines, held.header))
      /\ held.batch # Absent => held.header # 0
      /\ \/ held.header = 0
         \/ /\ held.header \in DOMAIN fed
            /\ held.batch = fed[held.header].batch /\ held.count = fed[held.header].count
      /\ \A i \in DOMAIN lines : BlockIsSo(lines, fed, i)
      /\ \A h \in DOMAIN fed \ {held.header} :
            fed[h].kind = "ISBH" => Cardinality(BlocksOf(lines, h)) = fed[h].count
  BY DEF BatchInv
<1>2. /\ DOMAIN fed' = DOMAIN fed \cup {Here} /\ Here \notin DOMAIN fed
      /\ \A i \in DOMAIN fed : fed'[i] = fed[i]
      /\ fed'[Here] = r /\ verdict' # "converted" /\ 0 \notin DOMAIN fed'
      /\ DOMAIN fed = 1..Len(fed) /\ Len(fed) \in Nat
  BY DEF ReadOne
<1>3. \A i \in DOMAIN lines : BlockIsSo(lines, fed', i)
  BY <1>1, <1>2 DEF BlockIsSo
<1>4. CASE r.kind = "other"
  <2>1. lines' = lines /\ held' = held
    BY <1>4, Zenon DEF ImuRecord, PassOver, BatchHeader, BatchBlock
  <2>2. QED
    BY <1>1, <1>2, <1>3, <1>4, <2>1 DEF BatchInv
<1>5. CASE BatchHeader(r) /\ r.kind # "other"
  <2> DEFINE new == [batch |-> r.batch, count |-> r.count, consumed |-> 0, header |-> Here]
  <2>1. lines' = lines /\ held' = new /\ held.consumed = held.count
    BY <1>5, Zenon DEF ImuRecord, BatchHeader, BatchBlock, Keeping, Hold
  <2>2. new.batch = r.batch /\ new.count = r.count /\ new.consumed = 0 /\ new.header = Here
        /\ new = [batch |-> new.batch, count |-> new.count, consumed |-> new.consumed, header |-> new.header]
    OBVIOUS
  <2> HIDE DEF new
  <2>3. BlocksOf(lines, Here) = {}
    BY <1>1, <1>2 DEF BlocksOf, BlockIsSo
  <2>4. Cardinality(BlocksOf(lines, Here)) = 0
    BY <2>3, FS_EmptySet
  <2>5. \A h \in DOMAIN fed : fed[h].kind = "ISBH" => Cardinality(BlocksOf(lines, h)) = fed[h].count
    BY <1>1, <1>2, <2>1
  <2>6. \A h \in DOMAIN fed' \ {Here} : fed'[h].kind = "ISBH" => Cardinality(BlocksOf(lines, h)) = fed'[h].count
    BY <1>2, <2>5
  <2>7. Here # 0 /\ Here \in DOMAIN fed'
    BY <1>2
  <2>8. QED
    BY <1>1, <1>2, <1>3, <2>1, <2>2, <2>4, <2>6, <2>7 DEF BatchInv
<1>6. CASE BatchBlock(r) /\ r.kind # "other"
  <2> DEFINE e == [row |-> Here, header |-> held.header, block |-> r.seq]
             t == Append(lines, e)
             n == Len(lines)
             h == held.header
             k == held.consumed + 1
  <2>1. lines' = t /\ held' = [held EXCEPT !.consumed = k] /\ r.kind = "ISBD"
        /\ held.batch # Absent /\ r.batch = held.batch /\ r.seq = held.consumed
    BY <1>6 DEF ImuRecord, BatchHeader, BatchBlock, Carry, Hold
  <2> HIDE DEF k
  <2>2. /\ held'.batch = held.batch /\ held'.count = held.count /\ held'.consumed = k /\ held'.header = h
        /\ held' = [batch |-> held'.batch, count |-> held'.count, consumed |-> held'.consumed, header |-> held'.header]
    BY <1>1, <2>1
  <2>3. h \in DOMAIN fed /\ held.batch = fed[h].batch
    BY <1>1, <2>1
  <2>4. e.row = Here /\ e.header = h /\ e.block = r.seq
    OBVIOUS
  <2> HIDE DEF e
  <2>5. /\ IsRows(t) /\ n \in Nat /\ DOMAIN lines = 1..n /\ DOMAIN t = 1..(n + 1)
        /\ \A i \in DOMAIN lines : t[i] = lines[i]
        /\ t[n + 1] = e
    BY <1>1, AppendedRow
  <2>6. /\ \A x : e.header # x => BlocksOf(t, x) = BlocksOf(lines, x)
        /\ Cardinality(BlocksOf(t, e.header)) = Cardinality(BlocksOf(lines, e.header)) + 1
        /\ \A i \in DOMAIN lines : BlocksBefore(t, i) = BlocksBefore(lines, i)
        /\ BlocksBefore(t, n + 1) = BlocksOf(lines, e.header)
    BY <1>1, BlocksAppend
  <2> HIDE DEF t, n, h
  <2>7. \A i \in DOMAIN t : i \in DOMAIN lines \/ i = n + 1
    BY <2>5
  <2>8. \A i \in DOMAIN t : BlockIsSo(t, fed', i)
    <3>1. ASSUME NEW i \in DOMAIN lines PROVE BlockIsSo(t, fed', i)
      <4>1. BlockIsSo(lines, fed', i) /\ t[i] = lines[i] /\ BlocksBefore(t, i) = BlocksBefore(lines, i)
        BY <1>3, <2>5, <2>6
      <4>2. QED
        BY <4>1 DEF BlockIsSo
    <3>2. BlockIsSo(t, fed', n + 1)
      <4>1. t[n + 1].block = Cardinality(BlocksBefore(t, n + 1))
        BY <1>1, <2>1, <2>4, <2>5, <2>6 DEF h
      <4>2. t[n + 1].row = Here /\ t[n + 1].header = h /\ fed'[Here].batch = fed'[h].batch
            /\ Here \in DOMAIN fed' /\ h \in DOMAIN fed'
        BY <1>2, <2>1, <2>3, <2>4, <2>5
      <4>3. QED
        BY <4>1, <4>2 DEF BlockIsSo
    <3>3. QED
      BY <2>7, <3>1, <3>2
  <2>9. k = Cardinality(BlocksOf(t, h))
    BY <1>1, <2>4, <2>6 DEF k, h
  <2>10. \A x \in DOMAIN fed' \ {h} : fed'[x].kind = "ISBH" => Cardinality(BlocksOf(t, x)) = fed'[x].count
    <3>1. \A x \in DOMAIN fed \ {h} : fed[x].kind = "ISBH" => Cardinality(BlocksOf(lines, x)) = fed[x].count
      BY <1>1 DEF h
    <3>2. QED
      BY <1>2, <2>1, <2>4, <2>6, <3>1
  <2>11. h # 0 /\ h \in DOMAIN fed' /\ held.batch = fed'[h].batch /\ held.count = fed'[h].count
    BY <1>1, <1>2, <2>1, <2>3 DEF h
  <2>12. /\ IsRows(lines')
         /\ held' = [batch |-> held'.batch, count |-> held'.count, consumed |-> held'.consumed, header |-> held'.header]
         /\ held'.consumed = Cardinality(BlocksOf(lines', held'.header))
         /\ held'.header # 0
         /\ held'.header \in DOMAIN fed'
         /\ held'.batch = fed'[held'.header].batch /\ held'.count = fed'[held'.header].count
         /\ \A i \in DOMAIN lines' : BlockIsSo(lines', fed', i)
         /\ \A x \in DOMAIN fed' \ {held'.header} :
               fed'[x].kind = "ISBH" => Cardinality(BlocksOf(lines', x)) = fed'[x].count
    BY <2>1, <2>2, <2>5, <2>8, <2>9, <2>10, <2>11
  <2>13. QED
    BY <1>2, <2>12 DEF BatchInv
<1>7. QED
  BY <1>4, <1>5, <1>6, Zenon DEF ImuRecord

(* No batch is cut short, and no block is another batch's. *)
LEMMA BatchesHold == ConverterSpec => []BatchesAreWhole
<1>1. ConverterInit => BatchInv
  <2>1. ConverterInit => lines = <<>> /\ fed = <<>> /\ verdict = "reading"
    BY DEF ConverterInit, Starting
  <2>2. IsRows(<<>>) /\ DOMAIN <<>> = {}
    BY FewRows
  <2>3. ConverterInit /\ BatchRuns => held = NoBatch
    BY Zenon DEF ConverterInit, Starting, ConverterStart, BatchRuns
  <2>4. BlocksOf(<<>>, 0) = {} /\ Cardinality({}) = 0
    BY <2>2, FS_EmptySet DEF BlocksOf
  <2>5. /\ NoBatch.batch = Absent /\ NoBatch.count = 0 /\ NoBatch.consumed = 0 /\ NoBatch.header = 0
        /\ NoBatch = [batch |-> NoBatch.batch, count |-> NoBatch.count,
                       consumed |-> NoBatch.consumed, header |-> NoBatch.header]
    BY DEF NoBatch
  <2>6. QED
    BY <2>1, <2>2, <2>3, <2>4, <2>5 DEF BatchInv
<1>2. SavedFile /\ BatchInv /\ [ConverterNext]_linesVars => BatchInv'
  <2> SUFFICES ASSUME SavedFile, BatchInv, [ConverterNext]_linesVars, BatchRuns
               PROVE  BatchInv'
    BY SameScript DEF BatchInv, BatchRuns
  <2>1. ASSUME NEW r \in Records[converter], Taking(r), ConverterStep(r) PROVE BatchInv'
    <3>1. ImuRecord(r)
      BY <2>1, Zenon DEF ConverterStep, HostsStep, RoversStep, FlightStep, MissionsStep, LinksStep, FleetsStep,
         ServersStep, BagsStep, PacketsStep, BatchRuns
    <3>2. QED
      BY <2>1, <3>1, RecordRead, BatchRecordInv
  <2>2. CASE ConverterEnd
    <3>1. ImuEnd
      BY <2>2, Zenon DEF ConverterEnd, BatchRuns
    <3>2. UNCHANGED <<converter, fed, lines, held>> /\ held.consumed = held.count
      BY <3>1 DEF ImuEnd, EndCarried, Ending, Keeping
    <3>3. QED
      BY <3>2 DEF BatchInv, BatchRuns
  <2>3. CASE Refuse \/ UNCHANGED linesVars
    <3>1. UNCHANGED <<converter, fed, lines, held>> /\ (verdict' = "converted" => verdict = "converted")
      BY <2>3 DEF Refuse, linesVars
    <3>2. QED
      BY <3>1 DEF BatchInv, BatchRuns
  <2>4. QED
    BY <2>1, <2>2, <2>3 DEF ConverterNext
<1>3. SavedFile /\ BatchInv => BatchesAreWhole
  <2>1. BatchesAreWhole <=>
           (BatchRuns =>
              \A h \in DOMAIN fed : fed[h].kind = "ISBH" =>
                 /\ \A i \in BlocksOf(lines, h) :
                       /\ lines[i].block = Cardinality({j \in BlocksOf(lines, h) : j < i})
                       /\ fed[lines[i].row].batch = fed[h].batch
                 /\ h # held.header \/ verdict = "converted" => Cardinality(BlocksOf(lines, h)) = fed[h].count)
    BY Zenon DEF BatchesAreWhole, BatchRuns, BlocksOf
  <2>2. ASSUME SavedFile, BatchInv, BatchRuns, NEW h \in DOMAIN fed, fed[h].kind = "ISBH",
               h # held.header \/ verdict = "converted"
        PROVE  Cardinality(BlocksOf(lines, h)) = fed[h].count
    <3>1. DOMAIN fed = 1..Len(fed) /\ Len(fed) \in Nat
      BY <2>2, LenProperties DEF SavedFile
    <3>2. h # 0
      BY <3>1
    <3>3. QED
      BY <2>2, <3>2 DEF BatchInv
  <2>3. ASSUME BatchInv, BatchRuns, NEW h \in DOMAIN fed, NEW i \in BlocksOf(lines, h)
        PROVE  /\ lines[i].block = Cardinality({j \in BlocksOf(lines, h) : j < i})
               /\ fed[lines[i].row].batch = fed[h].batch
    <3>1. lines[i].header = h /\ i \in DOMAIN lines /\ BlockIsSo(lines, fed, i)
      BY <2>3 DEF BatchInv, BlocksOf
    <3>2. QED
      BY <3>1 DEF BlockIsSo, BlocksBefore
  <2>4. QED
    BY <2>1, <2>2, <2>3
<1>4. QED
  BY <1>1, <1>2, <1>3, FileIsSaved, PTL DEF ConverterSpec

-----------------------------------------------------------------------------
(* Parameters of a radio, joined from chunks. *)

ParameterRuns == converter = "crsf parameters"

(* The last read request of an asker to a device was for the first chunk of     *)
(* that parameter.                                                              *)
ReadsOf(f, upto, device, asker) ==
    {n \in 1..upto : f[n].kind = "read" /\ f[n].origin = asker /\ f[n].destination = device}

FirstAsked(f, upto, device, asker, number) ==
    \E n \in ReadsOf(f, upto, device, asker) :
        /\ \A m \in ReadsOf(f, upto, device, asker) : m <= n
        /\ f[n].remaining = 0 /\ f[n].number = number

(* Consecutive chunks of one parameter, left of which are still to come. *)
Chunks(refs, f, left) ==
    /\ refs \in Seq(DOMAIN f) /\ Len(refs) # 0
    /\ \A k \in DOMAIN refs :
          /\ f[refs[k]].number = f[refs[1]].number /\ f[refs[k]].remaining = left + Len(refs) - k
          /\ f[refs[k]].origin = f[refs[1]].origin /\ f[refs[k]].destination = f[refs[1]].destination

Established(refs, f) ==
    FirstAsked(f, refs[1] - 1, f[refs[1]].origin, f[refs[1]].destination, f[refs[1]].number)

OpenEntry(p, f, device) ==
    /\ p = [destination |-> p.destination, number |-> p.number, remaining |-> p.remaining,
            refs |-> p.refs, observed |-> p.observed]
    /\ p.remaining \in Nat /\ Chunks(p.refs, f, p.remaining)
    /\ f[p.refs[1]].origin = device /\ f[p.refs[1]].destination = p.destination
    /\ f[p.refs[1]].number = p.number
    /\ p.observed => Established(p.refs, f)

WholeEntry(line, f) ==
    Chunks(line.refs, f, 0) /\ (line.start = "observed" => Established(line.refs, f))

ParameterInv ==
    ParameterRuns =>
        /\ IsRows(lines)
        /\ held = [pending |-> held.pending, reads |-> held.reads]
        /\ \A i \in DOMAIN lines : WholeEntry(lines[i], fed)
        /\ \A x \in DOMAIN held.pending : OpenEntry(held.pending[x], fed, x)
        /\ \A d, a : <<d, a>> \in DOMAIN held.reads =>
                        FirstAsked(fed, Len(fed), d, a, held.reads[<<d, a>>])

(* What was read of the requests before a frame does not depend on later ones. *)
LEMMA ReadsStay ==
    ASSUME NEW r, ReadOne(r), NEW upto \in 0..Len(fed), NEW d, NEW a
    PROVE  /\ ReadsOf(fed', upto, d, a) = ReadsOf(fed, upto, d, a)
           /\ \A x : FirstAsked(fed, upto, d, a, x) => FirstAsked(fed', upto, d, a, x)
           /\ ~(r.kind = "read" /\ r.origin = a /\ r.destination = d) =>
                 /\ ReadsOf(fed', Here, d, a) = ReadsOf(fed, Len(fed), d, a)
                 /\ \A x : FirstAsked(fed, Len(fed), d, a, x) => FirstAsked(fed', Here, d, a, x)
<1>1. /\ \A i \in DOMAIN fed : fed'[i] = fed[i]
      /\ DOMAIN fed = 1..Len(fed) /\ Len(fed) \in Nat /\ Here = Len(fed) + 1 /\ fed'[Here] = r
  BY DEF ReadOne
<1>2. \A n \in 1..upto : n \in DOMAIN fed /\ fed'[n] = fed[n]
  BY <1>1
<1>3. ReadsOf(fed', upto, d, a) = ReadsOf(fed, upto, d, a)
  BY <1>2 DEF ReadsOf
<1>4. \A n \in ReadsOf(fed, upto, d, a) : fed'[n] = fed[n]
  BY <1>2 DEF ReadsOf
<1>5. \A x : FirstAsked(fed, upto, d, a, x) => FirstAsked(fed', upto, d, a, x)
  BY <1>3, <1>4 DEF FirstAsked
<1>6. ASSUME ~(r.kind = "read" /\ r.origin = a /\ r.destination = d)
      PROVE  /\ ReadsOf(fed', Here, d, a) = ReadsOf(fed, Len(fed), d, a)
             /\ \A x : FirstAsked(fed, Len(fed), d, a, x) => FirstAsked(fed', Here, d, a, x)
  <2>1. \A n : n \in 1..Here <=> n \in 1..Len(fed) \/ n = Here
    BY <1>1
  <2>2. ReadsOf(fed', Here, d, a) = ReadsOf(fed, Len(fed), d, a)
    BY <1>1, <1>6, <2>1 DEF ReadsOf
  <2>3. \A n \in ReadsOf(fed, Len(fed), d, a) : fed'[n] = fed[n]
    BY <1>1 DEF ReadsOf
  <2>4. QED
    BY <2>2, <2>3 DEF FirstAsked
<1>7. QED
  BY <1>3, <1>5, <1>6

(* Chunks joined before are as they were. *)
LEMMA ChunksStay ==
    ASSUME NEW r, ReadOne(r), NEW refs, NEW left, Chunks(refs, fed, left)
    PROVE  /\ Chunks(refs, fed', left) /\ fed'[refs[1]] = fed[refs[1]]
           /\ Established(refs, fed) => Established(refs, fed')
<1>1. /\ DOMAIN fed' = DOMAIN fed \cup {Here} /\ \A i \in DOMAIN fed : fed'[i] = fed[i]
      /\ DOMAIN fed = 1..Len(fed) /\ Len(fed) \in Nat
  BY DEF ReadOne
<1>2. refs \in Seq(DOMAIN fed) /\ Len(refs) # 0
  BY DEF Chunks
<1>3. 1 \in DOMAIN refs /\ \A k \in DOMAIN refs : refs[k] \in DOMAIN fed
  BY <1>2
<1>4. \A k \in DOMAIN refs : fed'[refs[k]] = fed[refs[k]]
  BY <1>1, <1>3
<1>5. refs \in Seq(DOMAIN fed')
  <2>1. DOMAIN fed \subseteq DOMAIN fed'
    BY <1>1
  <2>2. QED
    BY <1>2, <2>1, SeqMonotonic
<1>6. Chunks(refs, fed', left)
  BY <1>2, <1>3, <1>4, <1>5 DEF Chunks
<1>7. refs[1] - 1 \in 0..Len(fed)
  BY <1>1, <1>3
<1>8. QED
  BY <1>3, <1>4, <1>6, <1>7, ReadsStay DEF Established

LEMMA OpenEntryStays ==
    ASSUME NEW r, ReadOne(r), NEW p, NEW x, OpenEntry(p, fed, x)
    PROVE  OpenEntry(p, fed', x)
<1>1. Chunks(p.refs, fed, p.remaining)
  BY DEF OpenEntry
<1>2. /\ Chunks(p.refs, fed', p.remaining) /\ fed'[p.refs[1]] = fed[p.refs[1]]
      /\ Established(p.refs, fed) => Established(p.refs, fed')
  BY <1>1, ChunksStay
<1>3. QED
  BY <1>2 DEF OpenEntry

(* A chunk goes behind those of the entry that is open, or opens one. *)
LEMMA ChunkJoins ==
    ASSUME ParameterInv, ParameterRuns, NEW r, ReadOne(r), r.remaining \in Nat,
           NEW b, b = IF Joined(r) THEN held.pending[r.origin] ELSE Starts(r),
           NEW e, e = [b EXCEPT !.remaining = r.remaining, !.refs = Append(@, Here)]
    PROVE  OpenEntry(e, fed', r.origin) /\ e.remaining = r.remaining
<1>1. /\ DOMAIN fed' = DOMAIN fed \cup {Here} /\ Here \notin DOMAIN fed
      /\ \A i \in DOMAIN fed : fed'[i] = fed[i]
      /\ DOMAIN fed = 1..Len(fed) /\ Len(fed) \in Nat /\ Here = Len(fed) + 1 /\ fed'[Here] = r
      /\ DOMAIN fed \subseteq DOMAIN fed'
  BY DEF ReadOne
<1>2. /\ b = [destination |-> b.destination, number |-> b.number, remaining |-> b.remaining,
              refs |-> b.refs, observed |-> b.observed]
      /\ b.destination = r.destination /\ b.number = r.number
  BY DEF ParameterInv, OpenEntry, Joined, Starts
<1> DEFINE g == Append(b.refs, Here)
<1>3. /\ e.destination = r.destination /\ e.number = r.number /\ e.remaining = r.remaining
      /\ e.refs = g /\ e.observed = b.observed
      /\ e = [destination |-> e.destination, number |-> e.number, remaining |-> e.remaining,
              refs |-> e.refs, observed |-> e.observed]
  BY <1>2
<1>4. /\ Chunks(g, fed', r.remaining) /\ fed'[g[1]].origin = r.origin
      /\ fed'[g[1]].destination = r.destination /\ fed'[g[1]].number = r.number
      /\ b.observed => Established(g, fed')
  <2>1. CASE ~Joined(r)
    <3>1. b = Starts(r)
      BY <2>1
    <3> DEFINE asked == <<r.origin, r.destination>>
               seen == asked \in DOMAIN held.reads /\ held.reads[asked] = r.number
    <3>2. b.refs = <<>> /\ g = <<Here>>
      <4>1. b.refs = <<>>
        <5> HIDE DEF seen
        <5>1. b = [destination |-> r.destination, number |-> r.number, remaining |-> r.remaining,
                   refs |-> <<>>, observed |-> seen]
          BY <3>1 DEF Starts, seen
        <5>2. QED
          BY <5>1
      <4>2. Append(<<>>, Here) = <<Here>>
        OBVIOUS
      <4>3. QED
        BY <4>1, <4>2, Zenon
    <3>0. b.observed => seen
      <4>1. b = [destination |-> r.destination, number |-> r.number, remaining |-> r.remaining,
                 refs |-> <<>>, observed |-> seen]
        BY <3>1 DEF Starts
      <4> HIDE DEF seen
      <4>2. b.observed = seen
        BY <4>1
      <4>3. QED
        BY <4>2
    <3> HIDE DEF g
    <3>3. g \in Seq(DOMAIN fed') /\ Len(g) = 1 /\ DOMAIN g = {1} /\ g[1] = Here
      BY <1>1, <3>2
    <3>4. r.remaining = r.remaining + 1 - 1
      OBVIOUS
    <3>5. Chunks(g, fed', r.remaining)
      BY <1>1, <3>3, <3>4 DEF Chunks
    <3>6. b.observed => FirstAsked(fed, Len(fed), r.origin, r.destination, r.number)
      <4>1. \A d, a : <<d, a>> \in DOMAIN held.reads =>
                         FirstAsked(fed, Len(fed), d, a, held.reads[<<d, a>>])
        BY DEF ParameterInv
      <4>2. seen => FirstAsked(fed, Len(fed), r.origin, r.destination, held.reads[asked])
        BY <4>1
      <4>3. QED
        BY <3>0, <4>2
    <3>7. Here - 1 = Len(fed) /\ Len(fed) \in 0..Len(fed)
      BY <1>1
    <3>8. b.observed => FirstAsked(fed', Here - 1, r.origin, r.destination, r.number)
      BY <3>6, <3>7, ReadsStay
    <3>9. QED
      BY <1>1, <3>3, <3>5, <3>8 DEF Established
  <2>2. CASE Joined(r)
    <3> DEFINE s == b.refs
               k == Len(s)
    <3>1. b = held.pending[r.origin] /\ OpenEntry(b, fed, r.origin) /\ r.remaining = b.remaining - 1
      BY <2>2, SMTT(30) DEF ParameterInv, Joined
    <3>2. b.remaining \in Nat /\ Chunks(s, fed, b.remaining) /\ (b.observed => Established(s, fed))
          /\ fed[s[1]].origin = r.origin /\ fed[s[1]].destination = r.destination
          /\ fed[s[1]].number = r.number
      BY <1>2, <3>1, SMTT(30) DEF OpenEntry
    <3>3. Chunks(s, fed', b.remaining) /\ fed'[s[1]] = fed[s[1]]
          /\ (Established(s, fed) => Established(s, fed'))
      BY <3>2, ChunksStay
    <3> HIDE DEF s
    <3>4. s \in Seq(DOMAIN fed') /\ Len(s) # 0
          /\ \A j \in DOMAIN s :
              /\ fed'[s[j]].number = r.number /\ fed'[s[j]].remaining = b.remaining + Len(s) - j
              /\ fed'[s[j]].origin = r.origin /\ fed'[s[j]].destination = r.destination
      BY <3>2, <3>3 DEF Chunks
    <3>5. g = Append(s, Here) /\ Here \in DOMAIN fed'
      BY <1>1 DEF s
    <3> HIDE DEF g
    <3>6. /\ g \in Seq(DOMAIN fed') /\ Len(g) = k + 1 /\ DOMAIN g = 1..(k + 1)
          /\ k \in Nat /\ DOMAIN s = 1..k
          /\ \A j \in 1..k : g[j] = s[j]
          /\ g[k + 1] = Here
      BY <3>4, <3>5
    <3> HIDE DEF k
    <3>7. 1 \in 1..k /\ k + 1 # 0 /\ \A j \in 1..(k + 1) : j \in 1..k \/ j = k + 1
      BY <3>4, <3>6 DEF k
    <3>8. g[1] = s[1]
      BY <3>6, <3>7
    <3>9. \A j \in 1..k : b.remaining + k - j = r.remaining + (k + 1) - j
      <4> DEFINE q == b.remaining
      <4>1. q \in Nat /\ r.remaining = q - 1 /\ k \in Nat
        BY <3>1, <3>2, <3>6
      <4> HIDE DEF q
      <4>2. \A j \in 1..k : q + k - j = (q - 1) + (k + 1) - j
        BY <4>1
      <4>3. QED
        BY <4>1, <4>2 DEF q
    <3>10. r.remaining = r.remaining + (k + 1) - (k + 1)
      BY <3>6
    <3>11. \A j \in DOMAIN g :
              /\ fed'[g[j]].number = r.number /\ fed'[g[j]].remaining = r.remaining + Len(g) - j
              /\ fed'[g[j]].origin = r.origin /\ fed'[g[j]].destination = r.destination
      <4>1. ASSUME NEW j \in 1..k
            PROVE  /\ fed'[g[j]].number = r.number /\ fed'[g[j]].remaining = r.remaining + (k + 1) - j
                   /\ fed'[g[j]].origin = r.origin /\ fed'[g[j]].destination = r.destination
        <5>1. g[j] = s[j] /\ j \in DOMAIN s /\ fed'[s[j]].remaining = b.remaining + k - j
          BY <3>4, <3>6 DEF k
        <5>2. QED
          BY <3>4, <3>9, <5>1
      <4>2. fed'[g[k + 1]] = r
        BY <1>1, <3>6
      <4>3. QED
        BY <3>6, <3>7, <3>10, <4>1, <4>2
    <3>12. fed'[g[1]].number = r.number /\ fed'[g[1]].origin = r.origin /\ fed'[g[1]].destination = r.destination
      BY <3>4, <3>6, <3>7, <3>8
    <3>13. Chunks(g, fed', r.remaining)
      BY <3>6, <3>7, <3>11, <3>12 DEF Chunks
    <3>14. b.observed => Established(g, fed')
      BY <3>2, <3>3, <3>8 DEF Established
    <3>15. QED
      BY <3>12, <3>13, <3>14, SMTT(30)
  <2>3. QED
    BY <2>1, <2>2
<1> HIDE DEF g
<1>5. QED
  BY <1>3, <1>4 DEF OpenEntry

(* A frame keeps what was joined whole, and what is open in order. *)
LEMMA ParameterRecordInv ==
    ASSUME ParameterInv, ParameterRuns, NEW r, ReadOne(r), ParameterFrame(r)
    PROVE  ParameterInv'
<1>1. /\ IsRows(lines) /\ held = [pending |-> held.pending, reads |-> held.reads]
      /\ \A i \in DOMAIN lines : WholeEntry(lines[i], fed)
      /\ \A x \in DOMAIN held.pending : OpenEntry(held.pending[x], fed, x)
      /\ \A d, a : <<d, a>> \in DOMAIN held.reads =>
                      FirstAsked(fed, Len(fed), d, a, held.reads[<<d, a>>])
  BY DEF ParameterInv
<1>2. Len(fed') = Here /\ Len(fed) \in 0..Len(fed) /\ Here = Len(fed) + 1 /\ Len(fed) \in Nat
      /\ fed'[Here] = r
  BY DEF ReadOne
<1>3. \A i \in DOMAIN lines : WholeEntry(lines[i], fed')
  BY <1>1, ChunksStay DEF WholeEntry
<1>4. \A x \in DOMAIN held.pending : OpenEntry(held.pending[x], fed', x)
  BY <1>1, OpenEntryStays
<1>5. /\ IsRows(lines') /\ held' = [pending |-> held'.pending, reads |-> held'.reads]
      /\ \A i \in DOMAIN lines' : WholeEntry(lines'[i], fed')
      /\ \A x \in DOMAIN held'.pending : OpenEntry(held'.pending[x], fed', x)
      /\ \A d, a : <<d, a>> \in DOMAIN held'.reads =>
                      FirstAsked(fed', Here, d, a, held'.reads[<<d, a>>])
      => ParameterInv'
  BY <1>2 DEF ParameterInv
<1>6. r.remaining \in Nat
  <2>1. \A x \in Records[converter] : x.remaining \in Nat
    BY PartAssumption, Zenon DEF ParameterRuns
  <2>2. QED
    BY <2>1 DEF ReadOne
<1>7. r.kind # "read" =>
         \A d, a : <<d, a>> \in DOMAIN held.reads => FirstAsked(fed', Here, d, a, held.reads[<<d, a>>])
  BY <1>1, <1>2, ReadsStay
<1>8. CASE r.kind \in {"info", "other"}
  <2>1. lines' = lines /\ held' = held
    BY <1>8, Zenon DEF ParameterFrame, PassOver
  <2>2. QED
    BY <1>1, <1>3, <1>4, <1>5, <1>7, <1>8, <2>1
<1>9. CASE r.kind = "read"
  <2> DEFINE to == <<r.destination, r.origin>>
             reads == IF r.remaining = 0 THEN Putting(held.reads, to, r.number) ELSE Dropping(held.reads, to)
  <2>1. lines' = lines /\ held' = [held EXCEPT !.reads = reads]
    BY <1>9, Zenon DEF ParameterFrame, ParameterRead, PassOver, Hold
  <2>2. ASSUME NEW d, NEW a, <<d, a>> \in DOMAIN reads
        PROVE  FirstAsked(fed', Here, d, a, reads[<<d, a>>])
    <3>1. CASE d = r.destination /\ a = r.origin
      <4>1. r.remaining = 0 /\ reads[<<d, a>>] = r.number
        BY <2>2, <3>1 DEF Putting, Dropping
      <4>2. Here \in ReadsOf(fed', Here, d, a) /\ \A m \in ReadsOf(fed', Here, d, a) : m <= Here
        BY <1>2, <1>9, <3>1 DEF ReadsOf
      <4>3. QED
        BY <1>2, <4>1, <4>2 DEF FirstAsked
    <3>2. CASE ~(d = r.destination /\ a = r.origin)
      <4>1. <<d, a>> \in DOMAIN held.reads /\ reads[<<d, a>>] = held.reads[<<d, a>>]
        BY <2>2, <3>2 DEF Putting, Dropping
      <4>2. QED
        BY <1>1, <1>2, <3>2, <4>1, ReadsStay
    <3>3. QED
      BY <3>1, <3>2
  <2> HIDE DEF reads
  <2>3. held'.pending = held.pending /\ held'.reads = reads
        /\ held' = [pending |-> held'.pending, reads |-> held'.reads]
    BY <1>1, <2>1
  <2>4. QED
    BY <1>1, <1>3, <1>4, <1>5, <2>1, <2>2, <2>3
<1>10. CASE r.kind = "entry"
  <2> DEFINE b == IF Joined(r) THEN held.pending[r.origin] ELSE Starts(r)
             e == [b EXCEPT !.remaining = r.remaining, !.refs = Append(@, Here)]
             pending == IF r.remaining = 0 THEN Dropping(held.pending, r.origin)
                        ELSE Putting(held.pending, r.origin, e)
             reads == IF Joined(r) THEN held.reads ELSE Dropping(held.reads, <<r.origin, r.destination>>)
             start == IF e.observed THEN "observed" ELSE IF declared THEN "declared" ELSE "not established"
             line == [row |-> Here, refs |-> e.refs, number |-> r.number, start |-> start]
  <2>1. /\ held' = [pending |-> pending, reads |-> reads]
        /\ IF r.remaining > 0 THEN lines' = lines ELSE lines' = Append(lines, line)
    BY <1>10, Zenon DEF ParameterFrame, ParameterChunk, Hold, Keeping, Carry
  <2>2. start = "observed" => e.observed
    BY Zenon
  <2> HIDE DEF start
  <2>3. line.refs = e.refs /\ line.start = start
    OBVIOUS
  <2> HIDE DEF line
  <2>4. OpenEntry(e, fed', r.origin) /\ e.remaining = r.remaining
    <3>1. b = IF Joined(r) THEN held.pending[r.origin] ELSE Starts(r)
      OBVIOUS
    <3> HIDE DEF b
    <3>2. e = [b EXCEPT !.remaining = r.remaining, !.refs = Append(@, Here)]
      OBVIOUS
    <3> HIDE DEF e
    <3>3. QED
      BY <1>6, <3>1, <3>2, ChunkJoins
  <2> HIDE DEF e, b
  <2>5. \A x \in DOMAIN pending : OpenEntry(pending[x], fed', x)
    BY <1>4, <2>4 DEF Putting, Dropping
  <2>6. \A d, a : <<d, a>> \in DOMAIN reads => FirstAsked(fed', Here, d, a, reads[<<d, a>>])
    BY <1>7, <1>10 DEF Dropping
  <2> HIDE DEF pending, reads
  <2>7. held'.pending = pending /\ held'.reads = reads
        /\ held' = [pending |-> held'.pending, reads |-> held'.reads]
    BY <2>1
  <2>8. CASE r.remaining > 0
    BY <1>1, <1>3, <1>5, <2>1, <2>5, <2>6, <2>7, <2>8
  <2>9. CASE ~(r.remaining > 0)
    <3> DEFINE t == Append(lines, line)
    <3>1. r.remaining = 0
      BY <1>6, <2>9
    <3>2. WholeEntry(line, fed')
      BY <2>2, <2>3, <2>4, <3>1 DEF WholeEntry, OpenEntry
    <3>3. /\ IsRows(t) /\ Len(lines) \in Nat /\ DOMAIN lines = 1..Len(lines) /\ DOMAIN t = 1..(Len(lines) + 1)
          /\ \A i \in DOMAIN lines : t[i] = lines[i]
          /\ t[Len(lines) + 1] = line
      BY <1>1, AppendedRow
    <3> HIDE DEF t
    <3>4. \A i \in DOMAIN t : i \in DOMAIN lines \/ i = Len(lines) + 1
      BY <3>3
    <3>5. \A i \in DOMAIN t : WholeEntry(t[i], fed')
      BY <1>3, <3>2, <3>3, <3>4
    <3>6. lines' = t
      BY <2>1, <2>9 DEF t
    <3>7. QED
      BY <1>5, <2>5, <2>6, <2>7, <3>3, <3>5, <3>6
  <2>10. QED
    BY <2>8, <2>9
<1>11. QED
  BY <1>8, <1>9, <1>10, Zenon DEF ParameterFrame

(* An entry has all its chunks, and says no more of its start than was read. *)
LEMMA ParametersHold == ConverterSpec => []EntriesAreWhole
<1>1. ConverterInit => ParameterInv
  <2>1. ConverterInit => lines = <<>>
    BY DEF ConverterInit, Starting
  <2>2. IsRows(<<>>) /\ DOMAIN <<>> = {}
    BY FewRows
  <2>3. ConverterInit /\ ParameterRuns => held = NothingJoined
    BY Zenon DEF ConverterInit, Starting, ConverterStart, ParameterRuns
  <2>4. /\ NothingJoined.pending = <<>> /\ NothingJoined.reads = <<>>
        /\ NothingJoined = [pending |-> NothingJoined.pending, reads |-> NothingJoined.reads]
    BY DEF NothingJoined
  <2>5. QED
    BY <2>1, <2>2, <2>3, <2>4 DEF ParameterInv
<1>2. SavedFile /\ ParameterInv /\ [ConverterNext]_linesVars => ParameterInv'
  <2> SUFFICES ASSUME SavedFile, ParameterInv, [ConverterNext]_linesVars, ParameterRuns
               PROVE  ParameterInv'
    BY SameScript DEF ParameterInv, ParameterRuns
  <2>1. ASSUME NEW r \in Records[converter], Taking(r), ConverterStep(r) PROVE ParameterInv'
    <3>1. ParameterFrame(r)
      BY <2>1, Zenon DEF ConverterStep, HostsStep, RoversStep, FlightStep, MissionsStep, LinksStep, FleetsStep,
         ServersStep, BagsStep, PacketsStep, ParameterRuns
    <3>2. QED
      BY <2>1, <3>1, RecordRead, ParameterRecordInv
  <2>2. CASE ConverterEnd \/ Refuse \/ UNCHANGED linesVars
    <3>1. ConverterEnd => EndCarried
      BY Zenon DEF ConverterEnd, ParameterRuns
    <3>2. UNCHANGED <<converter, fed, lines, held>>
      BY <2>2, <3>1 DEF EndCarried, Ending, Keeping, Refuse, linesVars
    <3>3. QED
      BY <3>2 DEF ParameterInv, ParameterRuns
  <2>3. QED
    BY <2>1, <2>2 DEF ConverterNext
<1>3. ParameterInv => EntriesAreWhole
  <2>1. EntriesAreWhole <=>
           (ParameterRuns => \A i \in DOMAIN lines :
               /\ \A k \in DOMAIN lines[i].refs :
                     /\ fed[lines[i].refs[k]].number = fed[lines[i].refs[1]].number
                     /\ fed[lines[i].refs[k]].remaining = Len(lines[i].refs) - k
                     /\ fed[lines[i].refs[k]].origin = fed[lines[i].refs[1]].origin
                     /\ fed[lines[i].refs[k]].destination = fed[lines[i].refs[1]].destination
               /\ lines[i].start = "observed" => Established(lines[i].refs, fed))
    BY Zenon DEF EntriesAreWhole, ParameterRuns, Established, FirstAsked, ReadsOf
  <2>2. ASSUME NEW refs, Chunks(refs, fed, 0)
        PROVE  \A k \in DOMAIN refs :
                     /\ fed[refs[k]].number = fed[refs[1]].number
                     /\ fed[refs[k]].remaining = Len(refs) - k
                     /\ fed[refs[k]].origin = fed[refs[1]].origin
                     /\ fed[refs[k]].destination = fed[refs[1]].destination
    <3>1. refs \in Seq(DOMAIN fed)
      BY <2>2 DEF Chunks
    <3>2. Len(refs) \in Nat /\ DOMAIN refs = 1..Len(refs)
      BY <3>1
    <3> DEFINE m == Len(refs)
    <3>3. \A k \in DOMAIN refs : 0 + m - k = m - k
      BY <3>2
    <3>4. QED
      BY <2>2, <3>3 DEF Chunks
  <2>3. QED
    BY <2>1, <2>2 DEF ParameterInv, WholeEntry
<1>4. QED
  BY <1>1, <1>2, <1>3, FileIsSaved, PTL DEF ConverterSpec

-----------------------------------------------------------------------------
(* Rows put in an order. *)

-----------------------------------------------------------------------------
(* Status texts in several chunks. *)

TextRuns == converter = "mavlink statustext"

KeyOf(r) == <<r.key, r.id>>

(* The chunks of a text are all there are of its key, as far as it goes. *)
TextChunks(refs, f, upto) ==
    /\ refs \in Seq(DOMAIN f) /\ Len(refs) # 0
    /\ \A k \in DOMAIN refs :
          /\ KeyOf(f[refs[k]]) = KeyOf(f[refs[1]])
          /\ f[refs[k]].severity = f[refs[1]].severity
          /\ f[refs[k]].seq = f[refs[1]].seq + k - 1
    /\ \A n \in refs[1]..upto :
          f[n].kind = "text" /\ KeyOf(f[n]) = KeyOf(f[refs[1]]) => \E k \in DOMAIN refs : refs[k] = n

WholeText(line, f) ==
    /\ TextChunks(line.refs, f, Last(line.refs)) /\ line.row = Last(line.refs)
    /\ line.complete /\ f[line.refs[1]].id # 0 => f[line.refs[1]].seq = 0 /\ f[Last(line.refs)].nul

OpenText(g, f, upto, key) ==
    /\ g = [severity |-> g.severity, refs |-> g.refs, zero |-> g.zero]
    /\ TextChunks(g.refs, f, upto)
    /\ KeyOf(f[g.refs[1]]) = key /\ f[g.refs[1]].severity = g.severity
    /\ g.zero => f[g.refs[1]].seq = 0

(* No two texts have their last chunk in common.                               *)
TextsApart(ls, h) ==
    /\ \A i, j \in DOMAIN ls : ls[i].row = ls[j].row => i = j
    /\ \A i \in DOMAIN ls : \A key \in DOMAIN h : ls[i].row # Last(h[key].refs)

TextInv ==
    TextRuns =>
        /\ IsRows(lines)
        /\ \A i \in DOMAIN lines : WholeText(lines[i], fed)
        /\ verdict # "converted" =>
              /\ IsFiniteSet(DOMAIN held)
              /\ \A key \in DOMAIN held : OpenText(held[key], fed, Len(fed), key)
              /\ TextsApart(lines, held)

(* Where the chunks of a text are. *)
LEMMA ChunkPlaces ==
    ASSUME NEW f, NEW refs, NEW upto, TextChunks(refs, f, upto), DOMAIN f \subseteq Nat
    PROVE  /\ Len(refs) \in Nat /\ DOMAIN refs = 1..Len(refs) /\ 1 \in DOMAIN refs
           /\ Len(refs) \in DOMAIN refs /\ Last(refs) = refs[Len(refs)] /\ Last(refs) \in DOMAIN f
           /\ \A k \in DOMAIN refs : refs[k] \in DOMAIN f
           /\ KeyOf(f[Last(refs)]) = KeyOf(f[refs[1]])
           /\ f[Last(refs)].seq = f[refs[1]].seq + Len(refs) - 1
           /\ upto \in Nat => \A n \in DOMAIN f : n <= upto => TextChunks(refs, f, n)
<1>1. refs \in Seq(DOMAIN f) /\ Len(refs) # 0
  BY DEF TextChunks
<1>2. Len(refs) \in Nat /\ DOMAIN refs = 1..Len(refs)
  BY <1>1
<1>3. 1 \in DOMAIN refs /\ Len(refs) \in DOMAIN refs
  BY <1>1, <1>2
<1>4. \A k \in DOMAIN refs : refs[k] \in DOMAIN f
  BY <1>1
<1>5. Last(refs) = refs[Len(refs)]
  BY DEF Last
<1>6. KeyOf(f[Last(refs)]) = KeyOf(f[refs[1]]) /\ f[Last(refs)].seq = f[refs[1]].seq + Len(refs) - 1
  BY <1>3, <1>5 DEF TextChunks
<1>7. ASSUME upto \in Nat, NEW n \in DOMAIN f, n <= upto PROVE TextChunks(refs, f, n)
  <2>1. \A m \in refs[1]..n : m \in refs[1]..upto
    <3>1. n \in Nat /\ refs[1] \in Nat
      BY <1>3, <1>4
    <3>2. SUFFICES ASSUME NEW m \in refs[1]..n PROVE m \in refs[1]..upto
      OBVIOUS
    <3>3. QED
      BY <1>7, <3>1
  <2>2. QED
    BY <2>1 DEF TextChunks
<1>8. QED
  BY <1>2, <1>3, <1>4, <1>5, <1>6, <1>7

(* What a record read later leaves of a text that has ended. *)
LEMMA TextStays ==
    ASSUME NEW r, ReadOne(r), NEW refs, NEW upto \in DOMAIN fed, TextChunks(refs, fed, upto)
    PROVE  TextChunks(refs, fed', upto)
<1>1. /\ DOMAIN fed' = DOMAIN fed \cup {Here} /\ DOMAIN fed \subseteq DOMAIN fed'
      /\ \A i \in DOMAIN fed : fed'[i] = fed[i]
      /\ DOMAIN fed = 1..Len(fed) /\ Len(fed) \in Nat /\ DOMAIN fed \subseteq Nat
  BY DEF ReadOne
<1>2. /\ 1 \in DOMAIN refs /\ \A k \in DOMAIN refs : refs[k] \in DOMAIN fed
  BY <1>1, ChunkPlaces
<1>3. refs \in Seq(DOMAIN fed')
  BY <1>1, SeqMonotonic DEF TextChunks
<1>4. \A k \in DOMAIN refs : fed'[refs[k]] = fed[refs[k]]
  BY <1>1, <1>2
<1>5. \A n \in refs[1]..upto : fed'[n] = fed[n]
  <2>1. refs[1] \in 1..Len(fed) /\ upto \in 1..Len(fed)
    BY <1>1, <1>2
  <2>2. \A n \in refs[1]..upto : n \in DOMAIN fed
    BY <1>1, <2>1
  <2>3. QED
    BY <1>1, <2>2
<1>6. QED
  BY <1>2, <1>3, <1>4, <1>5 DEF TextChunks

(* A record of something else does not belong to an open text. *)
LEMMA TextStandsBy ==
    ASSUME NEW r, ReadOne(r), NEW refs, TextChunks(refs, fed, Len(fed)),
           ~(r.kind = "text" /\ KeyOf(r) = KeyOf(fed[refs[1]]))
    PROVE  TextChunks(refs, fed', Here)
<1>1. /\ DOMAIN fed' = DOMAIN fed \cup {Here} /\ \A i \in DOMAIN fed : fed'[i] = fed[i]
      /\ DOMAIN fed = 1..Len(fed) /\ Len(fed) \in Nat /\ DOMAIN fed \subseteq Nat
      /\ Here = Len(fed) + 1 /\ fed'[Here] = r
  BY DEF ReadOne
<1>2. 1 \in DOMAIN refs /\ \A k \in DOMAIN refs : refs[k] \in DOMAIN fed
  BY <1>1, ChunkPlaces
<1>3. Len(fed) \in DOMAIN fed /\ refs[1] \in DOMAIN fed
  BY <1>1, <1>2
<1>4. TextChunks(refs, fed', Len(fed))
  BY <1>3, TextStays
<1>5. \A n \in refs[1]..Here : n \in refs[1]..Len(fed) \/ n = Here
  BY <1>1, <1>3
<1>6. fed'[refs[1]] = fed[refs[1]]
  BY <1>1, <1>3
<1>7. QED
  BY <1>1, <1>4, <1>5, <1>6 DEF TextChunks

(* A chunk that opens a text is all of it so far. *)
LEMMA TextOpens ==
    ASSUME NEW r, ReadOne(r), \E s \in Nat : r.seq = s
    PROVE  TextChunks(<<Here>>, fed', Here) /\ Last(<<Here>>) = Here /\ <<Here>>[1] = Here
<1>1. Here \in DOMAIN fed' /\ fed'[Here] = r /\ Here \in Nat
  BY DEF ReadOne
<1> DEFINE g == <<Here>>
<1>2. g \in Seq(DOMAIN fed') /\ Len(g) = 1 /\ DOMAIN g = {1} /\ g[1] = Here
  BY <1>1
<1> HIDE DEF g
<1>3. r.seq = r.seq + 1 - 1
  OBVIOUS
<1>4. \A n \in Here..Here : n = Here
  BY <1>1
<1>5. TextChunks(g, fed', Here) /\ Last(g) = Here
  BY <1>1, <1>2, <1>3, <1>4 DEF TextChunks, Last
<1>6. QED
  BY <1>2, <1>5 DEF g

(* A chunk that follows the last one of an open text is the next of it. *)
LEMMA TextGrows ==
    ASSUME NEW r, ReadOne(r), NEW refs, TextChunks(refs, fed, Len(fed)),
           KeyOf(r) = KeyOf(fed[refs[1]]), r.severity = fed[refs[1]].severity,
           fed[refs[1]].seq \in Nat, r.seq = fed[Last(refs)].seq + 1
    PROVE  /\ TextChunks(Append(refs, Here), fed', Here)
           /\ Last(Append(refs, Here)) = Here /\ Append(refs, Here)[1] = refs[1]
<1> DEFINE g == Append(refs, Here)
           m == Len(refs)
           q == fed[refs[1]].seq
<1>1. /\ DOMAIN fed' = DOMAIN fed \cup {Here} /\ \A i \in DOMAIN fed : fed'[i] = fed[i]
      /\ DOMAIN fed = 1..Len(fed) /\ Len(fed) \in Nat /\ DOMAIN fed \subseteq Nat
      /\ Here = Len(fed) + 1 /\ fed'[Here] = r /\ Here \in DOMAIN fed'
  BY DEF ReadOne
<1>2. /\ m \in Nat /\ DOMAIN refs = 1..m /\ 1 \in DOMAIN refs /\ m \in DOMAIN refs
      /\ \A k \in DOMAIN refs : refs[k] \in DOMAIN fed
      /\ fed[Last(refs)].seq = q + m - 1
  BY <1>1, ChunkPlaces
<1>3. Len(fed) \in DOMAIN fed /\ refs[1] \in DOMAIN fed
  BY <1>1, <1>2
<1>4. TextChunks(refs, fed', Len(fed)) /\ fed'[refs[1]] = fed[refs[1]]
  BY <1>1, <1>3, TextStays
<1>5. refs \in Seq(DOMAIN fed')
  BY <1>4 DEF TextChunks
<1>6. /\ g \in Seq(DOMAIN fed') /\ Len(g) = m + 1 /\ DOMAIN g = 1..(m + 1)
      /\ \A k \in 1..m : g[k] = refs[k]
      /\ g[m + 1] = Here
  BY <1>1, <1>2, <1>5
<1>7. r.seq = q + (m + 1) - 1
  <2>1. q \in Nat /\ m \in Nat /\ r.seq = q + m - 1 + 1
    BY <1>2
  <2> HIDE DEF q, m
  <2>2. q + m - 1 + 1 = q + (m + 1) - 1
    BY <2>1
  <2>3. QED
    BY <2>1, <2>2
<1> HIDE DEF g, m, q
<1>8. 1 \in 1..m /\ m + 1 # 0 /\ m + 1 \in 1..(m + 1) /\ (\A k \in 1..(m + 1) : k \in 1..m \/ k = m + 1)
      /\ 1..m \subseteq 1..(m + 1)
  BY <1>2
<1>9. g[1] = refs[1] /\ Last(g) = Here
  BY <1>6, <1>8 DEF Last
<1>10. \A k \in DOMAIN g :
          /\ KeyOf(fed'[g[k]]) = KeyOf(fed'[g[1]])
          /\ fed'[g[k]].severity = fed'[g[1]].severity
          /\ fed'[g[k]].seq = fed'[g[1]].seq + k - 1
  <2>1. ASSUME NEW k \in 1..m
        PROVE  /\ KeyOf(fed'[g[k]]) = KeyOf(fed'[g[1]])
               /\ fed'[g[k]].severity = fed'[g[1]].severity
               /\ fed'[g[k]].seq = fed'[g[1]].seq + k - 1
    <3>1. /\ KeyOf(fed'[refs[k]]) = KeyOf(fed'[refs[1]])
          /\ fed'[refs[k]].severity = fed'[refs[1]].severity
          /\ fed'[refs[k]].seq = fed'[refs[1]].seq + k - 1
      BY <1>2, <1>4 DEF TextChunks
    <3>2. g[k] = refs[k] /\ g[1] = refs[1]
      BY <1>6, <1>9
    <3>3. QED
      BY <3>1, <3>2
  <2>2. /\ KeyOf(fed'[g[m + 1]]) = KeyOf(fed'[g[1]])
        /\ fed'[g[m + 1]].severity = fed'[g[1]].severity
        /\ fed'[g[m + 1]].seq = fed'[g[1]].seq + (m + 1) - 1
    BY <1>1, <1>4, <1>6, <1>7, <1>9 DEF q
  <2>3. QED
    BY <1>6, <1>8, <2>1, <2>2
<1>11. ASSUME NEW n \in g[1]..Here, fed'[n].kind = "text", KeyOf(fed'[n]) = KeyOf(fed'[g[1]])
       PROVE  \E k \in DOMAIN g : g[k] = n
  <2>1. CASE n = Here
    BY <1>6, <1>8, <2>1
  <2>2. CASE n # Here
    <3>1. n \in refs[1]..Len(fed)
      BY <1>1, <1>3, <1>9, <1>11, <2>2
    <3>2. PICK k \in DOMAIN refs : refs[k] = n
      BY <1>4, <1>9, <1>11, <3>1 DEF TextChunks
    <3>3. QED
      BY <1>2, <1>6, <1>8, <3>2
  <2>3. QED
    BY <2>1, <2>2
<1>12. TextChunks(g, fed', Here)
  BY <1>6, <1>8, <1>10, <1>11 DEF TextChunks
<1>13. QED
  BY <1>9, <1>12 DEF g

(* Ended and open texts together. *)
TextState(ls, h, f, upto) ==
    /\ IsRows(ls) /\ \A i \in DOMAIN ls : WholeText(ls[i], f)
    /\ IsFiniteSet(DOMAIN h) /\ \A key \in DOMAIN h : OpenText(h[key], f, upto, key)
    /\ TextsApart(ls, h)

(* A text that ends joins those that ended before. *)
LEMMA TextEnds ==
    ASSUME NEW ls, NEW h, NEW f, NEW upto, TextState(ls, h, f, upto), NEW w, WholeText(w, f),
           \A i \in DOMAIN ls : ls[i].row # w.row, \A key \in DOMAIN h : w.row # Last(h[key].refs)
    PROVE  TextState(Append(ls, w), h, f, upto)
<1> DEFINE t == Append(ls, w)
<1>1. /\ IsRows(t) /\ Len(ls) \in Nat /\ DOMAIN ls = 1..Len(ls) /\ DOMAIN t = 1..(Len(ls) + 1)
      /\ \A i \in DOMAIN ls : t[i] = ls[i]
      /\ t[Len(ls) + 1] = w
  BY AppendedRow DEF TextState
<1> HIDE DEF t
<1>2. \A i \in DOMAIN t : i \in DOMAIN ls \/ i = Len(ls) + 1
  BY <1>1
<1>3. \A i \in DOMAIN t : WholeText(t[i], f)
  BY <1>1, <1>2 DEF TextState
<1>4. TextsApart(t, h)
  BY <1>1, <1>2 DEF TextState, TextsApart
<1>5. QED
  BY <1>1, <1>3, <1>4 DEF TextState, t

(* Rows at the end, none, one or two. *)
LEMMA FewMore ==
    ASSUME NEW s, IsRows(s), NEW a, NEW b
    PROVE  /\ s \o (<<>> \o <<>>) = s
           /\ s \o (<<>> \o <<b>>) = Append(s, b)
           /\ s \o (<<a>> \o <<>>) = Append(s, a)
           /\ s \o (<<a>> \o <<b>>) = Append(Append(s, a), b)
<1>1. PICK S : s \in Seq(S)
  BY DEF IsRows
<1> DEFINE T == S \cup {a, b}
<1>2. s \in Seq(T)
  BY <1>1, SeqMonotonic
<1>3. a \in T /\ b \in T
  OBVIOUS
<1> HIDE DEF T
<1>4. <<a>> \in Seq(T) /\ <<b>> \in Seq(T) /\ <<>> \in Seq(T)
  BY <1>3
<1>5. <<>> \o <<>> = <<>> /\ <<>> \o <<b>> = <<b>> /\ <<a>> \o <<>> = <<a>> /\ s \o <<>> = s
  BY <1>2, <1>4, ConcatEmptySeq
<1>6. Append(s, a) = s \o <<a>> /\ Append(s, b) = s \o <<b>> /\ Append(s, a) \in Seq(T)
  BY <1>2, <1>3, AppendIsConcat, AppendProperties
<1>7. Append(Append(s, a), b) = Append(s, a) \o <<b>>
  BY <1>3, <1>6, AppendIsConcat
<1>8. (s \o <<a>>) \o <<b>> = s \o (<<a>> \o <<b>>)
  BY <1>2, <1>4, ConcatAssociative
<1>9. QED
  BY <1>5, <1>6, <1>7, <1>8, Zenon

(* The chunk read goes to the open text of its key or opens one. *)
LEMMA ChunkOfText ==
    ASSUME NEW r, ReadOne(r), TextRuns, NEW from,
           \/ OpenText(from, fed, Len(fed), KeyOf(r)) /\ ContinuesText(from, r)
           \/ from = Opened(r),
           NEW g, g = [from EXCEPT !.refs = Append(@, Here)]
    PROVE  OpenText(g, fed', Here, KeyOf(r)) /\ Last(g.refs) = Here
<1>1. \A x \in Records[converter] : x.seq \in Nat
  BY PartAssumption, Zenon DEF TextRuns
<1>2. r.seq \in Nat /\ fed'[Here] = r /\ \A i \in DOMAIN fed : fed'[i] = fed[i] /\ fed[i].seq \in Nat
      /\ DOMAIN fed = 1..Len(fed) /\ Len(fed) \in Nat /\ DOMAIN fed \subseteq Nat
  BY <1>1 DEF ReadOne, SavedFile
<1>3. CASE OpenText(from, fed, Len(fed), KeyOf(r)) /\ ContinuesText(from, r)
  <2> DEFINE s == from.refs
             a == Append(s, Here)
  <2>1. /\ from = [severity |-> from.severity, refs |-> s, zero |-> from.zero]
        /\ TextChunks(s, fed, Len(fed)) /\ KeyOf(fed[s[1]]) = KeyOf(r)
        /\ fed[s[1]].severity = from.severity
        /\ (from.zero => fed[s[1]].seq = 0)
        /\ r.seq = fed[Last(s)].seq + 1 /\ r.severity = from.severity
    BY <1>3 DEF OpenText, ContinuesText
  <2>2. g = [from EXCEPT !.refs = a]
    OBVIOUS
  <2> HIDE DEF s, a
  <2>3. g.severity = from.severity /\ g.refs = a /\ g.zero = from.zero
        /\ g = [severity |-> g.severity, refs |-> g.refs, zero |-> g.zero]
    BY <2>1, <2>2
  <2>4. s[1] \in DOMAIN fed
    BY <1>2, <2>1, ChunkPlaces
  <2>5. TextChunks(a, fed', Here) /\ Last(a) = Here /\ a[1] = s[1]
    <3>1. KeyOf(r) = KeyOf(fed[s[1]]) /\ r.severity = fed[s[1]].severity
      BY <2>1
    <3>2. fed[s[1]].seq \in Nat /\ r.seq = fed[Last(s)].seq + 1
      BY <1>2, <2>1, <2>4
    <3>3. TextChunks(s, fed, Len(fed))
      BY <2>1
    <3>4. QED
      BY <1>1, <3>1, <3>2, <3>3, TextGrows DEF a
  <2>6. fed'[a[1]] = fed[s[1]]
    BY <1>2, <2>4, <2>5
  <2>7. QED
    BY <2>1, <2>3, <2>5, <2>6 DEF OpenText
<1>4. CASE from = Opened(r)
  <2> DEFINE zero == r.seq = 0
             a == <<Here>>
  <2>1. Append(<<>>, Here) = a
    OBVIOUS
  <2>2. g = [[severity |-> r.severity, refs |-> <<>>, zero |-> zero] EXCEPT !.refs = Append(@, Here)]
    BY <1>4 DEF Opened
  <2> HIDE DEF zero, a
  <2>3. g = [severity |-> r.severity, refs |-> a, zero |-> zero]
    BY <2>1, <2>2
  <2>4. g.severity = r.severity /\ g.refs = a /\ g.zero = zero
    BY <2>3
  <2>5. TextChunks(a, fed', Here) /\ Last(a) = Here /\ a[1] = Here
    BY <1>2, TextOpens DEF a
  <2>6. g.zero => fed'[a[1]].seq = 0
    BY <1>2, <2>4, <2>5 DEF zero
  <2>7. QED
    BY <1>2, <2>3, <2>4, <2>5, <2>6 DEF OpenText
<1>5. QED
  BY <1>3, <1>4

(* Without the text of a key, the others are as they were; and so is that one  *)
(* as far as it went.                                                           *)
LEMMA OtherTexts ==
    ASSUME NEW r, ReadOne(r), TextState(lines, held, fed, Len(fed)), r.kind = "text", NEW key, key = KeyOf(r)
    PROVE  /\ TextState(lines, Dropping(held, key), fed', Here)
           /\ \A i \in DOMAIN lines : lines[i].row \in DOMAIN fed
           /\ \A k \in DOMAIN held : Last(held[k].refs) \in DOMAIN fed /\ KeyOf(fed[Last(held[k].refs)]) = k
           /\ key \in DOMAIN held => WholeText(Text(held[key], FALSE), fed')
<1>1. /\ DOMAIN fed' = DOMAIN fed \cup {Here} /\ \A i \in DOMAIN fed : fed'[i] = fed[i]
      /\ DOMAIN fed = 1..Len(fed) /\ Len(fed) \in Nat /\ DOMAIN fed \subseteq Nat
      /\ Here = Len(fed) + 1 /\ fed'[Here] = r
  BY DEF ReadOne
<1>2. ASSUME NEW i \in DOMAIN lines PROVE lines[i].row \in DOMAIN fed /\ WholeText(lines[i], fed')
  <2> DEFINE s == lines[i].refs
  <2>1. WholeText(lines[i], fed) /\ TextChunks(s, fed, Last(s))
    BY DEF TextState, WholeText
  <2>2. 1 \in DOMAIN s /\ Last(s) \in DOMAIN fed /\ s[1] \in DOMAIN fed
    BY <1>1, <2>1, ChunkPlaces
  <2>3. TextChunks(s, fed', Last(s)) /\ fed'[Last(s)] = fed[Last(s)] /\ fed'[s[1]] = fed[s[1]]
    BY <1>1, <2>1, <2>2, TextStays
  <2>4. QED
    BY <2>1, <2>2, <2>3 DEF WholeText
<1>3. ASSUME NEW k \in DOMAIN held
      PROVE  /\ TextChunks(held[k].refs, fed, Len(fed)) /\ held[k].refs[1] \in DOMAIN fed
             /\ Last(held[k].refs) \in DOMAIN fed /\ KeyOf(fed[Last(held[k].refs)]) = k
             /\ KeyOf(fed[held[k].refs[1]]) = k
  <2>1. TextChunks(held[k].refs, fed, Len(fed)) /\ KeyOf(fed[held[k].refs[1]]) = k
    BY DEF TextState, OpenText
  <2>2. QED
    BY <1>1, <2>1, ChunkPlaces
<1>4. ASSUME NEW k \in DOMAIN held, k # key PROVE OpenText(held[k], fed', Here, k)
  <2>1. TextChunks(held[k].refs, fed', Here)
    BY <1>3, <1>4, TextStandsBy
  <2>2. fed'[held[k].refs[1]] = fed[held[k].refs[1]]
    BY <1>1, <1>3
  <2>3. OpenText(held[k], fed, Len(fed), k)
    BY DEF TextState
  <2>4. QED
    BY <2>1, <2>2, <2>3 DEF OpenText
<1>5. TextState(lines, Dropping(held, key), fed', Here)
  <2> DEFINE h == Dropping(held, key)
  <2>1. DOMAIN h = DOMAIN held \ {key} /\ \A k \in DOMAIN h : h[k] = held[k]
    BY DEF Dropping
  <2> HIDE DEF h
  <2>2. IsFiniteSet(DOMAIN held) /\ IsRows(lines) /\ TextsApart(lines, held)
    BY DEF TextState
  <2>3. IsFiniteSet(DOMAIN h)
    BY <2>1, <2>2, FS_Subset
  <2>4. TextsApart(lines, h)
    BY <2>1, <2>2 DEF TextsApart
  <2>5. TextState(lines, h, fed', Here)
    BY <1>2, <1>4, <2>1, <2>2, <2>3, <2>4 DEF TextState
  <2>6. QED
    BY <2>5 DEF h
<1>6. ASSUME key \in DOMAIN held PROVE WholeText(Text(held[key], FALSE), fed')
  <2> DEFINE s == held[key].refs
  <2>1. Last(s) \in DOMAIN fed /\ TextChunks(s, fed, Len(fed)) /\ Last(s) <= Len(fed)
    BY <1>1, <1>3, <1>6
  <2>2. TextChunks(s, fed, Last(s))
    BY <1>1, <2>1, ChunkPlaces
  <2>3. TextChunks(s, fed', Last(s))
    BY <2>1, <2>2, TextStays
  <2> HIDE DEF s
  <2> DEFINE w == Text(held[key], FALSE)
  <2>4. w.row = Last(s) /\ w.refs = s /\ w.complete = FALSE
    BY DEF Text, s
  <2> HIDE DEF w
  <2>5. WholeText(w, fed')
    BY <2>3, <2>4 DEF WholeText
  <2>6. QED
    BY <2>5 DEF w
<1>7. QED
  BY <1>2, <1>3, <1>5, <1>6

(* A status text leaves ended texts whole and open ones in order. *)
LEMMA TextRecordInv ==
    ASSUME TextInv, TextRuns, NEW r, ReadOne(r), StatusText(r)
    PROVE  TextInv'
<1>1. verdict = "reading" /\ verdict' = "reading" /\ Len(fed') = Here /\ fed'[Here] = r
      /\ DOMAIN fed = 1..Len(fed) /\ Len(fed) \in Nat /\ DOMAIN fed \subseteq Nat /\ Here \notin DOMAIN fed
      /\ \A i \in DOMAIN fed : fed'[i] = fed[i]
  BY DEF ReadOne
<1>2. TextState(lines, held, fed, Len(fed))
  BY <1>1 DEF TextInv, TextState
<1>3. TextState(lines', held', fed', Here) => TextInv'
  BY <1>1 DEF TextInv, TextState
<1>4. CASE r.kind = "other"
  <2>1. lines' = lines /\ held' = held
    BY <1>4, Zenon DEF StatusText, PassOver, Plain
  <2>2. ASSUME NEW i \in DOMAIN lines PROVE WholeText(lines[i], fed')
    <3> DEFINE s == lines[i].refs
    <3>1. WholeText(lines[i], fed) /\ TextChunks(s, fed, Last(s))
      BY <1>2 DEF TextState, WholeText
    <3>2. 1 \in DOMAIN s /\ Last(s) \in DOMAIN fed /\ s[1] \in DOMAIN fed
      BY <1>1, <3>1, ChunkPlaces
    <3>3. TextChunks(s, fed', Last(s)) /\ fed'[Last(s)] = fed[Last(s)] /\ fed'[s[1]] = fed[s[1]]
      BY <1>1, <3>1, <3>2, TextStays
    <3>4. QED
      BY <3>1, <3>2, <3>3 DEF WholeText
  <2>3. ASSUME NEW k \in DOMAIN held PROVE OpenText(held[k], fed', Here, k)
    <3>1. OpenText(held[k], fed, Len(fed), k)
      BY <1>2 DEF TextState
    <3>2. TextChunks(held[k].refs, fed, Len(fed))
      BY <3>1 DEF OpenText
    <3>3. TextChunks(held[k].refs, fed', Here)
      BY <1>4, <3>2, TextStandsBy
    <3>4. held[k].refs[1] \in DOMAIN fed
      BY <1>1, <3>2, ChunkPlaces
    <3>5. QED
      BY <1>1, <3>1, <3>3, <3>4 DEF OpenText
  <2>4. TextState(lines, held, fed', Here)
    BY <1>2, <2>2, <2>3 DEF TextState
  <2>5. QED
    BY <1>3, <2>1, <2>4
<1>5. CASE r.kind = "text"
  <2> DEFINE key == KeyOf(r)
             going == key \in DOMAIN held /\ ContinuesText(held[key], r)
             b == Text(held[key], FALSE)
             broken == IF key \in DOMAIN held /\ ~going THEN <<b>> ELSE <<>>
             from == IF going THEN held[key] ELSE Opened(r)
             g == [from EXCEPT !.refs = Append(@, Here)]
             ends == r.id = 0 \/ r.nul
             w == Text(g, r.id = 0 \/ g.zero)
             h == Dropping(held, key)
             ls == IF key \in DOMAIN held /\ ~going THEN Append(lines, b) ELSE lines
  <2>1. /\ lines' = lines \o (broken \o (IF ends THEN <<w>> ELSE <<>>))
        /\ held' = IF ends THEN h ELSE Putting(held, key, g)
    BY <1>5, Zenon DEF StatusText, CarryAll, Hold, KeyOf
  <2>2. OpenText(g, fed', Here, key) /\ Last(g.refs) = Here
    <3>1. \/ OpenText(from, fed, Len(fed), KeyOf(r)) /\ ContinuesText(from, r)
          \/ from = Opened(r)
      BY <1>2 DEF TextState
    <3> HIDE DEF from
    <3>2. g = [from EXCEPT !.refs = Append(@, Here)]
      OBVIOUS
    <3> HIDE DEF g
    <3>4. OpenText(g, fed', Here, KeyOf(r)) /\ Last(g.refs) = Here
      BY <3>1, <3>2, ChunkOfText
    <3>5. QED
      BY <3>4
  <2> HIDE DEF g
  <2>3. w.row = Here /\ w.refs = g.refs /\ (w.complete <=> r.id = 0 \/ g.zero)
    BY <2>2 DEF Text
  <2>4. ends => WholeText(w, fed')
    <3> SUFFICES ASSUME ends PROVE WholeText(w, fed')
      OBVIOUS
    <3>1. /\ TextChunks(g.refs, fed', Here) /\ KeyOf(fed'[g.refs[1]]) = key
          /\ (g.zero => fed'[g.refs[1]].seq = 0)
      BY <2>2 DEF OpenText
    <3>2. fed'[g.refs[1]].id = r.id
      BY <3>1 DEF KeyOf
    <3> HIDE DEF w
    <3>3. QED
      BY <1>1, <2>2, <2>3, <3>1, <3>2 DEF WholeText
  <2>5. /\ TextState(lines, h, fed', Here)
        /\ \A i \in DOMAIN lines : lines[i].row \in DOMAIN fed
        /\ \A k \in DOMAIN held : Last(held[k].refs) \in DOMAIN fed /\ KeyOf(fed[Last(held[k].refs)]) = k
        /\ key \in DOMAIN held => WholeText(b, fed')
    BY <1>2, <1>5, OtherTexts
  <2>6. DOMAIN h = DOMAIN held \ {key} /\ \A k \in DOMAIN h : h[k] = held[k]
    BY DEF Dropping
  <2>7. b.row = Last(held[key].refs)
    BY DEF Text
  <2> HIDE DEF b, w, h
  <2>8. TextState(ls, h, fed', Here) /\ \A i \in DOMAIN ls : ls[i].row \in DOMAIN fed
    <3>1. CASE key \in DOMAIN held /\ ~going
      <4>1. \A i \in DOMAIN lines : lines[i].row # b.row
        BY <1>2, <2>7, <3>1 DEF TextState, TextsApart
      <4>2. \A k \in DOMAIN h : b.row # Last(h[k].refs)
        BY <2>5, <2>6, <2>7, <3>1
      <4>3. TextState(Append(lines, b), h, fed', Here)
        BY <2>5, <3>1, <4>1, <4>2, TextEnds
      <4> DEFINE t == Append(lines, b)
      <4>4. /\ DOMAIN lines = 1..Len(lines) /\ Len(lines) \in Nat /\ DOMAIN t = 1..(Len(lines) + 1)
            /\ \A i \in DOMAIN lines : t[i] = lines[i]
            /\ t[Len(lines) + 1] = b
        BY <1>2, AppendedRow DEF TextState
      <4> HIDE DEF t
      <4>5. \A i \in DOMAIN t : t[i].row \in DOMAIN fed
        <5>1. \A i \in DOMAIN t : i \in DOMAIN lines \/ i = Len(lines) + 1
          BY <4>4
        <5>2. QED
          BY <2>5, <2>7, <3>1, <4>4, <5>1
      <4>6. ls = t
        BY <3>1 DEF t
      <4>7. TextState(t, h, fed', Here)
        BY <4>3 DEF t
      <4>8. QED
        BY <4>5, <4>6, <4>7
    <3>2. CASE ~(key \in DOMAIN held /\ ~going)
      BY <2>5, <3>2
    <3>3. QED
      BY <3>1, <3>2
  <2>9. lines' = IF ends THEN Append(ls, w) ELSE ls
    <3>1. IsRows(lines)
      BY <1>2 DEF TextState
    <3>2. /\ lines \o (<<>> \o <<>>) = lines
          /\ lines \o (<<>> \o <<w>>) = Append(lines, w)
          /\ lines \o (<<b>> \o <<>>) = Append(lines, b)
          /\ lines \o (<<b>> \o <<w>>) = Append(Append(lines, b), w)
      BY <3>1, FewMore
    <3> HIDE DEF going, ends, key
    <3>3. QED
      BY <2>1, <3>2, Zenon
  <2>10. \A k \in DOMAIN h : Last(h[k].refs) # Here
    BY <1>1, <2>5, <2>6
  <2> HIDE DEF ls
  <2>11. CASE ends
    <3>1. TextState(Append(ls, w), h, fed', Here)
      BY <1>1, <2>3, <2>4, <2>8, <2>10, <2>11, TextEnds
    <3>2. QED
      BY <1>3, <2>1, <2>9, <2>11, <3>1
  <2>12. CASE ~ends
    <3> DEFINE p == Putting(held, key, g)
    <3>1. DOMAIN p = DOMAIN h \cup {key} /\ p[key] = g /\ \A k \in DOMAIN h : p[k] = h[k]
      BY <2>6 DEF Putting
    <3> HIDE DEF p
    <3>2. IsFiniteSet(DOMAIN p)
      BY <2>8, <3>1, FS_AddElement DEF TextState
    <3>3. \A k \in DOMAIN p : OpenText(p[k], fed', Here, k)
      BY <2>2, <2>8, <3>1 DEF TextState
    <3>4. TextsApart(ls, p)
      BY <1>1, <2>2, <2>8, <3>1 DEF TextState, TextsApart
    <3>5. TextState(ls, p, fed', Here)
      BY <2>8, <3>2, <3>3, <3>4 DEF TextState
    <3>6. lines' = ls /\ held' = p
      BY <2>1, <2>9, <2>12 DEF p
    <3>7. QED
      BY <1>3, <3>5, <3>6
  <2>13. QED
    BY <2>11, <2>12
<1>6. QED
  BY <1>4, <1>5, Zenon DEF StatusText

(* The texts that are still open are told of, and no text is lost when all are *)
(* put in the order of their last chunks.                                       *)
LEMMA TextEndInv ==
    ASSUME TextInv, TextRuns, SavedFile, StatusTextEnd
    PROVE  TextInv'
<1> DEFINE left == {Text(held[k], FALSE) : k \in DOMAIN held}
           open == SetToSeq(left)
           all  == lines \o open
           n    == Len(all)
           before(i, j) == \/ fed[all[i].row].time < fed[all[j].row].time
                           \/ fed[all[i].row].time = fed[all[j].row].time /\ all[i].row < all[j].row
           R == {p \in (1..n) \X (1..n) : before(p[1], p[2])}
           sorted == [k \in DOMAIN all |-> all[CHOOSE i \in DOMAIN all :
                                                 Cardinality({j \in DOMAIN all : before(j, i)}) + 1 = k]]
<1>1. /\ DOMAIN fed = 1..Len(fed) /\ Len(fed) \in Nat /\ DOMAIN fed \subseteq Nat
      /\ \A i \in DOMAIN fed : fed[i].time \in Nat
  <2>1. \A x \in Records[converter] : x.time \in Nat
    BY PartAssumption, Zenon DEF TextRuns
  <2>2. QED
    BY <2>1 DEF SavedFile
<1>2. verdict = "reading" /\ verdict' = "converted" /\ lines' = sorted /\ UNCHANGED <<converter, fed, held>>
  BY ZenonT(60) DEF StatusTextEnd, Ending, Sorted
<1>3. TextState(lines, held, fed, Len(fed))
  BY <1>2 DEF TextInv, TextState
<1>4. \A k : Text(held[k], FALSE).row = Last(held[k].refs)
  BY DEF Text
<1>5. ASSUME NEW k \in DOMAIN held
      PROVE  /\ WholeText(Text(held[k], FALSE), fed)
             /\ Last(held[k].refs) \in DOMAIN fed /\ KeyOf(fed[Last(held[k].refs)]) = k
  <2> DEFINE s == held[k].refs
             w == Text(held[k], FALSE)
  <2>1. TextChunks(s, fed, Len(fed)) /\ KeyOf(fed[s[1]]) = k
    BY <1>3 DEF TextState, OpenText
  <2>2. Last(s) \in DOMAIN fed /\ KeyOf(fed[Last(s)]) = k
    BY <1>1, <2>1, ChunkPlaces
  <2>3. TextChunks(s, fed, Last(s))
    BY <1>1, <2>1, <2>2, ChunkPlaces
  <2> HIDE DEF s
  <2>4. w.row = Last(s) /\ w.refs = s /\ w.complete = FALSE
    BY DEF Text, s
  <2> HIDE DEF w
  <2>5. WholeText(w, fed)
    BY <2>3, <2>4 DEF WholeText
  <2>6. QED
    BY <2>2, <2>5 DEF s, w
<1>6. ASSUME NEW i \in DOMAIN lines PROVE WholeText(lines[i], fed) /\ lines[i].row \in DOMAIN fed
  <2> DEFINE s == lines[i].refs
  <2>1. WholeText(lines[i], fed) /\ TextChunks(s, fed, Last(s)) /\ lines[i].row = Last(s)
    BY <1>3 DEF TextState, WholeText
  <2>2. Last(s) \in DOMAIN fed
    BY <1>1, <2>1, ChunkPlaces
  <2>3. QED
    BY <2>1, <2>2
<1>7. IsFiniteSet(left)
  <2> DEFINE each == [k \in DOMAIN held |-> Text(held[k], FALSE)]
  <2>1. each \in Surjection(DOMAIN held, left)
    BY DEF Surjection
  <2>2. IsFiniteSet(DOMAIN held)
    BY <1>3 DEF TextState
  <2> HIDE DEF each, left
  <2>3. QED
    BY <2>1, <2>2, FS_Surjection
<1>8. /\ IsRows(open)
      /\ \A j \in DOMAIN open : open[j] \in left
      /\ \A i, j \in DOMAIN open : open[i] = open[j] => i = j
  BY <1>7, SetAsRows
<1> HIDE DEF open
<1>9. /\ IsRows(all)
      /\ \A i \in DOMAIN lines : i \in DOMAIN all /\ all[i] = lines[i]
      /\ \A j \in DOMAIN open : Len(lines) + j \in DOMAIN all /\ all[Len(lines) + j] = open[j]
      /\ \A m \in DOMAIN all : m \in DOMAIN lines \/ \E j \in DOMAIN open : m = Len(lines) + j
  BY <1>3, <1>8, ConcatRows DEF TextState
<1>10. \A j \in DOMAIN open : \E k \in DOMAIN held : open[j] = Text(held[k], FALSE)
  BY <1>8
<1> HIDE DEF left, all
<1>11. n \in Nat /\ DOMAIN all = 1..n
  BY <1>9, LenProperties DEF IsRows
<1>12. \A m \in DOMAIN all : WholeText(all[m], fed) /\ all[m].row \in DOMAIN fed
  <2> SUFFICES ASSUME NEW m \in DOMAIN all PROVE WholeText(all[m], fed) /\ all[m].row \in DOMAIN fed
    OBVIOUS
  <2>1. CASE m \in DOMAIN lines
    BY <1>6, <1>9, <2>1
  <2>2. CASE \E j \in DOMAIN open : m = Len(lines) + j
    <3>1. PICK j \in DOMAIN open : m = Len(lines) + j
      BY <2>2
    <3>2. PICK k \in DOMAIN held : open[j] = Text(held[k], FALSE)
      BY <1>10
    <3>3. all[m] = Text(held[k], FALSE)
      BY <1>9, <3>1, <3>2
    <3>4. all[m].row = Last(held[k].refs)
      BY <1>4, <3>3
    <3>5. QED
      BY <1>5, <3>3, <3>4
  <2>3. QED
    BY <1>9, <2>1, <2>2
<1>13. \A i, j \in DOMAIN all : all[i].row = all[j].row => i = j
  <2> SUFFICES ASSUME NEW i \in DOMAIN all, NEW j \in DOMAIN all, all[i].row = all[j].row PROVE i = j
    OBVIOUS
  <2>1. CASE i \in DOMAIN lines /\ j \in DOMAIN lines
    BY <1>3, <1>9, <2>1 DEF TextState, TextsApart
  <2>2. ASSUME NEW a \in DOMAIN lines, NEW b \in DOMAIN open PROVE lines[a].row # open[b].row
    <3>1. PICK k \in DOMAIN held : open[b] = Text(held[k], FALSE)
      BY <1>10
    <3>2. lines[a].row # Last(held[k].refs)
      BY <1>3 DEF TextState, TextsApart
    <3>3. QED
      BY <1>4, <3>1, <3>2
  <2>3. ASSUME NEW a \in DOMAIN open, NEW b \in DOMAIN open, open[a].row = open[b].row PROVE a = b
    <3>1. PICK k \in DOMAIN held : open[a] = Text(held[k], FALSE)
      BY <1>10
    <3>2. PICK l \in DOMAIN held : open[b] = Text(held[l], FALSE)
      BY <1>10
    <3>3. Last(held[k].refs) = Last(held[l].refs)
      BY <1>4, <2>3, <3>1, <3>2
    <3>4. k = l
      BY <1>5, <3>3
    <3>5. QED
      BY <1>8, <3>1, <3>2, <3>4
  <2>4. CASE \E b \in DOMAIN open : j = Len(lines) + b
    BY <1>9, <2>2, <2>3, <2>4
  <2>5. CASE \E a \in DOMAIN open : i = Len(lines) + a
    BY <1>9, <2>2, <2>3, <2>5
  <2>6. QED
    BY <1>9, <2>1, <2>4, <2>5
<1>14. \A i, j \in 1..n : before(i, j) <=> <<i, j>> \in R
  OBVIOUS
<1> DEFINE row(i)  == all[i].row
           time(i) == fed[all[i].row].time
<1>15. \A i \in 1..n : row(i) \in Nat /\ time(i) \in Nat
  BY <1>1, <1>11, <1>12
<1>16. \A i, j \in 1..n : before(i, j) <=> time(i) < time(j) \/ (time(i) = time(j) /\ row(i) < row(j))
  OBVIOUS
<1>17. \A i, j \in 1..n : row(i) = row(j) => i = j
  BY <1>11, <1>13
<1> HIDE DEF before, R, row, time, n
<1>18. \A k \in 1..n : \E i \in 1..n : Cardinality(PlacesBefore(n, R, i)) + 1 = k
  <2>1. \A i \in 1..n : <<i, i>> \notin R
    BY <1>14, <1>15, <1>16
  <2>2. \A i, j, k \in 1..n : <<i, j>> \in R /\ <<j, k>> \in R => <<i, k>> \in R
    <3> SUFFICES ASSUME NEW i \in 1..n, NEW j \in 1..n, NEW k \in 1..n, before(i, j), before(j, k)
                 PROVE  before(i, k)
      BY <1>14
    <3>1. /\ row(i) \in Nat /\ row(j) \in Nat /\ row(k) \in Nat
          /\ time(i) \in Nat /\ time(j) \in Nat /\ time(k) \in Nat
      BY <1>15
    <3>2. time(i) < time(j) \/ (time(i) = time(j) /\ row(i) < row(j))
      BY <1>16
    <3>3. time(j) < time(k) \/ (time(j) = time(k) /\ row(j) < row(k))
      BY <1>16
    <3>4. time(i) < time(k) \/ (time(i) = time(k) /\ row(i) < row(k))
      BY <3>1, <3>2, <3>3
    <3>5. QED
      BY <1>16, <3>4
  <2>3. \A i, j \in 1..n : i # j => <<i, j>> \in R \/ <<j, i>> \in R
    <3> SUFFICES ASSUME NEW i \in 1..n, NEW j \in 1..n, i # j PROVE before(i, j) \/ before(j, i)
      BY <1>14
    <3>1. /\ row(i) \in Nat /\ row(j) \in Nat /\ time(i) \in Nat /\ time(j) \in Nat /\ row(i) # row(j)
      BY <1>15, <1>17
    <3>2. \/ time(i) < time(j) \/ (time(i) = time(j) /\ row(i) < row(j))
          \/ time(j) < time(i) \/ (time(j) = time(i) /\ row(j) < row(i))
      BY <3>1
    <3>3. QED
      BY <1>16, <3>2
  <2>4. n \in Nat
    BY <1>11
  <2>5. QED
    BY <2>1, <2>2, <2>3, <2>4, RanksAreTaken
<1>19. \A i \in 1..n : {j \in DOMAIN all : before(j, i)} = PlacesBefore(n, R, i)
  BY <1>11, <1>14 DEF PlacesBefore
<1>20. \A k \in 1..n : \E i \in DOMAIN all : Cardinality({j \in DOMAIN all : before(j, i)}) + 1 = k
  BY <1>11, <1>18, <1>19
<1>21. DOMAIN sorted = 1..n /\ \A k \in 1..n : \E i \in DOMAIN all : sorted[k] = all[i]
  <2> DEFINE at(k) == CHOOSE i \in DOMAIN all : Cardinality({j \in DOMAIN all : before(j, i)}) + 1 = k
  <2>1. \A k \in 1..n : at(k) \in DOMAIN all
    BY <1>20
  <2>2. sorted = [k \in DOMAIN all |-> all[at(k)]]
    OBVIOUS
  <2> HIDE DEF at, sorted
  <2>3. QED
    BY <1>11, <2>1, <2>2
<1>22. IsRows(sorted)
  BY <1>11, FunctionIsRows
<1> HIDE DEF sorted
<1>23. \A k \in DOMAIN sorted : WholeText(sorted[k], fed)
  BY <1>12, <1>21
<1>24. QED
  BY <1>2, <1>22, <1>23 DEF TextInv, TextRuns

(* Every text told of has its chunks in order, all of them and no others. *)
LEMMA TextsHold == ConverterSpec => []TextsAreWhole
<1>1. ConverterInit => TextInv
  <2>1. ConverterInit => lines = <<>>
    BY DEF ConverterInit, Starting
  <2>2. IsRows(<<>>) /\ DOMAIN <<>> = {} /\ IsFiniteSet({})
    BY FewRows, FS_EmptySet
  <2>3. ConverterInit /\ TextRuns => held = <<>>
    BY Zenon DEF ConverterInit, Starting, ConverterStart, TextRuns
  <2>4. QED
    BY <2>1, <2>2, <2>3 DEF TextInv, TextsApart
<1>2. SavedFile /\ TextInv /\ [ConverterNext]_linesVars => TextInv'
  <2> SUFFICES ASSUME SavedFile, TextInv, [ConverterNext]_linesVars, TextRuns
               PROVE  TextInv'
    BY SameScript DEF TextInv, TextRuns
  <2>1. ASSUME NEW r \in Records[converter], Taking(r), ConverterStep(r) PROVE TextInv'
    <3>1. StatusText(r)
      BY <2>1, Zenon DEF ConverterStep, HostsStep, RoversStep, FlightStep, MissionsStep, LinksStep, FleetsStep,
         ServersStep, BagsStep, PacketsStep, TextRuns
    <3>2. QED
      BY <2>1, <3>1, RecordRead, TextRecordInv
  <2>2. CASE ConverterEnd
    <3>1. StatusTextEnd
      BY <2>2, Zenon DEF ConverterEnd, TextRuns
    <3>2. QED
      BY <3>1, TextEndInv
  <2>3. CASE Refuse \/ UNCHANGED linesVars
    <3>1. UNCHANGED <<converter, fed, lines, held>> /\ (verdict = "converted" => verdict' = "converted")
      BY <2>3 DEF Refuse, linesVars
    <3>2. QED
      BY <3>1 DEF TextInv, TextRuns
  <2>4. QED
    BY <2>1, <2>2, <2>3 DEF ConverterNext
<1>3. SavedFile /\ TextInv => TextsAreWhole
  <2>1. TextsAreWhole <=>
           (TextRuns => \A i \in DOMAIN lines :
               /\ \A k \in DOMAIN lines[i].refs :
                     /\ fed[lines[i].refs[k]].key = fed[lines[i].refs[1]].key
                     /\ fed[lines[i].refs[k]].id = fed[lines[i].refs[1]].id
                     /\ fed[lines[i].refs[k]].severity = fed[lines[i].refs[1]].severity
                     /\ fed[lines[i].refs[k]].seq = fed[lines[i].refs[1]].seq + k - 1
               /\ lines[i].complete /\ fed[lines[i].refs[1]].id # 0 =>
                     fed[lines[i].refs[1]].seq = 0 /\ fed[Last(lines[i].refs)].nul
               /\ \A n \in lines[i].refs[1]..Last(lines[i].refs) :
                     fed[n].kind = "text" /\ KeyOf(fed[n]) = KeyOf(fed[lines[i].refs[1]])
                        => \E k \in DOMAIN lines[i].refs : lines[i].refs[k] = n)
    BY Zenon DEF TextsAreWhole, TextRuns, KeyOf
  <2>2. \A a, b : KeyOf(a) = KeyOf(b) => a.key = b.key /\ a.id = b.id
    BY DEF KeyOf
  <2>3. QED
    BY <2>1, <2>2 DEF TextInv, WholeText, TextChunks
<1>4. QED
  BY <1>1, <1>2, <1>3, FileIsSaved, PTL DEF ConverterSpec

-----------------------------------------------------------------------------
(* A TCP stream put together from its segments, and the frames in it. *)

(* A sequence number that is expected after a number of bytes is theirs, also    *)
(* where numbers begin again.                                                  *)
LEMMA NumberAhead ==
    ASSUME NEW n \in Nat, NEW o \in 0..(n - 1), NEW e \in 0..(n - 1), NEW l \in 0..(n - 1),
           e = o + 1 + l \/ e = o + 1 + l - n
    PROVE  (e - o - 1) % n = l
<1>1. e - o - 1 = l \/ e - o - 1 = l - n
  OBVIOUS
<1>2. l % n = l /\ (l - n) % n = l
  OBVIOUS
<1>3. QED
  BY <1>1, <1>2

LEMMA NumberOnward ==
    ASSUME NEW n \in Nat, NEW o \in 0..(n - 1), NEW e \in 0..(n - 1), NEW l \in Nat, NEW d \in Nat,
           l + d < n, e = o + 1 + l \/ e = o + 1 + l - n
    PROVE  /\ (e + d) % n \in 0..(n - 1)
           /\ (e + d) % n = o + 1 + (l + d) \/ (e + d) % n = o + 1 + (l + d) - n
<1>1. e + d \in Nat /\ e + d < 2 * n
  OBVIOUS
<1>2. CASE e + d < n
  <2>1. (e + d) % n = e + d
    BY <1>1, <1>2
  <2>2. QED
    BY <2>1, <1>2
<1>3. CASE e + d >= n
  <2>1. (e + d) % n = e + d - n
    BY <1>1, <1>3
  <2>2. QED
    BY <2>1, <1>1, <1>3
<1>4. QED
  BY <1>1, <1>2, <1>3

(* Where frames start and stop: no start lies in another frame. *)
LEMMA FramesApart ==
    ASSUME NEW n \in Nat, NEW starts \in SUBSET (0..(n - 1)), NEW stop,
           \A s \in starts : stop[s] \in Nat /\ s < stop[s],
           \A s \in starts \ {0} : \E m \in starts : stop[m] = s
    PROVE  \A s, t \in starts : t < s => stop[t] <= s
<1> DEFINE Bad == {s \in starts : \E t \in starts : t < s /\ s < stop[t]}
<1>1. Bad \in SUBSET (1..n)
  <2> SUFFICES ASSUME NEW s \in starts, NEW t \in starts, t < s PROVE s \in 1..n
    OBVIOUS
  <2>1. s \in 0..(n - 1) /\ t \in 0..(n - 1)
    OBVIOUS
  <2>2. QED
    BY <2>1
<1>2. Bad = {}
  <2> SUFFICES ASSUME Bad # {} PROVE FALSE
    OBVIOUS
  <2> HIDE DEF Bad
  <2>1. PICK s \in Bad : \A j \in Bad : s <= j
    BY <1>1, LeastMember
  <2>2. s \in starts /\ s \in 1..n
    BY <1>1, <2>1 DEF Bad
  <2>3. PICK t \in starts : t < s /\ s < stop[t]
    BY <2>1 DEF Bad
  <2>4. PICK m \in starts : stop[m] = s
    BY <2>2
  <2>5. m \in Nat /\ t \in Nat /\ s \in Nat /\ m < s /\ t < s /\ s < stop[t] /\ stop[t] \in Nat
    BY <2>2, <2>3, <2>4
  <2>6. CASE t < m
    <3>1. m < stop[t]
      BY <2>5, <2>6
    <3>2. m \in Bad
      BY <2>3, <2>4, <2>6, <3>1 DEF Bad
    <3>3. QED
      BY <2>1, <2>5, <3>2
  <2>7. CASE m < t
    <3>1. t < stop[m]
      BY <2>4, <2>5
    <3>2. t \in Bad
      BY <2>3, <2>4, <2>7, <3>1 DEF Bad
    <3>3. QED
      BY <2>1, <2>5, <3>2
  <2>8. CASE m = t
    BY <2>4, <2>5, <2>8
  <2>9. QED
    BY <2>5, <2>6, <2>7, <2>8
<1>3. QED
  <2> SUFFICES ASSUME NEW s \in starts, NEW t \in starts, t < s PROVE stop[t] <= s
    OBVIOUS
  <2>1. ~(s < stop[t])
    BY <1>2
  <2>2. QED
    BY <2>1

(* Each frame starts where another one stops, the first one at 0. *)
FramesLink(n, starts, stop) ==
    /\ 0 \in starts
    /\ \A s \in starts : stop[s] \in Nat /\ s < stop[s] /\ stop[s] \in starts \cup {n}
    /\ \A s \in starts \ {0} : \E m \in starts : stop[m] = s

(* Frames in ascending order leave no gap. *)
LEMMA FramesInOrder ==
    ASSUME NEW n \in Nat, NEW starts \in SUBSET (0..(n - 1)), NEW stop, FramesLink(n, starts, stop)
    PROVE  /\ Cardinality(starts) \in Nat \ {0} /\ DOMAIN Ascending(starts) = 1..Cardinality(starts)
           /\ \A i \in 1..Cardinality(starts) : Ascending(starts)[i] \in starts
           /\ Ascending(starts)[1] = 0 /\ stop[Ascending(starts)[Cardinality(starts)]] = n
           /\ \A i \in 2..Cardinality(starts) : Ascending(starts)[i] = stop[Ascending(starts)[i - 1]]
<1> DEFINE a == Ascending(starts)
           c == Cardinality(starts)
<1> USE DEF FramesLink
<1>1. starts \in SUBSET Nat /\ IsFiniteSet(starts)
  <2>1. IsFiniteSet(0..(n - 1))
    BY FS_Interval
  <2>2. IsFiniteSet(starts)
    BY <2>1, FS_Subset
  <2>3. \A s \in 0..(n - 1) : s \in Nat
    OBVIOUS
  <2>4. QED
    BY <2>2, <2>3
<1>2. c \in Nat /\ c # 0
  BY <1>1, FS_CardinalityType, FS_EmptySet
<1>3. /\ DOMAIN a = 1..c
      /\ \A j \in 1..c : a[j] \in starts
      /\ \A e \in starts : \E j \in 1..c : a[j] = e
      /\ \A i, j \in 1..c : i < j => a[i] < a[j]
  BY <1>1, AscendingRows, ZenonT(60)
<1>4. \A s, t \in starts : t < s => stop[t] <= s
  BY FramesApart
<1> HIDE DEF a, c
<1>5. \A s \in starts : s \in Nat /\ s < n
  BY <1>1
<1>6. a[1] = 0
  <2>1. PICK j \in 1..c : a[j] = 0
    BY <1>3
  <2>2. 1 \in 1..c /\ j \in Nat
    BY <1>2
  <2>3. CASE 1 < j
    <3>1. a[1] < 0 /\ a[1] \in starts
      BY <1>3, <2>1, <2>2, <2>3
    <3>2. a[1] \in Nat
      BY <1>5, <3>1
    <3>3. QED
      BY <3>1, <3>2
  <2>4. QED
    BY <2>1, <2>2, <2>3
<1>7. stop[a[c]] = n
  <2>1. c \in 1..c
    BY <1>2
  <2>2. a[c] \in starts
    BY <1>3, <2>1
  <2>3. CASE stop[a[c]] \in starts
    <3>1. PICK j \in 1..c : a[j] = stop[a[c]]
      BY <1>3, <2>3
    <3>2. a[c] \in Nat /\ a[j] \in Nat /\ a[c] < a[j]
      BY <1>5, <2>2, <2>3, <3>1
    <3>3. j \in Nat /\ (j < c \/ j = c)
      BY <1>2
    <3>4. QED
      BY <1>3, <2>1, <3>2, <3>3
  <2>4. QED
    BY <2>2, <2>3
<1>8. ASSUME NEW i \in 2..c PROVE a[i] = stop[a[i - 1]]
  <2>1. i \in 1..c /\ i - 1 \in 1..c /\ i - 1 < i
    BY <1>2
  <2>2. a[i] \in starts /\ a[i - 1] \in starts /\ a[i - 1] < a[i]
    BY <1>3, <2>1
  <2>3. stop[a[i - 1]] <= a[i] /\ a[i] \in Nat /\ a[i] < n /\ a[i - 1] \in Nat /\ stop[a[i - 1]] \in Nat
        /\ a[i - 1] < stop[a[i - 1]]
    BY <1>4, <1>5, <2>2
  <2>4. stop[a[i - 1]] \in starts
    BY <2>2, <2>3
  <2>5. PICK j \in 1..c : a[j] = stop[a[i - 1]]
    BY <1>3, <2>4
  <2>6. j \in Nat /\ ~(j < i - 1) /\ j # i - 1
    <3>1. j \in Nat
      BY <1>2
    <3>2. j < i - 1 => a[j] < a[i - 1]
      BY <1>3, <2>1
    <3>3. QED
      BY <2>3, <2>5, <3>1, <3>2
  <2>7. j >= i
    BY <2>1, <2>6
  <2>8. CASE i < j
    BY <1>3, <2>1, <2>3, <2>5, <2>8
  <2>9. QED
    BY <2>1, <2>5, <2>6, <2>7, <2>8
<1>9. QED
  BY <1>2, <1>3, <1>6, <1>7, <1>8 DEF a, c

TcpRuns == converter = "imc tcp"

(* The packets of the sender; where the bytes of a number are in the stream.   *)
Picked(f)        == {n \in DOMAIN f : f[n].flow = "selected"}
PlaceOf(f, o, q) == (q - f[o].seq - 1) % SequenceSpace

(* The bytes of a packet are in the stream; a span is those of its packet.     *)
Brings(st, f, o, n) ==
    \A k \in DOMAIN f[n].data :
       /\ PlaceOf(f, o, f[n].seq) + k \in DOMAIN st
       /\ st[PlaceOf(f, o, f[n].seq) + k] = f[n].data[k]

SpanIsSo(s, f, o) ==
    /\ s.packet \in Picked(f) /\ s.start = PlaceOf(f, o, f[s.packet].seq)
    /\ s.stop = s.start + Len(f[s.packet].data)

Expects(h, f, o) ==
    \/ h.expected = f[o].seq + 1 + Len(h.stream)
    \/ h.expected = f[o].seq + 1 + Len(h.stream) - SequenceSpace

(* The stream since its opening packet, as far as it goes.                     *)
OpenStream(h, f, o) ==
    /\ o \in Picked(f) /\ f[o].flag = "syn"
    /\ \A n \in Picked(f) : f[n].flag = "syn" => n = o
    /\ h.expected \in 0..(SequenceSpace - 1) /\ (h.finished \/ Expects(h, f, o))
    /\ \A n \in Picked(f) : Brings(h.stream, f, o, n)
    /\ \A i \in DOMAIN h.spans : SpanIsSo(h.spans[i], f, o)
    /\ \A b \in DOMAIN h.stream : \E i \in DOMAIN h.spans : h.spans[i].start < b /\ b <= h.spans[i].stop
    /\ \A q \in 0..(SequenceSpace - 1), l \in Nat : <<q, l>> \in DOMAIN h.seen =>
          /\ h.seen[<<q, l>>] = PlaceOf(f, o, q)
          /\ PlaceOf(f, o, q) + l <= Len(h.stream)

(* Frames that leave no gap, each with the packets its bytes were in.          *)
FramesAreSo(h, ls) ==
    /\ h.stream # <<>> /\ IsRows(ls) /\ Len(ls) # 0
    /\ ls[1].start = 0 /\ ls[Len(ls)].stop = Len(h.stream)
    /\ \A i \in DOMAIN ls :
          /\ i > 1 => ls[i].start = ls[i - 1].stop
          /\ \A b \in (ls[i].start + 1)..ls[i].stop :
                \E j \in DOMAIN h.spans :
                   h.spans[j].packet \in ls[i].packets /\ h.spans[j].start < b /\ b <= h.spans[j].stop

TcpInv ==
    TcpRuns =>
        /\ held = [expected |-> held.expected, stream |-> held.stream, spans |-> held.spans,
                   seen |-> held.seen, finished |-> held.finished]
        /\ held.stream \in Seq(Nat) /\ Len(held.stream) <= StreamLimit /\ IsRows(held.spans)
        /\ held.expected = Absent => /\ Picked(fed) = {} /\ held.stream = <<>>
                                     /\ DOMAIN held.spans = {} /\ DOMAIN held.seen = {}
        /\ held.expected # Absent => \E o \in DOMAIN fed : OpenStream(held, fed, o)
        /\ verdict = "converted" => FramesAreSo(held, lines)

(* A packet that adds nothing leaves the stream as it is. *)
LEMMA StreamStays ==
    ASSUME NEW r, ReadOne(r), NEW h, NEW o, OpenStream(h, fed, o),
           r.flow = "selected" => r.flag # "syn" /\ Brings(h.stream, fed', o, Here)
    PROVE  OpenStream(h, fed', o)
<1>1. /\ DOMAIN fed' = DOMAIN fed \cup {Here} /\ Here \notin DOMAIN fed
      /\ \A i \in DOMAIN fed : fed'[i] = fed[i]
      /\ fed'[Here] = r
  BY DEF ReadOne
<1>2. /\ o \in Picked(fed) /\ fed[o].flag = "syn"
      /\ \A n \in Picked(fed) : fed[n].flag = "syn" => n = o
      /\ h.expected \in 0..(SequenceSpace - 1) /\ (h.finished \/ Expects(h, fed, o))
      /\ \A n \in Picked(fed) : Brings(h.stream, fed, o, n)
      /\ \A i \in DOMAIN h.spans : SpanIsSo(h.spans[i], fed, o)
      /\ \A b \in DOMAIN h.stream : \E i \in DOMAIN h.spans : h.spans[i].start < b /\ b <= h.spans[i].stop
      /\ \A q \in 0..(SequenceSpace - 1), l \in Nat : <<q, l>> \in DOMAIN h.seen =>
            /\ h.seen[<<q, l>>] = PlaceOf(fed, o, q)
            /\ PlaceOf(fed, o, q) + l <= Len(h.stream)
  BY Zenon DEF OpenStream
<1>3. /\ \A n \in Picked(fed) : n \in Picked(fed')
      /\ \A n \in Picked(fed') : n \in Picked(fed) \/ (n = Here /\ r.flow = "selected")
  BY <1>1 DEF Picked
<1>4. \A n \in Picked(fed) : fed'[n] = fed[n] /\ n \in DOMAIN fed
  BY <1>1 DEF Picked
<1>5. fed'[o] = fed[o]
  BY <1>2, <1>4
<1>6. \A q : PlaceOf(fed', o, q) = PlaceOf(fed, o, q)
  BY <1>5 DEF PlaceOf
<1>7. \A n \in Picked(fed) : Brings(h.stream, fed', o, n)
  BY <1>2, <1>4, <1>6 DEF Brings
<1>8. \A i \in DOMAIN h.spans : SpanIsSo(h.spans[i], fed', o)
  BY <1>2, <1>3, <1>4, <1>6 DEF SpanIsSo
<1>9. h.finished \/ Expects(h, fed', o)
  BY <1>2, <1>5, Zenon DEF Expects
<1>10. o \in Picked(fed') /\ fed'[o].flag = "syn"
       /\ \A n \in Picked(fed') : fed'[n].flag = "syn" => n = o
  BY <1>1, <1>2, <1>3, <1>4
<1>11. \A n \in Picked(fed') : Brings(h.stream, fed', o, n)
  BY <1>3, <1>7
<1>12. \A q \in 0..(SequenceSpace - 1), l \in Nat : <<q, l>> \in DOMAIN h.seen =>
            /\ h.seen[<<q, l>>] = PlaceOf(fed', o, q)
            /\ PlaceOf(fed', o, q) + l <= Len(h.stream)
  BY <1>2, <1>6
<1>13. QED
  BY <1>2, <1>8, <1>9, <1>10, <1>11, <1>12, Zenon DEF OpenStream

(* What the packets of a stream are, and the first number expected. *)
LEMMA NumbersOfStream ==
    /\ SequenceSpace \in Nat /\ SequenceSpace > 0 /\ StreamLimit \in Nat /\ StreamLimit < SequenceSpace
    /\ TcpRuns => \A r \in Records[converter] : r.seq \in 0..(SequenceSpace - 1) /\ r.data \in Seq(Nat)
<1>1. SequenceSpace \in Nat /\ SequenceSpace > 0 /\ StreamLimit \in Nat /\ StreamLimit < SequenceSpace
  BY StreamLimitAssumption
<1>2. TcpRuns => \A r \in Records[converter] : r.seq \in 0..(SequenceSpace - 1) /\ r.data \in Seq(Nat)
  BY PartAssumption, Zenon DEF TcpRuns
<1>3. QED
  BY <1>1, <1>2

(* The first packet of the sender opens the stream. *)
LEMMA StreamOpens ==
    ASSUME TcpInv, TcpRuns, NEW r, ReadOne(r), held.expected = Absent,
           r.flow = "selected", r.flag = "syn", r.data = <<>>, NEW h,
           h.expected = (r.seq + 1) % SequenceSpace, h.stream = held.stream, h.spans = held.spans, h.seen = held.seen
    PROVE  OpenStream(h, fed', Here)
<1>1. /\ DOMAIN fed' = DOMAIN fed \cup {Here} /\ Here \notin DOMAIN fed
      /\ \A i \in DOMAIN fed : fed'[i] = fed[i]
      /\ fed'[Here] = r /\ r \in Records[converter]
  BY DEF ReadOne
<1>2. /\ Picked(fed) = {} /\ h.stream = <<>> /\ DOMAIN h.spans = {} /\ DOMAIN h.seen = {}
  BY DEF TcpInv
<1>3. Picked(fed') = {Here}
  BY <1>1, <1>2 DEF Picked
<1>4. r.seq \in 0..(SequenceSpace - 1)
  BY <1>1, NumbersOfStream
<1>5. /\ h.expected \in 0..(SequenceSpace - 1)
      /\ h.expected = r.seq + 1 + 0 \/ h.expected = r.seq + 1 + 0 - SequenceSpace
  <2> DEFINE n == SequenceSpace
             q == r.seq
  <2>1. n \in Nat /\ n > 0 /\ q \in 0..(n - 1)
    BY <1>4, NumbersOfStream
  <2>2. h.expected = (q + 1) % n
    OBVIOUS
  <2> HIDE DEF n, q
  <2>3. q + 1 = n \/ q + 1 \in 0..(n - 1)
    BY <2>1
  <2>4. n % n = 0 /\ (q + 1 \in 0..(n - 1) => (q + 1) % n = q + 1)
    BY <2>1
  <2>5. h.expected \in 0..(n - 1) /\ (h.expected = q + 1 + 0 \/ h.expected = q + 1 + 0 - n)
    BY <2>1, <2>2, <2>3, <2>4
  <2>6. QED
    BY <2>5 DEF n, q
<1>6. Expects(h, fed', Here)
  <2>1. Len(h.stream) = 0
    BY <1>2
  <2>2. QED
    BY <1>1, <1>5, <2>1 DEF Expects
<1>7. Brings(h.stream, fed', Here, Here)
  BY <1>1 DEF Brings
<1>8. DOMAIN h.stream = {}
  BY <1>2
<1>9. QED
  BY <1>1, <1>2, <1>3, <1>5, <1>6, <1>7, <1>8 DEF OpenStream

(* The bytes of two pieces one after the other. *)
LEMMA BytesJoin ==
    ASSUME NEW s \in Seq(Nat), NEW d \in Seq(Nat)
    PROVE  /\ s \o d \in Seq(Nat) /\ Len(s \o d) = Len(s) + Len(d) /\ Len(s) \in Nat /\ Len(d) \in Nat
           /\ DOMAIN s = 1..Len(s) /\ DOMAIN d = 1..Len(d) /\ DOMAIN (s \o d) = 1..(Len(s) + Len(d))
           /\ \A b \in DOMAIN s : (s \o d)[b] = s[b]
           /\ \A k \in DOMAIN d : (s \o d)[Len(s) + k] = d[k]
<1>1. /\ s \o d \in Seq(Nat) /\ Len(s \o d) = Len(s) + Len(d) /\ Len(s) \in Nat /\ Len(d) \in Nat
      /\ DOMAIN s = 1..Len(s) /\ DOMAIN d = 1..Len(d)
      /\ \A i \in 1..(Len(s) + Len(d)) : (s \o d)[i] = IF i <= Len(s) THEN s[i] ELSE d[i - Len(s)]
  BY ConcatProperties, LenProperties
<1>2. DOMAIN (s \o d) = 1..(Len(s) + Len(d))
  BY <1>1, LenProperties
<1>3. ASSUME NEW b \in DOMAIN s PROVE (s \o d)[b] = s[b]
  <2>1. b \in 1..Len(s) /\ b \in 1..(Len(s) + Len(d)) /\ b <= Len(s)
    BY <1>1
  <2>2. QED
    BY <1>1, <2>1
<1>4. ASSUME NEW k \in DOMAIN d PROVE (s \o d)[Len(s) + k] = d[k]
  <2>1. k \in 1..Len(d)
    BY <1>1
  <2>2. Len(s) + k \in 1..(Len(s) + Len(d)) /\ ~(Len(s) + k <= Len(s)) /\ Len(s) + k - Len(s) = k
    BY <1>1, <2>1
  <2>3. QED
    BY <1>1, <2>2
<1>5. QED
  BY <1>1, <1>2, <1>3, <1>4

(* A segment in sequence is put at the end. *)
LEMMA StreamGrows ==
    ASSUME TcpInv, TcpRuns, NEW r, ReadOne(r), NEW o, OpenStream(held, fed, o), ~held.finished,
           r.flow = "selected", r.flag # "syn", r.seq = held.expected,
           Len(held.stream) + Len(r.data) <= StreamLimit,
           NEW h, h.expected = (held.expected + Len(r.data) + (IF r.flag = "fin" THEN 1 ELSE 0)) % SequenceSpace,
           h.stream = held.stream \o r.data,
           h.finished \/ r.flag # "fin",
           r.data = <<>> => h.spans = held.spans /\ h.seen = held.seen,
           r.data # <<>> => /\ h.spans = Append(held.spans, [packet |-> Here, start |-> Len(held.stream),
                                                              stop |-> Len(held.stream \o r.data)])
                            /\ h.seen = Putting(held.seen, SegmentKey(r), Len(held.stream))
    PROVE  OpenStream(h, fed', o) /\ h.stream \in Seq(Nat) /\ Len(h.stream) <= StreamLimit /\ IsRows(h.spans)
<1> DEFINE S == SequenceSpace
           l == Len(held.stream)
           d == Len(r.data)
           g == held.stream \o r.data
<1>1. /\ DOMAIN fed' = DOMAIN fed \cup {Here} /\ Here \notin DOMAIN fed
      /\ \A i \in DOMAIN fed : fed'[i] = fed[i]
      /\ fed'[Here] = r /\ r \in Records[converter]
  BY DEF ReadOne
<1>2. /\ o \in Picked(fed) /\ fed[o].flag = "syn"
      /\ \A n \in Picked(fed) : fed[n].flag = "syn" => n = o
      /\ held.expected \in 0..(S - 1) /\ Expects(held, fed, o)
      /\ \A n \in Picked(fed) : Brings(held.stream, fed, o, n)
      /\ \A i \in DOMAIN held.spans : SpanIsSo(held.spans[i], fed, o)
      /\ \A b \in DOMAIN held.stream : \E i \in DOMAIN held.spans : held.spans[i].start < b /\ b <= held.spans[i].stop
      /\ \A q \in 0..(S - 1), m \in Nat : <<q, m>> \in DOMAIN held.seen =>
            /\ held.seen[<<q, m>>] = PlaceOf(fed, o, q)
            /\ PlaceOf(fed, o, q) + m <= Len(held.stream)
  BY Zenon DEF OpenStream
<1>3. /\ S \in Nat /\ S > 0 /\ StreamLimit \in Nat /\ StreamLimit < S
      /\ r.seq \in 0..(S - 1) /\ r.data \in Seq(Nat)
  BY <1>1, NumbersOfStream
<1>4. fed[o].seq \in 0..(S - 1) /\ o \in DOMAIN fed
  <2>1. o \in DOMAIN fed
    BY <1>2 DEF Picked
  <2>2. fed[o] \in Records[converter]
    BY <2>1 DEF ReadOne, SavedFile
  <2>3. QED
    BY <2>1, <2>2, NumbersOfStream
<1>5. held.stream \in Seq(Nat) /\ IsRows(held.spans)
  BY DEF TcpInv
<1>6. /\ g \in Seq(Nat) /\ Len(g) = l + d /\ l \in Nat /\ d \in Nat
      /\ DOMAIN held.stream = 1..l /\ DOMAIN r.data = 1..d /\ DOMAIN g = 1..(l + d)
      /\ \A b \in DOMAIN held.stream : g[b] = held.stream[b]
      /\ \A k \in DOMAIN r.data : g[l + k] = r.data[k]
  BY <1>3, <1>5, BytesJoin
<1>7. h.stream = g /\ l + d <= StreamLimit
  OBVIOUS
<1>8. SegmentKey(r) = <<r.seq, d>>
  BY DEF SegmentKey
<1> HIDE DEF g
<1>9. /\ held.expected = fed[o].seq + 1 + l \/ held.expected = fed[o].seq + 1 + l - S
  BY <1>2 DEF Expects
<1> DEFINE e == held.expected
           c == fed[o].seq
           fin == IF r.flag = "fin" THEN 1 ELSE 0
<1>10. /\ e \in 0..(S - 1) /\ c \in 0..(S - 1) /\ (e = c + 1 + l \/ e = c + 1 + l - S)
       /\ l + d < S /\ h.expected = (e + d + fin) % S /\ fin \in {0, 1} /\ (r.flag # "fin" => fin = 0)
  <2>1. h.expected = (e + d + fin) % S
    OBVIOUS
  <2>2. fin \in {0, 1} /\ (r.flag # "fin" => fin = 0)
    OBVIOUS
  <2> HIDE DEF fin, d, l
  <2>3. l + d < S
    BY <1>3, <1>6, <1>7
  <2>4. QED
    BY <1>2, <1>4, <1>9, <2>1, <2>2, <2>3 DEF l
<1> HIDE DEF S, l, d, e, c, fin
<1>11. (e - c - 1) % S = l
  <2>1. l \in 0..(S - 1)
    BY <1>3, <1>6, <1>10
  <2>2. QED
    BY <1>3, <1>10, <2>1, NumberAhead
<1>12. PlaceOf(fed', o, r.seq) = l /\ \A q : PlaceOf(fed', o, q) = PlaceOf(fed, o, q)
  <2>1. fed'[o] = fed[o] /\ r.seq = e
    BY <1>1, <1>4 DEF e
  <2>2. QED
    BY <1>11, <2>1 DEF PlaceOf, S, c
<1>13. h.expected \in 0..(S - 1) /\ (r.flag # "fin" => h.expected = c + 1 + (l + d) \/ h.expected = c + 1 + (l + d) - S)
  <2>1. h.expected \in 0..(S - 1)
    <3>0. fin \in Nat
      BY <1>10
    <3>1. e \in Nat /\ d \in Nat
      BY <1>3, <1>6, <1>10
    <3>2. e + d + fin \in Nat
      BY <3>0, <3>1
    <3> DEFINE x == e + d + fin
    <3> HIDE DEF x
    <3>3. x \in Nat => x % S \in 0..(S - 1)
      BY <1>3
    <3>4. QED
      BY <1>10, <3>2, <3>3 DEF x
  <2>2. ASSUME r.flag # "fin" PROVE h.expected = c + 1 + (l + d) \/ h.expected = c + 1 + (l + d) - S
    <3>1. h.expected = (e + d) % S
      <4>1. e + d + fin = e + d
        BY <1>3, <1>6, <1>10, <2>2
      <4>2. QED
        BY <1>10, <4>1
    <3>2. QED
      BY <1>3, <1>6, <1>10, <3>1, NumberOnward, ZenonT(60)
  <2>3. QED
    BY <2>1, <2>2
<1>14. h.finished \/ Expects(h, fed', o)
  <2>1. Len(h.stream) = l + d
    BY <1>6, <1>7
  <2>2. r.flag # "fin" => Expects(h, fed', o)
    BY <1>1, <1>4, <1>13, <2>1 DEF Expects, S, c
  <2>3. QED
    BY <2>2
<1>15. /\ \A n \in Picked(fed) : n \in Picked(fed') /\ fed'[n] = fed[n]
       /\ \A n \in Picked(fed') : n \in Picked(fed) \/ n = Here
       /\ Here \in Picked(fed')
  BY <1>1 DEF Picked
<1>16. \A b \in DOMAIN held.stream : b \in DOMAIN g /\ g[b] = held.stream[b]
  BY <1>6
<1>17. \A n \in Picked(fed') : Brings(g, fed', o, n)
  <2>1. \A n \in Picked(fed) : Brings(g, fed', o, n)
    BY <1>2, <1>12, <1>15, <1>16 DEF Brings
  <2>2. Brings(g, fed', o, Here)
    <3>1. \A k \in DOMAIN r.data : l + k \in DOMAIN g /\ g[l + k] = r.data[k]
      <4> SUFFICES ASSUME NEW k \in DOMAIN r.data PROVE l + k \in DOMAIN g
        BY <1>6
      <4>1. k \in 1..d
        BY <1>6
      <4>2. l + k \in 1..(l + d)
        BY <1>6, <4>1
      <4>3. QED
        BY <1>6, <4>2
    <3>2. QED
      BY <1>1, <1>12, <3>1 DEF Brings
  <2>3. QED
    BY <1>15, <2>1, <2>2
<1>18. /\ IsRows(h.spans)
       /\ \A i \in DOMAIN h.spans : SpanIsSo(h.spans[i], fed', o)
       /\ \A b \in DOMAIN g : \E i \in DOMAIN h.spans : h.spans[i].start < b /\ b <= h.spans[i].stop
  <2>1. \A i \in DOMAIN held.spans : SpanIsSo(held.spans[i], fed', o)
    BY <1>2, <1>12, <1>15 DEF SpanIsSo
  <2>2. CASE r.data = <<>>
    <3>1. d = 0 /\ h.spans = held.spans
      BY <2>2 DEF d
    <3>2. DOMAIN g = DOMAIN held.stream
      BY <1>6, <3>1
    <3>3. QED
      BY <1>2, <1>5, <2>1, <3>1, <3>2
  <2>3. CASE r.data # <<>>
    <3> DEFINE w == [packet |-> Here, start |-> l, stop |-> l + d]
               n == Len(held.spans)
    <3>1. w.packet = Here /\ w.start = l /\ w.stop = l + d
      OBVIOUS
    <3> HIDE DEF w
    <3>2. h.spans = Append(held.spans, w)
      BY <2>3, <1>6, <1>7 DEF l, g, w
    <3>3. /\ IsRows(h.spans) /\ n \in Nat /\ DOMAIN held.spans = 1..n /\ DOMAIN h.spans = 1..(n + 1)
          /\ \A i \in DOMAIN held.spans : h.spans[i] = held.spans[i]
          /\ h.spans[n + 1] = w
      BY <1>5, <3>2, AppendedRow
    <3> HIDE DEF n
    <3>4. \A i : i \in DOMAIN h.spans <=> i \in DOMAIN held.spans \/ i = n + 1
      BY <3>3
    <3>5. SpanIsSo(w, fed', o)
      BY <1>1, <1>12, <1>15, <3>1 DEF SpanIsSo, d
    <3>6. \A i \in DOMAIN h.spans : SpanIsSo(h.spans[i], fed', o)
      BY <2>1, <3>3, <3>4, <3>5
    <3>7. ASSUME NEW b \in DOMAIN g PROVE \E i \in DOMAIN h.spans : h.spans[i].start < b /\ b <= h.spans[i].stop
      <4>1. b \in 1..l \/ (l < b /\ b <= l + d)
        BY <1>6
      <4>2. CASE b \in 1..l
        <5>1. PICK i \in DOMAIN held.spans : held.spans[i].start < b /\ b <= held.spans[i].stop
          BY <1>2, <1>6, <4>2
        <5>2. QED
          BY <3>3, <3>4, <5>1
      <4>3. CASE l < b /\ b <= l + d
        BY <3>1, <3>3, <3>4, <4>3
      <4>4. QED
        BY <4>1, <4>2, <4>3
    <3>8. QED
      BY <3>3, <3>6, <3>7
  <2>4. QED
    BY <2>2, <2>3
<1>19. ASSUME NEW q \in 0..(S - 1), NEW m \in Nat, <<q, m>> \in DOMAIN h.seen
       PROVE  h.seen[<<q, m>>] = PlaceOf(fed', o, q) /\ PlaceOf(fed', o, q) + m <= l + d
  <2>1. <<q, m>> \in DOMAIN held.seen =>
           held.seen[<<q, m>>] = PlaceOf(fed', o, q) /\ PlaceOf(fed', o, q) + m <= l + d
    <3> SUFFICES ASSUME <<q, m>> \in DOMAIN held.seen
                 PROVE  held.seen[<<q, m>>] = PlaceOf(fed', o, q) /\ PlaceOf(fed', o, q) + m <= l + d
      OBVIOUS
    <3>1. held.seen[<<q, m>>] = PlaceOf(fed', o, q) /\ PlaceOf(fed', o, q) + m <= l
      BY <1>2, <1>12 DEF l
    <3>2. PlaceOf(fed', o, q) \in Int
      <4>1. q - c - 1 \in Int /\ S > 0 /\ S \in Nat
        BY <1>3, <1>10
      <4> DEFINE x == q - c - 1
      <4> HIDE DEF x
      <4>2. x \in Int => x % S \in Int
        BY <1>3
      <4>3. PlaceOf(fed', o, q) = x % S
        BY <1>1, <1>4 DEF PlaceOf, x, S, c
      <4>4. QED
        BY <4>1, <4>2, <4>3 DEF x
    <3>3. QED
      BY <1>6, <3>1, <3>2
  <2>2. CASE r.data = <<>>
    BY <2>1, <2>2, <1>19
  <2>3. CASE r.data # <<>>
    <3>1. h.seen = Putting(held.seen, <<r.seq, d>>, l)
      BY <1>8, <2>3 DEF l
    <3>2. CASE <<q, m>> = <<r.seq, d>>
      <4>1. q = r.seq /\ m = d
        BY <3>2
      <4>2. h.seen[<<q, m>>] = l
        BY <3>1, <3>2 DEF Putting
      <4>3. QED
        BY <1>6, <1>12, <4>1, <4>2
    <3>3. CASE <<q, m>> # <<r.seq, d>>
      <4>1. <<q, m>> \in DOMAIN held.seen /\ h.seen[<<q, m>>] = held.seen[<<q, m>>]
        BY <1>19, <3>1, <3>3 DEF Putting
      <4>2. QED
        BY <2>1, <4>1
    <3>4. QED
      BY <3>2, <3>3
  <2>4. QED
    BY <2>2, <2>3
<1>20. o \in Picked(fed') /\ fed'[o].flag = "syn" /\ \A n \in Picked(fed') : fed'[n].flag = "syn" => n = o
  BY <1>1, <1>2, <1>15
<1>21. OpenStream(h, fed', o)
  BY <1>6, <1>7, <1>13, <1>14, <1>17, <1>18, <1>19, <1>20 DEF OpenStream, S
<1>22. QED
  BY <1>6, <1>7, <1>18, <1>21

(* What is sent again is in the stream already. *)
LEMMA StreamAgain ==
    ASSUME TcpInv, TcpRuns, NEW r, ReadOne(r), NEW o, o \in DOMAIN fed, OpenStream(held, fed, o), Retransmitted(r),
           SubSeq(held.stream, held.seen[SegmentKey(r)] + 1, held.seen[SegmentKey(r)] + Len(r.data)) = r.data
    PROVE  Brings(held.stream, fed', o, Here)
<1> DEFINE S == SequenceSpace
           d == Len(r.data)
           p == PlaceOf(fed, o, r.seq)
<1>1. /\ fed'[o] = fed[o] /\ fed'[Here] = r /\ r \in Records[converter] /\ fed[o] \in Records[converter]
  BY DEF ReadOne, SavedFile
<1>2. /\ S \in Nat /\ S > 0 /\ r.seq \in 0..(S - 1) /\ r.data \in Seq(Nat) /\ fed[o].seq \in 0..(S - 1)
  BY <1>1, NumbersOfStream
<1>3. d \in Nat /\ DOMAIN r.data = 1..d
  BY <1>2
<1>4. <<r.seq, d>> \in DOMAIN held.seen /\ SegmentKey(r) = <<r.seq, d>>
  BY DEF Retransmitted, SegmentKey
<1>5. held.seen[<<r.seq, d>>] = p /\ p + d <= Len(held.stream)
  BY <1>2, <1>3, <1>4 DEF OpenStream
<1>6. p \in Nat
  <2> DEFINE x == r.seq - fed[o].seq - 1
  <2>1. x \in Int
    BY <1>2
  <2>2. p = x % S
    BY DEF PlaceOf
  <2> HIDE DEF x, p, S
  <2>3. x % S \in 0..(S - 1)
    BY <1>2, <2>1
  <2>4. QED
    BY <1>2, <2>2, <2>3
<1>7. held.stream \in Seq(Nat)
  BY DEF TcpInv
<1>8. SubSeq(held.stream, p + 1, p + d) = r.data
  BY <1>4, <1>5
<1>9. PlaceOf(fed', o, r.seq) = p
  BY <1>1 DEF PlaceOf
<1> HIDE DEF p, d
<1>10. ASSUME NEW k \in DOMAIN r.data PROVE p + k \in DOMAIN held.stream /\ held.stream[p + k] = r.data[k]
  <2>1. k \in 1..d /\ Len(held.stream) \in Nat /\ DOMAIN held.stream = 1..Len(held.stream)
    BY <1>3, <1>7
  <2>2. p + k \in 1..Len(held.stream)
    BY <1>3, <1>5, <1>6, <2>1
  <2>3. k \in 1..((p + d) - (p + 1) + 1) /\ (p + 1) + k - 1 = p + k
    BY <1>3, <1>6, <2>1
  <2>4. SubSeq(held.stream, p + 1, p + d)[k] = held.stream[p + k]
    <3> DEFINE m == p + 1
               u == p + d
               s == held.stream
    <3>1. m \in Int /\ u \in Int /\ \A i \in m..u : s[i] \in Nat
      <4>1. \A i \in m..u : i \in 1..Len(s)
        BY <1>3, <1>5, <1>6, <2>1
      <4>2. \A i \in 1..Len(s) : s[i] \in Nat
        BY <1>7, ElementOfSeq
      <4>3. QED
        BY <1>3, <1>6, <4>1, <4>2
    <3>2. k \in 1..(u - m + 1) /\ m + k - 1 = p + k
      BY <2>3
    <3> HIDE DEF m, u, s
    <3>3. SubSeq(s, m, u)[k] = s[m + k - 1]
      BY <3>1, <3>2, SubSeqProperties
    <3>4. QED
      BY <3>2, <3>3 DEF m, u, s
  <2>5. QED
    BY <1>8, <2>1, <2>2, <2>4
<1>11. QED
  BY <1>1, <1>9, <1>10 DEF Brings

(* A packet of another flow, the first one, one sent again or the next one. *)
LEMMA TcpRecordInv ==
    ASSUME TcpInv, TcpRuns, NEW r, ReadOne(r), TcpPacket(r)
    PROVE  TcpInv'
<1>1. /\ held = [expected |-> held.expected, stream |-> held.stream, spans |-> held.spans,
                 seen |-> held.seen, finished |-> held.finished]
      /\ held.stream \in Seq(Nat) /\ Len(held.stream) <= StreamLimit /\ IsRows(held.spans)
      /\ held.expected = Absent => /\ Picked(fed) = {} /\ held.stream = <<>>
                                   /\ DOMAIN held.spans = {} /\ DOMAIN held.seen = {}
      /\ held.expected # Absent => \E o \in DOMAIN fed : OpenStream(held, fed, o)
  BY Zenon DEF TcpInv
<1>2. /\ DOMAIN fed' = DOMAIN fed \cup {Here} /\ \A i \in DOMAIN fed : fed'[i] = fed[i]
      /\ fed'[Here] = r /\ verdict' # "converted"
  BY DEF ReadOne
<1>3. CASE r.flow = "other"
  <2>1. held' = held
    BY <1>3, Zenon DEF TcpPacket
  <2>2. Picked(fed') = Picked(fed)
    BY <1>2, <1>3, Zenon DEF Picked, ReadOne
  <2>3. \A o : OpenStream(held, fed, o) => OpenStream(held, fed', o)
    BY <1>3, StreamStays
  <2>4. QED
    BY <1>1, <1>2, <2>1, <2>2, <2>3 DEF TcpInv
<1>4. CASE /\ r.flow = "selected" /\ held.expected = Absent /\ r.flag = "syn" /\ r.data = <<>>
           /\ held' = [held EXCEPT !.expected = (r.seq + 1) % SequenceSpace]
  <2> DEFINE q == (r.seq + 1) % SequenceSpace
             h == [expected |-> q, stream |-> held.stream, spans |-> held.spans,
                   seen |-> held.seen, finished |-> held.finished]
  <2>1. held' = h
    <3> HIDE DEF q
    <3>1. held' = [held EXCEPT !.expected = q]
      BY <1>4 DEF q
    <3>2. QED
      BY <1>1, <3>1
  <2>2. /\ h.expected = q /\ h.stream = held.stream /\ h.spans = held.spans /\ h.seen = held.seen
        /\ h = [expected |-> h.expected, stream |-> h.stream, spans |-> h.spans, seen |-> h.seen, finished |-> h.finished]
    OBVIOUS
  <2> HIDE DEF h
  <2>3. OpenStream(h, fed', Here)
    BY <1>4, <2>2, StreamOpens
  <2>4. h.expected # Absent
    <3>1. h.expected \in 0..(SequenceSpace - 1)
      BY <2>3 DEF OpenStream
    <3>2. QED
      BY <3>1, NumbersOfStream, EchoAssumption
  <2>5. QED
    BY <1>1, <1>2, <2>1, <2>2, <2>3, <2>4 DEF TcpInv
<1>5. CASE /\ r.flow = "selected" /\ held.expected # Absent /\ ~held.finished /\ r.flag # "syn"
           /\ Retransmitted(r) /\ held' = held
           /\ SubSeq(held.stream, held.seen[SegmentKey(r)] + 1, held.seen[SegmentKey(r)] + Len(r.data)) = r.data
  <2>1. PICK o \in DOMAIN fed : OpenStream(held, fed, o)
    BY <1>1, <1>5
  <2>2. Brings(held.stream, fed', o, Here)
    BY <1>5, <2>1, StreamAgain
  <2>3. OpenStream(held, fed', o)
    BY <1>5, <2>1, <2>2, StreamStays
  <2>4. QED
    BY <1>1, <1>2, <1>5, <2>1, <2>3 DEF TcpInv
<1>6. CASE /\ r.flow = "selected" /\ held.expected # Absent /\ ~held.finished /\ r.flag # "syn"
           /\ r.seq = held.expected /\ Len(held.stream) + Len(r.data) <= StreamLimit
           /\ held' = Extended(r)
  <2> DEFINE h == Extended(r)
             ends == r.flag = "fin"
             w == [packet |-> Here, start |-> Len(held.stream), stop |-> Len(held.stream \o r.data)]
  <2>1. /\ h.expected = (held.expected + Len(r.data) + (IF r.flag = "fin" THEN 1 ELSE 0)) % SequenceSpace
        /\ h.stream = held.stream \o r.data
        /\ h.spans = (IF r.data = <<>> THEN held.spans ELSE Append(held.spans, w))
        /\ h.seen = (IF r.data = <<>> THEN held.seen ELSE Putting(held.seen, SegmentKey(r), Len(held.stream)))
        /\ h = [expected |-> h.expected, stream |-> h.stream, spans |-> h.spans, seen |-> h.seen, finished |-> h.finished]
    BY DEF Extended
  <2>2. h.finished = ends
    <3> HIDE DEF ends
    <3>1. QED
      BY DEF Extended, ends
  <2>3. h.finished \/ r.flag # "fin"
    BY <2>2, Zenon
  <2>4. held' = h
    BY <1>6
  <2> HIDE DEF h, w
  <2>5. PICK o \in DOMAIN fed : OpenStream(held, fed, o)
    BY <1>1, <1>6
  <2>6. OpenStream(h, fed', o) /\ h.stream \in Seq(Nat) /\ Len(h.stream) <= StreamLimit /\ IsRows(h.spans)
    BY <1>6, <2>1, <2>3, <2>5, StreamGrows DEF w
  <2>7. h.expected # Absent
    <3>1. h.expected \in 0..(SequenceSpace - 1)
      BY <2>6 DEF OpenStream
    <3>2. QED
      BY <3>1, NumbersOfStream, EchoAssumption
  <2>8. QED
    BY <1>2, <2>1, <2>4, <2>5, <2>6, <2>7 DEF TcpInv
<1>7. QED
  BY <1>3, <1>4, <1>5, <1>6, Zenon DEF TcpPacket, Hold, InSequence

(* A place in the stream is a number. *)
LEMMA PlaceIsNumber ==
    ASSUME SavedFile, TcpRuns, NEW o \in DOMAIN fed, NEW n \in DOMAIN fed
    PROVE  /\ PlaceOf(fed, o, fed[n].seq) \in Nat
           /\ fed[n].data \in Seq(Nat) /\ Len(fed[n].data) \in Nat
<1> DEFINE S == SequenceSpace
           x == fed[n].seq - fed[o].seq - 1
<1>1. fed[n] \in Records[converter] /\ fed[o] \in Records[converter]
  BY DEF SavedFile
<1>2. /\ S \in Nat /\ S > 0 /\ fed[n].seq \in 0..(S - 1) /\ fed[o].seq \in 0..(S - 1)
      /\ fed[n].data \in Seq(Nat)
  BY <1>1, NumbersOfStream
<1>3. x \in Int
  BY <1>2
<1>4. PlaceOf(fed, o, fed[n].seq) = x % S
  BY DEF PlaceOf
<1> HIDE DEF x, S
<1>5. x % S \in 0..(S - 1)
  BY <1>2, <1>3
<1>6. x % S \in Nat
  BY <1>2, <1>5
<1>7. QED
  BY <1>2, <1>4, <1>6

(* The frames of a stream that is put together cover it. *)
LEMMA TcpEndInv ==
    ASSUME SavedFile, TcpInv, TcpRuns, TcpEnd
    PROVE  TcpInv'
<1> DEFINE n == Len(held.stream)
           stop == [s \in 0..(n - 1) |-> FrameStop(s)]
<1>1. /\ held' = held /\ fed' = fed /\ converter' = converter /\ held.stream # <<>>
  BY DEF TcpEnd, Ending
<1>2. PICK starts \in SUBSET (0..(n - 1)) :
         /\ Frames(starts)
         /\ lines' = [i \in DOMAIN Ascending(starts) |-> FrameFrom(Ascending(starts)[i])]
  BY Zenon DEF TcpEnd
<1> DEFINE a == Ascending(starts)
           c == Cardinality(starts)
<1>3. held.stream \in Seq(Nat) /\ IsRows(held.spans)
  BY DEF TcpInv
<1>4. n \in Nat /\ DOMAIN held.stream = 1..n
  BY <1>3
<1>5. \A s \in starts : stop[s] = FrameStop(s) /\ s \in Nat /\ s < n
  BY <1>4
<1>6. /\ 0 \in starts
      /\ \A s \in starts : stop[s] \in Nat /\ s < stop[s] /\ stop[s] \in starts \cup {n}
      /\ \A s \in starts \ {0} : \E m \in starts : stop[m] = s
  <2> HIDE DEF stop, n
  <2>1. /\ 0 \in starts
        /\ \A s \in starts : s < FrameStop(s) /\ FrameStop(s) \in starts \cup {n}
        /\ \A s \in starts \ {0} : \E m \in starts : FrameStop(m) = s
    BY <1>2 DEF Frames, n
  <2>2. \A s \in starts \cup {n} : s \in Nat
    BY <1>4, <1>5
  <2>3. QED
    BY <1>5, <2>1, <2>2
<1> HIDE DEF stop, n
<1>7. /\ c \in Nat \ {0} /\ DOMAIN a = 1..c
      /\ \A i \in 1..c : a[i] \in starts
      /\ a[1] = 0 /\ stop[a[c]] = n
      /\ \A i \in 2..c : a[i] = stop[a[i - 1]]
  <2>2. FramesLink(n, starts, stop)
    BY <1>6 DEF FramesLink
  <2>3. QED
    BY <1>4, <2>2, FramesInOrder
<1> HIDE DEF a, c
<1>8. lines' = [i \in 1..c |-> FrameFrom(a[i])]
  BY <1>2, <1>7 DEF a
<1>9. /\ IsRows(lines') /\ Len(lines') = c /\ DOMAIN lines' = 1..c
      /\ \A i \in 1..c : lines'[i] = FrameFrom(a[i])
  <2> DEFINE t == [i \in 1..c |-> FrameFrom(a[i])]
  <2>1. t = [i \in 1..c |-> t[i]] /\ \A i \in 1..c : t[i] = FrameFrom(a[i])
    OBVIOUS
  <2> HIDE DEF t
  <2>2. IsRows(t) /\ DOMAIN t = 1..c /\ Len(t) = c
    BY <1>7, <2>1, FunctionIsRows
  <2>3. lines' = t
    BY <1>8 DEF t
  <2>4. QED
    BY <2>1, <2>2, <2>3
<1>10. ASSUME NEW i \in 1..c
       PROVE  /\ lines'[i].start = a[i] /\ lines'[i].stop = stop[a[i]] /\ a[i] \in starts
              /\ \A j \in DOMAIN held.spans :
                    a[i] < held.spans[j].stop /\ held.spans[j].start < stop[a[i]]
                       => held.spans[j].packet \in lines'[i].packets
  <2>1. a[i] \in starts /\ lines'[i] = FrameFrom(a[i]) /\ stop[a[i]] = FrameStop(a[i])
    BY <1>5, <1>7, <1>9
  <2>2. \A j \in DOMAIN held.spans : held.spans[j] \in ToSet(held.spans)
    BY DEF ToSet
  <2>3. QED
    BY <2>1, <2>2 DEF FrameFrom
<1>11. 1 \in 1..c /\ c \in 1..c /\ \A i \in 1..c : i > 1 => i \in 2..c /\ i - 1 \in 1..c
  BY <1>7
<1>12. lines'[1].start = 0 /\ lines'[c].stop = n
  BY <1>7, <1>10, <1>11
<1>13. \A i \in 1..c : i > 1 => lines'[i].start = lines'[i - 1].stop
  BY <1>7, <1>10, <1>11
<1>14. held.expected # Absent
  BY <1>1 DEF TcpInv
<1>15. PICK o \in DOMAIN fed : OpenStream(held, fed, o)
  BY <1>14 DEF TcpInv
<1>16. ASSUME NEW i \in 1..c, NEW b \in (lines'[i].start + 1)..lines'[i].stop
       PROVE  \E j \in DOMAIN held.spans :
                 held.spans[j].packet \in lines'[i].packets /\ held.spans[j].start < b /\ b <= held.spans[j].stop
  <2> DEFINE s == a[i]
  <2>1. s \in Nat /\ s < n /\ stop[s] \in Nat /\ stop[s] <= n /\ s \in starts
    <3>1. s \in starts
      BY <1>10
    <3>2. s \in Nat /\ s < n /\ stop[s] \in Nat /\ stop[s] \in starts \cup {n}
      BY <1>5, <1>6, <3>1
    <3> HIDE DEF s
    <3>3. stop[s] <= n
      <4>1. CASE stop[s] \in starts
        BY <1>4, <1>5, <3>2, <4>1
      <4>2. CASE stop[s] = n
        BY <1>4, <4>2
      <4>3. QED
        BY <3>2, <4>1, <4>2
    <3>4. QED
      BY <3>1, <3>2, <3>3
  <2>2. b \in (s + 1)..stop[s]
    BY <1>10, <1>16
  <2> HIDE DEF s
  <2>3. b \in 1..n /\ s < b /\ b <= stop[s] /\ b \in Nat
    BY <1>4, <2>1, <2>2
  <2>4. PICK j \in DOMAIN held.spans : held.spans[j].start < b /\ b <= held.spans[j].stop
    BY <1>4, <1>15, <2>3 DEF OpenStream
  <2>5. held.spans[j].start \in Int /\ held.spans[j].stop \in Int
    <3>1. SpanIsSo(held.spans[j], fed, o)
      BY <1>15, <2>4 DEF OpenStream
    <3> DEFINE p == held.spans[j].packet
    <3>2. /\ p \in DOMAIN fed /\ held.spans[j].start = PlaceOf(fed, o, fed[p].seq)
          /\ held.spans[j].stop = held.spans[j].start + Len(fed[p].data)
      BY <3>1 DEF SpanIsSo, Picked
    <3> HIDE DEF p
    <3>3. PlaceOf(fed, o, fed[p].seq) \in Nat /\ Len(fed[p].data) \in Nat
      BY <1>15, <3>2, PlaceIsNumber
    <3>4. QED
      BY <3>2, <3>3
  <2>6. s < held.spans[j].stop /\ held.spans[j].start < stop[s]
    BY <2>1, <2>3, <2>4, <2>5
  <2>7. held.spans[j].packet \in lines'[i].packets
    BY <1>10, <2>6 DEF s
  <2>8. QED
    BY <2>4, <2>7
<1>17. FramesAreSo(held, lines')
  <2>1. Len(lines') # 0
    BY <1>7, <1>9
  <2>2. QED
    BY <1>1, <1>9, <1>12, <1>13, <1>16, <2>1 DEF FramesAreSo, n
<1>18. QED
  BY <1>1, <1>17 DEF TcpInv

(* The stream is the bytes of the sender in order, and the frames cover it. *)
LEMMA StreamHolds == ConverterSpec => []StreamIsGapless
<1>1. ConverterInit => TcpInv
  <2>1. ConverterInit => lines = <<>> /\ fed = <<>> /\ verdict = "reading"
    BY DEF ConverterInit, Starting
  <2>2. IsRows(<<>>) /\ DOMAIN <<>> = {} /\ Len(<<>>) = 0
    BY FewRows
  <2>3. ConverterInit /\ TcpRuns => held = NoStream
    BY Zenon DEF ConverterInit, Starting, ConverterStart, TcpRuns
  <2>4. /\ NoStream.expected = Absent /\ NoStream.stream = <<>> /\ NoStream.spans = <<>> /\ NoStream.seen = <<>>
        /\ NoStream = [expected |-> NoStream.expected, stream |-> NoStream.stream, spans |-> NoStream.spans,
                       seen |-> NoStream.seen, finished |-> NoStream.finished]
    BY DEF NoStream
  <2>5. Picked(<<>>) = {}
    BY <2>2 DEF Picked
  <2>6. 0 <= StreamLimit
    BY NumbersOfStream
  <2>7. <<>> \in Seq(Nat)
    OBVIOUS
  <2>8. QED
    BY <2>1, <2>2, <2>3, <2>4, <2>5, <2>6, <2>7 DEF TcpInv
<1>2. SavedFile /\ TcpInv /\ [ConverterNext]_linesVars => TcpInv'
  <2> SUFFICES ASSUME SavedFile, TcpInv, [ConverterNext]_linesVars, TcpRuns
               PROVE  TcpInv'
    BY SameScript DEF TcpInv, TcpRuns
  <2>1. ASSUME NEW r \in Records[converter], Taking(r), ConverterStep(r) PROVE TcpInv'
    <3>1. TcpPacket(r)
      BY <2>1, Zenon DEF ConverterStep, HostsStep, RoversStep, FlightStep, MissionsStep, LinksStep, FleetsStep,
         ServersStep, BagsStep, PacketsStep, TcpRuns
    <3>2. QED
      BY <2>1, <3>1, RecordRead, TcpRecordInv
  <2>2. CASE ConverterEnd
    <3>1. TcpEnd
      BY <2>2, Zenon DEF ConverterEnd, TcpRuns
    <3>2. QED
      BY <3>1, TcpEndInv
  <2>3. CASE Refuse \/ UNCHANGED linesVars
    <3>1. UNCHANGED <<converter, fed, lines, held>> /\ (verdict' = "converted" => verdict = "converted")
      BY <2>3 DEF Refuse, linesVars
    <3>2. QED
      BY <3>1 DEF TcpInv, TcpRuns
  <2>4. QED
    BY <2>1, <2>2, <2>3 DEF ConverterNext
<1>3. SavedFile /\ TcpInv => StreamIsGapless
  <2> DEFINE opening == CHOOSE n \in DOMAIN fed : fed[n].flow = "selected" /\ fed[n].flag = "syn"
             at(n) == PlaceOf(fed, opening, fed[n].seq)
  <2>1. StreamIsGapless <=>
           (TcpRuns /\ verdict = "converted" =>
              /\ \A n \in DOMAIN fed : fed[n].flow = "selected" =>
                    \A k \in DOMAIN fed[n].data :
                       at(n) + k \in DOMAIN held.stream /\ held.stream[at(n) + k] = fed[n].data[k]
              /\ \A b \in DOMAIN held.stream : \E n \in DOMAIN fed :
                    fed[n].flow = "selected" /\ at(n) < b /\ b <= at(n) + Len(fed[n].data)
              /\ lines[1].start = 0 /\ Last(lines).stop = Len(held.stream)
              /\ \A i \in DOMAIN lines :
                    /\ i > 1 => lines[i].start = lines[i - 1].stop
                    /\ \A b \in (lines[i].start + 1)..lines[i].stop :
                          \E n \in lines[i].packets : at(n) < b /\ b <= at(n) + Len(fed[n].data))
    BY Zenon DEF StreamIsGapless, TcpRuns, PlaceOf
  <2>2. SUFFICES ASSUME SavedFile, TcpInv, TcpRuns, verdict = "converted"
        PROVE /\ \A n \in DOMAIN fed : fed[n].flow = "selected" =>
                    \A k \in DOMAIN fed[n].data :
                       at(n) + k \in DOMAIN held.stream /\ held.stream[at(n) + k] = fed[n].data[k]
              /\ \A b \in DOMAIN held.stream : \E n \in DOMAIN fed :
                    fed[n].flow = "selected" /\ at(n) < b /\ b <= at(n) + Len(fed[n].data)
              /\ lines[1].start = 0 /\ Last(lines).stop = Len(held.stream)
              /\ \A i \in DOMAIN lines :
                    /\ i > 1 => lines[i].start = lines[i - 1].stop
                    /\ \A b \in (lines[i].start + 1)..lines[i].stop :
                          \E n \in lines[i].packets : at(n) < b /\ b <= at(n) + Len(fed[n].data)
    BY <2>1
  <2>3. FramesAreSo(held, lines)
    BY <2>2 DEF TcpInv
  <2>4. held.expected # Absent
    BY <2>2, <2>3 DEF TcpInv, FramesAreSo
  <2>5. PICK o \in DOMAIN fed : OpenStream(held, fed, o)
    BY <2>2, <2>4 DEF TcpInv
  <2>6. /\ fed[o].flow = "selected" /\ fed[o].flag = "syn"
        /\ \A n \in DOMAIN fed : fed[n].flow = "selected" /\ fed[n].flag = "syn" => n = o
    BY <2>5 DEF OpenStream, Picked
  <2>7. opening = o
    BY <2>6
  <2> HIDE DEF opening
  <2>8. \A n \in DOMAIN fed : fed[n].flow = "selected" =>
           \A k \in DOMAIN fed[n].data :
              at(n) + k \in DOMAIN held.stream /\ held.stream[at(n) + k] = fed[n].data[k]
    BY <2>5, <2>7 DEF OpenStream, Brings, Picked
  <2>9. ASSUME NEW j \in DOMAIN held.spans
        PROVE  LET p == held.spans[j].packet
               IN /\ p \in DOMAIN fed /\ fed[p].flow = "selected"
                  /\ held.spans[j].start = at(p) /\ held.spans[j].stop = at(p) + Len(fed[p].data)
    BY <2>5, <2>7 DEF OpenStream, SpanIsSo, Picked
  <2>10. ASSUME NEW b \in DOMAIN held.stream
         PROVE  \E n \in DOMAIN fed : fed[n].flow = "selected" /\ at(n) < b /\ b <= at(n) + Len(fed[n].data)
    <3>1. PICK j \in DOMAIN held.spans : held.spans[j].start < b /\ b <= held.spans[j].stop
      BY <2>5 DEF OpenStream
    <3>2. QED
      BY <2>9, <3>1
  <2>11. ASSUME NEW i \in DOMAIN lines, NEW b \in (lines[i].start + 1)..lines[i].stop
         PROVE  \E n \in lines[i].packets : at(n) < b /\ b <= at(n) + Len(fed[n].data)
    <3>1. PICK j \in DOMAIN held.spans :
             held.spans[j].packet \in lines[i].packets /\ held.spans[j].start < b /\ b <= held.spans[j].stop
      BY <2>3 DEF FramesAreSo
    <3>2. QED
      BY <2>9, <3>1
  <2>12. lines[1].start = 0 /\ Last(lines).stop = Len(held.stream)
    BY <2>3 DEF FramesAreSo, Last
  <2>13. \A i \in DOMAIN lines : i > 1 => lines[i].start = lines[i - 1].stop
    BY <2>3 DEF FramesAreSo
  <2>14. QED
    BY <2>8, <2>10, <2>11, <2>12, <2>13
<1>4. QED
  BY <1>1, <1>2, <1>3, FileIsSaved, PTL DEF ConverterSpec

(* What is put together from parts is whole, for every converter that does so: *)
(* no part is missing, out of order or another message's.                      *)
THEOREM PartsArePutTogether == ConverterSpec => []ReassembliesAreSound
<1>1. ReassembliesAreSound <=>
         /\ MessagesAreWhole /\ TextsAreWhole /\ UlogIsGapless /\ EntriesAreWhole
         /\ StreamIsGapless /\ BatchesAreWhole /\ ChainIsFollowed
  BY DEF ReassembliesAreSound
<1>2. QED
  BY <1>1, SocketHolds, TextsHold, UlogHolds, ParametersHold, StreamHolds, BatchesHold, PagesHold, PTL
=============================================================================
