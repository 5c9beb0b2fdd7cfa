---------------------------- MODULE GreenfieldWrite ----------------------------
(***************************************************************************)
(* Writing a generated application into a folder (electron/greenfield/     *)
(* write.cts, called through writeIpc.cts): file by file, with a snapshot  *)
(* before each write, and a rollback of everything written so far when a   *)
(* write fails or the user stops the generation.  One action per awaited   *)
(* file operation; the user's Stop and other writers come in between.      *)
(***************************************************************************)
EXTENDS Naturals, Sequences

CONSTANTS
  Paths,        \* files the generation may name
  Allowed,      \* isAllowedGreenfieldWritePath
  Required,     \* GREENFIELD_PATHS
  Contents,     \* what a readable file may hold
  Undecodable,  \* contents that are not UTF-8 text
  Decoded,      \* the text readFile(..., "utf8") makes of those
  Absent,       \* "no such file"
  Unreadable,   \* something is there and cannot be read: a directory, no right
  TornBytes,    \* what a write that fails half way leaves behind
  NoSnapshot,   \* no snapshot is held
  Foreign,      \* bound: what others write
  MaxFiles,     \* bound: files in a generation
  MaxEdits      \* bound: writes by others

ASSUME ValueAssumption ==
  /\ {Absent, Unreadable} \cap Contents = {}
  /\ Absent # Unreadable
  /\ Undecodable \subseteq Contents
  /\ Decoded \in Contents \ Undecodable
  /\ TornBytes \in Contents
  /\ Required # {}
  /\ Required \subseteq Allowed
  /\ Allowed \subseteq Paths

Value == Contents \cup {Absent, Unreadable}

ASSUME BoundAssumption ==
  /\ Foreign \subseteq Value
  /\ MaxFiles \in Nat
  /\ MaxEdits \in Nat

\* The model sends text, and text is decodable.
GeneratedFile == [path : Paths, content : Contents \ Undecodable]

\* existed and previousContent of the code in one field: Absent or a text.
RollbackEntry == [path : Paths, previous : (Contents \ Undecodable) \cup {Absent}]

\* Seeded fault: the snapshot keeps the bytes, which writeVerified cannot write.
Text_bytes(v) == v

\* What reading a file as UTF-8 returns.
Text(v) == IF v \in Undecodable THEN Decoded ELSE v

VARIABLES
  disk,       \* the folder
  files,      \* the generated files, in the order they are written
  mode,       \* the user's fileWriteMode: "safe" or "workspace"
  phase,      \* where the call is
  pos,        \* the file being written; the entry being inspected
  snapshot,   \* capturePreWriteState of the file being written
  committed,  \* rollback entries of the files changed so far
  undone,     \* how many of them the rollback has dealt with
  failed,     \* errors is not empty
  failures,   \* the rollback had failures
  written,    \* paths reported as written
  remaining,  \* paths found different after the rollback
  cancelled,  \* isProviderScopeCancelled(generationId)
  outcome,    \* how the call ended
  original,   \* history: the folder when the call came in
  touched,    \* history: paths somebody else wrote since
  edits       \* writes by others so far

vars == <<disk, files, mode, phase, pos, snapshot, committed, undone, failed,
          failures, written, remaining, cancelled, outcome, original, touched,
          edits>>

Here == files[pos]

Changed == {committed[k].path : k \in 1..Len(committed)}

Init ==
  /\ disk \in [Paths -> Value]
  /\ files \in UNION {[1..n -> GeneratedFile] : n \in 0..MaxFiles}
  /\ mode \in {"safe", "workspace"}
  /\ phase = "called"
  /\ pos = 1
  /\ snapshot = NoSnapshot
  /\ committed = <<>>
  /\ undone = 0
  /\ failed = FALSE
  /\ failures = FALSE
  /\ written = {}
  /\ remaining = {}
  /\ cancelled = FALSE
  /\ outcome = "none"
  /\ original = disk
  /\ touched = {}
  /\ edits = 0

-----------------------------------------------------------------------------
(* How the call ends, and how its loop goes on.                            *)

End(how) == phase' = "done" /\ outcome' = how

\* abortAndRollback: with nothing committed there is nothing to roll back.
Abort ==
  /\ failed' = TRUE
  /\ IF committed' = <<>>
     THEN End("failed") /\ written' = {}
     ELSE phase' = "rollback" /\ UNCHANGED <<outcome, written>>

\* The loop is over.  The code looks at the scope once more; nothing is awaited
\* since the loop's own look, so it finds what that found.
Conclude ==
  End(IF ~failed' /\ Required \subseteq written' THEN "ok" ELSE "failed")

NextFile ==
  IF pos < Len(files)
  THEN /\ pos' = pos + 1
       /\ phase' = "examine"
       /\ UNCHANGED outcome
  ELSE Conclude /\ UNCHANGED pos

Quiet == UNCHANGED <<files, mode, undone, failures, remaining, cancelled,
                     original, touched, edits>>

-----------------------------------------------------------------------------
(* The call: the safe-mode gate, the scope, the required files.            *)

GateIsClosed == mode = "safe" /\ \E p \in Paths : disk[p] # Absent

FilesComplete == Required \subseteq {files[i].path : i \in 1..Len(files)}

\* A folder that is not empty, a stopped generation or a missing file: the
\* call returns before it writes anything.
Refuse ==
  /\ phase = "called"
  /\ GateIsClosed \/ cancelled \/ ~FilesComplete
  /\ End("refused")
  /\ UNCHANGED <<disk, pos, snapshot, committed, failed, written>>
  /\ Quiet

Start ==
  /\ phase = "called"
  /\ ~GateIsClosed
  /\ ~cancelled
  /\ FilesComplete
  /\ phase' = "examine"
  /\ UNCHANGED <<disk, pos, snapshot, committed, failed, written, outcome>>
  /\ Quiet

-----------------------------------------------------------------------------
(* One file of the loop.                                                   *)

SeeStop ==
  /\ phase = "examine"
  /\ cancelled
  /\ UNCHANGED <<disk, pos, snapshot, committed>>
  /\ Abort
  /\ Quiet

\* Seeded fault: a path that may not be written is left out silently.
SkipDisallowed_silent ==
  /\ phase = "examine"
  /\ ~cancelled
  /\ Here.path \notin Allowed
  /\ UNCHANGED <<disk, snapshot, committed, written, failed>>
  /\ NextFile
  /\ Quiet

\* A path that may not be written is an error, and the loop goes on.
SkipDisallowed ==
  /\ phase = "examine"
  /\ ~cancelled
  /\ Here.path \notin Allowed
  /\ failed' = TRUE
  /\ UNCHANGED <<disk, snapshot, committed, written>>
  /\ NextFile
  /\ Quiet

\* validateWritePath or ensureParentDirectory fails, or safe mode finds a file.
RejectTarget ==
  /\ phase = "examine"
  /\ ~cancelled
  /\ Here.path \in Allowed
  /\ UNCHANGED <<disk, pos, snapshot, committed>>
  /\ Abort
  /\ Quiet

Examine ==
  /\ phase = "examine"
  /\ ~cancelled
  /\ Here.path \in Allowed
  /\ mode = "safe" => disk[Here.path] = Absent
  /\ phase' = "capture"
  /\ UNCHANGED <<disk, pos, snapshot, committed, failed, written, outcome>>
  /\ Quiet

Capture ==
  /\ phase = "capture"
  /\ disk[Here.path] # Unreadable
  /\ snapshot' = [path |-> Here.path, previous |-> Text(disk[Here.path])]
  /\ phase' = "write"
  /\ UNCHANGED <<disk, pos, committed, failed, written, outcome>>
  /\ Quiet

\* capturePreWriteState throws, and nothing in writeGreenfieldFiles catches it.
CaptureThrows ==
  /\ phase = "capture"
  /\ disk[Here.path] = Unreadable
  /\ End("threw")
  /\ UNCHANGED <<disk, pos, snapshot, committed, failed, written>>
  /\ Quiet

Write ==
  /\ phase = "write"
  /\ disk[Here.path] # Unreadable
  /\ disk' = [disk EXCEPT ![Here.path] = Here.content]
  /\ committed' = Append(committed, snapshot)
  /\ written' = written \cup {Here.path}
  /\ phase' = "written"
  /\ UNCHANGED <<pos, snapshot, failed, outcome>>
  /\ Quiet

\* What a failing write may leave (writeVerified writes in place).
LeftByFailure(p, content) ==
  IF disk[p] = Unreadable THEN {Unreadable} ELSE {disk[p], TornBytes, content}

\* Seeded fault: a file whose write failed is not rolled back.
Mutated_never(left) == FALSE

\* The write may have changed a file that was there, or created one.
Mutated(left) == snapshot.previous # Absent \/ left # Absent

WriteFails ==
  /\ phase = "write"
  /\ \E left \in LeftByFailure(Here.path, Here.content) :
       /\ disk' = [disk EXCEPT ![Here.path] = left]
       /\ committed' = IF Mutated(left) THEN Append(committed, snapshot)
                                        ELSE committed
  /\ UNCHANGED <<pos, snapshot>>
  /\ Abort
  /\ Quiet

\* Seeded fault: a Stop during the last write is not seen any more.
AfterWrite_unchecked ==
  /\ phase = "written"
  /\ UNCHANGED <<disk, snapshot, committed, written, failed>>
  /\ IF pos < Len(files)
     THEN pos' = pos + 1 /\ phase' = "examine" /\ UNCHANGED outcome
     ELSE /\ End(IF ~failed /\ Required \subseteq written THEN "ok" ELSE "failed")
          /\ UNCHANGED pos
  /\ Quiet

\* Seeded fault: aborting the wait does not resolve its promise.
AfterWrite_abortLost ==
  /\ phase = "written"
  /\ ~cancelled
  /\ UNCHANGED <<disk, snapshot, committed, failed, written>>
  /\ NextFile
  /\ Quiet

\* The wait after a write ends at once when the user stops the generation.
AfterWrite ==
  /\ phase = "written"
  /\ UNCHANGED <<disk, snapshot, committed>>
  /\ IF cancelled
     THEN Abort /\ UNCHANGED pos
     ELSE UNCHANGED <<failed, written>> /\ NextFile
  /\ Quiet

-----------------------------------------------------------------------------
(* The rollback: newest first, whatever fails; then a look at the result.  *)

\* The newest entry that is left.
NextUndone == Len(committed) - undone

Restore ==
  /\ phase = "rollback"
  /\ NextUndone >= 1
  /\ LET entry == committed[NextUndone]
     IN  disk' = [disk EXCEPT ![entry.path] = entry.previous]
  /\ undone' = undone + 1
  /\ UNCHANGED <<files, mode, phase, pos, snapshot, committed, failed, failures,
                 written, remaining, cancelled, outcome, original, touched, edits>>

RestoreFails ==
  /\ phase = "rollback"
  /\ NextUndone >= 1
  /\ LET entry == committed[NextUndone]
     IN  \E left \in IF entry.previous = Absent
                     THEN {disk[entry.path]}
                     ELSE LeftByFailure(entry.path, entry.previous) :
           disk' = [disk EXCEPT ![entry.path] = left]
  /\ undone' = undone + 1
  /\ failures' = TRUE
  /\ UNCHANGED <<files, mode, phase, pos, snapshot, committed, failed, written,
                 remaining, cancelled, outcome, original, touched, edits>>

BeginInspect ==
  /\ phase = "rollback"
  /\ NextUndone = 0
  /\ phase' = "inspect"
  /\ pos' = 1
  /\ UNCHANGED <<disk, snapshot, committed, failed, written, outcome>>
  /\ Quiet

\* remainingAffectedPaths; an unreadable file counts as affected.
StillAffected(entry) == Text(disk[entry.path]) # entry.previous

Inspect ==
  /\ phase = "inspect"
  /\ pos <= Len(committed)
  /\ LET entry == committed[pos]
     IN  remaining' = IF StillAffected(entry) THEN remaining \cup {entry.path}
                                              ELSE remaining
  /\ pos' = pos + 1
  /\ UNCHANGED <<disk, files, mode, phase, snapshot, committed, undone, failed,
                 failures, written, cancelled, outcome, original, touched, edits>>

\* Seeded fault: a rollback is taken to have put everything back.
Report_trusting ==
  /\ phase = "inspect"
  /\ pos > Len(committed)
  /\ End("failed")
  /\ written' = {}
  /\ UNCHANGED <<disk, pos, snapshot, committed, failed>>
  /\ Quiet

\* With no failure and nothing remaining, written is empty in either branch.
Report ==
  /\ phase = "inspect"
  /\ pos > Len(committed)
  /\ End("failed")
  /\ written' = remaining
  /\ UNCHANGED <<disk, pos, snapshot, committed, failed>>
  /\ Quiet

-----------------------------------------------------------------------------
(* The rest of the world.                                                  *)

\* The user stops the generation (cancelActiveProviderRequests).
Stop ==
  /\ ~cancelled
  /\ cancelled' = TRUE
  /\ UNCHANGED <<disk, files, mode, phase, pos, snapshot, committed, undone,
                 failed, failures, written, remaining, outcome, original,
                 touched, edits>>

ExternalWrite(p, v) ==
  /\ edits < MaxEdits
  /\ edits' = edits + 1
  /\ disk' = [disk EXCEPT ![p] = v]
  /\ touched' = touched \cup {p}
  /\ UNCHANGED <<files, mode, phase, pos, snapshot, committed, undone, failed,
                 failures, written, remaining, cancelled, outcome, original>>

WriteStep ==
  \/ Refuse
  \/ Start
  \/ SeeStop
  \/ SkipDisallowed
  \/ RejectTarget
  \/ Examine
  \/ Capture
  \/ CaptureThrows
  \/ Write
  \/ WriteFails
  \/ AfterWrite
  \/ Restore
  \/ RestoreFails
  \/ BeginInspect
  \/ Inspect
  \/ Report

Next ==
  \/ WriteStep
  \/ Stop
  \/ \E p \in Paths, v \in Foreign : ExternalWrite(p, v)

\* Every awaited operation settles and the delay timer fires or is aborted.
Fairness == WF_vars(WriteStep)

Spec == Init /\ [][Next]_vars /\ Fairness
-----------------------------------------------------------------------------
(* Properties.                                                             *)

Phases == {"called", "examine", "capture", "write", "written", "rollback",
           "inspect", "done"}

TypeOK ==
  /\ disk \in [Paths -> Value]
  /\ files \in Seq(GeneratedFile)
  /\ mode \in {"safe", "workspace"}
  /\ phase \in Phases
  /\ pos \in Nat \ {0}
  /\ snapshot \in RollbackEntry \cup {NoSnapshot}
  /\ committed \in Seq(RollbackEntry)
  /\ undone \in 0..Len(committed)
  /\ failed \in BOOLEAN
  /\ failures \in BOOLEAN
  /\ written \subseteq Paths
  /\ remaining \subseteq Paths
  /\ cancelled \in BOOLEAN
  /\ outcome \in {"none", "ok", "refused", "failed", "threw"}
  /\ original \in [Paths -> Value]
  /\ touched \subseteq Paths
  /\ edits \in Nat

Undisturbed(p) == p \notin touched

AsBefore(p) == Text(disk[p]) = Text(original[p])

(* A call that does not succeed leaves no file changed that its written    *)
(* list does not name, whether it failed, was stopped, or could not even   *)
(* finish its rollback (abortAndRollback).                                 *)
FailureAccountsForFiles ==
  outcome \in {"failed", "refused"} =>
    \A p \in Paths : Undisturbed(p) => AsBefore(p) \/ p \in written

(* A call that succeeds has written the whole application: every required  *)
(* file is there, and each path holds the last text the generation gave    *)
(* it.                                                                     *)
SuccessIsComplete ==
  outcome = "ok" =>
    /\ Required \subseteq written
    /\ \A i \in 1..Len(files) :
         (\A j \in i + 1..Len(files) : files[j].path # files[i].path) =>
           (Undisturbed(files[i].path) => disk[files[i].path] = files[i].content)

(* A generation the user stopped before the call returned never reports    *)
(* success, however late the Stop came.                                    *)
StoppedNeverSucceeds == [][outcome' = "ok" /\ outcome # "ok" => ~cancelled]_vars

(* The call returns: no combination of failing writes, restores and a Stop *)
(* keeps it in a loop.                                                     *)
CallReturns == phase # "done" ~> phase = "done"

(***************************************************************************)
(* Refinement.  While the call runs, the contract shows the folder as it   *)
(* was, as text, except where somebody else writes; what the call made of  *)
(* it becomes visible when it returns.                                     *)
(***************************************************************************)
VisibleFiles ==
  [p \in Paths |->
     Text(IF phase = "done" \/ ~Undisturbed(p) THEN disk[p] ELSE original[p])]

\* What a file can hold as text.
TextValue == (Contents \ Undecodable) \cup {Absent, Unreadable}

Batch == [i \in 1..Len(files) |-> [path |-> files[i].path, target |-> files[i].content]]

\* The caller of a call that throws gets no list: any file may have changed.
ReportedPaths ==
  CASE outcome = "failed" -> written
    [] outcome = "threw" -> Paths
    [] OTHER -> {}

Contract == INSTANCE BatchContract WITH
  Value <- TextValue,
  files <- VisibleFiles,
  batch <- Batch,
  verdict <- IF outcome = "threw" THEN "failed" ELSE outcome,
  reported <- ReportedPaths,
  raced <- touched

(* A generation is written all or nothing: seen through VisibleFiles, the  *)
(* writes and the rollback are one step that writes every file, or one     *)
(* that leaves all but the files of the generation its written list names, *)
(* and never any other file (writeGreenfieldFiles).                        *)
ImplementsContract == Contract!Spec
==============================================================================
