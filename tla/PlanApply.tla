------------------------------- MODULE PlanApply -------------------------------
(***************************************************************************)
(* Writing the approved files of a plan: the loop of                       *)
(* applyApprovedPlanFilesOrchestration (applyPlanApply.ts), the writes it  *)
(* asks the main process for (electron/fileWriter.cts), and the rollback   *)
(* of a partial apply (followUpCheckpoint.ts).  Between any two steps the  *)
(* user may save a file in another editor or begin another run.            *)
(*                                                                         *)
(* The files are numbered in the order they are applied.                   *)
(***************************************************************************)
EXTENDS Naturals, Sequences, FiniteSets

CONSTANTS
  N,            \* approved files
  Creates,      \* those the plan creates; the others it modifies
  MaxSaves      \* bound: saves by the user

Files == 1..N

ASSUME PlanAssumption ==
  /\ N \in Nat \ {0}
  /\ Creates \subseteq Files
  /\ MaxSaves \in Nat

\* No file, the content the plan was made from, the proposed one, part of it,
\* and what the user saves.
Content == {"absent", "basis", "new", "torn", "user"}

Original(k) == IF k \in Creates THEN "absent" ELSE "basis"

\* An entry of the undo batch.
Records == [file : Files, previous : {"absent", "basis"}]

VARIABLES
  disk,       \* [Files -> Content]
  step,       \* where the run is
  file,       \* the file it is at; all before it have been applied
  back,       \* the file the rollback is at
  stale,      \* another run has begun: isStaleApplyPlanRun
  seen,       \* what the rollback has read of its file
  undoBatch,  \* the main process's undo batch: Seq(Records)
  outcome,    \* "none" while it runs
  halfway,    \* history: the file whose write or re-reading failed half way
  saved,      \* history: files the user has saved
  saves       \* saves so far

vars == <<disk, step, file, back, stale, seen, undoBatch, outcome, halfway, saved, saves>>

Step == {"compare", "write", "reread", "settle", "rollback", "restore",
         "overwrite", "replace", "done"}

Outcome == {"none", "applied", "undoLost", "failed", "rolledBack",
            "rollbackFailed", "stale"}

Init ==
  /\ disk = [k \in Files |-> Original(k)]
  /\ step = "compare"
  /\ file = 1
  /\ back = 1
  /\ stale = FALSE
  /\ seen = "absent"
  /\ undoBatch = <<>>
  /\ outcome = "none"
  /\ halfway = {}
  /\ saved = {}
  /\ saves = 0

Put(k, content) == disk' = [disk EXCEPT ![k] = content]

End(how) == step' = "done" /\ outcome' = how

-----------------------------------------------------------------------------
(* One file: createProjectFile or applyEdit.                               *)

\* The content on disk must be the basis, or absent for a file to create; a
\* proposal of poor quality or a path that may not be written is refused too.
Compare ==
  /\ step = "compare"
  /\ \/ disk[file] = Original(file) /\ step' = "write"
     \/ step' = "settle"
  /\ UNCHANGED <<disk, file, back, stale, seen, undoBatch, outcome, halfway, saved, saves>>

\* fs.writeFile overwrites in place: it may fail before or in the middle.
Write ==
  /\ step = "write"
  /\ \/ Put(file, "new") /\ step' = "reread" /\ UNCHANGED halfway
     \/ Put(file, "torn") /\ step' = "settle" /\ halfway' = halfway \cup {file}
     \/ UNCHANGED <<disk, halfway>> /\ step' = "settle"
  /\ UNCHANGED <<file, back, stale, seen, undoBatch, outcome, saved, saves>>

NextFile ==
  /\ file' = file + 1
  /\ step' = IF file = N THEN "replace" ELSE "compare"

\* Seeded fault: the record holds what the file has become.
Reread_recordsAfter ==
  /\ step = "reread"
  /\ undoBatch' = <<[file |-> file, previous |-> disk[file]]>>
  /\ NextFile
  /\ UNCHANGED <<disk, back, stale, seen, outcome, halfway, saved, saves>>

\* confirmWrittenContent, which may not get to read the file; success is
\* recorded as the last edit.
Reread ==
  /\ step = "reread"
  /\ \/ /\ disk[file] = "new"
        /\ undoBatch' = <<[file |-> file, previous |-> Original(file)]>>
        /\ NextFile
        /\ UNCHANGED halfway
     \/ /\ step' = "settle"
        /\ halfway' = IF disk[file] = "new" THEN halfway \cup {file} ELSE halfway
        /\ UNCHANGED <<file, undoBatch>>
  /\ UNCHANGED <<disk, back, stale, seen, outcome, saved, saves>>

-----------------------------------------------------------------------------
(* A file could not be applied.                                            *)

\* Seeded fault: only a run with something to roll back ends.
Settle_onlyRollback ==
  /\ step = "settle"
  /\ \/ stale /\ End("stale")
     \/ ~stale /\ file > 1 /\ step' = "rollback" /\ UNCHANGED outcome
  /\ UNCHANGED <<disk, file, back, stale, seen, undoBatch, halfway, saved, saves>>

\* What was applied is rolled back, unless another run has begun.
Settle ==
  /\ step = "settle"
  /\ \/ stale /\ End("stale")
     \/ ~stale /\ file = 1 /\ End("failed")
     \/ ~stale /\ file > 1 /\ step' = "rollback" /\ UNCHANGED outcome
  /\ UNCHANGED <<disk, file, back, stale, seen, undoBatch, halfway, saved, saves>>

\* Seeded fault: the rollback stops one file early.
NextBack_offByOne ==
  /\ back' = back + 1
  /\ IF back + 2 < file THEN step' = "rollback" /\ UNCHANGED <<undoBatch, outcome>>
                        ELSE End("rolledBack") /\ undoBatch' = <<>>

\* The next applied file, or the end: the undo batch is emptied.
NextBack ==
  /\ back' = back + 1
  /\ IF back + 1 < file THEN step' = "rollback" /\ UNCHANGED <<undoBatch, outcome>>
                        ELSE End("rolledBack") /\ undoBatch' = <<>>

\* Seeded fault: nobody looks at the result of the rollback.
GiveUp_unnoticed == End("rolledBack") /\ undoBatch' = <<>> /\ UNCHANGED back

\* The first failure ends the rollback; the undo batch is emptied as well.
GiveUp == End("rollbackFailed") /\ undoBatch' = <<>> /\ UNCHANGED back

\* A file that was created is deleted, whatever is in it by now.
RollbackCreate ==
  /\ step = "rollback" /\ back \in Creates
  /\ \/ Put(back, "absent") /\ NextBack
     \/ GiveUp /\ UNCHANGED disk
  /\ UNCHANGED <<file, stale, seen, halfway, saved, saves>>

\* A file that was modified is read, and what is read is the basis of the edit.
RollbackRead ==
  /\ step = "rollback" /\ back \notin Creates
  /\ \/ seen' = disk[back] /\ step' = "restore" /\ UNCHANGED <<back, undoBatch, outcome>>
     \/ GiveUp /\ UNCHANGED seen
  /\ UNCHANGED <<disk, file, stale, halfway, saved, saves>>

\* applyEdit without a record: the content must still be what was read.
RollbackCompare ==
  /\ step = "restore"
  /\ \/ disk[back] = seen /\ step' = "overwrite" /\ UNCHANGED <<undoBatch, outcome>>
     \/ End("rollbackFailed") /\ undoBatch' = <<>>
  /\ UNCHANGED <<disk, file, back, stale, seen, halfway, saved, saves>>

\* The write and its re-reading are one step here.
RollbackWrite ==
  /\ step = "overwrite"
  /\ \/ Put(back, "basis") /\ (NextBack \/ GiveUp)
     \/ Put(back, "torn") /\ GiveUp
     \/ GiveUp /\ UNCHANGED disk
  /\ UNCHANGED <<file, stale, seen, halfway, saved, saves>>

-----------------------------------------------------------------------------
(* Everything was applied.                                                 *)

\* Seeded fault: only the last file is recorded, as each edit did.
UndoBatch_last == undoBatch

\* buildUndoBatchFromApprovedFiles
UndoBatch == [k \in Files |-> [file |-> k, previous |-> Original(k)]]

\* edit:replaceUndoBatch refuses a batch with a path it may not write.
Replace ==
  /\ step = "replace"
  /\ \/ undoBatch' = UndoBatch /\ End("applied")
     \/ UNCHANGED undoBatch /\ End("undoLost")
  /\ UNCHANGED <<disk, file, back, stale, seen, halfway, saved, saves>>

-----------------------------------------------------------------------------
(* The user.                                                               *)

Save(k) ==
  /\ step # "done"
  /\ saves < MaxSaves
  /\ saves' = saves + 1
  /\ Put(k, "user")
  /\ saved' = saved \cup {k}
  /\ UNCHANGED <<step, file, back, stale, seen, undoBatch, outcome, halfway>>

BeginOther ==
  /\ step # "done"
  /\ ~stale
  /\ stale' = TRUE
  /\ UNCHANGED <<disk, step, file, back, seen, undoBatch, outcome, halfway, saved, saves>>

RunStep ==
  \/ Compare
  \/ Write
  \/ Reread
  \/ Settle
  \/ RollbackCreate
  \/ RollbackRead
  \/ RollbackCompare
  \/ RollbackWrite
  \/ Replace

Next == RunStep \/ BeginOther \/ \E k \in Files : Save(k)

Spec == Init /\ [][Next]_vars

\* Each call of the main process is answered.
FairSpec == Spec /\ WF_vars(RunStep)
-----------------------------------------------------------------------------
(* Properties.                                                             *)

TypeOK ==
  /\ disk \in [Files -> Content]
  /\ step \in Step
  /\ file \in 1..(N + 1)
  /\ back \in Files
  /\ stale \in BOOLEAN
  /\ seen \in Content
  /\ undoBatch \in Seq(Records)
  /\ outcome \in Outcome
  /\ halfway \subseteq Files
  /\ saved \subseteq Files
  /\ saves \in 0..MaxSaves

LeavesOriginals ==
  \A k \in Files \ (saved \cup halfway) : disk[k] = Original(k)

(* A failed run that says it has rolled back what it applied, or that had  *)
(* nothing to roll back, leaves every file as it was, apart from those the *)
(* user saved and the one whose write failed half way                      *)
(* (rollbackPartialApply).                                                 *)
FailureLeavesOriginals == outcome \in {"failed", "rolledBack"} => LeavesOriginals

(* So does a run that fails after another one has begun: "Roll back files  *)
(* written during a failed multi-file apply" (followUpCheckpoint.ts).      *)
SupersededLeavesOriginals == outcome = "stale" => LeavesOriginals

(* After a run that applied all its files, one undo restores each of them  *)
(* (replaceUndoBatch over the single records of the edits).                *)
UndoCoversApplied ==
  outcome = "applied" =>
    \A k \in Files :
      /\ \E i \in DOMAIN undoBatch :
           undoBatch[i] = [file |-> k, previous |-> Original(k)]
      /\ k \notin saved => disk[k] = "new"

(* What is on offer to be undone was really written by this run: the batch *)
(* never names a file the run has not applied, nor is it empty after one   *)
(* has been applied and the run goes on.                                   *)
UndoIsOfApplied ==
  /\ \A i \in DOMAIN undoBatch : undoBatch[i].file < file
  /\ outcome = "none" /\ file > 1 => undoBatch # <<>>

(* Every run ends.                                                         *)
RunEnds == <>(step = "done")

(***************************************************************************)
(* Refinement.  While the run writes, the contract shows the files as they *)
(* were, except those the user saves; what the run has made of them        *)
(* becomes visible when it ends.                                           *)
(***************************************************************************)
VisibleFiles ==
  [k \in Files |-> IF step = "done" \/ k \in saved THEN disk[k] ELSE Original(k)]

\* The batch is the plan: every file of it is to hold what was proposed.
Batch == [k \in Files |-> [path |-> k, target |-> "new"]]

Verdict ==
  CASE outcome = "none" -> "none"
    [] outcome \in {"applied", "undoLost"} -> "ok"
    [] OTHER -> "failed"

(* What the caller may think changed.  The error of a failed apply names   *)
(* the file it failed at; after a failed rollback the applied files are    *)
(* listed too (filesWritten); the error of a superseded run names none, so *)
(* any file may have changed.                                              *)
ReportedFiles ==
  CASE outcome \in {"failed", "rolledBack"} -> {file}
    [] outcome = "rollbackFailed" -> 1..file
    [] outcome = "stale" -> Files
    [] OTHER -> {}

Contract == INSTANCE BatchContract WITH
  Paths <- Files,
  Value <- Content,
  files <- VisibleFiles,
  batch <- Batch,
  verdict <- Verdict,
  reported <- ReportedFiles,
  raced <- saved

(* A plan is applied all or nothing: seen through VisibleFiles, the loop   *)
(* over the files with its rollback is one step that writes them all, or   *)
(* one that leaves them except for the files its error names               *)
(* (applyApprovedPlanFilesOrchestration and rollbackPartialApply).         *)
ImplementsContract == Contract!Spec
==============================================================================
