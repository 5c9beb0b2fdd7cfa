--------------------------- MODULE PlanApply_proofs ---------------------------
(***************************************************************************)
(* Proofs about PlanApply for any number of files and of saves by the      *)
(* user: what an undo covers after a run that applied its files, what a    *)
(* failed run leaves, and how many steps a run takes.                      *)
(***************************************************************************)
EXTENDS PlanApply, TLAPS

Working == {"compare", "write", "reread", "settle"}
Undoing == {"rollback", "restore", "overwrite"}

\* Where the run and its rollback can be in each step.
Bounds ==
  /\ step \in Working \cup Undoing => file \in Files
  /\ step = "replace" => file = N + 1
  /\ step \in Working \cup {"replace"} => back = 1
  /\ step \in Undoing => back < file
  /\ step \in {"restore", "overwrite"} => back \notin Creates
  /\ step = "done" <=> outcome # "none"

Placed == TypeOK /\ Bounds

LEMMA PlacedInit == Init => Placed
<1> SUFFICES ASSUME Init PROVE Placed
  OBVIOUS
<1> USE PlanAssumption DEF Init
<1>1. disk \in [Files -> Content]
  BY DEF Original, Content
<1>2. undoBatch \in Seq(Records)
  OBVIOUS
<1>3. 1 \in Files /\ file \in 1..(N + 1)
  BY DEF Files
<1>4. halfway \subseteq Files /\ saved \subseteq Files /\ saves \in 0..MaxSaves
  OBVIOUS
<1>5. TypeOK
  <2> HIDE DEF Init
  <2> QED
    BY <1>1, <1>2, <1>3, <1>4 DEF Init, TypeOK, Step, Outcome, Content
<1>6. Bounds
  BY <1>3 DEF Bounds, Working, Undoing
<1> QED
  BY <1>5, <1>6 DEF Placed

LEMMA PlacedNext == Placed /\ [Next]_vars => Placed'
<1> SUFFICES ASSUME Placed, [Next]_vars
             PROVE  Placed'
  OBVIOUS
<1> USE PlanAssumption DEF Placed, TypeOK, Bounds, Working, Undoing, Step, Outcome,
    Content, Original, Put, End
<1>a. <<>> \in Seq(Records)
  OBVIOUS
<1>1. CASE Compare
  BY <1>1 DEF Compare
<1>2. CASE Write
  BY <1>2 DEF Write
<1>3. CASE Reread
  <2>1. file \in Files /\ step = "reread" /\ back = 1 /\ outcome = "none"
    BY <1>3 DEF Reread
  <2>2. CASE disk[file] = "new" /\ NextFile /\ undoBatch' = <<[file |-> file, previous |-> Original(file)]>>
    <3>1. file' = file + 1 /\ file' \in 1..(N + 1)
      BY <2>1, <2>2 DEF NextFile, Files
    <3>2. [file |-> file, previous |-> Original(file)] \in Records
      BY <2>1 DEF Records
    <3>3. undoBatch' \in Seq(Records)
      BY <2>2, <3>2
    <3>4. CASE file = N
      BY <1>3, <2>1, <2>2, <3>1, <3>3, <3>4 DEF Reread, NextFile
    <3>5. CASE file # N
      <4>1. file' \in Files
        BY <2>1, <3>1, <3>5 DEF Files
      <4> QED
        BY <1>3, <2>1, <2>2, <3>1, <3>3, <3>5, <4>1 DEF Reread, NextFile
    <3> QED
      BY <3>4, <3>5
  <2>3. CASE step' = "settle" /\ UNCHANGED <<file, undoBatch>>
    BY <1>3, <2>1, <2>3 DEF Reread
  <2> QED
    BY <1>3, <2>2, <2>3 DEF Reread
<1>4. CASE Settle
  BY <1>4 DEF Settle, Files
<1>b. ASSUME step \in Undoing, NextBack
      PROVE  /\ back' \in Files
             /\ step' \in {"rollback", "done"}
             /\ step' = "rollback" => back' < file /\ UNCHANGED <<undoBatch, outcome>>
             /\ step' = "done" => undoBatch' = <<>> /\ outcome' = "rolledBack"
  <2>1. file \in Files /\ back \in Files /\ back < file
    BY <1>b
  <2> QED
    BY <1>b, <2>1 DEF NextBack, Files
<1>c. ASSUME step \in Undoing, GiveUp
      PROVE  /\ back' \in Files
             /\ step' = "done" /\ undoBatch' = <<>> /\ outcome' = "rollbackFailed"
  BY <1>c DEF GiveUp
<1>5. CASE RollbackCreate
  <2>1. step \in Undoing /\ disk' \in [Files -> Content] /\ (NextBack \/ GiveUp)
    BY <1>5 DEF RollbackCreate
  <2> QED
    BY <1>5, <1>a, <1>b, <1>c, <2>1 DEF RollbackCreate
<1>6. CASE RollbackRead
  BY <1>a, <1>6 DEF RollbackRead, GiveUp
<1>7. CASE RollbackCompare
  BY <1>a, <1>7 DEF RollbackCompare
<1>8. CASE RollbackWrite
  <2>1. step \in Undoing /\ disk' \in [Files -> Content] /\ (NextBack \/ GiveUp)
    BY <1>8 DEF RollbackWrite
  <2> QED
    BY <1>8, <1>a, <1>b, <1>c, <2>1 DEF RollbackWrite
<1>9. CASE Replace
  <2>1. UndoBatch \in Seq(Records)
    BY DEF UndoBatch, Records, Files
  <2> QED
    BY <1>9, <2>1 DEF Replace
<1>10. ASSUME NEW k \in Files, Save(k)
       PROVE  Placed'
  BY <1>10 DEF Save
<1>11. CASE BeginOther
  BY <1>11 DEF BeginOther
<1>12. CASE UNCHANGED vars
  BY <1>12 DEF vars
<1> QED
  BY <1>1, <1>2, <1>3, <1>4, <1>5, <1>6, <1>7, <1>8, <1>9, <1>10, <1>11, <1>12
  DEF Next, RunStep

(* The variables have their types in every reachable state.                *)
THEOREM TypeCorrect == Spec => []TypeOK
<1>1. Spec => []Placed
  BY PlacedInit, PlacedNext, PTL DEF Spec
<1>2. Placed => TypeOK
  BY DEF Placed
<1> QED
  BY <1>1, <1>2, PTL
-----------------------------------------------------------------------------
(* The undo batch.                                                         *)

\* What the run has written so far, and what the batch holds at its end.
Tidy ==
  /\ step \in Working \cup {"replace"} =>
       \A k \in Files \ saved : k < file => disk[k] = "new"
  /\ outcome = "applied" =>
       undoBatch = UndoBatch /\ \A k \in Files \ saved : disk[k] = "new"

LEMMA TidyNext == Placed /\ Tidy /\ [Next]_vars => Tidy'
<1> SUFFICES ASSUME Placed, Tidy, [Next]_vars
             PROVE  Tidy'
  OBVIOUS
<1> USE PlanAssumption DEF Placed, TypeOK, Bounds, Tidy, Working, Undoing, Put, End,
    UndoBatch, Original
<1>1. CASE Compare
  BY <1>1 DEF Compare
<1>2. CASE Write
  BY <1>2 DEF Write
<1>3. CASE Reread
  <2>1. \A k \in Files \ saved : k < file' => disk'[k] = "new"
    BY <1>3 DEF Reread, NextFile, Files
  <2>2. outcome' = "none"
    BY <1>3 DEF Reread
  <2> QED
    BY <1>3, <2>1, <2>2 DEF Reread
<1>4. CASE Settle
  BY <1>4 DEF Settle
<1>5. CASE RollbackCreate
  BY <1>5 DEF RollbackCreate, NextBack, GiveUp
<1>6. CASE RollbackRead
  BY <1>6 DEF RollbackRead, GiveUp
<1>7. CASE RollbackCompare
  BY <1>7 DEF RollbackCompare
<1>8. CASE RollbackWrite
  BY <1>8 DEF RollbackWrite, NextBack, GiveUp
<1>9. CASE Replace
  <2>1. \A k \in Files \ saved : disk[k] = "new"
    BY <1>9 DEF Replace, Files
  <2> QED
    BY <1>9, <2>1 DEF Replace
<1>10. ASSUME NEW k \in Files, Save(k)
       PROVE  Tidy'
  BY <1>10 DEF Save
<1>11. CASE BeginOther
  BY <1>11 DEF BeginOther
<1>12. CASE UNCHANGED vars
  BY <1>12 DEF vars
<1> QED
  BY <1>1, <1>2, <1>3, <1>4, <1>5, <1>6, <1>7, <1>8, <1>9, <1>10, <1>11, <1>12
  DEF Next, RunStep

(* After a run that applied all its files, whatever else happens, one undo *)
(* restores each of them.                                                  *)
THEOREM UndoCovers == Spec => []UndoCoversApplied
<1>1. Init => Tidy
  BY DEF Init, Tidy, Files
<1>2. Placed /\ Tidy => UndoCoversApplied
  <2> SUFFICES ASSUME Placed, Tidy, outcome = "applied", NEW k \in Files
               PROVE  /\ \E i \in DOMAIN undoBatch :
                           undoBatch[i] = [file |-> k, previous |-> Original(k)]
                      /\ k \notin saved => disk[k] = "new"
    BY DEF UndoCoversApplied
  <2>1. undoBatch = UndoBatch /\ k \in DOMAIN UndoBatch
    BY DEF Tidy, UndoBatch
  <2>2. undoBatch[k] = [file |-> k, previous |-> Original(k)]
    BY <2>1 DEF UndoBatch
  <2> QED
    BY <2>1, <2>2 DEF Tidy
<1> QED
  BY <1>1, <1>2, PlacedInit, PlacedNext, TidyNext, PTL DEF Spec

(* What is on offer to be undone was really written by this run.           *)
THEOREM UndoOfApplied == Spec => []UndoIsOfApplied
<1>1. Init => UndoIsOfApplied
  BY DEF Init, UndoIsOfApplied
<1>2. Placed /\ UndoIsOfApplied /\ [Next]_vars => UndoIsOfApplied'
  <2> SUFFICES ASSUME Placed, UndoIsOfApplied, [Next]_vars
               PROVE  UndoIsOfApplied'
    OBVIOUS
  <2> USE PlanAssumption DEF UndoIsOfApplied, Placed, TypeOK, Bounds, Working, Undoing, End
  <2>1. CASE Compare
    BY <2>1 DEF Compare
  <2>2. CASE Write
    BY <2>2 DEF Write
  <2>3. CASE Reread
    <3>1. CASE disk[file] = "new" /\ NextFile /\ undoBatch' = <<[file |-> file, previous |-> Original(file)]>>
      BY <3>1 DEF NextFile, Files
    <3>2. CASE UNCHANGED <<file, undoBatch>>
      BY <2>3, <3>2 DEF Reread
    <3> QED
      BY <2>3, <3>1, <3>2 DEF Reread
  <2>4. CASE Settle
    BY <2>4 DEF Settle
  <2>5. CASE RollbackCreate
    BY <2>5 DEF RollbackCreate, NextBack, GiveUp
  <2>6. CASE RollbackRead
    BY <2>6 DEF RollbackRead, GiveUp
  <2>7. CASE RollbackCompare
    BY <2>7 DEF RollbackCompare
  <2>8. CASE RollbackWrite
    BY <2>8 DEF RollbackWrite, NextBack, GiveUp
  <2>9. CASE Replace
    BY <2>9 DEF Replace, UndoBatch, Files
  <2>10. ASSUME NEW k \in Files, Save(k)
         PROVE  UndoIsOfApplied'
    BY <2>10 DEF Save
  <2>11. CASE BeginOther
    BY <2>11 DEF BeginOther
  <2>12. CASE UNCHANGED vars
    BY <2>12 DEF vars
  <2> QED
    BY <2>1, <2>2, <2>3, <2>4, <2>5, <2>6, <2>7, <2>8, <2>9, <2>10, <2>11, <2>12
    DEF Next, RunStep
<1> QED
  BY <1>1, <1>2, PlacedInit, PlacedNext, PTL DEF Spec
-----------------------------------------------------------------------------
(* What a failed run leaves.                                               *)

\* The files the run has not reached, or has restored, are as they were.
Untouched(k) ==
  CASE step \in {"compare", "write", "settle"} -> k >= file
    [] step = "reread" -> k > file
    [] step \in Undoing -> k < back \/ k >= file
    [] step = "done" -> outcome \in {"failed", "rolledBack"}
    [] OTHER -> FALSE

Clean ==
  /\ \A k \in Files \ (saved \cup halfway) : Untouched(k) => disk[k] = Original(k)
  /\ step = "reread" /\ file \notin saved => disk[file] = "new"

LEMMA CleanNext == Placed /\ Clean /\ [Next]_vars => Clean'
<1> SUFFICES ASSUME Placed, Clean, [Next]_vars
             PROVE  Clean'
  OBVIOUS
<1> USE PlanAssumption DEF Placed, TypeOK, Bounds, Clean, Untouched, Working, Undoing,
    Put, End, Original
<1>1. CASE Compare
  BY <1>1 DEF Compare
<1>2. CASE Write
  <2> SUFFICES ASSUME NEW k \in Files \ (saved \cup halfway'), Untouched(k)'
               PROVE  disk'[k] = Original(k)
    BY <1>2 DEF Write
  <2>1. k \notin halfway
    BY <1>2 DEF Write
  <2>2. CASE step' = "reread"
    BY <1>2, <2>1, <2>2 DEF Write, Files
  <2>3. CASE step' = "settle"
    BY <1>2, <2>1, <2>3 DEF Write, Files
  <2> QED
    BY <1>2, <2>2, <2>3 DEF Write
<1>3. CASE Reread
  <2>1. CASE disk[file] = "new" /\ NextFile /\ UNCHANGED halfway
    BY <1>3, <2>1 DEF Reread, NextFile, Files
  <2>2. CASE step' = "settle" /\ UNCHANGED file
    <3>1. CASE disk[file] = "new"
      <4>1. halfway' = halfway \cup {file} /\ UNCHANGED <<disk, saved>>
        BY <1>3, <2>2, <3>1 DEF Reread, NextFile
      <4>2. ASSUME NEW k \in Files \ (saved' \cup halfway'), k >= file
            PROVE  disk'[k] = Original(k)
        <5>1. k \in Files \ (saved \cup halfway) /\ k # file /\ step = "reread"
          BY <1>3, <4>1, <4>2 DEF Reread
        <5>2. k > file
          BY <4>2, <5>1 DEF Files
        <5>3. disk[k] = Original(k)
          BY <5>1, <5>2
        <5> QED
          BY <4>1, <5>3
      <4> QED
        BY <1>3, <2>2, <4>1, <4>2 DEF Reread
    <3>2. CASE disk[file] # "new"
      BY <1>3, <2>2, <3>2 DEF Reread, Files
    <3> QED
      BY <3>1, <3>2
  <2> QED
    BY <1>3, <2>1, <2>2 DEF Reread
<1>4. CASE Settle
  BY <1>4 DEF Settle, Files
<1>5. CASE RollbackCreate
  <2>1. CASE disk' = [disk EXCEPT ![back] = "absent"] /\ NextBack
    <3>1. ASSUME NEW k \in Files \ (saved \cup halfway), k < back + 1 \/ k >= file
          PROVE  disk'[k] = Original(k)
      BY <1>5, <2>1, <3>1 DEF RollbackCreate, Files
    <3> QED
      BY <1>5, <2>1, <3>1 DEF RollbackCreate, NextBack, Files
  <2>2. CASE GiveUp /\ UNCHANGED disk
    BY <1>5, <2>2 DEF RollbackCreate, GiveUp
  <2> QED
    BY <1>5, <2>1, <2>2 DEF RollbackCreate
<1>6. CASE RollbackRead
  BY <1>6 DEF RollbackRead, GiveUp
<1>7. CASE RollbackCompare
  BY <1>7 DEF RollbackCompare
<1>8. CASE RollbackWrite
  <2>1. CASE disk' = [disk EXCEPT ![back] = "basis"] /\ NextBack
    <3>1. ASSUME NEW k \in Files \ (saved \cup halfway), k < back + 1 \/ k >= file
          PROVE  disk'[k] = Original(k)
      BY <1>8, <2>1, <3>1 DEF RollbackWrite, Files
    <3> QED
      BY <1>8, <2>1, <3>1 DEF RollbackWrite, NextBack, Files
  <2>2. CASE GiveUp
    BY <1>8, <2>2 DEF RollbackWrite, GiveUp
  <2> QED
    BY <1>8, <2>1, <2>2 DEF RollbackWrite
<1>9. CASE Replace
  BY <1>9 DEF Replace
<1>10. ASSUME NEW k \in Files, Save(k)
       PROVE  Clean'
  BY <1>10 DEF Save
<1>11. CASE BeginOther
  BY <1>11 DEF BeginOther
<1>12. CASE UNCHANGED vars
  BY <1>12 DEF vars
<1> QED
  BY <1>1, <1>2, <1>3, <1>4, <1>5, <1>6, <1>7, <1>8, <1>9, <1>10, <1>11, <1>12
  DEF Next, RunStep

(* A failed run that was not superseded and does not report a failed       *)
(* rollback leaves every file as it was, apart from those the user saved   *)
(* and the one whose write failed half way.                                *)
THEOREM FailureLeaves == Spec => []FailureLeavesOriginals
<1>1. Init => Clean
  BY DEF Init, Clean, Untouched
<1>2. Placed /\ Clean => FailureLeavesOriginals
  BY DEF Placed, Bounds, Clean, Untouched, FailureLeavesOriginals, LeavesOriginals, Undoing
<1>3. Placed /\ Clean /\ [Next]_vars => Clean'
  BY CleanNext
<1> QED
  BY <1>1, <1>2, <1>3, PlacedInit, PlacedNext, PTL DEF Spec
-----------------------------------------------------------------------------
(* Runs end.  Liveness itself stays with TLC; what is shown here is that a *)
(* run has a number of steps left that each of its own steps lowers, and   *)
(* that neither the user nor another run raises.                           *)

StepsLeft ==
  CASE step = "compare"   -> 3 * (N - file) + 3 * N + 4
    [] step = "write"     -> 3 * (N - file) + 3 * N + 3
    [] step = "reread"    -> 3 * (N - file) + 3 * N + 2
    [] step = "settle"    -> 3 * N + 1
    [] step = "rollback"  -> 3 * (file - back)
    [] step = "restore"   -> 3 * (file - back) - 1
    [] step = "overwrite" -> 3 * (file - back) - 2
    [] step = "replace"   -> 1
    [] OTHER              -> 0

(* A run of N files takes at most 6 N + 1 steps of its own, whatever fails *)
(* in it and in its rollback, whatever the user saves and whether another  *)
(* run begins (applyApprovedPlan, rollbackPartialApply).                   *)
THEOREM RunIsBounded ==
  Spec => /\ [](/\ StepsLeft \in 0..(6 * N + 1)
                /\ StepsLeft = 0 <=> step = "done")
          /\ [][\/ RunStep /\ StepsLeft' < StepsLeft
                \/ ~RunStep /\ StepsLeft' = StepsLeft]_vars
<1>1. Placed => /\ StepsLeft \in 0..(6 * N + 1)
                /\ StepsLeft = 0 <=> step = "done"
  <2> SUFFICES ASSUME Placed
               PROVE  /\ StepsLeft \in 0..(6 * N + 1)
                      /\ StepsLeft = 0 <=> step = "done"
    OBVIOUS
  <2>1. /\ N \in Nat /\ file \in 1..(N + 1) /\ back \in 1..N
        /\ step \in Working \cup Undoing => file \in 1..N
        /\ step \in Undoing => back < file
        /\ step \in Step
    BY PlanAssumption DEF Placed, TypeOK, Bounds, Files
  <2> QED BY <2>1 DEF StepsLeft, Step, Working, Undoing
<1>2. Placed /\ [Next]_vars =>
        [\/ RunStep /\ StepsLeft' < StepsLeft
         \/ ~RunStep /\ StepsLeft' = StepsLeft]_vars
  <2> SUFFICES ASSUME Placed, Next
               PROVE  \/ RunStep /\ StepsLeft' < StepsLeft
                      \/ ~RunStep /\ StepsLeft' = StepsLeft
    BY DEF vars
  <2>1. /\ N \in Nat /\ file \in 1..(N + 1) /\ back \in 1..N
        /\ step \in Working \cup Undoing => file \in 1..N
        /\ step \in Undoing => back < file
    BY PlanAssumption DEF Placed, TypeOK, Bounds, Files
  <2>2. ASSUME NextBack \/ GiveUp, step \in Undoing, file' = file
        PROVE  StepsLeft' < StepsLeft
    BY <2>1, <2>2 DEF NextBack, GiveUp, End, Undoing, StepsLeft
  <2>3. ASSUME RunStep
        PROVE  StepsLeft' < StepsLeft
    <3>1. CASE Compare \/ Write
      BY <2>1, <3>1 DEF Compare, Write, Working, StepsLeft
    <3>2. CASE Reread
      BY <2>1, <3>2 DEF Reread, NextFile, Working, StepsLeft
    <3>3. CASE Settle
      BY <2>1, <3>3 DEF Settle, End, Working, StepsLeft
    <3>4. CASE RollbackCreate \/ RollbackWrite
      BY <2>2, <3>4 DEF RollbackCreate, RollbackWrite, Undoing
    <3>5. CASE RollbackRead
      BY <2>1, <2>2, <3>5 DEF RollbackRead, Undoing, StepsLeft
    <3>6. CASE RollbackCompare
      BY <2>1, <3>6 DEF RollbackCompare, End, Undoing, StepsLeft
    <3>7. CASE Replace
      BY <3>7 DEF Replace, End, StepsLeft
    <3> QED BY <2>3, <3>1, <3>2, <3>3, <3>4, <3>5, <3>6, <3>7 DEF RunStep
  <2>4. ASSUME BeginOther \/ \E k \in Files : Save(k)
        PROVE  StepsLeft' = StepsLeft /\ ~RunStep
    <3>1. UNCHANGED <<step, file, back>>
      BY <2>4 DEF BeginOther, Save
    <3>2. ~RunStep
      <4>1. ~(StepsLeft' < StepsLeft)
        BY <2>1, <3>1, <1>1 DEF StepsLeft
      <4> QED BY <2>3, <4>1
    <3> QED BY <3>1, <3>2 DEF StepsLeft
  <2> QED BY <2>3, <2>4 DEF Next
<1> QED BY <1>1, <1>2, PlacedInit, PlacedNext, PTL DEF Spec
-----------------------------------------------------------------------------
(* The refinement: every step of the run is a step of the batch contract,  *)
(* or is not seen by it.                                                   *)

\* A write or a re-reading that failed half way did so at the file the run is at.
HalfwayHere ==
  /\ halfway \subseteq {file}
  /\ step \in {"compare", "write", "reread", "replace"} => halfway = {}

LEMMA HalfwayNext == Placed /\ HalfwayHere /\ [Next]_vars => HalfwayHere'
<1> SUFFICES ASSUME Placed, HalfwayHere, [Next]_vars
             PROVE  HalfwayHere'
  OBVIOUS
<1> USE DEF HalfwayHere, End
<1>1. CASE Compare \/ Write
  BY <1>1 DEF Compare, Write
<1>2. CASE Reread
  BY <1>2 DEF Reread, NextFile
<1>3. CASE Settle
  BY <1>3 DEF Settle
<1>4. CASE RollbackCreate \/ RollbackWrite
  BY <1>4 DEF RollbackCreate, RollbackWrite, NextBack, GiveUp
<1>5. CASE RollbackRead \/ RollbackCompare
  BY <1>5 DEF RollbackRead, RollbackCompare, GiveUp
<1>6. CASE Replace
  BY <1>6 DEF Replace
<1>7. CASE BeginOther \/ (\E k \in Files : Save(k)) \/ UNCHANGED vars
  BY <1>7 DEF BeginOther, Save, vars
<1> QED
  BY <1>1, <1>2, <1>3, <1>4, <1>5, <1>6, <1>7 DEF Next, RunStep

Explained == Placed /\ Tidy /\ Clean /\ HalfwayHere

LEMMA ExplainedAlways == Spec => []Explained
<1>1. Init => Explained
  BY PlacedInit DEF Explained, Init, Tidy, Clean, Untouched, HalfwayHere, Files
<1>2. Explained /\ [Next]_vars => Explained'
  BY PlacedNext, TidyNext, CleanNext, HalfwayNext DEF Explained
<1> QED
  BY <1>1, <1>2, PTL DEF Spec

\* The batch is a sequence of one operation per file.
LEMMA BatchType ==
  /\ Batch \in Seq([path : Files, target : Content])
  /\ Len(Batch) = N
  /\ \A k \in Files : Batch[k].path = k /\ Batch[k].target = "new"
  /\ Contract!Named = Files
<1>1. N \in Nat /\ Files = 1..N
  BY PlanAssumption DEF Files
<1>2. \A k \in 1..N : [path |-> k, target |-> "new"] \in [path : Files, target : Content]
  BY <1>1 DEF Content
<1>3. Batch \in Seq([path : Files, target : Content]) /\ Len(Batch) = N
  BY <1>1, <1>2 DEF Batch
<1>4. \A k \in Files : Batch[k].path = k /\ Batch[k].target = "new"
  BY DEF Batch
<1>5. Contract!Named = {Batch[i].path : i \in 1..Len(Batch)}
  BY DEF Contract!Named
<1>6. Contract!Named = Files
  BY <1>1, <1>3, <1>4, <1>5
<1> QED
  BY <1>3, <1>4, <1>6

LEMMA VisibleType ==
  ASSUME Placed
  PROVE  /\ VisibleFiles \in [Files -> Content]
         /\ step = "done" => VisibleFiles = disk
<1>1. disk \in [Files -> Content] /\ \A k \in Files : Original(k) \in Content
  BY DEF Placed, TypeOK, Original, Content
<1>2. step = "done" => VisibleFiles = disk
  BY <1>1 DEF VisibleFiles
<1>3. VisibleFiles \in [Files -> Content]
  BY <1>1 DEF VisibleFiles
<1> QED
  BY <1>2, <1>3

\* The step changes no file, or this one.
Changes(k) == UNCHANGED disk \/ \E v \in Content : disk' = [disk EXCEPT ![k] = v]

\* While the run goes on the contract sees a change only of a saved file.
LEMMA ContractHidden ==
  ASSUME Placed, Placed', step # "done", step' # "done", saved' = saved,
         NEW k \in Files, Changes(k)
  PROVE  [Contract!Next]_Contract!vars
<1>1. outcome = "none" /\ outcome' = "none"
  BY DEF Placed, Bounds
<1>2. Verdict = "none" /\ Verdict' = "none" /\ ReportedFiles = {} /\ ReportedFiles' = {}
  BY <1>1 DEF Verdict, ReportedFiles
<1>3. Batch' = Batch
  BY DEF Batch
<1>4. disk \in [Files -> Content]
  BY DEF Placed, TypeOK
<1>5. VisibleFiles = [j \in Files |-> IF j \in saved THEN disk[j] ELSE Original(j)]
  BY DEF VisibleFiles
<1>6. VisibleFiles' = [j \in Files |-> IF j \in saved THEN disk'[j] ELSE Original(j)]
  BY DEF VisibleFiles
<1>7. CASE UNCHANGED disk
  BY <1>2, <1>3, <1>5, <1>6, <1>7 DEF Contract!vars
<1>8. ASSUME NEW v \in Content, disk' = [disk EXCEPT ![k] = v]
      PROVE  [Contract!Next]_Contract!vars
  <2>1. CASE k \in saved
    <3>1. VisibleFiles' = [VisibleFiles EXCEPT ![k] = v]
      BY <1>4, <1>5, <1>6, <1>8, <2>1
    <3> QED
      BY <1>2, <1>3, <2>1, <3>1 DEF Contract!Next, Contract!Race
  <2>2. CASE k \notin saved
    <3>1. VisibleFiles' = VisibleFiles
      BY <1>4, <1>5, <1>6, <1>8, <2>2
    <3> QED
      BY <1>2, <1>3, <3>1 DEF Contract!vars
  <2> QED
    BY <2>1, <2>2
<1> QED
  BY <1>7, <1>8 DEF Changes

\* A run that fails leaves the files its error does not name.
LEMMA ContractFails ==
  ASSUME Placed, Placed', step # "done", step' = "done", saved' = saved,
         outcome' \in {"failed", "rolledBack", "rollbackFailed", "stale"},
         ReportedFiles' \subseteq Files,
         \A k \in Files \ (ReportedFiles' \cup saved) : disk'[k] = Original(k)
  PROVE  [Contract!Next]_Contract!vars
<1>1. outcome = "none" /\ Verdict = "none" /\ Verdict' = "failed"
  BY DEF Placed, Bounds, Verdict
<1>2. VisibleFiles' = disk' /\ disk' \in [Files -> Content]
  BY VisibleType DEF VisibleFiles, Placed, TypeOK
<1>3. \A k \in Files \ saved : VisibleFiles[k] = Original(k)
  BY DEF VisibleFiles
<1>4. \A k \in Files :
        k \notin (ReportedFiles' \cap Contract!Named) \cup saved =>
          VisibleFiles'[k] = VisibleFiles[k]
  BY <1>2, <1>3, BatchType
<1>5. Batch' = Batch
  BY DEF Batch
<1> QED
  BY <1>1, <1>2, <1>4, <1>5 DEF Contract!Next, Contract!Fail

LEMMA ContractSucceeds ==
  ASSUME Explained, Placed', Replace
  PROVE  [Contract!Next]_Contract!vars
<1>1. /\ step = "replace" /\ step' = "done" /\ UNCHANGED <<disk, saved>>
      /\ outcome' \in {"applied", "undoLost"}
  BY DEF Replace, End
<1>2. /\ Verdict = "none" /\ ReportedFiles = {}
      /\ Verdict' = "ok" /\ ReportedFiles' = {}
  BY <1>1 DEF Explained, Placed, Bounds, Verdict, ReportedFiles
<1>3. VisibleFiles' = disk /\ disk \in [Files -> Content]
  BY <1>1, VisibleType DEF VisibleFiles, Explained, Placed, TypeOK
<1>4. \A k \in Files \ saved : disk[k] = "new"
  BY <1>1, PlanAssumption DEF Explained, Placed, Bounds, Tidy, Files
<1>5. \A i \in 1..Len(Batch) :
        Batch[i].path \notin saved => VisibleFiles'[Batch[i].path] = Batch[i].target
  BY <1>3, <1>4, BatchType, PlanAssumption DEF Files
<1>6. Batch' = Batch
  BY DEF Batch
<1> QED
  BY <1>1, <1>2, <1>3, <1>5, <1>6, BatchType DEF Contract!Next, Contract!Succeed

\* The error of a run whose rollback fails names the applied files and the one it is at.
LEMMA ContractGivesUp ==
  ASSUME Explained, Placed', step \in Undoing,
         GiveUp \/ (step' = "done" /\ outcome' = "rollbackFailed"),
         UNCHANGED <<file, saved>>, Changes(back)
  PROVE  [Contract!Next]_Contract!vars
<1>1. step' = "done" /\ outcome' = "rollbackFailed"
  BY DEF GiveUp, End
<1>2. ReportedFiles' = 1..file /\ file \in Files /\ back \in Files /\ back < file
  BY <1>1 DEF ReportedFiles, Explained, Placed, TypeOK, Bounds
<1>3. ReportedFiles' \subseteq Files
  BY <1>2, PlanAssumption DEF Files
<1>4. ASSUME NEW k \in Files \ (ReportedFiles' \cup saved)
      PROVE  disk'[k] = Original(k)
  <2>1. k >= file /\ k # file /\ k # back
    BY <1>2, <1>4, PlanAssumption DEF Files
  <2>2. k \notin halfway
    BY <2>1 DEF Explained, HalfwayHere
  <2>3. disk[k] = Original(k)
    BY <1>4, <2>1, <2>2 DEF Explained, Clean, Untouched, Undoing
  <2>4. disk'[k] = disk[k]
    BY <2>1 DEF Changes, Explained, Placed, TypeOK
  <2> QED
    BY <2>3, <2>4
<1> QED
  BY <1>1, <1>3, <1>4, ContractFails DEF Explained, Undoing

\* A run that says it rolled back, or had nothing to roll back, is as it was.
LEMMA ContractRollsBack ==
  ASSUME Explained, Explained', step \in Working \cup Undoing, step' = "done",
         outcome' \in {"failed", "rolledBack"}, UNCHANGED <<file, saved>>
  PROVE  [Contract!Next]_Contract!vars
<1>1. ReportedFiles' = {file} /\ file \in Files
  BY DEF ReportedFiles, Explained, Placed, Bounds
<1>2. \A k \in Files \ (saved' \cup halfway') : disk'[k] = Original(k)
  BY DEF Explained, Clean, Untouched, Undoing
<1>3. halfway' \subseteq {file}
  BY DEF Explained, HalfwayHere
<1> QED
  BY <1>1, <1>2, <1>3, ContractFails DEF Explained, Working, Undoing

LEMMA ContractStep ==
  ASSUME Explained, Explained', [Next]_vars
  PROVE  [Contract!Next]_Contract!vars
<1>0. Placed /\ Placed' /\ \A k \in Files : Original(k) \in Content
  BY DEF Explained, Original, Content
<1>a. "new" \in Content /\ "torn" \in Content /\ "basis" \in Content /\ "absent" \in Content
  BY DEF Content
<1>1. CASE Compare \/ Write \/ Reread
  <2>1. step # "done" /\ step' # "done" /\ saved' = saved /\ file \in Files
    BY <1>1, <1>0 DEF Compare, Write, Reread, NextFile, Placed, Bounds, Working, Undoing
  <2>2. Changes(file)
    BY <1>1, <1>a DEF Compare, Write, Reread, Put, Changes
  <2> QED
    BY <1>0, <2>1, <2>2, ContractHidden
<1>2. CASE Settle
  <2>1. step = "settle" /\ UNCHANGED <<disk, file, saved, halfway>> /\ file \in Files
    BY <1>2, <1>0 DEF Settle, Placed, Bounds, Working, Undoing
  <2>2. CASE step' = "rollback"
    BY <1>0, <2>1, <2>2, ContractHidden DEF Changes
  <2>3. CASE step' = "done" /\ outcome' = "failed"
    <3>1. step \in Working \cup Undoing /\ outcome' \in {"failed", "rolledBack"}
      BY <2>1, <2>3 DEF Working
    <3>2. UNCHANGED <<file, saved>>
      BY <2>1
    <3> QED
      BY <2>3, <3>1, <3>2, ContractRollsBack
  <2>4. CASE step' = "done" /\ outcome' = "stale"
    <3>1. ReportedFiles' = Files
      BY <2>4 DEF ReportedFiles
    <3>2. step # "done" /\ saved' = saved
      BY <2>1
    <3>3. \A k \in Files \ (ReportedFiles' \cup saved) : disk'[k] = Original(k)
      BY <3>1
    <3> QED
      BY <1>0, <2>4, <3>1, <3>2, <3>3, ContractFails
  <2> QED
    BY <1>2, <2>2, <2>3, <2>4 DEF Settle, End
<1>3. CASE RollbackCreate \/ RollbackWrite
  <2>1. step \in Undoing /\ step # "done" /\ UNCHANGED <<file, saved>> /\ back \in Files
    BY <1>3, <1>0 DEF RollbackCreate, RollbackWrite, Placed, TypeOK, Working, Undoing
  <2>2. Changes(back)
    BY <1>3, <1>a DEF RollbackCreate, RollbackWrite, Put, Changes
  <2>3. CASE GiveUp
    BY <1>0, <2>1, <2>2, <2>3, ContractGivesUp
  <2>4. CASE NextBack
    <3>1. step' = "rollback" \/ (step' = "done" /\ outcome' = "rolledBack")
      BY <2>4 DEF NextBack, End
    <3>2. CASE step' = "rollback"
      BY <1>0, <2>1, <2>2, <3>2, ContractHidden
    <3>3. CASE step' = "done" /\ outcome' = "rolledBack"
      BY <2>1, <3>3, ContractRollsBack
    <3> QED
      BY <3>1, <3>2, <3>3
  <2> QED
    BY <1>3, <2>3, <2>4 DEF RollbackCreate, RollbackWrite
<1>4. CASE RollbackRead \/ RollbackCompare
  <2>1. /\ step \in Undoing /\ step # "done" /\ back \in Files
        /\ UNCHANGED <<file, saved>> /\ Changes(back)
    BY <1>4, <1>0 DEF RollbackRead, RollbackCompare, Changes, Placed, TypeOK, Working, Undoing
  <2>2. CASE step' # "done"
    BY <1>0, <2>1, <2>2, ContractHidden
  <2>3. CASE step' = "done"
    <3>1. outcome' = "rollbackFailed"
      BY <1>4, <2>3 DEF RollbackRead, RollbackCompare, GiveUp, End
    <3> QED
      BY <1>0, <2>1, <2>3, <3>1, ContractGivesUp
  <2> QED
    BY <2>2, <2>3
<1>5. CASE Replace
  BY <1>0, <1>5, ContractSucceeds
<1>6. ASSUME NEW k \in Files, Save(k)
      PROVE  [Contract!Next]_Contract!vars
  <2>1. /\ UNCHANGED <<step, outcome, file>> /\ step # "done"
        /\ disk' = [disk EXCEPT ![k] = "user"] /\ saved' = saved \cup {k}
    BY <1>6 DEF Save, Put
  <2>2. Verdict' = Verdict /\ ReportedFiles' = ReportedFiles /\ Batch' = Batch
    BY <2>1 DEF Verdict, ReportedFiles, Batch
  <2>3. disk \in [Files -> Content]
    BY <1>0 DEF Placed, TypeOK
  <2>4. VisibleFiles = [j \in Files |-> IF j \in saved THEN disk[j] ELSE Original(j)]
    BY <2>1 DEF VisibleFiles
  <2>5. VisibleFiles' = [j \in Files |-> IF j \in saved' THEN disk'[j] ELSE Original(j)]
    BY <2>1 DEF VisibleFiles
  <2>6. VisibleFiles' = [VisibleFiles EXCEPT ![k] = "user"]
    BY <2>1, <2>3, <2>4, <2>5
  <2> QED
    BY <2>1, <2>2, <2>6 DEF Contract!Next, Contract!Write, Content
<1>7. CASE BeginOther \/ UNCHANGED vars
  <2>1. UNCHANGED <<disk, step, file, outcome, saved>>
    BY <1>7 DEF BeginOther, vars
  <2>2. VisibleFiles' = VisibleFiles /\ Verdict' = Verdict
    BY <2>1 DEF VisibleFiles, Verdict
  <2>3. ReportedFiles' = ReportedFiles /\ Batch' = Batch
    BY <2>1 DEF ReportedFiles, Batch
  <2> QED
    BY <2>1, <2>2, <2>3 DEF Contract!vars
<1> QED
  BY <1>1, <1>2, <1>3, <1>4, <1>5, <1>6, <1>7 DEF Next, RunStep

(* The loop over the approved files, with its failures, its rollback, the  *)
(* saves of the user and the runs that begin meanwhile, implements the     *)
(* all-or-nothing batch of BatchContract                                   *)
(* (applyApprovedPlanFilesOrchestration as its callers see it).            *)
THEOREM Implements == Spec => ImplementsContract
<1>1. Init => Contract!Init
  <2> SUFFICES ASSUME Init PROVE Contract!Init
    OBVIOUS
  <2>1. Placed /\ Verdict = "none" /\ ReportedFiles = {} /\ saved = {}
    BY PlacedInit DEF Init, Verdict, ReportedFiles
  <2> QED
    BY <2>1, BatchType, VisibleType DEF Contract!Init
<1>2. Explained /\ Explained' /\ [Next]_vars => [Contract!Next]_Contract!vars
  BY ContractStep
<1> QED
  BY <1>1, <1>2, ExplainedAlways, PTL DEF Spec, ImplementsContract, Contract!Spec
==============================================================================
