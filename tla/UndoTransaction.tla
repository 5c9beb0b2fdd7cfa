--------------------------- MODULE UndoTransaction ---------------------------
(***************************************************************************)
(* The undo transaction of electron/undoTransaction.cts: restore every     *)
(* file of a batch, or put back what was already restored and say which    *)
(* paths could not be put back.  One action per awaited file operation, so *)
(* other writers (the user's editor, a verifier, a second IPC call) come   *)
(* in between.                                                             *)
(*                                                                         *)
(* Undoing a created file deletes it, undoing a modified file writes its   *)
(* previous content: an operation is a path and the value the path must    *)
(* hold again, Absent standing for "created".  Paths are the normalized    *)
(* keys the code compares.                                                 *)
(***************************************************************************)
EXTENDS Naturals, Sequences

CONSTANTS
  Paths,        \* files a batch may name
  Contents,     \* texts a file may hold
  Absent,       \* "no such file"
  TornBytes,    \* the text a write that fails half way leaves behind
  Unseen,       \* "not snapshotted in this attempt"
  NoPath,       \* "no operation failed"
  MaxOps,       \* bound: operations in a batch
  MaxAttempts,  \* bound: calls of undo on one batch
  MaxEdits,     \* bound: writes by others
  Reverse       \* opts.reverse: last operation first (lastEditBatch.cts)

ASSUME ValueAssumption ==
  /\ Absent \notin Contents
  /\ TornBytes \in Contents
  /\ Unseen \notin Contents \cup {Absent}
  /\ NoPath \notin Paths

ASSUME BoundAssumption ==
  /\ MaxOps \in Nat
  /\ MaxAttempts \in Nat
  /\ MaxEdits \in Nat
  /\ Reverse \in BOOLEAN

Value == Contents \cup {Absent}

UndoOperation == [path : Paths, target : Value]

\* What an attempt saw before it changed anything, per path.
Basis == [Paths -> Value \cup {Unseen}]

NothingSeen == [p \in Paths |-> Unseen]

VARIABLES
  disk,        \* the project's files
  ops,         \* the batch: operations in the order they were applied
  phase,       \* where the running attempt is; "idle" between attempts
  pos,         \* the loop index of the phase, from 1
  snap,        \* the attempt's snapshots (attemptBasis while it is built)
  applied,     \* positions whose mutation is to be compensated on failure
  basis,       \* the stored attemptBasis of the last failed attempt
  outcome,     \* how the last attempt ended
  failedAt,    \* failedPath
  compensated, \* compensationAttempted
  dirty,       \* dirtyPaths
  attempts,    \* attempts so far
  edits,       \* writes by others so far
  touched      \* history: paths another writer wrote after their snapshot

vars == <<disk, ops, phase, pos, snap, applied, basis, outcome, failedAt,
          compensated, dirty, attempts, edits, touched>>

BatchPaths == {ops[i].path : i \in 1..Len(ops)}

\* The operation at position k of the order the attempt works in.
Ordered(k) == IF Reverse THEN ops[Len(ops) + 1 - k] ELSE ops[k]

HasDuplicate ==
  \E i, j \in 1..Len(ops) : i # j /\ ops[i].path = ops[j].path

\* A stored basis is there only after an attempt that got past its snapshots.
HasBasis == basis # NothingSeen

\* snapshotsMatch: the two lists name the batch's paths, each with one value.
SnapshotsMatch == \A p \in BatchPaths : basis[p] = snap[p]

(***************************************************************************)
(* One awaited file operation: the values a path may hold afterwards.      *)
(* A failing write may have truncated or overwritten the file already      *)
(* (writeVerified writes in place, then re-reads and may reject what it    *)
(* finds); unlink changes all or nothing.                                  *)
(***************************************************************************)
LeftByFailure(p, target) ==
  IF target = Absent THEN {disk[p]} ELSE {disk[p], TornBytes, target}

Init ==
  /\ disk \in [Paths -> Value]
  /\ ops \in UNION {[1..n -> UndoOperation] : n \in 0..MaxOps}
  /\ phase = "idle"
  /\ pos = 1
  /\ snap = NothingSeen
  /\ applied = {}
  /\ basis = NothingSeen
  /\ outcome = "none"
  /\ failedAt = NoPath
  /\ compensated = FALSE
  /\ dirty = {}
  /\ attempts = 0
  /\ edits = 0
  /\ touched = {}

-----------------------------------------------------------------------------

\* Seeded fault: a result without attemptBasis clears the stored one.
Refuse_forgetsBasis ==
  /\ phase' = "idle"
  /\ outcome' = "refused"
  /\ basis' = NothingSeen
  /\ UNCHANGED <<disk, ops, compensated, dirty, edits, touched>>

\* The attempt ends without having changed a file: no new attemptBasis.
Refuse ==
  /\ phase' = "idle"
  /\ outcome' = "refused"
  /\ UNCHANGED <<disk, ops, basis, compensated, dirty, edits, touched>>

\* A retained batch may be undone again; a successful undo drops it.
CanBegin ==
  /\ phase = "idle"
  /\ outcome # "ok"
  /\ attempts < MaxAttempts
  /\ attempts' = attempts + 1
  /\ pos' = 1
  /\ snap' = NothingSeen
  /\ applied' = {}
  /\ failedAt' = NoPath
  /\ compensated' = FALSE
  /\ dirty' = {}
  /\ touched' = {}

\* An empty batch and a batch that names a path twice never start.
RejectBatch ==
  /\ CanBegin
  /\ ops = <<>> \/ HasDuplicate
  /\ outcome' = "refused"
  /\ UNCHANGED <<disk, ops, phase, basis, edits>>

Begin ==
  /\ CanBegin
  /\ ops # <<>>
  /\ ~HasDuplicate
  /\ phase' = "validate"
  /\ outcome' = "none"
  /\ UNCHANGED <<disk, ops, basis, edits>>

\* Every path is validated before anything is read.
Validate ==
  /\ phase = "validate"
  /\ phase' = "snapshot"
  /\ UNCHANGED <<disk, ops, pos, snap, applied, basis, outcome, failedAt,
                 compensated, dirty, attempts, edits, touched>>

ValidationFails ==
  /\ phase = "validate"
  /\ \E p \in BatchPaths : failedAt' = p
  /\ Refuse
  /\ UNCHANGED <<pos, snap, applied, attempts>>

Snapshot ==
  /\ phase = "snapshot"
  /\ LET p == ops[pos].path
     IN  snap' = [snap EXCEPT ![p] = disk[p]]
  /\ IF pos < Len(ops)
     THEN pos' = pos + 1 /\ phase' = phase
     ELSE pos' = 1 /\ phase' = "compare"
  /\ UNCHANGED <<disk, ops, applied, basis, outcome, failedAt, compensated,
                 dirty, attempts, edits, touched>>

SnapshotFails ==
  /\ phase = "snapshot"
  /\ failedAt' = ops[pos].path
  /\ Refuse
  /\ UNCHANGED <<pos, snap, applied, attempts>>

\* Seeded fault: a retry trusts the disk.
Compare_skipped ==
  /\ phase = "compare"
  /\ phase' = "apply"
  /\ UNCHANGED <<disk, ops, pos, snap, applied, basis, outcome, failedAt,
                 compensated, dirty, attempts, edits, touched>>

\* A retry compares what it sees with what the failed attempt saw.
Compare ==
  /\ phase = "compare"
  /\ HasBasis => SnapshotsMatch
  /\ phase' = "apply"
  /\ UNCHANGED <<disk, ops, pos, snap, applied, basis, outcome, failedAt,
                 compensated, dirty, attempts, edits, touched>>

ProjectChanged ==
  /\ phase = "compare"
  /\ HasBasis
  /\ ~SnapshotsMatch
  /\ \E p \in BatchPaths : basis[p] # snap[p] /\ failedAt' = p
  /\ Refuse
  /\ UNCHANGED <<pos, snap, applied, attempts>>

\* A deletion of a file that was not there leaves nothing to compensate.
NeedsCompensation(op) == op.target = Absent => snap[op.path] # Absent

\* Seeded fault: the position is advanced before it is recorded.
ApplyOp_offByOne ==
  /\ phase = "apply"
  /\ LET op == Ordered(pos)
     IN  disk' = [disk EXCEPT ![op.path] = op.target]
  /\ applied' = applied \cup {pos + 1}
  /\ IF pos < Len(ops)
     THEN pos' = pos + 1 /\ UNCHANGED <<phase, outcome, basis>>
     ELSE /\ phase' = "idle"
          /\ outcome' = "ok"
          /\ basis' = NothingSeen
          /\ pos' = pos
  /\ UNCHANGED <<ops, snap, failedAt, compensated, dirty, attempts, edits,
                 touched>>

ApplyOp ==
  /\ phase = "apply"
  /\ LET op == Ordered(pos)
     IN  /\ disk' = [disk EXCEPT ![op.path] = op.target]
         /\ applied' = IF NeedsCompensation(op) THEN applied \cup {pos}
                                                ELSE applied
  /\ IF pos < Len(ops)
     THEN pos' = pos + 1 /\ UNCHANGED <<phase, outcome, basis>>
     ELSE /\ phase' = "idle"
          /\ outcome' = "ok"
          /\ basis' = NothingSeen
          /\ pos' = pos
  /\ UNCHANGED <<ops, snap, failedAt, compensated, dirty, attempts, edits,
                 touched>>

ApplyFails ==
  /\ phase = "apply"
  /\ LET op == Ordered(pos)
     IN  /\ failedAt' = op.path
         /\ \E v \in LeftByFailure(op.path, op.target) :
              disk' = [disk EXCEPT ![op.path] = v]
  /\ compensated' = (applied # {})
  /\ phase' = "compensate"
  /\ UNCHANGED <<ops, pos, snap, applied, basis, outcome, dirty, attempts,
                 edits, touched>>

\* compensateAppliedUndoMutations takes the newest mutation first.
Newest(k) == k \in applied /\ \A j \in applied : j <= k

Compensate ==
  /\ phase = "compensate"
  /\ \E k \in applied :
       /\ Newest(k)
       /\ disk' = [disk EXCEPT ![Ordered(k).path] = snap[Ordered(k).path]]
       /\ applied' = applied \ {k}
  /\ UNCHANGED <<ops, phase, pos, snap, basis, outcome, failedAt,
                 compensated, dirty, attempts, edits, touched>>

\* Seeded fault: a failed compensation is not reported.
CompensationFails_unreported ==
  /\ phase = "compensate"
  /\ \E k \in applied : Newest(k) /\ applied' = applied \ {k}
  /\ UNCHANGED <<disk, ops, phase, pos, snap, basis, outcome, failedAt,
                 compensated, dirty, attempts, edits, touched>>

\* A path that cannot be put back is reported and the loop goes on.
CompensationFails ==
  /\ phase = "compensate"
  /\ \E k \in applied :
       /\ Newest(k)
       /\ LET p == Ordered(k).path
          IN  /\ \E v \in LeftByFailure(p, snap[p]) :
                   disk' = [disk EXCEPT ![p] = v]
              /\ dirty' = dirty \cup {p}
       /\ applied' = applied \ {k}
  /\ UNCHANGED <<ops, phase, pos, snap, basis, outcome, failedAt,
                 compensated, attempts, edits, touched>>

\* Seeded fault: only a failure that had something to compensate is reported.
ReportFailure_needsCompensation ==
  /\ phase = "compensate"
  /\ applied = {}
  /\ compensated
  /\ phase' = "idle"
  /\ outcome' = "failed"
  /\ basis' = snap
  /\ UNCHANGED <<disk, ops, pos, snap, applied, failedAt, compensated, dirty,
                 attempts, edits, touched>>

\* The failed attempt returns its snapshots, and the store keeps them.
ReportFailure ==
  /\ phase = "compensate"
  /\ applied = {}
  /\ phase' = "idle"
  /\ outcome' = "failed"
  /\ basis' = snap
  /\ UNCHANGED <<disk, ops, pos, snap, applied, failedAt, compensated, dirty,
                 attempts, edits, touched>>

\* Another writer changes a file between any two steps.
ExternalWrite(p, v) ==
  /\ edits < MaxEdits
  /\ edits' = edits + 1
  /\ disk' = [disk EXCEPT ![p] = v]
  /\ touched' = IF snap[p] = Unseen THEN touched ELSE touched \cup {p}
  /\ UNCHANGED <<ops, phase, pos, snap, applied, basis, outcome, failedAt,
                 compensated, dirty, attempts>>

UndoStep ==
  \/ RejectBatch
  \/ Begin
  \/ Validate
  \/ ValidationFails
  \/ Snapshot
  \/ SnapshotFails
  \/ Compare
  \/ ProjectChanged
  \/ ApplyOp
  \/ ApplyFails
  \/ Compensate
  \/ CompensationFails
  \/ ReportFailure

Next == UndoStep \/ \E p \in Paths, v \in Value : ExternalWrite(p, v)

\* Every awaited file operation settles, so a started attempt keeps moving;
\* nobody has to call undo, and nobody else has to write.
Fairness == WF_vars(UndoStep /\ phase # "idle")

Spec == Init /\ [][Next]_vars /\ Fairness
-----------------------------------------------------------------------------
(* Properties.                                                             *)

Phases == {"idle", "validate", "snapshot", "compare", "apply", "compensate"}

TypeOK ==
  /\ disk \in [Paths -> Value]
  /\ ops \in Seq(UndoOperation)
  /\ phase \in Phases
  /\ pos \in Nat \ {0}
  /\ snap \in Basis
  /\ applied \subseteq 1..Len(ops)
  /\ basis \in Basis
  /\ outcome \in {"none", "ok", "refused", "failed"}
  /\ failedAt \in Paths \cup {NoPath}
  /\ compensated \in BOOLEAN
  /\ dirty \subseteq Paths
  /\ attempts \in Nat
  /\ edits \in Nat
  /\ touched \subseteq Paths

\* A path on which the transaction is the only writer since its snapshot.
Undisturbed(p) == p \notin touched

(* A successful undo restored the whole batch: every operation's path      *)
(* holds the value the operation promises, unless somebody else wrote it   *)
(* meanwhile (runUndoTransaction returning ok).                            *)
UndoRestoresBatch ==
  phase = "idle" /\ outcome = "ok" =>
    \A i \in 1..Len(ops) :
      Undisturbed(ops[i].path) => disk[ops[i].path] = ops[i].target

(* A failed undo leaves no unreported change: a path of the batch holds    *)
(* what it held before the attempt, or the result names it, as dirty or as *)
(* the path that failed (failAfterMutation and its compensation).          *)
FailureReportsEveryChange ==
  phase = "idle" /\ outcome = "failed" =>
    \A p \in BatchPaths :
      \/ disk[p] = snap[p]
      \/ p \in dirty
      \/ p = failedAt
      \/ ~Undisturbed(p)

(* A retry changes the project only if nothing in the batch changed since  *)
(* the failed attempt: until an operation has run on it, a path holds what *)
(* the stored attempt basis says (snapshotsMatch).                         *)
RetryStartsFromBasis ==
  phase = "apply" /\ HasBasis =>
    \A k \in pos..Len(ops) :
      Undisturbed(Ordered(k).path) =>
        disk[Ordered(k).path] = basis[Ordered(k).path]

(* What a stored attempt basis says stays recoverable: undo does not       *)
(* forget the pre-undo state of a failed attempt while the batch is still  *)
(* there, neither by a refused retry nor by a retry that fails again.      *)
BasisIsSticky ==
  [][HasBasis /\ outcome' # "ok" =>
       \A p \in BatchPaths : basis'[p] = basis[p]]_vars

(* The claim formatUndoFailureReason makes for a failure whose             *)
(* compensation succeeded: "the project was restored to its pre-undo       *)
(* state".                                                                 *)
CompensationRestoresProject ==
  phase = "idle" /\ outcome = "failed" /\ compensated /\ dirty = {} =>
    \A p \in BatchPaths : Undisturbed(p) => disk[p] = snap[p]

(* A started attempt ends: the loops over the batch and over the applied   *)
(* mutations terminate whatever fails in them.                             *)
AttemptSettles == phase # "idle" ~> phase = "idle"
(***************************************************************************)
(* Why they hold: what is true of every position of the batch while an     *)
(* attempt runs.  UndoTransaction_proofs shows that UndoInvariant is       *)
(* inductive.                                                              *)
(***************************************************************************)
Positions == 1..Len(ops)

PathAt(k) == Ordered(k).path

AsFound(p) == Undisturbed(p) => disk[p] = snap[p]

AsPromised(k) == Undisturbed(PathAt(k)) => disk[PathAt(k)] = Ordered(k).target

AsReported(p) == AsFound(p) \/ p \in dirty \/ p = failedAt

\* A running attempt has a batch to work on, and works inside it.
AttemptInBounds ==
  /\ phase # "idle" => ops # <<>> /\ ~HasDuplicate /\ outcome = "none"
  /\ phase \in {"validate", "compare"} => pos = 1
  /\ phase \in {"validate", "snapshot", "compare"} => applied = {}
  /\ phase \in {"snapshot", "apply"} => pos \in Positions
  /\ phase \in {"compare", "apply", "compensate"} \/ outcome \in {"ok", "failed"} =>
       \A p \in BatchPaths : snap[p] # Unseen

\* What was snapshotted and not yet changed is as it was found.
SnapshotsFaithful ==
  /\ phase = "snapshot" =>
       \A i \in Positions : i < pos =>
         snap[ops[i].path] # Unseen /\ AsFound(ops[i].path)
  /\ phase = "compare" => \A p \in BatchPaths : AsFound(p)

\* The loop over the batch: done before pos, untouched from pos on.
ApplyProgress ==
  phase = "apply" =>
    /\ \A k \in Positions : k < pos =>
         AsPromised(k) /\ (NeedsCompensation(Ordered(k)) => k \in applied)
    /\ \A k \in Positions : k >= pos => k \notin applied /\ AsFound(PathAt(k))

\* The compensation: what is no longer to do is put back or reported.
CompensationProgress ==
  phase = "compensate" =>
    \A k \in Positions : k \notin applied => AsReported(PathAt(k))

BasisCompared ==
  phase \in {"apply", "compensate"} /\ HasBasis => SnapshotsMatch

(* The strengthening of the invariants above that every step of the        *)
(* transaction, and every write by others, preserves.                      *)
UndoInvariant ==
  /\ TypeOK
  /\ AttemptInBounds
  /\ SnapshotsFaithful
  /\ ApplyProgress
  /\ CompensationProgress
  /\ BasisCompared
  /\ UndoRestoresBatch
  /\ FailureReportsEveryChange

(***************************************************************************)
(* Refinement.  While an attempt changes files, the contract still shows   *)
(* what the attempt found, except where another writer came in between;    *)
(* the change becomes visible when the attempt ends.                       *)
(***************************************************************************)
VisibleFiles ==
  [p \in Paths |->
     IF /\ phase \in {"apply", "compensate"}
        /\ p \in BatchPaths
        /\ Undisturbed(p)
     THEN snap[p]
     ELSE disk[p]]

ReportedPaths ==
  IF outcome = "failed" THEN dirty \cup ({failedAt} \ {NoPath}) ELSE {}

Contract == INSTANCE BatchContract WITH
  files <- VisibleFiles,
  batch <- ops,
  verdict <- outcome,
  reported <- ReportedPaths,
  raced <- touched

(* Undo is all or nothing: seen through VisibleFiles, the step-by-step     *)
(* transaction with its compensation is the one-step undo of BatchContract. *)
ImplementsContract == Contract!Spec
==============================================================================
