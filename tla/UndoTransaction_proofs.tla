------------------------ MODULE UndoTransaction_proofs ------------------------
(* Proofs about UndoTransaction, for every set of paths and contents, every *)
(* batch and any number of attempts, failures and writes by others.         *)
EXTENDS UndoTransaction, FiniteSetTheorems, TLAPS

(* The order an attempt works in is a permutation of the batch: a position  *)
(* of the one is a position of the other.                                   *)
LEMMA OrderedIsOps ==
  ASSUME ops \in Seq(UndoOperation), Reverse \in BOOLEAN
  PROVE  /\ \A k \in Positions : /\ Ordered(k) \in UndoOperation
                                 /\ PathAt(k) \in BatchPaths
         /\ \A i \in Positions : \E k \in Positions : Ordered(k) = ops[i]
         /\ \A p \in BatchPaths : \E k \in Positions : PathAt(k) = p
         /\ BatchPaths \subseteq Paths
<1>1. Len(ops) \in Nat /\ \A i \in Positions : ops[i] \in UndoOperation
  BY DEF Positions
<1>2. \A k \in Positions : \E i \in Positions : Ordered(k) = ops[i]
  BY <1>1 DEF Ordered, Positions
<1>3. \A i \in Positions : \E k \in Positions : Ordered(k) = ops[i]
  <2>1. CASE Reverse
    <3> TAKE i \in Positions
    <3>1. /\ Len(ops) + 1 - i \in Positions
          /\ Len(ops) + 1 - (Len(ops) + 1 - i) = i
      BY <1>1 DEF Positions
    <3> QED BY <3>1, <2>1 DEF Ordered
  <2>2. CASE ~Reverse
    BY <2>2 DEF Ordered
  <2> QED BY <2>1, <2>2
<1> QED BY <1>1, <1>2, <1>3 DEF PathAt, BatchPaths, Positions, UndoOperation

(* Without a duplicate, two positions name two paths.                       *)
LEMMA DistinctPaths ==
  ASSUME ops \in Seq(UndoOperation), Reverse \in BOOLEAN, ~HasDuplicate,
         NEW j \in Positions, NEW k \in Positions, j # k
  PROVE  PathAt(j) # PathAt(k)
<1>1. Len(ops) \in Nat
  OBVIOUS
<1>2. CASE Reverse
  <2>1. /\ Len(ops) + 1 - j \in 1..Len(ops)
        /\ Len(ops) + 1 - k \in 1..Len(ops)
        /\ Len(ops) + 1 - j # Len(ops) + 1 - k
    BY <1>1 DEF Positions
  <2> QED BY <1>2, <2>1 DEF HasDuplicate, PathAt, Ordered
<1>3. CASE ~Reverse
  BY <1>3 DEF HasDuplicate, PathAt, Ordered, Positions
<1> QED BY <1>2, <1>3

-----------------------------------------------------------------------------
(* The invariant holds initially.                                           *)
LEMMA InitInvariant == Init => UndoInvariant
<1> SUFFICES ASSUME Init PROVE UndoInvariant
  OBVIOUS
<1>1. ops \in Seq(UndoOperation)
  BY BoundAssumption DEF Init
<1>2. NothingSeen \in Basis
  BY DEF NothingSeen, Basis
<1>3. TypeOK
  <2>1. compensated \in BOOLEAN
    BY Zenon DEF Init
  <2>2. 1 \in Nat \ {0} /\ 0 \in Nat
    OBVIOUS
  <2> QED BY <1>1, <1>2, <2>1, <2>2, Zenon DEF Init, TypeOK, Phases
<1>4. AttemptInBounds /\ SnapshotsFaithful /\ ApplyProgress
      /\ CompensationProgress /\ BasisCompared
  BY DEF Init, AttemptInBounds, SnapshotsFaithful, ApplyProgress,
         CompensationProgress, BasisCompared
<1>5. UndoRestoresBatch /\ FailureReportsEveryChange
  BY DEF Init, UndoRestoresBatch, FailureReportsEveryChange
<1> QED BY <1>3, <1>4, <1>5 DEF UndoInvariant

(* No step changes the batch, so what is read off it stays.                 *)
LEMMA SameBatch ==
  ASSUME ops' = ops
  PROVE  /\ BatchPaths' = BatchPaths
         /\ Positions' = Positions
         /\ HasDuplicate' = HasDuplicate
         /\ \A k \in Positions : Ordered(k)' = Ordered(k) /\ PathAt(k)' = PathAt(k)
BY DEF BatchPaths, Positions, HasDuplicate, Ordered, PathAt

(* An attempt that starts, or is refused, leaves the files alone; between   *)
(* attempts nothing but a verdict has to be shown.                          *)
LEMMA StartStep ==
  ASSUME UndoInvariant, RejectBatch \/ Begin
  PROVE  UndoInvariant'
<1> USE ValueAssumption
<1>a. ops' = ops /\ disk' = disk /\ basis' = basis /\ pos' = 1
  BY DEF RejectBatch, Begin, CanBegin
<1>b. outcome' \in {"none", "refused"} /\ phase' \in {"idle", "validate"}
  BY DEF RejectBatch, Begin, CanBegin
<1>1. TypeOK'
  <2>1. compensated' \in BOOLEAN
    BY Zenon DEF RejectBatch, Begin, CanBegin
  <2>2. NothingSeen \in Basis
    BY DEF NothingSeen, Basis
  <2>3. /\ snap' \in Basis /\ applied' = {} /\ failedAt' = NoPath
        /\ dirty' = {} /\ touched' = {} /\ attempts' = attempts + 1
        /\ edits' = edits
    BY <2>2 DEF RejectBatch, Begin, CanBegin
  <2> QED BY <1>a, <1>b, <2>1, <2>3 DEF TypeOK, UndoInvariant, Phases
<1>2. AttemptInBounds'
  BY <1>a, <1>b, SameBatch DEF AttemptInBounds, RejectBatch, Begin, CanBegin
<1> QED
  BY <1>1, <1>2, <1>b
  DEF UndoInvariant, SnapshotsFaithful, ApplyProgress, CompensationProgress,
      BasisCompared, UndoRestoresBatch, FailureReportsEveryChange

LEMMA RefusalStep ==
  ASSUME UndoInvariant, ValidationFails \/ SnapshotFails \/ ProjectChanged
  PROVE  UndoInvariant'
<1> USE ValueAssumption
<1>a. /\ ops' = ops /\ disk' = disk /\ basis' = basis /\ pos' = pos
      /\ snap' = snap /\ applied' = applied /\ attempts' = attempts
      /\ dirty' = dirty /\ edits' = edits /\ touched' = touched
      /\ phase' = "idle" /\ outcome' = "refused"
  BY DEF ValidationFails, SnapshotFails, ProjectChanged, Refuse
<1>b. compensated' = compensated
  BY Zenon DEF ValidationFails, SnapshotFails, ProjectChanged, Refuse
<1>c. failedAt' \in Paths
  <2>1. \A p \in BatchPaths : p \in Paths
    BY BoundAssumption, OrderedIsOps DEF UndoInvariant, TypeOK
  <2>2. phase = "snapshot" => ops[pos].path \in BatchPaths
    BY DEF UndoInvariant, AttemptInBounds, Positions, BatchPaths
  <2> QED BY <2>1, <2>2 DEF ValidationFails, SnapshotFails, ProjectChanged
<1>1. TypeOK'
  BY <1>a, <1>b, <1>c, Zenon DEF TypeOK, UndoInvariant, Phases
<1> QED
  BY <1>1, <1>a
  DEF UndoInvariant, AttemptInBounds, SnapshotsFaithful, ApplyProgress,
      CompensationProgress, BasisCompared, UndoRestoresBatch,
      FailureReportsEveryChange

(* Validating and comparing change only the phase; a snapshot adds one     *)
(* path to what is as it was found.                                         *)
LEMMA ReadStep ==
  ASSUME UndoInvariant, Validate \/ Snapshot \/ Compare
  PROVE  UndoInvariant'
<1> USE ValueAssumption, BoundAssumption
<1>a. /\ ops' = ops /\ disk' = disk /\ basis' = basis /\ applied' = applied
      /\ outcome' = outcome /\ failedAt' = failedAt /\ dirty' = dirty
      /\ attempts' = attempts /\ edits' = edits /\ touched' = touched
  BY DEF Validate, Snapshot, Compare
<1>b. compensated' = compensated
  BY Zenon DEF Validate, Snapshot, Compare
<1>c. Len(ops) \in Nat /\ \A i \in Positions : ops[i] \in UndoOperation
  BY DEF UndoInvariant, TypeOK, Positions
<1>d. /\ BatchPaths' = BatchPaths /\ Positions' = Positions
      /\ HasDuplicate' = HasDuplicate
      /\ \A k \in Positions : Ordered(k)' = Ordered(k) /\ PathAt(k)' = PathAt(k)
  BY <1>a, SameBatch
<1>e. /\ \A k \in Positions : PathAt(k) \in BatchPaths
      /\ BatchPaths \subseteq Paths
  BY OrderedIsOps DEF UndoInvariant, TypeOK
<1>1. CASE Validate
  <2>1. snap' = snap /\ pos' = pos /\ phase = "validate" /\ phase' = "snapshot"
    BY <1>1 DEF Validate
  <2>2. TypeOK'
    BY <1>a, <1>b, <2>1, Zenon DEF TypeOK, UndoInvariant, Phases
  <2>3. pos = 1 /\ ops # <<>> /\ pos \in Positions
    BY <2>1, <1>c DEF UndoInvariant, AttemptInBounds, TypeOK, Positions
  <2>4. AttemptInBounds'
    BY <1>a, <1>d, <2>1, <2>3 DEF UndoInvariant, AttemptInBounds
  <2>5. SnapshotsFaithful'
    BY <2>1, <2>3, <1>d DEF SnapshotsFaithful, Positions
  <2> QED
    BY <2>1, <2>2, <2>4, <2>5
    DEF UndoInvariant, ApplyProgress, CompensationProgress, BasisCompared,
        UndoRestoresBatch, FailureReportsEveryChange
<1>2. CASE Compare
  <2>1. /\ snap' = snap /\ pos' = pos /\ phase = "compare"
        /\ phase' = "apply" /\ (HasBasis => SnapshotsMatch)
    BY <1>2 DEF Compare
  <2>2. TypeOK'
    BY <1>a, <1>b, <2>1, Zenon DEF TypeOK, UndoInvariant, Phases
  <2>3. pos = 1 /\ applied = {} /\ pos \in Positions
    BY <2>1, <1>c DEF UndoInvariant, AttemptInBounds, TypeOK, Positions
  <2>4. AttemptInBounds'
    BY <1>a, <1>d, <2>1, <2>3 DEF UndoInvariant, AttemptInBounds
  <2>5. \A p \in BatchPaths : AsFound(p)' = AsFound(p)
    BY <1>a, <2>1 DEF AsFound, Undisturbed
  <2>6. ApplyProgress'
    BY <1>a, <1>d, <1>e, <2>1, <2>3, <2>5, <1>c
    DEF ApplyProgress, UndoInvariant, SnapshotsFaithful, Positions
  <2>7. BasisCompared'
    BY <1>a, <1>d, <2>1 DEF BasisCompared, HasBasis, SnapshotsMatch, NothingSeen
  <2> QED
    BY <2>1, <2>2, <2>4, <2>6, <2>7
    DEF UndoInvariant, SnapshotsFaithful, CompensationProgress,
        UndoRestoresBatch, FailureReportsEveryChange
<1>3. CASE Snapshot
  <2> DEFINE p == ops[pos].path
  <2>1. /\ phase = "snapshot" /\ pos \in Positions /\ applied = {}
        /\ snap' = [snap EXCEPT ![p] = disk[p]]
        /\ \/ pos < Len(ops) /\ pos' = pos + 1 /\ phase' = "snapshot"
           \/ pos = Len(ops) /\ pos' = 1 /\ phase' = "compare"
    BY <1>3, <1>c DEF Snapshot, UndoInvariant, AttemptInBounds, Positions
  <2>2. /\ p \in Paths /\ disk[p] \in Value
        /\ snap'[p] = disk[p] /\ disk[p] # Unseen
        /\ \A q \in Paths \ {p} : snap'[q] = snap[q]
    BY <2>1, <1>c DEF UndoInvariant, TypeOK, Basis, UndoOperation, Value
  <2>3. TypeOK'
    <3>1. snap' \in Basis
      BY <2>1, <2>2 DEF UndoInvariant, TypeOK, Basis
    <3>2. pos' \in Nat \ {0} /\ phase' \in Phases
      BY <2>1, <1>c DEF Positions, Phases
    <3> QED BY <1>a, <1>b, <3>1, <3>2, Zenon DEF TypeOK, UndoInvariant
  <2>4. \A i \in Positions : i <= pos =>
          snap'[ops[i].path] # Unseen /\ AsFound(ops[i].path)'
    <3> SUFFICES ASSUME NEW i \in Positions, i <= pos
                 PROVE  snap'[ops[i].path] # Unseen /\ AsFound(ops[i].path)'
      OBVIOUS
    <3>1. CASE ops[i].path = p
      BY <3>1, <1>a, <2>2 DEF AsFound, Undisturbed
    <3>2. CASE ops[i].path # p
      <4>1. i < pos
        BY <3>2, <2>1 DEF Positions
      <4>2. /\ snap[ops[i].path] # Unseen
            /\ AsFound(ops[i].path) /\ ops[i].path \in Paths
        BY <4>1, <2>1, <1>c DEF UndoInvariant, SnapshotsFaithful, UndoOperation
      <4> QED BY <3>2, <4>2, <1>a, <2>2 DEF AsFound, Undisturbed
    <3> QED BY <3>1, <3>2
  <2>5. SnapshotsFaithful'
    <3>1. phase' = "snapshot" => \A i \in Positions : i < pos' => i <= pos
      BY <2>1, <1>c DEF Positions
    <3>2. phase' = "compare" => \A i \in Positions : i <= pos
      BY <2>1, <1>c DEF Positions
    <3> QED BY <3>1, <3>2, <2>4, <1>a, <1>d
            DEF SnapshotsFaithful, BatchPaths, Positions
  <2>6. AttemptInBounds'
    <3>1. phase' = "compare" => \A q \in BatchPaths : snap'[q] # Unseen
      BY <2>1, <2>4, <1>c DEF BatchPaths, Positions
    <3>2. outcome' = "none"
      BY <1>a, <2>1 DEF UndoInvariant, AttemptInBounds
    <3>3. pos' \in Positions /\ (phase' = "compare" => pos' = 1)
      BY <2>1, <1>c DEF Positions
    <3> QED BY <2>1, <3>1, <3>2, <3>3, <1>a, <1>d
            DEF UndoInvariant, AttemptInBounds
  <2> QED
    BY <2>1, <2>3, <2>5, <2>6
    DEF UndoInvariant, ApplyProgress, CompensationProgress, BasisCompared,
        UndoRestoresBatch, FailureReportsEveryChange
<1> QED BY <1>1, <1>2, <1>3

(* One more operation took effect: its path holds what was promised, every  *)
(* other path what it held, and the mutation is remembered if need be.      *)
LEMMA ApplyStep ==
  ASSUME UndoInvariant, ApplyOp
  PROVE  UndoInvariant'
<1> USE ValueAssumption, BoundAssumption
<1> DEFINE op == Ordered(pos)
           last == pos = Len(ops)
<1>a. /\ ops' = ops /\ snap' = snap /\ failedAt' = failedAt /\ dirty' = dirty
      /\ attempts' = attempts /\ edits' = edits /\ touched' = touched
      /\ phase = "apply" /\ disk' = [disk EXCEPT ![op.path] = op.target]
      /\ applied' = IF NeedsCompensation(op) THEN applied \cup {pos} ELSE applied
  BY DEF ApplyOp
<1>b. compensated' = compensated
  BY Zenon DEF ApplyOp
<1>c. /\ Len(ops) \in Nat /\ pos \in Positions /\ outcome = "none"
      /\ \A k \in Positions : k \in Nat /\ 1 <= k /\ k <= Len(ops)
  BY <1>a DEF UndoInvariant, TypeOK, AttemptInBounds, Positions
<1>d. /\ BatchPaths' = BatchPaths /\ Positions' = Positions
      /\ HasDuplicate' = HasDuplicate
      /\ \A k \in Positions : Ordered(k)' = Ordered(k) /\ PathAt(k)' = PathAt(k)
  BY <1>a, SameBatch
<1>e. /\ \A k \in Positions : PathAt(k) \in BatchPaths /\ Ordered(k) \in UndoOperation
      /\ \A p \in BatchPaths : \E k \in Positions : PathAt(k) = p
      /\ BatchPaths \subseteq Paths
  BY OrderedIsOps DEF UndoInvariant, TypeOK
<1>f. \A k \in Positions : k # pos => PathAt(k) # PathAt(pos)
  BY <1>a, <1>c, DistinctPaths DEF UndoInvariant, TypeOK, AttemptInBounds
<1>g. \/ /\ pos < Len(ops) /\ pos' = pos + 1 /\ phase' = "apply"
         /\ outcome' = "none" /\ basis' = basis
      \/ /\ last /\ pos' = pos /\ phase' = "idle" /\ outcome' = "ok"
         /\ basis' = NothingSeen
  BY <1>a, <1>c DEF ApplyOp
<1>h. /\ disk'[PathAt(pos)] = op.target
      /\ \A k \in Positions : k # pos => disk'[PathAt(k)] = disk[PathAt(k)]
  BY <1>a, <1>c, <1>e, <1>f DEF PathAt, UndoInvariant, TypeOK
<1>1. TypeOK'
  <2>1. disk' \in [Paths -> Value]
    BY <1>a, <1>c, <1>e DEF UndoInvariant, TypeOK, UndoOperation
  <2>2. applied' \subseteq 1..Len(ops)
    BY <1>a, <1>c DEF UndoInvariant, TypeOK, Positions
  <2>3. basis' \in Basis
    BY <1>g DEF UndoInvariant, TypeOK, NothingSeen, Basis
  <2>4. /\ pos' \in Nat \ {0} /\ phase' \in Phases
        /\ outcome' \in {"none", "ok", "refused", "failed"}
    BY <1>g, <1>c DEF Phases
  <2> QED BY <1>a, <1>b, <2>1, <2>2, <2>3, <2>4, Zenon DEF TypeOK, UndoInvariant
<1>2. AttemptInBounds'
  BY <1>a, <1>c, <1>d, <1>g DEF UndoInvariant, AttemptInBounds, Positions
<1>3. \A k \in Positions : k <= pos =>
        AsPromised(k)' /\ (NeedsCompensation(Ordered(k)) => k \in applied')
  <2> SUFFICES ASSUME NEW k \in Positions, k <= pos
               PROVE  AsPromised(k)' /\ (NeedsCompensation(Ordered(k)) => k \in applied')
    OBVIOUS
  <2>1. CASE k = pos
    BY <2>1, <1>a, <1>d, <1>h DEF AsPromised
  <2>2. CASE k # pos
    <3>1. k < pos
      BY <2>2, <1>c
    <3>2. AsPromised(k) /\ (NeedsCompensation(Ordered(k)) => k \in applied)
      BY <3>1, <1>a DEF UndoInvariant, ApplyProgress
    <3> QED BY <2>2, <3>2, <1>a, <1>d, <1>h DEF AsPromised, Undisturbed
  <2> QED BY <2>1, <2>2
<1>4. \A k \in Positions : k > pos => k \notin applied' /\ AsFound(PathAt(k))'
  <2> SUFFICES ASSUME NEW k \in Positions, k > pos
               PROVE  k \notin applied' /\ AsFound(PathAt(k))'
    OBVIOUS
  <2>1. k # pos /\ k >= pos
    BY <1>c
  <2>2. k \notin applied /\ AsFound(PathAt(k))
    BY <2>1, <1>a DEF UndoInvariant, ApplyProgress
  <2> QED BY <2>1, <2>2, <1>a, <1>d, <1>h DEF AsFound, Undisturbed
<1>5. ApplyProgress'
  <2>1. CASE phase' = "apply"
    <3>1. \A k \in Positions : (k < pos' => k <= pos) /\ (k >= pos' => k > pos)
      BY <2>1, <1>g, <1>c
    <3>2. \A k \in Positions : NeedsCompensation(Ordered(k))' = NeedsCompensation(Ordered(k))
      BY <1>a, <1>d DEF NeedsCompensation
    <3> QED BY <3>1, <3>2, <1>3, <1>4, <1>d DEF ApplyProgress
  <2>2. CASE phase' # "apply"
    BY <2>2 DEF ApplyProgress
  <2> QED BY <2>1, <2>2
<1>6. BasisCompared'
  BY <1>a, <1>d, <1>g
  DEF UndoInvariant, BasisCompared, HasBasis, SnapshotsMatch, NothingSeen
<1>7. UndoRestoresBatch'
  <2> SUFFICES ASSUME phase' = "idle", NEW i \in 1..Len(ops),
                      Undisturbed(ops[i].path)'
               PROVE  disk'[ops[i].path] = ops[i].target
    BY <1>a DEF UndoRestoresBatch
  <2>1. PICK k \in Positions : Ordered(k) = ops[i]
    BY OrderedIsOps DEF UndoInvariant, TypeOK, Positions
  <2>2. k <= pos
    BY <2>1, <1>c, <1>g
  <2> QED BY <2>1, <2>2, <1>3, <1>a, <1>d DEF AsPromised, PathAt, Undisturbed
<1> QED
  BY <1>1, <1>2, <1>5, <1>6, <1>7, <1>g
  DEF UndoInvariant, SnapshotsFaithful, CompensationProgress,
      FailureReportsEveryChange

(* A failing operation spoils at most its own path, and names it.           *)
LEMMA ApplyFailStep ==
  ASSUME UndoInvariant, ApplyFails
  PROVE  UndoInvariant'
<1> USE ValueAssumption, BoundAssumption
<1>a. /\ ops' = ops /\ pos' = pos /\ snap' = snap /\ applied' = applied
      /\ basis' = basis /\ outcome' = outcome /\ dirty' = dirty
      /\ attempts' = attempts /\ edits' = edits /\ touched' = touched
      /\ phase = "apply" /\ phase' = "compensate"
      /\ failedAt' = PathAt(pos)
  BY DEF ApplyFails, PathAt
<1>b. compensated' \in BOOLEAN
  BY Zenon DEF ApplyFails
<1>c. /\ Len(ops) \in Nat /\ pos \in Positions /\ outcome = "none"
      /\ \A k \in Positions : k \in Nat /\ 1 <= k /\ k <= Len(ops)
  BY <1>a DEF UndoInvariant, TypeOK, AttemptInBounds, Positions
<1>d. /\ BatchPaths' = BatchPaths /\ Positions' = Positions
      /\ HasDuplicate' = HasDuplicate
      /\ \A k \in Positions : Ordered(k)' = Ordered(k) /\ PathAt(k)' = PathAt(k)
  BY <1>a, SameBatch
<1>e. /\ \A k \in Positions : PathAt(k) \in BatchPaths /\ Ordered(k) \in UndoOperation
      /\ BatchPaths \subseteq Paths
  BY OrderedIsOps DEF UndoInvariant, TypeOK
<1>f. \A k \in Positions : k # pos => PathAt(k) # PathAt(pos)
  BY <1>a, <1>c, DistinctPaths DEF UndoInvariant, TypeOK, AttemptInBounds
<1>h. /\ disk' \in [Paths -> Value]
      /\ \A k \in Positions : k # pos => disk'[PathAt(k)] = disk[PathAt(k)]
  <2>1. PICK v \in LeftByFailure(PathAt(pos), Ordered(pos).target) :
          disk' = [disk EXCEPT ![PathAt(pos)] = v]
    BY DEF ApplyFails, PathAt
  <2>2. v \in Value
    BY <2>1, <1>c, <1>e
    DEF LeftByFailure, UndoInvariant, TypeOK, UndoOperation, Value
  <2> QED BY <2>1, <2>2, <1>e, <1>f, <1>c DEF UndoInvariant, TypeOK
<1>1. TypeOK'
  <2>1. failedAt' \in Paths \cup {NoPath} /\ phase' \in Phases
    BY <1>a, <1>c, <1>e DEF Phases
  <2> QED BY <1>a, <1>b, <1>h, <2>1, Zenon DEF TypeOK, UndoInvariant
<1>2. AttemptInBounds'
  BY <1>a, <1>c, <1>d DEF UndoInvariant, AttemptInBounds
<1>3. CompensationProgress'
  <2> SUFFICES ASSUME NEW k \in Positions, k \notin applied
               PROVE  AsReported(PathAt(k))'
    BY <1>a, <1>d DEF CompensationProgress
  <2>1. CASE k = pos
    BY <2>1, <1>a, <1>d DEF AsReported
  <2>2. CASE k > pos
    <3>1. AsFound(PathAt(k)) /\ k # pos
      BY <2>2, <1>a, <1>c DEF UndoInvariant, ApplyProgress
    <3> QED BY <3>1, <1>a, <1>d, <1>h DEF AsReported, AsFound, Undisturbed
  <2>3. CASE k < pos
    <3>1. AsPromised(k) /\ ~NeedsCompensation(Ordered(k)) /\ k # pos
      BY <2>3, <1>a, <1>c DEF UndoInvariant, ApplyProgress
    <3>2. Undisturbed(PathAt(k)) => disk[PathAt(k)] = snap[PathAt(k)]
      BY <3>1 DEF NeedsCompensation, AsPromised, PathAt
    <3> QED BY <3>1, <3>2, <1>a, <1>d, <1>h DEF AsReported, AsFound, Undisturbed
  <2> QED BY <2>1, <2>2, <2>3, <1>c
<1>4. BasisCompared'
  BY <1>a, <1>d DEF UndoInvariant, BasisCompared, HasBasis, SnapshotsMatch, NothingSeen
<1> QED
  BY <1>1, <1>2, <1>3, <1>4, <1>a
  DEF UndoInvariant, SnapshotsFaithful, ApplyProgress, UndoRestoresBatch,
      FailureReportsEveryChange

(* Each compensation settles its path: put back, or named as dirty.         *)
LEMMA CompensateStep ==
  ASSUME UndoInvariant, Compensate \/ CompensationFails
  PROVE  UndoInvariant'
<1> USE ValueAssumption, BoundAssumption
<1>a. /\ ops' = ops /\ pos' = pos /\ snap' = snap /\ failedAt' = failedAt
      /\ basis' = basis /\ outcome' = outcome
      /\ attempts' = attempts /\ edits' = edits /\ touched' = touched
      /\ phase = "compensate" /\ phase' = "compensate"
  BY DEF Compensate, CompensationFails
<1>b. compensated' = compensated
  BY Zenon DEF Compensate, CompensationFails
<1>d. /\ BatchPaths' = BatchPaths /\ Positions' = Positions
      /\ HasDuplicate' = HasDuplicate
      /\ \A k \in Positions : Ordered(k)' = Ordered(k) /\ PathAt(k)' = PathAt(k)
  BY <1>a, SameBatch
<1>e. /\ \A k \in Positions : PathAt(k) \in BatchPaths
      /\ BatchPaths \subseteq Paths
  BY OrderedIsOps DEF UndoInvariant, TypeOK
<1>g. \A p \in BatchPaths : snap[p] \in Value
  BY <1>a, <1>e DEF UndoInvariant, AttemptInBounds, TypeOK, Basis
<1>h. PICK k \in applied, v \in Value :
        /\ disk' = [disk EXCEPT ![PathAt(k)] = v]
        /\ applied' = applied \ {k}
        /\ \/ v = snap[PathAt(k)] /\ dirty' = dirty
           \/ dirty' = dirty \cup {PathAt(k)}
  <2>0. \A k \in applied : k \in Positions
    BY DEF UndoInvariant, TypeOK, Positions
  <2>1. CASE Compensate
    BY <2>0, <2>1, <1>e, <1>g DEF Compensate, PathAt
  <2>2. CASE CompensationFails
    <3>1. PICK k \in applied :
            /\ \E v \in LeftByFailure(PathAt(k), snap[PathAt(k)]) :
                 disk' = [disk EXCEPT ![PathAt(k)] = v]
            /\ dirty' = dirty \cup {PathAt(k)}
            /\ applied' = applied \ {k}
      BY <2>2 DEF CompensationFails, PathAt
    <3>2. LeftByFailure(PathAt(k), snap[PathAt(k)]) \subseteq Value
      BY <3>1, <2>0, <1>e, <1>g DEF LeftByFailure, UndoInvariant, TypeOK, Value
    <3> QED BY <3>1, <3>2
  <2> QED BY <2>1, <2>2
<1>i. k \in Positions /\ PathAt(k) \in Paths
  BY <1>e DEF UndoInvariant, TypeOK, Positions
<1>j. \A i \in Positions : i # k => PathAt(i) # PathAt(k)
  BY <1>a, <1>i, DistinctPaths DEF UndoInvariant, TypeOK, AttemptInBounds
<1>1. TypeOK'
  <2>1. /\ disk' \in [Paths -> Value] /\ applied' \subseteq 1..Len(ops)
        /\ dirty' \subseteq Paths
    BY <1>h, <1>i DEF UndoInvariant, TypeOK
  <2> QED BY <1>a, <1>b, <2>1, Zenon DEF TypeOK, UndoInvariant
<1>2. AttemptInBounds'
  BY <1>a, <1>d DEF UndoInvariant, AttemptInBounds
<1>3. CompensationProgress'
  <2> SUFFICES ASSUME NEW i \in Positions, i \notin applied'
               PROVE  AsReported(PathAt(i))'
    BY <1>a, <1>d DEF CompensationProgress
  <2>1. CASE i = k
    BY <2>1, <1>a, <1>d, <1>h, <1>i DEF AsReported, AsFound, UndoInvariant, TypeOK
  <2>2. CASE i # k
    <3>1. AsReported(PathAt(i)) /\ dirty \subseteq dirty'
      BY <2>2, <1>a, <1>h DEF UndoInvariant, CompensationProgress
    <3>2. disk'[PathAt(i)] = disk[PathAt(i)]
      BY <2>2, <1>e, <1>h, <1>j DEF UndoInvariant, TypeOK
    <3> QED BY <3>1, <3>2, <1>a, <1>d DEF AsReported, AsFound, Undisturbed
  <2> QED BY <2>1, <2>2
<1>4. BasisCompared'
  BY <1>a, <1>d DEF UndoInvariant, BasisCompared, HasBasis, SnapshotsMatch, NothingSeen
<1> QED
  BY <1>1, <1>2, <1>3, <1>4, <1>a
  DEF UndoInvariant, SnapshotsFaithful, ApplyProgress, UndoRestoresBatch,
      FailureReportsEveryChange

(* With nothing left to compensate, every path of the batch is accounted    *)
(* for and the snapshots become the stored basis.                           *)
LEMMA ReportStep ==
  ASSUME UndoInvariant, ReportFailure
  PROVE  UndoInvariant'
<1> USE ValueAssumption, BoundAssumption
<1>a. /\ ops' = ops /\ disk' = disk /\ pos' = pos /\ snap' = snap
      /\ applied' = applied /\ failedAt' = failedAt /\ dirty' = dirty
      /\ attempts' = attempts /\ edits' = edits /\ touched' = touched
      /\ phase = "compensate" /\ phase' = "idle" /\ outcome' = "failed"
      /\ basis' = snap /\ applied = {}
  BY DEF ReportFailure
<1>b. compensated' = compensated
  BY Zenon DEF ReportFailure
<1>d. BatchPaths' = BatchPaths
  BY <1>a, SameBatch
<1>1. TypeOK'
  BY <1>a, <1>b, Zenon DEF TypeOK, UndoInvariant, Phases
<1>2. AttemptInBounds'
  BY <1>a, <1>d DEF UndoInvariant, AttemptInBounds
<1>3. FailureReportsEveryChange'
  <2>1. \A p \in BatchPaths : AsReported(p)
    BY <1>a, OrderedIsOps
    DEF UndoInvariant, TypeOK, CompensationProgress
  <2> QED BY <2>1, <1>a, <1>d
          DEF FailureReportsEveryChange, AsReported, AsFound, Undisturbed
<1> QED
  BY <1>1, <1>2, <1>3, <1>a
  DEF UndoInvariant, SnapshotsFaithful, ApplyProgress, CompensationProgress,
      BasisCompared, UndoRestoresBatch

(* A write by somebody else can only disturb the path it writes: either the *)
(* attempt has not looked at it yet, or it is known to be touched.          *)
LEMMA ExternalStep ==
  ASSUME UndoInvariant, NEW p \in Paths, NEW v \in Value, ExternalWrite(p, v)
  PROVE  UndoInvariant'
<1> USE ValueAssumption, BoundAssumption
<1>a. /\ ops' = ops /\ pos' = pos /\ snap' = snap /\ phase' = phase
      /\ applied' = applied /\ failedAt' = failedAt /\ dirty' = dirty
      /\ attempts' = attempts /\ edits' = edits + 1 /\ basis' = basis
      /\ outcome' = outcome /\ disk' = [disk EXCEPT ![p] = v]
      /\ touched \subseteq touched' /\ touched' \subseteq touched \cup {p}
      /\ (snap[p] # Unseen => p \in touched')
  BY DEF ExternalWrite
<1>b. compensated' = compensated
  BY Zenon DEF ExternalWrite
<1>d. /\ BatchPaths' = BatchPaths /\ Positions' = Positions
      /\ HasDuplicate' = HasDuplicate
      /\ \A k \in Positions : Ordered(k)' = Ordered(k) /\ PathAt(k)' = PathAt(k)
  BY <1>a, SameBatch
<1>e. /\ \A k \in Positions : PathAt(k) \in BatchPaths
      /\ \A i \in Positions : ops[i].path \in BatchPaths
      /\ BatchPaths \subseteq Paths
  BY OrderedIsOps DEF UndoInvariant, TypeOK, BatchPaths, Positions
<1>f. \A q \in Paths : snap[q] # Unseen /\ q \notin touched' =>
        disk'[q] = disk[q] /\ q \notin touched
  BY <1>a DEF UndoInvariant, TypeOK
<1>1. TypeOK'
  BY <1>a, <1>b DEF TypeOK, UndoInvariant
<1>2. AttemptInBounds'
  BY <1>a, <1>d DEF UndoInvariant, AttemptInBounds
<1>3. SnapshotsFaithful'
  BY <1>a, <1>d, <1>e, <1>f
  DEF UndoInvariant, SnapshotsFaithful, AttemptInBounds, AsFound, Undisturbed
<1>4. ApplyProgress'
  <2> SUFFICES ASSUME phase = "apply", NEW k \in Positions
               PROVE  /\ k < pos => /\ AsPromised(k)'
                                    /\ NeedsCompensation(Ordered(k))' => k \in applied
                      /\ k >= pos => k \notin applied /\ AsFound(PathAt(k))'
    BY <1>a, <1>d DEF ApplyProgress
  <2>1. PathAt(k) \in Paths /\ snap[PathAt(k)] # Unseen
    BY <1>e DEF UndoInvariant, AttemptInBounds
  <2>2. CASE k < pos
    <3>1. AsPromised(k) /\ (NeedsCompensation(Ordered(k)) => k \in applied)
      BY <2>2 DEF UndoInvariant, ApplyProgress
    <3>2. NeedsCompensation(Ordered(k))' = NeedsCompensation(Ordered(k))
      BY <1>a, <1>d DEF NeedsCompensation
    <3>3. AsPromised(k)'
      BY <3>1, <2>1, <1>d, <1>f DEF AsPromised, Undisturbed
    <3> QED BY <3>1, <3>2, <3>3, <2>2, <1>a DEF UndoInvariant, TypeOK, Positions
  <2>3. CASE k >= pos
    <3>1. k \notin applied /\ AsFound(PathAt(k))
      BY <2>3 DEF UndoInvariant, ApplyProgress
    <3>2. AsFound(PathAt(k))'
      BY <3>1, <2>1, <1>a, <1>d, <1>f DEF AsFound, Undisturbed
    <3> QED BY <3>1, <3>2, <2>3 DEF UndoInvariant, TypeOK, Positions
  <2> QED BY <2>2, <2>3 DEF UndoInvariant, TypeOK, Positions
<1>5. CompensationProgress'
  BY <1>a, <1>d, <1>e, <1>f
  DEF UndoInvariant, CompensationProgress, AttemptInBounds, AsReported, AsFound,
      Undisturbed
<1>6. BasisCompared'
  BY <1>a, <1>d DEF UndoInvariant, BasisCompared, HasBasis, SnapshotsMatch, NothingSeen
<1>7. UndoRestoresBatch' /\ FailureReportsEveryChange'
  BY <1>a, <1>d, <1>e, <1>f
  DEF UndoInvariant, UndoRestoresBatch, FailureReportsEveryChange,
      AttemptInBounds, Undisturbed, Positions
<1> QED
  BY <1>1, <1>2, <1>3, <1>4, <1>5, <1>6, <1>7 DEF UndoInvariant

LEMMA StutterStep ==
  ASSUME UndoInvariant, UNCHANGED vars
  PROVE  UndoInvariant'
<1>a. /\ ops' = ops /\ disk' = disk /\ pos' = pos /\ snap' = snap
      /\ applied' = applied /\ failedAt' = failedAt /\ dirty' = dirty
      /\ attempts' = attempts /\ edits' = edits /\ touched' = touched
      /\ phase' = phase /\ outcome' = outcome /\ basis' = basis
  BY DEF vars
<1>b. compensated' = compensated
  BY Zenon DEF vars
<1>d. /\ BatchPaths' = BatchPaths /\ Positions' = Positions
      /\ HasDuplicate' = HasDuplicate
      /\ \A k \in Positions : Ordered(k)' = Ordered(k) /\ PathAt(k)' = PathAt(k)
  BY <1>a, SameBatch
<1>1. TypeOK' /\ AttemptInBounds' /\ SnapshotsFaithful'
  BY <1>a, <1>b, <1>d
  DEF UndoInvariant, TypeOK, AttemptInBounds, SnapshotsFaithful, AsFound,
      Undisturbed
<1>2. ApplyProgress' /\ CompensationProgress' /\ BasisCompared'
  BY <1>a, <1>d
  DEF UndoInvariant, ApplyProgress, CompensationProgress, BasisCompared,
      AsFound, AsPromised, AsReported, Undisturbed, NeedsCompensation, HasBasis,
      SnapshotsMatch, NothingSeen
<1>3. UndoRestoresBatch' /\ FailureReportsEveryChange'
  BY <1>a, <1>d
  DEF UndoInvariant, UndoRestoresBatch, FailureReportsEveryChange, Undisturbed
<1> QED BY <1>1, <1>2, <1>3 DEF UndoInvariant

LEMMA StepInvariant == UndoInvariant /\ [Next]_vars => UndoInvariant'
BY StartStep, RefusalStep, ReadStep, ApplyStep, ApplyFailStep, CompensateStep,
   ReportStep, ExternalStep, StutterStep
DEF Next, UndoStep

(* The strengthened invariant holds in every reachable state.               *)
THEOREM InvariantHolds == Spec => []UndoInvariant
<1>1. Init => UndoInvariant
  BY InitInvariant
<1>2. UndoInvariant /\ [Next]_vars => UndoInvariant'
  BY StepInvariant
<1> QED BY <1>1, <1>2, PTL DEF Spec

(* The variables stay within their types (undoTransaction.cts).             *)
THEOREM TypeCorrect == Spec => []TypeOK
<1>1. UndoInvariant => TypeOK
  BY DEF UndoInvariant
<1> QED BY <1>1, InvariantHolds, PTL

(* A successful undo has restored every file of the batch that nobody else  *)
(* wrote meanwhile (runUndoTransaction).                                    *)
THEOREM SuccessRestores == Spec => []UndoRestoresBatch
<1>1. UndoInvariant => UndoRestoresBatch
  BY DEF UndoInvariant
<1> QED BY <1>1, InvariantHolds, PTL

(* A failed undo has changed no file that its result does not name          *)
(* (failAfterMutation, compensateAppliedUndoMutations).                     *)
THEOREM FailureReports == Spec => []FailureReportsEveryChange
<1>1. UndoInvariant => FailureReportsEveryChange
  BY DEF UndoInvariant
<1> QED BY <1>1, InvariantHolds, PTL

(* A retry works only on files that are as the failed attempt found them    *)
(* (the comparison with opts.attemptBasis).                                 *)
THEOREM RetryFromBasis == Spec => []RetryStartsFromBasis
<1>1. UndoInvariant => RetryStartsFromBasis
  <2> SUFFICES ASSUME UndoInvariant, phase = "apply", HasBasis,
                      NEW k \in pos..Len(ops), Undisturbed(Ordered(k).path)
               PROVE  disk[Ordered(k).path] = basis[Ordered(k).path]
    BY DEF RetryStartsFromBasis
  <2>1. k \in Positions /\ k >= pos
    BY DEF UndoInvariant, TypeOK, Positions
  <2>2. disk[PathAt(k)] = snap[PathAt(k)]
    BY <2>1 DEF UndoInvariant, ApplyProgress, AsFound, PathAt
  <2>3. basis[PathAt(k)] = snap[PathAt(k)]
    BY <2>1, OrderedIsOps, BoundAssumption
    DEF UndoInvariant, BasisCompared, SnapshotsMatch, TypeOK
  <2> QED BY <2>2, <2>3 DEF PathAt
<1> QED BY <1>1, InvariantHolds, PTL

(* Neither a refusal nor another failure forgets the state a failed attempt *)
(* recorded (attemptBasis in runUndoTransaction's results).                 *)
THEOREM BasisKept == Spec => BasisIsSticky
<1>1. UndoInvariant /\ [Next]_vars =>
        [HasBasis /\ outcome' # "ok" =>
           \A p \in BatchPaths : basis'[p] = basis[p]]_vars
  <2> SUFFICES ASSUME UndoInvariant, Next, HasBasis, outcome' # "ok",
                      NEW p \in BatchPaths
               PROVE  basis'[p] = basis[p]
    BY DEF vars
  <2>1. CASE ReportFailure
    BY <2>1 DEF ReportFailure, UndoInvariant, BasisCompared, SnapshotsMatch
  <2>2. CASE ApplyOp
    BY <2>2 DEF ApplyOp
  <2> QED
    BY <2>1, <2>2
    DEF Next, UndoStep, RejectBatch, Begin, CanBegin, Validate, ValidationFails,
        Snapshot, SnapshotFails, Compare, ProjectChanged, Refuse, ApplyFails,
        Compensate, CompensationFails, ExternalWrite
<1> QED BY <1>1, InvariantHolds, PTL DEF Spec, BasisIsSticky

-----------------------------------------------------------------------------
(* Attempts end.  Liveness itself stays with TLC; what is shown here is     *)
(* that a running attempt has a number of steps left that each of its own   *)
(* steps lowers, and that no write by others raises.                        *)

StepsLeft ==
  CASE phase = "validate"   -> 3 * Len(ops) + 4
    [] phase = "snapshot"   -> 3 * Len(ops) + 4 - pos
    [] phase = "compare"    -> 2 * Len(ops) + 2
    [] phase = "apply"      -> 2 * Len(ops) + 2 - pos
    [] phase = "compensate" -> Cardinality(applied) + 1
    [] OTHER                -> 0

\* The loop over the applied mutations is no longer than the batch.
LEMMA AppliedInBatch ==
  ASSUME UndoInvariant
  PROVE  /\ Len(ops) \in Nat /\ IsFiniteSet(applied)
         /\ Cardinality(applied) \in 0..Len(ops)
         /\ \A k \in applied : Cardinality(applied \ {k}) = Cardinality(applied) - 1
<1>1. Len(ops) \in Nat /\ applied \subseteq 1..Len(ops)
  BY DEF UndoInvariant, TypeOK
<1>2. IsFiniteSet(1..Len(ops)) /\ Cardinality(1..Len(ops)) = Len(ops)
  BY <1>1, FS_Interval
<1>3. IsFiniteSet(applied) /\ Cardinality(applied) <= Len(ops)
  BY <1>1, <1>2, FS_Subset
<1>4. Cardinality(applied) \in Nat
  BY <1>3, FS_CardinalityType
<1> QED BY <1>1, <1>3, <1>4, FS_RemoveElement

(* An attempt takes at most 3 n + 4 steps of its own for a batch of n       *)
(* operations, whatever fails in it and whoever writes meanwhile: the loops *)
(* of runUndoTransaction and compensateAppliedUndoMutations are bounded.    *)
THEOREM AttemptIsBounded ==
  Spec => /\ [](/\ StepsLeft \in 0..(3 * Len(ops) + 4)
                /\ StepsLeft = 0 <=> phase = "idle")
          /\ [][phase # "idle" =>
                  IF UndoStep THEN StepsLeft' < StepsLeft ELSE StepsLeft' = StepsLeft]_vars
<1>1. UndoInvariant => /\ StepsLeft \in 0..(3 * Len(ops) + 4)
                       /\ StepsLeft = 0 <=> phase = "idle"
  <2> SUFFICES ASSUME UndoInvariant
               PROVE  /\ StepsLeft \in 0..(3 * Len(ops) + 4)
                      /\ StepsLeft = 0 <=> phase = "idle"
    OBVIOUS
  <2>1. /\ Len(ops) \in Nat /\ Cardinality(applied) \in 0..Len(ops)
        /\ phase \in Phases
        /\ phase \in {"snapshot", "apply"} => pos \in 1..Len(ops)
    BY AppliedInBatch DEF UndoInvariant, TypeOK, AttemptInBounds, Positions
  <2> QED BY <2>1 DEF StepsLeft, Phases
<1>2. UndoInvariant /\ [Next]_vars =>
        [phase # "idle" =>
           IF UndoStep THEN StepsLeft' < StepsLeft ELSE StepsLeft' = StepsLeft]_vars
  <2> SUFFICES ASSUME UndoInvariant, Next, phase # "idle"
               PROVE  IF UndoStep THEN StepsLeft' < StepsLeft ELSE StepsLeft' = StepsLeft
    BY DEF vars
  <2>1. /\ Len(ops) \in Nat /\ Len(ops) > 0 /\ Cardinality(applied) \in 0..Len(ops)
        /\ \A k \in applied : Cardinality(applied \ {k}) = Cardinality(applied) - 1
        /\ phase \in {"snapshot", "apply"} => pos \in 1..Len(ops)
        /\ phase \in {"validate", "compare"} => pos = 1
    BY AppliedInBatch DEF UndoInvariant, TypeOK, AttemptInBounds, Positions
  <2>2. ASSUME UndoStep
        PROVE  StepsLeft' < StepsLeft
    <3>1. CASE Validate \/ Compare \/ Snapshot
      BY <2>1, <3>1 DEF Validate, Compare, Snapshot, StepsLeft
    <3>2. CASE ValidationFails \/ SnapshotFails \/ ProjectChanged
      BY <2>1, <3>2 DEF ValidationFails, SnapshotFails, ProjectChanged, Refuse, StepsLeft
    <3>3. CASE ApplyOp \/ ApplyFails
      BY <2>1, <3>3 DEF ApplyOp, ApplyFails, StepsLeft
    <3>4. CASE Compensate \/ CompensationFails
      <4> PICK k \in applied : applied' = applied \ {k}
        BY <3>4 DEF Compensate, CompensationFails
      <4>1. phase = "compensate" /\ phase' = "compensate"
        BY <3>4 DEF Compensate, CompensationFails
      <4> QED BY <2>1, <4>1 DEF StepsLeft
    <3>5. CASE ReportFailure
      BY <2>1, <3>5 DEF ReportFailure, StepsLeft
    <3>6. CASE RejectBatch \/ Begin
      BY <3>6 DEF RejectBatch, Begin, CanBegin
    <3> QED BY <2>2, <3>1, <3>2, <3>3, <3>4, <3>5, <3>6 DEF UndoStep
  <2>3. ASSUME NEW p \in Paths, NEW v \in Value, ExternalWrite(p, v)
        PROVE  ~UndoStep /\ StepsLeft' = StepsLeft
    <3>1. UNCHANGED <<phase, pos, applied, ops>>
      BY <2>3 DEF ExternalWrite
    <3>2. ~UndoStep
      <4>1. edits' # edits /\ edits \in Nat
        BY <2>3 DEF ExternalWrite, UndoInvariant, TypeOK
      <4> QED BY <4>1 DEF UndoStep, RejectBatch, Begin, Validate, ValidationFails, Snapshot,
            SnapshotFails, Compare, ProjectChanged, Refuse, ApplyOp, ApplyFails, Compensate,
            CompensationFails, ReportFailure
    <3> QED BY <3>1, <3>2 DEF StepsLeft
  <2> QED BY <2>2, <2>3 DEF Next
<1> QED BY <1>1, <1>2, InvariantHolds, PTL DEF Spec

-----------------------------------------------------------------------------
(* The refinement: every step of the transaction is a step of the one-step  *)
(* contract, or is not seen by it.                                          *)

LEMMA VisibleOutside ==
  ASSUME phase \notin {"apply", "compensate"}, disk \in [Paths -> Value]
  PROVE  VisibleFiles = disk
BY DEF VisibleFiles

LEMMA ContractInit == Init => Contract!Init
<1> SUFFICES ASSUME Init PROVE Contract!Init
  OBVIOUS
<1>1. ops \in Seq(UndoOperation)
  BY BoundAssumption DEF Init
<1>2. VisibleFiles = disk
  BY VisibleOutside DEF Init
<1>3. ReportedPaths = {}
  BY DEF Init, ReportedPaths
<1> QED BY <1>1, <1>2, <1>3 DEF Init, Contract!Init, UndoOperation

LEMMA ContractOutside ==
  ASSUME UndoInvariant,
         RejectBatch \/ Begin \/ Validate \/ ValidationFails \/ Snapshot
           \/ SnapshotFails \/ Compare \/ ProjectChanged
  PROVE  [Contract!Next]_Contract!vars
<1>0. UndoInvariant'
  BY StartStep, RefusalStep, ReadStep
<1>1. disk' = disk /\ ops' = ops /\ VisibleFiles = disk
  BY VisibleOutside
  DEF RejectBatch, Begin, CanBegin, Validate, ValidationFails, Snapshot,
      SnapshotFails, Compare, ProjectChanged, Refuse, UndoInvariant, TypeOK
<1>2. CASE RejectBatch \/ Begin
  <2>1. /\ outcome # "ok" /\ outcome' \in {"none", "refused"} /\ touched' = {}
        /\ phase' \in {"idle", "validate"}
    BY <1>2 DEF RejectBatch, Begin, CanBegin
  <2>2. VisibleFiles' = disk' /\ ReportedPaths' = {}
    BY <1>0, <2>1 DEF VisibleFiles, ReportedPaths, UndoInvariant, TypeOK
  <2> QED BY <1>1, <2>1, <2>2
          DEF Contract!Next, Contract!Start, Contract!Refuse
<1>3. CASE ValidationFails \/ SnapshotFails \/ ProjectChanged
  <2>1. /\ outcome = "none" /\ outcome' = "refused" /\ touched' = touched
        /\ phase' = "idle"
    BY <1>3 DEF ValidationFails, SnapshotFails, ProjectChanged, Refuse,
                UndoInvariant, AttemptInBounds
  <2>2. VisibleFiles' = disk' /\ ReportedPaths' = {}
    BY <1>0, <2>1 DEF VisibleFiles, ReportedPaths, UndoInvariant, TypeOK
  <2> QED BY <1>1, <2>1, <2>2 DEF Contract!Next, Contract!Refuse
<1>4. CASE Validate \/ Snapshot
  <2>1. /\ outcome = "none" /\ outcome' = "none" /\ touched' = touched
        /\ phase' \in {"snapshot", "compare"}
    BY <1>4 DEF Validate, Snapshot, UndoInvariant, AttemptInBounds
  <2>2. VisibleFiles' = disk' /\ ReportedPaths' = {} /\ ReportedPaths = {}
    BY <1>0, <2>1 DEF VisibleFiles, ReportedPaths, UndoInvariant, TypeOK
  <2> QED BY <1>1, <2>1, <2>2 DEF Contract!vars
<1>5. CASE Compare
  <2>1. /\ outcome = "none" /\ outcome' = "none" /\ touched' = touched
        /\ phase = "compare" /\ phase' = "apply" /\ snap' = snap
    BY <1>5 DEF Compare, UndoInvariant, AttemptInBounds
  <2>2. ReportedPaths' = {} /\ ReportedPaths = {}
    BY <2>1 DEF ReportedPaths
  <2>3. \A p \in BatchPaths : Undisturbed(p) => disk[p] = snap[p]
    BY <2>1 DEF UndoInvariant, SnapshotsFaithful, AsFound
  <2>4. BatchPaths' = BatchPaths
    BY <1>1, SameBatch
  <2>5. VisibleFiles' = disk
    BY <1>1, <2>1, <2>3, <2>4 DEF VisibleFiles, Undisturbed, UndoInvariant, TypeOK
  <2> QED BY <1>1, <2>1, <2>2, <2>5 DEF Contract!vars
<1> QED BY <1>2, <1>3, <1>4, <1>5

(* While files are being changed the contract sees a change only on a raced *)
(* path.                                                                    *)
LEMMA ContractHidden ==
  ASSUME UndoInvariant, UndoInvariant',
         phase \in {"apply", "compensate"}, phase' \in {"apply", "compensate"},
         ops' = ops, snap' = snap, touched' = touched,
         NEW p \in BatchPaths, NEW v \in Value, disk' = [disk EXCEPT ![p] = v]
  PROVE  [Contract!Next]_Contract!vars
<1>1. BatchPaths' = BatchPaths /\ p \in Paths /\ outcome = "none" /\ outcome' = "none"
  BY SameBatch, OrderedIsOps, BoundAssumption
  DEF UndoInvariant, TypeOK, AttemptInBounds
<1>2. ReportedPaths = {} /\ ReportedPaths' = {}
  BY <1>1 DEF ReportedPaths
<1>3. CASE p \in touched
  <2>1. VisibleFiles' = [VisibleFiles EXCEPT ![p] = v]
    BY <1>1, <1>3 DEF VisibleFiles, Undisturbed, UndoInvariant, TypeOK
  <2> QED BY <1>1, <1>2, <1>3, <2>1 DEF Contract!Next, Contract!Race
<1>4. CASE p \notin touched
  <2>1. VisibleFiles' = VisibleFiles
    BY <1>1, <1>4 DEF VisibleFiles, Undisturbed, UndoInvariant, TypeOK
  <2> QED BY <1>1, <1>2, <2>1 DEF Contract!vars
<1> QED BY <1>3, <1>4

(* The end of an attempt shows what it did: everything, or nothing beyond   *)
(* what is reported or was raced.                                           *)
LEMMA ContractApply ==
  ASSUME UndoInvariant, ApplyOp
  PROVE  [Contract!Next]_Contract!vars
<1>0. UndoInvariant'
  BY ApplyStep
<1>1. /\ ops' = ops /\ snap' = snap /\ touched' = touched /\ phase = "apply"
      /\ disk' = [disk EXCEPT ![PathAt(pos)] = Ordered(pos).target]
      /\ pos \in Positions /\ outcome = "none"
  BY DEF ApplyOp, PathAt, UndoInvariant, AttemptInBounds
<1>2. /\ PathAt(pos) \in BatchPaths /\ Ordered(pos).target \in Value
      /\ BatchPaths \subseteq Paths /\ BatchPaths' = BatchPaths
  BY <1>1, SameBatch, OrderedIsOps, BoundAssumption
  DEF UndoInvariant, TypeOK, UndoOperation
<1>3. CASE pos < Len(ops)
  <2>1. phase' = "apply"
    BY <1>1, <1>3 DEF ApplyOp
  <2> QED BY <1>0, <1>1, <1>2, <2>1, ContractHidden
<1>4. CASE ~(pos < Len(ops))
  <2>1. phase' = "idle" /\ outcome' = "ok"
    BY <1>1, <1>4 DEF ApplyOp
  <2>2. VisibleFiles' = disk' /\ ReportedPaths' = {} /\ ReportedPaths = {}
    BY <1>0, <1>1, <2>1 DEF VisibleFiles, ReportedPaths, UndoInvariant, TypeOK
  <2>3. \A p \in Paths : p \notin BatchPaths => disk'[p] = VisibleFiles[p]
    BY <1>1, <1>2 DEF VisibleFiles, UndoInvariant, TypeOK
  <2>4. \A i \in 1..Len(ops) :
          ops[i].path \notin touched => disk'[ops[i].path] = ops[i].target
    BY <1>0, <1>1, <2>1 DEF UndoInvariant, UndoRestoresBatch, Undisturbed
  <2>5. disk' \in [Paths -> Value]
    BY <1>0 DEF UndoInvariant, TypeOK
  <2>6. Contract!Named = BatchPaths
    BY DEF Contract!Named, BatchPaths
  <2> QED BY <1>1, <2>1, <2>2, <2>3, <2>4, <2>5, <2>6
          DEF Contract!Next, Contract!Succeed
<1> QED BY <1>3, <1>4

LEMMA ContractCompensate ==
  ASSUME UndoInvariant, ApplyFails \/ Compensate \/ CompensationFails
  PROVE  [Contract!Next]_Contract!vars
<1>0. UndoInvariant'
  BY ApplyFailStep, CompensateStep
<1>1. /\ ops' = ops /\ snap' = snap /\ touched' = touched
      /\ phase \in {"apply", "compensate"} /\ phase' = "compensate"
  BY DEF ApplyFails, Compensate, CompensationFails
<1>2. /\ \A k \in Positions : /\ PathAt(k) \in BatchPaths
                               /\ PathAt(k) \in Paths
                               /\ Ordered(k).target \in Value
                               /\ disk[PathAt(k)] \in Value
      /\ TornBytes \in Value
  BY OrderedIsOps, BoundAssumption, ValueAssumption
  DEF UndoInvariant, TypeOK, UndoOperation, Value
<1>3. phase \in {"apply", "compensate"} =>
        \A k \in Positions : snap[PathAt(k)] \in Value
  BY <1>2 DEF UndoInvariant, AttemptInBounds, TypeOK, Basis
<1>4. \E p \in BatchPaths, v \in Value : disk' = [disk EXCEPT ![p] = v]
  <2>1. CASE ApplyFails
    <3>1. pos \in Positions
      BY <2>1 DEF ApplyFails, UndoInvariant, AttemptInBounds
    <3>2. PICK v \in LeftByFailure(PathAt(pos), Ordered(pos).target) :
             disk' = [disk EXCEPT ![PathAt(pos)] = v]
      BY <2>1 DEF ApplyFails, PathAt
    <3>3. v \in Value
      BY <1>2, <3>1, <3>2 DEF LeftByFailure
    <3> QED BY <1>2, <3>1, <3>2, <3>3
  <2>2. CASE Compensate
    <3>1. PICK k \in applied :
             disk' = [disk EXCEPT ![PathAt(k)] = snap[PathAt(k)]]
      BY <2>2 DEF Compensate, PathAt
    <3>2. k \in Positions
      BY <3>1 DEF UndoInvariant, TypeOK, Positions
    <3> QED BY <1>1, <1>2, <1>3, <3>1, <3>2
  <2>3. CASE CompensationFails
    <3>1. PICK k \in applied : \E v \in LeftByFailure(PathAt(k), snap[PathAt(k)]) :
             disk' = [disk EXCEPT ![PathAt(k)] = v]
      BY <2>3 DEF CompensationFails, PathAt
    <3>2. k \in Positions
      BY <3>1 DEF UndoInvariant, TypeOK, Positions
    <3>3. PICK v \in LeftByFailure(PathAt(k), snap[PathAt(k)]) :
             disk' = [disk EXCEPT ![PathAt(k)] = v]
      BY <3>1
    <3>4. v \in Value
      BY <1>1, <1>2, <1>3, <3>2, <3>3 DEF LeftByFailure
    <3> QED BY <1>2, <3>2, <3>3, <3>4
  <2> QED BY <2>1, <2>2, <2>3
<1> QED BY <1>0, <1>1, <1>4, ContractHidden

LEMMA ContractReport ==
  ASSUME UndoInvariant, ReportFailure
  PROVE  [Contract!Next]_Contract!vars
<1>0. UndoInvariant'
  BY ReportStep
<1>1. /\ ops' = ops /\ snap' = snap /\ touched' = touched /\ disk' = disk
      /\ phase = "compensate" /\ phase' = "idle"
      /\ outcome = "none" /\ outcome' = "failed"
      /\ BatchPaths' = BatchPaths
  BY SameBatch DEF ReportFailure, UndoInvariant, AttemptInBounds
<1>2. /\ VisibleFiles' = disk' /\ disk' \in [Paths -> Value]
      /\ ReportedPaths' \subseteq Paths
  BY <1>0, <1>1 DEF VisibleFiles, ReportedPaths, UndoInvariant, TypeOK
<1>3. \A p \in Paths :
        p \notin (ReportedPaths' \cap BatchPaths) \cup touched => disk'[p] = VisibleFiles[p]
  <2> SUFFICES ASSUME NEW p \in Paths, p \notin ReportedPaths' \cap BatchPaths, p \notin touched
               PROVE  disk'[p] = VisibleFiles[p]
    OBVIOUS
  <2>1. CASE p \in BatchPaths
    <3>1. p \notin dirty' /\ p # failedAt'
      BY <1>1, <2>1, ValueAssumption DEF ReportedPaths
    <3>2. disk'[p] = snap'[p]
      BY <1>0, <1>1, <2>1, <3>1
      DEF UndoInvariant, FailureReportsEveryChange, Undisturbed
    <3> QED BY <1>1, <2>1, <3>2 DEF VisibleFiles, Undisturbed
  <2>2. CASE p \notin BatchPaths
    BY <1>1, <2>2 DEF VisibleFiles
  <2> QED BY <2>1, <2>2
<1>4. Contract!Named = BatchPaths
  BY DEF Contract!Named, BatchPaths
<1> QED BY <1>1, <1>2, <1>3, <1>4 DEF Contract!Next, Contract!Fail

LEMMA ContractWrite ==
  ASSUME UndoInvariant, NEW p \in Paths, NEW v \in Value, ExternalWrite(p, v)
  PROVE  [Contract!Next]_Contract!vars
<1>1. /\ ops' = ops /\ snap' = snap /\ phase' = phase /\ outcome' = outcome
      /\ failedAt' = failedAt /\ dirty' = dirty
      /\ disk' = [disk EXCEPT ![p] = v]
      /\ touched' = IF snap[p] = Unseen THEN touched ELSE touched \cup {p}
      /\ BatchPaths' = BatchPaths
  BY SameBatch DEF ExternalWrite
<1>2. ReportedPaths' = ReportedPaths
  BY <1>1 DEF ReportedPaths
<1>3. phase \in {"apply", "compensate"} /\ p \in BatchPaths => p \in touched'
  BY <1>1 DEF UndoInvariant, AttemptInBounds
<1>4. VisibleFiles' = [VisibleFiles EXCEPT ![p] = v]
  <2> DEFINE f == [VisibleFiles EXCEPT ![p] = v]
  <2>1. DOMAIN VisibleFiles' = Paths /\ DOMAIN f = Paths
    BY DEF VisibleFiles
  <2>2. VisibleFiles'[p] = v
    BY <1>1, <1>3 DEF VisibleFiles, Undisturbed, UndoInvariant, TypeOK
  <2>3. \A q \in Paths \ {p} : VisibleFiles'[q] = VisibleFiles[q]
    BY <1>1 DEF VisibleFiles, Undisturbed, UndoInvariant, TypeOK
  <2>4. VisibleFiles' \in [Paths -> {VisibleFiles'[q] : q \in Paths}]
    BY DEF VisibleFiles
  <2>5. \A q \in Paths : f[q] = VisibleFiles'[q]
    BY <2>2, <2>3 DEF VisibleFiles
  <2> QED BY <2>1, <2>5 DEF VisibleFiles
<1>5. touched' \in {touched, touched \cup {p}}
  BY <1>1
<1> QED BY <1>1, <1>2, <1>4, <1>5 DEF Contract!Next, Contract!Write

LEMMA ContractStep ==
  UndoInvariant /\ [Next]_vars => [Contract!Next]_Contract!vars
<1>1. ASSUME vars' = vars PROVE [Contract!Next]_Contract!vars
  <2>1. /\ ops' = ops /\ snap' = snap /\ phase' = phase /\ outcome' = outcome
        /\ failedAt' = failedAt /\ dirty' = dirty /\ disk' = disk
        /\ touched' = touched
    BY <1>1 DEF vars
  <2>2. BatchPaths' = BatchPaths
    BY <2>1, SameBatch
  <2> QED BY <2>1, <2>2
          DEF Contract!vars, VisibleFiles, ReportedPaths, Undisturbed
<1> QED
  BY <1>1, ContractOutside, ContractApply, ContractCompensate, ContractReport,
     ContractWrite
  DEF Next, UndoStep

(* The step-by-step transaction, with its failures, its compensation and    *)
(* the writes of others, implements the all-or-nothing undo of              *)
(* BatchContract (runUndoTransaction as its callers see it).                 *)
THEOREM Implements == Spec => ImplementsContract
<1>1. Init => Contract!Init
  BY ContractInit
<1>2. UndoInvariant /\ [Next]_vars => [Contract!Next]_Contract!vars
  BY ContractStep
<1> QED BY <1>1, <1>2, InvariantHolds, PTL
        DEF Spec, ImplementsContract, Contract!Spec
==============================================================================
