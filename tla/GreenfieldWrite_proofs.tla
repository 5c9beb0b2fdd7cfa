------------------------ MODULE GreenfieldWrite_proofs ------------------------
(***************************************************************************)
(* What is proved of the transactional write, for every tree of files and  *)
(* any number of failing writes, failing restores and writes by others:    *)
(* what it leaves, and how many steps it takes.                            *)
(***************************************************************************)
EXTENDS GreenfieldWrite, TLAPS

Loop == {"examine", "capture", "write", "written"}

(* Where the call is, and what its variables hold there.                   *)
Bounds ==
  /\ phase # "done" => outcome = "none"
  /\ phase = "called" => committed = <<>> /\ pos = 1
  /\ phase \in Loop => pos \in 1..Len(files)
  /\ phase = "write" => snapshot \in RollbackEntry /\ snapshot.path = Here.path

Placed == TypeOK /\ Bounds

(* The entries account for the folder: a path without one is as it was,    *)
(* and a path with one has an entry that holds the original text.          *)
Ledger ==
  \A p \in Paths :
    Undisturbed(p) =>
      IF p \in Changed
      THEN \E k \in 1..Len(committed) :
             committed[k].path = p /\ committed[k].previous = Text(original[p])
      ELSE AsBefore(p)

SnapshotFaithful ==
  phase = "write" /\ Undisturbed(Here.path) =>
    snapshot.previous = Text(disk[Here.path])

(* While the loop runs, every changed path is in the written list.         *)
Listed == phase \in Loop => Changed \subseteq written

(* What has been inspected is as its entry says, or is found different.    *)
Inspected ==
  phase = "inspect" =>
    \A k \in 1..Len(committed) :
      k < pos /\ Undisturbed(committed[k].path) =>
        ~StillAffected(committed[k]) \/ committed[k].path \in remaining

Accounted ==
  /\ Ledger
  /\ SnapshotFaithful
  /\ Listed
  /\ Inspected
  /\ FailureAccountsForFiles

(* As long as nothing failed, the files dealt with hold what they should,  *)
(* a later file of the same path before an earlier one.                    *)
Dealt == IF phase = "written" THEN pos ELSE pos - 1

WrittenSoFar ==
  phase \in Loop /\ ~failed =>
    \A i \in 1..Dealt :
      (\A j \in i + 1..Dealt : files[j].path # files[i].path) =>
        (Undisturbed(files[i].path) => disk[files[i].path] = files[i].content)
-----------------------------------------------------------------------------
(* Types and places.                                                       *)

\* What reading returns can be written back.
LEMMA TextType ==
  ASSUME NEW v \in Value, v # Unreadable
  PROVE  Text(v) \in (Contents \ Undecodable) \cup {Absent}
BY ValueAssumption DEF Value, Text

LEMMA AppendType ==
  ASSUME committed \in Seq(RollbackEntry), NEW e \in RollbackEntry
  PROVE  /\ Append(committed, e) \in Seq(RollbackEntry)
         /\ Append(committed, e) # <<>>
         /\ Len(Append(committed, e)) = Len(committed) + 1
         /\ Append(committed, e)[Len(committed) + 1] = e
         /\ \A k \in 1..Len(committed) : Append(committed, e)[k] = committed[k]
OBVIOUS

LEMMA PlacedInit == Init => Placed
<1> SUFFICES ASSUME Init PROVE Placed
  OBVIOUS
<1>1. files \in Seq(GeneratedFile)
  BY BoundAssumption DEF Init
<1>2. committed = <<>> /\ committed \in Seq(RollbackEntry) /\ undone \in 0..Len(committed)
  BY DEF Init
<1>3. snapshot \in RollbackEntry \cup {NoSnapshot} /\ edits \in Nat /\ pos \in Nat \ {0}
  BY DEF Init
<1>4. TypeOK
  <2>1. /\ disk \in [Paths -> Value] /\ original \in [Paths -> Value]
        /\ mode \in {"safe", "workspace"} /\ written \subseteq Paths
        /\ remaining \subseteq Paths /\ touched \subseteq Paths
    BY DEF Init
  <2>2. phase \in Phases /\ failed \in BOOLEAN /\ failures \in BOOLEAN
        /\ cancelled \in BOOLEAN /\ outcome \in {"none", "ok", "refused", "failed", "threw"}
    BY DEF Init, Phases
  <2> QED
    BY <1>1, <1>2, <1>3, <2>1, <2>2 DEF TypeOK
<1>5. Bounds
  BY DEF Init, Bounds, Loop
<1> QED
  BY <1>4, <1>5 DEF Placed

LEMMA PlacedNext == Placed /\ [Next]_vars => Placed'
<1> SUFFICES ASSUME Placed, [Next]_vars
             PROVE  Placed'
  OBVIOUS
<1> USE DEF Placed, TypeOK, Bounds, Phases, Loop, Quiet, End
<1>a. files \in Seq(GeneratedFile) /\ Len(files) \in Nat /\ Len(committed) \in Nat
  OBVIOUS
<1>b. ASSUME phase \in {"examine", "written"}, NextFile, failed' \in BOOLEAN,
             UNCHANGED <<disk, snapshot, committed, written>>, Quiet
      PROVE  Placed'
  BY <1>a, <1>b DEF NextFile, Conclude
<1>c. ASSUME phase \in Loop, Abort, UNCHANGED pos, snapshot' = snapshot, Quiet,
             disk' \in [Paths -> Value], committed' \in Seq(RollbackEntry),
             Len(committed') >= Len(committed)
      PROVE  Placed'
  BY <1>a, <1>c DEF Abort
<1>1. CASE Refuse
  BY <1>1 DEF Refuse
<1>2. CASE Start
  <2>1. files # <<>>
    BY <1>2, ValueAssumption DEF Start, FilesComplete
  <2>3. phase = "called" /\ pos' = pos
    BY <1>2 DEF Start
  <2>4. Len(files) > 0
    BY <2>1, <1>a
  <2>2. pos \in 1..Len(files)
    BY <2>3, <2>4, <1>a
  <2> QED
    BY <1>2, <2>2 DEF Start
<1>3. CASE SeeStop
  BY <1>3, <1>c DEF SeeStop
<1>4. CASE SkipDisallowed
  BY <1>4, <1>b DEF SkipDisallowed
<1>5. CASE RejectTarget
  BY <1>5, <1>c DEF RejectTarget
<1>6. CASE Examine
  BY <1>6 DEF Examine
<1>7. CASE Capture
  <2>4. Here \in GeneratedFile
    BY <1>7, <1>a DEF Capture, Here
  <2>1. Here.path \in Paths /\ disk[Here.path] \in Value /\ disk[Here.path] # Unreadable
    BY <1>7, <2>4 DEF Capture, GeneratedFile
  <2>2. snapshot' \in RollbackEntry /\ snapshot'.path = Here.path
    BY <1>7, <2>1, TextType DEF Capture, RollbackEntry, GeneratedFile
  <2>3. Here' = Here
    BY <1>7 DEF Capture, Here
  <2> QED
    BY <1>7, <2>2, <2>3 DEF Capture
<1>8. CASE CaptureThrows
  BY <1>8 DEF CaptureThrows
<1>9. CASE Write
  <2>1. Here \in GeneratedFile /\ snapshot \in RollbackEntry
    BY <1>9, <1>a DEF Write, Here
  <2>2. Here.path \in Paths /\ Here.content \in Value
    BY <2>1 DEF GeneratedFile, Value
  <2>3. disk' \in [Paths -> Value] /\ written' \subseteq Paths
    BY <1>9, <2>2 DEF Write
  <2>4. committed' \in Seq(RollbackEntry) /\ Len(committed') = Len(committed) + 1
    BY <1>9, <2>1, AppendType DEF Write
  <2> QED
    BY <1>9, <2>3, <2>4, <1>a DEF Write
<1>10. CASE WriteFails
  <2>1. Here \in GeneratedFile /\ snapshot \in RollbackEntry
    BY <1>10, <1>a DEF WriteFails, Here
  <2>2. disk[Here.path] \in Value /\ LeftByFailure(Here.path, Here.content) \subseteq Value
    BY <2>1, ValueAssumption DEF GeneratedFile, Value, LeftByFailure
  <2>3. disk' \in [Paths -> Value]
    BY <1>10, <2>2 DEF WriteFails
  <2>4. committed' = Append(committed, snapshot) \/ committed' = committed
    BY <1>10 DEF WriteFails
  <2>5. committed' \in Seq(RollbackEntry) /\ Len(committed') >= Len(committed)
    <3>1. committed \in Seq(RollbackEntry) /\ Len(committed) \in Nat
      BY <1>a
    <3>2. CASE committed' = Append(committed, snapshot)
      BY <2>1, <3>1, <3>2, AppendType
    <3>3. CASE committed' = committed
      BY <3>1, <3>3
    <3> QED BY <2>4, <3>2, <3>3
  <2> QED
    BY <1>10, <1>c, <2>3, <2>5 DEF WriteFails
<1>11. CASE AfterWrite
  BY <1>11, <1>b, <1>c DEF AfterWrite
<1>12. CASE Restore
  <2>1. committed[NextUndone] \in RollbackEntry /\ undone + 1 \in 0..Len(committed)
    BY <1>12, <1>a DEF Restore, NextUndone
  <2>2. committed[NextUndone].previous \in Value
    BY <2>1 DEF RollbackEntry, Value
  <2>3. disk' \in [Paths -> Value]
    BY <1>12, <2>2 DEF Restore
  <2> QED
    BY <1>12, <2>1, <2>3 DEF Restore
<1>13. CASE RestoreFails
  <2>1. committed[NextUndone] \in RollbackEntry /\ undone + 1 \in 0..Len(committed)
    BY <1>13, <1>a DEF RestoreFails, NextUndone
  <2>2. LET e == committed[NextUndone]
        IN  disk[e.path] \in Value /\ LeftByFailure(e.path, e.previous) \subseteq Value
    BY <2>1, ValueAssumption DEF RollbackEntry, Value, LeftByFailure
  <2>3. disk' \in [Paths -> Value]
    BY <1>13, <2>2 DEF RestoreFails
  <2> QED
    BY <1>13, <2>1, <2>3 DEF RestoreFails
<1>14. CASE BeginInspect
  BY <1>14 DEF BeginInspect
<1>15. CASE Inspect
  <2>1. committed[pos] \in RollbackEntry /\ pos + 1 \in Nat \ {0}
    BY <1>15, <1>a DEF Inspect
  <2>2. remaining' \subseteq Paths
    BY <1>15, <2>1 DEF Inspect, RollbackEntry
  <2> QED
    BY <1>15, <2>1, <2>2 DEF Inspect
<1>16. CASE Report
  BY <1>16 DEF Report
<1>17. CASE Stop
  BY <1>17 DEF Stop, Here
<1>18. ASSUME NEW p \in Paths, NEW v \in Foreign, ExternalWrite(p, v)
       PROVE  Placed'
  BY <1>18, BoundAssumption DEF ExternalWrite, Here
<1>19. CASE UNCHANGED vars
  BY <1>19 DEF vars, Here
<1> QED
  BY <1>1, <1>2, <1>3, <1>4, <1>5, <1>6, <1>7, <1>8, <1>9, <1>10, <1>11,
     <1>12, <1>13, <1>14, <1>15, <1>16, <1>17, <1>18, <1>19 DEF Next, WriteStep

LEMMA PlacedAlways == Spec => []Placed
<1> QED
  BY PlacedInit, PlacedNext, PTL DEF Spec

(* The variables of a write have their types, for any tree of files.       *)
THEOREM TypeCorrect == Spec => []TypeOK
<1>1. Placed => TypeOK
  BY DEF Placed
<1> QED
  BY <1>1, PlacedAlways, PTL
-----------------------------------------------------------------------------
(* The ledger of rollback entries.                                         *)

LEMMA LedgerNext ==
  ASSUME Placed, Placed', Ledger, SnapshotFaithful, [Next]_vars
  PROVE  Ledger'
<1>a. ASSUME UNCHANGED <<disk, committed, original, touched>>
      PROVE  Ledger'
  BY <1>a DEF Ledger, Changed, AsBefore, Undisturbed
<1>b. ASSUME NEW q \in Paths, NEW v, disk' = [disk EXCEPT ![q] = v],
             UNCHANGED <<committed, original, touched>>, q \in Changed
      PROVE  Ledger'
  <2>1. disk \in [Paths -> Value] /\ Changed' = Changed
    BY <1>b DEF Placed, TypeOK, Changed
  <2>2. ASSUME NEW p \in Paths, p \notin Changed, AsBefore(p)
        PROVE  AsBefore(p)'
    BY <1>b, <2>1, <2>2 DEF AsBefore
  <2>3. ASSUME NEW p \in Paths, Undisturbed(p)'
        PROVE  IF p \in Changed'
               THEN \E k \in 1..Len(committed') :
                      committed'[k].path = p /\ committed'[k].previous = Text(original'[p])
               ELSE AsBefore(p)'
    BY <1>b, <2>1, <2>2, <2>3 DEF Ledger, Undisturbed
  <2> QED BY <2>3 DEF Ledger
<1>c. ASSUME phase = "write", committed' = Append(committed, snapshot),
             NEW v, disk' = [disk EXCEPT ![Here.path] = v],
             UNCHANGED <<original, touched>>
      PROVE  Ledger'
  <2>1. /\ committed \in Seq(RollbackEntry) /\ snapshot \in RollbackEntry
        /\ snapshot.path = Here.path
        /\ disk \in [Paths -> Value]
    BY <1>c DEF Placed, TypeOK, Bounds
  <2>2. Len(committed) \in Nat
    BY <2>1
  <2>3. /\ Len(committed') = Len(committed) + 1
        /\ committed'[Len(committed) + 1] = snapshot
        /\ \A k \in 1..Len(committed) : committed'[k] = committed[k]
    BY <2>1, <1>c, AppendType
  <2>4. Changed' = Changed \cup {Here.path}
    <3>1. Changed' = {committed'[k].path : k \in 1..Len(committed')}
      BY DEF Changed
    <3>2. 1..Len(committed') = (1..Len(committed)) \cup {Len(committed) + 1}
      BY <2>2, <2>3
    <3> QED
      BY <3>1, <3>2, <2>1, <2>3 DEF Changed
  <2> SUFFICES ASSUME NEW p \in Paths, Undisturbed(p)'
               PROVE  IF p \in Changed'
                      THEN \E k \in 1..Len(committed') :
                             /\ committed'[k].path = p
                             /\ committed'[k].previous = Text(original[p])
                      ELSE Text(disk'[p]) = Text(original[p])
    BY <1>c DEF Ledger, AsBefore
  <2>5. Undisturbed(p)
    BY <1>c DEF Undisturbed
  <2>6. CASE p \in Changed
    <3>1. PICK k \in 1..Len(committed) :
            committed[k].path = p /\ committed[k].previous = Text(original[p])
      BY <2>5, <2>6 DEF Ledger
    <3>2. k \in 1..Len(committed') /\ committed'[k] = committed[k]
      BY <2>2, <2>3
    <3> QED
      BY <3>1, <3>2, <2>4, <2>6
  <2>7. CASE p \notin Changed /\ p = Here.path
    <3>1. snapshot.previous = Text(original[p])
      BY <1>c, <2>5, <2>7 DEF Ledger, SnapshotFaithful, AsBefore
    <3>2. Len(committed) + 1 \in 1..Len(committed')
      BY <2>2, <2>3
    <3> QED
      BY <3>1, <3>2, <2>1, <2>3, <2>4, <2>7
  <2>8. CASE p \notin Changed /\ p # Here.path
    BY <1>c, <2>1, <2>4, <2>5, <2>8 DEF Ledger, AsBefore
  <2> QED
    BY <2>6, <2>7, <2>8
<1>1. CASE Refuse \/ Start \/ SeeStop \/ SkipDisallowed \/ RejectTarget \/ Examine
  BY <1>1, <1>a DEF Refuse, Start, SeeStop, SkipDisallowed, RejectTarget, Examine, Quiet
<1>2. CASE Capture \/ CaptureThrows \/ AfterWrite \/ BeginInspect \/ Report
  BY <1>2, <1>a DEF Capture, CaptureThrows, AfterWrite, BeginInspect, Report, Quiet
<1>3. CASE Inspect \/ Stop \/ UNCHANGED vars
  BY <1>3, <1>a DEF Inspect, Stop, vars
<1>4. CASE Write
  BY <1>4, <1>c DEF Write, Quiet
<1>5. CASE WriteFails
  <2>1. PICK left \in LeftByFailure(Here.path, Here.content) :
          /\ disk' = [disk EXCEPT ![Here.path] = left]
          /\ committed' = IF Mutated(left) THEN Append(committed, snapshot) ELSE committed
    BY <1>5 DEF WriteFails
  <2>2. phase = "write" /\ UNCHANGED <<original, touched>>
    BY <1>5 DEF WriteFails, Quiet
  <2>3. CASE Mutated(left)
    BY <1>c, <2>1, <2>2, <2>3
  <2>4. CASE ~Mutated(left)
    <3>1. snapshot.previous = Absent /\ left = Absent /\ committed' = committed
      BY <2>1, <2>4 DEF Mutated
    <3>2. Text(Absent) = Absent
      BY ValueAssumption DEF Text
    <3>3. disk \in [Paths -> Value]
      BY DEF Placed, TypeOK
    <3>4. Changed' = Changed
      BY <3>1 DEF Changed
    <3> SUFFICES ASSUME NEW p \in Paths, Undisturbed(p), p \notin Changed
                 PROVE  Text(disk'[p]) = Text(original[p])
      BY <2>2, <3>1, <3>4 DEF Ledger, AsBefore, Undisturbed
    <3>5. Text(disk[p]) = Text(original[p])
      BY DEF Ledger, AsBefore
    <3>6. CASE p = Here.path
      BY <2>1, <2>2, <3>1, <3>2, <3>3, <3>5, <3>6 DEF SnapshotFaithful
    <3>7. CASE p # Here.path
      BY <2>1, <3>3, <3>5, <3>7
    <3> QED
      BY <3>6, <3>7
  <2> QED
    BY <2>3, <2>4
<1>6. CASE Restore \/ RestoreFails
  <2>1. phase = "rollback" /\ NextUndone \in 1..Len(committed)
    BY <1>6 DEF Restore, RestoreFails, NextUndone, Placed, TypeOK
  <2>2. committed[NextUndone] \in RollbackEntry
    BY <2>1 DEF Placed, TypeOK
  <2>3. committed[NextUndone].path \in Paths /\ committed[NextUndone].path \in Changed
    BY <2>1, <2>2 DEF RollbackEntry, Changed
  <2>4. /\ \E v : disk' = [disk EXCEPT ![committed[NextUndone].path] = v]
        /\ UNCHANGED <<committed, original, touched>>
    BY <1>6 DEF Restore, RestoreFails
  <2> QED
    BY <1>b, <2>3, <2>4
<1>7. ASSUME NEW q \in Paths, NEW v \in Foreign, ExternalWrite(q, v)
      PROVE  Ledger'
  BY <1>7 DEF ExternalWrite, Ledger, Changed, AsBefore, Undisturbed, Placed, TypeOK
<1> QED
  BY <1>1, <1>2, <1>3, <1>4, <1>5, <1>6, <1>7 DEF Next, WriteStep

LEMMA SnapshotNext ==
  ASSUME Placed, SnapshotFaithful, [Next]_vars
  PROVE  SnapshotFaithful'
<1> USE DEF SnapshotFaithful, Undisturbed, Here
<1>1. CASE Capture
  <2>1. /\ UNCHANGED <<disk, files, pos, touched>>
        /\ snapshot' = [path |-> Here.path, previous |-> Text(disk[Here.path])]
    BY <1>1 DEF Capture, Quiet
  <2> QED
    BY <2>1
<1>2. CASE Stop \/ UNCHANGED vars
  BY <1>2 DEF Stop, vars
<1>3. ASSUME NEW q \in Paths, NEW v \in Foreign, ExternalWrite(q, v)
      PROVE  SnapshotFaithful'
  BY <1>3 DEF ExternalWrite, Placed, TypeOK
<1>4. CASE WriteStep /\ ~Capture
  <2>1. phase' # "write"
    BY <1>4 DEF WriteStep, Refuse, Start, SeeStop, SkipDisallowed, RejectTarget, Examine,
       CaptureThrows, Write, WriteFails, AfterWrite, Restore, RestoreFails, BeginInspect,
       Inspect, Report, Abort, NextFile, Conclude, End
  <2> QED
    BY <2>1
<1> QED
  BY <1>1, <1>2, <1>3, <1>4 DEF Next

LEMMA ListedNext ==
  ASSUME Placed, Placed', Listed, [Next]_vars
  PROVE  Listed'
<1>a. ASSUME phase \in Loop, UNCHANGED <<committed, written>>
      PROVE  Listed'
  BY <1>a DEF Listed, Changed
<1>b. ASSUME phase' \notin Loop
      PROVE  Listed'
  BY <1>b DEF Listed
<1>1. CASE Start
  BY <1>1 DEF Start, Listed, Changed, Placed, Bounds
<1>2. CASE SkipDisallowed \/ Examine \/ Capture
  BY <1>2, <1>a DEF SkipDisallowed, Examine, Capture, Loop
<1>3. CASE AfterWrite
  BY <1>3, <1>a, <1>b DEF AfterWrite, Abort, End, Loop
<1>4. CASE Write
  <2>1. /\ committed \in Seq(RollbackEntry) /\ snapshot \in RollbackEntry
        /\ snapshot.path = Here.path
    BY <1>4 DEF Write, Placed, TypeOK, Bounds
  <2>2. /\ committed' = Append(committed, snapshot)
        /\ written' = written \cup {Here.path}
        /\ Changed \subseteq written
    BY <1>4 DEF Write, Listed, Loop
  <2>3. /\ Len(committed) \in Nat
        /\ Len(committed') = Len(committed) + 1
        /\ committed'[Len(committed) + 1] = snapshot
        /\ \A k \in 1..Len(committed) : committed'[k] = committed[k]
    BY <2>1, <2>2, AppendType
  <2>4. ASSUME NEW k \in 1..Len(committed')
        PROVE  committed'[k].path \in written'
    BY <2>1, <2>2, <2>3, <2>4 DEF Changed
  <2> QED
    BY <2>4 DEF Listed, Changed
<1>5. CASE \/ Refuse \/ SeeStop \/ RejectTarget \/ CaptureThrows \/ WriteFails \/ Restore
           \/ RestoreFails \/ BeginInspect \/ Inspect \/ Report
  BY <1>5, <1>b DEF Refuse, SeeStop, RejectTarget, CaptureThrows, WriteFails, Restore,
     RestoreFails, BeginInspect, Inspect, Report, Abort, End, Loop
<1>6. CASE Stop \/ UNCHANGED vars
  BY <1>6 DEF Stop, vars, Listed, Changed
<1>7. ASSUME NEW q \in Paths, NEW v \in Foreign, ExternalWrite(q, v)
      PROVE  Listed'
  BY <1>7 DEF ExternalWrite, Listed, Changed
<1> QED
  BY <1>1, <1>2, <1>3, <1>4, <1>5, <1>6, <1>7 DEF Next, WriteStep

LEMMA InspectedNext ==
  ASSUME Placed, Inspected, [Next]_vars
  PROVE  Inspected'
<1>1. CASE Inspect
  <2> SUFFICES ASSUME NEW k \in 1..Len(committed), k < pos + 1, Undisturbed(committed[k].path)
               PROVE  ~StillAffected(committed[k]) \/ committed[k].path \in remaining'
    BY <1>1 DEF Inspect, Inspected, Undisturbed, StillAffected
  <2>1. k = pos \/ k < pos
    BY DEF Placed, TypeOK
  <2> QED
    BY <1>1, <2>1 DEF Inspect, Inspected
<1>2. CASE BeginInspect
  BY <1>2 DEF BeginInspect, Inspected
<1>3. CASE Stop \/ UNCHANGED vars
  BY <1>3 DEF Stop, vars, Inspected, StillAffected, Undisturbed
<1>4. ASSUME NEW q \in Paths, NEW v \in Foreign, ExternalWrite(q, v)
      PROVE  Inspected'
  BY <1>4 DEF ExternalWrite, Inspected, StillAffected, Undisturbed, Placed, TypeOK
<1>5. CASE WriteStep /\ ~Inspect /\ ~BeginInspect
  <2>1. phase' # "inspect"
    BY <1>5 DEF WriteStep, Refuse, Start, SeeStop, SkipDisallowed, RejectTarget, Examine,
       Capture, CaptureThrows, Write, WriteFails, AfterWrite, Restore, RestoreFails,
       Report, Abort, NextFile, Conclude, End
  <2> QED
    BY <2>1 DEF Inspected
<1> QED
  BY <1>1, <1>2, <1>3, <1>4, <1>5 DEF Next
-----------------------------------------------------------------------------
(* How a call may end.                                                     *)

LEMMA AccountsNext ==
  ASSUME Placed, Placed', Accounted, Ledger', [Next]_vars
  PROVE  FailureAccountsForFiles'
<1> USE DEF Accounted
<1>a. ASSUME Changed' \subseteq written'
      PROVE  FailureAccountsForFiles'
  BY <1>a DEF Ledger, FailureAccountsForFiles
<1>b. ASSUME outcome' \notin {"failed", "refused"}
      PROVE  FailureAccountsForFiles'
  BY <1>b DEF FailureAccountsForFiles
<1>c. ASSUME outcome = "none", Abort
      PROVE  FailureAccountsForFiles'
  <2>1. CASE committed' = <<>>
    <3>1. Changed' = {}
      BY <2>1 DEF Changed
    <3> QED
      BY <3>1, <1>a
  <2>2. CASE committed' # <<>>
    BY <1>c, <2>2, <1>b DEF Abort
  <2> QED
    BY <2>1, <2>2
<1>1. CASE Refuse
  <2>1. Changed' = {}
    BY <1>1 DEF Refuse, Placed, Bounds, Changed
  <2> QED
    BY <2>1, <1>a
<1>2. CASE SeeStop \/ RejectTarget \/ WriteFails
  BY <1>2, <1>c DEF SeeStop, RejectTarget, WriteFails, Placed, Bounds
<1>3. CASE SkipDisallowed
  BY <1>3, <1>a DEF SkipDisallowed, Listed, Loop, Changed
<1>4. CASE AfterWrite
  <2>1. CASE cancelled
    BY <1>4, <2>1, <1>c DEF AfterWrite, Placed, Bounds
  <2>2. CASE ~cancelled
    BY <1>4, <2>2, <1>a DEF AfterWrite, Listed, Loop, Changed
  <2> QED
    BY <2>1, <2>2
<1>5. CASE Report
  <2>1. /\ phase = "inspect" /\ pos > Len(committed) /\ written' = remaining
        /\ UNCHANGED <<disk, committed, original, touched>>
    BY <1>5 DEF Report, Quiet
  <2>2. pos \in Nat /\ Len(committed) \in Nat
    BY DEF Placed, TypeOK
  <2> SUFFICES ASSUME NEW p \in Paths, Undisturbed(p), ~AsBefore(p)
               PROVE  p \in remaining
    BY <2>1 DEF FailureAccountsForFiles, Undisturbed, AsBefore
  <2>3. PICK k \in 1..Len(committed) :
          committed[k].path = p /\ committed[k].previous = Text(original[p])
    BY DEF Ledger
  <2>4. ~StillAffected(committed[k]) \/ p \in remaining
    BY <2>1, <2>2, <2>3 DEF Inspected
  <2> QED
    BY <2>3, <2>4 DEF StillAffected, AsBefore
<1>6. CASE \/ Start \/ Examine \/ Capture \/ CaptureThrows \/ Write \/ Restore
           \/ RestoreFails \/ BeginInspect \/ Inspect
  BY <1>6, <1>b DEF Start, Examine, Capture, CaptureThrows, Write, Restore, RestoreFails,
     BeginInspect, Inspect, End, Quiet, Placed, Bounds
<1>7. CASE Stop \/ UNCHANGED vars
  BY <1>7 DEF Stop, vars, FailureAccountsForFiles, Undisturbed, AsBefore
<1>8. ASSUME NEW q \in Paths, NEW v \in Foreign, ExternalWrite(q, v)
      PROVE  FailureAccountsForFiles'
  BY <1>8 DEF ExternalWrite, FailureAccountsForFiles, Undisturbed, AsBefore, Placed, TypeOK
<1> QED
  BY <1>1, <1>2, <1>3, <1>4, <1>5, <1>6, <1>7, <1>8 DEF Next, WriteStep

LEMMA AccountedAlways == Spec => []Accounted
<1>1. Init => Accounted
  <2> SUFFICES ASSUME Init PROVE Accounted
    OBVIOUS
  <2>1. Changed = {} /\ original = disk /\ phase = "called" /\ outcome = "none"
    BY DEF Init, Changed
  <2> QED
    BY <2>1 DEF Accounted, Ledger, SnapshotFaithful, Listed, Inspected, Loop, AsBefore,
       FailureAccountsForFiles
<1>2. Placed /\ Placed' /\ Accounted /\ [Next]_vars => Accounted'
  <2> SUFFICES ASSUME Placed, Placed', Accounted, [Next]_vars
               PROVE  Accounted'
    OBVIOUS
  <2>1. Ledger'
    BY LedgerNext DEF Accounted
  <2>2. SnapshotFaithful' /\ Listed' /\ Inspected'
    BY SnapshotNext, ListedNext, InspectedNext DEF Accounted
  <2>3. FailureAccountsForFiles'
    BY <2>1, AccountsNext
  <2> QED
    BY <2>1, <2>2, <2>3 DEF Accounted
<1> QED
  BY <1>1, <1>2, PlacedAlways, PTL DEF Spec

(* However a call fails, what it leaves changed is in its written list,    *)
(* for any tree, and any failures of its writes, restores and deletions.   *)
THEOREM FailureAccounts == Spec => []FailureAccountsForFiles
<1>1. Accounted => FailureAccountsForFiles
  BY DEF Accounted
<1> QED
  BY <1>1, AccountedAlways, PTL

(* A generation stopped before the call returned never reports success.    *)
THEOREM StoppedFails == Spec => StoppedNeverSucceeds
<1>1. Placed /\ [Next]_vars => (outcome' = "ok" /\ outcome # "ok" => ~cancelled)
  <2> SUFFICES ASSUME Placed, [Next]_vars, outcome' = "ok", outcome # "ok", cancelled
               PROVE  FALSE
    OBVIOUS
  <2>1. CASE WriteStep
    BY <2>1 DEF WriteStep, Refuse, Start, SeeStop, SkipDisallowed, RejectTarget, Examine,
       Capture, CaptureThrows, Write, WriteFails, AfterWrite, Restore, RestoreFails,
       BeginInspect, Inspect, Report, Abort, End
  <2>2. CASE Stop \/ UNCHANGED vars
    BY <2>2 DEF Stop, vars
  <2>3. ASSUME NEW q \in Paths, NEW v \in Foreign, ExternalWrite(q, v)
        PROVE  FALSE
    BY <2>3 DEF ExternalWrite
  <2> QED
    BY <2>1, <2>2, <2>3 DEF Next
<1> QED
  BY <1>1, PlacedAlways, PTL DEF Spec, StoppedNeverSucceeds

-----------------------------------------------------------------------------
(* Success.                                                                *)

LEMMA FileType ==
  ASSUME TypeOK, NEW i \in 1..Len(files)
  PROVE  files[i] \in GeneratedFile /\ files[i].path \in Paths
<1>1. files \in Seq(GeneratedFile)
  BY DEF TypeOK
<1>2. files[i] \in GeneratedFile
  BY <1>1
<1> QED
  BY <1>2 DEF GeneratedFile

LEMMA WrittenNext ==
  ASSUME Placed, Placed', WrittenSoFar, [Next]_vars
  PROVE  WrittenSoFar'
<1> USE DEF Placed, TypeOK
<1>a. pos \in Nat /\ Len(files) \in Nat
  OBVIOUS
<1>b. ASSUME phase' \notin Loop \/ failed'
      PROVE  WrittenSoFar'
  BY <1>b DEF WrittenSoFar
<1>c. ASSUME phase \in Loop, ~failed, Dealt' = Dealt, UNCHANGED <<disk, files, touched>>
      PROVE  WrittenSoFar'
  BY <1>c DEF WrittenSoFar, Undisturbed
<1>1. CASE Start
  BY <1>1 DEF Start, WrittenSoFar, Dealt, Bounds
<1>2. CASE Examine \/ Capture
  BY <1>2, <1>b, <1>c DEF Examine, Capture, Dealt, Loop, Quiet
<1>3. CASE AfterWrite
  <2>1. CASE cancelled \/ failed \/ pos >= Len(files)
    BY <1>3, <2>1, <1>a, <1>b DEF AfterWrite, Abort, NextFile, Conclude, End, Loop
  <2>2. CASE ~cancelled /\ ~failed /\ pos < Len(files)
    <3>1. Dealt' = Dealt
      BY <1>3, <2>2, <1>a DEF AfterWrite, NextFile, Dealt
    <3> QED
      BY <1>3, <2>2, <3>1, <1>c DEF AfterWrite, Loop, Quiet
  <2> QED
    BY <2>1, <2>2, <1>a
<1>4. CASE Write
  <2>1. /\ phase = "write" /\ phase' = "written"
        /\ disk' = [disk EXCEPT ![Here.path] = Here.content]
        /\ UNCHANGED <<files, pos, failed, touched>>
    BY <1>4 DEF Write, Quiet
  <2>2. Dealt = pos - 1 /\ Dealt' = pos /\ pos \in 1..Len(files)
    BY <2>1 DEF Dealt, Bounds, Loop
  <2> SUFFICES ASSUME ~failed, NEW i \in 1..pos, Undisturbed(files[i].path),
                      \A j \in i + 1..pos : files[j].path # files[i].path
               PROVE  disk'[files[i].path] = files[i].content
    BY <2>1, <2>2 DEF WrittenSoFar, Undisturbed
  <2>6. i \in 1..Len(files)
    BY <2>2, <1>a
  <2>3. files[i] \in GeneratedFile /\ files[i].path \in Paths
    BY <2>6, FileType
  <2>4. CASE i = pos
    BY <2>1, <2>3, <2>4 DEF Here
  <2>5. CASE i # pos
    <3>1. i \in 1..Dealt /\ (\A j \in i + 1..Dealt : files[j].path # files[i].path)
      BY <2>2, <2>5, <1>a
    <3>2. disk[files[i].path] = files[i].content
      BY <2>1, <3>1 DEF WrittenSoFar, Loop
    <3>3. files[i].path # Here.path
      BY <2>2, <2>5, <1>a DEF Here
    <3> QED
      BY <2>1, <3>2, <3>3, <2>3
  <2> QED
    BY <2>4, <2>5
<1>5. CASE \/ Refuse \/ SeeStop \/ SkipDisallowed \/ RejectTarget \/ CaptureThrows
           \/ WriteFails \/ Restore \/ RestoreFails \/ BeginInspect \/ Inspect \/ Report
  BY <1>5, <1>b DEF Refuse, SeeStop, SkipDisallowed, RejectTarget, CaptureThrows, WriteFails,
     Restore, RestoreFails, BeginInspect, Inspect, Report, Abort, End, Loop
<1>6. CASE Stop \/ UNCHANGED vars
  BY <1>6 DEF Stop, vars, WrittenSoFar, Dealt, Undisturbed
<1>7. ASSUME NEW q \in Paths, NEW v \in Foreign, ExternalWrite(q, v)
      PROVE  WrittenSoFar'
  BY <1>7 DEF ExternalWrite, WrittenSoFar, Dealt, Undisturbed
<1> QED
  BY <1>1, <1>2, <1>3, <1>4, <1>5, <1>6, <1>7 DEF Next, WriteStep

LEMMA SuccessNext ==
  ASSUME Placed, Placed', WrittenSoFar, SuccessIsComplete, [Next]_vars
  PROVE  SuccessIsComplete'
<1>a. ASSUME outcome' # "ok"
      PROVE  SuccessIsComplete'
  BY <1>a DEF SuccessIsComplete
<1>1. CASE AfterWrite
  <2>1. CASE outcome' = "ok"
    <3>1. /\ phase = "written" /\ outcome = "none"
          /\ UNCHANGED <<disk, files, touched, failed, written>>
      BY <1>1, <2>1 DEF AfterWrite, Abort, End, Quiet, Placed, Bounds
    <3>2. NextFile /\ pos \in 1..Len(files)
      BY <1>1, <2>1, <3>1 DEF AfterWrite, Abort, End, Placed, Bounds, Loop
    <3>3. pos = Len(files) /\ ~failed /\ Required \subseteq written
      BY <2>1, <3>1, <3>2 DEF NextFile, Conclude, End
    <3>4. Dealt = Len(files)
      BY <3>1, <3>3 DEF Dealt
    <3> QED
      BY <3>1, <3>3, <3>4 DEF WrittenSoFar, SuccessIsComplete, Undisturbed, Loop
  <2> QED
    BY <2>1, <1>a
<1>2. CASE SkipDisallowed
  <2>1. outcome' # "ok"
    BY <1>2 DEF SkipDisallowed, NextFile, Conclude, End, Placed, Bounds
  <2> QED
    BY <2>1, <1>a
<1>3. CASE WriteStep /\ ~AfterWrite /\ ~SkipDisallowed
  <2>1. outcome' # "ok"
    BY <1>3 DEF WriteStep, Refuse, Start, SeeStop, RejectTarget, Examine, Capture,
       CaptureThrows, Write, WriteFails, Restore, RestoreFails, BeginInspect, Inspect,
       Report, Abort, End, Placed, Bounds
  <2> QED
    BY <2>1, <1>a
<1>4. CASE Stop \/ UNCHANGED vars
  BY <1>4 DEF Stop, vars, SuccessIsComplete, Undisturbed
<1>5. ASSUME NEW q \in Paths, NEW v \in Foreign, ExternalWrite(q, v)
      PROVE  SuccessIsComplete'
  <2>1. /\ disk' = [disk EXCEPT ![q] = v]
        /\ touched' = touched \cup {q}
        /\ UNCHANGED <<outcome, files, written>>
    BY <1>5 DEF ExternalWrite
  <2>2. disk \in [Paths -> Value] /\ files \in Seq(GeneratedFile)
    BY DEF Placed, TypeOK
  <2>3. ASSUME NEW i \in 1..Len(files)
        PROVE  files[i].path \in Paths
    BY <2>3, FileType DEF Placed
  <2>4. ASSUME NEW i \in 1..Len(files), disk[files[i].path] = files[i].content,
               Undisturbed(files[i].path)'
        PROVE  disk'[files[i].path] = files[i].content
    BY <2>1, <2>2, <2>3, <2>4 DEF Undisturbed
  <2>5. ASSUME NEW p, Undisturbed(p)'
        PROVE  Undisturbed(p)
    BY <2>1, <2>5 DEF Undisturbed
  <2> QED
    BY <2>1, <2>4, <2>5 DEF SuccessIsComplete
<1> QED
  BY <1>1, <1>2, <1>3, <1>4, <1>5 DEF Next

LEMMA CompleteAlways == Spec => [](WrittenSoFar /\ SuccessIsComplete)
<1>1. Init => WrittenSoFar /\ SuccessIsComplete
  BY DEF Init, WrittenSoFar, SuccessIsComplete, Loop
<1>2. Placed /\ Placed' /\ WrittenSoFar /\ SuccessIsComplete /\ [Next]_vars
        => WrittenSoFar' /\ SuccessIsComplete'
  BY WrittenNext, SuccessNext
<1> QED
  BY <1>1, <1>2, PlacedAlways, PTL DEF Spec

(* A call that succeeds has written every file of the generation, the last *)
(* text of each path, whatever the order and the number of the files.      *)
THEOREM SuccessComplete == Spec => []SuccessIsComplete
BY CompleteAlways, PTL
-----------------------------------------------------------------------------
(* Calls return.  Liveness itself stays with TLC; what is shown here is    *)
(* that a call has a number of steps left that each of its own steps       *)
(* lowers, and that neither a Stop nor a write by others raises.           *)

\* One entry for a file at most, and the inspection stays among them.
OneEntryEach ==
  /\ phase \in {"examine", "capture", "write"} => Len(committed) < pos
  /\ phase = "written" => Len(committed) <= pos
  /\ phase \in {"rollback", "inspect"} => Len(committed) <= Len(files)
  /\ phase = "inspect" => pos <= Len(committed) + 1

StepsLeft ==
  CASE phase = "called"   -> 6 * Len(files) + 5
    [] phase = "examine"  -> 4 * (Len(files) - pos) + 2 * Len(files) + 7
    [] phase = "capture"  -> 4 * (Len(files) - pos) + 2 * Len(files) + 6
    [] phase = "write"    -> 4 * (Len(files) - pos) + 2 * Len(files) + 5
    [] phase = "written"  -> 4 * (Len(files) - pos) + 2 * Len(files) + 4
    [] phase = "rollback" -> 2 * Len(committed) - undone + 3
    [] phase = "inspect"  -> Len(committed) + 2 - pos
    [] OTHER              -> 0

LEMMA EntriesNext == Placed /\ OneEntryEach /\ [Next]_vars => OneEntryEach'
<1> SUFFICES ASSUME Placed, OneEntryEach, [Next]_vars
             PROVE  OneEntryEach'
  OBVIOUS
<1>1. /\ files \in Seq(GeneratedFile) /\ committed \in Seq(RollbackEntry)
      /\ Len(files) \in Nat /\ Len(committed) \in Nat /\ pos \in Nat \ {0}
      /\ phase \in Loop => pos \in 1..Len(files)
      /\ phase = "called" => committed = <<>> /\ pos = 1
      /\ phase = "write" => snapshot \in RollbackEntry
  BY DEF Placed, TypeOK, Bounds
<1>2. \A e \in RollbackEntry : Len(Append(committed, e)) = Len(committed) + 1
  BY <1>1, AppendType
<1>3. CASE UNCHANGED <<phase, pos, committed, files>>
  BY <1>3 DEF OneEntryEach
<1>4. CASE Refuse \/ Start \/ Examine \/ Capture \/ CaptureThrows \/ BeginInspect \/ Inspect \/ Report
  BY <1>1, <1>4 DEF Refuse, Start, Examine, Capture, CaptureThrows, BeginInspect, Inspect,
    Report, End, Quiet, OneEntryEach
<1>5. CASE SeeStop \/ RejectTarget
  BY <1>1, <1>5 DEF SeeStop, RejectTarget, Abort, End, Quiet, OneEntryEach, Loop
<1>6. CASE SkipDisallowed \/ AfterWrite
  BY <1>1, <1>6 DEF SkipDisallowed, AfterWrite, NextFile, Conclude, Abort, End, Quiet,
    OneEntryEach, Loop
<1>7. CASE Write
  BY <1>1, <1>2, <1>7 DEF Write, Quiet, OneEntryEach
<1>8. CASE WriteFails
  BY <1>1, <1>2, <1>8 DEF WriteFails, Abort, End, Quiet, OneEntryEach, Loop
<1>9. CASE Restore \/ RestoreFails \/ Stop \/ \E p \in Paths, v \in Foreign : ExternalWrite(p, v)
  BY <1>3, <1>9 DEF Restore, RestoreFails, Stop, ExternalWrite
<1> QED
  BY <1>3, <1>4, <1>5, <1>6, <1>7, <1>8, <1>9 DEF Next, WriteStep, vars

(* A call for n files takes at most 6 n + 5 steps of its own, whatever     *)
(* fails in it and in its rollback, and whether it is stopped: the loops   *)
(* of writeGreenfieldFiles, of the rollback and of its inspection are      *)
(* bounded.                                                                *)
THEOREM CallIsBounded ==
  Spec => /\ [](/\ StepsLeft \in 0..(6 * Len(files) + 5)
                /\ StepsLeft = 0 <=> phase = "done")
          /\ [][\/ WriteStep /\ StepsLeft' < StepsLeft
                \/ ~WriteStep /\ StepsLeft' = StepsLeft]_vars
<1> DEFINE Inv == Placed /\ OneEntryEach
<1>1. Inv => /\ /\ Len(files) \in Nat /\ Len(committed) \in Nat /\ pos \in Nat \ {0}
                /\ undone \in 0..Len(committed) /\ phase \in Phases
                /\ phase \in Loop => pos \in 1..Len(files)
             /\ StepsLeft \in 0..(6 * Len(files) + 5)
             /\ StepsLeft = 0 <=> phase = "done"
  <2> SUFFICES ASSUME Inv
               PROVE  /\ /\ Len(files) \in Nat /\ Len(committed) \in Nat /\ pos \in Nat \ {0}
                         /\ undone \in 0..Len(committed) /\ phase \in Phases
                         /\ phase \in Loop => pos \in 1..Len(files)
                      /\ StepsLeft \in 0..(6 * Len(files) + 5)
                      /\ StepsLeft = 0 <=> phase = "done"
    OBVIOUS
  <2>1. /\ Len(files) \in Nat /\ Len(committed) \in Nat /\ pos \in Nat \ {0}
        /\ undone \in 0..Len(committed) /\ phase \in Phases
        /\ phase \in Loop => pos \in 1..Len(files)
    BY DEF Placed, TypeOK, Bounds
  <2> QED BY <2>1 DEF StepsLeft, Phases, Loop, OneEntryEach
<1>2. Inv /\ [Next]_vars =>
        [\/ WriteStep /\ StepsLeft' < StepsLeft
         \/ ~WriteStep /\ StepsLeft' = StepsLeft]_vars
  <2> SUFFICES ASSUME Inv, Next
               PROVE  \/ WriteStep /\ StepsLeft' < StepsLeft
                      \/ ~WriteStep /\ StepsLeft' = StepsLeft
    BY DEF vars
  <2>1. /\ Len(files) \in Nat /\ Len(committed) \in Nat /\ pos \in Nat \ {0}
        /\ undone \in 0..Len(committed) /\ phase \in Phases
        /\ phase \in Loop => pos \in 1..Len(files)
    BY <1>1
  <2>2. ASSUME Abort, phase \in Loop, Len(committed') \in Len(committed)..pos,
               UNCHANGED <<files, undone>>
        PROVE  StepsLeft' < StepsLeft
    <3>1. StepsLeft >= 2 * Len(files) + 4
      BY <2>1, <2>2 DEF Loop, StepsLeft
    <3>2. phase' \in {"done", "rollback"}
      BY <2>2 DEF Abort, End
    <3>3. StepsLeft' \in 0..(2 * Len(files) + 3)
      <4>1. CASE phase' = "done"
        BY <2>1, <4>1 DEF StepsLeft
      <4>2. CASE phase' = "rollback"
        <5>1. StepsLeft' = 2 * Len(committed') - undone + 3
          BY <2>2, <4>2 DEF StepsLeft
        <5>2. Len(committed') <= Len(files)
          BY <2>1, <2>2
        <5> QED BY <2>1, <2>2, <5>1, <5>2
      <4> QED BY <3>2, <4>1, <4>2
    <3>4. StepsLeft \in Nat
      BY <1>1
    <3> HIDE DEF StepsLeft
    <3> QED BY <2>1, <3>1, <3>3, <3>4
  <2>3. ASSUME NextFile, phase \in {"examine", "written"}, UNCHANGED files
        PROVE  StepsLeft' < StepsLeft
    <3>1. CASE pos < Len(files)
      <4>1. phase' = "examine" /\ pos' = pos + 1 /\ UNCHANGED files
        BY <2>3, <3>1 DEF NextFile
      <4>2. StepsLeft' = 4 * (Len(files) - (pos + 1)) + 2 * Len(files) + 7
        BY <4>1 DEF StepsLeft
      <4>3. StepsLeft >= 4 * (Len(files) - pos) + 2 * Len(files) + 4
        BY <2>1, <2>3, <3>1 DEF StepsLeft
      <4> HIDE DEF StepsLeft
      <4> QED BY <1>1, <2>1, <4>2, <4>3
    <3>2. CASE ~(pos < Len(files))
      <4>1. phase' = "done"
        BY <2>3, <3>2 DEF NextFile, Conclude, End
      <4> QED BY <2>1, <2>3, <4>1 DEF Loop, StepsLeft
    <3> QED BY <3>1, <3>2
  <2>4. ASSUME WriteStep
        PROVE  StepsLeft' < StepsLeft
    <3>1. CASE Refuse \/ Start
      <4>1. phase = "called" /\ pos = 1 /\ UNCHANGED <<files, pos>> /\ phase' \in {"done", "examine"}
        BY <3>1 DEF Refuse, Start, End, Quiet, Placed, Bounds
      <4> QED BY <2>1, <4>1 DEF StepsLeft
    <3>2. CASE SeeStop \/ RejectTarget
      BY <2>1, <2>2, <3>2 DEF SeeStop, RejectTarget, Quiet, Loop, OneEntryEach
    <3>3. CASE SkipDisallowed
      BY <2>3, <3>3 DEF SkipDisallowed, Quiet
    <3>4. CASE Examine \/ Capture \/ CaptureThrows
      <4>1. /\ UNCHANGED <<files, pos>> /\ phase \in Loop
            /\ \/ phase = "examine" /\ phase' = "capture"
               \/ phase = "capture" /\ phase' \in {"write", "done"}
        BY <3>4 DEF Examine, Capture, CaptureThrows, End, Quiet, Loop
      <4> QED BY <2>1, <4>1 DEF StepsLeft
    <3>5. CASE Write
      BY <2>1, <3>5 DEF Write, Quiet, Loop, StepsLeft
    <3>6. CASE WriteFails
      <4>1. snapshot \in RollbackEntry /\ committed \in Seq(RollbackEntry)
        BY <3>6 DEF WriteFails, Placed, TypeOK, Bounds
      <4>2. Len(committed') \in Len(committed)..pos
        BY <2>1, <3>6, <4>1, AppendType DEF WriteFails, OneEntryEach
      <4> QED BY <2>2, <3>6, <4>2 DEF WriteFails, Quiet, Loop
    <3>7. CASE AfterWrite
      BY <2>1, <2>2, <2>3, <3>7 DEF AfterWrite, Quiet, Loop, OneEntryEach
    <3>8. CASE Restore \/ RestoreFails
      BY <2>1, <3>8 DEF Restore, RestoreFails, StepsLeft
    <3>9. CASE BeginInspect
      BY <2>1, <3>9 DEF BeginInspect, NextUndone, Quiet, StepsLeft
    <3>10. CASE Inspect \/ Report
      BY <2>1, <3>10 DEF Inspect, Report, End, Quiet, StepsLeft, OneEntryEach
    <3> QED BY <2>4, <3>1, <3>2, <3>3, <3>4, <3>5, <3>6, <3>7, <3>8, <3>9, <3>10 DEF WriteStep
  <2>5. ASSUME Stop \/ \E p \in Paths, v \in Foreign : ExternalWrite(p, v)
        PROVE  ~WriteStep /\ StepsLeft' = StepsLeft
    <3>1. UNCHANGED <<files, phase, pos, committed, undone>>
      BY <2>5 DEF Stop, ExternalWrite
    <3>2. StepsLeft' = StepsLeft /\ StepsLeft \in Nat
      BY <1>1, <3>1 DEF StepsLeft
    <3> QED BY <2>4, <3>2
  <2> QED BY <2>4, <2>5 DEF Next
<1>3. Init => Inv
  BY PlacedInit DEF Init, OneEntryEach
<1>4. Inv /\ [Next]_vars => Inv'
  BY PlacedNext, EntriesNext
<1> QED BY <1>1, <1>2, <1>3, <1>4, PTL DEF Spec
-----------------------------------------------------------------------------
(* The refinement: every step of the call is a step of the batch contract, *)
(* or is not seen by it.                                                   *)

FilePaths == {files[i].path : i \in 1..Len(files)}

(* Only files of the generation have rollback entries.                     *)
EntriesOfBatch == Changed \subseteq FilePaths

LEMMA EntriesOfBatchNext ==
  ASSUME Placed, EntriesOfBatch, [Next]_vars
  PROVE  EntriesOfBatch'
<1>1. ASSUME UNCHANGED <<committed, files>>
      PROVE  EntriesOfBatch'
  BY <1>1 DEF EntriesOfBatch, Changed, FilePaths
<1>2. ASSUME phase = "write", committed' = Append(committed, snapshot), UNCHANGED files
      PROVE  EntriesOfBatch'
  <2>1. /\ committed \in Seq(RollbackEntry) /\ snapshot \in RollbackEntry
        /\ snapshot.path = Here.path /\ pos \in 1..Len(files)
    BY <1>2 DEF Placed, TypeOK, Bounds, Loop
  <2>2. /\ Len(committed) \in Nat /\ Len(committed') = Len(committed) + 1
        /\ committed'[Len(committed) + 1] = snapshot
        /\ \A k \in 1..Len(committed) : committed'[k] = committed[k]
    BY <1>2, <2>1, AppendType
  <2>3. Here.path \in FilePaths /\ FilePaths' = FilePaths
    BY <1>2, <2>1 DEF Here, FilePaths
  <2>4. ASSUME NEW k \in 1..Len(committed')
        PROVE  committed'[k].path \in FilePaths
    <3>1. CASE k = Len(committed) + 1
      BY <2>1, <2>2, <2>3, <3>1
    <3>2. CASE k # Len(committed) + 1
      <4>1. k \in 1..Len(committed)
        BY <2>2, <2>4, <3>2
      <4> QED
        BY <2>2, <4>1 DEF EntriesOfBatch, Changed
    <3> QED
      BY <3>1, <3>2
  <2> QED
    BY <2>3, <2>4 DEF EntriesOfBatch, Changed
<1>3. CASE Write
  BY <1>2, <1>3 DEF Write, Quiet
<1>4. CASE WriteFails
  BY <1>1, <1>2, <1>4 DEF WriteFails, Quiet
<1>5. CASE WriteStep /\ ~Write /\ ~WriteFails
  BY <1>1, <1>5 DEF WriteStep, Refuse, Start, SeeStop, SkipDisallowed, RejectTarget, Examine,
     Capture, CaptureThrows, AfterWrite, Restore, RestoreFails, BeginInspect, Inspect, Report,
     Quiet
<1>6. CASE Stop \/ (\E p \in Paths, v \in Foreign : ExternalWrite(p, v)) \/ UNCHANGED vars
  BY <1>1, <1>6 DEF Stop, ExternalWrite, vars
<1> QED
  BY <1>3, <1>4, <1>5, <1>6 DEF Next

Explained ==
  /\ Placed
  /\ Accounted
  /\ SuccessIsComplete
  /\ EntriesOfBatch

LEMMA ExplainedAlways == Spec => []Explained
<1>1. Init => EntriesOfBatch
  BY DEF Init, EntriesOfBatch, Changed
<1>2. Placed /\ EntriesOfBatch /\ [Next]_vars => EntriesOfBatch'
  BY EntriesOfBatchNext
<1>3. Spec => []EntriesOfBatch
  BY <1>1, <1>2, PlacedAlways, PTL DEF Spec
<1>4. Placed /\ Accounted /\ (WrittenSoFar /\ SuccessIsComplete) /\ EntriesOfBatch => Explained
  BY DEF Explained
<1> QED
  BY <1>3, <1>4, PlacedAlways, AccountedAlways, CompleteAlways, PTL

\* The step changes no file, or one.
Changes ==
  UNCHANGED disk \/ \E p \in Paths, v \in Value : disk' = [disk EXCEPT ![p] = v]

LEMMA TextValues == \A v \in Value : Text(v) \in TextValue
BY ValueAssumption DEF Value, Text, TextValue

LEMMA VisibleType ==
  ASSUME Placed
  PROVE  VisibleFiles \in [Paths -> TextValue]
<1>1. disk \in [Paths -> Value] /\ original \in [Paths -> Value]
  BY DEF Placed, TypeOK
<1> QED
  BY <1>1, TextValues DEF VisibleFiles

LEMMA BatchType ==
  ASSUME Placed
  PROVE  /\ Batch \in Seq([path : Paths, target : TextValue])
         /\ Len(Batch) = Len(files)
         /\ \A i \in 1..Len(files) : Batch[i].path = files[i].path /\ Batch[i].target = files[i].content
         /\ Contract!Named = FilePaths
<1>1. Len(files) \in Nat
  BY DEF Placed, TypeOK
<1>2. \A i \in 1..Len(files) : files[i] \in GeneratedFile
  BY FileType DEF Placed
<1>3. \A i \in 1..Len(files) :
        [path |-> files[i].path, target |-> files[i].content] \in [path : Paths, target : TextValue]
  BY <1>2 DEF GeneratedFile, TextValue
<1>4. Batch \in Seq([path : Paths, target : TextValue]) /\ Len(Batch) = Len(files)
  BY <1>1, <1>3 DEF Batch
<1>5. \A i \in 1..Len(files) : Batch[i].path = files[i].path /\ Batch[i].target = files[i].content
  BY DEF Batch
<1>6. Contract!Named = FilePaths
  BY <1>4, <1>5 DEF Contract!Named, FilePaths
<1> QED
  BY <1>4, <1>5, <1>6

\* What a step of the call leaves alone, and how it may end the call.
LEMMA WriteStepFacts ==
  ASSUME Placed, WriteStep
  PROVE  /\ phase # "done" /\ UNCHANGED <<files, original, touched>>
         /\ Changes
         /\ phase' = "done" =>
              /\ outcome' \in {"ok", "refused", "failed", "threw"}
              /\ outcome' \in {"ok", "refused"} => disk' = disk
              /\ outcome' = "refused" => phase = "called"
<1>1. Value # {} /\ Paths # {}
  BY ValueAssumption DEF Value
<1>2. CASE \/ Refuse \/ Start \/ SeeStop \/ SkipDisallowed \/ RejectTarget \/ Examine \/ Capture
           \/ CaptureThrows \/ AfterWrite \/ BeginInspect \/ Inspect \/ Report
  BY <1>2 DEF Refuse, Start, SeeStop, SkipDisallowed, RejectTarget, Examine, Capture,
     CaptureThrows, AfterWrite, BeginInspect, Inspect, Report, Abort, NextFile, Conclude, End,
     Quiet, Changes
<1>3. CASE Write \/ WriteFails
  <2>1. /\ phase = "write" /\ UNCHANGED <<files, original, touched>>
        /\ phase' = "done" => outcome' = "failed"
    BY <1>3 DEF Write, WriteFails, Abort, End, Quiet
  <2>2. Here \in GeneratedFile /\ Here.path \in Paths /\ Here.content \in Value
    BY <2>1, FileType DEF Placed, Bounds, Loop, Here, GeneratedFile, Value
  <2>3. LeftByFailure(Here.path, Here.content) \subseteq Value
    BY <2>2, ValueAssumption DEF LeftByFailure, Value, Placed, TypeOK
  <2>4. Changes
    BY <1>3, <2>2, <2>3 DEF Write, WriteFails, Changes
  <2> QED
    BY <2>1, <2>4
<1>4. CASE Restore \/ RestoreFails
  <2>1. /\ phase = "rollback" /\ phase' = phase /\ UNCHANGED <<files, original, touched>>
        /\ NextUndone \in 1..Len(committed)
    BY <1>4 DEF Restore, RestoreFails, NextUndone, Placed, TypeOK
  <2>2. committed[NextUndone] \in RollbackEntry
    BY <2>1 DEF Placed, TypeOK
  <2>3. /\ committed[NextUndone].path \in Paths /\ committed[NextUndone].previous \in Value
        /\ disk[committed[NextUndone].path] \in Value /\ TornBytes \in Value /\ Unreadable \in Value
    BY <2>2, ValueAssumption DEF RollbackEntry, Value, Placed, TypeOK
  <2>4. Changes
    BY <1>4, <2>3 DEF Restore, RestoreFails, LeftByFailure, Changes
  <2> QED
    BY <2>1, <2>4
<1> QED
  BY <1>2, <1>3, <1>4 DEF WriteStep

\* While the call runs the contract sees a change only where somebody else wrote.
LEMMA ContractHidden ==
  ASSUME Placed, Placed', phase # "done", phase' # "done",
         UNCHANGED <<files, original, touched>>, Changes
  PROVE  [Contract!Next]_Contract!vars
<1>1. outcome = "none" /\ outcome' = "none"
  BY DEF Placed, Bounds
<1>2. ReportedPaths = {} /\ ReportedPaths' = {} /\ Batch' = Batch
  BY <1>1 DEF ReportedPaths, Batch
<1>3. VisibleFiles = [p \in Paths |-> Text(IF p \in touched THEN disk[p] ELSE original[p])]
  BY DEF VisibleFiles, Undisturbed
<1>4. VisibleFiles' = [p \in Paths |-> Text(IF p \in touched THEN disk'[p] ELSE original[p])]
  BY DEF VisibleFiles, Undisturbed
<1>5. CASE UNCHANGED disk
  BY <1>1, <1>2, <1>3, <1>4, <1>5 DEF Contract!vars
<1>6. ASSUME NEW p \in Paths, NEW v \in Value, disk' = [disk EXCEPT ![p] = v]
      PROVE  [Contract!Next]_Contract!vars
  <2>1. disk \in [Paths -> Value] /\ Text(v) \in TextValue
    BY TextValues DEF Placed, TypeOK
  <2>2. CASE p \in touched
    <3>1. VisibleFiles' = [VisibleFiles EXCEPT ![p] = Text(v)]
      BY <1>3, <1>4, <1>6, <2>1, <2>2
    <3> QED
      BY <1>1, <1>2, <2>1, <2>2, <3>1 DEF Contract!Next, Contract!Race
  <2>3. CASE p \notin touched
    <3>1. VisibleFiles' = VisibleFiles
      BY <1>3, <1>4, <1>6, <2>1, <2>3
    <3> QED
      BY <1>1, <1>2, <3>1 DEF Contract!vars
  <2> QED
    BY <2>2, <2>3
<1> QED
  BY <1>5, <1>6 DEF Changes

\* The end of the call shows what it did: everything, or nothing that is not reported.
LEMMA ContractEnds ==
  ASSUME Explained, Explained', WriteStep, phase' = "done"
  PROVE  [Contract!Next]_Contract!vars
<1> DEFINE Verdict == IF outcome = "threw" THEN "failed" ELSE outcome
<1>0. Placed /\ Placed'
  BY DEF Explained
<1>a. /\ phase # "done" /\ UNCHANGED <<files, original, touched>>
      /\ outcome' \in {"ok", "refused", "failed", "threw"}
      /\ outcome' \in {"ok", "refused"} => disk' = disk
      /\ outcome' = "refused" => phase = "called"
  BY <1>0, WriteStepFacts
<1>b. outcome = "none" /\ Verdict = "none" /\ ReportedPaths = {}
  BY <1>0, <1>a DEF Placed, Bounds, ReportedPaths
<1>1. /\ outcome = "none" /\ Verdict = "none" /\ ReportedPaths = {} /\ Batch' = Batch
      /\ UNCHANGED <<files, original, touched>>
      /\ outcome' \in {"ok", "refused", "failed", "threw"}
      /\ outcome' \in {"ok", "refused"} => disk' = disk
      /\ outcome' = "refused" => phase = "called"
      /\ phase # "done"
  BY <1>a, <1>b DEF Batch
<1>2. VisibleFiles' \in [Paths -> TextValue] /\ ReportedPaths' \subseteq Paths
  <2>1. /\ disk' \in [Paths -> Value] /\ original' \in [Paths -> Value]
        /\ written' \subseteq Paths
    BY <1>0 DEF Placed, TypeOK
  <2>2. VisibleFiles' \in [Paths -> TextValue]
    BY <2>1, TextValues DEF VisibleFiles
  <2>3. ReportedPaths' \subseteq Paths
    BY <2>1 DEF ReportedPaths
  <2> QED
    BY <2>2, <2>3
<1>3. \A p \in Paths : VisibleFiles'[p] = Text(disk'[p])
  BY DEF VisibleFiles
<1>4. \A p \in Paths :
        VisibleFiles[p] = IF p \in touched THEN Text(disk[p]) ELSE Text(original[p])
  BY <1>1 DEF VisibleFiles, Undisturbed
<1>5. \A p \in Paths \ touched : p \notin FilePaths => Text(disk'[p]) = Text(original[p])
  BY <1>1 DEF Explained, EntriesOfBatch, Accounted, Ledger, Undisturbed, AsBefore, FilePaths
<1>6. CASE outcome' = "ok"
  <2>1. \A p \in Paths : p \notin Contract!Named => VisibleFiles'[p] = VisibleFiles[p]
    BY <1>0, <1>1, <1>3, <1>4, <1>5, <1>6, BatchType
  <2>2. ASSUME NEW i \in 1..Len(Batch), Contract!Last(i), Batch[i].path \notin touched
        PROVE  VisibleFiles'[Batch[i].path] = Batch[i].target
    <3>1. /\ i \in 1..Len(files) /\ Len(Batch) = Len(files)
          /\ Batch[i].path = files[i].path /\ Batch[i].target = files[i].content
          /\ \A j \in 1..Len(files) : Batch[j].path = files[j].path
      BY <1>0, <2>2, BatchType
    <3>2. files[i] \in GeneratedFile /\ files[i].path \in Paths
      BY <1>0, <3>1, FileType DEF Placed
    <3>3. \A j \in i + 1..Len(files) : files[j].path # files[i].path
      <4> SUFFICES ASSUME NEW j \in i + 1..Len(files)
                   PROVE  files[j].path # files[i].path
        OBVIOUS
      <4>1. Len(files) \in Nat
        BY <1>0 DEF Placed, TypeOK
      <4>2. j \in i + 1..Len(Batch) /\ j \in 1..Len(files)
        BY <3>1, <4>1
      <4> QED
        BY <2>2, <3>1, <4>2 DEF Contract!Last
    <3>4. disk'[files[i].path] = files[i].content
      BY <1>1, <1>6, <2>2, <3>1, <3>3 DEF Explained, SuccessIsComplete, Undisturbed
    <3>5. Text(files[i].content) = files[i].content
      BY <3>2 DEF GeneratedFile, Text
    <3> QED
      BY <1>3, <3>1, <3>2, <3>4, <3>5
  <2>3. Verdict' = "ok" /\ ReportedPaths' = {}
    BY <1>6 DEF ReportedPaths
  <2> QED
    BY <1>1, <1>2, <2>1, <2>2, <2>3 DEF Contract!Next, Contract!Succeed
<1>7. CASE outcome' = "refused"
  <2>1. Changed = {}
    BY <1>0, <1>1, <1>7 DEF Placed, Bounds, Changed
  <2>2. \A p \in Paths \ touched : Text(disk[p]) = Text(original[p])
    BY <2>1 DEF Explained, Accounted, Ledger, Undisturbed, AsBefore
  <2>3. \A p \in Paths : VisibleFiles'[p] = VisibleFiles[p]
    BY <1>1, <1>3, <1>4, <1>7, <2>2
  <2>4. VisibleFiles' = VisibleFiles
    BY <1>0, <1>2, <2>3, VisibleType
  <2>5. Verdict' = "refused" /\ ReportedPaths' = {}
    BY <1>7 DEF ReportedPaths
  <2> QED
    BY <1>1, <2>4, <2>5 DEF Contract!Next, Contract!Refuse
<1>8. CASE outcome' \in {"failed", "threw"}
  <2>1. ASSUME NEW p \in Paths, p \notin (ReportedPaths' \cap Contract!Named) \cup touched
        PROVE  VisibleFiles'[p] = VisibleFiles[p]
    <3>1. p \notin touched /\ VisibleFiles[p] = Text(original[p]) /\ VisibleFiles'[p] = Text(disk'[p])
      BY <1>3, <1>4, <2>1
    <3>2. CASE p \notin FilePaths
      BY <1>5, <3>1, <3>2
    <3>3. CASE p \in FilePaths
      <4>1. p \notin ReportedPaths'
        BY <1>0, <2>1, <3>3, BatchType
      <4>2. outcome' = "failed" /\ p \notin written'
        BY <1>8, <4>1 DEF ReportedPaths
      <4>3. Text(disk'[p]) = Text(original'[p])
        BY <1>1, <3>1, <4>2
        DEF Explained, Accounted, FailureAccountsForFiles, Undisturbed, AsBefore
      <4> QED
        BY <1>1, <3>1, <4>3
    <3> QED
      BY <3>2, <3>3
  <2>2. Verdict' = "failed"
    BY <1>8
  <2> QED
    BY <1>1, <1>2, <2>1, <2>2 DEF Contract!Next, Contract!Fail
<1> QED
  BY <1>1, <1>6, <1>7, <1>8

LEMMA ContractStep ==
  ASSUME Explained, Explained', [Next]_vars
  PROVE  [Contract!Next]_Contract!vars
<1>0. Placed /\ Placed'
  BY DEF Explained
<1>1. CASE WriteStep
  <2>1. CASE phase' = "done"
    BY <1>1, <2>1, ContractEnds
  <2>2. CASE phase' # "done"
    <3>1. phase # "done" /\ UNCHANGED <<files, original, touched>> /\ Changes
      BY <1>0, <1>1, WriteStepFacts
    <3> QED
      BY <1>0, <2>2, <3>1, ContractHidden
  <2> QED
    BY <2>1, <2>2
<1>2. CASE Stop \/ UNCHANGED vars
  <2>1. UNCHANGED <<disk, files, phase, original, touched, outcome, written>>
    BY <1>2 DEF Stop, vars
  <2>2. VisibleFiles' = VisibleFiles /\ ReportedPaths' = ReportedPaths /\ Batch' = Batch
    BY <2>1 DEF VisibleFiles, ReportedPaths, Batch, Undisturbed
  <2> QED
    BY <2>1, <2>2 DEF Contract!vars
<1>3. ASSUME NEW p \in Paths, NEW v \in Foreign, ExternalWrite(p, v)
      PROVE  [Contract!Next]_Contract!vars
  <2>1. /\ disk' = [disk EXCEPT ![p] = v] /\ touched' = touched \cup {p}
        /\ UNCHANGED <<files, phase, original, outcome, written>>
    BY <1>3 DEF ExternalWrite
  <2>2. ReportedPaths' = ReportedPaths /\ Batch' = Batch
    BY <2>1 DEF ReportedPaths, Batch
  <2>3. disk \in [Paths -> Value] /\ Text(v) \in TextValue
    BY <1>0, TextValues, BoundAssumption DEF Placed, TypeOK
  <2>4. VisibleFiles' = [q \in Paths |->
          Text(IF phase = "done" \/ q \in touched' THEN disk'[q] ELSE original[q])]
    BY <2>1 DEF VisibleFiles, Undisturbed
  <2>5. VisibleFiles = [q \in Paths |->
          Text(IF phase = "done" \/ q \in touched THEN disk[q] ELSE original[q])]
    BY DEF VisibleFiles, Undisturbed
  <2>6. VisibleFiles' = [VisibleFiles EXCEPT ![p] = Text(v)]
    BY <2>1, <2>3, <2>4, <2>5
  <2> QED
    BY <2>1, <2>2, <2>3, <2>6 DEF Contract!Next, Contract!Write
<1> QED
  BY <1>1, <1>2, <1>3 DEF Next

(* The write of a generation, file by file with its rollback, a Stop and   *)
(* the writes of others in between, implements the all-or-nothing batch of *)
(* BatchContract (writeGreenfieldFiles as its callers see it).             *)
THEOREM Implements == Spec => ImplementsContract
<1>1. Init => Contract!Init
  <2> SUFFICES ASSUME Init PROVE Contract!Init
    OBVIOUS
  <2>1. Placed /\ outcome = "none" /\ ReportedPaths = {} /\ touched = {}
    BY PlacedInit DEF Init, ReportedPaths
  <2> QED
    BY <2>1, BatchType, VisibleType DEF Contract!Init
<1>2. Explained /\ Explained' /\ [Next]_vars => [Contract!Next]_Contract!vars
  BY ContractStep
<1> QED
  BY <1>1, <1>2, ExplainedAlways, PTL DEF Spec, ImplementsContract, Contract!Spec
==============================================================================
