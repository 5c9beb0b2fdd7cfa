------------------------ MODULE ProjectSession_proofs ------------------------
(***************************************************************************)
(* Proofs about the open project: of the edits, of the checkpoint and of   *)
(* the index, each under its own specification, and that the session keeps *)
(* to the specification of each of its parts.                              *)
(***************************************************************************)
EXTENDS ProjectSession, ApprovalSessions_proofs

-----------------------------------------------------------------------------
(* Edits.  An undo that runs while the newest edit was recorded with none  *)
(* running began after it, so it works on that edit.                       *)

EInv ==
  /\ EditTypeOK
  /\ openRoot \in Roots \cup {None}
  /\ UndoReachesNewest
  /\ newest # None => editAt[newest] = "done"
  /\ newest # None /\ clean =>
       \A u \in Undos : undoAt[u] = "running" =>
         undoBatch[u] = newest /\ undoBasis[u] \in {None, newest}

LEMMA EditStarts == ProjectInit /\ EditInit => EInv
  BY DEF ProjectInit, EditInit, EInv, EditTypeOK, UndoReachesNewest

LEMMA EditCallKeeps ==
  ASSUME EInv, openRoot' = openRoot, NEW e \in Edits,
         EditCalled(e) \/ EditWritten(e) \/ EditNotRecorded(e) \/ BatchReplaced(e)
  PROVE  EInv'
<1>0. e # None
  BY EditAssumption
<1>1. CASE EditCalled(e)
  <2>1. EditTypeOK'
    BY <1>1 DEF EInv, EditTypeOK, EditCalled
  <2>2. newest # None => newest # e /\ editRoot'[newest] = editRoot[newest]
                                   /\ editAt'[newest] = editAt[newest]
    BY <1>1 DEF EInv, EditTypeOK, EditCalled
  <2> QED BY <1>1, <2>1, <2>2 DEF EInv, EditCalled, UndoReachesNewest
<1>2. CASE EditWritten(e)
  <2>1. EditTypeOK'
    BY <1>2 DEF EInv, EditTypeOK, EditWritten, Record, UndoRuns
  <2>2. editAt'[e] = "done"
    BY <1>2 DEF EInv, EditTypeOK, EditWritten
  <2> QED BY <1>2, <2>1, <2>2 DEF EInv, EditWritten, Record, UndoRuns, UndoReachesNewest
<1>3. CASE EditNotRecorded(e)
  <2>1. EditTypeOK'
    BY <1>3 DEF EInv, EditTypeOK, EditNotRecorded
  <2>2. newest # None => editAt'[newest] = "done"
    BY <1>3 DEF EInv, EditTypeOK, EditNotRecorded
  <2> QED BY <1>3, <2>1, <2>2 DEF EInv, EditNotRecorded, UndoReachesNewest
<1>4. CASE BatchReplaced(e)
  <2>1. EditTypeOK'
    BY <1>4 DEF EInv, EditTypeOK, BatchReplaced, Record, Dropped, UndoRuns
  <2>2. editAt'[e] = "done" /\ editRoot'[e] = openRoot
    BY <1>4 DEF EInv, EditTypeOK, BatchReplaced
  <2> QED BY <1>4, <2>1, <2>2
          DEF EInv, BatchReplaced, Record, Dropped, UndoRuns, UndoReachesNewest
<1> QED BY <1>1, <1>2, <1>3, <1>4

LEMMA UndoKeeps ==
  ASSUME EInv, openRoot' = openRoot, NEW u \in Undos,
         UndoCalled(u) \/ UndoSucceeds(u) \/ UndoFails(u) \/ UndoRefused(u)
  PROVE  EInv'
<1>1. CASE UndoCalled(u)
  <2>1. EditTypeOK'
    BY <1>1 DEF EInv, EditTypeOK, UndoCalled
  <2>2. \A v \in Undos : /\ undoAt'[v] = IF v = u THEN "running" ELSE undoAt[v]
                         /\ undoBatch'[v] = IF v = u THEN batch ELSE undoBatch[v]
                         /\ undoBasis'[v] = IF v = u THEN attemptBasis
                                                      ELSE undoBasis[v]
    BY <1>1 DEF EInv, EditTypeOK, UndoCalled
  <2> QED BY <1>1, <2>1, <2>2 DEF EInv, UndoCalled, UndoReachesNewest
<1>2. CASE UndoSucceeds(u) \/ UndoFails(u) \/ UndoRefused(u)
  <2>1. EditTypeOK'
    BY <1>2 DEF EInv, EditTypeOK, UndoSucceeds, UndoFails, UndoRefused, UndoReturns
  <2>2. /\ \A v \in Undos : undoAt'[v] = "running" => undoAt[v] = "running"
        /\ undoAt[u] = "running" /\ UNCHANGED <<editAt, editRoot, undoBatch, undoBasis>>
    BY <1>2 DEF EInv, EditTypeOK, UndoSucceeds, UndoFails, UndoRefused, UndoReturns
  <2> QED BY <1>2, <2>1, <2>2
          DEF EInv, UndoSucceeds, UndoFails, UndoRefused, UndoReachesNewest
<1> QED BY <1>1, <1>2

LEMMA EditInvariant == EditSpec => []EInv
<1>1. EInv /\ [EditNext]_<<projectVars, editVars>> => EInv'
  <2> SUFFICES ASSUME EInv, [EditNext]_<<projectVars, editVars>>
               PROVE  EInv'
    OBVIOUS
  <2>1. CASE EditStep /\ UNCHANGED projectVars
    BY <2>1, EditCallKeeps, UndoKeeps DEF EditStep, projectVars
  <2>2. CASE \E r \in Roots : Opens(r) /\ EditsOpened
    BY <2>2 DEF EInv, EditTypeOK, UndoReachesNewest, Opens, EditsOpened, Dropped
  <2>3. CASE Restarts /\ EditsRestarted
    BY <2>3 DEF EInv, EditTypeOK, UndoReachesNewest, Restarts, EditsRestarted, Dropped
  <2>4. CASE UNCHANGED <<projectVars, editVars>>
    BY <2>4 DEF EInv, EditTypeOK, UndoReachesNewest, projectVars, editVars
  <2> QED BY <2>1, <2>2, <2>3, <2>4 DEF EditNext
<1> QED BY <1>1, EditStarts, PTL DEF EditSpec

(* "Undo last edit" reaches the edit that was recorded last, in its        *)
(* project, while no undo ran, for any number of overlapping edits, undos  *)
(* and switches (createLastEditStore).                                     *)
THEOREM UndoFindsNewest == EditSpec => []UndoReachesNewest
<1>1. EInv => UndoReachesNewest
  BY DEF EInv
<1> QED BY <1>1, EditInvariant, PTL

-----------------------------------------------------------------------------
(* The checkpoint.  What waits in a queue is a call of that project that   *)
(* has no answer yet, so a project with no call in flight has no write to  *)
(* come.                                                                   *)

CQueued ==
  \A r \in Roots : \A i \in 1..Len(writeQueue[r]) :
    /\ callRoot[writeQueue[r][i]] = r
    /\ callAt[writeQueue[r][i]] = "queued"
    /\ \A k \in 1..Len(writeQueue[r]) : writeQueue[r][k] = writeQueue[r][i] => k = i

CQueue ==
  /\ CkptTypeOK
  /\ openRoot \in Roots \cup {None}
  /\ \A c \in Calls : callAt[c] # "idle" => callRoot[c] \in Roots
  /\ CQueued

CkptCall(c) ==
  \/ c \in Saves /\ SaveCalled(c)
  \/ c \in Clears /\ ClearCalled(c)
  \/ c \in Loads /\ LoadCalled(c)

CkptWork(c) ==
  \/ c \in Clears /\ Unlink(c)
  \/ c \in Loads /\ ReadCheckpoint(c)
  \/ c \in Clears \cup Loads /\ (ReadLegacy(c) \/ WriteLegacy(c))

LEMMA CkptSteps ==
  ASSUME [CkptNext]_<<projectVars, ckptVars>>
  PROVE  \/ UNCHANGED projectVars /\ \E c \in Calls : CkptCall(c) \/ CkptWork(c)
         \/ UNCHANGED projectVars /\ \E r \in Roots : WriteDone(r) \/ WriteFails(r)
         \/ UNCHANGED ckptVars /\ openRoot' \in Roots \cup {openRoot}
         \/ Restarts /\ CkptRestarted
  BY DEF CkptNext, CkptStep, CkptCall, CkptWork, Calls, Opens, projectVars

LEMMA QueueShape ==
  ASSUME NEW S, NEW q \in Seq(S), NEW c \in S
  PROVE  /\ Append(q, c) \in Seq(S)
         /\ Len(Append(q, c)) = Len(q) + 1
         /\ \A i \in 1..Len(q) : Append(q, c)[i] = q[i]
         /\ Append(q, c)[Len(q) + 1] = c
         /\ q # <<>> => /\ Len(q) \in Nat \ {0} /\ Head(q) = q[1] /\ Head(q) \in S
                        /\ Tail(q) \in Seq(S) /\ Len(Tail(q)) = Len(q) - 1
                        /\ \A i \in 1..Len(q) - 1 : Tail(q)[i] = q[i + 1]
  OBVIOUS

LEMMA EmptyQueue ==
  ASSUME NEW S, NEW q \in Seq(S)
  PROVE  q = <<>> <=> Len(q) = 0
  OBVIOUS

LEMMA CkptStarts == ProjectInit /\ CkptInit => CQueue
<1> SUFFICES ASSUME ProjectInit, CkptInit
             PROVE  CQueue
  OBVIOUS
<1>1. \A r \in Roots : writeQueue[r] = <<>> /\ Len(writeQueue[r]) = 0
  BY DEF CkptInit
<1>2. CkptTypeOK
  BY CheckpointAssumption DEF CkptInit, CkptTypeOK, CallPhase, Calls
<1> QED BY <1>1, <1>2 DEF ProjectInit, CkptInit, CQueue, CQueued

\* What a call does on its arrival, whichever it is.
LEMMA Arrival ==
  ASSUME CQueue, NEW c \in Calls, NEW phase \in CallPhase, Called(c, phase)
  PROVE  /\ openRoot \in Roots
         /\ UNCHANGED <<ckptFile, legacyFile, legacySeen>>
         /\ callAt' \in [Calls -> CallPhase] /\ callRoot' \in [Calls -> Roots \cup {None}]
         /\ overlapped' \subseteq Roots /\ failed' \subseteq Roots
         /\ callAt[c] = "idle" /\ callAt'[c] = phase /\ callRoot'[c] = openRoot
         /\ \A d \in Calls \ {c} : callAt'[d] = callAt[d] /\ callRoot'[d] = callRoot[d]
         /\ \A d \in Calls : callAt'[d] # "idle" => callRoot'[d] \in Roots
<1>1. overlapped' \subseteq Roots /\ failed' \subseteq Roots
  BY DEF CQueue, CQueued, CkptTypeOK, Called, Overlaps
<1> QED BY <1>1 DEF CQueue, CQueued, CkptTypeOK, Called

LEMMA OthersQueued ==
  ASSUME CQueue, UNCHANGED writeQueue, NEW c \in Calls, callAt[c] # "queued",
         \A d \in Calls \ {c} : callAt'[d] = callAt[d] /\ callRoot'[d] = callRoot[d]
  PROVE  CQueued'
<1>1. \A r \in Roots : \A i \in 1..Len(writeQueue[r]) : writeQueue[r][i] \in Calls \ {c}
  BY DEF CQueue, CQueued, CkptTypeOK, Calls
<1> QED BY <1>1 DEF CQueue, CQueued

LEMMA JoinsQueue ==
  ASSUME CQueue, NEW c \in Saves \cup Loads, NEW r \in Roots, callAt[c] # "queued",
         callAt'[c] = "queued", callRoot'[c] = r,
         writeQueue' = [writeQueue EXCEPT ![r] = Append(@, c)],
         \A d \in Calls \ {c} : callAt'[d] = callAt[d] /\ callRoot'[d] = callRoot[d]
  PROVE  writeQueue' \in [Roots -> Seq(Saves \cup Loads)] /\ CQueued'
<1>1. \A q \in Roots : \A i \in 1..Len(writeQueue[q]) : writeQueue[q][i] \in Calls \ {c}
  BY DEF CQueue, CQueued, CkptTypeOK, Calls
<1>2. /\ writeQueue' \in [Roots -> Seq(Saves \cup Loads)]
      /\ writeQueue'[r] = Append(writeQueue[r], c)
      /\ \A q \in Roots \ {r} : writeQueue'[q] = writeQueue[q]
  BY QueueShape DEF CQueue, CkptTypeOK
<1>3. ASSUME NEW i \in 1..Len(writeQueue'[r])
      PROVE  /\ callRoot'[writeQueue'[r][i]] = r /\ callAt'[writeQueue'[r][i]] = "queued"
             /\ \A k \in 1..Len(writeQueue'[r]) :
                  writeQueue'[r][k] = writeQueue'[r][i] => k = i
  BY <1>1, <1>2, QueueShape DEF CQueue, CQueued, CkptTypeOK
<1>4. ASSUME NEW q \in Roots \ {r}, NEW i \in 1..Len(writeQueue[q])
      PROVE  /\ callRoot'[writeQueue[q][i]] = q /\ callAt'[writeQueue[q][i]] = "queued"
             /\ \A k \in 1..Len(writeQueue[q]) : writeQueue[q][k] = writeQueue[q][i] => k = i
  <2>1. writeQueue[q][i] \in Calls \ {c}
    BY <1>1
  <2> QED BY <2>1 DEF CQueue, CQueued
<1>5. ASSUME NEW q \in Roots, NEW i \in 1..Len(writeQueue'[q])
      PROVE  /\ callRoot'[writeQueue'[q][i]] = q /\ callAt'[writeQueue'[q][i]] = "queued"
             /\ \A k \in 1..Len(writeQueue'[q]) :
                  writeQueue'[q][k] = writeQueue'[q][i] => k = i
  <2>1. CASE q = r
    BY <1>3, <2>1
  <2>2. CASE q # r
    <3>1. writeQueue'[q] = writeQueue[q]
      BY <1>2, <2>2
    <3> QED BY <1>4, <2>2, <3>1
  <2> QED BY <2>1, <2>2
<1> QED BY <1>2, <1>5 DEF CQueued

LEMMA QueueKeptByCall ==
  ASSUME CQueue, UNCHANGED projectVars, NEW c \in Calls, CkptCall(c) \/ CkptWork(c)
  PROVE  CQueue'
<1>1. CASE c \in Saves /\ SaveCalled(c)
  <2>1. Called(c, "queued") /\ "queued" \in CallPhase
    BY <1>1 DEF SaveCalled, CallPhase
  <2>2. writeQueue' \in [Roots -> Seq(Saves \cup Loads)] /\ CQueued'
    BY <1>1, <2>1, Arrival, JoinsQueue DEF SaveCalled
  <2>3. lastCall' \in [Roots -> Saves \cup Clears \cup {None}]
    BY <1>1 DEF CQueue, CkptTypeOK, SaveCalled
  <2>4. CkptTypeOK'
    BY <1>1, <2>1, <2>2, <2>3, Arrival DEF CQueue, CkptTypeOK, SaveCalled
  <2> QED BY <2>1, <2>2, <2>4, Arrival DEF CQueue, projectVars
<1>2. CASE c \in Clears /\ ClearCalled(c)
  <2>1. Called(c, "unlink") /\ "unlink" \in CallPhase
    BY <1>2 DEF ClearCalled, CallPhase
  <2>2. lastCall' \in [Roots -> Saves \cup Clears \cup {None}]
    BY <1>2 DEF CQueue, CQueued, CkptTypeOK, ClearCalled
  <2>3. CkptTypeOK'
    BY <1>2, <2>1, <2>2, Arrival DEF CQueue, CQueued, CkptTypeOK, ClearCalled
  <2>4. CQueued'
    BY <1>2, <2>1, Arrival, OthersQueued DEF ClearCalled
  <2> QED BY <1>2, <2>1, <2>3, <2>4, Arrival DEF CQueue, projectVars
<1>3. CASE c \in Loads /\ LoadCalled(c)
  <2>1. Called(c, "read") /\ "read" \in CallPhase
    BY <1>3 DEF LoadCalled, CallPhase
  <2>2. CkptTypeOK'
    BY <1>3, <2>1, Arrival DEF CQueue, CQueued, CkptTypeOK, LoadCalled
  <2>3. CQueued'
    BY <1>3, <2>1, Arrival, OthersQueued DEF LoadCalled
  <2> QED BY <1>3, <2>1, <2>2, <2>3, Arrival DEF CQueue, projectVars
<1>4. CASE c \in Clears /\ Unlink(c)
  <2>1. CkptTypeOK'
    BY <1>4 DEF CQueue, CQueued, CkptTypeOK, Unlink, CallPhase
  <2> QED BY <1>4, <2>1 DEF CQueue, CQueued, CkptTypeOK, Unlink, projectVars, Calls
<1>5. CASE c \in Loads /\ ReadCheckpoint(c)
  <2>1. CkptTypeOK'
    BY <1>5 DEF CQueue, CQueued, CkptTypeOK, ReadCheckpoint, CallPhase
  <2> QED BY <1>5, <2>1 DEF CQueue, CQueued, CkptTypeOK, ReadCheckpoint, projectVars, Calls
<1>6. CASE WriteLegacy(c)
  <2>1. CkptTypeOK'
    BY <1>6 DEF CQueue, CQueued, CkptTypeOK, WriteLegacy, CallPhase
  <2> QED BY <1>6, <2>1 DEF CQueue, CQueued, CkptTypeOK, WriteLegacy, projectVars, Calls
<1>7. CASE c \in Clears \cup Loads /\ ReadLegacy(c)
  <2>1. callRoot[c] \in Roots => writeQueue' \in [Roots -> Seq(Saves \cup Loads)]
    BY <1>7, QueueShape DEF CQueue, CQueued, CkptTypeOK, ReadLegacy, AfterLegacy
  <2>2. callRoot[c] \notin legacyFile => UNCHANGED writeQueue
    BY <1>7 DEF ReadLegacy, AfterLegacy
  <2>3. CkptTypeOK'
    BY <1>7, <2>1, <2>2 DEF CQueue, CQueued, CkptTypeOK, ReadLegacy, AfterLegacy, CallPhase
  <2> QED BY <1>7, <2>3, QueueShape
          DEF CQueue, CQueued, CkptTypeOK, ReadLegacy, AfterLegacy, projectVars, Calls
<1> QED BY <1>1, <1>2, <1>3, <1>4, <1>5, <1>6, <1>7 DEF CkptCall, CkptWork

LEMMA QueueKeptByWrite ==
  ASSUME CQueue, UNCHANGED projectVars, NEW r \in Roots, WriteDone(r) \/ WriteFails(r)
  PROVE  CQueue'
<1> DEFINE c == Head(writeQueue[r])
<1>1. /\ writeQueue[r] # <<>> /\ c \in Saves \cup Loads
      /\ writeQueue' = [writeQueue EXCEPT ![r] = Tail(writeQueue[r])]
      /\ callAt' = [callAt EXCEPT ![c] = IF c \in Loads THEN "writeLegacy" ELSE "done"]
      /\ c = writeQueue[r][1]
  BY QueueShape DEF CQueue, CQueued, CkptTypeOK, WriteDone, WriteFails, Answered
<1>2. CkptTypeOK'
  <2>1. ckptFile' \in [Roots -> Saves \cup {Migrated, None}]
    <3>1. UNCHANGED ckptFile \/ ckptFile' = [ckptFile EXCEPT ![r] = Content(c)]
      BY DEF WriteDone, WriteFails
    <3>2. Content(c) \in Saves \cup {Migrated, None}
      BY <1>1 DEF Content
    <3> HIDE DEF c
    <3> QED BY <3>1, <3>2 DEF CQueue, CkptTypeOK
  <2>2. writeQueue' \in [Roots -> Seq(Saves \cup Loads)]
    BY <1>1, QueueShape DEF CQueue, CQueued, CkptTypeOK
  <2>3. callAt' \in [Calls -> CallPhase]
    BY <1>1 DEF CQueue, CQueued, CkptTypeOK, CallPhase
  <2> QED BY <2>1, <2>2, <2>3 DEF CQueue, CQueued, CkptTypeOK, WriteDone, WriteFails
<1> QED BY <1>1, <1>2, QueueShape
        DEF CQueue, CQueued, CkptTypeOK, WriteDone, WriteFails, projectVars, Calls

LEMMA QueueInvariant == CkptSpec => []CQueue
<1>1. CQueue /\ [CkptNext]_<<projectVars, ckptVars>> => CQueue'
  <2> SUFFICES ASSUME CQueue, [CkptNext]_<<projectVars, ckptVars>>
               PROVE  CQueue'
    OBVIOUS
  <2>1. CASE Restarts /\ CkptRestarted
    <3>1. CkptTypeOK'
      BY <2>1 DEF CQueue, CQueued, CkptTypeOK, CkptRestarted, CallPhase
    <3> QED BY <2>1, <3>1 DEF CQueue, CQueued, CkptTypeOK, CkptRestarted, Restarts
  <2>2. CASE UNCHANGED ckptVars /\ openRoot' \in Roots \cup {openRoot}
    BY <2>2 DEF CQueue, CQueued, CkptTypeOK, ckptVars
  <2> QED BY <2>1, <2>2, CkptSteps, QueueKeptByCall, QueueKeptByWrite
<1> QED BY <1>1, CkptStarts, PTL DEF CkptSpec

\* The projects whose entry of the legacy file nobody needs any more.
Safe == {r \in Roots : ckptFile[r] # None} \cup excused

\* What a call has not seen in the legacy file, or takes out of it, is safe.
CMoved ==
  /\ Legacy \subseteq legacyFile \cup Safe
  /\ \A c \in Clears : callAt[c] # "idle" => callRoot[c] \in excused
  /\ \A c \in Clears \cup Loads :
       /\ callAt[c] = "writeLegacy" => callRoot[c] \in Safe
       /\ callAt[c] \in {"queued", "writeLegacy"} => Legacy \ legacySeen[c] \subseteq Safe

LEMMA MovedKeptByCall ==
  ASSUME CQueue, CMoved, NEW c \in Calls, CkptCall(c) \/ CkptWork(c)
  PROVE  CMoved'
<1> USE DEF CMoved, Safe
<1>1. CASE c \in Saves /\ SaveCalled(c)
  <2>1. Called(c, "queued") /\ "queued" \in CallPhase
    BY <1>1 DEF SaveCalled, CallPhase
  <2> QED BY <1>1, <2>1, Arrival, CheckpointAssumption DEF SaveCalled, Calls
<1>2. CASE c \in Clears /\ ClearCalled(c)
  <2>1. Called(c, "unlink") /\ "unlink" \in CallPhase
    BY <1>2 DEF ClearCalled, CallPhase
  <2> QED BY <1>2, <2>1, Arrival, CheckpointAssumption DEF ClearCalled, Calls
<1>3. CASE c \in Loads /\ LoadCalled(c)
  <2>1. Called(c, "read") /\ "read" \in CallPhase
    BY <1>3 DEF LoadCalled, CallPhase
  <2> QED BY <1>3, <2>1, Arrival, CheckpointAssumption DEF LoadCalled, Calls
<1>4. CASE c \in Clears /\ Unlink(c)
  <2>1. \A r \in Roots : r # callRoot[c] => ckptFile'[r] = ckptFile[r]
    BY <1>4 DEF CQueue, CkptTypeOK, Unlink
  <2>2. callRoot[c] \in excused
    BY <1>4 DEF Unlink
  <2>3. Safe \subseteq Safe' /\ excused' = excused
    BY <1>4, <2>1, <2>2 DEF Unlink
  <2> QED BY <1>4, <2>3 DEF CQueue, CkptTypeOK, Unlink, Calls
<1>5. CASE c \in Loads /\ ReadCheckpoint(c)
  BY <1>5 DEF CQueue, CkptTypeOK, ReadCheckpoint, Calls
<1>6. CASE c \in Clears \cup Loads /\ WriteLegacy(c)
  BY <1>6 DEF CQueue, CkptTypeOK, WriteLegacy, Calls
<1>7. CASE c \in Clears \cup Loads /\ ReadLegacy(c)
  <2>1. \A d \in Calls \ {c} : callAt'[d] = callAt[d] /\ legacySeen'[d] = legacySeen[d]
    BY <1>7 DEF CQueue, CkptTypeOK, ReadLegacy, AfterLegacy
  <2>2. /\ legacySeen'[c] = legacyFile /\ callAt[c] # "idle"
        /\ callAt'[c] = "writeLegacy" => c \in Clears
    BY <1>7, CheckpointAssumption DEF CQueue, CkptTypeOK, ReadLegacy, AfterLegacy
  <2> QED BY <1>7, <2>1, <2>2, CheckpointAssumption DEF ReadLegacy, Calls
<1> QED BY <1>1, <1>2, <1>3, <1>4, <1>5, <1>6, <1>7 DEF CkptCall, CkptWork

LEMMA MovedKeptByWrite ==
  ASSUME CQueue, CMoved, NEW r \in Roots, WriteDone(r) \/ WriteFails(r)
  PROVE  CMoved'
<1> DEFINE c == Head(writeQueue[r])
<1>1. /\ c \in Saves \cup Loads /\ callAt[c] = "queued" /\ callRoot[c] = r
      /\ callAt' = [callAt EXCEPT ![c] = IF c \in Loads THEN "writeLegacy" ELSE "done"]
      /\ UNCHANGED <<legacyFile, legacySeen, callRoot>>
  BY QueueShape DEF CQueue, CQueued, CkptTypeOK, WriteDone, WriteFails, Answered
<1>2. Content(c) # None
  BY <1>1, CheckpointAssumption DEF Content, Calls
<1>3. Safe \subseteq Safe' /\ excused \subseteq excused' /\ (c \in Loads => r \in Safe')
  BY <1>1, <1>2 DEF Safe, CQueue, CkptTypeOK, WriteDone, WriteFails
<1>4. \A d \in Clears \cup Loads :
        callAt'[d] = IF d = c THEN "writeLegacy" ELSE callAt[d]
  BY <1>1, CheckpointAssumption DEF CQueue, CkptTypeOK, Calls
<1> QED BY <1>1, <1>3, <1>4, CheckpointAssumption DEF CMoved, Calls

LEMMA MovedInvariant == CkptSpec => []CMoved
<1>1. ProjectInit /\ CkptInit => CMoved
  BY DEF CkptInit, CMoved, Calls
<1>2. CQueue /\ CMoved /\ [CkptNext]_<<projectVars, ckptVars>> => CMoved'
  <2> SUFFICES ASSUME CQueue, CMoved, [CkptNext]_<<projectVars, ckptVars>>
               PROVE  CMoved'
    OBVIOUS
  <2>1. CASE Restarts /\ CkptRestarted
    BY <2>1 DEF CMoved, Safe, CkptRestarted, Calls
  <2>2. CASE UNCHANGED ckptVars
    BY <2>2 DEF CMoved, Safe, ckptVars
  <2> QED BY <2>1, <2>2, CkptSteps, MovedKeptByCall, MovedKeptByWrite
<1> QED BY <1>1, <1>2, QueueInvariant, PTL DEF CkptSpec

(* No checkpoint of the legacy file is lost, however many loads, clears    *)
(* and saves overlap, and wherever the process ends, unless the project's  *)
(* own file could not be written (loadRunCheckpointForProject).            *)
THEOREM MigrationKeeps == CkptSpec => []MigrationKeepsCheckpoint
<1>1. CMoved => MigrationKeepsCheckpoint
  BY DEF CMoved, Safe, MigrationKeepsCheckpoint
<1> QED BY <1>1, MovedInvariant, PTL

\* Without a clear or a migration among other calls, the last of a queue is
\* what was asked for last, and a clear has nothing behind it.
Latest(r) ==
  /\ lastCall[r] # None =>
       /\ lastCall[r] \in Calls /\ callRoot[lastCall[r]] = r
       /\ callAt[lastCall[r]] # "idle"
  /\ r \notin overlapped =>
       /\ \A i \in 1..Len(writeQueue[r]) : writeQueue[r][i] \in Saves
       /\ \A c \in Clears \cap InFlight(r) : c = lastCall[r]
       /\ lastCall[r] \in Clears => writeQueue[r] = <<>>
  /\ r \notin overlapped \cup failed =>
       /\ lastCall[r] \in Saves =>
            \/ writeQueue[r] = <<>> /\ ckptFile[r] = lastCall[r]
            \/ /\ writeQueue[r] # <<>>
               /\ writeQueue[r][Len(writeQueue[r])] = lastCall[r]
       /\ lastCall[r] \in Clears =>
            callAt[lastCall[r]] = "unlink" \/ ckptFile[r] = None

CLatest == \A r \in Roots : Latest(r)

LEMMA QueueInFlight ==
  ASSUME CQueue, NEW r \in Roots
  PROVE  /\ \A i \in 1..Len(writeQueue[r]) : writeQueue[r][i] \in InFlight(r)
         /\ InFlight(r) = {} => writeQueue[r] = <<>>
<1>1. writeQueue[r] \in Seq(Saves \cup Loads)
  BY DEF CQueue, CkptTypeOK
<1>2. \A i \in 1..Len(writeQueue[r]) : writeQueue[r][i] \in InFlight(r)
  BY <1>1 DEF CQueue, CQueued, InFlight, Calls
<1>3. writeQueue[r] # <<>> => 1 \in 1..Len(writeQueue[r])
  BY <1>1
<1> QED BY <1>2, <1>3

LEMMA LatestKeptBySave ==
  ASSUME CQueue, CLatest, NEW s \in Saves, SaveCalled(s)
  PROVE  CLatest'
<1>1. /\ s \in Calls /\ s \notin Clears \cup Loads /\ s # None
      /\ Called(s, "queued") /\ "queued" \in CallPhase
  BY CheckpointAssumption DEF SaveCalled, Calls, CallPhase
<1> PICK o \in Roots : o = openRoot
  BY <1>1, Arrival
<1>2. /\ o \in Roots /\ writeQueue[o] \in Seq(Saves \cup Loads)
      /\ writeQueue'[o] = Append(writeQueue[o], s) /\ lastCall'[o] = s
      /\ \A r \in Roots \ {o} : /\ writeQueue'[r] = writeQueue[r]
                               /\ lastCall'[r] = lastCall[r]
  BY <1>1, Arrival DEF CQueue, CkptTypeOK, SaveCalled
<1>3. \A r \in Roots : InFlight(r)' = InFlight(r) \cup (IF r = o THEN {s} ELSE {})
  BY <1>1, Arrival DEF InFlight
<1>4. ASSUME NEW r \in Roots, r # o
      PROVE  Latest(r)'
  <2>1. (r \in overlapped' <=> r \in overlapped) /\ (r \in failed' <=> r \in failed)
    BY <1>1, <1>4 DEF Called, Overlaps
  <2>2. lastCall[r] \in Calls => lastCall[r] # s \/ lastCall[r] = None
    BY <1>1, <1>4, Arrival DEF CLatest, Latest
  <2>3. ckptFile' = ckptFile /\ InFlight(r)' = InFlight(r)
    BY <1>1, <1>3, <1>4, Arrival
  <2>4. lastCall[r] \in Clears => lastCall[r] \in Calls
    BY DEF Calls
  <2> QED BY <1>1, <1>2, <1>4, <2>1, <2>2, <2>3, <2>4, Arrival DEF CLatest, Latest
<1>5. Latest(o)'
  <2>1. /\ Len(writeQueue'[o]) \in Nat \ {0} /\ writeQueue'[o] # <<>>
        /\ writeQueue'[o][Len(writeQueue'[o])] = s
    BY <1>2, QueueShape
  <2>2. callRoot'[s] = o /\ callAt'[s] = "queued"
    BY <1>1, Arrival
  <2>3. ASSUME o \notin overlapped'
        PROVE  /\ \A i \in 1..Len(writeQueue[o]) : writeQueue[o][i] \in Saves
               /\ InFlight(o) \cap Clears = {}
    <3>1. CASE InFlight(o) = {}
      BY <1>2, <3>1, QueueInFlight
    <3>2. CASE InFlight(o) # {}
      <4>1. o \notin overlapped /\ (InFlight(o) \ Loads) \cup {s} \subseteq Saves
        BY <1>1, <1>2, <2>3, <3>2 DEF Called, Overlaps
      <4> QED BY <1>2, <4>1, CheckpointAssumption DEF CLatest, Latest
    <3> QED BY <3>1, <3>2
  <2>4. o \notin overlapped' =>
          \A i \in 1..Len(writeQueue'[o]) : writeQueue'[o][i] \in Saves
    BY <1>2, <2>3, QueueShape
  <2> QED BY <1>1, <1>2, <1>3, <2>1, <2>2, <2>3, <2>4 DEF Latest
<1> QED BY <1>4, <1>5 DEF CLatest

LEMMA LatestKeptByClear ==
  ASSUME CQueue, CLatest, NEW c \in Clears, ClearCalled(c)
  PROVE  CLatest'
<1>1. /\ c \in Calls /\ c \notin Saves \cup Loads /\ c # None
      /\ Called(c, "unlink") /\ "unlink" \in CallPhase
  BY CheckpointAssumption DEF ClearCalled, Calls, CallPhase
<1> PICK o \in Roots : o = openRoot
  BY <1>1, Arrival
<1>2. /\ o \in Roots /\ writeQueue' = writeQueue /\ lastCall'[o] = c
      /\ \A r \in Roots \ {o} : lastCall'[r] = lastCall[r]
  BY <1>1, Arrival DEF CQueue, CkptTypeOK, ClearCalled
<1>3. \A r \in Roots : InFlight(r)' = InFlight(r) \cup (IF r = o THEN {c} ELSE {})
  BY <1>1, Arrival DEF InFlight
<1>4. ASSUME NEW r \in Roots, r # o
      PROVE  Latest(r)'
  <2>1. (r \in overlapped' <=> r \in overlapped) /\ (r \in failed' <=> r \in failed)
    BY <1>1, <1>4 DEF Called, Overlaps
  <2>2. lastCall[r] \in Calls => lastCall[r] # c \/ lastCall[r] = None
    BY <1>1, <1>4, Arrival DEF CLatest, Latest
  <2>3. ckptFile' = ckptFile /\ InFlight(r)' = InFlight(r)
    BY <1>1, <1>3, <1>4, Arrival
  <2>4. lastCall[r] \in Clears => lastCall[r] \in Calls
    BY DEF Calls
  <2> QED BY <1>1, <1>2, <1>4, <2>1, <2>2, <2>3, <2>4, Arrival DEF CLatest, Latest
<1>5. Latest(o)'
  <2>1. callRoot'[c] = o /\ callAt'[c] = "unlink"
    BY <1>1, Arrival
  <2>2. ASSUME o \notin overlapped'
        PROVE  writeQueue[o] = <<>> /\ InFlight(o) = {}
    <3>1. InFlight(o) = {}
      BY <1>1, <2>2, <1>2 DEF Called, Overlaps
    <3> QED BY <1>2, <3>1, QueueInFlight
  <2> QED BY <1>1, <1>2, <1>3, <2>1, <2>2 DEF Latest
<1> QED BY <1>4, <1>5 DEF CLatest

\* A step that changes neither queues nor files, nor makes calls of the past.
LEMMA LatestStays ==
  ASSUME CLatest, NEW r \in Roots,
         UNCHANGED <<ckptFile, writeQueue, callRoot, lastCall, failed>>,
         overlapped \subseteq overlapped',
         \A c \in Calls : /\ callAt'[c] = "idle" <=> callAt[c] = "idle"
                          /\ callAt'[c] = "unlink" <=> callAt[c] = "unlink"
                          /\ callAt[c] = "done" => callAt'[c] = "done"
  PROVE  Latest(r)'
<1>1. InFlight(r)' \subseteq InFlight(r) /\ Clears \subseteq Calls
  BY DEF InFlight, Calls
<1> QED BY <1>1 DEF CLatest, Latest

LEMMA LatestKeptByRest ==
  ASSUME CQueue, CLatest, NEW c \in Clears \cup Loads,
         \/ c \in Loads /\ (LoadCalled(c) \/ ReadCheckpoint(c))
         \/ WriteLegacy(c)
         \/ c \in Clears /\ ReadLegacy(c)
  PROVE  CLatest'
<1>1. CASE c \in Loads /\ LoadCalled(c)
  <2>1. Called(c, "read") /\ "read" \in CallPhase /\ c \in Calls /\ c \notin Clears
    BY <1>1, CheckpointAssumption DEF LoadCalled, CallPhase, Calls
  <2>2. UNCHANGED <<ckptFile, writeQueue, lastCall, failed, overlapped>>
    BY <1>1, <2>1 DEF LoadCalled, Called, Overlaps
  <2>3. ASSUME NEW r \in Roots
        PROVE  /\ lastCall[r] # None => lastCall[r] # c
               /\ Clears \cap InFlight(r)' = Clears \cap InFlight(r)
    BY <2>1, Arrival DEF CLatest, Latest, InFlight, Calls
  <2> QED BY <2>1, <2>2, <2>3, Arrival DEF CLatest, Latest, Calls
<1>2. CASE c \in Loads /\ ReadCheckpoint(c)
  BY <1>2, LatestStays DEF CQueue, CkptTypeOK, ReadCheckpoint, CLatest
<1>3. CASE WriteLegacy(c)
  BY <1>3, LatestStays DEF CQueue, CkptTypeOK, WriteLegacy, CLatest
<1>4. CASE c \in Clears /\ ReadLegacy(c)
  <2>1. UNCHANGED writeQueue /\ overlapped \subseteq overlapped'
    BY <1>4, CheckpointAssumption DEF ReadLegacy, AfterLegacy
  <2> QED BY <1>4, <2>1, CheckpointAssumption, LatestStays
          DEF CQueue, CkptTypeOK, ReadLegacy, AfterLegacy, CLatest
<1> QED BY <1>1, <1>2, <1>3, <1>4

LEMMA LatestKeptByUnlink ==
  ASSUME CQueue, CLatest, NEW c \in Clears, Unlink(c)
  PROVE  CLatest'
<1>1. c \in Calls /\ callRoot[c] \in Roots /\ c \in InFlight(callRoot[c])
  BY DEF Calls, CQueue, Unlink, InFlight
<1>2. /\ UNCHANGED <<writeQueue, callRoot, lastCall, overlapped>>
      /\ \A d \in Calls : callAt'[d] = IF d = c THEN "readLegacy" ELSE callAt[d]
      /\ callAt[c] = "unlink"
      /\ \A r \in Roots \ {callRoot[c]} :
           ckptFile'[r] = ckptFile[r] /\ (r \in failed' <=> r \in failed)
      /\ callRoot[c] \notin failed' => /\ ckptFile'[callRoot[c]] = None
                                       /\ callRoot[c] \notin failed
  BY <1>1 DEF CQueue, CkptTypeOK, Unlink
<1>3. ASSUME NEW r \in Roots
      PROVE  Latest(r)'
  <2>1. InFlight(r)' = InFlight(r)
    BY <1>2 DEF InFlight
  <2>2. CASE r # callRoot[c]
    <3>1. lastCall[r] # None => lastCall[r] # c
      BY <2>2 DEF CLatest, Latest
    <3>2. lastCall[r] \in Clears => lastCall[r] # None
      BY CheckpointAssumption DEF Calls
    <3> QED BY <1>2, <2>1, <2>2, <3>1, <3>2 DEF CLatest, Latest
  <2>3. CASE r = callRoot[c]
    <3>1. r \notin overlapped => lastCall[r] = c /\ c \notin Saves
      BY <1>1, <2>3, CheckpointAssumption DEF CLatest, Latest
    <3> QED BY <1>1, <1>2, <2>1, <2>3, <3>1 DEF CLatest, Latest
  <2> QED BY <2>2, <2>3
<1> QED BY <1>3 DEF CLatest

LEMMA LatestKeptByMigration ==
  ASSUME CQueue, CLatest, NEW l \in Loads, ReadLegacy(l)
  PROVE  CLatest'
<1>1. l \in Calls /\ l \notin Clears /\ callRoot[l] \in Roots
  BY CheckpointAssumption DEF Calls, CQueue, ReadLegacy
<1>2. CASE callRoot[l] \notin legacyFile
  BY <1>1, <1>2, LatestStays
  DEF CQueue, CkptTypeOK, ReadLegacy, AfterLegacy, CLatest
<1>3. CASE callRoot[l] \in legacyFile
  <2>1. /\ UNCHANGED <<ckptFile, callRoot, lastCall, failed>>
        /\ \A d \in Calls : callAt'[d] = IF d = l THEN "queued" ELSE callAt[d]
        /\ callAt[l] = "readLegacy"
        /\ \A r \in Roots \ {callRoot[l]} : writeQueue'[r] = writeQueue[r]
        /\ overlapped' = overlapped \cup {callRoot[l]}
    BY <1>1, <1>3 DEF CQueue, CkptTypeOK, ReadLegacy, AfterLegacy
  <2>2. ASSUME NEW r \in Roots
        PROVE  Latest(r)'
    <3>1. InFlight(r)' = InFlight(r) /\ Clears \subseteq Calls
      BY <2>1 DEF InFlight, Calls
    <3> QED BY <1>1, <2>1, <3>1 DEF CLatest, Latest
  <2> QED BY <2>2 DEF CLatest
<1> QED BY <1>2, <1>3

LEMMA LatestKeptByWrite ==
  ASSUME CQueue, CLatest, NEW r \in Roots, WriteDone(r) \/ WriteFails(r)
  PROVE  CLatest'
<1> PICK c : c = Head(writeQueue[r])
  OBVIOUS
<1>1. /\ writeQueue[r] \in Seq(Saves \cup Loads) /\ writeQueue[r] # <<>>
      /\ c \in Saves \cup Loads /\ c \in Calls /\ c \notin Clears
      /\ callAt[c] = "queued" /\ callRoot[c] = r
      /\ UNCHANGED <<callRoot, lastCall, overlapped>>
  BY QueueShape, CheckpointAssumption
  DEF CQueue, CQueued, CkptTypeOK, WriteDone, WriteFails, Calls
<1>2. /\ callAt'[c] = IF c \in Loads THEN "writeLegacy" ELSE "done"
      /\ \A d \in Calls \ {c} : callAt'[d] = callAt[d]
      /\ writeQueue'[r] = Tail(writeQueue[r])
      /\ \A q \in Roots \ {r} : /\ writeQueue'[q] = writeQueue[q]
                               /\ ckptFile'[q] = ckptFile[q]
                               /\ (q \in failed' <=> q \in failed)
      /\ r \notin failed' => ckptFile'[r] = Content(c) /\ r \notin failed
  BY <1>1 DEF CQueue, CkptTypeOK, WriteDone, WriteFails, Answered
<1>3. \A q \in Roots : Clears \cap InFlight(q)' = Clears \cap InFlight(q)
  BY <1>1, <1>2 DEF InFlight, Calls
<1>4. \A q \in Roots : /\ lastCall[q] \in Clears => callAt'[lastCall[q]] = callAt[lastCall[q]]
                       /\ lastCall[q] \in Calls /\ callAt[lastCall[q]] # "idle"
                          => callAt'[lastCall[q]] # "idle"
  BY <1>1, <1>2 DEF Calls
<1>5. ASSUME NEW q \in Roots, q # r
      PROVE  Latest(q)'
  <2>1. /\ writeQueue'[q] = writeQueue[q] /\ ckptFile'[q] = ckptFile[q]
        /\ (q \in failed' <=> q \in failed)
    <3>1. q \in Roots \ {r}
      BY <1>5
    <3> QED BY <1>2, <3>1
  <2>2. Latest(q)
    BY DEF CLatest
  <2>3. Clears \cap InFlight(q)' = Clears \cap InFlight(q)
    BY <1>3
  <2>4. /\ lastCall[q] \in Clears => callAt'[lastCall[q]] = callAt[lastCall[q]]
        /\ lastCall[q] \in Calls /\ callAt[lastCall[q]] # "idle"
           => callAt'[lastCall[q]] # "idle"
    BY <1>4
  <2>5. UNCHANGED <<callRoot, lastCall, overlapped>>
    BY <1>1
  <2> QED BY <2>1, <2>2, <2>3, <2>4, <2>5 DEF Latest
<1>6. Latest(r)'
  <2>1. /\ Len(writeQueue[r]) \in Nat \ {0} /\ c = writeQueue[r][1]
        /\ Len(writeQueue'[r]) = Len(writeQueue[r]) - 1
        /\ \A i \in 1..Len(writeQueue[r]) - 1 : writeQueue'[r][i] = writeQueue[r][i + 1]
        /\ writeQueue'[r] = <<>> <=> Len(writeQueue[r]) = 1
    <3>1. Tail(writeQueue[r]) \in Seq(Saves \cup Loads)
      BY <1>1
    <3>2. /\ Len(writeQueue[r]) \in Nat \ {0} /\ c = writeQueue[r][1]
          /\ Len(Tail(writeQueue[r])) = Len(writeQueue[r]) - 1
          /\ \A i \in 1..Len(writeQueue[r]) - 1 :
               Tail(writeQueue[r])[i] = writeQueue[r][i + 1]
      BY <1>1
    <3>3. Tail(writeQueue[r]) = <<>> <=> Len(Tail(writeQueue[r])) = 0
      BY <3>1, EmptyQueue
    <3>4. writeQueue'[r] = Tail(writeQueue[r])
      BY <1>2
    <3> QED BY <3>2, <3>3, <3>4
  <2>2. r \notin overlapped =>
          /\ \A i \in 1..Len(writeQueue'[r]) : writeQueue'[r][i] \in Saves
          /\ lastCall[r] \notin Clears
    <3>1. /\ Latest(r) /\ UNCHANGED lastCall /\ writeQueue[r] # <<>>
      BY <1>1 DEF CLatest
    <3> QED BY <2>1, <3>1 DEF Latest
  <2>3. r \notin overlapped \cup failed' /\ lastCall[r] \in Saves =>
          \/ writeQueue'[r] = <<>> /\ ckptFile'[r] = lastCall[r]
          \/ /\ writeQueue'[r] # <<>>
             /\ writeQueue'[r][Len(writeQueue'[r])] = lastCall[r]
    BY <1>1, <1>2, <2>1 DEF CLatest, Latest, Content
  <2> QED BY <1>1, <1>3, <1>4, <2>2, <2>3 DEF CLatest, Latest
<1> QED BY <1>5, <1>6 DEF CLatest

LEMMA LatestInvariant == CkptSpec => []CLatest
<1>1. ProjectInit /\ CkptInit => CLatest
  <2> SUFFICES ASSUME CkptInit, NEW r \in Roots
               PROVE  Latest(r)
    BY DEF CLatest
  <2>1. /\ writeQueue[r] = <<>> /\ Len(writeQueue[r]) = 0 /\ lastCall[r] = None
        /\ InFlight(r) = {} /\ None \notin Saves \cup Clears
    BY CheckpointAssumption DEF CkptInit, InFlight, Calls
  <2> QED BY <2>1 DEF Latest
<1>2. CQueue /\ CLatest /\ [CkptNext]_<<projectVars, ckptVars>> => CLatest'
  <2> SUFFICES ASSUME CQueue, CLatest, [CkptNext]_<<projectVars, ckptVars>>
               PROVE  CLatest'
    OBVIOUS
  <2>1. CASE Restarts /\ CkptRestarted
    <3>1. ASSUME NEW r \in Roots
          PROVE  Latest(r)'
      <4>1. InFlight(r)' = {} /\ writeQueue'[r] = <<>> /\ Len(writeQueue'[r]) = 0
        BY <2>1 DEF CkptRestarted, InFlight
      <4>2. r \notin failed' => /\ r \notin failed /\ InFlight(r) = {}
                               /\ writeQueue[r] = <<>>
        BY <2>1, QueueInFlight DEF CkptRestarted
      <4>3. lastCall[r] \in Calls /\ callRoot[lastCall[r]] = r /\ InFlight(r) = {}
            => callAt[lastCall[r]] # "unlink"
        BY DEF InFlight
      <4> QED BY <2>1, <4>1, <4>2, <4>3, CheckpointAssumption
              DEF CLatest, Latest, CkptRestarted, Calls
    <3> QED BY <3>1 DEF CLatest
  <2>2. CASE UNCHANGED ckptVars
    BY <2>2 DEF CLatest, Latest, InFlight, ckptVars
  <2> QED BY <2>1, <2>2, CkptSteps, LatestKeptBySave, LatestKeptByClear,
             LatestKeptByRest, LatestKeptByUnlink, LatestKeptByMigration,
             LatestKeptByWrite DEF CkptCall, CkptWork
<1> QED BY <1>1, <1>2, QueueInvariant, PTL DEF CkptSpec

(* What a project keeps, once its calls are answered, is what was asked    *)
(* for last, for any number of overlapping saves, any number of projects   *)
(* and any restarts between them (enqueueSerializedWrite).                 *)
THEOREM LastSaveStands == CkptSpec => []LastCallStands
<1>1. CQueue /\ CLatest => LastCallStands
  <2> SUFFICES ASSUME CQueue, CLatest, NEW r \in Roots, InFlight(r) = {},
                      r \notin overlapped \cup failed, lastCall[r] # None
               PROVE  ckptFile[r] = IF lastCall[r] \in Saves THEN lastCall[r] ELSE None
    BY DEF LastCallStands
  <2>1. writeQueue[r] = <<>> /\ callAt[lastCall[r]] # "unlink"
    BY QueueInFlight DEF CLatest, Latest, InFlight
  <2>2. lastCall[r] \in Saves \cup Clears
    BY DEF CQueue, CkptTypeOK
  <2> QED BY <2>1, <2>2 DEF CLatest, Latest
<1> QED BY <1>1, QueueInvariant, LatestInvariant, PTL

-----------------------------------------------------------------------------
(* The index.  A job that works on a scan has one, and it is of the job's  *)
(* project unless that one is no longer open.                              *)

HasScan == {"scan", "fix", "delta", "stamp", "save"}

Fits(b) ==
  /\ b \in Job
  /\ b.kind \in HasScan => b.scan \in Scan
  /\ b.kind # "free" => b.root \in Roots

\* A flush that is under way has files to report.
Takes == \A k \in Flushes : flush[k].root # None => flush[k].files # {}

IShape ==
  /\ IndexTypeOK
  /\ \A j \in Jobs : Fits(job[j])
  /\ Takes

\* A probe has found a manifest, and manifests are not deleted.
Probes == \A j \in Jobs : job[j].kind = "probe" => manifest[job[j].root] \in Manifests

LEMMA JobChanged ==
  ASSUME IShape, NEW j \in Jobs, NEW b, Fits(b), job' = [job EXCEPT ![j] = b]
  PROVE  job' \in [Jobs -> Job] /\ \A i \in Jobs : Fits(job'[i])
  BY DEF IShape, IndexTypeOK, Fits

LEMMA ZeroVersion == Nothing \in Versions /\ 0 \in 0..MaxChanges + 1
  BY IndexAssumption DEF Nothing, Versions

LEMMA IdleFits ==
  /\ Fits(Idle)
  /\ \A r \in Roots, kind \in {"load", "over"} : Fits([Idle EXCEPT !.kind = kind, !.root = r])
  BY ZeroVersion DEF Fits, Idle, Job, JobKind, HasScan

LEMMA EndedFits ==
  ASSUME IShape, NEW j \in Jobs, job[j].kind # "free"
  PROVE  Fits(Ended(j))
<1>1. job[j].root \in Roots /\ Ended(j) = [Idle EXCEPT !.kind = "over", !.root = job[j].root]
  BY DEF IShape, Fits, Ended
<1> QED BY <1>1, IdleFits

\* The steps of a job that change nothing of it but its phase and its scan.
LEMMA ScanBegins ==
  ASSUME IShape, NEW j \in Jobs, job[j].kind # "free", BeginsScan(j)
  PROVE  job' \in [Jobs -> Job] /\ \A i \in Jobs : Fits(job'[i])
<1> DEFINE b == [job[j] EXCEPT !.kind = "scan", !.todo = Files,
                               !.scan = [of |-> job[j].root, files |-> Nothing]]
<1>1. Fits(job[j]) /\ job[j] \in Job
  BY DEF IShape, Fits
<1>2. Fits(b)
  BY <1>1, ZeroVersion DEF Fits, Job, JobKind, HasScan, Scan
<1>3. job' = [job EXCEPT ![j] = b]
  BY DEF BeginsScan
<1> QED BY <1>2, <1>3, JobChanged

\* One field of a job changes.
LEMMA JobKeepsShape ==
  ASSUME IShape, NEW j \in Jobs, job[j].kind # "free", NEW kind \in JobKind \ HasScan
  PROVE  LET b == [job[j] EXCEPT !.kind = kind]
         IN  /\ Fits(b)
             /\ Fits([job[j] EXCEPT !.kind = kind, !.validates = TRUE])
<1>1. Fits(job[j]) /\ job[j] \in Job
  BY DEF IShape, Fits
<1> QED BY <1>1 DEF Fits, Job

LEMMA AppliesFits ==
  ASSUME IShape, NEW j \in Jobs, job[j].kind # "free", currentScan # None,
         NEW kind \in {"fix", "delta"}, Applies(j, kind)
  PROVE  job' \in [Jobs -> Job] /\ \A i \in Jobs : Fits(job'[i])
<1> DEFINE gone == {f \in job[j].touches : job[j].stamps[f] = 0}
           scan == [of |-> currentScan.of,
                    files |-> [f \in Files |->
                                 IF f \in gone THEN 0 ELSE currentScan.files[f]]]
           b == [job[j] EXCEPT !.kind = kind, !.todo = job[j].touches \ gone,
                               !.scan = scan]
<1>1. Fits(job[j]) /\ job[j] \in Job /\ currentScan \in Scan
  BY DEF IShape, IndexTypeOK, Fits
<1>2. scan \in Scan
  BY <1>1, ZeroVersion DEF Scan, Versions
<1>3. job[j].touches \ gone \subseteq Files
  BY <1>1 DEF Job
<1>4. Fits(b)
  <2> HIDE DEF scan, gone
  <2> QED BY <1>1, <1>2, <1>3 DEF Fits, Job, JobKind, HasScan
<1>5. job' = [job EXCEPT ![j] = b]
  BY DEF Applies
<1> HIDE DEF b
<1> QED BY <1>4, <1>5, JobChanged

LEMMA ShapeKeptByOpening ==
  ASSUME IShape
  PROVE  /\ \A r \in Roots : IndexOpened(r) => IShape'
         /\ IndexRestarted => IShape'
<1>1. StopIndex => /\ watchers' \subseteq Jobs /\ stopWatcher' = None
                   /\ touched' \in [Roots -> SUBSET Files]
                   /\ currentScan' = None /\ validating' = FALSE /\ deltaTail' = None
  BY DEF IShape, IndexTypeOK, StopIndex
<1>2. ASSUME NEW r \in Roots, IndexOpened(r)
      PROVE  IShape'
  <2>1. PICK j \in Jobs : job' = [job EXCEPT ![j] = [Idle EXCEPT !.kind = "load", !.root = r]]
    BY <1>2 DEF IndexOpened
  <2>2. job' \in [Jobs -> Job] /\ \A i \in Jobs : Fits(job'[i])
    BY <2>1, IdleFits, JobChanged
  <2>3. UNCHANGED <<disk, changes, manifest, flush, missed>> /\ indexRoot' = r
    BY <1>2 DEF IndexOpened
  <2>4. StopIndex
    BY <1>2 DEF IndexOpened
  <2> QED BY <1>1, <2>2, <2>3, <2>4 DEF IShape, IndexTypeOK, Takes
<1>3. ASSUME IndexRestarted
      PROVE  IShape'
  <2>1. \A i \in Jobs : Fits(IF job[i].kind = "free" THEN Idle ELSE Ended(i))
    BY IdleFits, EndedFits
  <2>2. job' \in [Jobs -> Job] /\ \A i \in Jobs : Fits(job'[i])
    BY <1>3, <2>1 DEF IndexRestarted, Fits
  <2>3. flush' \in [Flushes -> Flush] /\ Takes'
    BY <1>3 DEF IndexRestarted, Flush, NoFlush, Takes
  <2> QED BY <1>1, <1>3, <2>2, <2>3 DEF IShape, IndexTypeOK, IndexRestarted
<1> QED BY <1>2, <1>3

LEMMA ShapeKeptByJob ==
  ASSUME IShape, Probes, NEW j \in Jobs,
         \/ Loaded(j) \/ Probed(j) \/ ManifestRead(j) \/ Checked(j) \/ Commit(j)
         \/ ScanFails(j) \/ Stamp(j) \/ Save(j) \/ SaveFails(j) \/ DeltaStarts(j)
  PROVE  IShape'
<1>1. /\ Fits(job[j]) /\ job[j] \in Job
      /\ job[j].kind # "free" => job[j].root \in Roots /\ Fits(Ended(j))
  BY EndedFits DEF IShape, IndexTypeOK, Fits
<1>2. ASSUME job' \in [Jobs -> Job] /\ \A i \in Jobs : Fits(job'[i]),
             UNCHANGED <<disk, changes, manifest, indexRoot, deltaTail, touched, flush>>,
             currentScan' \in Scan \cup {None}, validating' \in BOOLEAN,
             watchers' \subseteq Jobs, stopWatcher' \in watchers' \cup {None}
      PROVE  IShape'
  BY <1>2 DEF IShape, IndexTypeOK, Takes
<1>3. ASSUME Over(j), job[j].kind # "free"
      PROVE  /\ job' \in [Jobs -> Job] /\ \A i \in Jobs : Fits(job'[i])
             /\ validating' \in BOOLEAN
  BY <1>1, <1>3, JobChanged DEF Over, IShape, IndexTypeOK
<1>4. ASSUME ServesManifest(j), job[j].kind # "free", manifest[job[j].root] \in Manifests
      PROVE  /\ job' \in [Jobs -> Job] /\ \A i \in Jobs : Fits(job'[i])
             /\ validating' \in BOOLEAN /\ currentScan' \in Scan
  <2>1. Fits([job[j] EXCEPT !.kind = "manifest", !.validates = TRUE])
    BY <1>4, JobKeepsShape DEF JobKind, HasScan
  <2>2. currentScan' \in Scan /\ validating' \in BOOLEAN
    BY <1>1, <1>4 DEF ServesManifest, Manifests, IShape, IndexTypeOK
  <2>3. \/ job' = [job EXCEPT ![j] = Ended(j)]
        \/ job' = [job EXCEPT ![j] = [job[j] EXCEPT !.kind = "manifest", !.validates = TRUE]]
    BY <1>4 DEF ServesManifest
  <2> QED BY <1>1, <1>4, <2>1, <2>2, <2>3, JobChanged
<1>5. ASSUME job[j].kind # "free"
      PROVE  manifest[job[j].root] # None => manifest[job[j].root] \in Manifests
  BY <1>1, <1>5 DEF IShape, IndexTypeOK
<1>6. StartWatcher(j) => watchers' \subseteq Jobs /\ stopWatcher' \in watchers' \cup {None}
  BY DEF StartWatcher, IShape, IndexTypeOK
<1>7. CASE Loaded(j)
  <2>1. UNCHANGED <<disk, changes, manifest, indexRoot, deltaTail, touched, flush>>
    BY <1>7 DEF Loaded
  <2>2. Fits([job[j] EXCEPT !.kind = "probe"])
    BY <1>7, JobKeepsShape DEF Loaded, JobKind, HasScan
  <2>3. job' \in [Jobs -> Job] /\ \A i \in Jobs : Fits(job'[i])
    <3>1. CASE job' = [job EXCEPT ![j] = Ended(j)] \/ job' = [job EXCEPT ![j].kind = "probe"]
      BY <1>1, <1>7, <2>2, <3>1, JobChanged DEF Loaded
    <3>2. CASE BeginsScan(j)
      BY <1>7, <3>2, ScanBegins DEF Loaded
    <3>3. CASE ServesManifest(j) /\ manifest[job[j].root] # None
      BY <1>4, <1>5, <1>7, <3>3 DEF Loaded
    <3> QED BY <1>7, <3>1, <3>2, <3>3 DEF Loaded
  <2>4. currentScan' \in Scan \cup {None} /\ validating' \in BOOLEAN
    BY <1>4, <1>5, <1>7 DEF Loaded, IShape, IndexTypeOK
  <2>5. watchers' \subseteq Jobs /\ stopWatcher' \in watchers' \cup {None}
    BY <1>6, <1>7 DEF Loaded, IShape, IndexTypeOK
  <2> QED BY <1>2, <2>1, <2>3, <2>4, <2>5
<1>8. CASE Probed(j)
  <2>1. manifest[job[j].root] \in Manifests /\ job[j].kind # "free"
    BY <1>8 DEF Probed, Probes
  <2>2. UNCHANGED <<disk, changes, manifest, indexRoot, deltaTail, touched, flush>>
    BY <1>8 DEF Probed
  <2>3. watchers' \subseteq Jobs /\ stopWatcher' \in watchers' \cup {None}
    BY <1>6, <1>8 DEF Probed, IShape, IndexTypeOK
  <2>4. CASE BeginsScan(j) /\ UNCHANGED <<currentScan, validating>>
    BY <1>2, <2>1, <2>2, <2>3, <2>4, ScanBegins DEF IShape, IndexTypeOK
  <2>5. CASE ServesManifest(j)
    BY <1>2, <1>4, <2>1, <2>2, <2>3, <2>5
  <2> QED BY <1>8, <2>4, <2>5 DEF Probed
<1>9. CASE ManifestRead(j)
  <2>1. CASE Over(j)
    BY <1>2, <1>3, <1>9, <2>1 DEF ManifestRead, IShape, IndexTypeOK
  <2>2. CASE ~Over(j)
    <3> DEFINE stamps == manifest[job[j].root].stamps
               todo == {f \in Files : Listed(job[j].root, f)}
               b == [job[j] EXCEPT !.kind = "check", !.stamps = stamps, !.todo = todo]
    <3>1. stamps \in Versions /\ todo \subseteq Files
      BY <1>1, <1>9, <2>2 DEF ManifestRead, Manifests, IShape, IndexTypeOK
    <3>2. Fits(b)
      <4> HIDE DEF stamps, todo
      <4> QED BY <1>1, <3>1, <1>9 DEF ManifestRead, Fits, Job, JobKind, HasScan
    <3>3. job' = [job EXCEPT ![j] = b] /\ UNCHANGED validating
      BY <1>9, <2>2 DEF ManifestRead
    <3> HIDE DEF b
    <3>4. job' \in [Jobs -> Job] /\ \A i \in Jobs : Fits(job'[i])
      BY <3>2, <3>3, JobChanged
    <3> QED BY <1>2, <1>9, <3>3, <3>4 DEF ManifestRead, IShape, IndexTypeOK
  <2> QED BY <2>1, <2>2
<1>10. CASE Checked(j)
  <2>1. /\ UNCHANGED <<disk, changes, manifest, indexRoot, currentScan, deltaTail,
                       watchers, stopWatcher, touched, flush>>
        /\ job[j].kind = "check"
    BY <1>10 DEF Checked
  <2>2. CASE Over(j)
    BY <1>2, <1>3, <2>1, <2>2 DEF IShape, IndexTypeOK
  <2>3. CASE Applies(j, "fix") /\ currentScan # None /\ UNCHANGED validating
    BY <1>2, <2>1, <2>3, AppliesFits DEF IShape, IndexTypeOK
  <2>4. CASE BeginsScan(j) /\ UNCHANGED validating
    BY <1>2, <2>1, <2>4, ScanBegins DEF IShape, IndexTypeOK
  <2> QED BY <1>10, <2>2, <2>3, <2>4 DEF Checked
<1>11. CASE Commit(j)
  <2>1. CASE Over(j) /\ UNCHANGED currentScan
    BY <1>2, <1>3, <1>11, <2>1 DEF Commit, IShape, IndexTypeOK
  <2>2. CASE ~(Over(j) /\ UNCHANGED currentScan)
    <3>1. /\ currentScan' = job[j].scan /\ UNCHANGED validating
          /\ job' = [job EXCEPT ![j] = [job[j] EXCEPT !.kind = "stamp"]]
      BY <1>11, <2>2 DEF Commit
    <3>2. Fits([job[j] EXCEPT !.kind = "stamp"]) /\ job[j].scan \in Scan
      BY <1>1, <1>11 DEF Commit, Fits, Job, JobKind, HasScan
    <3>3. job' \in [Jobs -> Job] /\ \A i \in Jobs : Fits(job'[i])
      BY <3>1, <3>2, JobChanged
    <3> QED BY <1>2, <1>11, <3>1, <3>2, <3>3 DEF Commit, IShape, IndexTypeOK
  <2> QED BY <2>1, <2>2
<1>12. CASE ScanFails(j) \/ SaveFails(j)
  BY <1>2, <1>3, <1>12 DEF ScanFails, SaveFails, IShape, IndexTypeOK
<1>13. CASE Stamp(j)
  <2> DEFINE b(lost) == [job[j] EXCEPT !.kind = "save", !.stamps = Stamps(j, lost)]
  <2>1. disk[job[j].root] \in Versions
    BY <1>1, <1>13 DEF Stamp, IShape, IndexTypeOK
  <2>2. \A lost : Stamps(j, lost) \in Versions
    BY <2>1, ZeroVersion DEF Versions, Stamps
  <2>3. PICK lost : job' = [job EXCEPT ![j] = b(lost)]
    BY <1>13 DEF Stamp
  <2>4. Fits(b(lost))
    BY <1>1, <1>13, <2>2 DEF Stamp, Fits, Job, JobKind, HasScan
  <2>5. changes' \in 0..MaxChanges
    <3>1. UNCHANGED changes \/ (changes < MaxChanges /\ changes' = changes + 1)
      BY <1>13, Zenon DEF Stamp
    <3> QED BY <3>1, IndexAssumption DEF IShape, IndexTypeOK
  <2> HIDE DEF b
  <2>6. job' \in [Jobs -> Job] /\ \A i \in Jobs : Fits(job'[i])
    BY <2>3, <2>4, JobChanged
  <2> QED BY <1>13, <2>5, <2>6 DEF Stamp, IShape, IndexTypeOK, Takes
<1>14. CASE Save(j)
  <2>1. manifest' \in [Roots -> Manifests \cup {None}]
    <3>1. job[j].scan \in Scan /\ job[j].stamps \in Versions
      BY <1>1, <1>14 DEF Save, Fits, HasScan, Job
    <3> QED BY <1>14, <3>1 DEF Save, Manifests, IShape, IndexTypeOK
  <2>2. /\ job' \in [Jobs -> Job] /\ \A i \in Jobs : Fits(job'[i])
        /\ validating' \in BOOLEAN
    BY <1>3, <1>14 DEF Save
  <2> QED BY <1>14, <2>1, <2>2 DEF Save, IShape, IndexTypeOK, Takes
<1>15. CASE DeltaStarts(j)
  <2>1. CASE Over(j)
    BY <1>2, <1>3, <1>15, <2>1 DEF DeltaStarts, IShape, IndexTypeOK
  <2>2. CASE currentScan # None /\ Applies(j, "delta") /\ UNCHANGED validating
    BY <1>2, <1>15, <2>2, AppliesFits DEF DeltaStarts, IShape, IndexTypeOK
  <2> QED BY <1>15, <2>1, <2>2 DEF DeltaStarts
<1> QED BY <1>7, <1>8, <1>9, <1>10, <1>11, <1>12, <1>13, <1>14, <1>15

\* The steps of a flush but its last.
FlushMoves ==
  \/ \E r \in Roots : FlushBegins(r)
  \/ \E k \in Flushes, f \in Files : StatTouched(k, f)

\* What a flush has taken is still to be reported.
LEMMA FlushFrame ==
  ASSUME IndexTypeOK, FlushMoves
  PROVE  /\ UNCHANGED <<disk, manifest, indexRoot, currentScan, validating, deltaTail,
                        watchers, stopWatcher, job, crossed, missed>>
         /\ \A r \in Roots, f \in Files : Unreported(r, f)' <=> Unreported(r, f)
<1>1. UNCHANGED <<disk, manifest, indexRoot, currentScan, validating, deltaTail,
                  watchers, stopWatcher, job, crossed, missed>>
  BY DEF FlushMoves, FlushBegins, StatTouched
<1>2. ASSUME NEW r \in Roots, FlushBegins(r), NEW q \in Roots, NEW f \in Files
      PROVE  Unreported(q, f)' <=> Unreported(q, f)
  <2> PICK k \in Flushes :
        /\ flush[k].root = None
        /\ flush' = [flush EXCEPT ![k] = [NoFlush EXCEPT !.root = r, !.files = touched[r],
                                                        !.todo = touched[r]]]
    BY <1>2 DEF FlushBegins
  <2>1. /\ flush'[k].root = r /\ flush'[k].files = touched[r]
        /\ \A i \in Flushes \ {k} : flush'[i] = flush[i]
    BY DEF IndexTypeOK, NoFlush
  <2>2. touched'[q] = IF q = r THEN {} ELSE touched[q]
    BY <1>2 DEF FlushBegins, IndexTypeOK
  <2>3. Flushing(q, f)' <=> Flushing(q, f) \/ (q = r /\ f \in touched[r])
    BY <2>1, ProjectAssumption DEF Flushing
  <2> QED BY <2>2, <2>3 DEF Unreported
<1>3. ASSUME NEW k \in Flushes, NEW g \in Files, StatTouched(k, g),
             NEW r \in Roots, NEW f \in Files
      PROVE  Unreported(r, f)' <=> Unreported(r, f)
  <2>1. \A i \in Flushes : flush'[i].root = flush[i].root /\ flush'[i].files = flush[i].files
    <3>1. flush \in [Flushes -> Flush]
      BY DEF IndexTypeOK
    <3> QED BY <1>3, <3>1 DEF StatTouched, Flush
  <2>2. touched' = touched
    BY <1>3 DEF StatTouched
  <2> QED BY <2>1, <2>2 DEF Unreported, Flushing
<1> QED BY <1>1, <1>2, <1>3 DEF FlushMoves

LEMMA ShapeKeptByFlush ==
  ASSUME IShape, FlushMoves
  PROVE  IShape'
<1>1. UNCHANGED <<disk, manifest, indexRoot, currentScan, validating, deltaTail,
                  watchers, stopWatcher, job, crossed, missed>>
  BY FlushFrame DEF IShape
<1>2. flush \in [Flushes -> Flush] /\ touched \in [Roots -> SUBSET Files] /\ Takes
  BY DEF IShape, IndexTypeOK
<1>3. /\ flush' \in [Flushes -> Flush] /\ touched' \in [Roots -> SUBSET Files] /\ Takes'
      /\ changes' \in 0..MaxChanges
  <2>1. ASSUME NEW r \in Roots, FlushBegins(r)
        PROVE  /\ flush' \in [Flushes -> Flush] /\ touched' \in [Roots -> SUBSET Files]
               /\ Takes' /\ UNCHANGED changes
    <3> PICK k \in Flushes :
          flush' = [flush EXCEPT ![k] = [NoFlush EXCEPT !.root = r, !.files = touched[r],
                                                        !.todo = touched[r]]]
      BY <2>1 DEF FlushBegins
    <3>1. [NoFlush EXCEPT !.root = r, !.files = touched[r], !.todo = touched[r]] \in Flush
      BY <1>2 DEF NoFlush, Flush
    <3>2. touched[r] # {}
      BY <2>1 DEF FlushBegins
    <3> QED BY <1>2, <2>1, <3>1, <3>2 DEF FlushBegins, Takes, NoFlush
  <2>2. ASSUME NEW k \in Flushes, NEW f \in Files, StatTouched(k, f)
        PROVE  /\ flush' \in [Flushes -> Flush] /\ touched' \in [Roots -> SUBSET Files]
               /\ Takes' /\ changes' \in 0..MaxChanges
    <3> PICK version :
          /\ Finds(flush[k].root, f, version)
          /\ flush' = [flush EXCEPT ![k].todo = @ \ {f},
                                   ![k].deleted = IF version = 0 THEN @ \cup {f} ELSE @]
      BY <2>2 DEF StatTouched
    <3> DEFINE deleted == IF version = 0 THEN flush[k].deleted \cup {f} ELSE flush[k].deleted
               todo == flush[k].todo \ {f}
               b == [flush[k] EXCEPT !.todo = todo, !.deleted = deleted]
    <3>1. flush[k] \in Flush /\ deleted \subseteq Files /\ todo \subseteq Files
      BY <1>2 DEF Flush
    <3>2. b \in Flush /\ b.root = flush[k].root /\ b.files = flush[k].files
      <4> HIDE DEF deleted, todo
      <4> QED BY <3>1 DEF Flush
    <3>3. flush' = [flush EXCEPT ![k] = b]
      BY <1>2
    <3> HIDE DEF b
    <3>4. flush' \in [Flushes -> Flush] /\ Takes'
      BY <1>2, <3>2, <3>3 DEF Takes
    <3>5. changes' \in 0..MaxChanges
      BY IndexAssumption DEF Finds, IShape, IndexTypeOK
    <3> QED BY <1>2, <2>2, <3>4, <3>5 DEF StatTouched
  <2> QED BY <2>1, <2>2 DEF FlushMoves, IShape, IndexTypeOK
<1> QED BY <1>1, <1>3 DEF IShape, IndexTypeOK

LEMMA ShapeKeptByOthers ==
  ASSUME IShape,
         \/ \E j \in Jobs, f \in Files : ReadFile(j, f)
         \/ \E r \in Roots, f \in Files : FileChanges(r, f)
         \/ FlushMoves
         \/ \E k \in Flushes : FlushEnds(k)
         \/ RescanCalled
  PROVE  IShape'
<1>1. ASSUME NEW j \in Jobs, NEW f \in Files, ReadFile(j, f)
      PROVE  IShape'
  <2> PICK version \in {0, disk[job[j].root][f]} :
        /\ Finds(job[j].root, f, version)
        /\ job' = IF job[j].kind = "check"
                  THEN [job EXCEPT ![j].todo = @ \ {f}, ![j].stamps[f] = version,
                                   ![j].touches = IF version = job[j].stamps[f]
                                                  THEN @ ELSE @ \cup {f}]
                  ELSE [job EXCEPT ![j].todo = @ \ {f}, ![j].scan.files[f] = version]
    BY <1>1 DEF ReadFile
  <2> DEFINE todo == job[j].todo \ {f}
  <2>0. changes' \in 0..MaxChanges
    BY IndexAssumption DEF Finds, IShape, IndexTypeOK
  <2>1. /\ Fits(job[j]) /\ job[j] \in Job /\ job[j].root \in Roots
        /\ todo \subseteq Files /\ version \in 0..MaxChanges + 1
    <3>1. Fits(job[j]) /\ job[j] \in Job /\ job[j].root \in Roots
      BY <1>1 DEF ReadFile, IShape, Fits
    <3>2. todo \subseteq Files
      BY <3>1 DEF Job
    <3>3. disk[job[j].root] \in Versions
      BY <3>1 DEF IShape, IndexTypeOK
    <3> QED BY <3>1, <3>2, <3>3, ZeroVersion DEF Versions
  <2>2. CASE job[j].kind = "check"
    <3> DEFINE stamps == [job[j].stamps EXCEPT ![f] = version]
               touches == IF version = job[j].stamps[f] THEN job[j].touches
                          ELSE job[j].touches \cup {f}
               b == [job[j] EXCEPT !.todo = todo, !.stamps = stamps, !.touches = touches]
    <3>1. stamps \in Versions /\ touches \subseteq Files
      BY <2>1 DEF Job, Versions
    <3>2. Fits(b)
      <4> HIDE DEF stamps, touches, todo
      <4> QED BY <2>1, <2>2, <3>1 DEF Fits, Job, HasScan
    <3>3. job' = [job EXCEPT ![j] = b]
      BY <2>2
    <3> HIDE DEF b
    <3>4. job' \in [Jobs -> Job] /\ \A i \in Jobs : Fits(job'[i])
      BY <3>2, <3>3, JobChanged
    <3> QED BY <1>1, <2>0, <3>4 DEF ReadFile, IShape, IndexTypeOK, Takes
  <2>3. CASE job[j].kind # "check"
    <3> DEFINE scan == [job[j].scan EXCEPT !.files[f] = version]
               b == [job[j] EXCEPT !.todo = todo, !.scan = scan]
    <3>1. job[j].scan \in Scan
      BY <1>1, <2>1, <2>3 DEF ReadFile, Fits, HasScan
    <3>2. scan \in Scan
      BY <2>1, <3>1 DEF Scan, Versions
    <3>3. Fits(b)
      <4> HIDE DEF scan, todo
      <4> QED BY <2>1, <3>2 DEF Fits, Job, HasScan
    <3>4. job' = [job EXCEPT ![j] = b]
      BY <2>3
    <3> HIDE DEF b
    <3>5. job' \in [Jobs -> Job] /\ \A i \in Jobs : Fits(job'[i])
      BY <3>3, <3>4, JobChanged
    <3> QED BY <1>1, <2>0, <3>5 DEF ReadFile, IShape, IndexTypeOK, Takes
  <2> QED BY <2>2, <2>3
<1>2. ASSUME NEW k \in Flushes, FlushEnds(k)
      PROVE  IShape'
  <2>1. flush' \in [Flushes -> Flush] /\ Takes'
    BY <1>2 DEF FlushEnds, IShape, IndexTypeOK, Takes, Flush, NoFlush
  <2>2. CASE UNCHANGED <<job, deltaTail>>
    BY <1>2, <2>1, <2>2 DEF FlushEnds, IShape, IndexTypeOK
  <2>3. CASE ~UNCHANGED <<job, deltaTail>>
    <3> DEFINE stamps == [f \in Files |-> IF f \in flush[k].deleted THEN 0 ELSE 1]
               b(tail) == [Idle EXCEPT !.kind = "queued", !.root = flush[k].root,
                             !.touches = flush[k].files, !.stamps = stamps, !.before = tail]
    <3>1. PICK j \in Jobs : deltaTail' = j /\ job' = [job EXCEPT ![j] = b(deltaTail)]
      BY <1>2, <2>3 DEF FlushEnds, EnqueueDelta
    <3>2. flush[k].files \subseteq Files /\ flush[k].root \in Roots /\ stamps \in Versions
      <4>1. flush[k] \in Flush /\ flush[k].root # None
        BY <1>2 DEF FlushEnds, IShape, IndexTypeOK
      <4>2. 0 \in 0..MaxChanges + 1 /\ 1 \in 0..MaxChanges + 1
        BY IndexAssumption
      <4> QED BY <4>1, <4>2 DEF Flush, Versions
    <3>3. Fits(b(deltaTail))
      <4> HIDE DEF stamps
      <4> QED BY <3>2 DEF IShape, IndexTypeOK, Fits, Idle, Job, JobKind, HasScan
    <3> HIDE DEF b
    <3>4. job' \in [Jobs -> Job] /\ \A i \in Jobs : Fits(job'[i])
      BY <3>1, <3>3, JobChanged
    <3> QED BY <1>2, <2>1, <3>1, <3>4 DEF FlushEnds, IShape, IndexTypeOK
  <2> QED BY <2>2, <2>3
<1>3. ASSUME NEW r \in Roots, NEW f \in Files, FileChanges(r, f)
      PROVE  IShape'
  <2>1. changes \in Nat /\ changes < MaxChanges /\ changes' = changes + 1
    BY <1>3, IndexAssumption DEF FileChanges, IShape, IndexTypeOK
  <2>2. changes' \in 0..MaxChanges /\ {0, changes + 2} \subseteq 0..MaxChanges + 1
    BY <2>1, IndexAssumption
  <2>3. disk' \in [Roots -> Versions]
    BY <1>3, <2>2 DEF FileChanges, IShape, IndexTypeOK, Versions
  <2>4. touched' \in [Roots -> SUBSET Files]
    BY <1>3 DEF FileChanges, IShape, IndexTypeOK
  <2> QED BY <1>3, <2>2, <2>3, <2>4 DEF FileChanges, IShape, IndexTypeOK, Takes
<1>4. CASE RescanCalled
  <2> DEFINE b == [Idle EXCEPT !.kind = "scan", !.root = indexRoot, !.todo = Files,
                               !.scan = [of |-> indexRoot, files |-> Nothing]]
  <2>1. indexRoot \in Roots
    BY <1>4 DEF RescanCalled, IShape, IndexTypeOK
  <2>2. PICK j \in Jobs : job' = [job EXCEPT ![j] = b]
    BY <1>4 DEF RescanCalled
  <2>3. Fits(b)
    BY <2>1, ZeroVersion DEF Fits, Idle, Job, JobKind, HasScan, Scan
  <2> HIDE DEF b
  <2>4. job' \in [Jobs -> Job] /\ \A i \in Jobs : Fits(job'[i])
    BY <2>2, <2>3, JobChanged
  <2> QED BY <1>4, <2>4 DEF RescanCalled, IShape, IndexTypeOK, Takes
<1> QED BY <1>1, <1>2, <1>3, <1>4, ShapeKeptByFlush

JobStep(j) ==
  \/ Loaded(j) \/ Probed(j) \/ ManifestRead(j) \/ Checked(j) \/ Commit(j)
  \/ ScanFails(j) \/ Stamp(j) \/ Save(j) \/ SaveFails(j) \/ DeltaStarts(j)
  \/ \E f \in Files : ReadFile(j, f)

LEMMA IndexSteps ==
  ASSUME [IndexNext]_<<projectVars, indexVars>>
  PROVE  \/ \E j \in Jobs : JobStep(j)
         \/ \E r \in Roots, f \in Files : FileChanges(r, f)
         \/ FlushMoves
         \/ \E k \in Flushes : FlushEnds(k)
         \/ RescanCalled
         \/ \E r \in Roots : IndexOpened(r)
         \/ IndexRestarted
         \/ UNCHANGED indexVars
  BY DEF IndexNext, IndexStep, JobStep, FlushMoves

\* Once a project has been opened under its own jobs it stays so.
LEMMA CrossedKeptByJob ==
  ASSUME NEW j \in Jobs, JobStep(j)
  PROVE  crossed' = crossed
<1>1. CASE Loaded(j) \/ Probed(j) \/ ManifestRead(j) \/ Checked(j) \/ Commit(j)
  BY <1>1 DEF Loaded, Probed, ManifestRead, Checked, Commit
<1>2. CASE \/ ScanFails(j) \/ Stamp(j) \/ Save(j) \/ SaveFails(j) \/ DeltaStarts(j)
           \/ \E f \in Files : ReadFile(j, f)
  BY <1>2 DEF ScanFails, Stamp, Save, SaveFails, DeltaStarts, ReadFile
<1> QED BY <1>1, <1>2 DEF JobStep

LEMMA CrossedStays ==
  ASSUME [IndexNext]_<<projectVars, indexVars>>
  PROVE  crossed => crossed'
<1>1. ASSUME NEW j \in Jobs, JobStep(j)
      PROVE  crossed' = crossed
  BY <1>1, CrossedKeptByJob
<1>2. CASE \/ \E r \in Roots, f \in Files : FileChanges(r, f)
           \/ FlushMoves \/ \E k \in Flushes : FlushEnds(k)
  BY <1>2 DEF FlushMoves, FlushBegins, StatTouched, FlushEnds, FileChanges
<1>3. CASE RescanCalled \/ IndexRestarted \/ \E r \in Roots : IndexOpened(r)
  BY <1>3 DEF RescanCalled, IndexRestarted, IndexOpened
<1>4. CASE UNCHANGED indexVars
  BY <1>4 DEF indexVars
<1> QED BY <1>1, <1>2, <1>3, <1>4, IndexSteps

\* What a step makes of its job, as far as projects go.
Becomes(j, b) ==
  \/ b.kind \in {"over", "manifest", "check"}
  \/ b.kind = "scan" /\ b.scan.of = b.root
  \/ b.kind = "probe" /\ b.root = indexRoot /\ manifest[indexRoot] # None
     /\ indexRoot \in Roots
  \/ b.kind \in {"fix", "delta"} /\ currentScan # None /\ b.scan.of = currentScan.of
  \/ /\ b.kind = "stamp" /\ job[j].kind \in {"scan", "fix", "delta"}
     /\ b.scan = job[j].scan /\ b.root = job[j].root /\ b.root = indexRoot
  \/ /\ b.kind = "save" /\ job[j].kind = "stamp"
     /\ b.scan = job[j].scan /\ b.root = job[j].root
  \/ /\ b.kind = job[j].kind /\ b.root = job[j].root
     /\ b.scan.of = job[j].scan.of \/ b.kind \notin HasScan

LEMMA JobMoves ==
  ASSUME IShape, NEW j \in Jobs, JobStep(j)
  PROVE  Becomes(j, job'[j]) /\ \A i \in Jobs \ {j} : job'[i] = job[i]
<1> USE DEF Becomes
<1>1. job \in [Jobs -> Job] /\ Fits(job[j]) /\ job[j] \in Job
  BY DEF IShape, IndexTypeOK, Fits
<1>2. ASSUME job' = [job EXCEPT ![j] = Ended(j)]
      PROVE  Becomes(j, job'[j]) /\ \A i \in Jobs \ {j} : job'[i] = job[i]
  BY <1>1, <1>2 DEF Ended, Idle
<1>3. ASSUME BeginsScan(j)
      PROVE  Becomes(j, job'[j]) /\ \A i \in Jobs \ {j} : job'[i] = job[i]
  BY <1>1, <1>3 DEF BeginsScan, Job
<1>4. ASSUME ServesManifest(j)
      PROVE  Becomes(j, job'[j]) /\ \A i \in Jobs \ {j} : job'[i] = job[i]
  BY <1>1, <1>2, <1>4 DEF ServesManifest, Job
<1>5. ASSUME currentScan # None, Applies(j, "fix") \/ Applies(j, "delta")
      PROVE  Becomes(j, job'[j]) /\ \A i \in Jobs \ {j} : job'[i] = job[i]
  <2> PICK kind \in {"fix", "delta"} : Applies(j, kind)
    BY <1>5
  <2>1. job'[j].kind = kind /\ job'[j].scan.of = currentScan.of
    BY <1>1 DEF Applies, Job
  <2>2. \A i \in Jobs \ {j} : job'[i] = job[i]
    BY <1>1 DEF Applies
  <2> QED BY <1>5, <2>1, <2>2
<1>6. CASE Loaded(j)
  <2>1. CASE job' = [job EXCEPT ![j].kind = "probe"] /\ indexRoot = job[j].root
                                                  /\ manifest[indexRoot] # None
    BY <1>1, <1>6, <2>1 DEF Job, Loaded, Fits
  <2> QED BY <1>2, <1>3, <1>4, <1>6, <2>1 DEF Loaded
<1>7. CASE Probed(j)
  BY <1>3, <1>4, <1>7 DEF Probed
<1>8. CASE ManifestRead(j)
  BY <1>1, <1>2, <1>8 DEF ManifestRead, Over, Job
<1>9. CASE Checked(j)
  BY <1>2, <1>3, <1>5, <1>9 DEF Checked, Over
<1>10. CASE Commit(j)
  BY <1>1, <1>2, <1>10 DEF Commit, Over, StillOpen, Job
<1>11. CASE ScanFails(j) \/ Save(j) \/ SaveFails(j)
  BY <1>2, <1>11 DEF ScanFails, Save, SaveFails, Over
<1>12. CASE Stamp(j)
  <2> PICK stamps : job' = [job EXCEPT ![j].kind = "save", ![j].stamps = stamps]
    BY <1>12 DEF Stamp
  <2> QED BY <1>1, <1>12 DEF Stamp, Job
<1>13. CASE DeltaStarts(j)
  BY <1>2, <1>5, <1>13 DEF DeltaStarts, Over
<1>14. ASSUME NEW f \in Files, ReadFile(j, f)
       PROVE  Becomes(j, job'[j]) /\ \A i \in Jobs \ {j} : job'[i] = job[i]
  <2> PICK version :
        job' = IF job[j].kind = "check"
               THEN [job EXCEPT ![j].todo = @ \ {f}, ![j].stamps[f] = version,
                                ![j].touches = IF version = job[j].stamps[f]
                                               THEN @ ELSE @ \cup {f}]
               ELSE [job EXCEPT ![j].todo = @ \ {f}, ![j].scan.files[f] = version]
    BY <1>14 DEF ReadFile
  <2>1. CASE job[j].kind = "check"
    BY <1>1, <1>14, <2>1 DEF Job
  <2>2. CASE job[j].kind # "check"
    <3>1. job[j].scan \in Scan /\ job[j].kind \in HasScan
      BY <1>1, <1>14, <2>2 DEF ReadFile, Fits, HasScan
    <3> QED BY <1>1, <1>14, <2>2, <3>1 DEF Job, Scan
  <2> QED BY <2>1, <2>2
<1> QED BY <1>6, <1>7, <1>8, <1>9, <1>10, <1>11, <1>12, <1>13, <1>14 DEF JobStep

LEMMA ManifestsGrow ==
  ASSUME IShape, NEW j \in Jobs, JobStep(j), NEW r \in Roots
  PROVE  \/ manifest'[r] = manifest[r]
         \/ /\ Save(j) /\ r = job[j].root
            /\ manifest'[r] \in Manifests /\ manifest'[r].scan = job[j].scan
<1>1. Fits(job[j]) /\ job[j] \in Job /\ (manifest[r] = None \/ manifest[r] \in Manifests)
  BY DEF IShape, IndexTypeOK, Fits
<1>2. CASE Save(j)
  <2>1. job[j].scan \in Scan /\ job[j].stamps \in Versions
    BY <1>1, <1>2 DEF Save, Fits, HasScan, Job
  <2>2. manifest' = [manifest EXCEPT ![job[j].root] =
                       [scan |-> job[j].scan, stamps |-> job[j].stamps]]
    BY <1>2 DEF Save
  <2> QED BY <1>2, <2>1, <2>2 DEF Manifests
<1>3. CASE Loaded(j) \/ Probed(j) \/ ManifestRead(j) \/ Checked(j) \/ Commit(j)
  BY <1>3 DEF Loaded, Probed, ManifestRead, Checked, Commit
<1>4. CASE \/ ScanFails(j) \/ Stamp(j) \/ SaveFails(j) \/ DeltaStarts(j)
           \/ \E f \in Files : ReadFile(j, f)
  BY <1>4 DEF ScanFails, Stamp, SaveFails, DeltaStarts, ReadFile
<1> QED BY <1>2, <1>3, <1>4 DEF JobStep

LEMMA NewJobs ==
  ASSUME IShape,
         \/ \E r \in Roots, f \in Files : FileChanges(r, f)
         \/ FlushMoves
         \/ \E k \in Flushes : FlushEnds(k)
         \/ RescanCalled
         \/ \E r \in Roots : IndexOpened(r)
         \/ IndexRestarted
  PROVE  /\ \A i \in Jobs : \/ job'[i] = job[i]
                            \/ job'[i].kind \in {"free", "over", "load", "queued"}
                            \/ job'[i].kind = "scan" /\ job'[i].scan.of = job'[i].root
         /\ UNCHANGED manifest
<1>1. job \in [Jobs -> Job]
  BY DEF IShape, IndexTypeOK
<1>2. ASSUME \/ \E r \in Roots, f \in Files : FileChanges(r, f)
             \/ FlushMoves \/ \E k \in Flushes : FlushEnds(k)
      PROVE  \A i \in Jobs : job'[i] = job[i] \/ job'[i].kind = "queued"
  <2>1. CASE UNCHANGED job
    BY <2>1
  <2>2. CASE ~UNCHANGED job
    <3>1. PICK k \in Flushes : EnqueueDelta(flush[k].root, flush[k].files, flush[k].deleted)
      BY <1>2, <2>2 DEF FlushMoves, FlushBegins, StatTouched, FlushEnds, FileChanges
    <3> PICK j \in Jobs :
          job' = [job EXCEPT ![j] =
            [Idle EXCEPT !.kind = "queued", !.root = flush[k].root, !.touches = flush[k].files,
                         !.stamps = [f \in Files |->
                                       IF f \in flush[k].deleted THEN 0 ELSE 1],
                         !.before = deltaTail]]
      BY <3>1 DEF EnqueueDelta
    <3> QED BY <1>1 DEF Idle
  <2> QED BY <2>1, <2>2
<1>3. CASE RescanCalled
  BY <1>1, <1>3 DEF RescanCalled, Idle
<1>4. ASSUME NEW r \in Roots, IndexOpened(r)
      PROVE  \A i \in Jobs : job'[i] = job[i] \/ job'[i].kind = "load"
  BY <1>1, <1>4 DEF IndexOpened, Idle
<1>5. CASE IndexRestarted
  BY <1>1, <1>5 DEF IndexRestarted, Ended, Idle
<1>6. UNCHANGED manifest
  BY DEF FlushMoves, FlushBegins, StatTouched, FlushEnds, FileChanges, RescanCalled,
    IndexOpened, IndexRestarted
<1> QED BY <1>2, <1>3, <1>4, <1>5, <1>6

LEMMA ShapeInvariant == IndexSpec => [](IShape /\ Probes)
<1>1. ProjectInit /\ IndexInit => IShape /\ Probes
  <2> SUFFICES ASSUME IndexInit
               PROVE  IShape /\ Probes
    OBVIOUS
  <2>1. disk \in [Roots -> Versions]
    BY IndexAssumption DEF IndexInit, Versions
  <2>2. \A r \in Roots : manifest[r] \in Manifests \cup {None}
    <3>1. ASSUME NEW r \in Roots, NEW files \in Versions
          PROVE  Saved(r, files) \in Manifests
      BY DEF Saved, Manifests, Scan
    <3> QED BY <2>1, <3>1, ZeroVersion DEF IndexInit
  <2>3. job \in [Jobs -> Job] /\ \A j \in Jobs : Fits(job[j]) /\ job[j].kind = "free"
    BY IdleFits DEF IndexInit, Fits, Idle
  <2>4. changes \in 0..MaxChanges
    BY IndexAssumption DEF IndexInit
  <2>5. flush \in [Flushes -> Flush] /\ Takes
    BY DEF IndexInit, Flush, NoFlush, Takes
  <2> QED BY <2>1, <2>2, <2>3, <2>4, <2>5 DEF IndexInit, IShape, IndexTypeOK, Probes
<1>2. IShape /\ Probes /\ [IndexNext]_<<projectVars, indexVars>> => IShape' /\ Probes'
  <2> SUFFICES ASSUME IShape, Probes, [IndexNext]_<<projectVars, indexVars>>
               PROVE  IShape' /\ Probes'
    OBVIOUS
  <2>1. ASSUME NEW j \in Jobs, JobStep(j)
        PROVE  IShape' /\ Probes'
    <3>1. IShape'
      BY <2>1, ShapeKeptByJob, ShapeKeptByOthers DEF JobStep
    <3>2. ASSUME NEW i \in Jobs, job'[i].kind = "probe"
          PROVE  job'[i].root \in Roots /\ manifest[job'[i].root] \in Manifests
      <4>1. CASE i # j
        BY <2>1, <3>2, <4>1, JobMoves DEF Probes, IShape, Fits
      <4>2. CASE i = j
        BY <2>1, <3>2, <4>2, JobMoves
        DEF Becomes, Probes, IShape, Fits, IndexTypeOK, Manifests, HasScan
      <4> QED BY <4>1, <4>2
    <3>3. Probes'
      BY <2>1, <3>2, ManifestsGrow DEF Probes
    <3> QED BY <3>1, <3>3
  <2>2. CASE UNCHANGED indexVars
    BY <2>2 DEF indexVars, IShape, IndexTypeOK, Fits, Probes, Takes
  <2>3. CASE \/ \E r \in Roots, f \in Files : FileChanges(r, f)
             \/ FlushMoves \/ \E k \in Flushes : FlushEnds(k)
             \/ RescanCalled
             \/ \E r \in Roots : IndexOpened(r)
             \/ IndexRestarted
    <3>1. IShape'
      BY <2>3, ShapeKeptByOthers, ShapeKeptByOpening
    <3>2. Probes'
      BY <2>3, NewJobs DEF Probes
    <3> QED BY <3>1, <3>2
  <2> QED BY <2>1, <2>2, <2>3, IndexSteps
<1> QED BY <1>1, <1>2, PTL DEF IndexSpec

(* What the index works with has its types, in any order of its jobs, of   *)
(* switches and of changes on disk (coordinator.cts).                      *)
THEOREM IndexTyped == IndexSpec => []IndexTypeOK
<1>1. IShape => IndexTypeOK
  BY DEF IShape
<1> QED BY <1>1, ShapeInvariant, PTL

\* Until the index has crossed, a scan of another project than its job's has
\* only a job that is to find its project closed.
Sound(b) ==
  /\ b.kind \in {"scan", "stamp", "save"} => b.scan.of = b.root
  /\ b.kind \in {"fix", "delta"} /\ b.root = indexRoot => b.scan.of = b.root
  /\ b.kind = "probe" => b.root = indexRoot

Serves ==
  ~crossed =>
    /\ currentScan # None => currentScan.of = indexRoot
    /\ \A r \in Roots : manifest[r] # None => manifest[r].scan.of = r
    /\ \A j \in Jobs : Sound(job[j])

LEMMA ServedByJob ==
  ASSUME IShape, Probes, Serves, ~crossed, NEW j \in Jobs, JobStep(j)
  PROVE  /\ ~crossed' /\ indexRoot' = indexRoot
         /\ currentScan' # None => currentScan'.of = indexRoot
<1>1. /\ Fits(job[j]) /\ Sound(job[j]) /\ (currentScan # None => currentScan.of = indexRoot)
      /\ \A r \in Roots : manifest[r] # None => manifest[r].scan.of = r
  BY DEF IShape, IndexTypeOK, Serves
<1>2. CASE Loaded(j)
  <2>1. \/ UNCHANGED currentScan
        \/ /\ indexRoot = job[j].root /\ manifest[indexRoot] # None
           /\ currentScan' = manifest[indexRoot].scan
    BY <1>2 DEF Loaded, ServesManifest
  <2>2. job[j].root \in Roots
    BY <1>1, <1>2 DEF Loaded, Fits
  <2> QED BY <1>1, <1>2, <2>1, <2>2 DEF Loaded
<1>3. CASE Probed(j)
  <2>1. /\ job[j].kind = "probe" /\ job[j].root \in Roots
        /\ UNCHANGED currentScan \/ currentScan' = manifest[job[j].root].scan
    BY <1>1, <1>3 DEF Probed, ServesManifest, Fits
  <2>2. manifest[job[j].root] \in Manifests /\ job[j].root = indexRoot
    BY <1>1, <2>1 DEF Probes, Sound
  <2>3. manifest[indexRoot] # None
    BY <2>2, ManifestAssumption
  <2> QED BY <1>1, <1>3, <2>1, <2>2, <2>3 DEF Probed
<1>4. CASE Commit(j)
  <2>1. \/ UNCHANGED currentScan
        \/ /\ currentScan' = job[j].scan /\ indexRoot = job[j].root
           /\ job[j].kind \in {"scan", "fix", "delta"}
    BY <1>4 DEF Commit, StillOpen
  <2> QED BY <1>1, <1>4, <2>1 DEF Commit, Sound
<1>5. CASE ManifestRead(j) \/ Checked(j) \/ ScanFails(j) \/ Stamp(j) \/ Save(j)
  BY <1>1, <1>5 DEF ManifestRead, Checked, ScanFails, Stamp, Save
<1>6. CASE SaveFails(j) \/ DeltaStarts(j)
  BY <1>1, <1>6 DEF SaveFails, DeltaStarts
<1>7. ASSUME NEW f \in Files, ReadFile(j, f)
      PROVE  UNCHANGED <<crossed, indexRoot, currentScan>>
  BY <1>7 DEF ReadFile
<1> QED BY <1>1, <1>2, <1>3, <1>4, <1>5, <1>6, <1>7 DEF JobStep

LEMMA ServesKeptByJob ==
  ASSUME IShape, Probes, Serves, NEW j \in Jobs, JobStep(j)
  PROVE  Serves'
<1>1. CASE crossed
  <2>1. crossed' = crossed
    BY CrossedKeptByJob
  <2> QED BY <1>1, <2>1 DEF Serves
<1>2. CASE ~crossed
  <2>1. /\ indexRoot' = indexRoot
        /\ currentScan' # None => currentScan'.of = indexRoot
        /\ currentScan # None => currentScan.of = indexRoot
        /\ \A i \in Jobs : Sound(job[i])
    BY <1>2, ServedByJob DEF Serves
  <2>2. ASSUME NEW r \in Roots, manifest'[r] # None
        PROVE  manifest'[r].scan.of = r
    <3>1. CASE Save(j) /\ r = job[j].root /\ manifest'[r].scan = job[j].scan
      BY <2>1, <3>1 DEF Save, Sound
    <3> QED BY <1>2, <2>2, <3>1, ManifestsGrow DEF Serves
  <2>3. ASSUME NEW i \in Jobs
        PROVE  Sound(job[i])'
    <3>1. CASE i # j
      <4>1. job'[i] = job[i] /\ Sound(job[i]) /\ indexRoot' = indexRoot
        BY <2>1, <3>1, JobMoves
      <4> QED BY <4>1 DEF Sound
    <3>2. CASE i = j
      <4>1. Becomes(j, job'[j]) /\ Sound(job[j]) /\ indexRoot' = indexRoot
        BY <2>1, JobMoves
      <4> QED BY <2>1, <3>2, <4>1 DEF Becomes, Sound, HasScan
    <3> QED BY <3>1, <3>2
  <2> QED BY <1>2, <2>1, <2>2, <2>3, ServedByJob DEF Serves
<1> QED BY <1>1, <1>2

LEMMA ServesInvariant == IndexSpec => []Serves
<1>1. ProjectInit /\ IndexInit => Serves
  <2> SUFFICES ASSUME IndexInit
               PROVE  Serves
    OBVIOUS
  <2>1. \A r \in Roots : manifest[r] = None \/ manifest[r].scan.of = r
    <3>1. PICK kept \in [Roots -> {"none", "empty", "current"}] :
            manifest = [r \in Roots |-> CASE kept[r] = "none" -> None
                                          [] kept[r] = "empty" -> Saved(r, Nothing)
                                          [] OTHER -> Saved(r, disk[r])]
      BY DEF IndexInit
    <3>2. ASSUME NEW r \in Roots
          PROVE  manifest[r] = None \/ manifest[r].scan.of = r
      <4>1. Saved(r, Nothing).scan.of = r /\ Saved(r, disk[r]).scan.of = r
        BY DEF Saved
      <4> QED BY <3>1, <4>1
    <3> QED BY <3>2
  <2>2. \A j \in Jobs : Sound(job[j])
    BY DEF IndexInit, Sound, Idle
  <2> QED BY <2>1, <2>2 DEF IndexInit, Serves
<1>2. IShape /\ Probes /\ Serves /\ [IndexNext]_<<projectVars, indexVars>> => Serves'
  <2> SUFFICES ASSUME IShape, Probes, Serves, [IndexNext]_<<projectVars, indexVars>>
               PROVE  Serves'
    OBVIOUS
  <2>1. ASSUME NEW j \in Jobs, JobStep(j)
        PROVE  Serves'
    BY <2>1, ServesKeptByJob
  <2>2. CASE UNCHANGED indexVars
    BY <2>2 DEF indexVars, Serves, Sound
  <2>3. CASE \/ \E r \in Roots, f \in Files : FileChanges(r, f)
             \/ FlushMoves \/ \E k \in Flushes : FlushEnds(k)
             \/ RescanCalled
    <3>1. /\ UNCHANGED <<indexRoot, currentScan>> /\ (crossed => crossed')
      <4>1. ASSUME FlushMoves \/ \E k \in Flushes : FlushEnds(k)
            PROVE  UNCHANGED <<indexRoot, currentScan, crossed>>
        BY <4>1 DEF FlushMoves, FlushBegins, StatTouched, FlushEnds
      <4>2. ASSUME NEW r \in Roots, NEW f \in Files, FileChanges(r, f)
            PROVE  UNCHANGED <<indexRoot, currentScan, crossed>>
        BY <4>2 DEF FileChanges
      <4>3. RescanCalled =>
              UNCHANGED <<indexRoot, currentScan>> /\ (crossed => crossed')
        BY DEF RescanCalled
      <4> QED BY <2>3, <4>1, <4>2, <4>3
    <3> QED BY <2>3, <3>1, NewJobs DEF Serves, Sound
  <2>4. ASSUME NEW r \in Roots, IndexOpened(r)
        PROVE  Serves'
    <3>1. /\ currentScan' = None /\ indexRoot' = r
          /\ ~crossed' => /\ ~crossed
                          /\ \A j \in Jobs : /\ job[j].kind # "probe"
                                             /\ Active(j) => job[j].root # r
      BY <2>4 DEF IndexOpened, StopIndex, Works
    <3>2. ASSUME ~crossed', NEW i \in Jobs
          PROVE  Sound(job[i])'
      <4>1. Sound(job[i]) /\ job[i].kind # "probe" /\ (Active(i) => job[i].root # r)
        BY <3>1, <3>2 DEF Serves
      <4> QED BY <2>4, <3>1, <4>1, NewJobs DEF Sound, Active
    <3> QED BY <2>4, <3>1, <3>2, NewJobs DEF Serves
  <2>5. CASE IndexRestarted
    <3>1. /\ currentScan' = None /\ crossed' = crossed
          /\ \A i \in Jobs : job'[i].kind \in {"free", "over"}
      BY <2>5 DEF IndexRestarted, StopIndex, Idle, Ended, IShape, IndexTypeOK
    <3> QED BY <2>5, <3>1, NewJobs DEF Serves, Sound
  <2> QED BY <2>1, <2>2, <2>3, <2>4, <2>5, IndexSteps
<1> QED BY <1>1, <1>2, ShapeInvariant, PTL DEF IndexSpec

(* What is served is a scan of the open project, for any number of         *)
(* projects, files and jobs, unless a project was opened again under its   *)
(* own jobs or while an empty one was probed (setScan, enqueueDelta).      *)
THEOREM IndexServes == IndexSpec => []IndexServesOpenProject
<1>1. Serves => IndexServesOpenProject
  BY DEF Serves, IndexServesOpenProject
<1> QED BY <1>1, ServesInvariant, PTL

-----------------------------------------------------------------------------
(* What a job is by its phase: deltas are told by the files they touch,    *)
(* and the job of a number has not begun before the one below it.          *)

DeltaJob(b) == b.touches # {} /\ ~b.validates

OfKind(b) ==
  /\ b.kind = "free" => b.root = None
  /\ b.kind \in {"load", "probe"} => b.touches = {}
  /\ b.kind \in {"manifest", "check", "fix"} => b.validates
  /\ b.kind = "scan" => ~DeltaJob(b)
  /\ b.kind \in {"queued", "delta"} => DeltaJob(b)
  /\ b.kind = "delta" => b.todo \subseteq b.touches

Kinds ==
  /\ \A j \in Jobs : OfKind(job[j])
  /\ \A i, j \in Jobs : i < j /\ job[j].kind # "free" => job[i].kind # "free"

\* From one phase of a job to the next.
Moves(from, to) ==
  \/ from = to /\ from \in {"scan", "fix", "delta", "check"}
  \/ from = "load" /\ to \in {"probe", "scan", "manifest"}
  \/ from = "probe" /\ to \in {"scan", "manifest"}
  \/ from = "manifest" /\ to = "check"
  \/ from = "check" /\ to \in {"fix", "scan"}
  \/ from \in {"scan", "fix", "delta"} /\ to = "stamp"
  \/ from = "stamp" /\ to = "save"
  \/ from = "queued" /\ to = "delta"

\* What a step makes of its job: it ends it, or it takes it to a next phase.
Turns(j) ==
  /\ Active(j) /\ job'[j].root = job[j].root
  /\ \/ job'[j].kind = "over" /\ OfKind(job'[j])
     \/ /\ Moves(job[j].kind, job'[j].kind)
        /\ job'[j].before = job[j].before
        /\ OfKind(job'[j])
        /\ DeltaJob(job'[j]) <=> DeltaJob(job[j])
        /\ job[j].kind # "check" => job'[j].touches = job[j].touches

LEMMA JobTurns ==
  ASSUME IShape, Kinds, NEW j \in Jobs, JobStep(j)
  PROVE  Turns(j)
<1> USE DEF Turns, Moves
<1>1. job \in [Jobs -> Job] /\ job[j] \in Job /\ OfKind(job[j])
  BY DEF IShape, IndexTypeOK, Kinds
<1>2. ASSUME job' = [job EXCEPT ![j] = Ended(j)], Active(j)
      PROVE  Turns(j)
  BY <1>1, <1>2 DEF Ended, Idle, OfKind
<1>3. ASSUME BeginsScan(j), job[j].kind \in {"load", "probe", "check"}
      PROVE  Turns(j)
  <2>1. /\ job'[j].kind = "scan" /\ job'[j].root = job[j].root
        /\ job'[j].touches = job[j].touches /\ job'[j].validates = job[j].validates
        /\ job'[j].before = job[j].before
    BY <1>1, <1>3 DEF BeginsScan, Job
  <2> QED BY <1>1, <1>3, <2>1 DEF OfKind, DeltaJob, Active
<1>4. ASSUME ServesManifest(j), job[j].kind \in {"load", "probe"}
      PROVE  Turns(j)
  <2>1. CASE job' = [job EXCEPT ![j].kind = "manifest", ![j].validates = TRUE]
    <3>1. /\ job'[j].kind = "manifest" /\ job'[j].root = job[j].root
          /\ job'[j].touches = job[j].touches /\ job'[j].validates
          /\ job'[j].before = job[j].before
      BY <1>1, <2>1 DEF Job
    <3> QED BY <1>1, <1>4, <3>1 DEF OfKind, DeltaJob, Active
  <2> QED BY <1>2, <1>4, <2>1 DEF ServesManifest, Active
<1>5. ASSUME NEW kind \in {"fix", "delta"}, Applies(j, kind),
             job[j].kind = IF kind = "fix" THEN "check" ELSE "queued"
      PROVE  Turns(j)
  <2>1. /\ job'[j].kind = kind /\ job'[j].root = job[j].root
        /\ job'[j].touches = job[j].touches /\ job'[j].validates = job[j].validates
        /\ job'[j].before = job[j].before
        /\ job'[j].todo \subseteq job[j].touches
    <3>1. \A gone : job[j].touches \ gone \subseteq job[j].touches
      OBVIOUS
    <3> QED BY <1>1, <1>5, <3>1 DEF Applies, Job
  <2> QED BY <1>1, <1>5, <2>1 DEF OfKind, DeltaJob, Active
<1>6. CASE Loaded(j)
  <2>1. CASE job' = [job EXCEPT ![j].kind = "probe"]
    <3>1. /\ job'[j].kind = "probe" /\ job'[j].root = job[j].root
          /\ job'[j].touches = job[j].touches /\ job'[j].validates = job[j].validates
          /\ job'[j].before = job[j].before
      BY <1>1, <2>1 DEF Job
    <3> QED BY <1>1, <1>6, <3>1 DEF OfKind, DeltaJob, Active, Loaded
  <2> QED BY <1>2, <1>3, <1>4, <1>6, <2>1 DEF Loaded, Active
<1>7. CASE Probed(j)
  BY <1>3, <1>4, <1>7 DEF Probed
<1>8. CASE ManifestRead(j)
  <2>1. CASE Over(j)
    BY <1>2, <1>8, <2>1 DEF ManifestRead, Over, Active
  <2>2. CASE ~Over(j)
    <3>1. /\ job'[j].kind = "check" /\ job'[j].root = job[j].root
          /\ job'[j].touches = job[j].touches /\ job'[j].validates = job[j].validates
          /\ job'[j].before = job[j].before
      BY <1>1, <1>8, <2>2 DEF ManifestRead, Job
    <3> QED BY <1>1, <1>8, <3>1 DEF OfKind, DeltaJob, Active, ManifestRead
  <2> QED BY <2>1, <2>2
<1>9. CASE Checked(j)
  BY <1>2, <1>3, <1>5, <1>9 DEF Checked, Over, Active
<1>10. CASE Commit(j)
  <2>1. CASE Over(j)
    BY <1>2, <1>10, <2>1 DEF Commit, Over, Active
  <2>2. CASE ~Over(j)
    <3>1. /\ job'[j].kind = "stamp" /\ job'[j].root = job[j].root
          /\ job'[j].touches = job[j].touches /\ job'[j].validates = job[j].validates
          /\ job'[j].before = job[j].before
      BY <1>1, <1>10, <2>2 DEF Commit, Job
    <3> QED BY <1>1, <1>10, <3>1 DEF OfKind, DeltaJob, Active, Commit
  <2> QED BY <2>1, <2>2
<1>11. CASE ScanFails(j) \/ Save(j) \/ SaveFails(j)
  BY <1>2, <1>11 DEF ScanFails, Save, SaveFails, Over, Active
<1>12. CASE Stamp(j)
  <2>1. /\ job'[j].kind = "save" /\ job'[j].root = job[j].root
        /\ job'[j].touches = job[j].touches /\ job'[j].validates = job[j].validates
        /\ job'[j].before = job[j].before
    <3> PICK stamps : job' = [job EXCEPT ![j].kind = "save", ![j].stamps = stamps]
      BY <1>12 DEF Stamp
    <3> QED BY <1>1 DEF Job
  <2> QED BY <1>1, <1>12, <2>1 DEF OfKind, DeltaJob, Active, Stamp
<1>13. CASE DeltaStarts(j)
  BY <1>2, <1>5, <1>13 DEF DeltaStarts, Over, Active
<1>14. ASSUME NEW f \in Files, ReadFile(j, f)
       PROVE  Turns(j)
  <2> PICK version :
        job' = IF job[j].kind = "check"
               THEN [job EXCEPT ![j].todo = @ \ {f}, ![j].stamps[f] = version,
                                ![j].touches = IF version = job[j].stamps[f]
                                               THEN @ ELSE @ \cup {f}]
               ELSE [job EXCEPT ![j].todo = @ \ {f}, ![j].scan.files[f] = version]
    BY <1>14 DEF ReadFile
  <2>1. CASE job[j].kind = "check"
    <3>1. /\ job'[j].kind = "check" /\ job'[j].root = job[j].root
          /\ job'[j].validates = job[j].validates /\ job'[j].before = job[j].before
      BY <1>1, <2>1 DEF Job
    <3> QED BY <1>1, <2>1, <3>1 DEF OfKind, DeltaJob, Active
  <2>2. CASE job[j].kind # "check"
    <3>1. /\ job'[j].kind = job[j].kind /\ job'[j].root = job[j].root
          /\ job'[j].touches = job[j].touches /\ job'[j].validates = job[j].validates
          /\ job'[j].before = job[j].before
          /\ job'[j].todo \subseteq job[j].todo
      BY <1>1, <2>2 DEF Job
    <3> QED BY <1>1, <1>14, <2>2, <3>1 DEF OfKind, DeltaJob, Active, ReadFile
  <2> QED BY <2>1, <2>2
<1> QED BY <1>6, <1>7, <1>8, <1>9, <1>10, <1>11, <1>12, <1>13, <1>14 DEF JobStep

LEMMA KindsInvariant == IndexSpec => []Kinds
<1>1. ProjectInit /\ IndexInit => Kinds
  BY DEF IndexInit, Kinds, OfKind, DeltaJob, Idle
<1>2. IShape /\ Kinds /\ [IndexNext]_<<projectVars, indexVars>> => Kinds'
  <2> SUFFICES ASSUME IShape, Kinds, [IndexNext]_<<projectVars, indexVars>>
               PROVE  Kinds'
    OBVIOUS
  <2>1. job \in [Jobs -> Job]
    BY DEF IShape, IndexTypeOK
  <2>2. ASSUME NEW j \in Jobs, JobStep(j)
        PROVE  Kinds'
    BY <2>2, JobTurns, JobMoves DEF Kinds, Turns, Moves, Active
  <2>3. ASSUME NEW j \in Jobs, Fresh(j), job'[j].kind # "free", OfKind(job'[j]),
               \A i \in Jobs \ {j} : job'[i] = job[i]
        PROVE  Kinds'
    BY <2>3, IndexAssumption DEF Kinds, Fresh
  <2>4. ASSUME NEW r \in Roots, IndexOpened(r)
        PROVE  Kinds'
    <3> PICK j \in Jobs :
          Fresh(j) /\ job' = [job EXCEPT ![j] = [Idle EXCEPT !.kind = "load", !.root = r]]
      BY <2>4 DEF IndexOpened
    <3>1. job'[j].kind = "load" /\ OfKind(job'[j])
      BY <2>1 DEF Idle, OfKind, DeltaJob
    <3> QED BY <2>1, <2>3, <3>1
  <2>5. CASE RescanCalled
    <3> PICK j \in Jobs :
          /\ Fresh(j)
          /\ job' = [job EXCEPT ![j] =
               [Idle EXCEPT !.kind = "scan", !.root = indexRoot, !.todo = Files,
                            !.scan = [of |-> indexRoot, files |-> Nothing]]]
      BY <2>5 DEF RescanCalled
    <3>1. job'[j].kind = "scan" /\ OfKind(job'[j])
      BY <2>1 DEF Idle, OfKind, DeltaJob
    <3> QED BY <2>1, <2>3, <3>1
  <2>6. ASSUME NEW k \in Flushes, FlushEnds(k)
        PROVE  Kinds'
    <3>1. CASE UNCHANGED job
      BY <3>1 DEF Kinds
    <3>2. CASE ~UNCHANGED job
      <4> PICK j \in Jobs :
            /\ Fresh(j)
            /\ job' = [job EXCEPT ![j] =
                 [Idle EXCEPT !.kind = "queued", !.root = flush[k].root,
                              !.touches = flush[k].files,
                              !.stamps = [f \in Files |->
                                            IF f \in flush[k].deleted THEN 0 ELSE 1],
                              !.before = deltaTail]]
        BY <2>6, <3>2 DEF FlushEnds, EnqueueDelta
      <4>1. flush[k].files # {}
        BY <2>6 DEF FlushEnds, IShape, Takes
      <4>2. job'[j].kind = "queued" /\ OfKind(job'[j])
        BY <2>1, <4>1 DEF Idle, OfKind, DeltaJob
      <4> QED BY <2>1, <2>3, <4>2
    <3> QED BY <3>1, <3>2
  <2>7. CASE IndexRestarted
    <3>1. \A i \in Jobs : /\ OfKind(job'[i])
                          /\ job'[i].kind = "free" <=> job[i].kind = "free"
      BY <2>1, <2>7 DEF IndexRestarted, Ended, Idle, OfKind, DeltaJob
    <3> QED BY <3>1 DEF Kinds
  <2>8. CASE \/ \E r \in Roots, f \in Files : FileChanges(r, f)
             \/ FlushMoves \/ UNCHANGED indexVars
    <3>1. UNCHANGED job
      BY <2>8, FlushFrame DEF FileChanges, indexVars, IShape
    <3> QED BY <3>1 DEF Kinds
  <2> QED BY <2>2, <2>4, <2>5, <2>6, <2>7, <2>8, IndexSteps
<1> QED BY <1>1, <1>2, ShapeInvariant, PTL DEF IndexSpec

-----------------------------------------------------------------------------
(* The jobs of the open project: at most one loads, validates or scans it, *)
(* and its deltas run one after the other, before the first of which no    *)
(* scan is taken away.                                                     *)

Ours(i) == Active(i) /\ job[i].root = indexRoot
Delta(i) == Ours(i) /\ DeltaJob(job[i])
Main(i) == Ours(i) /\ ~DeltaJob(job[i])
Queued(i) == Ours(i) /\ job[i].kind = "queued"
Reading(i) == Ours(i) /\ job[i].kind = "delta"
Opening(i) == Ours(i) /\ job[i].kind \in {"load", "probe"}

OneMain ==
  /\ \A i, k \in Jobs : Main(i) /\ Main(k) => i = k
  /\ \A i \in Jobs : Opening(i) =>
       currentScan = None /\ ~validating /\ \A k \in Jobs : Ours(k) => k = i
  /\ \A i \in Jobs : Ours(i) /\ job[i].kind = "manifest" => manifest[indexRoot] # None
  /\ indexRoot # None => Watched(indexRoot) \/ \E i \in Jobs : Opening(i)

Chain ==
  /\ \A i, k \in Jobs : Delta(i) /\ Delta(k) /\ i < k =>
       /\ Queued(k)
       /\ \E b \in Jobs : job[k].before = b /\ Delta(b) /\ i <= b /\ b < k
  /\ \A i \in Jobs : Delta(i) =>
       /\ \E b \in Jobs : deltaTail = b /\ Delta(b) /\ i <= b
       /\ currentScan # None

Ordered == ~crossed => OneMain /\ Chain

LEMMA NoNone == None \notin Scan /\ None \notin Manifests
BY ManifestAssumption

\* What no step of a job touches, and what only a job of the open project may.
LEMMA JobFrame ==
  ASSUME IShape, Probes, Serves, ~crossed, NEW j \in Jobs, JobStep(j)
  PROVE  /\ UNCHANGED <<disk, indexRoot, deltaTail, touched, flush, crossed>>
         /\ missed \subseteq missed' /\ watchers \subseteq watchers'
         /\ ~Ours(j) => UNCHANGED currentScan /\ (validating' => validating)
         /\ currentScan # None => currentScan' # None
<1>1. /\ job[j] \in Job /\ Sound(job[j]) /\ Fits(job[j])
      /\ \A r \in Roots : manifest[r] # None => manifest[r].scan \in Scan
  BY DEF IShape, IndexTypeOK, Serves, Fits, Manifests
<1>2. CASE Loaded(j)
  <2>1. job[j].root \in Roots /\ Active(j)
    BY <1>1, <1>2 DEF Loaded, Fits, Active
  <2>2. UNCHANGED <<disk, indexRoot, deltaTail, touched, flush, crossed>>
    BY <1>2 DEF Loaded
  <2>3. missed \subseteq missed' /\ watchers \subseteq watchers'
    BY <1>2 DEF Loaded, ServesManifest, StartWatcher
  <2>4. \/ UNCHANGED <<currentScan, validating>>
        \/ /\ indexRoot = job[j].root /\ manifest[job[j].root] # None
           /\ currentScan' = manifest[job[j].root].scan
    BY <1>2 DEF Loaded, ServesManifest
  <2> QED BY <1>1, <2>1, <2>2, <2>3, <2>4, NoNone DEF Ours
<1>3. CASE Probed(j)
  <2>1. job[j].root = indexRoot /\ Ours(j)
    BY <1>1, <1>3 DEF Probed, Sound, Ours, Active
  <2>2. UNCHANGED <<disk, indexRoot, deltaTail, touched, flush, crossed>>
    BY <1>3 DEF Probed
  <2>3. missed \subseteq missed' /\ watchers \subseteq watchers'
    BY <1>3 DEF Probed, ServesManifest, StartWatcher
  <2>4. UNCHANGED currentScan \/ currentScan' = manifest[job[j].root].scan
    BY <1>3 DEF Probed, ServesManifest
  <2>5. manifest[job[j].root].scan \in Scan
    BY <1>3 DEF Probes, Probed, Manifests
  <2> QED BY <2>1, <2>2, <2>3, <2>4, <2>5, NoNone
<1>4. CASE ManifestRead(j) \/ Checked(j)
  <2>1. UNCHANGED validating \/ Over(j)
    BY <1>4 DEF ManifestRead, Checked
  <2>2. validating' => validating
    BY <2>1 DEF Over
  <2>3. /\ UNCHANGED <<disk, indexRoot, deltaTail, touched, flush, crossed>>
        /\ UNCHANGED <<missed, watchers, currentScan>>
    BY <1>4 DEF ManifestRead, Checked
  <2> QED BY <2>2, <2>3
<1>5. CASE Commit(j)
  <2>1. job[j].scan \in Scan
    BY <1>1, <1>5 DEF Commit, Fits, HasScan
  <2> QED BY <1>5, <2>1, NoNone DEF Commit, Over, StillOpen, Ours, Active
<1>6. CASE ScanFails(j) \/ Stamp(j) \/ Save(j) \/ SaveFails(j) \/ DeltaStarts(j)
  BY <1>6 DEF ScanFails, Stamp, Save, SaveFails, DeltaStarts, Over
<1>7. CASE \E f \in Files : ReadFile(j, f)
  BY <1>7 DEF ReadFile
<1> QED BY <1>2, <1>3, <1>4, <1>5, <1>6, <1>7 DEF JobStep

\* After a step of a job, a job of the open project was one before.
LEMMA OursBefore ==
  ASSUME IShape, Probes, Kinds, Serves, ~crossed, NEW j \in Jobs, JobStep(j), NEW i \in Jobs
  PROVE  /\ i # j => /\ job'[i] = job[i]
                     /\ Ours(i)' <=> Ours(i)
                     /\ Delta(i)' <=> Delta(i)
                     /\ Main(i)' <=> Main(i)
                     /\ Queued(i)' <=> Queued(i)
                     /\ Reading(i)' <=> Reading(i)
                     /\ Opening(i)' <=> Opening(i)
         /\ Ours(i)' => Ours(i) /\ (DeltaJob(job'[i]) <=> DeltaJob(job[i]))
         /\ Ours(i)' <=> Ours(i) /\ job'[i].kind # "over"
<1>1. UNCHANGED indexRoot
  BY JobFrame
<1>2. i # j => job'[i] = job[i]
  BY JobMoves
<1>3. Turns(j)
  BY JobTurns
<1>4. CASE i # j
  BY <1>1, <1>2, <1>4 DEF Ours, Delta, Main, Queued, Reading, Opening, Active
<1>5. CASE i = j
  <2>1. job'[j].kind = "over" => ~Ours(j)'
    BY DEF Ours, Active
  <2>2. job'[j].kind # "over" =>
          /\ Ours(j)' <=> Ours(j)
          /\ DeltaJob(job'[j]) <=> DeltaJob(job[j])
    BY <1>1, <1>3 DEF Turns, Moves, Ours, Active
  <2> QED BY <1>5, <2>1, <2>2
<1> QED BY <1>4, <1>5

\* What follows from the kinds for a delta and for the other jobs.
LEMMA OursOfKind ==
  ASSUME IShape, Kinds, NEW i \in Jobs
  PROVE  /\ Queued(i) \/ Reading(i) => Delta(i)
         /\ Delta(i) => job[i].kind \in {"queued", "delta", "stamp", "save"}
         /\ Main(i) => job[i].kind \in {"load", "probe", "manifest", "check", "fix", "scan",
                                        "stamp", "save"}
         /\ Opening(i) => Main(i)
         /\ Ours(i) <=> Main(i) \/ Delta(i)
<1>1. OfKind(job[i]) /\ job[i].kind \in JobKind
  BY DEF Kinds, IShape, IndexTypeOK, Job
<1> QED BY <1>1 DEF JobKind, Queued, Reading, Delta, Main, Opening, Ours, Active, OfKind, DeltaJob

\* The phase of a job tells what it does next.
LEMMA StepOf ==
  ASSUME NEW j \in Jobs, JobStep(j)
  PROVE  /\ job[j].kind = "load" => Loaded(j)
         /\ job[j].kind = "probe" => Probed(j)
         /\ job[j].kind = "manifest" => ManifestRead(j)
         /\ job[j].kind = "check" => Checked(j) \/ \E f \in Files : ReadFile(j, f)
         /\ job[j].kind = "scan" =>
              Commit(j) \/ ScanFails(j) \/ \E f \in Files : ReadFile(j, f)
         /\ job[j].kind \in {"fix", "delta"} =>
              Commit(j) \/ \E f \in Files : ReadFile(j, f)
         /\ job[j].kind = "stamp" => Stamp(j)
         /\ job[j].kind = "save" => Save(j) \/ SaveFails(j)
         /\ job[j].kind = "queued" => DeltaStarts(j)
BY DEF JobStep, Loaded, Probed, ManifestRead, Checked, Commit, ScanFails, Stamp, Save,
  SaveFails, DeltaStarts, ReadFile

LEMMA OneMainKeptByJob ==
  ASSUME IShape, Probes, Kinds, Kinds', Serves, ~crossed, OneMain, NEW j \in Jobs, JobStep(j)
  PROVE  OneMain'
<1>1. ASSUME NEW i \in Jobs, NEW k \in Jobs, Main(i)', Main(k)'
      PROVE  i = k
  <2>1. Main(i) /\ Main(k)
    BY <1>1, OursBefore DEF Main
  <2> QED BY <2>1 DEF OneMain
<1>2. ASSUME NEW i \in Jobs, Opening(i)'
      PROVE  currentScan' = None /\ ~validating' /\ \A k \in Jobs : Ours(k)' => k = i
  <2>1. Turns(j)
    BY JobTurns
  <2>2. Opening(i) /\ (i = j => job'[j].kind = "probe" /\ job[j].kind = "load")
    <3>1. CASE i # j
      BY <1>2, <3>1, OursBefore
    <3>2. CASE i = j
      BY <1>2, <2>1, <3>2, OursBefore DEF Opening, Turns, Moves
    <3> QED BY <3>1, <3>2
  <2>3. currentScan = None /\ ~validating /\ \A k \in Jobs : Ours(k) => k = i
    BY <2>2 DEF OneMain
  <2>4. \A k \in Jobs : Ours(k)' => k = i
    BY <2>3, OursBefore
  <2>5. CASE i # j
    BY <2>3, <2>4, <2>5, JobFrame
  <2>6. CASE i = j
    <3>1. Loaded(j)
      BY <2>2, <2>6, StepOf
    <3>2. UNCHANGED <<currentScan, validating>>
      <4>1. job'[j].kind # "manifest"
        BY <2>2, <2>6
      <4>2. job'[j].kind # "over"
        BY <2>2, <2>6
      <4>3. ServesManifest(j) => job'[j].kind \in {"manifest", "over"}
        <5>1. job \in [Jobs -> Job] /\ job[j] \in Job
          BY DEF IShape, IndexTypeOK
        <5>2. job' = [job EXCEPT ![j] = Ended(j)] => job'[j].kind = "over"
          BY <5>1 DEF Ended, Idle
        <5>3. job' = [job EXCEPT ![j].kind = "manifest", ![j].validates = TRUE]
                => job'[j].kind = "manifest"
          BY <5>1 DEF Job
        <5> QED BY <5>2, <5>3 DEF ServesManifest
      <4>4. UNCHANGED <<currentScan, validating>> \/ ServesManifest(j)
        BY <3>1 DEF Loaded
      <4> QED BY <4>1, <4>2, <4>3, <4>4
    <3> QED BY <2>3, <2>4, <3>2
  <2> QED BY <2>5, <2>6
<1>3. ASSUME NEW i \in Jobs, Ours(i)', job'[i].kind = "manifest"
      PROVE  manifest'[indexRoot'] # None
  <2>1. indexRoot' = indexRoot /\ indexRoot \in Roots
    BY <1>3, JobFrame, OursBefore DEF Ours, Active, IShape, Fits
  <2>2. manifest[indexRoot] # None
    <3>1. CASE i # j
      BY <1>3, <3>1, OursBefore DEF OneMain
    <3>2. CASE i = j
      <4>1. job[j].kind \in {"load", "probe"} /\ Ours(j)
        BY <1>3, <3>2, JobTurns, OursBefore DEF Turns, Moves
      <4>2. CASE job[j].kind = "probe"
        BY <4>1, <4>2, NoNone DEF Probes, Ours
      <4>3. CASE job[j].kind = "load"
        <5>1. Loaded(j)
          BY <4>3, StepOf
        <5>2. ~BeginsScan(j)
          BY <1>3, <3>2 DEF BeginsScan, IShape, IndexTypeOK, Job
        <5> QED BY <4>1, <5>1, <5>2 DEF Loaded, Ours
      <4> QED BY <4>1, <4>2, <4>3
    <3> QED BY <3>1, <3>2
  <2> QED BY <2>1, <2>2, ManifestsGrow, NoNone
<1>4. ASSUME indexRoot' # None
      PROVE  Watched(indexRoot)' \/ \E i \in Jobs : Opening(i)'
  <2>1. indexRoot' = indexRoot /\ watchers \subseteq watchers'
    BY JobFrame
  <2>2. \A w \in watchers : job'[w].root = job[w].root
    BY JobTurns, JobMoves DEF Turns, IShape, IndexTypeOK
  <2>3. CASE Watched(indexRoot)
    BY <2>1, <2>2, <2>3 DEF Watched
  <2>4. ASSUME NEW i \in Jobs, Opening(i), i # j
        PROVE  Opening(i)'
    BY <2>4, OursBefore
  <2>5. CASE Opening(j)
    <3>1. Loaded(j) \/ Probed(j)
      BY <2>5, StepOf DEF Opening
    <3>2. job[j].root = indexRoot /\ job'[j].root = indexRoot
      BY <2>5, JobTurns DEF Opening, Ours, Turns
    <3>3. StartWatcher(j) \/ job' = [job EXCEPT ![j].kind = "probe"]
      BY <3>1, <3>2 DEF Loaded, Probed
    <3>4. CASE StartWatcher(j)
      BY <2>1, <3>2, <3>4 DEF StartWatcher, Watched
    <3>5. CASE job' = [job EXCEPT ![j].kind = "probe"]
      <4>1. job'[j].kind = "probe"
        BY <3>5 DEF IShape, IndexTypeOK, Job
      <4> QED BY <2>1, <3>2, <4>1 DEF Opening, Ours, Active
    <3> QED BY <3>3, <3>4, <3>5
  <2> QED BY <1>4, <2>1, <2>3, <2>4, <2>5 DEF OneMain
<1> QED BY <1>1, <1>2, <1>3, <1>4 DEF OneMain

\* A delta of the open project that takes a step is the first of the chain.
LEMMA FirstDelta ==
  ASSUME IShape, Kinds, Chain, NEW j \in Jobs, JobStep(j), Delta(j), NEW i \in Jobs, Delta(i)
  PROVE  j <= i
<1> SUFFICES ASSUME i < j
             PROVE  FALSE
  BY IndexAssumption
<1>1. Queued(j)
  BY DEF Chain
<1> PICK b \in Jobs : job[j].before = b /\ Delta(b)
  BY DEF Chain
<1>2. DeltaStarts(j)
  BY <1>1, StepOf DEF Queued
<1>3. Active(b) /\ job[j].before = b /\ b # None
  BY IndexAssumption DEF Delta, Ours
<1> QED BY <1>2, <1>3 DEF DeltaStarts, MayStart

LEMMA ChainKeptByJob ==
  ASSUME IShape, Probes, Kinds, Serves, ~crossed, Chain, NEW j \in Jobs, JobStep(j)
  PROVE  Chain'
<1>1. Turns(j) /\ deltaTail' = deltaTail /\ (currentScan # None => currentScan' # None)
  BY JobTurns, JobFrame
<1>2. \A i \in Jobs : /\ Delta(i)' => Delta(i)
                      /\ i # j => /\ job'[i] = job[i]
                                  /\ Delta(i)' <=> Delta(i)
                                  /\ Queued(i)' <=> Queued(i)
  BY OursBefore DEF Delta
<1>3. \A i \in Jobs : Delta(j) /\ Delta(i) => j <= i
  BY FirstDelta
<1>4. ASSUME NEW i \in Jobs, NEW k \in Jobs, Delta(i)', Delta(k)', i < k
      PROVE  /\ Queued(k)'
             /\ \E b \in Jobs : job'[k].before = b /\ Delta(b)' /\ i <= b /\ b < k
  <2>1. Delta(i) /\ Delta(k) /\ k # j
    BY <1>2, <1>3, <1>4, IndexAssumption
  <2>2. PICK b \in Jobs : Queued(k) /\ job[k].before = b /\ Delta(b) /\ i <= b /\ b < k
    BY <1>4, <2>1 DEF Chain
  <2>3. job'[k] = job[k] /\ Queued(k)'
    BY <1>2, <2>1, <2>2
  <2>4. b = j => i = j
    BY <1>3, <2>1, <2>2, IndexAssumption
  <2>5. Delta(b)'
    BY <1>2, <1>4, <2>2, <2>4
  <2> QED BY <2>2, <2>3, <2>5
<1>5. ASSUME NEW i \in Jobs, Delta(i)'
      PROVE  (\E b \in Jobs : deltaTail' = b /\ Delta(b)' /\ i <= b) /\ currentScan' # None
  <2>1. PICK b \in Jobs : Delta(i) /\ deltaTail = b /\ Delta(b) /\ i <= b /\ currentScan # None
    BY <1>2, <1>5 DEF Chain
  <2>2. b = j => i = j
    BY <1>3, <2>1, IndexAssumption
  <2>3. Delta(b)'
    BY <1>2, <1>5, <2>1, <2>2
  <2> QED BY <1>1, <2>1, <2>3
<1> QED BY <1>4, <1>5 DEF Chain

\* What a job that begins leaves as it is.
LEMMA OthersStay ==
  ASSUME IShape, Kinds, NEW j \in Jobs, Fresh(j), \A i \in Jobs \ {j} : job'[i] = job[i]
  PROVE  /\ ~Ours(j) /\ \A i \in Jobs : Ours(i) => i < j
         /\ \A r \in Roots : watchers' = watchers /\ Watched(r) => Watched(r)'
         /\ UNCHANGED indexRoot =>
              \A i \in Jobs \ {j} : /\ Ours(i)' <=> Ours(i)
                                    /\ Delta(i)' <=> Delta(i)
                                    /\ Main(i)' <=> Main(i)
                                    /\ Queued(i)' <=> Queued(i)
                                    /\ Reading(i)' <=> Reading(i)
                                    /\ Opening(i)' <=> Opening(i)
<1>1. ~Ours(j) /\ job[j].root = None
  BY DEF Fresh, Ours, Active, Kinds, OfKind
<1>2. ASSUME NEW i \in Jobs, Ours(i)
      PROVE  i < j
  <2>1. job[i].kind # "free" /\ job[j].kind = "free"
    BY <1>2 DEF Fresh, Ours, Active
  <2>2. i # j /\ ~(j < i)
    BY <2>1 DEF Kinds
  <2> QED BY <2>2, IndexAssumption
<1>3. ASSUME NEW r \in Roots, watchers' = watchers, Watched(r)
      PROVE  Watched(r)'
  <2> PICK w \in watchers : job[w].root = r
    BY <1>3 DEF Watched
  <2>1. w # j /\ w \in Jobs
    BY <1>1, ProjectAssumption DEF IShape, IndexTypeOK
  <2>2. w \in watchers' /\ job'[w].root = r
    BY <1>3, <2>1
  <2> QED BY <2>2 DEF Watched
<1> QED BY <1>1, <1>2, <1>3 DEF Ours, Delta, Main, Queued, Reading, Opening, Active

\* Calls, switches and changes on disk.
LEMMA OpenedBegins ==
  ASSUME IShape, NEW r \in Roots, IndexOpened(r)
  PROVE  \E j \in Jobs :
           /\ Fresh(j) /\ \A i \in Jobs \ {j} : job'[i] = job[i]
           /\ job'[j].kind = "load" /\ job'[j].touches = {} /\ job'[j].root = r
<1> PICK j \in Jobs :
      Fresh(j) /\ job' = [job EXCEPT ![j] = [Idle EXCEPT !.kind = "load", !.root = r]]
  BY DEF IndexOpened
<1> QED BY DEF IShape, IndexTypeOK, Idle

LEMMA RescanBegins ==
  ASSUME IShape, RescanCalled
  PROVE  \E j \in Jobs :
           /\ Fresh(j) /\ \A i \in Jobs \ {j} : job'[i] = job[i]
           /\ job'[j].kind = "scan" /\ job'[j].touches = {} /\ job'[j].root = indexRoot
<1> PICK j \in Jobs :
      /\ Fresh(j)
      /\ job' = [job EXCEPT ![j] =
           [Idle EXCEPT !.kind = "scan", !.root = indexRoot, !.todo = Files,
                        !.scan = [of |-> indexRoot, files |-> Nothing]]]
  BY DEF RescanCalled
<1> QED BY DEF IShape, IndexTypeOK, Idle

LEMMA ReportBegins ==
  ASSUME IShape, NEW k \in Flushes, FlushEnds(k)
  PROVE  \/ /\ currentScan = None \/ indexRoot # flush[k].root
            /\ UNCHANGED <<job, deltaTail, missed>>
         \/ /\ currentScan # None /\ indexRoot = flush[k].root
            /\ missed' = missed \cup ({indexRoot} \X Revived(k))
            /\ \E j \in Jobs :
                 /\ Fresh(j) /\ \A i \in Jobs \ {j} : job'[i] = job[i]
                 /\ job'[j].kind = "queued" /\ job'[j].touches = flush[k].files
                 /\ ~job'[j].validates /\ job'[j].root = indexRoot
                 /\ \A f \in Files : job'[j].stamps[f] = 0 => f \in flush[k].deleted
                 /\ job'[j].before = deltaTail /\ deltaTail' = j
<1>1. CASE currentScan = None \/ indexRoot # flush[k].root
  BY <1>1 DEF FlushEnds
<1>2. CASE ~(currentScan = None \/ indexRoot # flush[k].root)
  <2> DEFINE stamps == [f \in Files |-> IF f \in flush[k].deleted THEN 0 ELSE 1]
  <2>1. /\ EnqueueDelta(flush[k].root, flush[k].files, flush[k].deleted)
        /\ missed' = missed \cup ({indexRoot} \X Revived(k))
    BY <1>2 DEF FlushEnds
  <2> PICK j \in Jobs :
        /\ Fresh(j) /\ deltaTail' = j
        /\ job' = [job EXCEPT ![j] = [Idle EXCEPT !.kind = "queued", !.root = flush[k].root,
                                       !.touches = flush[k].files, !.stamps = stamps,
                                       !.before = deltaTail]]
    BY <2>1 DEF EnqueueDelta
  <2>2. \A f \in Files : stamps[f] = 0 => f \in flush[k].deleted
    OBVIOUS
  <2> HIDE DEF stamps
  <2> QED BY <1>2, <2>1, <2>2 DEF IShape, IndexTypeOK, Idle
<1> QED BY <1>1, <1>2

LEMMA OrderedInvariant == IndexSpec => []Ordered
<1>1. ProjectInit /\ IndexInit => Ordered
  <2> SUFFICES ASSUME IndexInit
               PROVE  OneMain /\ Chain
    BY DEF Ordered
  <2>1. \A i \in Jobs : ~Active(i)
    BY DEF IndexInit, Active, Idle
  <2> QED BY <2>1 DEF IndexInit, OneMain, Chain, Main, Delta, Opening, Ours
<1>2. /\ IShape /\ IShape' /\ Probes /\ Kinds /\ Kinds' /\ Serves /\ Ordered
      /\ [IndexNext]_<<projectVars, indexVars>>
      => Ordered'
  <2> SUFFICES ASSUME IShape, IShape', Probes, Kinds, Kinds', Serves, Ordered, ~crossed',
                      [IndexNext]_<<projectVars, indexVars>>
               PROVE  OneMain' /\ Chain'
    BY DEF Ordered
  <2> USE DEF Main, Delta
  <2>1. ~crossed /\ OneMain /\ Chain
    BY CrossedStays DEF Ordered
  <2>2. ASSUME NEW j \in Jobs, JobStep(j)
        PROVE  OneMain' /\ Chain'
    BY <2>1, <2>2, OneMainKeptByJob, ChainKeptByJob
  <2>3. ASSUME NEW r \in Roots, IndexOpened(r)
        PROVE  OneMain' /\ Chain'
    <3>1. /\ indexRoot' = r /\ currentScan' = None /\ ~validating' /\ ~Works(r)
      BY <2>1, <2>3 DEF IndexOpened, StopIndex
    <3> PICK j \in Jobs :
           /\ Fresh(j) /\ \A i \in Jobs \ {j} : job'[i] = job[i]
           /\ job'[j].kind = "load" /\ job'[j].touches = {} /\ job'[j].root = r
      BY <2>3, OpenedBegins
    <3>2. \A i \in Jobs : Ours(i)' => i = j
      BY <3>1 DEF Works, Ours, Active
    <3>3. Opening(j)' /\ ~Delta(j)'
      BY <3>1 DEF Opening, Ours, Active, DeltaJob
    <3>4. \A i \in Jobs : /\ Main(i)' => i = j
                          /\ Opening(i)' => i = j
                          /\ Ours(i)' => job'[i].kind = "load"
                          /\ ~Delta(i)'
      BY <3>2, <3>3 DEF Opening
    <3> QED BY <3>1, <3>2, <3>3, <3>4 DEF OneMain, Chain
  <2>4. CASE RescanCalled
    <3>1. UNCHANGED <<indexRoot, currentScan, watchers>> /\ ~Works(indexRoot) /\ indexRoot # None
      BY <2>1, <2>4 DEF RescanCalled
    <3> PICK j \in Jobs :
           /\ Fresh(j) /\ \A i \in Jobs \ {j} : job'[i] = job[i]
           /\ job'[j].kind = "scan" /\ job'[j].touches = {} /\ job'[j].root = indexRoot
      BY <2>4, RescanBegins
    <3>2. \A i \in Jobs : ~Ours(i)
      BY <3>1 DEF Works, Ours
    <3>3. \A i \in Jobs : Ours(i)' => i = j
      BY <3>1, <3>2, OthersStay
    <3>4. ~Delta(j)' /\ ~Opening(j)'
      BY DEF DeltaJob, Opening
    <3>5. \A i \in Jobs : /\ Main(i)' => i = j
                          /\ ~Opening(i)'
                          /\ Ours(i)' => job'[i].kind = "scan"
                          /\ ~Delta(i)'
      BY <3>3, <3>4 DEF Opening
    <3>6. Watched(indexRoot)'
      <4>1. Watched(indexRoot) /\ indexRoot \in Roots
        BY <2>1, <3>1, <3>2 DEF OneMain, Opening, IShape, IndexTypeOK
      <4> QED BY <3>1, <4>1, OthersStay DEF Watched
    <3> QED BY <3>5, <3>6 DEF OneMain, Chain
  <2>5. ASSUME NEW q \in Flushes, FlushEnds(q)
        PROVE  OneMain' /\ Chain'
    <3>1. UNCHANGED <<indexRoot, currentScan, watchers, manifest, validating>>
      BY <2>5 DEF FlushEnds
    <3>2. CASE UNCHANGED <<job, deltaTail>>
      BY <2>1, <3>1, <3>2 DEF OneMain, Chain, Queued, Opening, Ours, Active, Watched
    <3>3. CASE ~UNCHANGED <<job, deltaTail>>
      <4>1. /\ currentScan # None /\ indexRoot = flush[q].root /\ indexRoot # None
            /\ flush[q].files # {}
        BY <2>5, <3>3, ReportBegins DEF FlushEnds, IShape, Takes
      <4> PICK j \in Jobs :
            /\ Fresh(j) /\ \A i \in Jobs \ {j} : job'[i] = job[i]
            /\ job'[j].kind = "queued" /\ job'[j].touches = flush[q].files
            /\ ~job'[j].validates /\ job'[j].root = indexRoot
            /\ job'[j].before = deltaTail /\ deltaTail' = j
        BY <2>5, <3>3, ReportBegins
      <4>2. /\ \A i \in Jobs : Ours(i) => i < j
            /\ \A i \in Jobs \ {j} : /\ Ours(i)' <=> Ours(i)
                                     /\ Delta(i)' <=> Delta(i)
                                     /\ Main(i)' <=> Main(i)
                                     /\ Queued(i)' <=> Queued(i)
                                     /\ Opening(i)' <=> Opening(i)
        BY <3>1, OthersStay
      <4>3. Queued(j)' /\ Delta(j)' /\ ~Main(j)' /\ ~Opening(j)'
        BY <3>1, <4>1 DEF Queued, Opening, Ours, Active, DeltaJob
      <4>4. \A i \in Jobs : ~Opening(i)'
        BY <2>1, <4>1, <4>2, <4>3 DEF OneMain
      <4>5. OneMain'
        <5>1. Watched(indexRoot)'
          <6>1. Watched(indexRoot) /\ indexRoot \in Roots
            BY <2>1, <4>1 DEF OneMain, IShape, IndexTypeOK
          <6> QED BY <3>1, <6>1, OthersStay DEF Watched
        <5>2. \A i, k \in Jobs : Main(i)' /\ Main(k)' => i = k
          <6>1. \A i, k \in Jobs : Main(i) /\ Main(k) => i = k
            BY <2>1 DEF OneMain
          <6> HIDE DEF Main
          <6> QED BY <4>2, <4>3, <6>1
        <5>3. \A i \in Jobs : Ours(i)' /\ job'[i].kind = "manifest" => manifest[indexRoot] # None
          BY <2>1, <4>2 DEF OneMain
        <5> HIDE DEF Main
        <5> QED BY <3>1, <4>4, <5>1, <5>2, <5>3 DEF OneMain
      <4>6. ASSUME NEW i \in Jobs, NEW k \in Jobs, Delta(i)', Delta(k)', i < k
            PROVE  /\ Queued(k)'
                   /\ \E b \in Jobs : job'[k].before = b /\ Delta(b)' /\ i <= b /\ b < k
        <5> HIDE DEF Delta
        <5>1. CASE k = j
          <6>1. Delta(i)
            BY <4>2, <4>6, <5>1, IndexAssumption
          <6>2. PICK b \in Jobs : deltaTail = b /\ Delta(b) /\ i <= b
            BY <2>1, <6>1 DEF Chain
          <6>3. b < j /\ Delta(b)'
            BY <4>2, <6>2, IndexAssumption DEF Delta
          <6> QED BY <4>3, <5>1, <6>2, <6>3
        <5>2. CASE k # j
          <6>1. Delta(k) /\ k < j /\ i # j /\ Delta(i)
            BY <4>2, <4>6, <5>2, IndexAssumption DEF Delta
          <6>2. PICK b \in Jobs : Queued(k) /\ job[k].before = b /\ Delta(b) /\ i <= b /\ b < k
            BY <2>1, <4>6, <6>1 DEF Chain
          <6> QED BY <4>2, <5>2, <6>1, <6>2, IndexAssumption
        <5> QED BY <5>1, <5>2
      <4>7. ASSUME NEW i \in Jobs, Delta(i)'
            PROVE  i <= j
        BY <4>2, <4>7, IndexAssumption
      <4> HIDE DEF Delta
      <4> QED BY <3>1, <4>1, <4>3, <4>5, <4>6, <4>7 DEF Chain
    <3> QED BY <3>2, <3>3
  <2>6. CASE IndexRestarted
    <3>1. indexRoot' = None /\ \A i \in Jobs : ~Active(i)'
      <4>1. \A i \in Jobs : job'[i].kind \in {"free", "over"}
        BY <2>6 DEF IndexRestarted, Ended, Idle, IShape, IndexTypeOK
      <4> QED BY <2>6, <4>1 DEF IndexRestarted, Active
    <3> QED BY <3>1 DEF OneMain, Chain, Opening, Ours
  <2>7. CASE \/ \E r \in Roots, f \in Files : FileChanges(r, f)
             \/ FlushMoves \/ UNCHANGED indexVars
    <3>1. UNCHANGED <<indexRoot, currentScan, watchers, manifest, validating, job, deltaTail>>
      BY <2>7, FlushFrame DEF FileChanges, indexVars, IShape
    <3> QED BY <2>1, <3>1 DEF OneMain, Chain, Queued, Opening, Ours, Active, Watched
  <2> QED BY <2>2, <2>3, <2>4, <2>5, <2>6, <2>7, IndexSteps
<1> QED BY <1>1, <1>2, ShapeInvariant, KindsInvariant, ServesInvariant, PTL DEF IndexSpec

-----------------------------------------------------------------------------
(* What the index serves of a file is what is on disk, or the job that     *)
(* loads, validates or scans will see that it is not, or a delta for the   *)
(* file is still to be read.                                               *)

OnDisk(f) == disk[indexRoot][f]

Lost(f) == <<indexRoot, f>> \in missed

\* A change of the file is to be reported, or reported and not yet looked at.
Unsettled(f) ==
  \/ Unreported(indexRoot, f)
  \/ \E k \in Jobs : Queued(k) /\ f \in job[k].touches

\* What job m lets be served of a file: it looks at the file later on, or it
\* has looked, and what it has seen is what counts.
Allows(m, v, f) ==
  /\ job[m].kind = "save" => v = OnDisk(f)
  /\ job[m].kind = "stamp" => v \in {OnDisk(f), job[m].scan.files[f]}
  /\ job[m].kind = "manifest" =>
       v = OnDisk(f) \/ manifest[indexRoot].stamps[f] \notin {0, OnDisk(f)}
  /\ job[m].kind = "check" =>
       \/ v = OnDisk(f)
       \/ f \in job[m].touches
       \/ f \in job[m].todo /\ job[m].stamps[f] # OnDisk(f)

Right(v, f) ==
  /\ \A m \in Jobs : Main(m) => Allows(m, v, f)
  /\ (\A m \in Jobs : ~Main(m)) => v = OnDisk(f)

\* What is served of a file, or is about to be, that no delta reads again.
Offers(v, f) ==
  \/ \E k \in Jobs : Reading(k) /\ f \notin job[k].touches /\ v = job[k].scan.files[f]
  \/ /\ currentScan # None /\ v = currentScan.files[f]
     /\ \A k \in Jobs : Reading(k) => f \notin job[k].touches

Validates(m) == Main(m) /\ job[m].kind = "manifest"

UpToDate(f) ==
  /\ \A k \in Jobs : Reading(k) /\ f \in job[k].touches \ job[k].todo =>
       job[k].scan.files[f] = OnDisk(f)
  /\ \A v \in 0..MaxChanges + 1 : Offers(v, f) => Right(v, f)
  /\ \A m, k \in Jobs : Validates(m) /\ Delta(k) /\ job[k].kind = "save" =>
       currentScan.files[f] = OnDisk(f)

Settles(f) == indexRoot # None => Lost(f) \/ Unsettled(f) \/ UpToDate(f)

\* A delta that is being saved is served while a validation loads its manifest.
Same ==
  \A m, k \in Jobs :
    Validates(m) /\ Delta(k) /\ job[k].kind = "stamp" => currentScan = job[k].scan

\* A manifest does not list a file, or stamps it with the version its scan has
\* read.
Stamped ==
  \A r \in Roots, f \in Files : <<r, f>> \notin missed =>
    /\ manifest[r] # None => manifest[r].stamps[f] \in {0, manifest[r].scan.files[f]}
    /\ \A j \in Jobs : job[j].kind = "save" /\ job[j].root = r =>
         job[j].stamps[f] \in {0, job[j].scan.files[f]}

\* The last delta for a file takes it out unread only if it is gone.
Reported ==
  \A k \in Jobs, f \in Files :
    /\ Queued(k) /\ f \in job[k].touches /\ ~Unreported(indexRoot, f) /\ ~Lost(f)
    /\ \A i \in Jobs : Queued(i) /\ f \in job[i].touches => i <= k
    /\ job[k].stamps[f] = 0
    => disk[indexRoot][f] = 0

Settled == ~crossed => Stamped /\ Reported /\ Same /\ \A f \in Files : Settles(f)

\* All that the steps below start from.
Sorted == IShape /\ Probes /\ Kinds /\ Serves /\ OneMain /\ Chain /\ ~crossed

LEMMA Versioned ==
  ASSUME IShape, NEW f \in Files
  PROVE  /\ currentScan # None => currentScan.files[f] \in 0..MaxChanges + 1
         /\ \A j \in Jobs : job[j].kind \in HasScan =>
              job[j].scan.files[f] \in 0..MaxChanges + 1
<1>1. \A scan \in Scan : scan.files[f] \in 0..MaxChanges + 1
  BY DEF Scan, Versions
<1> QED BY <1>1 DEF IShape, IndexTypeOK, Fits

LEMMA RightNow ==
  ASSUME NEW f
  PROVE  \A v : v = OnDisk(f) => Right(v, f)
BY DEF Right, Allows

\* A manifest and what is being saved come with their stamps.
LEMMA StampedByJob ==
  ASSUME Sorted, Stamped, \A f \in Files : Settles(f), NEW j \in Jobs, JobStep(j)
  PROVE  Stamped'
<1> USE DEF Sorted
<1>1. missed \subseteq missed' /\ indexRoot' = indexRoot
  BY JobFrame
<1> SUFFICES ASSUME NEW r \in Roots, NEW f \in Files, <<r, f>> \notin missed'
             PROVE  /\ manifest'[r] # None =>
                         manifest'[r].stamps[f] \in {0, manifest'[r].scan.files[f]}
                    /\ \A i \in Jobs : job'[i].kind = "save" /\ job'[i].root = r =>
                         job'[i].stamps[f] \in {0, job'[i].scan.files[f]}
  BY DEF Stamped
<1>2. <<r, f>> \notin missed
  BY <1>1
<1>3. manifest'[r] # None => manifest'[r].stamps[f] \in {0, manifest'[r].scan.files[f]}
  <2>1. CASE manifest'[r] = manifest[r]
    BY <1>2, <2>1 DEF Stamped
  <2>2. CASE Save(j) /\ r = job[j].root
    <3>1. manifest'[r].stamps = job[j].stamps /\ manifest'[r].scan = job[j].scan
      BY <2>2 DEF Save, IShape, IndexTypeOK
    <3> QED BY <1>2, <2>2, <3>1 DEF Save, Stamped
  <2> QED BY <2>1, <2>2, ManifestsGrow
<1>4. ASSUME NEW i \in Jobs, i # j, job'[i].kind = "save", job'[i].root = r
      PROVE  job'[i].stamps[f] \in {0, job'[i].scan.files[f]}
  BY <1>2, <1>4, JobMoves DEF Stamped
<1>5. ASSUME job'[j].kind = "save", job'[j].root = r
      PROVE  job'[j].stamps[f] \in {0, job'[j].scan.files[f]}
  <2>1. /\ Stamp(j) /\ job[j].root = r /\ job[j].scan \in Scan
        /\ job[j].kind = "stamp" /\ job \in [Jobs -> Job]
    <3>1. job[j].kind = "stamp" /\ job[j].root = r
      BY <1>5, JobTurns DEF Turns, Moves
    <3> QED BY <3>1, StepOf DEF IShape, IndexTypeOK, Fits, HasScan
  <2>2. job'[j].stamps[f] \in {0, disk[r][f]} /\ job'[j].scan = job[j].scan
    <3> PICK lost : job' = [job EXCEPT ![j].kind = "save", ![j].stamps = Stamps(j, lost)]
      BY <2>1 DEF Stamp
    <3>1. Stamps(j, lost)[f] \in {0, disk[r][f]}
      BY <2>1 DEF Stamps
    <3> QED BY <2>1, <3>1 DEF Job
  <2>3. CASE job[j].scan.files[f] = disk[r][f]
    BY <2>2, <2>3
  <2>4. CASE job[j].scan.files[f] # disk[r][f]
    <3>1. ~Pending(j, f)
      BY <1>5, <2>1, <2>4 DEF Stamp
    <3>2. currentScan = job[j].scan /\ currentScan # None
      BY <2>1, <3>1, NoNone DEF Pending
    <3>3. r = indexRoot
      BY <2>1, <3>2 DEF Stamp, Serves, Sound
    <3>4. \A i \in Jobs : Ours(i) => (i = j \/ f \notin job[i].touches) /\ DeltaJob(job[i])
      BY <2>1, <3>1, <3>3 DEF Pending, Ours, IsDelta, DeltaJob
    <3>5. ~Unsettled(f) /\ \A i \in Jobs : ~Main(i) /\ (Reading(i) => f \notin job[i].touches)
      BY <2>1, <3>1, <3>3, <3>4 DEF Unsettled, Queued, Main, Reading, Pending
    <3>6. UpToDate(f)
      BY <1>2, <3>3, <3>5, ProjectAssumption DEF Settles, Lost
    <3>7. Right(currentScan.files[f], f)
      BY <3>2, <3>5, <3>6, Versioned DEF UpToDate, Offers
    <3> QED BY <2>4, <3>2, <3>3, <3>5, <3>7 DEF Right, OnDisk
  <2> QED BY <2>3, <2>4
<1> QED BY <1>3, <1>4, <1>5

\* A delta that starts is the first: none that stays queued was before it.
LEMMA ReportedByJob ==
  ASSUME Sorted, Reported, NEW j \in Jobs, JobStep(j)
  PROVE  Reported'
<1> USE DEF Sorted
<1>1. UNCHANGED <<disk, indexRoot, touched, flush>> /\ missed \subseteq missed'
  BY JobFrame
<1> SUFFICES ASSUME NEW k \in Jobs, NEW f \in Files,
                    Queued(k)', f \in job'[k].touches, ~Unreported(indexRoot, f), ~Lost(f),
                    \A i \in Jobs : Queued(i)' /\ f \in job'[i].touches => i <= k,
                    job'[k].stamps[f] = 0
             PROVE  disk[indexRoot][f] = 0
  BY <1>1 DEF Reported, Unreported, Flushing, Lost
<1>2. k # j /\ Queued(k) /\ job'[k] = job[k]
  <2>1. job'[j].kind # "queued"
    BY JobTurns DEF Turns, Moves
  <2> QED BY <2>1, OursBefore DEF Queued
<1>3. ASSUME NEW i \in Jobs, Queued(i), f \in job[i].touches
      PROVE  i <= k
  <2>1. CASE i = j
    BY <1>2, <1>3, <2>1, FirstDelta, OursOfKind
  <2>2. CASE i # j
    BY <1>3, <2>2, OursBefore
  <2> QED BY <2>1, <2>2
<1> QED BY <1>2, <1>3 DEF Reported

LEMMA SameByJob ==
  ASSUME Sorted, Same, NEW j \in Jobs, JobStep(j)
  PROVE  Same'
<1> USE DEF Sorted
<1> SUFFICES ASSUME NEW m \in Jobs, NEW k \in Jobs, Validates(m)', Delta(k)',
                    job'[k].kind = "stamp"
             PROVE  currentScan' = job'[k].scan
  BY DEF Same
<1>1. Delta(k) /\ Main(m) /\ m # k
  BY OursBefore DEF Validates, Main, Delta
<1>2. CASE k = j
  <2>1. job[j].kind = "delta"
    BY <1>1, <1>2, JobTurns, OursOfKind DEF Turns, Moves
  <2>2. Commit(j)
    <3>1. ASSUME NEW f \in Files, ReadFile(j, f)
          PROVE  FALSE
      BY <1>2, <2>1, <3>1 DEF ReadFile, IShape, IndexTypeOK, Job
    <3> QED BY <2>1, <3>1, StepOf
  <2>3. ~Over(j)
    BY <1>2 DEF Over, Ended, Idle, IShape, IndexTypeOK
  <2> QED BY <1>2, <2>2, <2>3 DEF Commit, IShape, IndexTypeOK, Job
<1>3. CASE k # j
  <2>1. job'[k] = job[k] /\ Delta(k) /\ ~Queued(k)
    BY <1>1, <1>3, OursBefore DEF Queued
  <2>2. m # j
    <3>1. m = j => Opening(j)
      BY <1>1, JobTurns, OursBefore DEF Validates, Turns, Moves, Opening, Main
    <3> QED BY <1>1, <3>1 DEF OneMain, Delta
  <2>3. Validates(m)
    BY <1>1, <2>2, OursBefore DEF Validates
  <2>4. ~Ours(j)
    <3>1. ~Main(j)
      BY <1>1, <2>2 DEF OneMain
    <3>2. Delta(j) => j <= k /\ ~(j < k)
      BY <1>1, <2>1, FirstDelta DEF Chain
    <3> QED BY <1>3, <3>1, <3>2, OursOfKind, IndexAssumption
  <2>5. currentScan' = currentScan
    BY <2>4, JobFrame
  <2> QED BY <2>1, <2>3, <2>5 DEF Same
<1> QED BY <1>2, <1>3

\* A job of another project, or of one that is over, changes nothing here.
LEMMA SettlesByOther ==
  ASSUME Sorted, NEW j \in Jobs, JobStep(j), ~Ours(j), NEW f \in Files, Settles(f)
  PROVE  Settles(f)'
<1> USE DEF Sorted
<1>1. /\ UNCHANGED <<disk, indexRoot, touched, flush, currentScan>>
      /\ missed \subseteq missed'
  BY JobFrame
<1>2. \A i \in Jobs : /\ Ours(i)' <=> Ours(i)
                      /\ Ours(i) => job'[i] = job[i]
  BY OursBefore
<1>3. \A i \in Jobs : /\ Delta(i)' <=> Delta(i)
                      /\ Main(i)' <=> Main(i)
                      /\ Queued(i)' <=> Queued(i)
                      /\ Reading(i)' <=> Reading(i)
                      /\ Validates(i)' <=> Validates(i)
  BY <1>1, <1>2 DEF Delta, Main, Queued, Reading, Validates
<1>4. ASSUME indexRoot # None
      PROVE  manifest'[indexRoot] = manifest[indexRoot]
  <2>1. indexRoot \in Roots
    BY <1>4 DEF IShape, IndexTypeOK
  <2>2. Save(j) => job[j].root # indexRoot
    BY DEF Save, Ours, Active
  <2> QED BY <2>1, <2>2, ManifestsGrow
<1>5. ASSUME indexRoot # None, NEW v, Right(v, f)
      PROVE  Right(v, f)'
  <2>1. ASSUME NEW m \in Jobs, Main(m), Allows(m, v, f)
        PROVE  Allows(m, v, f)'
    <3>1. job'[m] = job[m]
      BY <1>2, <2>1 DEF Main
    <3> QED BY <1>1, <1>4, <1>5, <2>1, <3>1 DEF Allows, OnDisk
  <2> QED BY <1>1, <1>3, <1>5, <2>1 DEF Right, OnDisk
<1>6. \A i \in Jobs : Delta(i) \/ Queued(i) \/ Reading(i) => job'[i] = job[i]
  BY <1>2 DEF Delta, Queued, Reading
<1>7. \A v : Offers(v, f)' <=> Offers(v, f)
  BY <1>1, <1>3, <1>6 DEF Offers
<1>8. Unsettled(f)' <=> Unsettled(f)
  BY <1>1, <1>3, <1>6 DEF Unsettled, Unreported, Flushing
<1>9. Lost(f) => Lost(f)'
  BY <1>1 DEF Lost
<1>10. indexRoot # None /\ UpToDate(f) => UpToDate(f)'
  <2> SUFFICES ASSUME indexRoot # None, UpToDate(f)
               PROVE  UpToDate(f)'
    OBVIOUS
  <2>1. \A k \in Jobs : Reading(k)' /\ f \in job'[k].touches \ job'[k].todo =>
          job'[k].scan.files[f] = OnDisk(f)'
    BY <1>1, <1>3, <1>6 DEF UpToDate, OnDisk
  <2>2. \A v \in 0..MaxChanges + 1 : Offers(v, f)' => Right(v, f)'
    BY <1>5, <1>7 DEF UpToDate
  <2>3. \A m, k \in Jobs : Validates(m)' /\ Delta(k)' /\ job'[k].kind = "save" =>
          currentScan'.files[f] = OnDisk(f)'
    BY <1>1, <1>3, <1>6 DEF UpToDate, OnDisk
  <2> QED BY <2>1, <2>2, <2>3 DEF UpToDate
<1> QED BY <1>1, <1>8, <1>9, <1>10 DEF Settles

\* The step of the job that loads, validates or scans: the deltas stay as they
\* are, and what is offered has to be right by what the job is then.
LEMMA MainFrame ==
  ASSUME Sorted, NEW j \in Jobs, JobStep(j), Main(j), NEW f \in Files, Settles(f),
         indexRoot # None, ~Lost(f)', ~Unsettled(f)',
         \A v \in 0..MaxChanges + 1 :
           /\ Offers(v, f)'
           /\ currentScan' = currentScan => Right(v, f)
           => /\ job'[j].kind # "over" => Allows(j, v, f)'
              /\ job'[j].kind = "over" => v = OnDisk(f)
  PROVE  UpToDate(f)'
<1> USE DEF Sorted
<1>1. UNCHANGED <<disk, indexRoot, touched, flush>> /\ missed \subseteq missed'
  BY JobFrame
<1>2. \A i \in Jobs \ {j} : /\ job'[i] = job[i]
                            /\ Delta(i)' <=> Delta(i)
                            /\ Main(i)' <=> Main(i)
                            /\ Queued(i)' <=> Queued(i)
                            /\ Reading(i)' <=> Reading(i)
  BY OursBefore
<1>3. ~Delta(j) /\ ~Queued(j) /\ ~Reading(j) /\ (Opening(j) => Main(j))
  BY OursOfKind DEF Main, Delta
<1>4. Main(j)' <=> job'[j].kind # "over"
  BY OursBefore DEF Main
<1>5. ~Delta(j)'
  BY OursBefore DEF Main, Delta
<1>6. ~Queued(j)' /\ ~Reading(j)'
  <2>1. job'[j].kind = "over" \/ (OfKind(job'[j]) /\ ~DeltaJob(job'[j]))
    BY JobTurns DEF Turns, Main
  <2> QED BY <2>1 DEF OfKind, Queued, Reading
<1>7. \A m \in Jobs : Main(m)' => m = j
  BY <1>2 DEF OneMain
<1>8. UpToDate(f)
  <2>1. Unsettled(f) => Unsettled(f)'
    BY <1>1, <1>2, <1>3 DEF Unsettled, Unreported, Flushing
  <2> QED BY <1>1, <2>1 DEF Settles, Lost
<1>9. \A k \in Jobs : Reading(k)' /\ f \in job'[k].touches \ job'[k].todo =>
        job'[k].scan.files[f] = OnDisk(f)'
  BY <1>1, <1>2, <1>6, <1>8 DEF UpToDate, OnDisk
<1>10. ASSUME NEW v \in 0..MaxChanges + 1, Offers(v, f)'
       PROVE  Right(v, f)'
  <2>1. currentScan' = currentScan => Offers(v, f)
    BY <1>2, <1>3, <1>6, <1>10 DEF Offers
  <2>2. currentScan' = currentScan => Right(v, f)
    BY <1>8, <2>1 DEF UpToDate
  <2>3. /\ job'[j].kind # "over" => Allows(j, v, f)'
        /\ job'[j].kind = "over" => v = OnDisk(f)
    BY <1>10, <2>2
  <2> QED BY <1>1, <1>4, <1>7, <2>3 DEF Right, OnDisk
<1>11. ASSUME NEW m \in Jobs, NEW k \in Jobs, Validates(m)', Delta(k)',
              job'[k].kind = "save"
       PROVE  FALSE
  <2>1. m = j /\ job'[j].kind = "manifest" /\ k # j /\ Delta(k)
    BY <1>2, <1>5, <1>7, <1>11 DEF Validates
  <2>2. Opening(j)
    BY <2>1, JobTurns DEF Turns, Moves, Opening, Main
  <2> QED BY <2>1, <2>2 DEF OneMain, Delta
<1> QED BY <1>9, <1>10, <1>11 DEF UpToDate

\* The phase a step takes its job to.
LEMMA TurnsTo ==
  ASSUME IShape, NEW j \in Jobs
  PROVE  /\ Over(j) => job'[j].kind = "over"
         /\ BeginsScan(j) => job'[j].kind = "scan"
         /\ \A kind \in {"fix", "delta"} : Applies(j, kind) => job'[j].kind = kind
<1>1. job \in [Jobs -> Job] /\ job[j] \in Job
  BY DEF IShape, IndexTypeOK
<1>2. Over(j) => job'[j].kind = "over"
  BY <1>1 DEF Over, Ended, Idle
<1>3. BeginsScan(j) => job'[j].kind = "scan"
  BY <1>1 DEF BeginsScan, Job
<1>4. ASSUME NEW kind \in {"fix", "delta"}, Applies(j, kind)
      PROVE  job'[j].kind = kind
  <2> DEFINE gone == {f \in job[j].touches : job[j].stamps[f] = 0}
             scan == [of |-> currentScan.of,
                      files |-> [f \in Files |->
                                   IF f \in gone THEN 0 ELSE currentScan.files[f]]]
             todo == job[j].touches \ gone
  <2>1. job' = [job EXCEPT ![j].kind = kind, ![j].todo = todo, ![j].scan = scan]
    BY <1>4 DEF Applies
  <2> HIDE DEF gone, scan, todo
  <2> QED BY <1>1, <2>1 DEF Job
<1> QED BY <1>2, <1>3, <1>4

LEMMA SettlesByMain ==
  ASSUME Sorted, Stamped, NEW j \in Jobs, JobStep(j), Main(j), NEW f \in Files, Settles(f)
  PROVE  Settles(f)'
<1> USE DEF Sorted
<1>1. /\ UNCHANGED <<disk, indexRoot, touched, flush>> /\ missed \subseteq missed'
  BY JobFrame
<1>2. /\ Ours(j) /\ job[j].root = indexRoot /\ ~DeltaJob(job[j])
      /\ job \in [Jobs -> Job] /\ job[j] \in Job
      /\ job[j].kind \in {"load", "probe", "manifest", "check", "fix", "scan", "stamp", "save"}
  BY OursOfKind DEF Main, Ours, IShape, IndexTypeOK
<1> SUFFICES ASSUME indexRoot # None, ~Lost(f)', ~Unsettled(f)',
                    NEW v \in 0..MaxChanges + 1, Offers(v, f)',
                    currentScan' = currentScan => Right(v, f)
             PROVE  /\ job'[j].kind # "over" => Allows(j, v, f)'
                    /\ job'[j].kind = "over" => v = OnDisk(f)
  BY <1>1, MainFrame DEF Settles
<1>3. /\ indexRoot \in Roots /\ f \in Files
      /\ <<indexRoot, f>> \notin missed' /\ <<indexRoot, f>> \notin missed
  BY <1>1 DEF Lost, IShape, IndexTypeOK
<1>4. currentScan' = currentScan => Allows(j, v, f)
  BY DEF Right
<1>5. CASE job[j].kind \in {"load", "probe"}
  <2>1. /\ currentScan = None /\ ~validating
        /\ \A k \in Jobs : Ours(k) => k = j
    BY <1>2, <1>5 DEF OneMain, Opening
  <2>2. \A k \in Jobs : ~Reading(k)'
    <3>1. \A k \in Jobs : Reading(k)' => k = j
      BY <2>1, OursBefore DEF Reading
    <3>2. job'[j].kind # "delta"
      BY <1>5, JobTurns DEF Turns, Moves
    <3> QED BY <3>1, <3>2 DEF Reading
  <2>3. currentScan' # None /\ v = currentScan'.files[f]
    BY <2>2 DEF Offers
  <2>4. ServesManifest(j) /\ manifest[indexRoot] # None /\ UNCHANGED manifest
    <3>1. Loaded(j) \/ Probed(j)
      BY <1>5, StepOf
    <3>2. CASE Loaded(j)
      BY <1>2, <2>1, <2>3, <3>2 DEF Loaded
    <3>3. CASE Probed(j)
      <4>1. ServesManifest(j)
        BY <2>1, <2>3, <3>3 DEF Probed
      <4> QED BY <1>2, <3>3, <4>1, NoNone DEF Probes, Probed
    <3> QED BY <3>1, <3>2, <3>3
  <2>5. /\ v = manifest[indexRoot].scan.files[f]
        /\ Listed(indexRoot, f) \/ v = OnDisk(f)
    BY <1>2, <1>3, <2>3, <2>4 DEF ServesManifest, OnDisk
  <2>6. manifest[indexRoot].stamps[f] \in {0, v}
    BY <1>3, <2>4, <2>5 DEF Stamped
  <2>7. v = OnDisk(f) \/ manifest[indexRoot].stamps[f] \notin {0, OnDisk(f)}
    BY <2>4, <2>5, <2>6 DEF Listed
  <2>8. job'[j].kind = "manifest"
    <3>1. job' = [job EXCEPT ![j].kind = "manifest", ![j].validates = TRUE]
      BY <1>2, <2>1, <2>4 DEF ServesManifest
    <3> QED BY <1>2, <3>1 DEF Job
  <2> QED BY <1>1, <2>4, <2>7, <2>8 DEF Allows, OnDisk
<1>6. CASE job[j].kind = "manifest"
  <2>1. ManifestRead(j) /\ manifest[indexRoot] # None
    BY <1>2, <1>6, StepOf DEF OneMain
  <2>2. /\ UNCHANGED currentScan
        /\ job' = [job EXCEPT ![j].kind = "check",
                              ![j].stamps = manifest[indexRoot].stamps,
                              ![j].todo = {g \in Files : Listed(indexRoot, g)}]
    BY <1>2, <2>1 DEF ManifestRead
  <2>3. /\ job'[j].kind = "check" /\ job'[j].stamps = manifest[indexRoot].stamps
        /\ job'[j].todo = {g \in Files : Listed(indexRoot, g)}
    BY <1>2, <2>2 DEF Job
  <2>4. v = OnDisk(f) \/ manifest[indexRoot].stamps[f] \notin {0, OnDisk(f)}
    BY <1>4, <1>6, <2>2 DEF Allows
  <2> QED BY <1>1, <1>3, <2>1, <2>3, <2>4 DEF Allows, OnDisk, Listed
<1>7. CASE job[j].kind = "check"
  <2>1. /\ UNCHANGED currentScan
        /\ \/ v = OnDisk(f)
           \/ f \in job[j].touches
           \/ f \in job[j].todo /\ job[j].stamps[f] # OnDisk(f)
    <3>1. UNCHANGED currentScan
      BY <1>7, StepOf DEF Checked, ReadFile
    <3> QED BY <1>4, <1>7, <3>1 DEF Allows
  <2>2. CASE Checked(j)
    <3>1. job'[j].kind \in {"over", "fix", "scan"}
      BY <2>2, TurnsTo DEF Checked
    <3>2. job'[j].kind = "over" => v = OnDisk(f)
      <4>1. job'[j].kind = "over" => job[j].todo = {} /\ job[j].touches = {}
        BY <2>2, TurnsTo DEF Checked
      <4> QED BY <2>1, <4>1
    <3> QED BY <3>1, <3>2 DEF Allows
  <2>3. ASSUME NEW g \in Files, ReadFile(j, g)
        PROVE  job'[j].kind = "check" /\ Allows(j, v, f)'
    <3>1. PICK version :
            /\ job' = [job EXCEPT ![j].todo = @ \ {g}, ![j].stamps[g] = version,
                                  ![j].touches = IF version = job[j].stamps[g]
                                                 THEN @ ELSE @ \cup {g}]
            /\ missed' = IF version = disk[indexRoot][g] THEN missed
                                                         ELSE missed \cup {<<indexRoot, g>>}
      BY <1>2, <1>7, <2>3 DEF ReadFile
    <3>2. /\ job'[j].kind = "check"
          /\ job'[j].todo = job[j].todo \ {g}
          /\ job'[j].stamps = [job[j].stamps EXCEPT ![g] = version]
          /\ job'[j].touches = IF version = job[j].stamps[g]
                               THEN job[j].touches ELSE job[j].touches \cup {g}
      BY <1>2, <1>7, <3>1 DEF Job
    <3>3. job'[j].stamps[f] = IF f = g THEN version ELSE job[j].stamps[f]
      BY <1>2, <3>2 DEF Job, Versions
    <3>4. f = g => version = OnDisk(f)
      BY <1>3, <3>1 DEF OnDisk
    <3>5. \/ v = OnDisk(f)
          \/ f \in job'[j].touches
          \/ f \in job'[j].todo /\ job'[j].stamps[f] # OnDisk(f)
      BY <2>1, <3>2, <3>3, <3>4
    <3> QED BY <1>1, <3>2, <3>5 DEF Allows, OnDisk
  <2> QED BY <1>7, <2>2, <2>3, StepOf
<1>8. CASE job[j].kind \in {"scan", "fix"}
  <2>1. ASSUME NEW g \in Files, ReadFile(j, g)
        PROVE  job'[j].kind \in {"scan", "fix"}
    BY <1>2, <1>8, <2>1 DEF ReadFile, Job
  <2>2. ~ScanFails(j)
    BY <1>2, <1>3 DEF ScanFails
  <2>3. CASE Commit(j)
    <3>1. /\ currentScan' = job[j].scan
          /\ job' = [job EXCEPT ![j].kind = "stamp"]
          /\ missed' = missed \cup ({job[j].root} \X Overwritten(j))
      BY <1>2, <2>3 DEF Commit, StillOpen
    <3>2. job'[j].kind = "stamp" /\ job'[j].scan = job[j].scan
      BY <1>2, <3>1 DEF Job
    <3>3. f \notin Overwritten(j)
      BY <1>2, <1>3, <3>1
    <3>4. ASSUME NEW k \in Jobs, Reading(k)', f \notin job'[k].touches, v = job'[k].scan.files[f]
          PROVE  v = job[j].scan.files[f]
      <4>1. k # j /\ job'[k] = job[k] /\ Reading(k)
        BY <3>2, <3>4, OursBefore DEF Reading
      <4>2. job[k].kind = "delta" /\ job[k].root = job[j].root /\ f \notin job[k].todo
        BY <1>2, <3>4, <4>1 DEF Reading, Ours, Kinds, OfKind
      <4> QED BY <1>2, <3>3, <3>4, <4>1, <4>2 DEF Overwritten, IsDelta, DeltaJob
    <3>5. v = job[j].scan.files[f]
      BY <3>1, <3>4 DEF Offers
    <3> QED BY <3>2, <3>5 DEF Allows
  <2> QED BY <1>8, <2>1, <2>2, <2>3, StepOf DEF Allows
<1>9. CASE job[j].kind = "stamp"
  <2>1. Stamp(j)
    BY <1>9, StepOf
  <2>2. job'[j].kind = "save" /\ UNCHANGED currentScan
    BY <1>2, <2>1 DEF Stamp, Job
  <2>3. Pending(j, f)
    BY <1>2 DEF Pending, Main, Ours, IsDelta, DeltaJob
  <2>4. job[j].scan.files[f] = OnDisk(f)
    BY <1>2, <1>3, <2>1, <2>3 DEF Stamp, OnDisk
  <2>5. v = OnDisk(f)
    BY <1>4, <1>9, <2>2, <2>4 DEF Allows
  <2> QED BY <1>1, <2>2, <2>5 DEF Allows, OnDisk
<1>10. CASE job[j].kind = "save"
  <2>1. UNCHANGED currentScan /\ job'[j].kind = "over"
    BY <1>10, StepOf, TurnsTo DEF Save, SaveFails
  <2> QED BY <1>4, <1>10, <2>1 DEF Allows
<1> QED BY <1>2, <1>5, <1>6, <1>7, <1>8, <1>9, <1>10

\* The step of the first delta: the others stay queued, and what is right is
\* what was, unless the manifest is new.
LEMMA SettlesByDelta ==
  ASSUME Sorted, Reported, Same, NEW j \in Jobs, JobStep(j), Delta(j), NEW f \in Files,
         Settles(f)
  PROVE  Settles(f)'
<1> USE DEF Sorted
<1>1. /\ UNCHANGED <<disk, indexRoot, touched, flush>> /\ missed \subseteq missed'
  BY JobFrame
<1>2. /\ Ours(j) /\ job[j].root = indexRoot /\ DeltaJob(job[j]) /\ currentScan # None
      /\ job \in [Jobs -> Job] /\ job[j] \in Job /\ OfKind(job[j])
      /\ job[j].kind \in {"queued", "delta", "stamp", "save"}
  BY OursOfKind DEF Delta, Ours, Chain, IShape, IndexTypeOK, Kinds
<1>3. \A i \in Jobs \ {j} : /\ job'[i] = job[i]
                            /\ Ours(i)' <=> Ours(i)
                            /\ Delta(i)' <=> Delta(i)
                            /\ Main(i)' <=> Main(i)
                            /\ Queued(i)' <=> Queued(i)
                            /\ Reading(i)' <=> Reading(i)
  BY OursBefore
<1>4. ASSUME NEW i \in Jobs \ {j}, Delta(i)
      PROVE  Queued(i)
  <2>1. j < i
    BY <1>4, FirstDelta, IndexAssumption
  <2> QED BY <1>4, <2>1 DEF Chain
<1>5. \A i \in Jobs \ {j} : ~Reading(i) /\ ~Reading(i)'
  BY <1>3, <1>4, OursOfKind DEF Queued, Reading
<1>6. ~Main(j) /\ ~Main(j)'
  BY OursBefore DEF Main, Delta
<1>7. Unsettled(f) => Unsettled(f)' \/ (Queued(j) /\ f \in job[j].touches)
  BY <1>1, <1>3 DEF Unsettled, Unreported, Flushing
<1> SUFFICES ASSUME indexRoot # None, ~Lost(f)', ~Unsettled(f)'
             PROVE  UpToDate(f)'
  BY <1>1 DEF Settles
<1>8. /\ indexRoot \in Roots
      /\ <<indexRoot, f>> \notin missed' /\ ~Lost(f)
  BY <1>1 DEF Lost, IShape, IndexTypeOK
<1>9. ASSUME NEW v, Right(v, f), manifest' = manifest
      PROVE  Right(v, f)'
  <2>1. ASSUME NEW m \in Jobs, Main(m), Allows(m, v, f)
        PROVE  Allows(m, v, f)'
    <3>1. job'[m] = job[m]
      BY <1>3, <1>6, <2>1
    <3> QED BY <1>1, <1>9, <2>1, <3>1 DEF Allows, OnDisk
  <2> QED BY <1>1, <1>3, <1>6, <1>9, <2>1 DEF Right, OnDisk
<1>10. ASSUME \A k \in Jobs : ~Reading(k)' \/ f \notin job'[k].touches \ job'[k].todo
                              \/ job'[k].scan.files[f] = OnDisk(f),
              \A v \in 0..MaxChanges + 1 : Offers(v, f)' => Right(v, f)',
              job'[j].kind # "save"
       PROVE  UpToDate(f)'
  <2>1. \A k \in Jobs : Delta(k)' => job'[k].kind # "save"
    BY <1>3, <1>4, <1>10 DEF Queued
  <2> QED BY <1>1, <1>10, <2>1 DEF UpToDate, OnDisk
<1>11. CASE job[j].kind = "queued"
  <2>1. DeltaStarts(j) /\ Queued(j)
    BY <1>2, <1>11, StepOf DEF Queued
  <2>2. Applies(j, "delta") /\ UNCHANGED <<currentScan, manifest>>
    BY <1>2, <2>1 DEF DeltaStarts
  <2>3. /\ job'[j].kind = "delta" /\ job'[j].touches = job[j].touches
        /\ job'[j].root = job[j].root
        /\ job'[j].todo = {g \in job[j].touches : job[j].stamps[g] # 0}
        /\ job'[j].scan.files[f] = IF f \in job[j].touches /\ job[j].stamps[f] = 0
                                   THEN 0 ELSE currentScan.files[f]
    <3> DEFINE gone == {g \in job[j].touches : job[j].stamps[g] = 0}
    <3>1. /\ job'[j].kind = "delta" /\ job'[j].touches = job[j].touches
          /\ job'[j].root = job[j].root
          /\ job'[j].todo = job[j].touches \ gone
          /\ job'[j].scan.files = [g \in Files |-> IF g \in gone THEN 0
                                                   ELSE currentScan.files[g]]
      BY <1>2, <2>2 DEF Applies, Job
    <3> QED BY <3>1
  <2>4. Reading(j)'
    BY <1>1, <1>2, <2>3 DEF Reading, Ours, Active
  <2>5. \A k \in Jobs : ~Reading(k)
    BY <1>5, <1>11 DEF Reading
  <2>6. CASE f \in job[j].touches
    <3>1. /\ ~Unreported(indexRoot, f)
          /\ \A i \in Jobs \ {j} : Queued(i) => f \notin job[i].touches
      BY <1>1, <1>3 DEF Unsettled, Unreported, Flushing
    <3>2. job[j].stamps[f] = 0 => OnDisk(f) = 0
      <4>1. \A i \in Jobs : Queued(i) /\ f \in job[i].touches => i = j
        BY <3>1
      <4>2. j <= j
        BY IndexAssumption
      <4> QED BY <1>8, <2>1, <2>6, <3>1, <4>1, <4>2 DEF Reported, OnDisk
    <3>3. \A v : ~Offers(v, f)'
      BY <1>5, <2>3, <2>4, <2>6 DEF Offers
    <3> QED BY <1>5, <1>10, <2>3, <3>2, <3>3
  <2>7. CASE f \notin job[j].touches
    <3>1. UpToDate(f)
      BY <1>7, <1>8, <2>7 DEF Settles
    <3>2. ASSUME NEW v \in 0..MaxChanges + 1, Offers(v, f)'
          PROVE  Right(v, f)'
      <4>1. v = currentScan.files[f]
        BY <1>5, <2>2, <2>3, <2>7, <3>2 DEF Offers
      <4>2. Offers(v, f)
        BY <1>2, <2>5, <4>1 DEF Offers
      <4> QED BY <1>9, <2>2, <3>1, <4>2 DEF UpToDate
    <3> QED BY <1>5, <1>10, <2>3, <2>7, <3>2
  <2> QED BY <2>6, <2>7
<1>12. CASE job[j].kind # "queued"
  <2>1. UpToDate(f)
    BY <1>7, <1>8, <1>12 DEF Settles, Queued
  <2>2. CASE job[j].kind = "delta"
    <3>1. Reading(j) /\ job[j].scan \in Scan /\ job[j].todo \subseteq job[j].touches
      BY <1>2, <2>2 DEF Reading, IShape, Fits, HasScan, OfKind
    <3>2. ASSUME NEW g \in Files, ReadFile(j, g)
          PROVE  UpToDate(f)'
      <4> PICK version :
            /\ job' = [job EXCEPT ![j].todo = @ \ {g}, ![j].scan.files[g] = version]
            /\ missed' = IF version = disk[indexRoot][g] THEN missed
                                                         ELSE missed \cup {<<indexRoot, g>>}
        BY <1>2, <2>2, <3>2 DEF ReadFile
      <4>1. /\ job'[j].kind = "delta" /\ job'[j].touches = job[j].touches
            /\ job'[j].root = job[j].root
            /\ job'[j].todo = job[j].todo \ {g} /\ g \in job[j].todo
            /\ job'[j].scan.files = [job[j].scan.files EXCEPT ![g] = version]
            /\ UNCHANGED <<currentScan, manifest>>
        BY <1>2, <2>2, <3>1, <3>2 DEF ReadFile, Job, Scan
      <4>2. f = g => version = OnDisk(f)
        BY <1>8 DEF OnDisk
      <4>3. job'[j].scan.files[f] = IF f = g THEN OnDisk(f) ELSE job[j].scan.files[f]
        BY <3>1, <4>1, <4>2 DEF Scan, Versions, OnDisk
      <4>4. Reading(j)'
        BY <1>1, <1>2, <4>1 DEF Reading, Ours, Active
      <4>5. f \in job[j].touches \ job[j].todo => job[j].scan.files[f] = OnDisk(f)
        BY <2>1, <3>1 DEF UpToDate
      <4>6. \A v : Offers(v, f)' => Offers(v, f)
        BY <1>5, <3>1, <4>1, <4>3, <4>4 DEF Offers
      <4> QED BY <1>5, <1>9, <1>10, <2>1, <4>1, <4>3, <4>5, <4>6 DEF UpToDate
    <3>3. CASE Commit(j)
      <4>1. /\ currentScan' = job[j].scan /\ job[j].todo = {}
            /\ job' = [job EXCEPT ![j].kind = "stamp"] /\ UNCHANGED manifest
        BY <1>2, <3>3 DEF Commit, StillOpen
      <4>2. job'[j].kind = "stamp"
        BY <1>2, <4>1 DEF Job
      <4>3. \A k \in Jobs : ~Reading(k)'
        BY <1>5, <4>2 DEF Reading
      <4>4. ASSUME NEW v \in 0..MaxChanges + 1, Offers(v, f)'
            PROVE  Right(v, f)'
        <5>1. v = job[j].scan.files[f]
          BY <4>1, <4>3, <4>4 DEF Offers
        <5>2. CASE f \in job[j].touches
          <6>1. v = OnDisk(f)
            BY <2>1, <3>1, <4>1, <5>1, <5>2 DEF UpToDate
          <6> QED BY <1>9, <4>1, <6>1, RightNow
        <5>3. CASE f \notin job[j].touches
          <6>1. Offers(v, f)
            BY <3>1, <5>1, <5>3 DEF Offers
          <6> QED BY <1>9, <2>1, <4>1, <6>1 DEF UpToDate
        <5> QED BY <5>2, <5>3
      <4> QED BY <1>10, <4>2, <4>3, <4>4
    <3> QED BY <2>2, <3>2, <3>3, StepOf
  <2>3. ASSUME job[j].kind \in {"stamp", "save"}
        PROVE  /\ UNCHANGED currentScan /\ job'[j].kind \in {"save", "over"}
               /\ \A k \in Jobs : ~Reading(k) /\ ~Reading(k)'
               /\ \A v : Offers(v, f)' => Offers(v, f) /\ v = currentScan.files[f]
    <3>1. UNCHANGED currentScan
      BY <2>3, StepOf DEF Stamp, Save, SaveFails
    <3>2. job'[j].kind \in {"save", "over"}
      BY <2>3, JobTurns DEF Turns, Moves
    <3>3. \A k \in Jobs : ~Reading(k) /\ ~Reading(k)'
      BY <1>5, <2>3, <3>2 DEF Reading
    <3> QED BY <3>1, <3>2, <3>3 DEF Offers
  <2>4. CASE job[j].kind = "stamp"
    <3>1. Stamp(j) /\ UNCHANGED manifest
      BY <2>4, StepOf DEF Stamp
    <3>2. ASSUME NEW m \in Jobs, Validates(m)
          PROVE  currentScan.files[f] = OnDisk(f)
      <4>1. currentScan = job[j].scan
        BY <2>4, <3>2 DEF Same
      <4>2. Pending(j, f)
        BY <1>2, <3>2 DEF Pending, Validates, Main, Ours, IsDelta, DeltaJob
      <4> QED BY <1>2, <1>8, <3>1, <4>1, <4>2 DEF Stamp, OnDisk
    <3>3. \A m \in Jobs : Validates(m)' => Validates(m)
      BY <1>3, <1>6 DEF Validates
    <3>4. \A v \in 0..MaxChanges + 1 : Offers(v, f)' => Right(v, f)'
      BY <1>9, <2>1, <2>3, <2>4, <3>1 DEF UpToDate
    <3> QED BY <1>1, <2>3, <2>4, <3>2, <3>3, <3>4 DEF UpToDate, OnDisk
  <2>5. CASE job[j].kind = "save"
    <3>1. job'[j].kind = "over"
      BY <2>5, JobTurns DEF Turns, Moves
    <3>2. ASSUME NEW v \in 0..MaxChanges + 1, Offers(v, f)'
          PROVE  Right(v, f)'
      <4>1. Right(v, f) /\ v = currentScan.files[f]
        BY <2>1, <2>3, <2>5, <3>2 DEF UpToDate
      <4>2. ASSUME NEW m \in Jobs, Main(m), Allows(m, v, f)
            PROVE  Allows(m, v, f)'
        <5>1. job'[m] = job[m]
          BY <1>3, <1>6, <4>2
        <5>2. Validates(m) => v = OnDisk(f)
          BY <2>1, <2>5, <4>1 DEF UpToDate
        <5> QED BY <1>1, <4>2, <5>1, <5>2 DEF Allows, OnDisk, Validates
      <4> QED BY <1>1, <1>3, <1>6, <4>1, <4>2 DEF Right, OnDisk
    <3> QED BY <1>10, <2>3, <2>5, <3>1, <3>2
  <2> QED BY <1>2, <1>12, <2>2, <2>4, <2>5
<1> QED BY <1>11, <1>12

\* Calls, switches, reports and changes on disk: without deltas and with
\* nothing served there is nothing to be wrong about.
LEMMA NothingServed ==
  ASSUME Kinds', currentScan' = None, \A i \in Jobs : ~Delta(i)'
  PROVE  Reported' /\ Same' /\ \A f \in Files : Settles(f)'
<1>1. \A i \in Jobs : ~Queued(i)' /\ ~Reading(i)'
  <2>1. \A i \in Jobs : OfKind(job[i])'
    BY DEF Kinds
  <2> QED BY <2>1 DEF Queued, Reading, Delta, OfKind
<1>2. \A f : UpToDate(f)'
  BY <1>1 DEF UpToDate, Offers
<1> QED BY <1>1, <1>2 DEF Reported, Same, Settles

\* What is done elsewhere changes nothing for a file.
LEMMA SettlesElsewhere ==
  ASSUME NEW f \in Files, Settles(f),
         UNCHANGED <<manifest, indexRoot, currentScan, job, missed>>,
         indexRoot # None => /\ disk'[indexRoot][f] = disk[indexRoot][f]
                             /\ Unreported(indexRoot, f)' <=> Unreported(indexRoot, f)
  PROVE  Settles(f)'
<1> SUFFICES ASSUME indexRoot # None
             PROVE  Settles(f)'
  BY DEF Settles
<1>1. \A i \in Jobs : /\ Delta(i)' <=> Delta(i)
                      /\ Main(i)' <=> Main(i)
                      /\ Queued(i)' <=> Queued(i)
                      /\ Reading(i)' <=> Reading(i)
  BY DEF Delta, Main, Queued, Reading, Ours, Active
<1>2. OnDisk(f)' = OnDisk(f) /\ (Lost(f)' <=> Lost(f)) /\ (Unsettled(f)' <=> Unsettled(f))
  BY <1>1 DEF OnDisk, Lost, Unsettled
<1>3. \A v : (Offers(v, f)' <=> Offers(v, f)) /\ (Right(v, f)' <=> Right(v, f))
  BY <1>1, <1>2 DEF Offers, Right, Allows
<1>4. UpToDate(f)' <=> UpToDate(f)
  BY <1>1, <1>2, <1>3 DEF UpToDate, Validates
<1> QED BY <1>2, <1>4 DEF Settles

LEMMA SettledByReport ==
  ASSUME Sorted, Kinds', Reported, Same, \A f \in Files : Settles(f),
         NEW k \in Flushes, FlushEnds(k)
  PROVE  Reported' /\ Same' /\ \A f \in Files : Settles(f)'
<1> USE DEF Sorted
<1>1. /\ UNCHANGED <<disk, manifest, indexRoot, currentScan, touched>>
      /\ flush' = [flush EXCEPT ![k] = NoFlush] /\ flush \in [Flushes -> Flush]
      /\ flush[k].root # None /\ NoFlush.files = {}
  BY DEF FlushEnds, IShape, IndexTypeOK, NoFlush
<1>2. \A i \in Jobs : Ours(i) => indexRoot \in Roots /\ indexRoot # None
  BY ProjectAssumption DEF IShape, Fits, Ours, Active
<1>6. ASSUME NEW f, indexRoot # flush[k].root \/ f \notin flush[k].files
      PROVE  Unreported(indexRoot, f)' <=> Unreported(indexRoot, f)
  BY <1>1, <1>6 DEF Unreported, Flushing
<1>3. CASE currentScan = None
  <2>1. UNCHANGED job
    BY <1>3, ReportBegins
  <2>2. \A i \in Jobs : ~Delta(i)
    BY <1>3 DEF Chain
  <2>3. \A i \in Jobs : ~Delta(i)'
    BY <1>1, <2>1, <2>2 DEF Delta, Ours, Active
  <2> QED BY <1>1, <1>3, <2>3, NothingServed
<1>4. CASE indexRoot # flush[k].root
  <2>1. UNCHANGED <<job, missed>>
    BY <1>4, ReportBegins
  <2>2. \A f \in Files : Settles(f)'
    BY <1>1, <1>4, <1>6, <2>1, SettlesElsewhere
  <2>3. Same'
    BY <1>1, <2>1 DEF Same, Validates, Main, Delta, Ours, Active
  <2>4. Reported'
    BY <1>1, <1>4, <1>6, <2>1 DEF Reported, Queued, Ours, Active, Lost
  <2> QED BY <2>2, <2>3, <2>4
<1>5. CASE currentScan # None /\ indexRoot = flush[k].root
  <2> PICK j \in Jobs :
        /\ Fresh(j) /\ \A i \in Jobs \ {j} : job'[i] = job[i]
        /\ job'[j].kind = "queued" /\ job'[j].touches = flush[k].files
        /\ ~job'[j].validates /\ job'[j].root = indexRoot
        /\ \A f \in Files : job'[j].stamps[f] = 0 => f \in flush[k].deleted
    BY <1>5, ReportBegins
  <2>8. missed' = missed \cup ({indexRoot} \X Revived(k))
    BY <1>5, ReportBegins
  <2>1. /\ ~Ours(j) /\ \A i \in Jobs : Ours(i) => i < j
        /\ \A i \in Jobs \ {j} : /\ Ours(i)' <=> Ours(i)
                                 /\ Delta(i)' <=> Delta(i)
                                 /\ Main(i)' <=> Main(i)
                                 /\ Queued(i)' <=> Queued(i)
                                 /\ Reading(i)' <=> Reading(i)
    BY <1>1, OthersStay
  <2>2. Queued(j)' /\ ~Main(j)' /\ ~Reading(j)'
    <3>1. indexRoot # None
      BY <1>1, <1>5
    <3>2. flush[k].files # {}
      BY <1>1 DEF IShape, Takes
    <3> QED BY <1>1, <1>5, <3>1, <3>2 DEF Queued, Reading, Main, Ours, Active, DeltaJob
  <2>3. ~Queued(j) /\ ~Main(j) /\ ~Reading(j) /\ ~Delta(j)
    BY <2>1 DEF Queued, Main, Reading, Delta
  <2>4. Same'
    BY <1>1, <2>1, <2>2 DEF Same, Validates
  <2>5. Reported'
    <3> SUFFICES ASSUME NEW q \in Jobs, NEW f \in Files, Queued(q)', f \in job'[q].touches,
                        ~Unreported(indexRoot, f)', ~Lost(f)',
                        \A i \in Jobs : Queued(i)' /\ f \in job'[i].touches => i <= q,
                        job'[q].stamps[f] = 0
                 PROVE  disk[indexRoot][f] = 0
      BY <1>1 DEF Reported
    <3>1. CASE q = j
      <4>1. f \in flush[k].deleted /\ f \notin touched[indexRoot]
        BY <1>1, <3>1 DEF Unreported
      <4>2. \A i \in Flushes \ {k} : flush[i].root = indexRoot => f \notin flush[i].files
        BY <1>1 DEF Unreported, Flushing
      <4>3. f \notin Revived(k)
        BY <1>1, <2>8 DEF Lost
      <4> QED BY <1>5, <4>1, <4>2, <4>3 DEF Revived
    <3>2. CASE q # j
      <4>1. Queued(q) /\ q < j /\ job'[q] = job[q]
        BY <2>1, <3>2 DEF Queued
      <4>2. f \notin flush[k].files
        BY <2>2, <4>1, IndexAssumption
      <4>3. \A i \in Jobs : Queued(i) /\ f \in job[i].touches => i <= q
        BY <2>1, <2>3
      <4>4. ~Unreported(indexRoot, f) /\ ~Lost(f)
        BY <1>1, <1>6, <2>8, <4>2 DEF Lost
      <4> QED BY <4>1, <4>3, <4>4 DEF Reported
    <3> QED BY <3>1, <3>2
  <2>6. ASSUME NEW f \in Files, f \in flush[k].files
        PROVE  Settles(f)'
    BY <2>2, <2>6 DEF Settles, Unsettled
  <2>7. ASSUME NEW f \in Files, f \notin flush[k].files
        PROVE  Settles(f)'
    <3>1. Unsettled(f) => Unsettled(f)'
      <4>1. Unreported(indexRoot, f) => Unreported(indexRoot, f)'
        BY <1>6, <2>7
      <4> QED BY <1>1, <2>1, <2>3, <4>1 DEF Unsettled
    <3>2. Lost(f) => Lost(f)'
      BY <1>1, <2>8 DEF Lost
    <3>3. \A v : Offers(v, f)' => Offers(v, f)
      BY <1>1, <2>1, <2>2, <2>3 DEF Offers
    <3>4. ASSUME NEW v, Right(v, f)
          PROVE  Right(v, f)'
      <4>1. ASSUME NEW m \in Jobs, Main(m), Allows(m, v, f), m # j
            PROVE  Allows(m, v, f)'
        BY <1>1, <4>1 DEF Allows, OnDisk
      <4> QED BY <1>1, <2>1, <2>2, <2>3, <3>4, <4>1 DEF Right, OnDisk
    <3>5. UpToDate(f) => UpToDate(f)'
      BY <1>1, <2>1, <2>2, <3>3, <3>4 DEF UpToDate, Validates, OnDisk
    <3> QED BY <1>1, <3>1, <3>2, <3>5 DEF Settles
  <2> QED BY <2>4, <2>5, <2>6, <2>7
<1> QED BY <1>3, <1>4, <1>5

\* A flush that begins or goes on.
LEMMA SettledByFlush ==
  ASSUME Sorted, Reported, Same, \A f \in Files : Settles(f), FlushMoves
  PROVE  Reported' /\ Same' /\ \A f \in Files : Settles(f)'
<1> USE DEF Sorted
<1>1. /\ UNCHANGED <<disk, manifest, indexRoot, currentScan, job, missed>>
      /\ \A r \in Roots, f \in Files : Unreported(r, f)' <=> Unreported(r, f)
  BY FlushFrame DEF IShape
<1>2. indexRoot # None => indexRoot \in Roots
  BY DEF IShape, IndexTypeOK
<1>3. ASSUME NEW f \in Files
      PROVE  Settles(f)'
  BY <1>1, <1>2, SettlesElsewhere
<1>4. Same'
  BY <1>1 DEF Same, Validates, Main, Delta, Ours, Active
<1>5. Reported'
  <2>1. \A i \in Jobs : Ours(i) => indexRoot \in Roots
    BY DEF IShape, Fits, Ours, Active
  <2>2. \A i \in Jobs : Queued(i)' <=> Queued(i)
    BY <1>1 DEF Queued, Ours, Active
  <2> SUFFICES ASSUME NEW k \in Jobs, NEW f \in Files, Queued(k), f \in job[k].touches,
                      ~Unreported(indexRoot, f)', ~Lost(f),
                      \A i \in Jobs : Queued(i) /\ f \in job[i].touches => i <= k,
                      job[k].stamps[f] = 0
               PROVE  disk[indexRoot][f] = 0
    BY <1>1, <2>2 DEF Reported, Lost
  <2>3. ~Unreported(indexRoot, f)
    BY <1>1, <2>1 DEF Queued
  <2> QED BY <2>3 DEF Reported
<1> QED BY <1>3, <1>4, <1>5

LEMMA SettledByChange ==
  ASSUME Sorted, Kinds', Reported, Same, \A f \in Files : Settles(f),
         NEW r \in Roots, NEW g \in Files, FileChanges(r, g)
  PROVE  Reported' /\ Same' /\ \A f \in Files : Settles(f)'
<1> USE DEF Sorted
<1>1. /\ UNCHANGED <<manifest, indexRoot, currentScan, flush, job, missed>>
      /\ touched' = IF Watched(r) THEN [touched EXCEPT ![r] = @ \cup {g}] ELSE touched
      /\ touched \in [Roots -> SUBSET Files] /\ disk \in [Roots -> Versions]
  BY DEF FileChanges, IShape, IndexTypeOK
<1>2. PICK version : disk' = [disk EXCEPT ![r][g] = version]
  BY DEF FileChanges
<1>3. \A i \in Jobs : /\ Delta(i)' <=> Delta(i)
                      /\ Main(i)' <=> Main(i)
                      /\ Queued(i)' <=> Queued(i)
  BY <1>1 DEF Delta, Main, Queued, Ours, Active
<1>4. \A i \in Jobs : Ours(i) => indexRoot \in Roots /\ indexRoot # None
  BY ProjectAssumption DEF IShape, Fits, Ours, Active
<1>5. ASSUME NEW f \in Files, indexRoot \in Roots, r # indexRoot \/ f # g
      PROVE  /\ disk'[indexRoot][f] = disk[indexRoot][f]
             /\ Unreported(indexRoot, f)' <=> Unreported(indexRoot, f)
  <2>1. f \in touched'[indexRoot] <=> f \in touched[indexRoot]
    BY <1>1, <1>5
  <2> QED BY <1>1, <1>2, <1>5, <2>1 DEF Versions, Unreported, Flushing
<1>6. indexRoot # None => indexRoot \in Roots
  BY DEF IShape, IndexTypeOK
<1>7. CASE r # indexRoot \/ Watched(r)
  <2>1. Same'
    BY <1>1, <1>3 DEF Same, Validates
  <2>2. r = indexRoot => Unreported(indexRoot, g)'
    BY <1>1, <1>7 DEF Unreported
  <2>3. ASSUME NEW f \in Files
        PROVE  Settles(f)'
    <3>1. CASE r = indexRoot /\ f = g
      BY <2>2, <3>1, <1>1 DEF Settles, Unsettled
    <3>2. CASE r # indexRoot \/ f # g
      BY <1>1, <1>5, <1>6, <3>2, SettlesElsewhere
    <3> QED BY <3>1, <3>2
  <2>4. Reported'
    <3> SUFFICES ASSUME NEW k \in Jobs, NEW f \in Files, Queued(k), f \in job[k].touches,
                        ~Unreported(indexRoot, f)', ~Lost(f),
                        \A i \in Jobs : Queued(i) /\ f \in job[i].touches => i <= k,
                        job[k].stamps[f] = 0
                 PROVE  disk'[indexRoot][f] = 0
      BY <1>1, <1>3 DEF Reported, Lost
    <3>1. indexRoot \in Roots /\ (r # indexRoot \/ f # g)
      BY <1>1, <1>4, <2>2 DEF Queued
    <3> QED BY <1>5, <3>1 DEF Reported
  <2> QED BY <2>1, <2>3, <2>4
<1>8. CASE r = indexRoot /\ ~Watched(r)
  <2>1. PICK i \in Jobs : Opening(i)
    BY <1>8, ProjectAssumption DEF OneMain
  <2>2. currentScan = None /\ \A k \in Jobs : ~Delta(k)
    BY <2>1 DEF OneMain, Chain
  <2> QED BY <1>1, <1>3, <2>2, NothingServed
<1> QED BY <1>7, <1>8

\* Manifests and what is being saved stay as they are.
LEMMA StampedStays ==
  ASSUME Stamped, UNCHANGED manifest, missed \subseteq missed',
         \A i \in Jobs : job'[i].kind = "save" => job'[i] = job[i]
  PROVE  Stamped'
BY DEF Stamped

LEMMA SettledInvariant == IndexSpec => []Settled
<1>1. ProjectInit /\ IndexInit => Settled
  <2> SUFFICES ASSUME IndexInit
               PROVE  Stamped /\ Reported /\ Same /\ \A f \in Files : Settles(f)
    BY DEF Settled
  <2>1. \A i \in Jobs : job[i].kind = "free" /\ ~Ours(i)
    BY DEF IndexInit, Idle, Ours, Active
  <2>2. \A r \in Roots : manifest[r] # None => manifest[r].stamps = manifest[r].scan.files
    BY DEF IndexInit, Saved
  <2>3. Stamped
    BY <2>1, <2>2 DEF Stamped
  <2>4. Reported /\ Same
    BY <2>1 DEF Reported, Same, Queued, Delta
  <2> QED BY <2>3, <2>4 DEF Settles, IndexInit
<1>2. /\ IShape /\ IShape' /\ Probes /\ Kinds /\ Kinds' /\ Serves /\ Ordered /\ Settled
      /\ [IndexNext]_<<projectVars, indexVars>>
      => Settled'
  <2> SUFFICES ASSUME IShape, IShape', Probes, Kinds, Kinds', Serves, Ordered, Settled, ~crossed',
                      [IndexNext]_<<projectVars, indexVars>>
               PROVE  Stamped' /\ Reported' /\ Same' /\ \A f \in Files : Settles(f)'
    BY DEF Settled
  <2>1. Sorted /\ Stamped /\ Reported /\ Same /\ \A f \in Files : Settles(f)
    BY CrossedStays DEF Settled, Ordered, Sorted
  <2>2. ASSUME NEW j \in Jobs, JobStep(j)
        PROVE  Stamped' /\ Reported' /\ Same' /\ \A f \in Files : Settles(f)'
    <3>1. Ours(j) => Main(j) \/ Delta(j)
      BY OursOfKind
    <3>2. \A f \in Files : Settles(f)'
      BY <2>1, <2>2, <3>1, SettlesByOther, SettlesByMain, SettlesByDelta
    <3> QED BY <2>1, <2>2, <3>2, StampedByJob, ReportedByJob, SameByJob
  <2>3. ASSUME NEW r \in Roots, IndexOpened(r)
        PROVE  Stamped' /\ Reported' /\ Same' /\ \A f \in Files : Settles(f)'
    <3>1. /\ indexRoot' = r /\ currentScan' = None /\ ~Works(r)
          /\ UNCHANGED <<manifest, missed>>
      BY <2>3 DEF IndexOpened, StopIndex
    <3> PICK j \in Jobs :
           /\ Fresh(j) /\ \A i \in Jobs \ {j} : job'[i] = job[i]
           /\ job'[j].kind = "load" /\ job'[j].touches = {} /\ job'[j].root = r
      BY <2>3, OpenedBegins
    <3>2. \A i \in Jobs : ~Delta(i)'
      BY <3>1 DEF Works, Delta, Ours, Active, DeltaJob
    <3> QED BY <2>1, <3>1, <3>2, NothingServed, StampedStays
  <2>4. CASE RescanCalled
    <3>1. UNCHANGED <<indexRoot, currentScan, manifest, missed>> /\ ~Works(indexRoot)
      BY <2>1, <2>4 DEF RescanCalled, Sorted
    <3> PICK j \in Jobs :
           /\ Fresh(j) /\ \A i \in Jobs \ {j} : job'[i] = job[i]
           /\ job'[j].kind = "scan" /\ job'[j].touches = {} /\ job'[j].root = indexRoot
      BY <2>4, RescanBegins
    <3>2. \A i \in Jobs : Ours(i)' => i = j
      BY <3>1 DEF Works, Ours, Active
    <3>3. Main(j)'
      BY <3>1 DEF Main, Ours, Active, DeltaJob
    <3>4. \A i \in Jobs : /\ Main(i)' => job'[i].kind = "scan"
                          /\ ~Delta(i)' /\ ~Queued(i)' /\ ~Reading(i)'
      BY <3>2, <3>3 DEF Main, Delta, Queued, Reading
    <3>5. \A v, f : Right(v, f)'
      BY <3>3, <3>4 DEF Right, Allows
    <3>6. \A f \in Files : UpToDate(f)'
      BY <3>4, <3>5 DEF UpToDate
    <3>7. Reported' /\ Same' /\ \A f \in Files : Settles(f)'
      BY <3>4, <3>6 DEF Reported, Same, Settles
    <3> QED BY <2>1, <3>1, <3>7, StampedStays
  <2>5. ASSUME NEW k \in Flushes, FlushEnds(k)
        PROVE  Stamped' /\ Reported' /\ Same' /\ \A f \in Files : Settles(f)'
    <3>1. UNCHANGED manifest /\ missed \subseteq missed'
      BY <2>5 DEF FlushEnds
    <3>2. \A i \in Jobs : job'[i].kind = "save" => job'[i] = job[i]
      BY <2>5, ReportBegins
    <3> QED BY <2>1, <2>5, <3>1, <3>2, SettledByReport, StampedStays
  <2>9. CASE FlushMoves
    <3>1. UNCHANGED <<manifest, missed, job>>
      BY <2>9, FlushFrame DEF IShape
    <3> QED BY <2>1, <2>9, <3>1, SettledByFlush, StampedStays
  <2>6. ASSUME NEW r \in Roots, NEW g \in Files, FileChanges(r, g)
        PROVE  Stamped' /\ Reported' /\ Same' /\ \A f \in Files : Settles(f)'
    <3>1. UNCHANGED <<manifest, missed, job>>
      BY <2>6 DEF FileChanges
    <3> QED BY <2>1, <2>6, <3>1, SettledByChange, StampedStays
  <2>7. CASE IndexRestarted
    <3>1. /\ indexRoot' = None /\ currentScan' = None /\ UNCHANGED <<manifest, missed>>
          /\ \A i \in Jobs : job'[i].kind \in {"free", "over"}
      BY <2>7 DEF IndexRestarted, StopIndex, Ended, Idle, IShape, IndexTypeOK
    <3>2. \A i \in Jobs : ~Delta(i)'
      BY <3>1 DEF Delta, Ours, Active
    <3> QED BY <2>1, <3>1, <3>2, NothingServed, StampedStays
  <2>8. CASE UNCHANGED indexVars
    <3>1. UNCHANGED <<disk, manifest, indexRoot, currentScan, touched, flush, job, missed>>
      BY <2>8 DEF indexVars
    <3>4. \A f : Unreported(indexRoot, f)' <=> Unreported(indexRoot, f)
      BY <3>1 DEF Unreported, Flushing
    <3>2. \A f \in Files : Settles(f)'
      BY <2>1, <3>1, <3>4, SettlesElsewhere
    <3>3. Reported' /\ Same'
      BY <2>1, <3>1, <3>4 DEF Reported, Same, Validates, Main, Delta, Queued, Ours, Active,
        Lost
    <3> QED BY <2>1, <3>1, <3>2, <3>3, StampedStays
  <2> QED BY <2>2, <2>3, <2>4, <2>5, <2>6, <2>7, <2>8, <2>9, IndexSteps
<1> QED BY <1>1, <1>2, ShapeInvariant, KindsInvariant, ServesInvariant, OrderedInvariant,
  PTL DEF IndexSpec

\* Whatever scans, validations and deltas there were, in this session or in
\* those before, an index at rest serves what is on disk, but for the files
\* that are recorded as missed: enqueueDelta applies reports one after the
\* other, backgroundValidate looks at what the manifest says, and no root
\* check lets a job of another project serve.
THEOREM IndexServesDisk == IndexSpec => []IndexUpToDate
<1>1. IShape /\ Kinds /\ Settled => IndexUpToDate
  <2> SUFFICES ASSUME IShape, Settled, indexRoot # None, currentScan # None, ~crossed,
                      \A g \in Files : ~Unreported(indexRoot, g), ~Works(indexRoot),
                      NEW f \in Files, <<indexRoot, f>> \notin missed
               PROVE  currentScan.files[f] = disk[indexRoot][f]
    BY DEF IndexUpToDate
  <2>1. \A i \in Jobs : ~Ours(i)
    BY DEF Works, Ours
  <2>2. ~Lost(f) /\ ~Unsettled(f) /\ \A i \in Jobs : ~Main(i) /\ ~Reading(i)
    BY <2>1 DEF Lost, Unsettled, Main, Reading, Queued
  <2>3. UpToDate(f) /\ Offers(currentScan.files[f], f)
    BY <2>2 DEF Settled, Settles, Offers
  <2>4. Right(currentScan.files[f], f)
    BY <2>3, Versioned DEF UpToDate
  <2> QED BY <2>2, <2>4 DEF Right, OnDisk
<1> QED BY <1>1, ShapeInvariant, KindsInvariant, SettledInvariant, PTL

-----------------------------------------------------------------------------
(* The session and its parts.  Every step of the session is a step of a    *)
(* part or leaves it alone; a switch is one only when it opens.            *)

LEMMA SessionSteps ==
  ASSUME [SessionNext]_sessionVars
  PROVE  \/ Edit \/ Index \/ Checkpoint \/ Branch \/ Worktree \/ Agent
         \/ \E w \in Switches : \E r \in Roots : SwitchCalled(w, r)
         \/ \E w \in Switches :
              \/ SwitchClearsWorktree(w) \/ SwitchClearsAgent(w)
              \/ SwitchStops(w) \/ SwitchOpens(w)
         \/ BranchClearEnds \/ WorktreeClearEnds \/ AgentClearGoes
         \/ WindowClosed \/ SessionRestarts \/ UNCHANGED sessionVars
  BY DEF SessionNext, Switch

\* A switch that is under way has its project.
SInv ==
  /\ switchAt \in [Switches -> SwitchPhase]
  /\ switchRoot \in [Switches -> Roots \cup {None}]
  /\ \A w \in Switches : switchAt[w] \notin {"idle", "done"} => switchRoot[w] \in Roots

LEMMA SwitchInvariant == SessionSpec => []SInv
<1>1. SessionInit => SInv
  BY DEF SessionInit, SInv, SwitchPhase
<1>2. SInv /\ [SessionNext]_sessionVars => SInv'
  <2> SUFFICES ASSUME SInv, [SessionNext]_sessionVars
               PROVE  SInv'
    OBVIOUS
  <2>1. ASSUME NEW w \in Switches, NEW r \in Roots, SwitchCalled(w, r)
        PROVE  SInv'
    BY <2>1 DEF SInv, SwitchPhase, SwitchCalled, SwitchGoes
  <2>2. ASSUME NEW w \in Switches,
               \/ SwitchClearsWorktree(w) \/ SwitchClearsAgent(w)
               \/ SwitchStops(w) \/ SwitchOpens(w)
        PROVE  SInv'
    BY <2>2 DEF SInv, SwitchPhase, SwitchClearsWorktree, SwitchClearsAgent, SwitchStops,
      SwitchOpens, SwitchGoes
  <2>3. CASE SessionRestarts
    BY <2>3 DEF SInv, SwitchPhase, SessionRestarts
  <2>4. CASE \/ Edit \/ Index \/ Checkpoint \/ Branch \/ Worktree \/ Agent
             \/ BranchClearEnds \/ WorktreeClearEnds \/ AgentClearGoes \/ WindowClosed
             \/ UNCHANGED sessionVars
    BY <2>4 DEF SInv, Edit, Index, Checkpoint, Branch, Worktree, Agent, BranchClearEnds,
      WorktreeClearEnds, AgentClearGoes, WindowClosed, sessionVars, switchVars
  <2> QED BY <2>1, <2>2, <2>3, <2>4, SessionSteps
<1> QED BY <1>1, <1>2, PTL DEF SessionSpec

(* The edits of the session keep to their own specification: nothing but   *)
(* the edit handlers and the end of a switch touches the store             *)
(* (switchToProjectRoot, createLastEditStore).                             *)
THEOREM SessionHasEdits == SessionSpec => EditSpec
<1>1. SessionInit => ProjectInit /\ EditInit
  BY DEF SessionInit
<1>2. SInv /\ [SessionNext]_sessionVars => [EditNext]_<<projectVars, editVars>>
  <2> SUFFICES ASSUME SInv, [SessionNext]_sessionVars
               PROVE  [EditNext]_<<projectVars, editVars>>
    OBVIOUS
  <2>1. CASE Edit
    BY <2>1 DEF Edit, EditNext
  <2>2. ASSUME NEW w \in Switches, SwitchOpens(w)
        PROVE  EditNext
    BY <2>2 DEF SInv, SwitchOpens, EditNext
  <2>3. CASE SessionRestarts
    BY <2>3 DEF SessionRestarts, EditNext
  <2>4. ASSUME \/ Index \/ Checkpoint \/ Branch \/ Worktree \/ Agent
               \/ \E w \in Switches : \/ \E r \in Roots : SwitchCalled(w, r)
                                     \/ SwitchClearsWorktree(w) \/ SwitchClearsAgent(w)
                                     \/ SwitchStops(w)
               \/ BranchClearEnds \/ WorktreeClearEnds \/ AgentClearGoes \/ WindowClosed
               \/ UNCHANGED sessionVars
        PROVE  UNCHANGED <<projectVars, editVars>>
    BY <2>4 DEF Index, Checkpoint, Branch, Worktree, Agent, SwitchCalled,
      SwitchClearsWorktree, SwitchClearsAgent, SwitchStops, BranchClearEnds,
      WorktreeClearEnds, AgentClearGoes, WindowClosed, sessionVars
  <2> QED BY <2>1, <2>2, <2>3, <2>4, SessionSteps
<1> QED BY <1>1, <1>2, SwitchInvariant, PTL DEF SessionSpec, EditSpec

(* The index of the session keeps to its own specification: what the other *)
(* parts do leaves it alone, a switch opens it in the turn it opens the    *)
(* project (switchToProjectRoot, activateProjectIndex).                    *)
THEOREM SessionHasIndex == SessionSpec => IndexSpec
<1>1. SessionInit => ProjectInit /\ IndexInit
  BY DEF SessionInit
<1>2. SInv /\ [SessionNext]_sessionVars => [IndexNext]_<<projectVars, indexVars>>
  <2> SUFFICES ASSUME SInv, [SessionNext]_sessionVars
               PROVE  [IndexNext]_<<projectVars, indexVars>>
    OBVIOUS
  <2>1. CASE Index
    BY <2>1 DEF Index, IndexNext
  <2>2. ASSUME NEW w \in Switches, SwitchOpens(w)
        PROVE  IndexNext
    BY <2>2 DEF SInv, SwitchOpens, IndexNext
  <2>3. CASE SessionRestarts
    BY <2>3 DEF SessionRestarts, IndexNext
  <2>4. ASSUME \/ Edit \/ Checkpoint \/ Branch \/ Worktree \/ Agent
               \/ \E w \in Switches : \/ \E r \in Roots : SwitchCalled(w, r)
                                     \/ SwitchClearsWorktree(w) \/ SwitchClearsAgent(w)
                                     \/ SwitchStops(w)
               \/ BranchClearEnds \/ WorktreeClearEnds \/ AgentClearGoes \/ WindowClosed
               \/ UNCHANGED sessionVars
        PROVE  UNCHANGED <<projectVars, indexVars>>
    BY <2>4 DEF Edit, Checkpoint, Branch, Worktree, Agent, SwitchCalled,
      SwitchClearsWorktree, SwitchClearsAgent, SwitchStops, BranchClearEnds,
      WorktreeClearEnds, AgentClearGoes, WindowClosed, sessionVars
  <2> QED BY <2>1, <2>2, <2>3, <2>4, SessionSteps
<1> QED BY <1>1, <1>2, SwitchInvariant, PTL DEF SessionSpec, IndexSpec

(* The checkpoints of the session keep to their own specification: a       *)
(* switch changes nothing but the project that later calls are for         *)
(* (the runCheckpoint handlers of main.cts, switchProjectRoot).            *)
THEOREM SessionHasCheckpoint == SessionSpec => CkptSpec
<1>1. SessionInit => ProjectInit /\ CkptInit
  BY DEF SessionInit
<1>2. SInv /\ [SessionNext]_sessionVars => [CkptNext]_<<projectVars, ckptVars>>
  <2> SUFFICES ASSUME SInv, [SessionNext]_sessionVars
               PROVE  [CkptNext]_<<projectVars, ckptVars>>
    OBVIOUS
  <2>1. CASE Checkpoint
    BY <2>1 DEF Checkpoint, CkptNext
  <2>2. ASSUME NEW w \in Switches, SwitchOpens(w)
        PROVE  CkptNext
    BY <2>2 DEF SInv, SwitchOpens, CkptNext
  <2>3. CASE SessionRestarts
    BY <2>3 DEF SessionRestarts, CkptNext
  <2>4. ASSUME \/ Edit \/ Index \/ Branch \/ Worktree \/ Agent
               \/ \E w \in Switches : \/ \E r \in Roots : SwitchCalled(w, r)
                                     \/ SwitchClearsWorktree(w) \/ SwitchClearsAgent(w)
                                     \/ SwitchStops(w)
               \/ BranchClearEnds \/ WorktreeClearEnds \/ AgentClearGoes \/ WindowClosed
               \/ UNCHANGED sessionVars
        PROVE  UNCHANGED <<projectVars, ckptVars>>
    BY <2>4 DEF Edit, Index, Branch, Worktree, Agent, SwitchCalled,
      SwitchClearsWorktree, SwitchClearsAgent, SwitchStops, BranchClearEnds,
      WorktreeClearEnds, AgentClearGoes, WindowClosed, sessionVars
  <2> QED BY <2>1, <2>2, <2>3, <2>4, SessionSteps
<1> QED BY <1>1, <1>2, SwitchInvariant, PTL DEF SessionSpec, CkptSpec

(* The branch session keeps to its own specification: the clears of a      *)
(* switch and of a closed window are its clears (switchProjectRoot).       *)
THEOREM SessionHasBranch == SessionSpec => BranchSpec
<1>1. SessionInit => ProjectInit /\ BranchInit
  BY DEF SessionInit
<1>2. SInv /\ [SessionNext]_sessionVars => [BranchNext]_<<projectVars, branchVars>>
  <2> SUFFICES ASSUME SInv, [SessionNext]_sessionVars
               PROVE  [BranchNext]_<<projectVars, branchVars>>
    OBVIOUS
  <2>1. CASE Branch
    BY <2>1 DEF Branch, BranchNext
  <2>2. ASSUME NEW w \in Switches, SwitchOpens(w)
        PROVE  BranchNext
    BY <2>2 DEF SInv, SwitchOpens, BranchNext
  <2>3. CASE SessionRestarts
    BY <2>3 DEF SessionRestarts, BranchNext
  <2>4. ASSUME \/ \E w \in Switches, r \in Roots : SwitchCalled(w, r)
               \/ BranchClearEnds \/ WindowClosed
        PROVE  BranchNext
    BY <2>4 DEF SwitchCalled, BranchClearEnds, WindowClosed, BranchNext
  <2>5. ASSUME \/ Edit \/ Index \/ Checkpoint \/ Worktree \/ Agent
               \/ \E w \in Switches : \/ SwitchClearsWorktree(w) \/ SwitchClearsAgent(w)
                                     \/ SwitchStops(w)
               \/ WorktreeClearEnds \/ AgentClearGoes
               \/ UNCHANGED sessionVars
        PROVE  UNCHANGED <<projectVars, branchVars>>
    BY <2>5 DEF Edit, Index, Checkpoint, Worktree, Agent, SwitchClearsWorktree,
      SwitchClearsAgent, SwitchStops, WorktreeClearEnds, AgentClearGoes, sessionVars
  <2> QED BY <2>1, <2>2, <2>3, <2>4, <2>5, SessionSteps
<1> QED BY <1>1, <1>2, SwitchInvariant, PTL DEF SessionSpec, BranchSpec

(* The worktree session keeps to its own specification: the clears of a    *)
(* switch and of a closed window are its clears (switchProjectRoot).       *)
THEOREM SessionHasWorktree == SessionSpec => WorktreeSpec
<1>1. SessionInit => ProjectInit /\ WorktreeInit
  BY DEF SessionInit
<1>2. SInv /\ [SessionNext]_sessionVars => [WorktreeNext]_<<projectVars, wtVars>>
  <2> SUFFICES ASSUME SInv, [SessionNext]_sessionVars
               PROVE  [WorktreeNext]_<<projectVars, wtVars>>
    OBVIOUS
  <2>1. CASE Worktree
    BY <2>1 DEF Worktree, WorktreeNext
  <2>2. ASSUME NEW w \in Switches, SwitchOpens(w)
        PROVE  WorktreeNext
    BY <2>2 DEF SInv, SwitchOpens, WorktreeNext
  <2>3. CASE SessionRestarts
    BY <2>3 DEF SessionRestarts, WorktreeNext
  <2>4. ASSUME \/ \E w \in Switches : SwitchClearsWorktree(w)
               \/ WorktreeClearEnds \/ WindowClosed
        PROVE  WorktreeNext
    BY <2>4 DEF SwitchClearsWorktree, WorktreeClearEnds, WindowClosed, WorktreeNext
  <2>5. ASSUME \/ Edit \/ Index \/ Checkpoint \/ Branch \/ Agent
               \/ \E w \in Switches : \/ \E r \in Roots : SwitchCalled(w, r)
                                     \/ SwitchClearsAgent(w) \/ SwitchStops(w)
               \/ BranchClearEnds \/ AgentClearGoes
               \/ UNCHANGED sessionVars
        PROVE  UNCHANGED <<projectVars, wtVars>>
    BY <2>5 DEF Edit, Index, Checkpoint, Branch, Agent, SwitchCalled, SwitchClearsAgent,
      SwitchStops, BranchClearEnds, AgentClearGoes, sessionVars
  <2> QED BY <2>1, <2>2, <2>3, <2>4, <2>5, SessionSteps
<1> QED BY <1>1, <1>2, SwitchInvariant, PTL DEF SessionSpec, WorktreeSpec

(* What the agent runs in the session keeps to its own specification: the  *)
(* clears of a switch and of a closed window are its clears                *)
(* (switchProjectRoot).                                                    *)
THEOREM SessionHasAgent == SessionSpec => AgentSpec
<1>1. SessionInit => ProjectInit /\ AgentInit
  BY DEF SessionInit
<1>2. SInv /\ [SessionNext]_sessionVars => [AgentNext]_<<projectVars, agentVars>>
  <2> SUFFICES ASSUME SInv, [SessionNext]_sessionVars
               PROVE  [AgentNext]_<<projectVars, agentVars>>
    OBVIOUS
  <2>1. CASE Agent
    BY <2>1 DEF Agent, AgentNext
  <2>2. ASSUME NEW w \in Switches, SwitchOpens(w)
        PROVE  AgentNext
    BY <2>2 DEF SInv, SwitchOpens, AgentNext
  <2>3. CASE SessionRestarts
    BY <2>3 DEF SessionRestarts, AgentNext
  <2>4. ASSUME \/ \E w \in Switches : SwitchClearsAgent(w)
               \/ AgentClearGoes \/ WindowClosed
        PROVE  AgentNext
    BY <2>4 DEF SwitchClearsAgent, AgentClearGoes, WindowClosed, AgentNext
  <2>5. ASSUME \/ Edit \/ Index \/ Checkpoint \/ Branch \/ Worktree
               \/ \E w \in Switches : \/ \E r \in Roots : SwitchCalled(w, r)
                                     \/ SwitchClearsWorktree(w) \/ SwitchStops(w)
               \/ BranchClearEnds \/ WorktreeClearEnds
               \/ UNCHANGED sessionVars
        PROVE  UNCHANGED <<projectVars, agentVars>>
    BY <2>5 DEF Edit, Index, Checkpoint, Branch, Worktree, SwitchCalled,
      SwitchClearsWorktree, SwitchStops, BranchClearEnds, WorktreeClearEnds, sessionVars
  <2> QED BY <2>1, <2>2, <2>3, <2>4, <2>5, SessionSteps
<1> QED BY <1>1, <1>2, SwitchInvariant, PTL DEF SessionSpec, AgentSpec

-----------------------------------------------------------------------------
(* What a switch waits for.  A git command that ran as a switch cleared    *)
(* its session is the one the clear in flight waits for, and the switch    *)
(* waits as well; a command runs once, so it never runs again.  The same   *)
(* holds of project code that began alone.                                 *)

OldBranches ==
  /\ oldBranches \in [Switches -> SUBSET BranchCalls]
  /\ \A w \in Switches : \A b \in oldBranches[w] :
       /\ branchAt[b] \in {"running", "done"}
       /\ branchAt[b] = "running" =>
            switchAt[w] = "branch" /\ branchClearing /\ branchDoomed = b

OldCode ==
  /\ oldCode \in [Switches -> SUBSET ProjectCodes]
  /\ \A w \in Switches : \A p \in oldCode[w] :
       /\ agentAt[p] \in {"running", "closing", "done"}
       /\ agentAt[p] = "running" =>
            switchAt[w] = "agent" /\ agentClearing = "ending" /\ agentDoomed = p

\* What a call of the branch session does to one that runs or is done.
LEMMA BranchRunsOnce ==
  ASSUME BInv, BranchStep, NEW b \in BranchCalls, branchAt[b] \in {"running", "done"}
  PROVE  /\ branchAt'[b] \in {"running", "done"}
         /\ branchAt'[b] = "running" => branchAt[b] = "running"
         /\ UNCHANGED <<branchClearing, branchDoomed>>
<1>1. PICK c \in BranchCalls :
        \/ BranchPrepareCalled(c) \/ BranchPrepared(c) \/ BranchTokenDropped(c)
        \/ BranchExecuteCalled(c) \/ BranchResumes(c) \/ BranchRefused(c)
        \/ BranchSpawned(c) \/ BranchChildEnded(c)
  BY DEF BranchStep
<1>2. CASE BranchPrepareCalled(c) \/ BranchPrepared(c) \/ BranchTokenDropped(c)
  BY <1>2 DEF BInv, BranchTypeOK, BranchPrepareCalled, BranchPrepared, BranchTokenDropped
<1>3. CASE BranchExecuteCalled(c) \/ BranchResumes(c)
  BY <1>3 DEF BInv, BranchTypeOK, BranchExecuteCalled, BranchResumes, BranchWaits,
    BranchAccepted
<1>4. CASE BranchRefused(c) \/ BranchSpawned(c) \/ BranchChildEnded(c)
  BY <1>4 DEF BInv, BranchTypeOK, BranchRefused, BranchSpawned, BranchChildEnded,
    BranchFinally
<1> QED BY <1>1, <1>2, <1>3, <1>4

\* A switch that calls the clear finds what runs in the clear's hands.
LEMMA ClearTakesBranches ==
  ASSUME BInv, BranchClears
  PROVE  /\ UNCHANGED branchAt
         /\ branchClearing'
         /\ \A b \in RunningBranches : branchDoomed' = b
         /\ branchClearing => UNCHANGED branchDoomed
<1>1. ASSUME NEW b \in RunningBranches
      PROVE  branchDoomed' = b
  BY <1>1 DEF BInv, RunningBranches, Tracked, Current, BranchClears, branchVars
<1> QED BY <1>1 DEF BranchClears, branchVars

LEMMA OldBranchesKept ==
  SInv /\ BInv /\ OldBranches /\ [SessionNext]_sessionVars => OldBranches'
<1> SUFFICES ASSUME SInv, BInv, OldBranches, [SessionNext]_sessionVars
             PROVE  OldBranches'
  OBVIOUS
<1>1. CASE Branch
  <2>1. BranchStep /\ UNCHANGED <<switchAt, oldBranches>>
    BY <1>1 DEF Branch, switchVars, switchHistory
  <2> QED BY <2>1, BranchRunsOnce DEF OldBranches
<1>2. ASSUME NEW v \in Switches, NEW r \in Roots, SwitchCalled(v, r)
      PROVE  OldBranches'
  <2>1. /\ switchAt[v] = "idle"
        /\ switchAt' = [switchAt EXCEPT ![v] = "branch"]
        /\ oldBranches' = [oldBranches EXCEPT ![v] = RunningBranches]
        /\ BranchClears
    BY <1>2 DEF SwitchCalled, SwitchGoes
  <2>2. RunningBranches \in SUBSET BranchCalls
    BY DEF RunningBranches
  <2>3. oldBranches' \in [Switches -> SUBSET BranchCalls]
    BY <2>1, <2>2 DEF OldBranches
  <2>4. ASSUME NEW w \in Switches, NEW b \in oldBranches'[w]
        PROVE  /\ branchAt'[b] \in {"running", "done"}
               /\ branchAt'[b] = "running" =>
                    switchAt'[w] = "branch" /\ branchClearing' /\ branchDoomed' = b
    <3>1. CASE w = v
      BY <1>2, <2>1, <2>4, <3>1, ClearTakesBranches DEF OldBranches, SInv, RunningBranches
    <3>2. CASE w # v
      <4>1. b \in oldBranches[w] /\ switchAt'[w] = switchAt[w]
        BY <2>1, <2>4, <3>2 DEF OldBranches, SInv
      <4> QED BY <2>1, <4>1, ClearTakesBranches DEF OldBranches
    <3> QED BY <3>1, <3>2
  <2> QED BY <2>3, <2>4 DEF OldBranches
<1>3. ASSUME NEW v \in Switches,
             \/ SwitchClearsWorktree(v) \/ SwitchClearsAgent(v)
             \/ SwitchStops(v) \/ SwitchOpens(v)
      PROVE  OldBranches'
  <2>1. UNCHANGED <<branchAt, branchClearing, branchDoomed, oldBranches>>
    BY <1>3 DEF SwitchClearsWorktree, SwitchClearsAgent, SwitchStops, SwitchOpens,
      branchVars, switchHistory
  <2>2. /\ switchAt[v] = "branch" => ~branchClearing
        /\ \A w \in Switches : w # v => switchAt'[w] = switchAt[w]
    BY <1>3 DEF SInv, SwitchClearsWorktree, SwitchClearsAgent, SwitchStops, SwitchOpens,
      SwitchGoes
  <2> QED BY <2>1, <2>2 DEF OldBranches
<1>4. CASE BranchClearEnds
  <2>1. \A b \in BranchCalls : branchDoomed = b => branchAt[b] # "running"
    BY <1>4, BranchAssumption DEF BranchClearEnds, BranchCleared
  <2>2. UNCHANGED <<branchAt, switchAt, oldBranches>>
    BY <1>4 DEF BranchClearEnds, BranchCleared, switchVars, switchHistory
  <2> QED BY <2>1, <2>2 DEF OldBranches
<1>5. CASE WindowClosed
  <2>1. BranchClears /\ UNCHANGED <<switchAt, oldBranches>>
    BY <1>5 DEF WindowClosed, switchVars, switchHistory
  <2> QED BY <2>1, ClearTakesBranches DEF OldBranches
<1>6. CASE SessionRestarts
  BY <1>6 DEF OldBranches, BInv, BranchTypeOK, SessionRestarts, BranchRestarted,
    switchHistory
<1>7. CASE \/ Edit \/ Index \/ Checkpoint \/ Worktree \/ Agent
           \/ WorktreeClearEnds \/ AgentClearGoes \/ UNCHANGED sessionVars
  <2>1. UNCHANGED <<branchAt, branchClearing, branchDoomed, switchAt, oldBranches>>
    BY <1>7 DEF Edit, Index, Checkpoint, Worktree, Agent, WorktreeClearEnds,
      AgentClearGoes, sessionVars, branchVars, switchVars, switchHistory
  <2> QED BY <2>1 DEF OldBranches
<1> QED BY <1>1, <1>2, <1>3, <1>4, <1>5, <1>6, <1>7, SessionSteps

\* What a call of the agent does to one that runs or ran.
LEMMA CodeRunsOnce ==
  ASSUME AInv, AgentStep, NEW p \in ProjectCodes,
         agentAt[p] \in {"running", "closing", "done"}
  PROVE  /\ agentAt'[p] \in {"running", "closing", "done"}
         /\ agentAt'[p] = "running" => agentAt[p] = "running"
         /\ UNCHANGED <<agentClearing, agentDoomed>>
<1>0. agentAt \in [AgentCalls -> AgentPhase] /\ p \in AgentCalls
  BY DEF AInv, AgentTypeOK, AgentCalls
<1>1. ASSUME NEW c \in AgentCalls,
             \/ InspectCalled(c) \/ AgentPrepareCalled(c) \/ AgentPrepareResumes(c)
             \/ PreviewKept(c) \/ PreviewDropped(c) \/ Approved(c) \/ TokenChecked(c)
             \/ Minted(c) \/ AgentWaitEnds(c)
      PROVE  /\ agentAt'[p] = agentAt[p]
             /\ UNCHANGED <<agentClearing, agentDoomed>>
  BY <1>0, <1>1 DEF InspectCalled, AgentPrepareCalled, AgentPrepareResumes, PreviewKept,
    PreviewDropped, Approved, TokenChecked, Minted, AgentWaitEnds, Enters, Admits,
    AgentGoes, agentSession
<1>2. ASSUME NEW c \in AgentCalls, ConfirmCalled(c) \/ ConfirmResumes(c)
      PROVE  /\ agentAt'[p] = agentAt[p]
             /\ UNCHANGED <<agentClearing, agentDoomed>>
  BY <1>0, <1>2 DEF ConfirmCalled, ConfirmResumes, AsksUser, AgentGoes, agentSession
<1>3. ASSUME NEW c \in AgentCalls,
             Spawned(c) \/ AgentChildDies(c) \/ AgentFinally(c) \/ AgentRefused(c)
      PROVE  /\ agentAt'[p] \in {"running", "closing", "done"}
             /\ agentAt'[p] = "running" => agentAt[p] = "running"
             /\ UNCHANGED <<agentClearing, agentDoomed>>
  BY <1>0, <1>3 DEF Spawned, MaySpawn, AgentChildDies, AgentFinally, AgentRefused,
    AgentGoes, agentSession
<1> QED BY <1>1, <1>2, <1>3 DEF AgentStep, AgentCalls

\* A switch that calls the clear finds what runs alone in the clear's hands,
\* or ended by it.
LEMMA ClearTakesCode ==
  ASSUME AInv, AgentClears
  PROVE  /\ UNCHANGED agentAt
         /\ agentClearing = "no" => agentClearing' = "ending"
         /\ \A p \in RunningCode : agentClearing' = "ending" /\ agentDoomed' = p
         /\ agentClearing # "no" => UNCHANGED <<agentClearing, agentDoomed>>
<1>1. ASSUME NEW p \in RunningCode
      PROVE  agentClearing' = "ending" /\ agentDoomed' = p
  <2>1. p = IF agentClearing = "no" THEN activeAgentPid ELSE agentDoomed
    BY <1>1 DEF AInv, ClearReachesProjectCode, RunningCode
  <2>2. agentClearing # "recovering" /\ agentClearing \in {"no", "ending", "recovering"}
    BY <1>1 DEF AInv, RunningCode, AgentTypeOK
  <2> QED BY <2>1, <2>2 DEF AgentClears, agentVars, agentSession
<1> QED BY <1>1 DEF AgentClears, agentVars, agentSession

LEMMA OldCodeKept ==
  SInv /\ AInv /\ OldCode /\ [SessionNext]_sessionVars => OldCode'
<1> SUFFICES ASSUME SInv, AInv, OldCode, [SessionNext]_sessionVars
             PROVE  OldCode'
  OBVIOUS
<1>1. CASE Agent
  <2>1. AgentStep /\ UNCHANGED <<switchAt, oldCode>>
    BY <1>1 DEF Agent, switchVars, switchHistory
  <2> QED BY <2>1, CodeRunsOnce DEF OldCode
<1>2. ASSUME NEW v \in Switches, SwitchClearsAgent(v)
      PROVE  OldCode'
  <2>1. /\ switchAt[v] = "worktree"
        /\ switchAt' = [switchAt EXCEPT ![v] = "agent"]
        /\ oldCode' = [oldCode EXCEPT ![v] = RunningCode]
        /\ AgentClears
    BY <1>2 DEF SwitchClearsAgent, SwitchGoes
  <2>2. RunningCode \in SUBSET ProjectCodes
    BY DEF RunningCode
  <2>3. oldCode' \in [Switches -> SUBSET ProjectCodes]
    BY <2>1, <2>2 DEF OldCode
  <2>4. ASSUME NEW w \in Switches, NEW p \in oldCode'[w]
        PROVE  /\ agentAt'[p] \in {"running", "closing", "done"}
               /\ agentAt'[p] = "running" =>
                    switchAt'[w] = "agent" /\ agentClearing' = "ending" /\ agentDoomed' = p
    <3>1. CASE w = v
      <4>1. p \in RunningCode /\ switchAt'[w] = "agent"
        BY <2>1, <2>4, <3>1 DEF OldCode, SInv
      <4>2. agentAt[p] = "running"
        BY <4>1 DEF RunningCode
      <4> QED BY <2>1, <4>1, <4>2, ClearTakesCode
    <3>2. CASE w # v
      <4>1. p \in oldCode[w] /\ switchAt'[w] = switchAt[w]
        BY <2>1, <2>4, <3>2 DEF OldCode, SInv
      <4> QED BY <2>1, <4>1, ClearTakesCode DEF OldCode
    <3> QED BY <3>1, <3>2
  <2> QED BY <2>3, <2>4 DEF OldCode
<1>3. ASSUME NEW v \in Switches,
             \/ \E r \in Roots : SwitchCalled(v, r)
             \/ SwitchClearsWorktree(v) \/ SwitchStops(v) \/ SwitchOpens(v)
      PROVE  OldCode'
  <2>1. UNCHANGED <<agentAt, agentClearing, agentDoomed, oldCode>>
    BY <1>3 DEF SwitchCalled, SwitchClearsWorktree, SwitchStops, SwitchOpens,
      agentVars, agentSession, switchHistory
  <2>2. /\ switchAt[v] = "agent" => agentClearing = "no"
        /\ \A w \in Switches : w # v => switchAt'[w] = switchAt[w]
    BY <1>3 DEF SInv, SwitchCalled, SwitchClearsWorktree, SwitchStops, SwitchOpens,
      SwitchGoes
  <2> QED BY <2>1, <2>2 DEF OldCode
<1>4. CASE AgentClearGoes
  <2>1. agentClearing = "ending" =>
          \A p \in ProjectCodes : agentDoomed = p => agentAt[p] # "running"
    BY <1>4, AgentAssumption DEF AgentClearGoes, AgentRecovers, AgentCleared, AgentCalls
  <2>2. UNCHANGED <<agentAt, switchAt, oldCode>>
    BY <1>4 DEF AgentClearGoes, AgentRecovers, AgentCleared, switchVars, switchHistory
  <2> QED BY <2>1, <2>2 DEF OldCode
<1>5. CASE WindowClosed
  <2>1. AgentClears /\ UNCHANGED <<switchAt, oldCode>>
    BY <1>5 DEF WindowClosed, switchVars, switchHistory
  <2> QED BY <2>1, ClearTakesCode DEF OldCode
<1>6. CASE SessionRestarts
  BY <1>6 DEF OldCode, AInv, AgentTypeOK, AgentCalls, SessionRestarts, AgentRestarted,
    switchHistory
<1>7. CASE \/ Edit \/ Index \/ Checkpoint \/ Branch \/ Worktree
           \/ BranchClearEnds \/ WorktreeClearEnds \/ UNCHANGED sessionVars
  <2>1. UNCHANGED <<agentAt, agentClearing, agentDoomed, switchAt, oldCode>>
    BY <1>7 DEF Edit, Index, Checkpoint, Branch, Worktree, BranchClearEnds,
      WorktreeClearEnds, sessionVars, agentVars, agentSession, switchVars, switchHistory
  <2> QED BY <2>1 DEF OldCode
<1> QED BY <1>1, <1>2, <1>3, <1>4, <1>5, <1>6, <1>7, SessionSteps

LEMMA OldWorkInvariant == SessionSpec => [](OldBranches /\ OldCode)
<1>1. SessionInit => OldBranches /\ OldCode
  BY DEF SessionInit, OldBranches, OldCode
<1> QED BY <1>1, OldBranchesKept, OldCodeKept, SwitchInvariant, BranchInvariant,
           AgentInvariant, SessionHasBranch, SessionHasAgent, PTL DEF SessionSpec

(* When a switch goes on, the git command and the lone project code that   *)
(* ran as it called their clears are over, for any number of switches,     *)
(* closed windows, calls and restarts (the awaits of switchProjectRoot,    *)
(* clearGitBranchSession, clearAgentExecutionSession).                     *)
THEOREM SwitchWaits == SessionSpec => []SwitchEndsOldWork
<1>1. OldBranches /\ OldCode => SwitchEndsOldWork
  BY DEF OldBranches, OldCode, SwitchEndsOldWork
<1> QED BY <1>1, OldWorkInvariant, PTL

(* All of it together: whatever edits, undos, index jobs, checkpoint calls,*)
(* git commands, clears, switches, closed windows and restarts come        *)
(* between, undo finds the newest edit, the index serves the open project  *)
(* and, at rest, what is on disk, checkpoints are the ones asked for last  *)
(* and are not lost, git changes branches one command at a time, worktrees *)
(* are created whole or not at all, the agent is never locked out, and     *)
(* project code that began alone is reached by the clears, which a switch  *)
(* waits for (switchProjectRoot and what it interrupts).                   *)
THEOREM SessionSafe ==
  SessionSpec => [](/\ UndoReachesNewest /\ IndexServesOpenProject /\ IndexUpToDate
                    /\ LastCallStands /\ MigrationKeepsCheckpoint
                    /\ BranchSerial /\ CreateIsAllOrNothing
                    /\ AgentNeverLockedOut /\ ClearReachesProjectCode
                    /\ SwitchEndsOldWork)
BY SessionHasEdits, SessionHasIndex, SessionHasCheckpoint, SessionHasBranch,
   SessionHasWorktree, SessionHasAgent, UndoFindsNewest, IndexServes, IndexServesDisk,
   LastSaveStands, MigrationKeeps, OneBranchCommand, CreateAllOrNothing,
   AgentNotLockedOut, ClearReaches, SwitchWaits,
   PTL

(* The session and its parts have their types, whatever interrupts what    *)
(* (switchProjectRoot and the handlers of main.cts).                       *)
THEOREM SessionTyped == SessionSpec => []SessionTypeOK
<1> DEFINE RestartsOK == restarts \in 0..MaxRestarts
<1>1. ProjectInit /\ EditInit => RestartsOK
  BY ProjectAssumption DEF ProjectInit
<1>2. RestartsOK /\ [EditNext]_<<projectVars, editVars>> => RestartsOK'
  BY ProjectAssumption DEF EditNext, Opens, Restarts, projectVars
<1>3. EditSpec => []RestartsOK
  BY <1>1, <1>2, PTL DEF EditSpec
<1>4. EInv => EditTypeOK /\ openRoot \in Roots \cup {None}
  BY DEF EInv
<1>5. CQueue => CkptTypeOK
  BY DEF CQueue
<1>6. /\ RestartsOK /\ openRoot \in Roots \cup {None} /\ EditTypeOK /\ IndexTypeOK
      /\ CkptTypeOK /\ BranchTypeOK /\ WorktreeTypeOK /\ AInv /\ SInv
      /\ OldBranches /\ OldCode
      => SessionTypeOK
  BY DEF ProjectTypeOK, AInv, SInv, OldBranches, OldCode, SessionTypeOK
<1> QED BY <1>3, <1>4, <1>5, <1>6, EditInvariant, IndexTyped, QueueInvariant, GitTyped,
           AgentInvariant, SwitchInvariant, OldWorkInvariant, SessionHasEdits,
           SessionHasIndex, SessionHasCheckpoint, SessionHasBranch, SessionHasWorktree,
           SessionHasAgent, PTL
==============================================================================
