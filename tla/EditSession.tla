----------------------------- MODULE EditSession -----------------------------
(***************************************************************************)
(* The edits of the open project and "undo last edit": the IPC handlers    *)
(* edit:apply, edit:createFile, edit:replaceUndoBatch and edit:undoLast of *)
(* electron/main.cts and the store of electron/lastEditBatch.cts.  An edit *)
(* awaits its write before it is recorded and an undo awaits its whole     *)
(* transaction (UndoTransaction has its steps), so edits, undos and        *)
(* switches of the project come in between.                                *)
(*                                                                         *)
(* An edit stands for its call and for the record it leaves.               *)
(***************************************************************************)
EXTENDS OpenProject

CONSTANTS
  Edits,        \* calls that edit or replace the batch
  Undos         \* calls of edit:undoLast

ASSUME EditAssumption == None \notin Edits

VARIABLES
  editAt,       \* [Edits -> {"idle", "writing", "done"}]
  editRoot,     \* the project an edit was called in
  batch,        \* the edit whose record the store holds, or None
  attemptBasis, \* the edit whose failed undo left its snapshots, or None
  undoAt,       \* [Undos -> {"idle", "running", "done"}]
  undoBatch,    \* the batch an undo works on
  undoBasis,    \* the snapshots it compares with: attemptBasis when it was called
  undoRoot,     \* the project it was called in
  newest,       \* history: the edit recorded last; None when undone or dropped
  clean         \* history: it was recorded in its project, and no undo ran then

editVars == <<editAt, editRoot, batch, attemptBasis, undoAt, undoBatch, undoBasis,
              undoRoot, newest, clean>>

EditInit ==
  /\ editAt = [e \in Edits |-> "idle"]
  /\ editRoot = [e \in Edits |-> None]
  /\ batch = None
  /\ attemptBasis = None
  /\ undoAt = [u \in Undos |-> "idle"]
  /\ undoBatch = [u \in Undos |-> None]
  /\ undoBasis = [u \in Undos |-> None]
  /\ undoRoot = [u \in Undos |-> None]
  /\ newest = None
  /\ clean = FALSE

UndoRuns == \E u \in Undos : undoAt[u] = "running"

\* Seeded fault: the snapshots of the last failed undo stay.
Record_keepsBasis(e, root) ==
  /\ batch' = e
  /\ newest' = e
  /\ clean' = (~UndoRuns /\ root = openRoot)
  /\ UNCHANGED attemptBasis

\* recordSingle, replace: the record takes the place of the last.
Record(e, root) ==
  /\ batch' = e
  /\ attemptBasis' = None
  /\ newest' = e
  /\ clean' = (~UndoRuns /\ root = openRoot)

Dropped ==
  /\ batch' = None
  /\ attemptBasis' = None
  /\ newest' = None
  /\ clean' = FALSE

\* edit:apply and edit:createFile up to the await of their write.
EditCalled(e) ==
  /\ openRoot # None
  /\ editAt[e] = "idle"
  /\ editAt' = [editAt EXCEPT ![e] = "writing"]
  /\ editRoot' = [editRoot EXCEPT ![e] = openRoot]
  /\ UNCHANGED <<batch, attemptBasis, undoAt, undoBatch, undoBasis, undoRoot,
                 newest, clean>>

\* The write is done: the edit is recorded in the store there is now.
EditWritten(e) ==
  /\ editAt[e] = "writing"
  /\ editAt' = [editAt EXCEPT ![e] = "done"]
  /\ Record(e, editRoot[e])
  /\ UNCHANGED <<editRoot, undoAt, undoBatch, undoBasis, undoRoot>>

\* It failed, or its caller keeps the record itself (recordUndoFlag).
EditNotRecorded(e) ==
  /\ editAt[e] = "writing"
  /\ editAt' = [editAt EXCEPT ![e] = "done"]
  /\ UNCHANGED <<editRoot, batch, attemptBasis, undoAt, undoBatch, undoBasis,
                 undoRoot, newest, clean>>

\* edit:replaceUndoBatch: a batch of paths inside the open project, or an
\* empty one, which drops what the store holds.
BatchReplaced(e) ==
  /\ openRoot # None
  /\ editAt[e] = "idle"
  /\ editAt' = [editAt EXCEPT ![e] = "done"]
  /\ editRoot' = [editRoot EXCEPT ![e] = openRoot]
  /\ Record(e, openRoot) \/ Dropped
  /\ UNCHANGED <<undoAt, undoBatch, undoBasis, undoRoot>>

\* An undo with nothing to undo answers at once.
UndoCalled(u) ==
  /\ batch # None
  /\ undoAt[u] = "idle"
  /\ undoAt' = [undoAt EXCEPT ![u] = "running"]
  /\ undoBatch' = [undoBatch EXCEPT ![u] = batch]
  /\ undoBasis' = [undoBasis EXCEPT ![u] = attemptBasis]
  /\ undoRoot' = [undoRoot EXCEPT ![u] = openRoot]
  /\ UNCHANGED <<editAt, editRoot, batch, attemptBasis, newest, clean>>

UndoReturns(u) ==
  /\ undoAt[u] = "running"
  /\ undoAt' = [undoAt EXCEPT ![u] = "done"]
  /\ UNCHANGED <<editAt, editRoot, undoBatch, undoBasis, undoRoot>>

\* Paths outside the project the undo was called in are refused.
UndoInside(u) == editRoot[undoBatch[u]] = undoRoot[u]

\* The store is emptied, whatever it holds by now.
UndoSucceeds(u) ==
  /\ UndoReturns(u)
  /\ UndoInside(u)
  /\ batch' = None
  /\ attemptBasis' = None
  /\ newest' = IF newest = undoBatch[u] THEN None ELSE newest
  /\ UNCHANGED clean

\* The attempt's snapshots, or those of an earlier attempt that they differ
\* from, go with the batch the store holds by now.
UndoFails(u) ==
  /\ UndoReturns(u)
  /\ UndoInside(u)
  /\ attemptBasis' \in {undoBatch[u], undoBasis[u]} \ {None}
  /\ UNCHANGED <<batch, newest, clean>>

\* Refused before anything changed: no new snapshots.
UndoRefused(u) ==
  /\ UndoReturns(u)
  /\ UNCHANGED <<batch, attemptBasis, newest, clean>>

EditStep ==
  \/ \E e \in Edits :
       EditCalled(e) \/ EditWritten(e) \/ EditNotRecorded(e) \/ BatchReplaced(e)
  \/ \E u \in Undos :
       UndoCalled(u) \/ UndoSucceeds(u) \/ UndoFails(u) \/ UndoRefused(u)

\* The last act of a switch on the store: clear.
EditsOpened ==
  /\ Dropped
  /\ UNCHANGED <<editAt, editRoot, undoAt, undoBatch, undoBasis, undoRoot>>

\* The store and the calls are in memory only.
EditsRestarted ==
  /\ Dropped
  /\ editAt' = [e \in Edits |-> IF editAt[e] = "writing" THEN "done" ELSE editAt[e]]
  /\ undoAt' = [u \in Undos |-> IF undoAt[u] = "running" THEN "done" ELSE undoAt[u]]
  /\ UNCHANGED <<editRoot, undoBatch, undoBasis, undoRoot>>

EditNext ==
  \/ EditStep /\ UNCHANGED projectVars
  \/ \E r \in Roots : Opens(r) /\ EditsOpened
  \/ Restarts /\ EditsRestarted

EditSpec == ProjectInit /\ EditInit /\ [][EditNext]_<<projectVars, editVars>>
-----------------------------------------------------------------------------
EditTypeOK ==
  /\ editAt \in [Edits -> {"idle", "writing", "done"}]
  /\ editRoot \in [Edits -> Roots \cup {None}]
  /\ batch \in Edits \cup {None}
  /\ attemptBasis \in Edits \cup {None}
  /\ undoAt \in [Undos -> {"idle", "running", "done"}]
  /\ undoBatch \in [Undos -> Edits \cup {None}]
  /\ undoBasis \in [Undos -> Edits \cup {None}]
  /\ undoRoot \in [Undos -> Roots \cup {None}]
  /\ newest \in Edits \cup {None}
  /\ clean \in BOOLEAN

(* "Undo last edit" reaches the edit recorded last: the store holds it, it *)
(* belongs to the open project, and no failed undo of another batch stands *)
(* in its way, if it was recorded in its project while no undo ran         *)
(* (createLastEditStore, edit:apply).                                      *)
UndoReachesNewest ==
  newest # None /\ clean =>
    /\ batch = newest
    /\ editRoot[newest] = openRoot
    /\ attemptBasis \in {None, newest}
==============================================================================
