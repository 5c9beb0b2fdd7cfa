---------------------------- MODULE RunCheckpoint ----------------------------
(***************************************************************************)
(* The checkpoint of an interrupted run (electron/runCheckpoint.cts): one  *)
(* file per project, replaced by rename, whose writes queue behind each    *)
(* other (enqueueSerializedWrite of electron/safeFs.cts), and the older    *)
(* file in userData with an entry per project, which a load moves over.    *)
(* The renderer starts saves and clears without waiting for their answer   *)
(* (core/runPersistence/store.ts), so calls overlap in any way.            *)
(*                                                                         *)
(* A save stands for its call and for the checkpoint it writes.            *)
(***************************************************************************)
EXTENDS OpenProject, Sequences

CONSTANTS
  Saves,        \* calls of runCheckpoint:save
  Clears,       \* calls of runCheckpoint:clear
  Loads,        \* calls of runCheckpoint:load
  Migrated,     \* the checkpoint that comes from the legacy file
  Legacy        \* projects with an entry in the legacy file at first

Calls == Saves \cup Clears \cup Loads

ASSUME CheckpointAssumption ==
  /\ Saves \cap Clears = {} /\ Saves \cap Loads = {} /\ Clears \cap Loads = {}
  /\ None \notin Calls \cup {Migrated}
  /\ Migrated \notin Calls
  /\ Legacy \subseteq Roots

VARIABLES
  ckptFile,     \* [Roots -> Saves \cup {Migrated, None}]: the project's file
  legacyFile,   \* projects with an entry in the legacy file
  writeQueue,   \* [Roots -> Seq(Calls)]: writes of the project's file to come
  callAt,       \* [Calls -> CallPhase]
  callRoot,     \* [Calls -> Roots \cup {None}]
  legacySeen,   \* [Calls -> SUBSET Roots]: the legacy file as a call read it
  lastCall,     \* history: the save or clear accepted last, per project
  overlapped,   \* history: projects where a clear or a migration met other calls
  failed,       \* history: projects where a write or a clear has failed
  excused       \* history: projects cleared, or whose migration could not be written

ckptVars == <<ckptFile, legacyFile, writeQueue, callAt, callRoot, legacySeen,
              lastCall, overlapped, failed, excused>>

CallPhase == {"idle", "queued", "unlink", "read", "readLegacy", "writeLegacy", "done"}

CkptInit ==
  /\ ckptFile = [r \in Roots |-> None]
  /\ legacyFile = Legacy
  /\ writeQueue = [r \in Roots |-> <<>>]
  /\ callAt = [c \in Calls |-> "idle"]
  /\ callRoot = [c \in Calls |-> None]
  /\ legacySeen = [c \in Calls |-> {}]
  /\ lastCall = [r \in Roots |-> None]
  /\ overlapped = {}
  /\ failed = {}
  /\ excused = {}

InFlight(r) == {c \in Calls : callRoot[c] = r /\ callAt[c] \notin {"idle", "done"}}

\* Bookkeeping for the properties: a save or clear that nothing precedes makes
\* a new start, a save may follow saves.
Overlaps(c, r) ==
  IF InFlight(r) = {} /\ c \notin Loads
  THEN overlapped' = overlapped \ {r} /\ failed' = failed \ {r}
  ELSE /\ UNCHANGED failed
       /\ overlapped' =
            IF c \in Loads \/ (InFlight(r) \ Loads) \cup {c} \subseteq Saves
            THEN overlapped ELSE overlapped \cup {r}

Called(c, phase) ==
  /\ openRoot # None
  /\ callAt[c] = "idle"
  /\ callAt' = [callAt EXCEPT ![c] = phase]
  /\ callRoot' = [callRoot EXCEPT ![c] = openRoot]
  /\ Overlaps(c, openRoot)
  /\ UNCHANGED <<ckptFile, legacyFile, legacySeen>>

\* saveRunCheckpointForProject: the checks and the queueing are one turn.
SaveCalled(s) ==
  /\ Called(s, "queued")
  /\ writeQueue' = [writeQueue EXCEPT ![openRoot] = Append(@, s)]
  /\ lastCall' = [lastCall EXCEPT ![openRoot] = s]
  /\ UNCHANGED excused

ClearCalled(c) ==
  /\ Called(c, "unlink")
  /\ lastCall' = [lastCall EXCEPT ![openRoot] = c]
  /\ excused' = excused \cup {openRoot}
  /\ UNCHANGED writeQueue

LoadCalled(l) ==
  /\ Called(l, "read")
  /\ UNCHANGED <<writeQueue, lastCall, excused>>

Content(c) == IF c \in Saves THEN c ELSE Migrated

\* A load goes on with the legacy file whatever became of its write.
Answered(c) ==
  callAt' = [callAt EXCEPT ![c] = IF c \in Loads THEN "writeLegacy" ELSE "done"]

\* Seeded fault: writes are not queued.
WriteDone_anyOrder(r) ==
  \E i \in DOMAIN writeQueue[r] :
    LET c == writeQueue[r][i]
    IN  /\ ckptFile' = [ckptFile EXCEPT ![r] = Content(c)]
        /\ writeQueue' = [writeQueue EXCEPT ![r] =
             SubSeq(@, 1, i - 1) \o SubSeq(@, i + 1, Len(@))]
        /\ Answered(c)
        /\ UNCHANGED <<legacyFile, callRoot, legacySeen, lastCall, overlapped, failed, excused>>

\* The write at the head of the queue has renamed its file over the old one.
WriteDone(r) ==
  /\ writeQueue[r] # <<>>
  /\ LET c == Head(writeQueue[r])
     IN  /\ ckptFile' = [ckptFile EXCEPT ![r] = Content(c)]
         /\ Answered(c)
  /\ writeQueue' = [writeQueue EXCEPT ![r] = Tail(@)]
  /\ UNCHANGED <<legacyFile, callRoot, legacySeen, lastCall, overlapped, failed, excused>>

\* It could not be written, or the project is a worktree that keeps none.
WriteFails(r) ==
  /\ writeQueue[r] # <<>>
  /\ LET c == Head(writeQueue[r])
     IN  /\ Answered(c)
         /\ excused' = IF c \in Loads THEN excused \cup {r} ELSE excused
  /\ writeQueue' = [writeQueue EXCEPT ![r] = Tail(@)]
  /\ failed' = failed \cup {r}
  /\ UNCHANGED <<ckptFile, legacyFile, callRoot, legacySeen, lastCall, overlapped>>

\* clearProjectRunCheckpoint: the file goes, or it cannot be removed.
Unlink(c) ==
  /\ callAt[c] = "unlink"
  /\ callAt' = [callAt EXCEPT ![c] = "readLegacy"]
  /\ \/ /\ ckptFile' = [ckptFile EXCEPT ![callRoot[c]] = None]
        /\ UNCHANGED failed
     \/ /\ failed' = failed \cup {callRoot[c]}
        /\ UNCHANGED ckptFile
  /\ UNCHANGED <<legacyFile, writeQueue, callRoot, legacySeen, lastCall, overlapped,
                 excused>>

\* A load that finds the project's file has its answer.
ReadCheckpoint(l) ==
  /\ callAt[l] = "read"
  /\ callAt' = [callAt EXCEPT ![l] =
       IF ckptFile[callRoot[l]] # None THEN "done" ELSE "readLegacy"]
  /\ UNCHANGED <<ckptFile, legacyFile, writeQueue, callRoot, legacySeen, lastCall,
                 overlapped, failed, excused>>

\* Seeded fault: a load removes the legacy entry before it writes the file.
AfterLegacy_dropsFirst(c, found) ==
  /\ callAt' = [callAt EXCEPT ![c] = IF found THEN "writeLegacy" ELSE "done"]
  /\ UNCHANGED writeQueue

\* With an entry for its project, a load writes the project's file first, a
\* clear rewrites the legacy file.
AfterLegacy(c, found) ==
  LET migrates == found /\ c \in Loads
  IN  /\ callAt' = [callAt EXCEPT ![c] =
           IF migrates THEN "queued" ELSE IF found THEN "writeLegacy" ELSE "done"]
      /\ writeQueue' = IF migrates
                       THEN [writeQueue EXCEPT ![callRoot[c]] = Append(@, c)]
                       ELSE writeQueue

ReadLegacy(c) ==
  /\ callAt[c] = "readLegacy"
  /\ legacySeen' = [legacySeen EXCEPT ![c] = legacyFile]
  /\ AfterLegacy(c, callRoot[c] \in legacyFile)
  /\ overlapped' = IF c \in Loads /\ callRoot[c] \in legacyFile
                   THEN overlapped \cup {callRoot[c]} ELSE overlapped
  /\ UNCHANGED <<ckptFile, legacyFile, callRoot, lastCall, failed, excused>>

\* The legacy file as it was read, without the project's entry.
WriteLegacy(c) ==
  /\ callAt[c] = "writeLegacy"
  /\ callAt' = [callAt EXCEPT ![c] = "done"]
  /\ legacyFile' \in {legacySeen[c] \ {callRoot[c]}, legacyFile}
  /\ UNCHANGED <<ckptFile, writeQueue, callRoot, legacySeen, lastCall, overlapped,
                 failed, excused>>

CkptStep ==
  \/ \E s \in Saves : SaveCalled(s)
  \/ \E c \in Clears : ClearCalled(c) \/ Unlink(c)
  \/ \E l \in Loads : LoadCalled(l) \/ ReadCheckpoint(l)
  \/ \E c \in Clears \cup Loads : ReadLegacy(c) \/ WriteLegacy(c)
  \/ \E r \in Roots : WriteDone(r) \/ WriteFails(r)

\* The queues and the calls end with the process; the files stay.
CkptRestarted ==
  /\ writeQueue' = [r \in Roots |-> <<>>]
  /\ callAt' = [c \in Calls |-> IF callAt[c] = "idle" THEN "idle" ELSE "done"]
  /\ failed' = failed \cup {r \in Roots : InFlight(r) # {}}
  /\ UNCHANGED <<ckptFile, legacyFile, callRoot, legacySeen, lastCall, overlapped,
                 excused>>

CkptNext ==
  \/ CkptStep /\ UNCHANGED projectVars
  \/ \E r \in Roots : Opens(r) /\ UNCHANGED ckptVars
  \/ Restarts /\ CkptRestarted

CkptSpec == ProjectInit /\ CkptInit /\ [][CkptNext]_<<projectVars, ckptVars>>
-----------------------------------------------------------------------------
CkptTypeOK ==
  /\ ckptFile \in [Roots -> Saves \cup {Migrated, None}]
  /\ legacyFile \subseteq Roots
  /\ writeQueue \in [Roots -> Seq(Saves \cup Loads)]
  /\ callAt \in [Calls -> CallPhase]
  /\ callRoot \in [Calls -> Roots \cup {None}]
  /\ legacySeen \in [Calls -> SUBSET Roots]
  /\ lastCall \in [Roots -> Saves \cup Clears \cup {None}]
  /\ overlapped \subseteq Roots
  /\ failed \subseteq Roots
  /\ excused \subseteq Roots

(* However many saves overlap, and whichever projects are opened meanwhile,*)
(* what a project keeps is what the renderer asked for last, once the      *)
(* calls are answered (enqueueSerializedWrite).                            *)
LastCallStands ==
  \A r \in Roots :
    InFlight(r) = {} /\ r \notin overlapped \cup failed /\ lastCall[r] # None =>
      ckptFile[r] = (IF lastCall[r] \in Saves THEN lastCall[r] ELSE None)

(* A checkpoint in the legacy file is not lost while it is moved, wherever *)
(* the process ends and whichever projects' loads, clears and saves        *)
(* overlap, unless the project's file could not be written                 *)
(* (loadRunCheckpointForProject).                                          *)
MigrationKeepsCheckpoint ==
  Legacy \subseteq legacyFile \cup {r \in Roots : ckptFile[r] # None} \cup excused

(* A checkpoint that was cleared stays cleared: "Checkpoints clear on      *)
(* successful finishStudioAction" (ARCHITECTURE.md).                       *)
ClearedStaysCleared ==
  \A r \in Roots :
    InFlight(r) = {} /\ lastCall[r] \in Clears /\ r \notin failed =>
      ckptFile[r] = None
==============================================================================
