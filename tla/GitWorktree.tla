----------------------------- MODULE GitWorktree -----------------------------
(***************************************************************************)
(* Creating and removing Studio's worktrees with an approval               *)
(* (electron/gitWorktree.cts).  A create adds a branch and a tree with one *)
(* git command, looks at what became of it and writes an ownership record; *)
(* when anything is wrong, or the project is no longer open, it takes back *)
(* what is there.  A remove takes the tree and the record and leaves the   *)
(* branch.  Executions, clears, switches and the user's own git commands   *)
(* come in between at every await.                                         *)
(*                                                                         *)
(* All creates of a project want the same new branch; directories are      *)
(* their own (generateManagedPath), so a call stands for its tree and for  *)
(* its record.  HEAD of the project does not move.                         *)
(***************************************************************************)
EXTENDS OpenProject

CONSTANTS
  Creates,      \* calls that create a worktree: a preflight and its execution
  Removes       \* calls that remove one

WtCalls == Creates \cup Removes

ASSUME WorktreeAssumption ==
  /\ Creates \cap Removes = {}
  /\ {"user", "moved", None} \cap WtCalls = {}
  /\ None \notin {"user", "moved"}

VARIABLES
  wtAt,         \* [WtCalls -> WtPhase]
  wtRoot,       \* [WtCalls -> Roots \cup {None}]: canonicalRoot of the token
  wtTarget,     \* [Removes -> Creates \cup {None}]: the worktree to remove
  wtTokens,     \* tokens: the calls that may be executed
  wtEpochOf,    \* [WtCalls -> Nat]: sessionEpoch of a token; 0 without one
  worktreeInFlight,
  activeWorktreePid, \* the call whose process is tracked, or None
  wtEpoch,      \* sessionEpoch
  wtClearing,   \* clearing is not null
  wtDoomed,     \* the call whose process the clear terminates, or None
  wtBranch,     \* [Roots -> who made the branch at HEAD, "moved", or None]
  wtTrees,      \* creates whose tree is listed
  wtRecords,    \* creates whose ownership record is written
  wtStuck       \* creates that could not take back all of theirs

wtVars == <<wtAt, wtRoot, wtTarget, wtTokens, wtEpochOf, worktreeInFlight,
            activeWorktreePid, wtEpoch, wtClearing, wtDoomed, wtBranch, wtTrees,
            wtRecords, wtStuck>>

wtTokenVars == <<wtRoot, wtTarget, wtTokens, wtEpochOf>>
wtSession == <<worktreeInFlight, activeWorktreePid, wtEpoch, wtClearing, wtDoomed>>
wtRepo == <<wtBranch, wtTrees, wtRecords, wtStuck>>

Git == {"adding", "branched", "added", "removing", "removed"}

WtPhase == Git \cup
  {"idle", "preparing", "prepared", "waiting", "inspecting", "inspected", "flagged",
   "verifying", "untree", "look", "delete", "unrecord", "unfile",
   "refused", "created", "failed", "gone", "dead"}

WorktreeInit ==
  /\ wtAt = [c \in WtCalls |-> "idle"]
  /\ wtRoot = [c \in WtCalls |-> None]
  /\ wtTarget = [m \in Removes |-> None]
  /\ wtTokens = {}
  /\ wtEpochOf = [c \in WtCalls |-> 0]
  /\ worktreeInFlight = FALSE
  /\ activeWorktreePid = None
  /\ wtEpoch = 0
  /\ wtClearing = FALSE
  /\ wtDoomed = None
  /\ wtBranch = [r \in Roots |-> None]
  /\ wtTrees = {}
  /\ wtRecords = {}
  /\ wtStuck = {}

Goes(c, phase) == wtAt' = [wtAt EXCEPT ![c] = phase]

AtHead(r) == wtBranch[r] \in Creates \cup {"user"}

CheckedOut(r) == \E t \in wtTrees : wtRoot[t] = r

\* The finally blocks: flag and process are let go, whosever they are by now.
Finally(c, phase) ==
  /\ Goes(c, phase)
  /\ worktreeInFlight' = FALSE
  /\ activeWorktreePid' = None
  /\ UNCHANGED <<wtEpoch, wtClearing, wtDoomed>>

-----------------------------------------------------------------------------
(* Preflight and token.                                                    *)

\* prepareGitWorktreeCreate and prepareGitWorktreeRemove up to their awaits.
WtPrepareCalled(c) ==
  /\ openRoot # None
  /\ wtAt[c] = "idle"
  /\ Goes(c, "preparing")
  /\ wtRoot' = [wtRoot EXCEPT ![c] = openRoot]
  /\ UNCHANGED <<wtTarget, wtTokens, wtEpochOf, wtSession, wtRepo>>

\* The branch must be new; what is removed must be a worktree with its record.
WtPrepared(c) ==
  /\ wtAt[c] = "preparing"
  /\ \/ c \in Creates /\ wtBranch[wtRoot[c]] = None /\ UNCHANGED wtTarget
     \/ /\ c \in Removes
        /\ \E t \in wtTrees \cap wtRecords :
             /\ wtRoot[t] = wtRoot[c]
             /\ wtTarget' = [wtTarget EXCEPT ![c] = t]
  /\ Goes(c, "prepared")
  /\ wtTokens' = wtTokens \cup {c}
  /\ wtEpochOf' = [wtEpochOf EXCEPT ![c] = wtEpoch]
  /\ UNCHANGED <<wtRoot, wtSession, wtRepo>>

\* cancelGitWorktreeToken, revokeGitWorktreeOwner, pruneTokens: an execution
\* that is still to come is refused.
WtTokenDropped(c) ==
  /\ c \in wtTokens
  /\ wtTokens' = wtTokens \ {c}
  /\ wtAt' = [wtAt EXCEPT ![c] = IF @ = "prepared" THEN "refused" ELSE @]
  /\ wtEpochOf' = [wtEpochOf EXCEPT ![c] = 0]
  /\ UNCHANGED <<wtRoot, wtTarget, wtSession, wtRepo>>

\* The token is taken; the flag is tested here and raised later.
WtAccepted(c) ==
  /\ ~worktreeInFlight
  /\ c \in wtTokens
  /\ wtTokens' = wtTokens \ {c}
  /\ Goes(c, IF wtEpochOf[c] = wtEpoch /\ openRoot = wtRoot[c] THEN "inspecting"
                                                              ELSE "refused")
  /\ wtEpochOf' = [wtEpochOf EXCEPT ![c] = 0]
  /\ UNCHANGED <<wtRoot, wtTarget>>

\* The executions; one that finds the flag raised or no token changes nothing.
WtExecuteCalled(c) ==
  /\ wtAt[c] = "prepared"
  /\ openRoot = wtRoot[c]
  /\ IF wtClearing THEN Goes(c, "waiting") /\ UNCHANGED wtTokenVars
                   ELSE WtAccepted(c)
  /\ UNCHANGED <<wtSession, wtRepo>>

\* The clear it has waited for is over.
WtResumes(c) ==
  /\ wtAt[c] = "waiting"
  /\ ~wtClearing
  /\ \/ WtAccepted(c)
     \/ /\ worktreeInFlight \/ c \notin wtTokens
        /\ Goes(c, "prepared")
        /\ UNCHANGED wtTokenVars
  /\ UNCHANGED <<wtSession, wtRepo>>

\* The repository, the directories and the record, or lack of it, are as they
\* were approved.
WtInspected(c) ==
  /\ wtAt[c] = "inspecting"
  /\ IF c \in Creates THEN wtBranch[wtRoot[c]] = None
                      ELSE wtTarget[c] \in wtTrees \cap wtRecords
  /\ Goes(c, "inspected")
  /\ UNCHANGED <<wtTokenVars, wtSession, wtRepo>>

\* They are not, or git could not say.
WtRefused(c) ==
  /\ wtAt[c] \in {"preparing", "inspecting"}
  /\ Goes(c, "refused")
  /\ UNCHANGED <<wtTokenVars, wtSession, wtRepo>>

-----------------------------------------------------------------------------
(* executeApprovedGitWorktreeCreate.                                       *)

FlagRaised(c) ==
  /\ wtAt[c] = "inspected" /\ c \in Creates
  /\ Goes(c, "flagged")
  /\ worktreeInFlight' = TRUE
  /\ UNCHANGED <<wtTokenVars, activeWorktreePid, wtEpoch, wtClearing, wtDoomed, wtRepo>>

AddSpawned(c) ==
  /\ wtAt[c] = "flagged"
  /\ Goes(c, "adding")
  /\ activeWorktreePid' = c
  /\ UNCHANGED <<wtTokenVars, worktreeInFlight, wtEpoch, wtClearing, wtDoomed, wtRepo>>

\* git worktree add -b makes the branch, then the tree on it.
GitAddsBranch(c) ==
  /\ wtAt[c] = "adding"
  /\ wtBranch[wtRoot[c]] = None
  /\ Goes(c, "branched")
  /\ wtBranch' = [wtBranch EXCEPT ![wtRoot[c]] = c]
  /\ UNCHANGED <<wtTokenVars, wtSession, wtTrees, wtRecords, wtStuck>>

GitAddsTree(c) ==
  /\ wtAt[c] = "branched"
  /\ wtBranch[wtRoot[c]] # None
  /\ Goes(c, "added")
  /\ wtTrees' = wtTrees \cup {c}
  /\ UNCHANGED <<wtTokenVars, wtSession, wtBranch, wtRecords, wtStuck>>

\* The close of the process forgets the tracked one, whosever it is.  It is
\* a success, or it failed, was terminated or timed out at any point.
AddEnded(c) ==
  /\ wtAt[c] \in {"adding", "branched", "added"}
  /\ \/ wtAt[c] = "added" /\ Goes(c, "verifying")
     \/ Goes(c, "untree")
  /\ activeWorktreePid' = None
  /\ UNCHANGED <<wtTokenVars, worktreeInFlight, wtEpoch, wtClearing, wtDoomed, wtRepo>>

\* Seeded fault: a create that outlives its project is not taken back.
Recorded_keepsStale(c) ==
  /\ wtRecords' = wtRecords \cup {c}
  /\ Finally(c, IF openRoot = wtRoot[c] THEN "created" ELSE "failed")

\* The record is written; is the project still open?
Recorded(c) ==
  /\ wtRecords' = wtRecords \cup {c}
  /\ IF openRoot = wtRoot[c] THEN Finally(c, "created")
                             ELSE Goes(c, "untree") /\ UNCHANGED wtSession

\* What was made is what was approved, and is recorded.
Verified(c) ==
  /\ wtAt[c] = "verifying"
  /\ AtHead(wtRoot[c])
  /\ Recorded(c)
  /\ UNCHANGED <<wtTokenVars, wtBranch, wtTrees, wtStuck>>

\* It is not, or the record cannot be written.
VerifyFails(c) ==
  /\ wtAt[c] = "verifying"
  /\ Goes(c, "untree")
  /\ UNCHANGED <<wtTokenVars, wtSession, wtRepo>>

-----------------------------------------------------------------------------
(* rollbackCreate.  Each of its commands may fail.                         *)

StuckIf(c, kept) == wtStuck' = IF kept THEN wtStuck \cup {c} ELSE wtStuck

TreeTakenBack(c) ==
  /\ wtAt[c] = "untree"
  /\ Goes(c, "look")
  /\ wtTrees' \in {wtTrees \ {c}, wtTrees}
  /\ StuckIf(c, c \in wtTrees')
  /\ UNCHANGED <<wtTokenVars, wtSession, wtBranch, wtRecords>>

\* The branch is deleted if no tree is on it and it is at the HEAD approved,
\* which does not show who made it.
BranchLookedAt(c) ==
  /\ wtAt[c] = "look"
  /\ \/ /\ AtHead(wtRoot[c]) /\ ~CheckedOut(wtRoot[c])
        /\ Goes(c, "delete")
        /\ UNCHANGED wtStuck
     \/ Goes(c, "unrecord") /\ StuckIf(c, wtBranch[wtRoot[c]] = c)
  /\ UNCHANGED <<wtTokenVars, wtSession, wtBranch, wtTrees, wtRecords>>

\* git does not delete a branch that a tree is on.
BranchTakenBack(c) ==
  /\ wtAt[c] = "delete"
  /\ Goes(c, "unrecord")
  /\ \/ /\ ~CheckedOut(wtRoot[c])
        /\ wtBranch' = [wtBranch EXCEPT ![wtRoot[c]] = None]
        /\ UNCHANGED wtStuck
     \/ UNCHANGED wtBranch /\ StuckIf(c, wtBranch[wtRoot[c]] = c)
  /\ UNCHANGED <<wtTokenVars, wtSession, wtTrees, wtRecords>>

RecordTakenBack(c) ==
  /\ wtAt[c] = "unrecord"
  /\ Finally(c, "failed")
  /\ wtRecords' \in {wtRecords \ {c}, wtRecords}
  /\ StuckIf(c, c \in wtRecords')
  /\ UNCHANGED <<wtTokenVars, wtBranch, wtTrees>>

-----------------------------------------------------------------------------
(* executeApprovedGitWorktreeRemove.                                       *)

RemoveSpawned(m) ==
  /\ wtAt[m] = "inspected" /\ m \in Removes
  /\ Goes(m, "removing")
  /\ worktreeInFlight' = TRUE
  /\ activeWorktreePid' = m
  /\ UNCHANGED <<wtTokenVars, wtEpoch, wtClearing, wtDoomed, wtRepo>>

GitRemovesTree(m) ==
  /\ wtAt[m] = "removing"
  /\ wtTarget[m] \in wtTrees
  /\ Goes(m, "removed")
  /\ wtTrees' = wtTrees \ {wtTarget[m]}
  /\ UNCHANGED <<wtTokenVars, wtSession, wtBranch, wtRecords, wtStuck>>

\* A remove that fails takes nothing back.
RemoveFailed(m) ==
  /\ wtAt[m] \in {"removing", "removed", "unfile"}
  /\ Finally(m, "failed")
  /\ UNCHANGED <<wtTokenVars, wtRepo>>

RemoveEnded(m) ==
  /\ wtAt[m] = "removed"
  /\ Goes(m, "unfile")
  /\ activeWorktreePid' = None
  /\ UNCHANGED <<wtTokenVars, worktreeInFlight, wtEpoch, wtClearing, wtDoomed, wtRepo>>

RecordDeleted(m) ==
  /\ wtAt[m] = "unfile"
  /\ Finally(m, "gone")
  /\ wtRecords' = wtRecords \ {wtTarget[m]}
  /\ UNCHANGED <<wtTokenVars, wtBranch, wtTrees, wtStuck>>

-----------------------------------------------------------------------------
(* Clears, the user, restarts.                                             *)

\* clearGitWorktreeSession up to its await: one that is called while another
\* runs joins that one.
WorktreeClears ==
  IF wtClearing THEN UNCHANGED wtVars
  ELSE /\ wtEpoch < MaxClears
       /\ wtEpoch' = wtEpoch + 1
       /\ wtTokens' = {}
       /\ wtEpochOf' = [c \in WtCalls |-> 0]
       /\ wtDoomed' = activeWorktreePid
       /\ activeWorktreePid' = None
       /\ wtClearing' = TRUE
       /\ UNCHANGED <<wtAt, wtRoot, wtTarget, worktreeInFlight, wtRepo>>

\* The process it terminates is gone.
WorktreeCleared ==
  /\ wtClearing
  /\ wtDoomed # None => wtAt[wtDoomed] \notin Git
  /\ wtClearing' = FALSE
  /\ wtDoomed' = None
  /\ worktreeInFlight' = FALSE
  /\ activeWorktreePid' = None
  /\ UNCHANGED <<wtAt, wtTokenVars, wtEpoch, wtRepo>>

\* In a terminal: the branch is made, at HEAD or elsewhere, or moves on.  What
\* was there before any preflight makes that one fail.
UserChangesBranch(r) ==
  /\ \E c \in Creates : wtRoot[c] = r
  /\ \/ wtBranch[r] = None /\ wtBranch' = [wtBranch EXCEPT ![r] = "user"]
     \/ wtBranch[r] # "moved" /\ wtBranch' = [wtBranch EXCEPT ![r] = "moved"]
  /\ UNCHANGED <<wtAt, wtTokenVars, wtSession, wtTrees, wtRecords, wtStuck>>

WorktreeStep ==
  \/ \E c \in WtCalls :
       \/ WtPrepareCalled(c) \/ WtPrepared(c) \/ WtTokenDropped(c)
       \/ WtExecuteCalled(c) \/ WtResumes(c) \/ WtInspected(c) \/ WtRefused(c)
  \/ \E c \in Creates :
       \/ FlagRaised(c) \/ AddSpawned(c) \/ GitAddsBranch(c) \/ GitAddsTree(c)
       \/ AddEnded(c) \/ Verified(c) \/ VerifyFails(c)
       \/ TreeTakenBack(c) \/ BranchLookedAt(c) \/ BranchTakenBack(c)
       \/ RecordTakenBack(c)
  \/ \E m \in Removes :
       \/ RemoveSpawned(m) \/ GitRemovesTree(m) \/ RemoveFailed(m)
       \/ RemoveEnded(m) \/ RecordDeleted(m)
  \/ \E r \in Roots : UserChangesBranch(r)

\* What is on disk stays; nothing takes back what a call had begun.
WorktreeRestarted ==
  /\ wtAt' = [c \in WtCalls |->
       IF wtAt[c] \in {"idle", "refused", "created", "failed", "gone"}
       THEN wtAt[c] ELSE "dead"]
  /\ wtTokens' = {}
  /\ wtEpochOf' = [c \in WtCalls |-> 0]
  /\ worktreeInFlight' = FALSE
  /\ activeWorktreePid' = None
  /\ wtClearing' = FALSE
  /\ wtDoomed' = None
  /\ UNCHANGED <<wtRoot, wtTarget, wtEpoch, wtRepo>>

WorktreeNext ==
  \/ (WorktreeStep \/ WorktreeClears \/ WorktreeCleared) /\ UNCHANGED projectVars
  \/ \E r \in Roots : Opens(r) /\ UNCHANGED wtVars
  \/ Restarts /\ WorktreeRestarted

WorktreeSpec == ProjectInit /\ WorktreeInit /\ [][WorktreeNext]_<<projectVars, wtVars>>
-----------------------------------------------------------------------------
WorktreeTypeOK ==
  /\ wtAt \in [WtCalls -> WtPhase]
  /\ wtRoot \in [WtCalls -> Roots \cup {None}]
  /\ wtTarget \in [Removes -> Creates \cup {None}]
  /\ wtTokens \subseteq WtCalls
  /\ wtEpochOf \in [WtCalls -> 0..MaxClears]
  /\ worktreeInFlight \in BOOLEAN
  /\ activeWorktreePid \in WtCalls \cup {None}
  /\ wtEpoch \in 0..MaxClears
  /\ wtClearing \in BOOLEAN
  /\ wtDoomed \in WtCalls \cup {None}
  /\ wtBranch \in [Roots -> Creates \cup {"user", "moved", None}]
  /\ wtTrees \subseteq Creates
  /\ wtRecords \subseteq Creates
  /\ wtStuck \subseteq Creates

\* No remove has begun to take the worktree away.
Kept(c) ==
  \A m \in Removes : wtTarget[m] = c =>
    wtAt[m] \notin {"removing", "removed", "unfile", "failed", "gone", "dead"}

(* A create that has answered is all there, tree, branch and record, or    *)
(* nothing of it is, whatever was cleared, opened, executed or committed   *)
(* meanwhile, unless a command that takes it back failed                   *)
(* (executeApprovedGitWorktreeCreate, rollbackCreate).                     *)
CreateIsAllOrNothing ==
  \A c \in Creates :
    /\ wtAt[c] = "created" /\ Kept(c) =>
         c \in wtTrees \cap wtRecords /\ wtBranch[wtRoot[c]] # None
    /\ wtAt[c] = "failed" /\ c \notin wtStuck =>
         c \notin wtTrees \cup wtRecords /\ wtBranch[wtRoot[c]] # c
==============================================================================
