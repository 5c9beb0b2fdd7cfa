---------------------------- MODULE ProjectSession ----------------------------
(***************************************************************************)
(* What Studio keeps of the open project, together: the edits and their    *)
(* undo, the index, the run checkpoint, the branch and worktree sessions,  *)
(* what the agent runs, and switchProjectRoot of electron/main.cts, which  *)
(* clears the sessions one after the other, awaits what is stopped, and    *)
(* then makes the next project the open one in one turn.  Switches overlap *)
(* each other and the calls of every part; nothing tells a call of the     *)
(* project before.                                                         *)
(***************************************************************************)
EXTENDS EditSession, ProjectIndex, RunCheckpoint, GitBranch, GitWorktree,
        AgentExecution

CONSTANT MaxSwitches    \* bound: calls of switchProjectRoot

ASSUME SessionAssumption == MaxSwitches \in Nat

Switches == 1..MaxSwitches

VARIABLES
  switchAt,     \* [Switches -> SwitchPhase]
  switchRoot,   \* [Switches -> Roots \cup {None}]: the project to open
  oldBranches,  \* history: [Switches -> SUBSET BranchCalls], the git commands that
                \* ran as the switch cleared their session
  oldCode       \* history: [Switches -> SUBSET ProjectCodes], the same for project
                \* code that began alone

switchHistory == <<oldBranches, oldCode>>
switchVars == <<switchAt, switchRoot, switchHistory>>
sessionVars == <<projectVars, editVars, indexVars, ckptVars, branchVars, wtVars,
                 agentVars, switchVars>>

SwitchPhase == {"idle", "branch", "worktree", "agent", "stopping", "done"}

SessionInit ==
  /\ ProjectInit /\ EditInit /\ IndexInit /\ CkptInit /\ BranchInit /\ WorktreeInit
  /\ AgentInit
  /\ switchAt = [w \in Switches |-> "idle"]
  /\ switchRoot = [w \in Switches |-> None]
  /\ oldBranches = [w \in Switches |-> {}]
  /\ oldCode = [w \in Switches |-> {}]

\* The steps of the parts.
Edit == EditStep /\ UNCHANGED <<projectVars, indexVars, ckptVars, branchVars, wtVars,
                                agentVars, switchVars>>
Index == IndexStep /\ UNCHANGED <<projectVars, editVars, ckptVars, branchVars, wtVars,
                                  agentVars, switchVars>>
Checkpoint == CkptStep /\ UNCHANGED <<projectVars, editVars, indexVars, branchVars,
                                      wtVars, agentVars, switchVars>>
Branch == BranchStep /\ UNCHANGED <<projectVars, editVars, indexVars, ckptVars, wtVars,
                                    agentVars, switchVars>>
Worktree == WorktreeStep /\ UNCHANGED <<projectVars, editVars, indexVars, ckptVars,
                                        branchVars, agentVars, switchVars>>
Agent == AgentStep /\ UNCHANGED <<projectVars, editVars, indexVars, ckptVars,
                                  branchVars, wtVars, switchVars>>

SwitchGoes(w, phase) == switchAt' = [switchAt EXCEPT ![w] = phase]

RunningBranches == {b \in BranchCalls : branchAt[b] = "running"}
RunningCode == {p \in ProjectCodes : agentAt[p] = "running" /\ ~agentShared}

SwitchCalled(w, r) ==
  /\ switchAt[w] = "idle"
  /\ \A earlier \in 1..(w - 1) : switchAt[earlier] # "idle"
  /\ SwitchGoes(w, "branch")
  /\ switchRoot' = [switchRoot EXCEPT ![w] = r]
  /\ oldBranches' = [oldBranches EXCEPT ![w] = RunningBranches]
  /\ BranchClears
  /\ UNCHANGED <<projectVars, editVars, indexVars, ckptVars, wtVars, agentVars, oldCode>>

\* Seeded fault: the clear of the branch session is not awaited.
SwitchClearsWorktree_unawaited(w) ==
  /\ switchAt[w] = "branch"
  /\ SwitchGoes(w, "worktree")
  /\ WorktreeClears
  /\ UNCHANGED <<projectVars, editVars, indexVars, ckptVars, branchVars, agentVars,
                 switchRoot, switchHistory>>

SwitchClearsWorktree(w) ==
  /\ switchAt[w] = "branch"
  /\ ~branchClearing
  /\ SwitchGoes(w, "worktree")
  /\ WorktreeClears
  /\ UNCHANGED <<projectVars, editVars, indexVars, ckptVars, branchVars, agentVars,
                 switchRoot, switchHistory>>

SwitchClearsAgent(w) ==
  /\ switchAt[w] = "worktree"
  /\ ~wtClearing
  /\ SwitchGoes(w, "agent")
  /\ oldCode' = [oldCode EXCEPT ![w] = RunningCode]
  /\ AgentClears
  /\ UNCHANGED <<projectVars, editVars, indexVars, ckptVars, branchVars, wtVars,
                 switchRoot, oldBranches>>

BranchClearEnds ==
  /\ BranchCleared
  /\ UNCHANGED <<projectVars, editVars, indexVars, ckptVars, wtVars, agentVars,
                 switchVars>>

WorktreeClearEnds ==
  /\ WorktreeCleared
  /\ UNCHANGED <<projectVars, editVars, indexVars, ckptVars, branchVars, agentVars,
                 switchVars>>

AgentClearGoes ==
  /\ AgentRecovers \/ AgentCleared
  /\ UNCHANGED <<projectVars, editVars, indexVars, ckptVars, branchVars, wtVars,
                 switchVars>>

\* The terminals and the preview are stopped next.
SwitchStops(w) ==
  /\ switchAt[w] = "agent"
  /\ agentClearing = "no"
  /\ SwitchGoes(w, "stopping")
  /\ UNCHANGED <<projectVars, editVars, indexVars, ckptVars, branchVars, wtVars,
                 agentVars, switchRoot, switchHistory>>

\* The store of the edits is emptied and the index starts with the project.
SwitchOpens(w) ==
  /\ switchAt[w] = "stopping"
  /\ SwitchGoes(w, "done")
  /\ Opens(switchRoot[w])
  /\ EditsOpened
  /\ IndexOpened(switchRoot[w])
  /\ UNCHANGED <<ckptVars, branchVars, wtVars, agentVars, switchRoot, switchHistory>>

\* The window's "closed" handler: nothing waits for these clears.
WindowClosed ==
  /\ BranchClears
  /\ WorktreeClears
  /\ AgentClears
  /\ UNCHANGED <<projectVars, editVars, indexVars, ckptVars, switchVars>>

SessionRestarts ==
  /\ Restarts
  /\ EditsRestarted /\ IndexRestarted /\ CkptRestarted
  /\ BranchRestarted /\ WorktreeRestarted /\ AgentRestarted
  /\ switchAt' = [w \in Switches |-> IF switchAt[w] = "idle" THEN "idle" ELSE "done"]
  /\ UNCHANGED <<switchRoot, switchHistory>>

Switch ==
  \/ \E w \in Switches :
       \/ \E r \in Roots : SwitchCalled(w, r)
       \/ SwitchClearsWorktree(w) \/ SwitchClearsAgent(w)
       \/ SwitchStops(w) \/ SwitchOpens(w)
  \/ BranchClearEnds \/ WorktreeClearEnds \/ AgentClearGoes

SessionNext ==
  \/ Edit \/ Index \/ Checkpoint \/ Branch \/ Worktree \/ Agent
  \/ Switch \/ WindowClosed \/ SessionRestarts

SessionSpec == SessionInit /\ [][SessionNext]_sessionVars
-----------------------------------------------------------------------------
SessionTypeOK ==
  /\ ProjectTypeOK /\ EditTypeOK /\ IndexTypeOK /\ CkptTypeOK
  /\ BranchTypeOK /\ WorktreeTypeOK /\ AgentTypeOK
  /\ switchAt \in [Switches -> SwitchPhase]
  /\ switchRoot \in [Switches -> Roots \cup {None}]
  /\ oldBranches \in [Switches -> SUBSET BranchCalls]
  /\ oldCode \in [Switches -> SUBSET ProjectCodes]

(* What a switch clears is over when it goes on: the git command, and the  *)
(* project code that began alone, which ran as it called their clears have *)
(* ended, although the clear may have been another's that it joined, and   *)
(* other switches, closed windows and new calls came between (the awaits   *)
(* of switchProjectRoot).                                                  *)
SwitchEndsOldWork ==
  \A w \in Switches :
    /\ switchAt[w] # "branch" =>
         \A b \in oldBranches[w] : branchAt[b] # "running"
    /\ switchAt[w] # "agent" =>
         \A p \in oldCode[w] : agentAt[p] # "running"
==============================================================================
