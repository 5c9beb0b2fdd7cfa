--------------------------- MODULE AgentExecution ---------------------------
(***************************************************************************)
(* What the agent runs (electron/agentExecution.cts): inspections, project *)
(* code and package scripts, the last two each after a preview, a question *)
(* to the user and a token.  One limit, one tracked process and one epoch  *)
(* serve all three.  The limit is tested several awaits before the count   *)
(* is raised, and the end of an execution lowers the count and forgets the *)
(* tracked process without a look at the epoch.                            *)
(*                                                                         *)
(* A call stands for one preview and what becomes of it.  Sealed copies of *)
(* scripts, identities of files and expiries only ever refuse a call.      *)
(***************************************************************************)
EXTENDS OpenProject, Integers, FiniteSets

CONSTANTS Inspects, ProjectCodes, PackageScripts

AgentCalls == Inspects \cup ProjectCodes \cup PackageScripts

ASSUME AgentAssumption ==
  /\ IsFiniteSet(AgentCalls)
  /\ None \notin AgentCalls
  /\ Inspects \cap ProjectCodes = {}
  /\ PackageScripts \cap (Inspects \cup ProjectCodes) = {}

MaxConcurrency == 1     \* AGENT_EXECUTION_MAX_CONCURRENCY

VARIABLES
  agentAt,        \* [AgentCalls -> AgentPhase]
  agentRoot,      \* [AgentCalls -> Roots \cup {None}]: the project of the call
  agentPreviews,  \* projectCodePreviews, packageScriptPreviews
  agentTokens,    \* projectCodeTokens, packageScriptTokens
  agentEpoch,     \* sessionEpoch
  agentEpochOf,   \* [AgentCalls -> Nat]: sessionEpoch of its preview or token
  agentInFlight,  \* inFlight
  activeAgentPid, \* the call whose process is tracked, or None
  agentClearing,  \* "no", or how far a clear is: "ending", "recovering"
  agentDoomed,    \* the call whose process the clear terminates, or None
  agentShared     \* history: the last execution began beside another

agentApproval == <<agentPreviews, agentTokens, agentEpochOf>>
agentSession == <<agentEpoch, agentClearing, agentDoomed>>
agentProcess == <<agentInFlight, activeAgentPid, agentShared>>
agentVars == <<agentAt, agentRoot, agentApproval, agentSession, agentProcess>>

\* A call waits for a clear as "held" before its preview, as "confirming"
\* before the question and as "waiting" before the execution.
AgentPhase == {"idle", "held", "preparing", "prepared", "confirming", "asking", "sealing",
               "waiting", "opening", "checked", "running", "closing", "done"}

Executing == {c \in AgentCalls : agentAt[c] \in {"running", "closing"}}

AgentInit ==
  /\ agentAt = [c \in AgentCalls |-> "idle"]
  /\ agentRoot = [c \in AgentCalls |-> None]
  /\ agentPreviews = {} /\ agentTokens = {}
  /\ agentEpoch = 0
  /\ agentEpochOf = [c \in AgentCalls |-> 0]
  /\ agentInFlight = 0
  /\ activeAgentPid = None
  /\ agentClearing = "no"
  /\ agentDoomed = None
  /\ agentShared = FALSE

AgentGoes(c, phase) == agentAt' = [agentAt EXCEPT ![c] = phase]

-----------------------------------------------------------------------------
\* The limit, before the awaits up to the spawn.  A package script's token is
\* spent here, whatever comes of it.
Admits(c, tokens) ==
  /\ agentTokens' = tokens \ (PackageScripts \cap {c})
  /\ \/ /\ agentInFlight < MaxConcurrency
        /\ c \in PackageScripts => c \in tokens
        /\ AgentGoes(c, "opening")
     \/ /\ agentInFlight >= MaxConcurrency \/ c \in PackageScripts \ tokens
        /\ AgentGoes(c, "done")

Enters(c, tokens) ==
  \/ /\ agentClearing # "no"
     /\ AgentGoes(c, "waiting")
     /\ agentTokens' = tokens
  \/ agentClearing = "no" /\ Admits(c, tokens)

\* executeAgentInspect.
InspectCalled(c) ==
  /\ openRoot # None
  /\ agentAt[c] = "idle"
  /\ agentRoot' = [agentRoot EXCEPT ![c] = openRoot]
  /\ Enters(c, agentTokens)
  /\ UNCHANGED <<agentPreviews, agentEpochOf, agentSession, agentProcess>>

\* prepareProjectCodeApproval, preparePackageScriptApproval.
AgentPrepareCalled(c) ==
  /\ openRoot # None
  /\ agentAt[c] = "idle"
  /\ agentRoot' = [agentRoot EXCEPT ![c] = openRoot]
  /\ AgentGoes(c, IF agentClearing = "no" THEN "preparing" ELSE "held")
  /\ UNCHANGED <<agentApproval, agentSession, agentProcess>>

AgentPrepareResumes(c) ==
  /\ agentAt[c] = "held"
  /\ agentClearing = "no"
  /\ AgentGoes(c, "preparing")
  /\ UNCHANGED <<agentRoot, agentApproval, agentSession, agentProcess>>

\* The script is read: the preview takes the epoch of now.
PreviewKept(c) ==
  /\ agentAt[c] = "preparing"
  /\ AgentGoes(c, "prepared")
  /\ agentPreviews' = agentPreviews \cup {c}
  /\ agentEpochOf' = [agentEpochOf EXCEPT ![c] = agentEpoch]
  /\ UNCHANGED <<agentRoot, agentTokens, agentSession, agentProcess>>

\* Cancelled, or confirmed while another project is open.
PreviewDropped(c) ==
  /\ c \in agentPreviews
  /\ agentPreviews' = agentPreviews \ {c}
  /\ UNCHANGED <<agentAt, agentRoot, agentTokens, agentEpochOf, agentSession,
                 agentProcess>>

AsksUser(c) ==
  /\ c \in agentPreviews
  /\ agentPreviews' = agentPreviews \ {c}
  /\ AgentGoes(c, "asking")

\* runTrustedProjectCodeConfirmation, runTrustedPackageScriptConfirmation.
ConfirmCalled(c) ==
  /\ agentAt[c] = "prepared"
  /\ openRoot = agentRoot[c]
  /\ \/ agentClearing = "no" /\ AsksUser(c)
     \/ agentClearing # "no" /\ AgentGoes(c, "confirming") /\ UNCHANGED agentPreviews
  /\ UNCHANGED <<agentRoot, agentTokens, agentEpochOf, agentSession, agentProcess>>

ConfirmResumes(c) ==
  /\ agentAt[c] = "confirming"
  /\ agentClearing = "no"
  /\ AsksUser(c)
  /\ UNCHANGED <<agentRoot, agentTokens, agentEpochOf, agentSession, agentProcess>>

\* The user agrees, and the preview is still of this session.
Approved(c) ==
  /\ agentAt[c] = "asking"
  /\ agentEpochOf[c] = agentEpoch
  /\ AgentGoes(c, "sealing")
  /\ UNCHANGED <<agentRoot, agentApproval, agentSession, agentProcess>>

\* The script is sealed or read again; the token takes the epoch of now and
\* is executed in the same turn.
Minted(c) ==
  /\ agentAt[c] = "sealing"
  /\ agentEpochOf' = [agentEpochOf EXCEPT ![c] = agentEpoch]
  /\ Enters(c, agentTokens \cup {c})
  /\ UNCHANGED <<agentRoot, agentPreviews, agentSession, agentProcess>>

AgentWaitEnds(c) ==
  /\ agentAt[c] = "waiting"
  /\ agentClearing = "no"
  /\ Admits(c, agentTokens)
  /\ UNCHANGED <<agentRoot, agentPreviews, agentEpochOf, agentSession, agentProcess>>

\* bindingFresh, packageBindingFresh; a project code's token is spent here.
TokenChecked(c) ==
  /\ agentAt[c] = "opening"
  /\ c \in ProjectCodes => c \in agentTokens
  /\ agentEpochOf[c] = agentEpoch
  /\ AgentGoes(c, "checked")
  /\ agentTokens' = agentTokens \ {c}
  /\ UNCHANGED <<agentRoot, agentPreviews, agentEpochOf, agentSession, agentProcess>>

\* Seeded fault: project code is started as its token was checked, before its
\* sealed copy was opened.
MaySpawn_checkedOnce(c) ==
  \/ c \in Inspects /\ agentAt[c] = "opening"
  \/ c \in ProjectCodes \cup PackageScripts /\ agentAt[c] = "checked"

\* Only project code is looked at again in the turn it is started.
MaySpawn(c) ==
  \/ c \in Inspects /\ agentAt[c] = "opening"
  \/ c \in PackageScripts /\ agentAt[c] = "checked"
  \/ c \in ProjectCodes /\ agentAt[c] = "checked" /\ agentEpochOf[c] = agentEpoch

\* The count is raised; a process that starts is the tracked one.
Spawned(c) ==
  /\ MaySpawn(c)
  /\ agentInFlight' = agentInFlight + 1
  /\ agentShared' = (Executing # {})
  /\ \/ AgentGoes(c, "running") /\ activeAgentPid' = c
     \/ AgentGoes(c, "closing") /\ UNCHANGED activeAgentPid
  /\ UNCHANGED <<agentRoot, agentApproval, agentSession>>

\* It ends by itself, at its timeout, or when it is terminated.
AgentChildDies(c) ==
  /\ agentAt[c] = "running"
  /\ AgentGoes(c, "closing")
  /\ UNCHANGED <<agentRoot, agentApproval, agentSession, agentProcess>>

\* Seeded fault: the count is lowered for an execution begun before a clear.
Lowered_unfloored(n) == n - 1

Lowered(n) == IF n > 0 THEN n - 1 ELSE 0

\* The finally block, once the streams of the process are closed.
AgentFinally(c) ==
  /\ agentAt[c] = "closing"
  /\ AgentGoes(c, "done")
  /\ agentInFlight' = Lowered(agentInFlight)
  /\ activeAgentPid' = None
  /\ UNCHANGED <<agentRoot, agentApproval, agentSession, agentShared>>

\* Cancelled, expired, gone or changed; its token may be left behind.
AgentRefused(c) ==
  /\ agentAt[c] \in {"preparing", "confirming", "asking", "sealing", "opening", "checked"}
  /\ AgentGoes(c, "done")
  /\ agentTokens' \in {agentTokens, agentTokens \ {c}}
  /\ UNCHANGED <<agentRoot, agentPreviews, agentEpochOf, agentSession, agentProcess>>

-----------------------------------------------------------------------------
\* What of the approvals a clear drops; a project code's outlive their epoch.
PackageApprovalsDropped ==
  /\ agentPreviews' = agentPreviews \ PackageScripts
  /\ agentTokens' = agentTokens \ PackageScripts

\* clearAgentExecutionSession up to its await: one that is called while
\* another runs joins that one.
AgentClears ==
  IF agentClearing # "no" THEN UNCHANGED agentVars
  ELSE /\ agentEpoch < MaxClears
       /\ agentEpoch' = agentEpoch + 1
       /\ PackageApprovalsDropped
       /\ agentDoomed' = activeAgentPid
       /\ activeAgentPid' = None
       /\ agentClearing' = "ending"
       /\ UNCHANGED <<agentAt, agentRoot, agentEpochOf, agentInFlight, agentShared>>

\* The process it terminates is gone: recoverProjectCodeSnapshots.
AgentRecovers ==
  /\ agentClearing = "ending"
  /\ agentDoomed # None => agentAt[agentDoomed] # "running"
  /\ agentClearing' = "recovering"
  /\ PackageApprovalsDropped
  /\ UNCHANGED <<agentAt, agentRoot, agentEpochOf, agentEpoch, agentDoomed, agentProcess>>

AgentCleared ==
  /\ agentClearing = "recovering"
  /\ agentClearing' = "no"
  /\ agentDoomed' = None
  /\ agentInFlight' = 0
  /\ activeAgentPid' = None
  /\ UNCHANGED <<agentAt, agentRoot, agentApproval, agentEpoch, agentShared>>

AgentStep ==
  \/ \E c \in Inspects : InspectCalled(c)
  \/ \E c \in ProjectCodes \cup PackageScripts :
       \/ AgentPrepareCalled(c) \/ AgentPrepareResumes(c) \/ PreviewKept(c)
       \/ PreviewDropped(c) \/ ConfirmCalled(c) \/ ConfirmResumes(c) \/ Approved(c)
       \/ Minted(c) \/ TokenChecked(c)
  \/ \E c \in AgentCalls :
       \/ AgentWaitEnds(c) \/ Spawned(c) \/ AgentChildDies(c) \/ AgentFinally(c)
       \/ AgentRefused(c)

\* With the process its calls end; what its children do then is not modelled.
AgentRestarted ==
  /\ agentAt' = [c \in AgentCalls |-> IF agentAt[c] = "idle" THEN "idle" ELSE "done"]
  /\ agentPreviews' = {} /\ agentTokens' = {}
  /\ agentInFlight' = 0
  /\ activeAgentPid' = None
  /\ agentClearing' = "no"
  /\ agentDoomed' = None
  /\ agentShared' = FALSE
  /\ UNCHANGED <<agentRoot, agentEpochOf, agentEpoch>>

\* A window that is closed and a switch clear; a switch opens some time later.
AgentNext ==
  \/ (AgentStep \/ AgentClears \/ AgentRecovers \/ AgentCleared) /\ UNCHANGED projectVars
  \/ \E r \in Roots : Opens(r) /\ UNCHANGED agentVars
  \/ Restarts /\ AgentRestarted

AgentSpec == ProjectInit /\ AgentInit /\ [][AgentNext]_<<projectVars, agentVars>>
-----------------------------------------------------------------------------
AgentTypeOK ==
  /\ agentAt \in [AgentCalls -> AgentPhase]
  /\ agentRoot \in [AgentCalls -> Roots \cup {None}]
  /\ agentPreviews \subseteq AgentCalls
  /\ agentTokens \subseteq AgentCalls
  /\ agentEpoch \in 0..MaxClears
  /\ agentEpochOf \in [AgentCalls -> 0..MaxClears]
  /\ agentInFlight \in Int
  /\ activeAgentPid \in AgentCalls \cup {None}
  /\ agentClearing \in {"no", "ending", "recovering"}
  /\ agentDoomed \in AgentCalls \cup {None}
  /\ agentShared \in BOOLEAN

(* The count is never above the executions that will lower it, whatever    *)
(* the overlaps and the clears that zero it under running ones, so it      *)
(* cannot stay at the limit and refuse the agent for good; nor below zero, *)
(* where it would let one more past the limit (inFlight).                  *)
AgentNeverLockedOut == agentInFlight \in 0..Cardinality(Executing)

(* Project code that runs alone is never missed by a clear: it is the      *)
(* tracked process, or the one the clear under way terminates, so it does  *)
(* not outlive the session it was approved in (sessionEpoch, activePid).   *)
ClearReachesProjectCode ==
  \A p \in ProjectCodes : agentAt[p] = "running" /\ ~agentShared =>
    p = IF agentClearing = "no" THEN activeAgentPid ELSE agentDoomed
=============================================================================
