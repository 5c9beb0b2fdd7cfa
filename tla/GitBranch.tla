------------------------------ MODULE GitBranch ------------------------------
(***************************************************************************)
(* Creating and switching branches with an approval (electron/             *)
(* gitBranch.cts).  A preflight leaves a token; the execution consumes it, *)
(* inspects the repository again, runs one git command and tracks its      *)
(* process; the end of a session clears tokens and flag and terminates the *)
(* process.  Executions, clears and switches of the project interleave at  *)
(* every await.                                                            *)
(*                                                                         *)
(* A call stands for one preflight and the execution of its token.  git    *)
(* itself only ends, well or not.                                          *)
(***************************************************************************)
EXTENDS OpenProject

CONSTANT BranchCalls

ASSUME BranchAssumption == None \notin BranchCalls

VARIABLES
  branchAt,       \* [BranchCalls -> BranchPhase]
  branchRoot,     \* [BranchCalls -> Roots \cup {None}]: canonicalRoot of the token
  branchTokens,   \* tokens: the calls that may be executed
  branchInFlight,
  activeBranchPid,\* the call whose process is tracked, or None
  branchEpoch,    \* sessionEpoch
  branchEpochOf,  \* [BranchCalls -> Nat]: the epoch an execution began in
  branchClearing, \* clearing is not null
  branchDoomed    \* the call whose process the clear terminates, or None

branchVars == <<branchAt, branchRoot, branchTokens, branchInFlight, activeBranchPid,
                branchEpoch, branchEpochOf, branchClearing, branchDoomed>>

BranchPhase == {"idle", "preparing", "prepared", "waiting", "inspecting", "running",
                "done"}

BranchInit ==
  /\ branchAt = [b \in BranchCalls |-> "idle"]
  /\ branchRoot = [b \in BranchCalls |-> None]
  /\ branchTokens = {}
  /\ branchInFlight = FALSE
  /\ activeBranchPid = None
  /\ branchEpoch = 0
  /\ branchEpochOf = [b \in BranchCalls |-> 0]
  /\ branchClearing = FALSE
  /\ branchDoomed = None

-----------------------------------------------------------------------------
\* prepareGitBranch up to its inspection of the repository.
BranchPrepareCalled(b) ==
  /\ openRoot # None
  /\ branchAt[b] = "idle"
  /\ branchAt' = [branchAt EXCEPT ![b] = "preparing"]
  /\ branchRoot' = [branchRoot EXCEPT ![b] = openRoot]
  /\ UNCHANGED <<branchTokens, branchInFlight, activeBranchPid, branchEpoch,
                 branchEpochOf, branchClearing, branchDoomed>>

\* The token is kept, whatever was cleared or opened meanwhile.
BranchPrepared(b) ==
  /\ branchAt[b] = "preparing"
  /\ branchAt' = [branchAt EXCEPT ![b] = "prepared"]
  /\ branchTokens' = branchTokens \cup {b}
  /\ UNCHANGED <<branchRoot, branchInFlight, activeBranchPid, branchEpoch,
                 branchEpochOf, branchClearing, branchDoomed>>

\* cancelGitBranchToken, revokeGitBranchOwner, pruneTokens.
BranchTokenDropped(b) ==
  /\ b \in branchTokens
  /\ branchTokens' = branchTokens \ {b}
  /\ UNCHANGED <<branchAt, branchRoot, branchInFlight, activeBranchPid, branchEpoch,
                 branchEpochOf, branchClearing, branchDoomed>>

\* The flag and the token are tested and taken in one turn.
BranchAccepted(b) ==
  /\ ~branchInFlight
  /\ b \in branchTokens
  /\ branchAt' = [branchAt EXCEPT ![b] = "inspecting"]
  /\ branchTokens' = branchTokens \ {b}
  /\ branchInFlight' = TRUE
  /\ branchEpochOf' = [branchEpochOf EXCEPT ![b] = branchEpoch]
  /\ UNCHANGED <<branchRoot, activeBranchPid, branchEpoch, branchClearing, branchDoomed>>

BranchWaits(b) ==
  /\ branchClearing
  /\ branchAt' = [branchAt EXCEPT ![b] = "waiting"]
  /\ UNCHANGED <<branchRoot, branchTokens, branchInFlight, activeBranchPid, branchEpoch,
                 branchEpochOf, branchClearing, branchDoomed>>

\* executeApprovedGitBranch; a call that is refused changes nothing.
BranchExecuteCalled(b) ==
  /\ branchAt[b] = "prepared"
  /\ openRoot = branchRoot[b]
  /\ BranchWaits(b) \/ (~branchClearing /\ BranchAccepted(b))

\* The clear it has waited for is over; it may find its token gone.
BranchResumes(b) ==
  /\ branchAt[b] = "waiting"
  /\ ~branchClearing
  /\ \/ BranchAccepted(b)
     \/ /\ branchInFlight \/ b \notin branchTokens
        /\ branchAt' = [branchAt EXCEPT ![b] = "prepared"]
        /\ UNCHANGED <<branchRoot, branchTokens, branchInFlight, activeBranchPid,
                       branchEpoch, branchEpochOf, branchClearing, branchDoomed>>

\* Seeded fault: the flag is lowered whoever has raised it.
BranchFinally_anyEpoch(b) ==
  /\ branchAt' = [branchAt EXCEPT ![b] = "done"]
  /\ branchInFlight' = FALSE
  /\ activeBranchPid' = None
  /\ UNCHANGED <<branchRoot, branchTokens, branchEpoch, branchEpochOf, branchClearing,
                 branchDoomed>>

\* The finally block leaves a later session's flag and process alone; the end
\* of the tracked process (runProductGit) forgets which one is tracked.
BranchFinally(b) ==
  LET mine == branchEpochOf[b] = branchEpoch
  IN  /\ branchAt' = [branchAt EXCEPT ![b] = "done"]
      /\ branchInFlight' = (branchInFlight /\ ~mine)
      /\ activeBranchPid' = IF mine \/ branchAt[b] = "running" THEN None
                            ELSE activeBranchPid
      /\ UNCHANGED <<branchRoot, branchTokens, branchEpoch, branchEpochOf,
                     branchClearing, branchDoomed>>

\* Expired, cancelled, or the repository is not what was approved.
BranchRefused(b) == branchAt[b] = "inspecting" /\ BranchFinally(b)

BranchSpawned(b) ==
  /\ branchAt[b] = "inspecting"
  /\ branchEpochOf[b] = branchEpoch
  /\ openRoot = branchRoot[b]
  /\ branchAt' = [branchAt EXCEPT ![b] = "running"]
  /\ activeBranchPid' = b
  /\ UNCHANGED <<branchRoot, branchTokens, branchInFlight, branchEpoch, branchEpochOf,
                 branchClearing, branchDoomed>>

\* git ends by itself, at its timeout or when it is terminated.
BranchChildEnded(b) == branchAt[b] = "running" /\ BranchFinally(b)

\* clearGitBranchSession up to its await: one that is called while another
\* runs joins that one.
BranchClears ==
  IF branchClearing THEN UNCHANGED branchVars
  ELSE /\ branchEpoch < MaxClears
       /\ branchEpoch' = branchEpoch + 1
       /\ branchTokens' = {}
       /\ branchDoomed' = activeBranchPid
       /\ activeBranchPid' = None
       /\ branchClearing' = TRUE
       /\ UNCHANGED <<branchAt, branchRoot, branchInFlight, branchEpochOf>>

\* The process it terminates is gone.
BranchCleared ==
  /\ branchClearing
  /\ branchDoomed # None => branchAt[branchDoomed] # "running"
  /\ branchClearing' = FALSE
  /\ branchDoomed' = None
  /\ branchInFlight' = FALSE
  /\ activeBranchPid' = None
  /\ UNCHANGED <<branchAt, branchRoot, branchTokens, branchEpoch, branchEpochOf>>

BranchStep ==
  \E b \in BranchCalls :
    \/ BranchPrepareCalled(b) \/ BranchPrepared(b) \/ BranchTokenDropped(b)
    \/ BranchExecuteCalled(b) \/ BranchResumes(b) \/ BranchRefused(b)
    \/ BranchSpawned(b) \/ BranchChildEnded(b)

\* With the process its calls end; what git children do then is not modelled.
BranchRestarted ==
  /\ branchAt' = [b \in BranchCalls |->
       IF branchAt[b] = "idle" THEN "idle" ELSE "done"]
  /\ branchTokens' = {}
  /\ branchInFlight' = FALSE
  /\ activeBranchPid' = None
  /\ branchClearing' = FALSE
  /\ branchDoomed' = None
  /\ UNCHANGED <<branchRoot, branchEpoch, branchEpochOf>>

\* A window that is closed and a switch clear; a switch opens some time later.
BranchNext ==
  \/ (BranchStep \/ BranchClears \/ BranchCleared) /\ UNCHANGED projectVars
  \/ \E r \in Roots : Opens(r) /\ UNCHANGED branchVars
  \/ Restarts /\ BranchRestarted

BranchSpec == ProjectInit /\ BranchInit /\ [][BranchNext]_<<projectVars, branchVars>>
-----------------------------------------------------------------------------
BranchTypeOK ==
  /\ branchAt \in [BranchCalls -> BranchPhase]
  /\ branchRoot \in [BranchCalls -> Roots \cup {None}]
  /\ branchTokens \subseteq BranchCalls
  /\ branchInFlight \in BOOLEAN
  /\ activeBranchPid \in BranchCalls \cup {None}
  /\ branchEpoch \in 0..MaxClears
  /\ branchEpochOf \in [BranchCalls -> 0..MaxClears]
  /\ branchClearing \in BOOLEAN
  /\ branchDoomed \in BranchCalls \cup {None}

(* One git command changes branches at a time, across switches, closed     *)
(* windows and approvals that outlive them, and the next clear terminates  *)
(* it or waits for it (sessionEpoch, branchInFlight, activeBranchPid).     *)
BranchSerial ==
  \A b \in BranchCalls : branchAt[b] = "running" =>
    /\ \A other \in BranchCalls : branchAt[other] = "running" => other = b
    /\ b = IF branchClearing THEN branchDoomed ELSE activeBranchPid
==============================================================================
