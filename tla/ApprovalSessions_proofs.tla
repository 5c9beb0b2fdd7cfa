------------------------ MODULE ApprovalSessions_proofs ------------------------
(***************************************************************************)
(* Proofs about what runs with an approval: branches change one at a time, *)
(* a worktree is created whole or not at all, and the agent's project code *)
(* does not outlive its session.                                           *)
(***************************************************************************)
EXTENDS GitBranch, GitWorktree, AgentExecution, FiniteSetTheorems, TLAPS

-----------------------------------------------------------------------------
(* Branches.  An execution is current until the session is cleared.  The   *)
(* current one has the flag, there is none while a clear runs, and a       *)
(* process that is not the current one's is the one the clear waits for.   *)

Current(b) == branchAt[b] \in {"inspecting", "running"} /\ branchEpochOf[b] = branchEpoch

Tracked(b) ==
  branchAt[b] = "running" =>
    IF branchEpochOf[b] = branchEpoch THEN activeBranchPid = b
                                      ELSE branchClearing /\ branchDoomed = b

BInv ==
  /\ BranchTypeOK
  /\ openRoot \in Roots \cup {None}
  /\ \A b \in BranchCalls : branchEpochOf[b] <= branchEpoch
  /\ \A b \in BranchCalls : Current(b) => branchInFlight /\ ~branchClearing
  /\ \A b, c \in BranchCalls : Current(b) /\ Current(c) => b = c
  /\ \A b \in BranchCalls : Tracked(b)

\* Before the first preflight.
LEMMA BranchStarts == ProjectInit /\ BranchInit => BInv
<1> SUFFICES ASSUME ProjectInit, BranchInit
             PROVE  BInv
  OBVIOUS
<1>0. 0 \in 0..MaxClears
  BY ProjectAssumption
<1>1. BranchTypeOK
  BY <1>0 DEF BranchInit, BranchTypeOK, BranchPhase
<1>2. \A b \in BranchCalls : branchAt[b] = "idle" /\ branchEpochOf[b] = branchEpoch
  BY DEF BranchInit
<1> QED BY <1>1, <1>2 DEF ProjectInit, BranchInit, BInv, Current, Tracked

LEMMA FinallyKeeps ==
  ASSUME BInv, NEW b \in BranchCalls, BranchFinally(b), openRoot' = openRoot,
         branchAt[b] \in {"inspecting", "running"}
  PROVE  BInv'
<1> DEFINE mine == branchEpochOf[b] = branchEpoch
<1>1. BranchTypeOK'
  BY DEF BInv, BranchTypeOK, BranchFinally, BranchPhase
<1>2. \A c \in BranchCalls : branchAt'[c] = IF c = b THEN "done" ELSE branchAt[c]
  BY DEF BInv, BranchTypeOK, BranchFinally
<1>3. \A c \in BranchCalls : Current(c)' => c # b /\ Current(c) /\ ~mine
  BY <1>2 DEF BInv, Current, BranchFinally
<1>4. \A c \in BranchCalls : Tracked(c)'
  <2> SUFFICES ASSUME NEW c \in BranchCalls, branchAt'[c] = "running"
               PROVE  Tracked(c)'
    BY DEF Tracked
  <2>1. c # b /\ branchAt[c] = "running" /\ Tracked(c)
    BY <1>2 DEF BInv
  <2>2. CASE Current(c)
    <3>1. ~mine /\ branchAt[b] # "running"
      BY <2>1, <2>2 DEF BInv, Current, Tracked
    <3> QED BY <2>1, <2>2, <3>1 DEF BranchFinally, Tracked, Current
  <2>3. CASE ~Current(c)
    BY <2>1, <2>3 DEF BranchFinally, Tracked, Current
  <2> QED BY <2>2, <2>3
<1> QED BY <1>1, <1>3, <1>4 DEF BInv, BranchFinally, Current

LEMMA AcceptedKeeps ==
  ASSUME BInv, NEW b \in BranchCalls, BranchAccepted(b), ~branchClearing,
         openRoot' = openRoot, branchAt[b] \in {"prepared", "waiting"}
  PROVE  BInv'
<1>1. BranchTypeOK'
  BY DEF BInv, BranchTypeOK, BranchAccepted, BranchPhase
<1>2. \A c \in BranchCalls :
        /\ branchAt'[c] = IF c = b THEN "inspecting" ELSE branchAt[c]
        /\ branchEpochOf'[c] = IF c = b THEN branchEpoch ELSE branchEpochOf[c]
  BY DEF BInv, BranchTypeOK, BranchAccepted
<1>3. \A c \in BranchCalls : Current(c)' => c = b
  BY <1>2 DEF BInv, Current, BranchAccepted
<1> QED BY <1>1, <1>2, <1>3 DEF BInv, BranchAccepted, Tracked, BranchTypeOK

\* What neither begins nor ends a current execution.
LEMMA PhaseKeeps ==
  ASSUME BInv, NEW b \in BranchCalls, openRoot' = openRoot, BranchTypeOK',
         NEW phase \in {"preparing", "prepared", "waiting"},
         branchAt[b] \notin {"inspecting", "running"},
         branchAt' = [branchAt EXCEPT ![b] = phase],
         UNCHANGED <<branchInFlight, activeBranchPid, branchEpoch, branchEpochOf,
                     branchClearing, branchDoomed>>
  PROVE  BInv'
<1>1. \A c \in BranchCalls : branchAt'[c] = IF c = b THEN phase ELSE branchAt[c]
  BY DEF BInv, BranchTypeOK
<1> QED BY <1>1 DEF BInv, Current, Tracked

LEMMA BranchStepKeeps == BInv /\ BranchStep /\ UNCHANGED projectVars => BInv'
<1> SUFFICES ASSUME BInv, UNCHANGED projectVars, NEW b \in BranchCalls,
                    \/ BranchPrepareCalled(b) \/ BranchPrepared(b)
                    \/ BranchTokenDropped(b) \/ BranchExecuteCalled(b)
                    \/ BranchResumes(b) \/ BranchRefused(b)
                    \/ BranchSpawned(b) \/ BranchChildEnded(b)
             PROVE  BInv'
  BY DEF BranchStep
<1>0. openRoot' = openRoot
  BY DEF projectVars
<1>1. CASE BranchPrepareCalled(b)
  <2>1. BranchTypeOK'
    BY <1>1 DEF BInv, BranchTypeOK, BranchPrepareCalled, BranchPhase
  <2> QED BY <1>0, <1>1, <2>1, PhaseKeeps DEF BranchPrepareCalled
<1>2. CASE BranchPrepared(b)
  <2>1. BranchTypeOK'
    BY <1>2 DEF BInv, BranchTypeOK, BranchPrepared, BranchPhase
  <2> QED BY <1>0, <1>2, <2>1, PhaseKeeps DEF BranchPrepared
<1>3. CASE BranchTokenDropped(b)
  BY <1>0, <1>3 DEF BInv, BranchTypeOK, BranchTokenDropped, Current, Tracked
<1>4. CASE BranchExecuteCalled(b)
  <2>1. CASE BranchWaits(b)
    <3>1. BranchTypeOK'
      BY <2>1 DEF BInv, BranchTypeOK, BranchWaits, BranchPhase
    <3> QED BY <1>0, <1>4, <2>1, <3>1, PhaseKeeps DEF BranchExecuteCalled, BranchWaits
  <2>2. CASE ~branchClearing /\ BranchAccepted(b)
    BY <1>0, <1>4, <2>2, AcceptedKeeps DEF BranchExecuteCalled
  <2> QED BY <1>4, <2>1, <2>2 DEF BranchExecuteCalled
<1>5. CASE BranchResumes(b)
  <2>1. CASE BranchAccepted(b)
    BY <1>0, <1>5, <2>1, AcceptedKeeps DEF BranchResumes
  <2>2. CASE ~BranchAccepted(b)
    <3>1. BranchTypeOK'
      BY <1>5, <2>2 DEF BInv, BranchTypeOK, BranchResumes, BranchPhase
    <3> QED BY <1>0, <1>5, <2>2, <3>1, PhaseKeeps DEF BranchResumes
  <2> QED BY <2>1, <2>2
<1>6. CASE BranchRefused(b)
  BY <1>0, <1>6, FinallyKeeps DEF BranchRefused
<1>7. CASE BranchSpawned(b)
  <2>1. BranchTypeOK'
    BY <1>7 DEF BInv, BranchTypeOK, BranchSpawned, BranchPhase
  <2>2. \A c \in BranchCalls : branchAt'[c] = IF c = b THEN "running" ELSE branchAt[c]
    BY <1>7 DEF BInv, BranchTypeOK, BranchSpawned
  <2>3. Current(b) /\ \A c \in BranchCalls : Current(c)' <=> Current(c)
    BY <1>7, <2>2 DEF BranchSpawned, Current
  <2> QED BY <1>0, <1>7, <2>1, <2>2, <2>3 DEF BInv, BranchSpawned, Current, Tracked
<1>8. CASE BranchChildEnded(b)
  BY <1>0, <1>8, FinallyKeeps DEF BranchChildEnded
<1> QED BY <1>1, <1>2, <1>3, <1>4, <1>5, <1>6, <1>7, <1>8

LEMMA BranchClearKeeps ==
  ASSUME BInv, openRoot' = openRoot, BranchClears \/ BranchCleared
  PROVE  BInv'
<1>1. CASE BranchClears /\ branchClearing
  BY <1>1 DEF BInv, BranchClears, branchVars, BranchTypeOK, Current, Tracked
<1>2. CASE BranchClears /\ ~branchClearing
  <2>1. BranchTypeOK'
    BY <1>2, ProjectAssumption DEF BInv, BranchTypeOK, BranchClears
  <2>2. \A b \in BranchCalls : ~Current(b)'
    BY <1>2 DEF BInv, BranchTypeOK, BranchClears, Current
  <2> QED BY <1>2, <2>1, <2>2 DEF BInv, BranchTypeOK, BranchClears, Current, Tracked
<1>3. CASE BranchCleared
  <2>1. BranchTypeOK'
    BY <1>3 DEF BInv, BranchTypeOK, BranchCleared
  <2>2. \A b \in BranchCalls : ~Current(b) /\ branchAt[b] # "running"
    BY <1>3, BranchAssumption DEF BInv, BranchTypeOK, BranchCleared, Current, Tracked
  <2> QED BY <1>3, <2>1, <2>2 DEF BInv, BranchCleared, Current, Tracked
<1> QED BY <1>1, <1>2, <1>3

LEMMA BranchInvariant == BranchSpec => []BInv
<1>1. BInv /\ [BranchNext]_<<projectVars, branchVars>> => BInv'
  <2> SUFFICES ASSUME BInv, [BranchNext]_<<projectVars, branchVars>>
               PROVE  BInv'
    OBVIOUS
  <2>1. CASE BranchStep /\ UNCHANGED projectVars
    BY <2>1, BranchStepKeeps
  <2>2. CASE (BranchClears \/ BranchCleared) /\ UNCHANGED projectVars
    BY <2>2, BranchClearKeeps DEF projectVars
  <2>3. CASE \E r \in Roots : Opens(r) /\ UNCHANGED branchVars
    BY <2>3 DEF BInv, Opens, branchVars, BranchTypeOK, Current, Tracked
  <2>4. CASE Restarts /\ BranchRestarted
    BY <2>4 DEF BInv, Restarts, BranchRestarted, BranchTypeOK, BranchPhase, Current, Tracked
  <2>5. CASE UNCHANGED <<projectVars, branchVars>>
    BY <2>5 DEF BInv, projectVars, branchVars, BranchTypeOK, Current, Tracked
  <2> QED BY <2>1, <2>2, <2>3, <2>4, <2>5 DEF BranchNext
<1> QED BY <1>1, BranchStarts, PTL DEF BranchSpec

(* One git command changes branches at a time, and the next clear          *)
(* terminates it or waits for it, however switches, closed windows and     *)
(* approvals come together (gitBranch.cts).                                *)
THEOREM OneBranchCommand == BranchSpec => []BranchSerial
<1>1. BInv => BranchSerial
  BY DEF BInv, BranchSerial, Current, Tracked
<1> QED BY <1>1, BranchInvariant, PTL

-----------------------------------------------------------------------------
(* Worktrees.  What there is of a create at each phase: nothing up to its  *)
(* git command, the tree from there on, and of what a rollback has passed  *)
(* only what it could not take back.                                       *)

\* From here on there may be a record, and a remove of it.
After == {"untree", "look", "delete", "unrecord", "created", "failed", "dead"}

RolledBack(c) ==
  /\ wtAt[c] \in {"look", "delete", "unrecord", "failed"} /\ c \in wtTrees => c \in wtStuck
  /\ wtAt[c] \in {"unrecord", "failed"} /\ wtBranch[wtRoot[c]] = c => c \in wtStuck
  /\ wtAt[c] = "failed" /\ c \in wtRecords => c \in wtStuck

Whole(c) ==
  /\ wtAt[c] # "idle" => wtRoot[c] \in Roots
  /\ c \in wtTrees => /\ wtAt[c] \in After \cup {"added", "verifying"}
                      /\ wtBranch[wtRoot[c]] # None
  /\ c \in wtRecords => wtAt[c] \in After
  /\ \A m \in Removes : wtTarget[m] = c => wtAt[c] \in After
  /\ wtAt[c] \in {"added", "verifying"} => c \in wtTrees
  /\ wtAt[c] = "created" /\ Kept(c) => c \in wtTrees /\ c \in wtRecords

WtShape ==
  /\ wtAt \in [WtCalls -> WtPhase]
  /\ wtRoot \in [WtCalls -> Roots \cup {None}]
  /\ wtTarget \in [Removes -> Creates \cup {None}]
  /\ wtBranch \in [Roots -> Creates \cup {"user", "moved", None}]
  /\ wtTrees \subseteq Creates
  /\ wtRecords \subseteq Creates
  /\ wtStuck \subseteq Creates

WInv ==
  /\ WtShape
  /\ openRoot \in Roots \cup {None}
  /\ \A c \in Creates : RolledBack(c) /\ Whole(c)

LEMMA WorktreeStarts == ProjectInit /\ WorktreeInit => WInv
<1> SUFFICES ASSUME ProjectInit, WorktreeInit
             PROVE  WInv
  OBVIOUS
<1>1. WtShape
  BY DEF WorktreeInit, WtShape, WtPhase, Git
<1>2. \A c \in Creates : wtAt[c] = "idle" /\ \A m \in Removes : wtTarget[m] = None
  BY DEF WorktreeInit, WtCalls
<1>3. None \notin Creates
  BY WorktreeAssumption DEF WtCalls
<1> QED BY <1>1, <1>2, <1>3 DEF ProjectInit, WorktreeInit, WInv, RolledBack, Whole

\* The phases of an approval up to the git command.
Early == {"preparing", "prepared", "waiting", "inspecting", "inspected", "flagged",
          "refused"}

LEMMA EarlyKeeps ==
  ASSUME WInv, NEW c \in WtCalls, openRoot' = openRoot,
         NEW phase \in Early \cup {"adding"}, wtAt[c] \in Early,
         wtAt' = [wtAt EXCEPT ![c] = phase],
         UNCHANGED <<wtRoot, wtTarget, wtBranch, wtTrees, wtRecords, wtStuck>>
  PROVE  WInv'
<1>1. \A d \in WtCalls : wtAt'[d] = IF d = c THEN phase ELSE wtAt[d]
  BY DEF WInv, WtShape
<1>2. WtShape'
  BY DEF WInv, WtShape, WtPhase, Git, Early
<1>3. ASSUME NEW d \in Creates
      PROVE  RolledBack(d)' /\ Whole(d)'
  <2>1. RolledBack(d)'
    BY <1>1 DEF WInv, WtCalls, RolledBack, Early
  <2>2. Kept(d)' => Kept(d)
    BY <1>1 DEF Kept, WtCalls, Early
  <2> QED BY <1>1, <2>1, <2>2 DEF WInv, WtCalls, Whole, Early, After
<1> QED BY <1>2, <1>3 DEF WInv

\* A preflight, an execution up to its git command, and what ends them.
LEMMA ApprovalKeeps ==
  ASSUME WInv, NEW c \in WtCalls, openRoot' = openRoot,
         \/ WtPrepareCalled(c) \/ WtPrepared(c) \/ WtTokenDropped(c)
         \/ WtExecuteCalled(c) \/ WtResumes(c) \/ WtInspected(c) \/ WtRefused(c)
  PROVE  WInv'
<1> USE DEF wtRepo, wtTokenVars, Goes
<1>1. CASE WtPrepareCalled(c)
  <2>1. /\ \A d \in WtCalls : wtAt'[d] = IF d = c THEN "preparing" ELSE wtAt[d]
        /\ \A d \in WtCalls : wtRoot'[d] = IF d = c THEN openRoot ELSE wtRoot[d]
        /\ wtAt[c] = "idle" /\ openRoot \in Roots
        /\ UNCHANGED <<wtTarget, wtBranch, wtTrees, wtRecords, wtStuck>>
    BY <1>1 DEF WInv, WtShape, WtPrepareCalled
  <2>2. WtShape'
    BY <1>1 DEF WInv, WtShape, WtPhase, WtPrepareCalled
  <2>3. ASSUME NEW d \in Creates
        PROVE  RolledBack(d)' /\ Whole(d)'
    <3>1. Kept(d)' => Kept(d)
      BY <2>1 DEF Kept, WtCalls
    <3> QED BY <2>1, <3>1 DEF WInv, WtCalls, RolledBack, Whole, After
  <2> QED BY <1>1, <2>2, <2>3 DEF WInv
<1>2. CASE WtPrepared(c)
  <2>1. CASE UNCHANGED wtTarget
    BY <1>2, <2>1, EarlyKeeps DEF WtPrepared, Early
  <2>2. CASE c \in Removes /\ \E t \in wtTrees \cap wtRecords :
               wtTarget' = [wtTarget EXCEPT ![c] = t]
    <3>1. PICK t \in wtTrees \cap wtRecords : wtTarget' = [wtTarget EXCEPT ![c] = t]
      BY <2>2
    <3>2. t \in Creates /\ wtAt[t] \in After
      BY DEF WInv, WtShape, Whole
    <3>3. /\ \A d \in WtCalls : wtAt'[d] = IF d = c THEN "prepared" ELSE wtAt[d]
          /\ \A m \in Removes : wtTarget'[m] = IF m = c THEN t ELSE wtTarget[m]
          /\ UNCHANGED <<wtRoot, wtBranch, wtTrees, wtRecords, wtStuck>>
      BY <1>2, <3>1 DEF WInv, WtShape, WtPrepared
    <3>4. WtShape'
      BY <1>2, <3>1, <3>2 DEF WInv, WtShape, WtPhase, WtPrepared
    <3>5. ASSUME NEW d \in Creates
          PROVE  RolledBack(d)' /\ Whole(d)'
      <4>1. wtAt'[d] = wtAt[d]
        BY <2>2, <3>3, WorktreeAssumption DEF WtCalls
      <4>2. Kept(d)' /\ d # t => Kept(d)
        BY <3>3, <1>2 DEF Kept, WtCalls, WtPrepared
      <4> QED BY <3>2, <3>3, <4>1, <4>2 DEF WInv, RolledBack, Whole
    <3> QED BY <3>4, <3>5 DEF WInv
  <2> QED BY <1>2, <2>1, <2>2 DEF WtPrepared
<1>3. CASE WtTokenDropped(c)
  <2>1. CASE wtAt[c] = "prepared"
    BY <1>3, <2>1, EarlyKeeps DEF WtTokenDropped, Early
  <2>2. CASE wtAt[c] # "prepared"
    <3>1. UNCHANGED <<wtAt, wtRoot, wtTarget, wtBranch, wtTrees, wtRecords, wtStuck>>
      BY <1>3, <2>2 DEF WtTokenDropped, WInv, WtShape
    <3> QED BY <3>1 DEF WInv, WtShape, RolledBack, Whole, Kept
  <2> QED BY <2>1, <2>2
<1>4. CASE WtExecuteCalled(c)
  BY <1>4, EarlyKeeps DEF WtExecuteCalled, WtAccepted, Early
<1>5. CASE WtResumes(c)
  BY <1>5, EarlyKeeps DEF WtResumes, WtAccepted, Early
<1>6. CASE WtInspected(c)
  BY <1>6, EarlyKeeps DEF WtInspected, Early
<1>7. CASE WtRefused(c)
  BY <1>7, EarlyKeeps DEF WtRefused, Early
<1> QED BY <1>1, <1>2, <1>3, <1>4, <1>5, <1>6, <1>7

\* A create at work: its phase changes, what else changes is its own.
LEMMA CreateKeeps ==
  ASSUME WInv, NEW c \in Creates, openRoot' = openRoot,
         \/ FlagRaised(c) \/ AddSpawned(c) \/ GitAddsBranch(c) \/ GitAddsTree(c)
         \/ AddEnded(c) \/ Verified(c) \/ VerifyFails(c)
  PROVE  WInv'
<1> USE DEF wtRepo, wtTokenVars, wtSession, Goes, Finally
<1>0. c \in WtCalls /\ wtAt[c] # "idle" /\ wtRoot[c] \in Roots
  BY DEF WtCalls, WInv, Whole, FlagRaised, AddSpawned, GitAddsBranch, GitAddsTree,
     AddEnded, Verified, VerifyFails
<1>1. CASE FlagRaised(c)
  BY <1>0, <1>1, EarlyKeeps DEF FlagRaised, Early
<1>2. CASE AddSpawned(c)
  BY <1>0, <1>2, EarlyKeeps DEF AddSpawned, Early
<1>3. CASE ~FlagRaised(c) /\ ~AddSpawned(c)
  <2>1. PICK phase \in {"branched", "added", "verifying", "untree", "created"} :
          wtAt' = [wtAt EXCEPT ![c] = phase]
    BY <1>3 DEF GitAddsBranch, GitAddsTree, AddEnded, Verified, Recorded, VerifyFails
  <2>2. /\ \A d \in WtCalls : wtAt'[d] = IF d = c THEN phase ELSE wtAt[d]
        /\ UNCHANGED <<wtRoot, wtTarget, wtStuck>>
    BY <2>1, <1>3 DEF WInv, WtShape, GitAddsBranch, GitAddsTree, AddEnded, Verified,
       Recorded, VerifyFails
  <2>3. \/ /\ wtAt[c] = "adding" /\ phase = "branched"
           /\ wtBranch[wtRoot[c]] = None
           /\ wtBranch' = [wtBranch EXCEPT ![wtRoot[c]] = c]
           /\ UNCHANGED <<wtTrees, wtRecords>>
        \/ /\ wtAt[c] = "branched" /\ phase = "added"
           /\ wtBranch[wtRoot[c]] # None
           /\ wtTrees' = wtTrees \cup {c}
           /\ UNCHANGED <<wtBranch, wtRecords>>
        \/ /\ wtAt[c] = "added" /\ phase = "verifying"
           /\ UNCHANGED <<wtBranch, wtTrees, wtRecords>>
        \/ /\ wtAt[c] \in {"adding", "branched", "added", "verifying"} /\ phase = "untree"
           /\ wtRecords' = wtRecords \cup {c} \/ UNCHANGED wtRecords
           /\ UNCHANGED <<wtBranch, wtTrees>>
        \/ /\ wtAt[c] = "verifying" /\ phase = "created"
           /\ wtRecords' = wtRecords \cup {c}
           /\ UNCHANGED <<wtBranch, wtTrees>>
    <3>1. \A p \in WtPhase : Goes(c, p) => p = phase
      BY <1>0, <2>2 DEF WInv, WtShape
    <3>2. CASE GitAddsBranch(c)
      BY <3>1, <3>2 DEF GitAddsBranch, WtPhase, Git
    <3>3. CASE GitAddsTree(c)
      BY <3>1, <3>3 DEF GitAddsTree, WtPhase, Git
    <3>4. CASE AddEnded(c)
      BY <3>1, <3>4 DEF AddEnded, WtPhase, Git
    <3>5. CASE Verified(c)
      BY <3>1, <3>5 DEF Verified, Recorded, WtPhase, Git
    <3>6. CASE VerifyFails(c)
      BY <3>1, <3>6 DEF VerifyFails, WtPhase, Git
    <3> QED BY <1>3, <3>2, <3>3, <3>4, <3>5, <3>6
  <2>4. WtShape'
    BY <1>0, <2>1, <2>2, <2>3 DEF WInv, WtShape, WtPhase, Git
  <2>5. \A d \in Creates : Kept(d)' => Kept(d)
    BY <2>2, WorktreeAssumption DEF Kept, WtCalls
  <2>6. ASSUME NEW d \in Creates
        PROVE  RolledBack(d)' /\ Whole(d)'
    <3>1. RolledBack(d) /\ Whole(d) /\ d \in WtCalls /\ (wtAt[d] # "idle" => wtRoot[d] \in Roots)
      BY DEF WInv, WtCalls, Whole
    <3>2. wtAt[d] # "idle" =>
            \/ wtBranch'[wtRoot[d]] = wtBranch[wtRoot[d]]
            \/ wtBranch'[wtRoot[d]] = c /\ c # None /\ wtAt[c] = "adding"
      BY <1>0, <2>3, <3>1, WorktreeAssumption DEF WInv, WtShape, WtCalls
    <3>3. RolledBack(d)'
      BY <2>2, <2>3, <3>1, <3>2 DEF RolledBack
    <3>4. Whole(d)'
      BY <2>2, <2>3, <2>5, <3>1, <3>2 DEF Whole, After
    <3> QED BY <3>3, <3>4
  <2> QED BY <2>4, <2>6 DEF WInv
<1> QED BY <1>1, <1>2, <1>3

\* A rollback: each step leaves its part gone, or the create stuck.
LEMMA RollbackKeeps ==
  ASSUME WInv, NEW c \in Creates, openRoot' = openRoot,
         \/ TreeTakenBack(c) \/ BranchLookedAt(c) \/ BranchTakenBack(c)
         \/ RecordTakenBack(c)
  PROVE  WInv'
<1> USE DEF wtRepo, wtTokenVars, wtSession, Goes, Finally, StuckIf
<1>0. c \in WtCalls /\ wtRoot[c] \in Roots /\ wtAt[c] \in {"untree", "look", "delete", "unrecord"}
  BY DEF WtCalls, WInv, Whole, TreeTakenBack, BranchLookedAt, BranchTakenBack,
     RecordTakenBack
<1>1. PICK phase \in {"look", "delete", "unrecord", "failed"} :
        wtAt' = [wtAt EXCEPT ![c] = phase]
  BY DEF TreeTakenBack, BranchLookedAt, BranchTakenBack, RecordTakenBack
<1>2. /\ \A d \in WtCalls : wtAt'[d] = IF d = c THEN phase ELSE wtAt[d]
      /\ UNCHANGED <<wtRoot, wtTarget>>
      /\ wtStuck \subseteq wtStuck' /\ wtTrees' \subseteq wtTrees
      /\ wtRecords' \subseteq wtRecords
      /\ wtTrees \subseteq wtTrees' \cup {c} /\ wtRecords \subseteq wtRecords' \cup {c}
  BY <1>1 DEF WInv, WtShape, TreeTakenBack, BranchLookedAt, BranchTakenBack,
     RecordTakenBack
<1>3. WtShape'
  <2>1. wtStuck' \subseteq Creates
    BY DEF WInv, WtShape, TreeTakenBack, BranchLookedAt, BranchTakenBack, RecordTakenBack
  <2>2. wtBranch' \in [Roots -> Creates \cup {"user", "moved", None}]
    BY DEF WInv, WtShape, TreeTakenBack, BranchLookedAt, BranchTakenBack, RecordTakenBack
  <2> QED BY <1>1, <1>2, <2>1, <2>2 DEF WInv, WtShape, WtPhase
<1>4. \A d \in Creates : Kept(d)' => Kept(d)
  BY <1>2, WorktreeAssumption DEF Kept, WtCalls
<1>5. \/ UNCHANGED wtBranch
      \/ /\ ~CheckedOut(wtRoot[c])
         /\ wtBranch' = [wtBranch EXCEPT ![wtRoot[c]] = None]
         /\ UNCHANGED wtTrees
  BY DEF TreeTakenBack, BranchLookedAt, BranchTakenBack, RecordTakenBack
<1>6. /\ phase = "look" => (c \in wtTrees' => c \in wtStuck')
      /\ phase = "unrecord" /\ wtBranch'[wtRoot[c]] = c => c \in wtStuck'
      /\ phase = "failed" /\ c \in wtRecords' => c \in wtStuck'
      /\ phase \in {"delete", "unrecord"} => wtAt[c] \in {"look", "delete"}
      /\ phase = "failed" => wtAt[c] = "unrecord" /\ UNCHANGED <<wtBranch, wtTrees>>
  <2>1. CASE TreeTakenBack(c)
    BY <1>0, <1>2, <2>1 DEF TreeTakenBack
  <2>2. CASE BranchLookedAt(c)
    BY <1>0, <1>2, <2>2 DEF BranchLookedAt, WInv, WtShape
  <2>3. CASE BranchTakenBack(c)
    BY <1>0, <1>2, <2>3, WorktreeAssumption DEF BranchTakenBack, WInv, WtShape, WtCalls
  <2>4. CASE RecordTakenBack(c)
    BY <1>0, <1>2, <2>4 DEF RecordTakenBack, WInv, WtShape
  <2> QED BY <2>1, <2>2, <2>3, <2>4
<1>7. ASSUME NEW d \in Creates
      PROVE  RolledBack(d)' /\ Whole(d)'
  <2>1. RolledBack(d) /\ Whole(d) /\ d \in WtCalls /\ d # None
    BY WorktreeAssumption DEF WInv, WtCalls
  <2>2. wtAt[d] # "idle" =>
          \/ wtBranch'[wtRoot[d]] = wtBranch[wtRoot[d]]
          \/ wtBranch'[wtRoot[d]] = None /\ d \notin wtTrees'
    <3>1. CASE UNCHANGED wtBranch
      BY <3>1
    <3>2. CASE ~UNCHANGED wtBranch
      BY <1>0, <1>5, <2>1, <3>2 DEF WInv, WtShape, CheckedOut, Whole
    <3> QED BY <3>1, <3>2
  <2>3. RolledBack(d)'
    BY <1>0, <1>2, <1>6, <2>1, <2>2 DEF RolledBack
  <2>4. Whole(d)'
    BY <1>0, <1>2, <1>4, <2>1, <2>2 DEF Whole, After
  <2> QED BY <2>3, <2>4
<1> QED BY <1>3, <1>7 DEF WInv

\* A remove takes what is no longer kept.
LEMMA RemoveKeeps ==
  ASSUME WInv, NEW m \in Removes, openRoot' = openRoot,
         \/ RemoveSpawned(m) \/ GitRemovesTree(m) \/ RemoveFailed(m)
         \/ RemoveEnded(m) \/ RecordDeleted(m)
  PROVE  WInv'
<1> USE DEF wtRepo, wtTokenVars, wtSession, Goes, Finally
<1> DEFINE Begun == {"removing", "removed", "unfile", "failed", "gone"}
<1>1. PICK phase \in Begun : wtAt' = [wtAt EXCEPT ![m] = phase]
  BY DEF RemoveSpawned, GitRemovesTree, RemoveFailed, RemoveEnded, RecordDeleted
<1>2. /\ \A d \in WtCalls : wtAt'[d] = IF d = m THEN phase ELSE wtAt[d]
      /\ m \in WtCalls /\ m \notin Creates
      /\ UNCHANGED <<wtRoot, wtTarget, wtBranch, wtStuck>>
      /\ wtTrees' \subseteq wtTrees /\ wtTrees \subseteq wtTrees' \cup {wtTarget[m]}
      /\ wtRecords' \subseteq wtRecords /\ wtRecords \subseteq wtRecords' \cup {wtTarget[m]}
      /\ wtAt[m] \in {"inspected", "removing", "removed", "unfile"}
      /\ wtAt[m] = "inspected" => UNCHANGED <<wtTrees, wtRecords>>
  BY <1>1, WorktreeAssumption DEF WtCalls, WInv, WtShape, RemoveSpawned, GitRemovesTree,
     RemoveFailed, RemoveEnded, RecordDeleted
<1>3. WtShape'
  BY <1>1, <1>2 DEF WInv, WtShape, WtPhase, Git
<1>4. ASSUME NEW d \in Creates
      PROVE  RolledBack(d)' /\ Whole(d)'
  <2>1. Kept(d)' => Kept(d) /\ wtTarget[m] # d
    BY <1>2 DEF Kept, WtCalls
  <2>2. wtAt'[d] = wtAt[d] /\ (wtTarget[m] = d => wtAt[d] \in After)
    BY <1>2 DEF WtCalls, WInv, Whole
  <2> QED BY <1>2, <2>1, <2>2 DEF WInv, RolledBack, Whole, After
<1> QED BY <1>3, <1>4 DEF WInv

LEMMA WorktreeInvariant == WorktreeSpec => []WInv
<1>1. WInv /\ [WorktreeNext]_<<projectVars, wtVars>> => WInv'
  <2> SUFFICES ASSUME WInv, [WorktreeNext]_<<projectVars, wtVars>>
               PROVE  WInv'
    OBVIOUS
  <2> USE DEF wtTokenVars, wtSession, wtRepo
  <2>1. CASE WorktreeStep /\ UNCHANGED projectVars
    <3>1. openRoot' = openRoot
      BY <2>1 DEF projectVars
    <3>2. ASSUME NEW r \in Roots, UserChangesBranch(r)
          PROVE  WInv'
      <4>1. /\ UNCHANGED <<wtAt, wtRoot, wtTarget, wtTrees, wtRecords, wtStuck>>
            /\ \E b \in {"user", "moved"} : wtBranch' = [wtBranch EXCEPT ![r] = b]
        BY <3>2 DEF UserChangesBranch
      <4>2. WtShape'
        BY <4>1 DEF WInv, WtShape
      <4>3. ASSUME NEW c \in Creates
            PROVE  RolledBack(c)' /\ Whole(c)'
        <5>1. wtAt[c] # "idle" =>
                wtBranch'[wtRoot[c]] = wtBranch[wtRoot[c]] \/ wtBranch'[wtRoot[c]] \in {"user", "moved"}
          BY <4>1 DEF WInv, WtShape, Whole
        <5>2. RolledBack(c) /\ Whole(c) /\ c \notin {"user", "moved"}
          BY WorktreeAssumption DEF WInv, WtCalls
        <5>3. (Kept(c)' <=> Kept(c)) /\ None \notin {"user", "moved"}
          BY <4>1, WorktreeAssumption DEF Kept
        <5> QED BY <4>1, <5>1, <5>2, <5>3 DEF RolledBack, Whole
      <4> QED BY <3>1, <4>2, <4>3 DEF WInv
    <3> QED BY <2>1, <3>1, <3>2, ApprovalKeeps, CreateKeeps, RollbackKeeps, RemoveKeeps
            DEF WorktreeStep
  <2>2. CASE (WorktreeClears \/ WorktreeCleared) /\ UNCHANGED projectVars
    BY <2>2 DEF WorktreeClears, WorktreeCleared, projectVars, wtVars, WInv, WtShape,
       RolledBack, Whole, Kept
  <2>3. CASE \E r \in Roots : Opens(r) /\ UNCHANGED wtVars
    BY <2>3 DEF Opens, wtVars, WInv, WtShape, RolledBack, Whole, Kept
  <2>4. CASE Restarts /\ WorktreeRestarted
    <3>1. \A c \in WtCalls : wtAt'[c] = "dead" \/ wtAt'[c] = wtAt[c]
      BY <2>4 DEF WorktreeRestarted
    <3>2. WtShape'
      BY <2>4 DEF WorktreeRestarted, WInv, WtShape, WtPhase
    <3>3. \A c \in Creates : Kept(c)' => Kept(c)
      BY <2>4, <3>1 DEF WorktreeRestarted, Kept, WtCalls
    <3>4. \A c \in Creates : wtAt'[c] # "idle" => wtAt[c] # "idle"
      BY <2>4 DEF WorktreeRestarted, WtCalls
    <3> QED BY <2>4, <3>1, <3>2, <3>3, <3>4
            DEF Restarts, WorktreeRestarted, WInv, WtCalls, RolledBack, Whole, After
  <2>5. CASE UNCHANGED <<projectVars, wtVars>>
    BY <2>5 DEF projectVars, wtVars, WInv, WtShape, RolledBack, Whole, Kept
  <2> QED BY <2>1, <2>2, <2>3, <2>4, <2>5 DEF WorktreeNext
<1> QED BY <1>1, WorktreeStarts, PTL DEF WorktreeSpec

(* A create that has answered is all there or has left nothing, unless a   *)
(* command of its rollback failed, for any number of creates, removes,     *)
(* clears, switches and restarts, and whatever the user does to the branch *)
(* meanwhile (executeApprovedGitWorktreeCreate, rollbackCreate).           *)
THEOREM CreateAllOrNothing == WorktreeSpec => []CreateIsAllOrNothing
<1>1. WInv => CreateIsAllOrNothing
  BY DEF WInv, CreateIsAllOrNothing, RolledBack, Whole
<1> QED BY <1>1, WorktreeInvariant, PTL

WtSessionOK ==
  /\ wtTokens \subseteq WtCalls
  /\ wtEpochOf \in [WtCalls -> 0..MaxClears]
  /\ worktreeInFlight \in BOOLEAN
  /\ activeWorktreePid \in WtCalls \cup {None}
  /\ wtEpoch \in 0..MaxClears
  /\ wtClearing \in BOOLEAN
  /\ wtDoomed \in WtCalls \cup {None}

LEMMA SessionOKKept ==
  ASSUME WtSessionOK, [WorktreeNext]_<<projectVars, wtVars>>
  PROVE  WtSessionOK'
<1> USE DEF WtSessionOK, wtTokenVars, wtSession
<1>0. 0 \in 0..MaxClears
  BY ProjectAssumption
<1>1. ASSUME NEW c \in WtCalls,
             \/ WtPrepareCalled(c) \/ WtPrepared(c) \/ WtTokenDropped(c)
             \/ WtExecuteCalled(c) \/ WtResumes(c) \/ WtInspected(c) \/ WtRefused(c)
      PROVE  WtSessionOK'
  <2>1. WtAccepted(c) /\ UNCHANGED wtSession => WtSessionOK'
    BY <1>0 DEF WtAccepted
  <2>2. CASE WtPrepareCalled(c) \/ WtPrepared(c) \/ WtTokenDropped(c)
    BY <1>0, <2>2 DEF WtPrepareCalled, WtPrepared, WtTokenDropped
  <2>3. CASE WtExecuteCalled(c) \/ WtResumes(c) \/ WtInspected(c) \/ WtRefused(c)
    BY <2>1, <2>3 DEF WtExecuteCalled, WtResumes, WtInspected, WtRefused
  <2> QED BY <1>1, <2>2, <2>3
<1>2. ASSUME NEW c \in Creates,
             \/ FlagRaised(c) \/ AddSpawned(c) \/ GitAddsBranch(c) \/ GitAddsTree(c)
             \/ AddEnded(c) \/ Verified(c) \/ VerifyFails(c)
      PROVE  WtSessionOK'
  BY <1>2 DEF WtCalls, FlagRaised, AddSpawned, GitAddsBranch, GitAddsTree, AddEnded,
     Verified, Recorded, Finally, VerifyFails
<1>3. ASSUME NEW c \in Creates,
             \/ TreeTakenBack(c) \/ BranchLookedAt(c) \/ BranchTakenBack(c)
             \/ RecordTakenBack(c)
      PROVE  WtSessionOK'
  BY <1>3 DEF TreeTakenBack, BranchLookedAt, BranchTakenBack, RecordTakenBack, Finally
<1>4. ASSUME NEW m \in Removes,
             \/ RemoveSpawned(m) \/ GitRemovesTree(m) \/ RemoveFailed(m)
             \/ RemoveEnded(m) \/ RecordDeleted(m)
      PROVE  WtSessionOK'
  BY <1>4 DEF WtCalls, RemoveSpawned, GitRemovesTree, RemoveFailed, RemoveEnded,
     RecordDeleted, Finally
<1>5. ASSUME NEW r \in Roots, UserChangesBranch(r)
      PROVE  WtSessionOK'
  BY <1>5 DEF UserChangesBranch
<1>6. CASE WorktreeClears \/ WorktreeCleared
  <2>1. wtEpoch < MaxClears => wtEpoch + 1 \in 0..MaxClears
    BY ProjectAssumption
  <2> QED BY <1>0, <1>6, <2>1 DEF WorktreeClears, WorktreeCleared, wtVars
<1>7. CASE UNCHANGED wtVars
  BY <1>7 DEF wtVars
<1>8. CASE WorktreeRestarted
  BY <1>0, <1>8 DEF WorktreeRestarted
<1> QED BY <1>1, <1>2, <1>3, <1>4, <1>5, <1>6, <1>7, <1>8 DEF WorktreeNext, WorktreeStep

(* The two git sessions keep their types, their epochs among them, through *)
(* every approval, clear, switch and restart (gitBranch.cts,               *)
(* gitWorktree.cts).                                                       *)
THEOREM GitTyped ==
  (BranchSpec => []BranchTypeOK) /\ (WorktreeSpec => []WorktreeTypeOK)
<1>1. BInv => BranchTypeOK
  BY DEF BInv
<1>2. ProjectInit /\ WorktreeInit => WtSessionOK
  <2>1. 0 \in 0..MaxClears
    BY ProjectAssumption
  <2> QED BY <2>1 DEF WorktreeInit, WtSessionOK
<1>3. WInv /\ WtSessionOK => WorktreeTypeOK
  BY DEF WInv, WtShape, WtSessionOK, WorktreeTypeOK
<1> QED BY <1>1, <1>2, <1>3, SessionOKKept, BranchInvariant, WorktreeInvariant, PTL
        DEF WorktreeSpec

-----------------------------------------------------------------------------
(* What the agent runs.  An execution that began alone is alone until      *)
(* another begins; project code begins in its epoch, so never while a      *)
(* clear runs, and the clear that comes next takes its process for its own *)
(* and does not go on before it is gone.                                   *)

AInv ==
  /\ AgentTypeOK
  /\ openRoot \in Roots \cup {None}
  /\ AgentNeverLockedOut
  /\ ClearReachesProjectCode
  /\ \A c \in AgentCalls : agentEpochOf[c] <= agentEpoch
  /\ ~agentShared => \A c, d \in Executing : c = d
  /\ agentClearing # "no" =>
       \A p \in ProjectCodes : agentAt[p] \in {"opening", "checked"} =>
         agentEpochOf[p] # agentEpoch
  /\ agentClearing = "recovering" /\ ~agentShared =>
       \A p \in ProjectCodes : agentAt[p] # "running"

LEMMA AgentStarts == ProjectInit /\ AgentInit => AInv
<1> SUFFICES ASSUME ProjectInit, AgentInit
             PROVE  AInv
  OBVIOUS
<1>0. 0 \in 0..MaxClears
  BY ProjectAssumption
<1>1. AgentTypeOK
  <2>1. /\ agentAt \in [AgentCalls -> AgentPhase]
        /\ agentRoot \in [AgentCalls -> Roots \cup {None}]
        /\ agentEpochOf \in [AgentCalls -> 0..MaxClears]
    BY <1>0 DEF AgentInit, AgentPhase
  <2>2. agentPreviews \subseteq AgentCalls /\ agentTokens \subseteq AgentCalls
    BY DEF AgentInit
  <2>3. agentInFlight \in Int
    BY DEF AgentInit
  <2>4. agentShared \in BOOLEAN
    BY DEF AgentInit
  <2>5. /\ activeAgentPid = None /\ agentDoomed = None /\ agentEpoch \in 0..MaxClears
        /\ agentClearing \in {"no", "ending", "recovering"}
    BY <1>0 DEF AgentInit
  <2> QED BY <2>1, <2>2, <2>3, <2>4, <2>5 DEF AgentTypeOK
<1>2. Executing = {}
  BY DEF AgentInit, Executing
<1>3. AgentNeverLockedOut
  BY <1>2, FS_EmptySet DEF AgentInit, AgentNeverLockedOut
<1> QED BY <1>1, <1>2, <1>3
        DEF ProjectInit, AgentInit, AInv, ClearReachesProjectCode, AgentCalls

LEMMA CountedExecutions ==
  ASSUME NEW S \in SUBSET AgentCalls, NEW c \in AgentCalls
  PROVE  /\ Cardinality(S) \in Nat
         /\ c \notin S => Cardinality(S \cup {c}) = Cardinality(S) + 1
         /\ c \in S => Cardinality(S \ {c}) = Cardinality(S) - 1
BY AgentAssumption, FS_Subset, FS_CardinalityType, FS_AddElement, FS_RemoveElement

\* What neither begins nor ends an execution, and opens none under a clear.
LEMMA CallKeeps ==
  ASSUME AInv, NEW c \in AgentCalls, openRoot' = openRoot, AgentTypeOK',
         NEW phase \in AgentPhase \ {"running", "closing"},
         agentAt[c] \notin {"running", "closing"},
         agentAt' = [agentAt EXCEPT ![c] = phase],
         UNCHANGED <<agentSession, agentProcess>>,
         \A d \in AgentCalls : agentEpochOf'[d] = agentEpochOf[d]
                               \/ (d = c /\ agentEpochOf'[d] = agentEpoch),
         phase \in {"opening", "checked"} =>
           \/ agentClearing = "no"
           \/ agentAt[c] \in {"opening", "checked"} /\ agentEpochOf' = agentEpochOf
  PROVE  AInv'
<1> USE DEF agentSession, agentProcess
<1>1. \A d \in AgentCalls : agentAt'[d] = IF d = c THEN phase ELSE agentAt[d]
  BY DEF AInv, AgentTypeOK
<1>2. Executing' = Executing
  BY <1>1 DEF Executing
<1>3. ProjectCodes \subseteq AgentCalls
  BY DEF AgentCalls
<1>4. ClearReachesProjectCode'
  BY <1>1, <1>3 DEF AInv, ClearReachesProjectCode
<1>5. \A d \in AgentCalls : agentEpochOf'[d] <= agentEpoch
  BY DEF AInv, AgentTypeOK
<1>6. agentClearing # "no" =>
        \A p \in ProjectCodes : agentAt'[p] \in {"opening", "checked"} =>
          agentEpochOf'[p] # agentEpoch
  BY <1>1, <1>3 DEF AInv
<1> QED BY <1>1, <1>2, <1>3, <1>4, <1>5, <1>6 DEF AInv, AgentNeverLockedOut

LEMMA EntersKeeps ==
  ASSUME AInv, NEW c \in AgentCalls, openRoot' = openRoot, NEW tokens \in SUBSET AgentCalls,
         Enters(c, tokens) \/ (agentClearing = "no" /\ Admits(c, tokens)),
         agentAt[c] \in {"idle", "sealing", "waiting"},
         agentRoot' \in [AgentCalls -> Roots \cup {None}],
         UNCHANGED <<agentPreviews, agentSession, agentProcess>>,
         agentEpochOf' \in {agentEpochOf, [agentEpochOf EXCEPT ![c] = agentEpoch]}
  PROVE  AInv'
<1>1. PICK phase \in {"waiting", "opening", "done"} :
        /\ agentAt' = [agentAt EXCEPT ![c] = phase]
        /\ phase = "opening" => agentClearing = "no"
        /\ agentTokens' \subseteq AgentCalls
  BY DEF Enters, Admits, AgentGoes
<1>2. AgentTypeOK'
  BY <1>1 DEF AInv, AgentTypeOK, AgentPhase, agentSession, agentProcess
<1>3. /\ phase \in AgentPhase \ {"running", "closing"}
      /\ agentAt[c] \notin {"running", "closing"}
      /\ phase # "checked"
  BY <1>1 DEF AgentPhase
<1>4. \A d \in AgentCalls : agentEpochOf'[d] = agentEpochOf[d]
                            \/ (d = c /\ agentEpochOf'[d] = agentEpoch)
  BY DEF AInv, AgentTypeOK
<1> QED BY <1>1, <1>2, <1>3, <1>4, CallKeeps

LEMMA SpawnKeeps ==
  ASSUME AInv, NEW c \in AgentCalls, openRoot' = openRoot, Spawned(c)
  PROVE  AInv'
<1> USE DEF agentSession, agentApproval
<1>1. PICK phase \in {"running", "closing"} :
        /\ agentAt' = [agentAt EXCEPT ![c] = phase]
        /\ phase = "running" => activeAgentPid' = c
        /\ activeAgentPid' \in {c, activeAgentPid}
  BY DEF Spawned, AgentGoes
<1>2. \A d \in AgentCalls : agentAt'[d] = IF d = c THEN phase ELSE agentAt[d]
  BY <1>1 DEF AInv, AgentTypeOK
<1>3. c \notin Executing /\ Executing' = Executing \cup {c} /\ Executing \subseteq AgentCalls
  BY <1>2 DEF Executing, Spawned, MaySpawn
<1>4. AgentTypeOK'
  BY <1>1 DEF AInv, AgentTypeOK, AgentPhase, Spawned
<1>5. AgentNeverLockedOut'
  BY <1>3, CountedExecutions DEF AInv, AgentTypeOK, AgentNeverLockedOut, Spawned
<1>6. ~agentShared' => Executing = {} /\ Executing' = {c}
  BY <1>3 DEF Spawned
<1>7. c \in ProjectCodes => agentClearing = "no"
  BY AgentAssumption DEF AInv, Spawned, MaySpawn
<1>8. \A p \in ProjectCodes : agentAt'[p] = "running" => p \in Executing'
  BY DEF Executing, AgentCalls
<1>9. \A p \in ProjectCodes : ~agentShared' /\ agentAt'[p] = "running" =>
        p = c /\ activeAgentPid' = c /\ agentClearing = "no"
  BY <1>1, <1>2, <1>6, <1>7, <1>8
<1>10. ClearReachesProjectCode'
  BY <1>9 DEF ClearReachesProjectCode, Spawned
<1>11. \A p \in ProjectCodes : agentAt'[p] \in {"opening", "checked"} => agentAt'[p] = agentAt[p]
  BY <1>2 DEF AgentCalls
<1> QED BY <1>4, <1>5, <1>6, <1>9, <1>10, <1>11 DEF AInv, Spawned

LEMMA EndKeeps ==
  ASSUME AInv, NEW c \in AgentCalls, openRoot' = openRoot,
         AgentChildDies(c) \/ AgentFinally(c)
  PROVE  AInv'
<1> USE DEF agentSession, agentApproval, agentProcess
<1>0. ProjectCodes \subseteq AgentCalls /\ Executing \subseteq AgentCalls
  BY DEF AgentCalls, Executing
<1>1. CASE AgentChildDies(c)
  <2>1. \A d \in AgentCalls : agentAt'[d] = IF d = c THEN "closing" ELSE agentAt[d]
    BY <1>1 DEF AInv, AgentTypeOK, AgentChildDies, AgentGoes
  <2>2. Executing' = Executing
    BY <1>1, <2>1 DEF Executing, AgentChildDies
  <2>3. AgentTypeOK'
    BY <1>1 DEF AInv, AgentTypeOK, AgentPhase, AgentChildDies, AgentGoes
  <2>4. ClearReachesProjectCode'
    BY <1>0, <1>1, <2>1 DEF AInv, ClearReachesProjectCode, AgentChildDies
  <2> QED BY <1>0, <1>1, <2>1, <2>2, <2>3, <2>4
          DEF AInv, AgentNeverLockedOut, AgentChildDies
<1>2. CASE AgentFinally(c)
  <2>1. \A d \in AgentCalls : agentAt'[d] = IF d = c THEN "done" ELSE agentAt[d]
    BY <1>2 DEF AInv, AgentTypeOK, AgentFinally, AgentGoes
  <2>2. c \in Executing /\ Executing' = Executing \ {c}
    BY <1>2, <2>1 DEF Executing, AgentFinally
  <2>3. AgentTypeOK'
    BY <1>2 DEF AInv, AgentTypeOK, AgentPhase, AgentFinally, AgentGoes, Lowered
  <2>4. AgentNeverLockedOut'
    <3>1. /\ Cardinality(Executing) \in Nat
          /\ Cardinality(Executing') = Cardinality(Executing) - 1
          /\ Cardinality(Executing') \in Nat
      BY <1>0, <2>2, CountedExecutions
    <3>2. agentInFlight' = Lowered(agentInFlight)
      BY <1>2 DEF AgentFinally
    <3> QED BY <3>1, <3>2 DEF AInv, AgentTypeOK, AgentNeverLockedOut, Lowered
  <2>5. ~agentShared => \A p \in ProjectCodes : agentAt'[p] # "running"
    BY <1>0, <1>2, <2>1, <2>2 DEF AInv, Executing, AgentFinally
  <2>6. UNCHANGED <<agentShared, agentClearing, agentEpoch, agentEpochOf>>
    BY <1>2 DEF AgentFinally
  <2>7. ClearReachesProjectCode'
    BY <2>5, <2>6 DEF ClearReachesProjectCode
  <2> QED BY <1>0, <2>1, <2>2, <2>3, <2>4, <2>5, <2>6, <2>7 DEF AInv
<1> QED BY <1>1, <1>2

LEMMA AgentStepKeeps == AInv /\ AgentStep /\ UNCHANGED projectVars => AInv'
<1> SUFFICES ASSUME AInv, AgentStep, UNCHANGED projectVars
             PROVE  AInv'
  OBVIOUS
<1>0. openRoot' = openRoot
  BY DEF projectVars
<1> USE DEF agentApproval, AgentGoes
<1>1. ASSUME NEW c \in Inspects, InspectCalled(c)
      PROVE  AInv'
  <2>1. agentRoot' \in [AgentCalls -> Roots \cup {None}] /\ agentTokens \subseteq AgentCalls
    BY <1>1 DEF AInv, AgentTypeOK, InspectCalled
  <2> QED BY <1>0, <1>1, <2>1, EntersKeeps DEF InspectCalled, AgentCalls
<1>2. ASSUME NEW c \in ProjectCodes \cup PackageScripts,
             \/ AgentPrepareCalled(c) \/ AgentPrepareResumes(c) \/ PreviewKept(c)
             \/ ConfirmCalled(c) \/ ConfirmResumes(c) \/ Approved(c) \/ TokenChecked(c)
      PROVE  AInv'
  <2>0. c \in AgentCalls
    BY DEF AgentCalls
  <2>1. /\ UNCHANGED <<agentSession, agentProcess>>
        /\ agentAt[c] \in {"idle", "held", "preparing", "prepared", "confirming", "asking",
                           "opening"}
        /\ agentEpochOf' \in {agentEpochOf, [agentEpochOf EXCEPT ![c] = agentEpoch]}
        /\ agentPreviews' \subseteq AgentCalls /\ agentTokens' \subseteq AgentCalls
        /\ agentRoot' \in [AgentCalls -> Roots \cup {None}]
    BY <1>2, <2>0 DEF AInv, AgentTypeOK, AgentPrepareCalled, AgentPrepareResumes, PreviewKept,
       ConfirmCalled, ConfirmResumes, AsksUser, Approved, TokenChecked
  <2>2. PICK phase \in {"held", "preparing", "prepared", "confirming", "asking", "sealing",
                        "checked"} :
          /\ agentAt' = [agentAt EXCEPT ![c] = phase]
          /\ phase = "checked" => agentAt[c] = "opening" /\ agentEpochOf' = agentEpochOf
    BY <1>2 DEF AgentPrepareCalled, AgentPrepareResumes, PreviewKept,
       ConfirmCalled, ConfirmResumes, AsksUser, Approved, TokenChecked
  <2>3. AgentTypeOK'
    BY <2>1, <2>2 DEF AInv, AgentTypeOK, AgentPhase, agentSession, agentProcess
  <2>4. \A d \in AgentCalls : agentEpochOf'[d] = agentEpochOf[d]
                              \/ (d = c /\ agentEpochOf'[d] = agentEpoch)
    BY <2>1 DEF AInv, AgentTypeOK
  <2>5. phase \in AgentPhase \ {"running", "closing"}
    BY DEF AgentPhase
  <2>6. phase \in {"opening", "checked"} =>
          agentAt[c] \in {"opening", "checked"} /\ agentEpochOf' = agentEpochOf
    BY <2>2
  <2> QED BY <1>0, <2>0, <2>1, <2>2, <2>3, <2>4, <2>5, <2>6, CallKeeps
<1>3. ASSUME NEW c \in ProjectCodes \cup PackageScripts, PreviewDropped(c)
      PROVE  AInv'
  BY <1>0, <1>3 DEF PreviewDropped, AInv, AgentTypeOK, AgentNeverLockedOut, Executing,
     ClearReachesProjectCode, agentSession, agentProcess
<1>4. ASSUME NEW c \in ProjectCodes \cup PackageScripts, Minted(c)
      PROVE  AInv'
  <2>1. c \in AgentCalls /\ agentTokens \cup {c} \subseteq AgentCalls
    BY DEF AgentCalls, AInv, AgentTypeOK
  <2> QED BY <1>0, <1>4, <2>1, EntersKeeps DEF Minted, AInv, AgentTypeOK
<1>5. ASSUME NEW c \in AgentCalls, AgentWaitEnds(c)
      PROVE  AInv'
  BY <1>0, <1>5, EntersKeeps DEF AgentWaitEnds, AInv, AgentTypeOK
<1>6. ASSUME NEW c \in AgentCalls, AgentRefused(c)
      PROVE  AInv'
  <2>1. AgentTypeOK'
    BY <1>6 DEF AgentRefused, AInv, AgentTypeOK, AgentPhase, agentSession, agentProcess
  <2>2. "done" \in AgentPhase \ {"running", "closing"}
    BY DEF AgentPhase
  <2>3. agentAt[c] \notin {"running", "closing"} /\ agentEpochOf' = agentEpochOf
    BY <1>6 DEF AgentRefused
  <2> QED BY <1>0, <1>6, <2>1, <2>2, <2>3, CallKeeps DEF AgentRefused
<1>7. ASSUME NEW c \in AgentCalls,
             Spawned(c) \/ AgentChildDies(c) \/ AgentFinally(c)
      PROVE  AInv'
  BY <1>0, <1>7, SpawnKeeps, EndKeeps
<1> QED BY <1>1, <1>2, <1>3, <1>4, <1>5, <1>6, <1>7 DEF AgentStep

LEMMA AgentClearKeeps ==
  ASSUME AInv, openRoot' = openRoot, AgentClears \/ AgentRecovers \/ AgentCleared
  PROVE  AInv'
<1> USE DEF agentSession, agentApproval, agentProcess, PackageApprovalsDropped
<1>0. ProjectCodes \subseteq AgentCalls /\ None \notin AgentCalls
  BY AgentAssumption DEF AgentCalls
<1>1. CASE AgentClears /\ agentClearing # "no"
  BY <1>1 DEF AInv, AgentClears, agentVars, AgentTypeOK, AgentNeverLockedOut, Executing,
     ClearReachesProjectCode
<1>2. CASE AgentClears /\ agentClearing = "no"
  <2>1. AgentTypeOK'
    BY <1>2, ProjectAssumption DEF AInv, AgentTypeOK, AgentClears
  <2>2. \A c \in AgentCalls : agentEpochOf'[c] < agentEpoch'
    BY <1>2, ProjectAssumption DEF AInv, AgentTypeOK, AgentClears
  <2>3. ClearReachesProjectCode'
    BY <1>2 DEF AInv, AgentClears, ClearReachesProjectCode
  <2> QED BY <1>0, <1>2, <2>1, <2>2, <2>3
          DEF AInv, AgentTypeOK, AgentClears, AgentNeverLockedOut, Executing
<1>3. CASE AgentRecovers
  <2>1. AgentTypeOK'
    BY <1>3 DEF AInv, AgentTypeOK, AgentRecovers
  <2>2. ClearReachesProjectCode'
    BY <1>3 DEF AInv, AgentRecovers, ClearReachesProjectCode
  <2>3. ~agentShared => \A p \in ProjectCodes : agentAt[p] # "running"
    BY <1>0, <1>3 DEF AInv, AgentRecovers, ClearReachesProjectCode
  <2> QED BY <1>3, <2>1, <2>2, <2>3 DEF AInv, AgentRecovers, AgentNeverLockedOut, Executing
<1>4. CASE AgentCleared
  <2>1. AgentTypeOK'
    BY <1>4 DEF AInv, AgentTypeOK, AgentCleared
  <2>2. ClearReachesProjectCode'
    BY <1>4 DEF AInv, AgentCleared, ClearReachesProjectCode
  <2>3. Executing \subseteq AgentCalls /\ Executing' = Executing
    BY <1>4 DEF Executing, AgentCleared
  <2>4. Cardinality(Executing) \in Nat
    BY <2>3, AgentAssumption, FS_Subset, FS_CardinalityType
  <2>5. AgentNeverLockedOut'
    BY <1>4, <2>3, <2>4 DEF AgentCleared, AgentNeverLockedOut
  <2> QED BY <1>4, <2>1, <2>2, <2>3, <2>5 DEF AInv, AgentCleared
<1> QED BY <1>1, <1>2, <1>3, <1>4

LEMMA AgentInvariant == AgentSpec => []AInv
<1>1. AInv /\ [AgentNext]_<<projectVars, agentVars>> => AInv'
  <2> SUFFICES ASSUME AInv, [AgentNext]_<<projectVars, agentVars>>
               PROVE  AInv'
    OBVIOUS
  <2> USE DEF agentVars, agentSession, agentApproval, agentProcess
  <2>1. CASE AgentStep /\ UNCHANGED projectVars
    BY <2>1, AgentStepKeeps
  <2>2. CASE (AgentClears \/ AgentRecovers \/ AgentCleared) /\ UNCHANGED projectVars
    BY <2>2, AgentClearKeeps DEF projectVars
  <2>3. CASE \E r \in Roots : Opens(r) /\ UNCHANGED agentVars
    BY <2>3 DEF AInv, Opens, AgentTypeOK, AgentNeverLockedOut, Executing,
       ClearReachesProjectCode
  <2>4. CASE Restarts /\ AgentRestarted
    <3>1. \A c \in AgentCalls : agentAt'[c] \in {"idle", "done"}
      BY <2>4 DEF AgentRestarted
    <3>2. Executing' = {} /\ Cardinality({}) = 0
      BY <3>1, FS_EmptySet DEF Executing
    <3>3. AgentTypeOK'
      <4>1. agentAt' \in [AgentCalls -> AgentPhase]
        BY <2>4 DEF AgentPhase, AgentRestarted
      <4>2. agentPreviews' \subseteq AgentCalls /\ agentTokens' \subseteq AgentCalls
        BY <2>4 DEF AgentRestarted
      <4>3. agentInFlight' \in Int
        BY <2>4 DEF AgentRestarted
      <4>4. agentShared' \in BOOLEAN
        BY <2>4 DEF AgentRestarted
      <4>5. /\ activeAgentPid' = None /\ agentDoomed' = None
            /\ agentClearing' \in {"no", "ending", "recovering"}
            /\ UNCHANGED <<agentRoot, agentEpochOf, agentEpoch>>
        BY <2>4 DEF AgentRestarted
      <4> QED BY <4>1, <4>2, <4>3, <4>4, <4>5 DEF AInv, AgentTypeOK
    <3>4. ProjectCodes \subseteq AgentCalls
      BY DEF AgentCalls
    <3> QED BY <2>4, <3>1, <3>2, <3>3, <3>4
            DEF AInv, Restarts, AgentRestarted, AgentNeverLockedOut, ClearReachesProjectCode
  <2>5. CASE UNCHANGED <<projectVars, agentVars>>
    BY <2>5 DEF AInv, projectVars, AgentTypeOK, AgentNeverLockedOut, Executing,
       ClearReachesProjectCode
  <2> QED BY <2>1, <2>2, <2>3, <2>4, <2>5 DEF AgentNext
<1> QED BY <1>1, AgentStarts, PTL DEF AgentSpec

(* The count of the agent's executions stays between zero and what will    *)
(* lower it, for any number of calls, clears, switches and restarts        *)
(* (inFlight of agentExecution.cts).                                       *)
THEOREM AgentNotLockedOut == AgentSpec => []AgentNeverLockedOut
<1>1. AInv => AgentNeverLockedOut
  BY DEF AInv
<1> QED BY <1>1, AgentInvariant, PTL

(* No clear misses project code that began alone, for any number of calls, *)
(* clears, switches and restarts (clearAgentExecutionSession,              *)
(* executeApprovedProjectCode).                                            *)
THEOREM ClearReaches == AgentSpec => []ClearReachesProjectCode
<1>1. AInv => ClearReachesProjectCode
  BY DEF AInv
<1> QED BY <1>1, AgentInvariant, PTL
==============================================================================
