--------------------------- MODULE MCProjectSession ---------------------------
(***************************************************************************)
(* A small instance of ProjectSession.  The parts meet in openRoot, in the *)
(* order of a switch and in restarts only, so in each behaviour one part   *)
(* is at work, and the switches, closed windows and restarts come between  *)
(* any two of its steps.                                                   *)
(***************************************************************************)
EXTENDS ProjectSession, TLC

CONSTANTS
  First,        \* the project opened first; it may have a manifest
  MaxOutside    \* bound, for the index: switches, changes of files, failing stats
                \* and reads and a rescan under way together

Cleared == {"branch", "worktree", "agent"}   \* the parts a switch clears

VARIABLE focus  \* the part at work

mcVars == <<sessionVars, focus>>

MCInit ==
  /\ SessionInit
  /\ \A r \in Roots \ {First} : manifest[r] = None
  /\ focus \in {"edits", "index", "checkpoint", "branch", "worktree", "agent"}
  /\ focus # "index" => manifest[First] = None

\* What a flush finds shows when it ends only: unless a file changes between its
\* stats, the jobs may as well go on before them or after them.  At most one does,
\* as it took another change to begin the flush: no behaviour is lost.
StatsFirst ==
  (\E k \in Flushes : flush[k].todo # {}) => flush' # flush \/ disk' # disk

\* The files of a project without a manifest may as well have changed before it
\* is opened.
ChangesSeen ==
  \A r \in Roots :
    disk'[r] # disk[r] => manifest[r] # None \/ \E j \in Jobs : job[j].root = r

PartStep ==
  \/ focus = "edits" /\ Edit
  \/ focus = "index" /\ Index /\ StatsFirst /\ ChangesSeen
  \/ focus = "checkpoint" /\ Checkpoint
  \/ focus = "branch" /\ Branch
  \/ focus = "worktree" /\ Worktree
  \/ focus = "agent" /\ Agent

\* The steps of a switch, up to the one that opens, show in the sessions it
\* clears only: with these idle they are taken as one.  The first switch finds
\* all of them so, as nothing is called before a project is open.
SwitchAtOnce(w, r) ==
  /\ switchAt[w] = "idle"
  /\ \A earlier \in 1..(w - 1) : switchAt[earlier] # "idle"
  /\ SwitchGoes(w, "done")
  /\ switchRoot' = [switchRoot EXCEPT ![w] = r]
  /\ Opens(r) /\ EditsOpened /\ IndexOpened(r)
  /\ UNCHANGED <<ckptVars, branchVars, wtVars, agentVars, switchHistory>>

\* A clear of a session with nothing at work ends before anything else is done:
\* it commutes with the steps of the part at work.
ClearsAtRest ==
  \/ focus # "branch" /\ branchClearing
  \/ focus # "worktree" /\ wtClearing
  \/ focus # "agent" /\ agentClearing # "no"

MCNext ==
  /\ \/ ClearsAtRest /\ (BranchClearEnds \/ WorktreeClearEnds \/ AgentClearGoes)
     \/ /\ ~ClearsAtRest
        /\ \/ PartStep
           \/ /\ focus \in Cleared
              /\ switchAt[1] # "idle"
              /\ Switch \/ (focus # "worktree" /\ WindowClosed)
           \/ \E w \in Switches, r \in Roots :
                /\ focus \in Cleared => w = 1
                /\ focus = "checkpoint" => w < MaxSwitches
                /\ SwitchAtOnce(w, r)
           \/ focus \in {"edits", "checkpoint"} /\ SessionRestarts
  /\ switchRoot'[1] \in {First, None}
  /\ UNCHANGED focus

\* Sound: every property of the instance is an invariant.
Alike == Permutations(Creates)

MCSpec == MCInit /\ [][MCNext]_mcVars

\* Nothing is said of the index once it has crossed.
UntilCrossed == focus = "index" => ~crossed

\* Nor is anything said of what it serves once all of the files are missed.
UntilMissed ==
  focus = "index" /\ indexRoot # None /\ currentScan # None =>
    \E f \in Files : <<indexRoot, f>> \notin missed

\* The switches, the changes of files, the failing stats and reads and the rescan
\* under way that meet the jobs of the index.
FewOutside ==
  focus = "index" =>
    LET rescans == {j \in Jobs : /\ job[j].kind = "scan" /\ ~job[j].validates
                                 /\ currentScan # None}
    IN  Cardinality({w \in Switches : switchAt[w] # "idle"}) + Cardinality(rescans) + changes
          <= MaxOutside

\* Calls of a kind are interchangeable: numbered in the order they come.
InTurn ==
  /\ \A e, f \in Edits : e < f /\ editAt[e] = "idle" => editAt[f] = "idle"
  /\ \A u, v \in Undos : u < v /\ undoAt[u] = "idle" => undoAt[v] = "idle"
  /\ \A s, t \in Saves : s < t /\ callAt[s] = "idle" => callAt[t] = "idle"
  /\ \A b, c \in BranchCalls : b < c /\ branchAt[b] = "idle" => branchAt[c] = "idle"
==============================================================================
