----------------------------- MODULE OpenProject -----------------------------
(***************************************************************************)
(* The one project Studio has open: projectRoot of electron/main.cts and   *)
(* activeRoot of electron/projectWriteCoordinator.cts.  A switch writes    *)
(* both, and clears the edit store and starts the index, in one turn of    *)
(* the event loop (electron/projectActivate.cts), so one variable stands   *)
(* for both.                                                               *)
(***************************************************************************)
EXTENDS Naturals

CONSTANTS
  Roots,        \* projects
  None,         \* null
  MaxRestarts,  \* bound: how often the process ends and is started again
  MaxClears     \* bound: how often a git session is cleared

ASSUME ProjectAssumption ==
  /\ None \notin Roots
  /\ MaxRestarts \in Nat
  /\ MaxClears \in Nat

VARIABLES
  openRoot,     \* the open project, or None
  restarts

projectVars == <<openRoot, restarts>>

ProjectInit == openRoot = None /\ restarts = 0

\* The end of switchProjectRoot: r is the open project from here on.
Opens(r) ==
  /\ openRoot' = r
  /\ UNCHANGED restarts

\* The process ends, by a quit or a crash, and is started again.
Restarts ==
  /\ restarts < MaxRestarts
  /\ restarts' = restarts + 1
  /\ openRoot' = None

ProjectTypeOK ==
  /\ openRoot \in Roots \cup {None}
  /\ restarts \in 0..MaxRestarts
==============================================================================
