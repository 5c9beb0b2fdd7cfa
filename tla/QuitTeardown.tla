----------------------------- MODULE QuitTeardown -----------------------------
(***************************************************************************)
(* Leaving Studio: the coordinator of electron/quitTeardown.cts, which     *)
(* main.cts puts in the way of before-quit and will-quit, together with    *)
(* the preview it stops and the terminals it destroys.  The preview goes   *)
(* on as PreviewLifecycle has it while the teardown waits.                 *)
(***************************************************************************)
EXTENDS PreviewLifecycle

CONSTANTS
  QuitStop,     \* the teardown's own call of stopPreviewAsync
  Terminals     \* terminals that may be open

ASSUME QuitAssumption == QuitStop \in Stops

VARIABLES
  teardown,     \* "none", "waiting" or "done": teardownStarted, teardownPromise
  allowQuit,
  terminals,    \* terminals with a live shell
  exited,       \* the process has ended
  timedOut,     \* history: the teardown did not wait for the stop
  quiet         \* history: no start was pending at the quit, nor called since

quitVars == <<teardown, allowQuit, terminals, exited, timedOut, quiet>>
allVars == <<vars, quitVars>>

QuitInit ==
  /\ Init
  /\ teardown = "none"
  /\ allowQuit = FALSE
  /\ terminals = {}
  /\ exited = FALSE
  /\ timedOut = FALSE
  /\ quiet = FALSE

\* The preview's own steps, without the stop that is the teardown's.
PreviewStep ==
  /\ ~exited
  /\ \/ StopEnds /\ UNCHANGED quiet
     \/ \E s \in Starts : StartStep(s) /\ quiet' = (quiet /\ phase[s] # "idle")
     \/ \E q \in Stops \ {QuitStop}, scope \in Starts \cup {None} :
          Stop(q, scope) /\ UNCHANGED quiet
  /\ UNCHANGED <<teardown, allowQuit, terminals, exited, timedOut>>

OpenTerminal(t) ==
  /\ teardown # "done"
  /\ t \notin terminals
  /\ terminals' = terminals \cup {t}
  /\ UNCHANGED <<vars, teardown, allowQuit, exited, timedOut, quiet>>

\* On macOS the last window closes without a quit.
LastWindowClosed(q) ==
  /\ teardown = "none"
  /\ q # QuitStop
  /\ Stop(q, None)
  /\ terminals' = {}
  /\ UNCHANGED <<teardown, allowQuit, exited, timedOut, quiet>>

\* intercept: the first event begins the teardown, later ones are swallowed.
Intercept ==
  /\ ~allowQuit
  /\ teardown = "none"
  /\ Stop(QuitStop, None)
  /\ teardown' = "waiting"
  /\ quiet' = (Pending = {})
  /\ UNCHANGED <<allowQuit, terminals, exited, timedOut>>

\* Seeded fault: there is no timer.
StopOrTimeout_noTimer == stopPhase[QuitStop] = "returned" /\ UNCHANGED timedOut

\* Promise.race of the stop and the timer.
StopOrTimeout ==
  \/ stopPhase[QuitStop] = "returned" /\ UNCHANGED timedOut
  \/ timedOut' = TRUE

\* Seeded fault: terminals are left to the operating system.
EndTeardown_keepsTerminals ==
  /\ teardown = "waiting"
  /\ StopOrTimeout
  /\ allowQuit' = TRUE
  /\ teardown' = "done"
  /\ UNCHANGED <<vars, terminals, exited, quiet>>

\* The rest of runTeardown: terminals go, quit is let through and resumed.
EndTeardown ==
  /\ teardown = "waiting"
  /\ StopOrTimeout
  /\ terminals' = {}
  /\ allowQuit' = TRUE
  /\ teardown' = "done"
  /\ UNCHANGED <<vars, exited, quiet>>

\* The resumed quit is not intercepted; the main process ends.
Exits ==
  /\ allowQuit
  /\ ~exited
  /\ exited' = TRUE
  /\ UNCHANGED <<vars, teardown, allowQuit, terminals, timedOut, quiet>>

QuitNext ==
  \/ PreviewStep
  \/ \E t \in Terminals : OpenTerminal(t)
  \/ \E q \in Stops : LastWindowClosed(q)
  \/ Intercept
  \/ EndTeardown
  \/ Exits

QuitSpec == QuitInit /\ [][QuitNext]_allVars

\* The timer fires and the event loop turns; nothing is assumed of the stop.
FairQuitSpec ==
  /\ QuitSpec
  /\ WF_allVars(EndTeardown)
  /\ WF_allVars(Exits)
-----------------------------------------------------------------------------
(* Properties.                                                             *)

(* Studio leaves no terminal behind, and no preview process either if no   *)
(* start was pending and the stop came before the timer: "await            *)
(* Studio-managed preview teardown, stop terminals" (quitTeardown.cts).    *)
(* A quit that joins a stop in flight does not stop a preview which two    *)
(* overlapping starts have left beside that stop (see SinglePreview).      *)
ExitLeavesNothing ==
  exited => /\ terminals = {}
            /\ quiet /\ ~timedOut /\ ~overlapped => alive = {}

(* A quit ends the process even if the preview's stop never settles        *)
(* (QUIT_TEARDOWN_TIMEOUT_MS).                                             *)
QuitCompletes == (teardown = "waiting") ~> exited
==============================================================================
