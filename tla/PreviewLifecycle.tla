--------------------------- MODULE PreviewLifecycle ---------------------------
(***************************************************************************)
(* The preview server of a generated application                           *)
(* (electron/greenfield/preview.cts): starting it, which stops the one     *)
(* before, finding out that it serves, and stopping it with the processes  *)
(* it has spawned (electron/processTree.cts).  Each start is a call with   *)
(* awaits in it; other starts, stops and the events of child processes     *)
(* come in between.                                                        *)
(*                                                                         *)
(* A start stands for its call, for the generation it belongs to and for   *)
(* its child process, "npm", which spawns one "server".                    *)
(***************************************************************************)
EXTENDS Naturals

CONSTANTS
  Starts,       \* calls of startPreview
  Stops,        \* calls of stopPreviewAsync by a user, a switch, a cancel
  None,         \* null
  LosesNpm,     \* phases of a start in which npm may die and its server live on
  LateClose     \* whether a close event may come after the next spawn

Phase == {"idle", "awaitStop", "prepare", "pickPort", "starting", "ready", "failed"}

ASSUME PreviewAssumption ==
  /\ None \notin Starts
  /\ LosesNpm \subseteq Phase
  /\ LateClose \in BOOLEAN

VARIABLES
  phase,        \* [Starts -> Phase]: where each start is
  spawned,      \* processes that have run, as <<start, role>>
  alive,        \* processes that run
  child,        \* [Starts -> {"none", "open", "closed"}]: whether the child has been
                \* made, and its "close" event handled
  previewProc,  \* the start whose child the module holds, or None
  tracked,      \* previewTreePids
  previewUrl,   \* the start whose URL is shown, or None
  previewScope, \* the generation the preview belongs to, or None
  stopping,     \* the processes the stop in flight terminates
  stopInFlight, \* a stop is in flight
  cancelled,    \* generations the user stopped
  stopPhase,    \* [Stops -> {"idle", "waiting", "returned"}]
  ran,          \* history: the processes that ran when a stop was called
  called,       \* history: the starts called before a stop, for what it stops
  overlapped    \* history: a start was called while another had not made its
                \* child, and something of that time may still be about

stopVars == <<previewProc, tracked, previewUrl, previewScope, stopping, stopInFlight>>
callVars == <<cancelled, stopPhase, ran, called, overlapped>>
vars == <<phase, spawned, alive, child, stopVars, callVars>>

Npm(s) == <<s, "npm">>
Server(s) == <<s, "server">>
Processes == Starts \X {"npm", "server"}

Childless == {s \in Starts : phase[s] \in {"awaitStop", "prepare", "pickPort"}}
Pending == {s \in Starts : phase[s] \in {"awaitStop", "prepare", "pickPort", "starting"}}

Init ==
  /\ phase = [s \in Starts |-> "idle"]
  /\ spawned = {}
  /\ alive = {}
  /\ child = [s \in Starts |-> "none"]
  /\ previewProc = None
  /\ tracked = {}
  /\ previewUrl = None
  /\ previewScope = None
  /\ stopping = {}
  /\ stopInFlight = FALSE
  /\ cancelled = {}
  /\ stopPhase = [q \in Stops |-> "idle"]
  /\ ran = [q \in Stops |-> {}]
  /\ called = [q \in Stops |-> {}]
  /\ overlapped = FALSE

-----------------------------------------------------------------------------
(* Stopping.                                                               *)

\* The processes below a set of them: children of the dead are not found.
Expand(P) ==
  P \cup {p \in alive : \E s \in Starts : p = Server(s) /\ Npm(s) \in P \cap alive}

\* Seeded faults: a tree is remembered without its descendants, or a child
\* that could not be spawned is.
Remembered_childOnly(pids, p) ==
  IF p = None \/ Npm(p) \notin spawned THEN pids ELSE pids \cup {Npm(p)}

Remembered_noPid(pids, p) == IF p = None THEN pids ELSE pids \cup {Npm(p)}

\* rememberPreviewTree; a child that could not be spawned has no pid.
Remembered(pids, p) ==
  IF p = None \/ Npm(p) \notin spawned THEN pids ELSE pids \cup Expand({Npm(p)})

\* stopPreviewAsync up to its first await: a stop in flight is joined, an idle
\* module only forgets its URL, else the tracked processes go to the new stop.
StopNow ==
  \/ /\ stopInFlight
     /\ UNCHANGED stopVars
  \/ /\ ~stopInFlight /\ previewProc = None /\ tracked = {}
     /\ previewUrl' = None
     /\ UNCHANGED <<previewProc, tracked, previewScope, stopping, stopInFlight>>
  \/ /\ ~stopInFlight /\ ~(previewProc = None /\ tracked = {})
     /\ stopping' = Expand(Remembered(tracked, previewProc))
     /\ tracked' = {}
     /\ previewProc' = None
     /\ previewUrl' = None
     /\ previewScope' = None
     /\ stopInFlight' = TRUE

\* The stop in flight settles: whoever awaits it goes on.
Released ==
  /\ stopping' = {}
  /\ stopInFlight' = FALSE
  /\ phase' = [s \in Starts |-> IF phase[s] = "awaitStop" THEN "prepare" ELSE phase[s]]
  /\ stopPhase' = [q \in Stops |-> IF stopPhase[q] = "waiting" THEN "returned"
                                                              ELSE stopPhase[q]]

\* Seeded fault: the stop settles once the signals are sent.
StopEnds_early ==
  /\ stopInFlight
  /\ Released
  /\ UNCHANGED <<spawned, alive, child, previewProc, tracked, previewUrl,
                 previewScope, cancelled, ran, called, overlapped>>

\* finalizePreviewStop is over: SIGTERM or SIGKILL has ended the processes.
StopEnds ==
  /\ stopInFlight
  /\ alive' = alive \ stopping
  /\ Released
  /\ UNCHANGED <<spawned, child, previewProc, tracked, previewUrl, previewScope,
                 cancelled, ran, called, overlapped>>

\* Stop everything (None), or one generation: stopPreviewIfMatchesScope.
Stop(q, scope) ==
  LET hit == scope \in {None, previewScope}
  IN  /\ stopPhase[q] = "idle"
      /\ IF hit THEN StopNow ELSE UNCHANGED stopVars
      /\ stopPhase' = [stopPhase EXCEPT ![q] =
                         IF hit /\ stopInFlight' THEN "waiting" ELSE "returned"]
      /\ ran' = [ran EXCEPT ![q] = IF hit THEN alive ELSE {}]
      /\ called' = [called EXCEPT ![q] =
                      {s \in Starts : phase[s] # "idle" /\ scope \in {None, s}}]
      /\ cancelled' = IF scope = None THEN cancelled ELSE cancelled \cup {scope}
      /\ UNCHANGED <<phase, spawned, alive, child, overlapped>>

-----------------------------------------------------------------------------
(* Starting.                                                               *)

\* The generation was stopped before.
Refuse(s) ==
  /\ phase[s] = "idle"
  /\ s \in cancelled
  /\ phase' = [phase EXCEPT ![s] = "failed"]
  /\ UNCHANGED <<spawned, alive, child, stopVars, callVars>>

\* Nothing holds a start up while another is under way.  The history ends with
\* a start that finds no trace of the overlap: no process, no stop in flight.
Start(s) ==
  /\ phase[s] = "idle"
  /\ s \notin cancelled
  /\ StopNow
  /\ phase' = [phase EXCEPT ![s] = IF stopInFlight' THEN "awaitStop" ELSE "prepare"]
  /\ overlapped' = (Childless # {} \/ (overlapped /\ (stopInFlight \/ alive # {})))
  /\ UNCHANGED <<spawned, alive, child, cancelled, stopPhase, ran, called>>

\* The module's state now belongs to this start; a missing preview script or
\* dist folder ends it.
Prepare(s) ==
  /\ phase[s] = "prepare"
  /\ previewScope' = s
  /\ \E next \in {"pickPort", "failed"} : phase' = [phase EXCEPT ![s] = next]
  /\ UNCHANGED <<spawned, alive, child, previewProc, tracked, previewUrl, stopping,
                 stopInFlight, callVars>>

NoFreePort(s) ==
  /\ phase[s] = "pickPort"
  /\ phase' = [phase EXCEPT ![s] = "failed"]
  /\ UNCHANGED <<spawned, alive, child, stopVars, callVars>>

\* Seeded fault: the new child's tree takes the place of what was tracked.
Spawn_replaces(s) ==
  /\ phase[s] = "pickPort"
  /\ phase' = [phase EXCEPT ![s] = "starting"]
  /\ previewProc' = s
  /\ spawned' = spawned \cup {Npm(s)}
  /\ alive' = alive \cup {Npm(s)}
  /\ tracked' = {Npm(s)}
  /\ child' = [child EXCEPT ![s] = "open"]
  /\ UNCHANGED <<previewUrl, previewScope, stopping, stopInFlight, callVars>>

\* The port is picked and probed: no second look at the scope or at who else
\* has started.  The command may not exist.
Spawn(s) ==
  /\ phase[s] = "pickPort"
  /\ LateClose \/ \A t \in Starts : child[t] = "open" => Npm(t) \in alive
  /\ phase' = [phase EXCEPT ![s] = "starting"]
  /\ previewProc' = s
  /\ \/ /\ spawned' = spawned \cup {Npm(s)}
        /\ alive' = alive \cup {Npm(s)}
        /\ tracked' = tracked \cup {Npm(s)}
     \/ UNCHANGED <<spawned, alive, tracked>>
  /\ child' = [child EXCEPT ![s] = "open"]
  /\ UNCHANGED <<previewUrl, previewScope, stopping, stopInFlight, callVars>>

\* npm, unless it has been told to end, runs the server.
ServerUp(s) ==
  /\ Npm(s) \in alive \ stopping
  /\ Server(s) \notin spawned
  /\ phase[s] = "starting"
  /\ spawned' = spawned \cup {Server(s)}
  /\ alive' = alive \cup {Server(s)}
  /\ UNCHANGED <<phase, child, stopVars, callVars>>

\* done(true): the tree that is remembered is that of the current child.
Done(s) ==
  /\ phase' = [phase EXCEPT ![s] = "ready"]
  /\ previewUrl' = s
  /\ tracked' = Remembered(tracked, previewProc)
  /\ UNCHANGED <<spawned, alive, previewProc, previewScope, stopping, stopInFlight,
                 callVars>>

\* The server's line of output, or its answer to a probe, which may have been
\* on the way for a while.
Ready(s) ==
  /\ phase[s] = "starting"
  /\ Server(s) \in spawned
  /\ Done(s)
  /\ UNCHANGED child

\* fail: the start is over, and the preview is stopped.
Fail(s) ==
  /\ phase' = [phase EXCEPT ![s] = "failed"]
  /\ StopNow
  /\ UNCHANGED <<spawned, alive, callVars>>

\* Seeded fault: the timer that bounds the start is never armed.
Timeout_never(s) == FALSE /\ UNCHANGED vars

Timeout(s) ==
  /\ phase[s] = "starting"
  /\ Fail(s)
  /\ UNCHANGED child

\* Processes of a tree exit by themselves, npm before its server or not.
Exit(s) ==
  /\ \E gone \in (SUBSET {Npm(s), Server(s)}) \ {{}} :
       /\ gone \subseteq alive
       /\ (Npm(s) \in gone /\ Server(s) \in alive \ gone) => phase[s] \in LosesNpm
       /\ alive' = alive \ gone
  /\ UNCHANGED <<phase, spawned, child, stopVars, callVars>>

\* The "error" event of a child that could not be spawned, before its "close".
SpawnError(s) ==
  /\ phase[s] = "starting"
  /\ Npm(s) \notin spawned
  /\ Fail(s)
  /\ UNCHANGED child

\* The child's "close" event: before the start has an answer it decides it,
\* after that it clears previewProc, whoever that is by now.
Close(s) ==
  /\ child[s] = "open"
  /\ Npm(s) \notin alive
  /\ child' = [child EXCEPT ![s] = "closed"]
  /\ \/ phase[s] = "starting" /\ Npm(s) \in spawned /\ (Fail(s) \/ Done(s))
     \/ /\ phase[s] \in {"ready", "failed"}
        /\ tracked' = Remembered(tracked, previewProc)
        /\ previewProc' = None
        /\ UNCHANGED <<phase, spawned, alive, previewUrl, previewScope, stopping,
                       stopInFlight, callVars>>

StartStep(s) ==
  \/ Refuse(s)
  \/ Start(s)
  \/ Prepare(s)
  \/ NoFreePort(s)
  \/ Spawn(s)
  \/ ServerUp(s)
  \/ Ready(s)
  \/ Timeout(s)
  \/ Exit(s)
  \/ SpawnError(s)
  \/ Close(s)

Next ==
  \/ \E s \in Starts : StartStep(s)
  \/ \E q \in Stops, scope \in Starts \cup {None} : Stop(q, scope)
  \/ StopEnds

\* A stop is bounded by its grace periods, a start by its timer.
Fairness ==
  /\ WF_vars(StopEnds)
  /\ \A s \in Starts :
       /\ WF_vars(Prepare(s))
       /\ WF_vars(NoFreePort(s) \/ Spawn(s))
       /\ WF_vars(Timeout(s))

Spec == Init /\ [][Next]_vars
FairSpec == Spec /\ Fairness
-----------------------------------------------------------------------------
(* Properties.                                                             *)

TypeOK ==
  /\ phase \in [Starts -> Phase]
  /\ spawned \subseteq Processes
  /\ alive \subseteq spawned
  /\ child \in [Starts -> {"none", "open", "closed"}]
  /\ previewProc \in Starts \cup {None}
  /\ tracked \subseteq spawned
  /\ previewUrl \in Starts \cup {None}
  /\ previewScope \in Starts \cup {None}
  /\ stopping \subseteq spawned
  /\ stopInFlight \in BOOLEAN
  /\ cancelled \subseteq Starts
  /\ stopPhase \in [Stops -> {"idle", "waiting", "returned"}]
  /\ ran \in [Stops -> SUBSET Processes]
  /\ called \in [Stops -> SUBSET Starts]
  /\ overlapped \in BOOLEAN

(* No process that runs is lost: a stop now, or the one in flight, would   *)
(* find it, whichever starts, stops and events came before                 *)
(* (rememberPreviewTree, takePreviewSnapshot, expandTrackedPids).          *)
NoOrphan == alive \subseteq Expand(tracked) \cup stopping

(* At most one start has processes that are not being stopped: "Single     *)
(* preview at a time" (preview.cts).  It need not be so, until the module  *)
(* has come to rest again, when a start was called while another was still *)
(* before its spawn: startPreview lets both of them spawn.                 *)
SinglePreview ==
  ~overlapped => \A p, r \in alive \ stopping : p[1] = r[1]

(* When a stop returns, no process that ran when it was called still runs, *)
(* also if it joined a stop in flight or npm had died (stopPreviewAsync).  *)
(* After such starts as above, a process may be younger than the stop in   *)
(* flight that a later one joins, and outlive both.                        *)
StopEndsWhatRan ==
  ~overlapped =>
    \A q \in Stops : stopPhase[q] = "returned" => ran[q] \cap alive = {}

(* When a stop has returned, no start called before it has a process: the  *)
(* comment at switchToProjectRoot has the switch wait for the previous     *)
(* preview to settle.                                                      *)
StoppedMeansGone ==
  \A q \in Stops : stopPhase[q] = "returned" =>
    \A s \in called[q] : {Npm(s), Server(s)} \cap alive = {}

(* Every start is answered, whatever its processes do (startTimer).        *)
StartSettles ==
  \A s \in Starts : (s \in Pending) ~> (phase[s] \in {"ready", "failed"})
==============================================================================
