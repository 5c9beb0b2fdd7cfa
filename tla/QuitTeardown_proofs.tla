------------------------- MODULE QuitTeardown_proofs -------------------------
(***************************************************************************)
(* Proofs about QuitTeardown: what is proved of the preview holds under    *)
(* the coordinator too, and a quiet quit leaves nothing behind.            *)
(***************************************************************************)
EXTENDS QuitTeardown, PreviewLifecycle_proofs

(* A step of Studio is a step of the preview or leaves it alone.           *)
LEMMA StepOfPreview == [QuitNext]_allVars => [Next]_vars
<1> SUFFICES ASSUME [QuitNext]_allVars
             PROVE  [Next]_vars
  OBVIOUS
<1>1. CASE PreviewStep
  BY <1>1 DEF PreviewStep, Next
<1>2. ASSUME NEW q \in Stops, LastWindowClosed(q)
      PROVE  Next
  BY <1>2 DEF LastWindowClosed, Next
<1>3. CASE Intercept
  BY <1>3, QuitAssumption DEF Intercept, Next
<1> QED
  BY <1>1, <1>2, <1>3
  DEF QuitNext, OpenTerminal, EndTeardown, Exits, allVars

(* Under the coordinator the preview behaves as PreviewLifecycle says, so  *)
(* what is proved there holds here.                                        *)
THEOREM PreviewUnderQuit == QuitSpec => Spec
<1>1. QuitInit => Init
  BY DEF QuitInit
<1> QED
  BY <1>1, StepOfPreview, PTL DEF QuitSpec, Spec

-----------------------------------------------------------------------------
(* Once a quiet quit has begun, nothing new runs; once its stop has        *)
(* returned, nothing does.                                                 *)
Closing ==
  /\ quiet => Pending = {} /\ alive \subseteq ran[QuitStop]
  /\ teardown = "none" => stopPhase[QuitStop] = "idle" /\ ~quiet
  /\ teardown = "done" =>
       terminals = {} /\ (~timedOut => stopPhase[QuitStop] = "returned")
  /\ allowQuit \/ exited => teardown = "done"
  /\ teardown \in {"none", "waiting", "done"}
  /\ quiet \in BOOLEAN

LEMMA ClosingStep ==
  ASSUME TypeOK, TypeOK', Closing, [QuitNext]_allVars
  PROVE  Closing'
<1> USE DEF Npm, Server
<1> USE QuitAssumption
<1>1. ASSUME NEW s \in Starts, StartStep(s), quiet' = (quiet /\ phase[s] # "idle"),
             UNCHANGED <<teardown, allowQuit, terminals, exited, timedOut>>
      PROVE  Closing'
  <2>1. UNCHANGED <<stopPhase, ran>>
    BY <1>1 DEF StartStep, Refuse, Start, Prepare, NoFreePort, Spawn, ServerUp,
                Ready, Done, Timeout, Fail, Exit, SpawnError, Close, callVars
  <2>2. CASE ~quiet'
    BY <1>1, <2>1, <2>2 DEF Closing, callVars
  <2>3. CASE quiet'
    <3>1. quiet /\ phase[s] # "idle" /\ Pending = {} /\ s \notin Pending
      BY <1>1, <2>3 DEF Closing
    <3>2. UNCHANGED phase /\ alive' \subseteq alive
      BY <1>1, <3>1 DEF StartStep, Refuse, Start, Prepare, NoFreePort, Spawn, ServerUp,
         Ready, Timeout, Exit, SpawnError, Close, Pending
    <3> QED
      BY <1>1, <2>1, <3>1, <3>2 DEF Closing, callVars, Pending
  <2> QED
    BY <2>2, <2>3
<1>2. ASSUME NEW q \in Stops \ {QuitStop}, NEW scope \in Starts \cup {None},
             Stop(q, scope), terminals' \in {terminals, {}},
             UNCHANGED <<teardown, allowQuit, exited, timedOut, quiet>>
      PROVE  Closing'
  BY <1>2 DEF Stop, Closing, Pending, TypeOK
<1>3. CASE StopEnds /\ UNCHANGED quitVars
  BY <1>3 DEF StopEnds, Released, Closing, Pending, TypeOK, quitVars
<1>4. CASE Intercept
  <2>1. alive' \subseteq ran'[QuitStop] /\ (quiet' => Pending' = {})
    BY <1>4 DEF Intercept, Stop, Pending, TypeOK
  <2> QED
    BY <1>4, <2>1 DEF Intercept, Closing
<1>5. CASE EndTeardown
  BY <1>5 DEF EndTeardown, StopOrTimeout, Closing, Pending, vars, callVars
<1>6. ASSUME NEW t \in Terminals, OpenTerminal(t)
      PROVE  Closing'
  BY <1>6 DEF OpenTerminal, Closing, Pending, vars, callVars
<1>7. CASE Exits
  BY <1>7 DEF Exits, Closing, Pending, vars, callVars
<1>8. CASE UNCHANGED allVars
  BY <1>8 DEF allVars, quitVars, Closing, Pending, vars, callVars
<1> QED
  BY <1>1, <1>2, <1>3, <1>4, <1>5, <1>6, <1>7, <1>8
  DEF QuitNext, PreviewStep, LastWindowClosed, quitVars

(* No terminal outlives Studio, and a quit with no start pending whose     *)
(* stop comes before the timer leaves no preview process, not even a       *)
(* server whose npm has died, unless two starts were before their spawns   *)
(* together since the preview last came to rest                            *)
(* (createQuitTeardownCoordinator).                                        *)
THEOREM QuitLeavesNothing ==
  ASSUME NpmOutlives
  PROVE  QuitSpec => []ExitLeavesNothing
<1>1. QuitInit => Closing
  BY QuitAssumption DEF QuitInit, Init, Closing
<1>2. TypeOK /\ TypeOK' /\ Closing /\ [QuitNext]_allVars => Closing'
  BY ClosingStep
<1>3. Closing /\ StopEndsWhatRan => ExitLeavesNothing
  BY QuitAssumption DEF Closing, StopEndsWhatRan, ExitLeavesNothing
<1>4. QuitSpec => []StopEndsWhatRan
  BY StopEndsAll, PreviewUnderQuit
<1> QED
  BY <1>1, <1>2, <1>3, <1>4, TypeCorrect, PreviewUnderQuit, PTL DEF QuitSpec
-----------------------------------------------------------------------------
(* A quit comes to its end.  Liveness itself stays with TLC; what is shown *)
(* here is that a quit has three steps, each of which leads to the next,   *)
(* and that nothing the preview or the windows do adds to them.            *)

QuitStep == Intercept \/ EndTeardown \/ Exits

QuitStepsLeft ==
  CASE teardown = "none"              -> 3
    [] teardown = "waiting"           -> 2
    [] teardown = "done" /\ ~exited   -> 1
    [] OTHER                          -> 0

\* The quit that is resumed is let through, and no other.
LetThrough ==
  /\ teardown \in {"none", "waiting", "done"}
  /\ allowQuit <=> teardown = "done"
  /\ exited => allowQuit

(* A quit takes three steps whatever starts, stops and terminals come      *)
(* between, it is intercepted once, and when its teardown has ended,       *)
(* whether by the stop or by the timer, the resumed quit is let through    *)
(* (teardownStarted, allowQuit, runTeardown).                              *)
THEOREM QuitIsBounded ==
  QuitSpec => /\ []LetThrough
              /\ [](QuitStepsLeft = 0 <=> exited)
              /\ [][\/ QuitStep /\ QuitStepsLeft' = QuitStepsLeft - 1
                    \/ ~QuitStep /\ QuitStepsLeft' = QuitStepsLeft]_allVars
<1>1. QuitInit => LetThrough
  BY DEF QuitInit, LetThrough
<1>2. LetThrough => (QuitStepsLeft = 0 <=> exited)
  BY DEF LetThrough, QuitStepsLeft
<1>3. ASSUME LetThrough, QuitStep
      PROVE  LetThrough' /\ QuitStepsLeft' = QuitStepsLeft - 1
  <2>1. CASE Intercept
    BY <1>3, <2>1 DEF Intercept, LetThrough, QuitStepsLeft
  <2>2. CASE EndTeardown
    BY <1>3, <2>2 DEF EndTeardown, LetThrough, QuitStepsLeft
  <2>3. CASE Exits
    BY <1>3, <2>3 DEF Exits, LetThrough, QuitStepsLeft
  <2> QED BY <1>3, <2>1, <2>2, <2>3 DEF QuitStep
<1>4. ASSUME LetThrough, [QuitNext]_allVars, ~QuitStep
      PROVE  LetThrough' /\ QuitStepsLeft' = QuitStepsLeft
  <2>1. UNCHANGED <<teardown, allowQuit, exited>>
    BY <1>4 DEF QuitNext, QuitStep, PreviewStep, OpenTerminal, LastWindowClosed, allVars,
      quitVars
  <2> QED BY <1>4, <2>1 DEF LetThrough, QuitStepsLeft
<1>5. LetThrough /\ [QuitNext]_allVars => LetThrough'
  BY <1>3, <1>4
<1>6. LetThrough /\ [QuitNext]_allVars =>
        [\/ QuitStep /\ QuitStepsLeft' = QuitStepsLeft - 1
         \/ ~QuitStep /\ QuitStepsLeft' = QuitStepsLeft]_allVars
  BY <1>3, <1>4
<1> QED BY <1>1, <1>2, <1>5, <1>6, PTL DEF QuitSpec
==============================================================================
