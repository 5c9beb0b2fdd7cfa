----------------------- MODULE PreviewLifecycle_proofs -----------------------
(***************************************************************************)
(* Proofs about PreviewLifecycle for any starts and stops: its type        *)
(* invariant; that no process is ever lost to the module, however starts   *)
(* overlap, as long as npm does not die before its server; and that one    *)
(* preview runs at a time and is stopped whole unless starts have          *)
(* overlapped before their spawns.                                         *)
(***************************************************************************)
EXTENDS PreviewLifecycle, TLAPS

(* The constants and variables have the types they are declared with, in   *)
(* every reachable state.                                                  *)
THEOREM TypeCorrect == Spec => []TypeOK
<1> USE PreviewAssumption
<1>1. Init => TypeOK
  <2> SUFFICES ASSUME Init
               PROVE  TypeOK
    OBVIOUS
  <2>1. child \in [Starts -> {"none", "open", "closed"}]
    BY DEF Init
  <2>2. phase \in [Starts -> Phase]
    BY DEF Init, Phase
  <2> QED
    BY <2>1, <2>2 DEF Init, TypeOK
<1>2. TypeOK /\ [Next]_vars => TypeOK'
  <2> SUFFICES ASSUME TypeOK, [Next]_vars
               PROVE  TypeOK'
    OBVIOUS
  <2> USE DEF TypeOK, Phase, Processes, Npm, Server, stopVars, callVars
  <2>1. \A P \in SUBSET spawned : Expand(P) \subseteq spawned
    BY DEF Expand
  <2>2. \A P \in SUBSET spawned, p \in Starts \cup {None} :
          Remembered(P, p) \subseteq spawned
    BY <2>1 DEF Remembered
  <2>3. ASSUME StopNow
        PROVE  /\ previewProc' \in Starts \cup {None}
               /\ tracked' \subseteq spawned
               /\ previewUrl' \in Starts \cup {None}
               /\ previewScope' \in Starts \cup {None}
               /\ stopping' \subseteq spawned
               /\ stopInFlight' \in BOOLEAN
    BY <2>1, <2>2, <2>3 DEF StopNow
  <2>4. ASSUME NEW s \in Starts, Refuse(s)
        PROVE  TypeOK'
    BY <2>4 DEF Refuse
  <2>5. ASSUME NEW s \in Starts, Start(s)
        PROVE  TypeOK'
    BY <2>5, <2>3 DEF Start
  <2>6. ASSUME NEW s \in Starts, Prepare(s)
        PROVE  TypeOK'
    BY <2>6 DEF Prepare
  <2>7. ASSUME NEW s \in Starts, NoFreePort(s)
        PROVE  TypeOK'
    BY <2>7 DEF NoFreePort
  <2>8. ASSUME NEW s \in Starts, Spawn(s)
        PROVE  TypeOK'
    BY <2>8 DEF Spawn
  <2>9. ASSUME NEW s \in Starts, ServerUp(s)
        PROVE  TypeOK'
    BY <2>9 DEF ServerUp
  <2> DEFINE ChildOK == child' \in [Starts -> {"none", "open", "closed"}]
  <2>10. ASSUME NEW s \in Starts, Done(s), ChildOK
         PROVE  TypeOK'
    BY <2>10, <2>2 DEF Done
  <2>11. ASSUME NEW s \in Starts, Ready(s)
         PROVE  TypeOK'
    BY <2>11, <2>10 DEF Ready
  <2>12. ASSUME NEW s \in Starts, Fail(s), ChildOK
         PROVE  TypeOK'
    BY <2>12, <2>3 DEF Fail
  <2>13. ASSUME NEW s \in Starts, Timeout(s)
         PROVE  TypeOK'
    BY <2>13, <2>12 DEF Timeout
  <2>14. ASSUME NEW s \in Starts, Exit(s)
         PROVE  TypeOK'
    BY <2>14 DEF Exit
  <2>19. ASSUME NEW s \in Starts, SpawnError(s)
         PROVE  TypeOK'
    BY <2>19, <2>12 DEF SpawnError
  <2>15. ASSUME NEW s \in Starts, Close(s)
         PROVE  TypeOK'
    <3>1. ChildOK
      BY <2>15 DEF Close
    <3>2. CASE Fail(s) \/ Done(s)
      BY <3>1, <3>2, <2>10, <2>12
    <3>3. CASE ~(Fail(s) \/ Done(s))
      BY <3>1, <3>3, <2>15, <2>2 DEF Close
    <3> QED
      BY <3>2, <3>3
  <2>16. ASSUME NEW q \in Stops, NEW scope \in Starts \cup {None}, Stop(q, scope)
         PROVE  TypeOK'
    <3>1. UNCHANGED <<phase, spawned, alive, child, overlapped>>
      BY <2>16 DEF Stop
    <3>2. /\ previewProc' \in Starts \cup {None}
          /\ tracked' \subseteq spawned
          /\ previewUrl' \in Starts \cup {None}
          /\ previewScope' \in Starts \cup {None}
          /\ stopping' \subseteq spawned
          /\ stopInFlight' \in BOOLEAN
      BY <2>16, <2>3 DEF Stop
    <3>3. /\ cancelled' \subseteq Starts
          /\ stopPhase' \in [Stops -> {"idle", "waiting", "returned"}]
          /\ ran' \in [Stops -> SUBSET (Starts \X {"npm", "server"})]
          /\ called' \in [Stops -> SUBSET Starts]
      BY <2>16 DEF Stop
    <3> QED
      BY <3>1, <3>2, <3>3
  <2>17. ASSUME StopEnds
         PROVE  TypeOK'
    BY <2>17 DEF StopEnds, Released
  <2>18. CASE UNCHANGED vars
    BY <2>18 DEF vars
  <2> QED
    BY <2>4, <2>5, <2>6, <2>7, <2>8, <2>9, <2>11, <2>13, <2>14, <2>15, <2>16,
       <2>17, <2>18, <2>19
    DEF Next, StartStep
<1> QED
  BY <1>1, <1>2, PTL DEF Spec

-----------------------------------------------------------------------------
(* What holds of the bookkeeping however starts overlap and whatever npm   *)
(* does: a child is made once, a waiting stop has one in flight to wait    *)
(* for, and what a stop remembers has run.                                 *)
Orderly ==
  /\ ~stopInFlight => stopping = {}
  /\ \A s \in Starts :
       /\ child[s] # "none" => phase[s] \in {"starting", "ready", "failed"}
       /\ phase[s] = "starting" => child[s] = "open"
       /\ Npm(s) \in spawned => child[s] # "none"
       /\ Server(s) \in spawned => Npm(s) \in spawned
  /\ \A q \in Stops :
       /\ ran[q] \subseteq spawned
       /\ stopPhase[q] = "waiting" => stopInFlight

\* A stop begins one, or leaves things as they are.
LEMMA StopIsOrderly ==
  ASSUME StopNow, Orderly
  PROVE  /\ ~stopInFlight' => stopping' = {}
         /\ stopInFlight => stopInFlight'
BY DEF StopNow, Orderly, stopVars

LEMMA OrderlyStep ==
  ASSUME TypeOK, TypeOK', Orderly, [Next]_vars
  PROVE  Orderly'
<1> USE DEF Npm, Server
<1>1. ASSUME NEW s \in Starts,
             Refuse(s) \/ Prepare(s) \/ NoFreePort(s) \/ ServerUp(s) \/ Exit(s)
      PROVE  Orderly'
  BY <1>1 DEF Orderly, TypeOK, Refuse, Prepare, NoFreePort, ServerUp, Exit, stopVars, callVars
<1>2. ASSUME NEW s \in Starts, Start(s)
      PROVE  Orderly'
  <2>1. /\ UNCHANGED <<spawned, child, ran, stopPhase>>
        /\ phase[s] = "idle" /\ \A t \in Starts \ {s} : phase'[t] = phase[t]
        /\ phase'[s] \in {"awaitStop", "prepare"}
    BY <1>2 DEF Start, TypeOK
  <2>2. StopNow
    BY <1>2 DEF Start
  <2> QED
    BY <2>1, <2>2, StopIsOrderly DEF Orderly
<1>3. ASSUME NEW s \in Starts, Spawn(s)
      PROVE  Orderly'
  BY <1>3 DEF Spawn, Orderly, TypeOK, callVars
<1>4. ASSUME NEW s \in Starts, phase[s] = "starting", Done(s),
             child' \in {child, [child EXCEPT ![s] = "closed"]}
      PROVE  Orderly'
  BY <1>4 DEF Done, Orderly, TypeOK, callVars
<1>5. ASSUME NEW s \in Starts, phase[s] = "starting", Fail(s),
             child' \in {child, [child EXCEPT ![s] = "closed"]}
      PROVE  Orderly'
  <2>1. /\ UNCHANGED <<spawned, ran, stopPhase>>
        /\ \A t \in Starts : phase'[t] = IF t = s THEN "failed" ELSE phase[t]
    BY <1>5 DEF Fail, TypeOK, callVars
  <2>2. StopNow
    BY <1>5 DEF Fail
  <2>3. \A t \in Starts : /\ child'[t] # "none" <=> child[t] # "none"
                          /\ t # s => child'[t] = child[t]
    BY <1>5 DEF Orderly, TypeOK
  <2> QED
    BY <1>5, <2>1, <2>2, <2>3, StopIsOrderly DEF Orderly
<1>6. ASSUME NEW s \in Starts, Close(s)
      PROVE  Orderly'
  <2>1. child' = [child EXCEPT ![s] = "closed"]
    BY <1>6 DEF Close
  <2>2. CASE phase[s] = "starting"
    BY <1>6, <2>1, <2>2, <1>4, <1>5 DEF Close
  <2>3. CASE phase[s] # "starting"
    BY <1>6, <2>3 DEF Close, Orderly, TypeOK, callVars
  <2> QED
    BY <2>2, <2>3
<1>7. ASSUME NEW q \in Stops, NEW scope \in Starts \cup {None}, Stop(q, scope)
      PROVE  Orderly'
  <2>1. UNCHANGED <<phase, spawned, alive, child>>
    BY <1>7 DEF Stop
  <2>2. \A r \in Stops :
          /\ ran'[r] \in {ran[r], alive, {}}
          /\ stopPhase'[r] = "waiting" => stopPhase[r] = "waiting" \/ stopInFlight'
    BY <1>7 DEF Stop, TypeOK
  <2>3. StopNow \/ UNCHANGED stopVars
    BY <1>7 DEF Stop
  <2>4. /\ ~stopInFlight' => stopping' = {}
        /\ stopInFlight => stopInFlight'
    BY <2>3, StopIsOrderly DEF Orderly, stopVars
  <2> QED
    BY <2>1, <2>2, <2>4 DEF Orderly, TypeOK
<1>8. CASE StopEnds
  BY <1>8 DEF StopEnds, Released, Orderly, TypeOK
<1>9. CASE UNCHANGED vars
  BY <1>9 DEF vars, Orderly, stopVars, callVars
<1> QED
  BY <1>1, <1>2, <1>3, <1>4, <1>5, <1>6, <1>7, <1>8, <1>9
  DEF Next, StartStep, Ready, Timeout, SpawnError

LEMMA OrderlyAlways == Spec => []Orderly
<1>1. Init => Orderly
  BY DEF Init, Orderly
<1> QED
  BY <1>1, OrderlyStep, TypeCorrect, PTL DEF Spec

-----------------------------------------------------------------------------
(* Whoever holds an npm reaches its server, and a server that has lost its *)
(* npm is held itself.                                                     *)
Held ==
  \A s \in Starts :
    /\ Npm(s) \in alive => Npm(s) \in tracked \cup stopping
    /\ Server(s) \in alive => Npm(s) \in alive \/ Server(s) \in tracked \cup stopping
    /\ Npm(s) \in stopping /\ Server(s) \in alive => Server(s) \in stopping

(* A server whose npm may die is held before it does.                      *)
Covered ==
  \A s \in Starts :
    phase[s] \in LosesNpm /\ Server(s) \in alive => Server(s) \in tracked \cup stopping

(* A stop takes over everything that runs.                                 *)
LEMMA StopHolds ==
  ASSUME TypeOK, Orderly, Held, StopNow, UNCHANGED alive
  PROVE  Held'
<1> USE DEF Npm, Server
<1>1. CASE UNCHANGED stopVars
  BY <1>1 DEF Held, stopVars
<1>2. CASE ~stopInFlight /\ tracked = {} /\ UNCHANGED <<tracked, stopping, stopInFlight>>
  BY <1>2 DEF Held, Orderly
<1>3. CASE /\ ~stopInFlight
           /\ stopping' = Expand(Remembered(tracked, previewProc))
           /\ tracked' = {}
           /\ stopInFlight'
  <2> DEFINE R == Remembered(tracked, previewProc)
  <2>1. tracked \subseteq R
    BY DEF Remembered
  <2>2. \A s \in Starts : Npm(s) \in Expand(R) => Npm(s) \in R
    BY DEF Expand
  <2>3. \A s \in Starts :
          Npm(s) \in R /\ Npm(s) \in alive /\ Server(s) \in alive => Server(s) \in Expand(R)
    BY DEF Expand
  <2>4. R \subseteq Expand(R)
    BY DEF Expand
  <2>5. \A s \in Starts :
          /\ Npm(s) \in alive => Npm(s) \in tracked
          /\ Server(s) \in alive => Npm(s) \in alive \/ Server(s) \in tracked
    BY <1>3 DEF Held, Orderly
  <2> HIDE DEF R
  <2>6. stopping' = Expand(R)
    BY <1>3 DEF R
  <2>7. \A s \in Starts : Npm(s) \in alive => Npm(s) \in stopping'
    BY <2>1, <2>4, <2>5, <2>6
  <2>8. \A s \in Starts : Server(s) \in alive => Server(s) \in stopping'
    BY <2>1, <2>3, <2>4, <2>5, <2>6
  <2> QED
    BY <1>3, <2>7, <2>8 DEF Held
<1> QED
  BY <1>1, <1>2, <1>3 DEF StopNow

(* Remembering a tree forgets none.                                        *)
LEMMA RememberedGrows ==
  ASSUME NEW P, NEW p
  PROVE  P \subseteq Remembered(P, p)
BY DEF Remembered

(* However starts, stops and events interleave, each step keeps what runs  *)
(* within reach.                                                           *)
LEMMA HeldStep ==
  ASSUME TypeOK, TypeOK', Orderly, Held, Covered, [Next]_vars
  PROVE  Held'
<1> USE DEF Npm, Server
<1>1. ASSUME NEW s \in Starts, Refuse(s) \/ Prepare(s) \/ NoFreePort(s)
      PROVE  Held'
  BY <1>1 DEF Held, TypeOK, Refuse, Prepare, NoFreePort, stopVars, callVars
<1>2. ASSUME NEW s \in Starts, Start(s)
      PROVE  Held'
  BY <1>2, StopHolds DEF Start
<1>3. ASSUME NEW s \in Starts, Spawn(s)
      PROVE  Held'
  <2>1. Npm(s) \notin spawned /\ Server(s) \notin alive
    BY <1>3 DEF Spawn, Orderly, TypeOK
  <2>2. Npm(s) \notin stopping
    BY <2>1 DEF TypeOK
  <2>3. /\ stopping' = stopping /\ tracked \subseteq tracked' /\ alive \subseteq alive'
        /\ alive' \subseteq alive \cup {Npm(s)}
        /\ Npm(s) \in alive' => Npm(s) \in alive \cup tracked'
    BY <1>3 DEF Spawn
  <2> QED
    BY <2>1, <2>2, <2>3 DEF Held
<1>4. ASSUME NEW s \in Starts, ServerUp(s)
      PROVE  Held'
  BY <1>4 DEF ServerUp, Held, TypeOK, stopVars, callVars
<1>5. ASSUME NEW s \in Starts, phase[s] = "starting", Done(s)
      PROVE  Held'
  BY <1>5, RememberedGrows DEF Done, Held, TypeOK, callVars
<1>6. ASSUME NEW s \in Starts, phase[s] = "starting", Fail(s)
      PROVE  Held'
  BY <1>6, StopHolds DEF Fail
<1>7. ASSUME NEW s \in Starts, Exit(s)
      PROVE  Held'
  BY <1>7 DEF Exit, Held, Covered, TypeOK, stopVars, callVars
<1>8. ASSUME NEW s \in Starts, Close(s)
      PROVE  Held'
  <2>1. CASE phase[s] = "starting"
    BY <1>8, <2>1, <1>5, <1>6 DEF Close
  <2>2. CASE phase[s] # "starting"
    <3>1. UNCHANGED <<alive, stopping>> /\ tracked' = Remembered(tracked, previewProc)
      BY <1>8, <2>2 DEF Close
    <3> QED
      BY <3>1, RememberedGrows DEF Held
  <2> QED
    BY <2>1, <2>2
<1>9. ASSUME NEW q \in Stops, NEW scope \in Starts \cup {None}, Stop(q, scope)
      PROVE  Held'
  <2>1. UNCHANGED <<phase, spawned, alive>>
    BY <1>9 DEF Stop
  <2>2. CASE StopNow
    BY <2>1, <2>2, StopHolds DEF Held
  <2>3. CASE UNCHANGED stopVars
    BY <2>1, <2>3 DEF Held, stopVars
  <2> QED
    BY <1>9, <2>2, <2>3 DEF Stop
<1>10. ASSUME StopEnds
       PROVE  Held'
  BY <1>10 DEF StopEnds, Released, Held, Orderly, TypeOK
<1>11. CASE UNCHANGED vars
  BY <1>11 DEF vars, Held, stopVars, callVars
<1> QED
  BY <1>1, <1>2, <1>3, <1>4, <1>5, <1>6, <1>7, <1>8, <1>9, <1>10, <1>11
  DEF Next, StartStep, Ready, Timeout, SpawnError

(* A stop finds whatever runs.                                             *)
LEMMA HeldReaches == TypeOK /\ Held => NoOrphan
<1> SUFFICES ASSUME TypeOK, Held, NEW p \in alive
             PROVE  p \in Expand(tracked) \cup stopping
  BY DEF NoOrphan
<1>1. PICK s \in Starts : p = Npm(s) \/ p = Server(s)
  BY DEF TypeOK, Processes, Npm, Server
<1>2. tracked \subseteq Expand(tracked)
  BY DEF Expand
<1>3. CASE p = Npm(s)
  BY <1>2, <1>3 DEF Held
<1>4. CASE p = Server(s)
  <2>1. Npm(s) \in tracked \cap alive => p \in Expand(tracked)
    BY <1>4 DEF Expand
  <2> QED
    BY <1>2, <1>4, <2>1 DEF Held
<1> QED
  BY <1>1, <1>3, <1>4

(* As long as npm does not die before its server, no process that runs is  *)
(* ever out of reach of a stop, for any number of overlapping starts and   *)
(* stops and however late close events come (rememberPreviewTree).         *)
THEOREM NothingLost ==
  ASSUME LosesNpm = {}
  PROVE  Spec => []NoOrphan
<1>1. Init => Held
  BY DEF Init, Held
<1>2. TypeOK /\ TypeOK' /\ Orderly /\ Held /\ [Next]_vars => Held'
  BY HeldStep DEF Covered
<1> QED
  BY <1>1, <1>2, HeldReaches, OrderlyAlways, TypeCorrect, PTL DEF Spec

-----------------------------------------------------------------------------
(* While one start at most is before its spawn, what runs belongs to one   *)
(* start, a stop in flight has all of it, and a start past its stop finds  *)
(* the module empty, whatever earlier starts still wait for an answer.     *)
Alone ==
  /\ \A s, t \in Childless : s = t
  /\ \A s \in Starts : phase[s] = "awaitStop" => stopInFlight
  /\ \A s \in Starts : phase[s] \in {"prepare", "pickPort"} =>
       ~stopInFlight /\ alive = {} /\ tracked = {} /\ previewProc = None
  /\ stopInFlight => alive \subseteq stopping /\ tracked = {} /\ previewProc = None
  /\ \A p, r \in alive : p[1] = r[1]
  /\ \A q \in Stops : stopPhase[q] = "returned" => ran[q] \cap alive = {}

(* A stop has all that runs, or there is nothing.                          *)
LEMMA StopHasAll ==
  ASSUME NoOrphan, Orderly, Alone, StopNow, UNCHANGED <<spawned, alive>>
  PROVE  /\ stopInFlight' => alive \subseteq stopping' /\ tracked' = {} /\ previewProc' = None
         /\ ~stopInFlight' => alive = {} /\ tracked' = {} /\ previewProc' = None
         /\ stopInFlight => stopInFlight'
         /\ \A s \in Starts : phase[s] \in {"prepare", "pickPort"} => ~stopInFlight'
<1>1. CASE stopInFlight /\ UNCHANGED stopVars
  BY <1>1 DEF Alone, stopVars
<1>2. CASE /\ ~stopInFlight /\ previewProc = None /\ tracked = {}
           /\ UNCHANGED <<previewProc, tracked, stopping, stopInFlight>>
  BY <1>2 DEF NoOrphan, Orderly, Expand, Npm
<1>3. CASE /\ ~stopInFlight
           /\ ~(previewProc = None /\ tracked = {})
           /\ stopping' = Expand(Remembered(tracked, previewProc))
           /\ tracked' = {}
           /\ previewProc' = None
           /\ stopInFlight'
  <2>1. alive \subseteq Expand(tracked)
    BY <1>3 DEF NoOrphan, Orderly
  <2>2. tracked \subseteq Remembered(tracked, previewProc)
    BY RememberedGrows
  <2>3. ASSUME NEW P, NEW R, P \subseteq R
        PROVE  Expand(P) \subseteq Expand(R)
    BY <2>3 DEF Expand
  <2> QED
    BY <1>3, <2>1, <2>2, <2>3 DEF Alone
<1> QED
  BY <1>1, <1>2, <1>3 DEF StopNow

(* While starts do not overlap before their spawns, this stays so.         *)
LEMMA AloneStep ==
  ASSUME TypeOK, Orderly, NoOrphan, Alone, ~overlapped', [Next]_vars
  PROVE  Alone'
<1> USE DEF Npm, Server
<1>1. ASSUME NEW s \in Starts, Refuse(s)
      PROVE  Alone'
  BY <1>1 DEF Alone, TypeOK, Childless, Refuse, stopVars, callVars
<1>2. ASSUME NEW s \in Starts, Start(s)
      PROVE  Alone'
  <2>1. /\ Childless = {}
        /\ UNCHANGED <<spawned, alive, ran, stopPhase>>
        /\ StopNow
        /\ phase' = [phase EXCEPT ![s] = IF stopInFlight' THEN "awaitStop" ELSE "prepare"]
    BY <1>2 DEF Start
  <2>2. \A t \in Starts : t # s => phase'[t] = phase[t] /\ t \notin Childless
    BY <2>1 DEF TypeOK
  <2>3. phase'[s] = IF stopInFlight' THEN "awaitStop" ELSE "prepare"
    BY <2>1 DEF TypeOK
  <2> QED
    BY <2>1, <2>2, <2>3, StopHasAll DEF Alone, Childless
<1>3. ASSUME NEW s \in Starts, Prepare(s) \/ NoFreePort(s)
      PROVE  Alone'
  BY <1>3 DEF Alone, TypeOK, Childless, Prepare, NoFreePort, stopVars, callVars
<1>4. ASSUME NEW s \in Starts, Spawn(s)
      PROVE  Alone'
  <2>1. Npm(s) \notin spawned
    BY <1>4 DEF Spawn, Orderly
  <2> QED
    BY <1>4, <2>1 DEF Alone, Orderly, TypeOK, Childless, Spawn, callVars
<1>5. ASSUME NEW s \in Starts, ServerUp(s)
      PROVE  Alone'
  BY <1>5 DEF Alone, Orderly, TypeOK, Childless, ServerUp, stopVars, callVars
<1>6. ASSUME NEW s \in Starts, phase[s] = "starting", Done(s)
      PROVE  Alone'
  BY <1>6 DEF Alone, TypeOK, Childless, Done, Remembered, callVars
<1>7. ASSUME NEW s \in Starts, phase[s] = "starting", Fail(s)
      PROVE  Alone'
  <2>1. /\ UNCHANGED <<spawned, alive, ran, stopPhase>>
        /\ StopNow
        /\ \A t \in Starts : phase'[t] = IF t = s THEN "failed" ELSE phase[t]
    BY <1>7 DEF Fail, TypeOK, callVars
  <2> QED
    BY <1>7, <2>1, StopHasAll DEF Alone, Childless
<1>8. ASSUME NEW s \in Starts, Exit(s)
      PROVE  Alone'
  BY <1>8 DEF Alone, TypeOK, Childless, Exit, stopVars, callVars
<1>9. ASSUME NEW s \in Starts, Close(s)
      PROVE  Alone'
  <2>1. CASE phase[s] = "starting"
    BY <1>9, <2>1, <1>6, <1>7 DEF Close
  <2>2. CASE phase[s] # "starting"
    BY <1>9, <2>2 DEF Close, Alone, TypeOK, Childless, Remembered, callVars
  <2> QED
    BY <2>1, <2>2
<1>10. ASSUME NEW q \in Stops, NEW scope \in Starts \cup {None}, Stop(q, scope)
       PROVE  Alone'
  <2>1. UNCHANGED <<phase, spawned, alive>>
    BY <1>10 DEF Stop
  <2>2. CASE scope \in {None, previewScope}
    <3>1. StopNow
      BY <1>10, <2>2 DEF Stop
    <3>2. \A r \in Stops :
            /\ ran'[r] = IF r = q THEN alive ELSE ran[r]
            /\ stopPhase'[r] = IF r # q THEN stopPhase[r]
                               ELSE IF stopInFlight' THEN "waiting" ELSE "returned"
      BY <1>10, <2>2 DEF Stop, TypeOK
    <3> QED
      BY <2>1, <3>1, <3>2, StopHasAll DEF Alone, Childless, TypeOK
  <2>3. CASE scope \notin {None, previewScope}
    BY <1>10, <2>1, <2>3 DEF Stop, Alone, Childless, TypeOK, stopVars
  <2> QED
    BY <2>2, <2>3
<1>11. ASSUME StopEnds
       PROVE  Alone'
  BY <1>11 DEF StopEnds, Released, Alone, Childless, TypeOK
<1>12. CASE UNCHANGED vars
  BY <1>12 DEF vars, Alone, Childless, stopVars, callVars
<1> QED
  BY <1>1, <1>2, <1>3, <1>4, <1>5, <1>6, <1>7, <1>8, <1>9, <1>10, <1>11, <1>12
  DEF Next, StartStep, Ready, Timeout, SpawnError

-----------------------------------------------------------------------------
(* When npm may die and leave its server, once the start has its answer:   *)
(* while a child whose start waits for its server runs, the module holds   *)
(* it or a stop has it, and no close event of another child can come; an   *)
(* answered start's server is held by itself.                              *)
Kept ==
  \A s \in Starts :
    /\ phase[s] = "starting" =>
         /\ Server(s) \in alive => Npm(s) \in alive
         /\ Npm(s) \in alive =>
              /\ previewProc = s \/ Npm(s) \in stopping
              /\ \A t \in Starts \ {s} : child[t] # "open"
    /\ phase[s] \in {"ready", "failed"} /\ Server(s) \in alive =>
         Server(s) \in tracked \cup stopping

\* The tree of a child that runs has its server.
LEMMA TreeHasServer ==
  ASSUME NEW s \in Starts, NEW P, Npm(s) \in alive, Server(s) \in alive, alive \subseteq spawned
  PROVE  Server(s) \in Remembered(P, s)
BY PreviewAssumption DEF Remembered, Expand

(* So it stays with starts, stops and events in between.                   *)
LEMMA KeptStep ==
  ASSUME TypeOK, TypeOK', Orderly, Held, NoOrphan, Alone, Kept,
         "starting" \notin LosesNpm, ~LateClose, [Next]_vars
  PROVE  Kept'
<1> USE DEF Npm, Server
<1>1. ASSUME NEW s \in Starts, Refuse(s) \/ Prepare(s) \/ NoFreePort(s)
      PROVE  Kept'
  <2>1. Npm(s) \notin spawned /\ Server(s) \notin alive
    BY <1>1 DEF Refuse, Prepare, NoFreePort, Orderly, TypeOK
  <2>2. UNCHANGED <<spawned, alive, child, previewProc, tracked, stopping>>
    BY <1>1 DEF Refuse, Prepare, NoFreePort, stopVars
  <2>3. phase'[s] # "starting" /\ \A t \in Starts \ {s} : phase'[t] = phase[t]
    BY <1>1 DEF Refuse, Prepare, NoFreePort, TypeOK
  <2> QED
    BY <2>1, <2>2, <2>3 DEF Kept
<1>2. ASSUME NEW s \in Starts, Start(s)
      PROVE  Kept'
  <2>1. StopNow /\ UNCHANGED <<spawned, alive, child>>
    BY <1>2 DEF Start
  <2>2. \A p \in alive : p \in stopping'
    BY <2>1, StopHasAll
  <2>3. \A t \in Starts : phase'[t] = "starting" => phase[t] = "starting"
    BY <1>2 DEF Start, TypeOK
  <2> QED
    BY <2>1, <2>2, <2>3 DEF Kept
<1>3. ASSUME NEW s \in Starts, Spawn(s)
      PROVE  Kept'
  <2>1. alive = {}
    BY <1>3 DEF Spawn, Alone
  <2>2. \A t \in Starts \ {s} : child'[t] # "open"
    BY <1>3, <2>1 DEF Spawn, TypeOK
  <2>3. previewProc' = s /\ alive' \subseteq {Npm(s)}
    BY <1>3, <2>1 DEF Spawn
  <2> QED
    BY <2>2, <2>3 DEF Kept
<1>4. ASSUME NEW s \in Starts, ServerUp(s)
      PROVE  Kept'
  BY <1>4 DEF ServerUp, Kept, TypeOK, stopVars, callVars
<1>5. ASSUME NEW s \in Starts, phase[s] = "starting", Done(s),
             child' \in {child, [child EXCEPT ![s] = "closed"]}
      PROVE  Kept'
  <2>1. /\ UNCHANGED <<spawned, alive, previewProc, stopping>>
        /\ tracked' = Remembered(tracked, previewProc)
        /\ \A t \in Starts : phase'[t] = IF t = s THEN "ready" ELSE phase[t]
    BY <1>5 DEF Done, TypeOK
  <2>2. \A t \in Starts : child'[t] = "open" => child[t] = "open"
    BY <1>5 DEF TypeOK
  <2>3. Server(s) \in alive => Server(s) \in tracked' \cup stopping
    <3>1. Server(s) \in alive => Npm(s) \in alive /\ (previewProc = s \/ Npm(s) \in stopping)
      BY <1>5 DEF Kept
    <3>2. alive \subseteq spawned
      BY DEF TypeOK
    <3> QED
      BY <2>1, <3>1, <3>2, TreeHasServer DEF Held
  <2>4. tracked \subseteq tracked'
    BY <2>1, RememberedGrows
  <2> QED
    BY <2>1, <2>2, <2>3, <2>4 DEF Kept
<1>6. ASSUME NEW s \in Starts, phase[s] = "starting", Fail(s),
             child' \in {child, [child EXCEPT ![s] = "closed"]}
      PROVE  Kept'
  <2>1. /\ UNCHANGED <<spawned, alive>>
        /\ StopNow
        /\ \A t \in Starts : phase'[t] = IF t = s THEN "failed" ELSE phase[t]
    BY <1>6 DEF Fail, TypeOK
  <2>2. \A p \in alive : p \in stopping'
    BY <2>1, StopHasAll
  <2>3. \A t \in Starts : child'[t] = "open" => child[t] = "open"
    BY <1>6 DEF TypeOK
  <2> QED
    BY <2>1, <2>2, <2>3 DEF Kept
<1>7. ASSUME NEW s \in Starts, Exit(s)
      PROVE  Kept'
  BY <1>7 DEF Exit, Kept, TypeOK, stopVars, callVars
<1>8. ASSUME NEW s \in Starts, Close(s)
      PROVE  Kept'
  <2>1. CASE phase[s] = "starting"
    BY <1>8, <2>1, <1>5, <1>6 DEF Close
  <2>2. CASE phase[s] # "starting"
    <3>1. /\ UNCHANGED <<phase, spawned, alive, stopping>>
          /\ child[s] = "open"
          /\ \A t \in Starts : child'[t] = "open" => child[t] = "open"
          /\ tracked \subseteq tracked'
      BY <1>8, <2>2, RememberedGrows DEF Close, TypeOK
    <3>2. \A t \in Starts : phase[t] = "starting" => Npm(t) \notin alive
      BY <2>2, <3>1 DEF Kept
    <3> QED
      BY <3>1, <3>2 DEF Kept
  <2> QED
    BY <2>1, <2>2
<1>9. ASSUME NEW q \in Stops, NEW scope \in Starts \cup {None}, Stop(q, scope)
       PROVE  Kept'
  <2>1. UNCHANGED <<phase, spawned, alive, child>>
    BY <1>9 DEF Stop
  <2>2. CASE StopNow
    BY <2>1, <2>2, StopHasAll DEF Kept
  <2>3. CASE UNCHANGED stopVars
    BY <2>1, <2>3 DEF Kept, stopVars
  <2> QED
    BY <1>9, <2>2, <2>3 DEF Stop
<1>10. ASSUME StopEnds
       PROVE  Kept'
  <2>1. alive' = {}
    BY <1>10 DEF StopEnds, Alone
  <2> QED
    BY <2>1 DEF Kept
<1>11. CASE UNCHANGED vars
  BY <1>11 DEF vars, Kept, stopVars, callVars
<1> QED
  BY <1>1, <1>2, <1>3, <1>4, <1>5, <1>6, <1>7, <1>8, <1>9, <1>10, <1>11
  DEF Next, StartStep, Ready, Timeout, SpawnError

-----------------------------------------------------------------------------
(* Where two starts overlapped, all this is back with a start that finds   *)
(* no process and no stop in flight.                                       *)
LEMMA OverlapEnds ==
  ASSUME TypeOK, Orderly, overlapped, ~overlapped', [Next]_vars
  PROVE  Held' /\ Alone' /\ Kept'
<1>1. PICK s \in Starts : Start(s)
  BY DEF Next, StartStep, Refuse, Prepare, NoFreePort, Spawn, ServerUp, Ready, Done, Timeout,
     Fail, Exit, SpawnError, Close, Stop, StopEnds, vars, callVars
<1>2. /\ Childless = {} /\ ~stopInFlight /\ alive' = {}
      /\ UNCHANGED <<ran, stopPhase>>
      /\ StopNow
      /\ phase' = [phase EXCEPT ![s] = IF stopInFlight' THEN "awaitStop" ELSE "prepare"]
  BY <1>1 DEF Start
<1>3. \A t \in Starts : t # s => phase'[t] = phase[t] /\ t \notin Childless
  BY <1>2 DEF TypeOK
<1>4. phase'[s] = IF stopInFlight' THEN "awaitStop" ELSE "prepare"
  BY <1>2 DEF TypeOK
<1>5. tracked' = {} /\ previewProc' = None
  BY <1>2 DEF StopNow
<1>6. Alone'
  BY <1>2, <1>3, <1>4, <1>5 DEF Alone, Childless
<1> QED
  BY <1>2, <1>6 DEF Held, Kept

(* What the theorems about starts that do not overlap assume: npm does not *)
(* die before its server; or it may, but not while the start has no        *)
(* answer, and a close event is handled before the next spawn.             *)
NpmOutlives == LosesNpm = {} \/ ("starting" \notin LosesNpm /\ ~LateClose)

LEMMA AloneInvariant ==
  ASSUME NpmOutlives
  PROVE  Spec => [](~overlapped => Alone)
<1> DEFINE Inv == ~overlapped => Held /\ Alone /\ (LosesNpm # {} => Kept)
<1>1. Init => Inv
  BY DEF Init, Held, Alone, Childless, Kept
<1>2. TypeOK /\ TypeOK' /\ Orderly /\ Inv /\ [Next]_vars => Inv'
  <2> SUFFICES ASSUME TypeOK, TypeOK', Orderly, Inv, [Next]_vars, ~overlapped'
               PROVE  Held' /\ Alone' /\ (LosesNpm # {} => Kept')
    OBVIOUS
  <2>1. CASE overlapped
    BY <2>1, OverlapEnds
  <2>2. CASE ~overlapped
    <3>1. NoOrphan
      BY <2>2, HeldReaches
    <3>2. Covered
      <4>1. \A s \in Starts : Server(s) \in alive => phase[s] \in {"starting", "ready", "failed"}
        BY DEF Orderly, TypeOK
      <4> QED
        BY <2>2, <4>1 DEF Covered, Kept, NpmOutlives
    <3>3. Held'
      BY <2>2, <3>2, HeldStep
    <3>4. Alone'
      BY <2>2, <3>1, AloneStep
    <3>5. LosesNpm # {} => Kept'
      BY <2>2, <3>1, KeptStep DEF NpmOutlives
    <3> QED
      BY <3>3, <3>4, <3>5
  <2> QED
    BY <2>1, <2>2
<1> QED
  BY <1>1, <1>2, OrderlyAlways, TypeCorrect, PTL DEF Spec

(* One preview runs at a time, also when npm leaves a server that has      *)
(* answered behind, and also when a start is called while another waits    *)
(* for its server: "Single preview at a time".  What it takes is that no   *)
(* two starts were before their spawns together since the module last came *)
(* to rest (startPreview).                                                 *)
THEOREM OneAtATime ==
  ASSUME NpmOutlives
  PROVE  Spec => []SinglePreview
<1>1. (~overlapped => Alone) => SinglePreview
  BY DEF Alone, SinglePreview
<1> QED
  BY <1>1, AloneInvariant, PTL

(* Under the same condition a stop ends what ran when it was called,       *)
(* whether it is the first or joins one, also a server whose npm has died  *)
(* (stopPreviewAsync, expandTrackedPids).                                  *)
THEOREM StopEndsAll ==
  ASSUME NpmOutlives
  PROVE  Spec => []StopEndsWhatRan
<1>1. (~overlapped => Alone) => StopEndsWhatRan
  BY DEF Alone, StopEndsWhatRan
<1> QED
  BY <1>1, AloneInvariant, PTL
-----------------------------------------------------------------------------
(* Starts and stops are answered.  Liveness itself stays with TLC; what is *)
(* shown here is that a call which waits for a stop has one in flight to   *)
(* wait for, and that a start has a number of steps left which each step   *)
(* it takes lowers and which nothing else raises.                          *)

Answered == {"ready", "failed"}

Left(p) ==
  CASE p = "idle"      -> 5
    [] p = "awaitStop" -> 4
    [] p = "prepare"   -> 3
    [] p = "pickPort"  -> 2
    [] p = "starting"  -> 1
    [] OTHER           -> 0

\* No call waits for a stop that is over, or was never begun.
Awaited ==
  /\ \A s \in Starts : phase[s] = "awaitStop" => stopInFlight
  /\ \A q \in Stops : stopPhase[q] = "waiting" => stopInFlight

\* What a step of a start does to the phases, and to the stop in flight.
LEMMA StartMoves ==
  ASSUME TypeOK, NEW s \in Starts, StartStep(s)
  PROVE  /\ \A t \in Starts : phase'[t] # phase[t] => t = s /\ Left(phase'[t]) < Left(phase[t])
         /\ phase'[s] = "awaitStop" => phase[s] = "awaitStop" \/ stopInFlight'
         /\ stopInFlight => stopInFlight'
         /\ UNCHANGED stopPhase
<1> USE DEF TypeOK, Left, stopVars, callVars
<1>1. CASE Refuse(s) \/ NoFreePort(s) \/ ServerUp(s) \/ Exit(s)
  BY <1>1 DEF Refuse, NoFreePort, ServerUp, Exit
<1>2. CASE Start(s)
  <2>1. stopInFlight => stopInFlight'
    BY <1>2 DEF Start, StopNow
  <2>2. /\ phase[s] = "idle"
        /\ phase' = [phase EXCEPT ![s] = IF stopInFlight' THEN "awaitStop" ELSE "prepare"]
    BY <1>2 DEF Start
  <2>3. phase'[s] \in {"awaitStop", "prepare"} /\ (phase'[s] = "awaitStop" => stopInFlight')
    BY <2>2
  <2>4. \A t \in Starts : phase'[t] # phase[t] => t = s
    BY <2>2
  <2>5. Left(phase'[s]) < Left(phase[s])
    BY <2>2, <2>3
  <2> QED BY <1>2, <2>1, <2>3, <2>4, <2>5 DEF Start
<1>3. CASE Prepare(s)
  BY <1>3 DEF Prepare
<1>4. CASE Spawn(s)
  BY <1>4 DEF Spawn
<1>5. ASSUME Done(s), phase[s] = "starting"
      PROVE  /\ phase' = [phase EXCEPT ![s] = "ready"]
             /\ UNCHANGED <<stopInFlight, stopPhase>>
  BY <1>5 DEF Done
<1>6. ASSUME Fail(s), phase[s] = "starting"
      PROVE  /\ phase' = [phase EXCEPT ![s] = "failed"]
             /\ stopInFlight => stopInFlight'
             /\ UNCHANGED stopPhase
  BY <1>6 DEF Fail, StopNow
<1>7. CASE Ready(s) \/ Timeout(s) \/ SpawnError(s) \/ Close(s)
  <2>1. CASE UNCHANGED <<phase, stopInFlight, stopPhase>>
    BY <1>7, <2>1 DEF Ready, Timeout, SpawnError, Close, Done, Fail
  <2>2. CASE phase[s] = "starting" /\ (Done(s) \/ Fail(s))
    BY <1>5, <1>6, <2>2
  <2> QED BY <1>7, <2>1, <2>2 DEF Ready, Timeout, SpawnError, Close
<1> QED BY <1>1, <1>2, <1>3, <1>4, <1>7 DEF StartStep

LEMMA AwaitedKept == TypeOK /\ Awaited /\ [Next]_vars => Awaited'
<1> SUFFICES ASSUME TypeOK, Awaited, [Next]_vars
             PROVE  Awaited'
  OBVIOUS
<1>1. ASSUME NEW s \in Starts, StartStep(s)
      PROVE  Awaited'
  BY <1>1, StartMoves DEF Awaited
<1>2. ASSUME NEW q \in Stops, NEW scope \in Starts \cup {None}, Stop(q, scope)
      PROVE  Awaited'
  <2>1. stopInFlight => stopInFlight'
    BY <1>2 DEF Stop, StopNow, stopVars
  <2> QED BY <1>2, <2>1 DEF TypeOK, Awaited, Stop
<1>3. CASE StopEnds
  BY <1>3 DEF TypeOK, Awaited, StopEnds, Released
<1>4. CASE UNCHANGED vars
  BY <1>4 DEF Awaited, vars, stopVars, callVars
<1> QED BY <1>1, <1>2, <1>3, <1>4 DEF Next

(* A start is answered after at most five steps of its own or of the stop  *)
(* it waits for, however starts and stops overlap, and no start or stop    *)
(* waits for a stop that is not in flight (startPreview, stopPreviewAsync, *)
(* stopInFlight).                                                          *)
THEOREM StartIsBounded ==
  Spec => /\ []Awaited
          /\ [](\A s \in Starts : /\ Left(phase[s]) \in 0..5
                                  /\ Left(phase[s]) = 0 <=> phase[s] \in Answered)
          /\ [][\A s \in Starts :
                  phase'[s] # phase[s] => Left(phase'[s]) < Left(phase[s])]_vars
<1>1. Init => Awaited
  BY DEF Init, Awaited
<1>2. TypeOK => \A s \in Starts : /\ Left(phase[s]) \in 0..5
                                  /\ Left(phase[s]) = 0 <=> phase[s] \in Answered
  BY DEF TypeOK, Phase, Left, Answered
<1>3. TypeOK /\ [Next]_vars =>
        [\A s \in Starts : phase'[s] # phase[s] => Left(phase'[s]) < Left(phase[s])]_vars
  <2> SUFFICES ASSUME TypeOK, Next, NEW s \in Starts, phase'[s] # phase[s]
               PROVE  Left(phase'[s]) < Left(phase[s])
    OBVIOUS
  <2>1. CASE \E t \in Starts : StartStep(t)
    BY <2>1, StartMoves
  <2>2. CASE StopEnds
    BY <2>2 DEF TypeOK, StopEnds, Released, Left
  <2>3. CASE \E q \in Stops, scope \in Starts \cup {None} : Stop(q, scope)
    BY <2>3 DEF Stop
  <2> QED BY <2>1, <2>2, <2>3 DEF Next
<1> QED BY <1>1, <1>2, <1>3, AwaitedKept, TypeCorrect, PTL DEF Spec
==============================================================================
