---------------------------- MODULE BatchContract ----------------------------
(***************************************************************************)
(* What a batch of file operations promises its caller, without saying     *)
(* how: all files of the batch take their new values in one step, or none  *)
(* does except the files of the batch that the failure names.  The only    *)
(* files this atomicity does not cover are the raced ones, which somebody  *)
(* else wrote while the batch was running.  The three ways the program     *)
(* writes a batch implement it: UndoTransaction, PlanApply and             *)
(* GreenfieldWrite.                                                        *)
(***************************************************************************)
EXTENDS Naturals, Sequences

CONSTANTS Paths, Value

VARIABLES
  files,     \* the project as the user should see it
  batch,     \* operations [path, target]
  verdict,   \* "none" while the batch may be running, then how it ended
  reported,  \* paths a failure names as possibly changed
  raced      \* paths written by somebody else while the batch ran

vars == <<files, batch, verdict, reported, raced>>

Named == {batch[i].path : i \in 1..Len(batch)}

\* A batch may name a path more than once: its last operation counts.
Last(i) == \A j \in i + 1..Len(batch) : batch[j].path # batch[i].path

Init ==
  /\ files \in [Paths -> Value]
  /\ batch \in Seq([path : Paths, target : Value])
  /\ verdict = "none"
  /\ reported = {}
  /\ raced = {}

\* A batch that did not succeed may be started again.
Start ==
  /\ verdict # "ok"
  /\ verdict' = "none"
  /\ reported' = {}
  /\ raced' = {}
  /\ UNCHANGED <<files, batch>>

Refuse ==
  /\ verdict # "ok"
  /\ verdict' = "refused"
  /\ reported' = {}
  /\ raced' \in {raced, {}}
  /\ UNCHANGED <<files, batch>>

\* All or nothing, the good half.
Succeed ==
  /\ verdict = "none"
  /\ verdict' = "ok"
  /\ files' \in [Paths -> Value]
  /\ \A p \in Paths : p \notin Named => files'[p] = files[p]
  /\ \A i \in 1..Len(batch) :
       Last(i) /\ batch[i].path \notin raced =>
         files'[batch[i].path] = batch[i].target
  /\ UNCHANGED <<batch, reported, raced>>

\* All or nothing, the bad half: what changed is of the batch and reported.
Fail ==
  /\ verdict = "none"
  /\ verdict' = "failed"
  /\ reported' \subseteq Paths
  /\ files' \in [Paths -> Value]
  /\ \A p \in Paths :
       p \notin (reported' \cap Named) \cup raced => files'[p] = files[p]
  /\ UNCHANGED <<batch, raced>>

\* The batch and another writer meet on one file.
Race ==
  /\ verdict = "none"
  /\ \E p \in raced, v \in Value : files' = [files EXCEPT ![p] = v]
  /\ UNCHANGED <<batch, verdict, reported, raced>>

Write ==
  /\ \E p \in Paths, v \in Value :
       /\ files' = [files EXCEPT ![p] = v]
       /\ raced' \in {raced, raced \cup {p}}
  /\ UNCHANGED <<batch, verdict, reported>>

Next == Start \/ Refuse \/ Succeed \/ Fail \/ Race \/ Write

Spec == Init /\ [][Next]_vars
==============================================================================
