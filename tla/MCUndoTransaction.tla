-------------------------- MODULE MCUndoTransaction --------------------------
(* Instances of UndoTransaction for TLC.                                   *)
EXTENDS UndoTransaction

CONSTANTS p1, p2, p3

InBatch(i, p) == i \in DOMAIN ops /\ ops[i].path = p

\* Paths are interchangeable: no definition singles one out, so the batches
\* that name them first in this order stand for all.  (A SYMMETRY would do the
\* same, and TLC's liveness checking does not allow one.)
NamedInOrder ==
  LET NamedUpTo(i, p) == \E j \in 1..i : InBatch(j, p)
  IN  \A i \in DOMAIN ops :
        /\ ops[i].path = p2 => NamedUpTo(i, p1)
        /\ ops[i].path = p3 => NamedUpTo(i, p2)

\* The bytes a failed write leaves are the target of no operation: that a write
\* fails and leaves its target is a case of its own.  A path that no operation
\* names is not there.
Telling ==
  /\ \A i \in DOMAIN ops : ops[i].target # TornBytes
  /\ \A p \in Paths \ BatchPaths : disk[p] = Absent

MCInit == Init /\ NamedInOrder /\ Telling

MCSpec == MCInit /\ [][Next]_vars /\ Fairness
==============================================================================
