-------------------------- MODULE MCGreenfieldWrite --------------------------
(* Instances of GreenfieldWrite for TLC.                                   *)
EXTENDS GreenfieldWrite

\* A path the generation does not write is looked at by the gate alone, which
\* asks only whether something is there: one text stands for all there may be.
Telling ==
  \A p \in Paths \ ({files[i].path : i \in 1..Len(files)} \cap Allowed) :
    disk[p] \in {Absent, Decoded}

MCInit == Init /\ Telling

MCSpec == MCInit /\ [][Next]_vars /\ Fairness
==============================================================================
