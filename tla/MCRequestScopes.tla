---------------------------- MODULE MCRequestScopes ----------------------------
(* Instances of RequestScopes for TLC.                                     *)
EXTENDS RequestScopes, TLC

CallSymmetry == Permutations(Calls) \cup Permutations(Scopes)
==============================================================================
