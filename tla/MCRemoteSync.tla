----------------------------- MODULE MCRemoteSync -----------------------------
(* Instances of RemoteSync for TLC.                                         *)
EXTENDS RemoteSync, TLC

\* Sets and keys are told apart only by equality.
Symmetry == Permutations(Sets) \union Permutations(Keys)
==============================================================================
