----------------------------- MODULE MCRuleServer -----------------------------
(* Instances of RuleServer for TLC.                                         *)
EXTENDS RuleServer, TLC

\* Requests and keys are told apart only by equality; contents are not, some
\* are valid and some are not.
Symmetry == Permutations(Requests) \union Permutations(Keys)
==============================================================================
