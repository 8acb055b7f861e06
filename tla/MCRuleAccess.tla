----------------------------- MODULE MCRuleAccess -----------------------------
(* RuleAccess for TLC.  Sign-in requests and pulls share only the clock, so  *)
(* a behaviour has requests of one kind.                                     *)
EXTENDS RuleAccess, TLC

VARIABLE scene

CONSTANT MaxPullTime   \* bound: the clock of a behaviour with pulls

Symmetry == Permutations(Handlers) \cup Permutations(Sets)

MCInit == Init /\ scene \in {"logins", "pulls"}

MCNext ==
    /\ \/ Clock /\ (scene = "pulls" => now < MaxPullTime)
       \/ scene = "logins" /\ Logins
       \/ scene = "pulls" /\ Pulls
    /\ UNCHANGED scene

MCSpec == MCInit /\ [][MCNext]_<<vars, scene>>
===============================================================================
