------------------------------ MODULE TokenBucket ------------------------------
(***************************************************************************)
(* What a rate limit promises: every key has a bucket that is full at      *)
(* first, gains a unit with every unit of time, and pays Every units for   *)
(* each event that is let through.  No key is ever forgotten.              *)
(***************************************************************************)
EXTENDS Naturals

CONSTANTS Keys, Every, Burst

VARIABLES level,    \* the units in the bucket of each key
          answer    \* the key of the last event and whether it was let through

Full == Burst * Every

Init == level = [k \in Keys |-> Full] /\ answer = <<>>

Allow(k) ==
    /\ answer' = <<k, level[k] >= Every>>
    /\ level' = [level EXCEPT ![k] = IF @ >= Every THEN @ - Every ELSE @]

Tick ==
    /\ level' = [k \in Keys |-> IF level[k] < Full THEN level[k] + 1 ELSE Full]
    /\ UNCHANGED answer

Next == Tick \/ \E k \in Keys : Allow(k)

Spec == Init /\ [][Next]_<<level, answer>>
================================================================================
