----------------------------- MODULE KeyedLimiter -----------------------------
(***************************************************************************)
(* keyedLimiter: a map from keys (client addresses, e-mail addresses) to   *)
(* buckets of golang.org/x/time/rate.  A bucket holds what it had when an  *)
(* event was last let through; a map that has grown to MaxBuckets is       *)
(* pruned when a new key comes.  A token of the bucket is Every units of   *)
(* time, and a process that restarts starts with an empty map.             *)
(***************************************************************************)
EXTENDS Integers, FiniteSets

CONSTANTS
    Keys,         \* what is limited
    Every,        \* time that pays for one event
    Burst,        \* events a full bucket pays for
    MaxBuckets,   \* size of the map from which it is pruned
    MaxTime,      \* bound: the clock stops there
    None          \* no bucket

VARIABLES
    buckets,      \* keyedLimiter.buckets
    now,          \* the clock
    answer        \* the key of the last call of allow and its result

limiterVars == <<buckets, now, answer>>

Full == Burst * Every

Buckets == [units : 0..Full, last : Nat, seen : Nat]

ASSUME LimitAssumption ==
    /\ Every \in Nat \ {0} /\ Burst \in Nat \ {0}
    /\ MaxBuckets \in Nat /\ MaxTime \in Nat
    /\ None \notin Buckets

LimiterInit ==
    /\ buckets = [k \in Keys |-> None]
    /\ now = 0
    /\ answer = <<>>

\* Limiter.advance: what the bucket holds now.
Units(b) == IF b.units + now - b.last < Full THEN b.units + now - b.last ELSE Full

\* rate.NewLimiter: full.
NewBucket == [units |-> Full, last |-> now, seen |-> now]

\* Mutant: a bucket is dropped while it still owes time.
OwesTime(b) == now - b.seen > Every

IsIdle(b) == now - b.seen > Full

\* prune: every bucket that is idle.
Prune(bs) == [k \in Keys |-> IF bs[k] # None /\ IsIdle(bs[k]) THEN None ELSE bs[k]]

\* The map with a bucket for k.
WithBucket(k) ==
    LET full == Cardinality({j \in Keys : buckets[j] # None}) >= MaxBuckets
        bs   == IF full THEN Prune(buckets) ELSE buckets
    IN  IF buckets[k] # None THEN buckets ELSE [bs EXCEPT ![k] = NewBucket]

\* b.seen = now and Limiter.AllowN: an event that is refused changes nothing
\* but seen.
Take(b) ==
    [units |-> IF Units(b) >= Every THEN Units(b) - Every ELSE b.units,
     last  |-> IF Units(b) >= Every THEN now ELSE b.last,
     seen  |-> now]

Allow(k) ==
    /\ buckets' = [WithBucket(k) EXCEPT ![k] = Take(@)]
    /\ answer' = <<k, Units(WithBucket(k)[k]) >= Every>>
    /\ UNCHANGED now

Tick ==
    /\ now < MaxTime
    /\ now' = now + 1
    /\ UNCHANGED <<buckets, answer>>

LimiterNext == Tick \/ \E k \in Keys : Allow(k)

LimiterSpec == LimiterInit /\ [][LimiterNext]_limiterVars

-----------------------------------------------------------------------------
\* The limiter as a bucket per key that is never forgotten.
Level == [k \in Keys |-> IF buckets[k] = None THEN Full ELSE Units(buckets[k])]

Bucket == INSTANCE TokenBucket WITH level <- Level

\* Whatever keys come and go and whenever the map is pruned, a key is let
\* through exactly as often as if its bucket had never been dropped (allow,
\* prune): prune never hands a key a fuller bucket than it has earned.
NeverForgiven == Bucket!Spec
===============================================================================
