--------------------------- MODULE RuleAccessProofs ---------------------------
(***************************************************************************)
(* Proofs about the limits, the last use and the daily counts of the rule  *)
(* server, for any numbers of keys, tokens, handlers, days and pulls.      *)
(*                                                                         *)
(* keyedLimiter implements TokenBucket, because a bucket was last paid     *)
(* from no later than it was last seen: one that is idle for longer than   *)
(* it takes to fill is full when prune drops it.                           *)
(***************************************************************************)
EXTENDS RuleAccess, FiniteSetTheorems, TLAPS

------------------------------------------------------------------------------
(* The limiter.                                                            *)

BucketOK(b) == b \in Buckets /\ b.last <= b.seen /\ b.seen <= now

\* The clock, the buckets and their times.
LimiterInv ==
    /\ now \in Nat
    /\ buckets \in [Keys -> Buckets \cup {None}]
    /\ \A k \in Keys : buckets[k] # None => BucketOK(buckets[k])

\* A full bucket is a positive amount of time.
LEMMA FullPositive == Full \in Nat /\ Full >= Every /\ Full = Bucket!Full
  <1>1. Full \in Nat
    BY LimitAssumption DEF Full
  <1>2. Burst * Every >= Every
    <2>1. Burst >= 1 /\ Burst \in Nat /\ Every \in Nat /\ Burst - 1 \in Nat
      BY LimitAssumption
    <2>2. (Burst - 1) * Every >= 0 /\ Burst * Every = (Burst - 1) * Every + Every
      BY <2>1
    <2> QED BY <2>1, <2>2
  <1> QED BY <1>1, <1>2 DEF Full, Bucket!Full

\* What a bucket holds lies between nothing and Full.
LEMMA UnitsBounded ==
    ASSUME NEW b, BucketOK(b), now \in Nat
    PROVE  Units(b) \in 0..Full
  BY FullPositive DEF BucketOK, Buckets, Units

\* A new bucket is full.
LEMMA NewIsFull ==
    ASSUME now \in Nat
    PROVE  BucketOK(NewBucket) /\ Units(NewBucket) = Full
  BY FullPositive DEF BucketOK, Buckets, NewBucket, Units

\* A bucket that prune drops has filled up.
LEMMA IdleIsFull ==
    ASSUME NEW b, BucketOK(b), now \in Nat, IsIdle(b)
    PROVE  Units(b) = Full
  BY FullPositive DEF BucketOK, Buckets, IsIdle, Units

\* Taking from a bucket pays for the event, or changes nothing it holds.
LEMMA TakePays ==
    ASSUME NEW b, BucketOK(b), now \in Nat
    PROVE  /\ BucketOK(Take(b))
           /\ Units(Take(b)) = IF Units(b) >= Every THEN Units(b) - Every ELSE Units(b)
  <1>1. Units(b) \in 0..Full
    BY UnitsBounded
  <1>2. CASE Units(b) >= Every
    <2>1. Take(b) = [units |-> Units(b) - Every, last |-> now, seen |-> now]
      BY <1>2 DEF Take
    <2>2. Units(b) - Every \in 0..Full
      BY <1>1, <1>2, FullPositive, LimitAssumption
    <2>3. BucketOK(Take(b))
      BY <2>1, <2>2 DEF BucketOK, Buckets
    <2>4. Units(Take(b)) = Units(b) - Every
      <3>1. Units(Take(b)) = IF Units(b) - Every + now - now < Full
                             THEN Units(b) - Every + now - now ELSE Full
        BY <2>1 DEF Units
      <3> QED BY <3>1, <1>1, <2>2, FullPositive, LimitAssumption
    <2> QED BY <2>3, <2>4, <1>2
  <1>3. CASE ~(Units(b) >= Every)
    <2>1. Take(b) = [units |-> b.units, last |-> b.last, seen |-> now]
      BY <1>3 DEF Take
    <2>2. BucketOK(Take(b))
      BY <2>1 DEF BucketOK, Buckets
    <2>3. Units(Take(b)) = Units(b)
      BY <2>1 DEF Units
    <2> QED BY <2>2, <2>3, <1>3
  <1> QED BY <1>2, <1>3

\* Making room and a bucket for a key changes what no key holds.
LEMMA WithBucketKeeps ==
    ASSUME LimiterInv, NEW k \in Keys
    PROVE  LET bs == WithBucket(k)
           IN  /\ bs \in [Keys -> Buckets \cup {None}]
               /\ bs[k] # None
               /\ \A j \in Keys : bs[j] # None => BucketOK(bs[j])
               /\ \A j \in Keys : Level[j] = IF bs[j] = None THEN Full ELSE Units(bs[j])
  <1>1. \A j \in Keys : Level[j] = IF buckets[j] = None THEN Full ELSE Units(buckets[j])
    BY DEF Level
  <1>2. CASE buckets[k] # None
    <2>1. WithBucket(k) = buckets
      BY <1>2 DEF WithBucket
    <2> QED BY <2>1, <1>1, <1>2 DEF LimiterInv
  <1>3. CASE buckets[k] = None
    <2>1. PICK bs : /\ bs \in {buckets, Prune(buckets)}
                    /\ WithBucket(k) = [bs EXCEPT ![k] = NewBucket]
      BY <1>3 DEF WithBucket
    <2>2. /\ bs \in [Keys -> Buckets \cup {None}]
          /\ \A j \in Keys : bs[j] = buckets[j] \/ (bs[j] = None /\ buckets[j] # None /\ IsIdle(buckets[j]))
      BY <2>1 DEF Prune, LimiterInv
    <2>3. BucketOK(NewBucket) /\ Units(NewBucket) = Full /\ NewBucket \in Buckets /\ NewBucket # None
      BY NewIsFull, LimitAssumption DEF LimiterInv, BucketOK
    <2>4. /\ WithBucket(k) \in [Keys -> Buckets \cup {None}]
          /\ WithBucket(k)[k] = NewBucket
          /\ \A j \in Keys \ {k} : WithBucket(k)[j] = bs[j]
      BY <2>1, <2>2, <2>3
    <2>5. \A j \in Keys : buckets[j] # None /\ IsIdle(buckets[j]) => Units(buckets[j]) = Full
      BY IdleIsFull DEF LimiterInv
    <2>6. \A j \in Keys : WithBucket(k)[j] # None => BucketOK(WithBucket(k)[j])
      BY <2>2, <2>3, <2>4 DEF LimiterInv
    <2>7. \A j \in Keys : Level[j] = IF WithBucket(k)[j] = None THEN Full ELSE Units(WithBucket(k)[j])
      BY <2>2, <2>3, <2>4, <2>5, <1>1, <1>3
    <2> QED BY <2>3, <2>4, <2>6, <2>7
  <1> QED BY <1>2, <1>3

\* One call of allow keeps the invariant and is a step of the abstract bucket.
LEMMA AllowStep ==
    ASSUME LimiterInv, NEW k \in Keys, Allow(k)
    PROVE  LimiterInv' /\ Bucket!Allow(k)
  <1> DEFINE bs == WithBucket(k)
  <1>1. /\ bs \in [Keys -> Buckets \cup {None}]
        /\ bs[k] # None
        /\ \A j \in Keys : bs[j] # None => BucketOK(bs[j])
        /\ \A j \in Keys : Level[j] = IF bs[j] = None THEN Full ELSE Units(bs[j])
    BY WithBucketKeeps
  <1>2. now' = now /\ now \in Nat
    BY DEF Allow, LimiterInv
  <1>3. buckets' = [bs EXCEPT ![k] = Take(bs[k])] /\ answer' = <<k, Units(bs[k]) >= Every>>
    BY DEF Allow
  <1>4. /\ BucketOK(Take(bs[k])) /\ Take(bs[k]) \in Buckets /\ Take(bs[k]) # None
        /\ Units(Take(bs[k])) = IF Units(bs[k]) >= Every THEN Units(bs[k]) - Every ELSE Units(bs[k])
    BY <1>1, <1>2, TakePays, LimitAssumption DEF BucketOK
  <1> HIDE DEF bs
  <1>5. /\ buckets' \in [Keys -> Buckets \cup {None}]
        /\ buckets'[k] = Take(bs[k])
        /\ \A j \in Keys \ {k} : buckets'[j] = bs[j]
    BY <1>1, <1>3, <1>4
  <1>6. LimiterInv'
    <2>1. \A j \in Keys : buckets'[j] # None => BucketOK(buckets'[j])
      BY <1>1, <1>4, <1>5
    <2> QED BY <2>1, <1>2, <1>5 DEF LimiterInv, BucketOK
  <1>7. \A j \in Keys : Level'[j] = IF buckets'[j] = None THEN Full ELSE Units(buckets'[j])
    BY <1>2 DEF Level, Units
  <1>8. Level'[k] = IF Level[k] >= Every THEN Level[k] - Every ELSE Level[k]
    BY <1>1, <1>4, <1>5, <1>7
  <1>9. \A j \in Keys \ {k} : Level'[j] = Level[j]
    BY <1>1, <1>5, <1>7
  <1>10. Level' = [Level EXCEPT ![k] = IF Level[k] >= Every THEN Level[k] - Every ELSE Level[k]]
    <2>1. Level' = [j \in Keys |-> Level'[j]] /\ Level = [j \in Keys |-> Level[j]]
      BY DEF Level
    <2> QED BY <2>1, <1>8, <1>9
  <1>11. answer' = <<k, Level[k] >= Every>>
    BY <1>1, <1>3
  <1> QED BY <1>6, <1>10, <1>11 DEF Bucket!Allow

\* So does the clock: a bucket gains a unit until it is full.
LEMMA TickStep ==
    ASSUME LimiterInv, Tick
    PROVE  LimiterInv' /\ Bucket!Tick
  <1>1. now' = now + 1 /\ buckets' = buckets /\ answer' = answer /\ now \in Nat
    BY DEF Tick, LimiterInv
  <1>2. LimiterInv'
    BY <1>1 DEF LimiterInv, BucketOK, Buckets
  <1>3. \A j \in Keys : Level'[j] = IF Level[j] < Full THEN Level[j] + 1 ELSE Full
    <2> TAKE j \in Keys
    <2>1. CASE buckets[j] = None
      BY <1>1, <2>1, FullPositive DEF Level
    <2>2. CASE buckets[j] # None
      <3>1. buckets[j].units \in Nat /\ buckets[j].last \in Nat /\ buckets[j].last <= now
        BY <2>2, FullPositive DEF LimiterInv, BucketOK, Buckets
      <3>2. /\ Level[j] = IF buckets[j].units + now - buckets[j].last < Full
                          THEN buckets[j].units + now - buckets[j].last ELSE Full
            /\ Level'[j] = IF buckets[j].units + (now + 1) - buckets[j].last < Full
                           THEN buckets[j].units + (now + 1) - buckets[j].last ELSE Full
        BY <1>1, <2>2 DEF Level, Units
      <3> QED BY <1>1, <3>1, <3>2, FullPositive
    <2> QED BY <2>1, <2>2
  <1>4. Level' = [j \in Keys |-> IF Level[j] < Full THEN Level[j] + 1 ELSE Full]
    <2>1. Level' = [j \in Keys |-> Level'[j]]
      BY DEF Level
    <2> QED BY <2>1, <1>3
  <1> QED BY <1>1, <1>2, <1>4, FullPositive DEF Bucket!Tick

\* At first no key has a bucket, and every abstract bucket is full.
LEMMA InitStep == LimiterInit => LimiterInv /\ Bucket!Init
  BY FullPositive DEF LimiterInit, LimiterInv, Bucket!Init, Level

LEMMA NextStep == LimiterInv /\ [LimiterNext]_limiterVars
                    => LimiterInv' /\ [Bucket!Next]_<<Level, answer>>
  <1> SUFFICES ASSUME LimiterInv, [LimiterNext]_limiterVars
               PROVE  LimiterInv' /\ [Bucket!Next]_<<Level, answer>>
    OBVIOUS
  <1>1. CASE Tick
    BY <1>1, TickStep DEF Bucket!Next
  <1>2. ASSUME NEW k \in Keys, Allow(k) PROVE LimiterInv' /\ Bucket!Next
    BY <1>2, AllowStep DEF Bucket!Next
  <1>3. CASE UNCHANGED limiterVars
    BY <1>3 DEF limiterVars, LimiterInv, BucketOK, Level, Units
  <1> QED BY <1>1, <1>2, <1>3 DEF LimiterNext

\* The invariant holds in every state of the limiter.
THEOREM LimiterInvariant == LimiterSpec => []LimiterInv
  BY InitStep, NextStep, PTL DEF LimiterSpec

\* However often the map is pruned, a key is let through exactly as a bucket
\* that is never dropped would let it through (allow, prune).
THEOREM LimiterRefines == LimiterSpec => NeverForgiven
  BY InitStep, NextStep, PTL DEF LimiterSpec, NeverForgiven, Bucket!Spec

------------------------------------------------------------------------------
(* Pulls: types.                                                           *)

Rows == [pulls : Nat, notModified : Nat]
Entries == [token : Tokens, day : Days, notModified : {0, 1}, n : Nat]

\* What a handler knows at each statement.
HandlerRecords ==
    {Idle}
    \cup [pc : {"auth", "limit"}, token : Tokens, path : Sets, matches : BOOLEAN]
    \cup [pc : {"touch", "read"}, token : Tokens, path : Sets, matches : BOOLEAN, at : Nat]
    \cup [pc : {"update", "insert", "sweep"}, token : Tokens, path : Sets,
          notModified : {0, 1}, day : Days]

\* The type of what the properties are about.
PullTypes ==
    /\ now \in 0..MaxTime
    /\ lastUsed \in [Tokens -> Int] /\ touched \in [Tokens -> Int]
    /\ counts \in [Tokens -> [Days -> Rows \cup {None}]]
    /\ handler \in [Handlers -> HandlerRecords]
    /\ counted \subseteq Entries

\* The last use is as the property says, and missing only for a token that
\* no pull was recorded for.
LastInv ==
    \A t \in Tokens : /\ lastUsed[t] <= touched[t]
                      /\ touched[t] - TouchEvery <= lastUsed[t] \/ touched[t] = -1
                      /\ touched[t] >= -1 /\ lastUsed[t] >= -1
                      /\ lastUsed[t] = -1 => touched[t] = -1

\* The counted pulls of a token and day with the given answers.
Kind(cs, t, d, kinds) == {c \in cs : c.token = t /\ c.day = d /\ c.notModified \in kinds}

\* Pulls are numbered: none has a number above how many are like it.
CountedInv ==
    /\ IsFiniteSet(counted)
    /\ \A c \in counted :
          c.n <= Cardinality(Kind(counted, c.token, c.day, {c.notModified}))

\* The row of a token and day says how many of its pulls were counted.
RowExact(row, cs, t, d) ==
    (IF row = None THEN [pulls |-> 0, notModified |-> 0] ELSE row)
      = [pulls |-> Cardinality(Kind(cs, t, d, {0, 1})),
         notModified |-> Cardinality(Kind(cs, t, d, {1}))]

\* Every row of a day that is kept is exact.
RowsInv ==
    \A t \in Tokens, d \in Days :
        d >= Today - Retention => RowExact(counts[t][d], counted, t, d)

\* The inductive invariant.
PullInv == PullTypes /\ LastInv /\ CountedInv /\ RowsInv

\* The day of a moment before MaxTime is one of the days, and later moments
\* have no earlier days.
LEMMA DayOrder ==
    ASSUME NEW a \in Nat, NEW b \in Nat, a <= b
    PROVE  /\ a \div DayLength \in Nat /\ b \div DayLength \in Nat
           /\ a \div DayLength <= b \div DayLength
  <1> DEFINE p == a \div DayLength
             q == b \div DayLength
  <1>1. DayLength \in Nat /\ DayLength > 0
    BY AccessAssumption
  <1>2. /\ p \in Int /\ q \in Int
        /\ a = DayLength * p + (a % DayLength) /\ a % DayLength \in 0..(DayLength - 1)
        /\ b = DayLength * q + (b % DayLength) /\ b % DayLength \in 0..(DayLength - 1)
    BY <1>1
  <1> DEFINE x == a % DayLength
             y == b % DayLength
  <1>3. x \in Int /\ y \in Int /\ 0 <= x /\ x < DayLength /\ 0 <= y /\ y < DayLength
    BY <1>1, <1>2
  <1>4. a = DayLength * p + x /\ b = DayLength * q + y
    BY <1>2
  <1> HIDE DEF p, q, x, y
  <1>5. p >= 0 /\ q >= 0
    <2>1. ASSUME NEW m \in Int, NEW e \in Int, NEW z \in Int, z = DayLength * m + e,
                 z >= 0, e < DayLength
          PROVE  m >= 0
      <3>1. SUFFICES ASSUME m <= -1 PROVE FALSE
        BY <2>1
      <3>2. DayLength * m <= DayLength * (-1)
        BY <1>1, <2>1, <3>1
      <3> QED BY <1>1, <2>1, <3>2
    <2> QED BY <1>2, <1>3, <1>4, <2>1
  <1>6. p <= q
    <2>1. SUFFICES ASSUME p >= q + 1 PROVE FALSE
      BY <1>2
    <2>2. DayLength * p >= DayLength * (q + 1)
      BY <1>1, <1>2, <2>1
    <2>3. DayLength * (q + 1) = DayLength * q + DayLength
      BY <1>1, <1>2
    <2>4. DayLength * p \in Int /\ DayLength * q \in Int
      BY <1>1, <1>2
    <2> QED BY <1>1, <1>3, <1>4, <2>2, <2>3, <2>4
  <1> QED BY <1>2, <1>5, <1>6 DEF p, q

------------------------------------------------------------------------------
(* Pulls: the steps.                                                       *)

\* Today is one of the days.
LEMMA TodayIsDay ==
    ASSUME now \in 0..MaxTime
    PROVE  Today \in Days /\ Today \in Nat
  BY DayOrder, LimitAssumption DEF Today, Days

\* A step that touches no count, no last use and not the clock.
LEMMA QuietPull ==
    ASSUME PullInv, UNCHANGED <<now, lastUsed, counts, touched, counted>>,
           handler' \in [Handlers -> HandlerRecords]
    PROVE  PullInv'
  <1>1. PullTypes'
    BY DEF PullInv, PullTypes
  <1>2. LastInv' /\ CountedInv'
    BY DEF PullInv, LastInv, CountedInv
  <1>3. RowsInv'
    BY DEF PullInv, RowsInv, Today
  <1> QED BY <1>1, <1>2, <1>3 DEF PullInv

\* A handler that goes on to another record of its type.
LEMMA Goes ==
    ASSUME PullInv, NEW h \in Handlers, NEW r \in HandlerRecords, Go(h, r)
    PROVE  handler' \in [Handlers -> HandlerRecords]
  BY DEF PullInv, PullTypes, Go

LEMMA IdleIsRecord == Idle \in HandlerRecords
  BY DEF HandlerRecords

\* The clock moves on: a day that is kept was kept before.
LEMMA ClockInv ==
    ASSUME PullInv, Clock
    PROVE  PullInv'
  <1>1. /\ now' = now + 1 /\ now < MaxTime /\ now \in 0..MaxTime
        /\ UNCHANGED <<lastUsed, counts, touched, counted, handler>>
    BY DEF Clock, Tick, pullVars, PullInv, PullTypes
  <1>2. now' \in 0..MaxTime
    BY <1>1, LimitAssumption
  <1>3. Today' >= Today /\ Today \in Nat /\ Today' \in Nat
    BY <1>1, DayOrder, LimitAssumption DEF Today
  <1>4. PullTypes'
    BY <1>1, <1>2 DEF PullInv, PullTypes
  <1>5. LastInv' /\ CountedInv'
    BY <1>1 DEF PullInv, LastInv, CountedInv
  <1>6. RowsInv'
    <2> SUFFICES ASSUME NEW t \in Tokens, NEW d \in Days, d >= Today' - Retention
                 PROVE  RowExact(counts[t][d], counted, t, d)
      BY <1>1 DEF RowsInv
    <2>1. d \in Int /\ Retention \in Nat
      BY AccessAssumption DEF Days
    <2>2. d >= Today - Retention
      <3>1. \A x, y \in Nat : y >= x /\ d >= y - Retention => d >= x - Retention
        BY <2>1
      <3> QED BY <1>3, <3>1
    <2> QED BY <2>2 DEF PullInv, RowsInv
  <1> QED BY <1>4, <1>5, <1>6 DEF PullInv

\* The steps before the token is touched, those that fail, and those of the
\* owner.
LEMMA EarlySteps ==
    ASSUME PullInv, NEW h \in Handlers,
           Arrive(h) \/ Auth(h) \/ Limit(h) \/ ReadPublished(h) \/ Fail(h)
    PROVE  PullInv'
  <1>1. UNCHANGED <<now, lastUsed, counts, touched, counted>>
    BY DEF Arrive, Auth, Limit, ReadPublished, Fail, limiterVars, PerToken!Allow
  <1>2. handler[h] \in HandlerRecords /\ now \in Nat
    BY LimitAssumption DEF PullInv, PullTypes
  <1>3. CASE Arrive(h)
    <2>1. PICK t \in Tokens, z \in Sets, matches \in BOOLEAN :
             Go(h, [pc |-> "auth", token |-> t, path |-> z, matches |-> matches])
      BY <1>3 DEF Arrive
    <2>2. [pc |-> "auth", token |-> t, path |-> z, matches |-> matches] \in HandlerRecords
      BY DEF HandlerRecords
    <2> QED BY <1>1, <2>1, <2>2, Goes, QuietPull
  <1>4. CASE Auth(h)
    <2>1. [handler[h] EXCEPT !.pc = "limit"] \in HandlerRecords
      BY <1>2, <1>4 DEF HandlerRecords, Auth, Idle
    <2>2. Go(h, [handler[h] EXCEPT !.pc = "limit"]) \/ Go(h, Idle)
      BY <1>4 DEF Auth, Done
    <2> QED BY <1>1, <2>1, <2>2, IdleIsRecord, Goes, QuietPull
  <1>5. CASE Limit(h)
    <2> DEFINE r == handler[h]
               q == [pc |-> "touch", token |-> r.token, path |-> r.path,
                     matches |-> r.matches, at |-> now]
    <2>1. r.pc = "limit" /\ (Go(h, q) \/ Go(h, Idle))
      BY <1>5 DEF Limit, Done
    <2>2. r.token \in Tokens /\ r.path \in Sets /\ r.matches \in BOOLEAN
      BY <1>2, <2>1 DEF HandlerRecords, Idle
    <2>3. q \in HandlerRecords
      BY <1>2, <2>2 DEF HandlerRecords
    <2> HIDE DEF q
    <2> QED BY <1>1, <2>1, <2>3, IdleIsRecord, Goes, QuietPull
  <1>6. CASE ReadPublished(h)
    <2> DEFINE r == handler[h]
               m == IF r.matches THEN 1 ELSE 0
               q == [pc |-> "update", token |-> r.token, path |-> r.path,
                     notModified |-> m, day |-> Today]
    <2>1. r.pc = "read" /\ (Go(h, q) \/ Go(h, Idle))
      BY <1>6 DEF ReadPublished, Done
    <2>2. r.token \in Tokens /\ r.path \in Sets
      BY <1>2, <2>1 DEF HandlerRecords, Idle
    <2>3. Today \in Days
      BY TodayIsDay DEF PullInv, PullTypes
    <2>4. m \in {0, 1}
      OBVIOUS
    <2> HIDE DEF m
    <2>5. q \in HandlerRecords
      BY <2>2, <2>3, <2>4 DEF HandlerRecords
    <2> HIDE DEF q
    <2> QED BY <1>1, <2>1, <2>5, IdleIsRecord, Goes, QuietPull
  <1>7. CASE Fail(h)
    BY <1>1, <1>7, IdleIsRecord, Goes, QuietPull DEF Fail, Done
  <1> QED BY <1>3, <1>4, <1>5, <1>6, <1>7

LEMMA OwnerSteps ==
    ASSUME PullInv,
           \/ \E k \in Keys : Login(k)
           \/ \E t \in Tokens : CreateToken(t) \/ \E z \in Sets : RevokeToken(t, z)
           \/ \E z \in Sets : Publish(z)
           \/ UNCHANGED vars
    PROVE  PullInv'
  <1>1. UNCHANGED <<now, lastUsed, counts, touched, counted, handler>>
    BY DEF Login, Allow, CreateToken, RevokeToken, Publish, vars, limiterVars, pullVars
  <1>2. handler' \in [Handlers -> HandlerRecords]
    BY <1>1 DEF PullInv, PullTypes
  <1> QED BY <1>1, <1>2, QuietPull

\* TouchToken, in whatever order handlers run it: an UPDATE that does nothing
\* is of a pull at most TouchEvery after the recorded one.
LEMMA TouchInv ==
    ASSUME PullInv, NEW h \in Handlers, Touch(h)
    PROVE  PullInv'
  <1> DEFINE r == handler[h]
  <1>1. /\ r.pc = "touch" /\ r \in HandlerRecords
        /\ handler' = [handler EXCEPT ![h] = [r EXCEPT !.pc = "read"]]
        /\ UNCHANGED <<now, counts, counted>>
    BY DEF Touch, Go, PullInv, PullTypes, limiterVars
  <1>2. r.token \in Tokens /\ r.at \in Nat /\ [r EXCEPT !.pc = "read"] \in HandlerRecords
    BY <1>1 DEF HandlerRecords, Idle
  <1>3. handler' \in [Handlers -> HandlerRecords]
    BY <1>1, <1>2, Goes DEF Go
  <1>4. CASE UNCHANGED <<lastUsed, touched>>
    BY <1>1, <1>3, <1>4, QuietPull
  <1>5. CASE /\ lastUsed' = [lastUsed EXCEPT ![r.token] = IF Outdated(r.token, r.at) THEN r.at ELSE @]
             /\ touched' = [touched EXCEPT ![r.token] = IF r.at > @ THEN r.at ELSE @]
    <2> DEFINE t == r.token
               u == lastUsed[t]
               v == touched[t]
    <2>1. u \in Int /\ v \in Int /\ TouchEvery \in Nat /\ r.at \in Nat
      BY <1>2, AccessAssumption DEF PullInv, PullTypes
    <2>2. u <= v /\ (v - TouchEvery <= u \/ v = -1) /\ v >= -1 /\ u >= -1 /\ (u = -1 => v = -1)
      BY <1>2 DEF PullInv, LastInv
    <2>3. /\ lastUsed' \in [Tokens -> Int] /\ touched' \in [Tokens -> Int]
          /\ lastUsed'[t] = IF u = -1 \/ u < r.at - TouchEvery THEN r.at ELSE u
          /\ touched'[t] = IF r.at > v THEN r.at ELSE v
          /\ \A x \in Tokens \ {t} : lastUsed'[x] = lastUsed[x] /\ touched'[x] = touched[x]
      BY <1>2, <1>5, <2>1 DEF PullInv, PullTypes, Outdated
    <2> DEFINE at == r.at
    <2> HIDE DEF u, v, at, r
    <2>4. LET a == IF u = -1 \/ u < at - TouchEvery THEN at ELSE u
              b == IF at > v THEN at ELSE v
          IN  /\ a <= b /\ (b - TouchEvery <= a \/ b = -1) /\ b >= -1 /\ a >= -1
              /\ a = -1 => b = -1
      BY <2>1, <2>2 DEF at
    <2>5. \A x \in Tokens :
             /\ lastUsed'[x] <= touched'[x]
             /\ touched'[x] - TouchEvery <= lastUsed'[x] \/ touched'[x] = -1
             /\ touched'[x] >= -1 /\ lastUsed'[x] >= -1
             /\ lastUsed'[x] = -1 => touched'[x] = -1
      <3> TAKE x \in Tokens
      <3>1. CASE x = t
        BY <2>3, <2>4, <3>1 DEF at
      <3>2. CASE x # t
        BY <2>3, <3>2 DEF PullInv, LastInv
      <3> QED BY <3>1, <3>2
    <2>6. PullTypes'
      BY <1>1, <1>3, <2>3 DEF PullInv, PullTypes
    <2>7. CountedInv' /\ RowsInv'
      BY <1>1 DEF PullInv, CountedInv, RowsInv, Today
    <2> QED BY <2>5, <2>6, <2>7 DEF PullInv, LastInv
  <1> QED BY <1>4, <1>5 DEF Touch

\* A pull that is counted is new, and is one more of its kind alone.
LEMMA CountAdds ==
    ASSUME PullInv, NEW r, r.token \in Tokens, r.day \in Days, r.notModified \in {0, 1}, Count(r)
    PROVE  /\ counted' \subseteq Entries /\ CountedInv'
           /\ \A t \in Tokens, d \in Days, kinds \in SUBSET {0, 1} :
                 Cardinality(Kind(counted', t, d, kinds)) =
                   Cardinality(Kind(counted, t, d, kinds)) +
                     (IF t = r.token /\ d = r.day /\ r.notModified \in kinds THEN 1 ELSE 0)
           /\ \A t \in Tokens, d \in Days, kinds \in SUBSET {0, 1} :
                 Cardinality(Kind(counted, t, d, kinds)) \in Nat
  <1> DEFINE same == Kind(counted, r.token, r.day, {r.notModified})
             new  == [token |-> r.token, day |-> r.day, notModified |-> r.notModified,
                      n |-> Cardinality(same) + 1]
  <1>1. IsFiniteSet(counted) /\ counted \subseteq Entries
    BY DEF PullInv, CountedInv, PullTypes
  <1>2. \A t, d, kinds : /\ IsFiniteSet(Kind(counted, t, d, kinds))
                         /\ Cardinality(Kind(counted, t, d, kinds)) \in Nat
    <2>1. \A t, d, kinds : Kind(counted, t, d, kinds) \in SUBSET counted
      BY DEF Kind
    <2>2. \A T \in SUBSET counted : IsFiniteSet(T) /\ Cardinality(T) \in Nat
      BY <1>1, FS_Subset, FS_CardinalityType
    <2> QED BY <2>1, <2>2
  <1>3. same = {c \in counted : c.token = r.token /\ c.day = r.day /\ c.notModified = r.notModified}
    BY DEF Kind
  <1>4. counted' = counted \cup {new}
    BY <1>3 DEF Count
  <1> DEFINE m == Cardinality(same)
  <1>5. m \in Nat
    BY <1>2
  <1> HIDE DEF m
  <1>6. new = [token |-> r.token, day |-> r.day, notModified |-> r.notModified, n |-> m + 1]
    BY DEF m
  <1> HIDE DEF new, same
  <1>7. new \in Entries
    BY <1>5, <1>6 DEF Entries
  <1>8. /\ new.token = r.token /\ new.day = r.day /\ new.notModified = r.notModified
        /\ new.n = m + 1
    BY <1>6
  <1>9. new \notin counted
    <2> SUFFICES ASSUME new \in counted PROVE FALSE
      OBVIOUS
    <2>1. new.n <= Cardinality(Kind(counted, new.token, new.day, {new.notModified}))
      BY DEF PullInv, CountedInv
    <2>2. m + 1 <= m
      BY <1>8, <2>1 DEF m, same
    <2> QED BY <1>5, <2>2
  <1>10. ASSUME NEW t, NEW d, NEW kinds
         PROVE  /\ Cardinality(Kind(counted', t, d, kinds)) =
                     Cardinality(Kind(counted, t, d, kinds)) +
                       (IF t = r.token /\ d = r.day /\ r.notModified \in kinds THEN 1 ELSE 0)
                /\ Cardinality(Kind(counted', t, d, kinds)) >= Cardinality(Kind(counted, t, d, kinds))
    <2>1. CASE t = r.token /\ d = r.day /\ r.notModified \in kinds
      <3>1. Kind(counted', t, d, kinds) = Kind(counted, t, d, kinds) \cup {new}
        BY <1>4, <1>8, <2>1 DEF Kind
      <3>2. new \notin Kind(counted, t, d, kinds)
        BY <1>9 DEF Kind
      <3> QED BY <1>2, <2>1, <3>1, <3>2, FS_AddElement
    <2>2. CASE ~(t = r.token /\ d = r.day /\ r.notModified \in kinds)
      <3>1. Kind(counted', t, d, kinds) = Kind(counted, t, d, kinds)
        BY <1>4, <1>8, <2>2 DEF Kind
      <3> QED BY <1>2, <2>2, <3>1
    <2> QED BY <2>1, <2>2
  <1>11. IsFiniteSet(counted')
    BY <1>1, <1>4, FS_AddElement
  <1>12. ASSUME NEW c \in counted'
         PROVE  c.n <= Cardinality(Kind(counted', c.token, c.day, {c.notModified}))
    <2>1. CASE c = new
      <3>1. Cardinality(Kind(counted', r.token, r.day, {r.notModified})) = m + 1
        BY <1>10 DEF m, same
      <3> QED BY <1>5, <1>8, <2>1, <3>1
    <2>2. CASE c \in counted
      <3>1. c.n <= Cardinality(Kind(counted, c.token, c.day, {c.notModified})) /\ c.n \in Nat
        BY <1>1, <2>2 DEF PullInv, CountedInv, Entries
      <3>2. /\ Cardinality(Kind(counted, c.token, c.day, {c.notModified})) \in Nat
            /\ Cardinality(Kind(counted', c.token, c.day, {c.notModified}))
                 = Cardinality(Kind(counted, c.token, c.day, {c.notModified}))
                     + (IF c.token = r.token /\ c.day = r.day /\ r.notModified \in {c.notModified}
                        THEN 1 ELSE 0)
        BY <1>2, <1>10
      <3> QED BY <3>1, <3>2
    <2> QED BY <1>4, <2>1, <2>2
  <1>13. counted' \subseteq Entries
    BY <1>1, <1>4, <1>7
  <1> QED BY <1>2, <1>10, <1>11, <1>12, <1>13 DEF CountedInv

\* One pull more in the table and one more in the row of its token and day.
LEMMA RowAdds ==
    ASSUME PullInv, NEW r, r.token \in Tokens, r.day \in Days, r.notModified \in {0, 1}, Count(r),
           NEW row \in Rows,
           r.day >= Today - Retention /\ counts[r.token][r.day] = None =>
              row = [pulls |-> 1, notModified |-> r.notModified],
           counts[r.token][r.day] # None =>
              row = [pulls |-> counts[r.token][r.day].pulls + 1,
                     notModified |-> counts[r.token][r.day].notModified + r.notModified],
           counts' = [counts EXCEPT ![r.token][r.day] = row],
           UNCHANGED <<now, lastUsed, touched>>, handler' \in [Handlers -> HandlerRecords]
    PROVE  PullInv'
  <1>1. /\ counted' \subseteq Entries /\ CountedInv'
        /\ \A t \in Tokens, d \in Days, kinds \in SUBSET {0, 1} :
                 Cardinality(Kind(counted', t, d, kinds)) =
                   Cardinality(Kind(counted, t, d, kinds)) +
                     (IF t = r.token /\ d = r.day /\ r.notModified \in kinds THEN 1 ELSE 0)
        /\ \A t \in Tokens, d \in Days, kinds \in SUBSET {0, 1} :
                 Cardinality(Kind(counted, t, d, kinds)) \in Nat
    BY CountAdds
  <1>2. /\ counts' \in [Tokens -> [Days -> Rows \cup {None}]]
        /\ counts'[r.token][r.day] = row
        /\ \A t \in Tokens, d \in Days : ~(t = r.token /\ d = r.day) => counts'[t][d] = counts[t][d]
    BY DEF PullInv, PullTypes
  <1>3. PullTypes'
    BY <1>1, <1>2 DEF PullInv, PullTypes
  <1>4. LastInv'
    BY DEF PullInv, LastInv
  <1>5. row # None
    BY AccessAssumption DEF Rows
  <1>6. RowsInv'
    <2> SUFFICES ASSUME NEW t \in Tokens, NEW d \in Days, d >= Today - Retention
                 PROVE  RowExact(counts'[t][d], counted', t, d)
      BY DEF RowsInv, Today
    <2> DEFINE all == Cardinality(Kind(counted, t, d, {0, 1}))
               not == Cardinality(Kind(counted, t, d, {1}))
    <2>1. RowExact(counts[t][d], counted, t, d) /\ all \in Nat /\ not \in Nat
      BY <1>1 DEF PullInv, RowsInv
    <2>2. CASE ~(t = r.token /\ d = r.day)
      <3>1. /\ Cardinality(Kind(counted', t, d, {0, 1})) = all
            /\ Cardinality(Kind(counted', t, d, {1})) = not
        BY <1>1, <2>1, <2>2
      <3> QED BY <1>2, <2>1, <2>2, <3>1 DEF RowExact
    <2>3. CASE t = r.token /\ d = r.day
      <3>1. Cardinality(Kind(counted', t, d, {0, 1})) = all + 1
        BY <1>1, <2>3
      <3>2. Cardinality(Kind(counted', t, d, {1})) = not + r.notModified
        BY <1>1, <2>1, <2>3
      <3> HIDE DEF all, not
      <3>3. (IF counts[t][d] = None THEN [pulls |-> 0, notModified |-> 0] ELSE counts[t][d])
              = [pulls |-> all, notModified |-> not]
        BY <2>1 DEF RowExact, all, not
      <3>4. row = [pulls |-> all + 1, notModified |-> not + r.notModified]
        <4>1. CASE counts[t][d] = None
          <5>1. all = 0 /\ not = 0
            BY <3>3, <4>1
          <5>2. row = [pulls |-> 1, notModified |-> r.notModified]
            BY <2>3, <4>1
          <5> QED BY <5>1, <5>2
        <4>2. CASE counts[t][d] # None
          <5>1. counts[t][d].pulls = all /\ counts[t][d].notModified = not
            BY <3>3, <4>2
          <5> QED BY <2>3, <4>2, <5>1
        <4> QED BY <4>1, <4>2
      <3> QED BY <1>2, <1>5, <2>3, <3>1, <3>2, <3>4 DEF RowExact
    <2> QED BY <2>2, <2>3
  <1> QED BY <1>1, <1>3, <1>4, <1>6 DEF PullInv

\* CountPull's UPDATE, when the row is there.
LEMMA CountUpdateInv ==
    ASSUME PullInv, NEW h \in Handlers, CountUpdate(h)
    PROVE  PullInv'
  <1> DEFINE r == handler[h]
  <1>1. r.pc = "update" /\ r \in HandlerRecords /\ UNCHANGED <<now, lastUsed, touched>>
    BY DEF CountUpdate, PullInv, PullTypes, limiterVars
  <1>2. /\ r.token \in Tokens /\ r.day \in Days /\ r.notModified \in {0, 1}
        /\ [r EXCEPT !.pc = "insert"] \in HandlerRecords
    BY <1>1 DEF HandlerRecords, Idle
  <1>3. CASE counts[r.token][r.day] = None
    <2>1. Go(h, [r EXCEPT !.pc = "insert"]) /\ UNCHANGED <<counts, counted>>
      BY <1>3 DEF CountUpdate
    <2> QED BY <1>1, <1>2, <2>1, Goes, QuietPull
  <1>4. CASE counts[r.token][r.day] # None
    <2> DEFINE old == counts[r.token][r.day]
               row == [pulls |-> old.pulls + 1, notModified |-> old.notModified + r.notModified]
    <2>1. Count(r) /\ Go(h, Idle) /\ counts' = [counts EXCEPT ![r.token][r.day] = row]
      BY <1>4 DEF CountUpdate, Done, Add
    <2>2. old \in Rows
      BY <1>2, <1>4 DEF PullInv, PullTypes
    <2>3. row \in Rows
      BY <1>2, <2>2 DEF Rows
    <2>4. handler' \in [Handlers -> HandlerRecords]
      BY <2>1, IdleIsRecord, Goes
    <2> HIDE DEF r
    <2> QED BY <1>1, <1>2, <1>4, <2>1, <2>3, <2>4, RowAdds
  <1> QED BY <1>3, <1>4

\* CountPull's INSERT, whether or not another handler made the row meanwhile.
LEMMA CountInsertInv ==
    ASSUME PullInv, NEW h \in Handlers, CountInsert(h)
    PROVE  PullInv'
  <1> DEFINE r   == handler[h]
             old == counts[r.token][r.day]
             row == IF old = None THEN [pulls |-> 1, notModified |-> r.notModified]
                    ELSE [pulls |-> old.pulls + 1, notModified |-> old.notModified + r.notModified]
  <1>1. /\ r.pc = "insert" /\ r \in HandlerRecords /\ UNCHANGED <<now, lastUsed, touched>>
        /\ Count(r) /\ Go(h, [r EXCEPT !.pc = "sweep"])
        /\ counts' = Inserted(r.token, r.day, r.notModified)
    BY DEF CountInsert, PullInv, PullTypes, limiterVars
  <1>2. /\ r.token \in Tokens /\ r.day \in Days /\ r.notModified \in {0, 1}
        /\ [r EXCEPT !.pc = "sweep"] \in HandlerRecords
    BY <1>1 DEF HandlerRecords, Idle
  <1>3. old \in Rows \cup {None}
    BY <1>2 DEF PullInv, PullTypes
  <1>4. row \in Rows
    BY <1>2, <1>3 DEF Rows
  <1>5. counts' = [counts EXCEPT ![r.token][r.day] = row]
    <2>1. CASE old = None
      BY <1>1, <2>1 DEF Inserted
    <2>2. CASE old # None
      BY <1>1, <2>2 DEF Inserted, Add
    <2> QED BY <2>1, <2>2
  <1>6. handler' \in [Handlers -> HandlerRecords]
    BY <1>1, <1>2, Goes
  <1> HIDE DEF r
  <1>7. /\ old = None => row = [pulls |-> 1, notModified |-> r.notModified]
        /\ old # None => row = [pulls |-> old.pulls + 1, notModified |-> old.notModified + r.notModified]
    OBVIOUS
  <1> HIDE DEF row
  <1> QED BY <1>1, <1>2, <1>4, <1>5, <1>6, <1>7, RowAdds

\* The DELETE takes no row of a day that is kept.
LEMMA CountSweepInv ==
    ASSUME PullInv, NEW h \in Handlers, CountSweep(h)
    PROVE  PullInv'
  <1> DEFINE r == handler[h]
  <1>1. /\ r.pc = "sweep" /\ r \in HandlerRecords /\ UNCHANGED <<now, lastUsed, touched, counted>>
        /\ Go(h, Idle)
        /\ counts' = [counts EXCEPT ![r.token] =
                        [d \in Days |-> IF d < Today - Retention THEN None ELSE counts[r.token][d]]]
    BY DEF CountSweep, PullInv, PullTypes, limiterVars, Done
  <1>2. r.token \in Tokens
    BY <1>1 DEF HandlerRecords, Idle
  <1>3. handler' \in [Handlers -> HandlerRecords]
    BY <1>1, IdleIsRecord, Goes
  <1>4. Today \in Nat /\ Retention \in Nat
    BY TodayIsDay, AccessAssumption DEF PullInv, PullTypes
  <1> HIDE DEF r
  <1>5. /\ counts' \in [Tokens -> [Days -> Rows \cup {None}]]
        /\ \A t \in Tokens, d \in Days : ~(d < Today - Retention) => counts'[t][d] = counts[t][d]
    BY <1>1, <1>2 DEF PullInv, PullTypes
  <1>6. PullTypes'
    BY <1>1, <1>3, <1>5 DEF PullInv, PullTypes
  <1>7. LastInv' /\ CountedInv'
    BY <1>1 DEF PullInv, LastInv, CountedInv
  <1>8. RowsInv'
    <2> SUFFICES ASSUME NEW t \in Tokens, NEW d \in Days, d >= Today - Retention
                 PROVE  RowExact(counts'[t][d], counted, t, d)
      BY <1>1 DEF RowsInv, Today
    <2>1. ~(d < Today - Retention)
      <3>1. d \in Int
        BY DEF Days
      <3> QED BY <1>4, <3>1
    <2>2. counts'[t][d] = counts[t][d]
      BY <1>5, <2>1
    <2> QED BY <2>2 DEF PullInv, RowsInv
  <1> QED BY <1>6, <1>7, <1>8 DEF PullInv

LEMMA InitPull == Init => PullInv
  <1> SUFFICES ASSUME Init PROVE PullInv
    OBVIOUS
  <1>1. PullTypes
    <2>1. now \in 0..MaxTime
      BY LimitAssumption DEF Init, LimiterInit
    <2>2. handler \in [Handlers -> HandlerRecords]
      BY IdleIsRecord DEF Init
    <2>3. counts \in [Tokens -> [Days -> Rows \cup {None}]]
      BY DEF Init
    <2> QED BY <2>1, <2>2, <2>3 DEF Init, PullTypes
  <1>2. LastInv
    BY AccessAssumption DEF Init, LastInv
  <1>3. CountedInv
    BY FS_EmptySet DEF Init, CountedInv
  <1>4. RowsInv
    <2>1. \A t, d, kinds : Kind(counted, t, d, kinds) = {}
      BY DEF Init, Kind
    <2>2. \A t \in Tokens, d \in Days : counts[t][d] = None
      BY DEF Init
    <2> QED BY <2>1, <2>2, FS_EmptySet DEF RowsInv, RowExact
  <1> QED BY <1>1, <1>2, <1>3, <1>4 DEF PullInv

LEMMA NextPull == PullInv /\ [Next]_vars => PullInv'
  <1> SUFFICES ASSUME PullInv, [Next]_vars PROVE PullInv'
    OBVIOUS
  <1>1. CASE Clock
    BY <1>1, ClockInv
  <1>2. CASE \/ \E k \in Keys : Login(k)
             \/ \E t \in Tokens : CreateToken(t) \/ \E z \in Sets : RevokeToken(t, z)
             \/ \E z \in Sets : Publish(z)
             \/ UNCHANGED vars
    BY <1>2, OwnerSteps
  <1>3. ASSUME NEW h \in Handlers,
               \/ Arrive(h) \/ Auth(h) \/ Limit(h) \/ Touch(h) \/ ReadPublished(h)
               \/ CountUpdate(h) \/ CountInsert(h) \/ CountSweep(h) \/ Fail(h)
        PROVE  PullInv'
    BY <1>3, EarlySteps, TouchInv, CountUpdateInv, CountInsertInv, CountSweepInv
  <1> QED BY <1>1, <1>2, <1>3 DEF Next, Logins, Pulls

------------------------------------------------------------------------------
(* The theorems about pulls and sign-ins together.                         *)

\* The invariant of pulls holds in every reachable state.
THEOREM PullInvariant == Spec => []PullInv
  BY InitPull, NextPull, PTL DEF Spec

\* The row of every day that is kept counts exactly the pulls that were
\* counted and the 304s among them (CountPull), for any number of handlers.
THEOREM CountsExactHolds == Spec => []CountsExact
  <1>1. PullInv => CountsExact
    BY Zenon DEF PullInv, RowsInv, RowExact, Kind, CountsExact, CountedOf
  <1> QED BY <1>1, PullInvariant, PTL

\* last_used_at is never later than the last recorded pull and at most
\* TouchEvery earlier (TouchToken), for any number of handlers.
THEOREM LastUsedRightHolds == Spec => []LastUsedRight
  <1>1. PullInv => LastUsedRight
    BY DEF PullInv, LastInv, LastUsedRight
  <1> QED BY <1>1, PullInvariant, PTL

\* Sign-ins are limited by keyedLimiter, whatever is pulled meanwhile.
THEOREM SignInsLimited == Spec => LimiterSpec /\ NeverForgiven
  <1>1. Init => LimiterInit
    BY DEF Init
  <1>2. [Next]_vars => [LimiterNext]_limiterVars
    <2> SUFFICES ASSUME [Next]_vars PROVE [LimiterNext]_limiterVars
      OBVIOUS
    <2>1. CASE Clock \/ Logins
      BY <2>1 DEF Clock, Logins, Login, LimiterNext
    <2>2. CASE Pulls
      <3>1. ASSUME NEW h \in Handlers, Limit(h) PROVE UNCHANGED limiterVars
        BY <3>1 DEF Limit, PerToken!Allow, limiterVars
      <3>2. CASE ~\E h \in Handlers : Limit(h)
        BY <2>2, <3>2 DEF Pulls, CreateToken, RevokeToken, Publish, Arrive, Auth, Touch,
             ReadPublished, CountUpdate, CountInsert, CountSweep, Fail
      <3> QED BY <3>1, <3>2
    <2>3. CASE UNCHANGED vars
      BY <2>3 DEF vars
    <2> QED BY <2>1, <2>2, <2>3 DEF Next
  <1>3. Spec => LimiterSpec
    BY <1>1, <1>2, PTL DEF Spec, LimiterSpec
  <1> QED BY <1>3, LimiterRefines, PTL
==============================================================================
