------------------------- MODULE StatsChannelProofs -------------------------
(***************************************************************************)
(* Proofs about StatsChannel: no line is counted twice, and none is missed *)
(* between two reads while nothing is lost, for any number of pods and of  *)
(* requests, and any interval.                                             *)
(*                                                                         *)
(* The sums make it hard: a sum over a set is defined by recursion, and the *)
(* facts needed of it are proved by induction.  The first part does that,   *)
(* with sets in the place of predicates.                                    *)
(***************************************************************************)
EXTENDS StatsChannel, FiniteSetTheorems, WellFoundedInduction, TLAPS
-----------------------------------------------------------------------------
(* Induction, over sets instead of predicates.                             *)

LessRel == OpToRel(<, Nat)

LEMMA LessWF == IsWellFoundedOn(LessRel, Nat)
  BY NatLessThanWellFounded DEF LessRel

LEMMA LessIs == \A x, y \in Nat : <<x, y>> \in LessRel <=> x < y
  BY DEF LessRel, OpToRel

LEMMA Least ==
    ASSUME NEW T, T \subseteq Nat, T # {}
    PROVE  \E n \in T : \A m \in T : n <= m
  <1>1. PICK x \in T : \A y \in T : ~(<<y, x>> \in LessRel)
    BY LessWF, WFMin
  <1>2. ASSUME NEW m \in T PROVE x <= m
    <2>1. m \in Nat /\ x \in Nat
      OBVIOUS
    <2>2. ~(m < x)
      BY <1>1, <2>1, LessIs
    <2> QED BY <2>1, <2>2
  <1> QED BY <1>2

LEMMA SetInduction ==
    ASSUME NEW B, 0 \in B, \A n \in Nat : n \in B => n + 1 \in B
    PROVE  Nat \subseteq B
  <1> SUFFICES ASSUME Nat \ B # {} PROVE FALSE
    OBVIOUS
  <1>1. PICK n \in Nat \ B : \A m \in Nat \ B : n <= m
    BY Least
  <1>2. n # 0 /\ n - 1 \in Nat /\ ~(n <= n - 1) /\ n = (n - 1) + 1
    BY <1>1
  <1>3. n - 1 \in B
    BY <1>1, <1>2
  <1> QED BY <1>1, <1>2, <1>3

Pick(s) == CHOOSE x \in s : TRUE

LEMMA Picked ==
    ASSUME NEW s, s # {}
    PROVE  Pick(s) \in s
  BY DEF Pick

\* What holds of the empty set, and of a set once it holds of the set without
\* the element that is picked first, holds of every subset.
LEMMA SubsetInduction ==
    ASSUME NEW S, IsFiniteSet(S), NEW B, {} \in B,
           \A s \in SUBSET S : s # {} /\ s \ {Pick(s)} \in B => s \in B
    PROVE  SUBSET S \subseteq B
  <1> DEFINE Bad == (SUBSET S) \ B
             T == {Cardinality(s) : s \in Bad}
  <1> SUFFICES ASSUME Bad # {} PROVE FALSE
    OBVIOUS
  <1>1. \A s \in SUBSET S : IsFiniteSet(s) /\ Cardinality(s) \in Nat
    BY FS_Subset, FS_CardinalityType
  <1>2. T \subseteq Nat /\ T # {}
    BY <1>1
  <1>3. PICK n \in T : \A m \in T : n <= m
    BY <1>2, Least
  <1>4. PICK s : s \in SUBSET S /\ s \notin B /\ n = Cardinality(s)
    BY <1>3
  <1>5. s # {} /\ Pick(s) \in s /\ s \ {Pick(s)} \in SUBSET S
    <2> HIDE DEF T, Bad
    <2>1. s # {} /\ s \in SUBSET S
      BY <1>4
    <2>2. Pick(s) \in s
      BY <2>1, Picked
    <2> QED BY <2>1, <2>2
  <1>6. /\ IsFiniteSet(s) /\ Cardinality(s) \in Nat
        /\ Cardinality(s \ {Pick(s)}) = Cardinality(s) - 1
    <2>1. IsFiniteSet(s) /\ Cardinality(s) \in Nat
      BY <1>1, <1>4
    <2> HIDE DEF T, Bad
    <2> QED BY <1>5, <2>1, FS_RemoveElement
  <1>7. s \ {Pick(s)} \in B
    <2> SUFFICES ASSUME s \ {Pick(s)} \in Bad PROVE FALSE
      BY <1>5
    <2>1. Cardinality(s \ {Pick(s)}) \in T
      OBVIOUS
    <2>2. n <= Cardinality(s) - 1
      BY <1>3, <1>6, <2>1
    <2> HIDE DEF T, Bad
    <2> QED BY <1>4, <1>6, <2>2
  <1> HIDE DEF T, Bad
  <1> QED BY <1>4, <1>5, <1>7
-----------------------------------------------------------------------------
(* Sums.                                                                   *)

\* g sums up f, the picked element of a set first.
Adds(f, S, g) == g = [s \in SUBSET S |-> IF s = {} THEN 0 ELSE f[Pick(s)] + g[s \ {Pick(s)}]]

LEMMA Unfold ==
    ASSUME NEW f
    PROVE  Total(f) = (CHOOSE g : Adds(f, DOMAIN f, g))[DOMAIN f]
  BY DEF Total, FoldFunction, FoldFunctionOnSet, MapThenFoldSet, Pick, Adds

\* There is such a g: up to a size, and hence for all subsets.
LEMMA AddsExists ==
    ASSUME NEW f, NEW S, IsFiniteSet(S)
    PROVE  \E g : Adds(f, S, g)
  <1> DEFINE Small(n) == {s \in SUBSET S : Cardinality(s) <= n}
             Up(n, h) == h = [s \in Small(n) |-> IF s = {} THEN 0 ELSE f[Pick(s)] + h[s \ {Pick(s)}]]
             B == {n \in Nat : \E h : Up(n, h)}
  <1>1. \A s \in SUBSET S : IsFiniteSet(s) /\ Cardinality(s) \in Nat /\ Cardinality(s) <= Cardinality(S)
    BY FS_Subset, FS_CardinalityType
  <1>2. ASSUME NEW s \in SUBSET S, s # {}
        PROVE  s \ {Pick(s)} \in SUBSET S /\ Cardinality(s \ {Pick(s)}) = Cardinality(s) - 1
    BY <1>1, <1>2, FS_RemoveElement, Picked
  <1>3. 0 \in B
    <2> DEFINE h == [s \in Small(0) |-> 0]
    <2>1. \A s \in Small(0) : s = {}
      <3>1. \A s \in SUBSET S : Cardinality(s) = 0 => s = {}
        BY <1>1, FS_EmptySet
      <3>2. \A s \in SUBSET S : Cardinality(s) <= 0 => Cardinality(s) = 0
        BY <1>1
      <3> QED BY <3>1, <3>2
    <2>2. Up(0, h)
      BY <2>1
    <2> HIDE DEF Up
    <2> QED BY <2>2
  <1>4. ASSUME NEW n \in Nat, n \in B PROVE n + 1 \in B
    <2>1. PICK h : Up(n, h)
      BY <1>4
    <2> DEFINE h1 == [s \in Small(n + 1) |-> IF s = {} THEN 0 ELSE f[Pick(s)] + h[s \ {Pick(s)}]]
    <2>2. \A s \in Small(n) : h[s] = IF s = {} THEN 0 ELSE f[Pick(s)] + h[s \ {Pick(s)}]
      <3> HIDE DEF Small
      <3> QED BY <2>1
    <2>3. \A s \in Small(n) : s \in Small(n + 1)
      BY <1>1
    <2>4. \A s \in Small(n) : h1[s] = h[s]
      <3> HIDE DEF Small
      <3> QED BY <2>2, <2>3
    <2>5. \A s \in Small(n + 1) : s # {} => s \ {Pick(s)} \in Small(n)
      <3> SUFFICES ASSUME NEW s \in SUBSET S, Cardinality(s) <= n + 1, s # {} PROVE Cardinality(s) - 1 <= n
        BY <1>2
      <3> QED BY <1>1
    <2>6. Up(n + 1, h1)
      <3> HIDE DEF Small
      <3>1. \A s \in Small(n + 1) : s # {} => h1[s \ {Pick(s)}] = h[s \ {Pick(s)}]
        BY <2>4, <2>5
      <3>2. h1 = [s \in Small(n + 1) |-> IF s = {} THEN 0 ELSE f[Pick(s)] + h1[s \ {Pick(s)}]]
        BY <3>1
      <3> QED BY <3>2
    <2> HIDE DEF Up
    <2> QED BY <2>6
  <1>5. Cardinality(S) \in B
    <2> HIDE DEF B
    <2>1. Nat \subseteq B
      BY <1>3, <1>4, SetInduction
    <2> QED BY <1>1, <2>1, FS_CardinalityType
  <1>6. Small(Cardinality(S)) = SUBSET S
    BY <1>1
  <1>7. PICK h : Up(Cardinality(S), h)
    BY <1>5
  <1>8. Adds(f, S, h)
    <2> HIDE DEF Small
    <2> QED BY <1>6, <1>7 DEF Adds
  <1> QED BY <1>8

\* g sums up f over the subsets of S, up to the total of f.
Sums(f, S, g) ==
    /\ Total(f) = g[S] /\ g[{}] = 0
    /\ \A s \in SUBSET S : s # {} => g[s] = f[Pick(s)] + g[s \ {Pick(s)}]

LEMMA TotalIs ==
    ASSUME NEW S, IsFiniteSet(S), NEW f, DOMAIN f = S
    PROVE  \E g : Sums(f, S, g)
  <1> DEFINE g == CHOOSE g : Adds(f, S, g)
  <1>1. Adds(f, S, g)
    BY AddsExists
  <1>2. Total(f) = g[S]
    BY Unfold
  <1> HIDE DEF g
  <1>3. \A s \in SUBSET S : g[s] = IF s = {} THEN 0 ELSE f[Pick(s)] + g[s \ {Pick(s)}]
    BY <1>1 DEF Adds
  <1>4. {} \in SUBSET S
    OBVIOUS
  <1>5. Sums(f, S, g)
    BY <1>2, <1>3, <1>4 DEF Sums
  <1> QED BY <1>5

LEMMA SumsOf ==
    ASSUME NEW S, IsFiniteSet(S), NEW T, NEW f \in [S -> T]
    PROVE  \E g : Sums(f, S, g)
  <1>1. DOMAIN f = S
    OBVIOUS
  <1> QED BY <1>1, TotalIs

LEMMA TotalType ==
    ASSUME NEW S, IsFiniteSet(S), NEW f \in [S -> Int]
    PROVE  Total(f) \in Int
  <1>1. PICK g : Sums(f, S, g)
    BY SumsOf
  <1> DEFINE B == {s \in SUBSET S : g[s] \in Int}
  <1>2. {} \in B
    BY <1>1 DEF Sums
  <1>3. ASSUME NEW s \in SUBSET S, s # {}, s \ {Pick(s)} \in B PROVE s \in B
    <2>1. s # {} /\ Pick(s) \in s
      BY <1>3, Picked
    <2>2. g[s] = f[Pick(s)] + g[s \ {Pick(s)}]
      BY <1>1, <2>1 DEF Sums
    <2>3. f[Pick(s)] \in Int /\ g[s \ {Pick(s)}] \in Int
      BY <1>3, <2>1
    <2>4. g[s] \in Int
      BY <2>2, <2>3
    <2> QED BY <2>4
  <1> HIDE DEF B
  <1>4. SUBSET S \subseteq B
    BY <1>2, <1>3, SubsetInduction
  <1>5. S \in B
    BY <1>4
  <1> QED BY <1>1, <1>5 DEF B, Sums

LEMMA TotalNat ==
    ASSUME NEW S, IsFiniteSet(S), NEW f \in [S -> Nat]
    PROVE  Total(f) \in Nat
  <1>1. PICK g : Sums(f, S, g)
    BY SumsOf
  <1> DEFINE B == {s \in SUBSET S : g[s] \in Nat}
  <1>2. {} \in B
    BY <1>1 DEF Sums
  <1>3. ASSUME NEW s \in SUBSET S, s # {}, s \ {Pick(s)} \in B PROVE s \in B
    <2>1. s # {} /\ Pick(s) \in s
      BY <1>3, Picked
    <2>2. g[s] = f[Pick(s)] + g[s \ {Pick(s)}]
      BY <1>1, <2>1 DEF Sums
    <2>3. f[Pick(s)] \in Nat /\ g[s \ {Pick(s)}] \in Nat
      BY <1>3, <2>1
    <2>4. g[s] \in Nat
      BY <2>2, <2>3
    <2> QED BY <2>4
  <1> HIDE DEF B
  <1>4. SUBSET S \subseteq B
    BY <1>2, <1>3, SubsetInduction
  <1>5. S \in B
    BY <1>4
  <1> QED BY <1>1, <1>5 DEF B, Sums

\* A sum of sums.
LEMMA TotalPlus ==
    ASSUME NEW S, IsFiniteSet(S), NEW f \in [S -> Int], NEW g \in [S -> Int], NEW h \in [S -> Int],
           \A x \in S : h[x] = f[x] + g[x]
    PROVE  Total(h) = Total(f) + Total(g)
  <1>1. PICK a : Sums(f, S, a)
    BY SumsOf
  <1>2. PICK b : Sums(g, S, b)
    BY SumsOf
  <1>3. PICK c : Sums(h, S, c)
    BY SumsOf
  <1> DEFINE B == {s \in SUBSET S : a[s] \in Int /\ b[s] \in Int /\ c[s] = a[s] + b[s]}
  <1>4. {} \in B
    BY <1>1, <1>2, <1>3 DEF Sums
  <1>5. ASSUME NEW s \in SUBSET S, s # {}, s \ {Pick(s)} \in B PROVE s \in B
    <2> DEFINE x == Pick(s)
               t == s \ {Pick(s)}
    <2>1. s # {} /\ x \in s /\ x \in S
      BY <1>5, Picked
    <2>2. a[t] \in Int /\ b[t] \in Int /\ c[t] = a[t] + b[t]
      BY <1>5
    <2>3. a[s] = f[x] + a[t]
      BY <1>1, <2>1 DEF Sums
    <2>4. b[s] = g[x] + b[t]
      BY <1>2, <2>1 DEF Sums
    <2>5. c[s] = h[x] + c[t]
      BY <1>3, <2>1 DEF Sums
    <2> HIDE DEF x, t
    <2>6. h[x] = f[x] + g[x] /\ f[x] \in Int /\ g[x] \in Int
      BY <2>1
    <2>7. a[s] \in Int /\ b[s] \in Int /\ c[s] = a[s] + b[s]
      BY <2>2, <2>3, <2>4, <2>5, <2>6
    <2> QED BY <2>7
  <1> HIDE DEF B
  <1>6. SUBSET S \subseteq B
    BY <1>4, <1>5, SubsetInduction
  <1>7. S \in B
    BY <1>6
  <1> QED BY <1>1, <1>2, <1>3, <1>7 DEF B, Sums

\* A function that is zero but at one place, if anywhere.
LEMMA TotalPoint ==
    ASSUME NEW S, IsFiniteSet(S), NEW f \in [S -> Int], NEW p, \A x \in S : x # p => f[x] = 0
    PROVE  Total(f) = IF p \in S THEN f[p] ELSE 0
  <1>1. PICK g : Sums(f, S, g)
    BY SumsOf
  <1> DEFINE B == {s \in SUBSET S : g[s] = IF p \in s THEN f[p] ELSE 0}
  <1>2. {} \in B
    BY <1>1 DEF Sums
  <1>3. ASSUME NEW s \in SUBSET S, s # {}, s \ {Pick(s)} \in B PROVE s \in B
    <2> DEFINE x == Pick(s)
               t == s \ {Pick(s)}
    <2>1. s # {} /\ x \in s /\ x \in S
      BY <1>3, Picked
    <2>2. g[t] = IF p \in t THEN f[p] ELSE 0
      BY <1>3
    <2>3. g[s] = f[x] + g[t]
      BY <1>1, <2>1 DEF Sums
    <2>4. t = s \ {x}
      OBVIOUS
    <2> HIDE DEF x, t
    <2>5. f[x] \in Int /\ (x # p => f[x] = 0) /\ (p \in s => f[p] \in Int)
      BY <2>1
    <2>6. g[s] = IF p \in s THEN f[p] ELSE 0
      <3>1. CASE x = p
        <4>1. p \in s /\ p \notin t
          BY <2>1, <2>4, <3>1
        <4> QED BY <4>1, <2>2, <2>3, <2>5, <3>1
      <3>2. CASE x # p
        <4>1. p \in s <=> p \in t
          BY <2>4, <3>2
        <4> QED BY <4>1, <2>2, <2>3, <2>5, <3>2
      <3> QED BY <3>1, <3>2
    <2> QED BY <2>6
  <1> HIDE DEF B
  <1>4. SUBSET S \subseteq B
    BY <1>2, <1>3, SubsetInduction
  <1>5. S \in B
    BY <1>4
  <1> QED BY <1>1, <1>5 DEF B, Sums

\* One value changes.
LEMMA TotalUpdate ==
    ASSUME NEW S, IsFiniteSet(S), NEW f \in [S -> Int], NEW p \in S, NEW g \in [S -> Int],
           \A x \in S : x # p => g[x] = f[x]
    PROVE  Total(g) = Total(f) + (g[p] - f[p])
  <1> DEFINE v == g[p] - f[p]
             d == [x \in S |-> IF x = p THEN v ELSE 0]
  <1>1. v \in Int /\ \A x \in S : g[x] \in Int /\ f[x] \in Int
    OBVIOUS
  <1>2. g[p] = f[p] + v
    BY <1>1
  <1> HIDE DEF v
  <1>3. d \in [S -> Int] /\ \A x \in S : d[x] = IF x = p THEN v ELSE 0
    BY <1>1
  <1> HIDE DEF d
  <1>4. Total(d) = v
    <2>1. (\A x \in S : x # p => d[x] = 0) /\ d[p] = v
      BY <1>3
    <2> QED BY <1>3, <2>1, TotalPoint
  <1>5. ASSUME NEW x \in S PROVE g[x] = f[x] + d[x]
    <2>1. CASE x = p
      BY <2>1, <1>2, <1>3
    <2>2. CASE x # p
      BY <2>2, <1>1, <1>3
    <2> QED BY <2>1, <2>2
  <1>6. Total(g) = Total(f) + Total(d)
    BY <1>5, <1>3, TotalPlus
  <1> QED BY <1>4, <1>6 DEF v

\* No value is more.
LEMMA TotalLess ==
    ASSUME NEW S, IsFiniteSet(S), NEW f \in [S -> Int], NEW g \in [S -> Int], \A x \in S : f[x] <= g[x]
    PROVE  Total(f) <= Total(g)
  <1> DEFINE d == [x \in S |-> g[x] - f[x]]
  <1>1. d \in [S -> Nat] /\ d \in [S -> Int] /\ \A x \in S : g[x] = f[x] + d[x]
    OBVIOUS
  <1> HIDE DEF d
  <1>2. Total(g) = Total(f) + Total(d) /\ Total(d) \in Nat /\ Total(f) \in Int
    BY <1>1, TotalPlus, TotalNat, TotalType
  <1> QED BY <1>2

LEMMA TotalZero ==
    ASSUME NEW S, IsFiniteSet(S), NEW f \in [S -> Int], \A x \in S : f[x] = 0
    PROVE  Total(f) = 0
  <1>1. PICK p : p \notin S
    BY NoSetContainsEverything
  <1> QED BY <1>1, TotalPoint
-----------------------------------------------------------------------------
(* The inductive invariant *)

\* Where the pass is, and what it has then.
Place ==
    /\ waiting # None <=> at = "wait"
    /\ at = "wait" => slot[waiting] # None /\ slot[waiting].lines = st.acc
    /\ at # "idle" => st # None
    /\ at # "scrape" => samples = NoReads
    /\ \A p \in todo : samples[p] = None

\* What the next reads of a pod would count: a read that the pass has made and
\* not added yet, and the growth since.
Unread(prev, cur, c) == IF cur = None THEN Growth(prev, c) ELSE Growth(prev, cur) + Grow(cur, c)

\* The sums, of given values: lines on the way, still to be read, added by a
\* pass, and seen between the first and the latest reads.
Way(sl) == Total([r \in Slots |-> Pending(sl[r])])
Left(s, x, c) == Total([p \in Pods |-> IF s = None THEN 0 ELSE Unread(s.pods[p], x[p], c[p])])
Grown(s, x) == Total([p \in Pods |-> IF x[p] # None THEN Growth(s.pods[p], x[p]) ELSE 0])
Seen(a, b) == Total([p \in Pods |-> Between(a[p], b[p])])

\* What is stored, on its way, or held.
Counted == reports + OnTheWay + Held

\* No line is counted twice, not even one that is still to be read.
Once == Counted + Left(st, samples, counter) <= lines + twice

\* As long as nothing was lost: the state is kept, nobody but the reporter has a
\* request, and the reads of a pod only grow.
NoGap ==
    /\ enabled
    /\ \A r \in Slots : slot[r] # None => r = waiting
    /\ st = None => first = NoReads
    /\ Counted = Seen(first, last)

\* As long as nothing was lost, of one pod, given what the reporter last read of
\* it (prev), what this pass read (cur), its phase and counter, whether it still
\* has to be read in this pass, and the first and the latest read.
PodRead(prev, cur, ph, c, due, a, b) ==
    /\ prev # None => a # None /\ b = prev
    /\ a # None => b # None /\ ph # "new"
    /\ cur # None => ph # "new"
    /\ a # None /\ prev = None => ph = "gone" /\ cur = None
    /\ ph = "running" /\ prev # None => c >= prev
    /\ ph = "running" /\ cur # None => c >= cur
    /\ prev # None /\ cur # None => cur >= prev
    /\ due /\ a # None /\ ph = "running" => cur # None

PrevRead(s, p) == IF s = None THEN None ELSE s.pods[p]

PodReads ==
    \A p \in Pods : PodRead(PrevRead(st, p), samples[p], phase[p], counter[p],
                            at = "scrape" /\ p \notin todo, first[p], last[p])

IInv ==
    /\ TypeOK
    /\ Place
    /\ Once
    /\ ~gap => NoGap /\ PodReads
-----------------------------------------------------------------------------
(* The sums *)

LEMMA GrowType == \A a, b \in Nat : Grow(a, b) \in Nat
  BY DEF Grow

LEMMA GrowthType == \A a \in Nat \cup {None}, b \in Nat : Growth(a, b) \in Nat
  BY GrowType DEF Growth

LEMMA UnreadType == \A a, b \in Nat \cup {None}, c \in Nat : Unread(a, b, c) \in Nat
  <1> SUFFICES ASSUME NEW a \in Nat \cup {None}, NEW b \in Nat \cup {None}, NEW c \in Nat
               PROVE  Unread(a, b, c) \in Nat
    OBVIOUS
  <1>1. CASE b = None
    BY <1>1, GrowthType DEF Unread
  <1>2. CASE b # None
    <2>1. b \in Nat /\ Growth(a, b) \in Nat /\ Grow(b, c) \in Nat
      BY <1>2, GrowthType, GrowType
    <2> QED BY <1>2, <2>1 DEF Unread
  <1> QED BY <1>1, <1>2

\* A counter that goes up by one adds at most one.
LEMMA UnreadLine ==
    \A a, b \in Nat \cup {None}, c \in Nat : Unread(a, b, c + 1) <= Unread(a, b, c) + 1
  <1>1. \A x, c \in Nat : Grow(x, c + 1) <= Grow(x, c) + 1
    BY DEF Grow
  <1>2. \A x \in Nat \cup {None}, c \in Nat : Growth(x, c + 1) <= Growth(x, c) + 1
    BY <1>1 DEF Growth
  <1> SUFFICES ASSUME NEW a \in Nat \cup {None}, NEW b \in Nat \cup {None}, NEW c \in Nat
               PROVE  Unread(a, b, c + 1) <= Unread(a, b, c) + 1
    OBVIOUS
  <1>3. CASE b = None
    BY <1>2, <1>3 DEF Unread
  <1>4. CASE b # None
    <2>1. b \in Nat /\ c + 1 \in Nat
      BY <1>4
    <2>2. Growth(a, b) \in Nat /\ Grow(b, c) \in Nat /\ Grow(b, c + 1) \in Nat /\ Grow(b, c + 1) <= Grow(b, c) + 1
      BY <2>1, <1>1, GrowthType, GrowType
    <2> QED BY <1>4, <2>2 DEF Unread
  <1> QED BY <1>3, <1>4

\* A counter that starts again adds nothing to what was read.
LEMMA UnreadReset ==
    \A a, b \in Nat \cup {None}, c \in Nat : Unread(a, b, 0) <= Unread(a, b, c)
  <1>1. \A x \in Nat : Grow(x, 0) = 0
    BY DEF Grow
  <1>2. \A x \in Nat \cup {None} : Growth(x, 0) = 0
    BY <1>1 DEF Growth
  <1> SUFFICES ASSUME NEW a \in Nat \cup {None}, NEW b \in Nat \cup {None}, NEW c \in Nat
               PROVE  Unread(a, b, 0) <= Unread(a, b, c)
    OBVIOUS
  <1>3. CASE b = None
    <2>1. Unread(a, b, 0) = 0 /\ Unread(a, b, c) \in Nat
      BY <1>2, <1>3, UnreadType DEF Unread
    <2> QED BY <2>1
  <1>4. CASE b # None
    <2>1. b \in Nat
      BY <1>4
    <2>2. Growth(a, b) \in Nat /\ Grow(b, c) \in Nat /\ Grow(b, 0) = 0
      BY <2>1, <1>1, GrowthType, GrowType
    <2> QED BY <1>4, <2>2 DEF Unread
  <1> QED BY <1>3, <1>4

\* A read moves growth from the counter to the pass.
LEMMA UnreadScrape ==
    \A a \in Nat \cup {None}, c \in Nat : Unread(a, c, c) = Unread(a, None, c)
  <1> SUFFICES ASSUME NEW a \in Nat \cup {None}, NEW c \in Nat PROVE Unread(a, c, c) = Unread(a, None, c)
    OBVIOUS
  <1>1. c # None /\ Growth(a, c) \in Nat
    BY StatsAssumption, GrowthType
  <1>2. Grow(c, c) = 0
    BY DEF Grow
  <1> QED BY <1>1, <1>2 DEF Unread

LEMMA PendingType == \A q \in Requests \cup {None} : Pending(q) \in Nat
  BY NoneAssumption DEF Pending, Requests

LEMMA WayType ==
    ASSUME NEW sl \in [Slots -> Requests \cup {None}]
    PROVE  Way(sl) \in Nat
  <1> DEFINE f == [r \in Slots |-> Pending(sl[r])]
  <1>1. f \in [Slots -> Nat]
    BY PendingType
  <1> HIDE DEF f
  <1>2. Total(f) \in Nat
    BY <1>1, TotalNat, StatsAssumption
  <1> QED BY <1>2 DEF f, Way

LEMMA WayUpdate ==
    ASSUME NEW sl \in [Slots -> Requests \cup {None}], NEW sm \in [Slots -> Requests \cup {None}],
           NEW r \in Slots, \A x \in Slots : x # r => sm[x] = sl[x]
    PROVE  Way(sm) = Way(sl) + (Pending(sm[r]) - Pending(sl[r]))
  <1> DEFINE f == [x \in Slots |-> Pending(sl[x])]
             g == [x \in Slots |-> Pending(sm[x])]
  <1>1. f \in [Slots -> Int] /\ g \in [Slots -> Int] /\ \A x \in Slots : x # r => g[x] = f[x]
    BY PendingType
  <1>2. f[r] = Pending(sl[r]) /\ g[r] = Pending(sm[r])
    OBVIOUS
  <1> HIDE DEF f, g
  <1>3. Total(g) = Total(f) + (g[r] - f[r])
    BY <1>1, TotalUpdate, StatsAssumption
  <1>4. Way(sl) = Total(f) /\ Way(sm) = Total(g)
    BY DEF Way, f, g
  <1> QED BY <1>2, <1>3, <1>4

LEMMA LeftType ==
    ASSUME NEW s \in States \cup {None}, NEW x \in Reads, NEW c \in [Pods -> Nat]
    PROVE  Left(s, x, c) \in Nat
  <1> DEFINE f == [p \in Pods |-> IF s = None THEN 0 ELSE Unread(s.pods[p], x[p], c[p])]
  <1>1. f \in [Pods -> Nat]
    BY UnreadType DEF States, Reads
  <1> HIDE DEF f
  <1>2. Total(f) \in Nat
    BY <1>1, TotalNat, StatsAssumption
  <1> QED BY <1>2 DEF f, Left

\* Nothing is left to read of pods that were never read.
LEMMA LeftNone ==
    ASSUME NEW s, NEW c \in [Pods -> Nat], s # None => s.pods = NoReads
    PROVE  Left(s, NoReads, c) = 0
  <1> DEFINE f == [p \in Pods |-> IF s = None THEN 0 ELSE Unread(s.pods[p], NoReads[p], c[p])]
  <1>1. f \in [Pods -> Int] /\ \A p \in Pods : f[p] = 0
    BY DEF Unread, Growth, NoReads
  <1> HIDE DEF f
  <1>2. Total(f) = 0
    BY <1>1, TotalZero, StatsAssumption
  <1> QED BY <1>2 DEF f, Left

LEMMA LeftDropped ==
    ASSUME NEW x, NEW c
    PROVE  Left(None, x, c) = 0
  <1> DEFINE f == [p \in Pods |-> IF None = None THEN 0 ELSE Unread(None.pods[p], x[p], c[p])]
  <1>1. f \in [Pods -> Int] /\ \A p \in Pods : f[p] = 0
    OBVIOUS
  <1> HIDE DEF f
  <1>2. Total(f) = 0
    BY <1>1, TotalZero, StatsAssumption
  <1> QED BY <1>2 DEF f, Left

\* The state changes, but not what it has of the pods.
LEMMA LeftSame ==
    ASSUME NEW s, NEW t, s # None, t # None, s.pods = t.pods, NEW x, NEW c
    PROVE  Left(t, x, c) = Left(s, x, c)
  BY DEF Left

\* The read or the counter of one pod changes.
LEMMA LeftUpdate ==
    ASSUME NEW s \in States, NEW x \in Reads, NEW c \in [Pods -> Nat], NEW y \in Reads, NEW d \in [Pods -> Nat],
           NEW p \in Pods, \A q \in Pods : q # p => x[q] = y[q] /\ c[q] = d[q]
    PROVE  Left(s, y, d) = Left(s, x, c) + (Unread(s.pods[p], y[p], d[p]) - Unread(s.pods[p], x[p], c[p]))
  <1> DEFINE f == [q \in Pods |-> IF s = None THEN 0 ELSE Unread(s.pods[q], x[q], c[q])]
             g == [q \in Pods |-> IF s = None THEN 0 ELSE Unread(s.pods[q], y[q], d[q])]
  <1>0. s # None
    BY NoneAssumption
  <1>1. f \in [Pods -> Int] /\ g \in [Pods -> Int]
    <2>1. \A q \in Pods : /\ s.pods[q] \in Nat \cup {None} /\ c[q] \in Nat /\ d[q] \in Nat
                          /\ x[q] \in Nat \cup {None} /\ y[q] \in Nat \cup {None}
      BY DEF States, Reads
    <2>2. ASSUME NEW q \in Pods
          PROVE  Unread(s.pods[q], x[q], c[q]) \in Nat /\ Unread(s.pods[q], y[q], d[q]) \in Nat
      <3> HIDE DEF f, g
      <3> QED BY <2>1, UnreadType
    <2> QED BY <2>2
  <1>2. \A q \in Pods : q # p => g[q] = f[q]
    OBVIOUS
  <1>3. f[p] = Unread(s.pods[p], x[p], c[p]) /\ g[p] = Unread(s.pods[p], y[p], d[p])
    BY <1>0
  <1> HIDE DEF f, g
  <1>4. Total(g) = Total(f) + (g[p] - f[p])
    BY <1>1, <1>2, TotalUpdate, StatsAssumption
  <1>5. Left(s, x, c) = Total(f) /\ Left(s, y, d) = Total(g)
    BY DEF Left, f, g
  <1> QED BY <1>3, <1>4, <1>5

LEMMA GrownType ==
    ASSUME NEW s \in States, NEW x \in Reads
    PROVE  Grown(s, x) \in Nat
  <1> DEFINE f == [p \in Pods |-> IF x[p] # None THEN Growth(s.pods[p], x[p]) ELSE 0]
  <1>1. f \in [Pods -> Nat]
    BY GrowthType DEF States, Reads
  <1> HIDE DEF f
  <1>2. Total(f) \in Nat
    BY <1>1, TotalNat, StatsAssumption
  <1> QED BY <1>2 DEF f, Grown

\* The growth a pass adds is not left to read after it.
LEMMA LeftAdded ==
    ASSUME NEW s \in States, NEW x \in Reads, NEW c \in [Pods -> Nat], NEW t \in States, t.pods = x
    PROVE  Grown(s, x) + Left(t, NoReads, c) <= Left(s, x, c)
  <1> DEFINE f == [p \in Pods |-> IF x[p] # None THEN Growth(s.pods[p], x[p]) ELSE 0]
             g == [p \in Pods |-> IF t = None THEN 0 ELSE Unread(t.pods[p], NoReads[p], c[p])]
             h == [p \in Pods |-> IF s = None THEN 0 ELSE Unread(s.pods[p], x[p], c[p])]
             k == [p \in Pods |-> f[p] + g[p]]
  <1>0. s # None /\ t # None /\ NoReads \in Reads
    BY NoneAssumption DEF NoReads, Reads
  <1>1. f \in [Pods -> Nat]
    BY GrowthType DEF States, Reads
  <1>2. g \in [Pods -> Nat] /\ h \in [Pods -> Nat]
    BY <1>0, UnreadType DEF States, Reads
  <1>3. \A p \in Pods : f[p] + g[p] <= h[p]
    <2> TAKE p \in Pods
    <2>1. f[p] = (IF x[p] # None THEN Growth(s.pods[p], x[p]) ELSE 0) /\ g[p] = Growth(x[p], c[p])
      BY <1>0 DEF Unread, NoReads
    <2>2. h[p] = Unread(s.pods[p], x[p], c[p]) /\ h[p] \in Nat
      BY <1>0, <1>2
    <2> HIDE DEF f, g, h
    <2>3. CASE x[p] = None
      BY <2>1, <2>2, <2>3 DEF Growth
    <2>4. CASE x[p] # None
      <3>1. g[p] = Grow(x[p], c[p])
        BY <2>1, <2>4 DEF Growth
      <3>2. f[p] \in Nat /\ g[p] \in Nat /\ h[p] = f[p] + g[p]
        BY <1>1, <1>2, <2>1, <2>2, <2>4, <3>1 DEF Unread
      <3> QED BY <3>2
    <2> QED BY <2>3, <2>4
  <1>4. Grown(s, x) = Total(f) /\ Left(t, NoReads, c) = Total(g) /\ Left(s, x, c) = Total(h)
    BY DEF Grown, Left
  <1> HIDE DEF f, g, h
  <1>5. k \in [Pods -> Int] /\ f \in [Pods -> Int] /\ g \in [Pods -> Int] /\ h \in [Pods -> Int]
    BY <1>1, <1>2
  <1>6. \A p \in Pods : k[p] = f[p] + g[p] /\ k[p] <= h[p]
    BY <1>3
  <1> HIDE DEF k
  <1>7. Total(k) = Total(f) + Total(g)
    BY <1>5, <1>6, TotalPlus, StatsAssumption
  <1>8. Total(k) <= Total(h)
    BY <1>5, <1>6, TotalLess, StatsAssumption
  <1> QED BY <1>4, <1>7, <1>8

LEMMA SeenNone ==
    ASSUME NEW b
    PROVE  Seen(NoReads, b) = 0
  <1> DEFINE f == [p \in Pods |-> Between(NoReads[p], b[p])]
  <1>1. f \in [Pods -> Int] /\ \A p \in Pods : f[p] = 0
    BY DEF Between, NoReads
  <1> HIDE DEF f
  <1>2. Total(f) = 0
    BY <1>1, TotalZero, StatsAssumption
  <1> QED BY <1>2 DEF f, Seen

\* The growth a pass adds is seen by its reads, when nothing was lost.
LEMMA SeenAdded ==
    ASSUME NEW s \in States, NEW x \in Reads, NEW a \in Reads, NEW b \in Reads, NEW a2 \in Reads, NEW b2 \in Reads,
           \A p \in Pods : /\ a2[p] = IF a[p] = None THEN x[p] ELSE a[p]
                           /\ b2[p] = IF x[p] = None THEN b[p] ELSE x[p],
           \A p \in Pods : /\ s.pods[p] # None => a[p] # None /\ b[p] = s.pods[p]
                           /\ a[p] # None => b[p] # None
                           /\ a[p] # None /\ s.pods[p] = None => x[p] = None
                           /\ s.pods[p] # None /\ x[p] # None => x[p] >= s.pods[p]
    PROVE  Seen(a2, b2) = Seen(a, b) + Grown(s, x)
  <1> DEFINE f == [p \in Pods |-> Between(a[p], b[p])]
             g == [p \in Pods |-> IF x[p] # None THEN Growth(s.pods[p], x[p]) ELSE 0]
             h == [p \in Pods |-> Between(a2[p], b2[p])]
  <1>1. \A p \in Pods : /\ a[p] \in Nat \cup {None} /\ b[p] \in Nat \cup {None}
                        /\ x[p] \in Nat \cup {None} /\ s.pods[p] \in Nat \cup {None}
    BY DEF States, Reads
  <1>2. ASSUME NEW p \in Pods
        PROVE  f[p] \in Int /\ g[p] \in Int /\ h[p] \in Int /\ h[p] = f[p] + g[p]
    <2>1. f[p] = Between(a[p], b[p]) /\ h[p] = Between(a2[p], b2[p])
      OBVIOUS
    <2>2. g[p] = IF x[p] # None THEN Growth(s.pods[p], x[p]) ELSE 0
      OBVIOUS
    <2> HIDE DEF f, g, h
    <2>3. CASE x[p] = None
      <3>1. h[p] = f[p] /\ g[p] = 0
        BY <2>1, <2>2, <2>3 DEF Between
      <3>2. f[p] \in Int
        BY <2>1, <1>1 DEF Between
      <3> QED BY <3>1, <3>2
    <2>4. CASE x[p] # None /\ a[p] = None
      <3>1. s.pods[p] = None /\ x[p] \in Nat
        BY <1>1, <2>4
      <3>2. f[p] = 0 /\ g[p] = 0 /\ h[p] = x[p] - x[p]
        BY <2>1, <2>2, <2>4, <3>1 DEF Between, Growth
      <3> QED BY <3>1, <3>2
    <2>5. CASE x[p] # None /\ a[p] # None
      <3>1. s.pods[p] # None /\ b[p] = s.pods[p] /\ x[p] >= s.pods[p]
        BY <2>5
      <3>2. s.pods[p] \in Nat /\ x[p] \in Nat /\ a[p] \in Nat
        BY <1>1, <2>5, <3>1
      <3>3. g[p] = x[p] - s.pods[p] /\ f[p] = s.pods[p] - a[p] /\ h[p] = x[p] - a[p]
        BY <2>1, <2>2, <2>5, <3>1 DEF Between, Growth, Grow
      <3> QED BY <3>2, <3>3
    <2> QED BY <2>3, <2>4, <2>5
  <1>3. f \in [Pods -> Int] /\ g \in [Pods -> Int] /\ h \in [Pods -> Int]
    <2>1. \A p \in Pods : f[p] \in Int /\ g[p] \in Int /\ h[p] \in Int
      BY <1>2
    <2> QED BY <2>1
  <1>4. Seen(a, b) = Total(f) /\ Grown(s, x) = Total(g) /\ Seen(a2, b2) = Total(h)
    BY DEF Seen, Grown
  <1> HIDE DEF f, g, h
  <1>5. Total(h) = Total(f) + Total(g)
    BY <1>2, <1>3, TotalPlus, StatsAssumption
  <1> QED BY <1>4, <1>5
-----------------------------------------------------------------------------
(* Types and places *)

LEMMA NoReadsType == NoReads \in Reads
  BY DEF NoReads, Reads

\* The post of SendReport, in request q.
Posts(q) ==
    /\ slot[q] = None /\ slot' = [slot EXCEPT ![q] = [lines |-> st.acc, stage |-> "sent"]]
    /\ waiting' = q /\ at' = "wait"

\* What the reporter does to its state keeps its type.
LEMMA StateTypes ==
    /\ \A s \in States, x \in Reads, n \in Nat : [s EXCEPT !.pods = x, !.acc = n] \in States
    /\ \A s \in States : [s EXCEPT !.acc = 0, !.age = 0] \in States
    /\ \A u \in Status : Sent(u) \in Status /\ [u EXCEPT !.error = TRUE] \in Status
  <1>1. ASSUME NEW s \in States, NEW x \in Reads, NEW n \in Nat PROVE [s EXCEPT !.pods = x, !.acc = n] \in States
    BY DEF States
  <1>2. ASSUME NEW s \in States PROVE [s EXCEPT !.acc = 0, !.age = 0] \in States
    <2>1. 0 \in 0 .. Interval
      BY StatsAssumption
    <2> QED BY <2>1 DEF States
  <1>3. ASSUME NEW u \in Status PROVE Sent(u) \in Status
    <2> DEFINE n == IF u.reported = 1 THEN 2 ELSE 1
    <2>1. n \in 0 .. 2
      OBVIOUS
    <2>2. Sent(u) = [u EXCEPT !.error = FALSE, !.reported = n]
      BY DEF Sent, Status
    <2> HIDE DEF n
    <2> QED BY <2>1, <2>2 DEF Status
  <1>4. ASSUME NEW u \in Status PROVE [u EXCEPT !.error = TRUE] \in Status
    BY DEF Status
  <1> QED BY <1>1, <1>2, <1>3, <1>4

LEMMA TypeStep ==
    ASSUME TypeOK, Place, Next
    PROVE  TypeOK'
  <1> USE StatsAssumption, NoneAssumption, NoReadsType
  <1>1. ASSUME NEW p \in Pods, PodStarts(p) PROVE TypeOK'
    BY <1>1 DEF TypeOK, PodStarts, policyVars, passVars, serverVars
  <1>2. ASSUME NEW p \in Pods, PodEnds(p) PROVE TypeOK'
    BY <1>2 DEF TypeOK, PodEnds, policyVars, passVars, serverVars
  <1>3. ASSUME NEW p \in Pods, ProcessLine(p) PROVE TypeOK'
    BY <1>3 DEF TypeOK, ProcessLine, policyVars, passVars, serverVars
  <1>4. ASSUME NEW p \in Pods, SidecarRestarts(p) PROVE TypeOK'
    BY <1>4 DEF TypeOK, SidecarRestarts, Loss, policyVars, passVars, serverVars
  <1>5. ASSUME EditStats PROVE TypeOK'
    <2>1. enabled' \in BOOLEAN /\ unsynced' \in BOOLEAN
      BY <1>5 DEF EditStats
    <2>2. faults' \in 0 .. MaxFaults /\ gap' \in BOOLEAN
      <3>1. CASE Loss
        BY <3>1 DEF Loss, TypeOK
      <3>2. CASE NoFault
        BY <3>2 DEF NoFault, TypeOK
      <3> QED BY <1>5, <3>1, <3>2 DEF EditStats
    <2> QED BY <1>5, <2>1, <2>2 DEF TypeOK, EditStats, podVars, passVars, serverVars
  <1>6. ASSUME ReconcileStats PROVE TypeOK'
    BY <1>6 DEF TypeOK, ReconcileStats, podVars, passVars, serverVars
  <1>7. ASSUME PassBegins PROVE TypeOK'
    <2>1. NewState \in States /\ NoStatus \in Status
      BY DEF NewState, States, NoStatus, Status
    <2>2. \A s \in States : Aged(s) \in States
      BY DEF Aged, States
    <2>3. \A s \in States : s.last \in Status /\ [s.last EXCEPT !.error = TRUE] \in Status
      BY DEF States, Status
    <2>4. Running \subseteq Pods
      BY DEF Running
    <2>5. CASE ~enabled
      BY <1>7, <2>5 DEF TypeOK, PassBegins, NoFault, podVars, policyVars, passVars, serverVars
    <2>6. CASE enabled
      <3>1. st' \in States
        BY <1>7, <2>1, <2>2, <2>6 DEF TypeOK, PassBegins
      <3>2. status' \in Status /\ todo' \subseteq Pods /\ samples' \in Reads /\ at' \in {"scrape", "patch"}
        BY <1>7, <2>3, <2>4, <2>6, <3>1 DEF TypeOK, PassBegins
      <3>3. faults' \in 0 .. MaxFaults /\ gap' \in BOOLEAN /\ waiting' = waiting
        BY <1>7, <2>6 DEF TypeOK, PassBegins, Fault, NoFault
      <3> QED BY <1>7, <3>1, <3>2, <3>3 DEF TypeOK, PassBegins, podVars, policyVars, serverVars
    <2> QED BY <2>5, <2>6
  <1>8. ASSUME NEW p \in Pods, ScrapePod(p) PROVE TypeOK'
    <2>1. samples' \in Reads
      BY <1>8 DEF TypeOK, ScrapePod, Reads
    <2>2. faults' \in 0 .. MaxFaults /\ gap' \in BOOLEAN
      <3>1. CASE Loss
        BY <3>1 DEF Loss, TypeOK
      <3>2. CASE NoFault
        BY <3>2 DEF NoFault, TypeOK
      <3> QED BY <1>8, <3>1, <3>2 DEF ScrapePod
    <2> QED BY <1>8, <2>1, <2>2 DEF TypeOK, ScrapePod, podVars, policyVars, serverVars
  <1>9. ASSUME Accumulate PROVE TypeOK'
    <2> DEFINE alive == {p \in Pods : samples[p] # None}
    <2>1. st \in States /\ samples \in Reads
      BY <1>9 DEF Accumulate, TypeOK, Place
    <2>2. Grown(st, samples) \in Nat
      BY <2>1, GrownType
    <2>3. st' = [st EXCEPT !.pods = samples, !.acc = st.acc + Grown(st, samples)]
      BY <1>9 DEF Accumulate, Grown
    <2>4. st' \in States
      <3> DEFINE n == st.acc + Grown(st, samples)
      <3>1. n \in Nat
        BY <2>1, <2>2 DEF States
      <3>2. st' = [st EXCEPT !.pods = samples, !.acc = n]
        BY <2>3
      <3> HIDE DEF n
      <3> QED BY <2>1, <3>1, <3>2, StateTypes
    <2>5. Cardinality(alive) \in Nat
      BY FS_Subset, FS_CardinalityType
    <2>6. status' = [status EXCEPT !.reporting = Cardinality(alive)]
      BY <1>9 DEF Accumulate
    <2> HIDE DEF alive
    <2>7. status' \in Status
      BY <2>5, <2>6 DEF TypeOK, Status
    <2>8. first' \in Reads /\ last' \in Reads
      BY <1>9 DEF Accumulate, TypeOK, Reads
    <2> QED BY <1>9, <2>4, <2>7, <2>8 DEF TypeOK, Accumulate, podVars, policyVars, serverVars
  <1>10. ASSUME SendReport PROVE TypeOK'
    <2>1. st \in States /\ st.acc \in Nat
      BY <1>10 DEF SendReport, TypeOK, Place, States
    <2>2. CASE \E q \in Slots : Posts(q) /\ UNCHANGED status /\ NoFault
      <3>1. PICK q \in Slots : Posts(q) /\ UNCHANGED status /\ NoFault
        BY <2>2
      <3>2. [lines |-> st.acc, stage |-> "sent"] \in Requests
        BY <2>1 DEF Requests
      <3> QED BY <1>10, <3>1, <3>2 DEF Posts, SendReport, TypeOK, NoFault, podVars, policyVars, serverVars
    <2>3. CASE /\ at' = "patch" /\ status' = [status EXCEPT !.error = TRUE]
               /\ Fault /\ UNCHANGED <<slot, waiting>>
      <3>1. status' \in Status
        BY <2>3 DEF TypeOK, Status
      <3> QED BY <1>10, <2>3, <3>1 DEF SendReport, TypeOK, Fault, podVars, policyVars, serverVars
    <2> QED BY <1>10, <2>2, <2>3 DEF SendReport, Posts
  <1>11. ASSUME Answered PROVE TypeOK'
    <2>1. st \in States /\ status \in Status /\ waiting \in Slots
      BY <1>11 DEF Answered, TypeOK, Place
    <2>2. [st EXCEPT !.acc = 0, !.age = 0] \in States
      BY <2>1, StateTypes
    <2>3. Sent(status) \in Status /\ [status EXCEPT !.error = TRUE] \in Status
      BY <2>1, StateTypes
    <2>4. st' \in States /\ status' \in Status
      BY <1>11, <2>1, <2>2, <2>3 DEF Answered, KeepOnError
    <2>5. slot' \in [Slots -> Requests \cup {None}]
      BY <1>11, <2>1 DEF Answered, TypeOK
    <2> QED BY <1>11, <2>4, <2>5 DEF TypeOK, Answered, podVars, policyVars, serverVars
  <1>12. ASSUME TimesOut PROVE TypeOK'
    <2>1. st \in States /\ status \in Status /\ waiting \in Slots
      BY <1>12 DEF TimesOut, TypeOK, Place
    <2>2. slot[waiting] \in Requests /\ slot[waiting].lines \in Nat
      BY <1>12, <2>1 DEF TimesOut, TypeOK, Place, Requests
    <2>3. status' \in Status
      BY <1>12, <2>1 DEF TimesOut, Status
    <2>4. slot' \in [Slots -> Requests \cup {None}] /\ twice' \in Nat
      BY <1>12, <2>1, <2>2 DEF TimesOut, TypeOK
    <2> QED BY <1>12, <2>1, <2>3, <2>4 DEF TypeOK, TimesOut, KeepOnError, Loss, podVars, policyVars, serverVars
  <1>13. ASSUME PatchStatus PROVE TypeOK'
    <2>1. st \in States /\ status \in Status
      BY <1>13 DEF PatchStatus, TypeOK, Place
    <2>2. [st EXCEPT !.last = status] \in States /\ NoStatus \in Status
      BY <2>1 DEF States, NoStatus, Status
    <2>3. st' \in States /\ api' \in Status \cup {None} /\ status' \in Status
      BY <1>13, <2>1, <2>2 DEF PatchStatus, TypeOK
    <2>4. faults' \in 0 .. MaxFaults /\ gap' \in BOOLEAN
      BY <1>13 DEF TypeOK, PatchStatus, Fault, NoFault
    <2> QED BY <1>13, <2>3, <2>4 DEF TypeOK, PatchStatus, podVars, policyVars, serverVars
  <1>14. ASSUME OperatorRestarts PROVE TypeOK'
    <2>1. NoStatus \in Status
      BY DEF NoStatus, Status
    <2>2. slot' \in [Slots -> Requests \cup {None}]
      BY <1>14 DEF OperatorRestarts, TypeOK
    <2> QED BY <1>14, <2>1, <2>2 DEF TypeOK, OperatorRestarts, Loss, podVars, policyVars, serverVars
  <1>15. ASSUME NEW r \in Slots, TokenAccess(r) PROVE TypeOK'
    <2>1. slot[r] \in Requests
      BY <1>15 DEF TokenAccess, TypeOK
    <2>2. \A q \in Requests, g \in {"let_in", "stored", "refused"} : [q EXCEPT !.stage = g] \in Requests
      BY DEF Requests
    <2>3. slot' \in [Slots -> Requests \cup {None}]
      BY <1>15, <2>1, <2>2 DEF TokenAccess, Reply, TypeOK
    <2> QED BY <1>15, <2>3 DEF TypeOK, TokenAccess, podVars, policyVars, passVars, serverVars
  <1>16. ASSUME NEW r \in Slots, AddReport(r) PROVE TypeOK'
    <2>1. slot[r] \in Requests /\ slot[r].lines \in Nat
      BY <1>16 DEF AddReport, TypeOK, Requests
    <2>2. \A q \in Requests, g \in {"let_in", "stored", "refused"} : [q EXCEPT !.stage = g] \in Requests
      BY DEF Requests
    <2>3. slot' \in [Slots -> Requests \cup {None}] /\ reports' \in Nat
      <3>1. CASE reports' = reports + slot[r].lines /\ Reply(r, "stored")
        <4>1. reports' \in Nat
          BY <2>1, <3>1 DEF TypeOK
        <4>2. slot' \in [Slots -> Requests \cup {None}]
          BY <2>1, <2>2, <3>1 DEF Reply, TypeOK
        <4> QED BY <4>1, <4>2
      <3>2. CASE Reply(r, "refused") /\ UNCHANGED reports
        BY <2>1, <2>2, <3>2 DEF Reply, TypeOK
      <3> QED BY <1>16, <3>1, <3>2 DEF AddReport
    <2>4. faults' \in 0 .. MaxFaults /\ gap' \in BOOLEAN
      BY <1>16 DEF TypeOK, AddReport, Fault, NoFault
    <2> QED BY <1>16, <2>3, <2>4 DEF TypeOK, AddReport, podVars, policyVars, passVars, serverVars
  <1>17. ASSUME AccessChanges PROVE TypeOK'
    BY <1>17 DEF TypeOK, AccessChanges, Fault, NoFault, podVars, policyVars, passVars, serverVars
  <1> QED BY <1>1, <1>2, <1>3, <1>4, <1>5, <1>6, <1>7, <1>8, <1>9, <1>10, <1>11, <1>12, <1>13, <1>14,
             <1>15, <1>16, <1>17 DEF Next, ReporterStep, ServerStep

LEMMA PlaceStep ==
    ASSUME TypeOK, Place, Next, TypeOK'
    PROVE  Place'
  <1> USE StatsAssumption, NoneAssumption
  <1>1. ASSUME UNCHANGED <<st, at, todo, samples, waiting, slot>> PROVE Place'
    BY <1>1 DEF Place
  <1>2. ASSUME NEW p \in Pods, PodStarts(p) \/ PodEnds(p) \/ ProcessLine(p) \/ SidecarRestarts(p) PROVE Place'
    BY <1>1, <1>2 DEF PodStarts, PodEnds, ProcessLine, SidecarRestarts, passVars, serverVars
  <1>3. ASSUME EditStats \/ ReconcileStats \/ AccessChanges PROVE Place'
    BY <1>1, <1>3 DEF EditStats, ReconcileStats, AccessChanges, passVars, serverVars
  <1>4. ASSUME PassBegins PROVE Place'
    <2>1. at = "idle" /\ waiting = None /\ samples = NoReads
      BY <1>4 DEF PassBegins, Place
    <2>2. CASE ~enabled
      BY <1>4, <2>1, <2>2 DEF PassBegins, Place, passVars
    <2>3. CASE enabled
      <3>1. st' # None
        <4>1. NewState \in States
          BY DEF NewState, States, NoStatus, Status, NoReads, Reads
        <4>2. \A s \in States : Aged(s) \in States
          BY DEF Aged, States
        <4> QED BY <1>4, <2>3, <4>1, <4>2 DEF PassBegins, TypeOK
      <3>2. at' \in {"scrape", "patch"} /\ waiting' = None /\ samples' = NoReads
        BY <1>4, <2>1, <2>3 DEF PassBegins
      <3>3. \A p \in todo' : samples'[p] = None
        BY <3>2 DEF TypeOK, NoReads
      <3> QED BY <3>1, <3>2, <3>3 DEF Place
    <2> QED BY <2>2, <2>3
  <1>5. ASSUME NEW p \in Pods, ScrapePod(p) PROVE Place'
    <2>1. at = "scrape" /\ at' = at /\ st' = st /\ waiting' = waiting /\ todo' = todo \ {p}
      BY <1>5 DEF ScrapePod
    <2>2. \A q \in Pods : q # p => samples'[q] = samples[q]
      BY <1>5 DEF ScrapePod, TypeOK, Reads
    <2>3. \A q \in todo' : samples'[q] = None
      BY <2>1, <2>2 DEF Place, TypeOK
    <2> QED BY <2>1, <2>3 DEF Place
  <1>6. ASSUME Accumulate PROVE Place'
    <2>1. st \in States /\ samples \in Reads /\ waiting = None
      BY <1>6 DEF Accumulate, TypeOK, Place
    <2>2. Grown(st, samples) \in Nat
      BY <2>1, GrownType
    <2>3. st' # None
      <3> DEFINE n == st.acc + Grown(st, samples)
      <3>1. n \in Nat
        BY <2>1, <2>2 DEF States
      <3>2. st' = [st EXCEPT !.pods = samples, !.acc = n]
        BY <1>6 DEF Accumulate, Grown
      <3> HIDE DEF n
      <3>3. st' \in States
        BY <2>1, <3>1, <3>2, StateTypes
      <3> QED BY <3>3
    <2>4. at' \in {"send", "patch"} /\ waiting' = None /\ samples' = NoReads /\ todo' = todo
      BY <1>6, <2>1 DEF Accumulate
    <2>5. \A p \in todo' : samples'[p] = None
      BY <2>4 DEF TypeOK, NoReads
    <2> QED BY <2>3, <2>4, <2>5 DEF Place
  <1>7. ASSUME SendReport PROVE Place'
    <2>1. /\ st # None /\ at = "send" /\ waiting = None /\ samples = NoReads /\ st' = st
          /\ samples' = samples /\ todo' = todo
      BY <1>7 DEF SendReport, Place
    <2>2. CASE \E q \in Slots : Posts(q)
      <3>1. PICK q \in Slots : /\ slot' = [slot EXCEPT ![q] = [lines |-> st.acc, stage |-> "sent"]]
                               /\ waiting' = q /\ at' = "wait"
        BY <2>2 DEF Posts
      <3>2. slot'[q] = [lines |-> st.acc, stage |-> "sent"]
        BY <3>1 DEF TypeOK
      <3>3. [lines |-> st.acc, stage |-> "sent"] \in Requests
        BY <2>1 DEF TypeOK, Requests, States
      <3>4. q # None
        OBVIOUS
      <3> QED BY <2>1, <3>1, <3>2, <3>3, <3>4 DEF Place
    <2>3. CASE at' = "patch" /\ UNCHANGED <<slot, waiting>>
      BY <2>1, <2>3 DEF Place
    <2> QED BY <1>7, <2>2, <2>3 DEF SendReport, Posts
  <1>8. ASSUME Answered PROVE Place'
    <2>1. st \in States /\ samples = NoReads /\ samples' = samples /\ todo' = todo /\ waiting' = None /\ at' = "patch"
      BY <1>8 DEF Answered, TypeOK, Place
    <2>2. st' \in States
      BY <1>8, <2>1, StateTypes DEF Answered, KeepOnError
    <2> QED BY <2>1, <2>2 DEF Place
  <1>9. ASSUME TimesOut PROVE Place'
    BY <1>9 DEF TimesOut, KeepOnError, Place
  <1>10. ASSUME PatchStatus PROVE Place'
    <2>1. st \in States /\ samples = NoReads /\ samples' = samples /\ todo' = todo /\ waiting' = None /\ at' = "idle"
      BY <1>10 DEF PatchStatus, TypeOK, Place
    <2> QED BY <2>1 DEF Place
  <1>11. ASSUME OperatorRestarts PROVE Place'
    BY <1>11 DEF OperatorRestarts, Place, NoReads
  <1>12. ASSUME NEW r \in Slots, TokenAccess(r) \/ AddReport(r) PROVE Place'
    <2>1. slot[r] \in Requests /\ UNCHANGED <<st, at, todo, samples, waiting>>
      BY <1>12 DEF TokenAccess, AddReport, TypeOK, passVars
    <2>2. \A g : [slot[r] EXCEPT !.stage = g].lines = slot[r].lines
      BY <2>1 DEF Requests
    <2>3. \A q \in Slots : q # r => slot'[q] = slot[q]
      BY <1>12 DEF TokenAccess, AddReport, Reply, TypeOK
    <2>4. waiting = r => \E g \in {"let_in", "stored", "refused"} : slot'[r] = [slot[r] EXCEPT !.stage = g]
      BY <1>12 DEF TokenAccess, AddReport, Reply, TypeOK
    <2>5. \A g \in {"let_in", "stored", "refused"} : [slot[r] EXCEPT !.stage = g] \in Requests
      BY <2>1 DEF Requests
    <2>6. at = "wait" => slot'[waiting] # None /\ slot'[waiting].lines = slot[waiting].lines
      <3>1. CASE waiting = r
        <4>1. PICK g \in {"let_in", "stored", "refused"} : slot'[r] = [slot[r] EXCEPT !.stage = g]
          BY <2>4, <3>1
        <4>2. slot'[r] \in Requests /\ slot'[r].lines = slot[r].lines
          BY <2>2, <2>5, <4>1
        <4> QED BY <3>1, <4>2
      <3>2. CASE waiting # r
        BY <2>3, <3>2 DEF Place, TypeOK
      <3> QED BY <3>1, <3>2
    <2> QED BY <2>1, <2>6 DEF Place
  <1> QED BY <1>2, <1>3, <1>4, <1>5, <1>6, <1>7, <1>8, <1>9, <1>10, <1>11, <1>12 DEF Next, ReporterStep, ServerStep
-----------------------------------------------------------------------------
(* What is counted: stored, on its way, or held *)

LEMMA Numbers ==
    ASSUME TypeOK, Place
    PROVE  /\ reports \in Nat /\ lines \in Nat /\ twice \in Nat
           /\ Way(slot) \in Nat /\ Held \in Nat /\ Left(st, samples, counter) \in Nat
           /\ Counted = reports + Way(slot) + Held /\ Counted \in Nat
           /\ Counted' = reports' + Way(slot') + Held'
  <1>1. reports \in Nat /\ lines \in Nat /\ twice \in Nat
    BY DEF TypeOK
  <1>2. Way(slot) \in Nat /\ Left(st, samples, counter) \in Nat
    BY WayType, LeftType DEF TypeOK
  <1>3. Held \in Nat
    <2>1. CASE st = None
      BY <2>1 DEF Held
    <2>2. CASE st # None
      BY <2>2 DEF Held, TypeOK, States
    <2> QED BY <2>1, <2>2
  <1>4. OnTheWay = Way(slot) /\ OnTheWay' = Way(slot')
    BY DEF OnTheWay, Way
  <1> QED BY <1>1, <1>2, <1>3, <1>4 DEF Counted

LEMMA CountedKept ==
    ASSUME TypeOK, Place, UNCHANGED <<reports, slot, st, at, waiting>>
    PROVE  Counted' = Counted
  <1>1. Held' = Held
    BY DEF Held
  <1> QED BY <1>1, Numbers

\* Steps of the pass that neither send nor add.
LEMMA CountedPass ==
    ASSUME TypeOK, Place, UNCHANGED <<reports, slot>>, at # "wait", at' # "wait",
           (IF st' = None THEN 0 ELSE st'.acc) = (IF st = None THEN 0 ELSE st.acc)
    PROVE  Counted' = Counted
  <1>1. Held' = Held
    BY DEF Held
  <1> QED BY <1>1, Numbers

\* The reporter loses its state.
LEMMA CountedDropped ==
    ASSUME TypeOK, Place, TypeOK', reports' = reports, Way(slot') <= Way(slot), st' = None
    PROVE  Counted' <= Counted
  <1>1. Held' = 0
    BY DEF Held
  <1>2. Way(slot') \in Nat
    BY WayType DEF TypeOK
  <1> QED BY <1>1, <1>2, Numbers

LEMMA CountedAdded ==
    ASSUME TypeOK, Place, Accumulate
    PROVE  Counted' = Counted + Grown(st, samples)
  <1>1. st \in States /\ samples \in Reads
    BY NoneAssumption DEF Accumulate, TypeOK, Place
  <1>2. Grown(st, samples) \in Nat /\ st.acc \in Nat
    BY <1>1, GrownType DEF States
  <1>3. st' = [st EXCEPT !.pods = samples, !.acc = st.acc + Grown(st, samples)]
    BY DEF Accumulate, Grown
  <1>4. st'.acc = st.acc + Grown(st, samples)
    BY <1>1, <1>3 DEF States
  <1>5. st' # None
    <2> DEFINE n == st.acc + Grown(st, samples)
    <2>1. n \in Nat
      BY <1>2
    <2>2. st' = [st EXCEPT !.pods = samples, !.acc = n]
      BY <1>3
    <2> HIDE DEF n
    <2>3. st' \in States
      BY <1>1, <2>1, <2>2, StateTypes
    <2> QED BY <2>3, NoneAssumption
  <1>6. st # None /\ at = "scrape" /\ at' \in {"send", "patch"}
    BY <1>1, NoneAssumption DEF Accumulate
  <1>7. Held = st.acc /\ Held' = st'.acc
    BY <1>5, <1>6 DEF Held
  <1>8. reports' = reports /\ slot' = slot
    BY DEF Accumulate, serverVars
  <1> QED BY <1>2, <1>4, <1>7, <1>8, Numbers

LEMMA CountedSend ==
    ASSUME TypeOK, Place, TypeOK', SendReport
    PROVE  Counted' = Counted
  <1>1. st # None /\ st \in States /\ st.acc \in Nat /\ at = "send" /\ st' = st /\ reports' = reports
    BY NoneAssumption DEF SendReport, TypeOK, Place, States
  <1>2. CASE \E q \in Slots : Posts(q)
    <2>1. PICK q \in Slots : /\ slot[q] = None /\ slot' = [slot EXCEPT ![q] = [lines |-> st.acc, stage |-> "sent"]]
                             /\ waiting' = q /\ at' = "wait"
      BY <1>2 DEF Posts
    <2>2. slot'[q] = [lines |-> st.acc, stage |-> "sent"] /\ \A x \in Slots : x # q => slot'[x] = slot[x]
      BY <2>1 DEF TypeOK
    <2>3. [lines |-> st.acc, stage |-> "sent"] \in Requests
      BY <1>1 DEF Requests
    <2>4. Pending(slot[q]) = 0 /\ Pending(slot'[q]) = st.acc
      BY <2>1, <2>2, <2>3, NoneAssumption DEF Pending
    <2>5. Way(slot') = Way(slot) + (Pending(slot'[q]) - Pending(slot[q]))
      BY <2>2, WayUpdate DEF TypeOK
    <2>6. Held = st.acc
      BY <1>1 DEF Held
    <2>7. Held' = 0
      BY <1>1, <2>1, <2>2 DEF Held
    <2> QED BY <1>1, <2>4, <2>5, <2>6, <2>7, Numbers
  <1>3. CASE at' = "patch" /\ UNCHANGED <<slot, waiting>>
    BY <1>1, <1>3, CountedPass
  <1> QED BY <1>2, <1>3 DEF SendReport, Posts

LEMMA CountedAnswered ==
    ASSUME TypeOK, Place, TypeOK', Answered
    PROVE  Counted' = Counted
  <1>1. /\ st # None /\ st \in States /\ st.acc \in Nat /\ at = "wait" /\ at' = "patch" /\ waiting \in Slots
        /\ slot[waiting] \in Requests /\ slot[waiting].stage \in {"stored", "refused"} /\ reports' = reports
    BY NoneAssumption DEF Answered, TypeOK, Place, States
  <1>2. slot'[waiting] = None /\ \A x \in Slots : x # waiting => slot'[x] = slot[x]
    BY <1>1 DEF Answered, TypeOK
  <1>3. Pending(slot[waiting]) = 0 /\ Pending(slot'[waiting]) = 0
    BY <1>1, <1>2 DEF Pending
  <1>4. Way(slot') = Way(slot) + (Pending(slot'[waiting]) - Pending(slot[waiting]))
    BY <1>1, <1>2, WayUpdate DEF TypeOK
  <1>5. Held = IF slot[waiting].stage = "refused" THEN st.acc ELSE 0
    BY <1>1 DEF Held
  <1>6. st' # None /\ st'.acc = IF slot[waiting].stage = "refused" THEN st.acc ELSE 0
    <2>1. CASE slot[waiting].stage = "stored"
      <3>1. st' = [st EXCEPT !.acc = 0, !.age = 0]
        BY <2>1 DEF Answered
      <3>2. st' \in States /\ st'.acc = 0
        BY <1>1, <3>1, StateTypes DEF States
      <3> QED BY <2>1, <3>2, NoneAssumption
    <2>2. CASE slot[waiting].stage = "refused"
      BY <1>1, <2>2 DEF Answered, KeepOnError
    <2> QED BY <1>1, <2>1, <2>2
  <1>7. Held' = st'.acc
    BY <1>1, <1>6 DEF Held
  <1> QED BY <1>1, <1>3, <1>4, <1>5, <1>6, <1>7, Numbers

LEMMA CountedTimesOut ==
    ASSUME TypeOK, Place, TypeOK', TimesOut
    PROVE  Counted' <= Counted + slot[waiting].lines
  <1>1. /\ st # None /\ st \in States /\ st.acc \in Nat /\ at = "wait" /\ at' = "patch" /\ waiting \in Slots
        /\ st' = st
        /\ slot[waiting] \in Requests /\ slot[waiting].lines = st.acc /\ reports' = reports
    BY NoneAssumption DEF TimesOut, KeepOnError, TypeOK, Place, States
  <1>2. /\ slot'[waiting] = IF slot[waiting].stage \in {"stored", "refused"} THEN None ELSE slot[waiting]
        /\ \A x \in Slots : x # waiting => slot'[x] = slot[x]
    BY <1>1 DEF TimesOut, TypeOK
  <1>3. /\ Pending(slot'[waiting]) <= Pending(slot[waiting]) /\ Pending(slot[waiting]) \in Nat
        /\ Pending(slot'[waiting]) \in Nat
    <2>1. Pending(slot[waiting]) \in Nat /\ Pending(slot'[waiting]) \in Nat
      BY <1>1, PendingType DEF TypeOK
    <2>2. CASE slot[waiting].stage \in {"stored", "refused"}
      <3>1. Pending(slot'[waiting]) = 0
        BY <1>2, <2>2 DEF Pending
      <3> QED BY <2>1, <3>1
    <2>3. CASE slot[waiting].stage \notin {"stored", "refused"}
      BY <1>2, <2>1, <2>3
    <2> QED BY <2>1, <2>2, <2>3
  <1>4. Way(slot') = Way(slot) + (Pending(slot'[waiting]) - Pending(slot[waiting]))
    BY <1>1, <1>2, WayUpdate DEF TypeOK
  <1>5. Held' = st.acc
    BY <1>1 DEF Held
  <1>6. Held \in Nat
    BY Numbers
  <1> QED BY <1>1, <1>3, <1>4, <1>5, <1>6, Numbers

\* A request that the reporter waits for is counted all the time; one that
\* nobody waits for may be refused and is then lost.
LEMMA CountedServer ==
    ASSUME TypeOK, Place, TypeOK', NEW r \in Slots, ServerStep(r)
    PROVE  Counted' <= Counted /\ (r = waiting => Counted' = Counted)
  <1>1. /\ slot[r] \in Requests /\ slot[r].lines \in Nat /\ slot[r].stage \in {"sent", "let_in"} /\ slot[r] # None
        /\ st' = st /\ at' = at /\ waiting' = waiting
    BY NoneAssumption DEF ServerStep, TokenAccess, AddReport, TypeOK, Requests, passVars
  <1>2. \A x \in Slots : x # r => slot'[x] = slot[x]
    BY DEF ServerStep, TokenAccess, AddReport, Reply, TypeOK
  <1>3. Pending(slot[r]) = slot[r].lines
    BY <1>1 DEF Pending
  <1>4. Way(slot') = Way(slot) + (Pending(slot'[r]) - Pending(slot[r]))
    BY <1>2, WayUpdate DEF TypeOK
  <1>5. r # waiting => Held' = Held
    BY <1>1, <1>2 DEF Held, Place, TypeOK
  <1>6. r = waiting => st # None /\ at = "wait" /\ Held = 0 /\ slot[r].lines = st.acc
    BY <1>1, StatsAssumption DEF Held, Place
  <1>7. CASE slot' = [slot EXCEPT ![r].stage = "let_in"] /\ reports' = reports
    <2>1. slot'[r] = [slot[r] EXCEPT !.stage = "let_in"]
      BY <1>7 DEF TypeOK
    <2>2. slot'[r] \in Requests /\ slot'[r].lines = slot[r].lines /\ slot'[r].stage = "let_in"
      BY <1>1, <2>1 DEF Requests
    <2>3. Pending(slot'[r]) = slot[r].lines
      BY <2>2, NoneAssumption DEF Pending
    <2>4. r = waiting => Held' = 0
      BY <1>1, <1>6, <2>2 DEF Held
    <2> QED BY <1>1, <1>3, <1>4, <1>5, <1>6, <1>7, <2>3, <2>4, Numbers
  <1>8. CASE Reply(r, "refused") /\ reports' = reports
    <2>1. slot'[r] = IF r = waiting THEN [slot[r] EXCEPT !.stage = "refused"] ELSE None
      BY <1>8 DEF Reply, TypeOK
    <2>2. r = waiting => slot'[r].stage = "refused"
      BY <1>1, <2>1 DEF Requests
    <2>3. Pending(slot'[r]) = 0
      BY <2>1, <2>2 DEF Pending
    <2>4. r = waiting => Held' = st.acc
      BY <1>1, <1>6, <2>2 DEF Held
    <2>5. CASE r = waiting
      BY <1>1, <1>3, <1>4, <1>6, <1>8, <2>3, <2>4, <2>5, Numbers
    <2>6. CASE r # waiting
      BY <1>1, <1>3, <1>4, <1>5, <1>8, <2>3, <2>6, Numbers
    <2> QED BY <2>5, <2>6
  <1>9. CASE Reply(r, "stored") /\ reports' = reports + slot[r].lines
    <2>1. slot'[r] = IF r = waiting THEN [slot[r] EXCEPT !.stage = "stored"] ELSE None
      BY <1>9 DEF Reply, TypeOK
    <2>2. r = waiting => slot'[r].stage = "stored"
      BY <1>1, <2>1 DEF Requests
    <2>3. Pending(slot'[r]) = 0
      BY <2>1, <2>2 DEF Pending
    <2>4. r = waiting => Held' = 0
      BY <1>1, <1>6, <2>2 DEF Held
    <2>5. Held' = Held
      BY <1>5, <1>6, <2>4
    <2> QED BY <1>1, <1>3, <1>4, <1>9, <2>3, <2>5, Numbers
  <1> QED BY <1>7, <1>8, <1>9 DEF ServerStep, TokenAccess, AddReport
-----------------------------------------------------------------------------
(* No line is counted twice *)

\* The sum over what is left to read, after a step of one pod.
LEMMA LeftPod ==
    ASSUME TypeOK, TypeOK', NEW p \in Pods, UNCHANGED <<st, samples>>,
           \A q \in Pods : q # p => counter'[q] = counter[q], NEW n \in Nat,
           \A a, b \in Nat \cup {None} : Unread(a, b, counter'[p]) <= Unread(a, b, counter[p]) + n
    PROVE  Left(st', samples', counter') <= Left(st, samples, counter) + n
  <1>1. Left(st, samples, counter) \in Nat
    BY LeftType DEF TypeOK
  <1>2. CASE st = None
    <2>1. Left(st', samples', counter') = 0
      BY <1>2, LeftDropped
    <2> QED BY <1>1, <2>1
  <1>3. CASE st # None
    <2>1. st \in States /\ samples \in Reads /\ counter \in [Pods -> Nat] /\ counter' \in [Pods -> Nat]
      BY <1>3 DEF TypeOK
    <2>2. /\ st.pods[p] \in Nat \cup {None} /\ samples[p] \in Nat \cup {None} /\ counter[p] \in Nat
          /\ counter'[p] \in Nat
      BY <2>1 DEF States, Reads
    <2> DEFINE u == Unread(st.pods[p], samples[p], counter[p])
               v == Unread(st.pods[p], samples[p], counter'[p])
    <2>3. u \in Nat /\ v \in Nat /\ v <= u + n
      BY <2>2, UnreadType
    <2>4. Left(st, samples, counter') = Left(st, samples, counter) + (v - u)
      BY <2>1, LeftUpdate
    <2> HIDE DEF u, v
    <2>5. Left(st, samples, counter') <= Left(st, samples, counter) + n
      BY <1>1, <2>3, <2>4
    <2> QED BY <2>5
  <1> QED BY <1>2, <1>3


LEMMA CountedType ==
    ASSUME TypeOK', Place'
    PROVE  Counted' \in Int /\ Left(st', samples', counter') \in Int /\ lines' \in Int /\ twice' \in Int
  <1>1. reports' \in Nat /\ lines' \in Nat /\ twice' \in Nat
    BY DEF TypeOK
  <1>2. Way(slot') \in Nat /\ Left(st', samples', counter') \in Nat
    BY WayType, LeftType DEF TypeOK
  <1>3. Held' \in Nat
    <2>1. CASE st' = None
      BY <2>1 DEF Held
    <2>2. CASE st' # None
      BY <2>2 DEF Held, TypeOK, States
    <2> QED BY <2>1, <2>2
  <1>4. OnTheWay' = Way(slot')
    BY DEF OnTheWay, Way
  <1> QED BY <1>1, <1>2, <1>3, <1>4 DEF Counted

LEMMA OnceStep ==
    ASSUME TypeOK, Place, Once, Next, TypeOK', Place'
    PROVE  Once'
  <1>0. /\ Counted' \in Int /\ Left(st', samples', counter') \in Int /\ lines' \in Int /\ twice' \in Int
        /\ Counted \in Nat /\ Left(st, samples, counter) \in Nat /\ lines \in Nat /\ twice \in Nat
    BY CountedType, Numbers
  <1>a. ASSUME Counted' <= Counted, Left(st', samples', counter') <= Left(st, samples, counter),
               UNCHANGED <<lines, twice>>
        PROVE  Once'
    BY <1>0, <1>a DEF Once
  <1>b. ASSUME Counted' = Counted, UNCHANGED <<st, samples, counter, lines, twice>>
        PROVE  Once'
    BY <1>0, <1>b DEF Once
  <1>1. ASSUME NEW p \in Pods, PodStarts(p) PROVE Once'
    <2>1. UNCHANGED <<reports, slot, st, at, waiting, samples, counter, lines, twice>>
      BY <1>1 DEF PodStarts, passVars, serverVars
    <2> QED BY <1>b, <2>1, CountedKept
  <1>2. ASSUME NEW p \in Pods, PodEnds(p) \/ SidecarRestarts(p) PROVE Once'
    <2>1. /\ UNCHANGED <<reports, slot, st, at, waiting, samples, lines, twice>>
          /\ counter' = [counter EXCEPT ![p] = 0]
      BY <1>2 DEF PodEnds, SidecarRestarts, passVars, serverVars
    <2>2. /\ counter[p] \in Nat /\ counter'[p] = 0
          /\ \A q \in Pods : q # p => counter'[q] = counter[q]
      BY <2>1 DEF TypeOK
    <2>3. \A a, b \in Nat \cup {None} : Unread(a, b, counter'[p]) <= Unread(a, b, counter[p]) + 0
      <3> SUFFICES ASSUME NEW a \in Nat \cup {None}, NEW b \in Nat \cup {None}
                   PROVE  Unread(a, b, counter'[p]) <= Unread(a, b, counter[p]) + 0
        OBVIOUS
      <3>1. Unread(a, b, counter[p]) \in Nat /\ Unread(a, b, 0) <= Unread(a, b, counter[p])
        BY <2>2, UnreadType, UnreadReset
      <3> QED BY <2>2, <3>1
    <2>4. Left(st', samples', counter') <= Left(st, samples, counter) + 0
      BY <2>1, <2>2, <2>3, LeftPod
    <2>5. Counted' = Counted
      BY <2>1, CountedKept
    <2> QED BY <1>0, <1>a, <2>1, <2>4, <2>5
  <1>3. ASSUME NEW p \in Pods, ProcessLine(p) PROVE Once'
    <2>1. /\ UNCHANGED <<reports, slot, st, at, waiting, samples, twice>> /\ lines' = lines + 1
          /\ counter' = [counter EXCEPT ![p] = counter[p] + 1]
      BY <1>3 DEF ProcessLine, passVars, serverVars
    <2>2. /\ counter[p] \in Nat /\ counter'[p] = counter[p] + 1
          /\ \A q \in Pods : q # p => counter'[q] = counter[q]
      BY <2>1 DEF TypeOK
    <2>3. \A a, b \in Nat \cup {None} : Unread(a, b, counter'[p]) <= Unread(a, b, counter[p]) + 1
      BY <2>2, UnreadLine
    <2>4. Left(st', samples', counter') <= Left(st, samples, counter) + 1
      BY <2>1, <2>2, <2>3, LeftPod
    <2>5. Counted' = Counted
      BY <2>1, CountedKept
    <2> QED BY <1>0, <2>1, <2>4, <2>5 DEF Once
  <1>4. ASSUME EditStats \/ ReconcileStats \/ AccessChanges PROVE Once'
    <2>1. UNCHANGED <<reports, slot, st, at, waiting, samples, counter, lines, twice>>
      BY <1>4 DEF EditStats, ReconcileStats, AccessChanges, podVars, passVars, serverVars
    <2> QED BY <1>b, <2>1, CountedKept
  <1>5. ASSUME PassBegins PROVE Once'
    <2>1. UNCHANGED <<reports, slot, counter, lines, twice>> /\ at = "idle" /\ samples = NoReads /\ waiting = None
      BY <1>5 DEF PassBegins, podVars, serverVars, Place
    <2>2. CASE ~enabled
      <3>1. st' = None
        BY <1>5, <2>2 DEF PassBegins
      <3>2. Left(st', samples', counter') = 0
        BY <3>1, LeftDropped
      <3>3. Way(slot') <= Way(slot)
        BY <2>1, Numbers
      <3>4. Counted' <= Counted
        BY <2>1, <3>1, <3>3, CountedDropped
      <3> QED BY <1>0, <1>a, <2>1, <3>2, <3>4
    <2>3. CASE enabled
      <3>1. at' # "wait" /\ samples' = NoReads
        BY <1>5, <2>1, <2>3 DEF PassBegins
      <3>2. CASE st = None
        <4>1. st' = NewState
          BY <1>5, <2>3, <3>2 DEF PassBegins
        <4>2. NewState.pods = NoReads /\ NewState.acc = 0
          BY DEF NewState
        <4>3. Left(st', samples', counter') = 0
          BY <3>1, <4>1, <4>2, LeftNone DEF TypeOK
        <4>4. Counted' = Counted
          BY <2>1, <3>1, <3>2, <4>1, <4>2, CountedPass
        <4> QED BY <1>0, <1>a, <2>1, <4>3, <4>4
      <3>3. CASE st # None
        <4>1. st' = Aged(st) /\ st \in States
          BY <1>5, <2>3, <3>3 DEF PassBegins, TypeOK
        <4>2. st' \in States /\ st'.pods = st.pods /\ st'.acc = st.acc
          BY <4>1, StatsAssumption DEF Aged, States
        <4>3. st' # None
          BY <4>2, NoneAssumption
        <4>4. Left(st', samples', counter') = Left(st, samples, counter)
          BY <2>1, <3>1, <3>3, <4>2, <4>3, LeftSame
        <4>5. Counted' = Counted
          BY <2>1, <3>1, <3>3, <4>2, <4>3, CountedPass
        <4> QED BY <1>0, <1>a, <2>1, <4>4, <4>5
      <3> QED BY <3>2, <3>3
    <2> QED BY <2>2, <2>3
  <1>6. ASSUME NEW p \in Pods, ScrapePod(p) PROVE Once'
    <2>1. /\ UNCHANGED <<reports, slot, st, at, waiting, counter, lines, twice>> /\ st \in States
          /\ samples[p] = None
      BY <1>6 DEF ScrapePod, podVars, serverVars, TypeOK, Place
    <2>2. Counted' = Counted
      BY <2>1, CountedKept
    <2>3. CASE samples' = samples
      BY <1>b, <2>1, <2>2, <2>3
    <2>4. CASE samples' = [samples EXCEPT ![p] = counter[p]]
      <3>1. samples'[p] = counter[p] /\ \A q \in Pods : q # p => samples[q] = samples'[q]
        BY <2>4 DEF TypeOK, Reads
      <3>2. /\ samples \in Reads /\ samples' \in Reads /\ counter \in [Pods -> Nat]
            /\ st.pods[p] \in Nat \cup {None} /\ counter[p] \in Nat
        BY <2>1 DEF TypeOK, States, Reads
      <3> DEFINE u == Unread(st.pods[p], samples[p], counter[p])
                 v == Unread(st.pods[p], samples'[p], counter[p])
      <3>3. u \in Nat /\ v = u
        <4>1. Unread(st.pods[p], counter[p], counter[p]) = Unread(st.pods[p], None, counter[p])
          BY <3>2, UnreadScrape
        <4>2. Unread(st.pods[p], None, counter[p]) \in Nat
          BY <3>2, UnreadType
        <4> QED BY <2>1, <3>1, <4>1, <4>2
      <3>4. Left(st, samples', counter) = Left(st, samples, counter) + (v - u)
        BY <2>1, <3>1, <3>2, LeftUpdate
      <3> HIDE DEF u, v
      <3>5. Left(st', samples', counter') = Left(st, samples, counter)
        BY <1>0, <2>1, <3>3, <3>4
      <3> QED BY <1>0, <1>a, <2>1, <2>2, <3>5
    <2> QED BY <1>6, <2>3, <2>4 DEF ScrapePod
  <1>7. ASSUME Accumulate PROVE Once'
    <2>1. /\ UNCHANGED <<counter, lines, twice>> /\ samples' = NoReads /\ st \in States /\ st # None
          /\ samples \in Reads
          /\ counter \in [Pods -> Nat]
      BY <1>7 DEF Accumulate, podVars, TypeOK, Place
    <2>2. st' \in States /\ st'.pods = samples
      <3>1. st' = [st EXCEPT !.pods = samples, !.acc = st.acc + Grown(st, samples)]
        BY <1>7 DEF Accumulate, Grown
      <3>2. st' # None
        BY <1>7 DEF Accumulate, Place
      <3> QED BY <2>1, <3>1, <3>2 DEF TypeOK, States
    <2>3. Grown(st, samples) + Left(st', NoReads, counter) <= Left(st, samples, counter)
      BY <2>1, <2>2, LeftAdded
    <2>4. Counted' = Counted + Grown(st, samples)
      BY <1>7, CountedAdded
    <2>5. Grown(st, samples) \in Nat
      BY <2>1, GrownType
    <2>6. Left(st', NoReads, counter) = Left(st', samples', counter')
      BY <2>1
    <2> QED BY <1>0, <2>1, <2>3, <2>4, <2>5, <2>6 DEF Once
  <1>8. ASSUME SendReport PROVE Once'
    <2>1. UNCHANGED <<st, samples, counter, lines, twice>>
      BY <1>8 DEF SendReport, podVars
    <2> QED BY <1>8, <1>b, <2>1, CountedSend
  <1>9. ASSUME Answered PROVE Once'
    <2>1. UNCHANGED <<samples, counter, lines, twice>> /\ st \in States /\ st # None
      BY <1>9 DEF Answered, podVars, TypeOK, Place
    <2>2. st' # None
      BY <1>9 DEF Answered, Place
    <2>3. st'.pods = st.pods
      BY <1>9, <2>1 DEF Answered, KeepOnError, States
    <2>4. Left(st', samples, counter) = Left(st, samples, counter)
      BY <2>1, <2>2, <2>3, LeftSame
    <2>5. Left(st', samples', counter') = Left(st, samples, counter)
      BY <2>1, <2>4
    <2> QED BY <1>0, <1>9, <1>a, <2>1, <2>5, CountedAnswered
  <1>10. ASSUME TimesOut PROVE Once'
    <2>1. UNCHANGED <<st, samples, counter, lines>> /\ twice' = twice + slot[waiting].lines
      BY <1>10 DEF TimesOut, KeepOnError, podVars
    <2>2. slot[waiting].lines \in Nat
      BY <1>10 DEF TimesOut, TypeOK, Place, States
    <2>3. Counted' <= Counted + slot[waiting].lines
      BY <1>10, CountedTimesOut
    <2> QED BY <1>0, <2>1, <2>2, <2>3 DEF Once
  <1>11. ASSUME PatchStatus PROVE Once'
    <2>1. /\ UNCHANGED <<samples, counter, lines, twice, reports, slot>> /\ at # "wait" /\ at' # "wait"
          /\ st \in States /\ st # None
      BY <1>11 DEF PatchStatus, podVars, serverVars, TypeOK, Place
    <2>2. st'.pods = st.pods /\ st'.acc = st.acc
      BY <1>11, <2>1 DEF PatchStatus, States
    <2>3. st' # None
      <3>1. status \in Status
        BY DEF TypeOK
      <3>2. [st EXCEPT !.last = status] \in States
        BY <2>1, <3>1 DEF States
      <3> QED BY <1>11, <2>1, <3>2, NoneAssumption DEF PatchStatus
    <2>4. Left(st', samples, counter) = Left(st, samples, counter)
      BY <2>1, <2>2, <2>3, LeftSame
    <2>5. Left(st', samples', counter') = Left(st, samples, counter)
      BY <2>1, <2>4
    <2>6. Counted' = Counted
      BY <2>1, <2>2, <2>3, CountedPass
    <2> QED BY <1>0, <1>a, <2>1, <2>5, <2>6
  <1>12. ASSUME OperatorRestarts PROVE Once'
    <2>1. UNCHANGED <<counter, lines, twice, reports>> /\ st' = None
      BY <1>12 DEF OperatorRestarts, podVars
    <2>2. Way(slot') <= Way(slot)
      <3>1. CASE slot' = slot
        BY <3>1, Numbers
      <3>2. CASE waiting # None /\ slot' = [slot EXCEPT ![waiting] = None]
        <4>1. waiting \in Slots /\ slot'[waiting] = None /\ \A x \in Slots : x # waiting => slot'[x] = slot[x]
          BY <3>2 DEF TypeOK
        <4>2. Way(slot') = Way(slot) + (Pending(slot'[waiting]) - Pending(slot[waiting]))
          BY <4>1, WayUpdate DEF TypeOK
        <4>3. Pending(slot'[waiting]) = 0 /\ Pending(slot[waiting]) \in Nat
          BY <4>1, PendingType DEF Pending, TypeOK
        <4> QED BY <4>2, <4>3, Numbers
      <3> QED BY <1>12, <3>1, <3>2 DEF OperatorRestarts
    <2>3. Left(st', samples', counter') = 0
      BY <2>1, LeftDropped
    <2>4. Counted' <= Counted
      BY <2>1, <2>2, CountedDropped
    <2> QED BY <1>0, <1>a, <2>1, <2>3, <2>4
  <1>13. ASSUME NEW r \in Slots, ServerStep(r) PROVE Once'
    <2>1. UNCHANGED <<st, samples, counter, lines, twice>>
      BY <1>13 DEF ServerStep, TokenAccess, AddReport, podVars, passVars
    <2>2. Counted' <= Counted
      BY <1>13, CountedServer
    <2>3. Left(st', samples', counter') = Left(st, samples, counter)
      BY <2>1
    <2> QED BY <1>0, <1>a, <2>1, <2>2, <2>3
  <1> QED BY <1>1, <1>2, <1>3, <1>4, <1>5, <1>6, <1>7, <1>8, <1>9, <1>10, <1>11, <1>12, <1>13 DEF Next, ReporterStep
-----------------------------------------------------------------------------
(* No line is missed while nothing is lost *)

\* A step of the reporter that is not about the pods.
LEMMA PodReadsKept ==
    ASSUME PodReads, UNCHANGED <<samples, phase, counter, first, last>>, at' # "scrape",
           \A p \in Pods : PrevRead(st', p) = PrevRead(st, p)
    PROVE  PodReads'
  <1> SUFFICES ASSUME NEW p \in Pods
               PROVE  PodRead(PrevRead(st', p), samples'[p], phase'[p], counter'[p],
                              at' = "scrape" /\ p \notin todo', first'[p], last'[p])
    BY DEF PodReads
  <1>1. PodRead(PrevRead(st, p), samples[p], phase[p], counter[p], at = "scrape" /\ p \notin todo, first[p], last[p])
    BY DEF PodReads
  <1>2. PrevRead(st', p) = PrevRead(st, p)
    OBVIOUS
  <1> QED BY <1>1, <1>2 DEF PodRead

LEMMA PodReadsSame ==
    ASSUME PodReads, UNCHANGED <<samples, phase, counter, first, last, at, todo, st>>
    PROVE  PodReads'
  BY DEF PodReads

LEMMA GapStep ==
    ASSUME TypeOK, Place, ~gap => NoGap /\ PodReads, Next, TypeOK', Place', ~gap'
    PROVE  NoGap' /\ PodReads'
  <1> USE StatsAssumption, NoneAssumption
  <1>a. ASSUME ~gap, UNCHANGED <<enabled, slot, waiting, st, first, last>>, Counted' = Counted
        PROVE  NoGap'
    BY <1>a DEF NoGap
  <1>1. ASSUME NEW p \in Pods, PodStarts(p) \/ PodEnds(p) \/ ProcessLine(p) PROVE NoGap' /\ PodReads'
    <2>1. /\ UNCHANGED <<reports, enabled, slot, waiting, st, at, todo, samples, gap, first, last>>
          /\ \A q \in Pods : q # p => phase'[q] = phase[q] /\ counter'[q] = counter[q]
      BY <1>1 DEF PodStarts, PodEnds, ProcessLine, policyVars, passVars, serverVars, TypeOK
    <2>2. ~gap /\ NoGap /\ PodReads /\ Counted' = Counted
      BY <2>1, CountedKept
    <2>3. \/ phase[p] = "new" /\ phase'[p] = "running" /\ counter'[p] = counter[p]
          \/ phase[p] = "running" /\ phase'[p] = "gone"
          \/ phase[p] = "running" /\ phase'[p] = "running" /\ counter'[p] = counter[p] + 1
      BY <1>1 DEF PodStarts, PodEnds, ProcessLine, TypeOK
    <2>4. ASSUME NEW q \in Pods
          PROVE  PodRead(PrevRead(st, q), samples[q], phase'[q], counter'[q],
                         at = "scrape" /\ q \notin todo, first[q], last[q])
      <3>1. PodRead(PrevRead(st, q), samples[q], phase[q], counter[q],
                    at = "scrape" /\ q \notin todo, first[q], last[q])
        BY <2>2 DEF PodReads
      <3>2. CASE q # p
        BY <2>1, <3>1, <3>2
      <3>3. CASE q = p
        <4>1. PrevRead(st, p) \in Nat \cup {None} /\ samples[p] \in Nat \cup {None} /\ counter[p] \in Nat
          BY DEF TypeOK, PrevRead, States, Reads
        <4> QED BY <2>3, <3>1, <3>3, <4>1 DEF PodRead
      <3> QED BY <3>2, <3>3
    <2>5. PodReads'
      BY <2>1, <2>4 DEF PodReads
    <2> QED BY <1>a, <2>1, <2>2, <2>5
  <1>2. ASSUME NEW p \in Pods, SidecarRestarts(p) PROVE FALSE
    BY <1>2 DEF SidecarRestarts, Loss
  <1>3. ASSUME EditStats PROVE FALSE
    <2>1. CASE gap
      <3>1. gap'
        BY <1>3, <2>1 DEF EditStats, Loss, NoFault
      <3> QED BY <3>1
    <2>2. CASE ~gap
      <3>1. enabled
        BY <2>2 DEF NoGap
      <3>2. gap' = TRUE
        BY <1>3, <3>1 DEF EditStats, Loss
      <3> QED BY <3>2
    <2> QED BY <2>1, <2>2
  <1>4. ASSUME ReconcileStats PROVE NoGap' /\ PodReads'
    <2>1. UNCHANGED <<reports, enabled, slot, waiting, st, at, todo, samples, gap, first, last, phase, counter>>
      BY <1>4 DEF ReconcileStats, podVars, passVars, serverVars
    <2>2. ~gap /\ PodReads /\ Counted' = Counted
      BY <2>1, CountedKept
    <2> QED BY <1>a, <2>1, <2>2, PodReadsSame
  <1>5. ASSUME AccessChanges PROVE NoGap' /\ PodReads'
    <2>1. UNCHANGED <<reports, enabled, slot, waiting, st, at, todo, samples, gap, first, last, phase, counter>>
      BY <1>5 DEF AccessChanges, Fault, NoFault, podVars, policyVars, passVars, serverVars
    <2>2. ~gap /\ PodReads /\ Counted' = Counted
      BY <2>1, CountedKept
    <2> QED BY <1>a, <2>1, <2>2, PodReadsSame
  <1>6. ASSUME PassBegins PROVE NoGap' /\ PodReads'
    <2>1. /\ UNCHANGED <<reports, enabled, slot, first, last, phase, counter>> /\ at = "idle"
          /\ samples = NoReads /\ waiting = None
      BY <1>6 DEF PassBegins, podVars, policyVars, serverVars, Place
    <2>2. gap' = gap
      BY <1>6 DEF PassBegins, Fault, NoFault
    <2>3. ~gap /\ NoGap /\ PodReads /\ enabled
      BY <2>2 DEF NoGap
    <2>4. /\ at' # "wait" /\ samples' = NoReads /\ waiting' = waiting
          /\ at' = "scrape" => todo' = Running
      BY <1>6, <2>1, <2>3 DEF PassBegins
    <2>5. /\ st' # None /\ \A p \in Pods : PrevRead(st', p) = PrevRead(st, p)
          /\ st'.acc = IF st = None THEN 0 ELSE st.acc
      <3>1. CASE st = None
        <4>1. st' = NewState /\ NewState.pods = NoReads /\ NewState.acc = 0
          BY <1>6, <2>3, <3>1 DEF PassBegins, NewState
        <4>2. NewState \in States
          BY DEF NewState, States, NoStatus, Status, NoReads, Reads
        <4>3. \A p \in Pods : PrevRead(st', p) = None
          BY <4>1 DEF PrevRead, NoReads
        <4> QED BY <3>1, <4>1, <4>2, <4>3 DEF PrevRead
      <3>2. CASE st # None
        <4>1. st' = Aged(st) /\ st \in States
          BY <1>6, <2>3, <3>2 DEF PassBegins, TypeOK
        <4>2. st' \in States /\ st'.pods = st.pods /\ st'.acc = st.acc
          BY <4>1 DEF Aged, States
        <4> QED BY <3>2, <4>2 DEF PrevRead
      <3> QED BY <3>1, <3>2
    <2>6. Counted' = Counted
      BY <2>1, <2>4, <2>5, CountedPass
    <2>7. NoGap'
      BY <2>1, <2>3, <2>4, <2>5, <2>6 DEF NoGap
    <2>8. ASSUME NEW p \in Pods
          PROVE  PodRead(PrevRead(st', p), samples'[p], phase'[p], counter'[p],
                         at' = "scrape" /\ p \notin todo', first'[p], last'[p])
      <3>1. PodRead(PrevRead(st, p), samples[p], phase[p], counter[p],
                    at = "scrape" /\ p \notin todo, first[p], last[p])
        BY <2>3 DEF PodReads
      <3>2. at' = "scrape" /\ p \notin todo' => phase'[p] # "running"
        BY <2>1, <2>4 DEF Running
      <3>3. PrevRead(st', p) = PrevRead(st, p) /\ samples'[p] = samples[p]
        BY <2>1, <2>4, <2>5
      <3> QED BY <2>1, <3>1, <3>2, <3>3 DEF PodRead
    <2> QED BY <2>7, <2>8 DEF PodReads
  <1>7. ASSUME NEW p \in Pods, ScrapePod(p) PROVE NoGap' /\ PodReads'
    <2>1. /\ UNCHANGED <<reports, enabled, slot, waiting, st, at, first, last, phase, counter>>
          /\ todo' = todo \ {p} /\ at = "scrape" /\ p \in todo
      BY <1>7 DEF ScrapePod, podVars, policyVars, serverVars
    <2>2. /\ \/ phase[p] = "running" /\ samples' = [samples EXCEPT ![p] = counter[p]]
             \/ phase[p] = "gone" /\ samples' = samples
          /\ gap' = gap
      <3>1. ~Loss
        BY DEF Loss
      <3> QED BY <1>7, <3>1 DEF ScrapePod, NoFault
    <2>3. ~gap /\ NoGap /\ PodReads /\ Counted' = Counted
      BY <2>1, <2>2, CountedKept
    <2>4. ASSUME NEW q \in Pods
          PROVE  PodRead(PrevRead(st, q), samples'[q], phase[q], counter[q],
                         at = "scrape" /\ q \notin todo', first[q], last[q])
      <3>1. PodRead(PrevRead(st, q), samples[q], phase[q], counter[q],
                    at = "scrape" /\ q \notin todo, first[q], last[q])
        BY <2>3 DEF PodReads
      <3>2. CASE q # p
        <4>1. samples'[q] = samples[q] /\ (q \in todo' <=> q \in todo)
          BY <2>1, <2>2, <3>2 DEF TypeOK, Reads
        <4> QED BY <3>1, <4>1 DEF PodRead
      <3>3. CASE q = p
        <4>1. PrevRead(st, p) \in Nat \cup {None} /\ counter[p] \in Nat
          BY DEF TypeOK, PrevRead, States, Reads
        <4>2. CASE phase[p] = "gone" /\ samples' = samples
          BY <3>1, <3>3, <4>2 DEF PodRead
        <4>3. CASE phase[p] = "running" /\ samples'[p] = counter[p]
          BY <3>1, <3>3, <4>1, <4>3 DEF PodRead
        <4> QED BY <2>2, <4>2, <4>3 DEF TypeOK, Reads
      <3> QED BY <3>2, <3>3
    <2>5. PodReads'
      BY <2>1, <2>4 DEF PodReads
    <2> QED BY <1>a, <2>1, <2>3, <2>5
  <1>8. ASSUME Accumulate PROVE NoGap' /\ PodReads'
    <2>1. /\ UNCHANGED <<enabled, slot, waiting, gap, phase, counter>> /\ st \in States /\ samples \in Reads
          /\ st' # None /\ at = "scrape" /\ todo = {} /\ samples' = NoReads /\ at' # "scrape" /\ st'.pods = samples
      <3>1. st \in States /\ st' # None
        BY <1>8 DEF Accumulate, TypeOK, Place
      <3> QED BY <1>8, <3>1 DEF Accumulate, TypeOK, States, podVars, policyVars, serverVars
    <2>2. ~gap /\ NoGap /\ PodReads
      BY <2>1
    <2>3. \A p \in Pods : /\ first'[p] = IF first[p] = None THEN samples[p] ELSE first[p]
                          /\ last'[p] = IF samples[p] = None THEN last[p] ELSE samples[p]
      BY <1>8, <2>2 DEF Accumulate
    <2>4. ASSUME NEW p \in Pods
          PROVE  PodRead(st.pods[p], samples[p], phase[p], counter[p], TRUE, first[p], last[p])
      <3>1. PodRead(PrevRead(st, p), samples[p], phase[p], counter[p],
                    at = "scrape" /\ p \notin todo, first[p], last[p])
        BY <2>2 DEF PodReads
      <3>2. PrevRead(st, p) = st.pods[p]
        BY <2>1 DEF PrevRead
      <3> QED BY <2>1, <3>1, <3>2 DEF PodRead
    <2>5. ASSUME NEW p \in Pods
          PROVE  PodRead(samples[p], None, phase[p], counter[p], FALSE, first'[p], last'[p])
      <3>1. PodRead(st.pods[p], samples[p], phase[p], counter[p], TRUE, first[p], last[p])
        BY <2>4
      <3>2. /\ first'[p] = IF first[p] = None THEN samples[p] ELSE first[p]
            /\ last'[p] = IF samples[p] = None THEN last[p] ELSE samples[p]
            /\ phase[p] \in {"new", "running", "gone"}
        BY <2>3 DEF TypeOK
      <3> QED BY <3>1, <3>2 DEF PodRead
    <2>6. PodReads'
      <3> SUFFICES ASSUME NEW p \in Pods
                   PROVE  PodRead(PrevRead(st', p), samples'[p], phase'[p], counter'[p],
                                  at' = "scrape" /\ p \notin todo', first'[p], last'[p])
        BY DEF PodReads
      <3>1. PodRead(samples[p], None, phase[p], counter[p], FALSE, first'[p], last'[p])
        BY <2>5
      <3>2. PrevRead(st', p) = samples[p] /\ samples'[p] = None
        BY <2>1 DEF PrevRead, NoReads
      <3> QED BY <2>1, <3>1, <3>2 DEF PodRead
    <2>7. Seen(first', last') = Seen(first, last) + Grown(st, samples)
      <3>1. \A p \in Pods : /\ st.pods[p] # None => first[p] # None /\ last[p] = st.pods[p]
                            /\ first[p] # None => last[p] # None
                            /\ first[p] # None /\ st.pods[p] = None => samples[p] = None
                            /\ st.pods[p] # None /\ samples[p] # None => samples[p] >= st.pods[p]
        BY <2>4 DEF PodRead
      <3>2. first \in Reads /\ last \in Reads /\ first' \in Reads /\ last' \in Reads
        BY DEF TypeOK
      <3>3. st \in States /\ samples \in Reads
        BY <2>1
      <3> QED BY ONLY <2>3, <3>1, <3>2, <3>3, SeenAdded
    <2>8. Counted' = Seen(first', last')
      BY <1>8, <2>2, <2>7, CountedAdded DEF NoGap
    <2> QED BY <2>1, <2>2, <2>6, <2>8 DEF NoGap
  <1>9. ASSUME SendReport PROVE NoGap' /\ PodReads'
    <2>1. /\ UNCHANGED <<enabled, st, samples, phase, counter, first, last>> /\ at' # "scrape"
          /\ waiting = None /\ st # None
      BY <1>9 DEF SendReport, podVars, policyVars, Place
    <2>2. gap' = gap
      BY <1>9 DEF SendReport, Fault, NoFault
    <2>3. ~gap /\ NoGap /\ PodReads
      BY <2>2
    <2>4. \A r \in Slots : slot'[r] # None => r = waiting'
      <3>1. \A r \in Slots : slot[r] = None
        BY <2>1, <2>3 DEF NoGap
      <3> QED BY <1>9, <3>1 DEF SendReport, TypeOK
    <2>5. Counted' = Counted
      BY <1>9, CountedSend
    <2>6. NoGap'
      BY <2>1, <2>3, <2>4, <2>5 DEF NoGap
    <2>7. PodReads'
      BY <2>1, <2>3, PodReadsKept
    <2> QED BY <2>6, <2>7
  <1>10. ASSUME Answered PROVE NoGap' /\ PodReads'
    <2>1. /\ UNCHANGED <<enabled, samples, phase, counter, first, last, gap>> /\ at' # "scrape" /\ waiting \in Slots
          /\ slot' = [slot EXCEPT ![waiting] = None] /\ st \in States /\ st' # None
      BY <1>10 DEF Answered, podVars, policyVars, Place, TypeOK
    <2>2. ~gap /\ NoGap /\ PodReads
      BY <2>1
    <2>3. \A r \in Slots : slot'[r] = None
      BY <2>1, <2>2 DEF NoGap, TypeOK
    <2>4. Counted' = Counted
      BY <1>10, CountedAnswered
    <2>5. st'.pods = st.pods
      BY <1>10, <2>1 DEF Answered, KeepOnError, States
    <2>6. \A p \in Pods : PrevRead(st', p) = PrevRead(st, p)
      BY <2>1, <2>5 DEF PrevRead
    <2>7. NoGap'
      BY <2>1, <2>2, <2>3, <2>4 DEF NoGap
    <2>8. PodReads'
      BY <2>1, <2>2, <2>6, PodReadsKept
    <2> QED BY <2>7, <2>8
  <1>11. ASSUME TimesOut \/ OperatorRestarts PROVE FALSE
    BY <1>11 DEF TimesOut, OperatorRestarts, Loss
  <1>12. ASSUME PatchStatus PROVE NoGap' /\ PodReads'
    <2>1. /\ UNCHANGED <<reports, enabled, slot, waiting, samples, phase, counter, first, last>>
          /\ at = "patch" /\ at' = "idle"
          /\ st \in States /\ st # None
      BY <1>12 DEF PatchStatus, podVars, serverVars, TypeOK, Place
    <2>2. gap' = gap
      BY <1>12 DEF PatchStatus, Fault, NoFault
    <2>3. ~gap /\ NoGap /\ PodReads
      BY <2>2
    <2>4. st'.pods = st.pods /\ st'.acc = st.acc
      BY <1>12, <2>1 DEF PatchStatus, States
    <2>5. st' # None
      <3>1. status \in Status
        BY DEF TypeOK
      <3>2. [st EXCEPT !.last = status] \in States
        BY <2>1, <3>1 DEF States
      <3> QED BY <1>12, <2>1, <3>2 DEF PatchStatus
    <2>6. Counted' = Counted
      BY <2>1, <2>4, <2>5, CountedPass
    <2>7. \A p \in Pods : PrevRead(st', p) = PrevRead(st, p)
      BY <2>1, <2>4, <2>5 DEF PrevRead
    <2>8. NoGap'
      BY <2>1, <2>3, <2>5, <2>6 DEF NoGap
    <2>9. PodReads'
      BY <2>1, <2>3, <2>7, PodReadsKept
    <2> QED BY <2>8, <2>9
  <1>13. ASSUME NEW r \in Slots, ServerStep(r) PROVE NoGap' /\ PodReads'
    <2>1. UNCHANGED <<enabled, waiting, st, at, todo, samples, phase, counter, first, last>> /\ slot[r] # None
      BY <1>13 DEF ServerStep, TokenAccess, AddReport, podVars, policyVars, passVars
    <2>2. gap' = gap
      BY <1>13 DEF ServerStep, TokenAccess, AddReport, Fault, NoFault
    <2>3. ~gap /\ NoGap /\ PodReads /\ r = waiting
      BY <2>1, <2>2 DEF NoGap
    <2>4. \A x \in Slots : x # r => slot'[x] = slot[x]
      BY <1>13 DEF ServerStep, TokenAccess, AddReport, Reply, TypeOK
    <2>5. Counted' = Counted
      BY <1>13, <2>3, CountedServer
    <2>6. NoGap'
      BY <2>1, <2>3, <2>4, <2>5 DEF NoGap
    <2> QED BY <2>1, <2>3, <2>6, PodReadsSame
  <1> QED BY <1>1, <1>2, <1>3, <1>4, <1>5, <1>6, <1>7, <1>8, <1>9, <1>10, <1>11, <1>12, <1>13 DEF Next, ReporterStep
-----------------------------------------------------------------------------
(* The theorems *)

LEMMA InitIInv == Init => IInv
  <1> SUFFICES ASSUME Init PROVE IInv
    OBVIOUS
  <1> USE StatsAssumption, NoneAssumption
  <1>1. TypeOK
    <2>1. NoStatus \in Status
      BY DEF NoStatus, Status
    <2>2. 0 \in 0 .. MaxFaults
      OBVIOUS
    <2>3. counter \in [Pods -> Nat] /\ phase \in [Pods -> {"new", "running", "gone"}]
      BY DEF Init
    <2>4. slot \in [Slots -> Requests \cup {None}]
      BY DEF Init
    <2> QED BY <2>1, <2>2, <2>3, <2>4, NoReadsType DEF Init, TypeOK
  <1>2. Place
    BY DEF Init, Place
  <1>3. Way(slot) = 0
    <2> DEFINE f == [r \in Slots |-> Pending(slot[r])]
    <2>1. f \in [Slots -> Int] /\ \A r \in Slots : f[r] = 0
      BY DEF Init, Pending
    <2> HIDE DEF f
    <2>2. Total(f) = 0
      BY <2>1, TotalZero
    <2> QED BY <2>2 DEF f, Way
  <1>4. reports = 0 /\ lines = 0 /\ twice = 0 /\ st = None /\ Held = 0 /\ first = NoReads /\ last = NoReads
    BY DEF Init, Held
  <1>5. Counted = 0
    BY <1>1, <1>2, <1>3, <1>4, Numbers
  <1>6. Left(st, samples, counter) = 0
    BY <1>4, LeftDropped
  <1>7. Once
    BY <1>4, <1>5, <1>6 DEF Once
  <1>8. Seen(first, last) = 0
    BY <1>4, SeenNone
  <1>9. NoGap
    BY <1>5, <1>8 DEF Init, NoGap
  <1>10. PodReads
    BY DEF Init, PodReads, PodRead, PrevRead, NoReads
  <1> QED BY <1>1, <1>2, <1>7, <1>9, <1>10 DEF IInv

LEMMA IInvStep == IInv /\ [Next]_vars => IInv'
  <1> SUFFICES ASSUME IInv, [Next]_vars PROVE IInv'
    OBVIOUS
  <1>1. CASE Next
    <2>1. TypeOK'
      BY <1>1, TypeStep DEF IInv
    <2>2. Place'
      BY <1>1, <2>1, PlaceStep DEF IInv
    <2>3. Once'
      BY <1>1, <2>1, <2>2, OnceStep DEF IInv
    <2>4. ~gap' => NoGap' /\ PodReads'
      BY <1>1, <2>1, <2>2, GapStep DEF IInv
    <2> QED BY <2>1, <2>2, <2>3, <2>4 DEF IInv
  <1>2. CASE UNCHANGED vars
    <2> USE <1>2 DEF vars, podVars, policyVars, passVars, serverVars
    <2>1. TypeOK'
      BY DEF IInv, TypeOK
    <2>2. Place'
      BY DEF IInv, Place
    <2>3. Counted' = Counted
      BY CountedKept DEF IInv
    <2>4. Once'
      BY <2>3 DEF IInv, Once
    <2>5. ~gap => NoGap' /\ PodReads'
      BY <2>3 DEF IInv, NoGap, PodReads
    <2> QED BY <2>1, <2>2, <2>4, <2>5 DEF IInv
  <1> QED BY <1>1, <1>2

\* The invariant that the reporter, the pods and the receiver keep together.
THEOREM Invariant == Spec => []IInv
  BY InitIInv, IInvStep, PTL DEF Spec

\* A line of a sidecar is counted at most once, whatever restarts, fails or is
\* delayed, and none between the first and the latest read is missed while
\* nothing is lost: for any pods, any number of requests at a time, any interval
\* and any number of faults.
THEOREM CountedOnceHolds == Spec => []CountedOnce
  <1>1. IInv => CountedOnce
    <2> SUFFICES ASSUME IInv PROVE CountedOnce
      OBVIOUS
    <2>1. TypeOK /\ Place /\ Once
      BY DEF IInv
    <2>2. Counted \in Nat /\ Left(st, samples, counter) \in Nat /\ lines \in Nat /\ twice \in Nat
      BY <2>1, Numbers
    <2>3. Counted <= lines + twice
      BY <2>1, <2>2 DEF Once
    <2>4. ~gap => Counted = Seen(first, last)
      BY DEF IInv, NoGap
    <2>5. Seen(first, last) = Total([p \in Pods |-> Between(first[p], last[p])])
      BY DEF Seen
    <2> QED BY <2>1, <2>3, <2>4, <2>5 DEF CountedOnce, Counted
  <1> QED BY <1>1, Invariant, PTL
=============================================================================
