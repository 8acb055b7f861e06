--------------------------- MODULE EbpfAgentProofs ---------------------------
(***************************************************************************)
(* The eBPF agent counts every byte it takes over once and in order, saw   *)
(* everything from the first write on, and ends with everything counted,   *)
(* for any number of streams, threads and calls and for any size of the    *)
(* buffers.                                                                *)
(*                                                                         *)
(* The loop of Push is a fold; what it computes is proved by induction     *)
(* over the bytes of a record, with sets in the place of predicates.       *)
(***************************************************************************)
EXTENDS EbpfAgent, FiniteSetTheorems, SequenceTheorems, WellFoundedInduction, TLAPS
-----------------------------------------------------------------------------
(* Induction and folds.                                                    *)

LessRel == OpToRel(<, Nat)

LEMMA LessWF == IsWellFoundedOn(LessRel, Nat)
  BY NatLessThanWellFounded DEF LessRel

LEMMA LessIs == \A x, y \in Nat : <<x, y>> \in LessRel <=> x < y
  BY DEF LessRel, OpToRel

LEMMA Least ==
    ASSUME NEW T, T \subseteq Nat, T # {}
    PROVE  \E n \in T : \A m \in T : n <= m
  <1>1. PICK x \in T : \A y \in T : ~(<<y, x>> \in LessRel)
    BY LessWF, WFMin
  <1>2. ASSUME NEW m \in T PROVE x <= m
    <2>1. m \in Nat /\ x \in Nat
      OBVIOUS
    <2>2. ~(m < x)
      BY <1>1, <2>1, LessIs
    <2> QED BY <2>1, <2>2
  <1> QED BY <1>2

\* Induction up to N, over a set instead of a predicate.
LEMMA UpTo ==
    ASSUME NEW N \in Nat, NEW B, 0 \in B,
           \A n \in 0..N - 1 : n \in B => n + 1 \in B
    PROVE  0..N \subseteq B
  <1> DEFINE T == (0..N) \ B
  <1> SUFFICES ASSUME T # {} PROVE FALSE
    OBVIOUS
  <1>0. T \subseteq Nat
    OBVIOUS
  <1>1. PICK n \in T : \A m \in T : n <= m
    <2> HIDE DEF T
    <2> QED BY <1>0, Least
  <1>2. n # 0 /\ n - 1 \in 0..N - 1 /\ n - 1 \in 0..N /\ ~(n <= n - 1) /\ n = (n - 1) + 1
    BY <1>1
  <1>3. n - 1 \in B
    BY <1>1, <1>2
  <1> QED BY <1>1, <1>2, <1>3

LEMMA MaxIs ==
    ASSUME NEW s, NEW n \in s, s \subseteq Nat, \A y \in s : y <= n
    PROVE  Max(s) = n
  <1>1. \A x \in s : (\A y \in s : x >= y) => x = n
    <2> SUFFICES ASSUME NEW x \in s, \A y \in s : x >= y PROVE x = n
      OBVIOUS
    <2> QED BY x \in Nat /\ n \in Nat
  <1>2. \A y \in s : n >= y
    <2> SUFFICES ASSUME NEW y \in s PROVE n >= y
      OBVIOUS
    <2> QED BY y \in Nat /\ n \in Nat
  <1> QED BY <1>1, <1>2 DEF Max

LEMMA MaxIn ==
    ASSUME NEW N \in Nat, NEW s, s \subseteq 1..N, s # {}
    PROVE  Max(s) \in s /\ \A y \in s : y <= Max(s)
  <1> DEFINE T == {N - y : y \in s}
  <1>1. T \subseteq Nat /\ T # {}
    <2>1. \A y \in s : y \in 1..N
      OBVIOUS
    <2>2. \A y \in 1..N : N - y \in Nat
      OBVIOUS
    <2> QED BY <2>1, <2>2
  <1>2. PICK t \in T : \A m \in T : t <= m
    <2> HIDE DEF T
    <2> QED BY <1>1, Least
  <1>3. PICK n \in s : t = N - n
    BY <1>2
  <1>4. \A y \in s : y <= n
    <2> SUFFICES ASSUME NEW y \in s PROVE y <= n
      OBVIOUS
    <2>1. N - n <= N - y
      BY <1>2, <1>3
    <2>2. n \in Nat /\ y \in Nat
      OBVIOUS
    <2> QED BY <2>1, <2>2
  <1>5. Max(s) = n
    <2>1. s \subseteq Nat
      OBVIOUS
    <2> QED BY <1>4, <2>1, MaxIs
  <1> QED BY <1>4, <1>5

\* The first n numbers end with n.
LEMMA Prefix ==
    ASSUME NEW n \in Nat, n # 0
    PROVE  Max(1..n) = n /\ (1..n) \ {Max(1..n)} = 1..n - 1 /\ 1..n # {}
  <1> DEFINE s == 1..n
  <1>1. n \in s /\ s \subseteq Nat /\ \A y \in s : y <= n
    OBVIOUS
  <1>2. Max(s) = n
    <2> HIDE DEF s
    <2> QED BY <1>1, MaxIs
  <1>3. (1..n) \ {n} = 1..n - 1 /\ 1..n # {}
    OBVIOUS
  <1> QED BY <1>2, <1>3, Zenon

\* g is the fold of step over the numbers up to N, as FoldLeft goes over them.
FoldsBy(base, step, N, g) ==
    g = [s \in SUBSET (1..N) |-> IF s = {} THEN base ELSE step[g[s \ {Max(s)}]][Max(s)]]

LEMMA FoldExists ==
    ASSUME NEW base, NEW step, NEW N \in Nat
    PROVE  \E g : FoldsBy(base, step, N, g)
  <1> DEFINE B == {n \in Nat : \E g : FoldsBy(base, step, n, g)}
  <1>1. 0 \in B
    <2> DEFINE g == [s \in SUBSET (1..0) |-> base]
    <2>1. \A s \in SUBSET (1..0) : s = {}
      OBVIOUS
    <2>2. FoldsBy(base, step, 0, g)
      BY <2>1 DEF FoldsBy
    <2> QED BY <2>2
  <1>2. ASSUME NEW n \in 0..N - 1, n \in B PROVE n + 1 \in B
    <2>1. PICK g : FoldsBy(base, step, n, g)
      BY <1>2
    <2> DEFINE h == [s \in SUBSET (1..n + 1) |->
                        IF s = {} THEN base ELSE step[g[s \ {Max(s)}]][Max(s)]]
    <2>2. \A s \in SUBSET (1..n + 1) : s # {} => s \ {Max(s)} \in SUBSET (1..n)
      <3> SUFFICES ASSUME NEW s \in SUBSET (1..n + 1), s # {}, NEW y \in s, y # Max(s)
                   PROVE  y \in 1..n
        OBVIOUS
      <3>1. Max(s) \in s /\ y <= Max(s)
        BY MaxIn, n + 1 \in Nat
      <3>2. Max(s) \in 1..n + 1 /\ y \in 1..n + 1
        BY <3>1
      <3> QED BY <3>1, <3>2
    <2>3. \A s \in SUBSET (1..n) : s \in SUBSET (1..n + 1)
      OBVIOUS
    <2>4. \A s \in SUBSET (1..n) : h[s] = g[s]
      BY <2>1, <2>3 DEF FoldsBy
    <2>5. h = [s \in SUBSET (1..n + 1) |->
                  IF s = {} THEN base ELSE step[h[s \ {Max(s)}]][Max(s)]]
      <3>1. \A s \in SUBSET (1..n + 1) : s # {} => h[s \ {Max(s)}] = g[s \ {Max(s)}]
        BY <2>2, <2>4
      <3> QED BY <3>1
    <2>6. FoldsBy(base, step, n + 1, h)
      <3> HIDE DEF h
      <3> QED BY <2>5 DEF FoldsBy
    <2> HIDE DEF h
    <2> QED BY <2>6
  <1>3. N \in B
    <2> HIDE DEF B
    <2>1. \A n \in 0..N - 1 : n \in B => n + 1 \in B
      BY <1>2
    <2>2. 0..N \subseteq B
      BY <1>1, <2>1, UpTo
    <2> QED BY <2>2
  <1> QED BY <1>3

LEMMA FoldTyped ==
    ASSUME NEW A, NEW base \in A, NEW N \in Nat, NEW step \in [A -> [1..N -> A]],
           NEW g, FoldsBy(base, step, N, g)
    PROVE  \A s \in SUBSET (1..N) : g[s] \in A
  <1> DEFINE B == {n \in 0..N : \A s \in SUBSET (1..n) : g[s] \in A}
  <1>0. \A s \in SUBSET (1..N) : g[s] = IF s = {} THEN base ELSE step[g[s \ {Max(s)}]][Max(s)]
    BY DEF FoldsBy
  <1>1. 0 \in B
    <2>1. \A s \in SUBSET (1..0) : s = {}
      OBVIOUS
    <2>2. g[{}] = base /\ 0 \in 0..N
      <3>1. {} \in SUBSET (1..N)
        OBVIOUS
      <3>2. g[{}] = base
        BY <1>0, <3>1, Zenon
      <3> QED BY <3>2
    <2>3. \A s \in SUBSET (1..0) : g[s] \in A
      BY <2>1, <2>2
    <2> QED BY <2>2, <2>3
  <1>2. ASSUME NEW n \in 0..N - 1, n \in B PROVE n + 1 \in B
    <2>0. n + 1 \in 0..N
      OBVIOUS
    <2> SUFFICES ASSUME NEW s \in SUBSET (1..n + 1) PROVE g[s] \in A
      BY <2>0
    <2>1. s \in SUBSET (1..N)
      OBVIOUS
    <2>2. CASE s = {}
      BY <1>0, <2>1, <2>2
    <2>3. CASE s # {}
      <3>1. Max(s) \in s /\ \A y \in s : y <= Max(s)
        BY <2>3, MaxIn, n + 1 \in Nat
      <3>2. Max(s) \in 1..N /\ s \ {Max(s)} \in SUBSET (1..n)
        <4>1. Max(s) \in 1..N /\ Max(s) \in 1..n + 1
          BY <2>1, <3>1
        <4>2. ASSUME NEW y \in s, y # Max(s) PROVE y \in 1..n
          <5>1. y \in 1..n + 1 /\ y <= Max(s)
            BY <3>1
          <5> QED BY <4>1, <4>2, <5>1
        <4> QED BY <4>1, <4>2
      <3>3. g[s \ {Max(s)}] \in A
        BY <1>2, <3>2
      <3>4. g[s] = step[g[s \ {Max(s)}]][Max(s)]
        BY <1>0, <2>1, <2>3
      <3> QED BY <3>2, <3>3, <3>4
    <2> QED BY <2>2, <2>3
  <1>3. N \in B
    <2> HIDE DEF B
    <2>1. \A n \in 0..N - 1 : n \in B => n + 1 \in B
      BY <1>2
    <2>2. 0..N \subseteq B
      BY <1>1, <2>1, UpTo
    <2> QED BY <2>2
  <1> QED BY <1>3
-----------------------------------------------------------------------------
(* The loop of Push.                                                       *)

Pos == Nat \ {0}
Accs == [out : Seq(Seq(Pos)), buf : Seq(Pos)]

\* One byte of the loop.
Byte(k, acc, i) ==
    IF said[k][i] THEN [out |-> Append(acc.out, acc.buf), buf |-> <<>>]
    ELSE [acc EXCEPT !.buf = Append(@, i)]

SplitsBy(k, data, buf, g) ==
    g = [s \in SUBSET DOMAIN data |-> IF s = {} THEN [out |-> <<>>, buf |-> buf]
                                      ELSE Byte(k, g[s \ {Max(s)}], data[Max(s)])]

LEMMA SplitUnfold ==
    ASSUME NEW k, NEW data, NEW buf
    PROVE  Split(k, data, buf) = (CHOOSE g : SplitsBy(k, data, buf, g))[DOMAIN data]
  BY DEF Split, FoldLeft, MapThenFoldSet, SplitsBy, Byte

LEMMA ByteTyped ==
    ASSUME NEW k, NEW acc \in Accs, NEW i \in Pos
    PROVE  Byte(k, acc, i) \in Accs
  <1>1. acc.out \in Seq(Seq(Pos)) /\ acc.buf \in Seq(Pos)
    BY DEF Accs
  <1>2. Append(acc.out, acc.buf) \in Seq(Seq(Pos)) /\ Append(acc.buf, i) \in Seq(Pos) /\ <<>> \in Seq(Pos)
    BY <1>1, AppendProperties, EmptySeq
  <1>3. [out |-> Append(acc.out, acc.buf), buf |-> <<>>] \in Accs
    BY <1>2 DEF Accs
  <1>4. [acc EXCEPT !.buf = Append(@, i)] \in Accs
    BY <1>2 DEF Accs
  <1> QED BY <1>3, <1>4 DEF Byte

LEMMA SplitExists ==
    ASSUME NEW k, NEW data \in Seq(Pos), NEW buf \in Seq(Pos)
    PROVE  \E g : SplitsBy(k, data, buf, g)
  <1> DEFINE N == Len(data)
             base == [out |-> <<>>, buf |-> buf]
             step == [acc \in Accs |-> [i \in 1..N |-> Byte(k, acc, data[i])]]
  <1>1. N \in Nat /\ DOMAIN data = 1..N /\ \A i \in 1..N : data[i] \in Pos
    BY LenProperties, ElementOfSeq
  <1>2. base \in Accs
    BY DEF Accs
  <1>3. step \in [Accs -> [1..N -> Accs]]
    BY <1>1, ByteTyped
  <1>4. \A acc \in Accs : \A i \in 1..N : step[acc][i] = Byte(k, acc, data[i])
    OBVIOUS
  <1> HIDE DEF step, base, N
  <1>5. PICK g : FoldsBy(base, step, N, g)
    BY <1>1, FoldExists
  <1>6. \A s \in SUBSET (1..N) : g[s] \in Accs
    BY <1>1, <1>2, <1>3, <1>5, FoldTyped
  <1>7. ASSUME NEW s \in SUBSET (1..N), s # {}
        PROVE  step[g[s \ {Max(s)}]][Max(s)] = Byte(k, g[s \ {Max(s)}], data[Max(s)])
    <2>1. Max(s) \in 1..N
      BY <1>1, <1>7, MaxIn
    <2>2. s \ {Max(s)} \in SUBSET (1..N)
      OBVIOUS
    <2> QED BY <1>4, <1>6, <2>1, <2>2
  <1>8. g = [s \in SUBSET (1..N) |-> IF s = {} THEN base ELSE Byte(k, g[s \ {Max(s)}], data[Max(s)])]
    BY <1>5, <1>7 DEF FoldsBy
  <1>9. SplitsBy(k, data, buf, g)
    BY <1>1, <1>8, Zenon DEF SplitsBy, base
  <1> QED BY <1>9

\* What the loop holds after n bytes.
Loop(k, data, buf, h) ==
    /\ h[0] = [out |-> <<>>, buf |-> buf]
    /\ \A n \in 1..Len(data) : h[n] = Byte(k, h[n - 1], data[n])
    /\ Split(k, data, buf) = h[Len(data)]

LEMMA SplitLoop ==
    ASSUME NEW k, NEW data \in Seq(Pos), NEW buf \in Seq(Pos)
    PROVE  \E h : Loop(k, data, buf, h)
  <1> DEFINE g == CHOOSE g : SplitsBy(k, data, buf, g)
             h == [n \in 0..Len(data) |-> g[1..n]]
  <1>1. Len(data) \in Nat /\ DOMAIN data = 1..Len(data)
    BY LenProperties
  <1>2. SplitsBy(k, data, buf, g)
    BY SplitExists
  <1>3. Split(k, data, buf) = g[1..Len(data)]
    BY <1>1, SplitUnfold
  <1> HIDE DEF g
  <1>4. \A s \in SUBSET (1..Len(data)) :
           g[s] = IF s = {} THEN [out |-> <<>>, buf |-> buf] ELSE Byte(k, g[s \ {Max(s)}], data[Max(s)])
    BY <1>1, <1>2 DEF SplitsBy
  <1>5. h[0] = [out |-> <<>>, buf |-> buf]
    <2>1. 1..0 = {} /\ {} \in SUBSET (1..Len(data)) /\ 0 \in 0..Len(data)
      BY <1>1
    <2>2. g[{}] = [out |-> <<>>, buf |-> buf]
      BY <1>4, <2>1, Zenon
    <2> QED BY <2>1, <2>2
  <1>6. ASSUME NEW n \in 1..Len(data)
        PROVE  h[n] = Byte(k, h[n - 1], data[n])
    <2>1. /\ n \in Nat /\ n # 0 /\ n \in 0..Len(data) /\ n - 1 \in 0..Len(data)
          /\ 1..n \in SUBSET (1..Len(data))
      BY <1>1
    <2>2. h[n] = g[1..n] /\ h[n - 1] = g[1..n - 1]
      BY <2>1
    <2>3. Max(1..n) = n /\ (1..n) \ {Max(1..n)} = 1..n - 1 /\ 1..n # {}
      BY <2>1, Prefix
    <2>4. g[1..n] = Byte(k, g[(1..n) \ {Max(1..n)}], data[Max(1..n)])
      BY <1>4, <2>1, <2>3, Zenon
    <2> HIDE DEF h
    <2> QED BY <2>2, <2>3, <2>4
  <1>7. h[Len(data)] = g[1..Len(data)]
    BY <1>1
  <1> HIDE DEF h
  <1>8. Loop(k, data, buf, h)
    BY <1>3, <1>5, <1>6, <1>7 DEF Loop
  <1> QED BY <1>8
-----------------------------------------------------------------------------
(* What the loop gathers.                                                  *)

\* Everything in A is before everything in B; the bytes of d rise.
Below(A, B) == \A x \in A, y \in B : x < y
Rising(d) == \A m, n \in DOMAIN d : m < n => d[m] < d[n]

\* The bytes of several lines, and that they rise from line to line.
Gathered(out) == UNION {ToSet(out[j]) : j \in DOMAIN out}
RisingLines(out) ==
    \A i, j \in DOMAIN out : \A m \in DOMAIN out[i], n \in DOMAIN out[j] :
        i < j \/ (i = j /\ m < n) => out[i][m] < out[j][n]

\* A line does not run over x.
Apart(x, d) == Below({x}, ToSet(d)) \/ Below(ToSet(d), {x})

\* The loop has gathered the bytes K and seen the newlines NL.
Sane(acc, K, NL) ==
    /\ acc \in Accs
    /\ Gathered(acc.out) \cup ToSet(acc.buf) = K
    /\ RisingLines(acc.out) /\ Rising(acc.buf)
    /\ Below(Gathered(acc.out), ToSet(acc.buf))
    /\ Below(NL, ToSet(acc.buf))
    /\ \A l \in DOMAIN acc.out : \A x \in NL : Apart(x, acc.out[l])

LEMMA Appended ==
    ASSUME NEW S, NEW s \in Seq(S), NEW e \in S
    PROVE  /\ Append(s, e) \in Seq(S) /\ Len(Append(s, e)) = Len(s) + 1 /\ Len(s) \in Nat
           /\ DOMAIN Append(s, e) = 1..Len(s) + 1 /\ DOMAIN s = 1..Len(s)
           /\ \A i \in 1..Len(s) : Append(s, e)[i] = s[i]
           /\ Append(s, e)[Len(s) + 1] = e
           /\ ToSet(Append(s, e)) = ToSet(s) \cup {e}
  <1>1. /\ Append(s, e) \in Seq(S) /\ Len(Append(s, e)) = Len(s) + 1 /\ Len(s) \in Nat
        /\ \A i \in 1..Len(s) : Append(s, e)[i] = s[i]
        /\ Append(s, e)[Len(s) + 1] = e
    BY AppendProperties, LenProperties
  <1>2. DOMAIN Append(s, e) = 1..Len(s) + 1 /\ DOMAIN s = 1..Len(s)
    BY <1>1, LenProperties
  <1>3. \A i \in 1..Len(s) + 1 : i \in 1..Len(s) \/ i = Len(s) + 1
    BY <1>1
  <1>4. ToSet(Append(s, e)) = ToSet(s) \cup {e}
    BY <1>1, <1>2, <1>3 DEF ToSet
  <1> QED BY <1>1, <1>2, <1>4

LEMMA AppendRising ==
    ASSUME NEW s \in Seq(Pos), NEW e \in Pos, Rising(s), Below(ToSet(s), {e})
    PROVE  Rising(Append(s, e))
  <1> DEFINE a == Append(s, e)
  <1>1. /\ DOMAIN a = 1..Len(s) + 1 /\ DOMAIN s = 1..Len(s) /\ Len(s) \in Nat
        /\ \A i \in 1..Len(s) : a[i] = s[i]
        /\ a[Len(s) + 1] = e
    BY Appended
  <1> HIDE DEF a
  <1>2. \A i \in 1..Len(s) : s[i] < e
    BY <1>1 DEF Below, ToSet
  <1> SUFFICES ASSUME NEW m \in DOMAIN a, NEW n \in DOMAIN a, m < n PROVE a[m] < a[n]
    BY DEF Rising, a
  <1>3. m \in 1..Len(s)
    BY <1>1
  <1>4. CASE n \in 1..Len(s)
    BY <1>1, <1>3, <1>4 DEF Rising
  <1>5. CASE n = Len(s) + 1
    BY <1>1, <1>2, <1>3, <1>5
  <1> QED BY <1>1, <1>4, <1>5

LEMMA AppendRisingLines ==
    ASSUME NEW out \in Seq(Seq(Pos)), NEW d \in Seq(Pos), RisingLines(out), Rising(d),
           Below(Gathered(out), ToSet(d))
    PROVE  /\ RisingLines(Append(out, d))
           /\ Gathered(Append(out, d)) = Gathered(out) \cup ToSet(d)
  <1> DEFINE a == Append(out, d)
  <1>1. /\ DOMAIN a = 1..Len(out) + 1 /\ DOMAIN out = 1..Len(out) /\ Len(out) \in Nat
        /\ \A i \in 1..Len(out) : a[i] = out[i]
        /\ a[Len(out) + 1] = d
    BY Appended
  <1> HIDE DEF a
  <1>2. \A i \in 1..Len(out) + 1 : i \in 1..Len(out) \/ i = Len(out) + 1
    BY <1>1
  <1>3. Gathered(a) = Gathered(out) \cup ToSet(d)
    <2>1. ASSUME NEW x \in Gathered(a) PROVE x \in Gathered(out) \cup ToSet(d)
      <3>1. PICK j \in DOMAIN a : x \in ToSet(a[j])
        BY <2>1 DEF Gathered
      <3> QED BY <1>1, <1>2, <3>1 DEF Gathered
    <2>2. ASSUME NEW x \in Gathered(out) PROVE x \in Gathered(a)
      <3>1. PICK j \in DOMAIN out : x \in ToSet(out[j])
        BY <2>2 DEF Gathered
      <3>2. j \in DOMAIN a /\ a[j] = out[j]
        BY <1>1
      <3> QED BY <3>1, <3>2 DEF Gathered
    <2>3. ASSUME NEW x \in ToSet(d) PROVE x \in Gathered(a)
      <3>1. Len(out) + 1 \in DOMAIN a
        BY <1>1
      <3> QED BY <1>1, <2>3, <3>1 DEF Gathered
    <2> QED BY <2>1, <2>2, <2>3
  <1>4. RisingLines(a)
    <2> SUFFICES ASSUME NEW i \in DOMAIN a, NEW j \in DOMAIN a, NEW m \in DOMAIN a[i], NEW n \in DOMAIN a[j],
                        i < j \/ (i = j /\ m < n)
                 PROVE  a[i][m] < a[j][n]
      BY DEF RisingLines
    <2>1. CASE j \in 1..Len(out)
      <3>1. i \in 1..Len(out)
        BY <1>1, <2>1
      <3> QED BY <1>1, <2>1, <3>1 DEF RisingLines
    <2>2. CASE j = Len(out) + 1 /\ i \in 1..Len(out)
      <3>1. a[i][m] \in Gathered(out) /\ a[j][n] \in ToSet(d)
        BY <1>1, <2>2 DEF Gathered, ToSet
      <3> QED BY <3>1 DEF Below
    <2>3. CASE j = Len(out) + 1 /\ i = Len(out) + 1
      BY <1>1, <2>3 DEF Rising
    <2> QED BY <1>1, <1>2, <2>1, <2>2, <2>3
  <1> QED BY <1>3, <1>4 DEF a

\* The line in hand is given away.
LEMMA EndLine ==
    ASSUME NEW acc, NEW K, NEW NL, Sane(acc, K, NL)
    PROVE  Sane([out |-> Append(acc.out, acc.buf), buf |-> <<>>], K, NL)
  <1> DEFINE o == Append(acc.out, acc.buf)
             new == [out |-> o, buf |-> <<>>]
  <1>1. acc.out \in Seq(Seq(Pos)) /\ acc.buf \in Seq(Pos)
    BY DEF Sane, Accs
  <1>2. new \in Accs /\ new.out = o /\ new.buf = <<>>
    BY <1>1 DEF Accs
  <1>3. ToSet(<<>>) = {} /\ Rising(<<>>)
    BY DEF ToSet, Rising
  <1>4. RisingLines(o) /\ Gathered(o) = Gathered(acc.out) \cup ToSet(acc.buf)
    BY <1>1, AppendRisingLines DEF Sane
  <1>5. Gathered(o) = K
    BY <1>4 DEF Sane
  <1>6. \A l \in DOMAIN o : \A x \in NL : Apart(x, o[l])
    <2>1. /\ DOMAIN o = 1..Len(acc.out) + 1 /\ DOMAIN acc.out = 1..Len(acc.out) /\ Len(acc.out) \in Nat
          /\ \A i \in 1..Len(acc.out) : o[i] = acc.out[i]
          /\ o[Len(acc.out) + 1] = acc.buf
      BY <1>1, Appended
    <2> HIDE DEF o
    <2> SUFFICES ASSUME NEW l \in DOMAIN o, NEW x \in NL PROVE Apart(x, o[l])
      OBVIOUS
    <2>2. CASE l \in 1..Len(acc.out)
      BY <2>1, <2>2 DEF Sane
    <2>3. CASE l = Len(acc.out) + 1
      BY <2>1, <2>3 DEF Sane, Apart, Below
    <2> QED BY <2>1, <2>2, <2>3
  <1> HIDE DEF o, new
  <1>7. Sane(new, K, NL)
    BY <1>2, <1>3, <1>4, <1>5, <1>6 DEF Sane, Below
  <1> QED BY <1>7 DEF new, o

\* A newline ends the line.
LEMMA NewlineKeeps ==
    ASSUME NEW acc, NEW K, NEW NL, Sane(acc, K, NL), NEW d \in Pos, Below(K, {d})
    PROVE  Sane([out |-> Append(acc.out, acc.buf), buf |-> <<>>], K, NL \cup {d})
  <1> DEFINE new == [out |-> Append(acc.out, acc.buf), buf |-> <<>>]
  <1>1. Sane(new, K, NL)
    BY EndLine
  <1>2. ToSet(new.buf) = {}
    BY DEF ToSet
  <1> HIDE DEF new
  <1>3. ASSUME NEW l \in DOMAIN new.out, NEW x \in NL \cup {d} PROVE Apart(x, new.out[l])
    <2>1. ToSet(new.out[l]) \subseteq K
      BY <1>1 DEF Sane, Gathered
    <2>2. CASE x = d
      BY <2>1, <2>2 DEF Apart, Below
    <2>3. CASE x \in NL
      BY <1>1, <2>3 DEF Sane
    <2> QED BY <2>2, <2>3
  <1>4. Below(NL \cup {d}, ToSet(new.buf))
    BY <1>2 DEF Below
  <1>5. Sane(new, K, NL \cup {d})
    BY <1>1, <1>3, <1>4, Zenon DEF Sane
  <1> QED BY <1>5 DEF new

\* Another byte goes on with the line.
LEMMA CharKeeps ==
    ASSUME NEW acc, NEW K, NEW NL, Sane(acc, K, NL), NEW d \in Pos, Below(K, {d}), Below(NL, {d})
    PROVE  Sane([acc EXCEPT !.buf = Append(@, d)], K \cup {d}, NL)
  <1> DEFINE b == Append(acc.buf, d)
             new == [acc EXCEPT !.buf = Append(@, d)]
  <1>1. acc.out \in Seq(Seq(Pos)) /\ acc.buf \in Seq(Pos)
    BY DEF Sane, Accs
  <1>2. new \in Accs /\ new.out = acc.out /\ new.buf = b
    <2>1. acc \in [out : Seq(Seq(Pos)), buf : Seq(Pos)] /\ b \in Seq(Pos)
      BY <1>1, Appended DEF Sane, Accs
    <2>2. new = [acc EXCEPT !.buf = b]
      OBVIOUS
    <2> HIDE DEF b, new
    <2> QED BY <2>1, <2>2 DEF Accs
  <1>3. ToSet(b) = ToSet(acc.buf) \cup {d}
    BY <1>1, Appended
  <1>4. ToSet(acc.buf) \subseteq K /\ Gathered(acc.out) \subseteq K
    BY DEF Sane
  <1>5. Below(ToSet(acc.buf), {d}) /\ Below(Gathered(acc.out), {d})
    BY <1>4 DEF Below
  <1>6. Rising(b)
    BY <1>1, <1>5, AppendRising DEF Sane
  <1> HIDE DEF b, new
  <1>7. Gathered(acc.out) \cup ToSet(b) = K \cup {d}
    BY <1>3 DEF Sane
  <1>8. Below(Gathered(acc.out), ToSet(b)) /\ Below(NL, ToSet(b))
    BY <1>3, <1>5 DEF Sane, Below
  <1>9. RisingLines(acc.out) /\ \A l \in DOMAIN acc.out : \A x \in NL : Apart(x, acc.out[l])
    BY DEF Sane
  <1>10. Sane(new, K \cup {d}, NL)
    BY <1>2, <1>6, <1>7, <1>8, <1>9, Zenon DEF Sane
  <1> QED BY <1>10 DEF new

\* The bytes and the newlines among the first n of a record.
CharsTo(k, data, n) == {data[j] : j \in {j \in 1..n : ~said[k][data[j]]}}
NewlinesTo(k, data, n) == {data[j] : j \in {j \in 1..n : said[k][data[j]]}}

\* What Push makes of a record whose bytes come after the ones it holds.
LEMMA SplitSane ==
    ASSUME NEW k, NEW data \in Seq(Pos), NEW buf \in Seq(Pos), Rising(data), Rising(buf),
           Below(ToSet(buf), ToSet(data))
    PROVE  Sane(Split(k, data, buf), ToSet(buf) \cup CharsTo(k, data, Len(data)),
                NewlinesTo(k, data, Len(data)))
  <1> DEFINE N == Len(data)
  <1>1. PICK h : Loop(k, data, buf, h)
    BY SplitLoop
  <1>2. N \in Nat /\ DOMAIN data = 1..N /\ \A j \in 1..N : data[j] \in Pos
    BY LenProperties, ElementOfSeq
  <1> DEFINE B == {n \in 0..N : Sane(h[n], ToSet(buf) \cup CharsTo(k, data, n), NewlinesTo(k, data, n))}
  <1>3. 0 \in B
    <2>1. CharsTo(k, data, 0) = {} /\ NewlinesTo(k, data, 0) = {} /\ 0 \in 0..N
      BY <1>2 DEF CharsTo, NewlinesTo
    <2>2. h[0] = [out |-> <<>>, buf |-> buf]
      BY <1>1 DEF Loop
    <2>3. h[0] \in Accs /\ h[0].out = <<>> /\ h[0].buf = buf
      BY <2>2 DEF Accs
    <2>4. Gathered(<<>>) = {} /\ RisingLines(<<>>) /\ DOMAIN <<>> = {}
      BY DEF Gathered, RisingLines
    <2>5. Sane(h[0], ToSet(buf), {})
      BY <2>3, <2>4 DEF Sane, Below
    <2> QED BY <2>1, <2>5
  <1>4. ASSUME NEW n \in 0..N - 1, n \in B PROVE n + 1 \in B
    <2> DEFINE d == data[n + 1]
               K == ToSet(buf) \cup CharsTo(k, data, n)
               NL == NewlinesTo(k, data, n)
    <2>1. n + 1 \in 1..N /\ n + 1 \in 0..N /\ (n + 1) - 1 = n /\ d \in Pos /\ d \in ToSet(data)
      BY <1>2 DEF ToSet
    <2>2. h[n + 1] = Byte(k, h[n], d) /\ Sane(h[n], K, NL)
      BY <1>1, <1>4, <2>1 DEF Loop
    <2>3. \A j \in 1..n : j \in 1..N /\ data[j] < d
      BY <1>2, <2>1 DEF Rising
    <2>4. Below(K, {d}) /\ Below(NL, {d})
      BY <2>1, <2>3 DEF Below, CharsTo, NewlinesTo
    <2>5. \A j \in 1..n + 1 : j \in 1..n \/ j = n + 1
      OBVIOUS
    <2>6. CASE said[k][d]
      <3>1. CharsTo(k, data, n + 1) = CharsTo(k, data, n) /\ NewlinesTo(k, data, n + 1) = NL \cup {d}
        BY <2>1, <2>5, <2>6 DEF CharsTo, NewlinesTo
      <3>2. h[n + 1] = [out |-> Append(h[n].out, h[n].buf), buf |-> <<>>]
        BY <2>2, <2>6 DEF Byte
      <3> HIDE DEF d, K, NL
      <3>3. Sane(h[n + 1], K, NL \cup {d})
        <4>1. d \in Pos
          BY <2>1
        <4>2. Sane([out |-> Append(h[n].out, h[n].buf), buf |-> <<>>], K, NL \cup {d})
          BY <2>2, <2>4, <4>1, NewlineKeeps
        <4> QED BY <3>2, <4>2
      <3> QED BY <2>1, <3>1, <3>3 DEF K
    <2>7. CASE ~said[k][d]
      <3>1. CharsTo(k, data, n + 1) = CharsTo(k, data, n) \cup {d} /\ NewlinesTo(k, data, n + 1) = NL
        BY <2>1, <2>5, <2>7 DEF CharsTo, NewlinesTo
      <3>2. h[n + 1] = [h[n] EXCEPT !.buf = Append(@, d)]
        BY <2>2, <2>7 DEF Byte
      <3> HIDE DEF d, K, NL
      <3>3. Sane(h[n + 1], K \cup {d}, NL)
        <4>1. d \in Pos
          BY <2>1
        <4>2. Sane([h[n] EXCEPT !.buf = Append(@, d)], K \cup {d}, NL)
          BY <2>2, <2>4, <4>1, CharKeeps
        <4> QED BY <3>2, <4>2
      <3>4. K \cup {d} = ToSet(buf) \cup CharsTo(k, data, n + 1)
        BY <3>1 DEF K
      <3> QED BY <2>1, <3>1, <3>3, <3>4
    <2> QED BY <2>6, <2>7
  <1>5. N \in B
    <2> HIDE DEF B
    <2>1. \A n \in 0..N - 1 : n \in B => n + 1 \in B
      BY <1>4
    <2>2. 0..N \subseteq B
      BY <1>2, <1>3, <2>1, UpTo
    <2> QED BY <1>2, <2>2
  <1> QED BY <1>1, <1>5 DEF Loop
-----------------------------------------------------------------------------
(* The places of the bytes of one stream, as sets: of the n bytes said, nl *)
(* are newlines and ms are missed; L are counted, P are pending and U are  *)
(* not read.                                                               *)

Stands(n, nl, ms, L, P, U) ==
    /\ Below(L, P) /\ Below(L, U) /\ Below(P, U)
    /\ L \cup P \subseteq (1..n) \ (nl \cup ms)
    /\ U \subseteq (1..n) \ ms
    /\ (1..n) \ (nl \cup ms) \subseteq L \cup P \cup U
    /\ Below((nl \ ms) \ U, P \cup U)
    /\ nl \subseteq 1..n /\ ms \subseteq 1..n

\* A line of the bytes d runs over no newline that was taken over.
Whole(nl, ms, d) == \A x, y \in d : \A i \in x..y : i \in nl => i \in ms

\* More is said, of which M is missed.
LEMMA StandsWrite ==
    ASSUME NEW n \in Nat, NEW nl, NEW ms, NEW L, NEW P, NEW U, Stands(n, nl, ms, L, P, U),
           NEW e \in Nat, n <= e, NEW new, new \subseteq 1..e, new \cap (1..n) = nl,
           NEW M, M \subseteq n + 1..e
    PROVE  Stands(e, new, ms \cup M, L, P, U \cup ((n + 1..e) \ M))
  <1> DEFINE R == (n + 1..e) \ M
             V == U \cup R
             mm == ms \cup M
  <1>1. \A i \in 1..e : i \in 1..n \/ i \in n + 1..e
    OBVIOUS
  <1>2. \A i \in 1..n : i \in 1..e /\ i \notin n + 1..e
    OBVIOUS
  <1>3. \A i \in n + 1..e : i \in 1..e /\ i \notin 1..n
    OBVIOUS
  <1>4. L \subseteq 1..n /\ P \subseteq 1..n /\ U \subseteq 1..n /\ ms \subseteq 1..n /\ nl \subseteq 1..n
    BY DEF Stands
  <1>5. Below(1..n, R)
    <2>1. \A x \in 1..n, y \in n + 1..e : x < y
      OBVIOUS
    <2> QED BY <2>1 DEF Below
  <1>6. Below(L, P) /\ Below(L, V) /\ Below(P, V)
    BY <1>4, <1>5 DEF Stands, Below
  <1>7. L \cup P \subseteq (1..e) \ (new \cup mm)
    BY <1>2, <1>3, <1>4 DEF Stands
  <1>8. V \subseteq (1..e) \ mm
    BY <1>2, <1>3, <1>4 DEF Stands
  <1>9. (1..e) \ (new \cup mm) \subseteq L \cup P \cup V
    BY <1>1, <1>2, <1>3, <1>4 DEF Stands
  <1>10. (new \ mm) \ V \subseteq (nl \ ms) \ U /\ (nl \ ms) \ U \subseteq 1..n
    BY <1>1, <1>4
  <1>11. Below((new \ mm) \ V, P \cup V)
    <2>1. Below((nl \ ms) \ U, P \cup U)
      BY DEF Stands
    <2> HIDE DEF V, R, mm
    <2>2. V = U \cup R
      BY DEF V
    <2> QED BY <1>5, <1>10, <2>1, <2>2 DEF Below
  <1>12. new \subseteq 1..e /\ mm \subseteq 1..e
    BY <1>2, <1>3, <1>4
  <1> HIDE DEF V, mm
  <1>13. Stands(e, new, mm, L, P, V)
    BY <1>6, <1>7, <1>8, <1>9, <1>11, <1>12 DEF Stands
  <1> QED BY <1>13 DEF V, mm, R

\* The bytes D are read: with the pending ones they become the counted bytes G
\* and the pending bytes B.
LEMMA StandsPush ==
    ASSUME NEW n \in Nat, NEW nl, NEW ms, NEW L, NEW P, NEW U, Stands(n, nl, ms, L, P, U),
           NEW D, NEW V, U = D \cup V, Below(D, V),
           NEW G, NEW B, P \cup (D \ nl) = G \cup B, Below(G, B), Below(D \cap nl, B)
    PROVE  Stands(n, nl, ms, L \cup G, B, V)
  <1>1. /\ L \subseteq 1..n /\ P \subseteq 1..n /\ U \subseteq 1..n /\ D \subseteq U /\ V \subseteq U
        /\ G \subseteq P \cup D /\ B \subseteq P \cup D
    BY DEF Stands
  <1>2. Below(L, P \cup D) /\ Below(P \cup D, V) /\ Below(L, V)
    BY <1>1 DEF Stands, Below
  <1>3. Below(L \cup G, B) /\ Below(L \cup G, V) /\ Below(B, V)
    BY <1>1, <1>2 DEF Below
  <1>4. (L \cup G) \cup B \subseteq (1..n) \ (nl \cup ms)
    BY <1>1 DEF Stands
  <1>5. V \subseteq (1..n) \ ms
    BY DEF Stands
  <1>6. (1..n) \ (nl \cup ms) \subseteq (L \cup G) \cup B \cup V
    BY DEF Stands
  <1>7. (nl \ ms) \ V \subseteq ((nl \ ms) \ U) \cup (D \cap nl)
    OBVIOUS
  <1>8. Below((nl \ ms) \ U, B \cup V)
    BY <1>1 DEF Stands, Below
  <1>9. Below(D \cap nl, B \cup V)
    BY DEF Below
  <1>10. Below((nl \ ms) \ V, B \cup V)
    BY <1>7, <1>8, <1>9 DEF Below
  <1> QED BY <1>3, <1>4, <1>5, <1>6, <1>10, Zenon DEF Stands

\* A line of bytes that are pending or read.
LEMMA LineWhole ==
    ASSUME NEW n \in Nat, NEW nl, NEW ms, NEW L, NEW P, NEW U, Stands(n, nl, ms, L, P, U),
           NEW D, NEW V, U = D \cup V, Below(D, V),
           NEW d, d \subseteq P \cup (D \ nl),
           \A x \in D \cap nl : Below({x}, d) \/ Below(d, {x})
    PROVE  Whole(nl, ms, d)
  <1> SUFFICES ASSUME NEW x \in d, NEW y \in d, NEW i \in x..y, i \in nl, i \notin ms PROVE FALSE
    BY DEF Whole
  <1>1. x \in Nat /\ y \in Nat /\ i \in Nat /\ x <= i /\ i <= y
    <2>1. x \in 1..n /\ y \in 1..n
      BY DEF Stands
    <2> QED BY <2>1
  <1>2. CASE i \in D
    <2>1. i < x \/ y < i
      BY <1>2 DEF Below
    <2> QED BY <1>1, <2>1
  <1>3. CASE i \in V
    <2>1. y < i
      BY <1>3 DEF Stands, Below
    <2> QED BY <1>1, <2>1
  <1>4. CASE i \notin U
    <2>1. x \in P \cup U
      OBVIOUS
    <2>2. i < x
      BY <1>4, <2>1 DEF Stands, Below
    <2> QED BY <1>1, <2>2
  <1> QED BY <1>2, <1>3, <1>4

\* The last of the unread bytes become missed.
LEMMA StandsClose ==
    ASSUME NEW n \in Nat, NEW nl, NEW ms, NEW L, NEW P, NEW U, Stands(n, nl, ms, L, P, U),
           NEW V, NEW W, U = V \cup W, Below(V, W)
    PROVE  Stands(n, nl, ms \cup W, L, P, V)
  <1>1. L \subseteq 1..n /\ P \subseteq 1..n /\ U \subseteq 1..n /\ V \subseteq U /\ W \subseteq U
    BY DEF Stands
  <1>2. \A x \in 1..n : ~(x < x)
    OBVIOUS
  <1>3. L \cap W = {} /\ P \cap W = {} /\ V \cap W = {}
    BY <1>1, <1>2 DEF Stands, Below
  <1>4. Below(L, P) /\ Below(L, V) /\ Below(P, V)
    BY <1>1 DEF Stands, Below
  <1>5. L \cup P \subseteq (1..n) \ (nl \cup (ms \cup W))
    BY <1>3 DEF Stands
  <1>6. V \subseteq (1..n) \ (ms \cup W)
    BY <1>3 DEF Stands
  <1>7. (1..n) \ (nl \cup (ms \cup W)) \subseteq L \cup P \cup V
    BY DEF Stands
  <1>8. (nl \ (ms \cup W)) \ V \subseteq (nl \ ms) \ U
    OBVIOUS
  <1>9. Below((nl \ (ms \cup W)) \ V, P \cup V)
    BY <1>1, <1>8 DEF Stands, Below
  <1>10. nl \subseteq 1..n /\ ms \cup W \subseteq 1..n
    BY <1>1 DEF Stands
  <1> QED BY <1>4, <1>5, <1>6, <1>7, <1>9, <1>10, Zenon DEF Stands

LEMMA WholeMore ==
    ASSUME NEW n \in Nat, NEW nl, NEW ms, NEW d, d \subseteq 1..n, Whole(nl, ms, d),
           NEW new, new \cap (1..n) = nl, NEW mm, ms \subseteq mm
    PROVE  Whole(new, mm, d)
  <1> SUFFICES ASSUME NEW x \in d, NEW y \in d, NEW i \in x..y, i \in new PROVE i \in mm
    BY DEF Whole
  <1>1. x \in 1..n /\ y \in 1..n
    OBVIOUS
  <1>2. i \in 1..n
    BY <1>1
  <1> QED BY <1>2 DEF Whole
-----------------------------------------------------------------------------
(* Sequences of records and lines.                                         *)

\* c is s followed by t.
JoinOf(s, t, c) ==
    /\ Len(s) \in Nat /\ Len(t) \in Nat
    /\ DOMAIN s = 1..Len(s) /\ DOMAIN t = 1..Len(t) /\ DOMAIN c = 1..Len(s) + Len(t)
    /\ \A i \in 1..Len(s) : i \in 1..Len(s) + Len(t) /\ c[i] = s[i]
    /\ \A i \in 1..Len(t) : Len(s) + i \in 1..Len(s) + Len(t) /\ c[Len(s) + i] = t[i]
    /\ \A i \in 1..Len(s) + Len(t) : i \in 1..Len(s) \/ \E j \in 1..Len(t) : i = Len(s) + j

LEMMA Concatenated ==
    ASSUME NEW S, NEW s \in Seq(S), NEW t \in Seq(S)
    PROVE  JoinOf(s, t, s \o t)
  <1>1. /\ s \o t \in Seq(S) /\ Len(s \o t) = Len(s) + Len(t)
        /\ \A i \in 1..Len(s) + Len(t) : (s \o t)[i] = IF i <= Len(s) THEN s[i] ELSE t[i - Len(s)]
    BY ConcatProperties
  <1>2. Len(s) \in Nat /\ Len(t) \in Nat /\ DOMAIN s = 1..Len(s) /\ DOMAIN t = 1..Len(t)
    BY LenProperties
  <1>3. DOMAIN (s \o t) = 1..Len(s) + Len(t)
    BY <1>1, LenProperties
  <1>4. ASSUME NEW i \in 1..Len(s)
        PROVE  i \in 1..Len(s) + Len(t) /\ (s \o t)[i] = s[i]
    BY <1>1, <1>2
  <1>5. ASSUME NEW i \in 1..Len(t)
        PROVE  Len(s) + i \in 1..Len(s) + Len(t) /\ (s \o t)[Len(s) + i] = t[i]
    <2>1. /\ Len(s) + i \in 1..Len(s) + Len(t) /\ ~(Len(s) + i <= Len(s)) /\ (Len(s) + i) - Len(s) = i
      BY <1>2
    <2> QED BY <1>1, <2>1
  <1>6. ASSUME NEW i \in 1..Len(s) + Len(t), i \notin 1..Len(s)
        PROVE  \E j \in 1..Len(t) : i = Len(s) + j
    <2>1. i - Len(s) \in 1..Len(t) /\ i = Len(s) + (i - Len(s))
      BY <1>2, <1>6
    <2> QED BY <2>1
  <1> QED BY <1>2, <1>3, <1>4, <1>5, <1>6 DEF JoinOf

LEMMA Joined ==
    ASSUME NEW S
    PROVE  \A s, t \in Seq(S) : /\ s \o t \in Seq(S) /\ Len(s \o t) = Len(s) + Len(t)
                                /\ Len(s) \in Nat /\ Len(t) \in Nat
  BY ConcatProperties, LenProperties

LEMMA OneOf ==
    ASSUME NEW S, NEW s \in Seq(S), NEW t \in Seq(S), NEW i \in DOMAIN (s \o t)
    PROVE  \/ i \in DOMAIN s /\ (s \o t)[i] = s[i]
           \/ \E m \in DOMAIN t : (s \o t)[i] = t[m]
  <1>1. /\ DOMAIN s = 1..Len(s) /\ DOMAIN t = 1..Len(t) /\ DOMAIN (s \o t) = 1..Len(s) + Len(t)
        /\ \A j \in 1..Len(s) : (s \o t)[j] = s[j]
        /\ \A j \in 1..Len(t) : (s \o t)[Len(s) + j] = t[j]
        /\ \A j \in 1..Len(s) + Len(t) : j \in 1..Len(s) \/ \E m \in 1..Len(t) : j = Len(s) + m
    BY Concatenated DEF JoinOf
  <1>2. CASE i \in 1..Len(s)
    BY <1>1, <1>2
  <1>3. CASE \E m \in 1..Len(t) : i = Len(s) + m
    BY <1>1, <1>3
  <1> QED BY <1>1, <1>2, <1>3

LEMMA InBytes ==
    \A k, recs, x : x \in Bytes(k, recs) <=> \E j \in DOMAIN recs : recs[j].key = k /\ x \in ToSet(recs[j].data)
  BY DEF Bytes

LEMMA BytesConcat ==
    ASSUME NEW S, NEW s \in Seq(S), NEW t \in Seq(S), NEW k
    PROVE  Bytes(k, s \o t) = Bytes(k, s) \cup Bytes(k, t)
  <1> DEFINE c == s \o t
  <1>0. JoinOf(s, t, c)
    BY Concatenated
  <1> HIDE DEF c
  <1>1. /\ Len(s) \in Nat /\ Len(t) \in Nat
        /\ DOMAIN s = 1..Len(s) /\ DOMAIN t = 1..Len(t) /\ DOMAIN c = 1..Len(s) + Len(t)
        /\ \A i \in 1..Len(s) : i \in 1..Len(s) + Len(t) /\ c[i] = s[i]
        /\ \A i \in 1..Len(t) : Len(s) + i \in 1..Len(s) + Len(t) /\ c[Len(s) + i] = t[i]
        /\ \A i \in 1..Len(s) + Len(t) : i \in 1..Len(s) \/ \E j \in 1..Len(t) : i = Len(s) + j
    BY <1>0 DEF JoinOf
  <1>2. ASSUME NEW x \in Bytes(k, c) PROVE x \in Bytes(k, s) \cup Bytes(k, t)
    <2>1. PICK j \in DOMAIN c : c[j].key = k /\ x \in ToSet(c[j].data)
      BY <1>2, InBytes
    <2>2. CASE j \in 1..Len(s)
      BY <1>1, <2>1, <2>2, InBytes
    <2>3. CASE \E i \in 1..Len(t) : j = Len(s) + i
      <3>1. PICK i \in 1..Len(t) : j = Len(s) + i
        BY <2>3
      <3>2. i \in DOMAIN t /\ c[j] = t[i]
        BY <1>1, <3>1
      <3> QED BY <2>1, <3>2, InBytes
    <2> QED BY <1>1, <2>2, <2>3
  <1>3. ASSUME NEW x \in Bytes(k, s) PROVE x \in Bytes(k, c)
    <2>1. PICK j \in DOMAIN s : s[j].key = k /\ x \in ToSet(s[j].data)
      BY <1>3, InBytes
    <2>2. j \in DOMAIN c /\ c[j] = s[j]
      BY <1>1
    <2> QED BY <2>1, <2>2, InBytes
  <1>4. ASSUME NEW x \in Bytes(k, t) PROVE x \in Bytes(k, c)
    <2>1. PICK j \in DOMAIN t : t[j].key = k /\ x \in ToSet(t[j].data)
      BY <1>4, InBytes
    <2>2. Len(s) + j \in DOMAIN c /\ c[Len(s) + j] = t[j]
      BY <1>1
    <2> QED BY <2>1, <2>2, InBytes
  <1>5. Bytes(k, c) = Bytes(k, s) \cup Bytes(k, t)
    BY <1>2, <1>3, <1>4
  <1> QED BY <1>5 DEF c

LEMMA AscendingConcat ==
    ASSUME NEW S, NEW s \in Seq(S), NEW t \in Seq(S), NEW k
    PROVE  Ascending(k, s \o t)
               <=> Ascending(k, s) /\ Ascending(k, t) /\ Below(Bytes(k, s), Bytes(k, t))
  <1> DEFINE c == s \o t
  <1>0. JoinOf(s, t, c)
    BY Concatenated
  <1> HIDE DEF c
  <1>1. /\ Len(s) \in Nat /\ Len(t) \in Nat
        /\ DOMAIN s = 1..Len(s) /\ DOMAIN t = 1..Len(t) /\ DOMAIN c = 1..Len(s) + Len(t)
        /\ \A i \in 1..Len(s) : i \in 1..Len(s) + Len(t) /\ c[i] = s[i]
        /\ \A i \in 1..Len(t) : Len(s) + i \in 1..Len(s) + Len(t) /\ c[Len(s) + i] = t[i]
        /\ \A i \in 1..Len(s) + Len(t) : i \in 1..Len(s) \/ \E j \in 1..Len(t) : i = Len(s) + j
    BY <1>0 DEF JoinOf
  <1>2. ASSUME Ascending(k, c) PROVE Ascending(k, s)
    <2> SUFFICES ASSUME NEW i \in DOMAIN s, NEW j \in DOMAIN s, s[i].key = k, s[j].key = k,
                        NEW m \in DOMAIN s[i].data, NEW n \in DOMAIN s[j].data,
                        i < j \/ (i = j /\ m < n)
                 PROVE  s[i].data[m] < s[j].data[n]
      BY DEF Ascending
    <2>1. i \in DOMAIN c /\ j \in DOMAIN c /\ c[i] = s[i] /\ c[j] = s[j]
      BY <1>1
    <2> QED BY <1>2, <2>1 DEF Ascending
  <1>3. ASSUME Ascending(k, c) PROVE Ascending(k, t)
    <2> SUFFICES ASSUME NEW i \in DOMAIN t, NEW j \in DOMAIN t, t[i].key = k, t[j].key = k,
                        NEW m \in DOMAIN t[i].data, NEW n \in DOMAIN t[j].data,
                        i < j \/ (i = j /\ m < n)
                 PROVE  t[i].data[m] < t[j].data[n]
      BY DEF Ascending
    <2> DEFINE u == Len(s) + i
               v == Len(s) + j
    <2>1. u \in DOMAIN c /\ v \in DOMAIN c /\ c[u] = t[i] /\ c[v] = t[j]
      BY <1>1
    <2>2. u < v \/ (u = v /\ m < n)
      BY <1>1
    <2> HIDE DEF u, v
    <2> QED BY <1>3, <2>1, <2>2 DEF Ascending
  <1>4. ASSUME Ascending(k, c) PROVE Below(Bytes(k, s), Bytes(k, t))
    <2> SUFFICES ASSUME NEW x \in Bytes(k, s), NEW y \in Bytes(k, t) PROVE x < y
      BY DEF Below
    <2>1. PICK i \in DOMAIN s : s[i].key = k /\ x \in ToSet(s[i].data)
      BY InBytes
    <2>2. PICK j \in DOMAIN t : t[j].key = k /\ y \in ToSet(t[j].data)
      BY InBytes
    <2>3. PICK m \in DOMAIN s[i].data : x = s[i].data[m]
      BY <2>1 DEF ToSet
    <2>4. PICK n \in DOMAIN t[j].data : y = t[j].data[n]
      BY <2>2 DEF ToSet
    <2> DEFINE v == Len(s) + j
    <2>5. i \in DOMAIN c /\ v \in DOMAIN c /\ c[i] = s[i] /\ c[v] = t[j] /\ i < v
      BY <1>1
    <2> HIDE DEF v
    <2> QED BY <1>4, <2>1, <2>2, <2>3, <2>4, <2>5 DEF Ascending
  <1>5. ASSUME Ascending(k, s), Ascending(k, t), Below(Bytes(k, s), Bytes(k, t))
        PROVE  Ascending(k, c)
    <2> SUFFICES ASSUME NEW i \in DOMAIN c, NEW j \in DOMAIN c, c[i].key = k, c[j].key = k,
                        NEW m \in DOMAIN c[i].data, NEW n \in DOMAIN c[j].data,
                        i < j \/ (i = j /\ m < n)
                 PROVE  c[i].data[m] < c[j].data[n]
      BY DEF Ascending
    <2>1. CASE j \in 1..Len(s)
      <3>1. i \in DOMAIN s /\ j \in DOMAIN s /\ c[i] = s[i] /\ c[j] = s[j]
        BY <1>1, <2>1
      <3> QED BY <1>5, <3>1 DEF Ascending
    <2>2. CASE \E v \in 1..Len(t) : j = Len(s) + v
      <3>1. PICK v \in 1..Len(t) : j = Len(s) + v
        BY <2>2
      <3>2. v \in DOMAIN t /\ c[j] = t[v]
        BY <1>1, <3>1
      <3>3. CASE i \in 1..Len(s)
        <4>1. i \in DOMAIN s /\ c[i] = s[i]
          BY <1>1, <3>3
        <4>2. c[i].data[m] \in Bytes(k, s) /\ c[j].data[n] \in Bytes(k, t)
          BY <3>2, <4>1, InBytes DEF ToSet
        <4> QED BY <1>5, <4>2 DEF Below
      <3>4. CASE \E u \in 1..Len(t) : i = Len(s) + u
        <4>1. PICK u \in 1..Len(t) : i = Len(s) + u
          BY <3>4
        <4>2. u \in DOMAIN t /\ c[i] = t[u]
          BY <1>1, <4>1
        <4>3. u < v \/ (u = v /\ m < n)
          BY <1>1, <3>1, <4>1
        <4> QED BY <1>5, <3>2, <4>2, <4>3 DEF Ascending
      <3> QED BY <1>1, <3>3, <3>4
    <2> QED BY <1>1, <2>1, <2>2
  <1>6. Ascending(k, c) <=> Ascending(k, s) /\ Ascending(k, t) /\ Below(Bytes(k, s), Bytes(k, t))
    BY <1>2, <1>3, <1>4, <1>5
  <1> QED BY <1>6 DEF c

LEMMA OneRecord ==
    ASSUME NEW r, NEW k
    PROVE  /\ Bytes(k, <<r>>) = IF r.key = k THEN ToSet(r.data) ELSE {}
           /\ Ascending(k, <<r>>) <=> (r.key = k => Rising(r.data))
  <1>1. DOMAIN <<r>> = {1} /\ <<r>>[1] = r
    OBVIOUS
  <1>2. Bytes(k, <<r>>) = IF r.key = k THEN ToSet(r.data) ELSE {}
    <2> DEFINE o == <<r>>
    <2>1. DOMAIN o = {1} /\ o[1] = r
      BY <1>1
    <2> HIDE DEF o
    <2>2. \A x : x \in Bytes(k, o) <=> r.key = k /\ x \in ToSet(r.data)
      BY <2>1, InBytes
    <2>3. CASE r.key = k
      BY <2>2, <2>3 DEF o
    <2>4. CASE r.key # k
      BY <2>2, <2>4 DEF o
    <2> QED BY <2>3, <2>4
  <1>3. Ascending(k, <<r>>) <=> (r.key = k => Rising(r.data))
    <2>1. ~(1 < 1)
      OBVIOUS
    <2> DEFINE o == <<r>>
    <2>2. DOMAIN o = {1} /\ o[1] = r
      BY <1>1
    <2> HIDE DEF o
    <2>3. Ascending(k, o) <=> (r.key = k => Rising(r.data))
      BY <2>1, <2>2, Zenon DEF Ascending, Rising
    <2> QED BY <2>3 DEF o
  <1> QED BY <1>2, <1>3

LEMMA NoRecord == \A k : Bytes(k, <<>>) = {} /\ Ascending(k, <<>>)
  BY DEF Bytes, Ascending

\* The first record comes off.
LEMMA OffHead ==
    ASSUME NEW S, NEW s \in Seq(S), s # <<>>, NEW t \in Seq(S)
    PROVE  /\ Head(s) \in S /\ Tail(s) \in Seq(S) /\ s = <<Head(s)>> \o Tail(s)
           /\ s \o t = <<Head(s)>> \o (Tail(s) \o t)
  <1>1. Head(s) \in S /\ Tail(s) \in Seq(S)
    BY HeadTailProperties
  <1>2. s = <<Head(s)>> \o Tail(s)
    <2>1. Len(s) \in Nat /\ Len(s) # 0
      BY LenProperties, EmptySeq
    <2>2. SubSeq(s, 1, Len(s)) = <<s[1]>> \o SubSeq(s, 1 + 1, Len(s))
      <3>1. 1 \in 1..Len(s) /\ Len(s) \in 1..Len(s)
        BY <2>1
      <3> QED BY <3>1, SubSeqRecursiveFirst
    <2>3. SubSeq(s, 1, Len(s)) = s /\ Tail(s) = SubSeq(s, 2, Len(s)) /\ Head(s) = s[1]
      BY SubSeqFull, TailIsSubSeq
    <2> QED BY <2>2, <2>3
  <1>3. <<Head(s)>> \in Seq(S)
    BY <1>1
  <1>4. (<<Head(s)>> \o Tail(s)) \o t = <<Head(s)>> \o (Tail(s) \o t)
    BY <1>1, <1>3, ConcatAssociative, SMTT(30)
  <1> QED BY <1>1, <1>2, <1>4
-----------------------------------------------------------------------------
(* The buffers of a call put together.                                     *)

FlatsBy(seqs, n, f) == f = [i \in 1..n |-> IF i = 1 THEN seqs[i] ELSE f[i - 1] \o seqs[i]]

LEMMA FlatExists ==
    ASSUME NEW seqs, NEW N \in Nat
    PROVE  \E f : FlatsBy(seqs, N, f)
  <1> DEFINE B == {n \in Nat : \E f : FlatsBy(seqs, n, f)}
  <1>1. 0 \in B
    <2> DEFINE f == [i \in 1..0 |-> seqs[i]]
    <2>1. \A i \in 1..0 : FALSE
      OBVIOUS
    <2>2. FlatsBy(seqs, 0, f)
      BY <2>1 DEF FlatsBy
    <2> QED BY <2>2
  <1>2. ASSUME NEW n \in 0..N - 1, n \in B PROVE n + 1 \in B
    <2>1. PICK f : FlatsBy(seqs, n, f)
      BY <1>2
    <2> DEFINE g == [i \in 1..n + 1 |-> IF i = 1 THEN seqs[i] ELSE f[i - 1] \o seqs[i]]
    <2>2. \A i \in 1..n + 1 : i # 1 => i - 1 \in 1..n
      OBVIOUS
    <2>3. \A i \in 1..n : i \in 1..n + 1
      OBVIOUS
    <2>4. \A i \in 1..n : g[i] = f[i]
      BY <2>1, <2>3 DEF FlatsBy
    <2>5. g = [i \in 1..n + 1 |-> IF i = 1 THEN seqs[i] ELSE g[i - 1] \o seqs[i]]
      <3>1. \A i \in 1..n + 1 : i # 1 => g[i - 1] = f[i - 1]
        BY <2>2, <2>4
      <3> QED BY <3>1
    <2> HIDE DEF g
    <2>6. FlatsBy(seqs, n + 1, g)
      BY <2>5 DEF FlatsBy
    <2> QED BY <2>6
  <1>3. N \in B
    <2> HIDE DEF B
    <2>1. \A n \in 0..N - 1 : n \in B => n + 1 \in B
      BY <1>2
    <2>2. 0..N \subseteq B
      BY <1>1, <2>1, UpTo
    <2> QED BY <2>2
  <1> QED BY <1>3

LEMMA FlattenTyped ==
    ASSUME NEW X, NEW seqs \in Seq(Seq(X))
    PROVE  FlattenSeq(seqs) \in Seq(X)
  <1> DEFINE N == Len(seqs)
             f == CHOOSE f : FlatsBy(seqs, N, f)
  <1>1. N \in Nat /\ \A i \in 1..N : seqs[i] \in Seq(X)
    BY LenProperties, ElementOfSeq
  <1>2. CASE N = 0
    <2>1. seqs = <<>>
      BY <1>2, EmptySeq
    <2> QED BY <1>2, <2>1 DEF FlattenSeq
  <1>3. CASE N # 0
    <2>1. FlattenSeq(seqs) = f[N]
      BY <1>3 DEF FlattenSeq, FlatsBy
    <2>2. FlatsBy(seqs, N, f)
      BY <1>1, FlatExists
    <2> HIDE DEF f
    <2> DEFINE B == {n \in 0..N : n = 0 \/ f[n] \in Seq(X)}
    <2>3. 0 \in B
      BY <1>1
    <2>4. ASSUME NEW n \in 0..N - 1, n \in B PROVE n + 1 \in B
      <3>1. n + 1 \in 0..N /\ n + 1 \in 1..N /\ (n + 1) - 1 = n /\ (n + 1 = 1 => n = 0)
        BY <1>1
      <3>2. f[n + 1] = IF n + 1 = 1 THEN seqs[n + 1] ELSE f[n] \o seqs[n + 1]
        BY <2>2, <3>1 DEF FlatsBy
      <3>3. seqs[n + 1] \in Seq(X)
        BY <1>1, <3>1
      <3>4. n + 1 # 1 => f[n] \in Seq(X)
        BY <2>4
      <3>5. f[n + 1] \in Seq(X)
        BY <3>2, <3>3, <3>4, ConcatProperties
      <3> QED BY <3>1, <3>5
    <2>5. N \in B
      <3> HIDE DEF B, N
      <3>1. \A n \in 0..N - 1 : n \in B => n + 1 \in B
        BY <2>4
      <3>2. 0..N \subseteq B
        BY <1>1, <2>3, <3>1, UpTo
      <3> QED BY <1>1, <3>2
    <2> QED BY <1>3, <2>1, <2>5
  <1> QED BY <1>2, <1>3
-----------------------------------------------------------------------------
(* The inductive invariant.                                                *)

\* What main and the threads go through.
Jobs == {NoJob} \cup {j \in [bufs : Calls, done : Nat] : j.done < Len(j.bufs)}
Control ==
    /\ mode \in {"pod", "exec", "target"}
    /\ job \in [Threads -> Jobs]
    /\ attached \in BOOLEAN /\ closed \in BOOLEAN
    /\ pc \in {"load", "start", "open", "fatal", "run", "close", "drain", "ended"}

\* An agent that is not attached has nothing in the ring buffer; before the
\* loop runs nothing is read; the channel is closed with empty hands; and an
\* agent that ended has given everything away.
Phases ==
    /\ ~attached => ring = <<>>
    /\ pc \in {"load", "open", "fatal", "drain", "ended"} => ~attached
    /\ pc \in {"load", "start", "open", "fatal"} => events = <<>> /\ hand = <<>> /\ ~closed
    /\ pc \in {"load", "start", "open", "fatal"} => \A k \in Keys : streams[k] = <<>>
    /\ closed => pc \in {"drain", "ended"} /\ hand = <<>>
    /\ pc = "ended" => hand = <<>> /\ events = <<>> /\ \A k \in Keys : streams[k] = <<>>

\* Until the program is attached nobody the agent watches for can write.
Held ==
    /\ mode # "target" /\ pc \in {"load", "start"} =>
          ~healthy /\ child \in {"none", "stopped"} /\ \A t \in Threads : job[t] = NoJob
    /\ mode # "target" /\ (pc = "load" \/ attached) => \A m \in missed : m.why # "unseen"

\* The newlines of a stream, and what is missed of it.
Newlines(k) == {i \in 1..Len(said[k]) : said[k][i]}
Lost(k) == {m.at : m \in {m \in missed : m.key = k}}

\* The bytes of one stream and their order.
StreamInv(k) ==
    /\ Ascending(k, lines) /\ Rising(streams[k]) /\ Ascending(k, Unread)
    /\ Len(streams[k]) < MaxLine
    /\ Stands(Len(said[k]), Newlines(k), Lost(k),
              Bytes(k, lines), ToSet(streams[k]), Bytes(k, Unread))

\* No counted line runs over a newline that was taken over.
WholeLines ==
    \A j \in DOMAIN lines :
        Whole(Newlines(lines[j].key), Lost(lines[j].key), ToSet(lines[j].data))

Streams == (\A k \in Keys : StreamInv(k)) /\ WholeLines

IInv == TypeOK /\ Control /\ Phases /\ Held /\ Streams

Lines == [key : Keys, data : Seq(Pos)]

LEMMA Typed ==
    ASSUME TypeOK
    PROVE  /\ \A k \in Keys : said[k] \in Seq(BOOLEAN) /\ Len(said[k]) \in Nat /\ streams[k] \in Seq(Pos)
           /\ Unread \in Seq(Records) /\ events \o hand \in Seq(Records)
           /\ events \in Seq(Records) /\ hand \in Seq(Records) /\ ring \in Seq(Records)
           /\ lines \in Seq(Lines)
  <1>1. \A k \in Keys : said[k] \in Seq(BOOLEAN) /\ Len(said[k]) \in Nat /\ streams[k] \in Seq(Pos)
    BY LenProperties DEF TypeOK, Pos
  <1>2. events \in Seq(Records) /\ hand \in Seq(Records) /\ ring \in Seq(Records)
    BY DEF TypeOK
  <1>3. lines \in Seq(Lines)
    BY DEF TypeOK, Lines, Pos
  <1>4. events \o hand \in Seq(Records)
    BY <1>2, ConcatProperties
  <1>5. Unread \in Seq(Records)
    BY <1>2, <1>4, ConcatProperties DEF Unread
  <1> QED BY <1>1, <1>2, <1>3, <1>4, <1>5

\* A stream that a step leaves alone.
LEMMA StreamSame ==
    ASSUME NEW k, StreamInv(k), said'[k] = said[k], Lost(k)' = Lost(k), streams'[k] = streams[k],
           Bytes(k, lines') = Bytes(k, lines), Ascending(k, lines'),
           Bytes(k, Unread') = Bytes(k, Unread), Ascending(k, Unread')
    PROVE  StreamInv(k)'
  <1>1. Newlines(k)' = Newlines(k)
    BY DEF Newlines
  <1> QED BY <1>1 DEF StreamInv

LEMMA LostMore ==
    ASSUME NEW k, NEW M, NEW why, missed' = Miss(k, M, why)
    PROVE  Lost(k)' = Lost(k) \cup M /\ \A j : j # k => Lost(j)' = Lost(j)
  <1> DEFINE add == [key : {k}, at : M, why : {why}]
  <1>1. missed' = missed \cup add
    BY DEF Miss
  <1>2. \A m \in add : m.key = k /\ m.at \in M
    OBVIOUS
  <1>3. ASSUME NEW i \in M PROVE \E m \in add : m.key = k /\ m.at = i
    <2>1. [key |-> k, at |-> i, why |-> why] \in add
      BY <1>3
    <2> QED BY <2>1
  <1> HIDE DEF add
  <1>4. Lost(k)' = Lost(k) \cup M
    <2>1. ASSUME NEW i \in Lost(k)' PROVE i \in Lost(k) \cup M
      BY <1>1, <1>2, <2>1 DEF Lost
    <2>2. ASSUME NEW i \in Lost(k) PROVE i \in Lost(k)'
      BY <1>1, <2>2 DEF Lost
    <2>3. ASSUME NEW i \in M PROVE i \in Lost(k)'
      BY <1>1, <1>3, <2>3 DEF Lost
    <2> QED BY <2>1, <2>2, <2>3
  <1>5. ASSUME NEW j, j # k PROVE Lost(j)' = Lost(j)
    <2>1. {m \in missed' : m.key = j} = {m \in missed : m.key = j}
      BY <1>1, <1>2, <1>5
    <2> QED BY <2>1, Zenon DEF Lost
  <1> QED BY <1>4, <1>5

LEMMA LineBytes ==
    ASSUME TypeOK, \A k \in Keys : StreamInv(k), NEW j \in DOMAIN lines
    PROVE  lines[j].key \in Keys /\ ToSet(lines[j].data) \subseteq 1..Len(said[lines[j].key])
  <1>1. lines[j].key \in Keys
    <2>1. lines \in Seq(Lines) /\ j \in 1..Len(lines)
      BY Typed, LenProperties
    <2>2. lines[j] \in Lines
      BY <2>1, ElementOfSeq
    <2> QED BY <2>2 DEF Lines
  <1>2. ToSet(lines[j].data) \subseteq Bytes(lines[j].key, lines)
    BY InBytes
  <1> QED BY <1>1, <1>2 DEF StreamInv, Stands
-----------------------------------------------------------------------------
(* The steps that move bytes.                                              *)

\* A thread says ext, of which M is missed and the rest is in the record.
LEMMA WriteKeeps ==
    ASSUME TypeOK, Streams, NEW k \in Keys, NEW ext \in Seq(BOOLEAN),
           said' = [said EXCEPT ![k] = @ \o ext],
           NEW M, M \subseteq Len(said[k]) + 1..Len(said[k]) + Len(ext),
           NEW why, missed' = Miss(k, M, why),
           UNCHANGED <<lines, streams>>,
           NEW more \in Seq(Records), Unread' = Unread \o more,
           Bytes(k, more) = (Len(said[k]) + 1..Len(said[k]) + Len(ext)) \ M,
           \A j \in Keys : Ascending(j, more) /\ (j # k => Bytes(j, more) = {})
    PROVE  Streams' /\ said' \in [Keys -> Seq(BOOLEAN)]
  <1> DEFINE n == Len(said[k])
             e == n + Len(ext)
             new == Newlines(k)'
  <1>1. /\ said[k] \in Seq(BOOLEAN) /\ n \in Nat /\ Unread \in Seq(Records)
        /\ said \in [Keys -> Seq(BOOLEAN)]
    BY Typed DEF TypeOK
  <1>2. /\ said'[k] = said[k] \o ext /\ \A j \in Keys : j # k => said'[j] = said[j]
        /\ said' \in [Keys -> Seq(BOOLEAN)]
    BY <1>1, ConcatProperties
  <1>3. /\ Len(ext) \in Nat /\ e \in Nat /\ n <= e /\ Len(said'[k]) = e
        /\ \A i \in 1..n : i \in 1..e /\ said'[k][i] = said[k][i]
    BY <1>1, <1>2, ConcatProperties, LenProperties
  <1>4. new \subseteq 1..e /\ new \cap (1..n) = Newlines(k)
    BY <1>3 DEF Newlines
  <1>5. Lost(k)' = Lost(k) \cup M /\ \A j \in Keys : j # k => Lost(j)' = Lost(j)
    BY LostMore
  <1>6. \A j \in Keys : Bytes(j, Unread') = Bytes(j, Unread) \cup Bytes(j, more)
    BY <1>1, BytesConcat
  <1>7. StreamInv(k)
    BY DEF Streams
  <1>8. Stands(n, Newlines(k), Lost(k), Bytes(k, lines), ToSet(streams[k]), Bytes(k, Unread))
    BY <1>7 DEF StreamInv
  <1>9. StreamInv(k)'
    <2> HIDE DEF new
    <2>1. Stands(e, new, Lost(k) \cup M, Bytes(k, lines), ToSet(streams[k]),
                 Bytes(k, Unread) \cup ((n + 1..e) \ M))
      <3> HIDE DEF n
      <3>1. n \in Nat
        BY <1>1
      <3>2. e \in Nat /\ n <= e /\ M \subseteq n + 1..e
        BY <1>3 DEF n
      <3> HIDE DEF e
      <3> QED BY <1>4, <1>8, <3>1, <3>2, StandsWrite
    <2>2. Bytes(k, Unread') = Bytes(k, Unread) \cup ((n + 1..e) \ M)
      BY <1>6
    <2>3. Ascending(k, Unread')
      <3>1. Bytes(k, Unread) \subseteq 1..n
        BY <1>8 DEF Stands
      <3>2. \A x \in 1..n, y \in n + 1..e : x < y
        BY <1>1, <1>3
      <3>3. Below(Bytes(k, Unread), Bytes(k, more))
        BY <3>1, <3>2 DEF Below
      <3> QED BY <1>1, <1>7, <3>3, AscendingConcat DEF StreamInv
    <2>4. /\ Ascending(k, lines') /\ Rising(streams'[k]) /\ Len(streams'[k]) < MaxLine
      BY <1>7 DEF StreamInv
    <2>5. Stands(Len(said'[k]), Newlines(k)', Lost(k)', Bytes(k, lines'), ToSet(streams'[k]), Bytes(k, Unread'))
      BY <1>3, <1>5, <2>1, <2>2 DEF new
    <2> QED BY <2>3, <2>4, <2>5 DEF StreamInv
  <1>10. ASSUME NEW j \in Keys, j # k PROVE StreamInv(j)'
    <2>1. StreamInv(j) /\ said'[j] = said[j] /\ Lost(j)' = Lost(j)
      BY <1>2, <1>5, <1>10 DEF Streams
    <2>2. Bytes(j, Unread') = Bytes(j, Unread)
      BY <1>6, <1>10
    <2>3. Ascending(j, Unread')
      <3>1. Below(Bytes(j, Unread), Bytes(j, more))
        BY <1>10 DEF Below
      <3> QED BY <1>1, <2>1, <3>1, AscendingConcat DEF StreamInv
    <2>4. Ascending(j, lines')
      BY <2>1 DEF StreamInv
    <2> QED BY <2>1, <2>2, <2>3, <2>4, StreamSame
  <1>11. ASSUME NEW j \in DOMAIN lines
         PROVE  Whole(Newlines(lines[j].key)', Lost(lines[j].key)', ToSet(lines[j].data))
    <2> DEFINE l == lines[j]
    <2>1. l.key \in Keys /\ ToSet(l.data) \subseteq 1..Len(said[l.key])
      BY LineBytes DEF Streams
    <2>2. Whole(Newlines(l.key), Lost(l.key), ToSet(l.data))
      BY DEF Streams, WholeLines
    <2>3. CASE l.key = k
      <3>1. ToSet(l.data) \subseteq 1..n /\ Whole(Newlines(k), Lost(k), ToSet(l.data))
        BY <2>1, <2>2, <2>3
      <3> HIDE DEF l, new
      <3>2. Lost(k) \subseteq Lost(k)'
        BY <1>5
      <3>3. Whole(new, Lost(k)', ToSet(l.data))
        BY <1>1, <1>4, <3>1, <3>2, WholeMore
      <3> QED BY <2>3, <3>3 DEF new, l
    <2>4. CASE l.key # k
      <3>1. said'[l.key] = said[l.key] /\ Lost(l.key)' = Lost(l.key)
        BY <1>2, <1>5, <2>1, <2>4
      <3>2. Newlines(l.key)' = Newlines(l.key)
        BY <3>1 DEF Newlines
      <3> QED BY <2>2, <3>1, <3>2
    <2> QED BY <2>3, <2>4
  <1>12. WholeLines'
    BY <1>11 DEF WholeLines
  <1> QED BY <1>2, <1>9, <1>10, <1>12 DEF Streams
\* A buffer that is too long is given away.
LEMMA OverflowSane ==
    ASSUME NEW acc, NEW K, NEW NL, Sane(acc, K, NL)
    PROVE  Sane(Overflow(acc), K, NL) /\ Len(Overflow(acc).buf) < MaxLine
  <1>1. MaxLine \in Nat /\ MaxLine # 0
    BY SizesAssumption
  <1>2. CASE Len(acc.buf) >= MaxLine
    <2>1. Overflow(acc) = [out |-> Append(acc.out, acc.buf), buf |-> <<>>]
      BY <1>2 DEF Overflow
    <2>2. Sane(Overflow(acc), K, NL)
      BY <2>1, EndLine
    <2>3. Len(Overflow(acc).buf) = 0
      BY <2>1
    <2> QED BY <1>1, <2>2, <2>3
  <1>3. CASE ~(Len(acc.buf) >= MaxLine)
    <2>1. Overflow(acc) = acc
      BY <1>3 DEF Overflow
    <2>2. Len(acc.buf) \in Nat
      BY LenProperties DEF Sane, Accs
    <2> QED BY <1>1, <1>3, <2>1, <2>2
  <1> QED BY <1>2, <1>3

\* The lines that OnLines adds.
Tagged(k, out) == [i \in 1..Len(out) |-> [key |-> k, data |-> out[i]]]

LEMMA TaggedBytes ==
    ASSUME NEW k \in Keys, NEW out \in Seq(Seq(Pos)), RisingLines(out)
    PROVE  /\ Tagged(k, out) \in Seq(Lines) /\ Bytes(k, Tagged(k, out)) = Gathered(out)
           /\ Ascending(k, Tagged(k, out))
           /\ \A j : j # k => Bytes(j, Tagged(k, out)) = {} /\ Ascending(j, Tagged(k, out))
           /\ DOMAIN Tagged(k, out) = DOMAIN out
           /\ \A i \in DOMAIN out : Tagged(k, out)[i].key = k /\ Tagged(k, out)[i].data = out[i]
  <1> DEFINE g == Tagged(k, out)
  <1>1. Len(out) \in Nat /\ DOMAIN out = 1..Len(out) /\ \A i \in 1..Len(out) : out[i] \in Seq(Pos)
    BY LenProperties, ElementOfSeq
  <1>2. DOMAIN g = DOMAIN out /\ \A i \in DOMAIN out : g[i].key = k /\ g[i].data = out[i]
    BY <1>1 DEF Tagged
  <1>3. g \in Seq(Lines)
    <2>1. \A i \in 1..Len(out) : [key |-> k, data |-> out[i]] \in Lines
      BY <1>1 DEF Lines
    <2> QED BY <1>1, <2>1 DEF Tagged
  <1> HIDE DEF g
  <1>4. Bytes(k, g) = Gathered(out)
    <2>1. \A x : x \in Bytes(k, g) <=> \E j \in DOMAIN out : x \in ToSet(out[j])
      <3>1. \A x : x \in Bytes(k, g) <=> \E j \in DOMAIN g : g[j].key = k /\ x \in ToSet(g[j].data)
        BY InBytes
      <3> QED BY <1>2, <3>1, Zenon
    <2>2. \A x : x \in Gathered(out) <=> \E j \in DOMAIN out : x \in ToSet(out[j])
      BY DEF Gathered
    <2> QED BY <2>1, <2>2
  <1>5. Ascending(k, g)
    BY <1>2 DEF Ascending, RisingLines
  <1>6. ASSUME NEW j, j # k PROVE Bytes(j, g) = {} /\ Ascending(j, g)
    <2>1. \A x : x \notin Bytes(j, g)
      BY <1>2, <1>6, InBytes
    <2>2. Ascending(j, g)
      BY <1>2, <1>6 DEF Ascending
    <2> QED BY <2>1, <2>2
  <1> QED BY <1>2, <1>3, <1>4, <1>5, <1>6 DEF g

\* The bytes of a record are its newlines and the others.
LEMMA SplitBytes ==
    ASSUME NEW k, NEW data \in Seq(Pos), ToSet(data) \subseteq 1..Len(said[k])
    PROVE  /\ CharsTo(k, data, Len(data)) = ToSet(data) \ Newlines(k)
           /\ NewlinesTo(k, data, Len(data)) = ToSet(data) \cap Newlines(k)
  <1>1. DOMAIN data = 1..Len(data)
    BY LenProperties
  <1>2. \A x : x \in ToSet(data) <=> \E j \in 1..Len(data) : x = data[j]
    BY <1>1 DEF ToSet
  <1>3. \A x \in ToSet(data) : x \in Newlines(k) <=> said[k][x]
    BY DEF Newlines
  <1>4. \A x : x \in CharsTo(k, data, Len(data)) <=> \E j \in 1..Len(data) : x = data[j] /\ ~said[k][x]
    BY DEF CharsTo
  <1>5. \A x : x \in NewlinesTo(k, data, Len(data)) <=> \E j \in 1..Len(data) : x = data[j] /\ said[k][x]
    BY DEF NewlinesTo
  <1>6. CharsTo(k, data, Len(data)) = ToSet(data) \ Newlines(k)
    BY <1>2, <1>3, <1>4
  <1>7. NewlinesTo(k, data, Len(data)) = ToSet(data) \cap Newlines(k)
    BY <1>2, <1>3, <1>5
  <1> QED BY <1>6, <1>7
\* Push takes the first record that is not read.
LEMMA PushKeeps ==
    ASSUME TypeOK, Streams, NEW r \in Records, NEW u \in Seq(Records),
           Unread = <<r>> \o u, Unread' = u, Push(r.key, r.data), UNCHANGED <<said, missed>>
    PROVE  /\ Streams' /\ lines' \in Seq(Lines) /\ streams' \in [Keys -> Seq(Pos)]
           /\ idle' \subseteq Keys
  <1> DEFINE k == r.key
             n == Len(said[k])
             D == ToSet(r.data)
             V == Bytes(k, u)
             nl == Newlines(k)
             acc == Overflow(Split(k, r.data, streams[k]))
             K == ToSet(streams[k]) \cup (D \ nl)
             add == Tagged(k, acc.out)
  <1>1. k \in Keys /\ r.data \in Seq(Pos) /\ <<r>> \in Seq(Records)
    <2>1. k \in Keys /\ r.data \in Seq(Pos)
      BY DEF Records, Pos
    <2>2. <<r>> \in Seq(Records)
      OBVIOUS
    <2> QED BY <2>1, <2>2
  <1>2. /\ said[k] \in Seq(BOOLEAN) /\ n \in Nat /\ streams[k] \in Seq(Pos) /\ lines \in Seq(Lines)
    BY <1>1, Typed
  <1>3. StreamInv(k)
    BY <1>1 DEF Streams
  <1>4. Stands(n, nl, Lost(k), Bytes(k, lines), ToSet(streams[k]), Bytes(k, Unread))
    BY <1>3 DEF StreamInv
  <1>5. \A j : /\ Ascending(j, Unread) => Ascending(j, <<r>>) /\ Ascending(j, u)
               /\ Ascending(j, Unread) => Below(Bytes(j, <<r>>), Bytes(j, u))
               /\ Bytes(j, Unread) = Bytes(j, <<r>>) \cup Bytes(j, u)
    <2> DEFINE one == <<r>>
    <2>1. one \in Seq(Records) /\ Unread = one \o u
      BY <1>1
    <2> HIDE DEF one
    <2>2. \A j : Bytes(j, one \o u) = Bytes(j, one) \cup Bytes(j, u)
      BY <2>1, BytesConcat
    <2>3. \A j : Ascending(j, one \o u) <=>
                    Ascending(j, one) /\ Ascending(j, u) /\ Below(Bytes(j, one), Bytes(j, u))
      BY <2>1, AscendingConcat
    <2> QED BY <2>1, <2>2, <2>3 DEF one
  <1>6. Bytes(k, <<r>>) = D /\ (Ascending(k, <<r>>) <=> Rising(r.data))
    BY OneRecord
  <1>7. \A j : j # k => Bytes(j, <<r>>) = {}
    BY OneRecord
  <1>8. Bytes(k, Unread) = D \cup V /\ Below(D, V) /\ Rising(r.data) /\ Ascending(k, u)
    BY <1>3, <1>5, <1>6 DEF StreamInv
  <1>9. D \subseteq 1..n /\ Below(ToSet(streams[k]), D) /\ Rising(streams[k])
    BY <1>3, <1>4, <1>8 DEF Stands, Below, StreamInv
  <1>10. Sane(acc, K, D \cap nl) /\ Len(acc.buf) < MaxLine
    <2>1. Sane(Split(k, r.data, streams[k]), ToSet(streams[k]) \cup CharsTo(k, r.data, Len(r.data)),
               NewlinesTo(k, r.data, Len(r.data)))
      BY <1>1, <1>2, <1>8, <1>9, SplitSane
    <2>2. CharsTo(k, r.data, Len(r.data)) = D \ nl /\ NewlinesTo(k, r.data, Len(r.data)) = D \cap nl
      BY <1>1, <1>9, SplitBytes
    <2> QED BY <2>1, <2>2, OverflowSane
  <1>11. /\ lines' = lines \o add /\ streams' = [streams EXCEPT ![k] = acc.buf]
         /\ idle' = idle \ {k}
    BY DEF Push, OnLines, Tagged
  <1> HIDE DEF acc
  <1>12. acc.out \in Seq(Seq(Pos)) /\ acc.buf \in Seq(Pos) /\ RisingLines(acc.out) /\ Rising(acc.buf)
    BY <1>10 DEF Sane, Accs
  <1>13. /\ add \in Seq(Lines) /\ Bytes(k, add) = Gathered(acc.out) /\ Ascending(k, add)
         /\ \A j : j # k => Bytes(j, add) = {} /\ Ascending(j, add)
         /\ DOMAIN add = DOMAIN acc.out
         /\ \A i \in DOMAIN acc.out : add[i].key = k /\ add[i].data = acc.out[i]
    BY <1>1, <1>12, TaggedBytes
  <1>14. /\ lines' \in Seq(Lines) /\ streams' \in [Keys -> Seq(Pos)] /\ idle' \subseteq Keys
         /\ streams'[k] = acc.buf /\ \A j \in Keys : j # k => streams'[j] = streams[j]
    <2>1. lines' \in Seq(Lines)
      BY <1>2, <1>11, <1>13, ConcatProperties
    <2>2. streams \in [Keys -> Seq(Pos)] /\ idle \subseteq Keys
      BY DEF TypeOK, Pos
    <2> QED BY <1>1, <1>11, <1>12, <2>1, <2>2
  <1>15. \A j : Newlines(j)' = Newlines(j) /\ Lost(j)' = Lost(j)
    BY DEF Newlines, Lost
  <1>16. \A j : /\ Bytes(j, lines') = Bytes(j, lines) \cup Bytes(j, add)
                /\ Ascending(j, lines') <=> Ascending(j, lines) /\ Ascending(j, add)
                                              /\ Below(Bytes(j, lines), Bytes(j, add))
    <2>1. \A j : Bytes(j, lines \o add) = Bytes(j, lines) \cup Bytes(j, add)
      BY <1>2, <1>13, BytesConcat
    <2>2. \A j : Ascending(j, lines \o add) <=>
                    Ascending(j, lines) /\ Ascending(j, add) /\ Below(Bytes(j, lines), Bytes(j, add))
      BY <1>2, <1>13, AscendingConcat
    <2> QED BY <1>11, <2>1, <2>2
  <1> HIDE DEF add, D, V, nl, n, K
  <1>17. /\ K = Gathered(acc.out) \cup ToSet(acc.buf) /\ Below(Gathered(acc.out), ToSet(acc.buf))
         /\ Below(D \cap nl, ToSet(acc.buf))
    BY <1>10 DEF Sane
  <1>18. StreamInv(k)'
    <2>1. Stands(n, nl, Lost(k), Bytes(k, lines) \cup Gathered(acc.out), ToSet(acc.buf), V)
      <3>1. ToSet(streams[k]) \cup (D \ nl) = Gathered(acc.out) \cup ToSet(acc.buf)
        BY <1>17 DEF K
      <3>2. n \in Nat
        BY <1>2
      <3> QED BY <1>4, <1>8, <1>17, <3>1, <3>2, StandsPush
    <2>2. Ascending(k, lines')
      <3>1. Below(Bytes(k, lines), K)
        BY <1>4, <1>8 DEF Stands, Below, K
      <3>2. Below(Bytes(k, lines), Bytes(k, add))
        BY <1>13, <1>17, <3>1 DEF Below
      <3> QED BY <1>3, <1>13, <1>16, <3>2 DEF StreamInv
    <2>3. Rising(streams'[k]) /\ Len(streams'[k]) < MaxLine
      BY <1>10, <1>12, <1>14
    <2>4. Stands(Len(said'[k]), Newlines(k)', Lost(k)', Bytes(k, lines'), ToSet(streams'[k]), Bytes(k, Unread'))
      BY <1>13, <1>14, <1>15, <1>16, <2>1 DEF n, nl, V
    <2> QED BY <1>8, <2>2, <2>3, <2>4 DEF StreamInv
  <1>19. ASSUME NEW j \in Keys, j # k PROVE StreamInv(j)'
    <2>1. StreamInv(j)
      BY DEF Streams
    <2>2. streams'[j] = streams[j] /\ Bytes(j, lines') = Bytes(j, lines) /\ Bytes(j, Unread') = Bytes(j, Unread)
      <3>1. streams'[j] = streams[j] /\ Bytes(j, add) = {} /\ Bytes(j, <<r>>) = {}
        BY <1>7, <1>13, <1>14, <1>19
      <3>2. Bytes(j, lines') = Bytes(j, lines)
        BY <1>16, <3>1
      <3>3. Bytes(j, Unread) = Bytes(j, u)
        BY <1>5, <3>1
      <3> QED BY <3>1, <3>2, <3>3
    <2>3. Ascending(j, Unread')
      BY <1>5, <2>1 DEF StreamInv
    <2>4. Ascending(j, lines')
      <3>1. Below(Bytes(j, lines), Bytes(j, add))
        BY <1>13, <1>19 DEF Below
      <3> QED BY <1>13, <1>16, <1>19, <2>1, <3>1 DEF StreamInv
    <2> QED BY <1>15, <2>1, <2>2, <2>3, <2>4, StreamSame
  <1>20. WholeLines'
    <2> SUFFICES ASSUME NEW i \in DOMAIN lines'
                 PROVE  Whole(Newlines(lines'[i].key), Lost(lines'[i].key), ToSet(lines'[i].data))
      BY <1>15 DEF WholeLines
    <2>1. \/ i \in DOMAIN lines /\ lines'[i] = lines[i]
          \/ \E m \in DOMAIN add : lines'[i] = add[m]
      <3>1. i \in DOMAIN (lines \o add) /\ lines' = lines \o add
        BY <1>11
      <3> QED BY <1>2, <1>11, <1>13, <3>1, OneOf
    <2>2. CASE i \in DOMAIN lines /\ lines'[i] = lines[i]
      BY <2>2 DEF Streams, WholeLines
    <2>3. CASE \E m \in DOMAIN add : lines'[i] = add[m]
      <3>1. PICK m \in DOMAIN add : lines'[i] = add[m]
        BY <2>3
      <3>2. m \in DOMAIN acc.out /\ lines'[i].key = k /\ lines'[i].data = acc.out[m]
        BY <1>13, <3>1
      <3>3. ToSet(acc.out[m]) \subseteq ToSet(streams[k]) \cup (D \ nl)
        BY <1>17, <3>2 DEF Gathered, K
      <3>4. \A x \in D \cap nl : Below({x}, ToSet(acc.out[m])) \/ Below(ToSet(acc.out[m]), {x})
        BY <1>10, <3>2 DEF Sane, Apart
      <3>5. Whole(nl, Lost(k), ToSet(acc.out[m]))
        BY <1>2, <1>4, <1>8, <3>3, <3>4, LineWhole DEF n
      <3> QED BY <3>2, <3>5 DEF nl
    <2> QED BY <2>1, <2>2, <2>3
  <1> QED BY <1>14, <1>18, <1>19, <1>20 DEF Streams
\* The order in which FlushIdle comes to the streams has each of them once.
LEMMA OrderIs ==
    ASSUME NEW A, IsFiniteSet(A), NEW order \in SetToSeqs(A)
    PROVE  /\ order \in Seq(A) /\ Len(order) \in Nat /\ DOMAIN order = 1..Len(order)
           /\ \A i, j \in 1..Len(order) : order[i] = order[j] => i = j
           /\ \A a \in A : \E i \in 1..Len(order) : order[i] = a
           /\ \A i \in 1..Len(order) : order[i] \in A
  <1> DEFINE c == Cardinality(A)
  <1>1. c \in Nat
    BY FS_CardinalityType
  <1>2. order \in [1..c -> A] /\ \A i, j \in 1..c : i # j => order[i] # order[j]
    BY DEF SetToSeqs
  <1>3. order \in Injection(1..c, A)
    BY <1>2 DEF Injection, IsInjective
  <1>4. Cardinality(1..c) = c
    <2>1. 1 \in Int /\ c \in Int /\ (IF 1 > c THEN 0 ELSE c - 1 + 1) = c
      BY <1>1
    <2>2. Cardinality(1..c) = IF 1 > c THEN 0 ELSE c - 1 + 1
      BY <2>1, FS_Interval
    <2> QED BY <2>1, <2>2
  <1>5. order \in Surjection(1..c, A)
    BY <1>3, <1>4, FS_Injection
  <1>6. order \in Seq(A) /\ Len(order) = c /\ DOMAIN order = 1..c
    BY <1>1, <1>2
  <1> HIDE DEF c
  <1>7. \A a \in A : \E i \in 1..c : order[i] = a
    BY <1>5 DEF Surjection
  <1> QED BY <1>1, <1>2, <1>6, <1>7

\* The unfinished lines of ks are given away.
LEMMA FlushKeeps ==
    ASSUME TypeOK, Streams, NEW ks, ks \subseteq Keys, FlushIdle(ks),
           UNCHANGED <<said, missed>>, Unread' = Unread
    PROVE  /\ Streams' /\ lines' \in Seq(Lines) /\ streams' \in [Keys -> Seq(Pos)]
           /\ idle' \subseteq Keys /\ \A k \in ks : streams'[k] = <<>>
  <1> DEFINE A == {k \in ks : streams[k] # <<>>}
  <1>1. PICK order \in SetToSeqs(A) :
           /\ lines' = lines \o [i \in 1..Len(order) |-> [key |-> order[i], data |-> streams[order[i]]]]
           /\ streams' = [k \in Keys |-> IF k \in ks THEN <<>> ELSE streams[k]]
           /\ idle' = idle \ ks
    BY DEF FlushIdle
  <1>2. IsFiniteSet(A) /\ A \subseteq Keys
    BY SizesAssumption, FS_Subset
  <1> DEFINE N == Len(order)
             add == [i \in 1..N |-> [key |-> order[i], data |-> streams[order[i]]]]
  <1>3. /\ N \in Nat /\ \A i, j \in 1..N : order[i] = order[j] => i = j
        /\ \A a \in A : \E i \in 1..N : order[i] = a
        /\ \A i \in 1..N : order[i] \in A
    <2> HIDE DEF A
    <2> QED BY <1>2, OrderIs
  <1>4. /\ lines \in Seq(Lines) /\ Unread \in Seq(Records)
        /\ \A k \in Keys : streams[k] \in Seq(Pos) /\ Len(said[k]) \in Nat
    BY Typed
  <1>5. DOMAIN add = 1..N /\ \A i \in 1..N : add[i].key = order[i] /\ add[i].data = streams[order[i]]
    OBVIOUS
  <1>6. add \in Seq(Lines)
    <2>1. \A i \in 1..N : [key |-> order[i], data |-> streams[order[i]]] \in Lines
      BY <1>2, <1>3, <1>4 DEF Lines
    <2> HIDE DEF N
    <2> QED BY <1>3, <2>1
  <1> HIDE DEF add
  <1>7. lines' = lines \o add
    BY <1>1 DEF add
  <1>8. /\ lines' \in Seq(Lines) /\ streams' \in [Keys -> Seq(Pos)] /\ idle' \subseteq Keys
        /\ \A k \in ks : streams'[k] = <<>>
        /\ \A k \in Keys \ ks : streams'[k] = streams[k]
    <2>1. lines' \in Seq(Lines)
      BY <1>4, <1>6, <1>7, ConcatProperties
    <2>2. idle \subseteq Keys
      BY DEF TypeOK
    <2> QED BY <1>1, <1>4, <2>1, <2>2
  <1>9. \A k : /\ Newlines(k)' = Newlines(k) /\ Lost(k)' = Lost(k)
    BY DEF Newlines, Lost
  <1>10. \A k : Bytes(k, lines') = Bytes(k, lines) \cup Bytes(k, add)
    BY <1>4, <1>6, <1>7, BytesConcat
  <1>11. \A k : Ascending(k, lines') <=>
                  Ascending(k, lines) /\ Ascending(k, add) /\ Below(Bytes(k, lines), Bytes(k, add))
    BY <1>4, <1>6, <1>7, AscendingConcat
  <1>12. ASSUME NEW k \in Keys, k \notin A PROVE Bytes(k, add) = {} /\ Ascending(k, add)
    <2>1. \A i \in DOMAIN add : add[i].key # k
      BY <1>3, <1>5, <1>12
    <2>2. \A x : x \notin Bytes(k, add)
      BY <2>1, InBytes
    <2>3. Ascending(k, add)
      BY <2>1 DEF Ascending
    <2> QED BY <2>2, <2>3
  <1>13. ASSUME NEW k \in A PROVE Bytes(k, add) = ToSet(streams[k])
    <2>1. PICK i \in 1..N : order[i] = k
      BY <1>3
    <2>2. \A j \in DOMAIN add : add[j].key = k => add[j].data = streams[k]
      BY <1>5
    <2>3. i \in DOMAIN add /\ add[i].key = k /\ add[i].data = streams[k]
      BY <1>5, <2>1
    <2>4. \A x : x \in Bytes(k, add) <=> x \in ToSet(streams[k])
      BY <2>2, <2>3, InBytes
    <2> QED BY <2>4
  <1>14. ASSUME NEW k \in A PROVE Ascending(k, add)
    <2>1. Rising(streams[k])
      BY <1>2, <1>14 DEF Streams, StreamInv
    <2> SUFFICES ASSUME NEW i \in DOMAIN add, NEW j \in DOMAIN add, add[i].key = k, add[j].key = k,
                        NEW m \in DOMAIN add[i].data, NEW q \in DOMAIN add[j].data,
                        i < j \/ (i = j /\ m < q)
                 PROVE  add[i].data[m] < add[j].data[q]
      BY DEF Ascending
    <2>2. i = j
      BY <1>3, <1>5
    <2>3. i \in Nat /\ j \in Nat
      BY <1>3, <1>5
    <2>4. m < q
      BY <2>2, <2>3
    <2>5. add[i].data = streams[k] /\ add[j].data = streams[k]
      BY <1>5
    <2> QED BY <2>1, <2>4, <2>5 DEF Rising
  <1> HIDE DEF N
  <1>15. ASSUME NEW k \in Keys PROVE StreamInv(k)'
    <2>1. StreamInv(k)
      BY DEF Streams
    <2>2. CASE k \notin A
      <3>1. streams'[k] = streams[k]
        BY <1>8, <2>2
      <3>2. Bytes(k, lines') = Bytes(k, lines)
        BY <1>10, <1>12, <2>2
      <3>3. Ascending(k, lines')
        <4>1. Below(Bytes(k, lines), Bytes(k, add))
          BY <1>12, <2>2 DEF Below
        <4> QED BY <1>11, <1>12, <2>1, <2>2, <4>1 DEF StreamInv
      <3>4. Ascending(k, Unread') /\ Bytes(k, Unread') = Bytes(k, Unread)
        BY <2>1 DEF StreamInv
      <3> HIDE DEF A
      <3> QED BY <1>9, <2>1, <3>1, <3>2, <3>3, <3>4, StreamSame
    <2>3. CASE k \in A
      <3>1. streams'[k] = <<>>
        BY <1>8, <2>3
      <3> HIDE DEF A
      <3> DEFINE n == Len(said[k])
                 nl == Newlines(k)
                 L == Bytes(k, lines)
                 P == ToSet(streams[k])
                 U == Bytes(k, Unread)
      <3>2. Stands(n, nl, Lost(k), L, P, U) /\ n \in Nat
        BY <1>4, <2>1 DEF StreamInv
      <3>3. Bytes(k, lines') = L \cup P
        BY <1>10, <1>13, <2>3
      <3>4. Ascending(k, lines')
        <4>1. Below(L, P)
          BY <3>2 DEF Stands
        <4> QED BY <1>11, <1>13, <1>14, <2>1, <2>3, <4>1 DEF StreamInv
      <3>5. Stands(n, nl, Lost(k), L \cup P, {}, U)
        <4> HIDE DEF n, nl, L, P, U
        <4>1. U = {} \cup U /\ P \cup ({} \ nl) = P \cup {}
          OBVIOUS
        <4>2. Below({}, U) /\ Below(P, {}) /\ Below({} \cap nl, {})
          BY DEF Below
        <4> QED BY <3>2, <4>1, <4>2, StandsPush
      <3>6. ToSet(streams'[k]) = {} /\ Rising(streams'[k]) /\ Len(streams'[k]) < MaxLine
        BY <3>1, SizesAssumption DEF ToSet, Rising
      <3>7. Stands(Len(said'[k]), Newlines(k)', Lost(k)', Bytes(k, lines'), ToSet(streams'[k]), Bytes(k, Unread'))
        BY <1>9, <3>3, <3>5, <3>6
      <3>8. Ascending(k, Unread')
        BY <2>1 DEF StreamInv
      <3> QED BY <3>4, <3>6, <3>7, <3>8 DEF StreamInv
    <2> QED BY <2>2, <2>3
  <1>16. WholeLines'
    <2> SUFFICES ASSUME NEW i \in DOMAIN lines'
                 PROVE  Whole(Newlines(lines'[i].key), Lost(lines'[i].key), ToSet(lines'[i].data))
      BY <1>9 DEF WholeLines
    <2>1. \/ i \in DOMAIN lines /\ lines'[i] = lines[i]
          \/ \E m \in DOMAIN add : lines'[i] = add[m]
      <3>1. i \in DOMAIN (lines \o add) /\ lines' = lines \o add
        BY <1>7
      <3> QED BY <1>4, <1>6, <1>7, <3>1, OneOf
    <2>2. CASE i \in DOMAIN lines /\ lines'[i] = lines[i]
      BY <2>2 DEF Streams, WholeLines
    <2>3. CASE \E m \in DOMAIN add : lines'[i] = add[m]
      <3>1. PICK m \in DOMAIN add : lines'[i] = add[m]
        BY <2>3
      <3> DEFINE k == order[m]
                 nl == Newlines(k)
                 P == ToSet(streams[k])
                 U == Bytes(k, Unread)
      <3>2. k \in Keys /\ lines'[i].key = k /\ lines'[i].data = streams[k]
        BY <1>2, <1>3, <1>5, <3>1
      <3> HIDE DEF k, A
      <3>3. Stands(Len(said[k]), nl, Lost(k), Bytes(k, lines), P, U) /\ Len(said[k]) \in Nat
        BY <1>4, <3>2 DEF Streams, StreamInv
      <3>4. Whole(nl, Lost(k), P)
        <4> HIDE DEF nl, P, U
        <4>1. U = {} \cup U /\ P \subseteq P \cup ({} \ nl)
          OBVIOUS
        <4>2. Below({}, U) /\ \A x \in {} \cap nl : Below({x}, P) \/ Below(P, {x})
          BY DEF Below
        <4> QED BY <3>3, <4>1, <4>2, LineWhole
      <3> QED BY <3>2, <3>4
    <2> QED BY <2>1, <2>2, <2>3
  <1> QED BY <1>8, <1>15, <1>16 DEF Streams
\* The ring buffer goes: its bytes are missed.
LEMMA CloseKeeps ==
    ASSUME TypeOK, Streams, Unread' = events \o hand, UNCHANGED <<said, lines, streams>>,
           missed' = missed \cup UNION {[key : {r.key}, at : ToSet(r.data), why : {"closing"}] :
                                         r \in ToSet(ring)}
    PROVE  Streams' /\ \A m \in missed' : m \in missed \/ m.why = "closing"
  <1> DEFINE add == UNION {[key : {r.key}, at : ToSet(r.data), why : {"closing"}] : r \in ToSet(ring)}
             eh == events \o hand
  <1>1. /\ Unread = eh \o ring /\ eh \in Seq(Records) /\ ring \in Seq(Records)
        /\ \A k \in Keys : Len(said[k]) \in Nat
    BY Typed DEF Unread
  <1>2. \A m \in add : m.why = "closing" /\ m.at \in Bytes(m.key, ring)
    <2> SUFFICES ASSUME NEW m \in add PROVE m.why = "closing" /\ m.at \in Bytes(m.key, ring)
      OBVIOUS
    <2>1. PICK r \in ToSet(ring) : m \in [key : {r.key}, at : ToSet(r.data), why : {"closing"}]
      OBVIOUS
    <2>2. m.key = r.key /\ m.at \in ToSet(r.data) /\ m.why = "closing"
      BY <2>1
    <2>3. PICK j \in DOMAIN ring : r = ring[j]
      BY <2>1 DEF ToSet
    <2> QED BY <2>2, <2>3, InBytes
  <1>3. ASSUME NEW k, NEW i \in Bytes(k, ring) PROVE \E m \in add : m.key = k /\ m.at = i
    <2>1. PICK j \in DOMAIN ring : ring[j].key = k /\ i \in ToSet(ring[j].data)
      BY <1>3, InBytes
    <2>2. ring[j] \in ToSet(ring)
      BY DEF ToSet
    <2>3. [key |-> k, at |-> i, why |-> "closing"] \in
             [key : {ring[j].key}, at : ToSet(ring[j].data), why : {"closing"}]
      BY <2>1
    <2>4. [key |-> k, at |-> i, why |-> "closing"] \in add
      BY <2>2, <2>3
    <2> QED BY <2>4
  <1>4. missed' = missed \cup add
    OBVIOUS
  <1> HIDE DEF add, eh
  <1>5. ASSUME NEW k PROVE Lost(k)' = Lost(k) \cup Bytes(k, ring)
    <2>1. ASSUME NEW i \in Lost(k)' PROVE i \in Lost(k) \cup Bytes(k, ring)
      BY <1>2, <1>4, <2>1 DEF Lost
    <2>2. ASSUME NEW i \in Lost(k) PROVE i \in Lost(k)'
      BY <1>4, <2>2 DEF Lost
    <2>3. ASSUME NEW i \in Bytes(k, ring) PROVE i \in Lost(k)'
      BY <1>3, <1>4, <2>3 DEF Lost
    <2> QED BY <2>1, <2>2, <2>3
  <1>6. \A k : Newlines(k)' = Newlines(k)
    BY DEF Newlines
  <1>7. Unread' = eh
    BY DEF eh
  <1>8. ASSUME NEW k \in Keys PROVE StreamInv(k)'
    <2>1. StreamInv(k)
      BY DEF Streams
    <2>2. Bytes(k, Unread) = Bytes(k, eh) \cup Bytes(k, ring)
      BY <1>1, BytesConcat
    <2>3. Ascending(k, eh) /\ Below(Bytes(k, eh), Bytes(k, ring))
      BY <1>1, <2>1, AscendingConcat DEF StreamInv
    <2>4. Stands(Len(said[k]), Newlines(k), Lost(k), Bytes(k, lines), ToSet(streams[k]), Bytes(k, Unread))
      BY <2>1 DEF StreamInv
    <2>5. Stands(Len(said[k]), Newlines(k), Lost(k) \cup Bytes(k, ring),
                 Bytes(k, lines), ToSet(streams[k]), Bytes(k, eh))
      BY <1>1, <2>2, <2>3, <2>4, StandsClose
    <2>6. Stands(Len(said'[k]), Newlines(k)', Lost(k)', Bytes(k, lines'), ToSet(streams'[k]), Bytes(k, Unread'))
      BY <1>5, <1>6, <1>7, <2>5
    <2>7. Ascending(k, lines') /\ Rising(streams'[k]) /\ Len(streams'[k]) < MaxLine
      BY <2>1 DEF StreamInv
    <2> QED BY <1>7, <2>3, <2>6, <2>7 DEF StreamInv
  <1>9. ASSUME NEW j \in DOMAIN lines
        PROVE  Whole(Newlines(lines[j].key), Lost(lines[j].key)', ToSet(lines[j].data))
    <2> DEFINE k == lines[j].key
    <2>1. k \in Keys /\ ToSet(lines[j].data) \subseteq 1..Len(said[k])
      BY LineBytes DEF Streams
    <2>2. Whole(Newlines(k), Lost(k), ToSet(lines[j].data))
      BY DEF Streams, WholeLines
    <2>3. Newlines(k) \cap (1..Len(said[k])) = Newlines(k) /\ Lost(k) \subseteq Lost(k)'
      BY <1>5 DEF Newlines
    <2>4. Len(said[k]) \in Nat
      BY <1>1, <2>1
    <2> HIDE DEF k
    <2>5. Whole(Newlines(k), Lost(k)', ToSet(lines[j].data))
      BY <2>1, <2>2, <2>3, <2>4, WholeMore
    <2> QED BY <2>5 DEF k
  <1>10. WholeLines'
    BY <1>6, <1>9 DEF WholeLines
  <1>11. \A m \in missed' : m \in missed \/ m.why = "closing"
    BY <1>2, <1>4
  <1> QED BY <1>8, <1>10, <1>11 DEF Streams

\* A step that moves no byte, and hands records on at most.
LEMMA SameKeeps ==
    ASSUME TypeOK, Streams, UNCHANGED <<said, missed, lines, streams>>, Unread' = Unread
    PROVE  Streams'
  <1>1. \A k : Newlines(k)' = Newlines(k) /\ Lost(k)' = Lost(k)
    BY DEF Newlines, Lost
  <1>2. ASSUME NEW k \in Keys PROVE StreamInv(k)'
    <2>1. StreamInv(k)
      BY DEF Streams
    <2> QED BY <1>1, <2>1 DEF StreamInv
  <1>3. WholeLines'
    BY <1>1 DEF Streams, WholeLines
  <1> QED BY <1>2, <1>3 DEF Streams
\* What a write adds to the missed bytes.
LEMMA MissWhy ==
    ASSUME NEW k, NEW M, NEW why, missed' = Miss(k, M, why)
    PROVE  \A m \in missed' : m \in missed \/ m.why = why
  BY DEF Miss

\* The bytes that are copied of a buffer.
LEMMA KeptIs ==
    ASSUME NEW from \in Nat, NEW n \in Nat, NEW d, DOMAIN d = 1..n,
           d = [i \in DOMAIN d |-> d[i]], \A i \in 1..n : d[i] = from + i
    PROVE  d \in Seq(Pos) /\ Rising(d) /\ ToSet(d) = from + 1..from + n
  <1>1. d \in Seq(Pos)
    <2>1. \A i \in 1..n : d[i] \in Pos
      BY DEF Pos
    <2>2. d \in [1..n -> Pos]
      BY <2>1
    <2> QED BY <2>2
  <1>2. Rising(d)
    BY DEF Rising
  <1>3. ToSet(d) = from + 1..from + n
    <2>1. ASSUME NEW x \in ToSet(d) PROVE x \in from + 1..from + n
      BY DEF ToSet
    <2>2. ASSUME NEW x \in from + 1..from + n PROVE x \in ToSet(d)
      <3>1. x - from \in 1..n /\ from + (x - from) = x
        OBVIOUS
      <3>2. d[x - from] = x
        BY <3>1
      <3> QED BY <3>1, <3>2 DEF ToSet
    <2> QED BY <2>1, <2>2
  <1> QED BY <1>1, <1>2, <1>3

\* The record of one buffer is in the ring buffer, or its bytes are missed.
LEMMA EmitKeeps ==
    ASSUME TypeOK, Streams, NEW k \in Keys, NEW buf \in Seq(BOOLEAN), NEW rest \in Seq(BOOLEAN),
           Emit(k, buf, rest), UNCHANGED <<lines, streams, events, hand>>
    PROVE  /\ Streams' /\ said' \in [Keys -> Seq(BOOLEAN)]
           /\ ring' \in Seq(Records) /\ Len(ring') <= RingSize
           /\ ~attached => ring' = ring
           /\ attached => \A m \in missed' : m \in missed \/ m.why # "unseen"
  <1> DEFINE from == Len(said[k])
             n == IF Len(buf) > MaxData THEN MaxData ELSE Len(buf)
             end == from + Len(buf) + Len(rest)
             ext == buf \o rest
             rec == [key |-> k, data |-> [i \in 1..n |-> from + i], cut |-> from + n < end]
  <1>1. /\ said[k] \in Seq(BOOLEAN) /\ from \in Nat /\ Unread \in Seq(Records) /\ ring \in Seq(Records)
        /\ events \o hand \in Seq(Records) /\ Len(ring) <= RingSize
    BY Typed DEF TypeOK
  <1>2. /\ Len(buf) \in Nat /\ Len(rest) \in Nat /\ ext \in Seq(BOOLEAN) /\ Len(ext) = Len(buf) + Len(rest)
        /\ from + Len(ext) = end
    <2>1. Len(buf) \in Nat /\ Len(rest) \in Nat /\ ext \in Seq(BOOLEAN) /\ Len(ext) = Len(buf) + Len(rest)
      BY Joined
    <2> HIDE DEF ext, from
    <2> QED BY <1>1, <2>1
  <1>3. n \in Nat /\ n <= Len(buf) /\ RingSize \in Nat
    BY <1>2, SizesAssumption
  <1>4. said' = [said EXCEPT ![k] = @ \o ext]
    <2>1. said' = [said EXCEPT ![k] = (@ \o buf) \o rest]
      BY DEF Emit
    <2>2. (said[k] \o buf) \o rest = said[k] \o ext
      <3> DEFINE s == said[k]
      <3>1. s \in Seq(BOOLEAN)
        BY <1>1
      <3> HIDE DEF s
      <3>2. (s \o buf) \o rest = s \o (buf \o rest)
        BY <3>1, ConcatAssociative, SMTT(30)
      <3> QED BY <3>2 DEF s
    <2> QED BY <2>1, <2>2
  <1>5. \/ /\ ~attached /\ missed' = Miss(k, from + 1..end, "unseen") /\ ring' = ring
        \/ /\ attached /\ missed' = Miss(k, from + 1..end, "unreadable") /\ ring' = ring
        \/ /\ attached /\ Len(ring) < RingSize /\ ring' = Append(ring, rec)
           /\ missed' = Miss(k, from + n + 1..end, "cut")
        \/ /\ attached /\ missed' = Miss(k, from + 1..end, "dropped") /\ ring' = ring
    BY DEF Emit
  <1>6. rec \in Records /\ rec.key = k /\ Rising(rec.data) /\ ToSet(rec.data) = from + 1..from + n
    <2> DEFINE d == [i \in 1..n |-> from + i]
               cut == from + n < end
    <2>1. cut \in BOOLEAN /\ rec = [key |-> k, data |-> d, cut |-> cut]
      OBVIOUS
    <2> HIDE DEF from, n, end, cut, rec
    <2>2. DOMAIN d = 1..n /\ d = [i \in DOMAIN d |-> d[i]] /\ \A i \in 1..n : d[i] = from + i
      OBVIOUS
    <2> HIDE DEF d
    <2>3. d \in Seq(Pos) /\ Rising(d) /\ ToSet(d) = from + 1..from + n
      <3>1. from \in Nat /\ n \in Nat
        BY <1>1, <1>3
      <3> QED BY <2>2, <3>1, KeptIs
    <2>4. rec \in Records
      BY <2>1, <2>3 DEF Records, Pos
    <2>5. rec.key = k /\ rec.data = d
      BY <2>1
    <2> QED BY <2>3, <2>4, <2>5
  <1> HIDE DEF from, n, end, ext, rec
  <1>7. ASSUME NEW why, missed' = Miss(k, from + 1..end, why), ring' = ring PROVE Streams' /\ said' \in [Keys -> Seq(BOOLEAN)]
    <2> DEFINE M == from + 1..end
    <2>1. Unread' = Unread \o <<>>
      <3>1. Unread' = Unread
        BY <1>7 DEF Unread
      <3> QED BY <1>1, <3>1, ConcatEmptySeq
    <2>2. <<>> \in Seq(Records) /\ \A j \in Keys : Bytes(j, <<>>) = {} /\ Ascending(j, <<>>)
      BY NoRecord
    <2>3. M = from + 1..from + Len(ext)
      BY <1>2
    <2> HIDE DEF M
    <2>4. M \subseteq Len(said[k]) + 1..Len(said[k]) + Len(ext)
      BY <2>3 DEF from
    <2>5. Bytes(k, <<>>) = (Len(said[k]) + 1..Len(said[k]) + Len(ext)) \ M
      BY <2>2, <2>3 DEF from
    <2>6. missed' = Miss(k, M, why)
      BY <1>7 DEF M
    <2> QED BY <1>2, <1>4, <2>1, <2>2, <2>4, <2>5, <2>6, WriteKeeps
  <1>8. ASSUME missed' = Miss(k, from + n + 1..end, "cut"), ring' = Append(ring, rec)
        PROVE  Streams' /\ said' \in [Keys -> Seq(BOOLEAN)]
    <2> DEFINE M == from + n + 1..end
               more == <<rec>>
    <2>1. more \in Seq(Records)
      BY <1>6
    <2>2. Unread' = Unread \o more
      <3>1. Unread' = (events \o hand) \o Append(ring, rec)
        BY <1>8 DEF Unread
      <3>2. Append(ring, rec) = ring \o more
        BY <1>1, <1>6, AppendIsConcat
      <3>3. (events \o hand) \o (ring \o more) = ((events \o hand) \o ring) \o more
        <4> DEFINE eh == events \o hand
        <4>1. eh \in Seq(Records) /\ ring \in Seq(Records)
          BY <1>1
        <4> HIDE DEF more, eh
        <4>2. eh \o (ring \o more) = (eh \o ring) \o more
          BY <2>1, <4>1, ConcatAssociative, SMTT(30)
        <4> QED BY <4>2 DEF eh
      <3> QED BY <3>1, <3>2, <3>3 DEF Unread
    <2>3. Bytes(k, more) = from + 1..from + n /\ Ascending(k, more)
      BY <1>6, OneRecord
    <2>4. \A j \in Keys : j # k => Bytes(j, more) = {} /\ Ascending(j, more)
      BY <1>6, OneRecord
    <2>5. /\ M \subseteq from + 1..from + Len(ext)
          /\ from + 1..from + n = (from + 1..from + Len(ext)) \ M
      <3>1. from \in Nat /\ n \in Nat /\ Len(ext) \in Nat /\ n <= Len(ext) /\ end = from + Len(ext)
        BY <1>1, <1>2, <1>3
      <3>2. \A x \in from + n + 1..end : x \in from + 1..from + Len(ext) /\ x \notin from + 1..from + n
        BY <3>1
      <3>3. \A x \in from + 1..from + n : x \in from + 1..from + Len(ext)
        BY <3>1
      <3>4. \A x \in from + 1..from + Len(ext) : x \in from + 1..from + n \/ x \in from + n + 1..end
        BY <3>1
      <3> QED BY <3>2, <3>3, <3>4
    <2> HIDE DEF M, more
    <2>6. missed' = Miss(k, M, "cut")
      BY <1>8 DEF M
    <2>7. M \subseteq Len(said[k]) + 1..Len(said[k]) + Len(ext)
      BY <2>5 DEF from
    <2>8. Bytes(k, more) = (Len(said[k]) + 1..Len(said[k]) + Len(ext)) \ M
      BY <2>3, <2>5 DEF from
    <2>9. \A j \in Keys : Ascending(j, more) /\ (j # k => Bytes(j, more) = {})
      BY <2>3, <2>4
    <2> QED BY <1>2, <1>4, <2>1, <2>2, <2>6, <2>7, <2>8, <2>9, WriteKeeps
  <1>9. Streams' /\ said' \in [Keys -> Seq(BOOLEAN)]
    BY <1>5, <1>7, <1>8
  <1>10. ring' \in Seq(Records) /\ Len(ring') <= RingSize /\ (~attached => ring' = ring)
    <2>1. CASE ring' = ring
      BY <1>1, <2>1
    <2>2. CASE attached /\ Len(ring) < RingSize /\ ring' = Append(ring, rec)
      <3>1. ring' \in Seq(Records) /\ Len(ring') = Len(ring) + 1 /\ Len(ring) \in Nat
        BY <1>1, <1>6, <2>2, AppendProperties, LenProperties
      <3> QED BY <1>3, <2>2, <3>1
    <2> QED BY <1>5, <2>1, <2>2
  <1>11. ASSUME attached PROVE \A m \in missed' : m \in missed \/ m.why # "unseen"
    <2>1. PICK M, why : missed' = Miss(k, M, why) /\ why \in {"unreadable", "cut", "dropped"}
      BY <1>5, <1>11
    <2> QED BY <2>1, MissWhy
  <1> QED BY <1>9, <1>10, <1>11

\* The call of a thread and what is left of it.
LEMMA JobIs ==
    ASSUME Control, NEW t \in Threads, job[t] # NoJob
    PROVE  /\ KeyOf[t] \in Keys /\ job[t].bufs \in Seq(Seq(BOOLEAN))
           /\ job[t] \in [bufs : Calls, done : Nat]
           /\ job[t].done \in Nat /\ Len(job[t].bufs) \in Nat /\ job[t].done < Len(job[t].bufs)
           /\ job[t].bufs[job[t].done + 1] \in Seq(BOOLEAN)
           /\ \A i \in Nat \ {0} : FlattenSeq(SubSeq(job[t].bufs, i, Len(job[t].bufs))) \in Seq(BOOLEAN)
  <1> DEFINE bufs == job[t].bufs
  <1>1. job[t] \in [bufs : Calls, done : Nat] /\ job[t].done < Len(bufs)
    BY DEF Control, Jobs
  <1>2. KeyOf[t] \in Keys /\ bufs \in Seq(Seq(BOOLEAN)) /\ job[t].done \in Nat
    BY <1>1, SizesAssumption
  <1>3. Len(bufs) \in Nat /\ \A i \in 1..Len(bufs) : bufs[i] \in Seq(BOOLEAN)
    BY <1>2, LenProperties, ElementOfSeq
  <1>4. job[t].done + 1 \in 1..Len(bufs)
    BY <1>1, <1>2, <1>3
  <1>5. ASSUME NEW i \in Nat \ {0} PROVE FlattenSeq(SubSeq(bufs, i, Len(bufs))) \in Seq(BOOLEAN)
    <2> HIDE DEF bufs
    <2>1. \A j \in i..Len(bufs) : bufs[j] \in Seq(BOOLEAN)
      BY <1>3
    <2>2. SubSeq(bufs, i, Len(bufs)) \in Seq(Seq(BOOLEAN))
      BY <1>3, <2>1, SubSeqProperties
    <2> QED BY <2>2, FlattenTyped
  <1> QED BY <1>1, <1>2, <1>3, <1>4, <1>5
-----------------------------------------------------------------------------
(* The invariant holds initially and every step keeps it.                  *)

LEMMA InitInv == Init => IInv
  <1> SUFFICES ASSUME Init PROVE IInv
    OBVIOUS
  <1>1. TypeOK
    BY SizesAssumption DEF Init, TypeOK
  <1>2. Control /\ Phases /\ Held
    <2>1. Control
      BY DEF Init, Control, Jobs
    <2>2. Phases
      BY DEF Init, Phases
    <2>3. Held
      BY DEF Init, Held
    <2> QED BY <2>1, <2>2, <2>3
  <1>3. ASSUME NEW k \in Keys PROVE StreamInv(k)
    <2>1. said[k] = <<>> /\ missed = {} /\ lines = <<>> /\ streams[k] = <<>>
      BY DEF Init
    <2>2. Unread = <<>>
      BY DEF Init, Unread
    <2>3. Newlines(k) = {} /\ Lost(k) = {} /\ Len(said[k]) = 0 /\ ToSet(streams[k]) = {}
      BY <2>1 DEF Newlines, Lost, ToSet
    <2>4. Bytes(k, lines) = {} /\ Bytes(k, Unread) = {} /\ Ascending(k, lines) /\ Ascending(k, Unread)
      BY <2>1, <2>2, NoRecord
    <2>5. Rising(streams[k]) /\ Len(streams[k]) < MaxLine
      BY <2>1, SizesAssumption DEF Rising
    <2>6. Stands(0, {}, {}, {}, {}, {})
      BY DEF Stands, Below
    <2> QED BY <2>3, <2>4, <2>5, <2>6 DEF StreamInv
  <1>4. WholeLines
    BY DEF Init, WholeLines
  <1> QED BY <1>1, <1>2, <1>3, <1>4 DEF IInv, Streams

\* Steps of main and of the clock that leave the records and the bytes alone.
LEMMA QuietKeeps ==
    ASSUME TypeOK, Streams, UNCHANGED <<said, missed, ring, hand, events, streams, lines>>,
           idle' \subseteq Keys
    PROVE  TypeOK' /\ Streams'
  <1>1. TypeOK'
    BY DEF TypeOK
  <1>2. Unread' = Unread
    BY DEF Unread
  <1> QED BY <1>1, <1>2, SameKeeps

LEMMA CallStep ==
    ASSUME IInv, NEW t \in Threads, Call(t)
    PROVE  IInv'
  <1>1. TypeOK' /\ Streams'
    <2>1. UNCHANGED <<said, missed, ring, hand, events, streams, lines, idle>>
      BY DEF Call, kernel, reader, asm
    <2>2. idle \subseteq Keys
      BY DEF IInv, TypeOK
    <2> QED BY <2>1, <2>2, QuietKeeps DEF IInv
  <1>2. UNCHANGED <<mode, pc, healthy, attached, child, closed, hand, events, ring, streams, missed>>
    BY DEF Call, main, kernel, reader, asm
  <1>3. PICK bufs \in Calls : job' = [job EXCEPT ![t] = [bufs |-> bufs, done |-> 0]]
    BY DEF Call
  <1>4. Control'
    <2>1. bufs \in Seq(Seq(BOOLEAN)) /\ bufs # <<>>
      BY SizesAssumption
    <2>2. 0 < Len(bufs)
      BY <2>1, EmptySeq
    <2>3. [bufs |-> bufs, done |-> 0] \in Jobs
      BY <2>2 DEF Jobs
    <2> QED BY <1>2, <1>3, <2>3 DEF IInv, Control
  <1>5. Phases'
    BY <1>2 DEF IInv, Phases
  <1>6. Held'
    <2>1. mode # "target" => ~(pc \in {"load", "start"})
      BY DEF IInv, Control, Held, Call, CanWrite
    <2> QED BY <1>2, <2>1 DEF IInv, Held
  <1> QED BY <1>1, <1>4, <1>5, <1>6 DEF IInv

LEMMA CopyBufferStep ==
    ASSUME IInv, NEW t \in Threads, CopyBuffer(t)
    PROVE  IInv'
  <1> DEFINE j == job[t]
             i == j.done + 1
             last == i = Len(j.bufs) \/ i = MaxIov
             rest == IF last THEN FlattenSeq(SubSeq(j.bufs, i + 1, Len(j.bufs))) ELSE <<>>
  <1>1. /\ j # NoJob /\ Emit(KeyOf[t], j.bufs[i], rest)
        /\ job' = [job EXCEPT ![t] = IF last THEN NoJob ELSE [@ EXCEPT !.done = i]]
    BY DEF CopyBuffer
  <1>2. UNCHANGED <<mode, pc, healthy, attached, child, closed, hand, events, streams, lines, idle>>
    BY DEF CopyBuffer, main, reader, asm
  <1>3. /\ KeyOf[t] \in Keys /\ j \in [bufs : Calls, done : Nat] /\ j.done \in Nat
        /\ Len(j.bufs) \in Nat /\ j.done < Len(j.bufs) /\ j.bufs[i] \in Seq(BOOLEAN)
        /\ \A a \in Nat \ {0} : FlattenSeq(SubSeq(j.bufs, a, Len(j.bufs))) \in Seq(BOOLEAN)
    BY <1>1, JobIs DEF IInv
  <1>4. rest \in Seq(BOOLEAN)
    <2>1. i + 1 \in Nat \ {0}
      BY <1>3
    <2> HIDE DEF last, i, j
    <2>2. FlattenSeq(SubSeq(j.bufs, i + 1, Len(j.bufs))) \in Seq(BOOLEAN)
      BY <1>3, <2>1
    <2>3. <<>> \in Seq(BOOLEAN)
      BY EmptySeq
    <2> QED BY <2>2, <2>3, Zenon
  <1> HIDE DEF rest
  <1>5. /\ Streams' /\ said' \in [Keys -> Seq(BOOLEAN)]
        /\ ring' \in Seq(Records) /\ Len(ring') <= RingSize
        /\ ~attached => ring' = ring
        /\ attached => \A m \in missed' : m \in missed \/ m.why # "unseen"
    BY <1>1, <1>2, <1>3, <1>4, EmitKeeps DEF IInv
  <1>6. TypeOK'
    BY <1>2, <1>5 DEF IInv, TypeOK
  <1>7. Control'
    <2>1. NoJob \in Jobs
      BY DEF Jobs
    <2>2. ~last => [j EXCEPT !.done = i] \in Jobs
      BY <1>3 DEF Jobs
    <2>3. job' \in [Threads -> Jobs]
      BY <1>1, <2>1, <2>2 DEF IInv, Control
    <2> QED BY <1>2, <2>3 DEF IInv, Control
  <1>8. Phases'
    BY <1>2, <1>5 DEF IInv, Phases
  <1>9. Held'
    <2>1. mode # "target" => ~(pc \in {"load", "start"})
      BY <1>1 DEF IInv, Held
    <2> QED BY <1>2, <1>5, <2>1 DEF IInv, Held
  <1> QED BY <1>5, <1>6, <1>7, <1>8, <1>9 DEF IInv

LEMMA CopyFailsStep ==
    ASSUME IInv, NEW t \in Threads, CopyFails(t)
    PROVE  IInv'
  <1> DEFINE j == job[t]
             k == KeyOf[t]
             rest == FlattenSeq(SubSeq(j.bufs, j.done + 1, Len(j.bufs)))
             M == Len(said[k]) + 1..Len(said[k]) + Len(rest)
  <1>1. /\ Len(j.bufs) > 1 /\ attached /\ said' = [said EXCEPT ![k] = @ \o rest]
        /\ missed' = Miss(k, M, "unreadable") /\ job' = [job EXCEPT ![t] = NoJob]
    BY DEF CopyFails
  <1>2. UNCHANGED <<mode, pc, healthy, attached, child, closed, hand, events, ring, streams, lines, idle>>
    BY DEF CopyFails, main, reader, asm
  <1>3. j # NoJob
    BY <1>1 DEF NoJob
  <1>4. k \in Keys /\ rest \in Seq(BOOLEAN)
    <2>1. j.done + 1 \in Nat \ {0} /\ k \in Keys
      BY <1>3, JobIs DEF IInv
    <2> QED BY <1>3, <2>1, JobIs DEF IInv
  <1> HIDE DEF rest, j
  <1>5. Streams' /\ said' \in [Keys -> Seq(BOOLEAN)]
    <2>1. Unread' = Unread \o <<>>
      <3>1. Unread' = Unread
        BY <1>2 DEF Unread
      <3>2. Unread \in Seq(Records)
        BY Typed DEF IInv
      <3> QED BY <3>1, <3>2, ConcatEmptySeq
    <2>2. <<>> \in Seq(Records) /\ \A a \in Keys : Bytes(a, <<>>) = {} /\ Ascending(a, <<>>)
      BY NoRecord
    <2>3. Bytes(k, <<>>) = (Len(said[k]) + 1..Len(said[k]) + Len(rest)) \ M
      BY <1>4, <2>2
    <2>4. M \subseteq Len(said[k]) + 1..Len(said[k]) + Len(rest)
      OBVIOUS
    <2> HIDE DEF M, k
    <2> QED BY <1>1, <1>2, <1>4, <2>1, <2>2, <2>3, <2>4, WriteKeeps DEF IInv
  <1>6. TypeOK'
    BY <1>2, <1>5 DEF IInv, TypeOK
  <1>7. Control'
    <2>1. NoJob \in Jobs
      BY DEF Jobs
    <2> QED BY <1>1, <1>2, <2>1 DEF IInv, Control
  <1>8. Phases'
    BY <1>2 DEF IInv, Phases
  <1>9. Held'
    <2>1. mode # "target" => ~(pc \in {"load", "start"})
      BY <1>3 DEF IInv, Held, j
    <2>2. \A m \in missed' : m \in missed \/ m.why = "unreadable"
      BY <1>1, MissWhy
    <2> QED BY <1>1, <1>2, <2>1, <2>2 DEF IInv, Held
  <1> QED BY <1>5, <1>6, <1>7, <1>8, <1>9 DEF IInv
LEMMA ReadStep ==
    ASSUME IInv, Read
    PROVE  IInv'
  <1>1. /\ pc \in {"run", "close"} /\ hand = <<>> /\ ring # <<>>
        /\ hand' = <<Head(ring)>> /\ ring' = Tail(ring)
    BY DEF Read
  <1>2. UNCHANGED <<mode, pc, healthy, attached, child, said, missed, job, events, closed, streams, idle, lines>>
    BY DEF Read, main, apps, asm
  <1>3. events \in Seq(Records) /\ ring \in Seq(Records)
    BY Typed DEF IInv
  <1>4. Head(ring) \in Records /\ Tail(ring) \in Seq(Records) /\ ring = <<Head(ring)>> \o Tail(ring)
    BY <1>1, <1>3, OffHead
  <1>5. Unread' = Unread
    <2> DEFINE h == <<Head(ring)>>
               q == Tail(ring)
    <2>1. h \in Seq(Records) /\ q \in Seq(Records) /\ ring = h \o q /\ hand' = h /\ ring' = q
      BY <1>1, <1>4
    <2> HIDE DEF h, q
    <2>2. (events \o h) \o q = events \o (h \o q)
      BY <1>3, <2>1, ConcatAssociative, SMTT(30)
    <2>3. events \o <<>> = events
      BY <1>3, ConcatEmptySeq
    <2> QED BY <1>1, <1>2, <2>1, <2>2, <2>3 DEF Unread
  <1>6. TypeOK'
    <2>1. hand' \in Seq(Records) /\ Len(hand') = 1
      BY <1>1, <1>4
    <2>2. ring' \in Seq(Records) /\ Len(ring') = Len(ring) - 1 /\ Len(ring) \in Nat /\ Len(ring) <= RingSize
      BY <1>1, <1>3, HeadTailProperties, LenProperties DEF IInv, TypeOK
    <2>3. Len(ring') <= RingSize
      BY <2>2, SizesAssumption
    <2> QED BY <1>2, <2>1, <2>2, <2>3 DEF IInv, TypeOK
  <1>7. Streams'
    BY <1>2, <1>5, SameKeeps DEF IInv
  <1>8. Control'
    BY <1>2 DEF IInv, Control
  <1>9. Phases'
    <2>1. attached /\ ~closed
      BY <1>1 DEF IInv, Phases, Control
    <2> QED BY <1>1, <1>2, <2>1 DEF Phases
  <1>10. Held'
    BY <1>2 DEF IInv, Held
  <1> QED BY <1>6, <1>7, <1>8, <1>9, <1>10 DEF IInv

LEMMA SendStep ==
    ASSUME IInv, Send
    PROVE  IInv'
  <1>1. hand # <<>> /\ Len(events) < ChanSize /\ events' = events \o hand /\ hand' = <<>>
    BY DEF Send
  <1>2. UNCHANGED <<mode, pc, healthy, attached, child, said, missed, ring, job, closed, streams, idle, lines>>
    BY DEF Send, main, kernel, apps, asm
  <1>3. events \in Seq(Records) /\ hand \in Seq(Records) /\ events \o hand \in Seq(Records)
    BY Typed DEF IInv
  <1>4. Unread' = Unread
    <2> DEFINE eh == events \o hand
    <2>1. eh \in Seq(Records) /\ events' = eh
      BY <1>1, <1>3
    <2>2. Unread = eh \o ring /\ Unread' = (events' \o hand') \o ring'
      BY DEF Unread
    <2> HIDE DEF eh
    <2>3. eh \o <<>> = eh
      BY <2>1, ConcatEmptySeq
    <2> QED BY <1>1, <1>2, <2>1, <2>2, <2>3
  <1>5. TypeOK'
    <2>1. /\ Len(events') = Len(events) + Len(hand) /\ Len(events) \in Nat /\ Len(hand) \in Nat /\ Len(hand) <= 1
          /\ events' \in Seq(Records)
      BY <1>1, <1>3, Joined DEF IInv, TypeOK
    <2>2. Len(events') <= ChanSize
      BY <1>1, <2>1, SizesAssumption
    <2>3. hand' \in Seq(Records) /\ Len(hand') <= 1
      BY <1>1, EmptySeq
    <2> QED BY <1>2, <2>1, <2>2, <2>3 DEF IInv, TypeOK
  <1>6. Streams'
    BY <1>2, <1>4, SameKeeps DEF IInv
  <1>7. Control'
    BY <1>2 DEF IInv, Control
  <1>8. Phases'
    BY <1>1, <1>2 DEF IInv, Phases
  <1>9. Held'
    BY <1>2 DEF IInv, Held
  <1> QED BY <1>5, <1>6, <1>7, <1>8, <1>9 DEF IInv

\* The loop of main and the drain take a record from the channel.
LEMMA EventStep ==
    ASSUME IInv, LoopEvent \/ DrainEvent
    PROVE  IInv'
  <1> DEFINE r == Head(events)
             u == (Tail(events) \o hand) \o ring
  <1>1. /\ pc \in {"run", "drain"} /\ events # <<>> /\ Push(r.key, r.data) /\ events' = Tail(events)
    BY DEF LoopEvent, DrainEvent
  <1>2. UNCHANGED <<mode, pc, healthy, attached, child, said, missed, ring, job, hand, closed>>
    BY DEF LoopEvent, DrainEvent, main, kernel, apps
  <1>3. events \in Seq(Records) /\ hand \in Seq(Records) /\ ring \in Seq(Records)
    BY Typed DEF IInv
  <1>4. r \in Records /\ Tail(events) \in Seq(Records) /\ events = <<r>> \o Tail(events)
    BY <1>1, <1>3, OffHead
  <1>5. u \in Seq(Records) /\ Unread = <<r>> \o u
    <2> DEFINE h == <<r>>
               q == Tail(events)
    <2>1. h \in Seq(Records) /\ q \in Seq(Records) /\ events = h \o q
      BY <1>4
    <2> HIDE DEF h, q
    <2>2. (h \o q) \o hand = h \o (q \o hand) /\ q \o hand \in Seq(Records)
      BY <1>3, <2>1, ConcatAssociative, ConcatProperties, SMTT(30)
    <2> DEFINE p == q \o hand
    <2> HIDE DEF p
    <2>3. p \in Seq(Records)
      BY <2>2 DEF p
    <2>4. (h \o p) \o ring = h \o (p \o ring) /\ p \o ring \in Seq(Records)
      BY <1>3, <2>1, <2>3, ConcatAssociative, ConcatProperties, SMTT(30)
    <2>5. Unread = (h \o p) \o ring
      BY <2>1, <2>2 DEF Unread, p
    <2> QED BY <2>4, <2>5 DEF p, q, h
  <1>6. Unread' = u
    BY <1>1, <1>2 DEF Unread
  <1>7. /\ Streams' /\ lines' \in Seq(Lines) /\ streams' \in [Keys -> Seq(Pos)] /\ idle' \subseteq Keys
    <2>1. UNCHANGED <<said, missed>>
      BY <1>2
    <2> HIDE DEF r, u
    <2> QED BY <1>1, <1>4, <1>5, <1>6, <2>1, PushKeeps DEF IInv
  <1>8. TypeOK'
    <2>1. events' \in Seq(Records) /\ Len(events') = Len(events) - 1 /\ Len(events) \in Nat /\ Len(events) <= ChanSize
      BY <1>1, <1>3, HeadTailProperties, LenProperties DEF IInv, TypeOK
    <2>2. Len(events') <= ChanSize
      BY <2>1, SizesAssumption
    <2> QED BY <1>2, <1>7, <2>1, <2>2 DEF IInv, TypeOK, Lines, Pos
  <1>9. Control'
    BY <1>2 DEF IInv, Control
  <1>10. Phases'
    BY <1>1, <1>2 DEF IInv, Phases
  <1>11. Held'
    BY <1>2 DEF IInv, Held
  <1> QED BY <1>7, <1>8, <1>9, <1>10, <1>11 DEF IInv

LEMMA LoopFlushStep ==
    ASSUME IInv, LoopFlush
    PROVE  IInv'
  <1>1. pc = "run" /\ FlushIdle(idle)
    BY DEF LoopFlush
  <1>2. UNCHANGED <<mode, pc, healthy, attached, child, said, missed, ring, job, hand, events, closed>>
    BY DEF LoopFlush, main, kernel, apps, reader
  <1>3. Unread' = Unread /\ idle \subseteq Keys
    BY <1>2 DEF Unread, IInv, TypeOK
  <1>4. Streams' /\ lines' \in Seq(Lines) /\ streams' \in [Keys -> Seq(Pos)] /\ idle' \subseteq Keys
    BY <1>1, <1>2, <1>3, FlushKeeps DEF IInv
  <1>5. TypeOK'
    BY <1>2, <1>4 DEF IInv, TypeOK, Lines, Pos
  <1>6. Control' /\ Phases' /\ Held'
    BY <1>1, <1>2 DEF IInv, Control, Phases, Held
  <1> QED BY <1>4, <1>5, <1>6 DEF IInv

LEMMA FinalFlushStep ==
    ASSUME IInv, FinalFlush
    PROVE  IInv'
  <1>1. pc = "drain" /\ closed /\ events = <<>> /\ FlushIdle(Keys) /\ pc' = "ended"
    BY DEF FinalFlush
  <1>2. UNCHANGED <<mode, attached, child, said, missed, ring, job, hand, events, closed>>
    BY DEF FinalFlush, kernel, apps, reader
  <1>3. Unread' = Unread
    BY <1>2 DEF Unread
  <1>4. /\ Streams' /\ lines' \in Seq(Lines) /\ streams' \in [Keys -> Seq(Pos)] /\ idle' \subseteq Keys
        /\ \A k \in Keys : streams'[k] = <<>>
    BY <1>1, <1>2, <1>3, FlushKeeps DEF IInv
  <1>5. TypeOK'
    BY <1>2, <1>4 DEF IInv, TypeOK, Lines, Pos
  <1>6. Control'
    BY <1>1, <1>2 DEF IInv, Control
  <1>7. Phases'
    BY <1>1, <1>2, <1>4 DEF IInv, Phases
  <1>8. Held'
    BY <1>1, <1>2 DEF IInv, Held
  <1> QED BY <1>4, <1>5, <1>6, <1>7, <1>8 DEF IInv

LEMMA CloseStep ==
    ASSUME IInv, Close
    PROVE  IInv'
  <1>1. /\ pc = "close" /\ attached' = FALSE /\ ring' = <<>> /\ pc' = "drain"
        /\ missed' = missed \cup UNION {[key : {r.key}, at : ToSet(r.data), why : {"closing"}] :
                                         r \in ToSet(ring)}
    BY DEF Close
  <1>2. UNCHANGED <<mode, healthy, child, said, job, hand, events, closed, streams, idle, lines>>
    BY DEF Close, apps, reader, asm
  <1>3. Unread' = events \o hand
    <2> DEFINE eh == events \o hand
    <2>1. eh \in Seq(Records)
      BY Typed DEF IInv
    <2>2. Unread' = eh \o <<>>
      BY <1>1, <1>2 DEF Unread
    <2> HIDE DEF eh
    <2>3. eh \o <<>> = eh
      BY <2>1, ConcatEmptySeq
    <2> QED BY <2>2, <2>3 DEF eh
  <1>4. Streams'
    BY <1>1, <1>2, <1>3, CloseKeeps DEF IInv
  <1>5. TypeOK'
    <2>1. ring' \in Seq(Records) /\ Len(ring') <= RingSize
      BY <1>1, SizesAssumption
    <2> QED BY <1>2, <2>1 DEF IInv, TypeOK
  <1>6. Control'
    BY <1>1, <1>2 DEF IInv, Control
  <1>7. Phases'
    BY <1>1, <1>2 DEF IInv, Phases
  <1>8. Held'
    BY <1>1, <1>2 DEF IInv, Held
  <1> QED BY <1>4, <1>5, <1>6, <1>7, <1>8 DEF IInv

\* The steps of main, the command, the reader's end and the timer.
LEMMA MainStep ==
    ASSUME IInv,
           \/ ChildExits \/ ChildStops \/ Signal \/ ReaderEnds \/ Tick \/ LoopDone \/ Load \/ Start
           \/ OpenEnds \/ \E k \in Keys : Age(k)
    PROVE  IInv'
  <1>1. UNCHANGED <<mode, said, missed, ring, job, hand, events, streams, lines>>
    BY DEF ChildExits, ChildStops, Signal, ReaderEnds, Tick, LoopDone, Load, Start, OpenEnds, Age,
           main, kernel, apps, reader, asm
  <1>2. idle' \subseteq Keys
    BY DEF IInv, TypeOK, ChildExits, ChildStops, Signal, ReaderEnds, Tick, LoopDone, Load, Start, OpenEnds, Age, asm
  <1>3. TypeOK' /\ Streams'
    BY <1>1, <1>2, QuietKeeps DEF IInv
  <1>4. CASE ChildExits \/ ChildStops \/ Signal \/ Tick \/ \E k \in Keys : Age(k)
    <2>1. UNCHANGED <<pc, healthy, attached, closed>> /\ (child' = child \/ child = "runs")
      BY <1>4 DEF ChildExits, ChildStops, Signal, Tick, Age, main, reader
    <2>2. Control' /\ Phases'
      BY <1>1, <2>1 DEF IInv, Control, Phases
    <2>3. Held'
      BY <1>1, <2>1 DEF IInv, Held
    <2> QED BY <1>3, <2>2, <2>3 DEF IInv
  <1>5. CASE ReaderEnds
    <2>1. UNCHANGED <<pc, healthy, attached, child>> /\ pc = "drain" /\ hand = <<>> /\ closed' = TRUE
      BY <1>5 DEF ReaderEnds, main
    <2>2. Control' /\ Phases' /\ Held'
      BY <1>1, <2>1 DEF IInv, Control, Phases, Held
    <2> QED BY <1>3, <2>2 DEF IInv
  <1>6. CASE LoopDone
    <2>1. UNCHANGED <<healthy, attached, child, closed>> /\ pc = "run" /\ pc' = "close"
      BY <1>6 DEF LoopDone, reader
    <2>2. Control' /\ Phases' /\ Held'
      BY <1>1, <2>1 DEF IInv, Control, Phases, Held
    <2> QED BY <1>3, <2>2 DEF IInv
  <1>7. CASE Load
    <2>1. /\ pc = "load" /\ UNCHANGED <<child, closed>> /\ healthy' = (pc' = "open")
          /\ \/ attached' = TRUE /\ pc' = "start"
             \/ attached' = FALSE /\ pc' \in {"open", "fatal"}
      BY <1>7 DEF Load, reader
    <2>2. Control' /\ Phases' /\ Held'
      BY <1>1, <2>1 DEF IInv, Control, Phases, Held
    <2> QED BY <1>3, <2>2 DEF IInv
  <1>8. CASE Start
    <2>1. pc = "start" /\ pc' = "run" /\ UNCHANGED <<attached, closed>>
      BY <1>8 DEF Start, reader
    <2>2. Control' /\ Phases' /\ Held'
      BY <1>1, <2>1 DEF IInv, Control, Phases, Held
    <2> QED BY <1>3, <2>2 DEF IInv
  <1>9. CASE OpenEnds
    <2>1. pc = "open" /\ pc' = "ended" /\ UNCHANGED <<attached, child, closed>>
      BY <1>9 DEF OpenEnds, reader
    <2>2. Control' /\ Phases' /\ Held'
      BY <1>1, <2>1 DEF IInv, Control, Phases, Held
    <2> QED BY <1>3, <2>2 DEF IInv
  <1> QED BY <1>4, <1>5, <1>6, <1>7, <1>8, <1>9

LEMMA StepInv == IInv /\ [Next]_vars => IInv'
  <1> SUFFICES ASSUME IInv, [Next]_vars PROVE IInv'
    OBVIOUS
  <1>1. CASE \E t \in Threads : Call(t) \/ CopyBuffer(t) \/ CopyFails(t)
    BY <1>1, CallStep, CopyBufferStep, CopyFailsStep
  <1>2. CASE Read \/ Send
    BY <1>2, ReadStep, SendStep
  <1>3. CASE LoopEvent \/ DrainEvent \/ LoopFlush \/ FinalFlush \/ Close
    BY <1>3, EventStep, LoopFlushStep, FinalFlushStep, CloseStep
  <1>4. CASE \/ ChildExits \/ ChildStops \/ Signal \/ ReaderEnds \/ Tick \/ LoopDone \/ Load \/ Start
             \/ OpenEnds \/ \E k \in Keys : Age(k)
    BY <1>4, MainStep
  <1>5. CASE UNCHANGED vars
    <2>1. UNCHANGED <<mode, pc, healthy, attached, child, job, said, missed, ring, hand, events, closed,
                      streams, idle, lines>>
      BY <1>5 DEF vars, main, kernel, apps, reader, asm
    <2>2. TypeOK' /\ Streams'
      <3>1. idle \subseteq Keys
        BY DEF IInv, TypeOK
      <3> QED BY <2>1, <3>1, QuietKeeps DEF IInv
    <2>3. Control' /\ Phases' /\ Held'
      BY <2>1 DEF IInv, Control, Phases, Held
    <2> QED BY <2>2, <2>3 DEF IInv
  <1> QED BY <1>1, <1>2, <1>3, <1>4, <1>5 DEF Next
-----------------------------------------------------------------------------
(* The properties.                                                         *)

LEMMA InLost == \A k, i : Missing(k, i) <=> i \in Lost(k)
  BY DEF Missing, Lost

LEMMA TakenIs ==
    ASSUME NEW k
    PROVE  Taken(k) = (1..Len(said[k])) \ (Newlines(k) \cup Lost(k))
  BY InLost DEF Taken, Newlines

LEMMA OnceInOrder ==
    ASSUME IInv, NEW k \in Keys
    PROVE  Ascending(k, Places(k)) /\ {i \in Bytes(k, Places(k)) : ~said[k][i]} = Taken(k)
  <1> DEFINE S == Lines \cup Records
             p == <<[key |-> k, data |-> streams[k]]>>
             L == Bytes(k, lines)
             P == ToSet(streams[k])
             U == Bytes(k, Unread)
  <1>1. lines \in Seq(Lines) /\ Unread \in Seq(Records) /\ streams[k] \in Seq(Pos)
    BY Typed DEF IInv
  <1>2. lines \in Seq(S) /\ Unread \in Seq(S) /\ p \in Seq(S)
    <2>1. [key |-> k, data |-> streams[k]] \in S
      BY <1>1 DEF Lines
    <2>2. Lines \subseteq S /\ Records \subseteq S
      OBVIOUS
    <2> HIDE DEF S
    <2> QED BY <1>1, <2>1, <2>2
  <1>3. Bytes(k, p) = P /\ (Ascending(k, p) <=> Rising(streams[k]))
    <2> DEFINE r == [key |-> k, data |-> streams[k]]
    <2>1. r.key = k /\ r.data = streams[k]
      OBVIOUS
    <2> HIDE DEF r
    <2>2. Bytes(k, <<r>>) = P /\ (Ascending(k, <<r>>) <=> Rising(streams[k]))
      BY <2>1, OneRecord
    <2> QED BY <2>2 DEF r
  <1>4. /\ StreamInv(k)
        /\ Stands(Len(said[k]), Newlines(k), Lost(k), L, P, U)
    BY DEF IInv, Streams, StreamInv
  <1> DEFINE q == lines \o p
  <1>5. Places(k) = q \o Unread
    BY DEF Places
  <1> HIDE DEF S, p
  <1>6. q \in Seq(S) /\ Bytes(k, q) = L \cup P /\ Ascending(k, q)
    <2>1. q \in Seq(S) /\ Bytes(k, q) = L \cup Bytes(k, p)
      BY <1>2, BytesConcat, ConcatProperties
    <2>2. Below(L, Bytes(k, p))
      BY <1>3, <1>4 DEF Stands
    <2>3. Ascending(k, q)
      BY <1>2, <1>3, <1>4, <2>2, AscendingConcat DEF StreamInv
    <2> QED BY <1>3, <2>1, <2>3
  <1> HIDE DEF q
  <1>7. Bytes(k, Places(k)) = L \cup P \cup U
    BY <1>2, <1>5, <1>6, BytesConcat
  <1>8. Ascending(k, Places(k))
    <2>1. Below(L \cup P, U)
      BY <1>4 DEF Stands, Below
    <2>2. Ascending(k, Unread)
      BY <1>4 DEF StreamInv
    <2>3. Below(Bytes(k, q), Bytes(k, Unread))
      BY <1>6, <2>1
    <2>4. Ascending(k, q \o Unread)
      BY <1>2, <1>6, <2>2, <2>3, AscendingConcat
    <2> QED BY <1>5, <2>4
  <1>9. \A i \in L \cup P \cup U : i \in 1..Len(said[k]) /\ i \notin Lost(k)
    BY <1>4 DEF Stands
  <1>10. \A i \in 1..Len(said[k]) : i \in Newlines(k) <=> said[k][i]
    BY DEF Newlines
  <1>11. \A i \in Taken(k) : i \in L \cup P \cup U /\ ~said[k][i]
    BY <1>4, <1>10, TakenIs DEF Stands
  <1>12. \A i \in L \cup P \cup U : ~said[k][i] => i \in Taken(k)
    BY <1>9, <1>10, TakenIs
  <1> HIDE DEF L, P, U
  <1> QED BY <1>7, <1>8, <1>11, <1>12

LEMMA NoLineOver ==
    ASSUME IInv, NEW l \in ToSet(lines), l.data # <<>>, NEW i \in Head(l.data)..Last(l.data),
           said[l.key][i]
    PROVE  Missing(l.key, i)
  <1>1. PICK j \in DOMAIN lines : l = lines[j]
    BY DEF ToSet
  <1>2. l.data \in Seq(Pos)
    <2>1. lines \in Seq(Lines) /\ j \in 1..Len(lines)
      BY Typed, LenProperties DEF IInv
    <2>2. l \in Lines
      BY <1>1, <2>1, ElementOfSeq
    <2> QED BY <2>2 DEF Lines
  <1>3. Head(l.data) \in ToSet(l.data) /\ Last(l.data) \in ToSet(l.data)
    <2>1. Len(l.data) \in Nat \ {0} /\ DOMAIN l.data = 1..Len(l.data)
      BY <1>2, EmptySeq, LenProperties
    <2>2. 1 \in DOMAIN l.data /\ Len(l.data) \in DOMAIN l.data
      BY <2>1
    <2>3. Head(l.data) = l.data[1] /\ Last(l.data) = l.data[Len(l.data)]
      BY <1>2 DEF Last
    <2> QED BY <2>2, <2>3 DEF ToSet
  <1>4. ToSet(l.data) \subseteq 1..Len(said[l.key]) /\ l.key \in Keys
    BY <1>1, LineBytes DEF IInv, Streams
  <1>5. i \in 1..Len(said[l.key])
    <2>1. Head(l.data) \in 1..Len(said[l.key]) /\ Last(l.data) \in 1..Len(said[l.key]) /\ Len(said[l.key]) \in Nat
      BY <1>3, <1>4, Typed DEF IInv
    <2> QED BY <2>1
  <1>6. i \in Newlines(l.key)
    BY <1>5 DEF Newlines
  <1>7. Whole(Newlines(l.key), Lost(l.key), ToSet(l.data))
    BY <1>1 DEF IInv, Streams, WholeLines
  <1>8. i \in Lost(l.key)
    BY <1>3, <1>6, <1>7 DEF Whole
  <1> QED BY <1>8, InLost

\* The inductive invariant holds throughout.
THEOREM Invariant == Spec => []IInv
  BY InitInv, StepInv, PTL DEF Spec

\* Every byte the kernel took over is in one place and in order, no counted
\* line runs over a newline it took over, and pending bytes stay under the
\* line limit (stream.go Push and FlushIdle, the loop and the drain of main).
THEOREM BytesOnceInOrderHolds == Spec => []BytesOnceInOrder
  <1>1. IInv => BytesOnceInOrder
    <2> SUFFICES ASSUME IInv PROVE BytesOnceInOrder
      OBVIOUS
    <2>1. TypeOK /\ \A k \in Keys : Len(streams[k]) < MaxLine
      BY DEF IInv, Streams, StreamInv
    <2>2. \A k \in Keys : Ascending(k, Places(k)) /\ {i \in Bytes(k, Places(k)) : ~said[k][i]} = Taken(k)
      BY OnceInOrder
    <2>3. \A l \in ToSet(lines) : l.data # <<>> =>
             \A i \in Head(l.data)..Last(l.data) : said[l.key][i] => Missing(l.key, i)
      BY NoLineOver
    <2> QED BY <2>1, <2>2, <2>3 DEF BytesOnceInOrder
  <1> QED BY <1>1, Invariant, PTL

\* A watched pod or command is seen from its first write on (main.go: Load, the
\* server, PtraceDetach).
THEOREM FromFirstWriteHolds == Spec => []FromFirstWrite
  <1>1. IInv => FromFirstWrite
    BY DEF IInv, Held, FromFirstWrite
  <1> QED BY <1>1, Invariant, PTL

\* An agent that has ended counted every record it had read (main.go, the
\* drain).
THEOREM AllReadCountedHolds == Spec => []AllReadCounted
  <1>1. IInv => AllReadCounted
    <2> SUFFICES ASSUME IInv, pc = "ended"
                 PROVE  hand = <<>> /\ events = <<>> /\ \A k \in Keys : Bytes(k, lines) = Taken(k)
      BY DEF AllReadCounted
    <2>1. hand = <<>> /\ events = <<>> /\ ring = <<>> /\ \A k \in Keys : streams[k] = <<>>
      BY DEF IInv, Phases
    <2>2. Unread = <<>>
      <3>1. <<>> \o <<>> = <<>>
        BY EmptySeq, ConcatEmptySeq
      <3> QED BY <2>1, <3>1 DEF Unread
    <2>3. ASSUME NEW k \in Keys PROVE Bytes(k, lines) = Taken(k)
      <3>1. Bytes(k, Unread) = {} /\ ToSet(streams[k]) = {}
        BY <2>1, <2>2, NoRecord DEF ToSet
      <3>2. Stands(Len(said[k]), Newlines(k), Lost(k), Bytes(k, lines), {}, {})
        BY <3>1 DEF IInv, Streams, StreamInv
      <3>3. Taken(k) = (1..Len(said[k])) \ (Newlines(k) \cup Lost(k))
        BY TakenIs
      <3> QED BY <3>2, <3>3 DEF Stands
    <2> QED BY <2>1, <2>3
  <1> QED BY <1>1, Invariant, PTL
=============================================================================
