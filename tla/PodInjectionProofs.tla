-------------------------- MODULE PodInjectionProofs --------------------------
(***************************************************************************)
(* What the webhook makes of a pod, and why no interleaving of the policy, *)
(* the ConfigMap, the webhook and the kubelet spoils it, for any pods,     *)
(* policies and templates.                                                 *)
(***************************************************************************)
EXTENDS PodInjection, SequenceTheorems, TLAPS

(* Facts about sequences and containers.                                   *)

\* The members of a list with one more at the end.
LEMMA AppendMembers ==
    ASSUME NEW S, NEW s \in Seq(S), NEW e \in S
    PROVE  /\ Append(s, e) \in Seq(S)
           /\ ToSet(Append(s, e)) = ToSet(s) \cup {e}
  <1> DEFINE t == Append(s, e)
  <1>1. t \in Seq(S) /\ Len(t) = Len(s) + 1 /\ DOMAIN t = 1 .. Len(s) + 1
    BY AppendProperties
  <1>2. t[Len(s) + 1] = e /\ \A i \in 1 .. Len(s) : t[i] = s[i]
    BY AppendProperties
  <1>3. Len(s) \in Nat /\ DOMAIN s = 1 .. Len(s)
    BY LenProperties
  <1> HIDE DEF t
  <1>4. \A i \in 1 .. Len(s) + 1 : i \in 1 .. Len(s) \/ i = Len(s) + 1
    BY <1>3
  <1>5. ToSet(t) = ToSet(s) \cup {e}
    BY <1>1, <1>2, <1>3, <1>4 DEF ToSet
  <1> QED BY <1>1, <1>5 DEF t

\* The members of two lists one after the other.
LEMMA ConcatMembers ==
    ASSUME NEW S, NEW s \in Seq(S), NEW t \in Seq(S)
    PROVE  /\ s \o t \in Seq(S)
           /\ Len(s \o t) = Len(s) + Len(t)
           /\ \A i \in 1 .. Len(s) + Len(t) :
                 (s \o t)[i] = IF i <= Len(s) THEN s[i] ELSE t[i - Len(s)]
           /\ ToSet(s \o t) = ToSet(s) \cup ToSet(t)
  <1> DEFINE u == s \o t
  <1>1. u \in Seq(S) /\ Len(u) = Len(s) + Len(t)
    BY ConcatProperties
  <1>2. \A i \in 1 .. Len(s) + Len(t) : u[i] = IF i <= Len(s) THEN s[i] ELSE t[i - Len(s)]
    BY ConcatProperties
  <1>3. /\ Len(s) \in Nat /\ Len(t) \in Nat
        /\ DOMAIN s = 1 .. Len(s) /\ DOMAIN t = 1 .. Len(t) /\ DOMAIN u = 1 .. Len(s) + Len(t)
    BY <1>1, LenProperties
  <1> HIDE DEF u
  <1>4. ASSUME NEW x \in ToSet(u) PROVE x \in ToSet(s) \cup ToSet(t)
    <2>1. PICK i \in 1 .. Len(s) + Len(t) : x = u[i]
      BY <1>3 DEF ToSet
    <2>2. CASE i <= Len(s)
      <3>1. i \in DOMAIN s /\ x = s[i]
        BY <1>2, <1>3, <2>1, <2>2
      <3> QED BY <3>1 DEF ToSet
    <2>3. CASE i > Len(s)
      <3>1. i - Len(s) \in DOMAIN t /\ x = t[i - Len(s)]
        BY <1>2, <1>3, <2>1, <2>3
      <3> QED BY <3>1 DEF ToSet
    <2> QED BY <1>3, <2>1, <2>2, <2>3
  <1>5. ASSUME NEW x \in ToSet(s) PROVE x \in ToSet(u)
    <2>1. PICK i \in 1 .. Len(s) : x = s[i]
      BY <1>3 DEF ToSet
    <2>2. i \in DOMAIN u /\ x = u[i]
      BY <1>2, <1>3, <2>1
    <2> QED BY <2>2 DEF ToSet
  <1>6. ASSUME NEW x \in ToSet(t) PROVE x \in ToSet(u)
    <2>1. PICK i \in 1 .. Len(t) : x = t[i]
      BY <1>3 DEF ToSet
    <2> DEFINE k == i + Len(s)
    <2>2. k \in 1 .. Len(s) + Len(t) /\ ~(k <= Len(s)) /\ k - Len(s) = i
      BY <1>3
    <2> HIDE DEF k
    <2>3. u[k] = t[i]
      BY <1>2, <2>2
    <2>4. k \in DOMAIN u /\ x = u[k]
      BY <1>3, <2>1, <2>2, <2>3
    <2> QED BY <2>4 DEF ToSet
  <1>7. ToSet(u) = ToSet(s) \cup ToSet(t)
    BY <1>4, <1>5, <1>6
  <1> QED BY <1>1, <1>2, <1>7 DEF u

\* Three new volumes of different names leave the names distinct.
LEMMA VolumesAdded ==
    ASSUME NEW S, NEW s \in Seq(S), IsInjective(s),
           NEW a \in S, NEW b \in S, NEW c \in S,
           a # b, a # c, b # c, {a, b, c} \cap ToSet(s) = {}
    PROVE  /\ s \o <<a, b, c>> \in Seq(S)
           /\ IsInjective(s \o <<a, b, c>>)
           /\ ToSet(s \o <<a, b, c>>) = ToSet(s) \cup {a, b, c}
  <1> DEFINE t == <<a, b, c>>
             u == s \o t
  <1>1. t \in Seq(S) /\ Len(t) = 3
    OBVIOUS
  <1>0. t[1] = a /\ t[2] = b /\ t[3] = c
    OBVIOUS
  <1>2. DOMAIN t = {1, 2, 3}
    BY <1>1
  <1>3. ToSet(t) = {a, b, c}
    BY <1>1, <1>2 DEF ToSet
  <1> HIDE DEF t
  <1>4. /\ u \in Seq(S) /\ Len(u) = Len(s) + 3
        /\ \A i \in 1 .. Len(s) + 3 : u[i] = IF i <= Len(s) THEN s[i] ELSE t[i - Len(s)]
        /\ ToSet(u) = ToSet(s) \cup ToSet(t)
    <2>1. /\ u \in Seq(S) /\ Len(u) = Len(s) + Len(t)
          /\ \A i \in 1 .. Len(s) + Len(t) : u[i] = IF i <= Len(s) THEN s[i] ELSE t[i - Len(s)]
          /\ ToSet(u) = ToSet(s) \cup ToSet(t)
      <3>1. t \in Seq(S)
        BY <1>1
      <3>2. /\ s \o t \in Seq(S)
            /\ Len(s \o t) = Len(s) + Len(t)
            /\ \A i \in 1 .. Len(s) + Len(t) :
                  (s \o t)[i] = IF i <= Len(s) THEN s[i] ELSE t[i - Len(s)]
            /\ ToSet(s \o t) = ToSet(s) \cup ToSet(t)
        BY <3>1, ConcatMembers
      <3> QED BY <3>2 DEF u
    <2> HIDE DEF u
    <2> QED BY <1>1, <2>1
  <1> HIDE DEF u
  <1>5. DOMAIN u = 1 .. Len(s) + 3 /\ DOMAIN s = 1 .. Len(s) /\ Len(s) \in Nat
    BY <1>4, LenProperties
  <1>6. \A i \in 1 .. Len(s) : s[i] \in ToSet(s)
    BY <1>5 DEF ToSet
  <1>7. ASSUME NEW i \in 1 .. Len(s) + 3, NEW j \in 1 .. Len(s) + 3, u[i] = u[j]
        PROVE  i = j
    <2>1. /\ i <= Len(s) \/ i - Len(s) \in {1, 2, 3}
          /\ j <= Len(s) \/ j - Len(s) \in {1, 2, 3}
      BY <1>5
    <2>2. CASE i <= Len(s) /\ j <= Len(s)
      BY <1>4, <1>5, <1>7, <2>2 DEF IsInjective
    <2>3. CASE i <= Len(s) /\ j > Len(s)
      <3>1. u[i] \in ToSet(s)
        BY <1>4, <1>5, <1>6, <2>3
      <3>2. u[j] \in {a, b, c}
        BY <1>0, <1>4, <1>5, <2>1, <2>3
      <3> QED BY <1>7, <3>1, <3>2
    <2>4. CASE i > Len(s) /\ j <= Len(s)
      <3>1. u[j] \in ToSet(s)
        BY <1>4, <1>5, <1>6, <2>4
      <3>2. u[i] \in {a, b, c}
        BY <1>0, <1>4, <1>5, <2>1, <2>4
      <3> QED BY <1>7, <3>1, <3>2
    <2>5. CASE i > Len(s) /\ j > Len(s)
      <3>1. t[i - Len(s)] = t[j - Len(s)]
        BY <1>4, <1>5, <1>7, <2>5
      <3>2. i - Len(s) = j - Len(s)
        BY <1>0, <1>5, <2>1, <2>5, <3>1
      <3> QED BY <1>5, <3>2
    <2> QED BY <1>5, <2>2, <2>3, <2>4, <2>5
  <1>8. IsInjective(u)
    BY <1>5, <1>7 DEF IsInjective
  <1> QED BY <1>3, <1>4, <1>8 DEF u, t

------------------------------------------------------------------------------
(* A pod with one more container.                                          *)

\* The number of a pod's containers.
Size(pod) == Len(pod.inits) + Len(pod.containers)

LEMMA PodFields ==
    ASSUME NEW pod \in PodType
    PROVE  /\ pod.inject \in BOOLEAN /\ pod.target \in {None} \cup Text
           /\ pod.containers \in Seq(ContainerType) /\ pod.inits \in Seq(ContainerType)
           /\ pod.volumes \in Seq(Text) /\ pod.sharedPids \in BOOLEAN
           /\ Len(pod.inits) \in Nat /\ Len(pod.containers) \in Nat
  <1>1. /\ pod.inject \in BOOLEAN /\ pod.target \in {None} \cup Text
        /\ pod.containers \in Seq(ContainerType) /\ pod.inits \in Seq(ContainerType)
        /\ pod.volumes \in Seq(Text) /\ pod.sharedPids \in BOOLEAN
    BY DEF PodType
  <1> QED BY <1>1, LenProperties

LEMMA AllMembers ==
    ASSUME NEW pod \in PodType
    PROVE  /\ AllContainers(pod) \in Seq(ContainerType)
           /\ DOMAIN AllContainers(pod) = 1 .. Size(pod)
           /\ \A i \in 1 .. Size(pod) :
                 AllContainers(pod)[i] = IF i <= Len(pod.inits) THEN pod.inits[i]
                                         ELSE pod.containers[i - Len(pod.inits)]
           /\ ToSet(AllContainers(pod)) = ToSet(pod.inits) \cup ToSet(pod.containers)
           /\ ToSet(AllContainers(pod)) \subseteq ContainerType
           /\ SidecarsOf(pod) \subseteq Nat
  <1> DEFINE s == pod.inits
             t == pod.containers
             u == s \o t
  <1>1. s \in Seq(ContainerType) /\ t \in Seq(ContainerType)
    BY PodFields
  <1> HIDE DEF s, t
  <1>2. /\ u \in Seq(ContainerType)
        /\ Len(u) = Len(s) + Len(t)
        /\ \A i \in 1 .. Len(s) + Len(t) :
              u[i] = IF i <= Len(s) THEN s[i] ELSE t[i - Len(s)]
        /\ ToSet(u) = ToSet(s) \cup ToSet(t)
    BY <1>1, ConcatMembers
  <1> HIDE DEF u
  <1>3. DOMAIN u = 1 .. Len(s) + Len(t)
    BY <1>2, LenProperties
  <1>4. \A i \in DOMAIN u : u[i] \in ContainerType
    BY <1>2, <1>3, ElementOfSeq
  <1>5. ToSet(u) \subseteq ContainerType
    BY <1>4 DEF ToSet
  <1>6. AllContainers(pod) = u
    BY DEF AllContainers, u, s, t
  <1>7. SidecarsOf(pod) \subseteq DOMAIN u
    BY <1>6 DEF SidecarsOf
  <1>8. Size(pod) = Len(s) + Len(t)
    BY DEF Size, s, t
  <1>9. Len(s) \in Nat /\ Len(t) \in Nat
    BY <1>1, LenProperties
  <1>10. DOMAIN u \subseteq Nat
    BY <1>3, <1>9
  <1>11. pod.inits = s /\ pod.containers = t
    BY DEF s, t
  <1> QED BY <1>2, <1>3, <1>5, <1>6, <1>7, <1>8, <1>10, <1>11

\* Where a pod has one container of the sidecar's name, that is its sidecar.
LEMMA OneSidecar ==
    ASSUME NEW pod, NEW k \in Nat, SidecarsOf(pod) = {k}
    PROVE  Sidecar(pod) = AllContainers(pod)[k]
  <1>1. (CHOOSE i \in {k} : \A j \in {k} : i <= j) = k
    OBVIOUS
  <1> QED BY <1>1 DEF Sidecar

\* addSidecar: where the container goes, and that nothing else changes.
LEMMA Added ==
    ASSUME NEW pod \in PodType, NEW c \in ContainerType, NEW q, q = AddSidecar(pod, c)
    PROVE  /\ q \in PodType
           /\ q.volumes = pod.volumes /\ q.inject = pod.inject
           /\ ToSet(AllContainers(q)) = ToSet(AllContainers(pod)) \cup {c}
           /\ ToSet(pod.containers) \subseteq ToSet(q.containers)
           /\ Size(q) = Size(pod) + 1
           /\ SidecarsOf(pod) = {} /\ c.name = "pii-shield-sidecar" =>
                 SidecarsOf(q) # {} /\ Sidecar(q) = c /\ \A i, j \in SidecarsOf(q) : i = j
  <1> DEFINE s == pod.inits
             t == pod.containers
             s1 == Append(s, c)
             t1 == Append(t, c)
  <1>1. /\ s \in Seq(ContainerType) /\ t \in Seq(ContainerType)
        /\ Len(s) \in Nat /\ Len(t) \in Nat
    BY PodFields
  <1>0. pod.inits = s /\ pod.containers = t
    OBVIOUS
  <1> HIDE DEF s, t
  <1>2. /\ s1 \in Seq(ContainerType) /\ ToSet(s1) = ToSet(s) \cup {c}
        /\ Len(s1) = Len(s) + 1
        /\ s1[Len(s) + 1] = c /\ \A i \in 1 .. Len(s) : s1[i] = s[i]
    BY <1>1, AppendMembers, AppendProperties
  <1>3. /\ t1 \in Seq(ContainerType) /\ ToSet(t1) = ToSet(t) \cup {c}
        /\ Len(t1) = Len(t) + 1
        /\ t1[Len(t) + 1] = c /\ \A i \in 1 .. Len(t) : t1[i] = t[i]
    BY <1>1, AppendMembers, AppendProperties
  <1>4. \/ q = [pod EXCEPT !.containers = t1]
        \/ q = [pod EXCEPT !.inits = s1]
    BY <1>0 DEF AddSidecar, s1, t1
  <1> HIDE DEF s1, t1
  <1>5. /\ q \in PodType
        /\ q.volumes = pod.volumes /\ q.inject = pod.inject
        /\ \/ q.inits = s /\ q.containers = t1
           \/ q.inits = s1 /\ q.containers = t
    BY <1>0, <1>1, <1>2, <1>3, <1>4 DEF PodType
  <1>6. Size(q) = Size(pod) + 1
    <2>1. Size(pod) = Len(s) + Len(t)
      BY <1>0 DEF Size
    <2>2. Size(q) = Len(s) + Len(t1) \/ Size(q) = Len(s1) + Len(t)
      BY <1>5 DEF Size
    <2> QED BY <1>1, <1>2, <1>3, <2>1, <2>2
  <1>7. ToSet(AllContainers(q)) = ToSet(AllContainers(pod)) \cup {c}
    BY <1>0, <1>2, <1>3, <1>5, AllMembers
  <1>8. ToSet(t) \subseteq ToSet(q.containers)
    BY <1>3, <1>5
  <1>9. ASSUME SidecarsOf(pod) = {}, c.name = "pii-shield-sidecar"
        PROVE  SidecarsOf(q) # {} /\ Sidecar(q) = c /\ \A i, j \in SidecarsOf(q) : i = j
    <2> DEFINE n == IF q.inits = s1 /\ q.containers = t THEN Len(s) + 1 ELSE Len(s) + Len(t) + 1
               a == AllContainers(q)
    <2>1. \A i \in 1 .. Len(s) + Len(t) :
              (IF i <= Len(s) THEN s[i] ELSE t[i - Len(s)]).name # "pii-shield-sidecar"
      <3>1. Size(pod) = Len(s) + Len(t)
        BY <1>0 DEF Size
      <3>2. /\ DOMAIN AllContainers(pod) = 1 .. Len(s) + Len(t)
            /\ \A i \in 1 .. Len(s) + Len(t) :
                  AllContainers(pod)[i] = IF i <= Len(s) THEN s[i] ELSE t[i - Len(s)]
        BY <1>0, <3>1, AllMembers
      <3>3. \A i \in DOMAIN AllContainers(pod) : AllContainers(pod)[i].name # "pii-shield-sidecar"
        BY <1>9 DEF SidecarsOf
      <3> QED BY <3>2, <3>3
    <2>2. /\ DOMAIN a = 1 .. Len(s) + Len(t) + 1
          /\ \A i \in 1 .. Len(s) + Len(t) + 1 :
                a[i] = IF i <= Len(q.inits) THEN q.inits[i] ELSE q.containers[i - Len(q.inits)]
      <3>1. Size(q) = Len(s) + Len(t) + 1
        BY <1>0, <1>1, <1>6 DEF Size
      <3> QED BY <1>5, <3>1, AllMembers
    <2> HIDE DEF a
    <2>3. CASE q.inits = s1 /\ q.containers = t
      <3>1. n = Len(s) + 1
        BY <2>3
      <3> HIDE DEF n
      <3>2. n \in DOMAIN a /\ a[n] = c
        BY <1>1, <1>2, <2>2, <2>3, <3>1
      <3>3. ASSUME NEW i \in DOMAIN a, i # n PROVE a[i].name # "pii-shield-sidecar"
        <4>1. CASE i <= Len(s)
          <5>1. a[i] = s[i] /\ i \in 1 .. Len(s) + Len(t)
            BY <1>1, <1>2, <2>2, <2>3, <4>1
          <5> QED BY <2>1, <4>1, <5>1
        <4>2. CASE i > Len(s) + 1
          <5> DEFINE j == i - 1
          <5>1. /\ j \in 1 .. Len(s) + Len(t) /\ ~(j <= Len(s)) /\ ~(i <= Len(s) + 1)
                /\ i - (Len(s) + 1) = j - Len(s)
            BY <1>1, <2>2, <4>2
          <5>2. a[i] = t[j - Len(s)]
            BY <1>2, <2>2, <2>3, <5>1
          <5> HIDE DEF j
          <5> QED BY <2>1, <5>1, <5>2
        <4> QED BY <1>1, <2>2, <3>1, <3>3, <4>1, <4>2
      <3>4. SidecarsOf(q) = {n}
        BY <1>9, <3>2, <3>3 DEF SidecarsOf, a
      <3>5. n \in Nat
        BY <1>1, <3>1
      <3>6. Sidecar(q) = a[n]
        BY <3>4, <3>5, OneSidecar DEF a
      <3> QED BY <3>2, <3>4, <3>6
    <2>4. CASE ~(q.inits = s1 /\ q.containers = t)
      <3>1. n = Len(s) + Len(t) + 1 /\ q.inits = s /\ q.containers = t1
        BY <1>5, <2>4
      <3> HIDE DEF n
      <3>2. n \in DOMAIN a /\ a[n] = c
        <4>1. n \in 1 .. Len(s) + Len(t) + 1 /\ ~(n <= Len(s)) /\ n - Len(s) = Len(t) + 1
          BY <1>1, <3>1
        <4> QED BY <1>3, <2>2, <3>1, <4>1
      <3>3. ASSUME NEW i \in DOMAIN a, i # n PROVE a[i].name # "pii-shield-sidecar"
        <4>1. i \in 1 .. Len(s) + Len(t)
          BY <1>1, <2>2, <3>1, <3>3
        <4>2. ~(i <= Len(s)) => i - Len(s) \in 1 .. Len(t)
          BY <1>1, <4>1
        <4>3. a[i] = IF i <= Len(s) THEN s[i] ELSE t[i - Len(s)]
          BY <1>3, <2>2, <3>1, <4>2
        <4> QED BY <2>1, <4>1, <4>3
      <3>4. SidecarsOf(q) = {n}
        BY <1>9, <3>2, <3>3 DEF SidecarsOf, a
      <3>5. n \in Nat
        BY <1>1, <3>1
      <3>6. Sidecar(q) = a[n]
        BY <3>4, <3>5, OneSidecar DEF a
      <3> QED BY <3>2, <3>4, <3>6
    <2> QED BY <2>3, <2>4
  <1> QED BY <1>0, <1>5, <1>6, <1>7, <1>8, <1>9

------------------------------------------------------------------------------
(* What the three modes make of a pod.                                     *)

\* The names the webhook uses are texts.
LEMMA WebhookTexts ==
    /\ "pii-shield-sidecar" \in Text /\ "/pii-shield" \in Text /\ "/pii-shield-ebpf" \in Text
    /\ "pii-shared" \in Text /\ "pii-pipe-dir" \in Text /\ "pii-tmp" \in Text /\ "pii-policy" \in Text
    /\ "pii-mkfifo" \in Text /\ "mkfifo" \in Text /\ "to the pipe" \in Text
    /\ "PII_MODE" \in Text /\ "PII_METRICS_PORT" \in Text /\ "PII_STATS_LOG_INTERVAL" \in Text
    /\ "PII_CONFIG_FILE" \in Text
  BY TextAssumption DEF WebhookVolumes

\* Short lists, and their members.
LEMMA ShortLists ==
    ASSUME NEW S, NEW a \in S, NEW b \in S, NEW c \in S
    PROVE  <<a>> \in Seq(S) /\ <<a, b, c>> \in Seq(S)
  OBVIOUS

LEMMA SingleMember ==
    ASSUME NEW a
    PROVE  ToSet(<<a>>) = {a}
  <1>1. DOMAIN <<a>> = {1} /\ <<a>>[1] = a
    OBVIOUS
  <1> QED BY <1>1 DEF ToSet

LEMMA TripleMembers ==
    ASSUME NEW a, NEW b, NEW c
    PROVE  ToSet(<<a, b, c>>) = {a, b, c}
  <1> DEFINE t == <<a, b, c>>
  <1>1. t[1] = a /\ t[2] = b /\ t[3] = c
    OBVIOUS
  <1>2. t \in Seq({a, b, c}) /\ Len(t) = 3
    OBVIOUS
  <1>3. DOMAIN t = {1, 2, 3}
    BY <1>2
  <1> HIDE DEF t
  <1>4. ToSet(t) = {a, b, c}
    BY <1>1, <1>3 DEF ToSet
  <1> QED BY <1>4 DEF t

\* The sidecar's fields, and those of the container that makes the pipe.
LEMMA SidecarFields ==
    ASSUME NEW pol \in PolicyType, NEW m \in Text
    PROVE  LET c == BuildSidecar(pol, m) IN
           /\ c \in ContainerType
           /\ c.name = "pii-shield-sidecar" /\ c.command = "/pii-shield"
           /\ c.mounts = <<m, "pii-tmp", "pii-policy">>
           /\ c.env.rules = pol.rules /\ "PII_CONFIG_FILE" \in c.env.names
           /\ ~pol.audit => "PII_MODE" \notin c.env.names
  <1> DEFINE c == BuildSidecar(pol, m)
             metrics == IF pol.audit \/ pol.stats THEN {"PII_METRICS_PORT"} ELSE {}
             summary == IF pol.audit THEN {"PII_STATS_LOG_INTERVAL"} ELSE {}
             mode == IF pol.audit THEN {"PII_MODE"} ELSE {}
             names == mode \cup metrics \cup summary \cup {"PII_CONFIG_FILE"}
  <1>1. c = [name |-> "pii-shield-sidecar", command |-> "/pii-shield",
             mounts |-> <<m, "pii-tmp", "pii-policy">>,
             env |-> [rules |-> pol.rules, names |-> names]]
    BY DEF BuildSidecar, ScannerEnv
  <1>2. names \in SUBSET Text /\ pol.rules \in Nat
    BY WebhookTexts DEF PolicyType
  <1>3. "PII_CONFIG_FILE" \in names /\ (~pol.audit => "PII_MODE" \notin names)
    OBVIOUS
  <1>4. <<m, "pii-tmp", "pii-policy">> \in Seq(Text)
    BY WebhookTexts, ShortLists
  <1> HIDE DEF names, c
  <1>5. /\ c.name = "pii-shield-sidecar" /\ c.command = "/pii-shield"
        /\ c.mounts = <<m, "pii-tmp", "pii-policy">>
        /\ c.env.rules = pol.rules /\ c.env.names = names
    BY <1>1
  <1>6. c \in ContainerType
    BY <1>1, <1>2, <1>4, WebhookTexts DEF ContainerType
  <1> QED BY <1>3, <1>5, <1>6 DEF c

\* What injectFileMode and injectPipeMode do to a pod before they add the
\* sidecar: three volumes, the target's mount, and in pipe mode a container.
Prepared(pod, i, m, q) ==
    /\ q \in PodType /\ q.inject = pod.inject
    /\ q.volumes = pod.volumes \o <<m, "pii-tmp", "pii-policy">>
    /\ \/ q.inits = pod.inits
       \/ q.inits = Append(pod.inits, MkFifo) /\ m = "pii-pipe-dir"
    /\ \E c \in ContainerType :
          /\ c.name = pod.containers[i].name
          /\ c.mounts = Append(pod.containers[i].mounts, m)
          /\ q.containers = [pod.containers EXCEPT ![i] = c]

\* The container makes the pipe.
LEMMA FifoType == MkFifo \in ContainerType
  <1>1. <<"pii-pipe-dir">> \in Seq(Text)
    BY WebhookTexts, ShortLists
  <1>2. NoEnv \in [rules : Nat, names : SUBSET Text]
    BY DEF NoEnv
  <1> QED BY <1>1, <1>2, WebhookTexts DEF MkFifo, ContainerType

LEMMA ReplacedContainer ==
    ASSUME NEW S, NEW s \in Seq(S), NEW i \in DOMAIN s, NEW c \in S
    PROVE  [s EXCEPT ![i] = c] \in Seq(S)
  BY ExceptSeq, LenProperties

\* Three more volumes.
LEMMA MoreVolumes ==
    ASSUME NEW pod \in PodType, NEW m \in Text
    PROVE  pod.volumes \o <<m, "pii-tmp", "pii-policy">> \in Seq(Text)
  <1>1. pod.volumes \in Seq(Text) /\ <<m, "pii-tmp", "pii-policy">> \in Seq(Text)
    BY PodFields, ShortLists, WebhookTexts
  <1> QED BY <1>1, ConcatProperties

LEMMA FilePrepared ==
    ASSUME NEW pod \in PodType, NEW pol, NEW i \in DOMAIN pod.containers
    PROVE  \E q : /\ Prepared(pod, i, "pii-shared", q)
                 /\ InjectFileMode(pod, pol, i) = AddSidecar(q, BuildSidecar(pol, "pii-shared"))
  <1> DEFINE v == pod.volumes \o <<"pii-shared", "pii-tmp", "pii-policy">>
             t == pod.containers
             c == [t[i] EXCEPT !.mounts = Append(@, "pii-shared")]
             q == [pod EXCEPT !.volumes = v, !.containers[i].mounts = Append(@, "pii-shared")]
  <1>1. v \in Seq(Text)
    BY MoreVolumes, WebhookTexts
  <1>2. t \in Seq(ContainerType) /\ i \in DOMAIN t
    BY PodFields
  <1>3. t[i] \in ContainerType
    BY <1>2, ElementOfSeq, LenProperties
  <1>4. Append(t[i].mounts, "pii-shared") \in Seq(Text)
    BY <1>3, WebhookTexts, AppendProperties DEF ContainerType
  <1>5. /\ c \in ContainerType /\ c.name = t[i].name
        /\ c.mounts = Append(t[i].mounts, "pii-shared")
    BY <1>3, <1>4 DEF ContainerType
  <1>6. [t EXCEPT ![i] = c] \in Seq(ContainerType)
    BY <1>2, <1>5, ReplacedContainer
  <1>7. q = [pod EXCEPT !.volumes = v, !.inits = pod.inits, !.containers = [t EXCEPT ![i] = c]]
    BY DEF PodType
  <1>8. /\ q \in PodType /\ q.inject = pod.inject /\ q.volumes = v /\ q.inits = pod.inits
        /\ q.containers = [t EXCEPT ![i] = c]
    <2> DEFINE u == [t EXCEPT ![i] = c]
    <2>1. q = [pod EXCEPT !.volumes = v, !.inits = pod.inits, !.containers = u]
      BY <1>7
    <2>2. u \in Seq(ContainerType) /\ pod.inits \in Seq(ContainerType)
      BY <1>6, PodFields
    <2> HIDE DEF q, v, u
    <2>3. q \in PodType /\ q.inject = pod.inject /\ q.volumes = v /\ q.inits = pod.inits /\ q.containers = u
      BY <1>1, <2>1, <2>2 DEF PodType
    <2> QED BY <2>3 DEF u
  <1>9. InjectFileMode(pod, pol, i) = AddSidecar(q, BuildSidecar(pol, "pii-shared"))
    BY DEF InjectFileMode
  <1>10. Prepared(pod, i, "pii-shared", q)
    <2> HIDE DEF q, c
    <2>1. \E d \in ContainerType :
              /\ d.name = pod.containers[i].name
              /\ d.mounts = Append(pod.containers[i].mounts, "pii-shared")
              /\ q.containers = [pod.containers EXCEPT ![i] = d]
      BY <1>5, <1>8
    <2> QED BY <1>8, <2>1, Zenon DEF Prepared
  <1> QED BY <1>9, <1>10

LEMMA PipePrepared ==
    ASSUME NEW pod \in PodType, NEW pol, NEW i \in DOMAIN pod.containers
    PROVE  \E q : /\ Prepared(pod, i, "pii-pipe-dir", q)
                 /\ InjectPipeMode(pod, pol, i) = AddSidecar(q, BuildSidecar(pol, "pii-pipe-dir"))
  <1> DEFINE v == pod.volumes \o <<"pii-pipe-dir", "pii-tmp", "pii-policy">>
             t == pod.containers
             c == [t[i] EXCEPT !.command = "to the pipe", !.mounts = Append(@, "pii-pipe-dir")]
             s == Append(pod.inits, MkFifo)
             q == [pod EXCEPT !.volumes = v, !.inits = Append(@, MkFifo),
                              !.containers[i].command = "to the pipe",
                              !.containers[i].mounts = Append(@, "pii-pipe-dir")]
  <1>1. v \in Seq(Text)
    BY MoreVolumes, WebhookTexts
  <1>2. t \in Seq(ContainerType) /\ i \in DOMAIN t
    BY PodFields
  <1>3. t[i] \in ContainerType
    BY <1>2, ElementOfSeq, LenProperties
  <1>4. Append(t[i].mounts, "pii-pipe-dir") \in Seq(Text)
    BY <1>3, WebhookTexts, AppendProperties DEF ContainerType
  <1>5. /\ c \in ContainerType /\ c.name = t[i].name
        /\ c.mounts = Append(t[i].mounts, "pii-pipe-dir")
    BY <1>3, <1>4, WebhookTexts DEF ContainerType
  <1>6. [t EXCEPT ![i] = c] \in Seq(ContainerType)
    BY <1>2, <1>5, ReplacedContainer
  <1>7. q = [pod EXCEPT !.volumes = v, !.inits = s, !.containers = [t EXCEPT ![i] = c]]
    <2> DEFINE m == [t EXCEPT ![i].command = "to the pipe",
                              ![i].mounts = Append(@, "pii-pipe-dir")]
    <2>1. m = [t EXCEPT ![i] = c]
      BY <1>2, <1>3 DEF ContainerType
    <2>2. q = [pod EXCEPT !.volumes = v, !.inits = s, !.containers = m]
      <3> HIDE DEF v
      <3> QED BY DEF PodType
    <2> QED BY ONLY <2>1, <2>2, Zenon
  <1>8. /\ q \in PodType /\ q.inject = pod.inject /\ q.volumes = v /\ q.inits = s
        /\ q.containers = [t EXCEPT ![i] = c]
    <2>1. s \in Seq(ContainerType)
      BY PodFields, FifoType, AppendProperties
    <2> DEFINE u == [t EXCEPT ![i] = c]
    <2>2. q = [pod EXCEPT !.volumes = v, !.inits = s, !.containers = u]
      BY <1>7
    <2>3. u \in Seq(ContainerType)
      BY <1>6
    <2> HIDE DEF q, v, u, s
    <2>4. q \in PodType /\ q.inject = pod.inject /\ q.volumes = v /\ q.inits = s /\ q.containers = u
      BY <1>1, <2>1, <2>2, <2>3 DEF PodType
    <2> QED BY <2>4 DEF u
  <1>9. InjectPipeMode(pod, pol, i) = AddSidecar(q, BuildSidecar(pol, "pii-pipe-dir"))
    BY DEF InjectPipeMode
  <1>10. Prepared(pod, i, "pii-pipe-dir", q)
    <2> HIDE DEF q, c
    <2>1. \E d \in ContainerType :
              /\ d.name = pod.containers[i].name
              /\ d.mounts = Append(pod.containers[i].mounts, "pii-pipe-dir")
              /\ q.containers = [pod.containers EXCEPT ![i] = d]
      BY <1>5, <1>8
    <2> QED BY <1>8, <2>1, Zenon DEF Prepared
  <1> QED BY <1>9, <1>10

LEMMA SizeType ==
    ASSUME NEW pod \in PodType
    PROVE  Size(pod) \in Nat
  <1>1. Len(pod.inits) \in Nat /\ Len(pod.containers) \in Nat
    BY PodFields
  <1>2. \A a, b \in Nat : a + b \in Nat
    OBVIOUS
  <1> QED BY <1>1, <1>2 DEF Size

\* No container is lost.
LEMMA PreparedSize ==
    ASSUME NEW pod \in PodType, NEW i \in DOMAIN pod.containers, NEW m, NEW q, Prepared(pod, i, m, q)
    PROVE  Size(pod) \in Nat /\ Size(q) \in Nat /\ Size(q) >= Size(pod)
  <1>1. /\ pod.inits \in Seq(ContainerType) /\ pod.containers \in Seq(ContainerType)
        /\ Len(pod.inits) \in Nat /\ Len(pod.containers) \in Nat
        /\ i \in 1 .. Len(pod.containers)
    BY PodFields, LenProperties
  <1>2. Len(q.inits) = Len(pod.inits) \/ Len(q.inits) = Len(pod.inits) + 1
    BY <1>1, FifoType, AppendProperties DEF Prepared
  <1>3. Len(q.containers) = Len(pod.containers)
    BY <1>1, ExceptSeq DEF Prepared
  <1>4. Size(pod) = Len(pod.inits) + Len(pod.containers) /\ Size(q) = Len(q.inits) + Len(q.containers)
    BY DEF Size
  <1>5. \A a, b \in Nat : /\ a + b \in Nat /\ a + 1 + b \in Nat
                          /\ a + b >= a + b /\ a + 1 + b >= a + b
    OBVIOUS
  <1>6. Len(pod.inits) \in Nat /\ Len(pod.containers) \in Nat
    BY <1>1
  <1> QED BY <1>2, <1>3, <1>4, <1>5, <1>6

\* A pod without the sidecar's name has none in any of its containers.
LEMMA NoSidecar ==
    ASSUME NEW pod
    PROVE  SidecarsOf(pod) = {} <=> \A c \in ToSet(AllContainers(pod)) : c.name # "pii-shield-sidecar"
  BY DEF SidecarsOf, ToSet

\* An owner's pod, prepared: no sidecar yet, volumes of distinct names, every
\* mount of a volume of the pod, and a container that mounts the new volume.
LEMMA PreparedTemplate ==
    ASSUME NEW t \in Templates, NEW i \in DOMAIN t.containers,
           NEW m \in {"pii-shared", "pii-pipe-dir"}, NEW q, Prepared(t, i, m, q)
    PROVE  /\ SidecarsOf(q) = {} /\ IsInjective(q.volumes)
           /\ {m, "pii-tmp", "pii-policy"} \subseteq ToSet(q.volumes)
           /\ \A c \in ToSet(AllContainers(q)) : ToSet(c.mounts) \subseteq ToSet(q.volumes)
           /\ \E c \in ToSet(q.containers) : c.name # "pii-shield-sidecar" /\ m \in ToSet(c.mounts)
  <1>1. /\ t \in PodType /\ SidecarsOf(t) = {}
        /\ IsInjective(t.volumes) /\ ToSet(t.volumes) \cap WebhookVolumes = {}
        /\ \A c \in ToSet(AllContainers(t)) : ToSet(c.mounts) \subseteq ToSet(t.volumes)
    BY TemplatesAssumption
  <1>2. /\ t.inits \in Seq(ContainerType) /\ t.containers \in Seq(ContainerType)
        /\ t.volumes \in Seq(Text) /\ i \in 1 .. Len(t.containers)
    BY <1>1, PodFields, LenProperties
  <1>3. /\ m \in Text /\ m \in WebhookVolumes /\ {"pii-tmp", "pii-policy"} \subseteq WebhookVolumes
        /\ m # "pii-tmp" /\ m # "pii-policy"
    BY WebhookTexts DEF WebhookVolumes
  <1>4. q.volumes = t.volumes \o <<m, "pii-tmp", "pii-policy">>
    BY DEF Prepared
  <1>5. /\ IsInjective(q.volumes)
        /\ ToSet(q.volumes) = ToSet(t.volumes) \cup {m, "pii-tmp", "pii-policy"}
    <2>1. {m, "pii-tmp", "pii-policy"} \cap ToSet(t.volumes) = {}
      BY <1>1, <1>3
    <2>2. \A a, b \in Text :
              a # b /\ m # a /\ m # b /\ {m, a, b} \cap ToSet(t.volumes) = {} =>
                 /\ IsInjective(t.volumes \o <<m, a, b>>)
                 /\ ToSet(t.volumes \o <<m, a, b>>) = ToSet(t.volumes) \cup {m, a, b}
      <3>1. t.volumes \in Seq(Text) /\ IsInjective(t.volumes) /\ m \in Text
        BY <1>1, <1>2, <1>3, Zenon
      <3> QED BY ONLY <3>1, VolumesAdded
    <2> DEFINE a == "pii-tmp"
               b == "pii-policy"
    <2>3. a # b /\ m # a /\ m # b /\ a \in Text /\ b \in Text
      BY <1>3, WebhookTexts
    <2>4. {m, a, b} \cap ToSet(t.volumes) = {} /\ q.volumes = t.volumes \o <<m, a, b>>
      BY <1>4, <2>1
    <2> HIDE DEF a, b
    <2>5. IsInjective(q.volumes) /\ ToSet(q.volumes) = ToSet(t.volumes) \cup {m, a, b}
      BY <2>2, <2>3, <2>4
    <2> QED BY <2>5 DEF a, b
  <1>6. PICK c \in ContainerType : /\ c.name = t.containers[i].name
                                   /\ c.mounts = Append(t.containers[i].mounts, m)
                                   /\ q.containers = [t.containers EXCEPT ![i] = c]
    BY DEF Prepared
  <1>7. t.containers[i] \in ToSet(t.containers) /\ t.containers[i] \in ContainerType
    BY <1>2, ElementOfSeq DEF ToSet
  <1>8. ToSet(AllContainers(t)) = ToSet(t.inits) \cup ToSet(t.containers)
    BY <1>1, AllMembers
  <1>9. /\ c.name # "pii-shield-sidecar"
        /\ ToSet(c.mounts) = ToSet(t.containers[i].mounts) \cup {m}
    <2>1. t.containers[i].mounts \in Seq(Text)
      BY <1>7 DEF ContainerType
    <2>2. ToSet(Append(t.containers[i].mounts, m)) = ToSet(t.containers[i].mounts) \cup {m}
      BY <1>3, <2>1, AppendMembers
    <2> QED BY <1>1, <1>6, <1>7, <1>8, <2>2, NoSidecar
  <1>10. ToSet(q.containers) \subseteq ToSet(t.containers) \cup {c} /\ c \in ToSet(q.containers)
    <2>1. DOMAIN q.containers = DOMAIN t.containers /\ q.containers[i] = c
      BY <1>6
    <2>2. \A j \in DOMAIN t.containers : q.containers[j] = IF j = i THEN c ELSE t.containers[j]
      BY <1>6
    <2> QED BY <2>1, <2>2 DEF ToSet
  <1>11. ToSet(q.inits) \subseteq ToSet(t.inits) \cup {d \in {MkFifo} : m = "pii-pipe-dir"}
    <2>1. ToSet(Append(t.inits, MkFifo)) = ToSet(t.inits) \cup {MkFifo}
      BY <1>2, FifoType, AppendMembers
    <2> QED BY <2>1 DEF Prepared
  <1>12. MkFifo.name # "pii-shield-sidecar" /\ ToSet(MkFifo.mounts) = {"pii-pipe-dir"}
    BY SingleMember DEF MkFifo
  <1>13. ToSet(AllContainers(q)) = ToSet(q.inits) \cup ToSet(q.containers)
    BY AllMembers DEF Prepared
  <1>14. ASSUME NEW d \in ToSet(AllContainers(q))
         PROVE  d.name # "pii-shield-sidecar" /\ ToSet(d.mounts) \subseteq ToSet(q.volumes)
    <2>1. CASE d \in ToSet(AllContainers(t))
      BY <1>1, <1>5, <2>1, NoSidecar
    <2>2. CASE d = c
      BY <1>1, <1>5, <1>7, <1>8, <1>9, <2>2
    <2>3. CASE d = MkFifo /\ m = "pii-pipe-dir"
      BY <1>5, <1>12, <2>3
    <2> QED BY <1>8, <1>10, <1>11, <1>13, <2>1, <2>2, <2>3
  <1>15. SidecarsOf(q) = {}
    BY <1>14, NoSidecar
  <1> QED BY <1>5, <1>9, <1>10, <1>14, <1>15

\* The sidecar names the rules file.
Named(pod) == SidecarsOf(pod) # {} /\ "PII_CONFIG_FILE" \in Sidecar(pod).env.names

\* WellFormed, of one pod.
Shape(pod) ==
    /\ pod \in PodType
    /\ \A i, j \in SidecarsOf(pod) : i = j
    /\ IsInjective(pod.volumes)
    /\ \A c \in ToSet(AllContainers(pod)) : ToSet(c.mounts) \subseteq ToSet(pod.volumes)
    /\ Named(pod) => \E c \in ToSet(pod.containers) :
          c.name # "pii-shield-sidecar" /\ Head(Sidecar(pod).mounts) \in ToSet(c.mounts)

\* A pod with a sidecar; one that is let in without a word redacts.
Carries(pod, how) ==
    /\ Shape(pod) /\ SidecarsOf(pod) # {}
    /\ how = "plain" => /\ Sidecar(pod).command = "/pii-shield"
                       /\ "PII_MODE" \notin Sidecar(pod).env.names

\* What injection promises of a pod under a policy.
Injected(pod, pol, how) ==
    /\ Carries(pod, how)
    /\ Sidecar(pod).env.rules = pol.rules
    /\ Mode(pol) # "ebpf" => Named(pod)

\* The volume the target and the sidecar share.
SharedVolume(m) == m \in {"pii-shared", "pii-pipe-dir"}

\* A prepared pod of an owner with the sidecar.
LEMMA TemplateInjected ==
    ASSUME NEW t \in Templates, NEW i \in DOMAIN t.containers, NEW pol \in PolicyType,
           NEW m \in Text, SharedVolume(m), NEW q, Prepared(t, i, m, q),
           NEW how, how = "plain" => ~pol.audit
    PROVE  Injected(AddSidecar(q, BuildSidecar(pol, m)), pol, how)
  <1> DEFINE c == BuildSidecar(pol, m)
             r == AddSidecar(q, c)
  <1>1. /\ c \in ContainerType
        /\ c.name = "pii-shield-sidecar" /\ c.command = "/pii-shield"
        /\ c.mounts = <<m, "pii-tmp", "pii-policy">>
        /\ c.env.rules = pol.rules /\ "PII_CONFIG_FILE" \in c.env.names
        /\ ~pol.audit => "PII_MODE" \notin c.env.names
    BY SidecarFields, WebhookTexts
  <1>2. Head(c.mounts) = m /\ ToSet(c.mounts) = {m, "pii-tmp", "pii-policy"}
    <2> DEFINE a == "pii-tmp"
               b == "pii-policy"
    <2>1. m \in Text /\ a \in Text /\ b \in Text
      BY WebhookTexts
    <2>2. c.mounts = <<m, a, b>>
      BY <1>1
    <2> HIDE DEF a, b, c
    <2>3. Head(<<m, a, b>>) = m
      OBVIOUS
    <2>4. ToSet(<<m, a, b>>) = {m, a, b}
      BY TripleMembers
    <2> QED BY <2>2, <2>3, <2>4 DEF a, b
  <1>3. q \in PodType
    BY DEF Prepared
  <1>4. /\ SidecarsOf(q) = {} /\ IsInjective(q.volumes)
        /\ {m, "pii-tmp", "pii-policy"} \subseteq ToSet(q.volumes)
        /\ \A d \in ToSet(AllContainers(q)) : ToSet(d.mounts) \subseteq ToSet(q.volumes)
        /\ \E d \in ToSet(q.containers) : d.name # "pii-shield-sidecar" /\ m \in ToSet(d.mounts)
    BY PreparedTemplate DEF SharedVolume
  <1> HIDE DEF c
  <1>5. r = AddSidecar(q, c)
    OBVIOUS
  <1> HIDE DEF r
  <1>6. /\ r \in PodType /\ r.volumes = q.volumes
        /\ ToSet(AllContainers(r)) = ToSet(AllContainers(q)) \cup {c}
        /\ ToSet(q.containers) \subseteq ToSet(r.containers)
        /\ SidecarsOf(r) # {} /\ Sidecar(r) = c /\ \A k, j \in SidecarsOf(r) : k = j
    <2>1. /\ r \in PodType /\ r.volumes = q.volumes
          /\ ToSet(AllContainers(r)) = ToSet(AllContainers(q)) \cup {c}
          /\ ToSet(q.containers) \subseteq ToSet(r.containers)
          /\ SidecarsOf(q) = {} /\ c.name = "pii-shield-sidecar" =>
                SidecarsOf(r) # {} /\ Sidecar(r) = c /\ \A k, j \in SidecarsOf(r) : k = j
      <3>1. c \in ContainerType
        BY <1>1
      <3> QED BY <3>1, <1>3, <1>5, Added
    <2> QED BY <1>1, <1>4, <2>1
  <1>7. \A d \in ToSet(AllContainers(r)) : ToSet(d.mounts) \subseteq ToSet(r.volumes)
    BY <1>2, <1>4, <1>6
  <1>8. \E d \in ToSet(r.containers) :
            d.name # "pii-shield-sidecar" /\ Head(Sidecar(r).mounts) \in ToSet(d.mounts)
    BY <1>2, <1>4, <1>6
  <1>9. Shape(r)
    BY <1>4, <1>6, <1>7, <1>8 DEF Shape
  <1>10. Carries(r, how) /\ Named(r)
    BY <1>1, <1>6, <1>9 DEF Carries, Named
  <1>11. Injected(r, pol, how)
    BY <1>1, <1>6, <1>10 DEF Injected
  <1> QED BY <1>11 DEF r, c

\* The audit agent: no volume, no file, and a warning.
LEMMA AgentFields ==
    ASSUME NEW pod \in PodType, NEW pol \in PolicyType
    PROVE  \E c \in ContainerType, q \in PodType :
              /\ InjectEBPFMode(pod, pol) = AddSidecar(q, c)
              /\ q = [pod EXCEPT !.sharedPids = TRUE]
              /\ c.name = "pii-shield-sidecar" /\ c.mounts = <<>>
              /\ c.env.rules = pol.rules /\ "PII_CONFIG_FILE" \notin c.env.names
  <1> DEFINE mode == IF pol.audit THEN {"PII_MODE"} ELSE {}
             names == mode \cup {"PII_STATS_LOG_INTERVAL"}
             c == [name |-> "pii-shield-sidecar", command |-> "/pii-shield-ebpf", mounts |-> <<>>,
                   env |-> [rules |-> pol.rules, names |-> names]]
             q == [pod EXCEPT !.sharedPids = TRUE]
  <1>1. InjectEBPFMode(pod, pol) = AddSidecar(q, c)
    <2>1. [ScannerEnv(pol) EXCEPT !.names = @ \cup {"PII_STATS_LOG_INTERVAL"}]
            = [rules |-> pol.rules, names |-> names]
      BY DEF ScannerEnv
    <2> QED BY <2>1 DEF InjectEBPFMode
  <1>2. names \in SUBSET Text /\ pol.rules \in Nat
    BY WebhookTexts DEF PolicyType
  <1>3. "PII_CONFIG_FILE" \notin names
    OBVIOUS
  <1>4. <<>> \in Seq(Text)
    OBVIOUS
  <1>5. q \in PodType
    BY DEF PodType
  <1> HIDE DEF names
  <1>6. /\ c.name = "pii-shield-sidecar" /\ c.mounts = <<>>
        /\ c.env.rules = pol.rules /\ c.env.names = names
    OBVIOUS
  <1>7. c \in ContainerType
    BY <1>2, <1>4, WebhookTexts DEF ContainerType
  <1> HIDE DEF c
  <1> QED BY <1>1, <1>3, <1>5, <1>6, <1>7

LEMMA AgentInjected ==
    ASSUME NEW t \in Templates, NEW pol \in PolicyType, Mode(pol) = "ebpf", NEW how, how # "plain"
    PROVE  Injected(InjectEBPFMode(t, pol), pol, how)
  <1>1. /\ t \in PodType /\ SidecarsOf(t) = {} /\ IsInjective(t.volumes)
        /\ \A c \in ToSet(AllContainers(t)) : ToSet(c.mounts) \subseteq ToSet(t.volumes)
    BY TemplatesAssumption
  <1>2. PICK c \in ContainerType, q \in PodType :
              /\ InjectEBPFMode(t, pol) = AddSidecar(q, c)
              /\ q = [t EXCEPT !.sharedPids = TRUE]
              /\ c.name = "pii-shield-sidecar" /\ c.mounts = <<>>
              /\ c.env.rules = pol.rules /\ "PII_CONFIG_FILE" \notin c.env.names
    BY <1>1, AgentFields
  <1> DEFINE r == AddSidecar(q, c)
  <1>3. q.volumes = t.volumes /\ q.inits = t.inits /\ q.containers = t.containers
    BY <1>1, <1>2 DEF PodType
  <1>4. AllContainers(q) = AllContainers(t)
    BY <1>3 DEF AllContainers
  <1>5. SidecarsOf(q) = {}
    BY <1>1, <1>4, NoSidecar
  <1>6. r = AddSidecar(q, c)
    OBVIOUS
  <1> HIDE DEF r
  <1>7. /\ r \in PodType /\ r.volumes = t.volumes
        /\ ToSet(AllContainers(r)) = ToSet(AllContainers(t)) \cup {c}
        /\ SidecarsOf(r) # {} /\ Sidecar(r) = c /\ \A k, j \in SidecarsOf(r) : k = j
    <2>1. /\ r \in PodType /\ r.volumes = q.volumes
          /\ ToSet(AllContainers(r)) = ToSet(AllContainers(q)) \cup {c}
          /\ SidecarsOf(q) = {} /\ c.name = "pii-shield-sidecar" =>
                SidecarsOf(r) # {} /\ Sidecar(r) = c /\ \A k, j \in SidecarsOf(r) : k = j
      BY <1>6, Added
    <2> QED BY <1>2, <1>3, <1>4, <1>5, <2>1
  <1>8. ToSet(c.mounts) = {}
    BY <1>2 DEF ToSet
  <1>9. Shape(r)
    BY <1>1, <1>2, <1>7, <1>8 DEF Shape, Named
  <1>10. Injected(r, pol, how)
    BY <1>2, <1>7, <1>9 DEF Injected, Carries
  <1> QED BY <1>2, <1>6, <1>10

------------------------------------------------------------------------------
(* dropRuleEnv and Handle.                                                 *)

\* dropRuleEnv, of one container.
Dropped(c) == IF c.name = "pii-shield-sidecar" THEN [c EXCEPT !.env.rules = 0] ELSE c

LEMMA DroppedFields ==
    ASSUME NEW c \in ContainerType
    PROVE  /\ Dropped(c) \in ContainerType
           /\ Dropped(c).name = c.name /\ Dropped(c).command = c.command
           /\ Dropped(c).mounts = c.mounts /\ Dropped(c).env.names = c.env.names
  BY DEF Dropped, ContainerType

LEMMA DroppedList ==
    ASSUME NEW s \in Seq(ContainerType), NEW d, d = [i \in DOMAIN s |-> Dropped(s[i])]
    PROVE  d \in Seq(ContainerType) /\ Len(d) = Len(s) /\ \A i \in 1 .. Len(s) : d[i] = Dropped(s[i])
  <1>1. DOMAIN s = 1 .. Len(s) /\ Len(s) \in Nat
    BY LenProperties
  <1>2. \A i \in 1 .. Len(s) : s[i] \in ContainerType
    BY ElementOfSeq
  <1>3. \A i \in 1 .. Len(s) : d[i] \in ContainerType
    BY <1>1, <1>2, DroppedFields
  <1>4. d = [i \in 1 .. Len(s) |-> d[i]]
    BY <1>1
  <1>5. d \in Seq(ContainerType) /\ Len(d) = Len(s)
    BY <1>1, <1>3, <1>4, IsASeq
  <1> QED BY <1>1, <1>5

\* dropRuleEnv, of a pod.
LEMMA DropType ==
    ASSUME NEW pod \in PodType, NEW d, d = DropRuleEnv(pod)
    PROVE  /\ d \in PodType /\ d.inject = pod.inject /\ d.volumes = pod.volumes
           /\ Len(d.inits) = Len(pod.inits) /\ Len(d.containers) = Len(pod.containers)
           /\ \A i \in 1 .. Len(pod.inits) : d.inits[i] = Dropped(pod.inits[i])
           /\ \A i \in 1 .. Len(pod.containers) : d.containers[i] = Dropped(pod.containers[i])
           /\ Size(d) = Size(pod)
  <1> DEFINE s == [i \in DOMAIN pod.inits |-> Dropped(pod.inits[i])]
             t == [i \in DOMAIN pod.containers |-> Dropped(pod.containers[i])]
  <1>1. d = [pod EXCEPT !.inits = s, !.containers = t]
    BY DEF DropRuleEnv, Dropped
  <1>2. /\ s \in Seq(ContainerType) /\ Len(s) = Len(pod.inits)
        /\ \A i \in 1 .. Len(pod.inits) : s[i] = Dropped(pod.inits[i])
    BY PodFields, DroppedList
  <1>3. /\ t \in Seq(ContainerType) /\ Len(t) = Len(pod.containers)
        /\ \A i \in 1 .. Len(pod.containers) : t[i] = Dropped(pod.containers[i])
    BY PodFields, DroppedList
  <1> HIDE DEF s, t
  <1>4. /\ d \in PodType /\ d.inits = s /\ d.containers = t
        /\ d.inject = pod.inject /\ d.volumes = pod.volumes
    BY <1>1, <1>2, <1>3 DEF PodType
  <1>5. Size(d) = Size(pod)
    BY <1>2, <1>3, <1>4 DEF Size
  <1> QED BY <1>2, <1>3, <1>4, <1>5

\* dropRuleEnv changes nothing else of a pod.
LEMMA DropKeeps ==
    ASSUME NEW pod, NEW how, Carries(pod, how), NEW d, d = DropRuleEnv(pod)
    PROVE  /\ Carries(d, how) /\ d.inject = pod.inject
           /\ Named(pod) => Named(d)
  <1> DEFINE a == AllContainers(pod)
             b == AllContainers(d)
             s == d.inits
             t == d.containers
  <1>1. pod \in PodType /\ Shape(pod)
    BY DEF Carries, Shape
  <1>2. d \in PodType /\ d.inject = pod.inject /\ d.volumes = pod.volumes /\ Size(d) = Size(pod)
    BY <1>1, DropType
  <1>3. /\ Len(s) = Len(pod.inits)
        /\ \A i \in 1 .. Len(pod.inits) : s[i] = Dropped(pod.inits[i])
    BY <1>1, DropType
  <1>4. /\ t \in Seq(ContainerType) /\ Len(t) = Len(pod.containers)
        /\ \A i \in 1 .. Len(pod.containers) : t[i] = Dropped(pod.containers[i])
    BY <1>1, <1>2, DropType, PodFields
  <1>5. d.inits = s /\ d.containers = t
    OBVIOUS
  <1>6. Size(d) = Size(pod) /\ d \in PodType /\ d.volumes = pod.volumes
    BY <1>2
  <1> HIDE DEF s, t
  <1>7. DOMAIN a = 1 .. Size(pod) /\ DOMAIN b = 1 .. Size(pod)
    BY <1>1, <1>6, AllMembers
  <1>8. /\ Len(pod.inits) \in Nat /\ Len(pod.containers) \in Nat
        /\ Size(pod) = Len(pod.inits) + Len(pod.containers)
    BY <1>1, PodFields DEF Size
  <1>9. ASSUME NEW i \in 1 .. Size(pod) PROVE b[i] = Dropped(a[i]) /\ a[i] \in ContainerType
    <2>1. a[i] = IF i <= Len(pod.inits) THEN pod.inits[i] ELSE pod.containers[i - Len(pod.inits)]
      BY <1>1, AllMembers
    <2>2. b[i] = IF i <= Len(s) THEN s[i] ELSE t[i - Len(s)]
      BY <1>5, <1>6, AllMembers
    <2>3. i <= Len(pod.inits) => i \in 1 .. Len(pod.inits)
      BY <1>8
    <2>4. ~(i <= Len(pod.inits)) => i - Len(pod.inits) \in 1 .. Len(pod.containers)
      <3>1. \A n, k \in Nat : \A x \in 1 .. n + k : ~(x <= n) => x - n \in 1 .. k
        OBVIOUS
      <3>2. i \in 1 .. Len(pod.inits) + Len(pod.containers)
        BY <1>8
      <3> QED BY <1>8, <3>1, <3>2
    <2>5. b[i] = Dropped(a[i])
      <3> HIDE DEF a, b
      <3> QED BY <1>3, <1>4, <2>1, <2>2, <2>3, <2>4
    <2>6. a[i] \in ContainerType
      <3>1. a[i] \in ToSet(a)
        BY <1>7 DEF ToSet
      <3> QED BY <1>1, <3>1, AllMembers
    <2> QED BY <2>5, <2>6
  <1> HIDE DEF a, b
  <1>10. SidecarsOf(d) = SidecarsOf(pod)
    <2>1. \A i \in 1 .. Size(pod) : b[i].name = a[i].name
      BY <1>9, DroppedFields
    <2> QED BY <1>7, <2>1 DEF SidecarsOf, a, b
  <1>11. PICK k \in Nat : k \in 1 .. Size(pod) /\ SidecarsOf(pod) = {k}
    <2>1. SidecarsOf(pod) # {} /\ \A i, j \in SidecarsOf(pod) : i = j
      BY DEF Carries, Shape
    <2>2. SidecarsOf(pod) \subseteq 1 .. Size(pod)
      BY <1>7 DEF SidecarsOf, a
    <2>3. SidecarsOf(pod) \subseteq Nat
      BY <1>1, AllMembers
    <2> QED BY <2>1, <2>2, <2>3
  <1>12. Sidecar(pod) = a[k] /\ Sidecar(d) = b[k]
    BY <1>10, <1>11, OneSidecar DEF a, b
  <1>13. /\ Sidecar(d).command = Sidecar(pod).command /\ Sidecar(d).mounts = Sidecar(pod).mounts
         /\ Sidecar(d).env.names = Sidecar(pod).env.names
    BY <1>9, <1>11, <1>12, DroppedFields
  <1>14. Named(d) <=> Named(pod)
    BY <1>10, <1>13 DEF Named
  <1>15. ASSUME NEW c \in ToSet(b) PROVE ToSet(c.mounts) \subseteq ToSet(d.volumes)
    <2>1. PICK i \in 1 .. Size(pod) : c = b[i]
      BY <1>7 DEF ToSet
    <2>2. c.mounts = a[i].mounts /\ a[i] \in ToSet(a)
      BY <1>7, <1>9, <2>1, DroppedFields DEF ToSet
    <2> QED BY <1>1, <1>6, <2>2 DEF Shape, a
  <1>16. ASSUME NEW c \in ToSet(pod.containers)
         PROVE  \E e \in ToSet(d.containers) : e.name = c.name /\ e.mounts = c.mounts
    <2>1. PICK i \in DOMAIN pod.containers : c = pod.containers[i]
      BY DEF ToSet
    <2>2. i \in 1 .. Len(pod.containers) /\ c \in ContainerType
      BY <1>1, <2>1, PodFields, LenProperties, ElementOfSeq
    <2>3. t[i] = Dropped(c) /\ i \in DOMAIN t
      BY <1>4, <2>1, <2>2, LenProperties
    <2>4. t[i] \in ToSet(t)
      BY <2>3 DEF ToSet
    <2> QED BY <1>5, <2>2, <2>3, <2>4, DroppedFields
  <1>17. Named(d) => \E c \in ToSet(d.containers) :
             c.name # "pii-shield-sidecar" /\ Head(Sidecar(d).mounts) \in ToSet(c.mounts)
    <2> SUFFICES ASSUME Named(d)
                 PROVE  \E c \in ToSet(d.containers) :
                           c.name # "pii-shield-sidecar" /\ Head(Sidecar(d).mounts) \in ToSet(c.mounts)
      OBVIOUS
    <2>1. PICK c \in ToSet(pod.containers) :
              c.name # "pii-shield-sidecar" /\ Head(Sidecar(pod).mounts) \in ToSet(c.mounts)
      BY <1>1, <1>14 DEF Shape
    <2> QED BY <1>13, <1>16, <2>1
  <1>18. Shape(d)
    BY <1>1, <1>6, <1>10, <1>15, <1>17 DEF Shape, b
  <1>19. Carries(d, how)
    BY <1>10, <1>13, <1>18 DEF Carries
  <1> QED BY <1>2, <1>14, <1>19

\* The target is a container of the pod.
LEMMA TargetIn ==
    ASSUME NEW pod, Targets(pod) # {}, pod.containers \in Seq(ContainerType)
    PROVE  (CHOOSE i \in Targets(pod) : TRUE) \in DOMAIN pod.containers
  <1>1. Targets(pod) \subseteq DOMAIN pod.containers
    BY LenProperties DEF Targets
  <1>2. (CHOOSE i \in Targets(pod) : TRUE) \in Targets(pod)
    OBVIOUS
  <1> QED BY <1>1, <1>2

\* What Handle answers: a refusal, the pod as it came, or an injected pod.
LEMMA HandleResult ==
    ASSUME NEW pod \in PodType, NEW pol, pol = None \/ pol \in PolicyType, NEW r, r = Handle(pod, pol)
    PROVE  \/ r.pod = None
           \/ /\ r.pod = pod /\ r.policy = None
              /\ \/ ~pod.inject /\ r.how = "plain"
                 \/ pod.inject /\ r.how = "warned" /\ ~setup.strict
           \/ /\ pod.inject /\ pol # None /\ r.policy = pol /\ r.how \in {"plain", "warned"}
              /\ r.pod \in PodType /\ r.pod.inject = pod.inject
              /\ Size(pod) \in Nat /\ Size(r.pod) \in Nat /\ Size(r.pod) > Size(pod)
              /\ pod \in Templates => Injected(r.pod, pol, r.how)
  <1>1. CASE ~pod.inject
    BY <1>1 DEF Handle, Allow
  <1>2. CASE pod.inject /\ pol = None
    BY <1>2 DEF Handle, Allow, Deny, NoPolicy
  <1>3. CASE pod.inject /\ pol # None
    <2> DEFINE i == CHOOSE i \in Targets(pod) : TRUE
               how == IF Mode(pol) \in {"pipe", "ebpf"} \/ pol.audit THEN "warned" ELSE "plain"
               With(injected) == [pod |-> injected, policy |-> pol, how |-> how]
    <2>1. \/ r = Deny
          \/ Mode(pol) = "ebpf" /\ pol.audit /\ r = With(InjectEBPFMode(pod, pol))
          \/ Mode(pol) = "file" /\ Targets(pod) # {} /\ r = With(InjectFileMode(pod, pol, i))
          \/ Mode(pol) = "pipe" /\ Targets(pod) # {} /\ r = With(InjectPipeMode(pod, pol, i))
      BY <1>3 DEF Handle, Allow
    <2>2. /\ how \in {"plain", "warned"} /\ (how = "plain" => ~pol.audit)
          /\ Mode(pol) = "ebpf" => how # "plain"
      OBVIOUS
    <2>3. \A x : With(x).pod = x /\ With(x).policy = pol /\ With(x).how = how
      OBVIOUS
    <2> HIDE DEF how, With
    <2>4. pod.containers \in Seq(ContainerType) /\ Size(pod) \in Nat
      BY PodFields, SizeType
    <2>5. Targets(pod) # {} => i \in DOMAIN pod.containers
      BY <2>4, TargetIn
    <2> HIDE DEF i
    <2> DEFINE Done(x) == /\ x \in PodType /\ x.inject = pod.inject
                          /\ Size(x) \in Nat /\ Size(x) > Size(pod)
                          /\ pod \in Templates => Injected(x, pol, how)
    <2>6. ASSUME NEW q \in PodType, NEW c \in ContainerType, NEW x, x = AddSidecar(q, c),
                 q.inject = pod.inject, Size(q) \in Nat, Size(q) >= Size(pod)
          PROVE  /\ x \in PodType /\ x.inject = pod.inject
                 /\ Size(x) \in Nat /\ Size(x) > Size(pod)
      <3>1. x \in PodType /\ x.inject = q.inject /\ Size(x) = Size(q) + 1
        BY <2>6, Added
      <3>2. \A a, b \in Nat : a >= b => a + 1 \in Nat /\ a + 1 > b
        OBVIOUS
      <3> QED BY <2>4, <2>6, <3>1, <3>2
    <2>7. CASE Mode(pol) = "ebpf" /\ pol.audit /\ r = With(InjectEBPFMode(pod, pol))
      <3> DEFINE x == InjectEBPFMode(pod, pol)
      <3>1. PICK c \in ContainerType, q \in PodType : x = AddSidecar(q, c) /\ q = [pod EXCEPT !.sharedPids = TRUE]
        BY <1>3, AgentFields
      <3>2. q.inject = pod.inject /\ q.inits = pod.inits /\ q.containers = pod.containers
        BY <3>1 DEF PodType
      <3>3. Size(q) \in Nat /\ Size(q) >= Size(pod)
        <4>1. Size(q) = Size(pod)
          BY <3>2 DEF Size
        <4> QED BY <2>4, <4>1
      <3>4. pod \in Templates => Injected(x, pol, how)
        BY <1>3, <2>2, <2>7, AgentInjected
      <3> HIDE DEF x
      <3>5. Done(x)
        BY <2>4, <2>6, <3>1, <3>2, <3>3, <3>4
      <3>6. r.pod = x /\ r.policy = pol /\ r.how = how
        BY <2>3, <2>7 DEF x
      <3> QED BY <1>3, <2>2, <2>4, <3>5, <3>6
    <2>8. CASE Mode(pol) = "file" /\ Targets(pod) # {} /\ r = With(InjectFileMode(pod, pol, i))
      <3> DEFINE x == InjectFileMode(pod, pol, i)
                 c == BuildSidecar(pol, "pii-shared")
      <3>1. PICK q : Prepared(pod, i, "pii-shared", q) /\ x = AddSidecar(q, c)
        BY <2>5, <2>8, FilePrepared
      <3>2. c \in ContainerType
        BY <1>3, SidecarFields, WebhookTexts
      <3>3. Size(q) \in Nat /\ Size(q) >= Size(pod) /\ q \in PodType /\ q.inject = pod.inject
        <4>1. q \in PodType /\ q.inject = pod.inject
          BY <3>1 DEF Prepared
        <4> QED BY <2>5, <2>8, <3>1, <4>1, PreparedSize
      <3>4. pod \in Templates => Injected(x, pol, how)
        BY <1>3, <2>2, <2>5, <2>8, <3>1, TemplateInjected, WebhookTexts DEF SharedVolume
      <3> HIDE DEF x, c
      <3>5. Done(x)
        BY <2>6, <3>1, <3>2, <3>3, <3>4
      <3>6. r.pod = x /\ r.policy = pol /\ r.how = how
        BY <2>3, <2>8 DEF x
      <3> QED BY <1>3, <2>2, <2>4, <3>5, <3>6
    <2>9. CASE Mode(pol) = "pipe" /\ Targets(pod) # {} /\ r = With(InjectPipeMode(pod, pol, i))
      <3> DEFINE x == InjectPipeMode(pod, pol, i)
                 c == BuildSidecar(pol, "pii-pipe-dir")
      <3>1. PICK q : Prepared(pod, i, "pii-pipe-dir", q) /\ x = AddSidecar(q, c)
        BY <2>5, <2>9, PipePrepared
      <3>2. c \in ContainerType
        BY <1>3, SidecarFields, WebhookTexts
      <3>3. Size(q) \in Nat /\ Size(q) >= Size(pod) /\ q \in PodType /\ q.inject = pod.inject
        <4>1. q \in PodType /\ q.inject = pod.inject
          BY <3>1 DEF Prepared
        <4> QED BY <2>5, <2>9, <3>1, <4>1, PreparedSize
      <3>4. pod \in Templates => Injected(x, pol, how)
        BY <1>3, <2>2, <2>5, <2>9, <3>1, TemplateInjected, WebhookTexts DEF SharedVolume
      <3> HIDE DEF x, c
      <3>5. Done(x)
        BY <2>6, <3>1, <3>2, <3>3, <3>4
      <3>6. r.pod = x /\ r.policy = pol /\ r.how = how
        BY <2>3, <2>9 DEF x
      <3> QED BY <1>3, <2>2, <2>4, <3>5, <3>6
    <2>10. CASE r = Deny
      BY <2>10 DEF Deny
    <2> QED BY <2>1, <2>7, <2>8, <2>9, <2>10
  <1> QED BY <1>1, <1>2, <1>3, PodFields

------------------------------------------------------------------------------
(* The inductive invariant.                                                *)

\* The pod p of the API server, how it was admitted, the rules it was to have,
\* the pods whose ConfigMap was deleted since, its file and its rules, the
\* ConfigMap, and the setup.
PodGood(pod, how, wanted, p, gone, f, r, cm, su) ==
    /\ pod = None => r = None /\ f = NotMounted
    /\ pod # None => Shape(pod)
    /\ pod # None /\ pod.inject =>
          /\ how = "plain" => /\ SidecarsOf(pod) # {}
                             /\ Sidecar(pod).command = "/pii-shield"
                             /\ "PII_MODE" \notin Sidecar(pod).env.names
          /\ su.strict /\ su.failClosed => SidecarsOf(pod) # {}
    /\ pod # None /\ SidecarsOf(pod) # {} /\ wanted # 0 /\ p \notin gone =>
          \/ Sidecar(pod).env.rules # 0
          \/ Named(pod) /\ cm # None /\ f # None
    /\ r = BuiltIn => wanted = 0 \/ p \in gone

\* A request about a pod the API server holds or does not hold yet.
RequestGood(q, pod) ==
    /\ q.at \in {"policy", "file"} /\ q.create \in BOOLEAN /\ q.pod \in PodType
    /\ q.create => pod = None /\ q.pod \in Templates
    /\ ~q.create => pod # None /\ SameSpec(q.pod, pod)
    /\ q.at = "file" =>
          /\ q.policy \in PolicyType /\ q.how \in {"plain", "warned"}
          /\ q.patched \in PodType /\ q.patched.inject /\ q.pod.inject
          /\ Size(q.pod) \in Nat /\ Size(q.patched) \in Nat /\ Size(q.patched) > Size(q.pod)
          /\ q.create => Injected(q.patched, q.policy, q.how)

StateType ==
    /\ setup \in Setups /\ policy \in PolicyType \cup {None}
    /\ configMap \in ConfigMapType \cup {None} /\ changes \in Nat
    /\ pods \in [Pods -> PodType \cup {None}]
    /\ request = [p \in Pods |-> request[p]]
    /\ answer = [p \in Pods |-> answer[p]]
    /\ asked \in [Pods -> Nat] /\ deleted \subseteq Pods
    /\ file \in [Pods -> Nat \cup {None, NotMounted}]
    /\ rules \in [Pods -> Nat \cup {None, BuiltIn}]

GoodPod(p) ==
    PodGood(pods[p], answer[p], asked[p], p, deleted, file[p], rules[p], configMap, setup)

GoodRequest(p) == request[p] # None => RequestGood(request[p], pods[p])

IInv == StateType /\ \A p \in Pods : GoodPod(p) /\ GoodRequest(p)

\* Two pods that differ in the label only.
LEMMA SameSpecFields ==
    ASSUME NEW a \in PodType, NEW b \in PodType, SameSpec(a, b)
    PROVE  /\ SidecarsOf(a) = SidecarsOf(b) /\ Sidecar(a) = Sidecar(b) /\ Size(a) = Size(b)
           /\ Named(a) = Named(b) /\ (Shape(b) => Shape(a))
  <1>1. a.containers = b.containers /\ a.inits = b.inits /\ a.volumes = b.volumes
    BY DEF SameSpec, PodType
  <1>2. AllContainers(a) = AllContainers(b)
    BY <1>1 DEF AllContainers
  <1>3. SidecarsOf(a) = SidecarsOf(b)
    BY <1>2 DEF SidecarsOf
  <1>4. Sidecar(a) = Sidecar(b)
    BY <1>2, <1>3 DEF Sidecar
  <1>5. Size(a) = Size(b)
    BY <1>1 DEF Size
  <1>6. Named(a) = Named(b)
    BY <1>3, <1>4 DEF Named
  <1>7. Shape(b) => Shape(a)
    BY <1>1, <1>2, <1>3, <1>4, <1>6 DEF Shape
  <1> QED BY <1>3, <1>4, <1>5, <1>6, <1>7

LEMMA SameSpecOrder ==
    ASSUME NEW a \in PodType, NEW inject \in BOOLEAN
    PROVE  [a EXCEPT !.inject = inject] \in PodType /\ SameSpec([a EXCEPT !.inject = inject], a)
  BY DEF SameSpec, PodType

\* The ConfigMap is not taken away and nothing was deleted for p.
LEMMA GoodFrame ==
    ASSUME NEW pod, NEW how, NEW wanted, NEW p, NEW gone, NEW f, NEW r, NEW cm, NEW su,
           PodGood(pod, how, wanted, p, gone, f, r, cm, su),
           NEW gone2, NEW cm2, p \in gone2 <=> p \in gone, cm # None => cm2 # None
    PROVE  PodGood(pod, how, wanted, p, gone2, f, r, cm2, su)
  BY DEF PodGood

\* A pod whose label changed.
LEMMA GoodUpdate ==
    ASSUME NEW pod \in PodType, NEW how, NEW wanted, NEW p, NEW gone, NEW f, NEW r, NEW cm, NEW su,
           PodGood(pod, how, wanted, p, gone, f, r, cm, su),
           NEW new \in PodType, SameSpec(new, pod), NEW how2,
           new.inject => how2 # "plain" /\ ~(su.strict /\ su.failClosed)
    PROVE  PodGood(new, how2, wanted, p, gone, f, r, cm, su)
  <1>1. pod # None /\ new # None
    BY ValuesAssumption
  <1>2. /\ SidecarsOf(new) = SidecarsOf(pod) /\ Sidecar(new) = Sidecar(pod)
        /\ Named(new) = Named(pod) /\ (Shape(pod) => Shape(new))
    BY SameSpecFields
  <1> QED BY <1>1, <1>2 DEF PodGood

\* A new pod without a sidecar.
LEMMA GoodPlain ==
    ASSUME NEW t \in Templates, NEW how, NEW p, NEW gone, NEW cm, NEW su,
           t.inject => how # "plain" /\ ~(su.strict /\ su.failClosed)
    PROVE  PodGood(t, how, 0, p, gone, NotMounted, None, cm, su)
  <1>1. /\ t \in PodType /\ SidecarsOf(t) = {} /\ IsInjective(t.volumes)
        /\ \A c \in ToSet(AllContainers(t)) : ToSet(c.mounts) \subseteq ToSet(t.volumes)
    BY TemplatesAssumption
  <1>2. Shape(t) /\ t # None /\ None # BuiltIn
    BY <1>1, ValuesAssumption DEF Shape, Named
  <1> QED BY <1>1, <1>2 DEF PodGood

\* A new pod with a sidecar: its rules are in the variables or, when they were
\* dropped, in a file.
LEMMA GoodInjected ==
    ASSUME NEW pol, NEW how, NEW pod, Injected(pod, pol, how), NEW p, NEW gone, NEW cm, NEW su, NEW new,
           \/ new = pod
           \/ new = DropRuleEnv(pod) /\ cm # None /\ Mode(pol) # "ebpf"
    PROVE  PodGood(new, how, pol.rules, p, gone, NotMounted, None, cm, su)
  <1>1. Carries(pod, how)
    BY DEF Injected
  <1>2. Carries(new, how) /\ (Named(pod) => Named(new))
    BY <1>1, DropKeeps
  <1>3. new # None /\ None # BuiltIn /\ NotMounted # None
    BY <1>2, ValuesAssumption DEF Carries, Shape
  <1>4. pol.rules # 0 => Sidecar(new).env.rules # 0 \/ (Named(new) /\ cm # None)
    BY <1>2 DEF Injected
  <1> QED BY <1>2, <1>3, <1>4 DEF PodGood, Carries

------------------------------------------------------------------------------
(* The steps.                                                              *)

LEMMA InitInv == Init => IInv
  <1> SUFFICES ASSUME Init PROVE IInv
    OBVIOUS
  <1>1. StateType
    BY DEF Init, StateType
  <1>2. ASSUME NEW p \in Pods PROVE GoodPod(p) /\ GoodRequest(p)
    <2>1. /\ pods[p] = None /\ request[p] = None /\ asked[p] = 0
          /\ file[p] = NotMounted /\ rules[p] = None
      BY DEF Init
    <2> QED BY <2>1, ValuesAssumption DEF GoodPod, PodGood, GoodRequest
  <1> QED BY <1>1, <1>2 DEF IInv

\* What the API server takes from the webhook.
LEMMA AnswerStep ==
    ASSUME IInv, NEW p \in Pods, request[p] # None,
           NEW pod \in PodType, NEW how, NEW wanted \in Nat, Answer(p, pod, how, wanted),
           UNCHANGED <<setup, policy, configMap, changes, file, rules>>,
           deleted' = deleted \/ (request[p].create /\ deleted' = deleted \ {p}),
           request[p].create => PodGood(pod, how, wanted, p, deleted', NotMounted, None, configMap, setup),
           ~request[p].create /\ SameSpec(pod, pods[p]) /\ pod.inject =>
               how # "plain" /\ ~(setup.strict /\ setup.failClosed)
    PROVE  IInv'
  <1>1. /\ StateType /\ GoodPod(p) /\ RequestGood(request[p], pods[p])
        /\ request[p].create \in BOOLEAN
    BY DEF IInv, GoodRequest, RequestGood
  <1>2. /\ request' = [request EXCEPT ![p] = None]
        /\ request[p].create => /\ pods' = [pods EXCEPT ![p] = pod]
                                /\ answer' = [answer EXCEPT ![p] = how]
                                /\ asked' = [asked EXCEPT ![p] = wanted]
        /\ ~request[p].create => asked' = asked
        /\ ~request[p].create /\ SameSpec(pod, pods[p]) =>
              pods' = [pods EXCEPT ![p] = pod] /\ answer' = [answer EXCEPT ![p] = how]
        /\ ~request[p].create /\ ~SameSpec(pod, pods[p]) => pods' = pods /\ answer' = answer
    BY DEF Answer
  <1>3. StateType'
    BY <1>1, <1>2 DEF StateType
  <1>4. ASSUME NEW x \in Pods, x # p PROVE GoodPod(x)' /\ GoodRequest(x)'
    <2>1. /\ pods'[x] = pods[x] /\ answer'[x] = answer[x] /\ asked'[x] = asked[x]
          /\ request'[x] = request[x]
      BY <1>1, <1>2, <1>4 DEF StateType
    <2>2. x \in deleted' <=> x \in deleted
      BY <1>4
    <2>3. PodGood(pods[x], answer[x], asked[x], x, deleted', file[x], rules[x], configMap, setup)
      BY <2>2, GoodFrame DEF IInv, GoodPod
    <2> QED BY <2>1, <2>3 DEF IInv, GoodPod, GoodRequest
  <1>5. GoodRequest(p)'
    BY <1>1, <1>2 DEF GoodRequest, StateType
  <1>6. GoodPod(p)'
    <2>1. CASE request[p].create
      <3>1. pods[p] = None
        BY <1>1, <2>1 DEF RequestGood
      <3>2. file[p] = NotMounted /\ rules[p] = None
        BY <1>1, <3>1 DEF GoodPod, PodGood
      <3>3. pods'[p] = pod /\ answer'[p] = how /\ asked'[p] = wanted
        BY <1>1, <1>2, <2>1 DEF StateType
      <3> QED BY <2>1, <3>2, <3>3 DEF GoodPod
    <2>2. CASE ~request[p].create /\ SameSpec(pod, pods[p])
      <3>1. pods[p] \in PodType
        BY <1>1, <2>2 DEF RequestGood, StateType
      <3>2. pods'[p] = pod /\ answer'[p] = how /\ asked'[p] = asked[p] /\ deleted' = deleted
        BY <1>1, <1>2, <2>2 DEF StateType
      <3>3. PodGood(pod, how, asked[p], p, deleted, file[p], rules[p], configMap, setup)
        BY <1>1, <2>2, <3>1, GoodUpdate DEF GoodPod
      <3> QED BY <3>2, <3>3 DEF GoodPod
    <2>3. CASE ~request[p].create /\ ~SameSpec(pod, pods[p])
      BY <1>1, <1>2, <2>3 DEF GoodPod
    <2> QED BY <2>1, <2>2, <2>3
  <1> QED BY <1>3, <1>4, <1>5, <1>6 DEF IInv

LEMMA RefuseStep ==
    ASSUME IInv, NEW p \in Pods, Refuse(p),
           UNCHANGED <<setup, policy, configMap, changes, deleted, file, rules>>
    PROVE  IInv'
  <1>1. request' = [request EXCEPT ![p] = None] /\ UNCHANGED <<pods, answer, asked>>
    BY DEF Refuse
  <1>2. StateType'
    BY <1>1 DEF IInv, StateType
  <1>3. ASSUME NEW x \in Pods PROVE GoodPod(x)' /\ GoodRequest(x)'
    <2>1. request'[x] = request[x] \/ request'[x] = None
      BY <1>1 DEF IInv, StateType
    <2> QED BY <1>1, <2>1 DEF IInv, GoodPod, GoodRequest
  <1> QED BY <1>2, <1>3 DEF IInv

\* A request is made, or goes on.
LEMMA RequestStep ==
    ASSUME IInv, NEW p \in Pods, NEW q, RequestGood(q, pods[p]), request' = [request EXCEPT ![p] = q],
           UNCHANGED <<setup, policy, configMap, changes, pods, ghosts, file, rules>>
    PROVE  IInv'
  <1>1. StateType'
    BY DEF IInv, StateType, ghosts
  <1>2. ASSUME NEW x \in Pods PROVE GoodPod(x)' /\ GoodRequest(x)'
    <2>1. request'[x] = IF x = p THEN q ELSE request[x]
      BY DEF IInv, StateType
    <2> QED BY <2>1 DEF IInv, GoodPod, GoodRequest, ghosts
  <1> QED BY <1>1, <1>2 DEF IInv

LEMMA CreateStep ==
    ASSUME IInv, NEW p \in Pods, Create(p)
    PROVE  IInv'
  <1>1. PICK t \in Templates :
            request' = [request EXCEPT ![p] = [at |-> "policy", create |-> TRUE, pod |-> t]]
    BY DEF Create
  <1> DEFINE q == [at |-> "policy", create |-> TRUE, pod |-> t]
  <1>2. RequestGood(q, pods[p])
    BY TemplatesAssumption DEF Create, RequestGood
  <1> HIDE DEF q
  <1> QED BY <1>1, <1>2, RequestStep DEF Create, q

LEMMA UpdateStep ==
    ASSUME IInv, NEW p \in Pods, Update(p)
    PROVE  IInv'
  <1>1. PICK inject \in BOOLEAN :
            request' = [request EXCEPT ![p] = [at |-> "policy", create |-> FALSE,
                                               pod |-> [pods[p] EXCEPT !.inject = inject]]]
    BY DEF Update
  <1> DEFINE a == [pods[p] EXCEPT !.inject = inject]
             q == [at |-> "policy", create |-> FALSE, pod |-> a]
  <1>2. pods[p] # None /\ pods[p] \in PodType
    BY DEF Update, IInv, StateType
  <1>3. a \in PodType /\ SameSpec(a, pods[p])
    BY <1>2, SameSpecOrder
  <1>4. request' = [request EXCEPT ![p] = q]
    BY <1>1
  <1> HIDE DEF a
  <1>5. RequestGood(q, pods[p])
    BY <1>2, <1>3 DEF RequestGood
  <1> HIDE DEF q
  <1> QED BY <1>4, <1>5, RequestStep DEF Update

\* Without the webhook a pod is bypassed, which nobody allows under
\* failurePolicy Fail.
LEMMA UnavailableStep ==
    ASSUME IInv, NEW p \in Pods, Unavailable(p)
    PROVE  IInv'
  <1>1. /\ request[p] # None
        /\ UNCHANGED <<setup, policy, configMap, changes, deleted, file, rules>>
    BY DEF Unavailable
  <1>2. CASE setup.failClosed
    BY <1>1, <1>2, RefuseStep DEF Unavailable
  <1>3. CASE ~setup.failClosed
    <2> DEFINE pod == request[p].pod
    <2>1. Answer(p, pod, "bypassed", 0)
      BY <1>3 DEF Unavailable
    <2>2. pod \in PodType /\ (request[p].create => pod \in Templates)
      BY <1>1 DEF IInv, GoodRequest, RequestGood
    <2>3. request[p].create => PodGood(pod, "bypassed", 0, p, deleted', NotMounted, None, configMap, setup)
      BY <1>3, <2>2, GoodPlain
    <2> HIDE DEF pod
    <2> QED BY <1>1, <1>3, <2>1, <2>2, <2>3, AnswerStep
  <1> QED BY <1>2, <1>3

\* Handle with the policy as it is now.
LEMMA ReadPolicyStep ==
    ASSUME IInv, NEW p \in Pods, ReadPolicy(p)
    PROVE  IInv'
  <1> DEFINE pod == request[p].pod
             r == Handle(pod, policy)
  <1>1. /\ request[p] # None
        /\ UNCHANGED <<setup, policy, configMap, changes, deleted, file, rules>>
    BY DEF ReadPolicy
  <1>2. RequestGood(request[p], pods[p]) /\ pod \in PodType
    BY <1>1 DEF IInv, GoodRequest, RequestGood
  <1>3. \/ r.pod = None /\ Refuse(p)
        \/ r.pod # None /\ r.policy = None /\ Answer(p, r.pod, r.how, 0)
        \/ /\ r.pod # None /\ r.policy # None
           /\ request' = [request EXCEPT ![p] =
                              [at |-> "file", create |-> request[p].create, pod |-> pod,
                               patched |-> r.pod, policy |-> r.policy, how |-> r.how]]
           /\ UNCHANGED <<pods, answer, asked>>
    BY DEF ReadPolicy
  <1>4. policy = None \/ policy \in PolicyType
    BY DEF IInv, StateType
  <1>5. r = Handle(pod, policy)
    OBVIOUS
  <1> HIDE DEF r
  <1>6. \/ r.pod = None
        \/ /\ r.pod = pod /\ r.policy = None
           /\ \/ ~pod.inject /\ r.how = "plain"
              \/ pod.inject /\ r.how = "warned" /\ ~setup.strict
        \/ /\ pod.inject /\ policy # None /\ r.policy = policy /\ r.how \in {"plain", "warned"}
           /\ r.pod \in PodType /\ r.pod.inject = pod.inject
           /\ Size(pod) \in Nat /\ Size(r.pod) \in Nat /\ Size(r.pod) > Size(pod)
           /\ pod \in Templates => Injected(r.pod, policy, r.how)
    <2> HIDE DEF pod
    <2> QED BY <1>2, <1>4, <1>5, HandleResult
  <1>7. CASE r.pod = None
    BY <1>1, <1>3, <1>7, RefuseStep
  <1>8. CASE /\ r.pod = pod /\ r.pod # None /\ r.policy = None
             /\ \/ ~pod.inject /\ r.how = "plain"
                \/ pod.inject /\ r.how = "warned" /\ ~setup.strict
    <2> DEFINE how == r.how
    <2>1. Answer(p, pod, how, 0)
      BY <1>3, <1>8
    <2>2. pod.inject => how # "plain" /\ ~(setup.strict /\ setup.failClosed)
      BY <1>8
    <2>3. request[p].create => pod \in Templates
      BY <1>2 DEF RequestGood
    <2> HIDE DEF pod, how
    <2>4. request[p].create => PodGood(pod, how, 0, p, deleted', NotMounted, None, configMap, setup)
      BY <2>2, <2>3, GoodPlain
    <2>5. deleted' = deleted
      BY <1>1
    <2> QED BY <1>1, <1>2, <2>1, <2>2, <2>4, <2>5, AnswerStep
  <1>9. CASE /\ pod.inject /\ policy # None /\ r.policy = policy /\ r.how \in {"plain", "warned"}
             /\ r.pod \in PodType /\ r.pod.inject = pod.inject
             /\ Size(pod) \in Nat /\ Size(r.pod) \in Nat /\ Size(r.pod) > Size(pod)
             /\ pod \in Templates => Injected(r.pod, policy, r.how)
    <2> DEFINE q == [at |-> "file", create |-> request[p].create, pod |-> pod,
                     patched |-> r.pod, policy |-> r.policy, how |-> r.how]
    <2>1. request' = [request EXCEPT ![p] = q] /\ UNCHANGED <<pods, answer, asked>>
      BY <1>3, <1>9, ValuesAssumption
    <2>2. RequestGood(q, pods[p])
      <3>1. q.at = "file" /\ q.create = request[p].create /\ q.pod = pod /\ q.patched = r.pod
            /\ q.policy = policy /\ q.how = r.how
        BY <1>9
      <3> HIDE DEF q
      <3> QED BY <1>2, <1>4, <1>9, <3>1 DEF RequestGood
    <2> HIDE DEF q
    <2> QED BY <1>1, <2>1, <2>2, RequestStep DEF ghosts
  <1> QED BY <1>6, <1>7, <1>8, <1>9

\* The answer to an injected pod: a new one is stored with its rules in the
\* variables or in the file; one the API server holds would get a sidecar more,
\* and the API server refuses that.
LEMMA ReadFileStep ==
    ASSUME IInv, NEW p \in Pods, ReadFile(p)
    PROVE  IInv'
  <1> DEFINE q == request[p]
             pod == FinalPod(q, configMap)
             how == q.how
             pol == q.policy
  <1>1. /\ q # None /\ q.at = "file" /\ Answer(p, pod, how, pol.rules)
        /\ deleted' = IF q.create THEN deleted \ {p} ELSE deleted
        /\ UNCHANGED <<setup, policy, configMap, changes, file, rules>>
    BY DEF ReadFile
  <1>2. RequestGood(q, pods[p])
    BY <1>1 DEF IInv, GoodRequest
  <1>3. /\ q.create \in BOOLEAN /\ q.pod \in PodType /\ pol \in PolicyType /\ q.patched \in PodType
        /\ Size(q.pod) \in Nat /\ Size(q.patched) \in Nat /\ Size(q.patched) > Size(q.pod)
        /\ q.create => Injected(q.patched, pol, how)
        /\ ~q.create => pods[p] # None /\ SameSpec(q.pod, pods[p])
    BY <1>1, <1>2 DEF RequestGood
  <1>4. pol.rules \in Nat
    BY <1>3 DEF PolicyType
  <1>5. \/ pod = q.patched
        \/ pod = DropRuleEnv(q.patched) /\ configMap # None /\ Mode(pol) # "ebpf"
    BY DEF FinalPod
  <1>6. pod \in PodType /\ Size(pod) = Size(q.patched)
    BY <1>3, <1>5, DropType
  <1> HIDE DEF pod, how, pol
  <1>7. q.create => PodGood(pod, how, pol.rules, p, deleted', NotMounted, None, configMap, setup)
    BY <1>3, <1>5, GoodInjected
  <1>8. ~q.create => ~SameSpec(pod, pods[p])
    <2> SUFFICES ASSUME ~q.create, SameSpec(pod, pods[p]) PROVE FALSE
      OBVIOUS
    <2>1. pods[p] \in PodType
      BY <1>3 DEF IInv, StateType
    <2>2. Size(pod) = Size(pods[p]) /\ Size(q.pod) = Size(pods[p])
      BY <1>3, <1>6, <2>1, SameSpecFields
    <2> QED BY <1>3, <1>6, <2>2
  <1>9. deleted' = deleted \/ (q.create /\ deleted' = deleted \ {p})
    BY <1>1
  <1> QED BY <1>1, <1>4, <1>6, <1>7, <1>8, <1>9, AnswerStep

\* The policy changes; no pod does.
LEMMA ChangePolicyStep ==
    ASSUME IInv, ChangePolicy
    PROVE  IInv'
  <1>1. /\ changes' = changes + 1
        /\ UNCHANGED <<setup, configMap, pods, request, answer, asked, deleted, file, rules>>
    BY DEF ChangePolicy, ghosts
  <1>2. policy' \in PolicyType \cup {None} /\ changes' \in Nat
    <2>1. changes \in Nat /\ changes' \in Nat
      BY <1>1 DEF IInv, StateType
    <2>2. CASE policy # None /\ policy' = None
      BY <2>1, <2>2
    <2>3. ASSUME NEW pol \in Policies, NEW uid, uid = (IF policy = None THEN changes' ELSE policy.uid),
                 policy' = [pol EXCEPT !.uid = uid]
          PROVE  policy' \in PolicyType
      <3>1. uid \in Nat
        BY <2>1, <2>3 DEF IInv, StateType, PolicyType
      <3> QED BY <2>3, <3>1, FlagsAssumption DEF PolicyType
    <2> QED BY <2>1, <2>2, <2>3 DEF ChangePolicy
  <1>3. StateType'
    BY <1>1, <1>2 DEF IInv, StateType
  <1>4. \A x \in Pods : GoodPod(x)' /\ GoodRequest(x)'
    BY <1>1 DEF IInv, GoodPod, GoodRequest
  <1> QED BY <1>3, <1>4 DEF IInv

\* A ConfigMap is written.
LEMMA RenderStep ==
    ASSUME IInv, Render
    PROVE  IInv'
  <1>1. /\ policy # None /\ configMap' = Rendered(policy)
        /\ UNCHANGED <<setup, policy, changes, pods, request, answer, asked, deleted, file, rules>>
    BY DEF Render, ghosts
  <1>2. configMap' \in ConfigMapType
    BY <1>1 DEF IInv, StateType, Rendered, PolicyType, ConfigMapType
  <1>3. configMap' # None
    BY <1>2, ValuesAssumption
  <1>4. StateType'
    BY <1>1, <1>2 DEF IInv, StateType
  <1>5. ASSUME NEW x \in Pods PROVE GoodPod(x)' /\ GoodRequest(x)'
    <2>1. PodGood(pods[x], answer[x], asked[x], x, deleted, file[x], rules[x], configMap', setup)
      BY <1>3, GoodFrame DEF IInv, GoodPod
    <2> QED BY <1>1, <2>1 DEF IInv, GoodPod, GoodRequest
  <1> QED BY <1>4, <1>5 DEF IInv

\* Every pod knows when a ConfigMap is deleted.
LEMMA CollectStep ==
    ASSUME IInv, Collect
    PROVE  IInv'
  <1>1. /\ configMap' = None /\ deleted' = Pods
        /\ UNCHANGED <<setup, policy, changes, pods, request, answer, asked, file, rules>>
    BY DEF Collect
  <1>2. StateType'
    BY <1>1 DEF IInv, StateType
  <1>3. ASSUME NEW x \in Pods PROVE GoodPod(x)' /\ GoodRequest(x)'
    <2>1. PodGood(pods[x], answer[x], asked[x], x, deleted, file[x], rules[x], configMap, setup)
      BY DEF IInv, GoodPod
    <2>2. PodGood(pods[x], answer[x], asked[x], x, Pods, file[x], rules[x], None, setup)
      BY <2>1 DEF PodGood
    <2> QED BY <1>1, <2>2 DEF IInv, GoodPod, GoodRequest
  <1> QED BY <1>2, <1>3 DEF IInv

\* ReadsFile, of one pod.
LEMMA ReadsNamed ==
    ASSUME NEW p \in Pods
    PROVE  ReadsFile(p) <=> pods[p] # None /\ Named(pods[p])
  BY DEF ReadsFile, HasSidecar, Named

\* A mount takes the file away only with the ConfigMap.
LEMMA MountStep ==
    ASSUME IInv, NEW p \in Pods, Mount(p)
    PROVE  IInv'
  <1>1. /\ pods[p] # None /\ Named(pods[p]) /\ file' = [file EXCEPT ![p] = Mounted]
        /\ UNCHANGED <<setup, policy, configMap, changes, pods, request, answer, asked, deleted, rules>>
    BY ReadsNamed DEF Mount, ghosts
  <1>2. Mounted \in Nat \cup {None} /\ (configMap # None => Mounted # None)
    BY ValuesAssumption DEF IInv, StateType, Mounted, ConfigMapType
  <1>3. StateType'
    BY <1>1, <1>2 DEF IInv, StateType
  <1>4. ASSUME NEW x \in Pods PROVE GoodPod(x)' /\ GoodRequest(x)'
    <2>1. PodGood(pods[x], answer[x], asked[x], x, deleted, file[x], rules[x], configMap, setup)
      BY DEF IInv, GoodPod
    <2>2. file'[x] = IF x = p THEN Mounted ELSE file[x]
      BY <1>1 DEF IInv, StateType
    <2>3. PodGood(pods[x], answer[x], asked[x], x, deleted, file'[x], rules[x], configMap, setup)
      BY <1>1, <1>2, <2>1, <2>2 DEF PodGood
    <2> QED BY <1>1, <2>3 DEF IInv, GoodPod, GoodRequest
  <1> QED BY <1>3, <1>4 DEF IInv

\* The sidecar runs on rules of the policy, unless they are gone.
LEMMA LoadStep ==
    ASSUME IInv, NEW p \in Pods, Load(p)
    PROVE  IInv'
  <1> DEFINE e == Effective(p)
             env == Sidecar(pods[p]).env.rules
  <1>1. /\ pods[p] # None /\ SidecarsOf(pods[p]) # {} /\ rules' = [rules EXCEPT ![p] = e]
        /\ Named(pods[p]) => file[p] # NotMounted
        /\ UNCHANGED <<setup, policy, configMap, changes, pods, request, answer, asked, deleted, file>>
    BY ReadsNamed DEF Load, HasSidecar, ghosts
  <1>2. PodGood(pods[p], answer[p], asked[p], p, deleted, file[p], rules[p], configMap, setup)
    BY DEF IInv, GoodPod
  <1>3. env \in Nat
    <2>1. Shape(pods[p])
      BY <1>1, <1>2 DEF PodGood
    <2>2. PICK k \in SidecarsOf(pods[p]) : SidecarsOf(pods[p]) = {k}
      BY <1>1, <2>1 DEF Shape
    <2>3. pods[p] \in PodType
      BY <2>1 DEF Shape
    <2>4. k \in Nat /\ AllContainers(pods[p])[k] \in ToSet(AllContainers(pods[p]))
      BY <2>2, <2>3, AllMembers DEF SidecarsOf, ToSet
    <2>5. Sidecar(pods[p]) = AllContainers(pods[p])[k]
      BY <2>2, <2>4, OneSidecar
    <2>6. Sidecar(pods[p]) \in ContainerType
      BY <2>3, <2>4, <2>5, AllMembers
    <2> QED BY <2>6 DEF ContainerType
  <1>4. /\ env # 0 => e = env
        /\ env = 0 /\ Named(pods[p]) /\ file[p] \in Nat => e = file[p]
        /\ env = 0 /\ ~(Named(pods[p]) /\ file[p] \in Nat) => e = IF rules[p] = None THEN BuiltIn ELSE rules[p]
    BY <1>1, ReadsNamed DEF Effective
  <1> HIDE DEF e, env
  <1>5. e \in Nat \cup {None, BuiltIn}
    BY <1>3, <1>4 DEF IInv, StateType
  <1>6. e = BuiltIn => asked[p] = 0 \/ p \in deleted
    <2> SUFFICES ASSUME e = BuiltIn, asked[p] # 0, p \notin deleted PROVE FALSE
      OBVIOUS
    <2>1. env = 0 /\ ~(Named(pods[p]) /\ file[p] \in Nat)
      BY <1>3, <1>4, ValuesAssumption
    <2>2. Named(pods[p]) /\ file[p] # None
      BY <1>1, <1>2, <2>1 DEF PodGood, env
    <2>3. file[p] \in Nat \cup {None, NotMounted}
      BY DEF IInv, StateType
    <2> QED BY <1>1, <2>1, <2>2, <2>3
  <1>7. StateType'
    BY <1>1, <1>5 DEF IInv, StateType
  <1>8. ASSUME NEW x \in Pods PROVE GoodPod(x)' /\ GoodRequest(x)'
    <2>1. PodGood(pods[x], answer[x], asked[x], x, deleted, file[x], rules[x], configMap, setup)
      BY DEF IInv, GoodPod
    <2>2. rules'[x] = IF x = p THEN e ELSE rules[x]
      BY <1>1 DEF IInv, StateType
    <2>3. PodGood(pods[x], answer[x], asked[x], x, deleted, file[x], rules'[x], configMap, setup)
      BY <1>1, <1>6, <2>1, <2>2 DEF PodGood
    <2> QED BY <1>1, <2>3 DEF IInv, GoodPod, GoodRequest
  <1> QED BY <1>7, <1>8 DEF IInv

LEMMA RestartStep ==
    ASSUME IInv, NEW p \in Pods, Restart(p)
    PROVE  IInv'
  <1>1. /\ rules' = [rules EXCEPT ![p] = None]
        /\ UNCHANGED <<setup, policy, configMap, changes, pods, request, answer, asked, deleted, file>>
    BY DEF Restart, ghosts
  <1>2. StateType'
    BY <1>1 DEF IInv, StateType
  <1>3. ASSUME NEW x \in Pods PROVE GoodPod(x)' /\ GoodRequest(x)'
    <2>1. PodGood(pods[x], answer[x], asked[x], x, deleted, file[x], rules[x], configMap, setup)
      BY DEF IInv, GoodPod
    <2>2. rules'[x] = IF x = p THEN None ELSE rules[x]
      BY <1>1 DEF IInv, StateType
    <2>3. PodGood(pods[x], answer[x], asked[x], x, deleted, file[x], rules'[x], configMap, setup)
      BY <2>1, <2>2, ValuesAssumption DEF PodGood
    <2> QED BY <1>1, <2>3 DEF IInv, GoodPod, GoodRequest
  <1> QED BY <1>2, <1>3 DEF IInv

LEMMA DeleteStep ==
    ASSUME IInv, NEW p \in Pods, Delete(p)
    PROVE  IInv'
  <1>1. /\ request[p] = None /\ pods' = [pods EXCEPT ![p] = None]
        /\ file' = [file EXCEPT ![p] = NotMounted] /\ rules' = [rules EXCEPT ![p] = None]
        /\ UNCHANGED <<setup, policy, configMap, changes, request, answer, asked, deleted>>
    BY DEF Delete, ghosts
  <1>2. StateType'
    BY <1>1 DEF IInv, StateType
  <1>3. GoodPod(p)' /\ GoodRequest(p)'
    <2>1. pods'[p] = None /\ file'[p] = NotMounted /\ rules'[p] = None /\ request'[p] = None
      BY <1>1 DEF IInv, StateType
    <2> QED BY <2>1, ValuesAssumption DEF GoodPod, PodGood, GoodRequest
  <1>4. ASSUME NEW x \in Pods, x # p PROVE GoodPod(x)' /\ GoodRequest(x)'
    <2>1. pods'[x] = pods[x] /\ file'[x] = file[x] /\ rules'[x] = rules[x]
      BY <1>1, <1>4 DEF IInv, StateType
    <2> QED BY <1>1, <2>1 DEF IInv, GoodPod, GoodRequest
  <1> QED BY <1>2, <1>3, <1>4 DEF IInv

LEMMA NextInv == IInv /\ [Next]_vars => IInv'
  <1> SUFFICES ASSUME IInv, [Next]_vars PROVE IInv'
    OBVIOUS
  <1>1. CASE UNCHANGED vars
    BY <1>1 DEF vars, ghosts, IInv, StateType, GoodPod, GoodRequest
  <1>2. CASE ChangePolicy
    BY <1>2, ChangePolicyStep
  <1>3. CASE Render
    BY <1>3, RenderStep
  <1>4. CASE Collect
    BY <1>4, CollectStep
  <1>5. ASSUME NEW p \in Pods,
               \/ Create(p) \/ Update(p) \/ Unavailable(p) \/ ReadPolicy(p) \/ ReadFile(p)
               \/ Mount(p) \/ Load(p) \/ Restart(p) \/ Delete(p)
        PROVE  IInv'
    BY <1>5, CreateStep, UpdateStep, UnavailableStep, ReadPolicyStep, ReadFileStep,
       MountStep, LoadStep, RestartStep, DeleteStep
  <1> QED BY <1>1, <1>2, <1>3, <1>4, <1>5 DEF Next

------------------------------------------------------------------------------
(* The results.                                                            *)

\* The invariant that requests in the webhook, the pods they leave behind and
\* the ConfigMap keep together.
THEOREM Invariant == Spec => []IInv
  BY InitInv, NextInv, PTL DEF Spec

\* No pod that asks for injection goes without redaction unnoticed, whatever
\* the policy, the webhook and the pods' labels do (Handle), for any pods,
\* policies and templates.
THEOREM NoSilentBypassHolds == Spec => []NoSilentBypass
  <1>1. IInv => NoSilentBypass
    BY DEF IInv, GoodPod, PodGood, NoSilentBypass, Redacts, HasSidecar
  <1> QED BY <1>1, Invariant, PTL

\* What the API server holds is well formed, also after the webhook was called
\* again for a pod it has injected.
THEOREM WellFormedHolds == Spec => []WellFormed
  <1>1. IInv => TypeOK
    BY DEF IInv, StateType, GoodRequest, RequestGood, TypeOK
  <1>2. ASSUME IInv, NEW p \in Pods, pods[p] # None
        PROVE  /\ Shape(pods[p]) /\ (ReadsFile(p) <=> Named(pods[p]))
    BY <1>2, ReadsNamed DEF IInv, GoodPod, PodGood
  <1>3. IInv => WellFormed
    BY <1>1, <1>2 DEF WellFormed, Shape
  <1> QED BY <1>3, Invariant, PTL

\* A sidecar under a policy with rules never runs on the built-in ones, unless
\* the ConfigMap was deleted after the webhook had seen it (policyFileRendered,
\* dropRuleEnv).
THEOREM NeverBareHolds == Spec => []NeverBare
  <1>1. IInv => NeverBare
    BY DEF IInv, GoodPod, PodGood, NeverBare
  <1> QED BY <1>1, Invariant, PTL
=============================================================================
