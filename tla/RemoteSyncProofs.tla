--------------------------- MODULE RemoteSyncProofs ---------------------------
(***************************************************************************)
(* Proofs about RemoteSync for any number of sets, contents, keys, edits   *)
(* and faults, for a trusted and for an untrusted source.                  *)
(***************************************************************************)
EXTENDS RemoteSync, SequenceTheorems, TLAPS

\* The server's tables: rows of the right type, a signed publication carries
\* its key's signature over its own place, and what is served exists.
LogOK ==
    /\ versions \in [Sets -> Seq(Files)]
    /\ publications \in [Sets -> Seq(Publications)]
    /\ published \in [Sets -> Nat]
    /\ \A s \in Sets : published[s] # 0 => published[s] \in DOMAIN versions[s]
    /\ \A s \in Sets : \A n \in DOMAIN publications[s] :
          LET p == publications[s][n] IN
             /\ p.revision \in DOMAIN versions[s]
             /\ p.keyID # NoKey =>
                   Verify(p.keyID, For(s, n, p.revision, versions[s][p.revision]),
                          p.signature)

\* No row of the tables changes or disappears.
Grows(vs, ps, vsNext, psNext) ==
    \A s \in Sets :
       /\ \A n \in DOMAIN vs[s] : n \in DOMAIN vsNext[s] /\ vsNext[s][n] = vs[s][n]
       /\ \A n \in DOMAIN ps[s] : n \in DOMAIN psNext[s] /\ psNext[s][n] = ps[s][n]

\* The copy is a publication of set s in the tables vs and ps.
PublishedIn(vs, ps, s, copy) ==
    /\ copy.publication \in DOMAIN ps[s]
    /\ ps[s][copy.publication].keyID = copy.signedBy
    /\ vs[s][ps[s][copy.publication].revision] = copy.raw

\* A copy that names a key is one of that key's publications.
Genuine(vs, ps, copy) ==
    copy.signedBy # NoKey => \E s \in Sets : PublishedIn(vs, ps, s, copy)

\* The signature file is about a signed publication of some set.
SignedIn(ps, pub) ==
    \E s \in Sets :
       /\ pub.number \in DOMAIN ps[s]
       /\ ps[s][pub.number].keyID = pub.keyID
       /\ ps[s][pub.number].signature = pub.signature
       /\ pub.keyID # NoKey

\* What a reconcile holds besides its types: its copy is genuine and, with
\* signatures, trusted; a body and a signature file are there to be checked.
RecOK ==
    at # "idle" =>
       /\ Genuine(versions, publications, rec.out)
       /\ rec.spec.mode = "signed" /\ rec.out.raw # NoFile => Trusted(rec.spec, rec.out)
       /\ at \in {"signature", "check"} => rec.body \in Files /\ rec.spec.mode = "signed"
       /\ at = "check" => SignedIn(publications, rec.pub)

\* The copies that outlive a reconcile are genuine.
CopiesOK ==
    /\ Genuine(versions, publications, cm.copy)
    /\ Genuine(versions, publications, cache.copy)

\* The inductive invariant, whatever the cache does.
IInv == LogOK /\ TypeOK /\ CopiesOK /\ RecOK

\* What the copy a reconcile settled on has to do with the ConfigMap, when
\* the cache does not lag: the last good copy until something is accepted,
\* and then no older publication of the set the policy names.
Settled ==
    /\ at \in {"pull", "signature", "check"} => ~rec.synced
    /\ at \in {"pull", "signature", "check", "render"} =>
          \/ rec.out = LastGood(rec.spec, cm.copy)
          \/ /\ rec.synced
             /\ rec.spec.mode = "signed" =>
                   /\ PublishedIn(versions, publications, rec.spec.url, rec.out)
                   /\ rec.out.publication >= LastGood(rec.spec, cm.copy).publication

\* The inductive invariant when the cache does not lag.
InStep == IInv /\ fresh /\ cache = cm /\ Settled

------------------------------------------------------------------------------
(* The server's tables.                                                    *)

\* A row appended to a table is its last and the others stay.
LEMMA AppendRow ==
    ASSUME NEW S, NEW t \in Seq(S), NEW row \in S
    PROVE  /\ Append(t, row) \in Seq(S)
           /\ DOMAIN t = 1 .. Len(t) /\ Len(t) \in Nat
           /\ DOMAIN Append(t, row) = 1 .. (Len(t) + 1)
           /\ \A i \in 1 .. Len(t) : Append(t, row)[i] = t[i]
           /\ Append(t, row)[Len(t) + 1] = row
  OBVIOUS

\* Tables that did not change have grown.
LEMMA SameGrows ==
    ASSUME NEW vs, NEW ps
    PROVE  Grows(vs, ps, vs, ps)
  BY DEF Grows

\* AddVersion appends a file, which no publication names yet.
LEMMA AddVersionKeeps ==
    ASSUME LogOK, NEW s \in Sets, NEW c \in Contents, AddVersion(s, c)
    PROVE  LogOK' /\ Grows(versions, publications, versions', publications')
  <1> DEFINE row == Canonical(c, Len(versions[s]) + 1)
  <1>1. versions[s] \in Seq(Files) /\ versions \in [Sets -> Seq(Files)]
    BY DEF LogOK
  <1>2. row \in Files
    BY <1>1 DEF Files, Canonical
  <1>3. versions' = [versions EXCEPT ![s] = Append(versions[s], row)]
    BY DEF AddVersion
  <1> HIDE DEF row
  <1>4. UNCHANGED <<publications, published>>
    BY DEF AddVersion
  <1>5. \A x \in Sets : \A n \in DOMAIN versions[x] :
           n \in DOMAIN versions'[x] /\ versions'[x][n] = versions[x][n]
    <2> TAKE x \in Sets
    <2>1. CASE x = s
      BY <1>1, <1>2, <1>3, <2>1, AppendRow
    <2>2. CASE x # s
      BY <1>1, <1>3, <2>2
    <2> QED BY <2>1, <2>2
  <1>6. versions' \in [Sets -> Seq(Files)]
    BY <1>1, <1>2, <1>3, AppendRow
  <1>7. LogOK'
    BY <1>4, <1>5, <1>6 DEF LogOK
  <1> QED BY <1>4, <1>5, <1>7 DEF Grows

\* Publish appends a publication that verifies for its own place.
LEMMA PublishKeeps ==
    ASSUME LogOK, NEW s \in Sets, NEW rev, NEW k, NEW sig, Publish(s, rev, k, sig)
    PROVE  LogOK' /\ Grows(versions, publications, versions', publications')
  <1> DEFINE row == [revision |-> rev, keyID |-> k, signature |-> sig]
  <1>1. /\ publications[s] \in Seq(Publications)
        /\ publications \in [Sets -> Seq(Publications)]
        /\ versions \in [Sets -> Seq(Files)]
        /\ published \in [Sets -> Nat]
    BY DEF LogOK
  <1>2. /\ rev \in DOMAIN versions[s] /\ versions' = versions
        /\ published' = [published EXCEPT ![s] = rev]
        /\ publications' = [publications EXCEPT ![s] = Append(publications[s], row)]
        /\ Acceptable(s, rev, k, sig)
    BY DEF Publish
  <1>3. rev \in Nat \ {0} /\ versions[s][rev] \in Files
    BY <1>1, <1>2
  <1>4. row \in Publications
    <2>1. CASE k = NoKey /\ sig = NoSig
      BY <1>3, <2>1 DEF Publications
    <2>2. CASE k \in Keys /\ Verify(k, For(s, NextPublication(s), rev, versions[s][rev]), sig)
      <3>1. NextPublication(s) \in Nat \ {0}
        BY <1>1 DEF NextPublication
      <3>2. For(s, NextPublication(s), rev, versions[s][rev]) \in Statements
        BY <1>3, <3>1 DEF For, Statements
      <3>3. sig \in Signatures
        BY <2>2, <3>2 DEF Verify, Signature, Signatures
      <3> QED BY <1>3, <2>2, <3>3 DEF Publications
    <2> QED BY <1>2, <2>1, <2>2 DEF Acceptable
  <1>5. /\ row.revision = rev
        /\ row.keyID # NoKey => Verify(row.keyID, For(s, Len(publications[s]) + 1, row.revision,
                                         versions[s][row.revision]), row.signature)
    BY <1>2 DEF Acceptable, NextPublication
  <1> HIDE DEF row
  <1>6. \A x \in Sets \ {s} : publications'[x] = publications[x]
    BY <1>1, <1>2
  <1>7. /\ publications'[s] = Append(publications[s], row)
        /\ publications' \in [Sets -> Seq(Publications)]
    BY <1>1, <1>2, <1>4, AppendRow
  <1>8. /\ Len(publications[s]) \in Nat
        /\ DOMAIN publications[s] = 1 .. Len(publications[s])
        /\ DOMAIN publications'[s] = 1 .. (Len(publications[s]) + 1)
        /\ \A n \in 1 .. Len(publications[s]) : publications'[s][n] = publications[s][n]
        /\ publications'[s][Len(publications[s]) + 1] = row
    BY <1>1, <1>4, <1>7, AppendRow
  <1>9. Grows(versions, publications, versions', publications')
    BY <1>2, <1>6, <1>8 DEF Grows
  <1>10. \A x \in Sets : \A n \in DOMAIN publications'[x] :
            /\ publications'[x][n].revision \in DOMAIN versions'[x]
            /\ publications'[x][n].keyID # NoKey =>
                  Verify(publications'[x][n].keyID,
                         For(x, n, publications'[x][n].revision,
                             versions'[x][publications'[x][n].revision]),
                         publications'[x][n].signature)
    <2> TAKE x \in Sets
    <2> TAKE n \in DOMAIN publications'[x]
    <2>1. CASE x # s \/ n # Len(publications[s]) + 1
      <3>1. n \in DOMAIN publications[x] /\ publications'[x][n] = publications[x][n]
        BY <1>6, <1>8, <2>1
      <3> QED BY <1>2, <3>1 DEF LogOK
    <2>2. CASE x = s /\ n = Len(publications[s]) + 1
      BY <1>2, <1>5, <1>8, <2>2
    <2> QED BY <2>1, <2>2
  <1>11. /\ published' \in [Sets -> Nat]
         /\ \A x \in Sets : published'[x] # 0 => published'[x] \in DOMAIN versions'[x]
    BY <1>1, <1>2, <1>3 DEF LogOK
  <1>12. LogOK'
    BY <1>1, <1>2, <1>7, <1>10, <1>11 DEF LogOK
  <1> QED BY <1>9, <1>12

LEMMA ServerKeeps ==
    ASSUME LogOK, ServerStep
    PROVE  LogOK' /\ Grows(versions, publications, versions', publications')
  BY AddVersionKeeps, PublishKeeps DEF ServerStep

\* What a copy or a signature file says of the tables stays true of them.
LEMMA GenuineKept ==
    ASSUME NEW vs, NEW ps, NEW vsNext, NEW psNext, Grows(vs, ps, vsNext, psNext),
           \A s \in Sets : \A n \in DOMAIN ps[s] : ps[s][n].revision \in DOMAIN vs[s]
    PROVE  /\ \A s \in Sets : \A c : PublishedIn(vs, ps, s, c) => PublishedIn(vsNext, psNext, s, c)
           /\ \A c : Genuine(vs, ps, c) => Genuine(vsNext, psNext, c)
           /\ \A pub : SignedIn(ps, pub) => SignedIn(psNext, pub)
  <1>1. ASSUME NEW s \in Sets, NEW c, PublishedIn(vs, ps, s, c)
        PROVE  PublishedIn(vsNext, psNext, s, c)
    <2>1. /\ c.publication \in DOMAIN psNext[s]
          /\ psNext[s][c.publication] = ps[s][c.publication]
          /\ ps[s][c.publication].revision \in DOMAIN vs[s]
      BY <1>1 DEF PublishedIn, Grows
    <2> QED BY <1>1, <2>1 DEF PublishedIn, Grows
  <1>2. ASSUME NEW c, Genuine(vs, ps, c) PROVE Genuine(vsNext, psNext, c)
    BY <1>1, <1>2 DEF Genuine
  <1>3. ASSUME NEW pub, SignedIn(ps, pub) PROVE SignedIn(psNext, pub)
    BY <1>3 DEF SignedIn, Grows
  <1> QED BY <1>1, <1>2, <1>3

------------------------------------------------------------------------------
(* What a reconcile decides.                                               *)

LEMMA NoCopyFacts ==
    /\ NoCopy \in Copies /\ NoCopy.raw = NoFile /\ NoCopy.signedBy = NoKey
    /\ NoCopy.publication = 0
  BY DEF NoCopy, Copies

\* A file without signature, or none, is a copy that names no key.
LEMMA PlainCopy ==
    ASSUME NEW f \in Files \union {NoFile}
    PROVE  /\ [NoCopy EXCEPT !.raw = f] \in Copies
           /\ [NoCopy EXCEPT !.raw = f].signedBy = NoKey
           /\ [NoCopy EXCEPT !.raw = f].raw = f
  BY DEF NoCopy, Copies

LEMMA CopyFacts ==
    ASSUME NEW c \in Copies
    PROVE  /\ c.raw \in Files \union {NoFile} /\ c.publication \in Nat
           /\ c.signedBy \in Keys => c.raw # NoFile
           /\ c.signedBy \in Keys \union {NoKey}
  BY NoKeyAssumption DEF Copies

\* LastGood gives the copy as it is, its file alone, or nothing.
LEMMA LastGoodFacts ==
    ASSUME NEW sp \in Specs, NEW c \in Copies
    PROVE  /\ LastGood(sp, c) \in Copies
           /\ LastGood(sp, c) = c \/ LastGood(sp, c).signedBy = NoKey
           /\ sp.mode = "signed" /\ LastGood(sp, c).raw # NoFile =>
                 LastGood(sp, c) = c /\ Trusted(sp, c)
           /\ sp.mode = "signed" /\ Trusted(sp, c) => LastGood(sp, c) = c
           /\ sp.mode = "plain" => LastGood(sp, c).raw = c.raw
  <1>1. CASE sp.mode = "plain"
    <2>1. LastGood(sp, c) = [NoCopy EXCEPT !.raw = c.raw]
      BY <1>1 DEF LastGood
    <2>2. c.raw \in Files \union {NoFile}
      BY CopyFacts
    <2> QED BY <1>1, <2>1, <2>2, PlainCopy
  <1>2. CASE sp.mode = "signed" /\ Trusted(sp, c)
    <2>1. LastGood(sp, c) = c
      BY <1>2 DEF LastGood
    <2> QED BY <1>2, <2>1
  <1>3. CASE sp.mode # "plain" /\ ~(sp.mode = "signed" /\ Trusted(sp, c))
    <2>1. LastGood(sp, c) = NoCopy
      BY <1>3 DEF LastGood
    <2> QED BY <1>3, <2>1, NoCopyFacts
  <1> QED BY <1>1, <1>2, <1>3

\* The specs the API server takes have their type.
LEMMA PolicySpecsType ==
    ASSUME NEW g \in Nat
    PROVE  PolicySpecs(g) \subseteq Specs
  BY DEF PolicySpecs, Specs, Modes

\* What the source sends as a file is one.
LEMMA BodiesType ==
    ASSUME LogOK, NEW s \in Sets
    PROVE  Bodies(s) \subseteq Files
  <1>1. CASE UntrustedSource
    BY <1>1 DEF Bodies, Canonical, Files
  <1>2. CASE ~UntrustedSource
    <2>1. published[s] # 0 => versions[s][published[s]] \in Files
      BY DEF LogOK
    <2> QED BY <1>2, <2>1 DEF Bodies
  <1> QED BY <1>1, <1>2

\* What the source sends as a signature file is about a signed publication.
LEMMA SigFilesGenuine ==
    ASSUME LogOK, NEW s \in Sets, NEW pub \in SigFiles(s)
    PROVE  pub \in SigFilePubs /\ SignedIn(publications, pub)
  <1>1. PICK t \in Sets : \E n \in DOMAIN publications[t] :
           /\ publications[t][n].keyID # NoKey
           /\ pub = [number |-> n, keyID |-> publications[t][n].keyID,
                     signature |-> publications[t][n].signature]
    <2>1. CASE UntrustedSource
      BY <2>1 DEF SigFiles, SignedOf
    <2>2. CASE ~UntrustedSource
      <3>1. publications[s] \in Seq(Publications)
        BY DEF LogOK
      <3>2. \A n \in {Len(publications[s])} \ {0} : n \in DOMAIN publications[s]
        BY <3>1
      <3> QED BY <2>2, <3>2 DEF SigFiles, SignedOf
    <2> QED BY <2>1, <2>2
  <1>2. PICK n \in DOMAIN publications[t] :
           /\ publications[t][n].keyID # NoKey
           /\ pub = [number |-> n, keyID |-> publications[t][n].keyID,
                     signature |-> publications[t][n].signature]
    BY <1>1
  <1>3. publications[t] \in Seq(Publications)
    BY DEF LogOK
  <1>4. n \in Nat /\ publications[t][n] \in Publications
    BY <1>3
  <1>5. pub \in SigFilePubs
    BY <1>2, <1>4 DEF SigFilePubs, Publications
  <1>6. SignedIn(publications, pub)
    BY <1>2 DEF SignedIn
  <1> QED BY <1>5, <1>6

\* What Check accepts is the publication of the named set that the signature
\* file is about, whatever was sent as its body.
LEMMA CheckGenuine ==
    ASSUME LogOK, NEW sp \in Specs, NEW min, NEW body \in Files, NEW pub,
           NEW revision, SignedIn(publications, pub), Check(sp, min, body, pub, revision)
    PROVE  LET c == [raw |-> body, signedBy |-> pub.keyID, publication |-> pub.number] IN
             /\ c \in Copies
             /\ PublishedIn(versions, publications, sp.url, c)
             /\ Trusted(sp, c) /\ c.publication >= min
  <1>1. PICK s \in Sets :
           /\ pub.number \in DOMAIN publications[s]
           /\ publications[s][pub.number].keyID = pub.keyID
           /\ publications[s][pub.number].signature = pub.signature
           /\ pub.keyID # NoKey
    BY DEF SignedIn
  <1> DEFINE p == publications[s][pub.number]
  <1>2. pub.signature = Signature(pub.keyID, For(s, pub.number, p.revision, versions[s][p.revision]))
    BY <1>1 DEF LogOK, Verify
  <1>3. /\ pub.signature = Signature(pub.keyID, For(sp.url, pub.number, revision, body))
        /\ pub.keyID \in sp.keys /\ pub.number >= min
    BY DEF Check, Verify
  <1>4. For(s, pub.number, p.revision, versions[s][p.revision])
          = For(sp.url, pub.number, revision, body)
    <2>1. \A k, x, y : Signature(k, x) = Signature(k, y) => x = y
      BY DEF Signature
    <2> QED BY <1>2, <1>3, <2>1
  <1>5. s = sp.url /\ versions[s][p.revision] = body
    <2>1. \A a, b, n, r, q, f, g : For(a, n, r, f) = For(b, n, q, g) => a = b /\ f = g
      BY DEF For
    <2> QED BY <1>4, <2>1
  <1>6. pub.number \in Nat \ {0} /\ pub.keyID \in Keys
    <2>1. publications[s] \in Seq(Publications)
      BY DEF LogOK
    <2> QED BY <1>1, <1>3, <2>1 DEF Specs
  <1>7. [raw |-> body, signedBy |-> pub.keyID, publication |-> pub.number] \in Copies
    BY <1>6, NoKeyAssumption, SyncAssumption DEF Copies
  <1> QED BY <1>1, <1>3, <1>5, <1>7 DEF PublishedIn, Trusted

------------------------------------------------------------------------------
(* The invariant, action by action.                                        *)

LEMMA LogKept ==
    ASSUME LogOK, UNCHANGED logVars
    PROVE  LogOK'
  BY DEF LogOK, logVars

\* A step inside a reconcile, which changes nothing but what it holds.
LEMMA Inside ==
    ASSUME IInv, at # "idle", at' \in {"pull", "signature", "check", "render", "status"},
           UNCHANGED <<logVars, spec, status, cm, cache, fresh, due, down, faults>>,
           rec' \in Recs, RecOK'
    PROVE  IInv'
  <1>1. LogOK'
    BY LogKept DEF IInv, logVars
  <1>2. TypeOK'
    BY DEF IInv, TypeOK
  <1>3. CopiesOK'
    BY DEF IInv, CopiesOK, logVars
  <1> QED BY <1>1, <1>2, <1>3 DEF IInv

\* Start: what the last good copy inherits from the cached ConfigMap.
LEMMA StartInv ==
    ASSUME IInv, Start
    PROVE  /\ IInv'
           /\ rec'.out = LastGood(rec'.spec, cache.copy)
           /\ rec'.synced = FALSE
  <1> DEFINE out  == LastGood(spec, cache.copy)
             pull == spec.mode \in {"plain", "signed"}
  <1>1. /\ rec' = [spec |-> spec, out |-> out, body |-> NoFile, pub |-> NoPub,
                   remote |-> IF pull THEN status.remote ELSE NoCopy,
                   synced |-> FALSE, rendered |-> FALSE]
        /\ at' \in {"pull", "render"} /\ due' = "no"
        /\ UNCHANGED <<logVars, spec, status, cm, cache, fresh, down, faults>>
    BY DEF Start
  <1>2. /\ spec \in Specs /\ cache.copy \in Copies /\ status.remote \in Copies
        /\ Genuine(versions, publications, cache.copy)
    BY DEF IInv, TypeOK, ConfigMaps, Statuses, CopiesOK
  <1>3. /\ out \in Copies
        /\ out = cache.copy \/ out.signedBy = NoKey
        /\ spec.mode = "signed" /\ out.raw # NoFile => out = cache.copy /\ Trusted(spec, cache.copy)
    BY <1>2, LastGoodFacts
  <1>4. Genuine(versions, publications, out)
    BY <1>2, <1>3 DEF Genuine
  <1>5. (IF pull THEN status.remote ELSE NoCopy) \in Copies /\ NoPub \in SigFilePubs
    BY <1>2, NoCopyFacts DEF NoPub, SigFilePubs
  <1> DEFINE remote == IF pull THEN status.remote ELSE NoCopy
  <1> HIDE DEF out, pull, remote
  <1>6. rec' \in Recs /\ rec'.out = out /\ rec'.spec = spec /\ rec'.synced = FALSE
    BY <1>1, <1>2, <1>3, <1>5 DEF Recs
  <1>7. LogOK'
    BY <1>1, LogKept DEF IInv
  <1>8. TypeOK'
    BY <1>1, <1>6 DEF IInv, TypeOK
  <1>9. CopiesOK'
    BY <1>1 DEF IInv, CopiesOK, logVars
  <1>10. RecOK'
    BY <1>1, <1>3, <1>4, <1>6 DEF RecOK, logVars
  <1> QED BY <1>1, <1>6, <1>7, <1>8, <1>9, <1>10 DEF IInv, out

\* A pull that fails keeps what the reconcile holds.
LEMMA FailInv ==
    ASSUME IInv, at \in {"pull", "signature", "check"}, Fail
    PROVE  IInv'
  <1>1. rec' \in Recs /\ at' = "render"
    BY DEF Fail, IInv, TypeOK
  <1>2. RecOK'
    BY <1>1 DEF Fail, IInv, RecOK, logVars
  <1> QED BY <1>1, <1>2, Inside DEF Fail

\* Accepting a copy that is genuine and that the policy trusts.
LEMMA AcceptInv ==
    ASSUME IInv, at \in {"pull", "signature", "check"}, NEW c \in Copies, Accept(c),
           Genuine(versions, publications, c),
           rec.spec.mode = "signed" /\ c.raw # NoFile => Trusted(rec.spec, c)
    PROVE  /\ IInv'
           /\ rec'.out = c /\ rec'.synced = TRUE /\ rec'.spec = rec.spec
  <1>1. rec \in Recs
    BY DEF IInv, TypeOK
  <1>2. /\ rec' = [rec EXCEPT !.out = c, !.remote = c, !.synced = TRUE]
        /\ at' = "render"
        /\ UNCHANGED <<logVars, spec, status, cm, cache, fresh, due, down, faults>>
    BY DEF Accept
  <1>3. rec' \in Recs /\ rec'.out = c /\ rec'.synced = TRUE /\ rec'.spec = rec.spec
    BY <1>1, <1>2 DEF Recs
  <1>4. RecOK'
    BY <1>2, <1>3 DEF RecOK, Trusted, logVars
  <1> QED BY <1>2, <1>3, <1>4, Inside

\* 304: the copy the reconcile already holds.
LEMMA NotModifiedInv ==
    ASSUME IInv, NotModified
    PROVE  /\ IInv'
           /\ rec'.out = rec.out /\ rec'.synced = TRUE /\ rec'.spec = rec.spec
  <1>1. /\ at = "pull" /\ Accept(rec.out) /\ rec.out \in Copies
        /\ Genuine(versions, publications, rec.out)
        /\ rec.spec.mode = "signed" /\ rec.out.raw # NoFile => Trusted(rec.spec, rec.out)
    BY DEF NotModified, IInv, TypeOK, Recs, RecOK
  <1> QED BY <1>1, AcceptInv

\* 200 without signature: a file that names no key.
LEMMA PullPlainInv ==
    ASSUME IInv, PullPlain
    PROVE  /\ IInv'
           /\ rec'.synced = TRUE /\ rec'.spec = rec.spec
  <1>1. rec.spec.url \in Sets
    BY DEF IInv, PullPlain, TypeOK, Recs, Specs
  <1>2. PICK body \in Bodies(rec.spec.url) : Accept([NoCopy EXCEPT !.raw = body])
    BY DEF PullPlain, NewBodies
  <1>3. body \in Files
    BY <1>1, <1>2, BodiesType DEF IInv
  <1> DEFINE c == [NoCopy EXCEPT !.raw = body]
  <1>4. c \in Copies /\ c.signedBy = NoKey
    BY <1>3, PlainCopy
  <1>5. Accept(c)
    BY <1>2
  <1> HIDE DEF c
  <1>6. Genuine(versions, publications, c) /\ rec.spec.mode # "signed"
    BY <1>4 DEF Genuine, PullPlain
  <1>7. at = "pull"
    BY DEF PullPlain
  <1> QED BY <1>4, <1>5, <1>6, <1>7, AcceptInv

\* 200 with a signature still to be fetched.
LEMMA PullSignedInv ==
    ASSUME IInv, PullSigned
    PROVE  /\ IInv'
           /\ rec'.out = rec.out /\ rec'.synced = rec.synced /\ rec'.spec = rec.spec
  <1>1. rec \in Recs /\ rec.spec.url \in Sets /\ at = "pull" /\ rec.spec.mode = "signed"
    BY DEF IInv, PullSigned, TypeOK, Recs, Specs
  <1>2. PICK body \in Bodies(rec.spec.url) : rec' = [rec EXCEPT !.body = body]
    BY DEF PullSigned, NewBodies
  <1>3. body \in Files
    BY <1>1, <1>2, BodiesType DEF IInv
  <1>4. /\ rec' \in Recs /\ rec'.body \in Files
        /\ rec'.out = rec.out /\ rec'.synced = rec.synced /\ rec'.spec = rec.spec
    BY <1>1, <1>2, <1>3 DEF Recs
  <1>5. at' = "signature" /\ UNCHANGED <<logVars, spec, status, cm, cache, fresh, due, down, faults>>
    BY DEF PullSigned
  <1>6. RecOK'
    BY <1>1, <1>4, <1>5 DEF IInv, RecOK, Trusted, logVars
  <1> QED BY <1>1, <1>4, <1>5, <1>6, Inside

\* FetchSignature: the file is about a publication of some set.
LEMMA FetchSignatureInv ==
    ASSUME IInv, FetchSignature
    PROVE  /\ IInv'
           /\ rec'.out = rec.out /\ rec'.synced = rec.synced /\ rec'.spec = rec.spec
  <1>1. rec \in Recs /\ rec.spec.url \in Sets /\ at = "signature"
    BY DEF IInv, FetchSignature, TypeOK, Recs, Specs
  <1>2. PICK pub \in SigFiles(rec.spec.url) : rec' = [rec EXCEPT !.pub = pub]
    BY DEF FetchSignature
  <1>3. pub \in SigFilePubs /\ SignedIn(publications, pub)
    BY <1>1, <1>2, SigFilesGenuine DEF IInv
  <1>4. /\ rec' \in Recs /\ rec'.pub = pub /\ rec'.body = rec.body
        /\ rec'.out = rec.out /\ rec'.synced = rec.synced /\ rec'.spec = rec.spec
    BY <1>1, <1>2, <1>3 DEF Recs
  <1>5. at' = "check" /\ UNCHANGED <<logVars, spec, status, cm, cache, fresh, due, down, faults>>
    BY DEF FetchSignature
  <1>6. RecOK'
    BY <1>1, <1>3, <1>4, <1>5 DEF IInv, RecOK, Trusted, logVars
  <1> QED BY <1>1, <1>4, <1>5, <1>6, Inside

\* CheckSignature accepts a publication of the named set, no older than the
\* last good copy, or leaves the reconcile as it was.
LEMMA CheckSignatureInv ==
    ASSUME IInv, CheckSignature
    PROVE  /\ IInv'
           /\ \/ UNCHANGED rec
              \/ /\ rec'.synced = TRUE /\ rec'.spec = rec.spec
                 /\ PublishedIn(versions, publications, rec.spec.url, rec'.out)
                 /\ rec'.out.publication >= rec.out.publication
  <1>1. /\ rec \in Recs /\ rec.spec \in Specs /\ rec.spec.url \in Sets /\ at = "check"
        /\ rec.body \in Files /\ SignedIn(publications, rec.pub)
    BY DEF IInv, CheckSignature, TypeOK, Recs, Specs, RecOK
  <1>2. PICK revision :
           IF Check(rec.spec, rec.out.publication, rec.body, rec.pub, revision)
             THEN Accept([raw |-> rec.body, signedBy |-> rec.pub.keyID,
                          publication |-> rec.pub.number])
             ELSE Fail
    BY DEF CheckSignature
  <1>3. CASE ~Check(rec.spec, rec.out.publication, rec.body, rec.pub, revision)
    <2>1. Fail
      BY <1>2, <1>3
    <2> QED BY <1>1, <2>1, FailInv DEF Fail
  <1>4. CASE Check(rec.spec, rec.out.publication, rec.body, rec.pub, revision)
    <2> DEFINE c == [raw |-> rec.body, signedBy |-> rec.pub.keyID,
                     publication |-> rec.pub.number]
    <2>1. /\ c \in Copies /\ PublishedIn(versions, publications, rec.spec.url, c)
          /\ Trusted(rec.spec, c) /\ c.publication >= rec.out.publication
      BY <1>1, <1>4, CheckGenuine DEF IInv
    <2>2. Accept(c)
      BY <1>2, <1>4
    <2> HIDE DEF c
    <2>3. Genuine(versions, publications, c)
      BY <1>1, <2>1 DEF Genuine
    <2> QED BY <1>1, <2>1, <2>2, <2>3, AcceptInv
  <1> QED BY <1>3, <1>4

\* CreateOrUpdate writes the copy the reconcile settled on.
LEMMA RenderInv ==
    ASSUME IInv, RenderConfigMap
    PROVE  IInv'
  <1>1. /\ rec \in Recs /\ rec.spec.generation \in Nat /\ rec.out \in Copies
        /\ at = "render" /\ Genuine(versions, publications, rec.out)
    BY DEF IInv, RenderConfigMap, TypeOK, Recs, Specs, RecOK
  <1>2. Rendered(rec) \in ConfigMaps /\ Rendered(rec).copy = rec.out
    BY <1>1 DEF Rendered, ConfigMaps
  <1>3. /\ rec' = [rec EXCEPT !.rendered = TRUE] /\ at' = "status"
        /\ UNCHANGED <<logVars, spec, status, down, faults>>
        /\ cm' \in {cm, Rendered(rec)} /\ cache' \in {cache, Rendered(rec)}
        /\ due' \in {due, "now"}
    BY DEF RenderConfigMap
  <1>4. fresh' \in BOOLEAN
    <2>1. fresh' \in {fresh, FALSE}
      BY DEF RenderConfigMap
    <2> QED BY <2>1 DEF IInv, TypeOK
  <1>5. /\ rec' \in Recs /\ rec'.out = rec.out /\ rec'.spec = rec.spec
    BY <1>1, <1>3 DEF Recs
  <1>6. LogOK'
    BY <1>3, LogKept DEF IInv
  <1>7. cm' \in ConfigMaps /\ cache' \in ConfigMaps
    BY <1>2, <1>3 DEF IInv, TypeOK
  <1>8. TypeOK'
    BY <1>3, <1>4, <1>5, <1>7 DEF IInv, TypeOK
  <1>9. CopiesOK'
    BY <1>1, <1>2, <1>3 DEF IInv, CopiesOK, logVars
  <1>10. RecOK'
    BY <1>1, <1>3, <1>5 DEF IInv, RecOK, Trusted, logVars
  <1> QED BY <1>6, <1>8, <1>9, <1>10 DEF IInv

LEMMA RenderFailsInv ==
    ASSUME IInv, RenderFails
    PROVE  IInv'
  <1>1. at = "render" /\ at' = "status" /\ UNCHANGED <<logVars, spec, status, cm, cache, fresh, rec, due, down>>
    BY DEF RenderFails
  <1>2. faults' \in 0 .. MaxFaults
    BY SyncAssumption DEF RenderFails, IInv, TypeOK
  <1>3. LogOK'
    BY <1>1, LogKept DEF IInv
  <1>4. TypeOK'
    BY <1>1, <1>2 DEF IInv, TypeOK
  <1>5. CopiesOK' /\ RecOK'
    BY <1>1 DEF IInv, CopiesOK, RecOK, Trusted, logVars
  <1> QED BY <1>3, <1>4, <1>5 DEF IInv

\* The end of a reconcile, and the steps outside: they move copies between
\* the ConfigMap, the cache and the status and make none.
LEMMA OutsideInv ==
    ASSUME IInv, WriteStatus \/ StatusFails \/ CacheSync \/ Restart
                   \/ SourceDown \/ SourceUp \/ EditSpec
    PROVE  IInv'
  <1>1. /\ UNCHANGED <<logVars, cm>>
        /\ cache' \in {cache, cm}
        /\ UNCHANGED <<at, rec>> \/ (at' = "idle" /\ rec' = NoRec)
    BY DEF WriteStatus, StatusFails, CacheSync, Restart, SourceDown, SourceUp, EditSpec
  <1>2. fresh' \in BOOLEAN
    <2>1. fresh' \in {fresh, TRUE}
      BY DEF WriteStatus, StatusFails, CacheSync, Restart, SourceDown, SourceUp, EditSpec
    <2> QED BY <2>1 DEF IInv, TypeOK
  <1>3. down' \in BOOLEAN
    <2>1. down' \in {down, TRUE, FALSE}
      BY Zenon DEF WriteStatus, StatusFails, CacheSync, Restart, SourceDown, SourceUp, EditSpec
    <2> QED BY <2>1 DEF IInv, TypeOK
  <1>4. due' \in {"no", "later", "now"}
    <2>1. \A r, f : Requeue(r, f) \in {"no", "later", "now"}
      BY DEF Requeue
    <2> QED BY <2>1 DEF IInv, TypeOK, WriteStatus, StatusFails, CacheSync, Restart,
                 SourceDown, SourceUp, EditSpec
  <1>5. faults' \in 0 .. MaxFaults
    <2>1. faults' = faults \/ (faults < MaxFaults /\ faults' = faults + 1)
      BY DEF WriteStatus, StatusFails, CacheSync, Restart, SourceDown, SourceUp, EditSpec
    <2>2. faults \in 0 .. MaxFaults
      BY DEF IInv, TypeOK
    <2> QED BY <2>1, <2>2, SyncAssumption
  <1>6. spec' \in Specs
    <2>1. CASE EditSpec
      <3>1. spec.generation + 1 \in Nat
        BY DEF IInv, TypeOK, Specs
      <3> QED BY <2>1, <3>1, PolicySpecsType DEF EditSpec
    <2>2. CASE UNCHANGED spec
      BY <2>2 DEF IInv, TypeOK
    <2> QED BY <2>1, <2>2 DEF WriteStatus, StatusFails, CacheSync, Restart, SourceDown, SourceUp
  <1>7. status' \in Statuses
    <2>1. CASE WriteStatus
      <3>1. /\ rec.remote \in Copies /\ rec.synced \in BOOLEAN /\ rec.rendered \in BOOLEAN
            /\ rec.spec.generation \in Nat
        BY <2>1 DEF IInv, TypeOK, WriteStatus, Recs, Specs
      <3> QED BY <2>1, <3>1 DEF WriteStatus, Statuses
    <2>2. CASE UNCHANGED status
      BY <2>2 DEF IInv, TypeOK
    <2> QED BY <2>1, <2>2 DEF StatusFails, CacheSync, Restart, SourceDown, SourceUp, EditSpec
  <1>8. LogOK'
    BY <1>1, LogKept DEF IInv
  <1>9. cm' \in ConfigMaps /\ cache' \in ConfigMaps
    BY <1>1 DEF IInv, TypeOK
  <1>10. /\ at' \in {"idle", "pull", "signature", "check", "render", "status"}
         /\ (at' = "idle" /\ rec' = NoRec) \/ (at' # "idle" /\ rec' \in Recs)
    BY <1>1 DEF IInv, TypeOK
  <1>11. TypeOK'
    BY <1>2, <1>3, <1>4, <1>5, <1>6, <1>7, <1>9, <1>10 DEF TypeOK
  <1>12. CopiesOK'
    BY <1>1 DEF IInv, CopiesOK, logVars
  <1>13. RecOK'
    BY <1>1 DEF IInv, RecOK, Trusted, logVars
  <1> QED BY <1>8, <1>11, <1>12, <1>13 DEF IInv

\* The server's tables grow and nothing that was read from them is undone.
LEMMA ServerInv ==
    ASSUME IInv, ServerStep
    PROVE  IInv'
  <1>1. LogOK' /\ Grows(versions, publications, versions', publications')
    BY ServerKeeps DEF IInv
  <1>2. UNCHANGED opVars
    BY DEF ServerStep
  <1>3. \A s \in Sets : \A n \in DOMAIN publications[s] :
           publications[s][n].revision \in DOMAIN versions[s]
    BY DEF IInv, LogOK
  <1>4. /\ \A c : Genuine(versions, publications, c) => Genuine(versions', publications', c)
        /\ \A pub : SignedIn(publications, pub) => SignedIn(publications', pub)
    BY <1>1, <1>3, GenuineKept
  <1>5. TypeOK'
    BY <1>2 DEF IInv, TypeOK, opVars
  <1>6. CopiesOK'
    BY <1>2, <1>4 DEF IInv, CopiesOK, opVars
  <1>7. RecOK'
    BY <1>2, <1>4 DEF IInv, RecOK, Trusted, opVars
  <1> QED BY <1>1, <1>5, <1>6, <1>7 DEF IInv

------------------------------------------------------------------------------
(* The theorems that hold whatever the cache does.                         *)

LEMMA InitInv == Init => IInv /\ fresh /\ cache = cm /\ Settled
  <1> SUFFICES ASSUME Init PROVE IInv /\ fresh /\ cache = cm /\ Settled
    OBVIOUS
  <1>1. LogOK
    <2>1. << >> \in Seq(Files) /\ << >> \in Seq(Publications) /\ DOMAIN << >> = {}
      OBVIOUS
    <2> QED BY <2>1 DEF Init, LogInit, LogOK
  <1>2. cm = [copy |-> NoCopy, generation |-> 0] /\ cache = cm
    BY DEF Init
  <1>3. cm.copy = NoCopy /\ cache.copy = NoCopy /\ cm \in ConfigMaps
    BY <1>2, NoCopyFacts DEF ConfigMaps
  <1>4. status \in Statuses
    BY NoCopyFacts DEF Init, Statuses
  <1>5. spec \in Specs
    BY PolicySpecsType DEF Init
  <1>6. fresh \in BOOLEAN /\ down \in BOOLEAN /\ fresh
    BY Zenon DEF Init
  <1>7. at = "idle" /\ rec = NoRec /\ due = "now" /\ faults \in 0 .. MaxFaults
    BY SyncAssumption DEF Init
  <1>8. TypeOK
    BY <1>2, <1>3, <1>4, <1>5, <1>6, <1>7 DEF TypeOK
  <1>9. CopiesOK
    BY <1>3, NoCopyFacts DEF CopiesOK, Genuine
  <1> QED BY <1>1, <1>2, <1>6, <1>7, <1>8, <1>9 DEF IInv, RecOK, Settled

LEMMA NextInv ==
    ASSUME IInv, [Next]_vars
    PROVE  IInv'
  <1>1. CASE PullFails \/ SignatureFails
    <2>1. at \in {"pull", "signature", "check"} /\ Fail
      BY <1>1 DEF PullFails, SignatureFails
    <2> QED BY <2>1, FailInv
  <1>2. CASE Reconcile /\ ~(PullFails \/ SignatureFails)
    BY <1>2, StartInv, NotModifiedInv, PullPlainInv, PullSignedInv, FetchSignatureInv,
       CheckSignatureInv, RenderInv, RenderFailsInv, OutsideInv DEF Reconcile
  <1>3. CASE CacheSync \/ Restart \/ SourceDown \/ SourceUp \/ EditSpec
    BY <1>3, OutsideInv
  <1>4. CASE ServerStep
    BY <1>4, ServerInv
  <1>5. CASE UNCHANGED vars
    <2>1. LogOK'
      BY <1>5, LogKept DEF IInv, vars
    <2>2. TypeOK'
      BY <1>5 DEF IInv, TypeOK, vars, opVars
    <2>3. CopiesOK' /\ RecOK'
      BY <1>5 DEF IInv, CopiesOK, RecOK, Trusted, vars, opVars, logVars
    <2> QED BY <2>1, <2>2, <2>3 DEF IInv
  <1> QED BY <1>1, <1>2, <1>3, <1>4, <1>5 DEF Next, Reconcile

LEMMA IInvImplies == IInv => CopyGenuine
  <1> SUFFICES ASSUME IInv, cm.copy.signedBy # NoKey
               PROVE  \E s \in Sets : IsPublication(s, cm.copy)
    BY DEF IInv, CopyGenuine
  <1>1. PICK s \in Sets : PublishedIn(versions, publications, s, cm.copy)
    BY DEF IInv, CopiesOK, Genuine
  <1> QED BY <1>1 DEF PublishedIn, IsPublication

LEMMA Invariant == Spec => []IInv
  <1>1. Init => IInv
    BY InitInv
  <1>2. IInv /\ [Next]_vars => IInv'
    BY NextInv
  <1> QED BY <1>1, <1>2, PTL DEF Spec

\* A copy recorded as signed is a file the named key published under that
\* number, whatever the source sends and however late the cache is.
THEOREM CopyGenuineHolds == Spec => []CopyGenuine
  BY Invariant, IInvImplies, PTL

\* What a step that writes the ConfigMap writes.
LEMMA Writes ==
    ASSUME IInv, [Next]_vars, cm' # cm
    PROVE  RenderConfigMap /\ cm' = Rendered(rec) /\ cm'.copy = rec.out
  <1>1. RenderConfigMap
    BY DEF Next, Reconcile, Start, PullFails, NotModified, PullPlain, PullSigned,
         SignatureFails, FetchSignature, CheckSignature, RenderFails, WriteStatus,
         StatusFails, CacheSync, Restart, SourceDown, SourceUp, EditSpec, ServerStep,
         Fail, Accept, vars, opVars
  <1>2. cm' = Rendered(rec)
    BY <1>1 DEF RenderConfigMap
  <1> QED BY <1>1, <1>2 DEF Rendered

\* A policy that requires signatures never puts a file into the ConfigMap
\* that none of the keys it read signed.
TrustedKeysOnly ==
    [][/\ cm' # cm
       /\ rec.spec.mode = "signed"
       /\ cm'.copy.raw # NoFile
       => Trusted(rec.spec, cm'.copy)]_vars

\* The keys of the policy a reconcile read decide what it writes, with a
\* cache that lags behind the API server too.
THEOREM TrustedKeysOnlyHolds == Spec => TrustedKeysOnly
  <1>1. IInv /\ [Next]_vars =>
          [/\ cm' # cm
           /\ rec.spec.mode = "signed"
           /\ cm'.copy.raw # NoFile
           => Trusted(rec.spec, cm'.copy)]_vars
    <2> SUFFICES ASSUME IInv, [Next]_vars, cm' # cm, rec.spec.mode = "signed",
                        cm'.copy.raw # NoFile
                 PROVE  Trusted(rec.spec, cm'.copy)
      OBVIOUS
    <2>1. RenderConfigMap /\ cm'.copy = rec.out
      BY Writes
    <2> QED BY <2>1 DEF IInv, RecOK, RenderConfigMap, Trusted
  <1> QED BY <1>1, Invariant, PTL DEF Spec, TrustedKeysOnly

------------------------------------------------------------------------------
(* The theorems about a cache that does not lag.  A reconcile that reads a *)
(* copy older than the ConfigMap's, and whose cache catches up before it   *)
(* renders, writes that older copy: with CacheLag they are false.          *)

\* Settled depends on the tables, the ConfigMap and the reconcile alone.
LEMMA SettledKept ==
    ASSUME Settled, UNCHANGED <<logVars, cm, at, rec>>
    PROVE  Settled'
  BY DEF Settled, LastGood, Trusted, logVars

LEMMA NextInStep ==
    ASSUME ~CacheLag, InStep, [Next]_vars
    PROVE  InStep'
  <1>0. IInv /\ IInv' /\ fresh /\ cache = cm /\ Settled
    BY NextInv DEF InStep
  <1>1. CASE Start
    <2>1. /\ rec'.out = LastGood(rec'.spec, cache.copy) /\ rec'.synced = FALSE
          /\ at' \in {"pull", "render"} /\ UNCHANGED <<cm, cache, fresh>>
      BY <1>0, <1>1, StartInv DEF Start
    <2>2. Settled'
      BY <1>0, <2>1 DEF Settled, LastGood, Trusted
    <2> QED BY <1>0, <2>1, <2>2 DEF InStep
  <1>2. CASE PullFails \/ SignatureFails
    <2>1. /\ at \in {"pull", "signature"} /\ at' = "render"
          /\ UNCHANGED <<logVars, cm, cache, fresh, rec>>
      BY <1>2 DEF PullFails, SignatureFails, Fail
    <2>2. Settled'
      BY <1>0, <2>1 DEF Settled, LastGood, Trusted
    <2> QED BY <1>0, <2>1, <2>2 DEF InStep
  <1>3. CASE NotModified \/ PullSigned \/ FetchSignature
    <2>1. /\ rec'.out = rec.out /\ rec'.spec = rec.spec
          /\ at' = "render" \/ rec'.synced = rec.synced
          /\ at \in {"pull", "signature"} /\ at' \in {"signature", "check", "render"}
          /\ UNCHANGED <<cm, cache, fresh>>
      BY <1>0, <1>3, NotModifiedInv, PullSignedInv, FetchSignatureInv
         DEF NotModified, PullSigned, FetchSignature, Accept
    <2>2. rec'.out = LastGood(rec'.spec, cm'.copy)
      BY <1>0, <2>1 DEF Settled
    <2>3. Settled'
      BY <1>0, <2>1, <2>2 DEF Settled, LastGood, Trusted
    <2> QED BY <1>0, <2>1, <2>3 DEF InStep
  <1>4. CASE PullPlain
    <2>1. /\ rec'.synced = TRUE /\ rec'.spec = rec.spec /\ rec.spec.mode = "plain"
          /\ at' = "render" /\ UNCHANGED <<cm, cache, fresh>>
      BY <1>0, <1>4, PullPlainInv DEF PullPlain, Accept
    <2>2. Settled'
      BY <2>1 DEF Settled
    <2> QED BY <1>0, <2>1, <2>2 DEF InStep
  <1>5. CASE CheckSignature
    <2>1. /\ at = "check" /\ at' = "render" /\ UNCHANGED <<logVars, cm, cache, fresh>>
      BY <1>5 DEF CheckSignature, Fail, Accept
    <2>2. CASE UNCHANGED rec
      <3>1. Settled'
        BY <1>0, <2>1, <2>2 DEF Settled, LastGood, Trusted
      <3> QED BY <1>0, <2>1, <3>1 DEF InStep
    <2>3. CASE /\ rec'.synced = TRUE /\ rec'.spec = rec.spec
               /\ PublishedIn(versions, publications, rec.spec.url, rec'.out)
               /\ rec'.out.publication >= rec.out.publication
      <3>1. rec.out = LastGood(rec.spec, cm.copy)
        BY <1>0, <2>1 DEF Settled
      <3>2. LastGood(rec.spec, cm.copy)' = rec.out
        BY <2>1, <2>3, <3>1 DEF LastGood, Trusted
      <3>3. PublishedIn(versions', publications', rec'.spec.url, rec'.out)
        BY <2>1, <2>3 DEF logVars
      <3>4. Settled'
        BY <2>1, <2>3, <3>2, <3>3 DEF Settled
      <3> QED BY <1>0, <2>1, <3>4 DEF InStep
    <2> QED BY <1>0, <1>5, <2>2, <2>3, CheckSignatureInv
  <1>6. CASE RenderConfigMap
    <2>1. at' = "status" /\ (UNCHANGED <<cm, cache>> \/ (cm' = Rendered(rec) /\ cache' = Rendered(rec)))
      BY <1>6 DEF RenderConfigMap
    <2>2. fresh'
      BY <1>0, <1>6 DEF RenderConfigMap
    <2>3. Settled'
      BY <2>1 DEF Settled
    <2> QED BY <1>0, <2>1, <2>2, <2>3 DEF InStep
  <1>7. CASE RenderFails \/ WriteStatus \/ StatusFails \/ Restart
    <2>1. at' \in {"idle", "status"} /\ UNCHANGED cm /\ cache' \in {cache, cm}
      BY <1>7 DEF RenderFails, WriteStatus, StatusFails, Restart
    <2>2. fresh'
      BY <1>0, <1>7 DEF RenderFails, WriteStatus, StatusFails, Restart
    <2>3. Settled'
      BY <2>1 DEF Settled
    <2> QED BY <1>0, <2>1, <2>2, <2>3 DEF InStep
  <1>8. CASE SourceDown \/ SourceUp \/ EditSpec \/ UNCHANGED vars
    <2>1. UNCHANGED <<logVars, cm, cache, fresh, at, rec>>
      BY <1>8 DEF SourceDown, SourceUp, EditSpec, vars, opVars
    <2>2. Settled'
      BY <1>0, <2>1, SettledKept
    <2> QED BY <1>0, <2>1, <2>2 DEF InStep
  <1>9. CASE CacheSync
    BY <1>0, <1>9 DEF CacheSync
  <1>10. CASE ServerStep
    <2>1. UNCHANGED opVars
      BY <1>10 DEF ServerStep
    <2>2. Grows(versions, publications, versions', publications')
      BY <1>0, <1>10, ServerKeeps DEF IInv
    <2>3. \A s \in Sets : \A n \in DOMAIN publications[s] :
             publications[s][n].revision \in DOMAIN versions[s]
      BY <1>0 DEF IInv, LogOK
    <2>4. \A s \in Sets : \A c : PublishedIn(versions, publications, s, c)
             => PublishedIn(versions', publications', s, c)
      BY <2>2, <2>3, GenuineKept
    <2>5. at # "idle" => rec.spec.url \in Sets
      BY <1>0 DEF IInv, TypeOK, Recs, Specs
    <2>6. Settled'
      BY <1>0, <2>1, <2>4, <2>5 DEF Settled, LastGood, Trusted, opVars
    <2> QED BY <1>0, <2>1, <2>6 DEF InStep, opVars
  <1> QED BY <1>1, <1>2, <1>3, <1>4, <1>5, <1>6, <1>7, <1>8, <1>9, <1>10 DEF Next, Reconcile

LEMMA InStepInvariant ==
    ASSUME ~CacheLag
    PROVE  Spec => []InStep
  <1>1. Init => InStep
    BY InitInv DEF InStep
  <1>2. InStep /\ [Next]_vars => InStep'
    BY NextInStep
  <1> QED BY <1>1, <1>2, PTL DEF Spec

\* What a step writes, as a change of the copy the ConfigMap has.
LEMMA WritesSettled ==
    ASSUME InStep, [Next]_vars, cm' # cm
    PROVE  /\ cm'.copy = rec.out /\ rec.spec \in Specs
           /\ cm.copy \in Copies /\ rec.out \in Copies
           /\ rec.spec.mode = "signed" /\ rec.out.raw # NoFile => Trusted(rec.spec, rec.out)
           /\ \/ rec.out = LastGood(rec.spec, cm.copy)
              \/ /\ rec.synced
                 /\ rec.spec.mode = "signed" =>
                       /\ PublishedIn(versions, publications, rec.spec.url, rec.out)
                       /\ rec.out.publication >= LastGood(rec.spec, cm.copy).publication
  <1>1. RenderConfigMap /\ cm'.copy = rec.out
    BY Writes DEF InStep
  <1>2. at = "render"
    BY <1>1 DEF RenderConfigMap
  <1>3. rec.spec \in Specs /\ cm.copy \in Copies /\ rec.out \in Copies
    BY <1>2 DEF InStep, IInv, TypeOK, Recs, ConfigMaps
  <1> QED BY <1>1, <1>2, <1>3 DEF InStep, IInv, RecOK, Settled

\* A copy the policy trusts is the last good copy and is not empty; a new
\* one is a publication of the set the policy names.
THEOREM TrustedOnlyHolds ==
    ASSUME ~CacheLag
    PROVE  Spec => TrustedOnly
  <1>1. InStep /\ [Next]_vars =>
          [/\ cm' # cm
           /\ rec.spec.mode = "signed"
           /\ cm'.copy.raw # NoFile
           => /\ Trusted(rec.spec, cm'.copy)
              /\ cm'.copy.raw # cm.copy.raw => IsPublication(rec.spec.url, cm'.copy)]_vars
    <2> SUFFICES ASSUME InStep, [Next]_vars, cm' # cm, rec.spec.mode = "signed",
                        cm'.copy.raw # NoFile
                 PROVE  /\ Trusted(rec.spec, cm'.copy)
                        /\ cm'.copy.raw # cm.copy.raw => IsPublication(rec.spec.url, cm'.copy)
      OBVIOUS
    <2>1. Trusted(rec.spec, cm'.copy)
      BY WritesSettled
    <2>2. CASE rec.out = LastGood(rec.spec, cm.copy)
      BY <2>1, <2>2, WritesSettled, LastGoodFacts
    <2>3. CASE PublishedIn(versions, publications, rec.spec.url, rec.out)
      BY <2>1, <2>3, WritesSettled DEF PublishedIn, IsPublication
    <2> QED BY <2>2, <2>3, WritesSettled
  <1> QED BY <1>1, InStepInvariant, PTL DEF Spec, TrustedOnly

\* While the policy trusts the key of the copy it has, that copy gives way
\* only to the same or a later publication number.
THEOREM NeverOlderHolds ==
    ASSUME ~CacheLag
    PROVE  Spec => NeverOlder
  <1>1. InStep /\ [Next]_vars =>
          [/\ cm' # cm
           /\ rec.spec.mode = "signed"
           /\ Trusted(rec.spec, cm.copy)
           => /\ cm'.copy.raw # NoFile
              /\ cm'.copy.publication >= cm.copy.publication]_vars
    <2> SUFFICES ASSUME InStep, [Next]_vars, cm' # cm, rec.spec.mode = "signed",
                        Trusted(rec.spec, cm.copy)
                 PROVE  /\ cm'.copy.raw # NoFile
                        /\ cm'.copy.publication >= cm.copy.publication
      OBVIOUS
    <2>1. /\ cm'.copy = rec.out /\ rec.spec \in Specs
          /\ cm.copy \in Copies /\ rec.out \in Copies
      BY WritesSettled
    <2>2. LastGood(rec.spec, cm.copy) = cm.copy
      BY <2>1, LastGoodFacts
    <2>3. cm.copy.raw # NoFile /\ cm.copy.publication \in Nat
      BY <2>1, CopyFacts DEF Trusted, Specs
    <2>4. CASE rec.out = cm.copy
      BY <2>1, <2>3, <2>4
    <2>5. CASE /\ PublishedIn(versions, publications, rec.spec.url, rec.out)
               /\ rec.out.publication >= cm.copy.publication
      <3>1. rec.spec.url \in Sets
        BY <2>1 DEF Specs
      <3>2. rec.out.raw \in Files
        <4> DEFINE row == publications[rec.spec.url][rec.out.publication]
        <4>1. /\ versions[rec.spec.url] \in Seq(Files)
              /\ rec.out.publication \in DOMAIN publications[rec.spec.url]
              /\ versions[rec.spec.url][row.revision] = rec.out.raw
          BY <2>5, <3>1 DEF InStep, IInv, LogOK, PublishedIn
        <4>2. row.revision \in DOMAIN versions[rec.spec.url]
          BY <3>1, <4>1, Zenon DEF InStep, IInv, LogOK
        <4> HIDE DEF row
        <4> QED BY <4>1, <4>2
      <3> QED BY <2>1, <2>5, <3>2, SyncAssumption
    <2> QED BY <2>2, <2>4, <2>5, WritesSettled
  <1> QED BY <1>1, InStepInvariant, PTL DEF Spec, NeverOlder

\* A reconcile whose pull failed leaves a file the policy still accepts.
THEOREM KeptWhenDownHolds ==
    ASSUME ~CacheLag
    PROVE  Spec => KeptWhenDown
  <1>1. InStep /\ [Next]_vars =>
          [/\ cm' # cm
           /\ ~rec.synced
           /\ StillAccepted(rec.spec, cm.copy)
           => cm'.copy.raw = cm.copy.raw]_vars
    <2> SUFFICES ASSUME InStep, [Next]_vars, cm' # cm, ~rec.synced,
                        StillAccepted(rec.spec, cm.copy)
                 PROVE  cm'.copy.raw = cm.copy.raw
      OBVIOUS
    <2>1. /\ cm'.copy = rec.out /\ rec.spec \in Specs /\ cm.copy \in Copies
          /\ rec.out = LastGood(rec.spec, cm.copy)
      BY WritesSettled
    <2> QED BY <2>1, LastGoodFacts DEF StillAccepted, Trusted
  <1> QED BY <1>1, InStepInvariant, PTL DEF Spec, KeptWhenDown
==============================================================================
