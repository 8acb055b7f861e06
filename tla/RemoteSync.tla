------------------------------ MODULE RemoteSync ------------------------------
(***************************************************************************)
(* The operator's reconcile of one PiiPolicy with spec.remoteConfig: pull  *)
(* the rules of a set from the rule server (PublicationLog), check their   *)
(* signature, lay the policy's own rules over them and write the policy's  *)
(* ConfigMap, which is also the only memory of what was accepted last.     *)
(*                                                                         *)
(* There is one worker per policy, so one reconcile at a time.  It reads   *)
(* objects through the manager's cache, which follows the API server, and  *)
(* its writes carry the resource version it read.                          *)
(***************************************************************************)
EXTENDS PublicationLog, FiniteSets

CONSTANTS NoFile,          \* no remote copy in the ConfigMap
          CacheLag,        \* TRUE: the cache may lag behind the API server
          UntrustedSource, \* TRUE: whoever answers at the URL may send anything
          MaxRevision,     \* bound: versions per set
          MaxPublication,  \* bound: publications of all sets together
          MaxEdits,        \* bound: edits of the policy
          MaxFaults        \* bound: outages, failed API calls and restarts

ASSUME SyncAssumption ==
    /\ NoFile \notin Files
    /\ CacheLag \in BOOLEAN
    /\ UntrustedSource \in BOOLEAN
    /\ MaxRevision \in Nat
    /\ MaxPublication \in Nat
    /\ MaxEdits \in Nat
    /\ MaxFaults \in Nat

VARIABLES spec,    \* the policy's spec and generation
          status,  \* the policy's status: status.remote and two conditions
          cm,      \* the policy's ConfigMap
          cache,   \* the ConfigMap in the manager's cache
          fresh,   \* the cache holds the ConfigMap's current version
          at,      \* where the reconcile is
          rec,     \* what the reconcile has read and decided
          due,     \* the policy's key: "now" in the work queue, "later" to be
                   \* added by RequeueAfter, or "no"
          down,    \* the source does not answer
          faults   \* faults so far

opVars == <<spec, status, cm, cache, fresh, at, rec, due, down, faults>>
vars == <<logVars, opVars>>

\* The remote file with the key and publication number it was accepted under.
NoCopy == [raw |-> NoFile, signedBy |-> NoKey, publication |-> 0]
Copies ==
    {c \in [raw : Files \union {NoFile}, signedBy : Keys \union {NoKey},
            publication : Nat] :
        /\ c.signedBy = NoKey <=> c.publication = 0
        /\ c.signedBy # NoKey => c.raw # NoFile}

\* spec.remoteConfig: absent; without signature; with one; or with one that
\* ParseTrustedKeys, SignatureURL or ExpectedSet refuses.
Modes == {"none", "plain", "signed", "broken"}
Specs == [mode : Modes, url : Sets, keys : SUBSET Keys, generation : Nat]

\* The specs the API server takes: publicKeys has at least one item.  Keys
\* that do not parse are the broken mode.
PolicySpecs(generation) ==
    {[mode |-> m, url |-> s, keys |-> ks, generation |-> generation] :
        m \in {"none", "plain", "broken"}, s \in Sets, ks \in {{}}}
    \union
    {[mode |-> "signed", url |-> s, keys |-> ks, generation |-> generation] :
        s \in Sets, ks \in (SUBSET Keys) \ {{}}}

\* The rendered file is Merge(copy, policy) and names the policy's generation
\* in its revision, so the copy and the generation stand for it; generation 0
\* is a ConfigMap that does not exist yet.
ConfigMaps == [copy : Copies, generation : Nat]

Statuses == [remote : Copies, synced : BOOLEAN, rendered : BOOLEAN,
             generation : Nat]

\* The publication a signature file is about.
NoPub == [number |-> 0, keyID |-> NoKey, signature |-> NoSig]
SigFilePubs == [number : Nat, keyID : Keys \union {NoKey},
                signature : Signatures \union {NoSig}]

\* A reconcile: the policy it read, remoteOutcome (the copy to render, the
\* new status.remote, whether the pull succeeded), the pulled body and
\* signature, whether the ConfigMap was rendered.
NoRec == [synced |-> FALSE]
Recs == [spec : Specs, out : Copies, body : Files \union {NoFile},
         pub : SigFilePubs, remote : Copies, synced : BOOLEAN,
         rendered : BOOLEAN]

------------------------------------------------------------------------------
(* The decisions of a reconcile.                                           *)

\* trusted: the copy was signed by a key in the list.
Trusted(sp, copy) == copy.signedBy \in sp.keys

\* Mutant: an unsigned copy is never taken over.
CopyForgotten(sp, copy) ==
    IF sp.mode = "signed" /\ Trusted(sp, copy) THEN copy ELSE NoCopy

\* The last good copy that the current spec still accepts.  With signatures
\* it keeps its number, which is then the minimum for the next one; without,
\* who signed it is forgotten.
LastGood(sp, copy) ==
    CASE sp.mode = "plain" -> [NoCopy EXCEPT !.raw = copy.raw]
      [] sp.mode = "signed" /\ Trusted(sp, copy) -> copy
      [] OTHER -> NoCopy

\* Mutant: the number is not compared with the last one accepted.
ReplayAllowed(sp, min, body, pub, revision) ==
    /\ pub.keyID \in sp.keys
    /\ Verify(pub.keyID, For(sp.url, pub.number, revision, body), pub.signature)

\* Mutant: the key is looked up and the signature is not verified.
NotVerified(sp, min, body, pub, revision) ==
    pub.keyID \in sp.keys /\ pub.number >= min

\* Mutant: the statement takes the set from the signature file too.
AnySet(sp, min, body, pub, revision) ==
    /\ pub.keyID \in sp.keys
    /\ \E s \in Sets :
          Verify(pub.keyID, For(s, pub.number, revision, body), pub.signature)
    /\ pub.number >= min

\* Check: the statement is built from the expected set and the pulled body;
\* only the number, the revision and the key id come from the signature file.
Check(sp, min, body, pub, revision) ==
    /\ pub.keyID \in sp.keys
    /\ Verify(pub.keyID, For(sp.url, pub.number, revision, body), pub.signature)
    /\ pub.number >= min

\* What renderConfigMap writes.
Rendered(r) == [copy |-> r.out, generation |-> r.spec.generation]

------------------------------------------------------------------------------
(* The source: the rule server, or anyone who answers in its place.        *)

\* The answers to GET policy.json.
Bodies(s) ==
    IF UntrustedSource
      THEN {Canonical(c, n) : c \in Contents, n \in 1 .. MaxRevision}
      ELSE {versions[s][n] : n \in {published[s]} \ {0}}

\* Those that come with a 200: the rule server answers 304 to a matching
\* If-None-Match, another source may not.
NewBodies(s, copy) ==
    {b \in Bodies(s) : UntrustedSource \/ ETag(b) # copy.raw}

\* The publications whose signature may be in the answer to GET
\* policy.json.sig: the last one, or any that was ever served for any set.
SignedOf(s, numbers) ==
    {[number |-> n, keyID |-> publications[s][n].keyID,
      signature |-> publications[s][n].signature] :
        n \in {m \in numbers : publications[s][m].keyID # NoKey}}
SigFiles(s) ==
    IF UntrustedSource
      THEN UNION {SignedOf(t, DOMAIN publications[t]) : t \in Sets}
      ELSE SignedOf(s, {Len(publications[s])} \ {0})

\* The revisions a signature file may name.
Revisions(s) ==
    IF UntrustedSource THEN 1 .. MaxRevision ELSE {published[s]}

\* The pull may fail: an outage, an untrusted source, or nothing published.
MayFail(answers) == down \/ UntrustedSource \/ answers = {}

------------------------------------------------------------------------------
(* The reconcile, one action per stretch between two calls that leave the  *)
(* process.                                                                *)

\* Mutant: a reconcile that failed, or whose pull failed, is not repeated.
FailureDropped(r, failed) ==
    CASE due = "now" -> "now"
      [] due # "now" /\ ~failed /\ r.synced -> "later"
      [] OTHER -> "no"

\* The queue after a reconcile: an error is retried at once, a policy with
\* remoteConfig after its interval, and an event that came meanwhile stays.
Requeue(r, failed) ==
    CASE failed \/ due = "now" -> "now"
      [] ~failed /\ due # "now" /\ r.spec.mode # "none" -> "later"
      [] OTHER -> "no"

\* Reconcile reads the policy and its ConfigMap and settles what the last
\* good copy is.  A configuration error pulls nothing and clears
\* status.remote; a policy without remoteConfig has neither.  The interval
\* is at least 30 seconds, so the cache has caught up when it ends.
Start ==
    /\ at = "idle"
    /\ due = "now" \/ (due = "later" /\ fresh)
    /\ LET out  == LastGood(spec, cache.copy)
           pull == spec.mode \in {"plain", "signed"}
       IN rec' = [spec |-> spec, out |-> out, body |-> NoFile, pub |-> NoPub,
                  remote |-> IF pull THEN status.remote ELSE NoCopy,
                  synced |-> FALSE, rendered |-> FALSE]
          /\ at' = IF pull THEN "pull" ELSE "render"
    /\ due' = "no"
    /\ UNCHANGED <<logVars, spec, status, cm, cache, fresh, down, faults>>

\* fail: the Secret, the pull, the file or the signature is no good; the last
\* good copy and status.remote stay.
Fail ==
    /\ at' = "render"
    /\ UNCHANGED <<logVars, spec, status, cm, cache, fresh, rec, due, down, faults>>

\* The copy is accepted, or confirmed by a 304.
Accept(copy) ==
    /\ rec' = [rec EXCEPT !.out = copy, !.remote = copy, !.synced = TRUE]
    /\ at' = "render"
    /\ UNCHANGED <<logVars, spec, status, cm, cache, fresh, due, down, faults>>

PullFails == at = "pull" /\ MayFail(Bodies(rec.spec.url)) /\ Fail

\* 304: the source serves the file whose ETag was sent.
NotModified ==
    /\ at = "pull" /\ ~down
    /\ rec.out.raw # NoFile
    /\ UntrustedSource \/ rec.out.raw \in {ETag(b) : b \in Bodies(rec.spec.url)}
    /\ Accept(rec.out)

\* 200 with a valid file: accepted as it is when no signature is required.
PullPlain ==
    /\ at = "pull" /\ ~down
    /\ rec.spec.mode = "plain"
    /\ \E body \in NewBodies(rec.spec.url, rec.out) :
          Accept([NoCopy EXCEPT !.raw = body])

PullSigned ==
    /\ at = "pull" /\ ~down
    /\ rec.spec.mode = "signed"
    /\ \E body \in NewBodies(rec.spec.url, rec.out) :
          rec' = [rec EXCEPT !.body = body]
    /\ at' = "signature"
    /\ UNCHANGED <<logVars, spec, status, cm, cache, fresh, due, down, faults>>

\* FetchSignature fails: 404 for an unsigned publication, an outage.
SignatureFails == at = "signature" /\ MayFail(SigFiles(rec.spec.url)) /\ Fail

\* The server's handler reads the last publication here and the published
\* version in the next step.
FetchSignature ==
    /\ at = "signature" /\ ~down
    /\ \E pub \in SigFiles(rec.spec.url) : rec' = [rec EXCEPT !.pub = pub]
    /\ at' = "check"
    /\ UNCHANGED <<logVars, spec, status, cm, cache, fresh, due, down, faults>>

CheckSignature ==
    /\ at = "check"
    /\ \E revision \in Revisions(rec.spec.url) :
          IF Check(rec.spec, rec.out.publication, rec.body, rec.pub, revision)
            THEN Accept([raw |-> rec.body, signedBy |-> rec.pub.keyID,
                         publication |-> rec.pub.number])
            ELSE Fail

\* CreateOrUpdate: Get from the cache, Update with that resource version.
\* An unchanged ConfigMap is left alone and a stale one is a conflict.
RenderConfigMap ==
    /\ at = "render"
    /\ LET new == Rendered(rec) IN
       \/ /\ new = cache
          /\ rec' = [rec EXCEPT !.rendered = TRUE]
          /\ UNCHANGED <<cm, cache, fresh, due>>
       \/ /\ new # cache /\ fresh
          /\ cm' = new
          /\ \/ ~CacheLag /\ cache' = new /\ due' = "now" /\ UNCHANGED fresh
             \/ CacheLag /\ fresh' = FALSE /\ UNCHANGED <<cache, due>>
          /\ rec' = [rec EXCEPT !.rendered = TRUE]
    /\ at' = "status"
    /\ UNCHANGED <<logVars, spec, status, down, faults>>

\* A conflict, or another error of the API server.
RenderFails ==
    /\ at = "render"
    /\ \/ Rendered(rec) # cache /\ ~fresh /\ UNCHANGED faults
       \/ faults < MaxFaults /\ faults' = faults + 1
    /\ at' = "status"
    /\ UNCHANGED <<logVars, spec, status, cm, cache, fresh, rec, due, down>>

\* Status().Update and the end of the reconcile.
WriteStatus ==
    /\ at = "status"
    /\ spec = rec.spec
    /\ status' = [remote |-> rec.remote, synced |-> rec.synced,
                  rendered |-> rec.rendered, generation |-> rec.spec.generation]
    /\ due' = Requeue(rec, ~rec.rendered)
    /\ at' = "idle" /\ rec' = NoRec
    /\ UNCHANGED <<logVars, spec, cm, cache, fresh, down, faults>>

\* The policy was edited since it was read, or the API server fails.
StatusFails ==
    /\ at = "status"
    /\ \/ spec # rec.spec /\ UNCHANGED faults
       \/ faults < MaxFaults /\ faults' = faults + 1
    /\ due' = Requeue(rec, TRUE)
    /\ at' = "idle" /\ rec' = NoRec
    /\ UNCHANGED <<logVars, spec, status, cm, cache, fresh, down>>

------------------------------------------------------------------------------
(* The environment.                                                        *)

\* The watch delivers the ConfigMap's current version, which the policy owns,
\* so its key is queued.
CacheSync ==
    /\ ~fresh
    /\ cache' = cm /\ fresh' = TRUE
    /\ due' = "now"
    /\ UNCHANGED <<logVars, spec, status, cm, at, rec, down, faults>>

\* The operator dies anywhere; the new process lists policies and ConfigMaps.
Restart ==
    /\ faults < MaxFaults /\ faults' = faults + 1
    /\ at' = "idle" /\ rec' = NoRec /\ due' = "now"
    /\ cache' = cm /\ fresh' = TRUE
    /\ UNCHANGED <<logVars, spec, status, cm, down>>

\* An untrusted source can fail without this.
SourceDown ==
    /\ ~UntrustedSource
    /\ ~down /\ down' = TRUE
    /\ faults < MaxFaults /\ faults' = faults + 1
    /\ UNCHANGED <<logVars, spec, status, cm, cache, fresh, at, rec, due>>

SourceUp ==
    /\ down /\ down' = FALSE
    /\ UNCHANGED <<logVars, spec, status, cm, cache, fresh, at, rec, due, faults>>

\* Someone edits the policy: its remoteConfig, or only its own rules.
EditSpec ==
    /\ spec.generation <= MaxEdits
    /\ spec' \in PolicySpecs(spec.generation + 1)
    /\ due' = "now"
    /\ UNCHANGED <<logVars, status, cm, cache, fresh, at, rec, down, faults>>

ServerStep ==
    /\ \E s \in Sets :
          \/ Len(versions[s]) < MaxRevision
             /\ \E c \in Contents : AddVersion(s, c)
          \/ /\ Cardinality({p \in Sets \X (1 .. MaxPublication) :
                              p[2] <= Len(publications[p[1]])}) < MaxPublication
             /\ \E rev \in DOMAIN versions[s], k \in Keys \union {NoKey} :
                   \E sig \in SignaturesFor(s, rev, k) : Publish(s, rev, k, sig)
    /\ UNCHANGED opVars

------------------------------------------------------------------------------
Init ==
    /\ LogInit
    /\ spec \in PolicySpecs(1)
    /\ status = [remote |-> NoCopy, synced |-> FALSE, rendered |-> FALSE,
                 generation |-> 0]
    /\ cm = [copy |-> NoCopy, generation |-> 0]
    /\ cache = cm /\ fresh = TRUE
    /\ at = "idle" /\ rec = NoRec /\ due = "now"
    /\ down = FALSE /\ faults = 0

Reconcile ==
    \/ Start
    \/ PullFails
    \/ NotModified
    \/ PullPlain
    \/ PullSigned
    \/ SignatureFails
    \/ FetchSignature
    \/ CheckSignature
    \/ RenderConfigMap
    \/ RenderFails
    \/ WriteStatus
    \/ StatusFails

Next ==
    \/ Reconcile
    \/ CacheSync
    \/ Restart
    \/ SourceDown
    \/ SourceUp
    \/ EditSpec
    \/ ServerStep

Spec == Init /\ [][Next]_vars

\* The work queue serves a policy that is due, every call of a reconcile ends
\* (the pull has a timeout), and the watch delivers.
FairSpec == Spec /\ WF_vars(Reconcile) /\ WF_vars(CacheSync)
------------------------------------------------------------------------------
(* Properties.                                                             *)

\* Every variable has its type.
TypeOK ==
    /\ spec \in Specs
    /\ status \in Statuses
    /\ cm \in ConfigMaps /\ cache \in ConfigMaps
    /\ fresh \in BOOLEAN /\ due \in {"no", "later", "now"} /\ down \in BOOLEAN
    /\ at \in {"idle", "pull", "signature", "check", "render", "status"}
    /\ \/ at = "idle" /\ rec = NoRec
       \/ at # "idle" /\ rec \in Recs
    /\ faults \in 0 .. MaxFaults

\* The copy is publication copy.publication of set s, signed by its key.
IsPublication(s, copy) ==
    /\ copy.publication \in DOMAIN publications[s]
    /\ LET p == publications[s][copy.publication] IN
          p.keyID = copy.signedBy /\ versions[s][p.revision] = copy.raw

\* A copy recorded as signed is, whatever the source sent, a file that the
\* named key published under that number (Check, and the annotations that
\* carry its result from one reconcile to the next), and every variable keeps
\* its type.
CopyGenuine ==
    TypeOK /\ (cm.copy.signedBy # NoKey => \E s \in Sets : IsPublication(s, cm.copy))

\* With signatures required, the ConfigMap only ever gets a copy signed by a
\* key the policy read by this reconcile trusts, and a file other than the
\* one it had only if it is a publication of the set the policy names.
TrustedOnly ==
    [][/\ cm' # cm
       /\ rec.spec.mode = "signed"
       /\ cm'.copy.raw # NoFile
       => /\ Trusted(rec.spec, cm'.copy)
          /\ cm'.copy.raw # cm.copy.raw => IsPublication(rec.spec.url, cm'.copy)]_vars

\* As long as the policy trusts the key that signed the copy it has, the
\* copy is never replaced by an older publication nor dropped, across
\* restarts, edits and an untrusted source.
NeverOlder ==
    [][/\ cm' # cm
       /\ rec.spec.mode = "signed"
       /\ Trusted(rec.spec, cm.copy)
       => /\ cm'.copy.raw # NoFile
          /\ cm'.copy.publication >= cm.copy.publication]_vars

\* The policy has no quarrel with the copy: no signature is asked for, or one
\* of the keys it trusts signed it.
StillAccepted(sp, copy) ==
    /\ copy.raw # NoFile
    /\ sp.mode = "plain" \/ (sp.mode = "signed" /\ copy.signedBy \in sp.keys)

\* "The rules a sidecar runs never go backwards because the source is down":
\* a reconcile whose pull failed leaves the remote file alone if the policy
\* still accepts it (syncRemote's use of the last good copy).
KeptWhenDown ==
    [][/\ cm' # cm
       /\ ~rec.synced
       /\ StillAccepted(rec.spec, cm.copy)
       => cm'.copy.raw = cm.copy.raw]_vars

\* Every edit of the policy reaches the ConfigMap, even if the source never
\* answers again: "a local edit of the policy still applies".
LocalApplied == <>[](cm.generation = spec.generation)

\* The source answers and its last publication is one the policy accepts.
AnswersAcceptably ==
    /\ ~down
    /\ spec.mode \in {"plain", "signed"}
    /\ published[spec.url] # 0
    /\ spec.mode = "signed" =>
          publications[spec.url][Len(publications[spec.url])].keyID \in spec.keys

\* The ConfigMap has the file the source serves, and status.remote names its
\* revision and hash.
Current ==
    /\ published[spec.url] # 0
    /\ cm.copy.raw = versions[spec.url][published[spec.url]]
    /\ status.remote.raw = cm.copy.raw

\* If the source stays reachable with a last publication the policy accepts,
\* the ConfigMap gets that file and status.remote reports it, whatever
\* failed, crashed or was edited before.
EventuallyCurrent == <>[]AnswersAcceptably => <>[]Current
==============================================================================
