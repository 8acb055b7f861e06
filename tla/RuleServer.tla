------------------------------ MODULE RuleServer ------------------------------
(***************************************************************************)
(* The rule server's write path for one organization: versions and         *)
(* publications of its rule sets, its signing keys, and the HTTP handlers  *)
(* that read and write them.  A handler is a sequence of SQL statements;   *)
(* handlers of one or several server processes interleave between them.    *)
(*                                                                         *)
(* A table with a UNIQUE key is a function from that key to the row, so a  *)
(* duplicate insert is an insert of a key already in the domain.           *)
(***************************************************************************)
EXTENDS PublicationLog

CONSTANTS Requests,        \* slots for requests in progress, on any process
          ValidContents,   \* the submitted rule sets the scanner's parser takes
          NoRequest,       \* owner of a free lock
          Postgres,        \* TRUE: Postgres, shared; FALSE: SQLite, one process
          MaxRaceRetries,  \* maxRaceRetries of the store
          MaxRevision,     \* bound: no new version is submitted beyond it
          MaxPublication   \* bound: no new publish is submitted beyond it

ASSUME ServerAssumption ==
    /\ ValidContents \subseteq Contents
    /\ NoRequest \notin Requests
    /\ Postgres \in BOOLEAN
    /\ MaxRaceRetries \in Nat
    /\ MaxRevision \in Nat
    /\ MaxPublication \in Nat

VARIABLES keys,  \* keys[k]: "none", "active" or "revoked" in this organization
          lock,  \* lock[s]: the request whose transaction holds the set's row
          pc,    \* pc[r]: the statement request r runs next
          req    \* req[r]: the request's input and what its handler has read

vars == <<versions, publications, published, keys, lock, pc, req>>

Idle == [op |-> "none"]
CreateRequests ==
    [op : {"create"}, set : Sets, content : Contents, attempt : Nat, next : Nat]
PublishRequests ==
    [op : {"publish"}, set : Sets, rev : Nat \ {0}, seq : Nat,
     key : Keys \union {NoKey}, sig : Signatures \union {NoSig},
     attempt : Nat, next : Nat]
SignatureRequests ==
    [op : {"signature"}, set : Sets, publication : Nat \ {0},
     key : Keys, sig : Signatures, served : Nat]

------------------------------------------------------------------------------
(* The tables.                                                             *)

\* COALESCE(MAX(n), 0) over a table's numbers.
MaxOrZero(S) == CHOOSE m \in S \union {0} : \A n \in S : n <= m

\* SELECT COALESCE(MAX(...), 0) + 1: the number the next row gets.
NextNumber(table) == MaxOrZero(DOMAIN table) + 1

\* INSERT of a row under a key that is not in the table yet.
Insert(table, n, row) ==
    [i \in DOMAIN table \union {n} |-> IF i = n THEN row ELSE table[i]]

------------------------------------------------------------------------------
(* Transactions.  On Postgres lockSet holds the set's row FOR UPDATE until *)
(* the transaction ends and every other statement sees committed rows      *)
(* only.  On SQLite the process has one connection, which a transaction    *)
(* keeps, so no other statement of any kind runs meanwhile.                *)

\* Mutant: the transaction does not lock the set's row.
LockIgnored(s) == TRUE

LockFree(s) ==
    IF Postgres THEN lock[s] = NoRequest
                ELSE \A t \in Sets : lock[t] = NoRequest

\* A statement outside a transaction can get a connection.
CanQuery == Postgres \/ \A t \in Sets : lock[t] = NoRequest

\* Mutant: a finished handler forgets the rollback or commit.
KeepLock(r) == lock

\* Commit or rollback: the row lock (or the connection) is given back.
Unlocked(r) == [s \in Sets |-> IF lock[s] = r THEN NoRequest ELSE lock[s]]

Goto(r, label) == pc' = [pc EXCEPT ![r] = label]

\* The handler answers and is done.
Finish(r) ==
    /\ pc' = [pc EXCEPT ![r] = "idle"]
    /\ req' = [req EXCEPT ![r] = Idle]
    /\ lock' = Unlocked(r)

\* The insert lost the race for its number: the transaction is rolled back
\* and tried again from the start, at most MaxRaceRetries times.
Retry(r) ==
    IF req[r].attempt < MaxRaceRetries
      THEN /\ req' = [req EXCEPT ![r].attempt = @ + 1]
           /\ Goto(r, "begin")
           /\ lock' = Unlocked(r)
      ELSE Finish(r)

\* BeginTx and lockSet of createVersion and of publish.
Begin(r) ==
    /\ pc[r] = "begin"
    /\ LockFree(req[r].set)
    /\ lock' = [lock EXCEPT ![req[r].set] = r]
    /\ Goto(r, "read")
    /\ UNCHANGED <<versions, publications, published, keys, req>>

------------------------------------------------------------------------------
(* POST .../versions                                                       *)

CreateArrive(r, s, c) ==
    /\ pc[r] = "idle"
    /\ NextNumber(versions[s]) <= MaxRevision
    /\ req' = [req EXCEPT ![r] = [op |-> "create", set |-> s, content |-> c,
                                  attempt |-> 0, next |-> 0]]
    /\ Goto(r, "begin")
    /\ UNCHANGED <<versions, publications, published, keys, lock>>

\* The number is read and the canonical file is built for it; a rule set the
\* parser refuses is a 422 and the transaction is rolled back.
CreateRead(r) ==
    /\ pc[r] = "read" /\ req[r].op = "create"
    /\ IF req[r].content \in ValidContents
         THEN /\ req' = [req EXCEPT
                           ![r].next = NextNumber(versions[req[r].set])]
              /\ Goto(r, "write")
              /\ UNCHANGED lock
         ELSE Finish(r)
    /\ UNCHANGED <<versions, publications, published, keys>>

CreateInsert(r) ==
    LET q == req[r] IN
    /\ pc[r] = "write" /\ q.op = "create"
    /\ IF q.next \in DOMAIN versions[q.set]
         THEN Retry(r) /\ UNCHANGED versions
         ELSE /\ versions' = [versions EXCEPT
                   ![q.set] = Insert(@, q.next, Canonical(q.content, q.next))]
              /\ Finish(r)
    /\ UNCHANGED <<publications, published, keys>>

------------------------------------------------------------------------------
(* POST .../publish                                                        *)

\* Checked before the transaction: a signed publish names an active key, an
\* unsigned one is taken only while the organization has no active key.
KeyCheck(k) ==
    IF k \in Keys THEN keys[k] = "active"
                  ELSE \A other \in Keys : keys[other] # "active"

\* A request that passed the field checks (number, key and signature come
\* together or not at all) and the check of the keys.
PublishArrive(r, s, rev, seq, k, sig) ==
    /\ pc[r] = "idle"
    /\ CanQuery
    /\ NextNumber(publications[s]) <= MaxPublication
    /\ (k = NoKey) <=> (sig = NoSig)
    /\ k # NoKey => seq > 0
    /\ KeyCheck(k)
    /\ req' = [req EXCEPT ![r] = [op |-> "publish", set |-> s, rev |-> rev,
                                  seq |-> seq, key |-> k, sig |-> sig,
                                  attempt |-> 0, next |-> 0]]
    /\ Goto(r, "begin")
    /\ UNCHANGED <<versions, publications, published, keys, lock>>

\* Mutant: the signature is checked against the number the caller sent and
\* whatever version it names, not against what is stored.
StatementTrusted(q, seq) == q.key # NoKey => q.sig.signer = q.key

\* PublishRequest.Check: the signature verifies for the statement the server
\* builds itself from the number and the file it is about to store.
StatementCheck(q, seq) ==
    q.key # NoKey =>
        Verify(q.key, For(q.set, seq, q.rev, versions[q.set][q.rev]), q.sig)

\* Looks the revision up (else ErrNotFound), reads the next number, compares
\* it with the one the caller signed (else ErrStale) and checks the
\* signature (else ErrBadSignature).
PublishRead(r) ==
    LET q    == req[r]
        next == NextNumber(publications[q.set])
    IN
    /\ pc[r] = "read" /\ q.op = "publish"
    /\ IF /\ q.rev \in DOMAIN versions[q.set]
          /\ q.seq \in {0, next}
          /\ StatementCheck(q, next)
         THEN /\ req' = [req EXCEPT ![r].next = next]
              /\ Goto(r, "write")
              /\ UNCHANGED lock
         ELSE Finish(r)
    /\ UNCHANGED <<versions, publications, published, keys>>

\* The retry of an unsigned publish; a signed one that lost the race is
\* ErrStale, because its signature covers the number.
PublishRace(r) == IF req[r].seq = 0 THEN Retry(r) ELSE Finish(r)

\* Mutant: the pointer to the served version is left alone.
PointerKept(q) == published

Pointer(q) == [published EXCEPT ![q.set] = q.rev]

\* The pointer and the publication in one commit.
PublishWrite(r) ==
    LET q == req[r] IN
    /\ pc[r] = "write" /\ q.op = "publish"
    /\ IF q.next \in DOMAIN publications[q.set]
         THEN PublishRace(r) /\ UNCHANGED <<publications, published>>
         ELSE /\ published' = Pointer(q)
              /\ publications' = [publications EXCEPT
                   ![q.set] = Insert(@, q.next, [revision  |-> q.rev,
                                                 keyID     |-> q.key,
                                                 signature |-> q.sig])]
              /\ Finish(r)
    /\ UNCHANGED <<versions, keys>>

------------------------------------------------------------------------------
(* Signing keys: one statement each.                                       *)

\* POST .../signing-keys; the same key a second time, even after it was
\* revoked, is ErrExists.
AddSigningKey(k) ==
    /\ CanQuery
    /\ keys[k] = "none"
    /\ keys' = [keys EXCEPT ![k] = "active"]
    /\ UNCHANGED <<versions, publications, published, lock, pc, req>>

\* DELETE .../signing-keys/{id}; revoking twice keeps the first time.
RevokeSigningKey(k) ==
    /\ CanQuery
    /\ keys[k] = "active"
    /\ keys' = [keys EXCEPT ![k] = "revoked"]
    /\ UNCHANGED <<versions, publications, published, lock, pc, req>>

------------------------------------------------------------------------------
(* GET .../policy.json.sig                                                 *)

\* LatestPublication: ORDER BY seq DESC LIMIT 1.
LatestPublication(s) == MaxOrZero(DOMAIN publications[s])

\* The first read; no publication or an unsigned one is a 404.
SignatureArrive(r, s) ==
    /\ pc[r] = "idle"
    /\ CanQuery
    /\ DOMAIN publications[s] # {}
    /\ LET seq == LatestPublication(s)
           pub == publications[s][seq]
       IN /\ pub.signature # NoSig
          /\ req' = [req EXCEPT
               ![r] = [op |-> "signature", set |-> s, publication |-> seq,
                       key |-> pub.keyID, sig |-> pub.signature, served |-> 0]]
    /\ Goto(r, "published")
    /\ UNCHANGED <<versions, publications, published, keys, lock>>

\* Mutant: the newest version instead of the published one.
NewestVersion(s) == MaxOrZero(DOMAIN versions[s])

\* Published: the version published_version_id names.
Published(s) == published[s]

\* The second read: the version the set serves now, whose revision and hash
\* go into the answer next to the signature read before.
SignatureRead(r) ==
    /\ pc[r] = "published"
    /\ CanQuery
    /\ req' = [req EXCEPT ![r].served = Published(req[r].set)]
    /\ Goto(r, "answer")
    /\ UNCHANGED <<versions, publications, published, keys, lock>>

SignatureAnswer(r) ==
    /\ pc[r] = "answer"
    /\ Finish(r)
    /\ UNCHANGED <<versions, publications, published, keys>>

\* The client goes away (its context is cancelled), a statement fails or the
\* process dies: nothing of the transaction is kept.
Abort(r) ==
    /\ pc[r] # "idle"
    /\ Finish(r)
    /\ UNCHANGED <<versions, publications, published, keys>>

------------------------------------------------------------------------------
Init ==
    /\ LogInit
    /\ keys = [k \in Keys |-> "none"]
    /\ lock = [s \in Sets |-> NoRequest]
    /\ pc = [r \in Requests |-> "idle"]
    /\ req = [r \in Requests |-> Idle]

\* Signatures a publisher can hold: over a statement the server handed out
\* (GET .../publish/statement) at some time, for an existing revision and a
\* number up to the next one, with any of the publishers' keys.
HandedOut(s) ==
    {For(s, p, rev, versions[s][rev]) :
        p \in 1 .. NextNumber(publications[s]), rev \in DOMAIN versions[s]}
Held(s) == {Signature(k, st) : k \in Keys, st \in HandedOut(s)}

Step(r) ==
    \/ Begin(r)
    \/ CreateRead(r)
    \/ CreateInsert(r)
    \/ PublishRead(r)
    \/ PublishWrite(r)
    \/ SignatureRead(r)
    \/ SignatureAnswer(r)

\* The inputs: any revision up to one that does not exist; for a signed
\* publish a signature the publisher holds for any of the sets, sent with
\* the number it covers.
Arrive(r, s) ==
    /\ pc[r] = "idle"
    /\ \/ \E c \in Contents : CreateArrive(r, s, c)
       \/ \E rev \in 1 .. NextNumber(versions[s]),
             seq \in 0 .. NextNumber(publications[s]) :
             PublishArrive(r, s, rev, seq, NoKey, NoSig)
       \/ \E rev \in 1 .. NextNumber(versions[s]), k \in Keys, t \in Sets :
             \E sig \in Held(t) :
                PublishArrive(r, s, rev, sig.statement.publication, k, sig)
       \/ SignatureArrive(r, s)

Next ==
    \/ \E r \in Requests : Step(r)
    \/ \E r \in Requests : Abort(r)
    \/ \E r \in Requests, s \in Sets : Arrive(r, s)
    \/ \E k \in Keys : AddSigningKey(k)
    \/ \E k \in Keys : RevokeSigningKey(k)

Spec == Init /\ [][Next]_vars

\* A handler that can run its next statement eventually does; the database
\* queues those that wait for a row lock or for the connection.
FairSpec ==
    /\ Spec
    /\ \A r \in Requests : WF_vars(Step(r)) /\ SF_vars(Begin(r))
                           /\ SF_vars(SignatureRead(r))
------------------------------------------------------------------------------
(* Properties.                                                             *)

InTransaction(r) == pc[r] \in {"read", "write"}

\* Every variable has its type: tables of rows under positive numbers, known
\* key states, and per request the fields its handler has at that statement.
TypeOK ==
    /\ DOMAIN versions = Sets
    /\ \A s \in Sets : \A n \in DOMAIN versions[s] :
          n \in Nat \ {0} /\ versions[s][n] \in Files
    /\ DOMAIN publications = Sets
    /\ \A s \in Sets : \A n \in DOMAIN publications[s] :
          n \in Nat \ {0} /\ publications[s][n] \in Publications
    /\ published \in [Sets -> Nat]
    /\ keys \in [Keys -> {"none", "active", "revoked"}]
    /\ lock \in [Sets -> Requests \union {NoRequest}]
    /\ pc \in [Requests ->
                 {"idle", "begin", "read", "write", "published", "answer"}]
    /\ DOMAIN req = Requests
    /\ \A r \in Requests :
          \/ pc[r] = "idle" /\ req[r] = Idle
          \/ /\ pc[r] \in {"begin", "read", "write"}
             /\ req[r] \in CreateRequests \union PublishRequests
          \/ /\ pc[r] \in {"published", "answer"}
             /\ req[r] \in SignatureRequests

\* Revisions and publication numbers of a set have no gaps: a table's
\* numbers are exactly 1 .. n, whatever handlers interleave, fail or are
\* retried (CreateVersion, Publish and lockSet).
Numbering ==
    \A s \in Sets :
       /\ DOMAIN versions[s] = 1 .. MaxOrZero(DOMAIN versions[s])
       /\ DOMAIN publications[s] = 1 .. MaxOrZero(DOMAIN publications[s])

\* The pointer policy.json is served from (published_version_id) and the
\* publication history agree: the set serves the revision of its newest
\* publication, and serves one exactly if it has a publication.
ServesLatest ==
    \A s \in Sets :
       published[s] = IF DOMAIN publications[s] = {}
                        THEN 0
                        ELSE publications[s][LatestPublication(s)].revision

\* Every stored signature is one a cluster will accept: it verifies with the
\* key the publication names for the set, the number it was stored under,
\* the revision and the file of that revision.
SignaturesVerify ==
    \A s \in Sets : \A n \in DOMAIN publications[s] :
       LET p == publications[s][n] IN
          /\ p.revision \in DOMAIN versions[s]
          /\ p.keyID = NoKey <=> p.signature = NoSig
          /\ p.keyID # NoKey =>
                Verify(p.keyID,
                       For(s, n, p.revision, versions[s][p.revision]),
                       p.signature)

\* The set's row lock makes the retries of CreateVersion and Publish
\* unreachable: no insert ever finds its number taken.
NoRaceRetry ==
    \A r \in Requests :
       pc[r] \in {"begin", "read", "write"} => req[r].attempt = 0

\* The signature file served for a set verifies unless the set was published
\* again after the handler's first read.
SignatureFileFresh ==
    \A r \in Requests : pc[r] = "answer" =>
       LET q == req[r] IN
          \/ LatestPublication(q.set) # q.publication
          \/ Verify(q.key, For(q.set, q.publication, q.served,
                               versions[q.set][q.served]), q.sig)

\* Versions and publications are immutable and kept: no step removes or
\* changes a row of either table (the triggers of the schema and the absence
\* of any statement that would need them).
HistoryKept ==
    [][\A s \in Sets :
          /\ \A n \in DOMAIN versions[s] :
                n \in DOMAIN versions'[s] /\ versions'[s][n] = versions[s][n]
          /\ \A n \in DOMAIN publications[s] :
                /\ n \in DOMAIN publications'[s]
                /\ publications'[s][n] = publications[s][n]]_vars

\* Every handler finishes: no request waits forever for a set's row or for
\* the connection, whatever way the handlers before it ended.
RequestsFinish == \A r \in Requests : pc[r] # "idle" ~> pc[r] = "idle"
==============================================================================
