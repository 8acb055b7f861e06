--------------------------- MODULE RuleServerProofs ---------------------------
(***************************************************************************)
(* Proofs about RuleServer for any number of sets, keys, requests and      *)
(* retries, on SQLite and on Postgres.                                     *)
(***************************************************************************)
EXTENDS RuleServer, SequenceTheorems, TLAPS

\* The tables are lists: rows numbered from 1 without gaps.
Tables ==
    /\ versions \in [Sets -> Seq(Files)]
    /\ publications \in [Sets -> Seq(Publications)]

\* The invariants about the tables alone.
TablesInv == Tables /\ ServesLatest /\ SignaturesVerify

\* The variables that are not tables have the right index sets.
Frame ==
    /\ published \in [Sets -> Nat]
    /\ keys \in [Keys -> {"none", "active", "revoked"}]
    /\ lock \in [Sets -> Requests \union {NoRequest}]
    /\ DOMAIN pc = Requests /\ pc = [r \in Requests |-> pc[r]]
    /\ DOMAIN req = Requests /\ req = [r \in Requests |-> req[r]]

\* The request's fields are those its handler has at its next statement, and
\* it has not been retried.
RequestType(r) ==
    \/ pc[r] = "idle" /\ req[r] = Idle
    \/ /\ pc[r] \in {"begin", "read", "write"}
       /\ req[r] \in CreateRequests \union PublishRequests
       /\ req[r].attempt = 0
    \/ /\ pc[r] \in {"published", "answer"}
       /\ req[r] \in SignatureRequests

\* The row lock of a set and the transaction in progress on it agree.
LockProtocol(r) ==
    /\ InTransaction(r) => lock[req[r].set] = r
    /\ \A s \in Sets : lock[s] = r => InTransaction(r) /\ req[r].set = s

\* A request for a publication carries a key and a signature or neither.
SignedOrNot(r) ==
    pc[r] \in {"begin", "read", "write"} /\ req[r].op = "publish"
       => (req[r].key = NoKey <=> req[r].sig = NoSig)

\* What a transaction has read is still true when it writes.
ReadsCurrent(r) ==
    pc[r] = "write" =>
       /\ req[r].op = "create" =>
             req[r].next = Len(versions[req[r].set]) + 1
       /\ req[r].op = "publish" =>
             /\ req[r].next = Len(publications[req[r].set]) + 1
             /\ req[r].rev \in DOMAIN versions[req[r].set]
             /\ StatementCheck(req[r], req[r].next)

\* What holds of each request.
RequestOK(r) ==
    RequestType(r) /\ LockProtocol(r) /\ SignedOrNot(r) /\ ReadsCurrent(r)

\* The inductive invariant, grouped by what a step touches.
IInv == TablesInv /\ Frame /\ \A r \in Requests : RequestOK(r)

------------------------------------------------------------------------------
(* Tables.                                                                 *)

\* The largest number of 1 .. n is n, and 0 stands for an empty table.
LEMMA MaxOfInterval ==
    ASSUME NEW n \in Nat
    PROVE  MaxOrZero(1 .. n) = n
<1>1. n \in (1 .. n) \union {0} /\ \A i \in 1 .. n : i <= n
  OBVIOUS
<1>2. \A m \in (1 .. n) \union {0} : (\A i \in 1 .. n : i <= m) => m = n
  OBVIOUS
<1> QED BY <1>1, <1>2 DEF MaxOrZero

\* For a table that is a list, the numbering of the SQL statements is that of
\* the list: the newest row, the next number, and an insert as an append.
LEMMA TableIsList ==
    ASSUME NEW S, NEW t \in Seq(S)
    PROVE  /\ DOMAIN t = 1 .. Len(t)
           /\ Len(t) \in Nat
           /\ MaxOrZero(DOMAIN t) = Len(t)
           /\ NextNumber(t) = Len(t) + 1
<1>1. DOMAIN t = 1 .. Len(t) /\ Len(t) \in Nat
  OBVIOUS
<1>2. MaxOrZero(DOMAIN t) = Len(t)
  BY <1>1, MaxOfInterval
<1> QED BY <1>1, <1>2 DEF NextNumber

\* An INSERT under the next number is an append to the list of rows.
LEMMA InsertIsAppend ==
    ASSUME NEW S, NEW t \in Seq(S), NEW row \in S
    PROVE  /\ Insert(t, Len(t) + 1, row) = Append(t, row)
           /\ Append(t, row) \in Seq(S)
           /\ Len(Append(t, row)) = Len(t) + 1
           /\ \A i \in 1 .. Len(t) : Append(t, row)[i] = t[i]
           /\ Append(t, row)[Len(t) + 1] = row
<1>1. DOMAIN t \union {Len(t) + 1} = 1 .. (Len(t) + 1)
  OBVIOUS
<1>2. Insert(t, Len(t) + 1, row)
        = [i \in 1 .. (Len(t) + 1) |-> IF i = Len(t) + 1 THEN row ELSE t[i]]
  BY <1>1 DEF Insert
<1>3. /\ Append(t, row) \in Seq(S)
      /\ Len(Append(t, row)) = Len(t) + 1
      /\ \A i \in 1 .. Len(t) : Append(t, row)[i] = t[i]
      /\ Append(t, row)[Len(t) + 1] = row
  OBVIOUS
<1> DEFINE f == [i \in 1 .. (Len(t) + 1) |-> IF i = Len(t) + 1 THEN row ELSE t[i]]
<1>4. f \in Seq(S) /\ Len(f) = Len(t) + 1
  <2>1. f \in [1 .. (Len(t) + 1) -> S]
    OBVIOUS
  <2> QED BY <2>1
<1>5. \A i \in 1 .. Len(f) : f[i] = Append(t, row)[i]
  BY <1>3, <1>4
<1>6. f = Append(t, row)
  BY <1>3, <1>4, <1>5, SeqEqual
<1> QED BY <1>2, <1>3, <1>6
------------------------------------------------------------------------------
(* Steps that leave the tables alone.                                      *)

\* Nothing about the tables depends on anything else.
LEMMA TablesUnchanged ==
    ASSUME TablesInv, UNCHANGED <<versions, publications, published>>
    PROVE  TablesInv'
BY DEF TablesInv, Tables, ServesLatest, SignaturesVerify, LatestPublication

\* A request that a step does not touch keeps its invariant, if the step
\* leaves the tables of its set alone and takes no lock from it.
LEMMA OtherRequest ==
    ASSUME NEW q \in Requests, RequestOK(q),
           pc'[q] = pc[q], req'[q] = req[q],
           \A s \in Sets : lock'[s] = q <=> lock[s] = q,
           UNCHANGED <<versions, publications>>
    PROVE  RequestOK(q)'
<1>1. pc[q] \in {"begin", "read", "write"} => req[q].set \in Sets
  BY DEF RequestOK, RequestType, CreateRequests, PublishRequests
<1>2. InTransaction(q)' <=> InTransaction(q)
  BY DEF InTransaction
<1>3. StatementCheck(req[q], req[q].next)' <=> StatementCheck(req[q], req[q].next)
  BY DEF StatementCheck
<1>4. InTransaction(q)' => lock'[req'[q].set] = q
  BY <1>1, <1>2 DEF RequestOK, LockProtocol, InTransaction
<1> QED BY <1>2, <1>3, <1>4 DEF RequestOK, RequestType, LockProtocol,
             SignedOrNot, ReadsCurrent, StatementCheck

\* A step that rewrites the entry of one request, with its lock, and leaves
\* the tables alone, preserves the invariant if it preserves that of the
\* request.
LEMMA OneRequest ==
    ASSUME IInv, NEW r \in Requests, NEW q, NEW label,
           pc' = [pc EXCEPT ![r] = label],
           req' = [req EXCEPT ![r] = q],
           lock' \in [Sets -> Requests \union {NoRequest}],
           \A o \in Requests \ {r} : \A s \in Sets : lock'[s] = o <=> lock[s] = o,
           UNCHANGED <<versions, publications, published, keys>>,
           RequestOK(r)'
    PROVE  IInv'
<1>1. TablesInv /\ Frame /\ \A o \in Requests : RequestOK(o)
  BY DEF IInv
<1>2. TablesInv'
  BY <1>1, TablesUnchanged
<1>3. Frame'
  BY <1>1 DEF Frame
<1>4. ASSUME NEW o \in Requests PROVE RequestOK(o)'
  <2>1. CASE o = r
    BY <2>1
  <2>2. CASE o # r
    <3>1. pc'[o] = pc[o] /\ req'[o] = req[o]
      BY <1>1, <2>2 DEF Frame
    <3> QED BY <1>1, <2>2, <3>1, OtherRequest
  <2> QED BY <2>1, <2>2
<1> QED BY <1>2, <1>3, <1>4 DEF IInv

\* A handler that answers gives its lock back and nothing else.
LEMMA FinishInv ==
    ASSUME IInv, NEW r \in Requests, Finish(r),
           UNCHANGED <<versions, publications, published, keys>>
    PROVE  IInv'
<1>1. TablesInv /\ Frame /\ \A o \in Requests : RequestOK(o)
  BY DEF IInv
<1>2. lock' = [s \in Sets |-> IF lock[s] = r THEN NoRequest ELSE lock[s]]
  BY DEF Finish, Unlocked
<1>3. /\ lock' \in [Sets -> Requests \union {NoRequest}]
      /\ \A o \in Requests \ {r} : \A s \in Sets : lock'[s] = o <=> lock[s] = o
      /\ \A s \in Sets : lock'[s] # r
  BY <1>1, <1>2, ServerAssumption DEF Frame
<1>4. pc'[r] = "idle" /\ req'[r] = Idle
  BY <1>1 DEF Finish, Frame
<1>5. RequestOK(r)'
  BY <1>3, <1>4 DEF RequestOK, RequestType, LockProtocol, SignedOrNot,
       ReadsCurrent, InTransaction
<1> QED BY <1>3, <1>5, OneRequest DEF Finish

\* BeginTx and lockSet: the request that gets the free row holds it alone.
LEMMA BeginInv ==
    ASSUME IInv, NEW r \in Requests, Begin(r)
    PROVE  IInv'
<1> DEFINE q == req[r]
<1>1. TablesInv /\ Frame /\ \A o \in Requests : RequestOK(o)
  BY DEF IInv
<1>2. /\ pc[r] = "begin" /\ lock[q.set] = NoRequest
      /\ q \in CreateRequests \union PublishRequests /\ q.attempt = 0
      /\ q.set \in Sets
  BY <1>1 DEF RequestOK, RequestType, Begin, LockFree, CreateRequests,
       PublishRequests
<1>3. /\ pc' = [pc EXCEPT ![r] = "read"]
      /\ req' = [req EXCEPT ![r] = q]
      /\ lock' = [lock EXCEPT ![q.set] = r]
  BY <1>1 DEF Begin, Goto, Frame
<1>4. /\ lock' \in [Sets -> Requests \union {NoRequest}]
      /\ \A o \in Requests \ {r} : \A s \in Sets : lock'[s] = o <=> lock[s] = o
  BY <1>1, <1>2, <1>3, ServerAssumption DEF Frame
<1>5. \A s \in Sets : lock[s] # r
  BY <1>1, <1>2 DEF RequestOK, LockProtocol, InTransaction
<1>6. pc'[r] = "read" /\ req'[r] = q /\ lock'[q.set] = r
  BY <1>1, <1>2, <1>3 DEF Frame
<1>7. \A s \in Sets : lock'[s] = r => s = q.set
  BY <1>1, <1>2, <1>3, <1>5 DEF Frame
<1>8. RequestOK(r)'
  BY <1>1, <1>2, <1>6, <1>7 DEF RequestOK, RequestType, LockProtocol,
       SignedOrNot, ReadsCurrent, InTransaction
<1> QED BY <1>3, <1>4, <1>8, OneRequest DEF Begin

------------------------------------------------------------------------------
(* Requests arrive and read.                                               *)

\* A request that arrives holds no lock and has not begun.
LEMMA ArriveInv ==
    ASSUME IInv, NEW r \in Requests, NEW q, pc[r] = "idle",
           q \in CreateRequests \union PublishRequests, q.attempt = 0,
           q.op = "publish" => (q.key = NoKey <=> q.sig = NoSig),
           req' = [req EXCEPT ![r] = q], Goto(r, "begin"),
           UNCHANGED <<versions, publications, published, keys, lock>>
    PROVE  IInv'
<1>1. TablesInv /\ Frame /\ \A o \in Requests : RequestOK(o)
  BY DEF IInv
<1>2. pc'[r] = "begin" /\ req'[r] = q /\ pc' = [pc EXCEPT ![r] = "begin"]
  BY <1>1 DEF Frame, Goto
<1>3. \A s \in Sets : lock'[s] # r
  BY <1>1 DEF RequestOK, LockProtocol, InTransaction
<1>4. RequestOK(r)'
  BY <1>2, <1>3 DEF RequestOK, RequestType, LockProtocol, SignedOrNot,
       ReadsCurrent, InTransaction
<1> QED BY <1>1, <1>2, <1>4, OneRequest DEF Frame

\* A create request arrives (Server.createVersion).
LEMMA CreateArriveInv ==
    ASSUME IInv, NEW r \in Requests, NEW s \in Sets, NEW c \in Contents,
           CreateArrive(r, s, c)
    PROVE  IInv'
<1> DEFINE q == [op |-> "create", set |-> s, content |-> c,
                 attempt |-> 0, next |-> 0]
<1>1. q \in CreateRequests
  BY DEF CreateRequests
<1> QED BY <1>1, ArriveInv DEF CreateArrive

\* A publish request arrives with its fields checked (Server.publish).
LEMMA PublishArriveInv ==
    ASSUME IInv, NEW r \in Requests, NEW s \in Sets, NEW rev \in Nat \ {0},
           NEW seq \in Nat, NEW k \in Keys \union {NoKey},
           NEW sig \in Signatures \union {NoSig},
           PublishArrive(r, s, rev, seq, k, sig)
    PROVE  IInv'
<1> DEFINE q == [op |-> "publish", set |-> s, rev |-> rev, seq |-> seq,
                 key |-> k, sig |-> sig, attempt |-> 0, next |-> 0]
<1>1. q \in PublishRequests
  BY DEF PublishRequests
<1> QED BY <1>1, ArriveInv DEF PublishArrive

\* The first read of serveSignature finds a signed publication.
LEMMA SignatureArriveInv ==
    ASSUME IInv, NEW r \in Requests, NEW s \in Sets, SignatureArrive(r, s)
    PROVE  IInv'
<1> DEFINE seq == LatestPublication(s)
           pub == publications[s][seq]
           q   == [op |-> "signature", set |-> s, publication |-> seq,
                   key |-> pub.keyID, sig |-> pub.signature, served |-> 0]
<1>1. TablesInv /\ Frame /\ \A o \in Requests : RequestOK(o)
  BY DEF IInv
<1>2. seq \in DOMAIN publications[s] /\ seq \in Nat \ {0}
  <2>1. publications[s] \in Seq(Publications)
    BY <1>1 DEF TablesInv, Tables
  <2>2. seq = Len(publications[s]) /\ DOMAIN publications[s] # {}
    BY <2>1, TableIsList DEF LatestPublication, SignatureArrive
  <2> QED BY <2>1, <2>2, TableIsList
<1>3. pub \in Publications
  BY <1>1, <1>2 DEF TablesInv, Tables
<1>4. pub.signature # NoSig
  BY DEF SignatureArrive
<1>5. pub.keyID \in Keys /\ pub.signature \in Signatures
  BY <1>1, <1>2, <1>3, <1>4 DEF TablesInv, SignaturesVerify, Publications
<1>6. q \in SignatureRequests
  BY <1>2, <1>5 DEF SignatureRequests
<1>7. /\ pc[r] = "idle" /\ req' = [req EXCEPT ![r] = q]
      /\ pc' = [pc EXCEPT ![r] = "published"]
      /\ UNCHANGED <<versions, publications, published, keys, lock>>
  BY DEF SignatureArrive, Goto
<1>8. pc'[r] = "published" /\ req'[r] = q
  BY <1>1, <1>7 DEF Frame
<1>9. \A t \in Sets : lock'[t] # r
  BY <1>1, <1>7 DEF RequestOK, LockProtocol, InTransaction
<1>10. RequestOK(r)'
  <2> HIDE DEF q
  <2> QED BY <1>6, <1>8, <1>9 DEF RequestOK, RequestType, LockProtocol, SignedOrNot,
            ReadsCurrent, InTransaction
<1> HIDE DEF q
<1> QED BY <1>1, <1>7, <1>10, OneRequest DEF Frame

\* The second read of serveSignature.
LEMMA SignatureReadInv ==
    ASSUME IInv, NEW r \in Requests, SignatureRead(r)
    PROVE  IInv'
<1> DEFINE q == [req[r] EXCEPT !.served = Published(req[r].set)]
<1>1. TablesInv /\ Frame /\ \A o \in Requests : RequestOK(o)
  BY DEF IInv
<1>2. pc[r] = "published" /\ req[r] \in SignatureRequests
  BY <1>1 DEF SignatureRead, RequestOK, RequestType
<1>3. q \in SignatureRequests
  BY <1>1, <1>2 DEF SignatureRequests, Published, Frame
<1>4. /\ req' = [req EXCEPT ![r] = q]
      /\ pc' = [pc EXCEPT ![r] = "answer"]
      /\ UNCHANGED <<versions, publications, published, keys, lock>>
  BY <1>1 DEF SignatureRead, Goto, Frame
<1>5. pc'[r] = "answer" /\ req'[r] = q
  BY <1>1, <1>4 DEF Frame
<1>6. \A t \in Sets : lock'[t] # r
  BY <1>1, <1>2, <1>4 DEF RequestOK, LockProtocol, InTransaction
<1>7. RequestOK(r)'
  <2> HIDE DEF q
  <2> QED BY <1>3, <1>5, <1>6 DEF RequestOK, RequestType, LockProtocol, SignedOrNot,
            ReadsCurrent, InTransaction
<1> HIDE DEF q
<1> QED BY <1>1, <1>4, <1>7, OneRequest DEF Frame

\* The request of a transaction reads: its new entry q differs from the old
\* one in what it has read, and that is current.
LEMMA ReadInv ==
    ASSUME IInv, NEW r \in Requests, NEW q, pc[r] = "read",
           q \in CreateRequests \union PublishRequests, q.attempt = 0,
           q.set = req[r].set,
           q.op = "publish" => (q.key = NoKey <=> q.sig = NoSig),
           q.op = "create" => q.next = Len(versions[q.set]) + 1,
           q.op = "publish" =>
              /\ q.next = Len(publications[q.set]) + 1
              /\ q.rev \in DOMAIN versions[q.set]
              /\ StatementCheck(q, q.next),
           req' = [req EXCEPT ![r] = q], Goto(r, "write"),
           UNCHANGED <<versions, publications, published, keys, lock>>
    PROVE  IInv'
<1>1. TablesInv /\ Frame /\ \A o \in Requests : RequestOK(o)
  BY DEF IInv
<1>2. pc'[r] = "write" /\ req'[r] = q /\ pc' = [pc EXCEPT ![r] = "write"]
  BY <1>1 DEF Frame, Goto
<1>3. LockProtocol(r)'
  BY <1>1, <1>2 DEF RequestOK, LockProtocol, InTransaction
<1>4. ReadsCurrent(r)'
  BY <1>2 DEF ReadsCurrent, StatementCheck
<1>5. RequestOK(r)'
  BY <1>2, <1>3, <1>4 DEF RequestOK, RequestType, SignedOrNot
<1> QED BY <1>1, <1>2, <1>5, OneRequest DEF Frame

\* createVersion reads its number, or refuses the content.
LEMMA CreateReadInv ==
    ASSUME IInv, NEW r \in Requests, CreateRead(r)
    PROVE  IInv'
<1> DEFINE q == [req[r] EXCEPT !.next = NextNumber(versions[req[r].set])]
<1>1. TablesInv /\ Frame /\ \A o \in Requests : RequestOK(o)
  BY DEF IInv
<1>2. pc[r] = "read" /\ req[r] \in CreateRequests /\ req[r].attempt = 0
  BY <1>1 DEF CreateRead, RequestOK, RequestType, PublishRequests
<1>3. /\ NextNumber(versions[req[r].set]) = Len(versions[req[r].set]) + 1
      /\ NextNumber(versions[req[r].set]) \in Nat
  BY <1>1, <1>2, TableIsList DEF TablesInv, Tables, CreateRequests
<1>4. CASE req[r].content \in ValidContents
  <2>1. /\ q \in CreateRequests /\ q.attempt = 0 /\ q.set = req[r].set
        /\ q.op = "create" /\ q.next = Len(versions[q.set]) + 1
    BY <1>2, <1>3 DEF CreateRequests
  <2>2. /\ req' = [req EXCEPT ![r] = q] /\ Goto(r, "write")
        /\ UNCHANGED <<versions, publications, published, keys, lock>>
    BY <1>1, <1>4 DEF CreateRead, Frame
  <2> HIDE DEF q
  <2> QED BY <1>2, <2>1, <2>2, ReadInv
<1>5. CASE req[r].content \notin ValidContents
  BY <1>5, FinishInv DEF CreateRead
<1> QED BY <1>4, <1>5

\* publish reads its number and checks the statement, or refuses.
LEMMA PublishReadInv ==
    ASSUME IInv, NEW r \in Requests, PublishRead(r)
    PROVE  IInv'
<1> DEFINE next == NextNumber(publications[req[r].set])
           q    == [req[r] EXCEPT !.next = next]
           ok   == /\ req[r].rev \in DOMAIN versions[req[r].set]
                   /\ req[r].seq \in {0, next}
                   /\ StatementCheck(req[r], next)
<1>1. TablesInv /\ Frame /\ \A o \in Requests : RequestOK(o)
  BY DEF IInv
<1>2. /\ pc[r] = "read" /\ req[r] \in PublishRequests /\ req[r].attempt = 0
      /\ req[r].key = NoKey <=> req[r].sig = NoSig
  BY <1>1 DEF PublishRead, RequestOK, RequestType, CreateRequests, SignedOrNot
<1>3. next = Len(publications[req[r].set]) + 1 /\ next \in Nat
  <2>1. publications[req[r].set] \in Seq(Publications)
    BY <1>1, <1>2 DEF TablesInv, Tables, PublishRequests
  <2> QED BY <2>1, TableIsList
<1>4. CASE ok
  <2>1. /\ q \in PublishRequests /\ q.attempt = 0 /\ q.set = req[r].set
        /\ q.op = "publish" /\ q.next = Len(publications[q.set]) + 1
        /\ q.key = NoKey <=> q.sig = NoSig
        /\ q.rev = req[r].rev /\ q.key = req[r].key /\ q.sig = req[r].sig
        /\ q.next = next
    BY <1>2, <1>3 DEF PublishRequests
  <2>2. q.rev \in DOMAIN versions[q.set] /\ StatementCheck(q, q.next)
    BY <1>4, <2>1 DEF StatementCheck
  <2>3. /\ req' = [req EXCEPT ![r] = q] /\ Goto(r, "write")
        /\ UNCHANGED <<versions, publications, published, keys, lock>>
    BY <1>1, <1>4 DEF PublishRead, Frame
  <2> HIDE DEF q, next
  <2> QED BY <1>2, <2>1, <2>2, <2>3, ReadInv
<1>5. CASE ~ok
  BY <1>5, FinishInv DEF PublishRead
<1> QED BY <1>4, <1>5
------------------------------------------------------------------------------
(* Transactions write and commit.                                          *)

\* A commit of request r on set s gives the lock back and changes the rows of
\* s only; every other request is in no transaction on s, because r held the
\* lock, so what it has read stays current.
LEMMA CommitInv ==
    ASSUME IInv, NEW r \in Requests, NEW s \in Sets, lock[s] = r, Finish(r),
           \A t \in Sets \ {s} : /\ versions'[t] = versions[t]
                                 /\ publications'[t] = publications[t],
           TablesInv', published' \in [Sets -> Nat], UNCHANGED keys
    PROVE  IInv'
<1>1. TablesInv /\ Frame /\ \A o \in Requests : RequestOK(o)
  BY DEF IInv
<1>2. lock' = [t \in Sets |-> IF lock[t] = r THEN NoRequest ELSE lock[t]]
  BY DEF Finish, Unlocked
<1>3. /\ lock' \in [Sets -> Requests \union {NoRequest}]
      /\ \A o \in Requests \ {r} : \A t \in Sets : lock'[t] = o <=> lock[t] = o
      /\ \A t \in Sets : lock'[t] # r
  BY <1>1, <1>2, ServerAssumption DEF Frame
<1>4. Frame'
  BY <1>1, <1>3 DEF Frame, Finish
<1>5. RequestOK(r)'
  <2>1. pc'[r] = "idle" /\ req'[r] = Idle
    BY <1>1 DEF Finish, Frame
  <2> QED BY <1>3, <2>1 DEF RequestOK, RequestType, LockProtocol, SignedOrNot,
            ReadsCurrent, InTransaction
<1>6. ASSUME NEW o \in Requests, o # r PROVE RequestOK(o)'
  <2>1. pc'[o] = pc[o] /\ req'[o] = req[o]
    BY <1>1, <1>6 DEF Finish, Frame
  <2>2. /\ RequestType(o) /\ LockProtocol(o) /\ SignedOrNot(o) /\ ReadsCurrent(o)
    BY <1>1 DEF RequestOK
  <2>3. RequestType(o)' /\ SignedOrNot(o)'
    BY <2>1, <2>2 DEF RequestType, SignedOrNot
  <2>4. pc[o] \in {"begin", "read", "write"} => req[o].set \in Sets
    BY <2>2 DEF RequestType, CreateRequests, PublishRequests
  <2>5. LockProtocol(o)'
    BY <1>3, <1>6, <2>1, <2>2, <2>4 DEF LockProtocol, InTransaction
  <2>6. InTransaction(o) => req[o].set \in Sets \ {s}
    BY <1>6, <2>2, <2>4 DEF LockProtocol, InTransaction
  <2>7. ReadsCurrent(o)'
    BY <2>1, <2>2, <2>6 DEF ReadsCurrent, StatementCheck, InTransaction
  <2> QED BY <2>3, <2>5, <2>7 DEF RequestOK
<1> QED BY <1>4, <1>5, <1>6 DEF IInv

\* createVersion's INSERT and commit append one file to the set.
LEMMA CreateInsertInv ==
    ASSUME IInv, NEW r \in Requests, CreateInsert(r)
    PROVE  IInv'
<1> DEFINE q    == req[r]
           file == Canonical(q.content, q.next)
<1>1. TablesInv /\ Frame /\ \A o \in Requests : RequestOK(o)
  BY DEF IInv
<1>2. /\ pc[r] = "write" /\ q \in CreateRequests
      /\ q.set \in Sets /\ lock[q.set] = r
      /\ versions[q.set] \in Seq(Files)
      /\ q.next = Len(versions[q.set]) + 1
  BY <1>1 DEF CreateInsert, RequestOK, RequestType, LockProtocol, ReadsCurrent,
       InTransaction, CreateRequests, PublishRequests, TablesInv, Tables
<1>3. file \in Files
  BY <1>2 DEF CreateRequests, Files, Canonical
<1>4. q.next \notin DOMAIN versions[q.set]
  BY <1>2, TableIsList
<1>5. /\ versions' = [versions EXCEPT ![q.set] = Append(@, file)]
      /\ Finish(r) /\ UNCHANGED <<publications, published, keys>>
  BY <1>2, <1>3, <1>4, InsertIsAppend DEF CreateInsert
<1>6. /\ Append(versions[q.set], file) \in Seq(Files)
      /\ \A n \in DOMAIN versions[q.set] :
            /\ n \in DOMAIN Append(versions[q.set], file)
            /\ Append(versions[q.set], file)[n] = versions[q.set][n]
  BY <1>2, <1>3
<1>7. \A s \in Sets : \A n \in DOMAIN versions[s] :
         n \in DOMAIN versions'[s] /\ versions'[s][n] = versions[s][n]
  BY <1>1, <1>5, <1>6 DEF TablesInv, Tables
<1>8. Tables' /\ ServesLatest'
  BY <1>1, <1>2, <1>5, <1>6 DEF TablesInv, Tables, ServesLatest, LatestPublication
<1>9. SignaturesVerify'
  BY <1>1, <1>5, <1>7 DEF TablesInv, SignaturesVerify
<1>10. \A t \in Sets \ {q.set} : /\ versions'[t] = versions[t]
                                 /\ publications'[t] = publications[t]
  BY <1>1, <1>5 DEF TablesInv, Tables
<1> QED BY <1>1, <1>2, <1>5, <1>8, <1>9, <1>10, CommitInv DEF TablesInv, Frame

\* publish's UPDATE, INSERT and commit: pointer and history move together.
LEMMA PublishWriteInv ==
    ASSUME IInv, NEW r \in Requests, PublishWrite(r)
    PROVE  IInv'
<1> DEFINE q   == req[r]
           s   == q.set
           pub == [revision |-> q.rev, keyID |-> q.key, signature |-> q.sig]
<1>1. TablesInv /\ Frame /\ \A o \in Requests : RequestOK(o)
  BY DEF IInv
<1>2. /\ pc[r] = "write" /\ q \in PublishRequests
      /\ s \in Sets /\ lock[s] = r
      /\ publications[s] \in Seq(Publications)
      /\ q.next = Len(publications[s]) + 1
      /\ q.rev \in DOMAIN versions[s]
      /\ q.key = NoKey <=> q.sig = NoSig
      /\ StatementCheck(q, q.next)
  BY <1>1 DEF PublishWrite, RequestOK, RequestType, LockProtocol, ReadsCurrent,
       SignedOrNot, InTransaction, CreateRequests, PublishRequests, TablesInv,
       Tables
<1>3. pub \in Publications
  BY <1>2 DEF PublishRequests, Publications
<1>4. q.next \notin DOMAIN publications[s]
  BY <1>2, TableIsList
<1>5. /\ publications' = [publications EXCEPT ![s] = Append(@, pub)]
      /\ published' = [published EXCEPT ![s] = q.rev]
      /\ Finish(r) /\ UNCHANGED <<versions, keys>>
  BY <1>2, <1>3, <1>4, InsertIsAppend DEF PublishWrite, Pointer
<1> DEFINE new == Append(publications[s], pub)
<1>6. /\ new \in Seq(Publications) /\ Len(new) = q.next
      /\ \A n \in 1 .. Len(publications[s]) : new[n] = publications[s][n]
      /\ new[q.next] = pub
  BY <1>2, <1>3, InsertIsAppend
<1>11. /\ q.next \in Nat \ {0}
       /\ DOMAIN new = 1 .. q.next /\ MaxOrZero(DOMAIN new) = q.next
       /\ DOMAIN publications[s] = 1 .. (q.next - 1)
  <2>1. DOMAIN new = 1 .. Len(new) /\ MaxOrZero(DOMAIN new) = Len(new)
    <3> HIDE DEF new
    <3> QED BY <1>6, TableIsList
  <2>2. /\ DOMAIN publications[s] = 1 .. Len(publications[s])
        /\ Len(publications[s]) \in Nat
    BY <1>2, TableIsList
  <2> QED BY <1>2, <1>6, <2>1, <2>2
<1>7. /\ publications'[s] = new
      /\ published'[s] = q.rev
      /\ \A t \in Sets \ {s} : /\ publications'[t] = publications[t]
                               /\ published'[t] = published[t]
  BY <1>1, <1>2, <1>5 DEF TablesInv, Tables, Frame
<1>8. Tables' /\ published' \in [Sets -> Nat]
  BY <1>1, <1>2, <1>5, <1>6 DEF TablesInv, Tables, Frame, PublishRequests
<1>9. ServesLatest'
  <2>1. ASSUME NEW t \in Sets
        PROVE  published'[t] = IF DOMAIN publications'[t] = {}
                 THEN 0
                 ELSE publications'[t][MaxOrZero(DOMAIN publications'[t])].revision
    <3>1. CASE t = s
      BY <1>6, <1>7, <1>11, <3>1
    <3>2. CASE t # s
      BY <1>1, <1>7, <3>2 DEF TablesInv, ServesLatest, LatestPublication
    <3> QED BY <3>1, <3>2
  <2> QED BY <2>1 DEF ServesLatest, LatestPublication
<1>10. SignaturesVerify'
  <2>1. ASSUME NEW t \in Sets, NEW n \in DOMAIN publications'[t]
        PROVE  LET p == publications'[t][n] IN
                  /\ p.revision \in DOMAIN versions[t]
                  /\ p.keyID = NoKey <=> p.signature = NoSig
                  /\ p.keyID # NoKey =>
                        Verify(p.keyID,
                               For(t, n, p.revision, versions[t][p.revision]),
                               p.signature)
    <3>1. CASE t = s /\ n = q.next
      <4>1. publications'[t][n] = pub
        BY <1>6, <1>7, <3>1
      <4> QED BY <1>2, <3>1, <4>1 DEF StatementCheck
    <3>2. CASE ~(t = s /\ n = q.next)
      <4>1. n \in DOMAIN publications[t] /\ publications'[t][n] = publications[t][n]
        <5>1. CASE t = s
          <6> HIDE DEF new
          <6>1. n \in 1 .. q.next /\ n # q.next
            BY <1>7, <1>11, <2>1, <3>2, <5>1
          <6>2. n \in 1 .. Len(publications[s])
            BY <1>2, <1>11, <6>1
          <6> QED BY <1>6, <1>7, <1>11, <5>1, <6>1, <6>2
        <5>2. CASE t # s
          BY <1>7, <2>1, <5>2
        <5> QED BY <5>1, <5>2
      <4> QED BY <1>1, <4>1 DEF TablesInv, SignaturesVerify
    <3> QED BY <3>1, <3>2
  <2> QED BY <1>5, <2>1 DEF SignaturesVerify
<1> QED BY <1>2, <1>5, <1>7, <1>8, <1>9, <1>10, CommitInv DEF TablesInv
------------------------------------------------------------------------------
(* The invariant holds.                                                    *)

\* Empty tables and idle handlers satisfy the invariant.
LEMMA InitInv == Init => IInv
<1> SUFFICES ASSUME Init PROVE IInv
  OBVIOUS
<1> USE DEF Init, LogInit
<1>1. Tables
  BY DEF Tables
<1>2. ServesLatest
  BY DEF ServesLatest
<1>3. SignaturesVerify
  BY DEF SignaturesVerify
<1>4. Frame
  BY DEF Frame
<1>5. ASSUME NEW r \in Requests PROVE RequestOK(r)
  BY ServerAssumption DEF RequestOK, RequestType, LockProtocol, SignedOrNot,
       ReadsCurrent, InTransaction
<1> QED BY <1>1, <1>2, <1>3, <1>4, <1>5 DEF IInv, TablesInv

\* Adding or revoking a key touches no request and no table.
LEMMA KeyInv ==
    ASSUME IInv, NEW k \in Keys, AddSigningKey(k) \/ RevokeSigningKey(k)
    PROVE  IInv'
<1>1. TablesInv /\ Frame /\ \A o \in Requests : RequestOK(o)
  BY DEF IInv
<1>2. UNCHANGED <<versions, publications, published, lock, pc, req>>
  BY DEF AddSigningKey, RevokeSigningKey
<1>3. TablesInv'
  BY <1>1, <1>2, TablesUnchanged
<1>4. Frame'
  BY <1>1, <1>2 DEF Frame, AddSigningKey, RevokeSigningKey
<1>5. \A o \in Requests : RequestOK(o)'
  BY <1>1, <1>2, OtherRequest
<1> QED BY <1>3, <1>4, <1>5 DEF IInv

\* Signatures a publisher holds are signatures.
LEMMA HeldTyped ==
    ASSUME IInv, NEW s \in Sets, NEW sig \in Held(s)
    PROVE  sig \in Signatures /\ sig.statement.publication \in Nat
<1>1. versions[s] \in Seq(Files) /\ publications[s] \in Seq(Publications)
  BY DEF IInv, TablesInv, Tables
<1>2. PICK k \in Keys, st \in HandedOut(s) : sig = Signature(k, st)
  BY DEF Held
<1>3. PICK p \in 1 .. NextNumber(publications[s]), rev \in DOMAIN versions[s] :
         st = For(s, p, rev, versions[s][rev])
  BY <1>2 DEF HandedOut
<1>4. p \in Nat \ {0} /\ rev \in Nat \ {0} /\ versions[s][rev] \in Files
  BY <1>1, <1>3, TableIsList
<1> QED BY <1>2, <1>3, <1>4 DEF Signatures, Statements, Signature, For

\* Every request that arrives preserves the invariant.
LEMMA ArriveStepInv ==
    ASSUME IInv, NEW r \in Requests, NEW s \in Sets, Arrive(r, s)
    PROVE  IInv'
<1>1. /\ NextNumber(versions[s]) \in Nat /\ NextNumber(publications[s]) \in Nat
  BY TableIsList DEF IInv, TablesInv, Tables
<1>2. CASE \E c \in Contents : CreateArrive(r, s, c)
  BY <1>2, CreateArriveInv
<1>3. CASE \E rev \in 1 .. NextNumber(versions[s]),
              seq \in 0 .. NextNumber(publications[s]) :
              PublishArrive(r, s, rev, seq, NoKey, NoSig)
  BY <1>1, <1>3, PublishArriveInv
<1>4. CASE \E rev \in 1 .. NextNumber(versions[s]), k \in Keys, t \in Sets :
              \E sig \in Held(t) :
                 PublishArrive(r, s, rev, sig.statement.publication, k, sig)
  BY <1>1, <1>4, HeldTyped, PublishArriveInv
<1>5. CASE SignatureArrive(r, s)
  BY <1>5, SignatureArriveInv
<1> QED BY <1>2, <1>3, <1>4, <1>5 DEF Arrive

\* Every step of the server preserves the invariant.
LEMMA NextInv == IInv /\ [Next]_vars => IInv'
<1> SUFFICES ASSUME IInv, [Next]_vars PROVE IInv'
  OBVIOUS
<1>1. CASE UNCHANGED vars
  <2>1. TablesInv'
    BY <1>1, TablesUnchanged DEF IInv, vars
  <2>2. Frame' /\ \A o \in Requests : RequestOK(o)'
    BY <1>1, OtherRequest DEF IInv, Frame, vars
  <2> QED BY <2>1, <2>2 DEF IInv
<1>2. ASSUME NEW r \in Requests, Step(r) PROVE IInv'
  <2>1. CASE Begin(r)
    BY <2>1, BeginInv
  <2>2. CASE CreateRead(r)
    BY <2>2, CreateReadInv
  <2>3. CASE CreateInsert(r)
    BY <2>3, CreateInsertInv
  <2>4. CASE PublishRead(r)
    BY <2>4, PublishReadInv
  <2>5. CASE PublishWrite(r)
    BY <2>5, PublishWriteInv
  <2>6. CASE SignatureRead(r)
    BY <2>6, SignatureReadInv
  <2>7. CASE SignatureAnswer(r)
    BY <2>7, FinishInv DEF SignatureAnswer
  <2> QED BY <1>2, <2>1, <2>2, <2>3, <2>4, <2>5, <2>6, <2>7 DEF Step
<1>3. ASSUME NEW r \in Requests, Abort(r) PROVE IInv'
  BY <1>3, FinishInv DEF Abort
<1>4. ASSUME NEW r \in Requests, NEW s \in Sets, Arrive(r, s) PROVE IInv'
  BY <1>4, ArriveStepInv
<1>5. ASSUME NEW k \in Keys, AddSigningKey(k) \/ RevokeSigningKey(k) PROVE IInv'
  BY <1>5, KeyInv
<1> QED BY <1>1, <1>2, <1>3, <1>4, <1>5 DEF Next

\* The inductive invariant: tables are gapless lists with valid signatures,
\* every transaction holds its set's lock and what it has read is current.
THEOREM Invariant == Spec => []IInv
BY InitInv, NextInv, PTL DEF Spec

\* Every variable has its type in every reachable state.
THEOREM TypeCorrect == Spec => []TypeOK
<1>1. IInv => TypeOK
  <2> SUFFICES ASSUME IInv PROVE TypeOK
    OBVIOUS
  <2>1. /\ \A s \in Sets : \A n \in DOMAIN versions[s] :
             n \in Nat \ {0} /\ versions[s][n] \in Files
        /\ \A s \in Sets : \A n \in DOMAIN publications[s] :
             n \in Nat \ {0} /\ publications[s][n] \in Publications
        /\ DOMAIN versions = Sets /\ DOMAIN publications = Sets
    BY TableIsList DEF IInv, TablesInv, Tables
  <2>2. pc \in [Requests ->
                 {"idle", "begin", "read", "write", "published", "answer"}]
    BY DEF IInv, Frame, RequestOK, RequestType
  <2>3. \A r \in Requests :
          \/ pc[r] = "idle" /\ req[r] = Idle
          \/ /\ pc[r] \in {"begin", "read", "write"}
             /\ req[r] \in CreateRequests \union PublishRequests
          \/ /\ pc[r] \in {"published", "answer"}
             /\ req[r] \in SignatureRequests
    BY DEF IInv, RequestOK, RequestType
  <2> QED BY <2>1, <2>2, <2>3 DEF TypeOK, IInv, Frame
<1> QED BY <1>1, Invariant, PTL

\* Revisions and publication numbers have no gaps and no insert ever loses a
\* race for its number (CreateVersion, Publish), for any number of requests.
THEOREM NumberingHolds == Spec => [](Numbering /\ NoRaceRetry)
<1>1. IInv => Numbering
  BY TableIsList DEF IInv, TablesInv, Tables, Numbering
<1>2. IInv => NoRaceRetry
  BY DEF IInv, RequestOK, RequestType, NoRaceRetry
<1> QED BY <1>1, <1>2, Invariant, PTL

\* The set serves what its newest publication names.
THEOREM ServesLatestHolds == Spec => []ServesLatest
<1>1. IInv => ServesLatest
  BY DEF IInv, TablesInv
<1> QED BY <1>1, Invariant, PTL

\* Every stored signature verifies for the row it is stored in.
THEOREM SignaturesVerifyHolds == Spec => []SignaturesVerify
<1>1. IInv => SignaturesVerify
  BY DEF IInv, TablesInv
<1> QED BY <1>1, Invariant, PTL
------------------------------------------------------------------------------
(* The server implements the abstract log.                                 *)

\* A commit of createVersion is one AddVersion of the log.
LEMMA CreateInsertRefines ==
    ASSUME IInv, NEW r \in Requests, CreateInsert(r)
    PROVE  LogNext
<1> DEFINE q == req[r]
<1>1. TablesInv /\ Frame /\ \A o \in Requests : RequestOK(o)
  BY DEF IInv
<1>2. /\ q \in CreateRequests /\ q.set \in Sets /\ q.content \in Contents
      /\ versions[q.set] \in Seq(Files)
      /\ q.next = Len(versions[q.set]) + 1
  BY <1>1 DEF CreateInsert, RequestOK, RequestType, ReadsCurrent,
       CreateRequests, PublishRequests, TablesInv, Tables
<1>3. Canonical(q.content, q.next) \in Files
  BY <1>2 DEF CreateRequests, Files, Canonical
<1>4. q.next \notin DOMAIN versions[q.set]
  BY <1>2, TableIsList
<1>5. AddVersion(q.set, q.content)
  BY <1>2, <1>3, <1>4, InsertIsAppend DEF CreateInsert, AddVersion
<1> QED BY <1>2, <1>5 DEF LogNext

\* A commit of publish is one Publish of the log.
LEMMA PublishWriteRefines ==
    ASSUME IInv, NEW r \in Requests, PublishWrite(r)
    PROVE  LogNext
<1> DEFINE q   == req[r]
           s   == q.set
           pub == [revision |-> q.rev, keyID |-> q.key, signature |-> q.sig]
<1>1. TablesInv /\ Frame /\ \A o \in Requests : RequestOK(o)
  BY DEF IInv
<1>2. /\ q \in PublishRequests /\ s \in Sets
      /\ q.key \in Keys \union {NoKey}
      /\ publications[s] \in Seq(Publications)
      /\ q.next = Len(publications[s]) + 1
      /\ q.rev \in DOMAIN versions[s]
      /\ q.key = NoKey <=> q.sig = NoSig
      /\ StatementCheck(q, q.next)
  BY <1>1 DEF PublishWrite, RequestOK, RequestType, ReadsCurrent, SignedOrNot,
       CreateRequests, PublishRequests, TablesInv, Tables
<1>3. pub \in Publications
  BY <1>2 DEF PublishRequests, Publications
<1>4. q.next \notin DOMAIN publications[s]
  BY <1>2, TableIsList
<1>5. /\ publications' = [publications EXCEPT ![s] = Append(@, pub)]
      /\ published' = [published EXCEPT ![s] = q.rev]
      /\ UNCHANGED versions
  BY <1>2, <1>3, <1>4, InsertIsAppend DEF PublishWrite, Pointer
<1>6. /\ Acceptable(s, q.rev, q.key, q.sig)
      /\ q.sig \in SignaturesFor(s, q.rev, q.key)
  BY <1>2, NoKeyAssumption DEF Acceptable, SignaturesFor, StatementCheck,
       Verify, NextPublication
<1>7. Publish(s, q.rev, q.key, q.sig)
  BY <1>2, <1>5, <1>6 DEF Publish
<1> QED BY <1>2, <1>6, <1>7 DEF LogNext

\* Every step of the server is a step of the log or leaves it alone.
LEMMA StepRefines == IInv /\ [Next]_vars => [LogNext]_logVars
<1> SUFFICES ASSUME IInv, [Next]_vars PROVE [LogNext]_logVars
  OBVIOUS
<1>1. ASSUME NEW r \in Requests, Step(r) PROVE [LogNext]_logVars
  <2>1. CASE CreateInsert(r)
    BY <2>1, CreateInsertRefines
  <2>2. CASE PublishWrite(r)
    BY <2>2, PublishWriteRefines
  <2>3. CASE \/ Begin(r) \/ CreateRead(r) \/ PublishRead(r)
             \/ SignatureRead(r) \/ SignatureAnswer(r)
    BY <2>3 DEF Begin, CreateRead, PublishRead, SignatureRead, SignatureAnswer,
         logVars
  <2> QED BY <1>1, <2>1, <2>2, <2>3 DEF Step
<1>2. ASSUME NEW r \in Requests, NEW s \in Sets, Arrive(r, s)
      PROVE  UNCHANGED logVars
  BY <1>2 DEF Arrive, CreateArrive, PublishArrive, SignatureArrive, logVars
<1>3. ASSUME NEW r \in Requests, Abort(r) PROVE UNCHANGED logVars
  BY <1>3 DEF Abort, logVars
<1>4. ASSUME NEW k \in Keys, AddSigningKey(k) \/ RevokeSigningKey(k)
      PROVE  UNCHANGED logVars
  BY <1>4 DEF AddSigningKey, RevokeSigningKey, logVars
<1>5. CASE UNCHANGED vars
  BY <1>5 DEF vars, logVars
<1> QED BY <1>1, <1>2, <1>3, <1>4, <1>5 DEF Next

\* The server, with its transactions, locks, retries and failures, implements
\* the atomic publication log (store.CreateVersion, store.Publish).
THEOREM Refinement == Spec => LogSpec
<1>1. Init => LogInit
  BY DEF Init
<1> QED BY <1>1, StepRefines, Invariant, PTL DEF Spec, LogSpec

\* No step of the log changes or drops a row.
LEMMA LogKept ==
    ASSUME Tables, [LogNext]_logVars,
           NEW s \in Sets
    PROVE  /\ \A n \in DOMAIN versions[s] :
                n \in DOMAIN versions'[s] /\ versions'[s][n] = versions[s][n]
           /\ \A n \in DOMAIN publications[s] :
                /\ n \in DOMAIN publications'[s]
                /\ publications'[s][n] = publications[s][n]
<1>1. versions[s] \in Seq(Files) /\ publications[s] \in Seq(Publications)
  BY DEF Tables
<1>2. ASSUME NEW S, NEW t \in Seq(S), NEW u, u = t \/ \E e : u = Append(t, e),
             NEW n \in DOMAIN t
      PROVE  n \in DOMAIN u /\ u[n] = t[n]
  BY <1>2
<1>3. ASSUME NEW t \in Sets, NEW c \in Contents, AddVersion(t, c)
      PROVE  /\ \/ versions'[s] = versions[s]
                \/ \E e : versions'[s] = Append(versions[s], e)
             /\ publications'[s] = publications[s]
  BY <1>3 DEF AddVersion, Tables
<1>4. ASSUME NEW t \in Sets, NEW rev, NEW k, NEW sig, Publish(t, rev, k, sig)
      PROVE  /\ \/ publications'[s] = publications[s]
                \/ \E e : publications'[s] = Append(publications[s], e)
             /\ versions'[s] = versions[s]
  BY <1>4 DEF Publish, Tables
<1>5. /\ \/ versions'[s] = versions[s]
         \/ \E e : versions'[s] = Append(versions[s], e)
      /\ \/ publications'[s] = publications[s]
         \/ \E e : publications'[s] = Append(publications[s], e)
  BY <1>3, <1>4 DEF LogNext, logVars
<1>6. ASSUME NEW n \in DOMAIN versions[s]
      PROVE  n \in DOMAIN versions'[s] /\ versions'[s][n] = versions[s][n]
  BY <1>1, <1>5, <1>2, Zenon
<1>7. ASSUME NEW n \in DOMAIN publications[s]
      PROVE  /\ n \in DOMAIN publications'[s]
             /\ publications'[s][n] = publications[s][n]
  BY <1>1, <1>5, <1>2, Zenon
<1> QED BY <1>6, <1>7

\* Versions and publications are immutable and kept.
THEOREM HistoryKeptHolds == Spec => HistoryKept
<1>1. IInv /\ [Next]_vars =>
        [\A s \in Sets :
          /\ \A n \in DOMAIN versions[s] :
                n \in DOMAIN versions'[s] /\ versions'[s][n] = versions[s][n]
          /\ \A n \in DOMAIN publications[s] :
                /\ n \in DOMAIN publications'[s]
                /\ publications'[s][n] = publications[s][n]]_vars
  BY StepRefines, LogKept DEF IInv, TablesInv
<1> QED BY <1>1, Invariant, PTL DEF Spec, HistoryKept

------------------------------------------------------------------------------
(* The signature file.                                                     *)

\* What serveSignature's first read found is still in the table, and what
\* its second read found is still served, unless the set was published
\* again.
FileOK(r) ==
    LET q == req[r] IN
    /\ pc[r] \in {"published", "answer"} =>
          /\ q.publication \in DOMAIN publications[q.set]
          /\ publications[q.set][q.publication].keyID = q.key
          /\ publications[q.set][q.publication].signature = q.sig
    /\ pc[r] = "answer" =>
          \/ LatestPublication(q.set) # q.publication
          \/ q.served = published[q.set]

\* A step leaves the set's publications and pointer alone, or its newest
\* publication is none of those it had.
LEMMA PointerStep ==
    ASSUME IInv, IInv', [LogNext]_logVars, NEW s \in Sets
    PROVE  \/ publications'[s] = publications[s] /\ published'[s] = published[s]
           \/ \A n \in DOMAIN publications[s] : MaxOrZero(DOMAIN publications'[s]) # n
<1>1. /\ publications \in [Sets -> Seq(Publications)] /\ published \in [Sets -> Nat]
      /\ publications'[s] \in Seq(Publications)
  BY DEF IInv, TablesInv, Tables, Frame
<1>2. ASSUME NEW t \in Sets, NEW c \in Contents, AddVersion(t, c)
      PROVE  publications'[s] = publications[s] /\ published'[s] = published[s]
  BY <1>2 DEF AddVersion
<1>3. ASSUME NEW t \in Sets, NEW rev, NEW k, NEW sig, Publish(t, rev, k, sig)
      PROVE  \/ publications'[s] = publications[s] /\ published'[s] = published[s]
             \/ \A n \in DOMAIN publications[s] : MaxOrZero(DOMAIN publications'[s]) # n
  <2>1. CASE t # s
    BY <1>1, <1>3, <2>1 DEF Publish
  <2>2. CASE t = s
    <3>1. PICK e : publications'[s] = Append(publications[s], e)
      BY <1>1, <1>3, <2>2 DEF Publish
    <3>2. publications[s] \in Seq(Publications)
      BY <1>1
    <3>3. Len(publications'[s]) = Len(publications[s]) + 1
      BY <3>1, <3>2
    <3>4. MaxOrZero(DOMAIN publications'[s]) = Len(publications[s]) + 1
      BY <1>1, <3>3, TableIsList
    <3>5. DOMAIN publications[s] = 1 .. Len(publications[s]) /\ Len(publications[s]) \in Nat
      BY <3>2
    <3> QED BY <3>4, <3>5
  <2> QED BY <2>1, <2>2
<1> QED BY <1>2, <1>3 DEF LogNext, logVars

\* A step rewrites a request's entry only as serveSignature reads, or to one
\* with which serveSignature has nothing to do.
LEMMA EntryStep ==
    ASSUME IInv, [Next]_vars, NEW r \in Requests
    PROVE  \/ pc'[r] = pc[r] /\ req'[r] = req[r]
           \/ pc'[r] \in {"idle", "begin", "read", "write"}
           \/ SignatureRead(r)
           \/ \E s \in Sets : SignatureArrive(r, s)
<1>1. DOMAIN pc = Requests /\ DOMAIN req = Requests
  BY DEF IInv, Frame
<1>2. ASSUME NEW o \in Requests, Finish(o)
      PROVE  (pc'[r] = pc[r] /\ req'[r] = req[r]) \/ pc'[r] = "idle"
  BY <1>1, <1>2 DEF Finish
<1>3. ASSUME NEW o \in Requests, Begin(o) \/ CreateRead(o) \/ PublishRead(o)
      PROVE  (pc'[r] = pc[r] /\ req'[r] = req[r]) \/ pc'[r] \in {"idle", "read", "write"}
  BY <1>1, <1>2, <1>3 DEF Begin, CreateRead, PublishRead, Goto
<1>4. ASSUME NEW o \in Requests, Retry(o)
      PROVE  (pc'[r] = pc[r] /\ req'[r] = req[r]) \/ pc'[r] \in {"idle", "begin"}
  BY <1>1, <1>2, <1>4 DEF Retry, Goto
<1>5. ASSUME NEW o \in Requests, CreateInsert(o) \/ PublishWrite(o)
      PROVE  (pc'[r] = pc[r] /\ req'[r] = req[r]) \/ pc'[r] \in {"idle", "begin"}
  <2>1. Retry(o) \/ Finish(o)
    BY <1>5 DEF CreateInsert, PublishWrite, PublishRace
  <2> QED BY <1>2, <1>4, <2>1
<1>6. ASSUME NEW o \in Requests, SignatureRead(o)
      PROVE  (pc'[r] = pc[r] /\ req'[r] = req[r]) \/ SignatureRead(r)
  BY <1>1, <1>6 DEF SignatureRead, Goto
<1>7. ASSUME NEW o \in Requests, SignatureAnswer(o) \/ Abort(o)
      PROVE  (pc'[r] = pc[r] /\ req'[r] = req[r]) \/ pc'[r] = "idle"
  BY <1>2, <1>7 DEF SignatureAnswer, Abort
<1>8. ASSUME NEW o \in Requests, NEW s \in Sets, Arrive(o, s)
      PROVE  \/ pc'[r] = pc[r] /\ req'[r] = req[r]
             \/ pc'[r] = "begin"
             \/ SignatureArrive(r, s)
  <2>1. CASE o = r
    <3>1. SignatureArrive(o, s) \/ Goto(o, "begin")
      BY <1>8 DEF Arrive, CreateArrive, PublishArrive
    <3> QED BY <1>1, <2>1, <3>1 DEF Goto
  <2>2. CASE o # r
    BY <1>1, <1>8, <2>2 DEF Arrive, CreateArrive, PublishArrive, SignatureArrive, Goto
  <2> QED BY <2>1, <2>2
<1>9. ASSUME NEW k \in Keys, AddSigningKey(k) \/ RevokeSigningKey(k)
      PROVE  pc'[r] = pc[r] /\ req'[r] = req[r]
  BY <1>9 DEF AddSigningKey, RevokeSigningKey
<1>10. CASE UNCHANGED vars
  BY <1>10 DEF vars
<1>11. CASE \E o \in Requests : Step(o)
  BY <1>3, <1>5, <1>6, <1>7, <1>11 DEF Step
<1> QED BY <1>7, <1>8, <1>9, <1>10, <1>11 DEF Next

\* Every step keeps what the signature handlers have read in that sense.
LEMMA FileStep ==
    ASSUME IInv, [Next]_vars, NEW r \in Requests, FileOK(r)
    PROVE  FileOK(r)'
<1>1. /\ IInv' /\ [LogNext]_logVars /\ Tables
      /\ pc[r] \in {"published", "answer"} => req[r].set \in Sets
      /\ DOMAIN pc = Requests /\ DOMAIN req = Requests
  BY NextInv, StepRefines DEF IInv, TablesInv, RequestOK, RequestType, SignatureRequests, Frame
<1>2. CASE pc'[r] = pc[r] /\ req'[r] = req[r]
  <2>1. CASE pc[r] \in {"published", "answer"}
    <3>1. req[r].set \in Sets
      BY <1>1, <2>1
    <3>2. /\ req[r].publication \in DOMAIN publications'[req[r].set]
          /\ publications'[req[r].set][req[r].publication].keyID = req[r].key
          /\ publications'[req[r].set][req[r].publication].signature = req[r].sig
      BY <1>1, <2>1, <3>1, LogKept DEF FileOK
    <3>3. pc[r] = "answer" => \/ MaxOrZero(DOMAIN publications'[req[r].set]) # req[r].publication
                              \/ req[r].served = published'[req[r].set]
      BY <1>1, <2>1, <3>1, PointerStep DEF FileOK, LatestPublication
    <3> QED BY <1>2, <3>2, <3>3 DEF FileOK, LatestPublication
  <2>2. CASE pc[r] \notin {"published", "answer"}
    BY <1>2, <2>2 DEF FileOK
  <2> QED BY <2>1, <2>2
<1>3. CASE pc'[r] \in {"idle", "begin", "read", "write"}
  BY <1>3 DEF FileOK
<1>4. CASE SignatureRead(r)
  <2>1. /\ req'[r] = [req[r] EXCEPT !.served = published[req[r].set]] /\ pc'[r] = "answer"
        /\ pc[r] = "published" /\ UNCHANGED <<publications, published>>
    BY <1>1, <1>4 DEF SignatureRead, Goto, Published
  <2>2. req[r] \in SignatureRequests
    BY <2>1 DEF IInv, RequestOK, RequestType
  <2>3. /\ req'[r].served = published[req[r].set] /\ req'[r].set = req[r].set
        /\ req'[r].publication = req[r].publication
        /\ req'[r].key = req[r].key /\ req'[r].sig = req[r].sig
    BY <2>1, <2>2 DEF SignatureRequests
  <2> QED BY <2>1, <2>3 DEF FileOK
<1>5. ASSUME NEW s \in Sets, SignatureArrive(r, s)
      PROVE  FileOK(r)'
  <2>1. /\ pc'[r] = "published" /\ UNCHANGED publications
        /\ req'[r].set = s /\ req'[r].publication = LatestPublication(s)
        /\ req'[r].key = publications[s][LatestPublication(s)].keyID
        /\ req'[r].sig = publications[s][LatestPublication(s)].signature
    BY <1>1, <1>5 DEF SignatureArrive, Goto
  <2>2. LatestPublication(s) \in DOMAIN publications[s]
    <3>1. publications[s] \in Seq(Publications) /\ DOMAIN publications[s] # {}
      BY <1>1, <1>5 DEF Tables, SignatureArrive
    <3> QED BY <3>1, TableIsList DEF LatestPublication
  <2> QED BY <2>1, <2>2 DEF FileOK
<1> QED BY <1>2, <1>3, <1>4, <1>5, EntryStep

\* serveSignature reads twice outside a transaction: what it answers still
\* verifies unless the set was published again after the first read.
THEOREM SignatureFileFreshHolds == Spec => []SignatureFileFresh
<1> DEFINE FInv == \A r \in Requests : FileOK(r)
<1>1. Init => FInv
  BY DEF Init, FileOK
<1>2. IInv /\ FInv /\ [Next]_vars => FInv'
  BY FileStep
<1>3. IInv /\ FInv => SignatureFileFresh
  <2> SUFFICES ASSUME IInv, FInv, NEW r \in Requests, pc[r] = "answer",
                      LatestPublication(req[r].set) = req[r].publication
               PROVE  Verify(req[r].key, For(req[r].set, req[r].publication, req[r].served,
                               versions[req[r].set][req[r].served]), req[r].sig)
    BY DEF SignatureFileFresh
  <2> DEFINE s == req[r].set
             n == req[r].publication
  <2>1. s \in Sets /\ req[r].key \in Keys
    BY DEF IInv, RequestOK, RequestType, SignatureRequests
  <2>2. /\ n \in DOMAIN publications[s]
        /\ publications[s][n].keyID = req[r].key
        /\ publications[s][n].signature = req[r].sig
        /\ req[r].served = published[s]
    BY DEF FileOK
  <2>3. published[s] = publications[s][n].revision
    BY <2>1, <2>2 DEF IInv, TablesInv, ServesLatest
  <2>4. req[r].key # NoKey
    BY <2>1, NoKeyAssumption
  <2> QED BY <2>1, <2>2, <2>3, <2>4 DEF IInv, TablesInv, SignaturesVerify
<1> QED BY <1>1, <1>2, <1>3, Invariant, PTL DEF Spec
==============================================================================
