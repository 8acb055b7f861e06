---------------------------- MODULE PublicationLog ----------------------------
(***************************************************************************)
(* What the rule server promises its clients about one organization's rule *)
(* sets, with no transactions, locks or retries: each set is a list of     *)
(* immutable files and a list of publications, appending to either is one  *)
(* atomic step, a signed publication verifies for the place in the list it *)
(* got, and the set serves what its last publication names.                *)
(***************************************************************************)
EXTENDS Naturals, Sequences, Signing

CONSTANTS Sets,       \* rule sets, named <org>/<set>
          Contents,   \* rule sets as submitted, before canonicalization
          Keys,       \* publishers' key pairs
          NoKey,      \* key_id of an unsigned publication
          NoSig       \* signature of an unsigned publication

ASSUME NoKeyAssumption == NoKey \notin Keys

VARIABLES versions,      \* versions[s][n]: the file of revision n of set s
          publications,  \* publications[s][n]: publication number n of set s
          published      \* published[s]: the revision set s serves, 0 if none

logVars == <<versions, publications, published>>

Files == [content : Contents, revision : Nat \ {0}]
Statements ==
    [set : Sets, publication : Nat \ {0}, revision : Nat \ {0}, sha256 : Files]
Signatures == [signer : Keys, statement : Statements]
Publications ==
    [revision  : Nat \ {0},
     keyID     : Keys \union {NoKey},
     signature : Signatures \union {NoSig}]

LogInit ==
    /\ versions = [s \in Sets |-> << >>]
    /\ publications = [s \in Sets |-> << >>]
    /\ published = [s \in Sets |-> 0]

\* A version is appended and gets the next revision number.
AddVersion(s, c) ==
    /\ versions' = [versions EXCEPT
                      ![s] = Append(@, Canonical(c, Len(@) + 1))]
    /\ UNCHANGED <<publications, published>>

\* The publication number a publication of the set gets.
NextPublication(s) == Len(publications[s]) + 1

\* What a publication of revision rev needs to carry: nothing, or a
\* signature by the key it names over the statement for its own number.
Acceptable(s, rev, k, sig) ==
    \/ k = NoKey /\ sig = NoSig
    \/ /\ k \in Keys
       /\ Verify(k, For(s, NextPublication(s), rev, versions[s][rev]), sig)

\* A publication of an existing revision, older ones included (rollback).
Publish(s, rev, k, sig) ==
    /\ rev \in DOMAIN versions[s]
    /\ Acceptable(s, rev, k, sig)
    /\ publications' =
         [publications EXCEPT
            ![s] = Append(@, [revision |-> rev, keyID |-> k, signature |-> sig])]
    /\ published' = [published EXCEPT ![s] = rev]
    /\ UNCHANGED versions

\* For a given revision, number and key, the only signature that can verify.
SignaturesFor(s, rev, k) ==
    IF k = NoKey
      THEN {NoSig}
      ELSE {Signature(k, For(s, NextPublication(s), rev, versions[s][rev]))}

LogNext ==
    \E s \in Sets :
       \/ \E c \in Contents : AddVersion(s, c)
       \/ \E rev \in DOMAIN versions[s], k \in Keys \union {NoKey} :
             \E sig \in SignaturesFor(s, rev, k) : Publish(s, rev, k, sig)

LogSpec == LogInit /\ [][LogNext]_logVars
==============================================================================
