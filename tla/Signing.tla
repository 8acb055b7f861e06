------------------------------- MODULE Signing -------------------------------
(***************************************************************************)
(* What a publisher signs and what a cluster checks: the file a set serves *)
(* for one revision, the statement that binds it to a set and to a         *)
(* publication number, and Ed25519 as an ideal signature scheme.  The rule *)
(* server (rules/internal/signing) and the operator (remoterules) build    *)
(* the statement separately and must agree on it.                          *)
(***************************************************************************)

\* The canonical policy file of a revision.  Canonical writes the revision
\* number into the file, so the same rules saved twice are two files.
Canonical(content, revision) == [content |-> content, revision |-> revision]

\* The strong entity tag: a hash of the file's bytes, taken to be
\* collision-free, so it is modelled by the file itself.
ETag(file) == file

\* The statement for publishing file as the revision of set.  The SHA-256 of
\* the file is again taken to be collision-free.
For(set, publication, revision, file) ==
    [set         |-> set,
     publication |-> publication,
     revision    |-> revision,
     sha256      |-> file]

\* A signature made with the private half of key over the statement's text.
Signature(key, statement) == [signer |-> key, statement |-> statement]

\* Ed25519 verification: only the private half of the key produces a
\* signature that verifies, and only for the text that was signed.
Verify(key, statement, signature) == signature = Signature(key, statement)
==============================================================================
