----------------------------- MODULE SegmentScan -----------------------------
(***************************************************************************)
(* What the scanner remembers from token to token of a segment, the piece  *)
(* of a line between two numbers that LineCarve takes out of it            *)
(* (pkg/scanner/scanner.go: scanSegmentFrom, processAndAppend and what     *)
(* they call for a token without quoted text, URL or nested pair).         *)
(*                                                                         *)
(* A token is what the code asks about it: its form, its length, the lists *)
(* and shapes it matches, and the score of its text.  Left out: the quotes *)
(* put around a hidden number and names that do not read as field names.   *)
(***************************************************************************)
EXTENDS Naturals, Sequences

CONSTANTS
    Tokens,            \* the tokens a segment is made of
    MinSecretLength,   \* Config.MinSecretLength
    Memory             \* bound: tokens the properties look back

\* The length from which the token after a scheme word can be a credential.
minBearerCredentialLength == 16

Forms == {"word",    \* a word
          "colon",   \* a name with its separator: password: or "password":
          "equal",   \* the same with an equals sign: password=
          "sep",     \* a separator on its own
          "pair"}    \* name=value
Tags == {"sensitive",      \* isSensitiveKey, of a pair's name isSensitivePairKey
         "names",          \* a quoted key that keyNamesSecret
         "strong",         \* in strongSecretWords
         "generic",        \* key, name or setting
         "index",          \* the word key
         "genericValue",   \* isGenericValueKey
         "hashKey",        \* isHashKeyName
         "sessionKey",     \* isSessionKey
         "context",        \* in ContextKeywords
         "copula",         \* in copulaWords
         "bearer", "basic",
         "longScheme",     \* in longAuthSchemes
         "schemeWord",     \* isAuthSchemeWord
         "literal",        \* in valueLiterals
         "letters",        \* isAllLetters
         "english",        \* reads as English, or has no ASCII
         "identifier",     \* isIdentifierName
         "phrase",         \* readsAsWords
         "odd",            \* looksLikeSecretWord
         "stamp",          \* isISO8601Timestamp or isSchemeParameter
         "safe",           \* an operator's safe rule matches, of a pair its value
         "base64",         \* isBase64Body, with at most two '='
         "hex",            \* isShortHex, of a pair's value
         "session",        \* isSessionTokenValue, of a pair's value
         "tail",           \* starts with & and has no =
         "sensitiveValue", \* a pair whose value isSensitiveKey
         "bearerValue", "basicValue"}   \* a pair whose value is the scheme word
\* What processSingleToken makes of the text, or of a pair's value, on its own:
\* kept, hidden only behind a context word, hidden (by a rule, a signature or
\* its score).
Scores == 0 .. 2
TokenType == [form : Forms, len : Nat \ {0}, is : SUBSET Tags, score : Scores]

ASSUME TokensAssumption ==
    Tokens \subseteq TokenType /\ \A t \in Tokens : t.form = "sep" => t.is = {}
ASSUME LengthAssumption == MinSecretLength \in Nat /\ Memory \in Nat \ {0}

VARIABLES
    state,    \* segmentState
    past,     \* the latest tokens of the segment
    hidden    \* the last of them, or its value, was written as a marker

segmentVars == <<state, past, hidden>>

Flags == {"pendingKeySensitive", "pendingContextSensitive", "isInValuePos",
          "pendingGenericKey", "nextValueIsSensitive", "pendingBearer", "bearerAfterKey",
          "pendingBasic", "pendingScheme", "sepAfterSensitiveKey", "pendingHashKey",
          "pendingSessionKey", "pendingAfterCopula", "prevStrongSecretWord",
          "bracketAfterContext", "keyNamesSecret", "afterMarker",
          "prevSensitive", "prevIndex"}   \* what is asked of prevClean

\* segmentState is the set of its flags that are set.
ScanTypeOK ==
    /\ state \subseteq Flags
    /\ past \in Seq(Tokens) /\ Len(past) <= Memory
    /\ hidden \in BOOLEAN
-----------------------------------------------------------------------------
Is(t, tag) == tag \in t.is
Has(s, flag) == flag \in s
IsName(t) == t.form \in {"colon", "equal"}

\* Mutant: a separator on its own spends the slot.
SchemeSlotGlued(s) == Has(s, "pendingKeySensitive")

\* The slot in which an auth scheme word is recognized.
SchemeSlot(s) == Has(s, "pendingKeySensitive") \/ Has(s, "sepAfterSensitiveKey")

\* The force of a sensitive word or key on the next token, after the exceptions:
\* short words, and in prose tiny tokens, English words and names of indexes;
\* and the scheme words too long to be short words.
KeyForces(s, t) ==
    LET prose == ~Has(s, "isInValuePos") IN
    /\ Has(s, "pendingKeySensitive")
    /\ ~(/\ t.len < MinSecretLength /\ Is(t, "letters")
         /\ prose \/ ~Has(s, "keyNamesSecret") \/ Is(t, "literal"))
    /\ ~(prose /\ t.len < 3)
    /\ ~(prose /\ Is(t, "letters") /\ Is(t, "english"))
    /\ ~(prose /\ Has(s, "prevIndex") /\ Is(t, "identifier"))
    /\ ~Is(t, "longScheme")

\* The credential after a scheme word.
SchemeCredential(s, t) ==
    \/ Has(s, "pendingBearer") /\ t.len >= minBearerCredentialLength
    \/ Has(s, "bearerAfterKey") /\ t.len >= MinSecretLength /\ Is(t, "odd") /\ ~Is(t, "stamp")
    \/ /\ Has(s, "pendingBasic") /\ t.len >= MinSecretLength /\ Is(t, "base64")
       /\ ~(Is(t, "letters") /\ Is(t, "english"))
    \/ /\ Has(s, "pendingScheme") /\ t.len >= minBearerCredentialLength
       /\ Is(t, "odd") /\ ~Is(t, "stamp")

Forced(s, t) ==
    \/ KeyForces(s, t)
    \/ SchemeCredential(s, t)
    \/ Has(s, "pendingSessionKey") /\ Is(t, "session")
    \/ Has(s, "pendingAfterCopula") /\ t.len >= MinSecretLength /\ Is(t, "odd")

\* The pair that carries the value of a generic pair whose name was sensitive.
Override(s, t) ==
    Has(s, "nextValueIsSensitive") /\ (IsName(t) \/ t.form = "pair") /\ Is(t, "genericValue")

\* A commit hash under its key.
IsShortHash(s, t) ==
    /\ Is(t, "hex")
    /\ \/ t.form = "word" /\ Has(s, "pendingHashKey")
       \/ /\ t.form = "pair" /\ ~Has(s, "pendingHashKey")
          /\ Is(t, "hashKey") /\ ~Is(t, "sensitive")

\* Written as it is: a commit hash, or the query tail glued to a marker.
IsKept(s, t) == IsShortHash(s, t) \/ (Has(s, "afterMarker") /\ Is(t, "tail"))

\* The token is one value: a word, or a forced name= that reads as padded base64.
IsWhole(s, t) == t.form = "word" \/ (t.form = "equal" /\ Forced(s, t) /\ Is(t, "base64"))

\* processTokenLogic reports a key whose value is still to come.
IsKey(s, t) ==
    /\ Is(t, "sensitive") \/ Override(s, t)
    /\ ~IsKept(s, t)
    /\ IF IsWhole(s, t) THEN ~Has(s, "isInValuePos") /\ ~SchemeCredential(s, t) ELSE IsName(t)

ScoredHidden(t, context) == t.score = 2 \/ (t.score = 1 /\ context)

\* The token, or the value of the pair, is written as a marker.
Hidden(s, t) ==
    /\ ~Is(t, "safe") /\ ~IsKept(s, t) /\ ~IsKey(s, t)
    /\ \/ /\ IsWhole(s, t)
          /\ \/ Forced(s, t)
             \/ ScoredHidden(t, /\ Has(s, "pendingContextSensitive")
                                /\ ~(Has(s, "bracketAfterContext") /\ Is(t, "phrase")))
       \/ /\ t.form = "pair"
          /\ \/ Is(t, "sensitive") \/ Override(s, t)
             \/ Is(t, "sessionKey") /\ Is(t, "session")
             \/ ScoredHidden(t, FALSE)

\* Authorization=Basic: the value is the scheme, the credential follows.
IsSchemePair(t) ==
    t.form = "pair" /\ Is(t, "sensitive") /\ (Is(t, "bearerValue") \/ Is(t, "basicValue"))

AfterSchemePair(s, t) ==
    (s \cap {"keyNamesSecret", "pendingGenericKey", "nextValueIsSensitive", "pendingSessionKey"})
    \cup (IF Is(t, "bearerValue") THEN {"pendingBearer", "bearerAfterKey"} ELSE {"pendingBasic"})

\* Mutant: the flag ends with the next token that is not a key.
ArmedNextOnly(s, t) ==
    /\ ~IsKey(s, t)
    /\ \/ /\ Has(s, "isInValuePos") /\ Has(s, "pendingGenericKey")
          /\ Is(t, "sensitive") \/ Is(t, "sensitiveValue")
       \/ t.form = "pair" /\ Is(t, "generic") /\ Is(t, "sensitiveValue")

\* nextValueIsSensitive: a generic name had a sensitive word as its value; the
\* flag stays until the pair that carries the value, or a key.
Armed(s, t) ==
    /\ ~IsKey(s, t)
    /\ \/ Has(s, "nextValueIsSensitive") /\ ~Override(s, t)
       \/ /\ Has(s, "isInValuePos") /\ Has(s, "pendingGenericKey")
          /\ Is(t, "sensitive") \/ Is(t, "sensitiveValue")
       \/ t.form = "pair" /\ Is(t, "generic") /\ Is(t, "sensitiveValue")

PendingGenericKey(s, t) ==
    IF IsKey(s, t) THEN Is(t, "generic")
    ELSE \/ Has(s, "pendingGenericKey") /\ ~Has(s, "isInValuePos")
         \/ IsName(t) /\ Is(t, "generic")

\* Mutant: the force stays for the rest of the line.
AfterCopulaStays(s, t) ==
    \/ Has(s, "pendingAfterCopula")
    \/ Has(s, "prevStrongSecretWord") /\ Is(t, "copula")
    \/ Has(s, "prevSensitive") /\ t.form = "sep"

\* "password is", "api_key =": the value may come after it.
AfterCopula(s, t) ==
    \/ Has(s, "prevStrongSecretWord") /\ Is(t, "copula")
    \/ Has(s, "prevSensitive") /\ t.form = "sep"

Flag(name, on) == IF on THEN {name} ELSE {}

AfterWord(s, t) ==
    UNION {
        Flag("pendingKeySensitive", IsKey(s, t)),
        Flag("keyNamesSecret", IF IsKey(s, t) THEN Is(t, "names") ELSE Has(s, "keyNamesSecret")),
        Flag("pendingGenericKey", PendingGenericKey(s, t)),
        Flag("nextValueIsSensitive", Armed(s, t)),
        Flag("pendingBearer", Is(t, "bearer")),
        Flag("bearerAfterKey", Is(t, "bearer") /\ SchemeSlot(s)),
        Flag("pendingBasic", Is(t, "basic") /\ SchemeSlot(s)),
        Flag("pendingScheme", Is(t, "schemeWord") /\ SchemeSlot(s)),
        Flag("sepAfterSensitiveKey",
             t.form = "sep" /\ (Has(s, "pendingKeySensitive") \/ Has(s, "prevSensitive"))),
        Flag("pendingAfterCopula", AfterCopula(s, t)),
        Flag("prevStrongSecretWord", IsKey(s, t) /\ Is(t, "strong")),
        Flag("pendingHashKey", IsName(t) /\ Is(t, "hashKey") /\ ~Is(t, "sensitive")),
        Flag("pendingSessionKey", IsName(t) /\ Is(t, "sessionKey")),
        Flag("pendingContextSensitive", Is(t, "context")),
        Flag("isInValuePos", IsName(t) \/ t.form = "sep"),
        Flag("prevSensitive", Is(t, "sensitive") \/ Is(t, "sensitiveValue")),
        Flag("prevIndex", Is(t, "index"))}

AfterToken(s, t) ==
    IF IsSchemePair(t) THEN AfterSchemePair(s, t) ELSE AfterWord(s, t)

\* A marker takes the place of the value that was waited for.
AfterMarker(s) ==
    (s \ {"pendingKeySensitive", "pendingContextSensitive", "pendingBearer", "pendingBasic",
          "pendingScheme", "isInValuePos"}) \cup {"afterMarker"}

HiddenHere(s, t) == Hidden(s, t) /\ ~IsSchemePair(t)
-----------------------------------------------------------------------------
Remember(t) == IF Len(past) < Memory THEN Append(past, t) ELSE Append(Tail(past), t)

ScanInit == state = {} /\ past = << >> /\ hidden = FALSE

ScanToken(t) ==
    /\ state' = AfterToken(state, t)
    /\ hidden' = HiddenHere(state, t)
    /\ past' = Remember(t)

\* A marker that is in the line already.
ScanMarker == state' = AfterMarker(state) /\ past' = << >> /\ hidden' = FALSE

\* A separator, which may be a bracket, in front of the next token.
AfterSeparator(s, bracket) ==
    (s \ {"afterMarker"})
    \cup Flag("bracketAfterContext", bracket /\ Has(s, "pendingContextSensitive"))
ScanSeparator(bracket) ==
    state' = AfterSeparator(state, bracket) /\ UNCHANGED <<past, hidden>>

ScanNext ==
    \/ \E t \in Tokens : ScanToken(t)
    \/ ScanMarker
    \/ \E bracket \in BOOLEAN : ScanSeparator(bracket)
ScanSpec == ScanInit /\ [][ScanNext]_segmentVars
-----------------------------------------------------------------------------
\* What can put a force on the tokens after it.
Cause(t) == t.is \cap {"sensitive", "sensitiveValue", "genericValue", "sessionKey"} # {}
IsScheme(t) == t.is \cap {"bearer", "basic", "schemeWord"} # {}
\* The words a force is carried over.
Carries(t) == t.form = "sep" \/ Is(t, "copula") \/ IsScheme(t)

\* The token k places back.
Back(k) == past[Len(past) - k]

\* A word that is kept on its own, under a context word too, is hidden only
\* close behind its cause: the token before it, or one more when a separator,
\* an "is" or a scheme word stands between, or two more for a separator and a
\* scheme word.  A sensitive word in prose never hides the rest of the line.
ForceIsSpent ==
    (Len(past) = Memory /\ Memory > 3 /\ hidden /\ Back(0).form = "word"
        /\ ~ScoredHidden(Back(0), TRUE)) =>
    \/ Cause(Back(1)) \/ Is(Back(1), "bearer")
    \/ Cause(Back(2)) /\ Carries(Back(1))
    \/ Cause(Back(3)) /\ Back(2).form = "sep" /\ IsScheme(Back(1))

\* A token with the shape of a credential behind a scheme word is hidden
\* whatever its score, when a sensitive key with its separator, glued or on
\* its own, stands before the scheme word, in value position too.
CredentialHidden ==
    (/\ Len(past) > 3
     /\ Back(0).form = "word"
     /\ Back(0).len >= minBearerCredentialLength /\ Back(0).len >= MinSecretLength
     /\ {"odd", "base64"} \subseteq Back(0).is
     /\ Back(0).is \cap {"letters", "stamp", "safe"} = {}
     /\ Back(1).form = "word" /\ IsScheme(Back(1))
     /\ \/ Back(2).form = "colon" /\ Is(Back(2), "sensitive")
        \/ Back(2).form = "sep" /\ Is(Back(3), "sensitive") /\ Back(3).form # "pair")
    => hidden

\* The i-th token of p says that the value of the next value pair is a secret:
\* name=password, or password behind name: .
Arms(p, i) ==
    \/ p[i].form = "pair" /\ {"generic", "sensitiveValue"} \subseteq p[i].is /\ ~IsSchemePair(p[i])
    \/ /\ i > 1 /\ p[i].form = "word" /\ Is(p[i], "sensitive")
       /\ p[i - 1].form = "colon" /\ Is(p[i - 1], "generic")
\* A pair or word that neither carries the value nor is a key.
PassesBy(t) == ~Is(t, "genericValue") /\ (t.form = "pair" \/ ~Is(t, "sensitive"))

\* After name=password, or name: password, the pair that carries the value is
\* hidden, whatever pairs and words stand between, unless one is a key itself.
GenericValueHidden ==
    \A i \in 1 .. Len(past) - 1 :
        (/\ Arms(past, i)
         /\ \A j \in i + 1 .. Len(past) - 1 : PassesBy(past[j])
         /\ Back(0).form = "pair" /\ Is(Back(0), "genericValue")
         /\ Back(0).is \cap {"hashKey", "safe"} = {} /\ ~IsSchemePair(Back(0)))
        => hidden
=============================================================================
