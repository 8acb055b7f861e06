------------------------------ MODULE RuleAccess ------------------------------
(***************************************************************************)
(* Pulls of policy.json: the checks of the bearer token, the rate limit    *)
(* per token, the record of its last use and the daily pull counts.  Every *)
(* statement of the database is a step of its own, and a handler may fail  *)
(* at any of them.                                                         *)
(*                                                                         *)
(* One clock counts for the rate limit, for the minute of TouchToken and   *)
(* for the UTC day of the counts.                                          *)
(***************************************************************************)
EXTENDS KeyedLimiter

CONSTANTS
    Tokens,       \* rows of the table tokens
    Sets,         \* rule sets
    Handlers,     \* requests served at the same time
    DayLength,    \* units of time in a day
    Retention,    \* PullRetention, in days
    TouchEvery,   \* tokenTouchEvery
    PullEvery,    \* time that pays for one pull: 1 / PolicyRate
    PullBurst,    \* pulls a full bucket pays for
    MaxPulls      \* bound: requests

ASSUME AccessAssumption ==
    /\ {DayLength, Retention, TouchEvery, MaxPulls} \subseteq Nat /\ DayLength > 0
    /\ {PullEvery, PullBurst} \subseteq Nat \ {0}
    /\ None \notin [pulls : Nat, notModified : Nat]

VARIABLES
    tokens,       \* the rows: [set, kind, revoked], or None
    lastUsed,     \* tokens.last_used_at, -1 when NULL
    counts,       \* pull_counts: [pulls, notModified] per token and day, or None
    limiters,     \* Server.limiters
    granted,      \* the last answer of a token's limiter
    published,    \* the sets with a published version
    handler,      \* the requests: [pc, token, path, ...]
    requests,     \* requests so far
    touched,      \* the latest time a pull of the token was recorded for, -1 if none
    counted       \* the pulls counted without failure: [token, day, notModified, n]

access == <<tokens, published>>
pullVars == <<access, lastUsed, counts, limiters, granted, handler, requests, touched, counted>>
vars == <<limiterVars, pullVars>>

Today == now \div DayLength
Days == 0..MaxTime \div DayLength
Idle == [pc |-> "idle"]

\* The limiters of the tokens are never pruned.
PerToken == INSTANCE KeyedLimiter
                WITH Keys <- Tokens, Every <- PullEvery, Burst <- PullBurst,
                     MaxBuckets <- Cardinality(Tokens) + 1, buckets <- limiters, answer <- granted

Init ==
    /\ LimiterInit
    /\ PerToken!LimiterInit
    /\ tokens = [t \in Tokens |-> None]
    /\ lastUsed = [t \in Tokens |-> -1]
    /\ counts = [t \in Tokens |-> [d \in Days |-> None]]
    /\ published = {}
    /\ handler = [h \in Handlers |-> Idle]
    /\ requests = 0
    /\ touched = [t \in Tokens |-> -1]
    /\ counted = {}

Clock == Tick /\ UNCHANGED pullVars

\* login: loginByIP and loginByEmail are asked before anything is done.
Login(k) == Allow(k) /\ UNCHANGED pullVars

-----------------------------------------------------------------------------
(* The owner of the sets.                                                  *)

\* A pull token reads rules, a report token sends reports, neither does both.
TokenKinds == {"pull", "report"}

\* The row of a value nobody else has.
NewToken(s, kind) == [set |-> s, kind |-> kind, revoked |-> FALSE]

CreateToken(t) ==
    /\ tokens[t] = None
    /\ \E s \in Sets, kind \in TokenKinds : tokens' = [tokens EXCEPT ![t] = NewToken(s, kind)]
    /\ UNCHANGED <<limiterVars, lastUsed, counts, limiters, granted, published, handler, requests, touched, counted>>

\* The UPDATE names the set in the path; a second time is no error.
Revoked(t, s) == [tokens EXCEPT ![t].revoked = (@ \/ tokens[t].set = s)]

RevokeToken(t, s) ==
    /\ tokens[t] # None
    /\ tokens' = Revoked(t, s)
    /\ UNCHANGED <<limiterVars, lastUsed, counts, limiters, granted, published, handler, requests, touched, counted>>

\* The set gets its first publication.
Publish(s) ==
    /\ s \notin published
    /\ published' = published \cup {s}
    /\ UNCHANGED <<limiterVars, tokens, lastUsed, counts, limiters, granted, handler, requests, touched, counted>>

-----------------------------------------------------------------------------
(* GET policy.json.                                                        *)

Go(h, r) == handler' = [handler EXCEPT ![h] = r]
Done(h) == Go(h, Idle)

\* A request with a token; matches says whether If-None-Match names the
\* published version.
Arrive(h) ==
    /\ handler[h] = Idle /\ requests < MaxPulls
    /\ requests' = requests + 1
    /\ \E t \in Tokens, s \in Sets, matches \in BOOLEAN :
          Go(h, [pc |-> "auth", token |-> t, path |-> s, matches |-> matches])
    /\ UNCHANGED <<limiterVars, access, lastUsed, counts, limiters, granted, touched, counted>>

\* Mutants: the daily row of another handler makes the INSERT do nothing; the
\* last use is written whatever it was.
FirstWins(t, d, notModified) ==
    [counts EXCEPT ![t][d] = IF @ = None THEN [pulls |-> 1, notModified |-> notModified] ELSE @]
AlwaysTouched(t, at) == TRUE

\* Authenticate: a row of that hash that is not revoked.
Authenticate(t) == tokens[t] # None /\ ~tokens[t].revoked

\* tokenAccess up to the limiter: 401.
Auth(h) ==
    LET r == handler[h]
    IN  /\ r.pc = "auth"
        /\ IF Authenticate(r.token) THEN Go(h, [r EXCEPT !.pc = "limit"]) ELSE Done(h)
        /\ UNCHANGED <<limiterVars, access, lastUsed, counts, limiters, granted, requests, touched, counted>>

\* The rest of tokenAccess, with what the row said: 429, 404 for the path of
\* another set, 403 for the other kind.  touch reads the clock.
Limit(h) ==
    LET r   == handler[h]
        row == tokens[r.token]
    IN  /\ r.pc = "limit"
        /\ PerToken!Allow(r.token)
        /\ IF granted'[2] /\ row.set = r.path /\ row.kind = "pull"
           THEN Go(h, [pc |-> "touch", token |-> r.token, path |-> r.path, matches |-> r.matches,
                       at |-> now])
           ELSE Done(h)
        /\ UNCHANGED <<buckets, answer, access, lastUsed, counts, requests, touched, counted>>

\* TouchToken: UPDATE ... WHERE last_used_at IS NULL OR last_used_at < ?
Outdated(t, at) == lastUsed[t] = -1 \/ lastUsed[t] < at - TouchEvery

Touch(h) ==
    LET r == handler[h]
    IN  /\ r.pc = "touch"
        /\ \/ /\ lastUsed' = [lastUsed EXCEPT ![r.token] = IF Outdated(r.token, r.at) THEN r.at ELSE @]
              /\ touched' = [touched EXCEPT ![r.token] = IF r.at > @ THEN r.at ELSE @]
           \/ UNCHANGED <<lastUsed, touched>>
        /\ Go(h, [r EXCEPT !.pc = "read"])
        /\ UNCHANGED <<limiterVars, access, counts, limiters, granted, requests, counted>>

\* Published, the ETag and the start of CountPull, which fixes the day: 404
\* without a published version.
ReadPublished(h) ==
    LET r == handler[h]
    IN  /\ r.pc = "read"
        /\ IF r.path \in published
           THEN Go(h, [pc |-> "update", token |-> r.token, path |-> r.path,
                       notModified |-> IF r.matches THEN 1 ELSE 0, day |-> Today])
           ELSE Done(h)
        /\ UNCHANGED <<limiterVars, access, lastUsed, counts, limiters, granted, requests, touched, counted>>

Add(t, d, notModified) ==
    [counts EXCEPT ![t][d] = [pulls |-> @.pulls + 1, notModified |-> @.notModified + notModified]]

\* The pull stands in the table: one more of that token and day.
Count(r) ==
    LET same == {c \in counted : c.token = r.token /\ c.day = r.day /\ c.notModified = r.notModified}
    IN  counted' = counted \cup {[token |-> r.token, day |-> r.day, notModified |-> r.notModified,
                                  n |-> Cardinality(same) + 1]}

\* CountPull: UPDATE, which is all when a row was there.
CountUpdate(h) ==
    LET r == handler[h]
    IN  /\ r.pc = "update"
        /\ IF counts[r.token][r.day] # None
           THEN counts' = Add(r.token, r.day, r.notModified) /\ Count(r) /\ Done(h)
           ELSE Go(h, [r EXCEPT !.pc = "insert"]) /\ UNCHANGED <<counts, counted>>
        /\ UNCHANGED <<limiterVars, access, lastUsed, limiters, granted, requests, touched>>

\* INSERT ... ON CONFLICT DO UPDATE.
Inserted(t, d, notModified) ==
    IF counts[t][d] = None
    THEN [counts EXCEPT ![t][d] = [pulls |-> 1, notModified |-> notModified]]
    ELSE Add(t, d, notModified)

CountInsert(h) ==
    LET r == handler[h]
    IN  /\ r.pc = "insert"
        /\ counts' = Inserted(r.token, r.day, r.notModified)
        /\ Count(r)
        /\ Go(h, [r EXCEPT !.pc = "sweep"])
        /\ UNCHANGED <<limiterVars, access, lastUsed, limiters, granted, requests, touched>>

\* DELETE of the days before the retention.
CountSweep(h) ==
    LET r == handler[h]
    IN  /\ r.pc = "sweep"
        /\ counts' = [counts EXCEPT ![r.token] =
                        [d \in Days |-> IF d < Today - Retention THEN None ELSE @[d]]]
        /\ Done(h)
        /\ UNCHANGED <<limiterVars, access, lastUsed, limiters, granted, requests, touched, counted>>

\* A statement fails or the client goes away: the request ends; of a pull
\* only the count is lost.
Fail(h) ==
    /\ handler[h].pc \in {"auth", "read", "update", "insert", "sweep"}
    /\ Done(h)
    /\ UNCHANGED <<limiterVars, access, lastUsed, counts, limiters, granted, requests, touched, counted>>

Logins == \E k \in Keys : Login(k)

Pulls ==
    \/ \E t \in Tokens : CreateToken(t) \/ \E s \in Sets : RevokeToken(t, s)
    \/ \E s \in Sets : Publish(s)
    \/ \E h \in Handlers : \/ Arrive(h) \/ Auth(h) \/ Limit(h) \/ Touch(h) \/ ReadPublished(h)
                           \/ CountUpdate(h) \/ CountInsert(h) \/ CountSweep(h) \/ Fail(h)

Next == Clock \/ Logins \/ Pulls

Spec == Init /\ [][Next]_vars

-----------------------------------------------------------------------------
(* Properties.                                                             *)

CountedOf(t, d, kinds) == Cardinality({c \in counted : c.token = t /\ c.day = d /\ c.notModified \in kinds})

\* The counts of every day still kept say exactly how many pulls were counted
\* and how many of them were answered 304, also when two first pulls of a day
\* meet, midnight passes inside CountPull, or another handler sweeps old days.
CountsExact ==
    \A t \in Tokens, d \in Days : d >= Today - Retention =>
        LET row == IF counts[t][d] = None THEN [pulls |-> 0, notModified |-> 0] ELSE counts[t][d]
        IN  row = [pulls |-> CountedOf(t, d, {0, 1}), notModified |-> CountedOf(t, d, {1})]

\* A token's last use is never later than its last recorded pull and at most
\* TouchEvery earlier, in whatever order handlers that read the clock before
\* their UPDATE get to run it (TouchToken).
LastUsedRight ==
    \A t \in Tokens : /\ lastUsed[t] <= touched[t]
                      /\ touched[t] - TouchEvery <= lastUsed[t] \/ touched[t] = -1
=============================================================================
