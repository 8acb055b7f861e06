------------------------------ MODULE Accounts ------------------------------
(***************************************************************************)
(* Accounts of the rule server: sign-in links, sign-up, invitations,       *)
(* and sessions (rules/internal/store/accounts.go, server/auth.go).        *)
(* Handlers, of one server process or several, run concurrently over one   *)
(* database; an action is one statement or one transaction, with what the  *)
(* handler does around it that touches no shared state.                    *)
(*                                                                         *)
(* Left out, because a refusal there leaves the accounts alone: the Origin *)
(* checks and the rate limits.  A link's value is random, so only somebody *)
(* it was mailed to can present it.                                        *)
(***************************************************************************)
EXTENDS Naturals, FiniteSets

CONSTANTS
    Emails,        \* normalized addresses
    Handlers,      \* requests in progress at a time
    None,          \* no value (a NULL, a missing row or key)
    AdminOrg,      \* an organization the admin token created
    Slugs,         \* slugs an organization can have
    SlugOf,        \* slugFromEmail: [Emails -> Slugs]
    MaxAttempts,   \* attempts of Signup to find a free slug
    LoginTTL, SessionTTL,   \* lifetimes, in ticks
    TicksPerSecond,         \* moments told apart within a second
    TextRank,               \* the order of their texts
    MaxLinks,      \* bound: links ever created
    MaxClock       \* bound: ticks

ASSUME AccountsAssumption ==
    /\ None \notin [email : Emails, at : Nat]
    /\ AdminOrg \in Slugs
    /\ SlugOf \in [Emails -> Slugs]
    /\ TicksPerSecond \in Nat \ {0}
    /\ MaxAttempts \in Nat \ {0}
    /\ LoginTTL \in Nat /\ SessionTTL \in Nat
    /\ MaxLinks \in Nat /\ MaxClock \in Nat
    \* The lifetimes are whole seconds, at least one.
    /\ LoginTTL >= TicksPerSecond /\ LoginTTL % TicksPerSecond = 0
    /\ SessionTTL >= TicksPerSecond /\ SessionTTL % TicksPerSecond = 0

ASSUME RankAssumption == TextRank \in [0 .. TicksPerSecond - 1 -> Nat]

VARIABLES
    clock,      \* the time
    signup,     \* Config.Signup: unknown addresses may sign up (never changes)
    users,      \* table users: [email, org]
    orgs,       \* table orgs, by slug
    logins,     \* table logins: the state of each row
    born,       \* what was written into each row of logins when it was made
    mailed,     \* links that reached their address
    sessions,   \* table sessions
    granted,    \* sessions opened with each link (for the properties)
    pc, req     \* the handlers: where each is and what it has read

vars == <<clock, signup, users, orgs, logins, born, mailed, sessions, granted,
          pc, req>>
-----------------------------------------------------------------------------
Links == 1 .. MaxLinks
Ticks == 0 .. MaxClock

Births == [email : Emails, at : Ticks]
Sessions == [link : Links, nth : Nat, email : Emails, expires : Nat]
Requests == [email : Emails \cup {None}, org : Slugs \cup {None},
             link : Links \cup {None}, at : Ticks \cup {None},
             sess : Sessions \cup {None}, attempt : 0 .. MaxAttempts]
Blank == [email |-> None, org |-> None, link |-> None, at |-> None,
          sess |-> None, attempt |-> 0]

Stages == {"idle", "link",                            \* login
           "address", "user", "signup", "session",    \* verify
           "invite", "invlink"}                       \* invite

\* The type of the state.
TypeOK ==
    /\ clock \in Ticks /\ signup \in BOOLEAN
    /\ users \subseteq [email : Emails, org : Slugs]
    /\ orgs \subseteq Slugs
    /\ logins \in [Links -> {"none", "fresh", "used", "swept"}]
    /\ born \in [Links -> Births \cup {None}]
    /\ mailed \subseteq Links
    /\ sessions \subseteq Sessions
    /\ granted \in [Links -> Nat]
    /\ pc \in [Handlers -> Stages]
    /\ req \in [Handlers -> Requests]
-----------------------------------------------------------------------------
\* Times are stored and compared as RFC3339Nano text, which drops trailing
\* zeros of the fraction, and the fraction if it is 0: within one second ".5Z"
\* sorts before ".6Z", ".51Z" before ".5Z", and all of them before "Z".  The
\* ticks of a second are such moments and TextRank is the order of their texts;
\* across seconds text and time agree.
Second(t) == t \div TicksPerSecond
TextBefore(a, b) ==
    IF Second(a) = Second(b)
    THEN TextRank[a % TicksPerSecond] < TextRank[b % TicksPerSecond]
    ELSE a < b

\* Mutant: the expiry is not looked at.
NeverExpires(expires) == TRUE

\* What "expires_at > now" decides.
Valid(expires) == TextBefore(clock, expires)

ExpiryOf(l) == born[l].at + LoginTTL
HasAccount(e) == \E u \in users : u.email = e

Idle(h) == pc[h] = "idle"
Go(h, stage, r) == pc' = [pc EXCEPT ![h] = stage] /\ req' = [req EXCEPT ![h] = r]
End(h) == Go(h, "idle", Blank)
-----------------------------------------------------------------------------
(* login: POST /auth/login *)

\* Past the limits, GetUserByEmail: no link for an unknown address when sign-up
\* is closed, and the same answer.
LoginLookup(h, e) ==
    /\ Idle(h)
    /\ HasAccount(e) \/ signup
    /\ Go(h, "link", [Blank EXCEPT !.email = e])
    /\ UNCHANGED <<clock, signup, users, orgs, logins, born, mailed, sessions, granted>>

\* sendLink: CreateLogin writes the row, then the mail is sent or is not; the
\* row stays in both cases.
SendLink(h) ==
    /\ pc[h] \in {"link", "invlink"}
    /\ \E l \in Links :
         /\ born[l] = None /\ \A k \in Links : k < l => born[k] # None
         /\ logins' = [logins EXCEPT ![l] = "fresh"]
         /\ born' = [born EXCEPT ![l] = [email |-> req[h].email, at |-> clock]]
         /\ mailed' \in {mailed, mailed \cup {l}}
    /\ End(h)
    /\ UNCHANGED <<clock, signup, users, orgs, sessions, granted>>
-----------------------------------------------------------------------------
(* verify: POST /auth/verify *)

\* Mutant: a used link is spent again.
SpendAgain(l) == logins[l] \in {"fresh", "used"} /\ Valid(ExpiryOf(l))

\* The UPDATE of ConsumeLogin spends a link that is neither used nor expired;
\* any other one (ErrNotFound, ErrExpired) is answered with a redirect and
\* changes nothing.
Spendable(l) == logins[l] = "fresh" /\ Valid(ExpiryOf(l))

ConsumeLogin(h, l) ==
    /\ Idle(h)
    /\ l \in mailed
    /\ Spendable(l)
    /\ logins' = [logins EXCEPT ![l] = "used"]
    /\ Go(h, "address", [Blank EXCEPT !.link = l, !.at = clock])
    /\ UNCHANGED <<clock, signup, users, orgs, born, mailed, sessions, granted>>

\* The SELECT of ConsumeLogin reads the address; the row may have been swept.
ConsumeAddress(h) ==
    LET l == req[h].link IN
    /\ pc[h] = "address"
    /\ IF logins[l] = "swept" THEN End(h)
       ELSE Go(h, "user", [req[h] EXCEPT !.email = born[l].email])
    /\ UNCHANGED <<clock, signup, users, orgs, logins, born, mailed, sessions, granted>>

VerifyUser(h) ==
    /\ pc[h] = "user"
    /\ CASE HasAccount(req[h].email)             -> Go(h, "session", req[h])
         [] ~HasAccount(req[h].email) /\ signup  -> Go(h, "signup", req[h])
         [] OTHER                                -> End(h)
    /\ UNCHANGED <<clock, signup, users, orgs, logins, born, mailed, sessions, granted>>

\* One attempt of Signup: organization and account in one transaction.  A
\* taken slug is retried with a random suffix; a taken address (ErrExists)
\* rolls the organization back and is an internal error.
SignupAttempt(h) ==
    LET e == req[h].email
        n == req[h].attempt
    IN
    /\ pc[h] = "signup"
    /\ \E slug \in (IF n = 0 THEN {SlugOf[e]} ELSE Slugs) :
         CASE slug \in orgs ->
                /\ IF n + 1 < MaxAttempts THEN Go(h, "signup", [req[h] EXCEPT !.attempt = n + 1])
                                          ELSE End(h)
                /\ UNCHANGED <<users, orgs>>
           [] slug \notin orgs /\ HasAccount(e) -> End(h) /\ UNCHANGED <<users, orgs>>
           [] OTHER ->
                /\ orgs' = orgs \cup {slug}
                /\ users' = users \cup {[email |-> e, org |-> slug]}
                /\ Go(h, "session", req[h])
    /\ UNCHANGED <<clock, signup, logins, born, mailed, sessions, granted>>

\* CreateSession: the session, then the sweep of what has expired, in one
\* transaction.
CreateSession(h) ==
    LET l == req[h].link IN
    /\ pc[h] = "session"
    /\ granted' = [granted EXCEPT ![l] = @ + 1]
    /\ sessions' = {s \in sessions \cup {[link |-> l, nth |-> granted[l] + 1,
                                          email |-> req[h].email, expires |-> clock + SessionTTL]} :
                      Valid(s.expires)}
    /\ logins' = [k \in Links |-> IF born[k] # None /\ ~Valid(ExpiryOf(k)) THEN "swept" ELSE logins[k]]
    /\ End(h)
    /\ UNCHANGED <<clock, signup, users, orgs, born, mailed>>
-----------------------------------------------------------------------------
(* requireAccess, then invite or logout *)

\* GetSession resolves a cookie to its account and organization, for which the
\* request then runs; nothing is looked up again before the handler's writes.
SessionArrive(h, s, e) ==
    /\ Idle(h)
    /\ Valid(s.expires)
    /\ \E u \in users :
         /\ u.email = s.email
         /\ Go(h, "invite", [Blank EXCEPT !.sess = s, !.at = clock, !.org = u.org, !.email = e])
    /\ UNCHANGED <<clock, signup, users, orgs, logins, born, mailed, sessions, granted>>

\* Mutant: the address is not UNIQUE.
CreateUserAgain(h, e, o) ==
    /\ users' = users \cup {[email |-> e, org |-> o]}
    /\ Go(h, "invlink", [Blank EXCEPT !.email = e])
    /\ UNCHANGED <<clock, signup, orgs, logins, born, mailed, sessions, granted>>

\* CreateUser: an address with an account anywhere is refused.
CreateUser(h, e, o) ==
    /\ IF HasAccount(e) THEN End(h) /\ UNCHANGED users
       ELSE /\ users' = users \cup {[email |-> e, org |-> o]}
            /\ Go(h, "invlink", [Blank EXCEPT !.email = e])
    /\ UNCHANGED <<clock, signup, orgs, logins, born, mailed, sessions, granted>>

\* invite by a session, into its own organization.
Invite(h) == pc[h] = "invite" /\ CreateUser(h, req[h].email, req[h].org)

\* invite with the admin token, into any organization.
AdminInvite(h, e, o) == Idle(h) /\ o \in orgs /\ CreateUser(h, e, o)

\* logout: DeleteSession of the cookie that was let in.
Logout(h, s) ==
    /\ Idle(h)
    /\ Valid(s.expires)
    /\ sessions' = sessions \ {s}
    /\ UNCHANGED <<clock, signup, users, orgs, logins, born, mailed, granted, pc, req>>
-----------------------------------------------------------------------------
\* A handler ends anywhere: cancelled context, failed statement.
Abort(h) ==
    /\ ~Idle(h)
    /\ End(h)
    /\ UNCHANGED <<clock, signup, users, orgs, logins, born, mailed, sessions, granted>>

Tick ==
    /\ clock < MaxClock
    /\ clock' = clock + 1
    /\ UNCHANGED <<signup, users, orgs, logins, born, mailed, sessions, granted, pc, req>>

Init ==
    /\ clock = 0 /\ signup \in BOOLEAN
    /\ users = {} /\ orgs = {AdminOrg}
    /\ logins = [l \in Links |-> "none"] /\ born = [l \in Links |-> None]
    /\ mailed = {} /\ sessions = {}
    /\ granted = [l \in Links |-> 0]
    /\ pc = [h \in Handlers |-> "idle"] /\ req = [h \in Handlers |-> Blank]

HandlerStep(h) ==
    \/ SendLink(h)
    \/ ConsumeAddress(h) \/ VerifyUser(h) \/ SignupAttempt(h) \/ CreateSession(h)
    \/ Invite(h)

Next ==
    \/ \E h \in Handlers :
         \/ \E e \in Emails : LoginLookup(h, e)
         \/ \E l \in Links : ConsumeLogin(h, l)
         \/ \E s \in sessions, e \in Emails : SessionArrive(h, s, e)
         \/ \E s \in sessions : Logout(h, s)
         \/ \E e \in Emails, o \in orgs : AdminInvite(h, e, o)
         \/ HandlerStep(h)
         \/ Abort(h)
    \/ Tick

Spec == Init /\ [][Next]_vars
-----------------------------------------------------------------------------
(* Properties *)

\* A sign-in link works once ("uses a magic link once", ConsumeLogin): however
\* many handlers are given it, at most one session is ever opened with it.
WorksOnce == \A l \in Links : granted[l] <= 1

\* Past its second, time is up: a handler that spent a link, or acts for a
\* session, did so before the end of the second the link or session expires
\* in.  (Not before the expiry itself: the comparison is of texts.)
InTime ==
    \A h \in Handlers :
        /\ pc[h] \in {"address", "user", "signup", "session"} =>
             Second(req[h].at) <= Second(ExpiryOf(req[h].link))
        /\ pc[h] = "invite" /\ req[h].sess # None =>
             Second(req[h].at) <= Second(req[h].sess.expires)

\* Accounts are whole, whatever sign-ups and invitations race: an address has
\* one account, in an organization that exists; an organization made by
\* sign-up has a member; a session is for the address its link was mailed to,
\* which has an account.
AccountsWhole ==
    /\ \A u, v \in users : u.email = v.email => u = v
    /\ \A u \in users : u.org \in orgs
    /\ \A o \in orgs \ {AdminOrg} : \E u \in users : u.org = o
    /\ \A s \in sessions : s.email = born[s.link].email /\ s.link \in mailed /\ HasAccount(s.email)
=============================================================================
