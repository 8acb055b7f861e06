--------------------------- MODULE AccountsProofs ---------------------------
(***************************************************************************)
(* Theorems about Accounts, for any addresses, handlers, links, slugs,     *)
(* lifetimes and number of attempts: a link opens at most one session, and *)
(* accounts are whole whatever handlers race or die.                       *)
(***************************************************************************)
EXTENDS Accounts, TLAPS

\* The stages of verify after the UPDATE that spent the link.
Spending == {"address", "user", "signup", "session"}

\* A handler past the UPDATE holds a link that is spent, that no session was
\* opened with yet, and that was mailed.
HeldSpent ==
    \A h \in Handlers : pc[h] \in Spending =>
        /\ req[h].link \in Links
        /\ logins[req[h].link] \in {"used", "swept"}
        /\ granted[req[h].link] = 0
        /\ req[h].link \in mailed

\* No two handlers hold the same link.
OneHolder ==
    \A g, h \in Handlers :
        pc[g] \in Spending /\ pc[h] \in Spending /\ req[g].link = req[h].link => g = h

\* A link with a session is spent and has one.
GrantedSpent ==
    \A l \in Links : granted[l] # 0 => granted[l] = 1 /\ logins[l] \in {"used", "swept"}

\* Rows and mails are of links that were made.
RowsBorn ==
    \A l \in Links : logins[l] # "none" \/ l \in mailed => born[l] # None

\* What a handler has read is still so when it writes.
ReadsHold ==
    \A h \in Handlers :
        /\ pc[h] \in {"link", "user", "signup", "session", "invite", "invlink"} => req[h].email \in Emails
        /\ pc[h] \in {"user", "signup", "session"} => req[h].email = born[req[h].link].email
        /\ pc[h] = "session" => HasAccount(req[h].email)
        /\ pc[h] = "invite" => req[h].org \in orgs

IInv == /\ TypeOK /\ HeldSpent /\ OneHolder /\ GrantedSpent /\ RowsBorn /\ ReadsHold
        /\ AccountsWhole
-----------------------------------------------------------------------------
\* A handler at rest holds a typed record.
LEMMA BlankTyped == Blank \in Requests
  BY AccountsAssumption DEF Blank, Requests

\* A verify that moves on with its link, or ends, disturbs no other holder.
LEMMA HolderMoves ==
  ASSUME TypeOK, HeldSpent, OneHolder, UNCHANGED <<logins, granted, mailed>>,
         NEW h \in Handlers, pc[h] \in Spending, NEW stage, NEW r, Go(h, stage, r),
         stage = "idle" \/ r.link = req[h].link
  PROVE  HeldSpent' /\ OneHolder'
  <1>1. \A g \in Handlers : pc'[g] \in Spending => pc[g] \in Spending /\ req'[g].link = req[g].link
    BY DEF Go, TypeOK, Spending
  <1>2. HeldSpent' BY <1>1 DEF HeldSpent
  <1>3. OneHolder' BY <1>1 DEF OneHolder
  <1> QED BY <1>2, <1>3

\* The tables are empty at first and no handler runs.
LEMMA InitIInv == Init => IInv
  <1> SUFFICES ASSUME Init PROVE IInv OBVIOUS
  <1> USE AccountsAssumption DEF Init
  <1>2. TypeOK BY BlankTyped DEF TypeOK, Stages, Ticks, Links
  <1>3. HeldSpent /\ OneHolder /\ ReadsHold BY DEF HeldSpent, OneHolder, ReadsHold, Spending
  <1>4. GrantedSpent /\ RowsBorn BY DEF GrantedSpent, RowsBorn
  <1>5. AccountsWhole BY DEF AccountsWhole
  <1> QED BY <1>2, <1>3, <1>4, <1>5 DEF IInv

\* Every step of a handler, of the clock and of the environment keeps IInv.
LEMMA StepIInv == IInv /\ [Next]_vars => IInv'
  <1> SUFFICES ASSUME IInv, [Next]_vars PROVE IInv' OBVIOUS
  <1> USE AccountsAssumption DEF IInv
  <1>1. ASSUME NEW h \in Handlers, NEW e \in Emails, LoginLookup(h, e) PROVE IInv'
    <2>a. [Blank EXCEPT !.email = e] \in Requests BY BlankTyped DEF Requests
    <2>1. TypeOK' BY <1>1, <2>a DEF LoginLookup, Go, TypeOK, Stages
    <2>2. (HeldSpent /\ OneHolder)' BY <1>1 DEF LoginLookup, Idle, Go, Blank, TypeOK, HeldSpent, OneHolder, Spending
    <2>3. (GrantedSpent /\ RowsBorn)' BY <1>1 DEF LoginLookup, Idle, Go, Blank, TypeOK, HeldSpent, GrantedSpent, RowsBorn, Spending
    <2>4. ReadsHold' BY <1>1 DEF LoginLookup, Idle, Go, Blank, TypeOK, HeldSpent, RowsBorn, ReadsHold, AccountsWhole, Spending, HasAccount
    <2>5. AccountsWhole' BY <1>1 DEF LoginLookup, Idle, Go, Blank, TypeOK, HeldSpent, RowsBorn, ReadsHold, AccountsWhole, Spending, HasAccount
    <2> QED BY <2>1, <2>2, <2>3, <2>4, <2>5
  <1>2. ASSUME NEW h \in Handlers, SendLink(h) PROVE IInv'
    <2>1. TypeOK' BY <1>2, BlankTyped DEF SendLink, End, Go, TypeOK, Stages, Births, Links, ReadsHold
    <2>2. (HeldSpent /\ OneHolder)' BY <1>2 DEF SendLink, End, Go, Blank, TypeOK, HeldSpent, OneHolder, Spending, RowsBorn, GrantedSpent
    <2>3. (GrantedSpent /\ RowsBorn)' BY <1>2 DEF SendLink, TypeOK, ReadsHold, GrantedSpent, RowsBorn, Ticks
    <2>4. ReadsHold' BY <1>2 DEF SendLink, End, Go, Blank, TypeOK, HeldSpent, RowsBorn, ReadsHold, AccountsWhole, Spending, HasAccount
    <2>5. AccountsWhole' BY <1>2 DEF SendLink, End, Go, Blank, TypeOK, HeldSpent, RowsBorn, ReadsHold, AccountsWhole, Spending, HasAccount
    <2> QED BY <2>1, <2>2, <2>3, <2>4, <2>5
  <1>3. ASSUME NEW h \in Handlers, NEW l \in Links, ConsumeLogin(h, l) PROVE IInv'
    <2>a. [Blank EXCEPT !.link = l, !.at = clock] \in Requests BY BlankTyped DEF TypeOK, Requests
    <2>1. TypeOK' BY <1>3, <2>a DEF ConsumeLogin, Spendable, Go, TypeOK, Stages
    <2>2. (HeldSpent /\ OneHolder)' BY <1>3 DEF ConsumeLogin, Spendable, Idle, Go, Blank, TypeOK, HeldSpent, OneHolder, Spending, RowsBorn, GrantedSpent
    <2>3. (GrantedSpent /\ RowsBorn)' BY <1>3 DEF ConsumeLogin, Spendable, Idle, Go, Blank, TypeOK, HeldSpent, GrantedSpent, RowsBorn, Spending
    <2>4. ReadsHold' BY <1>3 DEF ConsumeLogin, Spendable, Idle, Go, Blank, TypeOK, HeldSpent, RowsBorn, ReadsHold, AccountsWhole, Spending, HasAccount
    <2>5. AccountsWhole' BY <1>3 DEF ConsumeLogin, Spendable, Idle, Go, Blank, TypeOK, HeldSpent, RowsBorn, ReadsHold, AccountsWhole, Spending, HasAccount
    <2> QED BY <2>1, <2>2, <2>3, <2>4, <2>5
  <1>4. ASSUME NEW h \in Handlers, ConsumeAddress(h) PROVE IInv'
    <2>a. born[req[h].link] \in Births BY <1>4 DEF ConsumeAddress, TypeOK, HeldSpent, RowsBorn, Spending
    <2>b. [req[h] EXCEPT !.email = born[req[h].link].email] \in Requests BY <2>a DEF TypeOK, Requests, Births
    <2>1. TypeOK' BY <1>4, <2>b, BlankTyped DEF ConsumeAddress, End, Go, TypeOK, Stages
    <2>2. (HeldSpent /\ OneHolder)'
      <3>1. pc[h] \in Spending /\ UNCHANGED <<logins, granted, mailed>> BY <1>4 DEF ConsumeAddress, Spending
      <3>2. \E stage, r : Go(h, stage, r) /\ (stage = "idle" \/ r.link = req[h].link)
        BY <1>4 DEF ConsumeAddress, End, TypeOK, Requests
      <3> QED BY <3>1, <3>2, HolderMoves
    <2>3. (GrantedSpent /\ RowsBorn)' BY <1>4 DEF ConsumeAddress, End, Go, Blank, TypeOK, HeldSpent, GrantedSpent, RowsBorn, Spending
    <2>4. ReadsHold'
      <3>1. CASE logins[req[h].link] = "swept"
        BY <1>4, <3>1 DEF ConsumeAddress, End, Go, Blank, TypeOK, ReadsHold, HasAccount
      <3>2. CASE logins[req[h].link] # "swept"
        BY <1>4, <2>a, <3>2 DEF ConsumeAddress, Go, Births, TypeOK, Requests, ReadsHold, HasAccount
      <3> QED BY <3>1, <3>2
    <2>5. AccountsWhole' BY <1>4 DEF ConsumeAddress, End, Go, Blank, TypeOK, HeldSpent, RowsBorn, ReadsHold, AccountsWhole, Spending, HasAccount
    <2> QED BY <2>1, <2>2, <2>3, <2>4, <2>5
  <1>5. ASSUME NEW h \in Handlers, VerifyUser(h) PROVE IInv'
    <2>1. TypeOK' BY <1>5, BlankTyped DEF VerifyUser, End, Go, TypeOK, Stages
    <2>2. (HeldSpent /\ OneHolder)'
      <3>1. pc[h] \in Spending /\ UNCHANGED <<logins, granted, mailed>> BY <1>5 DEF VerifyUser, Spending
      <3>2. \E stage, r : Go(h, stage, r) /\ (stage = "idle" \/ r.link = req[h].link)
        BY <1>5 DEF VerifyUser, End, TypeOK, Requests
      <3> QED BY <3>1, <3>2, HolderMoves
    <2>3. (GrantedSpent /\ RowsBorn)' BY <1>5 DEF VerifyUser, End, Go, Blank, TypeOK, HeldSpent, GrantedSpent, RowsBorn, Spending
    <2>4. ReadsHold' BY <1>5 DEF VerifyUser, End, Go, Blank, TypeOK, HeldSpent, RowsBorn, ReadsHold, AccountsWhole, Spending, HasAccount
    <2>5. AccountsWhole' BY <1>5 DEF VerifyUser, End, Go, Blank, TypeOK, HeldSpent, RowsBorn, ReadsHold, AccountsWhole, Spending, HasAccount
    <2> QED BY <2>1, <2>2, <2>3, <2>4, <2>5
  <1>6. ASSUME NEW h \in Handlers, SignupAttempt(h) PROVE IInv'
    <2> DEFINE e == req[h].email
               n == req[h].attempt
               again == [req[h] EXCEPT !.attempt = n + 1]
    <2>0. /\ pc[h] = "signup" /\ pc[h] \in Spending /\ e \in Emails
          /\ UNCHANGED <<clock, signup, logins, born, mailed, sessions, granted>>
      BY <1>6 DEF SignupAttempt, Spending, ReadsHold
    <2>1. \/ /\ n + 1 < MaxAttempts /\ Go(h, "signup", again) /\ UNCHANGED <<users, orgs>>
          \/ End(h) /\ UNCHANGED <<users, orgs>>
          \/ \E slug \in Slugs \ orgs :
               /\ orgs' = orgs \cup {slug} /\ users' = users \cup {[email |-> e, org |-> slug]}
               /\ ~HasAccount(e) /\ Go(h, "session", req[h])
      <3> PICK slug \in (IF n = 0 THEN {SlugOf[e]} ELSE Slugs) :
               CASE slug \in orgs ->
                      /\ IF n + 1 < MaxAttempts THEN Go(h, "signup", again) ELSE End(h)
                      /\ UNCHANGED <<users, orgs>>
                 [] slug \notin orgs /\ HasAccount(e) -> End(h) /\ UNCHANGED <<users, orgs>>
                 [] OTHER ->
                      /\ orgs' = orgs \cup {slug}
                      /\ users' = users \cup {[email |-> e, org |-> slug]}
                      /\ Go(h, "session", req[h])
        BY <1>6 DEF SignupAttempt
      <3>1. slug \in Slugs BY <2>0
      <3> HIDE DEF e, n, again
      <3>2. CASE slug \in orgs BY <3>2
      <3>3. CASE slug \notin orgs /\ HasAccount(e) BY <3>3
      <3>4. CASE slug \notin orgs /\ ~HasAccount(e) BY <3>1, <3>4
      <3> QED BY <3>2, <3>3, <3>4
    <2>2. CASE n + 1 < MaxAttempts /\ Go(h, "signup", again) /\ UNCHANGED <<users, orgs>>
      <3>1. req[h] \in Requests /\ again \in Requests /\ again.link = req[h].link /\ again.email = e
        BY <2>2 DEF TypeOK, Requests
      <3>2. TypeOK' BY <2>0, <2>2, <3>1 DEF Go, TypeOK, Stages
      <3>3. (HeldSpent /\ OneHolder)' BY <2>0, <2>2, <3>1, HolderMoves
      <3>4. (GrantedSpent /\ RowsBorn /\ AccountsWhole)'
        BY <2>0, <2>2 DEF GrantedSpent, RowsBorn, AccountsWhole, HasAccount
      <3>5. ReadsHold' BY <2>0, <2>2, <3>1 DEF Go, TypeOK, ReadsHold, HasAccount
      <3> QED BY <3>2, <3>3, <3>4, <3>5
    <2>3. CASE End(h) /\ UNCHANGED <<users, orgs>>
      <3>2. TypeOK' BY <2>0, <2>3, BlankTyped DEF End, Go, TypeOK, Stages
      <3>3. (HeldSpent /\ OneHolder)' BY <2>0, <2>3, HolderMoves DEF End
      <3>4. (GrantedSpent /\ RowsBorn /\ AccountsWhole)'
        BY <2>0, <2>3 DEF GrantedSpent, RowsBorn, AccountsWhole, HasAccount
      <3>5. ReadsHold' BY <2>0, <2>3 DEF End, Go, TypeOK, ReadsHold, HasAccount
      <3> QED BY <3>2, <3>3, <3>4, <3>5
    <2>4. ASSUME NEW slug \in Slugs \ orgs,
                 orgs' = orgs \cup {slug}, users' = users \cup {[email |-> e, org |-> slug]},
                 ~HasAccount(e), Go(h, "session", req[h])
          PROVE  IInv'
      <3>2. TypeOK' BY <2>0, <2>4 DEF Go, TypeOK, Stages
      <3>3. (HeldSpent /\ OneHolder)' BY <2>0, <2>4, HolderMoves
      <3>4. (GrantedSpent /\ RowsBorn)' BY <2>0 DEF GrantedSpent, RowsBorn
      <3> DEFINE founder == [email |-> e, org |-> slug]
      <3>a. founder \in users' /\ founder.email = e /\ founder.org = slug BY <2>4
      <3>b. users \subseteq users' /\ \A u \in users' : u \in users \/ u = founder BY <2>4
      <3>c. \A u \in users : u.email # e BY <2>4 DEF HasAccount
      <3> HIDE DEF founder, e
      <3>d. \A x : HasAccount(x) => HasAccount(x)' BY <3>b DEF HasAccount
      <3>e. \A x : x = e => HasAccount(x)' BY <3>a DEF HasAccount
      <3>5. ReadsHold' BY <2>0, <2>4, <3>d, <3>e DEF Go, TypeOK, ReadsHold, e
      <3>6. AccountsWhole'
        <4>1. \A u, v \in users' : u.email = v.email => u = v
          BY <3>a, <3>b, <3>c DEF AccountsWhole
        <4>2. \A u \in users' : u.org \in orgs' BY <2>4, <3>a, <3>b DEF AccountsWhole
        <4>3. \A o \in orgs' \ {AdminOrg} : \E u \in users' : u.org = o
          BY <2>4, <3>a, <3>b DEF AccountsWhole
        <4>4. \A s \in sessions' : /\ s.email = born'[s.link].email /\ s.link \in mailed'
                                   /\ HasAccount(s.email)'
          BY <2>0, <3>d DEF AccountsWhole
        <4> QED BY <4>1, <4>2, <4>3, <4>4 DEF AccountsWhole
      <3> QED BY <3>2, <3>3, <3>4, <3>5, <3>6
    <2> QED BY <2>1, <2>2, <2>3, <2>4
  <1>7. ASSUME NEW h \in Handlers, CreateSession(h) PROVE IInv'
    <2>a. [link |-> req[h].link, nth |-> granted[req[h].link] + 1,
           email |-> req[h].email, expires |-> clock + SessionTTL] \in Sessions
      BY <1>7 DEF CreateSession, TypeOK, Sessions, Ticks, HeldSpent, Spending, ReadsHold
    <2>b. sessions' \subseteq Sessions BY <1>7, <2>a DEF CreateSession, TypeOK
    <2>c. logins' \in [Links -> {"none", "fresh", "used", "swept"}]
      <3>1. logins' = [k \in Links |-> IF born[k] # None /\ ~Valid(ExpiryOf(k)) THEN "swept" ELSE logins[k]]
        BY <1>7 DEF CreateSession
      <3> QED BY <3>1 DEF TypeOK
    <2>d. granted' \in [Links -> Nat] BY <1>7 DEF CreateSession, TypeOK, HeldSpent, Spending
    <2>1. TypeOK' BY <1>7, <2>b, <2>c, <2>d, BlankTyped DEF CreateSession, End, Go, TypeOK, Stages
    <2>2. (HeldSpent /\ OneHolder)' BY <1>7 DEF CreateSession, End, Go, Blank, TypeOK, HeldSpent, OneHolder, Spending, RowsBorn, GrantedSpent
    <2>3. (GrantedSpent /\ RowsBorn)' BY <1>7 DEF CreateSession, End, Go, Blank, TypeOK, HeldSpent, GrantedSpent, RowsBorn, Spending
    <2>4. ReadsHold' BY <1>7 DEF CreateSession, End, Go, Blank, TypeOK, HeldSpent, RowsBorn, ReadsHold, AccountsWhole, Spending, HasAccount
    <2>5. AccountsWhole' BY <1>7 DEF CreateSession, End, Go, Blank, TypeOK, HeldSpent, RowsBorn, ReadsHold, AccountsWhole, Spending, HasAccount
    <2> QED BY <2>1, <2>2, <2>3, <2>4, <2>5
  <1>8. ASSUME NEW h \in Handlers, NEW s \in sessions, NEW e \in Emails, SessionArrive(h, s, e) PROVE IInv'
    <2> PICK u \in users : Go(h, "invite", [Blank EXCEPT !.sess = s, !.at = clock, !.org = u.org, !.email = e])
      BY <1>8 DEF SessionArrive
    <2>a. [Blank EXCEPT !.sess = s, !.at = clock, !.org = u.org, !.email = e] \in Requests
      BY BlankTyped DEF TypeOK, Requests
    <2>1. TypeOK' BY <1>8, <2>a DEF SessionArrive, Go, TypeOK, Stages
    <2>2. (HeldSpent /\ OneHolder)' BY <1>8 DEF SessionArrive, Idle, Go, Blank, TypeOK, HeldSpent, OneHolder, Spending
    <2>3. (GrantedSpent /\ RowsBorn)' BY <1>8 DEF SessionArrive, Idle, Go, Blank, TypeOK, HeldSpent, GrantedSpent, RowsBorn, Spending
    <2>4. ReadsHold' BY <1>8 DEF SessionArrive, Idle, Go, Blank, TypeOK, HeldSpent, RowsBorn, ReadsHold, AccountsWhole, Spending, HasAccount
    <2>5. AccountsWhole' BY <1>8 DEF SessionArrive, Idle, Go, Blank, TypeOK, HeldSpent, RowsBorn, ReadsHold, AccountsWhole, Spending, HasAccount
    <2> QED BY <2>1, <2>2, <2>3, <2>4, <2>5
  <1>9. ASSUME NEW h \in Handlers, NEW e \in Emails, NEW o \in Slugs, CreateUser(h, e, o), o \in orgs PROVE IInv'
    <2>a. [Blank EXCEPT !.email = e] \in Requests BY BlankTyped DEF Requests
    <2>1. TypeOK' BY <1>9, <2>a, BlankTyped DEF CreateUser, End, Go, TypeOK, Stages
    <2>2. (HeldSpent /\ OneHolder)' BY <1>9 DEF CreateUser, End, Go, Blank, TypeOK, HeldSpent, OneHolder, Spending
    <2>3. (GrantedSpent /\ RowsBorn)' BY <1>9 DEF CreateUser, End, Go, Blank, TypeOK, HeldSpent, GrantedSpent, RowsBorn, Spending
    <2>4. ReadsHold' BY <1>9 DEF CreateUser, End, Go, Blank, TypeOK, HeldSpent, RowsBorn, ReadsHold, AccountsWhole, Spending, HasAccount
    <2>5. AccountsWhole' BY <1>9 DEF CreateUser, End, Go, Blank, TypeOK, HeldSpent, RowsBorn, ReadsHold, AccountsWhole, Spending, HasAccount
    <2> QED BY <2>1, <2>2, <2>3, <2>4, <2>5
  <1>10. ASSUME NEW h \in Handlers, NEW s \in sessions, Logout(h, s) PROVE IInv'
    <2>1. TypeOK' BY <1>10 DEF Logout, TypeOK, Stages
    <2>2. (HeldSpent /\ OneHolder)' BY <1>10 DEF Logout, TypeOK, HeldSpent, OneHolder, Spending
    <2>3. (GrantedSpent /\ RowsBorn)' BY <1>10 DEF Logout, TypeOK, HeldSpent, GrantedSpent, RowsBorn, Spending
    <2>4. ReadsHold' BY <1>10 DEF Logout, TypeOK, HeldSpent, RowsBorn, ReadsHold, AccountsWhole, Spending, HasAccount
    <2>5. AccountsWhole' BY <1>10 DEF Logout, TypeOK, HeldSpent, RowsBorn, ReadsHold, AccountsWhole, Spending, HasAccount
    <2> QED BY <2>1, <2>2, <2>3, <2>4, <2>5
  <1>11. ASSUME NEW h \in Handlers, Abort(h) PROVE IInv'
    <2>1. TypeOK' BY <1>11, BlankTyped DEF Abort, End, Go, TypeOK, Stages
    <2>2. (HeldSpent /\ OneHolder)' BY <1>11 DEF Abort, End, Go, Blank, TypeOK, HeldSpent, OneHolder, Spending
    <2>3. (GrantedSpent /\ RowsBorn)' BY <1>11 DEF Abort, End, Go, Blank, TypeOK, HeldSpent, GrantedSpent, RowsBorn, Spending
    <2>4. ReadsHold' BY <1>11 DEF Abort, End, Go, Blank, TypeOK, HeldSpent, RowsBorn, ReadsHold, AccountsWhole, Spending, HasAccount
    <2>5. AccountsWhole' BY <1>11 DEF Abort, End, Go, Blank, TypeOK, HeldSpent, RowsBorn, ReadsHold, AccountsWhole, Spending, HasAccount
    <2> QED BY <2>1, <2>2, <2>3, <2>4, <2>5
  <1>12. ASSUME Tick PROVE IInv'
    <2>1. TypeOK' BY <1>12 DEF Tick, TypeOK, Stages, Ticks
    <2>2. (HeldSpent /\ OneHolder)' BY <1>12 DEF Tick, TypeOK, HeldSpent, OneHolder, Spending
    <2>3. (GrantedSpent /\ RowsBorn)' BY <1>12 DEF Tick, TypeOK, HeldSpent, GrantedSpent, RowsBorn, Spending
    <2>4. ReadsHold' BY <1>12 DEF Tick, TypeOK, HeldSpent, RowsBorn, ReadsHold, AccountsWhole, Spending, HasAccount
    <2>5. AccountsWhole' BY <1>12 DEF Tick, TypeOK, HeldSpent, RowsBorn, ReadsHold, AccountsWhole, Spending, HasAccount
    <2> QED BY <2>1, <2>2, <2>3, <2>4, <2>5
  <1>13. ASSUME UNCHANGED vars PROVE IInv'
    <2>1. TypeOK' BY <1>13 DEF vars, TypeOK, Stages
    <2>2. (HeldSpent /\ OneHolder)' BY <1>13 DEF vars, TypeOK, HeldSpent, OneHolder, Spending
    <2>3. (GrantedSpent /\ RowsBorn)' BY <1>13 DEF vars, TypeOK, HeldSpent, GrantedSpent, RowsBorn, Spending
    <2>4. ReadsHold' BY <1>13 DEF vars, TypeOK, HeldSpent, RowsBorn, ReadsHold, AccountsWhole, Spending, HasAccount
    <2>5. AccountsWhole' BY <1>13 DEF vars, TypeOK, HeldSpent, RowsBorn, ReadsHold, AccountsWhole, Spending, HasAccount
    <2> QED BY <2>1, <2>2, <2>3, <2>4, <2>5
  <1> QED BY <1>1, <1>2, <1>3, <1>4, <1>5, <1>6, <1>7, <1>8, <1>9, <1>10, <1>11, <1>12, <1>13
          DEF Next, HandlerStep, Invite, AdminInvite, ReadsHold, TypeOK

\* Earlier times are in earlier or the same seconds.
LEMMA SecondMonotonic ==
  ASSUME NEW a \in Nat, NEW b \in Nat, a < b PROVE Second(a) <= Second(b)
  <1> DEFINE n == TicksPerSecond
             p == a \div n
             q == b \div n
  <1>1. n \in Nat \ {0} BY AccountsAssumption
  <1> HIDE DEF n
  <1>2. /\ a = n * p + (a % n) /\ a % n \in 0 .. n - 1 /\ p \in Nat
        /\ b = n * q + (b % n) /\ b % n \in 0 .. n - 1 /\ q \in Nat
    BY <1>1
  <1> HIDE DEF p, q
  <1>3. ASSUME p >= q + 1 PROVE FALSE
    <2>1. n * p >= n * (q + 1) BY <1>1, <1>2, <1>3
    <2>2. n * (q + 1) = n * q + n BY <1>1, <1>2
    <2>3. n * p \in Nat /\ n * q \in Nat BY <1>1, <1>2
    <2> QED BY <1>1, <1>2, <2>1, <2>2, <2>3
  <1>4. p <= q BY <1>2, <1>3
  <1> QED BY <1>4 DEF p, q, n, Second

\* What the comparison of texts lets through is at most within the last second.
LEMMA ValidInTime ==
  ASSUME NEW t \in Nat, clock \in Nat, Valid(t) PROVE Second(clock) <= Second(t)
  <1>1. Second(clock) = Second(t) \/ clock < t BY DEF Valid, TextBefore
  <1>2. Second(t) \in Nat BY AccountsAssumption DEF Second
  <1> QED BY <1>1, <1>2, SecondMonotonic

\* InTime for one handler.
OnTime(h) ==
    /\ pc[h] \in Spending => Second(req[h].at) <= Second(born[req[h].link].at + LoginTTL)
    /\ pc[h] = "invite" /\ req[h].sess # None => Second(req[h].at) <= Second(req[h].sess.expires)

\* A step keeps InTime: the moment a handler was let in does not move, nor does
\* the expiry of what it was let in with.
LEMMA StepInTime == IInv /\ InTime /\ [Next]_vars => InTime'
  <1> SUFFICES ASSUME IInv, InTime, [Next]_vars, NEW h \in Handlers
               PROVE  OnTime(h)'
    BY DEF InTime, OnTime, Spending, ExpiryOf, Second
  <1> USE AccountsAssumption DEF IInv
  <1>0. clock \in Nat BY DEF TypeOK, Ticks
  <1>1. ASSUME NEW l \in Links, ConsumeLogin(h, l) PROVE OnTime(h)'
    <2>1. born[l] \in Births /\ Valid(born[l].at + LoginTTL)
      BY <1>1 DEF ConsumeLogin, Spendable, TypeOK, RowsBorn, ExpiryOf
    <2>2. Second(clock) <= Second(born[l].at + LoginTTL)
      BY <1>0, <2>1, ValidInTime DEF Births, Ticks
    <2>3. pc'[h] = "address" /\ req'[h].link = l /\ req'[h].at = clock /\ born' = born
      BY <1>1 DEF ConsumeLogin, Spendable, Go, Blank, TypeOK
    <2> QED BY <2>2, <2>3 DEF OnTime, Second
  <1>2. ASSUME NEW s \in sessions, NEW e \in Emails, SessionArrive(h, s, e) PROVE OnTime(h)'
    <2>1. Second(clock) <= Second(s.expires)
      BY <1>0, <1>2, ValidInTime DEF SessionArrive, TypeOK, Sessions
    <2>2. pc'[h] = "invite" /\ req'[h].sess = s /\ req'[h].at = clock
      BY <1>2 DEF SessionArrive, Go, Blank, TypeOK
    <2> QED BY <2>1, <2>2 DEF OnTime, Spending, Second
  <1>3. ASSUME /\ pc'[h] \in Spending => /\ pc[h] \in Spending
                                        /\ req'[h].link = req[h].link /\ req'[h].at = req[h].at
               /\ pc'[h] = "invite" => pc[h] = "invite" /\ req'[h] = req[h]
               /\ \A l \in Links : born[l] # None => born'[l] = born[l]
        PROVE  OnTime(h)'
    <2>1. pc[h] \in Spending => /\ Second(req[h].at) <= Second(born[req[h].link].at + LoginTTL)
                               /\ req[h].link \in Links /\ born[req[h].link] # None
      BY DEF InTime, Spending, ExpiryOf, HeldSpent, RowsBorn
    <2>2. pc[h] = "invite" /\ req[h].sess # None => Second(req[h].at) <= Second(req[h].sess.expires)
      BY DEF InTime
    <2> QED BY <1>3, <2>1, <2>2 DEF OnTime, Second
  <1> DEFINE Kept == /\ pc'[h] \in Spending => /\ pc[h] \in Spending
                                              /\ req'[h].link = req[h].link /\ req'[h].at = req[h].at
                     /\ pc'[h] = "invite" => pc[h] = "invite" /\ req'[h] = req[h]
                     /\ \A l \in Links : born[l] # None => born'[l] = born[l]
  <1> HIDE DEF Kept
  <1>5. ASSUME NEW g \in Handlers, NEW e \in Emails, LoginLookup(g, e) PROVE Kept
    BY <1>5 DEF LoginLookup, Go, TypeOK, Spending, Kept
  <1>6. ASSUME NEW g \in Handlers, SendLink(g) PROVE Kept
    BY <1>6 DEF SendLink, End, Go, TypeOK, Spending, Kept
  <1>7. ASSUME NEW g \in Handlers, NEW l \in Links, ConsumeLogin(g, l), g # h PROVE Kept
    BY <1>7 DEF ConsumeLogin, Spendable, Go, TypeOK, Spending, Kept
  <1>8. ASSUME NEW g \in Handlers, ConsumeAddress(g) PROVE Kept
    <2>1. UNCHANGED born /\ pc[g] \in Spending /\ req[g] \in Requests
      BY <1>8 DEF ConsumeAddress, Spending, TypeOK
    <2>2. CASE Go(g, "user", [req[g] EXCEPT !.email = born[req[g].link].email])
      BY <2>1, <2>2 DEF Go, TypeOK, Spending, Requests, Kept
    <2>3. CASE Go(g, "idle", Blank) BY <2>1, <2>3 DEF Go, TypeOK, Spending, Kept
    <2> QED BY <1>8, <2>2, <2>3 DEF ConsumeAddress, End
  <1>9. ASSUME NEW g \in Handlers, VerifyUser(g) PROVE Kept
    <2>1. UNCHANGED born /\ pc[g] \in Spending BY <1>9 DEF VerifyUser, Spending
    <2>2. Go(g, "session", req[g]) \/ Go(g, "signup", req[g]) \/ Go(g, "idle", Blank)
      BY <1>9 DEF VerifyUser, End
    <2> QED BY <2>1, <2>2 DEF Go, TypeOK, Spending, Kept
  <1>10. ASSUME NEW g \in Handlers, SignupAttempt(g) PROVE Kept
    <2>1. UNCHANGED born /\ pc[g] \in Spending /\ req[g] \in Requests
      BY <1>10 DEF SignupAttempt, Spending, TypeOK
    <2>2. \/ Go(g, "session", req[g]) \/ Go(g, "idle", Blank)
          \/ Go(g, "signup", [req[g] EXCEPT !.attempt = req[g].attempt + 1])
      BY <1>10 DEF SignupAttempt, End
    <2> QED BY <2>1, <2>2 DEF Go, TypeOK, Spending, Requests, Kept
  <1>11. ASSUME NEW g \in Handlers, CreateSession(g) PROVE Kept
    BY <1>11 DEF CreateSession, End, Go, TypeOK, Spending, Kept
  <1>12. ASSUME NEW g \in Handlers, NEW s \in sessions, NEW e \in Emails, SessionArrive(g, s, e), g # h
         PROVE  Kept
    BY <1>12 DEF SessionArrive, Go, TypeOK, Spending, Kept
  <1>13. ASSUME NEW g \in Handlers, NEW e, NEW o, CreateUser(g, e, o) PROVE Kept
    BY <1>13 DEF CreateUser, End, Go, TypeOK, Spending, Kept
  <1>14. ASSUME UNCHANGED <<pc, req, born>> PROVE Kept BY <1>14 DEF Kept
  <1>15. ASSUME NEW g \in Handlers, Abort(g) PROVE Kept BY <1>15 DEF Abort, End, Go, TypeOK, Spending, Kept
  <1>16. \/ \E l \in Links : ConsumeLogin(h, l)
         \/ \E s \in sessions, e \in Emails : SessionArrive(h, s, e)
         \/ Kept
    BY <1>5, <1>6, <1>7, <1>8, <1>9, <1>10, <1>11, <1>12, <1>13, <1>14, <1>15
    DEF Next, HandlerStep, Invite, AdminInvite, Logout, Tick, vars
  <1> QED BY <1>1, <1>2, <1>3, <1>16 DEF Kept

\* The invariant holds of every behaviour.
THEOREM Invariant == Spec => []IInv
  BY InitIInv, StepIInv, PTL DEF Spec

\* The tables and handlers keep their types.
THEOREM TypeCorrect == Spec => []TypeOK
  <1>1. IInv => TypeOK BY DEF IInv
  <1> QED BY Invariant, <1>1, PTL

\* However many handlers are given a link, at most one session is opened with
\* it: the UPDATE of ConsumeLogin lets one of them past.
THEOREM WorksOnceHolds == Spec => []WorksOnce
  <1>1. IInv => WorksOnce BY DEF IInv, WorksOnce, GrantedSpent, TypeOK
  <1> QED BY Invariant, <1>1, PTL

\* Sign-ups and invitations may race, fail and be retried: one account per
\* address, no organization without a member, no session without an account.
THEOREM AccountsWholeHolds == Spec => []AccountsWhole
  <1>1. IInv => AccountsWhole BY DEF IInv
  <1> QED BY Invariant, <1>1, PTL

\* A link is spent, and a session acted for, no later than in the second it
\* expires in, although times are compared as texts.
THEOREM InTimeHolds == Spec => []InTime
  <1>1. Init => InTime BY DEF Init, InTime
  <1>2. InTime /\ IInv /\ [Next]_vars => InTime' BY StepInTime
  <1> QED BY Invariant, <1>1, <1>2, PTL DEF Spec
=============================================================================
