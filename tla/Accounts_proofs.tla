--------------------------- MODULE Accounts_proofs ---------------------------
(***************************************************************************)
(* What Accounts.tla guarantees for every number of addresses, passwords,  *)
(* requests and sessions, whatever the limits of the admission are.        *)
(*                                                                         *)
(* SessionInv says what a request that is about to open a session has      *)
(* shown, and what a request that presents one has read; LimiterInv says   *)
(* what the tables of the admission hold.                                  *)
(***************************************************************************)
EXTENDS Accounts, FiniteSetTheorems, TLAPS

----------------------------------------------------------------------------
UserRow == [password : Passwords \cup {NoPassword}, active : BOOLEAN, first : BOOLEAN]
SessionRow == [email : Emails, expires : Nat, revoked : BOOLEAN, by : Passwords]
Thread == [stage : Stages, email : Emails \cup {NoEmail}, password : Passwords \cup {NoPassword},
           session : Nat, kind : {"none", "read", "write", "logout"}, csrf : BOOLEAN, since : Nat]

AccountsRows ==
  /\ clock \in Nat
  /\ user \in [Emails -> UserRow]
  /\ session \in Seq(SessionRow)
  /\ thread \in [Threads -> Thread]

\* A request that brings an account and a password.
Credentials(t) ==
  thread[t].stage \in {"lookup", "insert", "credentials", "open", "bootstrap"} =>
    thread[t].email \in Emails /\ thread[t].password \in Passwords
\* A request that may open a session has shown the account's password.
MayOpen(t) ==
  thread[t].stage = "open" => user[thread[t].email].password = thread[t].password
\* A session that a request presented had not expired.
Presented(t) ==
  thread[t].stage \in {"user", "touch", "revoke"} =>
    /\ thread[t].session \in 1..Len(session)
    /\ session[thread[t].session].expires > thread[t].since

Earned == \A s \in 1..Len(session) : session[s].by = user[session[s].email].password
\* Nobody is the first account without being an account, nor beside another.
FirstIsAlone ==
  /\ \A e \in Emails : user[e].first => Exists(e)
  /\ \A e, f \in Emails : user[e].first /\ user[f].first => e = f

SessionInv ==
  /\ AccountsRows
  /\ \A t \in Threads : Credentials(t) /\ MayOpen(t) /\ Presented(t)
  /\ Earned /\ FirstIsAlone

----------------------------------------------------------------------------
\* Where requests are, and what an idle one holds.
LEMMA FreeIsTyped == Free \in Thread /\ Free.stage = "free" /\ NoUserRow \in UserRow
BY DEF Free, Thread, Stages, NoUserRow, UserRow

\* At first there are no accounts, no sessions and no requests.
LEMMA SessionInit == AccountsInit => SessionInv
<1>. SUFFICES ASSUME AccountsInit PROVE SessionInv
  OBVIOUS
<1>1. AccountsRows
  BY FreeIsTyped DEF AccountsInit, AccountsRows
<1>2. \A t \in Threads : thread[t].stage = "free"
  BY FreeIsTyped DEF AccountsInit
<1>3. Len(session) = 0
  BY DEF AccountsInit
<1>4. \A e \in Emails : ~user[e].first
  BY DEF AccountsInit, NoUserRow
<1>. QED BY <1>1, <1>2, <1>3, <1>4 DEF SessionInv, Credentials, MayOpen, Presented, Earned, FirstIsAlone

\* A request moves while accounts and sessions stay: only its own state matters.
LEMMA ThreadMoves ==
  ASSUME SessionInv, NEW t \in Threads, NEW r \in Thread, Becomes(t, r),
         UNCHANGED <<user, session>>, clock' = clock,
         r.stage \in {"lookup", "insert", "credentials", "open", "bootstrap"} =>
           r.email \in Emails /\ r.password \in Passwords,
         r.stage = "open" => user[r.email].password = r.password,
         r.stage \in {"user", "touch", "revoke"} =>
           r.session \in 1..Len(session) /\ session[r.session].expires > r.since
  PROVE  SessionInv'
<1>. USE DEF SessionInv, AccountsRows, Becomes
<1>1. thread' \in [Threads -> Thread] /\ thread'[t] = r
  OBVIOUS
<1>2. \A q \in Threads \ {t} : thread'[q] = thread[q]
  OBVIOUS
<1>3. Earned' /\ FirstIsAlone'
  BY DEF Earned, FirstIsAlone, Exists
<1>4. ASSUME NEW q \in Threads PROVE (Credentials(q) /\ MayOpen(q) /\ Presented(q))'
  <2>1. CASE q = t
    BY <2>1, <1>1 DEF Credentials, MayOpen, Presented
  <2>2. CASE q # t
    BY <2>2, <1>2 DEF Credentials, MayOpen, Presented
  <2>. QED BY <2>1, <2>2
<1>. QED BY <1>1, <1>3, <1>4

\* A request that ends leaves nothing behind.
LEMMA RequestEnds ==
  ASSUME SessionInv, NEW t \in Threads, Becomes(t, Free), UNCHANGED <<user, session>>, clock' = clock
  PROVE  SessionInv'
BY ThreadMoves, FreeIsTyped

\* An account is made for an address that had none: nobody relies on the old row.
LEMMA AccountMade ==
  ASSUME SessionInv, NEW t \in Threads, NEW r \in Thread, Becomes(t, r),
         NEW first \in BOOLEAN, thread[t].stage \in {"insert", "bootstrap"},
         ~Exists(thread[t].email), first => \A e \in Emails : ~Exists(e),
         InsertUser(thread[t].email, thread[t].password, first),
         r = Free \/ r = [thread[t] EXCEPT !.stage = "open"],
         clock' = clock, session' = session
  PROVE  SessionInv'
<1>. DEFINE e == thread[t].email
            p == thread[t].password
<1>1. e \in Emails /\ p \in Passwords /\ p # NoPassword
  BY AccountsAssumption DEF SessionInv, Credentials, AccountsAssumption
<1>2. /\ user' \in [Emails -> UserRow]
      /\ user'[e] = [password |-> p, active |-> TRUE, first |-> first]
      /\ \A f \in Emails \ {e} : user'[f] = user[f]
  BY <1>1 DEF InsertUser, SessionInv, AccountsRows, UserRow
<1>3. thread' \in [Threads -> Thread] /\ thread'[t] = r /\ \A q \in Threads \ {t} : thread'[q] = thread[q]
  BY DEF Becomes, SessionInv, AccountsRows
<1>4. r.stage \in {"free", "open"} /\ (r.stage = "open" => r.email = e /\ r.password = p)
  BY FreeIsTyped DEF SessionInv, AccountsRows, Thread
<1>5. user[e].password = NoPassword
  BY DEF Exists
<1>6. \A q \in Threads : thread[q].stage = "open" => thread[q].email # e
  BY <1>5, AccountsAssumption DEF SessionInv, Credentials, MayOpen, AccountsAssumption
<1>7. \A s \in 1..Len(session) : session[s].email \in Emails /\ session[s].by \in Passwords
  <2>1. \A s \in 1..Len(session) : session[s] \in SessionRow
    BY DEF SessionInv, AccountsRows
  <2>. QED BY <2>1 DEF SessionRow
<1>8. Earned'
  BY <1>2, <1>5, <1>7, AccountsAssumption DEF SessionInv, Earned, AccountsAssumption
<1>9. FirstIsAlone'
  BY <1>1, <1>2 DEF SessionInv, FirstIsAlone, Exists
<1>10. ASSUME NEW q \in Threads PROVE (Credentials(q) /\ MayOpen(q) /\ Presented(q))'
  <2>1. CASE q = t
    BY <2>1, <1>1, <1>2, <1>3, <1>4 DEF Credentials, MayOpen, Presented
  <2>2. CASE q # t
    BY <2>2, <1>2, <1>3, <1>6 DEF SessionInv, Credentials, MayOpen, Presented
  <2>. QED BY <2>1, <2>2
<1>. QED BY <1>2, <1>3, <1>8, <1>9, <1>10 DEF SessionInv, AccountsRows

----------------------------------------------------------------------------
\* Every action keeps the invariant.
LEMMA SessionStep == SessionInv /\ [AccountsNext]_accountsVars => SessionInv'
<1>. SUFFICES ASSUME SessionInv, [AccountsNext]_accountsVars PROVE SessionInv'
  OBVIOUS
<1>. \A t \in Threads : thread[t] \in Thread
  BY DEF SessionInv, AccountsRows
<1>1. ASSUME NEW t \in Threads, NEW source, NEW e \in Emails, NEW p \in Passwords,
             NEW invited \in BOOLEAN, AdmitRegistration(t, source, e, p, invited)
      PROVE  SessionInv'
  <2>1. [Free EXCEPT !.stage = "lookup", !.email = e, !.password = p] \in Thread
    BY FreeIsTyped DEF Thread, Stages
  <2>2. Becomes(t, Free) \/ Becomes(t, [Free EXCEPT !.stage = "lookup", !.email = e, !.password = p])
    BY <1>1 DEF AdmitRegistration, Attempt
  <2>3. UNCHANGED <<user, session>> /\ clock' = clock
    BY <1>1 DEF AdmitRegistration, Attempt
  <2>. QED BY <2>1, <2>2, <2>3, RequestEnds, ThreadMoves DEF Free
<1>2. ASSUME NEW t \in Threads, NEW source, NEW e \in Emails, NEW p \in Passwords,
             AdmitLogin(t, source, e, p)
      PROVE  SessionInv'
  <2>1. [Free EXCEPT !.stage = "credentials", !.email = e, !.password = p] \in Thread
    BY FreeIsTyped DEF Thread, Stages
  <2>2. Becomes(t, Free) \/ Becomes(t, [Free EXCEPT !.stage = "credentials", !.email = e, !.password = p])
    BY <1>2 DEF AdmitLogin, Attempt
  <2>3. UNCHANGED <<user, session>> /\ clock' = clock
    BY <1>2 DEF AdmitLogin, Attempt
  <2>. QED BY <2>1, <2>2, <2>3, RequestEnds, ThreadMoves DEF Free
<1>3. ASSUME NEW t \in Threads, LooksUpNew(t) PROVE SessionInv'
  <2>1. [thread[t] EXCEPT !.stage = "insert"] \in Thread
    BY DEF Thread, Stages
  <2>2. UNCHANGED <<user, session>> /\ clock' = clock /\ thread[t].stage = "lookup"
        /\ (Becomes(t, Free) \/ Becomes(t, [thread[t] EXCEPT !.stage = "insert"]))
    BY <1>3 DEF LooksUpNew, At
  <2>3. thread[t].email \in Emails /\ thread[t].password \in Passwords
    BY <2>2 DEF SessionInv, Credentials
  <2>. QED BY <2>1, <2>2, <2>3, RequestEnds, ThreadMoves DEF Thread
<1>4. ASSUME NEW t \in Threads, CreateUser(t) PROVE SessionInv'
  <2>1. [thread[t] EXCEPT !.stage = "open"] \in Thread
    BY DEF Thread, Stages
  <2>2. CASE Exists(thread[t].email)
    BY <1>4, <2>2, RequestEnds DEF CreateUser
  <2>3. CASE ~Exists(thread[t].email)
    BY <1>4, <2>1, <2>3, AccountMade DEF CreateUser, At
  <2>. QED BY <2>2, <2>3
<1>5. ASSUME NEW t \in Threads, CheckCredentials(t) PROVE SessionInv'
  <2>1. [thread[t] EXCEPT !.stage = "open"] \in Thread
    BY DEF Thread, Stages
  <2>2. UNCHANGED <<user, session>> /\ clock' = clock /\ thread[t].stage = "credentials"
        /\ \/ Becomes(t, Free)
           \/ /\ Becomes(t, [thread[t] EXCEPT !.stage = "open"])
              /\ user[thread[t].email].password = thread[t].password
    BY <1>5 DEF CheckCredentials, At
  <2>3. thread[t].email \in Emails /\ thread[t].password \in Passwords
    BY <2>2 DEF SessionInv, Credentials
  <2>. QED BY <2>1, <2>2, <2>3, RequestEnds, ThreadMoves DEF Thread
<1>6. ASSUME NEW t \in Threads, CreateSession(t) PROVE SessionInv'
  <2>. DEFINE new == [email |-> thread[t].email, expires |-> clock + Life,
                      revoked |-> FALSE, by |-> thread[t].password]
  <2>1. /\ session' = Append(session, new) /\ Becomes(t, Free)
        /\ UNCHANGED user /\ clock' = clock /\ thread[t].stage = "open"
    BY <1>6 DEF CreateSession, At
  <2>2. new \in SessionRow /\ user[new.email].password = new.by
    BY <2>1, AccountsAssumption
    DEF SessionInv, AccountsRows, Credentials, MayOpen, SessionRow, AccountsAssumption
  <2>. HIDE DEF new
  <2>3. /\ session' \in Seq(SessionRow) /\ Len(session') = Len(session) + 1
        /\ session'[Len(session) + 1] = new
        /\ \A s \in 1..Len(session) : session'[s] = session[s]
    BY <2>1, <2>2 DEF SessionInv, AccountsRows
  <2>4. Len(session) \in Nat
    BY DEF SessionInv, AccountsRows
  <2>5. Earned' /\ FirstIsAlone'
    <3>1. FirstIsAlone'
      BY <2>1 DEF SessionInv, FirstIsAlone, Exists
    <3>2. ASSUME NEW s \in 1..Len(session') PROVE session'[s].by = user'[session'[s].email].password
      <4>1. CASE s \in 1..Len(session)
        BY <4>1, <2>1, <2>3 DEF SessionInv, Earned
      <4>2. CASE s = Len(session) + 1
        BY <4>2, <2>1, <2>2, <2>3
      <4>. QED BY <4>1, <4>2, <2>3, <2>4
    <3>. QED BY <3>1, <3>2 DEF Earned
  <2>6. /\ thread' \in [Threads -> Thread] /\ thread'[t].stage = "free"
        /\ \A q \in Threads \ {t} : thread'[q] = thread[q]
    BY <2>1, FreeIsTyped DEF Becomes, SessionInv, AccountsRows
  <2>7. ASSUME NEW q \in Threads PROVE (Credentials(q) /\ MayOpen(q) /\ Presented(q))'
    <3>1. CASE q = t
      BY <3>1, <2>6 DEF Credentials, MayOpen, Presented
    <3>2. CASE q # t
      BY <3>2, <2>1, <2>3, <2>4, <2>6 DEF SessionInv, Credentials, MayOpen, Presented
    <3>. QED BY <3>1, <3>2
  <2>. QED BY <2>1, <2>3, <2>5, <2>6, <2>7 DEF SessionInv, AccountsRows
<1>7. ASSUME NEW t \in Threads, NEW e \in Emails, NEW p \in Passwords, Bootstrap(t, e, p)
      PROVE  SessionInv'
  <2>1. [Free EXCEPT !.stage = "bootstrap", !.email = e, !.password = p] \in Thread
    BY FreeIsTyped DEF Thread, Stages
  <2>. QED BY <1>7, <2>1, ThreadMoves DEF Bootstrap, Free
<1>8. ASSUME NEW t \in Threads, CreateFirstUser(t) PROVE SessionInv'
  <2>1. thread[t].stage = "bootstrap" /\ thread[t].email \in Emails
    BY <1>8 DEF CreateFirstUser, At, SessionInv, Credentials
  <2>2. CASE \E f \in Emails : Exists(f)
    BY <1>8, <2>2, RequestEnds DEF CreateFirstUser
  <2>3. CASE ~\E f \in Emails : Exists(f)
    BY <1>8, <2>1, <2>3, AccountMade, FreeIsTyped DEF CreateFirstUser
  <2>. QED BY <2>2, <2>3
<1>9. ASSUME NEW t \in Threads, NEW s \in 1..Len(session), NEW kind \in {"read", "write", "logout"},
             NEW csrf \in BOOLEAN, Present(t, s, kind, csrf)
      PROVE  SessionInv'
  <2>. DEFINE r == [Free EXCEPT !.stage = "user", !.session = s, !.kind = kind,
                                !.csrf = csrf, !.since = clock]
  <2>1. s \in Nat /\ clock \in Nat
    BY DEF SessionInv, AccountsRows
  <2>2. r \in Thread /\ r.stage = "user" /\ r.session = s /\ r.since = clock
    BY <2>1, FreeIsTyped DEF Thread, Stages, Free
  <2>3. Becomes(t, r) /\ UNCHANGED <<user, session>> /\ clock' = clock /\ session[s].expires > clock
    BY <1>9 DEF Present
  <2>. HIDE DEF r
  <2>. QED BY <2>2, <2>3, ThreadMoves
<1>10. ASSUME NEW t \in Threads, ReadsUser(t) \/ TouchSession(t) \/ Serve(t) PROVE SessionInv'
  <2>1. /\ UNCHANGED <<user, session>> /\ clock' = clock
        /\ \/ Becomes(t, Free)
           \/ /\ thread[t].stage \in {"user", "touch"}
              /\ \E stage \in {"touch", "revoke", "serving"} :
                   Becomes(t, [thread[t] EXCEPT !.stage = stage])
    BY <1>10 DEF ReadsUser, TouchSession, Serve, At
  <2>2. ASSUME thread[t].stage \in {"user", "touch"}, NEW stage \in {"touch", "revoke", "serving"},
               Becomes(t, [thread[t] EXCEPT !.stage = stage])
        PROVE  SessionInv'
    <3>1. /\ [thread[t] EXCEPT !.stage = stage] \in Thread
          /\ [thread[t] EXCEPT !.stage = stage].stage = stage
          /\ [thread[t] EXCEPT !.stage = stage].session = thread[t].session
          /\ [thread[t] EXCEPT !.stage = stage].since = thread[t].since
      BY DEF Thread, Stages
    <3>2. Presented(t)
      BY DEF SessionInv
    <3>. QED BY <2>1, <2>2, <3>1, <3>2, ThreadMoves DEF Presented
  <2>. QED BY <2>1, <2>2, RequestEnds
<1>11. ASSUME NEW t \in Threads, RevokeSession(t) PROVE SessionInv'
  <2>. DEFINE k == thread[t].session
  <2>1. k \in 1..Len(session) /\ Len(session) \in Nat
    BY <1>11 DEF RevokeSession, At, SessionInv, AccountsRows, Presented
  <2>2. session[k] \in SessionRow
    BY <2>1 DEF SessionInv, AccountsRows
  <2>3. [session[k] EXCEPT !.revoked = TRUE] \in SessionRow
    BY <2>2 DEF SessionRow
  <2>4. session' = [session EXCEPT ![k] = [session[k] EXCEPT !.revoked = TRUE]]
    BY <1>11 DEF RevokeSession
  <2>5. /\ session' \in Seq(SessionRow) /\ Len(session') = Len(session)
        /\ \A s \in 1..Len(session) : /\ session'[s].email = session[s].email
                                      /\ session'[s].by = session[s].by
                                      /\ session'[s].expires = session[s].expires
    BY <2>1, <2>2, <2>3, <2>4 DEF SessionInv, AccountsRows, SessionRow
  <2>6. /\ thread' \in [Threads -> Thread] /\ thread'[t].stage = "free"
        /\ \A q \in Threads \ {t} : thread'[q] = thread[q]
        /\ user' = user /\ clock' = clock
    BY <1>11, FreeIsTyped DEF RevokeSession, Becomes, SessionInv, AccountsRows
  <2>7. ASSUME NEW q \in Threads PROVE (Credentials(q) /\ MayOpen(q) /\ Presented(q))'
    <3>1. CASE q = t
      BY <3>1, <2>6 DEF Credentials, MayOpen, Presented
    <3>2. CASE q # t
      BY <3>2, <2>5, <2>6 DEF SessionInv, Credentials, MayOpen, Presented
    <3>. QED BY <3>1, <3>2
  <2>8. Earned' /\ FirstIsAlone'
    BY <2>5, <2>6 DEF SessionInv, Earned, FirstIsAlone, Exists
  <2>. QED BY <2>5, <2>6, <2>7, <2>8 DEF SessionInv, AccountsRows
<1>12. ASSUME NEW e \in Emails, OperatorSuspends(e) PROVE SessionInv'
  <2>1. /\ user' \in [Emails -> UserRow]
        /\ \A f \in Emails : user'[f].password = user[f].password /\ user'[f].first = user[f].first
    <3>1. [user[e] EXCEPT !.active = FALSE] \in UserRow
      BY DEF SessionInv, AccountsRows, UserRow
    <3>. QED BY <1>12, <3>1 DEF OperatorSuspends, SessionInv, AccountsRows, UserRow
  <2>2. UNCHANGED <<clock, session, thread>>
    BY <1>12 DEF OperatorSuspends
  <2>3. \A s \in 1..Len(session) : session[s].email \in Emails
    <3>1. \A s \in 1..Len(session) : session[s] \in SessionRow
      BY DEF SessionInv, AccountsRows
    <3>. QED BY <3>1 DEF SessionRow
  <2>4. Earned' /\ FirstIsAlone'
    BY <2>1, <2>2, <2>3 DEF SessionInv, Earned, FirstIsAlone, Exists
  <2>5. \A q \in Threads : (Credentials(q) /\ MayOpen(q) /\ Presented(q))'
    BY <2>1, <2>2 DEF SessionInv, Credentials, MayOpen, Presented
  <2>. QED BY <2>1, <2>2, <2>4, <2>5 DEF SessionInv, AccountsRows
<1>13. ASSUME ClockTicks PROVE SessionInv'
  BY <1>13 DEF ClockTicks, SessionInv, AccountsRows, Credentials, MayOpen, Presented, Earned,
     FirstIsAlone, Exists
<1>14. ASSUME ServerRestarts PROVE SessionInv'
  <2>1. \A q \in Threads : thread'[q] = IF thread[q].stage = "bootstrap" THEN thread[q] ELSE Free
    BY <1>14 DEF ServerRestarts, At
  <2>2. thread' \in [Threads -> Thread] /\ UNCHANGED <<clock, user, session>>
    BY <1>14, FreeIsTyped DEF ServerRestarts
  <2>3. \A q \in Threads : (Credentials(q) /\ MayOpen(q) /\ Presented(q))'
    BY <2>1, <2>2, FreeIsTyped DEF SessionInv, Credentials, MayOpen, Presented
  <2>4. Earned' /\ FirstIsAlone'
    BY <2>2 DEF SessionInv, Earned, FirstIsAlone, Exists
  <2>. QED BY <2>2, <2>3, <2>4 DEF SessionInv, AccountsRows
<1>15. CASE UNCHANGED accountsVars
  BY <1>15 DEF accountsVars, SessionInv, AccountsRows, Credentials, MayOpen, Presented, Earned,
     FirstIsAlone, Exists
<1>. QED
  BY <1>1, <1>2, <1>3, <1>4, <1>5, <1>6, <1>7, <1>8, <1>9, <1>10, <1>11, <1>12, <1>13, <1>14, <1>15
  DEF AccountsNext

----------------------------------------------------------------------------
\* SessionInv holds in every state: the inductive invariant of requests, accounts
\* and sessions (auth.py, auth_repository.py).
THEOREM SessionsHold == AccountsSpec => []SessionInv
<1>. QED BY SessionInit, SessionStep, PTL DEF AccountsSpec

\* A session belongs to an account whose password its request presented, and at
\* most one account is the first.
THEOREM EverySessionEarned == AccountsSpec => []SessionIsEarned
<1>1. SessionInv => SessionIsEarned
  <2>. SUFFICES ASSUME SessionInv PROVE SessionIsEarned
    OBVIOUS
  <2>. DEFINE F == {e \in Emails : user[e].first}
  <2>1. F = {} \/ \E e \in Emails : F = {e}
    BY DEF SessionInv, FirstIsAlone
  <2>. HIDE DEF F
  <2>3. ASSUME NEW e \in Emails, F = {e} PROVE Cardinality(F) <= 1
    BY <2>3, FS_Singleton
  <2>4. Cardinality(F) <= 1
    <3>1. CASE F = {}
      <4>1. Cardinality(F) = 0
        BY <3>1, FS_EmptySet
      <4>. QED BY <4>1
    <3>. QED BY <2>1, <2>3, <3>1
  <2>. QED BY <2>4 DEF SessionInv, Earned, SessionIsEarned, F
<1>. QED BY <1>1, SessionsHold, PTL

\* No action but TouchSession lets a request through, and none restores a session.
LEMMA OnlyTouchAdmits ==
  ASSUME SessionInv, AccountsNext
  PROVE  /\ \A t \in Threads : thread'[t].stage = "serving" /\ thread[t].stage # "serving" =>
              TouchSession(t)
         /\ \A s \in 1..Len(session) : session[s].revoked => session'[s].revoked
<1>. DEFINE Others(t) == \A q \in Threads \ {t} : thread'[q] = thread[q]
            Stand == \A s \in 1..Len(session) : session[s].revoked => session'[s].revoked
<1>. thread \in [Threads -> Thread] /\ session \in Seq(SessionRow)
  BY DEF SessionInv, AccountsRows
<1>1. ASSUME NEW t \in Threads, NEW r, Becomes(t, r) PROVE thread'[t] = r /\ Others(t)
  BY <1>1 DEF Becomes
<1>. HIDE DEF Others
<1>2. ASSUME NEW t \in Threads,
             \/ LooksUpNew(t) \/ CreateUser(t) \/ CheckCredentials(t) \/ CreateFirstUser(t)
             \/ \E e \in Emails, p \in Passwords :
                  \/ Bootstrap(t, e, p)
                  \/ \E source \in Sources :
                       \/ AdmitLogin(t, source, e, p)
                       \/ \E invited \in BOOLEAN : AdmitRegistration(t, source, e, p, invited)
      PROVE  thread'[t].stage # "serving" /\ Others(t) /\ Stand
  <2>1. session' = session
    BY <1>2 DEF LooksUpNew, CreateUser, CheckCredentials, CreateFirstUser, Bootstrap, AdmitLogin,
       AdmitRegistration, Attempt
  <2>2. Free.stage = "free" /\ thread[t] \in Thread
    BY DEF Free
  <2>3. \A stage \in {"insert", "open"} : [thread[t] EXCEPT !.stage = stage].stage = stage
    BY <2>2 DEF Thread
  <2>4. \A e, p, stage : [Free EXCEPT !.stage = stage, !.email = e, !.password = p].stage = stage
    BY DEF Free
  <2>5. ASSUME LooksUpNew(t) \/ CreateUser(t) \/ CheckCredentials(t) \/ CreateFirstUser(t)
        PROVE  thread'[t].stage # "serving" /\ Others(t)
    <3>1. \/ Becomes(t, Free)
          \/ Becomes(t, [thread[t] EXCEPT !.stage = "insert"])
          \/ Becomes(t, [thread[t] EXCEPT !.stage = "open"])
      BY <2>5 DEF LooksUpNew, CreateUser, CheckCredentials, CreateFirstUser
    <3>2. CASE Becomes(t, Free)
      BY <3>2, <2>2, <1>1
    <3>3. ASSUME NEW stage \in {"insert", "open"}, Becomes(t, [thread[t] EXCEPT !.stage = stage])
          PROVE  thread'[t].stage # "serving" /\ Others(t)
      BY <3>3, <2>3, <1>1
    <3>. QED BY <3>1, <3>2, <3>3
  <2>6. ASSUME NEW e \in Emails, NEW p \in Passwords, Bootstrap(t, e, p)
        PROVE  thread'[t].stage # "serving" /\ Others(t)
    <3>1. Becomes(t, [Free EXCEPT !.stage = "bootstrap", !.email = e, !.password = p])
      BY <2>6 DEF Bootstrap
    <3>2. thread'[t] = [Free EXCEPT !.stage = "bootstrap", !.email = e, !.password = p]
          /\ Others(t)
      BY <3>1, <1>1
    <3>. QED BY <3>2, <2>4
  <2>7. ASSUME NEW e \in Emails, NEW p \in Passwords, NEW source, NEW invited \in BOOLEAN,
               AdmitLogin(t, source, e, p) \/ AdmitRegistration(t, source, e, p, invited)
        PROVE  thread'[t].stage # "serving" /\ Others(t)
    <3>1. \/ Becomes(t, Free)
          \/ Becomes(t, [Free EXCEPT !.stage = "credentials", !.email = e, !.password = p])
          \/ Becomes(t, [Free EXCEPT !.stage = "lookup", !.email = e, !.password = p])
      BY <2>7 DEF AdmitLogin, AdmitRegistration, Attempt
    <3>2. CASE Becomes(t, Free)
      BY <3>2, <2>2, <1>1
    <3>3. ASSUME NEW stage \in {"credentials", "lookup"},
                 Becomes(t, [Free EXCEPT !.stage = stage, !.email = e, !.password = p])
          PROVE  thread'[t].stage # "serving" /\ Others(t)
      <4>1. thread'[t] = [Free EXCEPT !.stage = stage, !.email = e, !.password = p] /\ Others(t)
        BY <3>3, <1>1
      <4>. QED BY <4>1, <2>4
    <3>. QED BY <3>1, <3>2, <3>3
  <2>. QED BY <1>2, <2>1, <2>5, <2>6, <2>7
<1>3. ASSUME NEW t \in Threads,
             \/ ReadsUser(t) \/ Serve(t)
             \/ \E s \in 1..Len(session), kind \in {"read", "write", "logout"}, csrf \in BOOLEAN :
                  Present(t, s, kind, csrf)
      PROVE  thread'[t].stage # "serving" /\ Others(t) /\ Stand
  <2>1. session' = session
    BY <1>3 DEF ReadsUser, Serve, Present
  <2>2. /\ Free.stage = "free"
        /\ \A stage \in {"touch", "revoke"} : [thread[t] EXCEPT !.stage = stage].stage = stage
        /\ \A s, kind, csrf, since :
             [Free EXCEPT !.stage = "user", !.session = s, !.kind = kind,
                          !.csrf = csrf, !.since = since].stage = "user"
    BY DEF Free, Thread
  <2>3. PICK r : Becomes(t, r) /\ r.stage # "serving"
    BY <1>3, <2>2 DEF ReadsUser, Serve, Present
  <2>. QED BY <2>1, <2>3, <1>1
<1>4. ASSUME NEW t \in Threads, TouchSession(t) PROVE Others(t) /\ Stand
  BY <1>4, <1>1 DEF TouchSession
<1>5. ASSUME NEW t \in Threads, CreateSession(t)
      PROVE  thread'[t].stage # "serving" /\ Others(t) /\ Stand
  <2>1. Becomes(t, Free) /\ Free.stage = "free"
    BY <1>5 DEF CreateSession, Free
  <2>2. \A s \in 1..Len(session) : session'[s] = session[s]
    BY <1>5 DEF CreateSession
  <2>. QED BY <2>1, <2>2, <1>1
<1>6. ASSUME NEW t \in Threads, RevokeSession(t)
      PROVE  thread'[t].stage # "serving" /\ Others(t) /\ Stand
  <2>1. Becomes(t, Free) /\ Free.stage = "free"
    BY <1>6 DEF RevokeSession, Free
  <2>2. /\ DOMAIN session = 1..Len(session)
        /\ \A s \in 1..Len(session) : session[s] \in SessionRow
    OBVIOUS
  <2>3. ASSUME NEW s \in 1..Len(session), session[s].revoked PROVE session'[s].revoked
    <3>1. CASE s = thread[t].session
      <4>1. session'[s] = [session[s] EXCEPT !.revoked = TRUE]
        BY <1>6, <3>1, <2>2 DEF RevokeSession
      <4>2. session[s] \in SessionRow
        BY <2>2
      <4>3. [session[s] EXCEPT !.revoked = TRUE].revoked
        BY <4>2 DEF SessionRow
      <4>. QED BY <4>1, <4>3
    <3>2. CASE s # thread[t].session
      <4>1. session'[s] = session[s]
        BY <1>6, <3>2 DEF RevokeSession
      <4>. QED BY <4>1, <2>3
    <3>. QED BY <3>1, <3>2
  <2>. QED BY <2>1, <2>3, <1>1
<1>7. ASSUME (\E e \in Emails : OperatorSuspends(e)) \/ ClockTicks
      PROVE  thread' = thread /\ Stand
  BY <1>7 DEF OperatorSuspends, ClockTicks
<1>8. ASSUME ServerRestarts
      PROVE  Stand /\ \A t \in Threads : thread'[t].stage # "serving"
  BY <1>8 DEF ServerRestarts, At, Free
<1>9. Stand
  BY <1>2, <1>3, <1>4, <1>5, <1>6, <1>7, <1>8 DEF AccountsNext
<1>10. ASSUME NEW q \in Threads, thread'[q].stage = "serving", thread[q].stage # "serving"
       PROVE  TouchSession(q)
  <2>. USE <1>10 DEF Others
  <2>. QED BY <1>2, <1>3, <1>4, <1>5, <1>6, <1>7, <1>8 DEF AccountsNext
<1>. QED BY <1>9, <1>10

\* A request is let through only while its session stands, with its CSRF token
\* when it writes, and no revoked session stands again.
THEOREM LogoutHolds == AccountsSpec => AdmittedIsLive
<1>. DEFINE Admits ==
       /\ \A t \in Threads :
            thread'[t].stage = "serving" /\ thread[t].stage # "serving" =>
              LET s == session[thread[t].session] IN
              /\ ~s.revoked /\ s.expires > thread[t].since
              /\ thread[t].kind = "write" => thread[t].csrf
       /\ \A s \in 1..Len(session) : session[s].revoked => session'[s].revoked
<1>1. SessionInv /\ [AccountsNext]_accountsVars => [Admits]_accountsVars
  <2>. SUFFICES ASSUME SessionInv, AccountsNext PROVE Admits
    OBVIOUS
  <2>1. ASSUME NEW t \in Threads, TouchSession(t), thread'[t].stage = "serving"
        PROVE  LET s == session[thread[t].session] IN
               /\ ~s.revoked /\ s.expires > thread[t].since
               /\ thread[t].kind = "write" => thread[t].csrf
    <3>1. thread'[t].stage = "serving" => ~session[thread[t].session].revoked
                                           /\ (thread[t].kind = "write" => thread[t].csrf)
      <4>1. thread \in [Threads -> Thread] /\ Free.stage = "free"
        BY DEF SessionInv, AccountsRows, Free
      <4>. QED BY <2>1, <4>1 DEF TouchSession, Becomes
    <3>2. Presented(t) /\ thread[t].stage = "touch"
      BY <2>1 DEF SessionInv, TouchSession, At
    <3>. QED BY <2>1, <3>1, <3>2 DEF Presented
  <2>. QED BY <2>1, OnlyTouchAdmits
<1>. QED BY <1>1, SessionsHold, PTL DEF AccountsSpec, AdmittedIsLive

----------------------------------------------------------------------------
(* The limiter of attempts: no key has more attempts in a window than its   *)
(* table allows, and no table more keys than it may hold.                   *)

Entry(t, now) == [started : 0..now, count : 1..AuthLimit[t]]
EntriesOK(entries, t, now) ==
  /\ IsFiniteSet(DOMAIN entries) /\ Cardinality(DOMAIN entries) <= MaxKeys[t]
  /\ \A k \in DOMAIN entries : entries[k] \in Entry(t, now)
TablesOK(l, now) ==
  /\ DOMAIN l = {"table", "cleanup"} /\ DOMAIN l.table = Tables
  /\ \A t \in Tables : EntriesOK(l.table[t], t, now)

LEMMA AuthLimits ==
  ASSUME NEW t \in Tables
  PROVE  AuthLimit[t] \in Nat \ {0} /\ MaxKeys[t] \in Nat \ {0}
BY AuthLimitsAssumption DEF AuthLimitsAssumption

\* A table from which keys are taken keeps its limits.
LEMMA FewerKeys ==
  ASSUME NEW t \in Tables, NEW now, NEW entries, EntriesOK(entries, t, now), NEW S
  PROVE  EntriesOK(Except(entries, S), t, now)
<1>. DEFINE rest == Except(entries, S)
<1>1. DOMAIN rest \subseteq DOMAIN entries /\ \A k \in DOMAIN rest : rest[k] = entries[k]
  BY DEF Except
<1>. HIDE DEF rest
<1>2. /\ IsFiniteSet(DOMAIN rest) /\ Cardinality(DOMAIN rest) <= Cardinality(DOMAIN entries)
      /\ Cardinality(DOMAIN rest) \in Nat /\ Cardinality(DOMAIN entries) \in Nat
  BY <1>1, FS_Subset, FS_CardinalityType DEF EntriesOK
<1>3. Cardinality(DOMAIN rest) <= MaxKeys[t]
  BY <1>2, AuthLimits DEF EntriesOK
<1>4. \A k \in DOMAIN rest : rest[k] \in Entry(t, now)
  BY <1>1 DEF EntriesOK
<1>. QED BY <1>2, <1>3, <1>4 DEF EntriesOK, rest

LEMMA CheckKeepsLimits ==
  ASSUME NEW t \in Tables, NEW now, NEW entries, EntriesOK(entries, t, now), NEW key
  PROVE  EntriesOK(Checked(entries, t, key, now), t, now)
<1>1. \/ Checked(entries, t, key, now) = Except(entries, Ended(entries, t, now))
      \/ Checked(entries, t, key, now) = Except(entries, Ended(entries, t, now) \cap {key})
  BY DEF Checked
<1>. QED BY <1>1, FewerKeys

LEMMA CleaningKeepsLimits ==
  ASSUME NEW now, NEW l, TablesOK(l, now)
  PROVE  TablesOK(Cleaned(l, now), now)
<1>1. CASE now < l.cleanup
  BY <1>1 DEF Cleaned
<1>2. CASE ~(now < l.cleanup)
  <2>. DEFINE c == Cleaned(l, now)
  <2>1. /\ DOMAIN c = {"table", "cleanup"} /\ DOMAIN c.table = Tables
        /\ \A t \in Tables : c.table[t] = Except(l.table[t], Ended(l.table[t], t, now))
    BY <1>2 DEF Cleaned
  <2>. HIDE DEF c
  <2>2. \A t \in Tables : EntriesOK(c.table[t], t, now)
    BY <2>1, FewerKeys DEF TablesOK
  <2>. QED BY <2>1, <2>2 DEF TablesOK, c
<1>. QED BY <1>1, <1>2

LEMMA ChecksKeepLimits ==
  ASSUME NEW now, NEW l, TablesOK(l, now), NEW checks
  PROVE  TablesOK(AfterChecks(l, checks, now), now)
<1>. DEFINE cleaned == Cleaned(l, now)
            a == AfterChecks(l, checks, now)
            key(t) == (CHOOSE c \in checks : c[1] = t)[2]
<1>1. TablesOK(cleaned, now)
  BY CleaningKeepsLimits
<1>2. a = [cleaned EXCEPT !.table = [t \in Tables |->
             IF \E c \in checks : c[1] = t
               THEN Checked(cleaned.table[t], t, key(t), now) ELSE cleaned.table[t]]]
  BY DEF AfterChecks
<1>. HIDE DEF cleaned, a, key
<1>3. /\ DOMAIN a = {"table", "cleanup"} /\ DOMAIN a.table = Tables
      /\ \A t \in Tables : \/ a.table[t] = cleaned.table[t]
                           \/ a.table[t] = Checked(cleaned.table[t], t, key(t), now)
  BY <1>1, <1>2 DEF TablesOK
<1>4. \A t \in Tables : EntriesOK(a.table[t], t, now)
  BY <1>1, <1>3, CheckKeepsLimits DEF TablesOK
<1>. QED BY <1>3, <1>4 DEF TablesOK, a

\* An attempt is checked against at most one key of a table.
OneEach(checks) == \A c, d \in checks : c[1] = d[1] => c = d

LEMMA ChecksOnce ==
  /\ \A source : OneEach(RegistrationChecks(source))
  /\ \A source, email : OneEach(LoginChecks(source, email))
BY DEF OneEach, RegistrationChecks, LoginChecks

\* An attempt that no check denies is counted within the limits.
LEMMA CountingKeepsLimits ==
  ASSUME NEW now \in Nat, NEW l, TablesOK(l, now), NEW checks, OneEach(checks), ~Denies(l, checks)
  PROVE  TablesOK(Taken(l, checks, now), now)
<1>. DEFINE keys(t) == {c[2] : c \in {c \in checks : c[1] = t}}
            new(t) == [k \in DOMAIN l.table[t] \cup keys(t) |->
                         IF k \notin DOMAIN l.table[t] THEN [started |-> now, count |-> 1]
                         ELSE IF k \in keys(t) THEN [l.table[t][k] EXCEPT !.count = @ + 1]
                         ELSE l.table[t][k]]
            n == Taken(l, checks, now)
<1>1. n = [l EXCEPT !.table = [t \in Tables |-> new(t)]]
  BY DEF Taken
<1>2. ASSUME NEW t \in Tables PROVE EntriesOK(new(t), t, now)
  <2>. DEFINE e == l.table[t]
              m == new(t)
  <2>1. EntriesOK(e, t, now) /\ AuthLimit[t] \in Nat \ {0} /\ MaxKeys[t] \in Nat \ {0}
    BY AuthLimits DEF TablesOK
  <2>2. /\ DOMAIN m = DOMAIN e \cup keys(t)
        /\ \A k \in DOMAIN m : m[k] = IF k \notin DOMAIN e THEN [started |-> now, count |-> 1]
                                      ELSE IF k \in keys(t) THEN [e[k] EXCEPT !.count = @ + 1] ELSE e[k]
    OBVIOUS
  <2>3. keys(t) = {} \/ \E key : /\ keys(t) = {key}
                                 /\ key \in DOMAIN e => e[key].count < AuthLimit[t]
                                 /\ key \notin DOMAIN e => Cardinality(DOMAIN e) < MaxKeys[t]
    <3>1. CASE \E c \in checks : c[1] = t
      <4>1. PICK c \in checks : c[1] = t
        BY <3>1
      <4>2. keys(t) = {c[2]}
        BY <4>1 DEF OneEach
      <4>3. ~Blocks(l, c)
        BY <4>1 DEF Denies
      <4>4. /\ c[2] \in DOMAIN e => ~(e[c[2]].count >= AuthLimit[t])
            /\ c[2] \notin DOMAIN e => ~(Cardinality(DOMAIN e) >= MaxKeys[t])
        BY <4>1, <4>3 DEF Blocks
      <4>5. c[2] \in DOMAIN e => e[c[2]].count \in Nat
        BY <2>1 DEF EntriesOK, Entry
      <4>6. Cardinality(DOMAIN e) \in Nat
        BY <2>1, FS_CardinalityType DEF EntriesOK
      <4>. QED BY <2>1, <4>2, <4>4, <4>5, <4>6
    <3>2. CASE ~\E c \in checks : c[1] = t
      BY <3>2
    <3>. QED BY <3>1, <3>2
  <2>. HIDE DEF e, m, keys
  <2>4. /\ \A k \in DOMAIN m : m[k] \in Entry(t, now)
        /\ IsFiniteSet(DOMAIN m) /\ Cardinality(DOMAIN m) <= MaxKeys[t]
    <3>1. CASE keys(t) = {}
      <4>1. DOMAIN m = DOMAIN e /\ \A k \in DOMAIN e : m[k] = e[k]
        BY <2>2, <3>1
      <4>. QED BY <2>1, <4>1 DEF EntriesOK
    <3>2. ASSUME NEW key, keys(t) = {key},
                 key \in DOMAIN e => e[key].count < AuthLimit[t],
                 key \notin DOMAIN e => Cardinality(DOMAIN e) < MaxKeys[t]
          PROVE  /\ \A k \in DOMAIN m : m[k] \in Entry(t, now)
                 /\ IsFiniteSet(DOMAIN m) /\ Cardinality(DOMAIN m) <= MaxKeys[t]
      <4>1. DOMAIN m = DOMAIN e \cup {key}
        BY <2>2, <3>2
      <4>2. ASSUME NEW k \in DOMAIN m PROVE m[k] \in Entry(t, now)
        <5>1. CASE k \notin DOMAIN e
          <6>1. m[k] = [started |-> now, count |-> 1]
            BY <2>2, <5>1
          <6>2. now \in 0..now /\ 1 \in 1..AuthLimit[t]
            BY <2>1
          <6>. QED BY <6>1, <6>2 DEF Entry
        <5>2. CASE k \in DOMAIN e /\ k # key
          BY <2>1, <2>2, <3>2, <5>2 DEF EntriesOK
        <5>3. CASE k \in DOMAIN e /\ k = key
          <6>1. m[k] = [e[k] EXCEPT !.count = e[k].count + 1]
            BY <2>2, <3>2, <5>3
          <6>2. e[k] \in Entry(t, now) /\ e[k].count < AuthLimit[t]
            BY <2>1, <3>2, <5>3 DEF EntriesOK
          <6>3. e[k].count + 1 \in 1..AuthLimit[t]
            BY <2>1, <6>2 DEF Entry
          <6>. QED BY <6>1, <6>2, <6>3 DEF Entry
        <5>. QED BY <5>1, <5>2, <5>3
      <4>3. IsFiniteSet(DOMAIN e) /\ Cardinality(DOMAIN e) \in Nat /\ Cardinality(DOMAIN e) <= MaxKeys[t]
        BY <2>1, FS_CardinalityType DEF EntriesOK
      <4>4. CASE key \in DOMAIN e
        <5>1. DOMAIN m = DOMAIN e
          BY <4>1, <4>4
        <5>. QED BY <4>2, <4>3, <5>1
      <4>5. CASE key \notin DOMAIN e
        <5>1. /\ IsFiniteSet(DOMAIN e \cup {key})
              /\ Cardinality(DOMAIN e \cup {key}) = Cardinality(DOMAIN e) + 1
          BY <4>3, <4>5, FS_AddElement
        <5>2. Cardinality(DOMAIN e) + 1 <= MaxKeys[t]
          BY <2>1, <3>2, <4>3, <4>5
        <5>. QED BY <4>1, <4>2, <5>1, <5>2
      <4>. QED BY <4>4, <4>5
    <3>. QED BY <2>3, <3>1, <3>2
  <2>. QED BY <2>4 DEF EntriesOK, m
<1>. HIDE DEF new
<1>3. /\ DOMAIN n = {"table", "cleanup"} /\ DOMAIN n.table = Tables
      /\ \A t \in Tables : n.table[t] = new(t)
  BY <1>1 DEF TablesOK
<1>. HIDE DEF n
<1>4. TablesOK(n, now)
  BY <1>2, <1>3 DEF TablesOK
<1>. QED BY <1>4 DEF n

----------------------------------------------------------------------------
\* A request knows no session that does not exist yet.
LimiterInv ==
  /\ clock \in 0..AuthTime
  /\ TablesOK(limiter, clock)
  /\ \A t \in Threads : thread[t].session <= Len(session)

\* At first, and after a restart, nothing is counted.
LEMMA EmptyTables == ASSUME NEW now PROVE TablesOK(NewLimiter, now)
<1>1. /\ DOMAIN NewLimiter = {"table", "cleanup"} /\ DOMAIN NewLimiter.table = Tables
      /\ \A t \in Tables : DOMAIN NewLimiter.table[t] = {}
  BY DEF NewLimiter
<1>2. IsFiniteSet({}) /\ Cardinality({}) = 0
  BY FS_EmptySet
<1>3. ASSUME NEW t \in Tables PROVE EntriesOK(NewLimiter.table[t], t, now)
  <2>1. 0 <= MaxKeys[t]
    BY AuthLimits
  <2>. QED BY <1>1, <1>2, <2>1 DEF EntriesOK
<1>. QED BY <1>1, <1>3 DEF TablesOK

LEMMA LimiterInit == AccountsInit => LimiterInv
<1>. SUFFICES ASSUME AccountsInit PROVE LimiterInv
  OBVIOUS
<1>1. clock \in 0..AuthTime
  BY AccountsAssumption DEF AccountsInit, AccountsAssumption
<1>2. TablesOK(limiter, clock)
  BY EmptyTables DEF AccountsInit
<1>3. \A t \in Threads : thread[t].session <= Len(session)
  BY DEF AccountsInit, Free
<1>. QED BY <1>1, <1>2, <1>3 DEF LimiterInv

\* A request moves on: it still knows no session that does not exist.
LEMMA SessionKnown ==
  ASSUME SessionInv, LimiterInv, NEW t \in Threads, NEW r, Becomes(t, r), r.session \in 0..Len(session),
         session' = session \/ Len(session') = Len(session) + 1
  PROVE  \A q \in Threads : thread'[q].session <= Len(session')
<1>1. thread \in [Threads -> Thread] /\ Len(session) \in Nat
  BY DEF SessionInv, AccountsRows
<1>2. Len(session) <= Len(session')
  BY <1>1
<1>3. ASSUME NEW q \in Threads PROVE thread'[q].session <= Len(session')
  <2>1. thread[q].session \in Nat /\ thread[q].session <= Len(session)
    BY <1>1 DEF Thread, LimiterInv
  <2>2. CASE q = t
    <3>1. thread'[q] = r
      BY <1>1, <2>2 DEF Becomes
    <3>2. CASE session' = session
      BY <3>1, <3>2
    <3>3. CASE Len(session') = Len(session) + 1
      BY <1>1, <3>1, <3>3
    <3>. QED BY <3>2, <3>3
  <2>3. CASE q # t
    <3>1. thread'[q] = thread[q]
      BY <1>1, <2>3 DEF Becomes
    <3>. QED BY <1>1, <1>2, <2>1, <3>1
  <2>. QED BY <2>2, <2>3
<1>. QED BY <1>3

\* An attempt: what the checks prune, and what is counted, keeps the limits.
LEMMA AttemptCounted ==
  ASSUME SessionInv, LimiterInv, NEW t \in Threads, NEW checks, OneEach(checks), NEW r,
         r.session = 0, Attempt(t, checks, r)
  PROVE  LimiterInv'
<1>. DEFINE checked == AfterChecks(limiter, checks, clock)
<1>1. clock \in Nat /\ TablesOK(limiter, clock)
  BY DEF LimiterInv, SessionInv, AccountsRows
<1>2. TablesOK(checked, clock)
  BY <1>1, ChecksKeepLimits
<1>3. \/ limiter' = checked
      \/ ~Denies(checked, checks) /\ limiter' = Taken(checked, checks, clock)
  BY DEF Attempt
<1>4. UNCHANGED <<clock, session>> /\ (Becomes(t, Free) \/ Becomes(t, r))
  BY DEF Attempt
<1>. HIDE DEF checked
<1>5. TablesOK(limiter', clock)
  BY <1>1, <1>2, <1>3, CountingKeepsLimits
<1>6. \A q \in Threads : thread'[q].session <= Len(session')
  <2>1. 0 <= Len(session) /\ Free.session = 0
    BY DEF SessionInv, AccountsRows, Free
  <2>. QED BY <1>4, <2>1, SessionKnown
<1>. QED BY <1>4, <1>5, <1>6 DEF LimiterInv

\* Every action keeps it.
LEMMA LimiterStep == SessionInv /\ LimiterInv /\ [AccountsNext]_accountsVars => LimiterInv'
<1>. SUFFICES ASSUME SessionInv, LimiterInv, [AccountsNext]_accountsVars PROVE LimiterInv'
  OBVIOUS
<1>. /\ thread \in [Threads -> Thread] /\ Len(session) \in Nat /\ session \in Seq(SessionRow)
     /\ clock \in Nat
     /\ \A t \in Threads : thread[t] \in Thread /\ thread[t].session <= Len(session)
     /\ Free.session = 0
  BY DEF SessionInv, AccountsRows, LimiterInv, Free
<1>1. ASSUME NEW t \in Threads, NEW r, Becomes(t, r), r.session \in 0..Len(session),
             session' = session \/ Len(session') = Len(session) + 1, UNCHANGED <<clock, limiter>>
      PROVE  LimiterInv'
  BY <1>1, SessionKnown DEF LimiterInv
<1>2. ASSUME NEW t \in Threads, NEW source, NEW e \in Emails, NEW p \in Passwords,
             NEW invited \in BOOLEAN, AdmitRegistration(t, source, e, p, invited)
      PROVE  LimiterInv'
  <2>. DEFINE r == IF Mode = "open" \/ (Mode = "invite" /\ invited)
                     THEN [Free EXCEPT !.stage = "lookup", !.email = e, !.password = p]
                     ELSE Free
  <2>1. Attempt(t, RegistrationChecks(source), r)
    BY <1>2 DEF AdmitRegistration
  <2>2. r.session = 0
    BY DEF Free
  <2>. HIDE DEF r
  <2>. QED BY <2>1, <2>2, AttemptCounted, ChecksOnce
<1>3. ASSUME NEW t \in Threads, NEW source, NEW e \in Emails, NEW p \in Passwords,
             AdmitLogin(t, source, e, p)
      PROVE  LimiterInv'
  <2>. DEFINE r == [Free EXCEPT !.stage = "credentials", !.email = e, !.password = p]
  <2>1. Attempt(t, LoginChecks(source, e), r)
    BY <1>3 DEF AdmitLogin
  <2>2. r.session = 0
    BY DEF Free
  <2>. HIDE DEF r
  <2>. QED BY <2>1, <2>2, AttemptCounted, ChecksOnce
<1>4. ASSUME NEW t \in Threads,
             \/ LooksUpNew(t) \/ CreateUser(t) \/ CheckCredentials(t) \/ CreateFirstUser(t)
             \/ ReadsUser(t) \/ TouchSession(t) \/ Serve(t)
      PROVE  LimiterInv'
  <2>1. UNCHANGED <<clock, session, limiter>>
    BY <1>4 DEF LooksUpNew, CreateUser, CheckCredentials, CreateFirstUser, ReadsUser, TouchSession, Serve
  <2>2. Becomes(t, Free) \/ \E stage \in Stages : Becomes(t, [thread[t] EXCEPT !.stage = stage])
    BY <1>4 DEF LooksUpNew, CreateUser, CheckCredentials, CreateFirstUser, ReadsUser, TouchSession,
       Serve, Stages
  <2>3. ASSUME NEW stage \in Stages, Becomes(t, [thread[t] EXCEPT !.stage = stage]) PROVE LimiterInv'
    <3>. DEFINE r == [thread[t] EXCEPT !.stage = stage]
    <3>1. r.session = thread[t].session /\ thread[t].session \in 0..Len(session)
      BY DEF Thread
    <3>. HIDE DEF r
    <3>2. Becomes(t, r)
      BY <2>3 DEF r
    <3>. QED BY <1>1, <2>1, <3>1, <3>2
  <2>4. CASE Becomes(t, Free)
    <3>1. Free.session \in 0..Len(session)
      OBVIOUS
    <3>. QED BY <1>1, <2>1, <2>4, <3>1
  <2>. QED BY <2>2, <2>3, <2>4
<1>5. ASSUME NEW t \in Threads, CreateSession(t) PROVE LimiterInv'
  <2>1. Becomes(t, Free) /\ UNCHANGED <<clock, limiter>> /\ Len(session') = Len(session) + 1
    BY <1>5 DEF CreateSession
  <2>. QED BY <1>1, <2>1
<1>6. ASSUME NEW t \in Threads, NEW e, NEW p, Bootstrap(t, e, p) PROVE LimiterInv'
  <2>. DEFINE r == [Free EXCEPT !.stage = "bootstrap", !.email = e, !.password = p]
  <2>1. r.session = 0
    BY DEF Free
  <2>. HIDE DEF r
  <2>2. Becomes(t, r) /\ UNCHANGED <<clock, session, limiter>>
    BY <1>6 DEF Bootstrap, r
  <2>. QED BY <1>1, <2>1, <2>2
<1>7. ASSUME NEW t \in Threads, NEW s \in 1..Len(session), NEW kind, NEW csrf, Present(t, s, kind, csrf)
      PROVE  LimiterInv'
  <2>. DEFINE r == [Free EXCEPT !.stage = "user", !.session = s, !.kind = kind,
                                !.csrf = csrf, !.since = clock]
  <2>1. r.session = s
    BY DEF Free
  <2>. HIDE DEF r
  <2>2. Becomes(t, r) /\ UNCHANGED <<clock, session, limiter>>
    BY <1>7 DEF Present, r
  <2>. QED BY <1>1, <2>1, <2>2
<1>8. ASSUME NEW t \in Threads, RevokeSession(t) PROVE LimiterInv'
  <2>1. Becomes(t, Free) /\ UNCHANGED <<clock, limiter>> /\ Len(session') = Len(session)
    BY <1>8 DEF RevokeSession
  <2>2. ASSUME NEW q \in Threads PROVE thread'[q].session <= Len(session')
    BY <2>1 DEF Becomes
  <2>. QED BY <2>1, <2>2 DEF LimiterInv
<1>9. ASSUME NEW e \in Emails, OperatorSuspends(e) PROVE LimiterInv'
  BY <1>9 DEF OperatorSuspends, LimiterInv
<1>10. CASE ClockTicks
  <2>1. clock' = clock + 1 /\ clock' \in 0..AuthTime /\ UNCHANGED <<session, limiter, thread>>
    BY <1>10, AccountsAssumption DEF ClockTicks, LimiterInv, AccountsAssumption
  <2>2. ASSUME NEW t \in Tables, NEW entries, EntriesOK(entries, t, clock)
        PROVE  EntriesOK(entries, t, clock')
    <3>1. \A w \in Entry(t, clock) : w \in Entry(t, clock')
      BY <2>1 DEF Entry
    <3>. QED BY <2>2, <3>1 DEF EntriesOK
  <2>3. TablesOK(limiter, clock')
    BY <2>2 DEF TablesOK, LimiterInv
  <2>. QED BY <2>1, <2>3 DEF LimiterInv
<1>11. CASE ServerRestarts
  <2>1. limiter' = NewLimiter /\ UNCHANGED <<clock, session>>
        /\ \A t \in Threads : thread'[t] = thread[t] \/ thread'[t] = Free
    BY <1>11 DEF ServerRestarts
  <2>2. TablesOK(limiter', clock')
    BY <2>1, EmptyTables
  <2>. QED BY <2>1, <2>2 DEF LimiterInv
<1>12. CASE UNCHANGED accountsVars
  BY <1>12 DEF accountsVars, LimiterInv
<1>. QED
  BY <1>2, <1>3, <1>4, <1>5, <1>6, <1>7, <1>8, <1>9, <1>10, <1>11, <1>12 DEF AccountsNext

----------------------------------------------------------------------------
\* The tables keep their limits in every state, however the attempts of sources and
\* accounts interleave with the windows' ends (auth_admission.py).
THEOREM AttemptsAreLimited == AccountsSpec => [](SessionInv /\ LimiterInv)
<1>1. AccountsInit => SessionInv /\ LimiterInv
  BY SessionInit, LimiterInit
<1>2. SessionInv /\ LimiterInv /\ [AccountsNext]_accountsVars => (SessionInv /\ LimiterInv)'
  BY SessionStep, LimiterStep
<1>. QED BY <1>1, <1>2, PTL DEF AccountsSpec

\* The two invariants say it of every value.
LEMMA AccountsTypesFollow == SessionInv /\ LimiterInv => AccountsTypeOK
<1>. SUFFICES ASSUME SessionInv, LimiterInv PROVE AccountsTypeOK
  OBVIOUS
<1>1. /\ clock \in 0..AuthTime
      /\ user \in [Emails -> [password : Passwords \cup {NoPassword}, active : BOOLEAN, first : BOOLEAN]]
      /\ session \in Seq([email : Emails, expires : Nat, revoked : BOOLEAN, by : Passwords])
  BY DEF LimiterInv, SessionInv, AccountsRows, UserRow, SessionRow
<1>2. ASSUME NEW t \in Threads
      PROVE  thread[t].stage \in Stages /\ thread[t].session \in 0..Len(session)
  <2>1. thread[t] \in Thread /\ thread[t].session <= Len(session) /\ Len(session) \in Nat
    BY DEF LimiterInv, SessionInv, AccountsRows
  <2>. QED BY <2>1 DEF Thread
<1>3. ASSUME NEW t \in Tables
      PROVE  /\ Cardinality(DOMAIN limiter.table[t]) <= MaxKeys[t]
             /\ \A k \in DOMAIN limiter.table[t] :
                  /\ limiter.table[t][k].count \in 1..AuthLimit[t]
                  /\ limiter.table[t][k].started \in 0..clock
  <2>1. EntriesOK(limiter.table[t], t, clock)
    BY DEF LimiterInv, TablesOK
  <2>. QED BY <2>1 DEF EntriesOK, Entry
<1>. QED BY <1>1, <1>2, <1>3 DEF AccountsTypeOK

\* Every value has its type and keeps its limit: the accounts, the sessions, the
\* requests and the tables of the limiter.
THEOREM AccountsTyped == AccountsSpec => []AccountsTypeOK
<1>. QED BY AccountsTypesFollow, AttemptsAreLimited, PTL
==============================================================================
