------------------------------ MODULE Accounts ------------------------------
(* Accounts, passwords and sessions (src/app/auth.py, auth_repository.py,     *)
(* auth_routes.py, bootstrap.py).  A request runs in a thread of its own and   *)
(* commits one transaction per repository call; between two of them every     *)
(* other request, a logout of the same session and a restart may act.  The     *)
(* Push subscriptions that a logout revokes are in PushDelivery.               *)
EXTENDS AuthAdmission, Sequences

CONSTANTS Passwords, NoPassword, NoEmail,
          Threads,                \* requests in progress
          Mode,                   \* registration_mode
          Life,                   \* session_expiration_seconds
          MaxSessions, AuthTime   \* bounds of the model

ASSUME AccountsAssumption ==
  /\ NoPassword \notin Passwords /\ NoEmail \notin Emails
  /\ Mode \in {"closed", "invite", "open"}
  /\ Life \in Nat \ {0} /\ MaxSessions \in Nat /\ AuthTime \in Nat

VARIABLES clock,
          user,      \* users, by normalized address
          session,   \* user_sessions, by id
          limiter,   \* AuthAdmissionLimiter, process-local
          thread     \* what each request is at

accountsVars == <<clock, user, session, limiter, thread>>

NoUserRow == [password |-> NoPassword, active |-> TRUE, first |-> FALSE]
Free == [stage |-> "free", email |-> NoEmail, password |-> NoPassword, session |-> 0,
         kind |-> "none", csrf |-> FALSE, since |-> 0]

AccountsInit ==
  /\ clock = 0
  /\ user = [e \in Emails |-> NoUserRow]
  /\ session = <<>>
  /\ limiter = NewLimiter
  /\ thread = [t \in Threads |-> Free]

Exists(e) == user[e].password # NoPassword
At(t, stage) == thread[t].stage = stage
Becomes(t, r) == thread' = [thread EXCEPT ![t] = r]

\* _admit: what the checks prune stays pruned, and the attempt is counted unless
\* one of them denies it.
Attempt(t, checks, r) ==
  LET checked == AfterChecks(limiter, checks, clock) IN
  /\ IF Denies(checked, checks)
       THEN limiter' = checked /\ Becomes(t, Free)
       ELSE limiter' = Taken(checked, checks, clock) /\ Becomes(t, r)
  /\ UNCHANGED <<clock, user, session>>

-----------------------------------------------------------------------------
(* Registration, login and the bootstrap command.                             *)

\* An attempt is counted before the registration mode is looked at.
AdmitRegistration(t, source, e, p, invited) ==
  /\ At(t, "free")
  /\ Attempt(t, RegistrationChecks(source),
             IF Mode = "open" \/ (Mode = "invite" /\ invited)
               THEN [Free EXCEPT !.stage = "lookup", !.email = e, !.password = p]
               ELSE Free)

\* register: the address is looked up, and the password is hashed, before the insert.
LooksUpNew(t) ==
  /\ At(t, "lookup")
  /\ Becomes(t, IF Exists(thread[t].email) THEN Free
                ELSE [thread[t] EXCEPT !.stage = "insert"])
  /\ UNCHANGED <<clock, user, session, limiter>>

InsertUser(e, p, first) ==
  user' = [user EXCEPT ![e] = [password |-> p, active |-> TRUE, first |-> first]]

\* When another request has taken the address, this one is given its session.
CreateUserOrLogin(t) ==
  /\ At(t, "insert")
  /\ IF Exists(thread[t].email) THEN UNCHANGED user
     ELSE InsertUser(thread[t].email, thread[t].password, FALSE)
  /\ Becomes(t, [thread[t] EXCEPT !.stage = "open"])
  /\ UNCHANGED <<clock, session, limiter>>
\* create_user: the unique index decides between two registrations of an address.
CreateUser(t) ==
  /\ At(t, "insert")
  /\ IF Exists(thread[t].email)
       THEN Becomes(t, Free) /\ UNCHANGED user
       ELSE /\ InsertUser(thread[t].email, thread[t].password, FALSE)
            /\ Becomes(t, [thread[t] EXCEPT !.stage = "open"])
  /\ UNCHANGED <<clock, session, limiter>>

AdmitLogin(t, source, e, p) ==
  /\ At(t, "free")
  /\ Attempt(t, LoginChecks(source, e),
             [Free EXCEPT !.stage = "credentials", !.email = e, !.password = p])

\* login: the user is read once; the password and the status are judged on that row.
CheckCredentials(t) ==
  LET e == thread[t].email IN
  /\ At(t, "credentials")
  /\ Becomes(t, IF Exists(e) /\ user[e].password = thread[t].password /\ user[e].active
                  THEN [thread[t] EXCEPT !.stage = "open"] ELSE Free)
  /\ UNCHANGED <<clock, user, session, limiter>>

\* _create_session, which ends a registration and a login; "by" is a history of
\* the password it was opened with.
CreateSession(t) ==
  /\ At(t, "open") /\ Len(session) < MaxSessions
  /\ session' = Append(session, [email |-> thread[t].email, expires |-> clock + Life,
                                 revoked |-> FALSE, by |-> thread[t].password])
  /\ Becomes(t, Free)
  /\ UNCHANGED <<clock, user, limiter>>

\* bootstrap_first_user: a command beside the server; it counts the users, asks
\* for the account, and counts again in the transaction of the insert.
Bootstrap(t, e, p) ==
  /\ At(t, "free") /\ ~\E f \in Emails : Exists(f)
  /\ Becomes(t, [Free EXCEPT !.stage = "bootstrap", !.email = e, !.password = p])
  /\ UNCHANGED <<clock, user, session, limiter>>
CreateFirstUser(t) ==
  /\ At(t, "bootstrap")
  /\ IF \E f \in Emails : Exists(f) THEN UNCHANGED user
     ELSE InsertUser(thread[t].email, thread[t].password, TRUE)
  /\ Becomes(t, Free)
  /\ UNCHANGED <<clock, session, limiter>>

-----------------------------------------------------------------------------
(* Requests with a session.                                                   *)

\* validate_session: the session is read; then its user; then it is touched.
Present(t, s, kind, csrf) ==
  /\ At(t, "free") /\ ~session[s].revoked /\ session[s].expires > clock
  /\ Becomes(t, [Free EXCEPT !.stage = "user", !.session = s, !.kind = kind,
                             !.csrf = csrf, !.since = clock])
  /\ UNCHANGED <<clock, user, session, limiter>>

\* A logout does not touch the session, and its CSRF token is checked here.
ReadsUser(t) ==
  LET r == thread[t] IN
  /\ At(t, "user")
  /\ Becomes(t, IF ~user[session[r.session].email].active THEN Free
                ELSE IF r.kind # "logout" THEN [r EXCEPT !.stage = "touch"]
                ELSE IF r.csrf THEN [r EXCEPT !.stage = "revoke"] ELSE Free)
  /\ UNCHANGED <<clock, user, session, limiter>>

\* The session is taken to be as valid as it was when it was read.
TouchAnyway(t) ==
  LET r == thread[t] IN
  /\ At(t, "touch")
  /\ Becomes(t, IF r.kind = "write" => r.csrf THEN [r EXCEPT !.stage = "serving"] ELSE Free)
  /\ UNCHANGED <<clock, user, session, limiter>>
\* touch_session updates only a session that is not revoked; a request that finds
\* none is refused.  Then a request that changes something shows its CSRF token.
TouchSession(t) ==
  LET r == thread[t] IN
  /\ At(t, "touch")
  /\ Becomes(t, IF ~session[r.session].revoked /\ (r.kind = "write" => r.csrf)
                  THEN [r EXCEPT !.stage = "serving"] ELSE Free)
  /\ UNCHANGED <<clock, user, session, limiter>>
Serve(t) ==
  /\ At(t, "serving")
  /\ Becomes(t, Free)
  /\ UNCHANGED <<clock, user, session, limiter>>

\* revoke_session: of two logouts one revokes, the other finds nothing to revoke.
RevokeSession(t) ==
  /\ At(t, "revoke")
  /\ session' = [session EXCEPT ![thread[t].session].revoked = TRUE]
  /\ Becomes(t, Free)
  /\ UNCHANGED <<clock, user, limiter>>

-----------------------------------------------------------------------------
\* An operator sets users.status by hand; no code of the application writes it.
OperatorSuspends(e) ==
  /\ Exists(e) /\ user[e].active
  /\ user' = [user EXCEPT ![e].active = FALSE]
  /\ UNCHANGED <<clock, session, limiter, thread>>
ClockTicks ==
  /\ clock < AuthTime
  /\ clock' = clock + 1
  /\ UNCHANGED <<user, session, limiter, thread>>
\* A restart ends the server's requests, wherever they are, and empties the limiter.
ServerRestarts ==
  /\ limiter' = NewLimiter
  /\ thread' = [t \in Threads |-> IF At(t, "bootstrap") THEN thread[t] ELSE Free]
  /\ UNCHANGED <<clock, user, session>>

AccountsNext ==
  \/ \E t \in Threads :
       \/ LooksUpNew(t) \/ CreateUser(t) \/ CheckCredentials(t) \/ CreateSession(t)
       \/ CreateFirstUser(t)
       \/ ReadsUser(t) \/ TouchSession(t) \/ Serve(t) \/ RevokeSession(t)
       \/ \E e \in Emails, p \in Passwords :
            \/ Bootstrap(t, e, p)
            \/ \E source \in Sources : \/ AdmitLogin(t, source, e, p)
                                       \/ \E invited \in BOOLEAN :
                                            AdmitRegistration(t, source, e, p, invited)
       \/ \E s \in 1..Len(session), kind \in {"read", "write", "logout"}, csrf \in BOOLEAN :
            Present(t, s, kind, csrf)
  \/ \E e \in Emails : OperatorSuspends(e)
  \/ ClockTicks \/ ServerRestarts

AccountsSpec == AccountsInit /\ [][AccountsNext]_accountsVars

-----------------------------------------------------------------------------
Stages == {"free", "lookup", "insert", "credentials", "open", "bootstrap", "user", "touch",
           "revoke", "serving"}

\* The types, and the limits of the admission: no key ever has more attempts in a
\* window than its table allows, and no table more keys than it may hold, however
\* the attempts of the sources and accounts interleave with the windows' ends.
AccountsTypeOK ==
  /\ clock \in 0..AuthTime
  /\ user \in [Emails -> [password : Passwords \cup {NoPassword}, active : BOOLEAN,
                          first : BOOLEAN]]
  /\ session \in Seq([email : Emails, expires : Nat, revoked : BOOLEAN, by : Passwords])
  /\ \A t \in Threads : thread[t].stage \in Stages /\ thread[t].session \in 0..Len(session)
  /\ \A t \in Tables :
       /\ Cardinality(DOMAIN limiter.table[t]) <= MaxKeys[t]
       /\ \A k \in DOMAIN limiter.table[t] :
            /\ limiter.table[t][k].count \in 1..AuthLimit[t]
            /\ limiter.table[t][k].started \in 0..clock

\* A session belongs to an account whose password its request presented: the loser
\* of two registrations of one address, and a login that raced with one, never get
\* a session of somebody else's account; and at most one account is the first.
SessionIsEarned ==
  /\ \A s \in 1..Len(session) : session[s].by = user[session[s].email].password
  /\ Cardinality({e \in Emails : user[e].first}) <= 1

\* A request is let through only while its session stands: a logout that was
\* committed before the request touched the session keeps it out although the
\* session was read before the logout, the session had not expired when it was
\* presented, a request that changes something has shown its CSRF token, and no
\* revoked session ever stands again.
AdmittedIsLive ==
  [][/\ \A t \in Threads :
          thread'[t].stage = "serving" /\ thread[t].stage # "serving" =>
            LET s == session[thread[t].session] IN
            /\ ~s.revoked /\ s.expires > thread[t].since
            /\ thread[t].kind = "write" => thread[t].csrf
     /\ \A s \in 1..Len(session) : session[s].revoked => session'[s].revoked]_accountsVars
=============================================================================
