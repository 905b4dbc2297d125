--------------------------- MODULE AuthAdmission ---------------------------
(* The process-local admission of registrations and logins                    *)
(* (src/app/auth_admission.py): bounded tables of counters, by source, by      *)
(* account and for all, over windows that start with their first attempt.      *)
(* An attempt is counted in every table it is checked against, or in none.     *)
(* The operators are functions of the limiter; the code runs each attempt      *)
(* under one lock.                                                             *)
EXTENDS Integers, FiniteSets

CONSTANTS Sources, Emails,
          AuthLimit,   \* attempts of one key within a window, by table
          AuthWindow,  \* length of a window, by table
          MaxKeys      \* keys of a table (the tables for all have one)

Tables == {"registrationSource", "registrationGlobal", "loginSource", "loginAccount",
           "loginGlobal"}
Everyone == "*"

ASSUME AuthLimitsAssumption ==
  /\ AuthLimit \in [Tables -> Nat \ {0}]
  /\ AuthWindow \in [Tables -> Nat \ {0}]
  /\ MaxKeys \in [Tables -> Nat \ {0}]
  /\ Everyone \notin Sources \cup Emails

ShortestWindow == CHOOSE n \in {AuthWindow[t] : t \in Tables} : \A t \in Tables : n <= AuthWindow[t]
NewLimiter == [table |-> [t \in Tables |-> [k \in {} |-> 0]], cleanup |-> 0]

RegistrationChecks(source) ==
  {<<"registrationSource", source>>, <<"registrationGlobal", Everyone>>}
LoginChecks(source, email) ==
  {<<"loginSource", source>>, <<"loginAccount", email>>, <<"loginGlobal", Everyone>>}

Ended(entries, t, now) == {k \in DOMAIN entries : now - entries[k].started >= AuthWindow[t]}
Except(entries, S) == [k \in DOMAIN entries \ S |-> entries[k]]

\* Every so often all tables lose their windows that are over.
Cleaned(limiter, now) ==
  IF now < limiter.cleanup THEN limiter
  ELSE [table |-> [t \in Tables |-> Except(limiter.table[t], Ended(limiter.table[t], t, now))],
        cleanup |-> now + ShortestWindow]

\* A table after the check of one key: the key's own window goes when it is over,
\* and every window that is over goes when a new key meets a full table.
Checked(entries, t, key, now) ==
  LET rest == Except(entries, Ended(entries, t, now) \cap {key})
  IN IF key \notin DOMAIN rest /\ Cardinality(DOMAIN rest) >= MaxKeys[t]
       THEN Except(entries, Ended(entries, t, now)) ELSE rest
AfterChecks(limiter, checks, now) ==
  LET cleaned == Cleaned(limiter, now) IN
  [cleaned EXCEPT !.table = [t \in Tables |->
     IF \E c \in checks : c[1] = t
       THEN Checked(cleaned.table[t], t, (CHOOSE c \in checks : c[1] = t)[2], now)
       ELSE cleaned.table[t]]]

\* retry_after is positive: the key is at its limit, or is new to a full table.
Blocks(limiter, c) ==
  LET entries == limiter.table[c[1]] IN
  IF c[2] \in DOMAIN entries THEN entries[c[2]].count >= AuthLimit[c[1]]
                             ELSE Cardinality(DOMAIN entries) >= MaxKeys[c[1]]
\* One counter with room is enough.
DeniesAll(limiter, checks) == \A c \in checks : Blocks(limiter, c)
Denies(limiter, checks) == \E c \in checks : Blocks(limiter, c)

Taken(limiter, checks, now) ==
  [limiter EXCEPT !.table = [t \in Tables |->
     LET entries == limiter.table[t]
         keys == {c[2] : c \in {c \in checks : c[1] = t}}
     IN [k \in DOMAIN entries \cup keys |->
           IF k \notin DOMAIN entries THEN [started |-> now, count |-> 1]
           ELSE IF k \in keys THEN [entries[k] EXCEPT !.count = @ + 1] ELSE entries[k]]]]
=============================================================================
