----------------------------- MODULE MCIdentity -----------------------------
(* Small instances of Accounts and EmailVerification for TLC.  The two share   *)
(* no variable, and each property speaks of one of them: one run explores them *)
(* side by side instead of in every combination of their states.  Accounts are *)
(* explored with one address and its sessions, and, up to the first session,   *)
(* with two addresses that may be registered or be the first user's.           *)
EXTENDS Accounts, EmailVerification, TLC

CONSTANTS u1, m1, m2, q1, q2, e1, e2, p1, p2, t1, t2, src, far

VARIABLE part

identityVars == <<part, accountsVars, verificationVars>>

IdentityInit == part \in {"accounts", "founders", "verification"} /\ AccountsInit /\ VerificationInit
IdentityNext ==
  /\ UNCHANGED part
  /\ \/ /\ part = "accounts" /\ AccountsNext /\ UNCHANGED verificationVars
        /\ ~Exists(e2)' /\ \A t \in Threads : thread'[t].email # e2
     \/ /\ part = "founders" /\ AccountsNext /\ UNCHANGED verificationVars
        /\ session' = session
     \/ part = "verification" /\ VerificationNext /\ UNCHANGED accountsVars
IdentitySpec == IdentityInit /\ [][IdentityNext]_identityVars

\* The types and limits of both.
IdentityTypeOK == AccountsTypeOK /\ VerificationTypeOK

Limits == [t \in Tables |-> IF t = "loginGlobal" THEN 2 ELSE 1]
Windows == [t \in Tables |-> 1]
OneKey == [t \in Tables |-> 1]
Symmetry == UNION {Permutations(S) : S \in {Addresses, Requests, Threads, Sources}}
=============================================================================
