--------------------------- MODULE Identity_proofs ---------------------------
(***************************************************************************)
(* Accounts and email verification side by side: what each of them keeps   *)
(* alone, they keep together, because a step of one leaves the other's     *)
(* variables as they are.                                                  *)
(***************************************************************************)
EXTENDS MCIdentity, Accounts_proofs, EmailVerification_proofs

----------------------------------------------------------------------------
\* A step of both is a step, or no step, of each.
LEMMA OneAtATime ==
  [IdentityNext]_identityVars =>
    [AccountsNext]_accountsVars /\ [VerificationNext]_verificationVars
BY DEF IdentityNext, identityVars

\* Side by side the accounts behave as they do alone (auth.py, auth_repository.py).
THEOREM AccountsAreKept == IdentitySpec => AccountsSpec
<1>1. IdentityInit => AccountsInit
  BY DEF IdentityInit
<1>. QED BY <1>1, OneAtATime, PTL DEF IdentitySpec, AccountsSpec

\* So does the verification of addresses (email_repository.py).
THEOREM VerificationIsKept == IdentitySpec => VerificationSpec
<1>1. IdentityInit => VerificationInit
  BY DEF IdentityInit
<1>. QED BY <1>1, OneAtATime, PTL DEF IdentitySpec, VerificationSpec

\* Every value of both has its type and keeps its limit.
THEOREM IdentityTyped == IdentitySpec => []IdentityTypeOK
<1>1. AccountsTypeOK /\ VerificationTypeOK => IdentityTypeOK
  BY DEF IdentityTypeOK
<1>. QED BY <1>1, AccountsAreKept, VerificationIsKept, AccountsTyped, VerificationTyped, PTL
=============================================================================
