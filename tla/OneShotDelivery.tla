-------------------------- MODULE OneShotDelivery --------------------------
(***************************************************************************)
(* What a durable delivery ledger promises, whichever channel it serves.   *)
(* A key is one thing to deliver (a Reminder for Email, a Reminder and a   *)
(* subscription for Push).  Its entry is recorded at most once, tried only *)
(* while it is open, handed to the provider at most once, and final once   *)
(* settled.  A try that certainly did not reach the provider may reopen    *)
(* the entry; a try that may have reached it never does.                   *)
(*                                                                         *)
(* The module states a promise and models no code of its own: the Email    *)
(* and Push ledgers are shown to implement it.                             *)
(***************************************************************************)
EXTENDS Naturals

CONSTANT Keys

VARIABLES phase,   \* where the entry of a key stands
          handed   \* how many times the provider took what the key stands for

vars == <<phase, handed>>

Phases == {"none", "open", "trying", "closed", "gone"}

TypeOK == /\ phase \in [Keys -> Phases]
          /\ handed \in [Keys -> {0, 1}]

Init == /\ phase = [k \in Keys |-> "none"]
        /\ handed = [k \in Keys |-> 0]

Moves(k, from, to) == phase[k] \in from /\ phase'[k] = to

Record(k) == Moves(k, {"none"}, "open") /\ handed'[k] = handed[k]

Try(k) == Moves(k, {"open"}, "trying") /\ handed'[k] = 0 /\ handed[k] = 0

\* The provider takes it.  The entry may be deleted under a call in flight.
HandOver(k) == /\ phase[k] \in {"trying", "gone"}
               /\ phase'[k] = phase[k]
               /\ handed[k] = 0 /\ handed'[k] = 1

Reopen(k) == Moves(k, {"trying"}, "open") /\ handed[k] = 0 /\ handed'[k] = 0

Settle(k) == /\ Moves(k, {"open", "trying"}, "closed")
             /\ handed'[k] = handed[k]

Delete(k) == phase'[k] = "gone" /\ handed'[k] = handed[k]

Rest(k) == phase'[k] = phase[k] /\ handed'[k] = handed[k]

KeyStep(k) == \/ Record(k) \/ Try(k) \/ HandOver(k) \/ Reopen(k)
              \/ Settle(k) \/ Delete(k) \/ Rest(k)

\* One transaction may move the entries of many keys.
Next == /\ DOMAIN phase' = Keys /\ DOMAIN handed' = Keys
        /\ \A k \in Keys : KeyStep(k)

Spec == Init /\ [][Next]_vars
=============================================================================
