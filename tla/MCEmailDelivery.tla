-------------------------- MODULE MCEmailDelivery --------------------------
(* Small instances of EmailDelivery for TLC. *)
EXTENDS EmailDelivery, TLC

CONSTANTS u1, u2, a1, a2, r1, r2

OneOwner == [r \in {r1} |-> u1]
TwoOfOne == [r \in {r1, r2} |-> u1]
OneAt == [r \in {r1} |-> 0]
BothAt == [r \in {r1, r2} |-> 0]
OneDelay == <<1>>
NoDelay == <<>>
Rechecks == <<1, 1>>
ReminderSymmetry == Permutations({r1, r2})
=============================================================================
