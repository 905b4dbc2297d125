--------------------------- MODULE MCPushDelivery ---------------------------
(* Small instances of PushDelivery for TLC. *)
EXTENDS PushDelivery, TLC

CONSTANTS u1, u2, s1, s2, e1, e2, r1, r2

OneOwner == [r \in Reminders |-> u1]
SameUser == [s \in Sessions |-> u1]
EachOwn == (s1 :> u1) @@ (s2 :> u2)
AtZero == [r \in Reminders |-> 0]
AtOnce == [r \in Reminders |-> 1]
ExpireAtEnd == [s \in Sessions |-> MaxTime]
ExpireAfter == [s \in Sessions |-> MaxTime + 1]
Symmetry == Permutations(Endpoints) \cup Permutations(Reminders)
=============================================================================
