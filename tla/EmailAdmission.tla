--------------------------- MODULE EmailAdmission ---------------------------
(* The process-local admission of outbound email (src/app/email_admission.py): *)
(* a counter for all mail and a bounded table of counters per recipient, each  *)
(* over a window that starts with its first send.  A lease is counted when it  *)
(* is reserved and given back when it is released without having been consumed.*)
(* The operators are functions of the limiter's state; the code runs each of   *)
(* them under one lock.                                                        *)
EXTENDS Integers, FiniteSets

CONSTANTS Addresses, NoAddress,
          GlobalWindow, GlobalLimit,         \* all mail
          RecipientWindow, RecipientLimit,   \* verification mail to one address
          MaxRecipients                      \* addresses in the table

ASSUME AdmissionAssumption ==
  /\ NoAddress \notin Addresses
  /\ {GlobalWindow, GlobalLimit, RecipientWindow, RecipientLimit, MaxRecipients}
       \subseteq Nat \ {0}

Never == -1
NoWindow == [started |-> Never, count |-> 0]
NoLease == [window |-> Never, address |-> NoAddress, own |-> Never]
NewAdmission == [global |-> NoWindow, recipients |-> [a \in {} |-> NoWindow]]

Over(window, now, length) == now - window.started >= length
Without(table, S) == [a \in DOMAIN table \ S |-> table[a]]

\* The global window after a look at it: a new one when there was none or it is over.
Rolled(admission, now) ==
  IF admission.global = NoWindow \/ Over(admission.global, now, GlobalWindow)
    THEN [started |-> now, count |-> 0]
    ELSE admission.global

\* The table after a look at one address: its own window goes when it is over,
\* and every window that is over goes when a new address meets a full table.
Looked(admission, address, now) ==
  LET table == admission.recipients
      ended == {a \in DOMAIN table : Over(table[a], now, RecipientWindow)}
      rest == Without(table, ended \cap {address})
  IN IF /\ address \in Addresses \ DOMAIN rest
        /\ Cardinality(DOMAIN rest) >= MaxRecipients
       THEN Without(table, ended)
       ELSE rest

Admits(admission, address, now) ==
  LET table == Looked(admission, address, now) IN
  /\ Rolled(admission, now).count < GlobalLimit
  /\ address \in DOMAIN table => table[address].count < RecipientLimit
  /\ address \in Addresses \ DOMAIN table => Cardinality(DOMAIN table) < MaxRecipients

\* A refusal keeps what the look has changed.
Refused(admission, address, now) ==
  [global |-> Rolled(admission, now), recipients |-> Looked(admission, address, now)]

More(window) == [window EXCEPT !.count = @ + 1]
Reserved(admission, address, now) ==
  LET table == Looked(admission, address, now)
      own == IF address \in DOMAIN table THEN table[address] ELSE [started |-> now, count |-> 0]
  IN [global |-> More(Rolled(admission, now)),
      recipients |-> [a \in DOMAIN table \cup ({address} \cap Addresses) |->
                        IF a = address THEN More(own) ELSE table[a]]]

\* What the holder keeps: the code holds the two window objects.  Two windows of
\* one key that are referenced at the same time never start at the same time, so
\* the start names the object.
LeaseOn(admission, address) ==
  [window |-> admission.global.started, address |-> address,
   own |-> IF address \in Addresses THEN admission.recipients[address].started ELSE Never]

\* The operators below give back a lease that was not consumed.
Less(window) == IF window.count = 1 THEN NoWindow ELSE [window EXCEPT !.count = @ - 1]
\* The decrement goes to whatever window stands when the lease is released.
ReleasedFromCurrent(admission, lease) ==
  [admission EXCEPT !.global = IF lease = NoLease \/ @ = NoWindow THEN @ ELSE Less(@)]
\* Only the windows that the lease was counted in shrink, if they still stand.
Released(admission, lease) ==
  LET table == admission.recipients
      mine == {a \in DOMAIN table : a = lease.address /\ table[a].started = lease.own}
  IN [global |-> IF admission.global.started = lease.window /\ lease # NoLease
                   THEN Less(admission.global) ELSE admission.global,
      recipients |-> [a \in DOMAIN table \ {a \in mine : table[a].count = 1} |->
                        IF a \in mine THEN Less(table[a]) ELSE table[a]]]
=============================================================================
