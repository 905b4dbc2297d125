--------------------------- MODULE EmailDelivery ---------------------------
(***************************************************************************)
(* The Email channel of the Reminder worker: the account settings, the     *)
(* durable ledger reminder_email_deliveries, and the sweep that drains it  *)
(* (app/email_repository.py, app/services/email_reminders.py, and the      *)
(* claim of due Reminders in app/reminder_repository.py).                  *)
(*                                                                         *)
(* Every action is one database transaction or one provider call, so the   *)
(* requests of users, the passing of time and a crash of the worker may    *)
(* come between any two steps of a sweep.                                  *)
(***************************************************************************)
EXTENDS Integers, FiniteSets

CONSTANTS Users, Addresses, Reminders,
          Owner,           \* the user a Reminder belongs to
          RemindAt,        \* the time a Reminder is scheduled for
          Ttl,             \* EMAIL_DELIVERY_TTL
          MaxAttempts,     \* EMAIL_MAX_ATTEMPTS
          RetryDelay,      \* EMAIL_RETRY_DELAYS, a function on attempt counts
          FirstCheckDelay, \* the 30 seconds before the first status query
          RecheckDelay,    \* STATUS_RECHECK_DELAYS
          MaxChecks,       \* the bound of status queries per message
          StaleAfter,      \* reminder_sending_stale_seconds
          Batch,           \* reminder_batch_size
          MayDisable,      \* the users an operator may disable
          MaxTime,         \* bound of the clock
          MaxFaults,       \* bound of crashes and failed transactions
          NoAddress, NoReminder

ASSUME OwnerAssumption == Owner \in [Reminders -> Users]
ASSUME TimeAssumption ==
  /\ RemindAt \in [Reminders -> Nat]
  /\ Ttl \in Nat /\ FirstCheckDelay \in Nat /\ StaleAfter \in Nat \ {0}
  /\ MaxTime \in Nat /\ MaxFaults \in Nat /\ Batch \in Nat \ {0}
\* A delay is configured for exactly the attempts that may be retried.
ASSUME RetryAssumption ==
  /\ MaxAttempts \in Nat \ {0}
  /\ DOMAIN RetryDelay = 1 .. (MaxAttempts - 1)
  /\ \A n \in DOMAIN RetryDelay : RetryDelay[n] \in Nat \ {0}
ASSUME CheckAssumption ==
  /\ MaxChecks \in Nat
  /\ \A n \in DOMAIN RecheckDelay : RecheckDelay[n] \in Nat
ASSUME NoAddressAssumption == NoAddress \notin Addresses
ASSUME NoReminderAssumption == NoReminder \notin Reminders

VARIABLES now,
          item,         \* the status of the Personal Item of a Reminder
          reminder,     \* the status of a Reminder
          settings,     \* email_reminder_settings
          inactive,     \* the users an operator has disabled
          row,          \* reminder_email_deliveries, at most one per Reminder
          pc,           \* where the worker's sweep stands
          sweepTime,    \* sweep_time of the Reminder sweep, then of the Email sweep
          attemptTime,  \* attempt_time of the current iteration
          budget,       \* iterations left of the current loop
          target,       \* the claimed delivery the worker holds
          sentTo,       \* ... its destination, as claimed
          checkNo,      \* ... the number of the status check it claimed
          answer,       \* what the provider answered
          copies,       \* how many messages the provider took for a Reminder
          lateCalls,    \* provider calls since the destination last was eligible
          faults

db == <<item, reminder, settings, inactive, row>>
held == <<target, sentTo, checkNo, answer>>
worker == <<pc, sweepTime, attemptTime, budget, held>>
history == <<copies, lateCalls>>
vars == <<now, db, worker, history, faults>>

Never == -1

ItemStatus == {"active", "completed", "trash", "deleted"}
ReminderStatus == {"scheduled", "due", "cancelled", "deleted"}
Waiting == {"queued", "retry_wait"}
Final == {"accepted", "failed", "expired", "suppressed", "unknown"}
RowStatus == {"none", "sending", "deleted"} \cup Waiting \cup Final

Settings == [address : Addresses \cup {NoAddress}, verified : BOOLEAN,
             enabled : BOOLEAN, healthy : BOOLEAN]
Row == [status : RowStatus, attempts : Nat, to : Addresses \cup {NoAddress},
        readyAt : Nat, lastAt : Nat, checks : Nat, checkAt : Nat \cup {Never}]

Outcomes == {"accepted", "retryable", "permanent", "ambiguous"}
Pcs == {"idle", "start", "reconcile", "reserve", "claim", "revalidate",
        "send", "finish", "check", "query"}
NoAnswer == [outcome |-> "none", pause |-> FALSE]

EmptyRow == [status |-> "none", attempts |-> 0, to |-> NoAddress,
             readyAt |-> 0, lastAt |-> 0, checks |-> 0, checkAt |-> Never]
NewRow(to, time) == [EmptyRow EXCEPT !.status = "queued", !.to = to,
                                     !.readyAt = time]

\* The destination conditions that the insert, the claim and the check
\* before sending share.
Reaches(s, to) == s.address = to /\ s.verified /\ s.enabled /\ s.healthy
Eligible(r) == Reaches(settings[Owner[r]], row[r].to)

Expiry(r) == RemindAt[r] + Ttl

\* Rows of S that still wait become final with the given status.
Settled(S, status) ==
  [r \in Reminders |-> IF r \in S /\ row[r].status \in Waiting
                       THEN [row[r] EXCEPT !.status = status]
                       ELSE row[r]]
RowsOf(u) == {r \in Reminders : Owner[r] = u}

----------------------------------------------------------------------------
(* Requests of users and of operators.                                     *)

\* A provider call is late only until its destination is eligible again.
Reconsider == lateCalls' = [r \in Reminders |->
                              IF Eligible(r)' THEN 0 ELSE lateCalls[r]]
RequestLeaves == UNCHANGED <<now, item, reminder, inactive, worker, copies, faults>>

SetCandidateAddress(u, a) ==
  /\ settings[u].address # a
  /\ settings' = [settings EXCEPT ![u] =
                    [@ EXCEPT !.address = a, !.verified = FALSE, !.healthy = TRUE]]
  /\ row' = Settled(RowsOf(u), "suppressed")
  /\ Reconsider /\ RequestLeaves

SetEnabled(u, enabled) ==
  /\ settings' = [settings EXCEPT ![u] = [@ EXCEPT !.enabled = enabled]]
  /\ row' = IF enabled THEN row ELSE Settled(RowsOf(u), "suppressed")
  /\ Reconsider /\ RequestLeaves

\* The code that was sent to the current address is submitted.
ConfirmVerification(u) ==
  /\ settings[u].address # NoAddress /\ settings[u].healthy
  /\ settings' = [settings EXCEPT ![u] = [@ EXCEPT !.verified = TRUE]]
  /\ UNCHANGED row
  /\ Reconsider /\ RequestLeaves

\* Both pause operations: the address is still the current one of the user.
Paused(u, a) ==
  IF settings[u].address = a THEN [settings EXCEPT ![u] = [@ EXCEPT !.healthy = FALSE]]
  ELSE settings
RowsTo(u, a) == {r \in RowsOf(u) : row[r].to = a}

\* A verification or test message was refused for good; for an address that is no
\* longer the user's own it changes nothing.
PauseMatchingAddress(u, a) ==
  /\ settings[u].address = a
  /\ settings' = Paused(u, a)
  /\ row' = Settled(RowsTo(u, a), "suppressed")
  /\ Reconsider /\ RequestLeaves

LifecycleLeaves == UNCHANGED <<now, settings, inactive, worker, history, faults>>

\* An Item leaves the active list: its scheduled Reminder is cancelled.
MoveItem(r, status) ==
  /\ \/ item[r] = "active" /\ status \in {"completed", "trash"}
     \/ item[r] = "completed" /\ status \in {"active", "trash"}
     \/ item[r] = "trash" /\ status \in {"active", "completed"}
  /\ item' = [item EXCEPT ![r] = status]
  /\ reminder' = IF status # "active" /\ reminder[r] = "scheduled"
                 THEN [reminder EXCEPT ![r] = "cancelled"] ELSE reminder
  /\ UNCHANGED row /\ LifecycleLeaves

\* The row of the Item and, by cascade, its Reminder and its delivery go.
PermanentlyDelete(r) ==
  /\ item[r] = "trash"
  /\ item' = [item EXCEPT ![r] = "deleted"]
  /\ reminder' = [reminder EXCEPT ![r] = "deleted"]
  /\ row' = [row EXCEPT ![r] = [EmptyRow EXCEPT !.status = "deleted"]]
  /\ LifecycleLeaves

\* Variant: a due Reminder can be cancelled as well.
CancelLate(r) ==
  /\ reminder[r] \in {"scheduled", "due"}
  /\ reminder' = [reminder EXCEPT ![r] = "cancelled"]
  /\ UNCHANGED <<item, row>> /\ LifecycleLeaves

Cancel(r) ==
  /\ reminder[r] = "scheduled"
  /\ reminder' = [reminder EXCEPT ![r] = "cancelled"]
  /\ UNCHANGED <<item, row>> /\ LifecycleLeaves

SetUserStatus(u, active) ==
  /\ u \in MayDisable
  /\ inactive' = IF active THEN inactive \ {u} ELSE inactive \cup {u}
  /\ UNCHANGED <<now, item, reminder, settings, row, worker, history, faults>>

----------------------------------------------------------------------------
(* Reminders become due, from the worker or from a user's visit.           *)

Due(time, R) == {r \in R : /\ reminder[r] = "scheduled" /\ RemindAt[r] <= time
                           /\ item[r] = "active"}

\* What one transaction does to the due Reminders it claims: their delivery
\* intents are recorded with the destination of that moment.
ClaimDue(D, time) ==
  /\ reminder' = [r \in Reminders |-> IF r \in D THEN "due" ELSE reminder[r]]
  /\ row' = [r \in Reminders |->
               LET s == settings[Owner[r]] IN
               IF /\ r \in D /\ row[r].status = "none"
                  /\ Owner[r] \notin inactive
                  /\ s.address # NoAddress /\ Reaches(s, s.address)
               THEN NewRow(s.address, time) ELSE row[r]]
  /\ UNCHANGED <<item, settings, inactive>>

LazyTransitionDue(u) ==
  /\ Due(now, RowsOf(u)) # {}
  /\ ClaimDue(Due(now, RowsOf(u)), now)
  /\ UNCHANGED <<now, worker, history, faults>>

----------------------------------------------------------------------------
(* The sweep of the worker.                                                *)

Goto(from, to) == pc = from /\ pc' = to
StartSweep ==
  /\ Goto("idle", "start")
  /\ sweepTime' = now
  /\ UNCHANGED <<now, db, attemptTime, budget, held, history, faults>>

\* At most Batch of them, the oldest first.
OldestFirst(D, S) == \A d \in D, s \in S \ D : RemindAt[d] <= RemindAt[s]
SweepClaimDue ==
  LET all == Due(sweepTime, Reminders) IN
  /\ Goto("start", "reconcile")
  /\ \E D \in SUBSET all :
       /\ Cardinality(D) = IF Cardinality(all) < Batch THEN Cardinality(all)
                           ELSE Batch
       /\ OldestFirst(D, all)
       /\ ClaimDue(D, sweepTime)
  /\ UNCHANGED <<now, sweepTime, attemptTime, budget, held, history, faults>>

\* The Email sweep reads the clock again.
Stale(r, time) == row[r].status = "sending" /\ row[r].lastAt + StaleAfter <= time
\* Variant: a stale row is reported as not sent.
ReconcileFails ==
  /\ Goto("reconcile", "reserve")
  /\ row' = [r \in Reminders |->
               IF Stale(r, now) THEN [row[r] EXCEPT !.status = "failed"] ELSE row[r]]
  /\ sweepTime' = now /\ budget' = Batch
  /\ UNCHANGED <<now, item, reminder, settings, inactive,
                 attemptTime, held, history, faults>>

ReconcileStaleSending ==
  /\ Goto("reconcile", "reserve")
  /\ row' = [r \in Reminders |->
               IF Stale(r, now) THEN [row[r] EXCEPT !.status = "unknown"] ELSE row[r]]
  /\ sweepTime' = now /\ budget' = Batch
  /\ UNCHANGED <<now, item, reminder, settings, inactive,
                 attemptTime, held, history, faults>>

\* An admission lease is granted; the time of the attempt was read before.
ReserveSend ==
  /\ Goto("reserve", "claim")
  /\ budget > 0 /\ budget' = budget - 1
  /\ attemptTime' = now
  /\ UNCHANGED <<now, db, sweepTime, held, history, faults>>

\* The lease is denied, or every iteration was used.
LeaveSends ==
  /\ Goto("reserve", "check")
  /\ budget' = Batch /\ attemptTime' = 0
  /\ UNCHANGED <<now, db, sweepTime, held, history, faults>>

\* Variant: the settings are not read again, as the row was recorded with them.
PreSendTerminalTrusting(r) ==
  IF attemptTime >= Expiry(r) THEN "expired"
  ELSE IF reminder[r] = "due" /\ item[r] = "active"
          /\ Owner[r] \notin inactive THEN "none"
  ELSE "suppressed"

\* The terminal status of a row that must not be sent, "none" when it may be.
PreSendTerminal(r) ==
  IF attemptTime >= Expiry(r) THEN "expired"
  ELSE IF reminder[r] = "due" /\ item[r] = "active"
          /\ Owner[r] \notin inactive /\ Eligible(r) THEN "none"
  ELSE "suppressed"

\* Variant: rows that wait for a retry are forgotten.
ClaimableOnce == {r \in Reminders : row[r].status = "queued"}

Claimable == {r \in Reminders :
                \/ row[r].status = "queued"
                \/ row[r].status = "retry_wait" /\ row[r].readyAt <= attemptTime}
NextRow(r) == /\ r \in Claimable
              /\ \A q \in Claimable : row[r].readyAt <= row[q].readyAt

\* One turn of the claim loop ends a row that must not be sent.
ClaimSettles(r) ==
  /\ Goto("claim", "claim")
  /\ NextRow(r) /\ PreSendTerminal(r) # "none"
  /\ row' = [row EXCEPT ![r] = [@ EXCEPT !.status = PreSendTerminal(r)]]
  /\ UNCHANGED <<now, item, reminder, settings, inactive,
                 sweepTime, attemptTime, budget, held, history, faults>>

\* The row is marked sending, and counted, before anything is sent.
Taken(w) == [w EXCEPT !.status = "sending", !.attempts = @ + 1,
                      !.lastAt = attemptTime]
ClaimNextDelivery(r) ==
  /\ Goto("claim", "revalidate")
  /\ NextRow(r) /\ PreSendTerminal(r) = "none"
  /\ row[r].attempts < MaxAttempts
  /\ row' = [row EXCEPT ![r] = Taken(row[r])]
  /\ target' = r /\ sentTo' = row[r].to
  /\ UNCHANGED <<now, item, reminder, settings, inactive,
                 sweepTime, attemptTime, budget, checkNo, answer, history, faults>>

ClaimNothing ==
  /\ Goto("claim", "check")
  /\ Claimable = {}
  /\ budget' = Batch /\ attemptTime' = 0
  /\ UNCHANGED <<now, db, sweepTime, held, history, faults>>

\* The iteration is over: its local variables are forgotten.
Dropped == /\ target' = NoReminder /\ sentTo' = NoAddress /\ checkNo' = 0
           /\ answer' = NoAnswer /\ attemptTime' = 0

RevalidatePasses ==
  /\ Goto("revalidate", "send")
  /\ row[target].status = "sending" /\ PreSendTerminal(target) = "none"
  /\ UNCHANGED <<now, db, sweepTime, attemptTime, budget, held, history, faults>>

\* The row ends, or is gone with its Reminder.
RevalidateFails ==
  /\ Goto("revalidate", "reserve")
  /\ \/ row[target].status # "sending" /\ UNCHANGED row
     \/ /\ row[target].status = "sending" /\ PreSendTerminal(target) # "none"
        /\ row' = [row EXCEPT ![target] =
                     [@ EXCEPT !.status = PreSendTerminal(target)]]
  /\ Dropped
  /\ UNCHANGED <<now, item, reminder, settings, inactive,
                 sweepTime, budget, history, faults>>

\* A refusal of the destination is permanent; an ambiguous failure may or
\* may not have reached the provider's queue.
Answers == {a \in [outcome : Outcomes, pause : BOOLEAN] :
              a.pause => a.outcome = "permanent"}
Takes(outcome) == CASE outcome = "accepted" -> {1}
                    [] outcome = "ambiguous" -> {0, 1}
                    [] OTHER -> {0}

SendReminder ==
  /\ Goto("send", "finish")
  /\ \E a \in Answers, taken \in {0, 1} :
       /\ taken \in Takes(a.outcome)
       /\ answer' = a
       /\ copies' = [copies EXCEPT ![target] = @ + taken]
  /\ lateCalls' = [lateCalls EXCEPT ![target] = IF Reaches(settings[Owner[target]], sentTo)
                                               THEN 0 ELSE @ + 1]
  /\ UNCHANGED <<now, db, sweepTime, attemptTime, budget, target, sentTo, checkNo, faults>>

\* What the answer makes of the row of the target.
AfterRetryable(w) ==
  IF w.attempts \notin DOMAIN RetryDelay THEN [w EXCEPT !.status = "failed"]
  ELSE IF now + RetryDelay[w.attempts] >= Expiry(target)
       THEN [w EXCEPT !.status = "expired"]
  ELSE [w EXCEPT !.status = "retry_wait", !.readyAt = now + RetryDelay[w.attempts]]
\* Variant: the name of the provider's outcome is stored.
AnsweredRaw(w) == [w EXCEPT !.status = answer.outcome]

Answered(w) ==
  CASE answer.outcome = "accepted" ->
         [w EXCEPT !.status = "accepted", !.checkAt = now + FirstCheckDelay]
    [] answer.outcome = "retryable" -> AfterRetryable(w)
    [] answer.outcome = "permanent" -> [w EXCEPT !.status = "failed"]
    [] OTHER -> [w EXCEPT !.status = "unknown"]

\* Variants: the row is not required to be sending still; the other rows to a
\* paused address are left.
FinishUnchecked ==
  LET u == Owner[target] IN
  /\ Goto("finish", "reserve")
  /\ settings' = IF answer.pause THEN Paused(u, sentTo) ELSE settings
  /\ row' = [(IF answer.pause THEN Settled(RowsTo(u, sentTo), "suppressed") ELSE row)
               EXCEPT ![target] = Answered(row[target])]
  /\ Dropped
  /\ UNCHANGED <<now, item, reminder, inactive, sweepTime, budget,
                 history, faults>>
FinishPausesAlone ==
  /\ Goto("finish", "reserve")
  /\ row[target].status = "sending"
  /\ settings' = IF answer.pause THEN Paused(Owner[target], sentTo) ELSE settings
  /\ row' = [row EXCEPT ![target] = Answered(row[target])]
  /\ Dropped
  /\ UNCHANGED <<now, item, reminder, inactive, sweepTime, budget,
                 history, faults>>

FinishDeliveryAttempt ==
  LET u == Owner[target] IN
  /\ Goto("finish", "reserve")
  /\ row[target].status = "sending"
  /\ settings' = IF answer.pause THEN Paused(u, sentTo) ELSE settings
  /\ row' = [(IF answer.pause THEN Settled(RowsTo(u, sentTo), "suppressed") ELSE row)
               EXCEPT ![target] = Answered(row[target])]
  /\ Dropped
  /\ UNCHANGED <<now, item, reminder, inactive, sweepTime, budget,
                 history, faults>>

\* The outcome cannot be stored: the row is gone, or the transaction fails.
FinishFails ==
  /\ Goto("finish", "reserve")
  /\ IF row[target].status = "sending"
     THEN faults < MaxFaults /\ faults' = faults + 1
     ELSE UNCHANGED faults
  /\ Dropped
  /\ UNCHANGED <<now, db, sweepTime, budget, history>>

Checkable == {r \in Reminders : /\ row[r].status = "accepted"
                                /\ row[r].checkAt # Never
                                /\ row[r].checkAt <= sweepTime
                                /\ row[r].checks < MaxChecks}

\* The check is counted and its time forgotten before the query.
Probed(w) == [w EXCEPT !.checks = @ + 1, !.checkAt = Never]
ClaimNextStatusCheck(r) ==
  /\ Goto("check", "query")
  /\ budget > 0 /\ budget' = budget - 1
  /\ r \in Checkable /\ \A q \in Checkable : row[r].checkAt <= row[q].checkAt
  /\ row' = [row EXCEPT ![r] = Probed(row[r])]
  /\ target' = r /\ sentTo' = row[r].to /\ checkNo' = row[r].checks + 1
  /\ UNCHANGED <<now, item, reminder, settings, inactive, sweepTime, attemptTime,
                 answer, history, faults>>

\* The local variables of a sweep end with it.
SweepOver == sweepTime' = 0 /\ budget' = 0

LeaveChecks ==
  /\ Goto("check", "idle")
  /\ budget = 0 \/ Checkable = {}
  /\ SweepOver
  /\ UNCHANGED <<now, db, attemptTime, held, history, faults>>

\* The query and the storing of its result; "open" when the message is not
\* found, pending or deferred.
FinishStatusCheck ==
  LET u == Owner[target]
      current == row[target].status = "accepted" /\ row[target].checks = checkNo
  IN
  /\ Goto("query", "check")
  /\ \E open \in BOOLEAN, pause \in BOOLEAN :
       LET next == IF open /\ checkNo \in DOMAIN RecheckDelay
                   THEN now + RecheckDelay[checkNo] ELSE Never
           checked == [row[target] EXCEPT !.checkAt = IF current THEN next ELSE @]
       IN
       /\ settings' = IF pause THEN Paused(u, sentTo) ELSE settings
       /\ row' = [(IF pause THEN Settled(RowsTo(u, sentTo), "suppressed") ELSE row)
                    EXCEPT ![target] = checked]
  /\ Dropped
  /\ UNCHANGED <<now, item, reminder, inactive, sweepTime, budget,
                 history, faults>>

\* The process dies, or a step of the sweep raises: what the worker held is lost.
SweepDies ==
  /\ pc # "idle" /\ pc' = "idle"
  /\ faults < MaxFaults /\ faults' = faults + 1
  /\ Dropped /\ SweepOver
  /\ UNCHANGED <<now, db, history>>

Tick == /\ now < MaxTime /\ now' = now + 1
        /\ UNCHANGED <<db, worker, history, faults>>

----------------------------------------------------------------------------
Init ==
  /\ now = 0
  /\ item = [r \in Reminders |-> "active"]
  /\ reminder = [r \in Reminders |-> "scheduled"]
  /\ settings = [u \in Users |-> [address |-> NoAddress, verified |-> FALSE,
                                  enabled |-> FALSE, healthy |-> TRUE]]
  /\ inactive = {}
  /\ row = [r \in Reminders |-> EmptyRow]
  /\ pc = "idle" /\ sweepTime = 0 /\ attemptTime = 0 /\ budget = 0
  /\ target = NoReminder /\ sentTo = NoAddress /\ checkNo = 0 /\ answer = NoAnswer
  /\ copies = [r \in Reminders |-> 0]
  /\ lateCalls = [r \in Reminders |-> 0]
  /\ faults = 0

UserRequest ==
  \/ \E u \in Users :
       \/ \E a \in Addresses : SetCandidateAddress(u, a) \/ PauseMatchingAddress(u, a)
       \/ \E enabled \in BOOLEAN : SetEnabled(u, enabled)
       \/ \E active \in BOOLEAN : SetUserStatus(u, active)
       \/ ConfirmVerification(u) \/ LazyTransitionDue(u)
  \/ \E r \in Reminders :
       \/ \E status \in ItemStatus : MoveItem(r, status)
       \/ PermanentlyDelete(r) \/ Cancel(r)

SweepStep ==
  \/ StartSweep \/ SweepClaimDue \/ ReconcileStaleSending
  \/ ReserveSend \/ LeaveSends \/ ClaimNothing
  \/ \E r \in Reminders :
       ClaimSettles(r) \/ ClaimNextDelivery(r) \/ ClaimNextStatusCheck(r)
  \/ RevalidatePasses \/ RevalidateFails
  \/ SendReminder \/ FinishDeliveryAttempt \/ FinishFails
  \/ LeaveChecks \/ FinishStatusCheck

Next == UserRequest \/ SweepStep \/ SweepDies \/ Tick

Spec == Init /\ [][Next]_vars

\* The worker keeps polling, time passes, and admission windows roll over, so
\* that a lease is not denied for ever.
Fairness == WF_vars(SweepStep) /\ WF_vars(Tick) /\ SF_vars(ReserveSend)
FairSpec == Spec /\ Fairness

----------------------------------------------------------------------------
(* Properties.                                                             *)

TypeOK ==
  /\ now \in Nat /\ faults \in Nat
  /\ item \in [Reminders -> ItemStatus]
  /\ reminder \in [Reminders -> ReminderStatus]
  /\ settings \in [Users -> Settings]
  /\ inactive \subseteq Users
  /\ row \in [Reminders -> Row]
  /\ pc \in Pcs /\ sweepTime \in Nat /\ attemptTime \in Nat /\ budget \in Nat
  /\ target \in Reminders \cup {NoReminder}
  /\ pc \in {"revalidate", "send", "finish", "query"} => target \in Reminders
  /\ sentTo \in Addresses \cup {NoAddress} /\ checkNo \in Nat
  /\ answer \in [outcome : Outcomes \cup {"none"}, pause : BOOLEAN]
  /\ copies \in [Reminders -> Nat] /\ lateCalls \in [Reminders -> Nat]

(* At most one message leaves for a Reminder: a row whose message the      *)
(* provider may have is never tried again, whatever the answers, crashes   *)
(* and changes of settings in between (reconcile_stale_sending,            *)
(* finish_delivery_attempt).                                               *)
AtMostOneCopy == \A r \in Reminders : copies[r] <= 1

(* A row that will be tried, that failed, expired or was suppressed stands *)
(* for a Reminder of which the provider has no message: the ledger never   *)
(* reports as not sent what was sent.                                      *)
LedgerIsTruthful ==
  \A r \in Reminders : copies[r] > 0 =>
     row[r].status \in {"sending", "accepted", "unknown", "deleted"}

(* A row still queued has a destination that is verified, enabled, healthy *)
(* and current: each request that ends this also suppresses the row, in    *)
(* the same transaction.                                                   *)
QueuedIsEligible ==
  \A r \in Reminders : row[r].status = "queued" => Eligible(r)

(* A row that waits has an attempt left, so that the claim loop, which     *)
(* skips a row it cannot count, ends; a retry lies after the attempt it    *)
(* follows and inside the delivery window.                                 *)
RetriesFit ==
  \A r \in Reminders :
     /\ row[r].status \in Waiting => row[r].attempts < MaxAttempts
     /\ row[r].status = "retry_wait" => /\ row[r].lastAt < row[r].readyAt
                                        /\ row[r].readyAt < Expiry(r)

(* After a user disables Email, changes the address or has it paused, at   *)
(* most the one call already past its checks reaches the provider, until   *)
(* the destination is eligible again.                                      *)
AtMostOneLateCall == \A r \in Reminders : lateCalls[r] <= 1

(* Only a due Reminder has a delivery: a cancelled one never sends.        *)
OnlyDueDeliver ==
  \A r \in Reminders : row[r].status \notin {"none", "deleted"} =>
                        reminder[r] = "due"

(* A stored outcome is never replaced by another.                          *)
OutcomeIsFinal ==
  [][\A r \in Reminders : row[r].status \in Final =>
        row'[r].status \in {row[r].status, "deleted"}]_vars

(* The ledger implements the promise of OneShotDelivery.                   *)
Phase(w) == CASE w.status = "none" -> "none"
              [] w.status \in Waiting -> "open"
              [] w.status = "sending" -> "trying"
              [] w.status \in Final -> "closed"
              [] w.status = "deleted" -> "gone"
Promise == INSTANCE OneShotDelivery WITH
             Keys <- Reminders,
             phase <- [r \in Reminders |-> Phase(row[r])],
             handed <- copies
KeepsPromise == Promise!Spec

(* Every delivery recorded reaches an outcome.                             *)
EveryDeliverySettles ==
  \A r \in Reminders :
     row[r].status = "queued" ~> row[r].status \in Final \cup {"deleted"}
=============================================================================
