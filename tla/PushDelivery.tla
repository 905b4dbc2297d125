---------------------------- MODULE PushDelivery ----------------------------
(***************************************************************************)
(* The Web Push channel of the Reminder worker: login sessions, the push   *)
(* subscriptions bound to them, the durable ledger reminder_deliveries and *)
(* the part of the sweep that drains it (app/auth_repository.py,           *)
(* app/reminder_repository.py, app/services/reminder_delivery.py).         *)
(*                                                                         *)
(* A subscription is known by its endpoint, which is unique; a row of the  *)
(* ledger by its Reminder and its subscription.  Every action is one       *)
(* database transaction or one call of the push service.                   *)
(***************************************************************************)
EXTENDS Integers, FiniteSets

CONSTANTS Users, Sessions, Endpoints, Reminders,
          Owner,        \* the user a Reminder belongs to
          SessionUser,  \* the user a session belongs to
          RemindAt,     \* the time a Reminder is scheduled for
          ExpiresAt,    \* the expires_time of a session
          StaleAfter,   \* reminder_sending_stale_seconds
          Batch,        \* reminder_batch_size
          MayDisable,   \* the users an operator may disable
          MaxTime,      \* bound of the clock
          MaxFaults,    \* bound of crashes and failed transactions
          NoSession, NoKey

Keys == Reminders \X Endpoints

ASSUME OwnerAssumption ==
  Owner \in [Reminders -> Users] /\ SessionUser \in [Sessions -> Users]
ASSUME TimeAssumption ==
  /\ RemindAt \in [Reminders -> Nat] /\ ExpiresAt \in [Sessions -> Nat]
  /\ StaleAfter \in Nat \ {0} /\ Batch \in Nat \ {0}
  /\ MaxTime \in Nat /\ MaxFaults \in Nat
ASSUME NoSessionAssumption == NoSession \notin Sessions
ASSUME NoKeyAssumption == NoKey \notin Keys

VARIABLES now,
          item,       \* the status of the Personal Item of a Reminder
          reminder,   \* the status of a Reminder
          session,    \* user_sessions
          sub,        \* push_subscriptions, by endpoint
          inactive,   \* the users an operator has disabled
          row,        \* reminder_deliveries, by Reminder and subscription
          pc,         \* where the worker's sweep stands
          sweepTime,  \* sweep_time
          budget,     \* iterations left of the delivery loop
          target,     \* the claimed delivery the worker holds
          answer,     \* what the push service answered
          copies,     \* how many notifications the push service took
          lateCalls,  \* calls for an endpoint since it last was reachable
          faults

db == <<item, reminder, session, sub, inactive, row>>
worker == <<pc, sweepTime, budget, target, answer>>
history == <<copies, lateCalls>>
vars == <<now, db, worker, history, faults>>

ItemStatus == {"active", "completed", "trash", "deleted"}
ReminderStatus == {"scheduled", "due", "cancelled", "deleted"}
SessionStatus == {"none", "live", "revoked"}
Subscription == [status : {"none", "active", "revoked", "invalid"},
                 session : Sessions \cup {NoSession}]
Final == {"sent", "failed", "unknown"}
Row == [status : {"none", "queued", "sending", "deleted"} \cup Final, at : Nat]
Pcs == {"idle", "reconcile", "claimDue", "fail", "push", "send", "finish"}
Answers == {"accepted", "gone", "failed"}

NoSub == [status |-> "none", session |-> NoSession]
RowIn(status) == [status |-> status, at |-> 0]

Live(s, time) == session[s] = "live" /\ time < ExpiresAt[s]
\* The subscription may be contacted for its user.
Reachable(e, time) == /\ sub[e].status = "active"
                      /\ Live(sub[e].session, time)
                      /\ SessionUser[sub[e].session] \notin inactive
\* The conditions of a claim; a queued row without them is unusable.
Usable(k, time) == reminder[k[1]] = "due" /\ Reachable(k[2], time)

----------------------------------------------------------------------------
(* Requests of users and of operators.                                     *)

\* A call is late only until the endpoint is reachable again.
Reconsider == lateCalls' = [e \in Endpoints |-> IF Reachable(e, now)' THEN 0
                                                ELSE lateCalls[e]]

\* A session row is created with its expiry.
Login(s) ==
  /\ session[s] = "none" /\ now < ExpiresAt[s]
  /\ SessionUser[s] \notin inactive
  /\ session' = [session EXCEPT ![s] = "live"]
  /\ UNCHANGED <<now, item, reminder, sub, inactive, row, worker, history, faults>>

\* The active subscriptions of E get the given status.
BoundTo(s) == {e \in Endpoints : sub[e].session = s}
Ended(E, status) ==
  [e \in Endpoints |-> IF sub[e].status = "active" /\ e \in E
                       THEN [sub[e] EXCEPT !.status = status] ELSE sub[e]]

\* Variant: the subscriptions of the session are left.
LogoutAlone(s) ==
  /\ session[s] = "live"
  /\ session' = [session EXCEPT ![s] = "revoked"]
  /\ UNCHANGED <<now, item, reminder, sub, inactive, row, worker, history, faults>>

\* The request was authenticated before: only the revocation is looked at.
Logout(s) ==
  /\ session[s] = "live"
  /\ session' = [session EXCEPT ![s] = "revoked"]
  /\ sub' = Ended(BoundTo(s), "revoked")
  /\ UNCHANGED <<now, item, reminder, inactive, row, worker, history, faults>>

SubscriptionLeaves == UNCHANGED <<now, item, reminder, session, inactive, row,
                                  worker, copies, faults>>

\* The request was authenticated before; the transaction checks the session
\* again.  An endpoint stays with the user who registered it.
MayBind(s, e) ==
  sub[e].status # "none" => SessionUser[sub[e].session] = SessionUser[s]
Bound(s, e) == [status |-> "active", session |-> s]

\* Variants: the session is trusted; the session keeps its other endpoints;
\* an endpoint moves to whoever registers it.
SyncTrusting(s, e) ==
  /\ session[s] # "none" /\ MayBind(s, e)
  /\ sub' = [Ended(BoundTo(s), "revoked") EXCEPT ![e] = Bound(s, e)]
  /\ SubscriptionLeaves /\ Reconsider
SyncKeepsOthers(s, e) ==
  /\ Live(s, now) /\ MayBind(s, e)
  /\ sub' = [sub EXCEPT ![e] = Bound(s, e)]
  /\ SubscriptionLeaves /\ Reconsider
SyncTakesOver(s, e) ==
  /\ Live(s, now)
  /\ sub' = [Ended(BoundTo(s), "revoked") EXCEPT ![e] = Bound(s, e)]
  /\ SubscriptionLeaves /\ Reconsider

SyncPushSubscription(s, e) ==
  /\ Live(s, now) /\ MayBind(s, e)
  /\ sub' = [Ended(BoundTo(s), "revoked") EXCEPT ![e] = Bound(s, e)]
  /\ SubscriptionLeaves /\ Reconsider

\* By its id, and for the current session; both also update the subscription
\* of a session that ended since the request was authenticated.
RevokePushSubscription(s, e) ==
  /\ sub' = Ended(BoundTo(s) \cap {e}, "revoked") /\ sub' # sub
  /\ UNCHANGED lateCalls /\ SubscriptionLeaves

RevokeCurrentSession(s) ==
  /\ sub' = Ended(BoundTo(s), "revoked") /\ sub' # sub
  /\ UNCHANGED lateCalls /\ SubscriptionLeaves

\* A test notification finds the endpoint gone.
TestNotificationGone(e) ==
  /\ sub' = Ended({e}, "invalid") /\ sub' # sub
  /\ UNCHANGED lateCalls /\ SubscriptionLeaves

SetUserStatus(u, active) ==
  /\ u \in MayDisable
  /\ inactive' = IF active THEN inactive \ {u} ELSE inactive \cup {u}
  /\ UNCHANGED <<now, item, reminder, session, sub, row, worker, copies, faults>>
  /\ Reconsider

LifecycleLeaves == UNCHANGED <<now, session, sub, inactive, worker, history, faults>>

\* An Item leaves the active list: its scheduled Reminder is cancelled.
MoveItem(r, status) ==
  /\ \/ item[r] = "active" /\ status \in {"completed", "trash"}
     \/ item[r] = "completed" /\ status \in {"active", "trash"}
     \/ item[r] = "trash" /\ status \in {"active", "completed"}
  /\ item' = [item EXCEPT ![r] = status]
  /\ reminder' = IF status # "active" /\ reminder[r] = "scheduled"
                 THEN [reminder EXCEPT ![r] = "cancelled"] ELSE reminder
  /\ UNCHANGED row /\ LifecycleLeaves

\* The row of the Item and, by cascade, its Reminder and its deliveries go.
PermanentlyDelete(r) ==
  /\ item[r] = "trash"
  /\ item' = [item EXCEPT ![r] = "deleted"]
  /\ reminder' = [reminder EXCEPT ![r] = "deleted"]
  /\ row' = [k \in Keys |-> IF k[1] = r THEN RowIn("deleted") ELSE row[k]]
  /\ LifecycleLeaves

Cancel(r) ==
  /\ reminder[r] = "scheduled"
  /\ reminder' = [reminder EXCEPT ![r] = "cancelled"]
  /\ UNCHANGED <<item, row>> /\ LifecycleLeaves

----------------------------------------------------------------------------
(* Reminders become due, from the worker or from a user's visit.           *)

Due(time, R) == {r \in R : /\ reminder[r] = "scheduled" /\ RemindAt[r] <= time
                           /\ item[r] = "active"}

\* A delivery is queued for every subscription its user can be reached at.
ClaimDue(D, time) ==
  /\ reminder' = [r \in Reminders |-> IF r \in D THEN "due" ELSE reminder[r]]
  /\ row' = [k \in Keys |->
               IF /\ k[1] \in D /\ row[k].status = "none"
                  /\ Reachable(k[2], time)
                  /\ SessionUser[sub[k[2]].session] = Owner[k[1]]
               THEN RowIn("queued") ELSE row[k]]
  /\ UNCHANGED <<item, session, sub, inactive>>

LazyTransitionDue(u) ==
  LET D == Due(now, {r \in Reminders : Owner[r] = u}) IN
  /\ D # {}
  /\ ClaimDue(D, now)
  /\ UNCHANGED <<now, worker, history, faults>>

----------------------------------------------------------------------------
(* The sweep of the worker.                                                *)

Goto(from, to) == pc = from /\ pc' = to
SweepLeaves == UNCHANGED <<now, item, reminder, session, inactive, sweepTime, faults>>

StartSweep ==
  /\ Goto("idle", "reconcile")
  /\ sweepTime' = now
  /\ UNCHANGED <<now, db, budget, target, answer, history, faults>>

Stale(k) == row[k].status = "sending" /\ row[k].at + StaleAfter <= sweepTime
ReconcileStaleSending ==
  /\ Goto("reconcile", "claimDue")
  /\ row' = [k \in Keys |-> IF Stale(k) THEN [row[k] EXCEPT !.status = "unknown"]
                            ELSE row[k]]
  /\ UNCHANGED <<sub, budget, target, answer, history>> /\ SweepLeaves

\* N of the set S, at most Batch.
FullBatch(N, S) == /\ N \subseteq S
                   /\ Cardinality(N) = IF Cardinality(S) < Batch THEN Cardinality(S)
                                       ELSE Batch
SweepClaimDue ==
  LET all == Due(sweepTime, Reminders) IN
  /\ Goto("claimDue", "fail")
  /\ \E D \in SUBSET all :
       /\ FullBatch(D, all)
       /\ \A d \in D, s \in all \ D : RemindAt[d] <= RemindAt[s]
       /\ ClaimDue(D, sweepTime)
  /\ UNCHANGED <<now, sweepTime, budget, target, answer, history, faults>>

\* Variant: only the Reminder is looked at.
UnusableByReminder == {k \in Keys : /\ row[k].status = "queued"
                                    /\ reminder[k[1]] # "due"}

Unusable == {k \in Keys : row[k].status = "queued" /\ ~ Usable(k, sweepTime)}

\* A batch of the oldest, here of any, unusable rows.
FailUnusableQueued ==
  /\ Goto("fail", "push")
  /\ \E F \in SUBSET Unusable :
       /\ FullBatch(F, Unusable)
       /\ row' = [k \in Keys |-> IF k \in F THEN [row[k] EXCEPT !.status = "failed"]
                                 ELSE row[k]]
  /\ budget' = Batch
  /\ UNCHANGED <<sub, target, answer, history>> /\ SweepLeaves

\* Variant: the conditions the row was queued under are trusted.
ClaimableTrusting == {k \in Keys : row[k].status = "queued"}

Claimable == {k \in Keys : row[k].status = "queued" /\ Usable(k, now)}

\* The row is marked sending before anything is sent; the oldest, here any.
ClaimNextQueued(k) ==
  /\ Goto("push", "send")
  /\ budget > 0 /\ budget' = budget - 1
  /\ k \in Claimable
  /\ row' = [row EXCEPT ![k] = [status |-> "sending", at |-> now]]
  /\ target' = k
  /\ UNCHANGED <<sub, answer, history>> /\ SweepLeaves

\* The local variables of a sweep end with it.
Dropped == target' = NoKey /\ answer' = "none"
SweepOver == sweepTime' = 0 /\ budget' = 0

LeavePush ==
  /\ Goto("push", "idle")
  /\ budget = 0 \/ Claimable = {}
  /\ SweepOver
  /\ UNCHANGED <<now, db, target, answer, history, faults>>

\* A failure may hide that the push service took the notification.
Takes(a) == CASE a = "accepted" -> {1} [] a = "gone" -> {0} [] a = "failed" -> {0, 1}

SendPush ==
  /\ Goto("send", "finish")
  /\ \E a \in Answers : \E taken \in Takes(a) :
       /\ answer' = a
       /\ copies' = [copies EXCEPT ![target] = @ + taken]
  /\ lateCalls' = [lateCalls EXCEPT ![target[2]] = IF Reachable(target[2], now) THEN 0
                                                  ELSE @ + 1]
  /\ UNCHANGED <<row, sub, budget, target>> /\ SweepLeaves

\* Variants: the name of the answer is stored; a failure counts as sent.
OutcomeRaw(a) == a
OutcomeOptimistic(a) == IF a = "gone" THEN "failed" ELSE "sent"

Outcome(a) == IF a = "accepted" THEN "sent" ELSE "failed"
GoneTarget == IF answer = "gone" THEN {target[2]} ELSE {}

\* Variant: the row is not required to be sending.
FinishUnchecked ==
  /\ Goto("finish", "push")
  /\ row' = [row EXCEPT ![target] = [@ EXCEPT !.status = Outcome(answer)]]
  /\ sub' = Ended(GoneTarget, "invalid")
  /\ Dropped
  /\ UNCHANGED <<budget, history>> /\ SweepLeaves

FinishDelivery ==
  /\ Goto("finish", "push")
  /\ row[target].status = "sending"
  /\ row' = [row EXCEPT ![target] = [@ EXCEPT !.status = Outcome(answer)]]
  /\ sub' = Ended(GoneTarget, "invalid")
  /\ Dropped
  /\ UNCHANGED <<budget, history>> /\ SweepLeaves

\* The outcome cannot be stored: the row is gone, or the transaction fails.
FinishFails ==
  /\ Goto("finish", "push")
  /\ IF row[target].status = "sending"
     THEN faults < MaxFaults /\ faults' = faults + 1
     ELSE UNCHANGED faults
  /\ Dropped
  /\ UNCHANGED <<now, db, sweepTime, budget, history>>

\* The process dies, or a step of the sweep raises: what the worker held is lost.
SweepDies ==
  /\ pc # "idle" /\ pc' = "idle"
  /\ faults < MaxFaults /\ faults' = faults + 1
  /\ Dropped /\ SweepOver
  /\ UNCHANGED <<now, db, history>>

Tick == /\ now < MaxTime /\ now' = now + 1
        /\ UNCHANGED <<db, worker, history, faults>>

----------------------------------------------------------------------------
Init ==
  /\ now = 0
  /\ item = [r \in Reminders |-> "active"]
  /\ reminder = [r \in Reminders |-> "scheduled"]
  /\ session = [s \in Sessions |-> "none"]
  /\ sub = [e \in Endpoints |-> NoSub]
  /\ inactive = {}
  /\ row = [k \in Keys |-> RowIn("none")]
  /\ pc = "idle" /\ sweepTime = 0 /\ budget = 0
  /\ target = NoKey /\ answer = "none"
  /\ copies = [k \in Keys |-> 0]
  /\ lateCalls = [e \in Endpoints |-> 0]
  /\ faults = 0

UserRequest ==
  \/ \E s \in Sessions :
       \/ Login(s) \/ Logout(s) \/ RevokeCurrentSession(s)
       \/ \E e \in Endpoints : SyncPushSubscription(s, e) \/ RevokePushSubscription(s, e)
  \/ \E e \in Endpoints : TestNotificationGone(e)
  \/ \E u \in Users : \/ LazyTransitionDue(u)
                      \/ \E active \in BOOLEAN : SetUserStatus(u, active)
  \/ \E r \in Reminders :
       \/ \E status \in ItemStatus : MoveItem(r, status)
       \/ PermanentlyDelete(r) \/ Cancel(r)

SweepStep ==
  \/ StartSweep \/ ReconcileStaleSending \/ SweepClaimDue \/ FailUnusableQueued
  \/ \E k \in Keys : ClaimNextQueued(k)
  \/ LeavePush \/ SendPush \/ FinishDelivery \/ FinishFails

Next == UserRequest \/ SweepStep \/ SweepDies \/ Tick

Spec == Init /\ [][Next]_vars

\* The worker keeps polling and time passes.
Fairness == WF_vars(SweepStep) /\ WF_vars(Tick)
FairSpec == Spec /\ Fairness

----------------------------------------------------------------------------
(* Properties.                                                             *)

TypeOK ==
  /\ now \in Nat /\ faults \in Nat
  /\ item \in [Reminders -> ItemStatus]
  /\ reminder \in [Reminders -> ReminderStatus]
  /\ session \in [Sessions -> SessionStatus]
  /\ sub \in [Endpoints -> Subscription]
  /\ \A e \in Endpoints : sub[e].status # "none" => sub[e].session \in Sessions
  /\ inactive \subseteq Users
  /\ row \in [Keys -> Row]
  /\ pc \in Pcs /\ sweepTime \in Nat /\ budget \in Nat
  /\ target \in Keys \cup {NoKey}
  /\ pc \in {"send", "finish"} => target \in Keys
  /\ answer \in Answers \cup {"none"}
  /\ copies \in [Keys -> Nat] /\ lateCalls \in [Endpoints -> Nat]

(* An active subscription is bound to a session that was not revoked:      *)
(* logging out ends the subscriptions of the session in the same           *)
(* transaction, and a request that was authenticated before the logout     *)
(* cannot bind one afterwards (revoke_session, sync_push_subscription).    *)
ActiveHasSession ==
  \A e \in Endpoints : sub[e].status = "active" => session[sub[e].session] = "live"

(* A session has one active subscription, whatever the order in which its  *)
(* browser registers, revokes and registers again.                         *)
OneActivePerSession ==
  \A e, f \in Endpoints :
     /\ sub[e].status = "active" /\ sub[f].status = "active"
     /\ sub[e].session = sub[f].session
     => e = f

(* A recorded delivery goes to a subscription of the Reminder's own user,  *)
(* though its endpoint may have moved to another session since.            *)
DeliveriesStayWithOwner ==
  \A k \in Keys : row[k].status \notin {"none", "deleted"} =>
     /\ sub[k[2]].session \in Sessions
     /\ SessionUser[sub[k[2]].session] = Owner[k[1]]

(* At most one notification leaves for a Reminder and a subscription.      *)
AtMostOnePush == \A k \in Keys : copies[k] <= 1

(* A row still queued was not sent, and a row reported as sent was.        *)
LedgerIsTruthful ==
  \A k \in Keys : /\ row[k].status = "sent" => copies[k] = 1
                  /\ row[k].status \in {"none", "queued"} => copies[k] = 0

(* After the user logs out, revokes the subscription or is disabled, after *)
(* the session expires or the endpoint is found gone, at most the one call *)
(* already claimed leaves for it, until it is usable again.                *)
AtMostOneLateCall == \A e \in Endpoints : lateCalls[e] <= 1

(* A stored outcome is never replaced by another.                          *)
OutcomeIsFinal ==
  [][\A k \in Keys : row[k].status \in Final =>
        row'[k].status \in {row[k].status, "deleted"}]_vars

(* The ledger implements the promise of OneShotDelivery.                   *)
Phase(status) == CASE status = "queued" -> "open"
                   [] status = "sending" -> "trying"
                   [] status \in Final -> "closed"
                   [] status = "deleted" -> "gone"
                   [] OTHER -> "none"
Promise == INSTANCE OneShotDelivery WITH
             phase <- [k \in Keys |-> Phase(row[k].status)],
             handed <- copies
KeepsPromise == Promise!Spec

(* Every delivery queued reaches an outcome: it is sent, or found unusable *)
(* by a later sweep, or stale after a crash.                               *)
EveryDeliverySettles ==
  \A k \in Keys : row[k].status = "queued" ~> row[k].status \in Final \cup {"deleted"}
=============================================================================
