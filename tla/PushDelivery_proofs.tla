------------------------ MODULE PushDelivery_proofs ------------------------
(***************************************************************************)
(* What PushDelivery.tla guarantees for every number of users, sessions,   *)
(* endpoints and Reminders, every schedule and every length of run.        *)
(*                                                                         *)
(* Three inductive invariants carry the results: LedgerInv (what the       *)
(* worker holds and what the ledger says), BindingInv (subscriptions and   *)
(* sessions) and LateInv (calls after a subscription ended).               *)
(***************************************************************************)
EXTENDS PushDelivery, TLAPS

----------------------------------------------------------------------------
(* Types of the operators the actions are built from.                      *)

\* A key is a Reminder and an endpoint.
LEMMA KeyParts == \A k \in Keys : k[1] \in Reminders /\ k[2] \in Endpoints
BY DEF Keys

\* A row is a row under any status of the ledger.
LEMMA RowStatusIsTyped ==
  /\ \A w \in Row : \A status \in {"none", "queued", "sending", "deleted"} \cup Final :
        [w EXCEPT !.status = status] \in Row
  /\ \A status \in {"none", "queued", "sending", "deleted"} : RowIn(status) \in Row
BY DEF Row, RowIn

\* Ending subscriptions keeps them subscriptions of the same sessions.
LEMMA EndedIsTyped ==
  ASSUME TypeOK, NEW E, NEW status \in {"revoked", "invalid"}
  PROVE  /\ Ended(E, status) \in [Endpoints -> Subscription]
         /\ \A e \in Endpoints :
              /\ Ended(E, status)[e].session = sub[e].session
              /\ Ended(E, status)[e].status \in {sub[e].status, status}
              /\ Ended(E, status)[e].status = "active" =>
                   sub[e].status = "active" /\ e \notin E
              /\ Ended(E, status)[e].status = "none" <=> sub[e].status = "none"
BY DEF Ended, TypeOK, Subscription

\* Queueing deliveries for due Reminders keeps every type.
LEMMA ClaimDueIsTyped ==
  ASSUME TypeOK, NEW D, NEW time, ClaimDue(D, time)
  PROVE  /\ reminder' \in [Reminders -> ReminderStatus]
         /\ row' \in [Keys -> Row]
BY RowStatusIsTyped DEF ClaimDue, TypeOK, ReminderStatus

----------------------------------------------------------------------------
(* Type correctness.                                                       *)

\* Every action keeps the type invariant.
LEMMA TypeStep == TypeOK /\ [Next]_vars => TypeOK'
<1>. SUFFICES ASSUME TypeOK, [Next]_vars PROVE TypeOK'
  OBVIOUS
<1>. USE DEF TypeOK, db, worker, history
<1>1. ASSUME NEW s \in Sessions, Login(s) PROVE TypeOK'
  BY <1>1 DEF Login, SessionStatus
<1>2. ASSUME NEW s \in Sessions, Logout(s) PROVE TypeOK'
  BY <1>2, EndedIsTyped DEF Logout, SessionStatus
<1>3. ASSUME NEW s \in Sessions, RevokeCurrentSession(s) PROVE TypeOK'
  BY <1>3, EndedIsTyped DEF RevokeCurrentSession, SubscriptionLeaves
<1>4. ASSUME NEW s \in Sessions, NEW e \in Endpoints, SyncPushSubscription(s, e)
      PROVE  TypeOK'
  <2>1. Bound(s, e) \in Subscription /\ Bound(s, e).session \in Sessions
    BY DEF Bound, Subscription
  <2>2. /\ sub' \in [Endpoints -> Subscription]
        /\ \A f \in Endpoints : sub'[f].status # "none" => sub'[f].session \in Sessions
    BY <1>4, <2>1, EndedIsTyped DEF SyncPushSubscription
  <2>3. lateCalls' \in [Endpoints -> Nat]
    BY <1>4 DEF SyncPushSubscription, Reconsider
  <2>. QED BY <1>4, <2>2, <2>3 DEF SyncPushSubscription, SubscriptionLeaves
<1>5. ASSUME NEW s \in Sessions, NEW e \in Endpoints, RevokePushSubscription(s, e)
      PROVE  TypeOK'
  BY <1>5, EndedIsTyped DEF RevokePushSubscription, SubscriptionLeaves
<1>6. ASSUME NEW e \in Endpoints, TestNotificationGone(e) PROVE TypeOK'
  BY <1>6, EndedIsTyped DEF TestNotificationGone, SubscriptionLeaves
<1>7. ASSUME NEW u \in Users, LazyTransitionDue(u) PROVE TypeOK'
  <2>1. PICK D : ClaimDue(D, now)
    BY <1>7 DEF LazyTransitionDue
  <2>2. reminder' \in [Reminders -> ReminderStatus] /\ row' \in [Keys -> Row]
    BY <2>1, ClaimDueIsTyped
  <2>. QED BY <1>7, <2>1, <2>2 DEF LazyTransitionDue, ClaimDue
<1>8. ASSUME NEW u \in Users, NEW active \in BOOLEAN, SetUserStatus(u, active)
      PROVE  TypeOK'
  <2>1. lateCalls' \in [Endpoints -> Nat]
    BY <1>8 DEF SetUserStatus, Reconsider
  <2>. QED BY <1>8, <2>1 DEF SetUserStatus
<1>9. ASSUME NEW r \in Reminders, NEW status \in ItemStatus, MoveItem(r, status)
      PROVE  TypeOK'
  BY <1>9 DEF MoveItem, LifecycleLeaves, ReminderStatus
<1>10. ASSUME NEW r \in Reminders, PermanentlyDelete(r) PROVE TypeOK'
  BY <1>10, RowStatusIsTyped
     DEF PermanentlyDelete, LifecycleLeaves, ItemStatus, ReminderStatus
<1>11. ASSUME NEW r \in Reminders, Cancel(r) PROVE TypeOK'
  BY <1>11 DEF Cancel, LifecycleLeaves, ReminderStatus
<1>12. CASE StartSweep
  BY <1>12 DEF StartSweep, Goto, Pcs
<1>13. CASE ReconcileStaleSending
  <2>1. row' \in [Keys -> Row]
    BY <1>13, RowStatusIsTyped DEF ReconcileStaleSending, Final
  <2>. QED BY <1>13, <2>1 DEF ReconcileStaleSending, Goto, SweepLeaves, Pcs
<1>14. CASE SweepClaimDue
  <2>1. PICK D : ClaimDue(D, sweepTime)
    BY <1>14 DEF SweepClaimDue
  <2>2. reminder' \in [Reminders -> ReminderStatus] /\ row' \in [Keys -> Row]
    BY <2>1, ClaimDueIsTyped
  <2>. QED BY <1>14, <2>1, <2>2 DEF SweepClaimDue, Goto, ClaimDue, Pcs
<1>15. CASE FailUnusableQueued
  <2>1. \A w \in Row : [w EXCEPT !.status = "failed"] \in Row
    BY RowStatusIsTyped DEF Final
  <2>2. PICK F : row' = [k \in Keys |-> IF k \in F
                                         THEN [row[k] EXCEPT !.status = "failed"]
                                         ELSE row[k]]
    BY <1>15 DEF FailUnusableQueued
  <2>3. row' \in [Keys -> Row]
    BY <2>1, <2>2
  <2>. QED BY <1>15, <2>3, TimeAssumption
           DEF FailUnusableQueued, Goto, SweepLeaves, TimeAssumption, Pcs
<1>16. ASSUME NEW k \in Keys, ClaimNextQueued(k) PROVE TypeOK'
  <2>1. [status |-> "sending", at |-> now] \in Row
    BY DEF Row
  <2>2. row' \in [Keys -> Row]
    BY <1>16, <2>1 DEF ClaimNextQueued
  <2>. QED BY <1>16, <2>2 DEF ClaimNextQueued, Goto, SweepLeaves, Pcs
<1>17. CASE LeavePush
  BY <1>17 DEF LeavePush, Goto, SweepOver, Pcs
<1>18. CASE SendPush
  <2>1. target \in Keys /\ target[2] \in Endpoints
    BY <1>18, KeyParts DEF SendPush, Goto
  <2>2. PICK a \in Answers, taken \in {0, 1} :
          answer' = a /\ copies' = [copies EXCEPT ![target] = @ + taken]
    BY <1>18 DEF SendPush, Takes, Answers
  <2>3. copies' \in [Keys -> Nat]
    BY <2>1, <2>2
  <2>4. lateCalls' \in [Endpoints -> Nat]
    BY <1>18, <2>1 DEF SendPush
  <2>. QED BY <1>18, <2>1, <2>2, <2>3, <2>4 DEF SendPush, Goto, SweepLeaves, Pcs
<1>19. CASE FinishDelivery
  <2>1. target \in Keys
    BY <1>19 DEF FinishDelivery, Goto
  <2>2. [row[target] EXCEPT !.status = Outcome(answer)] \in Row
    BY <2>1, RowStatusIsTyped DEF Outcome, Final
  <2>3. row' \in [Keys -> Row]
    BY <1>19, <2>2 DEF FinishDelivery
  <2>. QED BY <1>19, <2>3, EndedIsTyped
           DEF FinishDelivery, Goto, Dropped, SweepLeaves, Pcs
<1>20. CASE FinishFails
  BY <1>20 DEF FinishFails, Goto, Dropped, Pcs
<1>21. CASE SweepDies
  BY <1>21 DEF SweepDies, Dropped, SweepOver, Pcs
<1>22. CASE Tick
  BY <1>22 DEF Tick
<1>23. CASE UNCHANGED vars
  BY <1>23 DEF vars
<1>. QED BY <1>1, <1>2, <1>3, <1>4, <1>5, <1>6, <1>7, <1>8, <1>9, <1>10, <1>11,
            <1>12, <1>13, <1>14, <1>15, <1>16, <1>17, <1>18, <1>19, <1>20, <1>21,
            <1>22, <1>23
         DEF Next, UserRequest, SweepStep

\* Every variable keeps its type, through every request, answer, crash and
\* restart of the sweep.
THEOREM TypeCorrect == Spec => []TypeOK
<1>1. Init => TypeOK
  BY RowStatusIsTyped
     DEF Init, TypeOK, ItemStatus, ReminderStatus, SessionStatus, NoSub,
         Subscription, Pcs
<1>2. TypeOK /\ [Next]_vars => TypeOK'
  BY TypeStep
<1>. QED BY <1>1, <1>2, PTL DEF Spec
----------------------------------------------------------------------------
(* The ledger: one notification, truthfully recorded.                      *)

\* What the worker knows of the delivery it holds: before it sends, nobody
\* took a notification; an accepted one was taken.
Held ==
  /\ pc \in {"send", "finish"} => row[target].status \in {"sending", "deleted"}
  /\ pc = "send" => copies[target] = 0
  /\ pc = "finish" /\ answer = "accepted" => copies[target] = 1

\* What a step does to one row and to its notifications.
Recorded(k) == /\ row[k].status = "none" /\ row'[k].status = "queued"
               /\ sub[k[2]].status = "active" /\ UNCHANGED sub
               /\ SessionUser[sub[k[2]].session] = Owner[k[1]]
Tried(k) == row[k].status = "queued" /\ row'[k].status = "sending"
GivenUp(k) == row[k].status = "queued" /\ row'[k].status = "failed"
Finished(k) == /\ row[k].status = "sending" /\ row'[k].status \in Final
               /\ row'[k].status = "sent" => copies[k] = 1
Handed(k) == /\ row[k].status \in {"sending", "deleted"}
             /\ row'[k].status = row[k].status
             /\ copies[k] = 0 /\ copies'[k] = 1
Move(k) ==
  \/ Handed(k)
  \/ /\ copies'[k] = copies[k]
     /\ \/ Recorded(k) \/ Tried(k) \/ GivenUp(k) \/ Finished(k)
        \/ row'[k].status \in {row[k].status, "deleted"}

\* What a request does to one row.
RequestRow(k) == Recorded(k) \/ row'[k] = row[k] \/ row'[k].status = "deleted"

\* Queueing gives rows to keys that had none.
LEMMA ClaimDueRow ==
  ASSUME NEW D, NEW time, ClaimDue(D, time), NEW k \in Keys
  PROVE  row'[k] = row[k] \/ Recorded(k)
BY DEF ClaimDue, RowIn, Recorded, Reachable

\* Requests and time leave the worker and the notifications alone.
LEMMA RequestStep ==
  TypeOK /\ (UserRequest \/ Tick \/ UNCHANGED vars) =>
    /\ UNCHANGED <<worker, copies>>
    /\ \A k \in Keys : RequestRow(k)
<1>. SUFFICES ASSUME TypeOK, UserRequest \/ Tick \/ UNCHANGED vars
              PROVE  /\ UNCHANGED <<worker, copies>>
                     /\ \A k \in Keys : RequestRow(k)
  OBVIOUS
<1>. USE DEF RequestRow
<1>1. CASE \/ \E s \in Sessions :
                \/ Login(s) \/ Logout(s) \/ RevokeCurrentSession(s)
                \/ \E e \in Endpoints :
                     SyncPushSubscription(s, e) \/ RevokePushSubscription(s, e)
           \/ \E e \in Endpoints : TestNotificationGone(e)
           \/ \E u \in Users, active \in BOOLEAN : SetUserStatus(u, active)
           \/ \E r \in Reminders, status \in ItemStatus : MoveItem(r, status)
           \/ \E r \in Reminders : Cancel(r)
           \/ Tick \/ UNCHANGED vars
  BY <1>1 DEF Login, Logout, RevokeCurrentSession, SyncPushSubscription,
              RevokePushSubscription, TestNotificationGone, SubscriptionLeaves,
              SetUserStatus, MoveItem, Cancel, LifecycleLeaves, Tick, vars, db, history
<1>2. ASSUME NEW u \in Users, LazyTransitionDue(u)
      PROVE  UNCHANGED <<worker, copies>> /\ \A k \in Keys : RequestRow(k)
  <2>1. PICK D : ClaimDue(D, now)
    BY <1>2 DEF LazyTransitionDue
  <2>. QED BY <1>2, <2>1, ClaimDueRow DEF LazyTransitionDue, history
<1>3. ASSUME NEW r \in Reminders, PermanentlyDelete(r)
      PROVE  UNCHANGED <<worker, copies>> /\ \A k \in Keys : RequestRow(k)
  BY <1>3 DEF PermanentlyDelete, RowIn, LifecycleLeaves, history
<1>. QED BY <1>1, <1>2, <1>3 DEF UserRequest

\* Every step moves every row in one of the ways of Move.
LEMMA MoveStep ==
  TypeOK /\ Held /\ [Next]_vars => \A k \in Keys : Move(k)
<1>. SUFFICES ASSUME TypeOK, Held, [Next]_vars PROVE \A k \in Keys : Move(k)
  OBVIOUS
<1>. USE DEF Move
<1>0. \A k \in Keys : row[k] \in Row
  BY DEF TypeOK
<1>1. CASE UserRequest \/ Tick \/ UNCHANGED vars
  BY <1>1, RequestStep DEF RequestRow
<1>2. CASE StartSweep \/ LeavePush \/ FinishFails \/ SweepDies
  BY <1>2 DEF StartSweep, LeavePush, FinishFails, SweepDies, db, history
<1>3. CASE SweepClaimDue
  <2>1. PICK D : ClaimDue(D, sweepTime)
    BY <1>3 DEF SweepClaimDue
  <2>. QED BY <1>3, <2>1, ClaimDueRow DEF SweepClaimDue, history
<1>4. CASE ReconcileStaleSending
  BY <1>0, <1>4 DEF ReconcileStaleSending, Stale, history, Row, Finished, Final
<1>5. CASE FailUnusableQueued
  <2>1. PICK F \in SUBSET Unusable :
          row' = [k \in Keys |-> IF k \in F THEN [row[k] EXCEPT !.status = "failed"]
                                 ELSE row[k]]
    BY <1>5 DEF FailUnusableQueued
  <2>2. \A k \in F : row[k].status = "queued"
    BY DEF Unusable
  <2>. QED BY <1>0, <1>5, <2>1, <2>2 DEF FailUnusableQueued, history, GivenUp, Row
<1>6. ASSUME NEW q \in Keys, ClaimNextQueued(q) PROVE \A k \in Keys : Move(k)
  BY <1>6 DEF ClaimNextQueued, Claimable, Tried, history, TypeOK
<1>7. CASE SendPush
  <2>1. /\ target \in Keys /\ copies[target] = 0
        /\ row[target].status \in {"sending", "deleted"}
    BY <1>7 DEF Held, TypeOK, SendPush, Goto
  <2>2. PICK taken \in {0, 1} : copies' = [copies EXCEPT ![target] = @ + taken]
    BY <1>7 DEF SendPush, Takes, Answers
  <2>3. row' = row
    BY <1>7 DEF SendPush
  <2>. QED BY <2>1, <2>2, <2>3 DEF TypeOK, Handed
<1>8. CASE FinishDelivery
  <2>1. /\ target \in Keys /\ row[target].status = "sending"
        /\ answer = "accepted" => copies[target] = 1
    BY <1>8 DEF Held, TypeOK, FinishDelivery, Goto
  <2>2. /\ row'[target].status = Outcome(answer)
        /\ \A k \in Keys : k # target => row'[k] = row[k]
        /\ copies' = copies
    BY <1>0, <1>8, <2>1 DEF FinishDelivery, TypeOK, Row, history
  <2>. QED BY <2>1, <2>2 DEF Finished, Outcome, Final
<1>. QED BY <1>1, <1>2, <1>3, <1>4, <1>5, <1>6, <1>7, <1>8 DEF Next, SweepStep

\* No step makes a row say what did not happen.
LEMMA LedgerStep ==
  TypeOK /\ Held /\ LedgerIsTruthful /\ AtMostOnePush /\ [Next]_vars =>
    LedgerIsTruthful' /\ AtMostOnePush'
<1>. SUFFICES ASSUME TypeOK, Held, LedgerIsTruthful, AtMostOnePush, [Next]_vars,
                     NEW k \in Keys
              PROVE  /\ row'[k].status = "sent" => copies'[k] = 1
                     /\ row'[k].status \in {"none", "queued"} => copies'[k] = 0
                     /\ copies'[k] <= 1
  BY DEF LedgerIsTruthful, AtMostOnePush
<1>1. /\ Move(k) /\ copies[k] \in Nat /\ copies[k] <= 1
      /\ row[k].status = "sent" => copies[k] = 1
      /\ row[k].status \in {"none", "queued"} => copies[k] = 0
  BY MoveStep DEF TypeOK, LedgerIsTruthful, AtMostOnePush
<1>. QED BY <1>1 DEF Move, Recorded, Tried, GivenUp, Finished, Handed, Final

\* What the worker holds stays true, whatever happens between its steps.
LEMMA HeldStep ==
  TypeOK /\ Held /\ LedgerIsTruthful /\ [Next]_vars => Held'
<1>. SUFFICES ASSUME TypeOK, Held, LedgerIsTruthful, [Next]_vars PROVE Held'
  OBVIOUS
<1>1. CASE UserRequest \/ Tick \/ UNCHANGED vars
  <2>1. UNCHANGED <<worker, copies>> /\ \A k \in Keys : RequestRow(k)
    BY <1>1, RequestStep
  <2>2. pc \in {"send", "finish"} => target \in Keys
    BY DEF TypeOK
  <2>. QED BY <2>1, <2>2 DEF Held, worker, RequestRow, Recorded
<1>2. CASE \/ StartSweep \/ ReconcileStaleSending \/ SweepClaimDue
           \/ FailUnusableQueued \/ LeavePush \/ FinishDelivery \/ FinishFails
           \/ SweepDies
  BY <1>2 DEF StartSweep, ReconcileStaleSending, SweepClaimDue, FailUnusableQueued,
              LeavePush, FinishDelivery, FinishFails, SweepDies, Goto, Held
<1>3. ASSUME NEW k \in Keys, ClaimNextQueued(k) PROVE Held'
  <2>1. copies[k] = 0
    BY <1>3 DEF ClaimNextQueued, Claimable, LedgerIsTruthful
  <2>. QED BY <1>3, <2>1 DEF ClaimNextQueued, Goto, Held, TypeOK, history
<1>4. CASE SendPush
  <2>1. /\ target \in Keys /\ copies[target] = 0
        /\ row[target].status \in {"sending", "deleted"}
    BY <1>4 DEF SendPush, Goto, Held, TypeOK
  <2>2. PICK a \in Answers, taken \in {0, 1} :
          /\ taken \in Takes(a) /\ answer' = a
          /\ copies' = [copies EXCEPT ![target] = @ + taken]
    BY <1>4 DEF SendPush, Takes, Answers
  <2>3. answer' = "accepted" => copies'[target] = 1
    BY <2>1, <2>2 DEF Takes, TypeOK
  <2>. QED BY <1>4, <2>1, <2>3 DEF SendPush, Goto, Held
<1>. QED BY <1>1, <1>2, <1>3, <1>4 DEF Next, SweepStep

\* The part of the invariant that is about notifications.
LedgerInv == TypeOK /\ Held /\ LedgerIsTruthful /\ AtMostOnePush

\* It holds of every behaviour.
THEOREM LedgerHolds == Spec => []LedgerInv
<1>1. Init => LedgerInv
  <2>1. Init => TypeOK
    BY RowStatusIsTyped
       DEF Init, TypeOK, ItemStatus, ReminderStatus, SessionStatus, NoSub,
           Subscription, Pcs
  <2>2. RowIn("none").status = "none"
    BY DEF RowIn
  <2>. QED BY <2>1, <2>2 DEF Init, LedgerInv, Held, LedgerIsTruthful, AtMostOnePush
<1>2. LedgerInv /\ [Next]_vars => LedgerInv'
  BY TypeStep, HeldStep, LedgerStep DEF LedgerInv
<1>. QED BY <1>1, <1>2, PTL DEF Spec

\* At most one notification leaves for a Reminder and a subscription, for ever.
THEOREM OnePush == Spec => []AtMostOnePush
BY LedgerHolds, PTL DEF LedgerInv

\* A row still queued was not sent, and a row reported as sent was.
THEOREM TruthfulLedger == Spec => []LedgerIsTruthful
BY LedgerHolds, PTL DEF LedgerInv

\* A stored outcome is never replaced by another.
THEOREM FinalOutcome == Spec => OutcomeIsFinal
<1>1. LedgerInv /\ [Next]_vars =>
        [\A k \in Keys : row[k].status \in Final =>
            row'[k].status \in {row[k].status, "deleted"}]_vars
  <2>. SUFFICES ASSUME LedgerInv, [Next]_vars, NEW k \in Keys,
                       row[k].status \in Final
                PROVE  row'[k].status \in {row[k].status, "deleted"}
    OBVIOUS
  <2>1. Move(k)
    BY MoveStep DEF LedgerInv
  <2>. QED BY <2>1 DEF Move, Recorded, Tried, GivenUp, Finished, Handed, Final
<1>. QED BY <1>1, LedgerHolds, PTL DEF Spec, OutcomeIsFinal

\* The ledger implements the promise of OneShotDelivery: every initial state
\* maps to an initial state, every step to a step or to a stutter.
THEOREM ImplementsPromise == Spec => KeepsPromise
<1>1. Init => Promise!Init
  <2>1. Phase(RowIn("none").status) = "none"
    BY DEF RowIn, Phase, Final
  <2>. QED BY <2>1 DEF Init, Promise!Init
<1>2. LedgerInv /\ LedgerInv' /\ [Next]_vars => [Promise!Next]_(Promise!vars)
  <2>. SUFFICES ASSUME LedgerInv, LedgerInv', [Next]_vars PROVE Promise!Next
    OBVIOUS
  <2>1. DOMAIN copies' = Keys
    BY DEF LedgerInv, TypeOK
  <2>2. ASSUME NEW k \in Keys PROVE Promise!KeyStep(k)
    <3>1. /\ Move(k) /\ copies[k] \in Nat /\ copies[k] <= 1
          /\ row[k].status \in {"none", "queued"} => copies[k] = 0
          /\ row[k].status \in {"none", "queued", "sending", "deleted"} \cup Final
          /\ row'[k].status \in {"none", "queued", "sending", "deleted"} \cup Final
      BY MoveStep DEF LedgerInv, TypeOK, LedgerIsTruthful, AtMostOnePush, Row
    <3>. QED BY <3>1
             DEF Move, Recorded, Tried, GivenUp, Finished, Handed, Final, Phase,
                 Promise!KeyStep, Promise!Record, Promise!Try, Promise!HandOver,
                 Promise!Reopen, Promise!Settle, Promise!Delete, Promise!Rest,
                 Promise!Moves
  <2>. QED BY <2>1, <2>2 DEF Promise!Next
<1>. QED BY <1>1, <1>2, LedgerHolds, PTL DEF Spec, KeepsPromise, Promise!Spec
----------------------------------------------------------------------------
(* Subscriptions and sessions.                                             *)

\* Subscriptions may end in a step, and nothing else happens to them.
OnlyEnds == \A e \in Endpoints :
              /\ sub'[e].session = sub[e].session
              /\ sub'[e].status = "active" => sub[e].status = "active"
              /\ sub[e].status # "none" => sub'[e].status # "none"

\* Ending them, and leaving them alone, is such a step.
LEMMA EndsOnly ==
  ASSUME TypeOK, NEW E, NEW status \in {"revoked", "invalid"},
         sub' = sub \/ sub' = Ended(E, status)
  PROVE  OnlyEnds
BY EndedIsTyped DEF OnlyEnds

\* How a step may change sessions and subscriptions.
LEMMA BindingSplit ==
  TypeOK /\ [Next]_vars =>
    \/ \E s \in Sessions : Login(s) \/ Logout(s)
    \/ \E s \in Sessions, e \in Endpoints : SyncPushSubscription(s, e)
    \/ UNCHANGED session /\ OnlyEnds
<1>. SUFFICES ASSUME TypeOK, [Next]_vars
              PROVE  \/ \E s \in Sessions : Login(s) \/ Logout(s)
                     \/ \E s \in Sessions, e \in Endpoints : SyncPushSubscription(s, e)
                     \/ UNCHANGED session /\ OnlyEnds
  OBVIOUS
<1>0. UNCHANGED sub => OnlyEnds
  BY DEF OnlyEnds
<1>1. CASE UserRequest
  <2>1. CASE \/ \E s \in Sessions : RevokeCurrentSession(s)
             \/ \E s \in Sessions, e \in Endpoints : RevokePushSubscription(s, e)
             \/ \E e \in Endpoints : TestNotificationGone(e)
    BY <2>1, EndsOnly DEF RevokeCurrentSession, RevokePushSubscription,
                          TestNotificationGone, SubscriptionLeaves
  <2>2. CASE \/ \E u \in Users, active \in BOOLEAN : SetUserStatus(u, active)
             \/ \E u \in Users : LazyTransitionDue(u)
             \/ \E r \in Reminders, status \in ItemStatus : MoveItem(r, status)
             \/ \E r \in Reminders : PermanentlyDelete(r) \/ Cancel(r)
    BY <1>0, <2>2 DEF SetUserStatus, LazyTransitionDue, ClaimDue, MoveItem,
                      PermanentlyDelete, Cancel, LifecycleLeaves
  <2>. QED BY <1>1, <2>1, <2>2 DEF UserRequest
<1>2. CASE FinishDelivery
  BY <1>2, EndsOnly DEF FinishDelivery, SweepLeaves
<1>3. CASE \/ StartSweep \/ ReconcileStaleSending \/ SweepClaimDue
           \/ FailUnusableQueued \/ \E k \in Keys : ClaimNextQueued(k)
           \/ LeavePush \/ SendPush \/ FinishFails \/ SweepDies \/ Tick
           \/ UNCHANGED vars
  BY <1>0, <1>3
     DEF StartSweep, ReconcileStaleSending, SweepClaimDue, ClaimDue,
         FailUnusableQueued, ClaimNextQueued, LeavePush, SendPush, FinishFails,
         SweepDies, Tick, SweepLeaves, vars, db
<1>. QED BY <1>1, <1>2, <1>3 DEF Next, SweepStep

\* What registering does to a subscription.
LEMMA SyncRow ==
  ASSUME TypeOK, NEW s \in Sessions, NEW e \in Endpoints, SyncPushSubscription(s, e)
  PROVE  /\ sub'[e] = Bound(s, e) /\ MayBind(s, e) /\ Live(s, now)
         /\ \A f \in Endpoints : f # e =>
              /\ sub'[f].session = sub[f].session
              /\ sub'[f].status = "none" <=> sub[f].status = "none"
              /\ sub'[f].status = "active" =>
                   sub[f].status = "active" /\ sub[f].session # s
         /\ UNCHANGED session
BY EndedIsTyped DEF SyncPushSubscription, SubscriptionLeaves, BoundTo

BindingInv == ActiveHasSession /\ OneActivePerSession

\* No order of logins, logouts, registrations and revocations breaks the
\* binding of subscriptions to sessions.
LEMMA BindingStep ==
  TypeOK /\ BindingInv /\ [Next]_vars => BindingInv'
<1>. SUFFICES ASSUME TypeOK, BindingInv, [Next]_vars PROVE BindingInv'
  OBVIOUS
<1>. USE DEF BindingInv, ActiveHasSession, OneActivePerSession
<1>0. \A e \in Endpoints : sub[e].status = "active" => sub[e].session \in Sessions
  BY DEF TypeOK
<1>1. ASSUME NEW s \in Sessions, Login(s) PROVE BindingInv'
  BY <1>0, <1>1 DEF Login, TypeOK
<1>2. ASSUME NEW s \in Sessions, Logout(s) PROVE BindingInv'
  <2>1. \A e \in Endpoints :
          /\ sub'[e].session = sub[e].session
          /\ sub'[e].status = "active" =>
               sub[e].status = "active" /\ sub[e].session # s
    BY <1>2, EndedIsTyped DEF Logout, BoundTo
  <2>. QED BY <1>0, <1>2, <2>1 DEF Logout, TypeOK
<1>3. ASSUME NEW s \in Sessions, NEW e \in Endpoints, SyncPushSubscription(s, e)
      PROVE  BindingInv'
  <2>1. sub'[e] = Bound(s, e) /\ Live(s, now) /\ UNCHANGED session
    BY <1>3, SyncRow
  <2>2. \A f \in Endpoints : f # e =>
          /\ sub'[f].session = sub[f].session
          /\ sub'[f].status = "active" =>
               sub[f].status = "active" /\ sub[f].session # s
    BY <1>3, SyncRow
  <2>. QED BY <2>1, <2>2 DEF Bound, Live
<1>4. CASE UNCHANGED session /\ OnlyEnds
  BY <1>4 DEF OnlyEnds
<1>. QED BY <1>1, <1>2, <1>3, <1>4, BindingSplit

\* It holds of every behaviour.
THEOREM BindingHolds == Spec => []BindingInv
<1>1. Init => BindingInv
  BY DEF Init, NoSub, BindingInv, ActiveHasSession, OneActivePerSession
<1>2. TypeOK /\ BindingInv /\ [Next]_vars => BindingInv'
  BY BindingStep
<1>. QED BY <1>1, <1>2, TypeCorrect, PTL DEF Spec

\* An active subscription is bound to a session that was not revoked.
THEOREM NoOrphans == Spec => []ActiveHasSession
BY BindingHolds, PTL DEF BindingInv

\* A session never has two active subscriptions.
THEOREM OneActive == Spec => []OneActivePerSession
BY BindingHolds, PTL DEF BindingInv

\* An endpoint stays with its user, and a subscription is never forgotten.
LEMMA SameUserStep ==
  TypeOK /\ [Next]_vars =>
    \A e \in Endpoints : sub[e].status # "none" =>
       /\ sub'[e].status # "none"
       /\ SessionUser[sub'[e].session] = SessionUser[sub[e].session]
<1>. DEFINE Same == \A e \in Endpoints : sub[e].status # "none" =>
                      /\ sub'[e].status # "none"
                      /\ SessionUser[sub'[e].session] = SessionUser[sub[e].session]
<1>. SUFFICES ASSUME TypeOK, [Next]_vars PROVE Same
  OBVIOUS
<1>1. ASSUME NEW s \in Sessions, Login(s) \/ Logout(s) PROVE Same
  BY <1>1, EndedIsTyped DEF Login, Logout
<1>2. ASSUME NEW s \in Sessions, NEW e \in Endpoints, SyncPushSubscription(s, e)
      PROVE  Same
  <2>1. sub'[e] = Bound(s, e) /\ MayBind(s, e)
    BY <1>2, SyncRow
  <2>2. \A f \in Endpoints : f # e =>
          /\ sub'[f].session = sub[f].session
          /\ sub'[f].status = "none" <=> sub[f].status = "none"
    BY <1>2, SyncRow
  <2>. QED BY <2>1, <2>2 DEF Bound, MayBind
<1>3. CASE OnlyEnds
  BY <1>3 DEF OnlyEnds
<1>. QED BY <1>1, <1>2, <1>3, BindingSplit

\* Every delivery belongs to a subscription of the Reminder's own user.
OwnerInv ==
  /\ DeliveriesStayWithOwner
  /\ \A k \in Keys : row[k].status \notin {"none", "deleted"} =>
                      sub[k[2]].status # "none"

\* Recorded deliveries stay with the user of their Reminder.
THEOREM StayWithOwner == Spec => []DeliveriesStayWithOwner
<1>1. Init => OwnerInv
  BY DEF Init, RowIn, OwnerInv, DeliveriesStayWithOwner
<1>2. LedgerInv /\ TypeOK' /\ OwnerInv /\ [Next]_vars => OwnerInv'
  <2>. SUFFICES ASSUME LedgerInv, TypeOK', OwnerInv, [Next]_vars, NEW k \in Keys,
                       row'[k].status \notin {"none", "deleted"}
                PROVE  /\ sub'[k[2]].status # "none"
                       /\ sub'[k[2]].session \in Sessions
                       /\ SessionUser[sub'[k[2]].session] = Owner[k[1]]
    BY DEF OwnerInv, DeliveriesStayWithOwner
  <2>1. k[2] \in Endpoints
    BY KeyParts
  <2>2. Recorded(k) \/ row[k].status \notin {"none", "deleted"}
    BY MoveStep DEF LedgerInv, Move, Tried, GivenUp, Finished, Handed
  <2>3. /\ sub[k[2]].status # "none"
        /\ SessionUser[sub[k[2]].session] = Owner[k[1]]
    BY <2>2 DEF Recorded, OwnerInv, DeliveriesStayWithOwner
  <2>4. /\ sub'[k[2]].status # "none"
        /\ SessionUser[sub'[k[2]].session] = Owner[k[1]]
    BY <2>1, <2>3, SameUserStep DEF LedgerInv
  <2>. QED BY <2>1, <2>4 DEF TypeOK
<1>3. OwnerInv => DeliveriesStayWithOwner
  BY DEF OwnerInv
<1>. QED BY <1>1, <1>2, <1>3, LedgerHolds, TypeCorrect, PTL DEF Spec

----------------------------------------------------------------------------
(* Late calls.                                                             *)

\* Why a second late call cannot follow a first: a late call leaves the
\* subscription out of reach, and the next claim demands that it is not.
LateInv ==
  /\ AtMostOneLateCall
  /\ \A e \in Endpoints : Reachable(e, now) => lateCalls[e] = 0
  /\ pc = "send" => lateCalls[target[2]] = 0

\* Only a registration and an operator bring a subscription back in reach,
\* and they forget the late calls; a login cannot, and time does not.
LEMMA ReachStep ==
  TypeOK /\ BindingInv /\ [Next]_vars =>
    \/ Reconsider /\ UNCHANGED worker
    \/ /\ UNCHANGED lateCalls
       /\ \A e \in Endpoints : Reachable(e, now)' => Reachable(e, now)
    \/ SendPush
<1>. DEFINE Farther == \A e \in Endpoints : Reachable(e, now)' => Reachable(e, now)
<1>. SUFFICES ASSUME TypeOK, BindingInv, [Next]_vars
              PROVE  \/ Reconsider /\ UNCHANGED worker
                     \/ UNCHANGED lateCalls /\ Farther
                     \/ SendPush
  OBVIOUS
<1>0. UNCHANGED sub => OnlyEnds
  BY DEF OnlyEnds
<1>1. ASSUME OnlyEnds,
             \A e \in Endpoints : /\ sub[e].status = "active"
                                  /\ session'[sub[e].session] = "live"
                                  => session[sub[e].session] = "live",
             UNCHANGED inactive, now' \in {now, now + 1}
      PROVE  Farther
  <2>. SUFFICES ASSUME NEW e \in Endpoints, Reachable(e, now)' PROVE Reachable(e, now)
    OBVIOUS
  <2>1. sub[e].status = "active" /\ sub'[e].session = sub[e].session
    BY <1>1 DEF Reachable, OnlyEnds
  <2>2. ExpiresAt[sub[e].session] \in Nat /\ now \in Nat
    BY <2>1, TimeAssumption DEF TypeOK, TimeAssumption
  <2>3. now' < ExpiresAt[sub[e].session] => now < ExpiresAt[sub[e].session]
    BY <1>1, <2>2
  <2>. QED BY <1>1, <2>1, <2>3 DEF Reachable, Live
<1>2. ASSUME NEW s \in Sessions, NEW e \in Endpoints, SyncPushSubscription(s, e)
      PROVE  Reconsider /\ UNCHANGED worker
  BY <1>2 DEF SyncPushSubscription, SubscriptionLeaves
<1>3. ASSUME NEW u \in Users, NEW active \in BOOLEAN, SetUserStatus(u, active)
      PROVE  Reconsider /\ UNCHANGED worker
  BY <1>3 DEF SetUserStatus
<1>4. ASSUME NEW s \in Sessions, Login(s) PROVE UNCHANGED lateCalls /\ Farther
  <2>1. \A e \in Endpoints : sub[e].status = "active" => session[sub[e].session] = "live"
    BY DEF BindingInv, ActiveHasSession
  <2>. QED BY <1>1, <1>4, <2>1 DEF Login, history, OnlyEnds
<1>5. ASSUME NEW s \in Sessions, Logout(s) PROVE UNCHANGED lateCalls /\ Farther
  <2>1. OnlyEnds
    BY <1>5, EndsOnly DEF Logout
  <2>2. \A t \in Sessions : session'[t] = "live" => session[t] = "live"
    BY <1>5 DEF Logout, TypeOK
  <2>3. \A e \in Endpoints : sub[e].status = "active" => sub[e].session \in Sessions
    BY DEF TypeOK
  <2>. QED BY <1>1, <1>5, <2>1, <2>2, <2>3 DEF Logout, history
<1>6. CASE /\ UNCHANGED <<session, inactive, lateCalls>> /\ now' \in {now, now + 1}
           /\ OnlyEnds
  BY <1>1, <1>6
<1>7. CASE UserRequest
  <2>1. CASE \/ \E s \in Sessions : RevokeCurrentSession(s)
             \/ \E s \in Sessions, e \in Endpoints : RevokePushSubscription(s, e)
             \/ \E e \in Endpoints : TestNotificationGone(e)
             \/ \E u \in Users : LazyTransitionDue(u)
             \/ \E r \in Reminders, status \in ItemStatus : MoveItem(r, status)
             \/ \E r \in Reminders : PermanentlyDelete(r) \/ Cancel(r)
    <3>1. UNCHANGED <<session, inactive, lateCalls, now>>
      BY <2>1 DEF RevokeCurrentSession, RevokePushSubscription, TestNotificationGone,
                  SubscriptionLeaves, LazyTransitionDue, ClaimDue, MoveItem,
                  PermanentlyDelete, Cancel, LifecycleLeaves, history
    <3>2. CASE \/ \E s \in Sessions : RevokeCurrentSession(s)
               \/ \E s \in Sessions, e \in Endpoints : RevokePushSubscription(s, e)
               \/ \E e \in Endpoints : TestNotificationGone(e)
      <4>1. OnlyEnds
        BY <3>2, EndsOnly
           DEF RevokeCurrentSession, RevokePushSubscription, TestNotificationGone
      <4>. QED BY <1>6, <3>1, <4>1
    <3>3. CASE UNCHANGED sub
      BY <1>0, <1>6, <3>1, <3>3
    <3>4. \/ UNCHANGED sub \/ \E s \in Sessions : RevokeCurrentSession(s)
          \/ \E s \in Sessions, e \in Endpoints : RevokePushSubscription(s, e)
          \/ \E e \in Endpoints : TestNotificationGone(e)
      BY <2>1 DEF LazyTransitionDue, ClaimDue, MoveItem, PermanentlyDelete, Cancel,
                  LifecycleLeaves
    <3>. QED BY <3>2, <3>3, <3>4
  <2>. QED BY <1>2, <1>3, <1>4, <1>5, <1>7, <2>1 DEF UserRequest
<1>8. CASE \/ StartSweep \/ ReconcileStaleSending \/ SweepClaimDue
           \/ FailUnusableQueued \/ \E k \in Keys : ClaimNextQueued(k)
           \/ LeavePush \/ FinishDelivery \/ FinishFails \/ SweepDies \/ Tick
           \/ UNCHANGED vars
  <2>1. /\ UNCHANGED <<session, inactive, lateCalls>> /\ now' \in {now, now + 1}
        /\ UNCHANGED sub \/ FinishDelivery
    BY <1>8 DEF StartSweep, ReconcileStaleSending, SweepClaimDue, ClaimDue,
                FailUnusableQueued, ClaimNextQueued, LeavePush, FinishDelivery,
                FinishFails, SweepDies, Tick, SweepLeaves, vars, db, history
  <2>2. OnlyEnds
    BY <1>0, <2>1, EndsOnly DEF FinishDelivery
  <2>. QED BY <1>6, <2>1, <2>2
<1>. QED BY <1>7, <1>8 DEF Next, SweepStep

\* The worker comes to hold a delivery only by claiming one within reach.
LEMMA HoldsReachable ==
  TypeOK /\ [Next]_vars /\ pc' = "send" =>
    \/ pc = "send" /\ target' = target
    \/ target' \in Keys /\ Reachable(target'[2], now)
<1>. SUFFICES ASSUME TypeOK, [Next]_vars, pc' = "send"
              PROVE  \/ pc = "send" /\ target' = target
                     \/ target' \in Keys /\ Reachable(target'[2], now)
  OBVIOUS
<1>1. CASE UserRequest \/ Tick \/ UNCHANGED vars
  BY <1>1, RequestStep DEF worker
<1>2. ASSUME NEW k \in Keys, ClaimNextQueued(k)
      PROVE  target' \in Keys /\ Reachable(target'[2], now)
  BY <1>2 DEF ClaimNextQueued, Claimable, Usable
<1>3. CASE \/ StartSweep \/ ReconcileStaleSending \/ SweepClaimDue
           \/ FailUnusableQueued \/ LeavePush \/ SendPush \/ FinishDelivery
           \/ FinishFails \/ SweepDies
  BY <1>3 DEF StartSweep, ReconcileStaleSending, SweepClaimDue, FailUnusableQueued,
              LeavePush, SendPush, FinishDelivery, FinishFails, SweepDies, Goto
<1>. QED BY <1>1, <1>2, <1>3 DEF Next, SweepStep

\* Every action keeps LateInv.
LEMMA LateStep ==
  TypeOK /\ BindingInv /\ LateInv /\ [Next]_vars => LateInv'
<1>. SUFFICES ASSUME TypeOK, BindingInv, LateInv, [Next]_vars PROVE LateInv'
  OBVIOUS
<1>0. \A e \in Endpoints : lateCalls[e] \in Nat /\ lateCalls[e] <= 1
  BY DEF TypeOK, LateInv, AtMostOneLateCall
<1>1. CASE Reconsider /\ UNCHANGED worker
  <2>1. \A e \in Endpoints : /\ lateCalls'[e] \in {0, lateCalls[e]}
                             /\ Reachable(e, now)' => lateCalls'[e] = 0
    BY <1>1 DEF Reconsider
  <2>2. pc' = "send" => /\ target' = target /\ target[2] \in Endpoints
                        /\ lateCalls[target[2]] = 0
    BY <1>1, KeyParts DEF worker, LateInv, TypeOK
  <2>. QED BY <1>0, <2>1, <2>2 DEF LateInv, AtMostOneLateCall
<1>2. CASE /\ UNCHANGED lateCalls
           /\ \A e \in Endpoints : Reachable(e, now)' => Reachable(e, now)
  <2>1. pc' = "send" => lateCalls[target'[2]] = 0
    BY HoldsReachable, KeyParts DEF LateInv
  <2>. QED BY <1>2, <2>1 DEF LateInv, AtMostOneLateCall
<1>3. CASE SendPush
  <2>1. /\ target[2] \in Endpoints /\ lateCalls[target[2]] = 0 /\ pc' = "finish"
    BY <1>3, KeyParts DEF SendPush, Goto, LateInv, TypeOK
  <2>2. /\ lateCalls'[target[2]] \in {0, 1}
        /\ Reachable(target[2], now) => lateCalls'[target[2]] = 0
        /\ \A e \in Endpoints : e # target[2] => lateCalls'[e] = lateCalls[e]
    BY <1>3, <2>1 DEF SendPush, TypeOK
  <2>3. \A e \in Endpoints : Reachable(e, now)' => Reachable(e, now)
    BY <1>3 DEF SendPush, SweepLeaves, Reachable, Live
  <2>. QED BY <1>0, <2>1, <2>2, <2>3 DEF LateInv, AtMostOneLateCall
<1>. QED BY <1>1, <1>2, <1>3, ReachStep

\* Once a subscription may no longer be contacted, at most one call more
\* leaves for it, until it may be again.
THEOREM OneLateCall == Spec => []AtMostOneLateCall
<1>1. Init => LateInv
  BY DEF Init, LateInv, AtMostOneLateCall
<1>2. TypeOK /\ BindingInv /\ LateInv /\ [Next]_vars => LateInv'
  BY LateStep
<1>3. LateInv => AtMostOneLateCall
  BY DEF LateInv
<1>. QED BY <1>1, <1>2, <1>3, TypeCorrect, BindingHolds, PTL DEF Spec
=============================================================================
