------------------------ MODULE EmailDelivery_proofs ------------------------
(***************************************************************************)
(* What EmailDelivery.tla guarantees for every number of users, addresses  *)
(* and Reminders, every schedule, every delay and every length of run.     *)
(*                                                                         *)
(* The inductive invariant is TypeOK and the parts of IInv below; one      *)
(* lemma per part shows that every action keeps it.                        *)
(***************************************************************************)
EXTENDS EmailDelivery, TLAPS

----------------------------------------------------------------------------
(* Types of the operators the actions are built from.                      *)

\* Settling rows keeps them rows.
LEMMA SettledIsRow ==
  ASSUME TypeOK, NEW S, NEW status \in RowStatus
  PROVE  Settled(S, status) \in [Reminders -> Row]
<1>1. \A w \in Row : [w EXCEPT !.status = status] \in Row
  BY DEF Row
<1>. QED BY <1>1 DEF Settled, TypeOK

\* What the claims make of a row is a row.
LEMMA ClaimedIsRow ==
  ASSUME NEW w \in Row, attemptTime \in Nat
  PROVE  /\ w.to \in Addresses \cup {NoAddress}
         /\ w.checks + 1 \in Nat
         /\ Taken(w) \in Row
         /\ Probed(w) \in Row
         /\ \A status \in RowStatus : [w EXCEPT !.status = status] \in Row
         /\ \A t \in Nat \cup {Never} : [w EXCEPT !.checkAt = t] \in Row
<1>1. w.attempts + 1 \in Nat /\ w.checks + 1 \in Nat
  BY DEF Row
<1>2. "sending" \in RowStatus
  BY DEF RowStatus
<1>3. Taken(w) \in Row
  BY <1>1, <1>2 DEF Row, Taken
<1>4. Probed(w) \in Row
  BY <1>1 DEF Row, Probed
<1>. QED BY <1>1, <1>3, <1>4 DEF Row

\* Pausing an address keeps the settings settings.
LEMMA PausedIsSettings ==
  ASSUME TypeOK, NEW u, NEW a
  PROVE  Paused(u, a) \in [Users -> Settings]
<1>1. settings \in [Users -> Settings]
  BY DEF TypeOK
<1>2. CASE u \in Users
  <2>1. [settings[u] EXCEPT !.healthy = FALSE] \in Settings
    BY <1>1, <1>2 DEF Settings
  <2>. QED BY <1>1, <1>2, <2>1 DEF Paused
<1>3. CASE u \notin Users
  BY <1>1, <1>3 DEF Paused
<1>. QED BY <1>2, <1>3

\* The empty row and a new row are rows.
LEMMA NewRowIsRow ==
  /\ EmptyRow \in Row
  /\ [EmptyRow EXCEPT !.status = "deleted"] \in Row
  /\ \A to \in Addresses, time \in Nat : NewRow(to, time) \in Row
BY DEF EmptyRow, NewRow, Row, RowStatus, Waiting, Final, Never

\* Recording intents for due Reminders keeps every type.
LEMMA ClaimDueIsTyped ==
  ASSUME TypeOK, NEW D, NEW time \in Nat, ClaimDue(D, time)
  PROVE  /\ reminder' \in [Reminders -> ReminderStatus]
         /\ row' \in [Reminders -> Row]
<1>1. reminder' \in [Reminders -> ReminderStatus]
  BY DEF ClaimDue, TypeOK, ReminderStatus
<1>2. \A r \in Reminders : settings[Owner[r]].address \in Addresses \cup {NoAddress}
  BY OwnerAssumption DEF OwnerAssumption, TypeOK, Settings
<1>3. row' \in [Reminders -> Row]
  BY <1>2, NewRowIsRow DEF ClaimDue, TypeOK, Reaches
<1>. QED BY <1>1, <1>3

\* The status that ends a row before sending is one the ledger knows.
LEMMA PreSendTerminalStatus ==
  \A r : /\ PreSendTerminal(r) \in {"none", "expired", "suppressed"}
         /\ PreSendTerminal(r) # "none" => PreSendTerminal(r) \in Final
BY DEF PreSendTerminal, Final

\* The row of the target after the provider's answer.
LEMMA AnsweredIsRow ==
  ASSUME TypeOK, NEW w \in Row
  PROVE  /\ Answered(w) \in Row
         /\ Answered(w).status \in Final \cup {"retry_wait"}
<1>. USE DEF Row, RowStatus, Waiting, Final, TypeOK
<1>1. AfterRetryable(w) \in Row
  <2>1. CASE w.attempts \notin DOMAIN RetryDelay
    BY <2>1 DEF AfterRetryable
  <2>2. CASE w.attempts \in DOMAIN RetryDelay
    <3>1. now + RetryDelay[w.attempts] \in Nat
      BY <2>2, RetryAssumption DEF RetryAssumption
    <3>. QED BY <2>2, <3>1 DEF AfterRetryable
  <2>. QED BY <2>1, <2>2
<1>2. AfterRetryable(w).status \in {"failed", "expired", "retry_wait"}
  BY DEF AfterRetryable
<1>3. now + FirstCheckDelay \in Nat
  BY TimeAssumption DEF TimeAssumption
<1>. QED BY <1>1, <1>2, <1>3 DEF Answered

----------------------------------------------------------------------------
(* Type correctness.                                                       *)

\* Every action keeps the type invariant.
LEMMA TypeStep == TypeOK /\ [Next]_vars => TypeOK'
<1>. SUFFICES ASSUME TypeOK, [Next]_vars PROVE TypeOK'
  OBVIOUS
<1>. USE DEF TypeOK, db, held, worker, history, Pcs
<1>1. ASSUME NEW u \in Users, NEW a \in Addresses, SetCandidateAddress(u, a)
      PROVE  TypeOK'
  <2>1. settings' \in [Users -> Settings]
    BY <1>1 DEF SetCandidateAddress, Settings
  <2>2. row' \in [Reminders -> Row]
    BY <1>1, SettledIsRow DEF SetCandidateAddress, RowStatus, Final
  <2>3. lateCalls' \in [Reminders -> Nat]
    BY <1>1 DEF SetCandidateAddress, Reconsider
  <2>. QED BY <1>1, <2>1, <2>2, <2>3 DEF SetCandidateAddress, RequestLeaves
<1>2. ASSUME NEW u \in Users, NEW a \in Addresses, PauseMatchingAddress(u, a)
      PROVE  TypeOK'
  <2>1. settings' \in [Users -> Settings]
    BY <1>2, PausedIsSettings DEF PauseMatchingAddress
  <2>2. row' \in [Reminders -> Row]
    BY <1>2, SettledIsRow DEF PauseMatchingAddress, RowStatus, Final
  <2>3. lateCalls' \in [Reminders -> Nat]
    BY <1>2 DEF PauseMatchingAddress, Reconsider
  <2>. QED BY <1>2, <2>1, <2>2, <2>3 DEF PauseMatchingAddress, RequestLeaves
<1>3. ASSUME NEW u \in Users, NEW enabled \in BOOLEAN, SetEnabled(u, enabled)
      PROVE  TypeOK'
  <2>1. settings' \in [Users -> Settings]
    BY <1>3 DEF SetEnabled, Settings
  <2>2. row' \in [Reminders -> Row]
    BY <1>3, SettledIsRow DEF SetEnabled, RowStatus, Final
  <2>3. lateCalls' \in [Reminders -> Nat]
    BY <1>3 DEF SetEnabled, Reconsider
  <2>. QED BY <1>3, <2>1, <2>2, <2>3 DEF SetEnabled, RequestLeaves
<1>4. ASSUME NEW u \in Users, NEW active \in BOOLEAN, SetUserStatus(u, active)
      PROVE  TypeOK'
  BY <1>4 DEF SetUserStatus
<1>5. ASSUME NEW u \in Users, ConfirmVerification(u)
      PROVE  TypeOK'
  <2>1. settings' \in [Users -> Settings]
    BY <1>5 DEF ConfirmVerification, Settings
  <2>2. lateCalls' \in [Reminders -> Nat]
    BY <1>5 DEF ConfirmVerification, Reconsider
  <2>. QED BY <1>5, <2>1, <2>2 DEF ConfirmVerification, RequestLeaves
<1>6. ASSUME NEW u \in Users, LazyTransitionDue(u)
      PROVE  TypeOK'
  <2>1. ClaimDue(Due(now, RowsOf(u)), now)
    BY <1>6 DEF LazyTransitionDue
  <2>2. reminder' \in [Reminders -> ReminderStatus] /\ row' \in [Reminders -> Row]
    BY <2>1, ClaimDueIsTyped
  <2>. QED BY <1>6, <2>1, <2>2 DEF LazyTransitionDue, ClaimDue
<1>7. ASSUME NEW r \in Reminders, NEW status \in ItemStatus, MoveItem(r, status)
      PROVE  TypeOK'
  BY <1>7 DEF MoveItem, LifecycleLeaves, ReminderStatus
<1>8. ASSUME NEW r \in Reminders, PermanentlyDelete(r)
      PROVE  TypeOK'
  <2>1. row' \in [Reminders -> Row]
    BY <1>8, NewRowIsRow DEF PermanentlyDelete
  <2>. QED BY <1>8, <2>1 DEF PermanentlyDelete, LifecycleLeaves, ItemStatus, ReminderStatus
<1>9. ASSUME NEW r \in Reminders, Cancel(r)
      PROVE  TypeOK'
  BY <1>9 DEF Cancel, LifecycleLeaves, ReminderStatus
<1>10. CASE StartSweep
  BY <1>10 DEF StartSweep, Goto
<1>11. CASE SweepClaimDue
  <2>1. PICK D : ClaimDue(D, sweepTime)
    BY <1>11 DEF SweepClaimDue
  <2>2. reminder' \in [Reminders -> ReminderStatus] /\ row' \in [Reminders -> Row]
    BY <2>1, ClaimDueIsTyped
  <2>. QED BY <1>11, <2>1, <2>2 DEF SweepClaimDue, Goto, ClaimDue
<1>12. CASE ReconcileStaleSending
  <2>1. \A w \in Row : [w EXCEPT !.status = "unknown"] \in Row
    BY DEF Row, RowStatus, Final
  <2>2. row' \in [Reminders -> Row]
    BY <1>12, <2>1 DEF ReconcileStaleSending
  <2>. QED BY <1>12, <2>2, TimeAssumption
           DEF ReconcileStaleSending, Goto, TimeAssumption
<1>13. CASE ReserveSend
  BY <1>13 DEF ReserveSend, Goto
<1>14. CASE LeaveSends
  BY <1>14, TimeAssumption DEF LeaveSends, Goto, TimeAssumption
<1>15. CASE ClaimNothing
  BY <1>15, TimeAssumption DEF ClaimNothing, Goto, TimeAssumption
<1>16. ASSUME NEW r \in Reminders, ClaimSettles(r)
       PROVE  TypeOK'
  <2>1. \A w \in Row : [w EXCEPT !.status = PreSendTerminal(r)] \in Row
    BY <1>16, PreSendTerminalStatus DEF ClaimSettles, Row, RowStatus
  <2>2. row' \in [Reminders -> Row]
    BY <1>16, <2>1 DEF ClaimSettles
  <2>. QED BY <1>16, <2>2 DEF ClaimSettles, Goto
<1>17. ASSUME NEW r \in Reminders, ClaimNextDelivery(r)
       PROVE  TypeOK'
  <2>1. /\ Taken(row[r]) \in Row
        /\ row[r].to \in Addresses \cup {NoAddress}
    BY ClaimedIsRow
  <2>2. row' \in [Reminders -> Row]
    BY <1>17, <2>1 DEF ClaimNextDelivery
  <2>. QED BY <1>17, <2>1, <2>2 DEF ClaimNextDelivery, Goto
<1>18. ASSUME NEW r \in Reminders, ClaimNextStatusCheck(r)
       PROVE  TypeOK'
  <2>1. /\ Probed(row[r]) \in Row
        /\ row[r].to \in Addresses \cup {NoAddress}
        /\ row[r].checks + 1 \in Nat
    BY ClaimedIsRow
  <2>2. row' \in [Reminders -> Row]
    BY <1>18, <2>1 DEF ClaimNextStatusCheck
  <2>. QED BY <1>18, <2>1, <2>2 DEF ClaimNextStatusCheck, Goto
<1>19. CASE RevalidatePasses
  BY <1>19 DEF RevalidatePasses, Goto
<1>20. CASE RevalidateFails
  <2>1. target \in Reminders
    BY <1>20 DEF RevalidateFails, Goto
  <2>2. PreSendTerminal(target) # "none" =>
          [row[target] EXCEPT !.status = PreSendTerminal(target)] \in Row
    BY <2>1, PreSendTerminalStatus, ClaimedIsRow DEF RowStatus
  <2>3. row' \in [Reminders -> Row]
    BY <1>20, <2>2 DEF RevalidateFails
  <2>. QED BY <1>20, <2>3 DEF RevalidateFails, Goto, Dropped, NoAnswer
<1>21. CASE SendReminder
  <2>1. target \in Reminders
    BY <1>21 DEF SendReminder, Goto
  <2>2. PICK a \in Answers, taken \in {0, 1} :
          answer' = a /\ copies' = [copies EXCEPT ![target] = @ + taken]
    BY <1>21 DEF SendReminder
  <2>3. answer' \in [outcome : Outcomes \cup {"none"}, pause : BOOLEAN]
    BY <2>2 DEF Answers
  <2>4. copies' \in [Reminders -> Nat]
    BY <2>1, <2>2
  <2>5. lateCalls' \in [Reminders -> Nat]
    BY <1>21, <2>1 DEF SendReminder
  <2>. QED BY <1>21, <2>1, <2>3, <2>4, <2>5 DEF SendReminder, Goto
<1>22. CASE FinishDeliveryAttempt
  <2>1. target \in Reminders
    BY <1>22 DEF FinishDeliveryAttempt, Goto
  <2>2. settings' \in [Users -> Settings]
    BY <1>22, PausedIsSettings DEF FinishDeliveryAttempt
  <2>3. Answered(row[target]) \in Row
    BY <2>1, AnsweredIsRow
  <2>4. (IF answer.pause THEN Settled(RowsTo(Owner[target], sentTo), "suppressed")
         ELSE row) \in [Reminders -> Row]
    BY SettledIsRow DEF RowStatus, Final
  <2>5. row' \in [Reminders -> Row]
    BY <1>22, <2>3, <2>4 DEF FinishDeliveryAttempt
  <2>. QED BY <1>22, <2>2, <2>5 DEF FinishDeliveryAttempt, Goto, Dropped, NoAnswer
<1>23. CASE FinishFails
  BY <1>23 DEF FinishFails, Goto, Dropped, NoAnswer
<1>24. CASE LeaveChecks
  BY <1>24 DEF LeaveChecks, Goto, SweepOver
<1>25. CASE FinishStatusCheck
  <2>1. settings' \in [Users -> Settings]
    BY <1>25, PausedIsSettings DEF FinishStatusCheck
  <2>2. target \in Reminders
    BY <1>25 DEF FinishStatusCheck, Goto
  <2>3. \A n \in DOMAIN RecheckDelay : now + RecheckDelay[n] \in Nat
    BY CheckAssumption DEF CheckAssumption
  <2>4. \A t \in Nat \cup {Never} : [row[target] EXCEPT !.checkAt = t] \in Row
    BY <2>2, ClaimedIsRow
  <2>5. row[target].checkAt \in Nat \cup {Never}
    BY <2>2 DEF Row
  <2>6. Settled(RowsTo(Owner[target], sentTo), "suppressed") \in [Reminders -> Row]
    BY SettledIsRow DEF RowStatus, Final
  <2>7. PICK base \in [Reminders -> Row], time \in Nat \cup {Never} :
          row' = [base EXCEPT ![target] = [row[target] EXCEPT !.checkAt = time]]
    BY <1>25, <2>3, <2>5, <2>6 DEF FinishStatusCheck
  <2>8. row' \in [Reminders -> Row]
    BY <2>4, <2>7
  <2>. QED BY <1>25, <2>1, <2>8 DEF FinishStatusCheck, Goto, Dropped, NoAnswer
<1>26. CASE SweepDies
  BY <1>26 DEF SweepDies, Dropped, SweepOver, NoAnswer
<1>27. CASE Tick
  BY <1>27 DEF Tick
<1>28. CASE UNCHANGED vars
  BY <1>28 DEF vars
<1>. QED BY <1>1, <1>2, <1>3, <1>4, <1>5, <1>6, <1>7, <1>8, <1>9, <1>10, <1>11,
            <1>12, <1>13, <1>14, <1>15, <1>16, <1>17, <1>18, <1>19, <1>20, <1>21,
            <1>22, <1>23, <1>24, <1>25, <1>26, <1>27, <1>28
         DEF Next, UserRequest, SweepStep

\* Every variable keeps its type, through every request, answer, crash and
\* restart of the sweep.
THEOREM TypeCorrect == Spec => []TypeOK
<1>1. Init => TypeOK
  BY NewRowIsRow DEF Init, TypeOK, ItemStatus, ReminderStatus, Settings, Pcs, NoAnswer
<1>2. TypeOK /\ [Next]_vars => TypeOK'
  BY TypeStep
<1>. QED BY <1>1, <1>2, PTL DEF Spec

----------------------------------------------------------------------------
(* The strengthening.                                                      *)

\* What the worker knows of the delivery it holds between its transactions.
\* Until it sends, nobody took a message; a definite failure means the same.
\* The row can only have been deleted under it.
Held ==
  /\ pc \in {"revalidate", "send", "finish"} =>
       /\ row[target].status \in {"sending", "deleted"}
       /\ row[target].status = "sending" => row[target].to = sentTo
  /\ pc \in {"revalidate", "send"} => copies[target] = 0
  /\ pc = "finish" =>
       /\ answer.outcome \in Outcomes
       /\ answer.outcome \in {"retryable", "permanent"} => copies[target] = 0
  /\ pc = "query" => row[target].status \in {"accepted", "deleted"}

\* A row appears, for a Reminder that became due with the step.
Appears(r) == /\ row[r].status = "none" /\ row'[r].status = "queued"
              /\ row'[r].attempts = 0 /\ row'[r].lastAt = 0
              /\ reminder'[r] = "due" /\ Eligible(r)'

\* What a request or the passing of time does to one row.
RequestRow(r) ==
  \/ row'[r] = row[r]
  \/ row[r].status \in Waiting /\ row'[r] = [row[r] EXCEPT !.status = "suppressed"]
  \/ Appears(r)
  \/ row'[r] = [EmptyRow EXCEPT !.status = "deleted"]

\* What any step does to one row and to its messages.
Recorded(r) == Appears(r) /\ copies'[r] = copies[r]
Deleted(r) == /\ row'[r] = [EmptyRow EXCEPT !.status = "deleted"]
              /\ copies'[r] = copies[r]
Kept(r) == /\ row'[r].status = row[r].status /\ copies'[r] = copies[r]
           /\ row[r].status \in Waiting => row'[r] = row[r]
Ended(r) == /\ row[r].status \in Waiting /\ row'[r].status \in Final
            /\ copies'[r] = copies[r]
Tried(r) == /\ row[r].status \in Waiting /\ row'[r].status = "sending"
            /\ copies'[r] = copies[r]
Handed(r) == /\ row[r].status \in {"sending", "deleted"}
             /\ row'[r].status = row[r].status
             /\ copies[r] = 0 /\ copies'[r] = 1
Finished(r) == /\ row[r].status = "sending" /\ copies'[r] = copies[r]
               /\ \/ row'[r].status \in {"accepted", "unknown"}
                  \/ row'[r].status \in Final /\ copies[r] = 0
                  \/ /\ row'[r].status = "retry_wait" /\ copies[r] = 0
                     /\ row'[r].attempts \in DOMAIN RetryDelay
                     /\ row'[r].readyAt = now + RetryDelay[row'[r].attempts]
                     /\ row'[r].readyAt < Expiry(r)
Move(r) == \/ Recorded(r) \/ Deleted(r)
           \/ /\ row'[r].to = row[r].to
              /\ row'[r].lastAt \in {row[r].lastAt, attemptTime}
              /\ Kept(r) \/ Ended(r) \/ Tried(r) \/ Handed(r) \/ Finished(r)

\* Settling rows touches waiting rows alone.
LEMMA SettledRow ==
  ASSUME NEW S, NEW status, NEW r \in Reminders
  PROVE  \/ Settled(S, status)[r] = row[r]
         \/ /\ row[r].status \in Waiting
            /\ Settled(S, status)[r] = [row[r] EXCEPT !.status = status]
BY DEF Settled

\* Recording intents gives rows to Reminders that had none.
LEMMA ClaimDueRow ==
  ASSUME NEW D, NEW time, ClaimDue(D, time), NEW r \in Reminders
  PROVE  row'[r] = row[r] \/ Appears(r)
<1>1. ASSUME row'[r] # row[r]
      PROVE  /\ r \in D /\ row[r].status = "none" /\ settings' = settings
             /\ row'[r] = NewRow(settings[Owner[r]].address, time)
             /\ Reaches(settings[Owner[r]], settings[Owner[r]].address)
  BY <1>1 DEF ClaimDue
<1>2. /\ NewRow(settings[Owner[r]].address, time).status = "queued"
      /\ NewRow(settings[Owner[r]].address, time).attempts = 0
      /\ NewRow(settings[Owner[r]].address, time).lastAt = 0
      /\ NewRow(settings[Owner[r]].address, time).to = settings[Owner[r]].address
  BY DEF NewRow, EmptyRow
<1>3. r \in D => reminder'[r] = "due"
  BY DEF ClaimDue
<1>. QED BY <1>1, <1>2, <1>3 DEF Appears, Eligible

\* Requests and time leave the worker and the messages alone.
LEMMA RequestStep ==
  TypeOK /\ (UserRequest \/ Tick \/ UNCHANGED vars) =>
    /\ UNCHANGED <<worker, copies>>
    /\ \A r \in Reminders : RequestRow(r)
<1>. SUFFICES ASSUME TypeOK, UserRequest \/ Tick \/ UNCHANGED vars
              PROVE  /\ UNCHANGED <<worker, copies>>
                     /\ \A r \in Reminders : RequestRow(r)
  OBVIOUS
<1>. USE DEF RequestRow
<1>1. ASSUME NEW u \in Users, NEW a \in Addresses, SetCandidateAddress(u, a)
      PROVE  UNCHANGED <<worker, copies>> /\ \A r \in Reminders : RequestRow(r)
  BY <1>1, SettledRow DEF SetCandidateAddress, RequestLeaves
<1>2. ASSUME NEW u \in Users, NEW a \in Addresses, PauseMatchingAddress(u, a)
      PROVE  UNCHANGED <<worker, copies>> /\ \A r \in Reminders : RequestRow(r)
  BY <1>2, SettledRow DEF PauseMatchingAddress, RequestLeaves
<1>3. ASSUME NEW u \in Users, NEW enabled \in BOOLEAN, SetEnabled(u, enabled)
      PROVE  UNCHANGED <<worker, copies>> /\ \A r \in Reminders : RequestRow(r)
  BY <1>3, SettledRow DEF SetEnabled, RequestLeaves
<1>4. ASSUME NEW u \in Users, NEW active \in BOOLEAN, SetUserStatus(u, active)
      PROVE  UNCHANGED <<worker, copies>> /\ \A r \in Reminders : RequestRow(r)
  BY <1>4 DEF SetUserStatus, history
<1>5. ASSUME NEW u \in Users, ConfirmVerification(u)
      PROVE  UNCHANGED <<worker, copies>> /\ \A r \in Reminders : RequestRow(r)
  BY <1>5 DEF ConfirmVerification, RequestLeaves
<1>6. ASSUME NEW u \in Users, LazyTransitionDue(u)
      PROVE  UNCHANGED <<worker, copies>> /\ \A r \in Reminders : RequestRow(r)
  <2>1. ClaimDue(Due(now, RowsOf(u)), now)
    BY <1>6 DEF LazyTransitionDue
  <2>2. \A r \in Reminders : RequestRow(r)
    BY <2>1, ClaimDueRow
  <2>. QED BY <1>6, <2>2 DEF LazyTransitionDue, history
<1>7. ASSUME NEW r \in Reminders, NEW status \in ItemStatus, MoveItem(r, status)
      PROVE  UNCHANGED <<worker, copies>> /\ \A q \in Reminders : RequestRow(q)
  BY <1>7 DEF MoveItem, LifecycleLeaves, history
<1>8. ASSUME NEW r \in Reminders, PermanentlyDelete(r)
      PROVE  UNCHANGED <<worker, copies>> /\ \A q \in Reminders : RequestRow(q)
  BY <1>8 DEF PermanentlyDelete, LifecycleLeaves, history, TypeOK
<1>9. ASSUME NEW r \in Reminders, Cancel(r)
      PROVE  UNCHANGED <<worker, copies>> /\ \A q \in Reminders : RequestRow(q)
  BY <1>9 DEF Cancel, LifecycleLeaves, history
<1>10. CASE Tick
  BY <1>10 DEF Tick, db, history
<1>11. CASE UNCHANGED vars
  BY <1>11 DEF vars, db, history
<1>. QED BY <1>1, <1>2, <1>3, <1>4, <1>5, <1>6, <1>7, <1>8, <1>9, <1>10, <1>11
         DEF UserRequest

\* A row that rests, and a waiting row that is suppressed, move.
LEMMA RestsOrSuppressed ==
  ASSUME TypeOK, NEW r \in Reminders, copies'[r] = copies[r],
         \/ row'[r] = row[r]
         \/ /\ row[r].status \in Waiting
            /\ row'[r] = [row[r] EXCEPT !.status = "suppressed"]
  PROVE  Move(r)
<1>1. /\ [row[r] EXCEPT !.status = "suppressed"].status = "suppressed"
      /\ [row[r] EXCEPT !.status = "suppressed"].to = row[r].to
      /\ [row[r] EXCEPT !.status = "suppressed"].lastAt = row[r].lastAt
  BY DEF TypeOK, Row
<1>. QED BY <1>1 DEF Move, Kept, Ended, Final

\* Every step moves every row in one of the ways of Move.
LEMMA MoveStep ==
  TypeOK /\ Held /\ [Next]_vars => \A r \in Reminders : Move(r)
<1>. SUFFICES ASSUME TypeOK, Held, [Next]_vars PROVE \A r \in Reminders : Move(r)
  OBVIOUS
<1>. USE DEF Move, Kept, Recorded, Ended, Tried, Handed, Finished, Deleted, Final
<1>1. CASE UserRequest \/ Tick \/ UNCHANGED vars
  <2>. SUFFICES ASSUME NEW r \in Reminders PROVE Move(r)
    OBVIOUS
  <2>1. copies'[r] = copies[r] /\ RequestRow(r)
    BY <1>1, RequestStep
  <2>. QED BY <2>1, RestsOrSuppressed DEF RequestRow
<1>2. CASE \/ StartSweep \/ ReserveSend \/ LeaveSends \/ ClaimNothing
           \/ RevalidatePasses \/ FinishFails \/ LeaveChecks \/ SweepDies
  BY <1>2 DEF StartSweep, ReserveSend, LeaveSends, ClaimNothing, RevalidatePasses,
              FinishFails, LeaveChecks, SweepDies, db, history
<1>3. CASE SweepClaimDue
  <2>1. PICK D : ClaimDue(D, sweepTime)
    BY <1>3 DEF SweepClaimDue
  <2>. QED BY <1>3, <2>1, ClaimDueRow DEF SweepClaimDue, history
<1>4. CASE ReconcileStaleSending
  BY <1>4 DEF ReconcileStaleSending, Stale, history, TypeOK, Row
<1>5. ASSUME NEW q \in Reminders, ClaimSettles(q)
      PROVE  \A r \in Reminders : Move(r)
  BY <1>5, PreSendTerminalStatus
     DEF ClaimSettles, NextRow, Claimable, Waiting, history, TypeOK, Row
<1>6. ASSUME NEW q \in Reminders, ClaimNextDelivery(q)
      PROVE  \A r \in Reminders : Move(r)
  BY <1>6 DEF ClaimNextDelivery, NextRow, Claimable, Waiting, Taken, history, TypeOK, Row
<1>7. ASSUME NEW q \in Reminders, ClaimNextStatusCheck(q)
      PROVE  \A r \in Reminders : Move(r)
  BY <1>7 DEF ClaimNextStatusCheck, Checkable, Probed, Waiting, history, TypeOK, Row
<1>8. CASE RevalidateFails
  <2>1. copies[target] = 0
    BY <1>8 DEF Held, RevalidateFails, Goto
  <2>2. PreSendTerminal(target) # "none" =>
          PreSendTerminal(target) \in {"expired", "suppressed"}
    BY PreSendTerminalStatus
  <2>. QED BY <1>8, <2>1, <2>2 DEF RevalidateFails, history, TypeOK, Row
<1>9. CASE SendReminder
  <2>1. /\ target \in Reminders /\ copies[target] = 0
        /\ row[target].status \in {"sending", "deleted"}
    BY <1>9 DEF Held, TypeOK, SendReminder, Goto
  <2>2. PICK taken \in {0, 1} : copies' = [copies EXCEPT ![target] = @ + taken]
    BY <1>9 DEF SendReminder
  <2>3. row' = row
    BY <1>9 DEF SendReminder, db
  <2>. QED BY <2>1, <2>2, <2>3 DEF TypeOK
<1>10. CASE FinishDeliveryAttempt
  <2>1. /\ target \in Reminders /\ row[target].status = "sending"
        /\ answer.outcome \in Outcomes
        /\ answer.outcome \in {"retryable", "permanent"} => copies[target] = 0
    BY <1>10 DEF Held, TypeOK, FinishDeliveryAttempt, Goto
  <2>2. row[target] \in Row
    BY <2>1 DEF TypeOK
  <2>3. Move(target)
    <3>1. row'[target] = Answered(row[target])
      BY <1>10, <2>1, SettledIsRow
         DEF FinishDeliveryAttempt, TypeOK, RowStatus, Final
    <3>2. LET w == AfterRetryable(row[target]) IN
          /\ w.to = row[target].to /\ w.lastAt = row[target].lastAt
          /\ \/ w.status \in {"failed", "expired"}
             \/ /\ w.status = "retry_wait" /\ w.attempts \in DOMAIN RetryDelay
                /\ w.readyAt = now + RetryDelay[w.attempts]
                /\ w.readyAt < Expiry(target)
      <4>1. /\ Expiry(target) \in Int
            /\ \A n \in DOMAIN RetryDelay : now + RetryDelay[n] \in Int
        BY <2>1, TimeAssumption, RetryAssumption
           DEF Expiry, TimeAssumption, RetryAssumption, TypeOK
      <4>. QED BY <2>2, <4>1 DEF AfterRetryable, Row
    <3>3. copies' = copies
      BY <1>10 DEF FinishDeliveryAttempt, history
    <3>4. CASE answer.outcome = "retryable"
      <4>1. row'[target] = AfterRetryable(row[target]) /\ copies[target] = 0
        BY <2>1, <3>1, <3>4 DEF Answered
      <4>. QED BY <2>1, <3>2, <3>3, <4>1
    <3>5. CASE answer.outcome # "retryable"
      <4>1. /\ row'[target].to = row[target].to
            /\ row'[target].lastAt = row[target].lastAt
            /\ \/ row'[target].status \in {"accepted", "unknown"}
               \/ answer.outcome = "permanent" /\ row'[target].status = "failed"
        BY <2>1, <2>2, <3>1, <3>5 DEF Answered, Outcomes, Row
      <4>. QED BY <2>1, <3>3, <4>1
    <3>. QED BY <3>4, <3>5
  <2>4. ASSUME NEW r \in Reminders, r # target PROVE Move(r)
    <3>1. \/ row'[r] = row[r]
          \/ row'[r] = Settled(RowsTo(Owner[target], sentTo), "suppressed")[r]
      BY <1>10, <2>4, SettledIsRow DEF FinishDeliveryAttempt, TypeOK, RowStatus, Final
    <3>2. copies' = copies
      BY <1>10 DEF FinishDeliveryAttempt, history
    <3>3. \/ row'[r] = row[r]
          \/ /\ row[r].status \in Waiting
             /\ row'[r] = [row[r] EXCEPT !.status = "suppressed"]
      BY <3>1, SettledRow
    <3>. QED BY <3>2, <3>3, RestsOrSuppressed
  <2>. QED BY <2>3, <2>4
<1>11. CASE FinishStatusCheck
  <2>1. target \in Reminders /\ row[target].status \in {"accepted", "deleted"}
    BY <1>11 DEF Held, FinishStatusCheck, TypeOK, Goto
  <2>2. copies' = copies
    BY <1>11 DEF FinishStatusCheck, history
  <2>3. PICK base \in [Reminders -> Row] :
          /\ \E time :
               row' = [base EXCEPT ![target] = [row[target] EXCEPT !.checkAt = time]]
          /\ \/ base = row
             \/ base = Settled(RowsTo(Owner[target], sentTo), "suppressed")
    <3>1. Settled(RowsTo(Owner[target], sentTo), "suppressed") \in [Reminders -> Row]
      BY SettledIsRow DEF RowStatus, Final
    <3>. QED BY <1>11, <3>1 DEF FinishStatusCheck, TypeOK
  <2>4. Move(target)
    BY <2>1, <2>2, <2>3 DEF TypeOK, Row, Waiting
  <2>5. ASSUME NEW r \in Reminders, r # target PROVE Move(r)
    <3>1. row'[r] = base[r]
      BY <2>3, <2>5
    <3>2. \/ base[r] = row[r]
          \/ /\ row[r].status \in Waiting
             /\ base[r] = [row[r] EXCEPT !.status = "suppressed"]
      <4>1. CASE base = row
        BY <4>1
      <4>2. CASE base = Settled(RowsTo(Owner[target], sentTo), "suppressed")
        BY <4>2, SettledRow
      <4>. QED BY <2>3, <4>1, <4>2
    <3>. QED BY <2>2, <3>1, <3>2, RestsOrSuppressed
  <2>. QED BY <2>4, <2>5
<1>. QED BY <1>1, <1>2, <1>3, <1>4, <1>5, <1>6, <1>7, <1>8, <1>9, <1>10, <1>11
         DEF Next, SweepStep

----------------------------------------------------------------------------
(* The ledger: one message, truthfully recorded.                           *)

\* No step makes a row say that nothing was sent when something was.
LEMMA LedgerStep ==
  TypeOK /\ Held /\ LedgerIsTruthful /\ AtMostOneCopy /\ [Next]_vars =>
    LedgerIsTruthful' /\ AtMostOneCopy'
<1>. SUFFICES ASSUME TypeOK, Held, LedgerIsTruthful, AtMostOneCopy, [Next]_vars,
                     NEW r \in Reminders
              PROVE  /\ copies'[r] > 0 =>
                          row'[r].status \in {"sending", "accepted", "unknown", "deleted"}
                     /\ copies'[r] <= 1
  BY DEF LedgerIsTruthful, AtMostOneCopy
<1>1. /\ Move(r) /\ copies[r] \in Nat /\ copies[r] <= 1
      /\ copies[r] > 0 => row[r].status \in {"sending", "accepted", "unknown", "deleted"}
  BY MoveStep DEF TypeOK, LedgerIsTruthful, AtMostOneCopy
<1>. QED BY <1>1 DEF Move, Kept, Recorded, Appears, Ended, Tried, Handed, Finished,
                     Deleted, EmptyRow, Waiting, Final

\* What the worker holds stays true, whatever happens between its steps.
LEMMA HeldStep ==
  TypeOK /\ Held /\ LedgerIsTruthful /\ [Next]_vars => Held'
<1>. SUFFICES ASSUME TypeOK, Held, LedgerIsTruthful, [Next]_vars PROVE Held'
  OBVIOUS
<1>1. CASE UserRequest \/ Tick \/ UNCHANGED vars
  <2>1. UNCHANGED <<worker, copies>> /\ \A r \in Reminders : RequestRow(r)
    BY <1>1, RequestStep
  <2>2. pc \in {"revalidate", "send", "finish", "query"} =>
          /\ target \in Reminders
          /\ row[target].status \in {"sending", "deleted", "accepted"} =>
               row'[target] = row[target] \/ row'[target].status = "deleted"
    BY <2>1 DEF TypeOK, RequestRow, Appears, Waiting, EmptyRow
  <2>. QED BY <2>1, <2>2 DEF Held, worker, held
<1>2. CASE \/ StartSweep \/ SweepClaimDue \/ ReconcileStaleSending \/ ReserveSend
           \/ LeaveSends \/ ClaimNothing \/ RevalidateFails \/ FinishDeliveryAttempt
           \/ FinishFails \/ LeaveChecks \/ FinishStatusCheck \/ SweepDies
  BY <1>2 DEF StartSweep, SweepClaimDue, ReconcileStaleSending, ReserveSend,
              LeaveSends, ClaimNothing, RevalidateFails, FinishDeliveryAttempt,
              FinishFails, LeaveChecks, FinishStatusCheck, SweepDies, Goto, Held
<1>3. ASSUME NEW r \in Reminders, ClaimSettles(r) PROVE Held'
  BY <1>3 DEF ClaimSettles, Goto, Held
<1>4. ASSUME NEW r \in Reminders, ClaimNextDelivery(r) PROVE Held'
  <2>1. copies[r] = 0
    BY <1>4 DEF ClaimNextDelivery, NextRow, Claimable, LedgerIsTruthful, TypeOK
  <2>2. /\ row'[r].status = "sending" /\ row'[r].to = row[r].to
        /\ copies' = copies
    BY <1>4 DEF ClaimNextDelivery, Taken, TypeOK, Row, history
  <2>. QED BY <1>4, <2>1, <2>2 DEF ClaimNextDelivery, Goto, Held
<1>5. ASSUME NEW r \in Reminders, ClaimNextStatusCheck(r) PROVE Held'
  <2>1. row'[r].status = "accepted"
    BY <1>5 DEF ClaimNextStatusCheck, Checkable, Probed, TypeOK, Row
  <2>. QED BY <1>5, <2>1 DEF ClaimNextStatusCheck, Goto, Held
<1>6. CASE RevalidatePasses
  BY <1>6 DEF RevalidatePasses, Goto, Held, db, held, history
<1>7. CASE SendReminder
  <2>1. PICK a \in Answers, taken \in {0, 1} :
          /\ taken \in Takes(a.outcome) /\ answer' = a
          /\ copies' = [copies EXCEPT ![target] = @ + taken]
    BY <1>7 DEF SendReminder
  <2>2. a.outcome \in Outcomes
    BY DEF Answers
  <2>3. copies[target] = 0 /\ target \in Reminders
    BY <1>7 DEF SendReminder, Goto, Held, TypeOK
  <2>4. a.outcome \in {"retryable", "permanent"} => taken = 0
    BY <2>1 DEF Takes
  <2>5. a.outcome \in {"retryable", "permanent"} => copies'[target] = 0
    BY <2>1, <2>3, <2>4 DEF TypeOK
  <2>. QED BY <1>7, <2>1, <2>2, <2>5 DEF SendReminder, Goto, Held, db
<1>. QED BY <1>1, <1>2, <1>3, <1>4, <1>5, <1>6, <1>7 DEF Next, SweepStep

\* The part of the invariant that is about messages.
LedgerInv == TypeOK /\ Held /\ LedgerIsTruthful /\ AtMostOneCopy

\* It holds of every behaviour.
THEOREM LedgerHolds == Spec => []LedgerInv
<1>1. Init => LedgerInv
  <2>1. Init => TypeOK
    BY NewRowIsRow
       DEF Init, TypeOK, ItemStatus, ReminderStatus, Settings, Pcs, NoAnswer
  <2>. QED BY <2>1 DEF Init, LedgerInv, Held, LedgerIsTruthful, AtMostOneCopy
<1>2. LedgerInv /\ [Next]_vars => LedgerInv'
  BY TypeStep, HeldStep, LedgerStep DEF LedgerInv
<1>. QED BY <1>1, <1>2, PTL DEF Spec

\* At most one message leaves for a Reminder, for ever.
THEOREM OneCopy == Spec => []AtMostOneCopy
BY LedgerHolds, PTL DEF LedgerInv

\* The ledger never reports as not sent what the provider took.
THEOREM TruthfulLedger == Spec => []LedgerIsTruthful
BY LedgerHolds, PTL DEF LedgerInv

\* A stored outcome is never replaced by another.
THEOREM FinalOutcome == Spec => OutcomeIsFinal
<1>1. LedgerInv /\ [Next]_vars =>
        [\A r \in Reminders : row[r].status \in Final =>
            row'[r].status \in {row[r].status, "deleted"}]_vars
  <2>. SUFFICES ASSUME LedgerInv, [Next]_vars, NEW r \in Reminders,
                       row[r].status \in Final
                PROVE  row'[r].status \in {row[r].status, "deleted"}
    OBVIOUS
  <2>1. Move(r)
    BY MoveStep DEF LedgerInv
  <2>. QED BY <2>1 DEF Move, Kept, Recorded, Appears, Ended, Tried, Handed, Finished,
                       Deleted, EmptyRow, Waiting, Final
<1>. QED BY <1>1, LedgerHolds, PTL DEF Spec, OutcomeIsFinal

\* The ledger implements the promise of OneShotDelivery: every initial state
\* maps to an initial state, every step to a step or to a stutter.
THEOREM ImplementsPromise == Spec => KeepsPromise
<1>1. Init => Promise!Init
  <2>1. EmptyRow.status = "none"
    BY DEF EmptyRow
  <2>2. Phase(EmptyRow) = "none"
    BY <2>1 DEF Phase, Waiting, Final
  <2>. QED BY <2>2 DEF Init, Promise!Init
<1>2. LedgerInv /\ LedgerInv' /\ [Next]_vars => [Promise!Next]_(Promise!vars)
  <2>. SUFFICES ASSUME LedgerInv, LedgerInv', [Next]_vars PROVE Promise!Next
    OBVIOUS
  <2>1. DOMAIN copies' = Reminders
    BY DEF LedgerInv, TypeOK
  <2>2. ASSUME NEW r \in Reminders PROVE Promise!KeyStep(r)
    <3>1. /\ Move(r) /\ copies[r] \in Nat /\ copies[r] <= 1
          /\ copies[r] > 0 =>
               row[r].status \in {"sending", "accepted", "unknown", "deleted"}
          /\ row[r].status \in RowStatus /\ row'[r].status \in RowStatus
      BY MoveStep DEF LedgerInv, TypeOK, LedgerIsTruthful, AtMostOneCopy, Row
    <3>. QED BY <3>1
             DEF Move, Kept, Recorded, Appears, Ended, Tried, Handed, Finished,
                 Deleted, EmptyRow, Waiting, Final, RowStatus, Phase,
                 Promise!KeyStep, Promise!Record, Promise!Try, Promise!HandOver,
                 Promise!Reopen, Promise!Settle, Promise!Delete, Promise!Rest,
                 Promise!Moves
  <2>. QED BY <2>1, <2>2 DEF Promise!Next
<1>. QED BY <1>1, <1>2, LedgerHolds, PTL DEF Spec, KeepsPromise, Promise!Spec

----------------------------------------------------------------------------
(* Due Reminders, eligible destinations and retries.                       *)

\* A due Reminder stays due until it is deleted.
LEMMA ReminderStep ==
  TypeOK /\ [Next]_vars =>
    \A r \in Reminders : reminder[r] = "due" =>
        reminder'[r] = "due" \/ row'[r].status = "deleted"
<1>. DEFINE StaysDue == \A r \in Reminders : reminder[r] = "due" =>
                          reminder'[r] = "due" \/ row'[r].status = "deleted"
<1>. SUFFICES ASSUME TypeOK, [Next]_vars PROVE StaysDue
  OBVIOUS
<1>1. ASSUME NEW q \in Reminders, NEW status \in ItemStatus, MoveItem(q, status)
      PROVE  StaysDue
  BY <1>1 DEF MoveItem, TypeOK
<1>2. ASSUME NEW q \in Reminders, PermanentlyDelete(q)
      PROVE  StaysDue
  <2>1. row'[q].status = "deleted"
    BY <1>2 DEF PermanentlyDelete, EmptyRow, TypeOK
  <2>. QED BY <1>2, <2>1 DEF PermanentlyDelete, TypeOK
<1>3. ASSUME NEW q \in Reminders, Cancel(q)
      PROVE  StaysDue
  BY <1>3 DEF Cancel, TypeOK
<1>4. ASSUME NEW D, NEW time, ClaimDue(D, time)
      PROVE  StaysDue
  BY <1>4 DEF ClaimDue
<1>5. CASE UNCHANGED reminder
  BY <1>5
<1>6. CASE UserRequest
  <2>1. \/ \E q \in Reminders, status \in ItemStatus : MoveItem(q, status)
        \/ \E q \in Reminders : PermanentlyDelete(q) \/ Cancel(q)
        \/ \E D, time : ClaimDue(D, time)
        \/ UNCHANGED reminder
    BY <1>6 DEF UserRequest, SetCandidateAddress, SetEnabled, ConfirmVerification,
                PauseMatchingAddress, RequestLeaves, SetUserStatus, LazyTransitionDue
  <2>. QED BY <2>1, <1>1, <1>2, <1>3, <1>4, <1>5
<1>7. CASE SweepStep \/ SweepDies \/ Tick \/ UNCHANGED vars
  <2>1. UNCHANGED reminder \/ \E D, time : ClaimDue(D, time)
    BY <1>7 DEF SweepStep, StartSweep, SweepClaimDue, ReconcileStaleSending,
                ReserveSend, LeaveSends, ClaimNothing, ClaimSettles,
                ClaimNextDelivery, ClaimNextStatusCheck, RevalidatePasses,
                RevalidateFails, SendReminder, FinishDeliveryAttempt, FinishFails,
                LeaveChecks, FinishStatusCheck, SweepDies, Tick, vars, db
  <2>. QED BY <2>1, <1>4, <1>5
<1>. QED BY <1>6, <1>7 DEF Next

\* A row that rests queued keeps its destination eligible.
LEMMA EligibleStep ==
  TypeOK /\ Held /\ [Next]_vars =>
    \A r \in Reminders :
       row[r].status = "queued" /\ row'[r] = row[r] /\ Eligible(r) => Eligible(r)'
<1>. DEFINE StaysEligible ==
       \A r \in Reminders :
          row[r].status = "queued" /\ row'[r] = row[r] /\ Eligible(r) => Eligible(r)'
<1>. SUFFICES ASSUME TypeOK, Held, [Next]_vars PROVE StaysEligible
  OBVIOUS
<1>0. /\ \A r \in Reminders : Owner[r] \in Users
      /\ \A r \in Reminders : [row[r] EXCEPT !.status = "suppressed"].status = "suppressed"
  BY OwnerAssumption DEF OwnerAssumption, TypeOK, Row
<1>1. ASSUME NEW u \in Users, NEW a \in Addresses, SetCandidateAddress(u, a)
      PROVE  StaysEligible
  BY <1>0, <1>1 DEF SetCandidateAddress, Settled, RowsOf, Eligible, Reaches, Waiting, TypeOK
<1>2. ASSUME NEW u \in Users, NEW enabled \in BOOLEAN, SetEnabled(u, enabled)
      PROVE  StaysEligible
  <2>1. CASE enabled
    BY <1>2, <2>1 DEF SetEnabled, Eligible, Reaches, TypeOK, Settings
  <2>2. CASE ~enabled
    BY <1>0, <1>2, <2>2
       DEF SetEnabled, Settled, RowsOf, Eligible, Reaches, Waiting, TypeOK
  <2>. QED BY <2>1, <2>2
<1>3. ASSUME NEW u \in Users, ConfirmVerification(u)
      PROVE  StaysEligible
  BY <1>3 DEF ConfirmVerification, Eligible, Reaches, TypeOK, Settings
<1>4. ASSUME NEW u \in Users, NEW a,
             settings' = Paused(u, a),
             \A r \in RowsTo(u, a) : row[r].status = "queued" => row'[r] # row[r]
      PROVE  StaysEligible
  <2>. SUFFICES ASSUME NEW r \in Reminders, row[r].status = "queued",
                       row'[r] = row[r], Eligible(r)
                PROVE  Eligible(r)'
    OBVIOUS
  <2>1. CASE Owner[r] # u
    <3>1. settings'[Owner[r]] = settings[Owner[r]]
      BY <1>0, <1>4, <2>1 DEF Paused, TypeOK
    <3>. QED BY <3>1 DEF Eligible
  <2>2. CASE Owner[r] = u
    <3>1. row[r].to # a /\ settings[u].address = row[r].to
      BY <1>4, <2>2 DEF RowsTo, RowsOf, Eligible, Reaches
    <3>2. settings' = settings
      BY <1>4, <3>1 DEF Paused
    <3>. QED BY <3>2 DEF Eligible
  <2>. QED BY <2>1, <2>2
<1>5. ASSUME NEW u \in Users, NEW a \in Addresses, PauseMatchingAddress(u, a)
      PROVE  StaysEligible
  <2>1. \A r \in RowsTo(u, a) : row[r].status = "queued" => row'[r] # row[r]
    BY <1>0, <1>5 DEF PauseMatchingAddress, Settled, RowsTo, RowsOf, Waiting
  <2>. QED BY <1>4, <1>5, <2>1 DEF PauseMatchingAddress
<1>6. CASE FinishDeliveryAttempt \/ FinishStatusCheck
  <2>1. target \in Reminders
    BY <1>6 DEF FinishDeliveryAttempt, FinishStatusCheck, Goto, TypeOK
  <2>2. CASE settings' = settings
    BY <2>2 DEF Eligible
  <2>3. CASE settings' # settings
    <3>1. /\ settings' = Paused(Owner[target], sentTo)
          /\ \A r \in Reminders : r # target =>
               row'[r] = Settled(RowsTo(Owner[target], sentTo), "suppressed")[r]
      <4>1. Settled(RowsTo(Owner[target], sentTo), "suppressed") \in [Reminders -> Row]
        BY SettledIsRow DEF RowStatus, Final
      <4>2. CASE FinishDeliveryAttempt
        BY <4>2, <2>3, <4>1 DEF FinishDeliveryAttempt
      <4>3. CASE FinishStatusCheck
        BY <4>3, <2>3, <4>1 DEF FinishStatusCheck
      <4>. QED BY <1>6, <4>2, <4>3
    <3>2. row[target].status # "queued"
      BY <1>6 DEF Held, FinishDeliveryAttempt, FinishStatusCheck, Goto
    <3>3. \A r \in RowsTo(Owner[target], sentTo) :
            row[r].status = "queued" => row'[r] # row[r]
      BY <1>0, <3>1, <3>2 DEF Settled, RowsTo, RowsOf, Waiting
    <3>4. Owner[target] \in Users
      BY <1>0, <2>1
    <3>. QED BY <1>4, <3>1, <3>3, <3>4
  <2>. QED BY <2>2, <2>3
<1>7. CASE UNCHANGED settings
  BY <1>7 DEF Eligible
<1>8. CASE UserRequest
  <2>1. \/ \E u \in Users, a \in Addresses : SetCandidateAddress(u, a)
        \/ \E u \in Users, a \in Addresses : PauseMatchingAddress(u, a)
        \/ \E u \in Users, enabled \in BOOLEAN : SetEnabled(u, enabled)
        \/ \E u \in Users : ConfirmVerification(u)
        \/ UNCHANGED settings
    BY <1>8 DEF UserRequest, SetUserStatus, LazyTransitionDue, ClaimDue, MoveItem,
                PermanentlyDelete, Cancel, LifecycleLeaves
  <2>. QED BY <2>1, <1>1, <1>2, <1>3, <1>5, <1>7
<1>9. CASE SweepStep \/ SweepDies \/ Tick \/ UNCHANGED vars
  <2>1. FinishDeliveryAttempt \/ FinishStatusCheck \/ UNCHANGED settings
    BY <1>9 DEF SweepStep, StartSweep, SweepClaimDue, ClaimDue, ReconcileStaleSending,
                ReserveSend, LeaveSends, ClaimNothing, ClaimSettles,
                ClaimNextDelivery, ClaimNextStatusCheck, RevalidatePasses,
                RevalidateFails, SendReminder, FinishFails,
                LeaveChecks, SweepDies, Tick, vars, db
  <2>. QED BY <2>1, <1>6, <1>7
<1>. QED BY <1>8, <1>9 DEF Next

\* The time of an attempt is not in the future.
ClockInv == attemptTime <= now /\ \A r \in Reminders : row[r].lastAt <= now

\* Time only advances, and attempts are made at the time of the clock.
LEMMA ClockStep ==
  TypeOK /\ Held /\ ClockInv /\ [Next]_vars => ClockInv' /\ now <= now'
<1>. SUFFICES ASSUME TypeOK, Held, ClockInv, [Next]_vars
              PROVE  ClockInv' /\ now <= now'
  OBVIOUS
<1>1. now <= now' /\ attemptTime' <= now'
  <2>1. CASE UserRequest
    <3>1. UNCHANGED attemptTime
      BY <2>1, RequestStep DEF worker
    <3>2. UNCHANGED now
      BY <2>1 DEF UserRequest, SetCandidateAddress, SetEnabled, ConfirmVerification,
                  PauseMatchingAddress, RequestLeaves, SetUserStatus,
                  LazyTransitionDue, MoveItem, PermanentlyDelete, Cancel,
                  LifecycleLeaves
    <3>. QED BY <3>1, <3>2 DEF ClockInv, TypeOK
  <2>2. CASE SweepStep \/ SweepDies
    <3>1. now' = now /\ attemptTime' \in {attemptTime, now, 0}
      BY <2>2 DEF SweepStep, StartSweep, SweepClaimDue, ReconcileStaleSending,
                  ReserveSend, LeaveSends, ClaimNothing, ClaimSettles,
                  ClaimNextDelivery, ClaimNextStatusCheck, RevalidatePasses,
                  RevalidateFails, SendReminder, FinishDeliveryAttempt, FinishFails,
                  LeaveChecks, FinishStatusCheck, SweepDies, Dropped, held
    <3>. QED BY <3>1 DEF ClockInv, TypeOK
  <2>3. CASE Tick \/ UNCHANGED vars
    BY <2>3 DEF Tick, vars, worker, ClockInv, TypeOK
  <2>. QED BY <2>1, <2>2, <2>3 DEF Next
<1>2. ASSUME NEW r \in Reminders PROVE row'[r].lastAt <= now'
  <2>1. row'[r].lastAt \in {row[r].lastAt, attemptTime, 0}
    BY MoveStep DEF Move, Recorded, Appears, Deleted, EmptyRow
  <2>2. row[r].lastAt \in Nat
    BY DEF TypeOK, Row
  <2>3. now' \in Nat
    BY TypeStep DEF TypeOK
  <2>. QED BY <1>1, <2>1, <2>2, <2>3 DEF ClockInv, TypeOK
<1>. QED BY <1>1, <1>2 DEF ClockInv

\* A waiting row has an attempt left and a retry inside the window.
LEMMA RetriesStep ==
  TypeOK /\ Held /\ ClockInv /\ RetriesFit /\ [Next]_vars => RetriesFit'
<1>. SUFFICES ASSUME TypeOK, Held, ClockInv, RetriesFit, [Next]_vars,
                     NEW r \in Reminders
              PROVE  /\ row'[r].status \in Waiting => row'[r].attempts < MaxAttempts
                     /\ row'[r].status = "retry_wait" =>
                          /\ row'[r].lastAt < row'[r].readyAt
                          /\ row'[r].readyAt < Expiry(r)
  BY DEF RetriesFit, Expiry
<1>1. Move(r)
  BY MoveStep
<1>2. CASE Recorded(r) \/ Deleted(r)
  BY <1>2, RetryAssumption
     DEF Recorded, Appears, Deleted, EmptyRow, Waiting, RetryAssumption
<1>3. CASE Kept(r)
  BY <1>3 DEF Kept, RetriesFit, Waiting
<1>4. CASE Ended(r) \/ Tried(r) \/ Handed(r)
  BY <1>4 DEF Ended, Tried, Handed, Waiting, Final
<1>5. CASE Finished(r)
  <2>1. CASE row'[r].status # "retry_wait"
    BY <1>5, <2>1 DEF Finished, Waiting, Final
  <2>2. CASE row'[r].status = "retry_wait"
    <3>1. /\ row'[r].attempts \in DOMAIN RetryDelay
          /\ row'[r].readyAt = now + RetryDelay[row'[r].attempts]
          /\ row'[r].readyAt < Expiry(r)
      BY <1>5, <2>2 DEF Finished, Final
    <3>2. row'[r].lastAt <= now
      BY <1>1, <1>5, <2>2 DEF Move, Recorded, Appears, Deleted, EmptyRow, ClockInv
    <3>3. row'[r].attempts \in Nat /\ row'[r].lastAt \in Nat
      BY TypeStep DEF TypeOK, Row
    <3>. QED BY <3>1, <3>2, <3>3, RetryAssumption DEF RetryAssumption, TypeOK
  <2>. QED BY <2>1, <2>2
<1>. QED BY <1>1, <1>2, <1>3, <1>4, <1>5 DEF Move

\* The part of the invariant that is about waiting rows.
QueueInv == OnlyDueDeliver /\ QueuedIsEligible /\ RetriesFit /\ ClockInv

\* It holds of every behaviour.
THEOREM QueueHolds == Spec => []QueueInv
<1>1. Init => QueueInv
  BY TimeAssumption, RetryAssumption
     DEF Init, QueueInv, OnlyDueDeliver, QueuedIsEligible, RetriesFit, ClockInv,
         EmptyRow, Waiting, TimeAssumption, RetryAssumption
<1>2. LedgerInv /\ QueueInv /\ [Next]_vars => QueueInv'
  <2>. SUFFICES ASSUME LedgerInv, QueueInv, [Next]_vars PROVE QueueInv'
    OBVIOUS
  <2>1. OnlyDueDeliver'
    <3>. SUFFICES ASSUME NEW r \in Reminders, row'[r].status \notin {"none", "deleted"}
                  PROVE  reminder'[r] = "due"
      BY DEF OnlyDueDeliver
    <3>1. Move(r)
      BY MoveStep DEF LedgerInv
    <3>2. CASE Recorded(r)
      BY <3>2 DEF Recorded, Appears
    <3>3. CASE ~Recorded(r)
      <4>1. row[r].status \notin {"none", "deleted"}
        BY <3>1, <3>3 DEF Move, Deleted, EmptyRow, Kept, Ended, Tried, Handed,
                          Finished, Waiting
      <4>2. reminder[r] = "due"
        BY <4>1 DEF QueueInv, OnlyDueDeliver
      <4>. QED BY <4>2, ReminderStep DEF LedgerInv
    <3>. QED BY <3>2, <3>3
  <2>2. QueuedIsEligible'
    <3>. SUFFICES ASSUME NEW r \in Reminders, row'[r].status = "queued"
                  PROVE  Eligible(r)'
      BY DEF QueuedIsEligible
    <3>1. Move(r)
      BY MoveStep DEF LedgerInv
    <3>2. CASE Recorded(r)
      BY <3>2 DEF Recorded, Appears
    <3>3. CASE ~Recorded(r)
      <4>1. row[r].status = "queued" /\ row'[r] = row[r]
        BY <3>1, <3>3 DEF Move, Deleted, EmptyRow, Kept, Ended, Tried, Handed,
                          Finished, Waiting, Final
      <4>2. Eligible(r)
        BY <4>1 DEF QueueInv, QueuedIsEligible
      <4>. QED BY <4>1, <4>2, EligibleStep DEF LedgerInv
    <3>. QED BY <3>2, <3>3
  <2>. QED BY <2>1, <2>2, RetriesStep, ClockStep DEF LedgerInv, QueueInv
<1>. QED BY <1>1, <1>2, LedgerHolds, PTL DEF Spec

\* Only a due Reminder has a delivery.
THEOREM DueOnly == Spec => []OnlyDueDeliver
BY QueueHolds, PTL DEF QueueInv

\* A queued row always has an eligible destination.
THEOREM QueuedEligible == Spec => []QueuedIsEligible
BY QueueHolds, PTL DEF QueueInv

\* Waiting rows have an attempt left, so the claim loop ends.
THEOREM RetriesAlwaysFit == Spec => []RetriesFit
BY QueueHolds, PTL DEF QueueInv

----------------------------------------------------------------------------
(* Late calls.                                                             *)

\* Why a second late call cannot follow a first: a late call leaves the
\* destination not eligible, and the next claim demands that it is.
LateInv ==
  /\ AtMostOneLateCall
  /\ \A r \in Reminders : Eligible(r) \/ row[r].status = "none" => lateCalls[r] = 0
  /\ pc \in {"revalidate", "send"} => lateCalls[target] = 0
  /\ \A u \in Users : settings[u].verified => settings[u].address # NoAddress
  /\ \A r \in Reminders : row[r].status \in {"none", "deleted"} => row[r].to = NoAddress

\* How a step may change what LateInv speaks of, calls aside.
LEMMA LateSplit ==
  TypeOK /\ [Next]_vars =>
    \/ Reconsider /\ UNCHANGED worker
    \/ /\ UNCHANGED lateCalls
       /\ UNCHANGED settings \/ \E u \in Users : \E a : settings' = Paused(u, a)
    \/ SendReminder
<1>. SUFFICES ASSUME TypeOK, [Next]_vars
              PROVE  \/ Reconsider /\ UNCHANGED worker
                     \/ /\ UNCHANGED lateCalls
                        /\ UNCHANGED settings \/ \E u \in Users : \E a : settings' = Paused(u, a)
                     \/ SendReminder
  OBVIOUS
<1>1. CASE UserRequest
  <2>1. CASE \/ \E u \in Users, a \in Addresses : SetCandidateAddress(u, a)
             \/ \E u \in Users, a \in Addresses : PauseMatchingAddress(u, a)
             \/ \E u \in Users, enabled \in BOOLEAN : SetEnabled(u, enabled)
             \/ \E u \in Users : ConfirmVerification(u)
    BY <2>1 DEF SetCandidateAddress, PauseMatchingAddress, SetEnabled,
                ConfirmVerification, RequestLeaves
  <2>2. CASE \/ \E u \in Users, active \in BOOLEAN : SetUserStatus(u, active)
             \/ \E u \in Users : LazyTransitionDue(u)
             \/ \E r \in Reminders, status \in ItemStatus : MoveItem(r, status)
             \/ \E r \in Reminders : PermanentlyDelete(r) \/ Cancel(r)
    BY <2>2 DEF SetUserStatus, LazyTransitionDue, ClaimDue, MoveItem,
                PermanentlyDelete, Cancel, LifecycleLeaves, history
  <2>. QED BY <1>1, <2>1, <2>2 DEF UserRequest
<1>2. CASE FinishDeliveryAttempt \/ FinishStatusCheck
  <2>1. Owner[target] \in Users
    BY <1>2, OwnerAssumption
       DEF OwnerAssumption, FinishDeliveryAttempt, FinishStatusCheck, Goto, TypeOK
  <2>. QED BY <1>2, <2>1 DEF FinishDeliveryAttempt, FinishStatusCheck, history
<1>3. CASE \/ StartSweep \/ SweepClaimDue \/ ReconcileStaleSending
           \/ ReserveSend \/ LeaveSends \/ ClaimNothing
           \/ \E r \in Reminders :
                ClaimSettles(r) \/ ClaimNextDelivery(r) \/ ClaimNextStatusCheck(r)
           \/ RevalidatePasses \/ RevalidateFails \/ FinishFails \/ LeaveChecks
           \/ SweepDies \/ Tick \/ UNCHANGED vars
  BY <1>3 DEF StartSweep, SweepClaimDue, ClaimDue, ReconcileStaleSending,
              ReserveSend, LeaveSends, ClaimNothing, ClaimSettles, ClaimNextDelivery,
              ClaimNextStatusCheck, RevalidatePasses, RevalidateFails, FinishFails,
              LeaveChecks, SweepDies, Tick, vars, db, history
<1>. QED BY <1>1, <1>2, <1>3 DEF Next, SweepStep

\* The worker comes to hold a delivery only by claiming an eligible one.
LEMMA HoldsEligible ==
  TypeOK /\ [Next]_vars /\ pc' \in {"revalidate", "send"} =>
    \/ pc \in {"revalidate", "send"} /\ target' = target
    \/ target' \in Reminders /\ Eligible(target')
<1>. SUFFICES ASSUME TypeOK, [Next]_vars, pc' \in {"revalidate", "send"}
              PROVE  \/ pc \in {"revalidate", "send"} /\ target' = target
                     \/ target' \in Reminders /\ Eligible(target')
  OBVIOUS
<1>1. CASE UserRequest \/ Tick \/ UNCHANGED vars
  BY <1>1, RequestStep DEF worker, held
<1>2. ASSUME NEW r \in Reminders, ClaimNextDelivery(r)
      PROVE  target' \in Reminders /\ Eligible(target')
  BY <1>2 DEF ClaimNextDelivery, PreSendTerminal
<1>3. CASE RevalidatePasses
  BY <1>3 DEF RevalidatePasses, Goto, held
<1>4. CASE \/ StartSweep \/ SweepClaimDue \/ ReconcileStaleSending
           \/ ReserveSend \/ LeaveSends \/ ClaimNothing
           \/ \E r \in Reminders : ClaimSettles(r) \/ ClaimNextStatusCheck(r)
           \/ RevalidateFails \/ SendReminder \/ FinishDeliveryAttempt \/ FinishFails
           \/ LeaveChecks \/ FinishStatusCheck \/ SweepDies
  BY <1>4 DEF StartSweep, SweepClaimDue, ReconcileStaleSending,
              ReserveSend, LeaveSends, ClaimNothing, ClaimSettles,
              ClaimNextStatusCheck, RevalidateFails, SendReminder,
              FinishDeliveryAttempt, FinishFails, LeaveChecks, FinishStatusCheck,
              SweepDies, Goto
<1>. QED BY <1>1, <1>2, <1>3, <1>4 DEF Next, SweepStep

\* A verified address is an address.
LEMMA AddressStep ==
  /\ TypeOK /\ [Next]_vars
  /\ \A u \in Users : settings[u].verified => settings[u].address # NoAddress
  => (\A u \in Users : settings[u].verified => settings[u].address # NoAddress)'
<1>. DEFINE Known == \A u \in Users :
                       settings[u].verified => settings[u].address # NoAddress
<1>. SUFFICES ASSUME TypeOK, [Next]_vars, Known PROVE Known'
  OBVIOUS
<1>1. ASSUME NEW u \in Users, NEW a \in Addresses, SetCandidateAddress(u, a)
      PROVE  Known'
  BY <1>1 DEF SetCandidateAddress, TypeOK, Settings
<1>2. ASSUME NEW u \in Users, NEW enabled \in BOOLEAN, SetEnabled(u, enabled)
      PROVE  Known'
  BY <1>2 DEF SetEnabled, TypeOK, Settings
<1>3. ASSUME NEW u \in Users, ConfirmVerification(u)
      PROVE  Known'
  BY <1>3 DEF ConfirmVerification, TypeOK, Settings
<1>4. CASE UNCHANGED settings \/ \E u \in Users : \E a : settings' = Paused(u, a)
  BY <1>4 DEF Paused, TypeOK, Settings
<1>5. CASE \/ SendReminder
           \/ \E u \in Users, a \in Addresses : PauseMatchingAddress(u, a)
  BY <1>4, <1>5 DEF SendReminder, db, PauseMatchingAddress
<1>6. CASE UserRequest
  <2>1. \/ \E u \in Users, a \in Addresses : SetCandidateAddress(u, a)
        \/ \E u \in Users, a \in Addresses : PauseMatchingAddress(u, a)
        \/ \E u \in Users, enabled \in BOOLEAN : SetEnabled(u, enabled)
        \/ \E u \in Users : ConfirmVerification(u)
        \/ UNCHANGED settings
    BY <1>6 DEF UserRequest, SetUserStatus, LazyTransitionDue, ClaimDue, MoveItem,
                PermanentlyDelete, Cancel, LifecycleLeaves
  <2>. QED BY <2>1, <1>1, <1>2, <1>3, <1>4, <1>5
<1>7. CASE SweepStep \/ SweepDies \/ Tick \/ UNCHANGED vars
  <2>1. CASE FinishDeliveryAttempt \/ FinishStatusCheck
    <3>1. Owner[target] \in Users
      BY <2>1, OwnerAssumption
         DEF OwnerAssumption, FinishDeliveryAttempt, FinishStatusCheck, Goto, TypeOK
    <3>. QED BY <1>4, <2>1, <3>1 DEF FinishDeliveryAttempt, FinishStatusCheck
  <2>2. FinishDeliveryAttempt \/ FinishStatusCheck \/ UNCHANGED settings
    BY <1>7 DEF SweepStep, StartSweep, SweepClaimDue, ClaimDue, ReconcileStaleSending,
                ReserveSend, LeaveSends, ClaimNothing, ClaimSettles,
                ClaimNextDelivery, ClaimNextStatusCheck, RevalidatePasses,
                RevalidateFails, SendReminder, FinishFails,
                LeaveChecks, SweepDies, Tick, vars, db
  <2>. QED BY <1>4, <2>1, <2>2
<1>. QED BY <1>6, <1>7 DEF Next

\* Every action keeps LateInv.
LEMMA LateStep ==
  LedgerInv /\ LateInv /\ [Next]_vars => LateInv'
<1>. SUFFICES ASSUME LedgerInv, LateInv, [Next]_vars PROVE LateInv'
  OBVIOUS
<1>. USE DEF LedgerInv
<1>1. \A u \in Users : (settings[u].verified => settings[u].address # NoAddress)'
  BY AddressStep DEF LateInv
<1>2. ASSUME NEW r \in Reminders
      PROVE  /\ row'[r].status \in {"none", "deleted"} => row'[r].to = NoAddress
             /\ row'[r].status = "none" => row[r].status = "none"
             /\ row'[r].to = row[r].to \/ row[r].status = "none"
                \/ row'[r].to = NoAddress
  <2>1. Move(r) /\ (row[r].status \in {"none", "deleted"} => row[r].to = NoAddress)
    BY MoveStep DEF LateInv
  <2>. QED BY <2>1 DEF Move, Recorded, Appears, Deleted, Kept, Ended, Tried, Handed,
                       Finished, EmptyRow, Waiting, Final
<1>3. ASSUME NEW r \in Reminders, row[r].to = NoAddress PROVE ~Eligible(r)
  BY <1>3, OwnerAssumption DEF Eligible, Reaches, LateInv, OwnerAssumption
<1>4. ASSUME NEW r \in Reminders, row'[r].to = NoAddress PROVE ~Eligible(r)'
  BY <1>1, <1>4, OwnerAssumption DEF Eligible, Reaches, OwnerAssumption
<1>5. CASE Reconsider /\ UNCHANGED worker
  <2>1. \A r \in Reminders : /\ lateCalls'[r] \in {0, lateCalls[r]}
                             /\ Eligible(r)' => lateCalls'[r] = 0
    BY <1>5 DEF Reconsider
  <2>2. pc' = pc /\ target' = target
    BY <1>5 DEF worker, held
  <2>3. pc \in {"revalidate", "send"} => target \in Reminders
    BY DEF TypeOK
  <2>4. \A r \in Reminders : lateCalls[r] <= 1 /\ lateCalls'[r] <= 1
    BY <2>1 DEF LateInv, AtMostOneLateCall
  <2>5. \A r \in Reminders : row'[r].status = "none" => lateCalls'[r] = 0
    BY <1>2, <2>1 DEF LateInv
  <2>6. pc' \in {"revalidate", "send"} => lateCalls'[target'] = 0
    BY <2>1, <2>2, <2>3 DEF LateInv
  <2>. QED BY <1>1, <1>2, <2>1, <2>4, <2>5, <2>6 DEF LateInv, AtMostOneLateCall
<1>6. CASE /\ UNCHANGED lateCalls
           /\ UNCHANGED settings \/ \E u \in Users : \E a : settings' = Paused(u, a)
  <2>1. ASSUME NEW r \in Reminders, Eligible(r)' PROVE lateCalls[r] = 0
    <3>1. Owner[r] \in Users
      BY OwnerAssumption DEF OwnerAssumption
    <3>2. \/ settings'[Owner[r]] = settings[Owner[r]]
          \/ settings'[Owner[r]].healthy = FALSE
      BY <1>6, <3>1 DEF Paused, TypeOK, Settings
    <3>3. row'[r].to = row[r].to \/ row[r].status = "none"
      BY <1>2, <1>4, <2>1
    <3>4. row'[r].to = row[r].to => Eligible(r)
      BY <2>1, <3>2 DEF Eligible, Reaches
    <3>. QED BY <3>3, <3>4 DEF LateInv
  <2>2. pc' \in {"revalidate", "send"} => lateCalls[target'] = 0
    BY HoldsEligible DEF LateInv
  <2>. QED BY <1>1, <1>2, <1>6, <2>1, <2>2 DEF LateInv, AtMostOneLateCall
<1>7. CASE SendReminder
  <2>1. /\ target \in Reminders /\ lateCalls[target] = 0
        /\ row[target].status \in {"sending", "deleted"}
        /\ row[target].status = "sending" => row[target].to = sentTo
        /\ pc' = "finish" /\ UNCHANGED <<row, settings>>
    BY <1>7 DEF SendReminder, Goto, LateInv, Held, TypeOK, db
  <2>2. /\ lateCalls'[target] \in {0, 1}
        /\ Reaches(settings[Owner[target]], sentTo) => lateCalls'[target] = 0
        /\ \A r \in Reminders : r # target => lateCalls'[r] = lateCalls[r]
    BY <1>7, <2>1 DEF SendReminder, TypeOK
  <2>3. Eligible(target) => Reaches(settings[Owner[target]], sentTo)
    BY <1>3, <2>1 DEF Eligible, LateInv
  <2>4. \A r \in Reminders : Eligible(r)' => Eligible(r)
    BY <2>1 DEF Eligible
  <2>5. \A r \in Reminders : Eligible(r)' \/ row'[r].status = "none" => lateCalls'[r] = 0
    BY <2>1, <2>2, <2>3, <2>4 DEF LateInv
  <2>. QED BY <1>1, <1>2, <2>1, <2>2, <2>5 DEF LateInv, AtMostOneLateCall
<1>. QED BY <1>5, <1>6, <1>7, LateSplit

\* Once its destination is no longer eligible, a Reminder is called for at
\* most once more, until the destination is eligible again.
THEOREM OneLateCall == Spec => []AtMostOneLateCall
<1>1. Init => LateInv
  BY OwnerAssumption
     DEF Init, LateInv, AtMostOneLateCall, EmptyRow, OwnerAssumption
<1>2. LedgerInv /\ LateInv /\ [Next]_vars => LateInv'
  BY LateStep
<1>3. LateInv => AtMostOneLateCall
  BY DEF LateInv
<1>. QED BY <1>1, <1>2, <1>3, LedgerHolds, PTL DEF Spec
=============================================================================
