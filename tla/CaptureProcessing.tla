------------------------- MODULE CaptureProcessing -------------------------
(***************************************************************************)
(* Captures and the Items made of them: the background tasks that ask the  *)
(* AI and store its answer (app/services/processing.py), the life cycle of *)
(* Items and of their Reminders, and the retention of the trash            *)
(* (app/repository.py, app/reminder_repository.py).                        *)
(*                                                                         *)
(* Every action is one database transaction together with the code that    *)
(* runs, without an await, around it.  No row of a user is read or written *)
(* for another, so one user stands for each.                               *)
(***************************************************************************)
EXTENDS Integers, FiniteSets

CONSTANTS Inputs,       \* the captures that may be created
          Items,        \* the Items that may be created; ids are not reused
          Reminders,    \* the Reminders that may be created
          Tasks,        \* the background tasks that may run at a time
          Retention,    \* TRASH_RETENTION_DAYS
          Batch,        \* the batch size of the retention worker
          MaxQueue,     \* bound of the tasks waiting for one input
          MaxTime,      \* bound of the clock
          MaxRestarts,  \* bound of restarts
          MaxFaults,    \* bound of the exceptions nobody expects
          NoItem, NoInput

ASSUME BoundsAssumption ==
  /\ Retention \in Nat /\ Batch \in Nat \ {0} /\ MaxQueue \in Nat
  /\ MaxTime \in Nat /\ MaxRestarts \in Nat /\ MaxFaults \in Nat
ASSUME NamesAssumption == NoItem \notin Items /\ NoInput \notin Inputs

VARIABLES now,       \* the clock
          input,     \* item_inputs
          item,      \* personal_items
          reminder,  \* reminders
          queue,     \* the tasks scheduled for an input and not yet started
          job,       \* the started tasks (process_input)
          origin,    \* the input that each Item was made from (history)
          restarts, faults,
          lost       \* inputs left by a task that met an exception nobody expects,
                     \* until a task takes them up again (history)

trouble == <<faults, lost>>
bounds == <<restarts, trouble>>
vars == <<now, input, item, reminder, queue, job, origin, bounds>>

Kept == {"active", "completed", "trash"}
Open == {"needs_confirmation", "scheduled"}
Never == -1
Time == Nat \cup {Never}
Input == [status : {"none", "pending", "processing", "succeeded", "failed", "deleted"},
          item : Items \cup {NoItem}]
\* A row has the metadata of its status, and no other.
Fits(row) ==
  /\ row.status = "trash" <=> row.trashed # Never
  /\ row.status = "trash" <=> row.before # "none"
  /\ "completed" \in {row.status, row.before} <=> row.completed # Never
Item == {row \in [status : Kept \cup {"none", "deleted"}, completed : Time,
                  trashed : Time, before : {"none", "active", "completed"}] : Fits(row)}
Reminder == [status : Open \cup {"none", "due", "cancelled", "deleted"},
             item : Items \cup {NoItem}]
Job == [phase : {"idle", "asking", "failing"}, input : Inputs \cup {NoInput},
        item : Items \cup {NoItem}, seen : Kept \cup {"none"}]

Row(status, completed, trashed, before) ==
  [status |-> status, completed |-> completed, trashed |-> trashed, before |-> before]
NoRow == Row("none", Never, Never, "none")
Idle == [phase |-> "idle", input |-> NoInput, item |-> NoItem, seen |-> "none"]
Existing == {x \in Items : item[x].status \in Kept}

----------------------------------------------------------------------------
(* The life cycle of an Item.                                              *)

Sources == [complete |-> {"active"}, restore_to_current |-> {"completed"},
            move_to_trash |-> {"active", "completed"}, restore_from_trash |-> {"trash"}]
Allowed(row, action) == row.status \in Sources[action]

\* Variant: what was done is not remembered in the trash.
AfterForgetting(row, action) ==
  CASE action = "complete" -> Row("completed", now, Never, "none")
    [] action = "move_to_trash" -> Row("trash", Never, now, row.status)
    [] action = "restore_to_current" -> Row("active", Never, Never, "none")
    [] action = "restore_from_trash" -> Row("active", Never, Never, "none")
After(row, action) ==
  CASE action = "complete" -> Row("completed", now, Never, "none")
    [] action = "restore_to_current" -> Row("active", Never, Never, "none")
    [] action = "move_to_trash" ->
         Row("trash", IF row.status = "completed" THEN row.completed ELSE Never,
             now, row.status)
    [] action = "restore_from_trash" ->
         IF row.before = "completed" THEN Row("completed", row.completed, Never, "none")
                                     ELSE Row("active", Never, Never, "none")

\* The action that a wished status stands for; "none" wishes nothing.
ActionTo(row, target) ==
  CASE target = "trash" -> "move_to_trash"
    [] target = "active" /\ row.status # "trash" -> "restore_to_current"
    [] target = "completed" /\ row.status # "trash" -> "complete"
    [] OTHER -> "restore_from_trash"
Stays(row, target) == target \in {"none", row.status}
Accepts(row, target) ==
  ~ Stays(row, target) => LET action == ActionTo(row, target)
                          IN /\ Allowed(row, action)
                             /\ target = "completed" => After(row, action).status = "completed"
Result(row, target) == IF Stays(row, target) THEN row ELSE After(row, ActionTo(row, target))

\* An Item that is done with, or in the trash, has no open Reminder.
Cancelled(S) == [r \in Reminders |->
  IF reminder[r].item \in S /\ reminder[r].status \in Open
  THEN [reminder[r] EXCEPT !.status = "cancelled"] ELSE reminder[r]]

Changes(S, rows) ==
  /\ item' = [x \in Items |-> IF x \in S THEN rows[x] ELSE item[x]]
  /\ reminder' = Cancelled({x \in S : rows[x].status \in {"completed", "trash"}
                                      /\ rows[x].status # item[x].status})
UserLeaves == UNCHANGED <<now, input, queue, job, origin, bounds>>

UpdateItem(x, target) ==
  /\ x \in Existing /\ Accepts(item[x], target)
  /\ Changes({x}, [y \in {x} |-> Result(item[y], target)])
  /\ UserLeaves

BulkLifecycle(S, action) ==
  /\ S # {} /\ S \subseteq Existing
  /\ \A x \in S : Allowed(item[x], action)
  /\ Changes(S, [x \in S |-> After(item[x], action)])
  /\ UserLeaves

\* Inputs and Reminders go with their Item.
PermanentlyDeleteRows(S) ==
  /\ \A x \in S : item[x].status = "trash"
  /\ item' = [x \in Items |-> IF x \in S THEN [NoRow EXCEPT !.status = "deleted"]
                                         ELSE item[x]]
  /\ input' = [i \in Inputs |-> IF input[i].item \in S
                                THEN [status |-> "deleted", item |-> NoItem] ELSE input[i]]
  /\ reminder' = [r \in Reminders |-> IF reminder[r].item \in S
                                      THEN [status |-> "deleted", item |-> NoItem]
                                      ELSE reminder[r]]
  /\ UNCHANGED <<now, queue, job, origin, bounds>>

PermanentlyDelete(S) == S # {} /\ S \subseteq Existing /\ PermanentlyDeleteRows(S)

Expired == {x \in Items : item[x].status = "trash" /\ item[x].trashed # Never
                          /\ item[x].trashed <= now - Retention}
\* The longest expired go first; a sweep that finds nothing changes nothing.
PurgeExpiredTrash ==
  \E S \in SUBSET Expired :
    /\ Cardinality(S) <= Batch
    /\ Cardinality(S) < Batch => S = Expired
    /\ \A x \in S, y \in Expired \ S : item[x].trashed <= item[y].trashed
    /\ PermanentlyDeleteRows(S)

----------------------------------------------------------------------------
(* Reminders.                                                              *)

Unopened(rems, x) == \A r \in Reminders : ~ (rems[r].item = x /\ rems[r].status \in Open)
Free == {r \in Reminders : reminder[r].status = "none"}
RemindersLeave == UNCHANGED <<now, input, item, queue, job, origin, bounds>>

CreateReminder(x) ==
  /\ x \in Existing /\ item[x].status = "active" /\ Unopened(reminder, x)
  /\ \E r \in Free :
       reminder' = [reminder EXCEPT ![r] = [status |-> "scheduled", item |-> x]]
  /\ RemindersLeave

Reschedule(r) ==
  /\ reminder[r].status \in Open
  /\ reminder' = [reminder EXCEPT ![r].status = "scheduled"]
  /\ RemindersLeave

CancelReminder(r) ==
  /\ reminder[r].status \in Open
  /\ reminder' = [reminder EXCEPT ![r].status = "cancelled"]
  /\ RemindersLeave

ClaimDueReminder(r) ==
  /\ reminder[r].status = "scheduled" /\ item[reminder[r].item].status = "active"
  /\ reminder' = [reminder EXCEPT ![r].status = "due"]
  /\ RemindersLeave

\* Variant: a Reminder that waits for a time does not count as open.
AiReminderBeside(rems, x, status, intent) ==
  IF status = "active" /\ intent # "none"
     /\ \A r \in Reminders : ~ (rems[r].item = x /\ rems[r].status = "scheduled")
  THEN {[rems EXCEPT ![r] = [status |-> intent, item |-> x]] : r \in Free}
  ELSE {rems}
\* The Reminder that the AI read out of the text, unless the Item has one.
AiReminder(rems, x, status, intent) ==
  IF status = "active" /\ intent # "none" /\ Unopened(rems, x)
  THEN {[rems EXCEPT ![r] = [status |-> intent, item |-> x]] : r \in Free}
  ELSE {rems}
Intents == Open \cup {"none"}

----------------------------------------------------------------------------
(* Captures and the tasks that organise them.                              *)

CaptureLeaves == UNCHANGED <<now, item, reminder, job, origin, bounds>>

\* A capture, an addition to an Item, or the input saved from a draft.
CreateInput(i, x) ==
  /\ input[i].status = "none" /\ x \in Existing \cup {NoItem}
  /\ input' = [input EXCEPT ![i] = [status |-> "pending", item |-> x]]
  /\ queue' = [queue EXCEPT ![i] = 1]
  /\ CaptureLeaves

\* A Save that is repeated while its input still waits.
RepeatSave(i) ==
  /\ input[i] = [status |-> "pending", item |-> NoItem] /\ queue[i] < MaxQueue
  /\ queue' = [queue EXCEPT ![i] = @ + 1]
  /\ UNCHANGED input /\ CaptureLeaves

RetryInput(i) ==
  /\ input[i].status = "failed" /\ queue[i] < MaxQueue
  /\ input' = [input EXCEPT ![i].status = "pending"]
  /\ queue' = [queue EXCEPT ![i] = @ + 1]
  /\ CaptureLeaves

DeleteFailedUnlinkedInput(i) ==
  /\ input[i] = [status |-> "failed", item |-> NoItem]
  /\ input' = [input EXCEPT ![i].status = "deleted"]
  /\ UNCHANGED queue /\ CaptureLeaves

TaskLeaves == UNCHANGED <<now, restarts>>

\* Variant: a task that finds the input in work joins in.
ClaimAgain(t, i) ==
  /\ queue[i] > 0 /\ job[t] = Idle
  /\ queue' = [queue EXCEPT ![i] = @ - 1]
  /\ IF input[i].status \in {"pending", "processing"}
     THEN /\ input' = [input EXCEPT ![i].status = "processing"]
          /\ job' = [job EXCEPT ![t] =
               [phase |-> "asking", input |-> i, item |-> input[i].item,
                seen |-> IF input[i].item = NoItem THEN "none"
                                                   ELSE item[input[i].item].status]]
          /\ lost' = lost \ {i}
     ELSE UNCHANGED <<input, job, lost>>
  /\ UNCHANGED <<item, reminder, origin, faults>> /\ TaskLeaves
\* The task claims its input and reads it, with the Item it belongs to.
ClaimInput(t, i) ==
  /\ queue[i] > 0 /\ job[t] = Idle
  /\ queue' = [queue EXCEPT ![i] = @ - 1]
  /\ IF input[i].status = "pending"
     THEN /\ input' = [input EXCEPT ![i].status = "processing"]
          /\ job' = [job EXCEPT ![t] =
               [phase |-> "asking", input |-> i, item |-> input[i].item,
                seen |-> IF input[i].item = NoItem THEN "none"
                                                   ELSE item[input[i].item].status]]
          /\ lost' = lost \ {i}
     ELSE UNCHANGED <<input, job, lost>>
  /\ UNCHANGED <<item, reminder, origin, faults>> /\ TaskLeaves

\* The claim itself fails: unless another task was made for it, the input waits for
\* the next start of the server.
ClaimRaises(i) ==
  /\ queue[i] > 0 /\ faults < MaxFaults
  /\ queue' = [queue EXCEPT ![i] = @ - 1]
  /\ faults' = faults + 1
  /\ lost' = IF input[i].status = "pending" /\ queue[i] = 1 THEN lost \cup {i} ELSE lost
  /\ UNCHANGED <<item, input, reminder, job, origin>> /\ TaskLeaves

\* The task ends; or the row it has stored cannot be turned into an answer.
Ends(t) ==
  \/ job' = [job EXCEPT ![t] = Idle] /\ UNCHANGED trouble
  \/ /\ job' = [job EXCEPT ![t].phase = "failing"]
     /\ faults < MaxFaults /\ faults' = faults + 1 /\ UNCHANGED lost

\* Variant: an Item that is made in the trash gets no time.
MadeUndated(status) ==
  Row(status, IF status = "completed" THEN now ELSE Never, Never,
      IF status = "trash" THEN "active" ELSE "none")
Made(status) ==
  Row(status, IF status = "completed" THEN now ELSE Never,
      IF status = "trash" THEN now ELSE Never, IF status = "trash" THEN "active" ELSE "none")
\* Variant: the link to the Item is left to a later transaction.
CreateItemUnlinked(t) ==
  LET i == job[t].input IN
  /\ job[t].phase = "asking" /\ job[t].item = NoItem
  /\ input[i].status = "processing" /\ input[i].item = NoItem
  /\ \E x \in Items, status \in Kept, intent \in Intents :
       /\ item[x].status = "none"
       /\ item' = [item EXCEPT ![x] = Made(status)]
       /\ reminder' \in AiReminder(reminder, x, status, intent)
       /\ origin' = [origin EXCEPT ![x] = i]
  /\ UNCHANGED <<input, queue>> /\ Ends(t) /\ TaskLeaves
CreateItemFromInput(t) ==
  LET i == job[t].input IN
  /\ job[t].phase = "asking" /\ job[t].item = NoItem
  /\ input[i].status = "processing" /\ input[i].item = NoItem
  /\ \E x \in Items, status \in Kept, intent \in Intents :
       /\ item[x].status = "none"
       /\ item' = [item EXCEPT ![x] = Made(status)]
       /\ reminder' \in AiReminder(reminder, x, status, intent)
       /\ input' = [input EXCEPT ![i] = [status |-> "succeeded", item |-> x]]
       /\ origin' = [origin EXCEPT ![x] = i]
  /\ UNCHANGED queue /\ Ends(t) /\ TaskLeaves

\* The answer is applied to the Item as it is now.
ApplyAiUpdate(t) ==
  LET i == job[t].input
      x == job[t].item IN
  /\ job[t].phase = "asking" /\ x \in Existing
  /\ input[i].status = "processing" /\ input[i].item = x
  /\ \E target \in Kept \cup {"none"}, intent \in Intents :
       LET row == Result(item[x], target) IN
       /\ Accepts(item[x], target)
       /\ item' = [item EXCEPT ![x] = row]
       /\ reminder' \in AiReminder(
            IF row.status # item[x].status /\ row.status # "active"
            THEN Cancelled({x}) ELSE reminder, x, row.status, intent)
  /\ input' = [input EXCEPT ![i].status = "succeeded"]
  /\ UNCHANGED <<queue, origin>> /\ Ends(t) /\ TaskLeaves

\* The AI fails, or its answer is refused (no title, a status the Item cannot
\* take, an Item that is gone).
Fails(t) ==
  /\ job[t].phase = "asking"
  /\ job' = [job EXCEPT ![t].phase = "failing"]
  /\ UNCHANGED <<input, item, reminder, queue, origin, trouble>> /\ TaskLeaves

\* Variant: the state of the input is not compared.
MarkAnyInputFailed(t) ==
  /\ job[t].phase = "failing"
  /\ input' = [input EXCEPT ![job[t].input].status =
                 IF @ # "deleted" THEN "failed" ELSE @]
  /\ job' = [job EXCEPT ![t] = Idle]
  /\ UNCHANGED <<item, reminder, queue, origin, trouble>> /\ TaskLeaves
MarkInputFailed(t) ==
  /\ job[t].phase = "failing"
  /\ input' = [input EXCEPT ![job[t].input].status =
                 IF @ = "processing" THEN "failed" ELSE @]
  /\ job' = [job EXCEPT ![t] = Idle]
  /\ UNCHANGED <<item, reminder, queue, origin, trouble>> /\ TaskLeaves

\* The failure cannot be stored: the input stays in work until the next start.
MarkFailedRaises(t) ==
  /\ job[t].phase = "failing" /\ faults < MaxFaults
  /\ job' = [job EXCEPT ![t] = Idle]
  /\ faults' = faults + 1 /\ lost' = lost \cup {job[t].input}
  /\ UNCHANGED <<input, item, reminder, queue, origin>> /\ TaskLeaves

----------------------------------------------------------------------------

\* Variant: only the inputs that waited before are queued.
RestartWaiting ==
  /\ restarts < MaxRestarts
  /\ restarts' = restarts + 1
  /\ job' = [t \in Tasks |-> Idle]
  /\ input' = [i \in Inputs |-> IF input[i].status = "processing"
                                THEN [input[i] EXCEPT !.status = "pending"] ELSE input[i]]
  /\ queue' = [i \in Inputs |-> IF input[i].status = "pending" THEN 1 ELSE 0]
  /\ lost' = {}
  /\ UNCHANGED <<now, item, reminder, origin, faults>>
\* The process dies or is stopped, and starts again: work that was cut off is
\* queued anew.
Restart ==
  /\ restarts < MaxRestarts
  /\ restarts' = restarts + 1
  /\ job' = [t \in Tasks |-> Idle]
  /\ input' = [i \in Inputs |-> IF input[i].status = "processing"
                                THEN [input[i] EXCEPT !.status = "pending"] ELSE input[i]]
  /\ queue' = [i \in Inputs |-> IF input'[i].status = "pending" THEN 1 ELSE 0]
  /\ lost' = {}
  /\ UNCHANGED <<now, item, reminder, origin, faults>>

Tick ==
  /\ now < MaxTime
  /\ now' = now + 1
  /\ UNCHANGED <<input, item, reminder, queue, job, origin, bounds>>

Init ==
  /\ now = 0
  /\ input = [i \in Inputs |-> [status |-> "none", item |-> NoItem]]
  /\ item = [x \in Items |-> NoRow]
  /\ reminder = [r \in Reminders |-> [status |-> "none", item |-> NoItem]]
  /\ queue = [i \in Inputs |-> 0]
  /\ job = [t \in Tasks |-> Idle]
  /\ origin = [x \in Items |-> NoInput]
  /\ restarts = 0 /\ faults = 0 /\ lost = {}

JobStep(t) == \/ CreateItemFromInput(t) \/ ApplyAiUpdate(t) \/ Fails(t)
              \/ MarkInputFailed(t) \/ MarkFailedRaises(t)
UserStep ==
  \/ \E i \in Inputs : \/ \E x \in Items \cup {NoItem} : CreateInput(i, x)
                       \/ RepeatSave(i) \/ RetryInput(i) \/ DeleteFailedUnlinkedInput(i)
  \/ \E x \in Items : (\E target \in Kept : UpdateItem(x, target)) \/ CreateReminder(x)
  \/ \E S \in SUBSET Items : \/ \E action \in DOMAIN Sources : BulkLifecycle(S, action)
                             \/ PermanentlyDelete(S)
  \/ \E r \in Reminders : Reschedule(r) \/ CancelReminder(r)
Next ==
  \/ UserStep
  \/ \E r \in Reminders : ClaimDueReminder(r)
  \/ PurgeExpiredTrash
  \/ \E i \in Inputs : (\E t \in Tasks : ClaimInput(t, i)) \/ ClaimRaises(i)
  \/ \E t \in Tasks : JobStep(t)
  \/ Restart \/ Tick

Spec == Init /\ [][Next]_vars
\* Every scheduled task runs, and every call to the AI ends (its timeout).
FairSpec ==
  /\ Spec
  /\ \A i \in Inputs : WF_vars(\E t \in Tasks : ClaimInput(t, i))
  /\ \A t \in Tasks : WF_vars(JobStep(t))

----------------------------------------------------------------------------

TypeOK ==
  /\ now \in Nat /\ restarts \in Nat /\ faults \in Nat /\ lost \subseteq Inputs
  /\ input \in [Inputs -> Input]
  /\ item \in [Items -> Item]
  /\ reminder \in [Reminders -> Reminder]
  /\ queue \in [Inputs -> Nat]
  /\ job \in [Tasks -> Job]
  /\ origin \in [Items -> Inputs \cup {NoInput}]

\* A capture makes one Item at most, whatever fails, is repeated or starts
\* again on the way.
OneItemPerCapture ==
  \A x, y \in Items : origin[x] = origin[y] /\ origin[x] # NoInput => x = y

\* An Item can be traced to the capture it was made from: the original is
\* still on record, succeeded, and says so.
ItemHasOriginal ==
  \A x \in Existing : /\ origin[x] # NoInput
                      /\ input[origin[x]] = [status |-> "succeeded", item |-> x]

\* No two tasks work on the same input; an input in work has its task and one that
\* waits will get it, unless its own task met an exception nobody expects: then it
\* is left to the next start, which takes it up again.
WorkIsHeld ==
  /\ \A i \in Inputs \ lost :
       /\ input[i].status = "processing" => \E t \in Tasks : job[t].input = i
       /\ input[i].status = "pending" => queue[i] > 0
  /\ \A t, u \in Tasks : job[t].input = job[u].input /\ job[t].input # NoInput => t = u

\* An open Reminder belongs to an active Item, which has only that one.
OpenRemindersFit ==
  \A r \in Reminders : reminder[r].status \in Open =>
    /\ item[reminder[r].item].status = "active"
    /\ \A q \in Reminders : reminder[q].status \in Open /\ reminder[q].item = reminder[r].item
                            => q = r

Done(row) == "completed" \in {row.status, row.before}
\* The way through the trash changes neither whether an Item is done nor when
\* it was.
TrashKeepsHistory ==
  [][\A x \in Existing : "trash" \in {item[x].status, item'[x].status} /\ item'[x].status \in Kept
       => /\ Done(item'[x]) <=> Done(item[x])
          /\ item'[x].completed = item[x].completed]_vars

\* A capture never waits for ever: it is organised, fails, or is removed, unless an
\* exception nobody expects leaves it to the next start - after which it settles too.
EveryCaptureSettles ==
  \A i \in Inputs :
    input[i].status \in {"pending", "processing"} /\ i \notin lost
    ~> input[i].status \in {"succeeded", "failed", "deleted"} \/ i \in lost

\* An Item that was moved to the trash while the AI worked on it stays there
\* until the user takes it out: the AI does not decide for the user.
TrashIsTheUsersChoice ==
  [][\A t \in Tasks : \A x \in Existing :
       /\ job[t].item = x /\ job[t].seen # "trash" /\ item[x].status = "trash"
       /\ job[t].phase = "asking" /\ job'[t].phase # "asking" /\ item'[x].status \in Kept
       => item'[x].status = "trash"]_vars
=============================================================================
