---------------------- MODULE CaptureProcessing_proofs ----------------------
(***************************************************************************)
(* What CaptureProcessing.tla guarantees for every number of inputs,       *)
(* Items, Reminders, tasks, restarts and unexpected exceptions.            *)
(*                                                                         *)
(* Three inductive invariants carry the results: FilingInv (which Item an  *)
(* input belongs to, and which input an Item was made from), RemindersInv  *)
(* (whose the open Reminders are) and WorkInv (which task has which        *)
(* input).                                                                 *)
(***************************************************************************)
EXTENDS CaptureProcessing, TLAPS

----------------------------------------------------------------------------
(* The life cycle of one row.                                              *)

\* A row that was completed, set aside or restored has fitting metadata.
LEMMA AfterFits ==
  ASSUME now \in Nat, NEW row \in Item, row.status \in Kept,
         NEW action \in DOMAIN Sources, Allowed(row, action)
  PROVE  After(row, action) \in Item /\ After(row, action).status \in Kept
<1>1. action \in {"complete", "restore_to_current", "move_to_trash", "restore_from_trash"}
  BY DEF Sources
<1>. USE DEF After, Allowed, Sources, Row, Item, Fits, Kept, Time, Never
<1>2. CASE action = "complete"
  BY <1>2
<1>3. CASE action = "restore_to_current"
  BY <1>3
<1>4. CASE action = "move_to_trash"
  BY <1>4
<1>5. CASE action = "restore_from_trash"
  BY <1>5
<1>. QED BY <1>1, <1>2, <1>3, <1>4, <1>5

\* The way through the trash keeps what was done, and when.
LEMMA AfterKeepsHistory ==
  ASSUME now \in Nat, NEW row \in Item, row.status \in Kept,
         NEW action \in DOMAIN Sources, Allowed(row, action),
         "trash" \in {row.status, After(row, action).status}
  PROVE  /\ Done(After(row, action)) <=> Done(row)
         /\ After(row, action).completed = row.completed
<1>1. action \in {"complete", "restore_to_current", "move_to_trash", "restore_from_trash"}
  BY DEF Sources
<1>. USE DEF After, Allowed, Sources, Row, Item, Fits, Kept, Time, Never, Done
<1>2. CASE action = "complete"
  BY <1>2
<1>3. CASE action = "restore_to_current"
  BY <1>3
<1>4. CASE action = "move_to_trash"
  BY <1>4
<1>5. CASE action = "restore_from_trash"
  BY <1>5
<1>. QED BY <1>1, <1>2, <1>3, <1>4, <1>5

\* A wished status is reached by one of these actions, or is there already.
LEMMA ResultFits ==
  ASSUME now \in Nat, NEW row \in Item, row.status \in Kept,
         NEW target \in Kept \cup {"none"}, Accepts(row, target)
  PROVE  /\ Result(row, target) \in Item /\ Result(row, target).status \in Kept
         /\ "trash" \in {row.status, Result(row, target).status} =>
              /\ Done(Result(row, target)) <=> Done(row)
              /\ Result(row, target).completed = row.completed
<1>1. CASE Stays(row, target)
  BY <1>1 DEF Result
<1>2. CASE ~ Stays(row, target)
  <2>. DEFINE action == ActionTo(row, target)
  <2>1. action \in DOMAIN Sources
    BY DEF ActionTo, Sources
  <2>2. Allowed(row, action)
    BY <1>2 DEF Accepts
  <2>3. Result(row, target) = After(row, action)
    BY <1>2 DEF Result
  <2>. HIDE DEF action
  <2>. QED BY <2>1, <2>2, <2>3, AfterFits, AfterKeepsHistory
<1>. QED BY <1>1, <1>2

\* A new Item has fitting metadata.
LEMMA MadeFits ==
  ASSUME now \in Nat, NEW status \in Kept
  PROVE  Made(status) \in Item /\ Made(status).status = status
BY DEF Made, Row, Item, Fits, Kept, Time, Never

----------------------------------------------------------------------------
(* Reminders keep their type.                                              *)

\* Cancelling keeps the type.
LEMMA CancelledIsTyped ==
  ASSUME TypeOK, NEW S PROVE Cancelled(S) \in [Reminders -> Reminder]
BY DEF TypeOK, Cancelled, Reminder

\* Whatever the AI reads out of the text, the table keeps its type.
LEMMA AiReminderIsTyped ==
  ASSUME NEW rems \in [Reminders -> Reminder], NEW x \in Items, NEW status,
         NEW intent \in Intents
  PROVE  AiReminder(rems, x, status, intent) \subseteq [Reminders -> Reminder]
<1>1. intent # "none" => [status |-> intent, item |-> x] \in Reminder
  BY DEF Intents, Reminder, Open
<1>. QED BY <1>1 DEF AiReminder, Free

----------------------------------------------------------------------------
(* Inputs, Items and tasks.                                                *)

\* An input that belongs to an Item belongs to one that exists.
Linked == \A i \in Inputs : input[i].item # NoItem => input[i].item \in Existing

\* The input that an Item was made from lives and goes with the Item.
Origins == \A x \in Items :
  /\ item[x].status = "none" => origin[x] = NoInput
  /\ item[x].status \in Kept => /\ origin[x] \in Inputs
                                /\ input[origin[x]] = [status |-> "succeeded", item |-> x]
  /\ item[x].status = "deleted" => /\ origin[x] \in Inputs
                                   /\ input[origin[x]].status = "deleted"

\* A task that runs has an input.
Jobs == \A t \in Tasks : job[t] # Idle => job[t].phase # "idle" /\ job[t].input \in Inputs

FilingInv == TypeOK /\ Linked /\ Origins /\ Jobs

\* A new database files everything, for it holds nothing.
LEMMA FilingInit == Init => FilingInv
<1>. SUFFICES ASSUME Init PROVE FilingInv
  OBVIOUS
<1>. USE DEF Init
<1>1. NoRow \in Item /\ Idle \in Job
  BY DEF NoRow, Row, Item, Fits, Time, Never, Kept, Idle, Job
<1>2. TypeOK
  BY <1>1 DEF TypeOK, Input, Reminder
<1>3. Linked /\ Jobs
  BY DEF Linked, Jobs
<1>4. Origins
  BY DEF Origins, NoRow, Row, Kept
<1>. QED BY <1>2, <1>3, <1>4 DEF FilingInv

\* Changes of Items that make and remove none.
LEMMA ChangesKeepFiling ==
  ASSUME FilingInv, UserLeaves, item' \in [Items -> Item],
         reminder' \in [Reminders -> Reminder],
         \A x \in Items : \/ item'[x] = item[x]
                          \/ item[x].status \in Kept /\ item'[x].status \in Kept
  PROVE  FilingInv'
<1>. USE DEF FilingInv, UserLeaves, bounds, trouble
<1>1. TypeOK'
  BY DEF TypeOK
<1>2. \A x \in Items : /\ item'[x].status \in Kept <=> item[x].status \in Kept
                       /\ item'[x].status = "none" <=> item[x].status = "none"
                       /\ item'[x].status = "deleted" <=> item[x].status = "deleted"
  BY DEF Kept
<1>3. Linked'
  BY <1>2 DEF Linked, Existing
<1>4. Origins'
  BY <1>2 DEF Origins
<1>5. Jobs'
  BY DEF Jobs
<1>. QED BY <1>1, <1>3, <1>4, <1>5

\* What a change of status by the user does to the Items.
LEMMA UpdateItemRows ==
  ASSUME FilingInv, NEW x \in Items, NEW target \in Kept, UpdateItem(x, target)
  PROVE  /\ item' = [item EXCEPT ![x] = Result(item[x], target)]
         /\ item[x].status \in Kept /\ item'[x].status \in Kept
         /\ item' \in [Items -> Item] /\ reminder' \in [Reminders -> Reminder]
         /\ "trash" \in {item[x].status, item'[x].status} =>
              /\ Done(item'[x]) <=> Done(item[x])
              /\ item'[x].completed = item[x].completed
<1>1. item[x] \in Item /\ item[x].status \in Kept /\ now \in Nat
      /\ target \in Kept \cup {"none"} /\ Accepts(item[x], target)
  BY DEF UpdateItem, FilingInv, TypeOK, Existing
<1>. DEFINE row == Result(item[x], target)
<1>2. row \in Item /\ row.status \in Kept
      /\ ("trash" \in {item[x].status, row.status} =>
            /\ Done(row) <=> Done(item[x])
            /\ row.completed = item[x].completed)
  BY <1>1, ResultFits
<1>3. item' = [item EXCEPT ![x] = row]
  BY DEF UpdateItem, Changes, FilingInv, TypeOK
<1>4. reminder' \in [Reminders -> Reminder]
  BY CancelledIsTyped DEF UpdateItem, Changes, FilingInv
<1>. HIDE DEF row
<1>5. item' \in [Items -> Item] /\ item'[x] = row
  BY <1>2, <1>3 DEF FilingInv, TypeOK
<1>. QED BY <1>1, <1>2, <1>3, <1>4, <1>5 DEF row

\* What a bulk operation does to the Items.
LEMMA BulkLifecycleRows ==
  ASSUME FilingInv, NEW S \in SUBSET Items, NEW action \in DOMAIN Sources,
         BulkLifecycle(S, action)
  PROVE  /\ \A x \in Items \ S : item'[x] = item[x]
         /\ \A x \in S : /\ item[x].status \in Kept /\ item'[x].status \in Kept
                         /\ "trash" \in {item[x].status, item'[x].status} =>
                              /\ Done(item'[x]) <=> Done(item[x])
                              /\ item'[x].completed = item[x].completed
         /\ item' \in [Items -> Item] /\ reminder' \in [Reminders -> Reminder]
<1>1. \A x \in S : /\ item[x] \in Item /\ item[x].status \in Kept
                   /\ Allowed(item[x], action)
  BY DEF BulkLifecycle, FilingInv, TypeOK, Existing
<1>2. \A x \in S : /\ After(item[x], action) \in Item
                   /\ After(item[x], action).status \in Kept
                   /\ "trash" \in {item[x].status, After(item[x], action).status} =>
                        /\ Done(After(item[x], action)) <=> Done(item[x])
                        /\ After(item[x], action).completed = item[x].completed
  <2>. SUFFICES ASSUME NEW x \in S
                PROVE  /\ After(item[x], action) \in Item
                       /\ After(item[x], action).status \in Kept
                       /\ "trash" \in {item[x].status, After(item[x], action).status} =>
                            /\ Done(After(item[x], action)) <=> Done(item[x])
                            /\ After(item[x], action).completed = item[x].completed
    OBVIOUS
  <2>1. now \in Nat
    BY DEF FilingInv, TypeOK
  <2>. QED BY <1>1, <2>1, AfterFits, AfterKeepsHistory
<1>3. /\ item' = [x \in Items |-> IF x \in S THEN After(item[x], action) ELSE item[x]]
      /\ reminder' \in [Reminders -> Reminder]
  BY CancelledIsTyped DEF BulkLifecycle, Changes, FilingInv
<1>4. item' \in [Items -> Item]
  BY <1>2, <1>3 DEF FilingInv, TypeOK
<1>. QED BY <1>1, <1>2, <1>3, <1>4

\* The input of an Item that exists.
LEMMA FilesOrigin ==
  ASSUME Origins, NEW x \in Items, item[x].status \in Kept
  PROVE  /\ origin[x] \in Inputs
         /\ input[origin[x]] = [status |-> "succeeded", item |-> x]
         /\ input[origin[x]].item = x /\ input[origin[x]].status = "succeeded"
<1>1. /\ origin[x] \in Inputs
      /\ input[origin[x]] = [status |-> "succeeded", item |-> x]
  BY DEF Origins
<1>. QED BY <1>1

\* A capture that an Item was made from is organised, or gone.
LEMMA OriginIsSettled ==
  ASSUME FilingInv, NEW x \in Items, origin[x] \in Inputs
  PROVE  input[origin[x]].status \in {"succeeded", "deleted"}
<1>1. item[x].status \in Kept \cup {"none", "deleted"}
  BY DEF FilingInv, TypeOK, Item
<1>2. item[x].status # "none"
  BY NamesAssumption DEF NamesAssumption, FilingInv, Origins
<1>3. CASE item[x].status \in Kept
  BY <1>3, FilesOrigin DEF FilingInv
<1>4. CASE item[x].status = "deleted"
  BY <1>4 DEF FilingInv, Origins
<1>. QED BY <1>1, <1>2, <1>3, <1>4

\* Permanent deletion, by the user or by the retention worker.
LEMMA DeletionKeepsFiling ==
  ASSUME FilingInv, NEW S \in SUBSET Items, PermanentlyDeleteRows(S)
  PROVE  FilingInv'
<1>. USE DEF FilingInv, PermanentlyDeleteRows, bounds, trouble
<1>1. [NoRow EXCEPT !.status = "deleted"] \in Item
      /\ [NoRow EXCEPT !.status = "deleted"].status = "deleted"
  BY DEF NoRow, Row, Item, Fits, Time, Never, Kept
<1>2. TypeOK'
  <2>1. item' \in [Items -> Item]
    BY <1>1 DEF TypeOK
  <2>2. input' \in [Inputs -> Input] /\ reminder' \in [Reminders -> Reminder]
    BY DEF TypeOK, Input, Reminder
  <2>. QED BY <2>1, <2>2 DEF TypeOK
<1>3. Linked'
  <2>. SUFFICES ASSUME NEW i \in Inputs, input'[i].item # NoItem
                PROVE  input'[i].item \in Existing'
    BY DEF Linked
  <2>1. input'[i] = input[i] /\ input[i].item \notin S /\ input[i].item \in Existing
    BY DEF Linked
  <2>. QED BY <2>1 DEF Existing
<1>4. Origins'
  <2>. SUFFICES ASSUME NEW x \in Items
                PROVE  /\ item'[x].status = "none" => origin'[x] = NoInput
                       /\ item'[x].status \in Kept =>
                            /\ origin'[x] \in Inputs
                            /\ input'[origin'[x]] = [status |-> "succeeded", item |-> x]
                       /\ item'[x].status = "deleted" =>
                            /\ origin'[x] \in Inputs
                            /\ input'[origin'[x]].status = "deleted"
    BY DEF Origins
  <2>1. CASE x \in S
    <3>1. item[x].status \in Kept
      BY <2>1 DEF Kept
    <3>2. item'[x].status = "deleted"
      BY <1>1, <2>1
    <3>3. origin[x] \in Inputs /\ input[origin[x]].item = x
      BY <3>1, FilesOrigin
    <3>4. input'[origin[x]] = [status |-> "deleted", item |-> NoItem]
      BY <2>1, <3>3
    <3>. QED BY <3>2, <3>3, <3>4 DEF Kept
  <2>2. CASE x \notin S
    <3>1. item'[x] = item[x]
      BY <2>2
    <3>2. origin[x] \in Inputs => input'[origin[x]] = input[origin[x]]
                                  \/ input'[origin[x]].status = "deleted"
      BY DEF Origins
    <3>3. item[x].status \in Kept => /\ origin[x] \in Inputs
                                     /\ input'[origin[x]] = input[origin[x]]
      BY <2>2, FilesOrigin
    <3>. QED BY <3>1, <3>2, <3>3 DEF Origins, Kept
  <2>. QED BY <2>1, <2>2
<1>5. Jobs'
  BY DEF Jobs
<1>. QED BY <1>2, <1>3, <1>4, <1>5

\* Changes of Reminders alone.
LEMMA RemindersKeepFiling ==
  ASSUME FilingInv, RemindersLeave, reminder' \in [Reminders -> Reminder]
  PROVE  FilingInv'
BY DEF FilingInv, RemindersLeave, bounds, trouble, TypeOK, Linked, Existing, Origins, Jobs

\* Changes of one input that is not, and does not become, the origin of an Item.
LEMMA InputKeepsFiling ==
  ASSUME FilingInv, NEW i \in Inputs,
         item' \in [Items -> Item],
         \A x \in Items : \/ item'[x] = item[x]
                          \/ item[x].status \in Kept /\ item'[x].status \in Kept,
         reminder' \in [Reminders -> Reminder], origin' = origin,
         now' = now, restarts' \in Nat, faults' \in Nat /\ lost' \subseteq Inputs,
         queue' \in [Inputs -> Nat], job' \in [Tasks -> Job], Jobs',
         input' \in [Inputs -> Input],
         \A j \in Inputs \ {i} : input'[j] = input[j],
         input'[i].item = input[i].item \/ input'[i].item \in Existing \cup {NoItem},
         \/ input'[i] = input[i]
         \/ input[i].status \notin {"succeeded", "deleted"}
  PROVE  FilingInv'
<1>. USE DEF FilingInv
<1>1. TypeOK'
  BY DEF TypeOK
<1>4. \A x \in Items : /\ item'[x].status \in Kept <=> item[x].status \in Kept
                       /\ item'[x].status = "none" <=> item[x].status = "none"
                       /\ item'[x].status = "deleted" <=> item[x].status = "deleted"
  BY DEF Kept
<1>2. Linked'
  BY <1>4 DEF Linked, Existing
<1>3. Origins'
  <2>1. \A x \in Items : origin[x] \in Inputs =>
          input[origin[x]].status \in {"succeeded", "deleted"}
    BY OriginIsSettled
  <2>2. \A j \in Inputs : input[j].status \in {"succeeded", "deleted"} => input'[j] = input[j]
    OBVIOUS
  <2>3. \A x \in Items : origin[x] \in Inputs => input'[origin[x]] = input[origin[x]]
    BY <2>1, <2>2
  <2>4. ASSUME NEW x \in Items
        PROVE  /\ item'[x].status = "none" => origin[x] = NoInput
               /\ item'[x].status \in Kept =>
                    /\ origin[x] \in Inputs
                    /\ input'[origin[x]] = [status |-> "succeeded", item |-> x]
               /\ item'[x].status = "deleted" =>
                    /\ origin[x] \in Inputs
                    /\ input'[origin[x]].status = "deleted"
    BY <1>4, <2>3, FilesOrigin DEF Origins
  <2>. QED BY <2>4 DEF Origins
<1>. QED BY <1>1, <1>2, <1>3

\* A task that ends, or goes on to store a failure.
LEMMA TaskTurns ==
  ASSUME TypeOK, Jobs, NEW t \in Tasks, job[t].phase # "idle"
  PROVE  /\ job[t].input \in Inputs /\ job[t] # Idle
         /\ job' = [job EXCEPT ![t] = Idle] => job' \in [Tasks -> Job] /\ Jobs'
         /\ job' = [job EXCEPT ![t].phase = "failing"] =>
              /\ job' \in [Tasks -> Job] /\ Jobs'
              /\ job'[t].input = job[t].input /\ job'[t].phase = "failing"
<1>1. job[t] # Idle /\ job[t] \in Job /\ Idle \in Job
  BY DEF Idle, Job, TypeOK
<1>2. job[t].input \in Inputs
  BY <1>1 DEF Jobs
<1>3. ASSUME job' = [job EXCEPT ![t] = Idle] PROVE job' \in [Tasks -> Job] /\ Jobs'
  <2>1. job' \in [Tasks -> Job]
    BY <1>1, <1>3 DEF TypeOK
  <2>2. \A u \in Tasks : job'[u] = Idle \/ job'[u] = job[u]
    BY <1>3 DEF TypeOK
  <2>3. Jobs'
    BY <2>2 DEF Jobs
  <2>. QED BY <1>1, <1>2, <2>1, <2>3
<1>4. ASSUME job' = [job EXCEPT ![t].phase = "failing"]
      PROVE  /\ job' \in [Tasks -> Job] /\ Jobs'
             /\ job'[t].input = job[t].input /\ job'[t].phase = "failing"
  <2>. DEFINE next == [phase |-> "failing", input |-> job[t].input,
                       item |-> job[t].item, seen |-> job[t].seen]
  <2>1. job' = [job EXCEPT ![t] = next]
    <3>1. job[t] = [phase |-> job[t].phase, input |-> job[t].input,
                    item |-> job[t].item, seen |-> job[t].seen]
      BY <1>1 DEF Job
    <3>2. [job[t] EXCEPT !.phase = "failing"] = next
      BY <3>1
    <3>. QED BY <1>4, <3>2
  <2>2. next \in Job /\ next.phase = "failing" /\ next.input = job[t].input
    BY <1>1 DEF Job
  <2>. HIDE DEF next
  <2>3. job' \in [Tasks -> Job] /\ job'[t] = next
    BY <2>1, <2>2 DEF TypeOK
  <2>4. Jobs'
    BY <1>2, <2>1, <2>2 DEF Jobs, TypeOK
  <2>. QED BY <1>1, <1>2, <2>2, <2>3, <2>4
<1>. QED BY <1>1, <1>2, <1>3, <1>4

\* However a task leaves its result behind, the tasks stay well formed.
LEMMA EndsKeepsJobs ==
  ASSUME TypeOK, Jobs, NEW t \in Tasks, job[t].phase # "idle", Ends(t)
  PROVE  job' \in [Tasks -> Job] /\ Jobs' /\ faults' \in Nat /\ lost' \subseteq Inputs
BY TaskTurns DEF Ends, trouble, TypeOK

\* An Item that is made is traced to its input from then on.
LEMMA CreationKeepsFiling ==
  ASSUME FilingInv, NEW t \in Tasks, CreateItemFromInput(t)
  PROVE  FilingInv'
<1>. DEFINE i == job[t].input
<1>1. i \in Inputs /\ input[i].status = "processing" /\ input[i].item = NoItem
      /\ job' \in [Tasks -> Job] /\ Jobs' /\ faults' \in Nat /\ lost' \subseteq Inputs
  BY TaskTurns, EndsKeepsJobs DEF CreateItemFromInput, FilingInv
<1>2. PICK x \in Items, status \in Kept, intent \in Intents :
        /\ item[x].status = "none"
        /\ item' = [item EXCEPT ![x] = Made(status)]
        /\ reminder' \in AiReminder(reminder, x, status, intent)
        /\ input' = [input EXCEPT ![i] = [status |-> "succeeded", item |-> x]]
        /\ origin' = [origin EXCEPT ![x] = i]
  BY DEF CreateItemFromInput
<1>. HIDE DEF i
<1>3. Made(status) \in Item /\ Made(status).status \in Kept
  BY MadeFits DEF FilingInv, TypeOK
<1>4. TypeOK'
  <2>1. reminder' \in [Reminders -> Reminder]
    BY <1>2, AiReminderIsTyped DEF FilingInv, TypeOK
  <2>2. input' \in [Inputs -> Input]
    BY <1>1, <1>2 DEF FilingInv, TypeOK, Input
  <2>3. item' \in [Items -> Item] /\ origin' \in [Items -> Inputs \cup {NoInput}]
    BY <1>1, <1>2, <1>3 DEF FilingInv, TypeOK
  <2>. QED BY <1>1, <2>1, <2>2, <2>3
           DEF FilingInv, TypeOK, CreateItemFromInput, TaskLeaves
<1>5. \A y \in Items \ {x} : item'[y] = item[y] /\ origin'[y] = origin[y]
  BY <1>2 DEF FilingInv, TypeOK
<1>6. item'[x].status \in Kept /\ origin'[x] = i
      /\ input'[i] = [status |-> "succeeded", item |-> x]
  BY <1>1, <1>2, <1>3 DEF FilingInv, TypeOK
<1>7. Linked'
  <2>1. \A j \in Inputs \ {i} : input'[j] = input[j]
    BY <1>2 DEF FilingInv, TypeOK
  <2>2. \A y \in Items : y \in Existing => y \in Existing'
    BY <1>5, <1>6 DEF Existing
  <2>3. x \in Existing' /\ input'[i].item = x
    BY <1>6 DEF Existing
  <2>. SUFFICES ASSUME NEW j \in Inputs, input'[j].item # NoItem
                PROVE  input'[j].item \in Existing'
    BY DEF Linked
  <2>4. j # i => input[j].item \in Existing
    BY <2>1 DEF FilingInv, Linked
  <2>. QED BY <2>1, <2>2, <2>3, <2>4 DEF Existing
<1>8. Origins'
  <2>. SUFFICES ASSUME NEW y \in Items
                PROVE  /\ item'[y].status = "none" => origin'[y] = NoInput
                       /\ item'[y].status \in Kept =>
                            /\ origin'[y] \in Inputs
                            /\ input'[origin'[y]] = [status |-> "succeeded", item |-> y]
                       /\ item'[y].status = "deleted" =>
                            /\ origin'[y] \in Inputs
                            /\ input'[origin'[y]].status = "deleted"
    BY DEF Origins
  <2>1. CASE y = x
    BY <1>1, <1>6, <2>1 DEF Kept
  <2>2. CASE y # x
    <3>1. origin[y] # i
      BY <1>1, OriginIsSettled
    <3>2. origin[y] \in Inputs => input'[origin[y]] = input[origin[y]]
      BY <1>2, <3>1 DEF FilingInv, TypeOK
    <3>3. item'[y] = item[y] /\ origin'[y] = origin[y]
      BY <1>5, <2>2
    <3>4. item[y].status \in Kept => /\ origin[y] \in Inputs
                                     /\ input[origin[y]] = [status |-> "succeeded", item |-> y]
      BY FilesOrigin DEF FilingInv
    <3>. QED BY <3>2, <3>3, <3>4 DEF FilingInv, Origins
  <2>. QED BY <2>1, <2>2
<1>. QED BY <1>1, <1>4, <1>7, <1>8 DEF FilingInv

\* The answer of the AI is applied to one Item.
LEMMA ApplyAiUpdateRows ==
  ASSUME FilingInv, NEW t \in Tasks, ApplyAiUpdate(t)
  PROVE  LET x == job[t].item
             i == job[t].input IN
         /\ x \in Items /\ item[x].status \in Kept /\ item'[x].status \in Kept
         /\ item' \in [Items -> Item] /\ \A y \in Items \ {x} : item'[y] = item[y]
         /\ reminder' \in [Reminders -> Reminder]
         /\ i \in Inputs /\ input[i].status = "processing"
         /\ input' = [input EXCEPT ![i].status = "succeeded"]
         /\ "trash" \in {item[x].status, item'[x].status} =>
              /\ Done(item'[x]) <=> Done(item[x])
              /\ item'[x].completed = item[x].completed
<1>. DEFINE x == job[t].item
            i == job[t].input
<1>1. PICK target \in Kept \cup {"none"}, intent \in Intents :
        LET row == Result(item[x], target) IN
        /\ Accepts(item[x], target)
        /\ item' = [item EXCEPT ![x] = row]
        /\ reminder' \in AiReminder(
             IF row.status # item[x].status /\ row.status # "active"
             THEN Cancelled({x}) ELSE reminder, x, row.status, intent)
  BY DEF ApplyAiUpdate
<1>. DEFINE row == Result(item[x], target)
<1>2. x \in Items /\ item[x] \in Item /\ item[x].status \in Kept /\ now \in Nat
  BY DEF ApplyAiUpdate, Existing, FilingInv, TypeOK
<1>3. row \in Item /\ row.status \in Kept
      /\ ("trash" \in {item[x].status, row.status} =>
            /\ Done(row) <=> Done(item[x])
            /\ row.completed = item[x].completed)
  BY <1>1, <1>2, ResultFits
<1>4. reminder' \in [Reminders -> Reminder]
  <2>. DEFINE rems == IF row.status # item[x].status /\ row.status # "active"
                      THEN Cancelled({x}) ELSE reminder
              status == row.status
  <2>1. rems \in [Reminders -> Reminder]
    BY CancelledIsTyped DEF FilingInv, TypeOK
  <2>2. reminder' \in AiReminder(rems, x, status, intent)
    BY <1>1
  <2>. HIDE DEF rems, status
  <2>. QED BY <1>2, <2>1, <2>2, AiReminderIsTyped
<1>5. item' = [item EXCEPT ![x] = row]
  BY <1>1
<1>. HIDE DEF row
<1>6. item' \in [Items -> Item] /\ item'[x] = row /\ \A y \in Items \ {x} : item'[y] = item[y]
  BY <1>2, <1>3, <1>5 DEF FilingInv, TypeOK
<1>7. i \in Inputs /\ input[i].status = "processing"
      /\ input' = [input EXCEPT ![i].status = "succeeded"]
  BY TaskTurns DEF ApplyAiUpdate, FilingInv
<1>. QED BY <1>2, <1>3, <1>4, <1>6, <1>7

\* A change of the status of one input.
LEMMA StatusIsTyped ==
  ASSUME TypeOK, NEW i \in Inputs,
         NEW st \in {"none", "pending", "processing", "succeeded", "failed", "deleted"},
         input' = [input EXCEPT ![i].status = st]
  PROVE  /\ input' \in [Inputs -> Input]
         /\ input'[i] = [status |-> st, item |-> input[i].item]
         /\ \A j \in Inputs \ {i} : input'[j] = input[j]
<1>1. input[i] = [status |-> input[i].status, item |-> input[i].item]
      /\ input[i].item \in Items \cup {NoItem}
  BY DEF TypeOK, Input
<1>2. [input[i] EXCEPT !.status = st] = [status |-> st, item |-> input[i].item]
  BY <1>1
<1>3. input' = [input EXCEPT ![i] = [status |-> st, item |-> input[i].item]]
  BY <1>2
<1>. QED BY <1>1, <1>3 DEF TypeOK, Input

\* The answer for an Item leaves its input with it.
LEMMA ApplyingKeepsFiling ==
  ASSUME FilingInv, NEW t \in Tasks, ApplyAiUpdate(t)
  PROVE  FilingInv'
<1>. DEFINE i == job[t].input
            x == job[t].item
<1>1. /\ x \in Items /\ item[x].status \in Kept /\ item'[x].status \in Kept
      /\ item' \in [Items -> Item] /\ \A y \in Items \ {x} : item'[y] = item[y]
      /\ reminder' \in [Reminders -> Reminder]
      /\ i \in Inputs /\ input[i].status = "processing"
      /\ input' = [input EXCEPT ![i].status = "succeeded"]
  BY ApplyAiUpdateRows
<1>2. job' \in [Tasks -> Job] /\ Jobs' /\ faults' \in Nat /\ lost' \subseteq Inputs
  BY EndsKeepsJobs DEF ApplyAiUpdate, FilingInv
<1>3. /\ now' = now /\ restarts' \in Nat /\ queue' \in [Inputs -> Nat] /\ origin' = origin
  BY DEF ApplyAiUpdate, TaskLeaves, FilingInv, TypeOK
<1>. HIDE DEF i, x
<1>4. /\ input' \in [Inputs -> Input] /\ \A j \in Inputs \ {i} : input'[j] = input[j]
      /\ input'[i].item = input[i].item
  <2>1. input' = [input EXCEPT ![i].status = "succeeded"] /\ TypeOK
    BY <1>1 DEF FilingInv
  <2>2. /\ input' \in [Inputs -> Input] /\ \A j \in Inputs \ {i} : input'[j] = input[j]
        /\ input'[i] = [status |-> "succeeded", item |-> input[i].item]
    BY <1>1, <2>1, StatusIsTyped
  <2>. QED BY <2>2
<1>5. \A y \in Items : \/ item'[y] = item[y]
                       \/ item[y].status \in Kept /\ item'[y].status \in Kept
  BY <1>1
<1>6. input[i].status \notin {"succeeded", "deleted"}
  BY <1>1
<1>. QED BY <1>1, <1>2, <1>3, <1>4, <1>5, <1>6, InputKeepsFiling DEF FilingInv

\* A task that starts takes its input and no more.
LEMMA ClaimKeepsFiling ==
  ASSUME FilingInv, NEW t \in Tasks, NEW i \in Inputs, ClaimInput(t, i)
  PROVE  FilingInv'
<1>1. /\ now' = now /\ restarts' \in Nat /\ faults' \in Nat /\ lost' \subseteq Inputs /\ origin' = origin
      /\ item' = item /\ reminder' = reminder /\ item' \in [Items -> Item]
      /\ reminder' \in [Reminders -> Reminder] /\ queue[i] > 0
      /\ queue' = [queue EXCEPT ![i] = @ - 1]
  BY DEF ClaimInput, TaskLeaves, FilingInv, TypeOK
<1>2. queue' \in [Inputs -> Nat]
  BY <1>1 DEF FilingInv, TypeOK
<1>3. CASE input[i].status = "pending"
  <2>. DEFINE next == [phase |-> "asking", input |-> i, item |-> input[i].item,
                       seen |-> IF input[i].item = NoItem THEN "none"
                                ELSE item[input[i].item].status]
  <2>1. job' = [job EXCEPT ![t] = next] /\ input' = [input EXCEPT ![i].status = "processing"]
    BY <1>3 DEF ClaimInput
  <2>2. next \in Job /\ next.phase = "asking" /\ next.input = i
    <3>1. input[i].item \in Items \cup {NoItem}
      BY DEF FilingInv, TypeOK, Input
    <3>2. input[i].item # NoItem => item[input[i].item].status \in Kept
      BY DEF FilingInv, Linked, Existing
    <3>. QED BY <3>1, <3>2 DEF Job
  <2>. HIDE DEF next
  <2>3. job' \in [Tasks -> Job] /\ \A u \in Tasks : job'[u] = next \/ job'[u] = job[u]
    BY <2>1, <2>2 DEF FilingInv, TypeOK
  <2>4. Jobs'
    BY <2>2, <2>3 DEF FilingInv, Jobs
  <2>5. /\ input' \in [Inputs -> Input] /\ \A j \in Inputs \ {i} : input'[j] = input[j]
        /\ input'[i].item = input[i].item
    <3>1. input' = [input EXCEPT ![i].status = "processing"] /\ TypeOK
      BY <2>1 DEF FilingInv
    <3>2. /\ input' \in [Inputs -> Input] /\ \A j \in Inputs \ {i} : input'[j] = input[j]
          /\ input'[i] = [status |-> "processing", item |-> input[i].item]
      BY <3>1, StatusIsTyped
    <3>. QED BY <3>2
  <2>6. \A y \in Items : item'[y] = item[y]
    BY <1>1
  <2>7. input[i].status \notin {"succeeded", "deleted"}
    BY <1>3
  <2>. QED BY <1>1, <1>2, <2>3, <2>4, <2>5, <2>6, <2>7, InputKeepsFiling
<1>4. CASE input[i].status # "pending"
  <2>1. job' = job /\ input' = input
    BY <1>4 DEF ClaimInput
  <2>. QED BY <1>1, <1>2, <2>1
           DEF FilingInv, TypeOK, Linked, Existing, Origins, Jobs
<1>. QED BY <1>3, <1>4

\* A task that ends without an Item, or goes on to store the failure.
LEMMA JobKeepsFiling ==
  ASSUME FilingInv, NEW t \in Tasks,
         Fails(t) \/ MarkInputFailed(t) \/ MarkFailedRaises(t)
  PROVE  FilingInv'
<1>. DEFINE i == job[t].input
<1>1. job[t].phase # "idle" /\ i \in Inputs /\ TypeOK /\ Jobs
  BY TaskTurns DEF Fails, MarkInputFailed, MarkFailedRaises, FilingInv
<1>2. job' \in [Tasks -> Job] /\ Jobs'
  BY <1>1, TaskTurns DEF Fails, MarkInputFailed, MarkFailedRaises
<1>3. /\ now' = now /\ restarts' \in Nat /\ faults' \in Nat /\ lost' \subseteq Inputs /\ origin' = origin
      /\ item' = item /\ reminder' = reminder /\ queue' = queue
  BY <1>1 DEF Fails, MarkInputFailed, MarkFailedRaises, TaskLeaves, trouble, TypeOK
<1>4. input' = input \/ /\ input[i].status = "processing"
                        /\ input' = [input EXCEPT ![i].status = "failed"]
  <2>1. CASE MarkInputFailed(t)
    <3>1. CASE input[i].status = "processing"
      BY <2>1, <3>1 DEF MarkInputFailed
    <3>2. CASE input[i].status # "processing"
      <4>1. input[i] = [input[i] EXCEPT !.status = input[i].status]
        BY <1>1 DEF TypeOK, Input
      <4>2. input' = [input EXCEPT ![i] = input[i]]
        BY <2>1, <3>2, <4>1 DEF MarkInputFailed
      <4>. QED BY <1>1, <4>2 DEF TypeOK
    <3>. QED BY <3>1, <3>2
  <2>2. CASE ~ MarkInputFailed(t)
    BY <2>2 DEF Fails, MarkFailedRaises
  <2>. QED BY <2>1, <2>2
<1>. HIDE DEF i
<1>5. CASE input' = input
  BY <1>1, <1>2, <1>3, <1>5 DEF FilingInv, TypeOK, Linked, Existing, Origins
<1>6. CASE input[i].status = "processing" /\ input' = [input EXCEPT ![i].status = "failed"]
  <2>1. /\ input' \in [Inputs -> Input] /\ \A j \in Inputs \ {i} : input'[j] = input[j]
        /\ input'[i] = [status |-> "failed", item |-> input[i].item]
    BY <1>1, <1>6, StatusIsTyped
  <2>2. input'[i].item = input[i].item /\ input[i].status \notin {"succeeded", "deleted"}
    BY <1>6, <2>1
  <2>3. /\ item' \in [Items -> Item] /\ reminder' \in [Reminders -> Reminder]
        /\ queue' \in [Inputs -> Nat]
    BY <1>1, <1>3 DEF TypeOK
  <2>4. \A x \in Items : item'[x] = item[x]
    BY <1>3
  <2>. QED BY <1>1, <1>2, <1>3, <2>1, <2>2, <2>3, <2>4, InputKeepsFiling
<1>. QED BY <1>4, <1>5, <1>6

\* A change of one input by the user.
LEMMA UserInputKeepsFiling ==
  ASSUME FilingInv, NEW i \in Inputs,
         \/ \E x \in Items \cup {NoItem} : CreateInput(i, x)
         \/ RetryInput(i) \/ DeleteFailedUnlinkedInput(i)
  PROVE  FilingInv'
<1>1. /\ now' = now /\ restarts' \in Nat /\ faults' \in Nat /\ lost' \subseteq Inputs /\ origin' = origin
      /\ item' = item /\ reminder' = reminder /\ job' = job /\ job' \in [Tasks -> Job]
      /\ item' \in [Items -> Item] /\ reminder' \in [Reminders -> Reminder]
      /\ queue' \in [Inputs -> Nat]
  BY DEF CreateInput, RetryInput, DeleteFailedUnlinkedInput, CaptureLeaves, bounds, trouble,
         FilingInv, TypeOK
<1>2. Jobs'
  BY <1>1 DEF FilingInv, Jobs
<1>3. input[i].status \in {"none", "failed"}
  BY DEF CreateInput, RetryInput, DeleteFailedUnlinkedInput
<1>4. /\ input' \in [Inputs -> Input] /\ \A j \in Inputs \ {i} : input'[j] = input[j]
      /\ input'[i].item = input[i].item \/ input'[i].item \in Existing \cup {NoItem}
  <2>. USE DEF FilingInv
  <2>1. ASSUME NEW x \in Items \cup {NoItem}, CreateInput(i, x)
        PROVE  /\ input' \in [Inputs -> Input]
               /\ \A j \in Inputs \ {i} : input'[j] = input[j]
               /\ input'[i].item \in Existing \cup {NoItem}
    <3>1. input' = [input EXCEPT ![i] = [status |-> "pending", item |-> x]]
          /\ x \in Existing \cup {NoItem}
      BY <2>1 DEF CreateInput
    <3>2. [status |-> "pending", item |-> x] \in Input
      BY DEF Input
    <3>. QED BY <3>1, <3>2 DEF TypeOK
  <2>2. CASE RetryInput(i)
    <3>1. input' = [input EXCEPT ![i].status = "pending"]
      BY <2>2 DEF RetryInput
    <3>2. /\ input' \in [Inputs -> Input] /\ \A j \in Inputs \ {i} : input'[j] = input[j]
          /\ input'[i] = [status |-> "pending", item |-> input[i].item]
      BY <3>1, StatusIsTyped
    <3>. QED BY <3>2
  <2>3. CASE DeleteFailedUnlinkedInput(i)
    <3>1. input' = [input EXCEPT ![i].status = "deleted"]
      BY <2>3 DEF DeleteFailedUnlinkedInput
    <3>2. /\ input' \in [Inputs -> Input] /\ \A j \in Inputs \ {i} : input'[j] = input[j]
          /\ input'[i] = [status |-> "deleted", item |-> input[i].item]
      BY <3>1, StatusIsTyped
    <3>. QED BY <3>2
  <2>. QED BY <2>1, <2>2, <2>3
<1>5. \A x \in Items : item'[x] = item[x]
  BY <1>1
<1>6. input[i].status \notin {"succeeded", "deleted"}
  BY <1>3
<1>. QED BY <1>1, <1>2, <1>4, <1>5, <1>6, InputKeepsFiling

\* A restart queues the inputs that were in work; Items and links stay.
LEMMA RestartKeepsFiling ==
  ASSUME FilingInv, Restart PROVE FilingInv'
<1>. USE DEF FilingInv, Restart
<1>1. \A i \in Inputs : /\ input'[i] \in Input /\ input'[i].item = input[i].item
                        /\ input[i].status # "processing" => input'[i] = input[i]
  <2>. SUFFICES ASSUME NEW i \in Inputs
                PROVE  /\ input'[i] \in Input /\ input'[i].item = input[i].item
                       /\ input[i].status # "processing" => input'[i] = input[i]
    OBVIOUS
  <2>1. input[i] \in Input
    BY DEF TypeOK
  <2>2. CASE input[i].status = "processing"
    <3>1. input[i] = [status |-> input[i].status, item |-> input[i].item]
      BY <2>1 DEF Input
    <3>2. [input[i] EXCEPT !.status = "pending"] = [status |-> "pending", item |-> input[i].item]
      BY <3>1
    <3>3. input'[i] = [status |-> "pending", item |-> input[i].item]
      BY <2>2, <3>2
    <3>. QED BY <2>1, <2>2, <3>3 DEF Input
  <2>3. CASE input[i].status # "processing"
    BY <2>1, <2>3
  <2>. QED BY <2>2, <2>3
<1>2. TypeOK'
  <2>1. Idle \in Job
    BY DEF Idle, Job
  <2>2. input' \in [Inputs -> Input]
    BY <1>1
  <2>3. queue' \in [Inputs -> Nat]
    OBVIOUS
  <2>. QED BY <2>1, <2>2, <2>3 DEF TypeOK
<1>3. Linked'
  BY <1>1 DEF Linked, Existing
<1>4. Origins'
  <2>1. \A x \in Items : origin[x] \in Inputs => input'[origin[x]] = input[origin[x]]
    BY <1>1, OriginIsSettled
  <2>. QED BY <2>1 DEF Origins
<1>5. Jobs'
  BY DEF Jobs
<1>. QED BY <1>2, <1>3, <1>4, <1>5

\* Every step keeps inputs, Items and tasks filed.
LEMMA FilingStep == FilingInv /\ [Next]_vars => FilingInv'
<1>. SUFFICES ASSUME FilingInv, [Next]_vars PROVE FilingInv'
  OBVIOUS
<1>1. ASSUME NEW i \in Inputs, NEW x \in Items \cup {NoItem}, CreateInput(i, x)
      PROVE  FilingInv'
  BY <1>1, UserInputKeepsFiling
<1>2. ASSUME NEW i \in Inputs, RetryInput(i) \/ DeleteFailedUnlinkedInput(i)
      PROVE  FilingInv'
  BY <1>2, UserInputKeepsFiling
<1>3. ASSUME NEW i \in Inputs, RepeatSave(i) \/ ClaimRaises(i) PROVE FilingInv'
  BY <1>3 DEF RepeatSave, ClaimRaises, CaptureLeaves, TaskLeaves, bounds, trouble, FilingInv,
              TypeOK, Linked, Existing, Origins, Jobs
<1>4. ASSUME NEW x \in Items, NEW target \in Kept, UpdateItem(x, target)
      PROVE  FilingInv'
  <2>1. /\ item' = [item EXCEPT ![x] = Result(item[x], target)]
        /\ item[x].status \in Kept /\ item'[x].status \in Kept
        /\ item' \in [Items -> Item] /\ reminder' \in [Reminders -> Reminder]
    BY <1>4, UpdateItemRows
  <2>2. \A y \in Items : \/ item'[y] = item[y]
                         \/ item[y].status \in Kept /\ item'[y].status \in Kept
    BY <2>1 DEF FilingInv, TypeOK
  <2>. QED BY <1>4, <2>1, <2>2, ChangesKeepFiling DEF UpdateItem
<1>5. ASSUME NEW S \in SUBSET Items, NEW action \in DOMAIN Sources,
             BulkLifecycle(S, action)
      PROVE  FilingInv'
  <2>1. \A y \in Items : \/ item'[y] = item[y]
                         \/ item[y].status \in Kept /\ item'[y].status \in Kept
    BY <1>5, BulkLifecycleRows
  <2>2. item' \in [Items -> Item] /\ reminder' \in [Reminders -> Reminder]
    BY <1>5, BulkLifecycleRows
  <2>. QED BY <1>5, <2>1, <2>2, ChangesKeepFiling DEF BulkLifecycle
<1>6. ASSUME NEW S \in SUBSET Items, PermanentlyDelete(S) PROVE FilingInv'
  BY <1>6, DeletionKeepsFiling DEF PermanentlyDelete
<1>7. CASE PurgeExpiredTrash
  BY <1>7, DeletionKeepsFiling DEF PurgeExpiredTrash, Expired
<1>8. ASSUME NEW x \in Items, CreateReminder(x) PROVE FilingInv'
  <2>1. reminder' \in [Reminders -> Reminder]
    <3>1. PICK r \in Free :
            reminder' = [reminder EXCEPT ![r] = [status |-> "scheduled", item |-> x]]
      BY <1>8 DEF CreateReminder
    <3>2. [status |-> "scheduled", item |-> x] \in Reminder
      BY DEF Reminder, Open
    <3>. QED BY <3>1, <3>2 DEF FilingInv, TypeOK
  <2>. QED BY <1>8, <2>1, RemindersKeepFiling DEF CreateReminder
<1>9. ASSUME NEW r \in Reminders, Reschedule(r) \/ CancelReminder(r) \/ ClaimDueReminder(r)
      PROVE  FilingInv'
  <2>1. \A st \in {"scheduled", "cancelled", "due"} :
          [reminder EXCEPT ![r].status = st] \in [Reminders -> Reminder]
    BY DEF FilingInv, TypeOK, Reminder, Open
  <2>2. reminder' \in [Reminders -> Reminder] /\ RemindersLeave
    BY <1>9, <2>1 DEF Reschedule, CancelReminder, ClaimDueReminder
  <2>. QED BY <2>2, RemindersKeepFiling
<1>10. ASSUME NEW t \in Tasks, NEW i \in Inputs, ClaimInput(t, i) PROVE FilingInv'
  BY <1>10, ClaimKeepsFiling
<1>11. ASSUME NEW t \in Tasks, JobStep(t) PROVE FilingInv'
  BY <1>11, CreationKeepsFiling, ApplyingKeepsFiling, JobKeepsFiling DEF JobStep
<1>12. CASE Restart
  BY <1>12, RestartKeepsFiling
<1>13. CASE Tick
  BY <1>13 DEF Tick, bounds, trouble, FilingInv, TypeOK, Linked, Existing, Origins, Jobs
<1>14. CASE UNCHANGED vars
  BY <1>14 DEF vars, bounds, trouble, FilingInv, TypeOK, Linked, Existing, Origins, Jobs
<1>15. CASE UserStep
  BY <1>1, <1>2, <1>3, <1>4, <1>5, <1>6, <1>8, <1>9, <1>15 DEF UserStep
<1>. QED BY <1>3, <1>7, <1>9, <1>10, <1>11, <1>12, <1>13, <1>14, <1>15 DEF Next

\* Inputs, Items and tasks are filed in every state: the transactions of
\* repository.py link an input to its Item in the step that makes the Item.
THEOREM FilingHolds == Spec => []FilingInv
<1>. QED BY FilingInit, FilingStep, PTL DEF Spec

\* The rows of inputs, Items and Reminders are well formed: above all, an Item
\* has the dates and the remembered status of its place in the life cycle.
THEOREM TypeCorrect == Spec => []TypeOK
<1>1. FilingInv => TypeOK
  BY DEF FilingInv
<1>. QED BY <1>1, FilingHolds, PTL

\* Every Item can be traced to its original capture.
THEOREM Traceable == Spec => []ItemHasOriginal
<1>1. FilingInv => ItemHasOriginal
  <2>. SUFFICES ASSUME FilingInv, NEW x \in Existing
                PROVE  /\ origin[x] # NoInput
                       /\ input[origin[x]] = [status |-> "succeeded", item |-> x]
    BY DEF ItemHasOriginal
  <2>. QED BY FilesOrigin, NamesAssumption DEF Existing, FilingInv, NamesAssumption
<1>. QED BY <1>1, FilingHolds, PTL

\* A capture makes one Item at most: only an input in work makes one, and the
\* input of an Item is never in work again.
THEOREM OneItem == Spec => []OneItemPerCapture
<1>1. Init => OneItemPerCapture
  BY DEF Init, OneItemPerCapture
<1>2. FilingInv /\ OneItemPerCapture /\ [Next]_vars => OneItemPerCapture'
  <2>. SUFFICES ASSUME FilingInv, OneItemPerCapture, [Next]_vars
                PROVE  OneItemPerCapture'
    OBVIOUS
  <2>1. ASSUME NEW t \in Tasks, CreateItemFromInput(t) PROVE OneItemPerCapture'
    <3>. DEFINE i == job[t].input
    <3>1. i \in Inputs /\ input[i].status = "processing"
      BY <2>1, TaskTurns DEF CreateItemFromInput, FilingInv
    <3>2. PICK x \in Items : origin' = [origin EXCEPT ![x] = i]
      BY <2>1 DEF CreateItemFromInput
    <3>. HIDE DEF i
    <3>3. \A y \in Items : origin[y] # i
      BY <3>1, OriginIsSettled
    <3>. QED BY <3>1, <3>2, <3>3 DEF OneItemPerCapture, FilingInv, TypeOK
  <2>2. ASSUME UNCHANGED origin PROVE OneItemPerCapture'
    BY <2>2 DEF OneItemPerCapture
  <2>3. \/ \E t \in Tasks : CreateItemFromInput(t)
        \/ UNCHANGED origin
    BY DEF Next, UserStep, JobStep, CreateInput, RepeatSave, RetryInput,
           DeleteFailedUnlinkedInput, UpdateItem, CreateReminder, BulkLifecycle,
           PermanentlyDelete, PermanentlyDeleteRows, Reschedule, CancelReminder,
           ClaimDueReminder, PurgeExpiredTrash, ClaimInput, ClaimRaises, ApplyAiUpdate,
           Fails, MarkInputFailed, MarkFailedRaises, Restart, Tick, vars,
           CaptureLeaves, UserLeaves, RemindersLeave
  <2>. QED BY <2>1, <2>2, <2>3
<1>. QED BY <1>1, <1>2, FilingHolds, PTL DEF Spec

\* The way through the trash forgets nothing, whoever moves the Item.
THEOREM HistoryKept == Spec => TrashKeepsHistory
<1>1. ASSUME FilingInv, [Next]_vars, NEW x \in Existing,
             "trash" \in {item[x].status, item'[x].status}, item'[x].status \in Kept
      PROVE  /\ Done(item'[x]) <=> Done(item[x])
             /\ item'[x].completed = item[x].completed
  <2>. DEFINE Keeps == /\ Done(item'[x]) <=> Done(item[x])
                       /\ item'[x].completed = item[x].completed
  <2>1. ASSUME item'[x] = item[x] PROVE Keeps
    BY <2>1
  <2>2. x \in Items /\ item[x].status \in Kept
    BY DEF Existing
  <2>. HIDE DEF Keeps
  <2>3. ASSUME NEW y \in Items, NEW target \in Kept, UpdateItem(y, target) PROVE Keeps
    <3>1. item' = [item EXCEPT ![y] = Result(item[y], target)]
      BY <1>1, <2>3, UpdateItemRows
    <3>2. CASE x # y
      BY <1>1, <2>1, <2>2, <3>1, <3>2 DEF FilingInv, TypeOK
    <3>3. CASE x = y
      BY <1>1, <2>3, <3>3, UpdateItemRows DEF Keeps
    <3>. QED BY <3>2, <3>3
  <2>4. ASSUME NEW S \in SUBSET Items, NEW action \in DOMAIN Sources,
               BulkLifecycle(S, action)
        PROVE  Keeps
    <3>1. x \notin S => item'[x] = item[x]
      BY <1>1, <2>2, <2>4, BulkLifecycleRows
    <3>2. ASSUME x \in S PROVE Keeps
      BY <1>1, <2>4, <3>2, BulkLifecycleRows DEF Keeps
    <3>. QED BY <2>1, <3>1, <3>2
  <2>5. ASSUME NEW S \in SUBSET Items, PermanentlyDeleteRows(S) PROVE Keeps
    <3>1. [NoRow EXCEPT !.status = "deleted"].status = "deleted"
      BY DEF NoRow, Row
    <3>2. x \notin S
      BY <1>1, <2>2, <2>5, <3>1 DEF PermanentlyDeleteRows, Kept
    <3>. QED BY <2>1, <2>2, <2>5, <3>2 DEF PermanentlyDeleteRows
  <2>6. ASSUME NEW t \in Tasks, CreateItemFromInput(t) PROVE Keeps
    <3>1. PICK y \in Items, status \in Kept :
            item[y].status = "none" /\ item' = [item EXCEPT ![y] = Made(status)]
      BY <2>6 DEF CreateItemFromInput
    <3>2. x # y
      BY <2>2, <3>1 DEF Kept
    <3>. QED BY <1>1, <2>1, <2>2, <3>1, <3>2 DEF FilingInv, TypeOK
  <2>7. ASSUME NEW t \in Tasks, ApplyAiUpdate(t) PROVE Keeps
    <3>1. CASE x # job[t].item
      BY <1>1, <2>1, <2>2, <2>7, <3>1, ApplyAiUpdateRows
    <3>2. CASE x = job[t].item
      BY <1>1, <2>7, <3>2, ApplyAiUpdateRows DEF Keeps
    <3>. QED BY <3>1, <3>2
  <2>8. CASE UNCHANGED item
    BY <2>1, <2>8
  <2>9. \/ \E y \in Items, target \in Kept : UpdateItem(y, target)
        \/ \E S \in SUBSET Items, action \in DOMAIN Sources : BulkLifecycle(S, action)
        \/ \E S \in SUBSET Items : PermanentlyDeleteRows(S)
        \/ \E t \in Tasks : CreateItemFromInput(t) \/ ApplyAiUpdate(t)
        \/ UNCHANGED item
    BY <1>1 DEF Next, UserStep, JobStep, CreateInput, RepeatSave, RetryInput,
           DeleteFailedUnlinkedInput, CreateReminder, PermanentlyDelete, Reschedule,
           CancelReminder, ClaimDueReminder, PurgeExpiredTrash, Expired, ClaimInput,
           ClaimRaises, Fails, MarkInputFailed, MarkFailedRaises, Restart, Tick, vars,
           CaptureLeaves, RemindersLeave
  <2>. QED BY <2>3, <2>4, <2>5, <2>6, <2>7, <2>8, <2>9 DEF Keeps
<1>2. FilingInv /\ [Next]_vars =>
        [\A x \in Existing :
           "trash" \in {item[x].status, item'[x].status} /\ item'[x].status \in Kept
             => /\ Done(item'[x]) <=> Done(item[x])
                /\ item'[x].completed = item[x].completed]_vars
  BY <1>1
<1>. QED BY <1>2, FilingHolds, PTL DEF Spec, TrashKeepsHistory

----------------------------------------------------------------------------
(* Open Reminders.                                                         *)

\* OpenRemindersFit of any table of Reminders and of Items.
FitFor(rems, rows) ==
  \A r \in Reminders : rems[r].status \in Open =>
    /\ rems[r].item \in Items
    /\ rows[rems[r].item].status = "active"
    /\ \A q \in Reminders : rems[q].status \in Open /\ rems[q].item = rems[r].item => q = r

RemindersInv == FitFor(reminder, item)

\* Cancelling pays for every Item that is no longer active.
LEMMA CancelledFits ==
  ASSUME TypeOK, RemindersInv, NEW S, NEW rows,
         \A x \in Items : item[x].status = "active" => rows[x].status = "active" \/ x \in S
  PROVE  FitFor(Cancelled(S), rows)
<1>1. \A r \in Reminders :
        Cancelled(S)[r].status \in Open =>
          /\ reminder[r].status \in Open /\ Cancelled(S)[r] = reminder[r]
          /\ reminder[r].item \notin S
  <2>. SUFFICES ASSUME NEW r \in Reminders, Cancelled(S)[r].status \in Open
                PROVE  /\ reminder[r].status \in Open /\ Cancelled(S)[r] = reminder[r]
                       /\ reminder[r].item \notin S
    OBVIOUS
  <2>1. reminder[r] \in Reminder
    BY DEF TypeOK
  <2>2. [reminder[r] EXCEPT !.status = "cancelled"].status = "cancelled"
    BY <2>1 DEF Reminder
  <2>3. "cancelled" \notin Open
    BY DEF Open
  <2>4. ~ (reminder[r].item \in S /\ reminder[r].status \in Open)
    BY <2>2, <2>3 DEF Cancelled
  <2>. QED BY <2>4 DEF Cancelled
<1>. QED BY <1>1 DEF FitFor, RemindersInv

\* What stays open fits the Items that stay active.
LEMMA UnchangedFits ==
  ASSUME NEW rems, NEW rows, FitFor(rems, rows), NEW others,
         \A x \in Items : rows[x].status = "active" => others[x].status = "active"
  PROVE  FitFor(rems, others)
BY DEF FitFor

\* A Reminder is added to an active Item that has none open.
LEMMA AddedFits ==
  ASSUME NEW rems \in [Reminders -> Reminder], NEW rows, FitFor(rems, rows),
         NEW x \in Items, rows[x].status = "active", Unopened(rems, x),
         NEW r \in Reminders, NEW status
  PROVE  FitFor([rems EXCEPT ![r] = [status |-> status, item |-> x]], rows)
<1>. DEFINE new == [rems EXCEPT ![r] = [status |-> status, item |-> x]]
<1>1. new[r].item = x /\ \A q \in Reminders \ {r} : new[q] = rems[q]
  OBVIOUS
<1>. HIDE DEF new
<1>2. FitFor(new, rows)
  BY <1>1 DEF FitFor, Unopened
<1>. QED BY <1>2 DEF new

\* The AI adds a Reminder only where there is room for it.
LEMMA AiReminderFits ==
  ASSUME NEW rems \in [Reminders -> Reminder], NEW rows, FitFor(rems, rows),
         NEW x \in Items, NEW status, rows[x].status = status, NEW intent,
         NEW new \in AiReminder(rems, x, status, intent)
  PROVE  FitFor(new, rows)
<1>1. CASE status = "active" /\ intent # "none" /\ Unopened(rems, x)
  <2>1. PICK r \in Reminders : new = [rems EXCEPT ![r] = [status |-> intent, item |-> x]]
    BY <1>1 DEF AiReminder, Free
  <2>. QED BY <1>1, <2>1, AddedFits
<1>2. CASE ~ (status = "active" /\ intent # "none" /\ Unopened(rems, x))
  BY <1>2 DEF AiReminder
<1>. QED BY <1>1, <1>2

\* Every step keeps the open Reminders fitting.
LEMMA RemindersStep == FilingInv /\ RemindersInv /\ [Next]_vars => RemindersInv'
<1>. SUFFICES ASSUME FilingInv, RemindersInv, [Next]_vars PROVE FitFor(reminder', item')
  BY DEF RemindersInv, FitFor
<1>. USE DEF RemindersInv
<1>0. TypeOK /\ reminder \in [Reminders -> Reminder]
  BY DEF FilingInv, TypeOK
<1>1. ASSUME NEW x \in Items, NEW target \in Kept, UpdateItem(x, target)
      PROVE  FitFor(reminder', item')
  <2>. DEFINE rows == [y \in {x} |-> Result(item[y], target)]
              D == {y \in {x} : rows[y].status \in {"completed", "trash"}
                                /\ rows[y].status # item[y].status}
  <2>1. /\ item' = [item EXCEPT ![x] = Result(item[x], target)]
        /\ item'[x].status \in Kept
    BY <1>1, UpdateItemRows
  <2>2. reminder' = Cancelled(D)
    BY <1>1 DEF UpdateItem, Changes
  <2>3. \A y \in Items : item[y].status = "active" => item'[y].status = "active" \/ y \in D
    <3>1. item'[x] = Result(item[x], target) /\ \A y \in Items \ {x} : item'[y] = item[y]
      BY <1>0, <2>1 DEF TypeOK
    <3>. QED BY <2>1, <3>1 DEF Kept
  <2>. HIDE DEF D
  <2>. QED BY <1>0, <2>2, <2>3, CancelledFits
<1>2. ASSUME NEW S \in SUBSET Items, NEW action \in DOMAIN Sources,
             BulkLifecycle(S, action)
      PROVE  FitFor(reminder', item')
  <2>. DEFINE rows == [y \in S |-> After(item[y], action)]
              D == {y \in S : rows[y].status \in {"completed", "trash"}
                              /\ rows[y].status # item[y].status}
  <2>1. /\ item' = [x \in Items |-> IF x \in S THEN rows[x] ELSE item[x]]
        /\ reminder' = Cancelled(D)
    BY <1>2 DEF BulkLifecycle, Changes
  <2>2. \A x \in S : item'[x].status \in Kept
    BY <1>2, BulkLifecycleRows
  <2>3. \A y \in Items : item[y].status = "active" => item'[y].status = "active" \/ y \in D
    BY <2>1, <2>2 DEF Kept
  <2>. HIDE DEF D
  <2>. QED BY <1>0, <2>1, <2>3, CancelledFits
<1>3. ASSUME NEW S \in SUBSET Items, PermanentlyDeleteRows(S)
      PROVE  FitFor(reminder', item')
  <2>1. \A r \in Reminders : reminder'[r].status \in Open =>
          reminder'[r] = reminder[r] /\ reminder[r].item \notin S
    BY <1>3 DEF PermanentlyDeleteRows, Open
  <2>2. \A x \in Items \ S : item'[x] = item[x]
    BY <1>3 DEF PermanentlyDeleteRows
  <2>. QED BY <2>1, <2>2 DEF FitFor
<1>4. ASSUME NEW x \in Items, CreateReminder(x) PROVE FitFor(reminder', item')
  <2>1. PICK r \in Free :
          reminder' = [reminder EXCEPT ![r] = [status |-> "scheduled", item |-> x]]
    BY <1>4 DEF CreateReminder
  <2>2. r \in Reminders /\ item' = item /\ item[x].status = "active" /\ Unopened(reminder, x)
    BY <1>4 DEF CreateReminder, RemindersLeave, Free
  <2>. QED BY <1>0, <2>1, <2>2, AddedFits
<1>5. ASSUME NEW r \in Reminders, Reschedule(r) \/ CancelReminder(r) \/ ClaimDueReminder(r)
      PROVE  FitFor(reminder', item')
  <2>1. item' = item
    BY <1>5 DEF Reschedule, CancelReminder, ClaimDueReminder, RemindersLeave
  <2>2. PICK st \in {"scheduled", "cancelled", "due"} :
          /\ reminder' = [reminder EXCEPT ![r].status = st]
          /\ reminder[r].status \in Open
    BY <1>5 DEF Reschedule, CancelReminder, ClaimDueReminder, Open
  <2>3. reminder[r] \in Reminder
    BY <1>0
  <2>4. [reminder[r] EXCEPT !.status = st].item = reminder[r].item
    BY <2>3 DEF Reminder
  <2>5. /\ reminder'[r].item = reminder[r].item
        /\ \A q \in Reminders \ {r} : reminder'[q] = reminder[q]
    BY <1>0, <2>2, <2>4
  <2>. QED BY <2>1, <2>2, <2>5 DEF FitFor
<1>6. ASSUME NEW t \in Tasks, CreateItemFromInput(t) PROVE FitFor(reminder', item')
  <2>1. PICK x \in Items, status \in Kept, intent \in Intents :
          /\ item[x].status = "none"
          /\ item' = [item EXCEPT ![x] = Made(status)]
          /\ reminder' \in AiReminder(reminder, x, status, intent)
    BY <1>6 DEF CreateItemFromInput
  <2>2. Made(status).status = status
    BY <1>0, MadeFits DEF TypeOK
  <2>3. item'[x].status = status /\ \A y \in Items \ {x} : item'[y] = item[y]
    BY <1>0, <2>1, <2>2 DEF TypeOK
  <2>4. FitFor(reminder, item')
    BY <2>1, <2>3 DEF FitFor
  <2>. QED BY <1>0, <2>1, <2>3, <2>4, AiReminderFits
<1>7. ASSUME NEW t \in Tasks, ApplyAiUpdate(t) PROVE FitFor(reminder', item')
  <2>. DEFINE x == job[t].item
  <2>1. PICK target \in Kept \cup {"none"}, intent \in Intents :
          LET row == Result(item[x], target) IN
          /\ item' = [item EXCEPT ![x] = row]
          /\ reminder' \in AiReminder(
               IF row.status # item[x].status /\ row.status # "active"
               THEN Cancelled({x}) ELSE reminder, x, row.status, intent)
    BY <1>7 DEF ApplyAiUpdate
  <2>. DEFINE row == Result(item[x], target)
              done == row.status # item[x].status /\ row.status # "active"
              rems == IF done THEN Cancelled({x}) ELSE reminder
              status == row.status
  <2>2. x \in Items
    BY <1>7 DEF ApplyAiUpdate, Existing
  <2>3. item' = [item EXCEPT ![x] = row] /\ reminder' \in AiReminder(rems, x, status, intent)
    BY <2>1
  <2>. HIDE DEF x, row
  <2>4. item'[x] = row /\ \A y \in Items \ {x} : item'[y] = item[y]
    BY <1>0, <2>2, <2>3 DEF TypeOK
  <2>5. rems \in [Reminders -> Reminder]
    BY <1>0, CancelledIsTyped
  <2>6. FitFor(rems, item')
    <3>1. CASE done
      <4>1. \A y \in Items : item[y].status = "active" => item'[y].status = "active" \/ y \in {x}
        BY <2>4
      <4>2. FitFor(Cancelled({x}), item')
        BY <1>0, <4>1, CancelledFits
      <4>. QED BY <3>1, <4>2
    <3>2. CASE ~ done
      <4>1. \A y \in Items : item[y].status = "active" => item'[y].status = "active"
        BY <2>4, <3>2
      <4>. QED BY <3>2, <4>1, UnchangedFits
    <3>. QED BY <3>1, <3>2
  <2>7. item'[x].status = status
    BY <2>4
  <2>. HIDE DEF rems, status
  <2>. QED BY <2>2, <2>3, <2>5, <2>6, <2>7, AiReminderFits
<1>8. CASE UNCHANGED <<item, reminder>>
  BY <1>8
<1>9. \/ \E y \in Items, target \in Kept : UpdateItem(y, target)
      \/ \E S \in SUBSET Items, action \in DOMAIN Sources : BulkLifecycle(S, action)
      \/ \E S \in SUBSET Items : PermanentlyDeleteRows(S)
      \/ \E y \in Items : CreateReminder(y)
      \/ \E r \in Reminders : Reschedule(r) \/ CancelReminder(r) \/ ClaimDueReminder(r)
      \/ \E t \in Tasks : CreateItemFromInput(t) \/ ApplyAiUpdate(t)
      \/ UNCHANGED <<item, reminder>>
  BY DEF Next, UserStep, JobStep, CreateInput, RepeatSave, RetryInput,
         DeleteFailedUnlinkedInput, PermanentlyDelete, PurgeExpiredTrash, Expired,
         ClaimInput, ClaimRaises, Fails, MarkInputFailed, MarkFailedRaises, Restart, Tick,
         vars, CaptureLeaves
<1>. QED BY <1>1, <1>2, <1>3, <1>4, <1>5, <1>6, <1>7, <1>8, <1>9

\* An open Reminder belongs to an active Item, and is its only one.
THEOREM RemindersFit == Spec => []OpenRemindersFit
<1>1. Init => RemindersInv
  BY DEF Init, RemindersInv, FitFor, Open
<1>2. RemindersInv => OpenRemindersFit
  BY DEF RemindersInv, FitFor, OpenRemindersFit
<1>. QED BY <1>1, <1>2, RemindersStep, FilingHolds, PTL DEF Spec

----------------------------------------------------------------------------
(* Tasks and the inputs they work on.                                      *)

\* A task's input is in work until the task has stored its result.
Working == \A t \in Tasks : job[t].input \in Inputs =>
             input[job[t].input].status \in {"processing", "succeeded", "deleted"}

WorkInv == WorkIsHeld /\ Working

\* Steps that start no task, and leave what the running ones work on in work.
LEMMA OthersKeepWork ==
  ASSUME WorkInv, job' = job, lost' = lost,
         \A i \in Inputs :
           \/ /\ input'[i].status = input[i].status
              /\ queue[i] > 0 => queue'[i] > 0
           \/ /\ input[i].status \in {"none", "failed"}
              /\ input'[i].status = "pending" /\ queue'[i] > 0
           \/ input'[i].status = "deleted"
  PROVE  WorkInv'
<1>1. WorkIsHeld'
  BY DEF WorkInv, WorkIsHeld
<1>2. Working'
  BY DEF WorkInv, Working
<1>. QED BY <1>1, <1>2 DEF WorkInv

\* A task that leaves an input: the input is no longer in work, or is left to the
\* next start of the server.
LEMMA LeavingKeepsWork ==
  ASSUME FilingInv, WorkInv, NEW t \in Tasks, job' = [job EXCEPT ![t] = Idle],
         queue' = queue, NEW i, i = job[t].input, i \in Inputs,
         input[i].status # "pending",
         \A j \in Inputs \ {i} : input'[j].status = input[j].status,
         \/ lost' = lost /\ input'[i].status \notin {"pending", "processing"}
         \/ lost' = lost \cup {i}
  PROVE  WorkInv'
<1>1. job'[t] = Idle /\ \A u \in Tasks \ {t} : job'[u] = job[u]
  BY DEF FilingInv, TypeOK
<1>2. \A u \in Tasks \ {t} : job[u].input # i
  BY NamesAssumption DEF WorkInv, WorkIsHeld, NamesAssumption
<1>3. job'[t].input = NoInput
  BY <1>1 DEF Idle
<1>4. Working'
  BY <1>1, <1>2, <1>3, NamesAssumption DEF WorkInv, Working, NamesAssumption
<1>5. \A v, u \in Tasks : job'[v].input = job'[u].input /\ job'[v].input # NoInput => v = u
  BY <1>1, <1>3 DEF WorkInv, WorkIsHeld
<1>6. ASSUME NEW j \in Inputs, j \notin lost'
      PROVE  /\ input'[j].status = "processing" => \E u \in Tasks : job'[u].input = j
             /\ input'[j].status = "pending" => queue'[j] > 0
  <2>1. CASE j = i
    BY <1>6, <2>1
  <2>2. CASE j # i
    <3>1. input'[j].status = input[j].status /\ j \notin lost
      BY <1>6, <2>2
    <3>2. input[j].status = "processing" => \E u \in Tasks \ {t} : job[u].input = j
      BY <2>2, <3>1 DEF WorkInv, WorkIsHeld
    <3>. QED BY <1>1, <3>1, <3>2 DEF WorkInv, WorkIsHeld
  <2>. QED BY <2>1, <2>2
<1>. QED BY <1>4, <1>5, <1>6 DEF WorkInv, WorkIsHeld

\* A task that goes on to store a failure still holds its input.
LEMMA TurningKeepsWork ==
  ASSUME FilingInv, WorkInv, NEW t \in Tasks, job[t].phase # "idle",
         job' = [job EXCEPT ![t].phase = "failing"],
         queue' = queue, NEW i, i = job[t].input, i \in Inputs,
         input[i].status # "pending",
         \A j \in Inputs \ {i} : input'[j].status = input[j].status,
         input'[i].status \in {input[i].status, "succeeded"},
         lost' = lost
  PROVE  WorkInv'
<1>1. job'[t].input = i /\ \A u \in Tasks \ {t} : job'[u] = job[u]
  BY TaskTurns DEF FilingInv, TypeOK
<1>2. \A u \in Tasks : job'[u].input = job[u].input
  BY <1>1
<1>3. input'[i].status \in {"processing", "succeeded", "deleted"}
  BY DEF WorkInv, Working
<1>4. Working'
  BY <1>2, <1>3 DEF WorkInv, Working
<1>5. WorkIsHeld'
  BY <1>2, <1>3 DEF WorkInv, WorkIsHeld
<1>. QED BY <1>4, <1>5 DEF WorkInv

\* A task that starts.
LEMMA ClaimKeepsWork ==
  ASSUME FilingInv, WorkInv, NEW t \in Tasks, NEW i \in Inputs, ClaimInput(t, i)
  PROVE  WorkInv'
<1>1. /\ job[t] = Idle
      /\ \A j \in Inputs \ {i} : queue'[j] = queue[j]
  BY DEF ClaimInput, FilingInv, TypeOK
<1>2. CASE input[i].status = "pending"
  <2>1. /\ job'[t].input = i /\ \A u \in Tasks \ {t} : job'[u] = job[u]
        /\ input' = [input EXCEPT ![i].status = "processing"] /\ lost' = lost \ {i}
    BY <1>2 DEF ClaimInput, FilingInv, TypeOK
  <2>2. TypeOK
    BY DEF FilingInv
  <2>3. /\ input'[i] = [status |-> "processing", item |-> input[i].item]
        /\ \A j \in Inputs \ {i} : input'[j] = input[j]
    BY <2>1, <2>2, StatusIsTyped
  <2>4. input'[i].status = "processing"
    BY <2>3
  <2>5. \A u \in Tasks : job[u].input # i
    BY <1>2 DEF WorkInv, Working
  <2>6. Working'
    BY <2>1, <2>3, <2>4, <2>5 DEF WorkInv, Working
  <2>7. \A v, u \in Tasks : job'[v].input = job'[u].input /\ job'[v].input # NoInput => v = u
    BY <2>1, <2>5 DEF WorkInv, WorkIsHeld
  <2>8. ASSUME NEW j \in Inputs, j \notin lost'
        PROVE  /\ input'[j].status = "processing" => \E u \in Tasks : job'[u].input = j
               /\ input'[j].status = "pending" => queue'[j] > 0
    <3>1. CASE j = i
      BY <2>1, <2>4, <3>1
    <3>2. CASE j # i
      <4>1. job[t].input # j
        BY <1>1, NamesAssumption DEF Idle, NamesAssumption
      <4>. QED BY <1>1, <2>1, <2>3, <2>8, <3>2, <4>1 DEF WorkInv, WorkIsHeld
    <3>. QED BY <3>1, <3>2
  <2>. QED BY <2>6, <2>7, <2>8 DEF WorkInv, WorkIsHeld
<1>3. CASE input[i].status # "pending"
  <2>1. job' = job /\ input' = input /\ lost' = lost
    BY <1>3 DEF ClaimInput
  <2>. QED BY <1>1, <1>3, <2>1 DEF WorkInv, WorkIsHeld, Working
<1>. QED BY <1>2, <1>3

\* A task that ends, or meets an exception, after it has stored its result.
LEMMA ResultKeepsWork ==
  ASSUME FilingInv, WorkInv, NEW t \in Tasks,
         CreateItemFromInput(t) \/ ApplyAiUpdate(t)
  PROVE  WorkInv'
<1>. DEFINE i == job[t].input
<1>1. /\ job[t].phase # "idle" /\ i \in Inputs /\ input[i].status = "processing"
      /\ queue' = queue /\ Ends(t) /\ lost' = lost /\ TypeOK
  BY TaskTurns DEF CreateItemFromInput, ApplyAiUpdate, Ends, trouble, FilingInv, TypeOK
<1>. HIDE DEF i
<1>2. /\ input'[i].status = "succeeded"
      /\ \A j \in Inputs \ {i} : input'[j].status = input[j].status
  <2>1. CASE CreateItemFromInput(t)
    <3>1. PICK x \in Items : input' = [input EXCEPT ![i] = [status |-> "succeeded", item |-> x]]
      BY <2>1 DEF CreateItemFromInput, i
    <3>. QED BY <1>1, <3>1 DEF TypeOK
  <2>2. CASE ApplyAiUpdate(t)
    <3>1. input' = [input EXCEPT ![i].status = "succeeded"]
      BY <2>2 DEF ApplyAiUpdate, i
    <3>2. /\ input'[i] = [status |-> "succeeded", item |-> input[i].item]
          /\ \A j \in Inputs \ {i} : input'[j] = input[j]
      BY <1>1, <3>1, StatusIsTyped
    <3>. QED BY <3>2
  <2>. QED BY <2>1, <2>2
<1>3. CASE job' = [job EXCEPT ![t] = Idle]
  BY <1>1, <1>2, <1>3, LeavingKeepsWork DEF i
<1>4. CASE job' = [job EXCEPT ![t].phase = "failing"]
  <2>1. /\ input'[i].status \in {input[i].status, "succeeded"}
        /\ input[i].status # "pending"
    BY <1>1, <1>2
  <2>2. i = job[t].input
    BY DEF i
  <2>. QED BY <1>1, <1>2, <1>4, <2>1, <2>2, TurningKeepsWork
<1>. QED BY <1>1, <1>3, <1>4 DEF Ends

\* A task that fails, stores the failure, or cannot store it.
LEMMA FailureKeepsWork ==
  ASSUME FilingInv, WorkInv, NEW t \in Tasks,
         Fails(t) \/ MarkInputFailed(t) \/ MarkFailedRaises(t)
  PROVE  WorkInv'
<1>. DEFINE i == job[t].input
<1>1. job[t].phase # "idle" /\ i \in Inputs /\ queue' = queue
  BY TaskTurns DEF Fails, MarkInputFailed, MarkFailedRaises, FilingInv, TypeOK
<1>2. input[i].status \in {"processing", "succeeded", "deleted"}
  BY <1>1 DEF WorkInv, Working
<1>3. CASE Fails(t)
  <2>1. /\ job' = [job EXCEPT ![t].phase = "failing"] /\ input' = input /\ lost' = lost
    BY <1>3 DEF Fails, trouble
  <2>. HIDE DEF i
  <2>. QED BY <1>1, <1>2, <2>1, TurningKeepsWork DEF i
<1>4. CASE MarkInputFailed(t)
  <2>1. /\ job' = [job EXCEPT ![t] = Idle] /\ lost' = lost
        /\ input' = [input EXCEPT ![i].status = IF @ = "processing" THEN "failed" ELSE @]
    BY <1>4 DEF MarkInputFailed, trouble
  <2>. HIDE DEF i
  <2>2. PICK st \in {"failed", "succeeded", "deleted"} :
          input' = [input EXCEPT ![i].status = st]
    BY <1>2, <2>1
  <2>3. TypeOK
    BY DEF FilingInv
  <2>4. /\ input'[i] = [status |-> st, item |-> input[i].item]
        /\ \A j \in Inputs \ {i} : input'[j] = input[j]
    BY <1>1, <2>2, <2>3, StatusIsTyped
  <2>5. input'[i].status \notin {"pending", "processing"}
    BY <2>4
  <2>. QED BY <1>1, <1>2, <2>1, <2>4, <2>5, LeavingKeepsWork DEF i
<1>5. CASE MarkFailedRaises(t)
  <2>1. job' = [job EXCEPT ![t] = Idle] /\ input' = input /\ lost' = lost \cup {i}
    BY <1>5 DEF MarkFailedRaises
  <2>2. i = job[t].input /\ input[i].status # "pending"
    BY <1>2
  <2>. HIDE DEF i
  <2>. QED BY <1>1, <2>1, <2>2, LeavingKeepsWork
<1>. QED BY <1>3, <1>4, <1>5

\* Every step keeps the work held.
LEMMA WorkStep == FilingInv /\ WorkInv /\ [Next]_vars => WorkInv'
<1>. SUFFICES ASSUME FilingInv, WorkInv, [Next]_vars PROVE WorkInv'
  OBVIOUS
<1>0. TypeOK
  BY DEF FilingInv
<1>1. ASSUME UNCHANGED <<input, queue, job, lost>> PROVE WorkInv'
  BY <1>1, OthersKeepWork
<1>2. ASSUME NEW i \in Inputs, NEW x \in Items \cup {NoItem}, CreateInput(i, x)
      PROVE  WorkInv'
  <2>1. /\ input[i].status = "none" /\ input'[i].status = "pending" /\ queue'[i] = 1
        /\ \A j \in Inputs \ {i} : input'[j] = input[j] /\ queue'[j] = queue[j]
        /\ job' = job /\ lost' = lost
    BY <1>0, <1>2 DEF CreateInput, CaptureLeaves, bounds, trouble, TypeOK
  <2>. QED BY <2>1, OthersKeepWork
<1>3. ASSUME NEW i \in Inputs, RepeatSave(i) PROVE WorkInv'
  <2>1. /\ input' = input /\ job' = job /\ lost' = lost
        /\ queue' = [queue EXCEPT ![i] = queue[i] + 1]
    BY <1>3 DEF RepeatSave, CaptureLeaves, bounds, trouble
  <2>2. \A j \in Inputs : queue[j] > 0 => queue'[j] > 0
    BY <1>0, <2>1 DEF TypeOK
  <2>. QED BY <2>1, <2>2, OthersKeepWork
<1>4. ASSUME NEW i \in Inputs, RetryInput(i) PROVE WorkInv'
  <2>1. /\ input' = [input EXCEPT ![i].status = "pending"] /\ input[i].status = "failed"
        /\ queue' = [queue EXCEPT ![i] = queue[i] + 1]
        /\ job' = job /\ lost' = lost
    BY <1>4 DEF RetryInput, CaptureLeaves, bounds, trouble
  <2>2. /\ input'[i] = [status |-> "pending", item |-> input[i].item]
        /\ \A j \in Inputs \ {i} : input'[j] = input[j]
    BY <1>0, <2>1, StatusIsTyped
  <2>3. queue'[i] > 0 /\ \A j \in Inputs \ {i} : queue'[j] = queue[j]
    BY <1>0, <2>1 DEF TypeOK
  <2>. QED BY <2>1, <2>2, <2>3, OthersKeepWork
<1>5. ASSUME NEW i \in Inputs, DeleteFailedUnlinkedInput(i) PROVE WorkInv'
  <2>1. /\ input' = [input EXCEPT ![i].status = "deleted"]
        /\ queue' = queue /\ job' = job /\ lost' = lost
    BY <1>5 DEF DeleteFailedUnlinkedInput, CaptureLeaves, bounds, trouble
  <2>2. /\ input'[i] = [status |-> "deleted", item |-> input[i].item]
        /\ \A j \in Inputs \ {i} : input'[j] = input[j]
    BY <1>0, <2>1, StatusIsTyped
  <2>. QED BY <2>1, <2>2, OthersKeepWork
<1>6. ASSUME NEW S \in SUBSET Items, PermanentlyDeleteRows(S) PROVE WorkInv'
  <2>1. /\ \A i \in Inputs : input'[i] = input[i] \/ input'[i].status = "deleted"
        /\ queue' = queue /\ job' = job /\ lost' = lost
    BY <1>6 DEF PermanentlyDeleteRows, bounds, trouble
  <2>. QED BY <2>1, OthersKeepWork
<1>7. ASSUME NEW i \in Inputs, ClaimRaises(i) PROVE WorkInv'
  <2>1. /\ input' = input /\ job' = job /\ queue[i] \in Nat \ {0}
        /\ queue'[i] = queue[i] - 1 /\ \A j \in Inputs \ {i} : queue'[j] = queue[j]
        /\ lost' = IF input[i].status = "pending" /\ queue[i] = 1
                   THEN lost \cup {i} ELSE lost
    BY <1>0, <1>7 DEF ClaimRaises, TypeOK
  <2>2. \A j \in Inputs \ lost' : j \notin lost
                                /\ (input[j].status = "pending" => queue'[j] > 0)
    BY <2>1 DEF WorkInv, WorkIsHeld
  <2>. QED BY <2>1, <2>2 DEF WorkInv, WorkIsHeld, Working
<1>8. ASSUME NEW t \in Tasks, JobStep(t) PROVE WorkInv'
  BY <1>8, ResultKeepsWork, FailureKeepsWork DEF JobStep
<1>9. CASE Restart
  <2>1. \A t \in Tasks : job'[t].input = NoInput
    BY <1>9 DEF Restart, Idle
  <2>2. \A i \in Inputs : input'[i].status # "processing"
    <3>. SUFFICES ASSUME NEW i \in Inputs, input[i].status = "processing"
                  PROVE  input'[i].status # "processing"
      BY <1>9 DEF Restart
    <3>1. input[i] \in Input
      BY <1>0 DEF TypeOK
    <3>2. [input[i] EXCEPT !.status = "pending"].status = "pending"
      BY <3>1 DEF Input
    <3>. QED BY <1>9, <3>2 DEF Restart
  <2>3. \A i \in Inputs : input'[i].status = "pending" => queue'[i] > 0
    BY <1>9 DEF Restart
  <2>. QED BY <2>1, <2>2, <2>3, NamesAssumption DEF WorkInv, WorkIsHeld, Working, NamesAssumption
<1>10. \/ \E i \in Inputs : \/ \E x \in Items \cup {NoItem} : CreateInput(i, x)
                            \/ RepeatSave(i) \/ RetryInput(i)
                            \/ DeleteFailedUnlinkedInput(i) \/ ClaimRaises(i)
                            \/ \E t \in Tasks : ClaimInput(t, i)
       \/ \E S \in SUBSET Items : PermanentlyDeleteRows(S)
       \/ \E t \in Tasks : JobStep(t)
       \/ Restart
       \/ UNCHANGED <<input, queue, job, lost>>
  BY DEF Next, UserStep, UpdateItem, CreateReminder, BulkLifecycle, PermanentlyDelete,
         Reschedule, CancelReminder, ClaimDueReminder, PurgeExpiredTrash, Expired, Tick,
         vars, bounds, trouble, UserLeaves, RemindersLeave
<1>. QED BY <1>1, <1>2, <1>3, <1>4, <1>5, <1>6, <1>7, <1>8, <1>9, <1>10, ClaimKeepsWork

\* No input is worked on twice at a time, and none is forgotten.
THEOREM WorkHeld == Spec => []WorkIsHeld
<1>1. Init => WorkInv
  BY NamesAssumption DEF Init, WorkInv, WorkIsHeld, Working, Idle, NamesAssumption
<1>2. WorkInv => WorkIsHeld
  BY DEF WorkInv
<1>. QED BY <1>1, <1>2, WorkStep, FilingHolds, PTL DEF Spec
=============================================================================
