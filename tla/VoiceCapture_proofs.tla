------------------------ MODULE VoiceCapture_proofs ------------------------
(***************************************************************************)
(* What VoiceCapture.tla guarantees for every number of clients, segments, *)
(* drafts, retries and restarts.                                           *)
(*                                                                         *)
(* Two inductive invariants carry the results: RowsInv (whose the segments *)
(* are, and what was appended of them) and ViewInv (what a client that     *)
(* holds a revision knows of the text).                                    *)
(***************************************************************************)
EXTENDS VoiceCapture, TLAPS

----------------------------------------------------------------------------
(* Type correctness.                                                       *)

\* The rows and drafts that the actions write are well typed.
LEMMA RowsAreTyped ==
  /\ NoText \in Text /\ NoDraft \in Draft /\ NoRow \in Segment /\ NoAttempt \in Attempt
  /\ [NoRow EXCEPT !.status = "deleted"] \in Segment
  /\ \A w \in Segment : /\ \A st \in Status : [w EXCEPT !.status = st] \in Segment
                        /\ \A st \in Status : \A l \in BOOLEAN :
                             [w EXCEPT !.status = st, !.limited = l] \in Segment
                        /\ [w EXCEPT !.draft = 0] \in Segment
BY DEF NoText, Text, NoDraft, Draft, NoRow, Segment, NoAttempt, Attempt, Status, Active

\* Appending a transcript.
LEMMA AppendIsTyped ==
  ASSUME TypeOK, NEW s \in Segments, Append(s)
  PROVE  /\ draft' \in Draft /\ draft'.id = draft.id
         /\ draft'.revision = draft.revision + 1
         /\ seg' \in [Segments -> Segment]
         /\ appended' \in [Segments -> Nat]
<1>1. draft \in Draft /\ [draft.text EXCEPT !.holds = @ \cup {s}] \in Text
  BY DEF TypeOK, Draft, Text
<1>2. draft' = [id |-> draft.id, revision |-> draft.revision + 1,
                text |-> [draft.text EXCEPT !.holds = @ \cup {s}]]
  <2>1. draft' = [draft EXCEPT !.revision = @ + 1, !.text.holds = @ \cup {s}]
    BY DEF Append
  <2>2. draft = [id |-> draft.id, revision |-> draft.revision, text |-> draft.text]
    BY <1>1 DEF Draft
  <2>. QED BY <2>1, <2>2
<1>5. draft' \in Draft /\ draft'.id = draft.id /\ draft'.revision = draft.revision + 1
  <2>1. draft.id \in Nat /\ draft.revision + 1 \in Nat
    BY <1>1 DEF Draft
  <2>. QED BY <1>1, <1>2, <2>1 DEF Draft
<1>3. [seg[s] EXCEPT !.status = "succeeded", !.limited = FALSE] \in Segment
  BY RowsAreTyped DEF TypeOK, Status, Active
<1>4. seg' \in [Segments -> Segment]
  BY <1>3 DEF Append, TypeOK
<1>. QED BY <1>5, <1>4 DEF Append, TypeOK

\* Failing a segment.
LEMMA FailingIsTyped ==
  ASSUME TypeOK, NEW s \in Segments
  PROVE  ToFailed(s) \in [Segments -> Segment] /\ MarkedFailed(s) \in [Segments -> Segment]
<1>1. [seg[s] EXCEPT !.status = "failed", !.limited = FALSE] \in Segment
  BY RowsAreTyped DEF TypeOK, Status, Active
<1>. QED BY <1>1 DEF ToFailed, MarkedFailed, TypeOK

\* Scheduling a task.
LEMMA ScheduledIsTyped ==
  ASSUME TypeOK, NEW s \in Segments PROVE Scheduled(s) \in [Segments -> Phases]
BY DEF Scheduled, TypeOK, Phases

\* Registering a segment.
LEMMA NewSegmentIsTyped ==
  ASSUME TypeOK, NEW s \in Segments, NEW status \in Status,
         NEW model \in {"batch", "streaming"}, NewSegment(s, status, model)
  PROVE  seg' \in [Segments -> Segment]
<1>1. [status |-> status, model |-> model, draft |-> draft.id, limited |-> FALSE] \in Segment
  BY DEF Segment, TypeOK, Draft
<1>. QED BY <1>1 DEF NewSegment, TypeOK

\* A text a client may write is a text.
LEMMA EditsAreTyped ==
  ASSUME TypeOK, NEW c \in Clients PROVE Edits(c) \subseteq Text
<1>1. 0 .. Limit \subseteq Nat
  BY BoundsAssumption DEF BoundsAssumption
<1>2. view[c].text.holds \subseteq Segments
  BY DEF TypeOK, Draft, Text
<1>. QED BY <1>1, <1>2 DEF Edits, Text

\* An edit keeps the draft and counts its revision.
LEMMA PutDraftIsTyped ==
  ASSUME TypeOK, NEW c \in Clients, PutDraft(c)
  PROVE  /\ draft' \in Draft /\ draft'.id = draft.id
         /\ draft'.revision = draft.revision + 1
<1>1. PICK t \in Edits(c) : draft' = [draft EXCEPT !.text = t, !.revision = @ + 1]
  BY DEF PutDraft
<1>2. t \in Text
  BY <1>1, EditsAreTyped
<1>3. /\ draft = [id |-> draft.id, revision |-> draft.revision, text |-> draft.text]
      /\ draft.revision \in Nat /\ draft.id \in Nat
  BY DEF TypeOK, Draft
<1>4. draft' = [id |-> draft.id, revision |-> draft.revision + 1, text |-> t]
  BY <1>1, <1>3
<1>. QED BY <1>2, <1>3, <1>4 DEF Draft

\* Every action keeps the type invariant.
LEMMA TypeStep == TypeOK /\ [Next]_vars => TypeOK'
<1>. SUFFICES ASSUME TypeOK, [Next]_vars PROVE TypeOK'
  OBVIOUS
<1>. USE DEF TypeOK, tables, memory, bounds
<1>1. ASSUME NEW c \in Clients, Load(c) PROVE TypeOK'
  BY <1>1 DEF Load
<1>2. ASSUME NEW c \in Clients, PutFirst(c) PROVE TypeOK'
  <2>1. PICK t \in Edits(c) : draft' = [id |-> created + 1, revision |-> 1, text |-> t]
    BY <1>2 DEF PutFirst
  <2>2. draft' \in Draft /\ draft'.id = created + 1
    BY <2>1, EditsAreTyped DEF Draft
  <2>3. created' \in 0 .. MaxDrafts /\ created' = created + 1
    BY <1>2, BoundsAssumption DEF PutFirst, BoundsAssumption
  <2>. QED BY <1>2, <2>2, <2>3 DEF PutFirst, DraftLeaves
<1>3. ASSUME NEW c \in Clients, PutDraft(c) PROVE TypeOK'
  <2>1. draft' \in Draft /\ draft'.id = draft.id
    BY <1>3, PutDraftIsTyped
  <2>. QED BY <1>3, <2>1 DEF PutDraft, DraftLeaves
<1>4. ASSUME NEW c \in Clients, DeleteDraft(c) PROVE TypeOK'
  <2>1. seg' \in [Segments -> Segment]
    BY <1>4, RowsAreTyped DEF DeleteDraft
  <2>2. draft' = NoDraft /\ NoDraft \in Draft /\ NoDraft.id = 0
    BY <1>4, RowsAreTyped DEF DeleteDraft, NoDraft
  <2>. QED BY <1>4, <2>1, <2>2 DEF DeleteDraft, DraftLeaves
<1>5. ASSUME NEW c \in Clients, SaveDraft(c) PROVE TypeOK'
  <2>1. seg' \in [Segments -> Segment]
    BY <1>5, RowsAreTyped DEF SaveDraft, Saves
  <2>2. draft' = NoDraft /\ NoDraft \in Draft /\ NoDraft.id = 0
    BY <1>5, RowsAreTyped DEF SaveDraft, Saves, NoDraft
  <2>3. input' \in [DraftIds -> SUBSET Text]
    BY <1>5 DEF SaveDraft, Saves, Draft
  <2>4. view' \in [Clients -> Draft] /\ \A d \in Clients : view'[d].id \in 0 .. created
    BY <1>5, <2>2 DEF SaveDraft, Saves
  <2>. QED BY <1>5, <2>1, <2>2, <2>3, <2>4 DEF SaveDraft, Saves
<1>6. ASSUME NEW c \in Clients, SaveAgain(c) PROVE TypeOK'
  <2>1. NoDraft \in Draft /\ NoDraft.id = 0
    BY RowsAreTyped DEF NoDraft
  <2>. QED BY <1>6, <2>1 DEF SaveAgain
<1>7. ASSUME NEW c \in Clients, NEW s \in Segments, UploadVoiceSegment(c, s) PROVE TypeOK'
  <2>1. seg' \in [Segments -> Segment]
    BY <1>7, NewSegmentIsTyped DEF UploadVoiceSegment, Status, Active
  <2>. QED BY <1>7, <2>1, ScheduledIsTyped DEF UploadVoiceSegment
<1>8. ASSUME NEW c \in Clients, NEW s \in Segments, OpenAttempt(c, s) PROVE TypeOK'
  <2>1. attempt' \in Attempt /\ attempt'.segment \in Segments
    BY <1>8 DEF OpenAttempt, NoAttempt, Attempt, Draft
  <2>. QED BY <1>8, <2>1 DEF OpenAttempt, StreamLeaves
<1>9. ASSUME NEW c \in Clients, NEW s \in Segments, NEW forced \in BOOLEAN,
             CreateStreamingSegment(c, s, forced) PROVE TypeOK'
  <2>1. PICK status \in Status : NewSegment(s, status, "streaming")
    BY <1>9 DEF CreateStreamingSegment, Status, Active
  <2>2. seg' \in [Segments -> Segment]
    BY <2>1, NewSegmentIsTyped
  <2>3. /\ attempt' \in Attempt
        /\ attempt'.phase # "none" => attempt'.segment \in Segments
    BY <1>9 DEF CreateStreamingSegment, Attempt
  <2>. QED BY <1>9, <2>2, <2>3 DEF CreateStreamingSegment, OnlySeg, StreamLeaves
<1>10. ASSUME NEW s \in Segments, RepeatUpload(s) PROVE TypeOK'
  BY <1>10, ScheduledIsTyped DEF RepeatUpload
<1>11. ASSUME NEW s \in Segments, RetryFailedSegment(s) PROVE TypeOK'
  <2>1. [seg[s] EXCEPT !.status = "pending", !.model = "batch"] \in Segment
    <3>1. seg[s] \in Segment
      OBVIOUS
    <3>. QED BY <3>1 DEF Segment, Status, Active
  <2>2. CASE seg[s].limited
    BY <1>11, <2>2, AppendIsTyped DEF RetryFailedSegment
  <2>3. CASE ~ seg[s].limited
    <3>1. seg' \in [Segments -> Segment]
      BY <1>11, <2>1, <2>3 DEF RetryFailedSegment
    <3>2. task' \in [Segments -> Phases]
      BY <1>11, <2>3, ScheduledIsTyped DEF RetryFailedSegment
    <3>. QED BY <1>11, <2>3, <3>1, <3>2 DEF RetryFailedSegment, OnlySeg
  <2>. QED BY <2>2, <2>3
<1>12. ASSUME NEW s \in Segments, DeleteFailedSegment(s) PROVE TypeOK'
  BY <1>12, RowsAreTyped DEF DeleteFailedSegment, OnlySeg
<1>13. ASSUME NEW s \in Segments, AcceptTranscribedSegment(s) PROVE TypeOK'
  BY <1>13, AppendIsTyped DEF AcceptTranscribedSegment
<1>14. CASE StopRecording
  BY <1>14 DEF StopRecording, StreamLeaves, Attempt
<1>15. ASSUME NEW s \in Segments, ClaimPendingSegment(s) PROVE TypeOK'
  <2>1. [seg[s] EXCEPT !.status = "transcribing"] \in Segment
    BY RowsAreTyped DEF Status, Active
  <2>. QED BY <1>15, <2>1
           DEF ClaimPendingSegment, TaskMoves, OnlySeg, TaskLeaves, Phases
<1>16. ASSUME NEW s \in Segments, SetMediaMetadata(s) PROVE TypeOK'
  BY <1>16 DEF SetMediaMetadata, TaskMoves, TaskLeaves, Phases
<1>17. ASSUME NEW s \in Segments, SetAsrInputKind(s) PROVE TypeOK'
  BY <1>17 DEF SetAsrInputKind, TaskMoves, TaskLeaves, Phases
<1>18. ASSUME NEW s \in Segments, CompleteTranscription(s) PROVE TypeOK'
  <2>1. task' \in [Segments -> Phases]
    BY <1>18 DEF CompleteTranscription, TaskMoves, Phases
  <2>2. [seg[s] EXCEPT !.status = "failed", !.limited = TRUE] \in Segment
    BY RowsAreTyped DEF Status, Active
  <2>3. CASE Append(s) /\ UNCHANGED <<created, input>>
    BY <1>18, <2>1, <2>3, AppendIsTyped DEF CompleteTranscription, TaskLeaves
  <2>4. CASE /\ seg' = [seg EXCEPT ![s].status = "failed", ![s].limited = TRUE]
             /\ OnlySeg
    BY <1>18, <2>1, <2>2, <2>4 DEF CompleteTranscription, TaskLeaves, OnlySeg
  <2>5. CASE UNCHANGED tables
    BY <1>18, <2>1, <2>5 DEF CompleteTranscription, TaskLeaves
  <2>. QED BY <1>18, <2>3, <2>4, <2>5 DEF CompleteTranscription
<1>19. ASSUME NEW s \in Segments, TaskFails(s) PROVE TypeOK'
  BY <1>19, FailingIsTyped DEF TaskFails, TaskMoves, OnlySeg, TaskLeaves, Phases
<1>20. ASSUME NEW s \in Segments, TaskDies(s) PROVE TypeOK'
  BY <1>20 DEF TaskDies, TaskMoves, Phases
<1>21. ASSUME NEW s \in Segments, NEW good \in BOOLEAN, ProbeStreamingUpload(s, good)
       PROVE  TypeOK'
  <2>1. seg' \in [Segments -> Segment]
    BY <1>21, FailingIsTyped DEF ProbeStreamingUpload
  <2>2. attempt' \in Attempt /\ (attempt'.phase # "none" => attempt'.segment \in Segments)
    BY <1>21 DEF ProbeStreamingUpload, Attempt
  <2>. QED BY <1>21, <2>1, <2>2 DEF ProbeStreamingUpload, OnlySeg, StreamLeaves
<1>22. CASE ProviderFinishes
  BY <1>22 DEF ProviderFinishes, StreamLeaves, Attempt
<1>23. CASE MarkSegmentTranscribed
  <2>1. attempt.segment \in Segments
    BY <1>23 DEF MarkSegmentTranscribed
  <2>2. [seg[attempt.segment] EXCEPT !.status = "transcribed", !.limited = FALSE] \in Segment
    BY <2>1, RowsAreTyped DEF Status
  <2>3. seg' \in [Segments -> Segment]
    BY <1>23, <2>1, <2>2 DEF MarkSegmentTranscribed
  <2>4. attempt' \in Attempt /\ (attempt'.phase # "none" => attempt'.segment \in Segments)
    BY <1>23, <2>1 DEF MarkSegmentTranscribed, Attempt
  <2>. QED BY <1>23, <2>3, <2>4 DEF MarkSegmentTranscribed, OnlySeg, StreamLeaves
<1>24. CASE AttemptFails
  <2>1. seg' \in [Segments -> Segment]
    BY <1>24, FailingIsTyped DEF AttemptFails
  <2>2. attempt' \in Attempt /\ attempt'.phase = "none"
    BY <1>24, RowsAreTyped DEF AttemptFails, NoAttempt
  <2>. QED BY <1>24, <2>1, <2>2 DEF AttemptFails, OnlySeg, StreamLeaves
<1>25. CASE AttemptAccepts
  <2>1. attempt.segment \in Segments
    BY <1>25 DEF AttemptAccepts
  <2>2. attempt' \in Attempt /\ attempt'.phase = "none"
    BY <1>25, RowsAreTyped DEF AttemptAccepts, NoAttempt
  <2>3. CASE Append(attempt.segment) /\ UNCHANGED <<created, input>>
    BY <1>25, <2>1, <2>2, <2>3, AppendIsTyped DEF AttemptAccepts, StreamLeaves
  <2>4. CASE UNCHANGED tables
    BY <1>25, <2>2, <2>4 DEF AttemptAccepts, StreamLeaves
  <2>. QED BY <1>25, <2>3, <2>4 DEF AttemptAccepts
<1>26. CASE Crash
  <2>1. attempt' \in Attempt /\ attempt'.phase = "none"
    BY <1>26, RowsAreTyped DEF Crash, NoAttempt
  <2>2. task' \in [Segments -> Phases]
    BY <1>26 DEF Crash, Phases
  <2>3. up' \in BOOLEAN /\ probing' = {} /\ crashes' = crashes + 1
    BY <1>26 DEF Crash
  <2>. QED BY <1>26, <2>1, <2>2, <2>3 DEF Crash
<1>27. CASE Startup
  <2>1. seg' \in [Segments -> Segment]
    BY <1>27, RowsAreTyped DEF Startup, Status, Active
  <2>. QED BY <1>27, <2>1 DEF Startup, OnlySeg, Phases
<1>28. ASSUME NEW s \in Segments, AcceptAtStartup(s) PROVE TypeOK'
  BY <1>28, AppendIsTyped DEF AcceptAtStartup
<1>29. CASE UNCHANGED vars
  BY <1>29 DEF vars
<1>. QED
  BY <1>1, <1>2, <1>3, <1>4, <1>5, <1>6, <1>7, <1>8, <1>9, <1>10, <1>11, <1>12, <1>13,
     <1>14, <1>15, <1>16, <1>17, <1>18, <1>19, <1>20, <1>21, <1>22, <1>23, <1>24, <1>25,
     <1>26, <1>27, <1>28, <1>29
     DEF Next, UserRequest, TaskStep, StreamStep, ProbeStep

(* Every variable of the capture keeps its type.                           *)
THEOREM TypeCorrect == Spec => []TypeOK
<1>1. Init => TypeOK
  <2>. SUFFICES ASSUME Init PROVE TypeOK
    OBVIOUS
  <2>1. 0 \in 0 .. MaxDrafts /\ NoDraft.id \in 0 .. 0
    BY BoundsAssumption DEF BoundsAssumption, NoDraft
  <2>. QED BY <2>1, RowsAreTyped DEF Init, TypeOK, NoAttempt, Phases
<1>. QED BY <1>1, TypeStep, PTL DEF Spec

----------------------------------------------------------------------------
(* The rows: whose the segments are, and what was appended of them.        *)

\* A segment that is not in the current draft is in none; only a segment with
\* a transcript to append has not been appended.
RowsInv ==
  /\ \A s \in Segments : seg[s].draft # 0 => seg[s].draft = draft.id
  /\ \A s \in Segments : seg[s].status \in {"none", "deleted"} => seg[s].draft = 0
  /\ \A s \in Segments : seg[s].status = "none" => appended[s] = 0
  /\ AppendedOnce
  /\ SavedSegmentsSucceeded
  /\ OneActiveSegment

Open == {"pending", "transcribing", "transcribed", "failed"}

\* A segment with an open status belongs to the current draft.
LEMMA OpenIsInDraft ==
  ASSUME TypeOK, RowsInv, NEW s \in Segments, seg[s].status \in Open
  PROVE  seg[s].draft # 0 /\ seg[s].draft = draft.id /\ appended[s] = 0
BY DEF RowsInv, SavedSegmentsSucceeded, AppendedOnce, Retained, Status, Active, Open

\* What an update of a row leaves.
LEMMA RowUpdates ==
  ASSUME TypeOK, NEW s \in Segments
  PROVE  /\ \A st : [seg EXCEPT ![s].status = st][s].status = st
         /\ \A st : [seg EXCEPT ![s].status = st][s].draft = seg[s].draft
         /\ \A st, l : /\ [seg EXCEPT ![s].status = st, ![s].limited = l][s].status = st
                       /\ [seg EXCEPT ![s].status = st, ![s].limited = l][s].draft
                            = seg[s].draft
         /\ \A st, m : /\ [seg EXCEPT ![s].status = st, ![s].model = m][s].status = st
                       /\ [seg EXCEPT ![s].status = st, ![s].model = m][s].draft
                            = seg[s].draft
BY DEF TypeOK, Segment

\* Rows whose status moves between open statuses, none of them to a running
\* one from one that was not running.
LEMMA MovesKeepRows ==
  ASSUME TypeOK, RowsInv, draft'.id = draft.id, appended' = appended,
         \A t \in Segments :
           \/ seg'[t] = seg[t]
           \/ /\ seg'[t].draft = seg[t].draft
              /\ seg[t].status \in Open /\ seg'[t].status \in Open
              /\ seg'[t].status \in Active => seg[t].status \in Active
  PROVE  RowsInv'
<1>1. \A t \in Segments : seg'[t].draft = seg[t].draft
  OBVIOUS
<1>2. InDraft(Active)' \subseteq InDraft(Active)
  BY <1>1 DEF InDraft
<1>3. OneActiveSegment'
  BY <1>2 DEF RowsInv, OneActiveSegment
<1>4. \A t \in Segments : seg[t].status \in Open => seg[t].draft # 0 /\ appended[t] = 0
  BY OpenIsInDraft
<1>5. AppendedOnce'
  BY <1>4 DEF RowsInv, AppendedOnce, Open
<1>6. SavedSegmentsSucceeded'
  BY <1>1, <1>4 DEF RowsInv, SavedSegmentsSucceeded
<1>7. \A t \in Segments : seg'[t].status \in {"none", "deleted"} => seg'[t].draft = 0
  BY <1>1 DEF RowsInv, Open
<1>. QED BY <1>1, <1>3, <1>5, <1>6, <1>7 DEF RowsInv, Open

\* One segment starts to wait or to run where none did.
LEMMA ActivationKeepsRows ==
  ASSUME TypeOK, RowsInv, NEW s \in Segments,
         draft'.id = draft.id, draft.id # 0, appended' = appended, appended[s] = 0,
         InDraft(Active) = {},
         \A t \in Segments \ {s} : seg'[t] = seg[t],
         seg'[s].draft = draft.id, seg'[s].status \in Open
  PROVE  RowsInv'
<1>1. \A t \in Segments : t \in InDraft(Active)' => t = s
  BY DEF InDraft
<1>2. OneActiveSegment'
  BY <1>1 DEF OneActiveSegment, InDraft
<1>3. AppendedOnce'
  BY DEF RowsInv, AppendedOnce, Open
<1>4. SavedSegmentsSucceeded'
  BY DEF RowsInv, SavedSegmentsSucceeded
<1>. QED BY <1>2, <1>3, <1>4 DEF RowsInv, Open

\* A transcript is appended where it was not.
LEMMA AppendKeepsRows ==
  ASSUME TypeOK, RowsInv, NEW s \in Segments, seg[s].status \in Open, Append(s)
  PROVE  RowsInv'
<1>1. appended[s] = 0 /\ appended' = [appended EXCEPT ![s] = @ + 1]
  BY OpenIsInDraft DEF Append
<1>2. /\ appended'[s] = 1
      /\ \A t \in Segments \ {s} : appended'[t] = appended[t]
  BY <1>1 DEF TypeOK
<1>3. /\ seg'[s].status = "succeeded" /\ seg'[s].draft = seg[s].draft
      /\ \A t \in Segments \ {s} : seg'[t] = seg[t]
  BY RowUpdates DEF Append, TypeOK
<1>4. draft'.id = draft.id
  BY AppendIsTyped
<1>5. InDraft(Active)' \subseteq InDraft(Active)
  BY <1>3, <1>4 DEF InDraft, Active
<1>6. OneActiveSegment'
  BY <1>5 DEF RowsInv, OneActiveSegment
<1>7. AppendedOnce'
  BY <1>2, <1>3 DEF RowsInv, AppendedOnce
<1>8. SavedSegmentsSucceeded'
  BY <1>3 DEF RowsInv, SavedSegmentsSucceeded
<1>9. seg[s].draft = draft.id
  BY OpenIsInDraft
<1>. QED BY <1>2, <1>3, <1>4, <1>6, <1>7, <1>8, <1>9 DEF RowsInv

\* The draft goes, and the segments with it, or to an input once they are done.
LEMMA DraftGoesKeepsRows ==
  ASSUME TypeOK, RowsInv, draft' = NoDraft, appended' = appended,
         \A s \in Segments \ InDraft(Retained) : seg'[s] = seg[s],
         \A s \in InDraft(Retained) :
            /\ seg'[s].draft = 0
            /\ \/ seg'[s].status = "deleted"
               \/ seg'[s].status = "succeeded" /\ seg[s].status = "succeeded"
  PROVE  RowsInv'
<1>1. draft'.id = 0
  BY DEF NoDraft
<1>2. \A s \in Segments : seg[s].draft # 0 => s \in InDraft(Retained)
  BY DEF RowsInv, InDraft, Retained, TypeOK, Segment
<1>3. \A s \in Segments : seg'[s].draft = 0
  BY <1>2
<1>4. OneActiveSegment'
  BY <1>1 DEF OneActiveSegment, InDraft
<1>5. AppendedOnce'
  BY DEF RowsInv, AppendedOnce, InDraft
<1>6. SavedSegmentsSucceeded'
  BY <1>3 DEF RowsInv, SavedSegmentsSucceeded, InDraft, Retained
<1>7. \A s \in Segments : seg'[s].status = "none" => appended'[s] = 0
  BY DEF RowsInv, InDraft
<1>. QED BY <1>1, <1>3, <1>4, <1>5, <1>6, <1>7 DEF RowsInv

\* Every action keeps the rows in order.
LEMMA RowsStep == TypeOK /\ RowsInv /\ [Next]_vars => RowsInv'
<1>. SUFFICES ASSUME TypeOK, RowsInv, [Next]_vars PROVE RowsInv'
  OBVIOUS
<1>. USE DEF tables, OnlySeg
<1>0. draft \in Draft /\ \A s \in Segments : seg[s] \in Segment
  BY DEF TypeOK
\* The actions that leave the rows and the identity of the draft alone.
<1>1. ASSUME draft'.id = draft.id, seg' = seg, appended' = appended PROVE RowsInv'
  BY <1>1, MovesKeepRows
<1>2. ASSUME UNCHANGED <<draft, seg, appended>> PROVE RowsInv'
  BY <1>2, <1>1
<1>3. CASE \/ \E c \in Clients : Load(c) \/ SaveAgain(c)
           \/ \E c \in Clients, s \in Segments : OpenAttempt(c, s)
           \/ \E s \in Segments : \/ RepeatUpload(s) \/ SetMediaMetadata(s)
                                  \/ SetAsrInputKind(s) \/ TaskDies(s)
           \/ StopRecording \/ ProviderFinishes \/ Crash \/ UNCHANGED vars
  BY <1>2, <1>3
     DEF Load, SaveAgain, OpenAttempt, RepeatUpload, SetMediaMetadata, SetAsrInputKind,
         TaskDies, StopRecording, ProviderFinishes, Crash, vars
<1>4. ASSUME NEW c \in Clients, PutFirst(c) PROVE RowsInv'
  <2>1. /\ \A s \in Segments : seg[s].draft = 0
        /\ UNCHANGED <<seg, appended>>
    BY <1>4, <1>0 DEF PutFirst, DraftLeaves, RowsInv, Segment
  <2>2. draft'.id # 0
    BY <1>4 DEF PutFirst, TypeOK
  <2>3. OneActiveSegment'
    BY <2>1, <2>2 DEF OneActiveSegment, InDraft
  <2>. QED
    BY <2>1, <2>3 DEF RowsInv, AppendedOnce, SavedSegmentsSucceeded
<1>5. ASSUME NEW c \in Clients, PutDraft(c) PROVE RowsInv'
  <2>1. draft'.id = draft.id
    BY <1>5, PutDraftIsTyped
  <2>. QED BY <1>5, <1>1, <2>1 DEF PutDraft, DraftLeaves
<1>6. ASSUME NEW c \in Clients, DeleteDraft(c) PROVE RowsInv'
  <2>1. [NoRow EXCEPT !.status = "deleted"].status = "deleted"
        /\ [NoRow EXCEPT !.status = "deleted"].draft = 0
    BY DEF NoRow
  <2>2. InDraft(Retained) \subseteq Segments
    BY DEF InDraft
  <2>3. \A s \in Segments : seg'[s] = IF s \in InDraft(Retained)
                                      THEN [NoRow EXCEPT !.status = "deleted"] ELSE seg[s]
    BY <1>6 DEF DeleteDraft
  <2>4. draft' = NoDraft /\ appended' = appended
    BY <1>6 DEF DeleteDraft, DraftLeaves
  <2>. QED BY <2>1, <2>2, <2>3, <2>4, DraftGoesKeepsRows
<1>7. ASSUME NEW c \in Clients, SaveDraft(c) PROVE RowsInv'
  <2>1. \A s \in InDraft(Retained) : seg[s].status = "succeeded"
    BY <1>7 DEF SaveDraft, InDraft
  <2>2. InDraft(Retained) \subseteq Segments
    BY DEF InDraft
  <2>3. \A s \in Segments : seg'[s] = IF s \in InDraft(Retained)
                                      THEN [seg[s] EXCEPT !.draft = 0] ELSE seg[s]
    BY <1>7 DEF SaveDraft, Saves
  <2>4. \A s \in Segments : /\ [seg[s] EXCEPT !.draft = 0].draft = 0
                            /\ [seg[s] EXCEPT !.draft = 0].status = seg[s].status
    BY <1>0 DEF Segment
  <2>5. draft' = NoDraft /\ appended' = appended
    BY <1>7 DEF SaveDraft, Saves
  <2>. QED BY <2>1, <2>2, <2>3, <2>4, <2>5, DraftGoesKeepsRows
<1>8. ASSUME NEW s \in Segments, NEW status \in Open, NEW model,
             NewSegment(s, status, model), seg[s].status = "none", draft.id # 0,
             InDraft(Active \cup {"failed"}) = {}, UNCHANGED <<draft, appended>>
      PROVE  RowsInv'
  <2>1. InDraft(Active) = {}
    BY <1>8 DEF InDraft
  <2>2. /\ \A t \in Segments \ {s} : seg'[t] = seg[t]
        /\ seg'[s] = [status |-> status, model |-> model, draft |-> draft.id,
                      limited |-> FALSE]
    BY <1>8 DEF NewSegment, TypeOK
  <2>3. appended[s] = 0
    BY <1>8 DEF RowsInv
  <2>4. seg'[s].draft = draft.id /\ seg'[s].status \in Open
    BY <2>2
  <2>. QED BY <1>8, <2>1, <2>2, <2>3, <2>4, ActivationKeepsRows
<1>9. ASSUME NEW c \in Clients, NEW s \in Segments, UploadVoiceSegment(c, s) PROVE RowsInv'
  BY <1>8, <1>9 DEF UploadVoiceSegment, Open
<1>10. ASSUME NEW c \in Clients, NEW s \in Segments, NEW forced \in BOOLEAN,
              CreateStreamingSegment(c, s, forced) PROVE RowsInv'
  <2>1. PICK status \in {"transcribing", "failed"} : NewSegment(s, status, "streaming")
    BY <1>10 DEF CreateStreamingSegment
  <2>. QED BY <1>8, <1>10, <2>1 DEF CreateStreamingSegment, Open
<1>11. ASSUME NEW s \in Segments, RetryFailedSegment(s) PROVE RowsInv'
  <2>1. seg[s].status \in Open /\ seg[s].status = "failed"
    BY <1>11 DEF RetryFailedSegment, Open
  <2>2. CASE seg[s].limited
    BY <1>11, <2>1, <2>2, AppendKeepsRows DEF RetryFailedSegment
  <2>3. CASE ~ seg[s].limited
    <3>1. /\ seg' = [seg EXCEPT ![s].status = "pending", ![s].model = "batch"]
          /\ InDraft(Active) = {} /\ UNCHANGED <<draft, appended>>
      BY <1>11, <2>3 DEF RetryFailedSegment
    <3>2. /\ seg'[s].status = "pending" /\ seg'[s].draft = seg[s].draft
          /\ \A t \in Segments \ {s} : seg'[t] = seg[t]
      BY <3>1, RowUpdates DEF TypeOK
    <3>3. seg[s].draft = draft.id /\ draft.id # 0 /\ appended[s] = 0
      BY <2>1, OpenIsInDraft
    <3>4. seg'[s].status \in Open
      BY <3>2 DEF Open
    <3>. QED BY <3>1, <3>2, <3>3, <3>4, ActivationKeepsRows
  <2>. QED BY <2>2, <2>3
<1>12. ASSUME NEW s \in Segments, DeleteFailedSegment(s) PROVE RowsInv'
  <2>1. /\ seg'[s] = [NoRow EXCEPT !.status = "deleted"]
        /\ \A t \in Segments \ {s} : seg'[t] = seg[t]
        /\ UNCHANGED <<draft, appended>>
    BY <1>12 DEF DeleteFailedSegment, TypeOK
  <2>2. seg'[s].status = "deleted" /\ seg'[s].draft = 0
    BY <2>1 DEF NoRow
  <2>3. InDraft(Active)' \subseteq InDraft(Active)
    BY <2>1, <2>2 DEF InDraft
  <2>4. OneActiveSegment'
    BY <2>3 DEF RowsInv, OneActiveSegment
  <2>5. AppendedOnce'
    BY <2>1, <2>2 DEF RowsInv, AppendedOnce
  <2>6. SavedSegmentsSucceeded'
    <3>1. \A t \in Segments : seg'[t] = seg[t] \/ seg'[t].status \notin Retained
      BY <2>1, <2>2 DEF Retained
    <3>. QED BY <3>1 DEF RowsInv, SavedSegmentsSucceeded, Retained
  <2>. QED BY <2>1, <2>2, <2>4, <2>5, <2>6 DEF RowsInv
<1>13. ASSUME NEW s \in Segments, Acceptable(s), Append(s) PROVE RowsInv'
  BY <1>13, AppendKeepsRows DEF Acceptable, Open
<1>14. CASE \E s \in Segments : AcceptTranscribedSegment(s) \/ AcceptAtStartup(s)
  BY <1>13, <1>14 DEF AcceptTranscribedSegment, AcceptAtStartup
<1>15. CASE AttemptAccepts
  BY <1>2, <1>13, <1>15 DEF AttemptAccepts, TypeOK
\* A segment that is being transcribed, or waits for it, moves.
<1>16. ASSUME NEW s \in Segments, NEW status \in Open,
              UNCHANGED <<draft, appended>>, seg[s].status \in Open,
              status \in Active => seg[s].status \in Active,
              seg'[s].status = status, seg'[s].draft = seg[s].draft,
              \A t \in Segments \ {s} : seg'[t] = seg[t]
       PROVE  RowsInv'
  BY <1>16, MovesKeepRows
<1>17. ASSUME NEW s \in Segments, UNCHANGED <<draft, appended>>,
              seg[s].status \in Open, seg' = ToFailed(s)
       PROVE  RowsInv'
  <2>1. /\ seg'[s].status = "failed" /\ seg'[s].draft = seg[s].draft
        /\ \A t \in Segments \ {s} : seg'[t] = seg[t]
    BY <1>17, RowUpdates DEF ToFailed, TypeOK
  <2>. QED BY <1>16, <1>17, <2>1 DEF Open, Active
<1>18. ASSUME NEW s \in Segments, UNCHANGED <<draft, appended>>, seg' = MarkedFailed(s)
       PROVE  RowsInv'
  BY <1>2, <1>17, <1>18 DEF MarkedFailed, Open
<1>19. ASSUME NEW s \in Segments, ClaimPendingSegment(s) PROVE RowsInv'
  <2>1. CASE UNCHANGED seg
    BY <1>2, <1>19, <2>1 DEF ClaimPendingSegment
  <2>2. CASE /\ seg[s].status = "pending"
             /\ seg' = [seg EXCEPT ![s].status = "transcribing"]
    <3>1. /\ seg'[s].status = "transcribing" /\ seg'[s].draft = seg[s].draft
          /\ \A t \in Segments \ {s} : seg'[t] = seg[t]
      BY <2>2, RowUpdates DEF TypeOK
    <3>. QED BY <1>16, <1>19, <2>2, <3>1 DEF ClaimPendingSegment, Open, Active
  <2>. QED BY <1>19, <2>1, <2>2 DEF ClaimPendingSegment
<1>20. ASSUME NEW s \in Segments, CompleteTranscription(s) PROVE RowsInv'
  <2>1. CASE UNCHANGED tables
    BY <1>2, <2>1
  <2>2. CASE seg[s].status = "transcribing" /\ Append(s)
    BY <2>2, AppendKeepsRows DEF Open
  <2>3. CASE /\ seg[s].status = "transcribing" /\ OnlySeg
             /\ seg' = [seg EXCEPT ![s].status = "failed", ![s].limited = TRUE]
    <3>1. /\ seg'[s].status = "failed" /\ seg'[s].draft = seg[s].draft
          /\ \A t \in Segments \ {s} : seg'[t] = seg[t]
      BY <2>3, RowUpdates DEF TypeOK
    <3>. QED BY <1>16, <2>3, <3>1 DEF Open, Active
  <2>. QED BY <1>20, <2>1, <2>2, <2>3 DEF CompleteTranscription
<1>21. ASSUME NEW s \in Segments, TaskFails(s) PROVE RowsInv'
  BY <1>18, <1>21 DEF TaskFails
<1>22. ASSUME NEW s \in Segments, NEW good \in BOOLEAN, ProbeStreamingUpload(s, good)
       PROVE  RowsInv'
  BY <1>2, <1>17, <1>22 DEF ProbeStreamingUpload, Open
<1>23. CASE MarkSegmentTranscribed
  <2>1. PICK s \in Segments : s = attempt.segment
    BY <1>23 DEF MarkSegmentTranscribed, TypeOK
  <2>2. /\ seg[s].status = "transcribing"
        /\ seg' = [seg EXCEPT ![s].status = "transcribed", ![s].limited = FALSE]
        /\ UNCHANGED <<draft, appended>>
    BY <1>23, <2>1 DEF MarkSegmentTranscribed
  <2>3. /\ seg'[s].status = "transcribed" /\ seg'[s].draft = seg[s].draft
        /\ \A t \in Segments \ {s} : seg'[t] = seg[t]
    BY <2>2, RowUpdates DEF TypeOK
  <2>. QED BY <1>16, <2>2, <2>3 DEF Open, Active
<1>24. CASE AttemptFails
  <2>1. attempt.segment \in Segments
    BY <1>24 DEF AttemptFails, TypeOK
  <2>. QED BY <1>2, <1>18, <1>24, <2>1 DEF AttemptFails
<1>25. CASE Startup
  <2>1. /\ UNCHANGED <<draft, appended>>
        /\ \A t \in Segments :
             seg'[t] = IF seg[t].status = "transcribing"
                       THEN [seg[t] EXCEPT !.status = "failed", !.limited = FALSE]
                       ELSE seg[t]
    BY <1>25 DEF Startup
  <2>2. \A t \in Segments :
          /\ [seg[t] EXCEPT !.status = "failed", !.limited = FALSE].status = "failed"
          /\ [seg[t] EXCEPT !.status = "failed", !.limited = FALSE].draft = seg[t].draft
    BY <1>0 DEF Segment
  <2>. QED BY <2>1, <2>2, MovesKeepRows DEF Open, Active
<1>. QED
  BY <1>3, <1>4, <1>5, <1>6, <1>7, <1>9, <1>10, <1>11, <1>12, <1>14, <1>15, <1>19, <1>20,
     <1>21, <1>22, <1>23, <1>24, <1>25
     DEF Next, UserRequest, TaskStep, StreamStep, ProbeStep

(* The rows stay in order, from the empty tables on.                       *)
THEOREM RowsHold == Spec => [](TypeOK /\ RowsInv)
<1>1. Init => RowsInv
  BY DEF Init, RowsInv, NoRow, NoDraft, AppendedOnce, SavedSegmentsSucceeded, Retained,
         OneActiveSegment, InDraft
<1>. QED BY <1>1, RowsStep, TypeStep, TypeCorrect, PTL DEF Spec

(* A transcript is appended to the draft exactly when its segment          *)
(* succeeds, and once.                                                     *)
THEOREM EveryTranscriptOnce == Spec => []AppendedOnce
<1>1. RowsInv => AppendedOnce
  BY DEF RowsInv
<1>. QED BY <1>1, RowsHold, PTL

(* At most one segment of the draft waits for, or is in, transcription.    *)
THEOREM OneActive == Spec => []OneActiveSegment
<1>1. RowsInv => OneActiveSegment
  BY DEF RowsInv
<1>. QED BY <1>1, RowsHold, PTL

(* Only finished segments are saved.                                       *)
THEOREM SavedAreFinished == Spec => []SavedSegmentsSucceeded
<1>1. RowsInv => SavedSegmentsSucceeded
  BY DEF RowsInv
<1>. QED BY <1>1, RowsHold, PTL

----------------------------------------------------------------------------
(* Revisions: what a client that holds one knows of the text.              *)

\* Revisions of a draft only grow, so that no client is ahead of it.
ViewInv ==
  /\ draft.id = 0 => draft = NoDraft
  /\ \A c \in Clients : view[c].id = 0 => view[c] = NoDraft
  /\ \A c \in Clients : view[c].id = draft.id => view[c].revision <= draft.revision
  /\ RevisionNamesText

\* A transcript moves the draft past every revision that a client holds.
LEMMA AppendKeepsViews ==
  ASSUME TypeOK, RowsInv, ViewInv, NEW s \in Segments, seg[s].status \in Open,
         Append(s), UNCHANGED view
  PROVE  ViewInv'
<1>1. draft.id # 0
  BY OpenIsInDraft
<1>2. draft'.id = draft.id /\ draft'.revision = draft.revision + 1
  BY AppendIsTyped
<1>3. \A c \in Clients : view[c].revision \in Nat /\ draft.revision \in Nat
  BY DEF TypeOK, Draft
<1>4. \A c \in Clients : view'[c].id = draft'.id => view'[c].revision < draft'.revision
  BY <1>2, <1>3 DEF ViewInv
<1>5. RevisionNamesText'
  BY <1>3, <1>4, <1>2 DEF RevisionNamesText
<1>. QED BY <1>1, <1>2, <1>3, <1>4, <1>5 DEF ViewInv

\* One client is shown the draft as it has become; no other client is ahead.
LEMMA WritingKeepsViews ==
  ASSUME TypeOK, TypeOK', ViewInv, NEW c \in Clients,
         draft'.id # 0,
         view' = [view EXCEPT ![c] = draft'],
         \A d \in Clients : view[d].id = draft'.id => view[d].revision < draft'.revision
  PROVE  ViewInv'
<1>1. /\ view'[c] = draft'
      /\ \A d \in Clients \ {c} : view'[d] = view[d]
  BY DEF TypeOK
<1>2. draft'.revision \in Nat /\ \A d \in Clients : view[d].revision \in Nat
  BY DEF TypeOK, Draft
<1>3. RevisionNamesText'
  BY <1>1, <1>2 DEF RevisionNamesText
<1>. QED BY <1>1, <1>2, <1>3 DEF ViewInv

\* The draft goes; a client may not hear of it.
LEMMA GoingKeepsViews ==
  ASSUME TypeOK, ViewInv, NEW c \in Clients, NEW known \in {view[c], NoDraft},
         draft' = NoDraft, view' = [view EXCEPT ![c] = known]
  PROVE  ViewInv'
<1>1. \A d \in Clients : view'[d] \in {view[d], NoDraft}
  BY DEF TypeOK
<1>2. NoDraft.id = 0 /\ NoDraft.revision <= NoDraft.revision
  BY DEF NoDraft
<1>3. \A d \in Clients : view'[d].id = 0 => view'[d] = NoDraft
  BY <1>1 DEF ViewInv
<1>4. RevisionNamesText'
  BY <1>2, <1>3 DEF RevisionNamesText
<1>. QED BY <1>2, <1>3, <1>4 DEF ViewInv

\* Every action keeps what revisions mean.
LEMMA ViewStep == TypeOK /\ TypeOK' /\ RowsInv /\ ViewInv /\ [Next]_vars => ViewInv'
<1>. SUFFICES ASSUME TypeOK, TypeOK', RowsInv, ViewInv, [Next]_vars PROVE ViewInv'
  OBVIOUS
<1>. USE DEF tables, OnlySeg
<1>1. ASSUME UNCHANGED <<draft, view>> PROVE ViewInv'
  BY <1>1 DEF ViewInv, RevisionNamesText
<1>2. CASE \/ \E c \in Clients, s \in Segments :
                \/ UploadVoiceSegment(c, s) \/ OpenAttempt(c, s)
                \/ \E forced \in BOOLEAN : CreateStreamingSegment(c, s, forced)
           \/ \E s \in Segments :
                \/ RepeatUpload(s) \/ DeleteFailedSegment(s) \/ ClaimPendingSegment(s)
                \/ SetMediaMetadata(s) \/ SetAsrInputKind(s) \/ TaskFails(s) \/ TaskDies(s)
                \/ ProbeStep(s)
  <2>1. UNCHANGED <<draft, view>>
    BY <1>2
       DEF UploadVoiceSegment, OpenAttempt, CreateStreamingSegment, RepeatUpload,
           DeleteFailedSegment, ClaimPendingSegment, SetMediaMetadata, SetAsrInputKind,
           TaskFails, TaskDies, ProbeStep, ProbeStreamingUpload, TaskLeaves, StreamLeaves
  <2>. QED BY <1>1, <2>1
<1>3. CASE \/ StopRecording \/ ProviderFinishes \/ MarkSegmentTranscribed \/ AttemptFails
           \/ Crash \/ Startup \/ UNCHANGED vars
  BY <1>1, <1>3
     DEF StopRecording, ProviderFinishes, MarkSegmentTranscribed, AttemptFails, Crash,
         Startup, StreamLeaves, vars
<1>4. ASSUME NEW c \in Clients, Load(c) PROVE ViewInv'
  <2>1. /\ view'[c] = draft /\ draft' = draft
        /\ \A d \in Clients \ {c} : view'[d] = view[d]
    BY <1>4 DEF Load, TypeOK
  <2>2. draft.revision \in Nat
    BY DEF TypeOK, Draft
  <2>. QED BY <2>1, <2>2 DEF ViewInv, RevisionNamesText
<1>5. ASSUME NEW c \in Clients, PutFirst(c) PROVE ViewInv'
  <2>1. PICK t \in Edits(c) : draft' = [id |-> created + 1, revision |-> 1, text |-> t]
    BY <1>5 DEF PutFirst
  <2>2. draft'.id = created + 1 /\ created \in Nat
    BY <2>1 DEF TypeOK
  <2>3. \A d \in Clients : view[d].id # draft'.id
    BY <2>2 DEF TypeOK
  <2>4. view' = [view EXCEPT ![c] = draft']
    BY <1>5 DEF PutFirst
  <2>5. draft'.id # 0
    BY <2>2
  <2>. QED BY <2>3, <2>4, <2>5, WritingKeepsViews
<1>6. ASSUME NEW c \in Clients, PutDraft(c) PROVE ViewInv'
  <2>1. draft'.id = draft.id /\ draft'.revision = draft.revision + 1
    BY <1>6, PutDraftIsTyped
  <2>2. draft.revision \in Nat /\ \A d \in Clients : view[d].revision \in Nat
    BY DEF TypeOK, Draft
  <2>3. \A d \in Clients : view[d].id = draft'.id => view[d].revision < draft'.revision
    BY <2>1, <2>2 DEF ViewInv
  <2>4. view' = [view EXCEPT ![c] = draft'] /\ draft'.id # 0
    BY <1>6, <2>1 DEF PutDraft
  <2>. QED BY <2>3, <2>4, WritingKeepsViews
<1>7. ASSUME NEW c \in Clients, DeleteDraft(c) PROVE ViewInv'
  <2>1. draft' = NoDraft /\ view' = [view EXCEPT ![c] = NoDraft]
    BY <1>7 DEF DeleteDraft
  <2>. QED BY <2>1, GoingKeepsViews
<1>8. ASSUME NEW c \in Clients, SaveDraft(c) PROVE ViewInv'
  <2>1. PICK known \in {view[c], NoDraft} : view' = [view EXCEPT ![c] = known]
    BY <1>8 DEF SaveDraft, Saves
  <2>2. draft' = NoDraft
    BY <1>8 DEF SaveDraft, Saves
  <2>. QED BY <2>1, <2>2, GoingKeepsViews
<1>9. ASSUME NEW c \in Clients, SaveAgain(c) PROVE ViewInv'
  <2>1. draft' = draft /\ \A d \in Clients : view'[d] \in {view[d], NoDraft}
    BY <1>9 DEF SaveAgain, TypeOK
  <2>2. NoDraft.id = 0
    BY DEF NoDraft
  <2>3. \A d \in Clients : view'[d].id = 0 => view'[d] = NoDraft
    BY <2>1 DEF ViewInv
  <2>4. NoDraft.revision <= NoDraft.revision
    BY DEF NoDraft
  <2>5. \A d \in Clients : view'[d].id = draft'.id => view'[d].revision <= draft'.revision
    BY <2>1, <2>2, <2>4 DEF ViewInv
  <2>6. RevisionNamesText'
    BY <2>1, <2>2 DEF ViewInv, RevisionNamesText
  <2>. QED BY <2>1, <2>3, <2>5, <2>6 DEF ViewInv
<1>10. ASSUME NEW s \in Segments, RetryFailedSegment(s) PROVE ViewInv'
  <2>1. CASE Append(s)
    BY <1>10, <2>1, AppendKeepsViews DEF RetryFailedSegment, Open
  <2>2. CASE OnlySeg
    BY <1>1, <1>10, <2>2 DEF RetryFailedSegment
  <2>. QED BY <1>10, <2>1, <2>2 DEF RetryFailedSegment
<1>11. ASSUME NEW s \in Segments, CompleteTranscription(s) PROVE ViewInv'
  <2>1. CASE seg[s].status = "transcribing" /\ Append(s)
    BY <1>11, <2>1, AppendKeepsViews DEF CompleteTranscription, TaskLeaves, Open
  <2>2. CASE draft' = draft
    BY <1>1, <1>11, <2>2 DEF CompleteTranscription, TaskLeaves
  <2>. QED BY <1>11, <2>1, <2>2 DEF CompleteTranscription
<1>12. ASSUME NEW s \in Segments, Acceptable(s), Append(s), UNCHANGED view PROVE ViewInv'
  BY <1>12, AppendKeepsViews DEF Acceptable, Open
<1>13. CASE \E s \in Segments : AcceptTranscribedSegment(s) \/ AcceptAtStartup(s)
  BY <1>12, <1>13 DEF AcceptTranscribedSegment, AcceptAtStartup
<1>14. CASE AttemptAccepts
  BY <1>1, <1>12, <1>14 DEF AttemptAccepts, StreamLeaves, TypeOK
<1>. QED
  BY <1>2, <1>3, <1>4, <1>5, <1>6, <1>7, <1>8, <1>9, <1>10, <1>11, <1>13, <1>14
     DEF Next, UserRequest, TaskStep, StreamStep

(* No client is ever ahead of the draft it holds.                          *)
THEOREM ViewsHold == Spec => [](TypeOK /\ RowsInv /\ ViewInv)
<1>1. Init => ViewInv
  BY DEF Init, ViewInv, RevisionNamesText, NoDraft
<1>. QED BY <1>1, RowsHold, ViewStep, PTL DEF Spec

(* The revision of a draft names its text.                                 *)
THEOREM RevisionIsEnough == Spec => []RevisionNamesText
<1>1. ViewInv => RevisionNamesText
  BY DEF ViewInv
<1>. QED BY <1>1, ViewsHold, PTL

(* What is saved is what a client had in front of it: a Save compares the  *)
(* draft and its revision, and that is enough.                             *)
THEOREM SavedTextWasSeen == Spec => SavedAsSeen
<1>. DEFINE Seen == \A d \in DraftIds : input[d] = {} /\ input'[d] # {} =>
               \E c \in Clients : view[c].id = d /\ input'[d] = {view[c].text}
<1>1. TypeOK /\ RowsInv /\ ViewInv /\ [Next]_vars => [Seen]_vars
  <2>. SUFFICES ASSUME TypeOK, RowsInv, ViewInv, [Next]_vars PROVE Seen
    OBVIOUS
  <2>. USE DEF tables, OnlySeg
  <2>1. CASE input' = input
    BY <2>1
  <2>2. ASSUME NEW c \in Clients, SaveDraft(c) PROVE Seen
    <3>1. view[c].id = draft.id /\ view[c].text = draft.text
      BY <2>2 DEF SaveDraft, ViewInv, RevisionNamesText
    <3>2. \A d \in DraftIds :
             input'[d] = IF d = draft.id THEN {draft.text} ELSE input[d]
      BY <2>2 DEF SaveDraft, Saves, TypeOK
    <3>. QED BY <3>1, <3>2
  <2>3. ASSUME NEW c \in Clients, Load(c) \/ SaveAgain(c) PROVE Seen
    BY <2>1, <2>3 DEF Load, SaveAgain
  <2>8. ASSUME NEW c \in Clients, PutFirst(c) \/ PutDraft(c) \/ DeleteDraft(c) PROVE Seen
    <3>1. DraftLeaves
      BY <2>8 DEF PutFirst, PutDraft, DeleteDraft
    <3>. QED BY <2>1, <3>1 DEF DraftLeaves
  <2>6. CASE \E c \in Clients, s \in Segments :
               \/ UploadVoiceSegment(c, s) \/ OpenAttempt(c, s)
               \/ \E forced \in BOOLEAN : CreateStreamingSegment(c, s, forced)
    BY <2>1, <2>6 DEF UploadVoiceSegment, OpenAttempt, CreateStreamingSegment
  <2>7. CASE UNCHANGED vars
    BY <2>1, <2>7 DEF vars
  <2>4. CASE \E s \in Segments :
               \/ RepeatUpload(s) \/ RetryFailedSegment(s) \/ DeleteFailedSegment(s)
               \/ AcceptTranscribedSegment(s) \/ AcceptAtStartup(s)
               \/ TaskStep(s) \/ TaskDies(s) \/ ProbeStep(s)
    BY <2>1, <2>4
       DEF RepeatUpload, RetryFailedSegment, DeleteFailedSegment, AcceptTranscribedSegment,
           AcceptAtStartup, TaskStep, ClaimPendingSegment, SetMediaMetadata,
           SetAsrInputKind, CompleteTranscription, TaskFails, TaskDies, ProbeStep,
           ProbeStreamingUpload
  <2>5. CASE StopRecording \/ StreamStep \/ Crash \/ Startup
    BY <2>1, <2>5
       DEF StopRecording, StreamStep, ProviderFinishes, MarkSegmentTranscribed,
           AttemptFails, AttemptAccepts, Crash, Startup
  <2>. QED BY <2>2, <2>3, <2>4, <2>5, <2>6, <2>7, <2>8 DEF Next, UserRequest
<1>. QED BY <1>1, ViewsHold, PTL DEF Spec, SavedAsSeen
=============================================================================
