---------------------------- MODULE VoiceCapture ----------------------------
(***************************************************************************)
(* The capture draft of one user and its voice segments: edits from        *)
(* several browser tabs, the upload of recordings, the background tasks    *)
(* that transcribe them, the streaming attempt, the final Save, and a      *)
(* restart of the server (app/voice_repository.py, app/voice_runtime.py,   *)
(* app/services/voice_transcription.py, app/voice_stream_routes.py).       *)
(*                                                                         *)
(* Every action is one database transaction together with the code that    *)
(* runs, without an await, before and after it.  No row of a user is read  *)
(* or written for another, so one user stands for each.                    *)
(***************************************************************************)
EXTENDS Integers, FiniteSets

CONSTANTS Clients,      \* the tabs and devices of the user
          Segments,     \* the segment rows that may be created
          Limit,        \* MAX_CAPTURE_TEXT_LENGTH; a transcript counts one
          MaxDrafts,    \* bound of the drafts created
          MaxRevision,  \* bound of the revisions that edits reach
          MaxRetries,   \* bound of the retries of all segments
          MaxCrashes,   \* bound of restarts
          MaxFaults,    \* bound of tasks whose failure cannot be stored
          NoSegment

ASSUME BoundsAssumption ==
  /\ Limit \in Nat /\ MaxDrafts \in Nat /\ MaxRevision \in Nat
  /\ MaxRetries \in Nat /\ MaxCrashes \in Nat /\ MaxFaults \in Nat
ASSUME NoSegmentAssumption == NoSegment \notin Segments

VARIABLES up,        \* the server serves requests
          draft,     \* capture_drafts: the draft of the user, id 0 when none
          created,   \* the highest id a draft has had (AUTOINCREMENT)
          input,     \* the text saved from a draft, by source_draft_id
          seg,       \* voice_segments
          view,      \* the draft as each client last loaded it
          task,      \* the transcription task of a segment (VoiceRuntime._tasks)
          attempt,   \* the streaming attempt of the user
          probing,   \* segments whose streaming upload is still being probed
          appended,  \* how often the transcript of a segment was appended
          retries, crashes, faults

tables == <<draft, created, input, seg, appended>>
memory == <<task, attempt, probing>>
bounds == <<retries, crashes, faults>>
vars == <<up, tables, view, memory, bounds>>

DraftIds == 1 .. MaxDrafts
Text == [typed : Nat, holds : SUBSET Segments]
Draft == [id : Nat, revision : Nat, text : Text]
Active == {"pending", "transcribing"}
Status == Active \cup {"none", "transcribed", "succeeded", "failed", "deleted"}
Segment == [status : Status, model : {"batch", "streaming"}, draft : Nat,
            limited : BOOLEAN]
Phases == {"none", "start", "probe", "prepare", "ask"}
Attempt == [phase : {"none", "streaming", "accepting"}, segment : Segments \cup {NoSegment},
            id : Nat, revision : Nat, active : BOOLEAN, stopped : BOOLEAN,
            bound : BOOLEAN, saved : BOOLEAN, final : BOOLEAN]

NoText == [typed |-> 0, holds |-> {}]
NoDraft == [id |-> 0, revision |-> 0, text |-> NoText]
NoRow == [status |-> "none", model |-> "batch", draft |-> 0, limited |-> FALSE]
NoAttempt == [phase |-> "none", segment |-> NoSegment, id |-> 0, revision |-> 0,
              active |-> FALSE, stopped |-> FALSE, bound |-> FALSE,
              saved |-> FALSE, final |-> FALSE]

Length(text) == text.typed + Cardinality(text.holds)
\* The segments of the current draft in one of the given statuses.
InDraft(S) == {s \in Segments : /\ seg[s].status \in S
                                /\ seg[s].draft = draft.id /\ draft.id # 0}
Retained == Status \ {"none", "deleted"}

----------------------------------------------------------------------------
(* The draft.                                                              *)

Load(c) ==
  /\ up
  /\ view' = [view EXCEPT ![c] = draft]
  /\ UNCHANGED <<up, tables, memory, bounds>>

\* A client writes what it likes over the text it loaded.
Edits(c) == {t \in [typed : 0 .. Limit, holds : SUBSET view[c].text.holds] :
               Length(t) <= Limit}
DraftLeaves == UNCHANGED <<up, input, appended, memory, bounds>>

\* Variant: the id of an earlier draft is given again.
PutFirstReused(c) ==
  /\ up /\ draft.id = 0 /\ view[c].revision = 0 /\ created < MaxDrafts
  /\ \E t \in Edits(c) :
       draft' = [id |-> created + 1, revision |-> 1, text |-> t]
  /\ view' = [view EXCEPT ![c] = draft']
  /\ UNCHANGED <<created, seg>> /\ DraftLeaves

PutFirst(c) ==
  /\ up /\ draft.id = 0 /\ view[c].revision = 0 /\ created < MaxDrafts
  /\ \E t \in Edits(c) :
       draft' = [id |-> created + 1, revision |-> 1, text |-> t]
  /\ created' = created + 1
  /\ view' = [view EXCEPT ![c] = draft']
  /\ UNCHANGED seg /\ DraftLeaves

PutDraft(c) ==
  /\ up /\ draft.id # 0 /\ draft.revision < MaxRevision
  /\ view[c].revision = draft.revision
  /\ InDraft(Active) = {}
  /\ \E t \in Edits(c) :
       draft' = [draft EXCEPT !.text = t, !.revision = @ + 1]
  /\ view' = [view EXCEPT ![c] = draft']
  /\ UNCHANGED <<created, seg>> /\ DraftLeaves

\* The segments go with the draft; their files are left to the deletion ledger.
DeleteDraft(c) ==
  /\ up /\ draft.id # 0 /\ view[c].revision = draft.revision
  /\ draft' = NoDraft
  /\ seg' = [s \in Segments |-> IF s \in InDraft(Retained)
                                THEN [NoRow EXCEPT !.status = "deleted"] ELSE seg[s]]
  /\ view' = [view EXCEPT ![c] = NoDraft]
  /\ UNCHANGED created /\ DraftLeaves

\* The draft becomes an input, and its segments go with it; the answer may
\* not reach the client.
Saves(c) ==
  /\ draft' = NoDraft
  /\ input' = [input EXCEPT ![draft.id] = {draft.text}]
  /\ seg' = [s \in Segments |-> IF s \in InDraft(Retained)
                                THEN [seg[s] EXCEPT !.draft = 0] ELSE seg[s]]
  /\ \E known \in {view[c], NoDraft} : view' = [view EXCEPT ![c] = known]
  /\ UNCHANGED <<up, created, appended, memory, bounds>>

\* Variants: unfinished segments are not looked at; the revision is not
\* compared.
SaveUnfinished(c) ==
  /\ up /\ draft.id # 0 /\ view[c].id = draft.id
  /\ view[c].revision = draft.revision
  /\ input[draft.id] = {} /\ Length(draft.text) > 0
  /\ Saves(c)
SaveUnchecked(c) ==
  /\ up /\ draft.id # 0 /\ view[c].id = draft.id
  /\ input[draft.id] = {} /\ Length(draft.text) > 0
  /\ InDraft(Retained \ {"succeeded"}) = {}
  /\ Saves(c)

SaveDraft(c) ==
  /\ up /\ draft.id # 0 /\ view[c].id = draft.id
  /\ view[c].revision = draft.revision
  /\ input[draft.id] = {} /\ Length(draft.text) > 0
  /\ InDraft(Retained \ {"succeeded"}) = {}
  /\ Saves(c)

\* The answer to a Save was lost: the same request finds its input.
SaveAgain(c) ==
  /\ up /\ view[c].id # 0 /\ input[view[c].id] # {}
  /\ view' = [view EXCEPT ![c] = NoDraft]
  /\ UNCHANGED <<up, tables, memory, bounds>>

----------------------------------------------------------------------------
(* Uploads, and what becomes of a segment.                                 *)

\* A task is scheduled unless one of the same segment is still alive.
Scheduled(s) == IF task[s] = "none" THEN [task EXCEPT ![s] = "start"] ELSE task

\* A recording is registered only in a draft without unresolved segments.
NewSegment(s, status, model) ==
  seg' = [seg EXCEPT ![s] = [status |-> status, model |-> model,
                             draft |-> draft.id, limited |-> FALSE]]

\* Variant: only running segments block, not those waiting to run.
UploadBesidePending(c, s) ==
  /\ up /\ seg[s].status = "none"
  /\ draft.id # 0 /\ view[c].revision = draft.revision
  /\ InDraft({"transcribing", "failed"}) = {}
  /\ NewSegment(s, "pending", "batch")
  /\ task' = Scheduled(s)
  /\ UNCHANGED <<up, draft, created, input, appended, view, attempt, probing, bounds>>

UploadVoiceSegment(c, s) ==
  /\ up /\ seg[s].status = "none"
  /\ draft.id # 0 /\ view[c].revision = draft.revision
  /\ InDraft(Active \cup {"failed"}) = {}
  /\ NewSegment(s, "pending", "batch")
  /\ task' = Scheduled(s)
  /\ UNCHANGED <<up, draft, created, input, appended, view, attempt, probing, bounds>>

\* The answer to an upload was lost: the same audio finds its segment, and
\* schedules it if it waits.
RepeatUpload(s) ==
  /\ up /\ seg[s].status = "pending"
  /\ task' = Scheduled(s)
  /\ UNCHANGED <<up, tables, view, attempt, probing, bounds>>

\* What the transcript of s makes of the draft and of its row.
Fits == Length(draft.text) < Limit
\* Variant: the revision of the draft stays as it was.
AppendQuietly(s) ==
  /\ draft' = [draft EXCEPT !.text.holds = @ \cup {s}]
  /\ appended' = [appended EXCEPT ![s] = @ + 1]
  /\ seg' = [seg EXCEPT ![s].status = "succeeded", ![s].limited = FALSE]

Append(s) ==
  /\ draft' = [draft EXCEPT !.revision = @ + 1, !.text.holds = @ \cup {s}]
  /\ appended' = [appended EXCEPT ![s] = @ + 1]
  /\ seg' = [seg EXCEPT ![s].status = "succeeded", ![s].limited = FALSE]
ToFailed(s) == [seg EXCEPT ![s].status = "failed", ![s].limited = FALSE]
OnlySeg == UNCHANGED <<draft, created, input, appended>>

\* A retry takes the transcript that is already there, or asks again.
RetryFailedSegment(s) ==
  /\ up /\ seg[s].status = "failed" /\ seg[s].draft # 0
  /\ retries < MaxRetries /\ retries' = retries + 1
  /\ IF seg[s].limited
     THEN Fits /\ Append(s) /\ UNCHANGED <<created, input, task>>
     ELSE /\ InDraft(Active) = {}
          /\ seg' = [seg EXCEPT ![s].status = "pending", ![s].model = "batch"]
          /\ task' = Scheduled(s)
          /\ OnlySeg
  /\ UNCHANGED <<up, view, attempt, probing, crashes, faults>>

DeleteFailedSegment(s) ==
  /\ up /\ seg[s].status = "failed" /\ seg[s].draft # 0
  /\ seg' = [seg EXCEPT ![s] = [NoRow EXCEPT !.status = "deleted"]]
  /\ OnlySeg /\ UNCHANGED <<up, view, memory, bounds>>

----------------------------------------------------------------------------
(* The background task of a segment.                                       *)

TaskMoves(s, from, to) == up /\ task[s] = from /\ task' = [task EXCEPT ![s] = to]
TaskLeaves == UNCHANGED <<up, view, attempt, probing, bounds>>

ClaimPendingSegment(s) ==
  /\ IF seg[s].status = "pending" /\ seg[s].model = "batch"
     THEN /\ TaskMoves(s, "start", "probe")
          /\ seg' = [seg EXCEPT ![s].status = "transcribing"]
     ELSE TaskMoves(s, "start", "none") /\ UNCHANGED seg
  /\ OnlySeg /\ TaskLeaves

\* The media is probed, then prepared; a segment that is no longer
\* transcribing ends the task.
SetMediaMetadata(s) ==
  /\ TaskMoves(s, "probe", IF \/ seg[s].status = "transcribing"
                              \/ seg[s].status = "failed" /\ seg[s].model = "streaming"
                           THEN "prepare" ELSE "none")
  /\ UNCHANGED tables /\ TaskLeaves

SetAsrInputKind(s) ==
  /\ TaskMoves(s, "prepare", IF seg[s].status = "transcribing" THEN "ask" ELSE "none")
  /\ UNCHANGED tables /\ TaskLeaves

CompleteTranscription(s) ==
  /\ TaskMoves(s, "ask", "none")
  /\ IF /\ seg[s].status = "transcribing" /\ seg[s].model = "batch"
        /\ seg[s].draft # 0
     THEN IF Fits THEN Append(s) /\ UNCHANGED <<created, input>>
          ELSE /\ seg' = [seg EXCEPT ![s].status = "failed", ![s].limited = TRUE]
               /\ OnlySeg
     ELSE UNCHANGED tables
  /\ TaskLeaves

\* mark_segment_failed, whatever the model.
MarkedFailed(s) == IF seg[s].status = "transcribing" THEN ToFailed(s) ELSE seg

\* The media or the provider refuses, or the admission does.
TaskFails(s) ==
  /\ \E from \in {"probe", "prepare", "ask"} : TaskMoves(s, from, "none")
  /\ seg' = MarkedFailed(s)
  /\ OnlySeg /\ TaskLeaves

\* The claim raises, or a failure that cannot be stored either.
TaskDies(s) ==
  /\ \E from \in {"start", "probe", "prepare", "ask"} : TaskMoves(s, from, "none")
  /\ faults < MaxFaults /\ faults' = faults + 1
  /\ UNCHANGED <<up, tables, view, attempt, probing, retries, crashes>>

----------------------------------------------------------------------------
(* The streaming attempt: a live connection, and the upload of the same    *)
(* recording beside it.                                                    *)

StreamLeaves == UNCHANGED <<up, view, task, bounds>>

OpenAttempt(c, s) ==
  /\ up /\ attempt.phase = "none" /\ seg[s].status = "none"
  /\ draft.id # 0 /\ view[c].id = draft.id /\ view[c].revision = draft.revision
  /\ InDraft(Active \cup {"failed", "transcribed"}) = {}
  /\ attempt' = [NoAttempt EXCEPT !.phase = "streaming", !.segment = s, !.id = draft.id,
                                  !.revision = draft.revision, !.active = TRUE]
  /\ UNCHANGED <<tables, probing>> /\ StreamLeaves

\* The user releases the button, and the provider ends the task after that.
StopRecording ==
  /\ attempt.phase = "streaming" /\ attempt.active /\ ~ attempt.stopped
  /\ attempt' = [attempt EXCEPT !.stopped = TRUE]
  /\ UNCHANGED <<tables, probing>> /\ StreamLeaves
ProviderFinishes ==
  /\ attempt.phase = "streaming" /\ attempt.stopped /\ ~ attempt.final
  /\ attempt' = [attempt EXCEPT !.final = TRUE]
  /\ UNCHANGED <<tables, probing>> /\ StreamLeaves

\* The upload of a streaming recording: it counts as being transcribed only
\* under an attempt that is active and stopped; one that the client gives up
\* (force_failed) ends the attempt's authority.  When the row is refused, that end
\* of the attempt is AttemptFails, which may happen at any time.
CreateStreamingSegment(c, s, forced) ==
  LET same == /\ attempt.phase = "streaming" /\ attempt.segment = s /\ attempt.active
              /\ attempt.id = view[c].id /\ attempt.revision = view[c].revision
      live == same /\ ~ forced /\ attempt.stopped
  IN
  /\ up /\ seg[s].status = "none"
  /\ draft.id # 0 /\ view[c].id = draft.id /\ view[c].revision = draft.revision
  /\ InDraft(Active \cup {"failed"}) = {}
  /\ NewSegment(s, IF live THEN "transcribing" ELSE "failed", "streaming")
  /\ attempt' = IF same THEN [attempt EXCEPT !.active = ~ forced,
                                             !.bound = live \/ forced]
                ELSE attempt
  /\ probing' = probing \cup {s}
  /\ OnlySeg /\ StreamLeaves

\* The probe of the upload ends; a bad recording fails the segment.
ProbeStreamingUpload(s, good) ==
  /\ up /\ s \in probing /\ probing' = probing \ {s}
  /\ seg' = IF ~ good /\ seg[s].model = "streaming"
               /\ seg[s].status \in {"transcribing", "failed"}
            THEN ToFailed(s) ELSE seg
  /\ attempt' = IF attempt.segment = s /\ attempt.bound
                THEN [attempt EXCEPT !.saved = TRUE] ELSE attempt
  /\ OnlySeg /\ StreamLeaves

\* Variant: the status of the segment is not looked at.
TranscribedAnyway ==
  LET s == attempt.segment IN
  /\ attempt.phase = "streaming" /\ attempt.final /\ attempt.saved /\ attempt.active
  /\ seg' = [seg EXCEPT ![s].status = "transcribed", ![s].limited = FALSE]
  /\ attempt' = [attempt EXCEPT !.phase = "accepting"]
  /\ UNCHANGED probing /\ OnlySeg /\ StreamLeaves

MarkSegmentTranscribed ==
  LET s == attempt.segment IN
  /\ attempt.phase = "streaming" /\ attempt.final /\ attempt.saved /\ attempt.active
  /\ seg[s].status = "transcribing" /\ seg[s].model = "streaming" /\ seg[s].draft # 0
  /\ seg' = [seg EXCEPT ![s].status = "transcribed", ![s].limited = FALSE]
  /\ attempt' = [attempt EXCEPT !.phase = "accepting"]
  /\ UNCHANGED probing /\ OnlySeg /\ StreamLeaves

\* Variant: the segment is left as it is.
AttemptFailsAlone ==
  /\ attempt.phase = "streaming"
  /\ attempt' = NoAttempt
  /\ UNCHANGED <<tables, probing>> /\ StreamLeaves

\* Cancelled, disconnected, timed out, refused, or its segment is lost to it:
\* a segment that is being transcribed fails with the attempt.
AttemptFails ==
  /\ attempt.phase = "streaming"
  /\ seg' = IF attempt.bound THEN MarkedFailed(attempt.segment) ELSE seg
  /\ attempt' = NoAttempt
  /\ UNCHANGED probing /\ OnlySeg /\ StreamLeaves

\* accept_transcribed_segment, idempotent.
Acceptable(s) == /\ seg[s].status = "transcribed" /\ seg[s].model = "streaming"
                 /\ seg[s].draft # 0 /\ Fits
AttemptAccepts ==
  LET s == attempt.segment IN
  /\ attempt.phase = "accepting" /\ attempt' = NoAttempt
  /\ IF Acceptable(s) THEN Append(s) /\ UNCHANGED <<created, input>>
     ELSE UNCHANGED tables
  /\ UNCHANGED probing /\ StreamLeaves

AcceptTranscribedSegment(s) ==
  /\ up /\ Acceptable(s) /\ Append(s)
  /\ UNCHANGED <<up, created, input, view, memory, bounds>>

----------------------------------------------------------------------------
(* Restarts.                                                               *)

Crash ==
  /\ up /\ up' = FALSE
  /\ crashes < MaxCrashes /\ crashes' = crashes + 1
  /\ task' = [s \in Segments |-> "none"]
  /\ attempt' = NoAttempt /\ probing' = {}
  /\ UNCHANGED <<tables, view, retries, faults>>

AcceptAtStartup(s) ==
  /\ ~ up /\ Acceptable(s) /\ Append(s)
  /\ UNCHANGED <<up, created, input, view, memory, bounds>>

\* What was being transcribed fails; what waits is scheduled.
Startup ==
  /\ ~ up /\ up' = TRUE
  /\ \A s \in Segments : ~ Acceptable(s)
  /\ seg' = [s \in Segments |-> IF seg[s].status = "transcribing"
                                THEN [seg[s] EXCEPT !.status = "failed", !.limited = FALSE]
                                ELSE seg[s]]
  /\ task' = [s \in Segments |-> IF seg[s].status = "pending" /\ seg[s].draft # 0
                                    /\ seg[s].model = "batch"
                                 THEN "start" ELSE "none"]
  /\ OnlySeg /\ UNCHANGED <<view, attempt, probing, bounds>>

----------------------------------------------------------------------------
Init ==
  /\ up = TRUE /\ draft = NoDraft /\ created = 0
  /\ input = [d \in DraftIds |-> {}]
  /\ seg = [s \in Segments |-> NoRow]
  /\ view = [c \in Clients |-> NoDraft]
  /\ task = [s \in Segments |-> "none"]
  /\ attempt = NoAttempt /\ probing = {}
  /\ appended = [s \in Segments |-> 0]
  /\ retries = 0 /\ crashes = 0 /\ faults = 0

UserRequest ==
  \/ \E c \in Clients :
       \/ Load(c) \/ PutFirst(c) \/ PutDraft(c) \/ DeleteDraft(c)
       \/ SaveDraft(c) \/ SaveAgain(c)
       \/ \E s \in Segments :
            \/ UploadVoiceSegment(c, s) \/ OpenAttempt(c, s)
            \/ \E forced \in BOOLEAN : CreateStreamingSegment(c, s, forced)
  \/ \E s \in Segments : \/ RepeatUpload(s) \/ RetryFailedSegment(s) 
                         \/ DeleteFailedSegment(s) \/ AcceptTranscribedSegment(s)
  \/ StopRecording

TaskStep(s) == \/ ClaimPendingSegment(s) \/ SetMediaMetadata(s) \/ SetAsrInputKind(s)
               \/ CompleteTranscription(s) \/ TaskFails(s)

StreamStep ==
  \/ ProviderFinishes \/ MarkSegmentTranscribed \/ AttemptFails \/ AttemptAccepts

ProbeStep(s) == \E good \in BOOLEAN : ProbeStreamingUpload(s, good)

Next == \/ UserRequest
        \/ \E s \in Segments : TaskStep(s) \/ TaskDies(s) \/ ProbeStep(s)
        \/ StreamStep
        \/ Crash \/ Startup
        \/ \E s \in Segments : AcceptAtStartup(s)

Spec == Init /\ [][Next]_vars

\* The event loop runs every task; provider calls and attempts time out.
Fairness == /\ \A s \in Segments : WF_vars(TaskStep(s)) /\ WF_vars(ProbeStep(s))
            /\ WF_vars(StreamStep) /\ WF_vars(Startup)
            /\ \A s \in Segments : WF_vars(AcceptAtStartup(s))
FairSpec == Spec /\ Fairness

----------------------------------------------------------------------------
(* Properties.                                                             *)

TypeOK ==
  /\ up \in BOOLEAN /\ draft \in Draft /\ created \in 0 .. MaxDrafts
  /\ draft.id \in 0 .. created
  /\ input \in [DraftIds -> SUBSET Text]
  /\ seg \in [Segments -> Segment]
  /\ view \in [Clients -> Draft] /\ \A c \in Clients : view[c].id \in 0 .. created
  /\ task \in [Segments -> Phases]
  /\ attempt \in Attempt
  /\ attempt.phase # "none" => attempt.segment \in Segments
  /\ probing \subseteq Segments
  /\ appended \in [Segments -> Nat]
  /\ retries \in Nat /\ crashes \in Nat /\ faults \in Nat

(* The revision of a draft names its text: a client that loaded this       *)
(* revision of this draft has seen all of it, so that comparing revisions  *)
(* is enough to refuse an edit made over an older text (put_draft,         *)
(* complete_transcription, accept_transcribed_segment).                    *)
RevisionNamesText ==
  \A c \in Clients : /\ view[c].id = draft.id
                     /\ view[c].revision = draft.revision
                     => view[c].text = draft.text

(* A transcript is appended to the draft exactly when its segment          *)
(* succeeds, once, whatever the order of retries, late answers, streaming  *)
(* attempts, explicit acceptance and restarts.                             *)
AppendedOnce ==
  \A s \in Segments :
     /\ appended[s] <= 1
     /\ seg[s].status = "succeeded" => appended[s] = 1
     /\ seg[s].status \in {"pending", "transcribing", "transcribed", "failed"}
        => appended[s] = 0

(* A draft never has two segments waiting for or in transcription, whoever *)
(* retries, uploads, accepts or restarts: the check that an upload and a   *)
(* retry make is enough, and the unique index on active segments of a     *)
(* draft (database.py:458) is never what refuses them.                     *)
OneActiveSegment == \A s, t \in InDraft(Active) : s = t

(* The segments of a saved input have all succeeded.                       *)
SavedSegmentsSucceeded ==
  \A s \in Segments : seg[s].status \in Retained /\ seg[s].draft = 0
                      => seg[s].status = "succeeded"

(* What is saved is what a client had in front of it, never a text that    *)
(* changed under the request.                                              *)
SavedAsSeen ==
  [][\A d \in DraftIds : input[d] = {} /\ input'[d] # {} =>
        \E c \in Clients : view[c].id = d /\ input'[d] = {view[c].text}]_vars

(* A segment does not stay in transcription: its task or its streaming     *)
(* attempt ends, and with it the claim on the draft.                       *)
TranscriptionEnds ==
  \A s \in Segments : seg[s].status = "transcribing" ~> seg[s].status # "transcribing"

(* tests/test_voice_draft_api.py:87 says that a revision conflict never    *)
(* lets an edit overwrite the text of the server: a transcript leaves the  *)
(* draft only by an edit of a client that has loaded it.                   *)
TranscriptsKept ==
  [][\A s \in draft.text.holds \ draft'.text.holds : draft'.id = draft.id =>
        \E c \in Clients : view[c].id = draft.id /\ s \in view[c].text.holds]_vars

(* README.md:163 says that failed recordings stay explicitly retryable:    *)
(* a retried segment is transcribed, or fails again, without a restart.    *)
RetryIsAttempted ==
  \A s \in Segments : seg[s].status = "pending" ~> seg[s].status # "pending"
=============================================================================
