# SelfEcho: a TLA+ development

This directory holds TLA+ modules that model the parts of SelfEcho (the Python
application under `src/app/`) in which concurrency, crashes and retries decide whether
the user's words and reminders arrive: **once, unaltered, and where the user wants
them**. TLC checks the modules on small instances; TLAPS proves the main safety
properties for every value of the constants. `PROJECT.json` maps every definition to
the lines it models and lists runs, mutants, hazards, findings and theorems.

    tlc -workers 2 -config capture_one.cfg MCCaptureProcessing     # one run
    tlapm CaptureProcessing_proofs.tla                             # one proof module

Contents: 1 the system · 2 modules and their correspondence to the code · 3 runs ·
4 fairness · 5 proofs · 6 findings · 7 abstractions · 8 what is not modelled · 9 plan.

---

## 1. The system

One process: a FastAPI event loop, a thread pool for blocking calls, one SQLite
database. Routes, background tasks and three workers share nothing but the database
(and, for voice, the files of the originals). Every repository method is one
`BEGIN IMMEDIATE` transaction, so transactions are serial; what interleaves is what
happens *between* them, above all across an `await` or a provider call.

| Component | State | Operations | Interacts with |
|---|---|---|---|
| **Captures and AI processing** (`services/processing.py`, `repository.py`) | `item_inputs` (`processing_status`, `item_id`); the background task's locals across `await extract` | create, add to Item, claim, `create_item_from_input`, `apply_ai_update`, fail, retry, delete, recover at startup, reprocess | makes and changes Items and Reminders; scheduled by routes, by the Save of a voice draft and at startup |
| **Item lifecycle** (`repository.py`) | `personal_items` (`status`, `completed_at`, `trashed_at`, `status_before_trash`) | update, bulk lifecycle, permanent deletion | cancels Reminders; cascades delete inputs, Reminders, deliveries, voice segments |
| **Trash retention worker** (`services/trash_retention.py`) | none of its own | `purge_expired_trash`, then a drain of the voice deletion ledger | races with restore and with AI answers |
| **Reminder lifecycle** (`reminder_repository.py`) | `reminders` | create (user, AI), reschedule, cancel, become due, surface, dismiss | the due transition records deliveries in the same transaction |
| **Push delivery** (`services/reminder_delivery.py`, `reminder_repository.py`, `services/web_push.py`) | `reminder_deliveries`; the worker's position in its sweep | reconcile stale rows, claim due Reminders, fail unusable rows, claim, send, finish | reads subscriptions and sessions; provider calls |
| **Push subscriptions and sessions** (`push_routes.py`, `auth_repository.py`) | `push_subscriptions`, `user_sessions` | sync, revoke, logout, invalidate, test notification | decide whom Push may contact |
| **Email delivery** (`services/email_reminders.py`, `email_repository.py`, `services/tencent_ses.py`) | `reminder_email_deliveries`; the sweep's held row | reconcile, reserve, claim, revalidate, send, finish, retry, later status checks | reads settings; pauses an address after some answers |
| **Email settings and verification** (`email_repository.py`, `email_routes.py`) | `email_reminder_settings`, challenges, test sends | set address, enable, verify, pause, test | decides whether a queued email may leave; every mail takes a lease of the email admission |
| **Voice drafts and segments** (`voice_repository.py`, `voice_routes.py`, `voice_runtime.py`, `services/voice_transcription.py`) | `capture_drafts` (text, revision), `voice_segments`; the runtime's task table; what each browser tab has loaded | edit, discard, Save, upload, retry, delete, transcribe, recover | Save creates an input; tabs, tasks and streams write one draft |
| **Voice streaming** (`voice_stream_routes.py`) | one in-memory attempt per user | open, stop, finish, upload the original, accept, fail | binds a segment that a file transcription could own too |
| **Voice originals and deletion ledger** (`services/voice_storage.py`, `services/voice_deletions.py`) | the final and the part file of each key; `voice_file_deletions`; the rows a drain has selected | record, write, register, condemn, drain, clean part files | every deletion of a segment; holds storage capacity while it writes |
| **Admission control** (`services/storage_admission.py`, `provider_admission.py`, `auth_admission.py`, `email_admission.py`) | in memory: voice slots and their leases, reserved bytes, parked leases; bounded tables of windows (logins, registrations, emails); permits | reserve, fork, hand over, release, expire, prune | guards uploads and texts, provider calls, logins, emails; empty after a restart |
| **Accounts and sessions** (`auth.py`, `auth_repository.py`) | `users`, `user_sessions`; what a request has read | register, log in, bootstrap, validate and touch, log out | every route |
| **Temporal parser** (`services/temporal_parser.py`, `time_utils.py`) | none (pure) | resolve an expression to a moment | the AI's Reminders |
| **Schema and migrations** (`database.py`, `migrations/`) | tables, unique indexes, cascades | create, migrate | all |
| **Provider clients, routes, web app** | none of interest here | translate | all |

**What is hard here.** (a) A provider call sits between two transactions: a crash or a
slow answer leaves a row whose fate nobody knows; (b) the user changes settings,
subscriptions, Items and drafts while a worker or a task holds what it read before;
(c) two tasks, two tabs or two transcription paths meet on one row; (d) rows must leave
their waiting states whatever is answered; (e) a restart must redo what was cut off and
nothing else; (f) long sequences of legal lifecycle operations must keep dates, origins
and Reminders consistent. `PROJECT.json` lists the hazards line by line.

**What makes each part correct.** Deliveries: at most one copy leaves, the ledger never
claims more or less than happened, outcomes are final, at most one call is late after
the user withdrew, and every row settles. Captures: one capture makes at most one Item,
an Item keeps its original, work is held by exactly one task and settles, the user's
decisions stand. Items: dates and remembered status fit the place in the life cycle, open
Reminders belong to active Items. Voice: each transcript enters the draft exactly once,
nothing is saved unseen or unfinished, nothing blocks the draft for ever; a recording keeps its
file as long as a segment plays it and no longer, and the disk keeps its reserve. Identity: an
address is proven by a code that was mailed to it, guesses and sends stay within their limits,
and a logout holds against requests that have already read the session.

---

## 2. Modules

    OneShotDelivery      what a delivery ledger promises (abstract, no code of its own)
      ^ implemented by
    EmailDelivery        the Email channel             PushDelivery   the Push channel
    CaptureProcessing    captures, Items, Reminders, trash retention
    VoiceCapture         the voice draft, its segments, tasks and streaming attempt
    StorageAdmission     capacity of the disk: slots, leases, handoffs, write window
      ^ extended by
    VoiceFiles           the files of the originals, the deletion ledger and its drain
    AuthAdmission        attempts per source, account and in all
      ^ extended by
    Accounts             registration, login, bootstrap, sessions
    EmailAdmission       sends per recipient and in all
      ^ extended by
    EmailVerification    the address, its codes, test mails

    MCIdentity           Accounts and EmailVerification side by side

    MC<module>           constants for TLC            <module>_proofs  theorems (TLAPS)

Every action is one transaction or one provider call, with the code that runs without an
`await` around it. Operators named `...Raw`, `...Trusting`, `...Anyway` and the like are
*variants*: the same definition with a plausible bug, used to confirm that each property
can fail (the mutants of `PROJECT.json`).

### OneShotDelivery
A key (a Reminder for Email, a Reminder and an endpoint for Push) goes `none -> open ->
trying -> closed`; `gone` when its rows are deleted. The provider takes it at most once; a
try that certainly did not reach the provider may reopen the entry, one that may have
reached it never does. Both channels are refinements (`KeepsPromise`), by
`phase <- row.status` and `handed <- copies`.

### EmailDelivery
*State.* `row` is the ledger, one row per Reminder; `settings` the destination, its
verification and its switches; `pc, sweepTime, attemptTime, budget, target, sentTo,
checkNo, answer` the local variables of `run_sweep_once`; `copies` and `lateCalls` are history.
*Actions.* The sweep in the order of the code: `StartSweep`, `SweepClaimDue` (the due
transition and the email intent), `ReconcileStaleSending`, then per iteration `ReserveSend`,
`ClaimNextDelivery` (with the rows that settle before sending), `RevalidatePasses/Fails`,
`SendReminder`, `FinishDeliveryAttempt` or `FinishFails`; then `ClaimNextStatusCheck` and
`FinishStatusCheck`. Against it: `SetCandidateAddress`, `SetEnabled`, `ConfirmVerification`,
`PauseMatchingAddress`, `Cancel`, `MoveItem`, `PermanentlyDelete`, `SetUserStatus`, `Tick`, and
`SweepDies` (exception, crash or restart: the worker forgets what it held, the rows stay).

### PushDelivery
*State.* `reminder_deliveries` keyed by Reminder and endpoint, `push_subscriptions` bound to
a session, `user_sessions`, the sweep's position. *Actions.* `SyncPushSubscription` (insert,
rebind, take over an endpoint, retire the session's other endpoints), the two ways of
revoking, `Login`, `Logout`, `TestNotificationGone`; the Push phase of the sweep
(`SweepClaimDue` with its fan-out, `ReconcileStaleSending`, `FailUnusableQueued`,
`ClaimNextQueued`, `SendPush`, `FinishDelivery` with `GoneTarget`), `FinishFails`, `SweepDies`.

### CaptureProcessing
*State.* `input`, `item`, `reminder` are the tables; `queue[i]` counts the scheduled,
not yet started background tasks of input `i`; `job[t]` is a running `process_input`: its
phase (`asking` the AI, `failing` on the way to `mark_input_failed`), the input, the Item
and the status the AI was shown; `origin` is history. An Item row has its status,
`completed_at`, `trashed_at` and `status_before_trash`, and `Fits` is what these must agree on.
*Actions.* `CreateInput`, `RepeatSave` (a repeated Save schedules a second task), `RetryInput`,
`DeleteFailedUnlinkedInput`; `ClaimInput`, `CreateItemFromInput`, `ApplyAiUpdate`, `Fails`,
`MarkInputFailed`; `UpdateItem` and `BulkLifecycle` (through `After`, the transition table of
`_lifecycle_transition_values`, and `Result`, that of `_status_transition_values`),
`PermanentlyDelete`, `PurgeExpiredTrash`, the Reminder operations, `Restart` (crash or stop,
then the recovery of `main.py`), `Tick`. Unexpected exceptions are explicit: `ClaimRaises`,
`MarkFailedRaises`, and `Ends`, which lets a task that has committed fall into the failure path.
The history variable `lost` holds the inputs that the first two have left without a task; a claim
takes an input out of it, and a restart empties it. It is the only excuse that `WorkIsHeld` and
`EveryCaptureSettles` know, input by input: an exception of one task excuses no other input, and
none after the restart.

### VoiceCapture
*State.* `draft` (id, revision, text), `seg` (status, model, revision, retries, ...), `task`
(the runtime's table), the streaming attempt, `view` (what each client has loaded), and how
often each transcript was appended. *Actions.* `Load`, `PutDraft`, `DeleteDraft`, `SaveDraft`,
`SaveAgain`; `UploadVoiceSegment`, `RepeatUpload`, `RetryFailedSegment`, `DeleteFailedSegment`;
the task step by step (`ClaimPendingSegment`, `SetMediaMetadata`, `SetAsrInputKind`,
`CompleteTranscription`, `TaskFails`, `TaskDies`); the attempt (`OpenAttempt`, `StopRecording`,
`ProviderFinishes`, `CreateStreamingSegment`, `ProbeStreamingUpload`,
`MarkSegmentTranscribed`, `AttemptAccepts`, `AttemptFails`); `AcceptTranscribedSegment`;
`Crash`, `Startup`, `AcceptAtStartup`.

### StorageAdmission and VoiceFiles
StorageAdmission is the object of `storage_admission.py` as a value (`guard`): which slot each
lease object refers to, the references of a slot, the active slots, the reserved bytes of each
device, the window of admitted writes, and how long a parked lease has left. Its operations are
functions of that value, because the code runs each under one lock (`VoiceReserved`, `Forked`,
`Released`, `Handed`, `TakenOver`, `Expired`, `GrowthReserved`, ...).
*State of VoiceFiles.* Per storage key: the final file (`absent`, `reserved` by the empty file,
`complete`), the part file with the age of its last write, the ledger row, the segment, and the
upload request that made the key; the streaming attempt of each recording; the rows a drain has
selected; what texts have added to the database.
*Actions.* An upload in its steps: capacity (`StartUpload`, `StartSharedUpload` under a live
attempt, `StartLateUpload` with what the attempt parked), `RecordOrphan`, `BeginWrite`,
`WriteChunk`, `FinishWrite` or `FailWrite`, `CreateSegment` or `RefuseSegment`, with `GiveUp` in
between. `OpenAttempt`, `EndAttempt` (parks the lease when the provider failed before the upload
began), `CloseAttempt`. The deletions: one failed segment, a discarded draft, saved segments with
their Item. The drain: `DrainSelect`, then `DrainOne` or `DrainSkips` per row, then `DrainEnds`,
which cleans old part files. `ReserveText`, `WriteText`; `Tick`, `Restart`.
`CapacityBalances` has two halves. `Balanced`: the counters agree with the lease objects, so a
slot is neither counted twice nor given back twice. `Quiet`: a lease object of a request that has
been answered, has failed or was given up refers to no slot, nor does that of a closed attempt or
of a writer that does not write. The first alone would accept a path that forgets its release.

### AuthAdmission and Accounts
AuthAdmission is the limiter as a value: five bounded tables of windows, with `Cleaned`, `Checked`
(what a check prunes on the way), `Denies`, `Taken`. Accounts keeps `users` by address,
`user_sessions`, the limiter and what each request is at.
*Actions.* Registration as admission, lookup, insert and session (`AdmitRegistration`,
`LooksUpNew`, `CreateUser`, `CreateSession`), login as admission, one read and session
(`AdmitLogin`, `CheckCredentials`), the command (`Bootstrap`, `CreateFirstUser`), and a request
with a session as its three transactions: `Present` (reads the session), `ReadsUser`,
`TouchSession`, then `Serve`, or `RevokeSession` for a logout. `OperatorSuspends`, `ClockTicks`,
`ServerRestarts`.

### EmailAdmission and EmailVerification
EmailAdmission is the admission as a value: one window for all mail, a bounded table of windows
per recipient, and leases that know the windows they came from.
*State of EmailVerification.* The setting of each user, the challenges in the order of their ids,
the admission, what each request holds (lease, address, code), and three history variables: the
newest challenge at the last change of address (`older`), the wrong guesses of each code
(`guesses`), the provider calls of each window (`used`). *Actions.* `SetCandidate`,
`DeliveryPauses`; the verification mail (`ReserveVerification`, `CreateChallenge` or
`RefuseChallenge`, `FinishVerificationSend`, `PauseDestination`); `ReadsToConfirm`, `ConfirmVerification`;
the test mail (`ReserveForTest`, `ReserveTestSend` or `RefuseTest`, `FinishTest`); the worker's
use of the same admission (`SweepReserves`, `SweepSends`, `SweepReleases`); `MailTick`, `MailRestart`.

---

## 3. Runs

| Run | Instance | Shows |
|---|---|---|
| `email_one` | 1 Reminder, 2 addresses, 2 attempts, 1 fault, clock 0..3, 2 status checks, fairness | truthful ledger, one late call, `KeepsPromise`, every delivery settles |
| `email_two` | 2 Reminders of one user on one address, operator may disable | queued rows are eligible, only due Reminders deliver |
| `push_one` | 2 sessions of one user share an endpoint, sessions expire, 1 fault, fairness | truthful ledger, `KeepsPromise`, every delivery settles |
| `push_two` | 2 users, 2 endpoints, 2 Reminders | bindings, one subscription per session, deliveries stay with their user, one late call |
| `capture_one` | 2 inputs, 2 Items, 2 Reminders, 2 tasks, retention 1 with batch 1, 1 restart, 1 exception, fairness | one Item per capture, originals, work held and settled, Reminders fit, the trash forgets nothing |
| `capture_trash` | the same without exceptions | **violation**: an AI answer takes an Item out of the trash (finding 3) |
| `voice_one` | 1 client, 2 segments of which 1 fits the text limit, 2 retries, 1 restart, fairness | one append per transcript, one active segment, only finished ones saved, transcription ends |
| `voice_tabs` | 2 clients, 2 drafts in turn, 1 segment, 1 failure that cannot be stored | a revision names a text, what is saved was seen |
| `voice_lost` | 2 clients, 2 drafts | **violation**: a transcript overwritten (finding 1) |
| `voice_stuck` | 1 client, 2 retries, fairness | **violation**: a retry that is never attempted (finding 2) |
| `files_one` | 2 uploads of 1 recording, 1 attempt, 1 text, one device for both, 2 slots, 1 write per window, grace, handoff and drain limit 1, restarts at any point, fairness | a segment has its file, no file is forgotten, unused files go, capacity balances, the disk keeps its reserve |
| `identity` | Three parts. *accounts*: 1 address, 2 passwords, 2 requests, 2 sources, limits of 1 (2 logins in all). *founders*: the same with 2 addresses and the bootstrap command, up to the first session. *verification*: 1 user, 2 addresses, 2 requests, 3 challenges (2 per account and per address), 1 guess. One clock tick ends every window; restarts | sessions are earned and one account is the first, a logout holds, an address is proven, sends are counted, the limits hold that can bind here (below) |

**Why the bounds suffice.** Rows of different users or Reminders meet only where an operation
reads or writes several of them; these meetings have an instance: two rows of one destination
(pause), two rows of one batch, two sessions of one endpoint, two users of one endpoint, two
tabs of one draft, two segments of one draft, two tasks of one input, two inputs of one Item (or
one each), two Reminders of one Item, two expired Items of a batch of one, two uploads of one
recording (the second of which also meets the attempt's lease), two requests of one session, of
one address and of one code, two accounts and the bootstrap command. One crash already reaches
every "cut off between two steps" state; a second crash starts from a state that the first
restart reached. Clocks run far enough for a delivery to be sent, become stale, be retried and
expire. `MaxQueue`, `MaxTime`, `MaxRestarts`, `MaxFaults`, `MaxDrafts`, `MaxRevision`,
`MaxRetries`, `MaxCrashes`, `MaxSessions`, `MaxChallenges`, `AuthTime`, `MailTime` are the only
bounds that are not in the code (VoiceFiles needs none: its clocks are ages that stop at the
limit they are compared with); the theorems hold for all of their values. Symmetry is used only
in runs without liveness, for sets that no definition orders.

**What the bounds leave to the theorems.** In `push_two` no session expires and no user is
disabled, so of the withdrawals behind `AtMostOneLateCall` it runs revocation, rebinding and
logout; the other two are covered by the theorem `OneLateCall` alone. In `identity` three challenges
reach the cooldown of an address and the hourly quota of an account; the quota of an address,
which here is as large as the account's, never refuses first, so only the theorem
`VerificationTyped` speaks of it. Two accounts beside each other's sessions are not explored: a
session belongs to one account and no operation reads another's.

`email_two` and `capture_one` abandon no behaviour to save states except what section 7 names.
All runs check deadlock unless their configuration switches it off: there the clock and the bounded
operations may be used up with nothing left to do.

---

## 4. Fairness

- *Email and Push.* `WF(SweepStep)`: the worker is a loop in a task that catches every
  exception and sleeps a finite time; provider calls have timeouts. `WF(Tick)`: time passes.
  `SF(ReserveSend)`: the sliding windows of the email admission roll over, so a lease is not
  denied for ever. Requests, faults and operators are never fair.
- *Captures.* `WF` of starting a task for each input that has one scheduled (the event
  loop runs background tasks), and of each task's steps (the AI call has a timeout). The
  restart and the user are not fair: an input whose processing met an exception that nobody
  handles waits for a restart, so `EveryCaptureSettles` promises that input nothing until
  then, and everything from then on.
- *Files.* `WF(Tick)`; `WF` of the end of an upload: its body ends or its connection breaks, and
  what follows does not wait for anybody; `WF(DrainStep)`: the retention worker and requests keep
  draining; `SF(DrainEnds)` and, per file, `SF(DrainOne)`: a file can be unlinked at some try. Users,
  attempts and restarts are not fair.
- *Voice.* `WF` of each segment's task and of the probe, of the attempt (its own time
  limits end it), and of startup. A client need not do anything.

---

## 5. Proofs

Eight modules, checked leaf by leaf; each theorem holds for every number of users, Reminders,
addresses, tasks, clients, faults and restarts, under the assumptions named in the modules
(positive batch sizes, names that are not members of the sets they stand beside, and, where
something is counted, finite sets of uploads, texts and requests). Every safety property of a
passing run is the conclusion of one of them.

**EmailDelivery_proofs.** `TypeCorrect`. `LedgerInv` strengthens `AtMostOneCopy` and
`LedgerIsTruthful` with `Held`: what the worker holds at each point of the sweep (a row it is
about to send is `sending`, of the attempt it claimed, and no message of it has left). Without
`Held` the step that hands a message over could not be shown to be the first. From it follow
`OneCopy`, `TruthfulLedger`, `FinalOutcome` and the refinement `ImplementsPromise` (initial
states map to initial states; each step moves every key by one `KeyStep`). `QueueInv` adds the
clock (`ClockInv`: nothing lies in the future) and yields `QueuedEligible`, `DueOnly`,
`RetriesAlwaysFit`. `LateInv` ties `lateCalls` to what the worker still holds: `OneLateCall`.

**PushDelivery_proofs.** The same shape (`LedgerInv`, refinement), and `BindingInv` (active
subscriptions have live sessions, one each), `OwnerInv` (a row's endpoint belongs to the
Reminder's user as long as it is queued), `LateInv`.

**CaptureProcessing_proofs.** Three inductive invariants.
`FilingInv == TypeOK /\ Linked /\ Origins /\ Jobs`: an input that names an Item names one that
exists, the input an Item was made from is `succeeded` and names it, or both are deleted. This
is why `ItemHasOriginal` is not inductive alone: a purge deletes the inputs *by their link*, so
the link must be known to point back. `OriginIsSettled` (the origin of an Item is never in work
again) then gives `OneItem`, and `After`'s lemmas give `HistoryKept`. `RemindersInv` states
`OpenRemindersFit` of any pair of tables (`FitFor`), so that cancelling, adding and both in one
step compose. `WorkInv` adds that a task's input is `processing`, `succeeded` or `deleted`, never
`pending` or `failed`: so a retry or a claim cannot meet a task that still holds it; from it
`WorkHeld`, whose only exception are the inputs in `lost`.

**VoiceCapture_proofs.** `RowsInv` (which draft a segment is in, when it has been appended)
gives `EveryTranscriptOnce`, `OneActive`, `SavedAreFinished`; `ViewInv` (no client is ahead of
the draft) gives `RevisionIsEnough` and `SavedTextWasSeen`.

**VoiceFiles_proofs.** `FileInv` says what an upload has made by each point of its run (no file
before the writer, no segment before the end) and that its ledger row is as old as the upload
itself until both reach the grace period. The age is the part that matters: the drain takes an
orphan row only after the grace, so a row it takes belongs to an upload that has outlived the
grace or is over. It gives `SegmentKeepsFile` (registration fails when the file is gone) and
`NothingForgotten`.

`StorageInv` is about capacity, and none of its parts is inductive without the others.
`GuardOK`: the counters of the admission agree with the slots that its leases refer to, which is
half of `CapacityBalances`. The other half is `Quiet`: a lease of somebody who has not begun, is
over, or does not write refers to no slot. With `Holders` (whoever is under way has one) a fork
always finds a slot to share and a new lease an unused one. `Sharing`: an upload under an
attempt's lease has the slot of that attempt, which is live and has started it. `OneClaim`: the
leases that entitle to write one file (a request's, a parked one, that of an attempt whose
upload has not begun) never share a slot. This is what makes a handoff safe: a slot passes from
the attempt to the parked lease to the late upload, and at no time do two of them hold it.
`Parts` says when there is a part file. `Room` gives each claim that still waits, and each file
that is there or being written, its place on the disk beside the reserve; a write moves a claim
from the one kind to the other. From it follows `DiskIsKept`. Admission compares with the free
space at that moment, in which bytes of another upload already count although they are still
reserved: the comparison errs to the safe side, and `Room` is how far.

**Accounts_proofs.** `SessionInv`: a request that is about to open a session has shown the
password of the account, every session was opened by such a request, a session that a request
presented had not expired, and nobody is the first account beside another. `EverySessionEarned`
follows, and, step by step, `LogoutHolds`: the touch that admits looks at the row again.
`LimiterInv` says of every table that it has at most as many keys as it may, and of every key that
its window began in the past and counts at most the limit. The lemmas follow the limiter through its own
operations (the cleanup, a check that prunes, a full table that admits no new key, a taken attempt),
so that the actions of Accounts need only say which operations they make: `AttemptsAreLimited`.

**EmailVerification_proofs.** `RequestsInv` says what a request carries. `CodesInv`: an open code
is younger than the last change of its user's address, no two open codes share user and address,
a consumed code had been mailed, and every wrong guess was counted. That open codes are unique
is also why the "latest" confirmable code needs no induction: there is only one. It gives
`AddressIsProven` and `GuessesAreLimited`.

`SendsInv` is the balance behind the limit of sends. `SendsAreCounted` is not inductive: a lease
that is released gives its place back to the window it came from, so it must be known that this
window still counts the lease and nothing else took its place. For each window that is not over,
in all and per recipient, `AllBalanced` says that the calls made in it plus the leases held from
it are exactly what it counts; and the window that stands covers the leases that were taken from
it, even when it is over. A lease that outlives its window therefore takes nothing from the next
one. A restart forgets leases, windows and counts at once: the limits are those of one process,
as in the code, and so is the history that they are compared with. The lemmas treat one counter
(a new window, one more lease, a lease that becomes a call, a release, a tick), then the
admission, then the state. `LimitsInv` adds the test mails and that no code is both consumed and
invalid. `QuotasInv` is about the challenges, in the order of their ids: what the transaction
counts when it inserts one is all that the last hour can hold, because no earlier challenge is
ever sent anew. They give `CallsAreCounted` and `VerificationTyped`.

**Identity_proofs.** A step of MCIdentity is a step of one module and a stutter of the other. So
every theorem of each holds of both side by side (`AccountsAreKept`, `VerificationIsKept`), and with
the two type theorems `IdentityTyped`.

Some proved properties are not checked by a run of their own: `AtMostOneCopy`, `AtMostOnePush`,
`OutcomeIsFinal` (which the checked refinement `KeepsPromise` implies) and `RetriesFit` (without
which `EveryDeliverySettles` would fail).

**Only model-checked:** the liveness properties (`EveryDeliverySettles` twice,
`EveryCaptureSettles`, `TranscriptionEnds`, `UnusedFilesGo`), since liveness under fairness is
beyond the prover used; and the violations, which are traces.

---

## 6. Findings

Each is a trace that TLC prints for the run, with the sentence it contradicts in
`PROJECT.json`.

1. `voice_lost`: `put_draft` compares the revision but not the draft, and every draft counts
   from 1: an edit over an earlier draft can overwrite a transcript of the next one.
2. `voice_stuck`: `VoiceRuntime.schedule` drops a request while an earlier task of the segment
   lives; a retried recording can stay `pending` until the next restart.
3. `capture_trash`: an AI answer is applied to the Item as it is *after* the call; a status
   `active` that was no change when the AI saw the Item restores it from the trash when the
   user has put it there meanwhile.

Observed while modelling, without a run of its own: `docs/ARCHITECTURE.md:204` says that a sweep
reconciles the stale rows of both channels before it claims due Reminders; Email reconciles
after the claim and the Push phase (`services/email_reminders.py:259`). The order is harmless to
the ledger, as the runs show. And `VoiceFiles!NoFileForgotten` has one exception: an upload
that takes as long as the orphan grace (an hour) may lose its ledger row while it writes, and if
the process then dies before the segment is registered, nothing leads back to the file.

---

## 7. Abstractions

*All modules.* Texts, titles, wording and HTTP are left out; transactions are serial.

*Deliveries.* Reading `attempt_time` and claiming a Push row is one step. Rows are taken in
any order where the code orders by id. The test notification is one step that may invalidate
an active subscription. Push and email are configured. Login is one step. `MoveItem` takes an
Item from the trash to active or completed without looking at the status before (that is in
CaptureProcessing). All Reminders exist and are scheduled at first. A denied email lease is
nondeterministic. Disabling a user is external: the code reads the status and never writes it.
`create_delivery`, `cleanup_expired_sessions` and `revoke_all_user_sessions` have no caller in
the application and are left out.

*CaptureProcessing.* One user, since no operation touches two. Content fields, pin and deadline are left out.
A scheduled Reminder of an active Item may become due at any time, one per step. Claim and
the reads after it are one step: between them nothing awaits. Response and background task
are the count `queue`; that a scheduled task starts is assumed of the web framework. A crash
and the recovery at the next start are one step: between them no other code runs. Files and
segments of deleted inputs belong to VoiceFiles. Faults are exceptions that no code path
expects: the claim raises, the failure cannot be stored, the row read back after a commit
cannot be parsed. A sweep that finds nothing is a stuttering step. With as many tasks as inputs the number of tasks restricts
nothing.

*VoiceFiles.* Every file has the maximal size, and rows of the voice tables take no space beyond
the allowance of their slot. One drain at a time (the code drains from the worker and from
requests, row by row, each in one transaction). Ages stop at the limit they are compared with. A
recording's attempt is not opened again while the previous one is closing. The drain that a
failing request makes is one of the drains. Unlink failures are transient: if as many files as
the limit of a drain could never be unlinked, later rows would wait for ever. The temporary files of
the media tools and the transcription permits are left out.

*Accounts and EmailVerification.* A window is named by the moment it started. Reading the
settings and reserving the lease is one step: the transaction that follows compares both again.
Two different random codes are never equal. The hourly limit of test mails is a fixed window, as
in the code. The storage lease of a registration and the answers of an unconfigured provider are
left out. The two modules share no variable, so the run `identity` explores them side by side
instead of in every combination of their states.

*VoiceCapture.* One user; a segment stands for its row and its client id; a transcript adds one
unit of length; files and ledger are left out; saved segments are terminal; `Crash` also stands
for a graceful stop; voice stays enabled across restarts; admission by database growth is
ignored; the acceptance after `mark_transcribed` may interleave with any step. A forced upload
ends the attempt even when its row is refused (`voice_routes.py:345`): that end is
`AttemptFails`, which may happen at any time. In `voice_one` no fault occurs, because a failure
that cannot be stored leaves the segment in transcription until the restart.

---

## 8. Not modelled

Surfacing and dismissal of Reminders, the permits of `provider_admission.py`,
`reprocess_item`: planned, below. Operations without a caller (`update_password`,
`revoke_all_user_sessions`, `cleanup_expired_sessions`) and profile fields. Serving audio. The temporal parser is a pure
function over calendar text. Migrations run once, under an exclusive transaction. Provider
clients, routes and the web app translate; their results reach the models as nondeterministic
choices.

---

## 9. Plan

Done in order of importance: deliveries (a duplicate or a lost reminder is the worst
failure), voice drafts (lost words), captures and Items, the files of recordings with the storage
they need, verification, accounts and their admission; each with its safety properties proved. Next:

1. **An abstract admission** — the three limiters as one promise (what is counted is what is
   held or used), with StorageAdmission and EmailAdmission shown to keep it.
2. **ReminderLifecycle** — surfacing, dismissal, the current and the relevant Reminder of an
   Item; composition of Email and Push under one sweep.
3. **Provider permits** — `provider_admission.py`, with the permit held across a retry.
4. **An abstract capture** — captured, organised or failed, removed; CaptureProcessing shown
   to implement it; `reprocess_item`.
5. **TemporalParser** — resolution rules against a reference definition over bounded
   calendars, daylight-saving gaps included.
