----------------------------- MODULE VoiceFiles -----------------------------
(***************************************************************************)
(* The files of Original Audio and the ledger of their deletion: an upload *)
(* in its steps (app/voice_routes.py, app/services/voice_storage.py), the  *)
(* registration and the deletions of segments (app/voice_repository.py,    *)
(* app/repository.py), the drain of the ledger                             *)
(* (app/services/voice_deletions.py), and the storage capacity that        *)
(* uploads, streaming attempts and texts hold meanwhile                    *)
(* (StorageAdmission).                                                     *)
(*                                                                         *)
(* An upload request allocates a fresh storage key and stands for it.  A   *)
(* recording stands for its client_segment_id and for its audio.           *)
(***************************************************************************)
EXTENDS StorageAdmission

CONSTANTS Owner,         \* the user of each recording
          MaxStreams,    \* MAX_ACTIVE_VOICE_STREAMS
          Grace,         \* ORPHAN_CLEANUP_GRACE_SECONDS
          Limit,         \* the limit of one drain
          Disk,          \* bytes of each device that are free of other data
          NoRecording

ASSUME GraceAssumption == Grace \in Positive /\ Limit \in Positive /\ MaxStreams \in Positive
ASSUME DiskAssumption == \A d \in Devices : Disk[d] \in Nat /\ Disk[d] >= MinFree
ASSUME NoRecordingAssumption == NoRecording \notin Recordings

VARIABLES file,          \* the final path of each key
          part,          \* the part file of each key: its age, or NoPart
          ledger,        \* voice_file_deletions
          segment,       \* voice_segments, by storage key
          upload,        \* the upload requests
          attempt,       \* the streaming attempt of each recording
          drain,         \* a drain under way: the rows it selected
          dbBytes        \* what texts have added to the database

vars == <<guard, file, part, ledger, segment, upload, attempt, drain, dbBytes>>

NoPart == Grace + 1
Upload == [pc : {"idle", "admitted", "recorded", "writing", "stored", "done"},
           rec : Recordings \cup {NoRecording},
           shared : BOOLEAN,        \* it writes under the lease of a live attempt
           age : 0..Grace]          \* since its row in the ledger
Attempt == [state : {"none", "open", "closing"}, started : BOOLEAN, completed : BOOLEAN]
Row == [reason : {"none", "orphan_cleanup", "deleted"}, age : 0..Grace]

NoRow == [reason |-> "none", age |-> 0]
NoAttempt == [state |-> "none", started |-> FALSE, completed |-> FALSE]
NoDrain == [on |-> FALSE, rows |-> {}]

TypeOK ==
  /\ guard \in Guard
  /\ file \in [Uploads -> {"absent", "reserved", "complete"}]
  /\ part \in [Uploads -> 0..NoPart]
  /\ ledger \in [Uploads -> Row]
  /\ segment \in [Uploads -> {"none", "draft", "saved"}]
  /\ upload \in [Uploads -> Upload]
  /\ attempt \in [Recordings -> Attempt]
  /\ drain \in [on : BOOLEAN, rows : SUBSET Uploads]
  /\ dbBytes \in Nat

Init ==
  /\ guard = NewGuard
  /\ file = [u \in Uploads |-> "absent"] /\ part = [u \in Uploads |-> NoPart]
  /\ ledger = [u \in Uploads |-> NoRow] /\ segment = [u \in Uploads |-> "none"]
  /\ upload = [u \in Uploads |-> [pc |-> "idle", rec |-> NoRecording,
                                  shared |-> FALSE, age |-> 0]]
  /\ attempt = [r \in Recordings |-> NoAttempt]
  /\ drain = NoDrain /\ dbBytes = 0

\* An open file takes its space although the cleanup has unlinked it.
OnDisk == {u \in Uploads : file[u] = "complete" \/ part[u] # NoPart \/ upload[u].pc = "writing"}
Free == [d \in Devices |-> Disk[d] - (IF d = VoiceDevice THEN Cardinality(OnDisk) * VoiceBytes ELSE 0)
                                   - (IF d = DbDevice THEN dbBytes ELSE 0)]

files == <<file, part>>
rows == <<ledger, segment, drain, dbBytes>>

-----------------------------------------------------------------------------
(* Streaming attempts: their capacity from the handshake to the cleanup.   *)

OpenAttempts == {r \in Recordings : attempt[r].state = "open"}

OpenAttempt(r) ==
  /\ attempt[r].state = "none"
  /\ \A q \in OpenAttempts : Owner[q] # Owner[r]
  /\ Cardinality(OpenAttempts) < MaxStreams
  /\ MayReserveVoice(Expired(guard), Free)
  /\ guard' = VoiceReserved(Expired(guard), Stream(r))
  /\ attempt' = [attempt EXCEPT ![r].state = "open"]
  /\ UNCHANGED <<files, rows, upload>>

\* The attempt is over: it is no longer found, and when its Provider failed or was
\* too slow its capacity waits for the upload that the browser will make.
EndAttempt(r, providerFailed) ==
  /\ attempt[r].state = "open"
  /\ guard' = IF providerFailed /\ ~attempt[r].started
              THEN Handed(guard, r, Stream(r)) ELSE guard
  /\ attempt' = [attempt EXCEPT ![r].state = "closing"]
  /\ upload' = [u \in Uploads |-> IF upload[u].rec = r THEN [upload[u] EXCEPT !.shared = FALSE]
                                                       ELSE upload[u]]
  /\ UNCHANGED <<files, rows>>

CloseAttempt(r) ==
  /\ attempt[r].state = "closing"
  /\ guard' = Released(guard, {Stream(r)})
  /\ attempt' = [attempt EXCEPT ![r] = NoAttempt]
  /\ UNCHANGED <<files, rows, upload>>

-----------------------------------------------------------------------------
(* Uploads.  Capacity first, then the row that condemns the file, then the *)
(* file, then the segment, whose registration takes the row away.          *)

Admitted(u, r, shared) ==
  upload' = [upload EXCEPT ![u].pc = "admitted", ![u].rec = r, ![u].shared = shared]

\* A recorded file: the request reserves capacity of its own.
StartUpload(u, r) ==
  /\ upload[u].pc = "idle"
  /\ MayReserveVoice(Expired(guard), Free)
  /\ guard' = VoiceReserved(Expired(guard), Request(u))
  /\ Admitted(u, r, FALSE)
  /\ UNCHANGED <<files, rows, attempt>>

\* The recording of a live attempt: it shares the capacity of the attempt.
StartSharedUpload(u, r) ==
  /\ upload[u].pc = "idle"
  /\ attempt[r].state = "open" /\ ~attempt[r].started
  /\ guard' = Forked(guard, Stream(r), Request(u))
  /\ attempt' = [attempt EXCEPT ![r].started = TRUE]
  /\ Admitted(u, r, TRUE)
  /\ UNCHANGED <<files, rows>>

\* The recording of an attempt that is over: what it has parked, or else new capacity.
StartLateUpload(u, r) ==
  LET taken == TakenOver(guard, r, Request(u)) IN
  /\ upload[u].pc = "idle"
  /\ attempt[r].state = "open" => attempt[r].completed
  /\ IF taken.lease[Request(u)] # NoSlot THEN guard' = taken
     ELSE MayReserveVoice(taken, Free) /\ guard' = VoiceReserved(taken, Request(u))
  /\ Admitted(u, r, FALSE)
  /\ UNCHANGED <<files, rows, attempt>>

\* A request that is turned away leaves nothing but the expiry of parked leases.
Denied ==
  /\ ~MayReserveVoice(Expired(guard), Free)
  /\ guard' = Expired(guard)
  /\ UNCHANGED <<files, rows, upload, attempt>>

\* The request fails: the attempt, if it lives, may be uploaded again.
Failed(u) ==
  /\ guard' = Released(guard, {Request(u), Writer(u)})
  /\ upload' = [upload EXCEPT ![u].pc = "done", ![u].shared = FALSE]
  /\ attempt' = IF upload[u].shared
                THEN [attempt EXCEPT ![upload[u].rec].started = FALSE] ELSE attempt

GiveUp(u) ==
  /\ upload[u].pc \in {"admitted", "recorded"}
  /\ Failed(u)
  /\ UNCHANGED <<files, rows>>

RecordOrphan(u) ==
  /\ upload[u].pc = "admitted"
  /\ ledger' = [ledger EXCEPT ![u] = [reason |-> "orphan_cleanup", age |-> 0]]
  /\ upload' = [upload EXCEPT ![u].pc = "recorded"]
  /\ UNCHANGED <<guard, files, segment, drain, dbBytes, attempt>>

\* The final path is reserved by an empty file, the audio goes to a part file.
BeginWrite(u) ==
  /\ upload[u].pc = "recorded"
  /\ guard' = Forked(guard, Request(u), Writer(u))
  /\ file' = [file EXCEPT ![u] = "reserved"]
  /\ part' = [part EXCEPT ![u] = 0]
  /\ upload' = [upload EXCEPT ![u].pc = "writing"]
  /\ UNCHANGED <<rows, attempt>>

WriteChunk(u) ==
  /\ upload[u].pc = "writing" /\ part[u] # NoPart
  /\ part' = [part EXCEPT ![u] = 0]
  /\ UNCHANGED <<guard, file, rows, upload, attempt>>

\* The part file replaces whatever is, or is no longer, at the final path.
FinishWrite(u) ==
  /\ upload[u].pc = "writing" /\ part[u] # NoPart
  /\ guard' = Released(guard, {Writer(u)})
  /\ file' = [file EXCEPT ![u] = "complete"]
  /\ part' = [part EXCEPT ![u] = NoPart]
  /\ upload' = [upload EXCEPT ![u].pc = "stored"]
  /\ attempt' = IF upload[u].shared
                THEN [attempt EXCEPT ![upload[u].rec].completed = TRUE] ELSE attempt
  /\ UNCHANGED rows

\* Too large, empty, out of space, interrupted: the writer removes what it made, if it can.
FailWrite(u, removed) ==
  /\ upload[u].pc = "writing"
  /\ Failed(u)
  /\ IF removed THEN /\ file' = [file EXCEPT ![u] = "absent"]
                     /\ part' = [part EXCEPT ![u] = NoPart]
                ELSE UNCHANGED files
  /\ UNCHANGED rows

-----------------------------------------------------------------------------
(* Segments.                                                               *)

Registered(r) == \E u \in Uploads : segment[u] # "none" /\ upload[u].rec = r
\* Variant: the answer forgets the lease of the request.
AnsweredHolding(u) ==
  /\ upload' = [upload EXCEPT ![u].pc = "done", ![u].shared = FALSE]
  /\ UNCHANGED <<guard, files, attempt>>
Answered(u) ==
  /\ guard' = Released(guard, {Request(u)})
  /\ upload' = [upload EXCEPT ![u].pc = "done", ![u].shared = FALSE]
  /\ UNCHANGED <<files, attempt>>

\* Variant: whether the file is still there is not checked.
CreateSegmentTrusting(u) ==
  /\ upload[u].pc = "stored"
  /\ ~Registered(upload[u].rec)
  /\ segment' = [segment EXCEPT ![u] = "draft"]
  /\ ledger' = [ledger EXCEPT ![u] = NoRow]
  /\ drain' = [drain EXCEPT !.rows = @ \ {u}]
  /\ Answered(u)
  /\ UNCHANGED dbBytes
CreateSegment(u) ==
  /\ upload[u].pc = "stored"
  /\ ~Registered(upload[u].rec) /\ file[u] # "absent"
  /\ segment' = [segment EXCEPT ![u] = "draft"]
  /\ ledger' = [ledger EXCEPT ![u] = NoRow]
  /\ drain' = [drain EXCEPT !.rows = @ \ {u}]
  /\ Answered(u)
  /\ UNCHANGED dbBytes

\* The recording is known already, the file is gone, the Draft has changed or is
\* blocked, the database refuses: the row in the ledger stays.
RefuseSegment(u) ==
  /\ upload[u].pc = "stored"
  /\ Answered(u)
  /\ UNCHANGED rows

Condemned(S) ==
  /\ ledger' = [u \in Uploads |-> IF u \in S /\ ledger[u].reason = "none"
                                  THEN [reason |-> "deleted", age |-> 0] ELSE ledger[u]]
  /\ segment' = [u \in Uploads |-> IF u \in S THEN "none" ELSE segment[u]]
  /\ UNCHANGED <<guard, files, upload, attempt, drain, dbBytes>>

SegmentsOf(o, where) == {u \in Uploads : segment[u] = where /\ Owner[upload[u].rec] = o}

DeleteFailedSegment(u) == segment[u] = "draft" /\ Condemned({u})
DeleteDraft(o) == SegmentsOf(o, "draft") # {} /\ Condemned(SegmentsOf(o, "draft"))
\* Permanently deleted Items, expired trash and deleted failed Captures.
DeleteSaved(S) == S # {} /\ (\A u \in S : segment[u] = "saved") /\ Condemned(S)
SaveDraft(o) ==
  /\ SegmentsOf(o, "draft") # {}
  /\ segment' = [u \in Uploads |-> IF u \in SegmentsOf(o, "draft") THEN "saved" ELSE segment[u]]
  /\ UNCHANGED <<guard, files, ledger, upload, attempt, drain, dbBytes>>

-----------------------------------------------------------------------------
(* The drain: rows are selected, then each is taken in one transaction.    *)

UpTo(n, S) == IF Cardinality(S) < n THEN Cardinality(S) ELSE n
Deletable(u) ==
  /\ ledger[u].reason # "none" /\ segment[u] = "none"
  /\ ledger[u].reason = "orphan_cleanup" => ledger[u].age = Grace

DrainSelect ==
  LET eligible == {u \in Uploads : Deletable(u)} IN
  /\ ~drain.on
  /\ \E S \in SUBSET eligible :
       /\ Cardinality(S) = UpTo(Limit, eligible)
       /\ \A u \in S, v \in eligible \ S : ledger[u].age >= ledger[v].age
       /\ drain' = [on |-> TRUE, rows |-> S]
  /\ UNCHANGED <<guard, files, ledger, segment, upload, attempt, dbBytes>>

\* Variant: the row goes although the file could not be unlinked.
DrainOneForgetting(u) ==
  /\ u \in drain.rows /\ Deletable(u)
  /\ drain' = [drain EXCEPT !.rows = @ \ {u}]
  /\ file' \in {file, [file EXCEPT ![u] = "absent"]}
  /\ ledger' = [ledger EXCEPT ![u] = NoRow]
  /\ UNCHANGED <<guard, part, segment, upload, attempt, dbBytes>>
\* The row still condemns the file: the file is unlinked, or found absent.
DrainOne(u) ==
  /\ u \in drain.rows /\ Deletable(u)
  /\ drain' = [drain EXCEPT !.rows = @ \ {u}]
  /\ file' = [file EXCEPT ![u] = "absent"]
  /\ ledger' = [ledger EXCEPT ![u] = NoRow]
  /\ UNCHANGED <<guard, part, segment, upload, attempt, dbBytes>>

\* It no longer does, or the file cannot be unlinked: the row waits for the next drain.
DrainSkips(u) ==
  /\ u \in drain.rows
  /\ drain' = [drain EXCEPT !.rows = @ \ {u}]
  /\ UNCHANGED <<guard, files, ledger, segment, upload, attempt, dbBytes>>

\* Variant: part files are never looked at.
DrainEndsThere ==
  /\ drain.on /\ drain.rows = {}
  /\ drain' = NoDrain
  /\ UNCHANGED <<guard, files, ledger, segment, upload, attempt, dbBytes>>
\* At the end, part files that nobody has written to for the grace period.
DrainEnds ==
  LET parts == {u \in Uploads : part[u] # NoPart} IN
  /\ drain.on /\ drain.rows = {}
  /\ \E S \in SUBSET parts :
       /\ Cardinality(S) = UpTo(Limit, parts)
       /\ part' = [u \in Uploads |-> IF u \in S /\ part[u] = Grace THEN NoPart ELSE part[u]]
  /\ drain' = NoDrain
  /\ UNCHANGED <<guard, file, ledger, segment, upload, attempt, dbBytes>>

-----------------------------------------------------------------------------
(* Texts share the capacity of the database device.                        *)

ReserveText(t) ==
  /\ t \notin guard.growing
  /\ MayGrow(Expired(guard), Free)
  /\ guard' = GrowthReserved(Expired(guard), t)
  /\ UNCHANGED <<files, rows, upload, attempt>>

WriteText(t) ==
  /\ t \in guard.growing
  /\ guard' = GrowthReleased(guard, t)
  /\ \E n \in {0, Growth(DbDevice)} : dbBytes' = dbBytes + n
  /\ UNCHANGED <<files, ledger, segment, drain, upload, attempt>>

\* Variant: an age that does not stop.
OlderForEver(age, limit) == age + 1
Older(age, limit) == IF age < limit THEN age + 1 ELSE age
Tick ==
  /\ guard' = Aged(guard)
  /\ part' = [u \in Uploads |-> IF part[u] = NoPart THEN NoPart ELSE Older(part[u], Grace)]
  /\ ledger' = [u \in Uploads |-> IF ledger[u].reason = "none" THEN ledger[u]
                                  ELSE [ledger[u] EXCEPT !.age = Older(@, Grace)]]
  /\ upload' = [u \in Uploads |->
                  IF upload[u].pc \in {"recorded", "writing", "stored"}
                  THEN [upload[u] EXCEPT !.age = Older(@, Grace)] ELSE upload[u]]
  /\ UNCHANGED <<file, segment, attempt, drain, dbBytes>>

\* The process dies: requests, attempts and capacity are forgotten, rows and files stay.
Restart ==
  /\ guard' = NewGuard
  /\ upload' = [u \in Uploads |-> IF upload[u].pc = "idle" THEN upload[u]
                                  ELSE [upload[u] EXCEPT !.pc = "done", !.shared = FALSE]]
  /\ attempt' = [r \in Recordings |-> NoAttempt]
  /\ drain' = NoDrain
  /\ UNCHANGED <<files, ledger, segment, dbBytes>>

-----------------------------------------------------------------------------
UploadEnds(u) == GiveUp(u) \/ FinishWrite(u) \/ FailWrite(u, TRUE) \/ CreateSegment(u) \/ RefuseSegment(u)
UploadStep(u) ==
  \/ \E r \in Recordings : StartUpload(u, r) \/ StartSharedUpload(u, r) \/ StartLateUpload(u, r)
  \/ RecordOrphan(u) \/ BeginWrite(u) \/ WriteChunk(u) \/ FailWrite(u, FALSE) \/ UploadEnds(u)
AttemptStep(r) ==
  \/ OpenAttempt(r) \/ CloseAttempt(r)
  \/ \E providerFailed \in BOOLEAN : EndAttempt(r, providerFailed)
UserStep ==
  \/ \E u \in Uploads : DeleteFailedSegment(u)
  \/ \E r \in Recordings : DeleteDraft(Owner[r]) \/ SaveDraft(Owner[r])
  \/ \E S \in SUBSET Uploads : DeleteSaved(S)
DrainStep ==
  DrainSelect \/ DrainEnds \/ \E u \in Uploads : DrainOne(u) \/ DrainSkips(u)
Next ==
  \/ \E u \in Uploads : UploadStep(u)
  \/ \E r \in Recordings : AttemptStep(r)
  \/ UserStep \/ DrainStep \/ Denied
  \/ \E t \in Texts : ReserveText(t) \/ WriteText(t)
  \/ Tick \/ Restart
Spec == Init /\ [][Next]_vars

(* A request body ends or its connection breaks; workers and requests keep *)
(* draining, and a file that can be unlinked is unlinked at some try.      *)
FairSpec ==
  /\ Spec /\ WF_vars(Tick) /\ WF_vars(\E u \in Uploads : UploadEnds(u))
  /\ WF_vars(DrainStep) /\ SF_vars(DrainEnds) /\ \A u \in Uploads : SF_vars(DrainOne(u))

-----------------------------------------------------------------------------
(* A registered segment keeps its file: no drain, no cleanup and no        *)
(* failing upload takes the audio of a row that plays it, whatever was     *)
(* selected before it was registered and however long its upload took.     *)
SegmentHasFile == \A u \in Uploads : segment[u] # "none" => file[u] = "complete"

Outlived(u) == upload[u].age = Grace
Ended(u) == upload[u].pc \in {"idle", "done"}
(* No file is forgotten: what is on the disk belongs to a segment, to a    *)
(* row that condemns it, to an upload under way - or to an upload that     *)
(* took as long as the grace period of its row, the one case that the      *)
(* ledger does not survive.  Part files are found by their age alone.      *)
NoFileForgotten ==
  \A u \in Uploads : file[u] # "absent" /\ segment[u] = "none" /\ Ended(u)
                       => ledger[u].reason # "none" \/ Outlived(u)

(* What no segment refers to is removed in the end, from the final path    *)
(* and from the part path, after failures, restarts and deletions alike.   *)
UnusedFilesGo ==
  \A u \in Uploads :
    (upload[u].pc = "done" /\ segment[u] = "none" /\ ~Outlived(u))
      ~> (file[u] = "absent" /\ part[u] = NoPart)

\* An attempt that is cleaned up, a request that has not begun or is answered, and a
\* writer that does not write hold nothing.
Quiet ==
  /\ \A r \in Recordings : attempt[r].state = "none" => guard.lease[Stream(r)] = NoSlot
  /\ \A u \in Uploads :
       /\ upload[u].pc \in {"idle", "done"} => guard.lease[Request(u)] = NoSlot
       /\ upload[u].pc # "writing" => guard.lease[Writer(u)] = NoSlot

(* Capacity is reserved, forked, parked, taken over and released along     *)
(* uploads, attempts and handoffs.  On every path the counters agree with  *)
(* the leases, and whoever is over has returned its own: answered, failed  *)
(* or given up, a request keeps no slot, nor does an attempt after its     *)
(* cleanup.  What an attempt parks lapses at an admission after its time   *)
(* (Expired); a text counts until it is written or refused (WriteText).    *)
CapacityBalances == Balanced(guard) /\ Quiet

(* Admitted content never takes the disk below the reserve: reservations   *)
(* cover what is written until its file or row is there to be counted.     *)
(* The one exception are part files that their writer failed to remove: a  *)
(* second upload under the lease of the same attempt does not count them.  *)
Leftover == {u \in Uploads : part[u] # NoPart /\ upload[u].pc = "done"}
DiskKeepsReserve ==
  \A d \in Devices :
    Free[d] + (IF d = VoiceDevice THEN Cardinality(Leftover) * VoiceBytes ELSE 0) >= MinFree
=============================================================================
