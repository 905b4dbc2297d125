-------------------------- MODULE StorageAdmission --------------------------
(***************************************************************************)
(* The in-memory admission of new content and of Original Audio            *)
(* (app/services/storage_admission.py): bytes reserved per filesystem, a   *)
(* limited number of Voice slots shared by forked leases, one window of    *)
(* admitted writes, and the leases parked for the upload that follows a    *)
(* failed stream.                                                          *)
(*                                                                         *)
(* Every operation runs under one lock, so it is a function of the state   *)
(* of the guard: an action of the modules that use it applies one or more  *)
(* of them.  Clocks are ages that stop at the limit they are compared to.  *)
(***************************************************************************)
EXTENDS Integers, FiniteSets

CONSTANTS Recordings,    \* the keys of parked leases: the identity of a streaming attempt
          Uploads,       \* upload requests
          Texts,         \* requests that add content to the database
          Devices, DbDevice, VoiceDevice,
          MinFree,       \* min_free_bytes
          Allowance,     \* DATABASE_WRITE_ALLOWANCE
          TextBytes,     \* estimated_growth_bytes of a text
          VoiceBytes,    \* voice_max_bytes
          VoiceLimit,    \* voice_concurrent_limit
          WriteLimit,    \* write_limit
          WriteWindow,   \* write_window_seconds
          HandoffTime    \* STREAM_UPLOAD_HANDOFF_SECONDS

Positive == Nat \ {0}
ASSUME LimitsAssumption ==
  /\ MinFree \in Positive /\ Allowance \in Positive
  /\ TextBytes \in Nat /\ VoiceBytes \in Positive
  /\ VoiceLimit \in Positive /\ WriteLimit \in Positive /\ WriteWindow \in Positive
  /\ HandoffTime \in Positive
ASSUME DevicesAssumption ==
  /\ {DbDevice, VoiceDevice} \subseteq Devices /\ IsFiniteSet(Devices)
ASSUME FiniteAssumption == IsFiniteSet(Recordings) /\ IsFiniteSet(Uploads) /\ IsFiniteSet(Texts)

VARIABLE guard           \* the StorageAdmission object

Slots == 1..VoiceLimit   \* _VoiceSlot objects; one without references may be used again
NoSlot == 0
\* The lease objects: of a streaming attempt, parked for its upload, of an upload
\* request, and of the writer of its file.
Stream(r) == <<"stream", r>>
Parked(r) == <<"parked", r>>
Request(u) == <<"request", u>>
Writer(u) == <<"writer", u>>
Leases == {Stream(r) : r \in Recordings} \cup {Parked(r) : r \in Recordings}
          \cup {Request(u) : u \in Uploads} \cup {Writer(u) : u \in Uploads}

Guard == [lease : [Leases -> Slots \cup {NoSlot}],  \* NoSlot: none, or released
          references : [Slots -> Int],
          active : Int,
          reserved : [Devices -> Int],
          growing : SUBSET Texts,                   \* with a DatabaseStorageLease
          window : 0..WriteWindow,                  \* age; WriteWindow: over or never begun
          used : Nat,
          left : [Recordings -> 0..HandoffTime]]    \* until a parked lease expires

NewGuard == [lease |-> [h \in Leases |-> NoSlot], references |-> [s \in Slots |-> 0],
             active |-> 0, reserved |-> [d \in Devices |-> 0],
             growing |-> {}, window |-> WriteWindow, used |-> 0,
             left |-> [r \in Recordings |-> 0]]

\* What a Voice slot reserves: the recording, and the rows that describe it.
Needed(d) == (IF d = DbDevice THEN Allowance ELSE 0)
             + (IF d = VoiceDevice THEN VoiceBytes ELSE 0)

-----------------------------------------------------------------------------
\* Leases.  Releasing one again does nothing; the last one of a slot frees it.
Held(g, H, s) == {h \in H : g.lease[h] = s}
Released(g, H) ==
  LET freed == {s \in Slots : /\ Held(g, H, s) # {}
                              /\ g.references[s] = Cardinality(Held(g, H, s))}
  IN [g EXCEPT !.lease = [h \in Leases |-> IF h \in H THEN NoSlot ELSE @[h]],
               !.references = [s \in Slots |-> @[s] - Cardinality(Held(g, H, s))],
               !.active = @ - Cardinality(freed),
               !.reserved = [d \in Devices |-> @[d] - Cardinality(freed) * Needed(d)]]

\* A second lease object of the same slot.
Forked(g, h, new) ==
  [g EXCEPT !.references[g.lease[h]] = @ + 1, !.lease[new] = g.lease[h]]

Expired(g) == Released(g, {Parked(r) : r \in {q \in Recordings : g.left[q] = 0}})

-----------------------------------------------------------------------------
\* Admission.  What every request does first is kept even when it is denied.
WindowIsOver(g) == g.window = WriteWindow
MayWrite(g) == WindowIsOver(g) \/ g.used < WriteLimit
Wrote(g) == IF WindowIsOver(g) THEN [g EXCEPT !.window = 0, !.used = 1]
                               ELSE [g EXCEPT !.used = @ + 1]

\* Variant: what others have reserved and not yet written is not counted.
FitsAlone(g, free, bytes) ==
  \A d \in Devices : bytes[d] > 0 => free[d] >= MinFree + bytes[d]
Fits(g, free, bytes) ==
  \A d \in Devices : bytes[d] > 0 => free[d] - g.reserved[d] >= MinFree + bytes[d]

MayReserveVoice(g, free) ==
  /\ g.active < VoiceLimit
  /\ Fits(g, free, [d \in Devices |-> Needed(d)])
  /\ MayWrite(g)
VoiceReserved(g, h) ==
  LET s == CHOOSE s \in Slots : g.references[s] = 0
  IN [Wrote(g) EXCEPT !.lease[h] = s, !.references[s] = 1, !.active = @ + 1,
                      !.reserved = [d \in Devices |-> @[d] + Needed(d)]]

Growth(d) == IF d = DbDevice THEN Allowance + TextBytes ELSE 0
MayGrow(g, free) == Fits(g, free, [d \in Devices |-> Growth(d)]) /\ MayWrite(g)
GrowthReserved(g, t) ==
  [Wrote(g) EXCEPT !.growing = @ \cup {t},
                   !.reserved = [d \in Devices |-> @[d] + Growth(d)]]
GrowthReleased(g, t) ==
  IF t \notin g.growing THEN g
  ELSE [g EXCEPT !.growing = @ \ {t},
                 !.reserved = [d \in Devices |-> @[d] - Growth(d)]]

-----------------------------------------------------------------------------
\* The handoff: a failed stream leaves its capacity to the upload that follows.
Handed(g, r, h) ==
  IF g.lease[h] = NoSlot THEN Expired(g)
  ELSE [Forked(Released(Expired(g), {Parked(r)}), h, Parked(r)) EXCEPT !.left[r] = HandoffTime]
TakenOver(g, r, h) ==
  LET e == Expired(g)
  IN [e EXCEPT !.lease[h] = e.lease[Parked(r)], !.lease[Parked(r)] = NoSlot]

Aged(g) == [g EXCEPT !.window = IF @ < WriteWindow THEN @ + 1 ELSE @,
                     !.left = [r \in Recordings |-> IF @[r] > 0 THEN @[r] - 1 ELSE 0]]

-----------------------------------------------------------------------------
(* The counters agree with the leases: a slot counts its leases, the       *)
(* active slots are those with leases, and the reserved bytes are those of *)
(* the active slots and of the database writes under way.  A lease dropped *)
(* uncounted would deny uploads until the next restart; one released twice *)
(* would admit too much.  Who may hold a lease is for the requests to say. *)
Live(g) == {s \in Slots : \E h \in Leases : g.lease[h] = s}
Balanced(g) ==
  /\ \A s \in Slots : g.references[s] = Cardinality(Held(g, Leases, s))
  /\ g.active = Cardinality(Live(g))
  /\ \A d \in Devices : g.reserved[d] = Cardinality(Live(g)) * Needed(d)
                                        + Cardinality(g.growing) * Growth(d)
=============================================================================
