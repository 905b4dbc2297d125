-------------------------- MODULE VoiceFiles_proofs --------------------------
(***************************************************************************)
(* What VoiceFiles.tla guarantees of the files of Original Audio and of    *)
(* the capacity they are admitted to, for every number of recordings,      *)
(* uploads, texts and devices, every limit, every grace period, and every  *)
(* number of restarts.                                                     *)
(*                                                                         *)
(* Two inductive invariants carry the results.  FileInv says of each key   *)
(* what its upload has made so far and which row leads back to it.         *)
(* StorageInv says which leases hold a slot, that each slot entitles one   *)
(* lease only to write a file, and that the disks have room for all that   *)
(* may still be written.  The lemmas on StorageAdmission come first: what  *)
(* each of its operations does to the leases, with its counters balanced.  *)
(***************************************************************************)
EXTENDS VoiceFiles, FiniteSetTheorems, TLAPS

----------------------------------------------------------------------------
(* The guard: its operations keep it well formed and balanced.             *)

\* A state of the guard that is well formed and whose counters agree with its leases.
GuardOK(g) == g \in Guard /\ Balanced(g)

\* What a lease, and a text, may reserve.
LEMMA Amounts ==
  /\ \A d \in Devices : Needed(d) \in Nat /\ Growth(d) \in Nat
  /\ VoiceLimit \in Nat /\ VoiceLimit > 0 /\ NoSlot \notin Slots /\ 0 \in 0..HandoffTime
  /\ HandoffTime \in 0..HandoffTime /\ 0 \in 0..WriteWindow /\ WriteWindow \in 0..WriteWindow
BY LimitsAssumption DEF LimitsAssumption, Needed, Growth, Positive, Slots, NoSlot

\* The lease objects are different from each other, and finitely many.
LEMMA LeaseNames ==
  /\ \A r \in Recordings : {Stream(r), Parked(r)} \subseteq Leases
  /\ \A u \in Uploads : {Request(u), Writer(u)} \subseteq Leases
  /\ \A r, q \in Recordings : /\ Stream(r) # Parked(q)
                              /\ r # q => Stream(r) # Stream(q) /\ Parked(r) # Parked(q)
  /\ \A u, v \in Uploads : /\ Request(u) # Writer(v)
                           /\ u # v => Request(u) # Request(v) /\ Writer(u) # Writer(v)
  /\ \A r \in Recordings, u \in Uploads :
       {Stream(r), Parked(r)} \cap {Request(u), Writer(u)} = {}
<1>. USE DEF Leases, Stream, Parked, Request, Writer
<1>1. /\ \A r \in Recordings : {Stream(r), Parked(r)} \subseteq Leases
      /\ \A u \in Uploads : {Request(u), Writer(u)} \subseteq Leases
  OBVIOUS
<1>2. /\ \A r, q \in Recordings : /\ Stream(r) # Parked(q)
                                  /\ r # q => Stream(r) # Stream(q) /\ Parked(r) # Parked(q)
  OBVIOUS
<1>3. /\ \A u, v \in Uploads : /\ Request(u) # Writer(v)
                               /\ u # v => Request(u) # Request(v) /\ Writer(u) # Writer(v)
  OBVIOUS
<1>4. \A r \in Recordings, u \in Uploads :
        {Stream(r), Parked(r)} \cap {Request(u), Writer(u)} = {}
  OBVIOUS
<1>. QED BY <1>1, <1>2, <1>3, <1>4

LEMMA LeasesFinite == IsFiniteSet(Leases)
<1>1. /\ IsFiniteSet({"stream"} \X Recordings) /\ IsFiniteSet({"parked"} \X Recordings)
      /\ IsFiniteSet({"request"} \X Uploads) /\ IsFiniteSet({"writer"} \X Uploads)
  BY FS_Singleton, FS_Product, FiniteAssumption, Zenon DEF FiniteAssumption
<1>2. Leases = (({"stream"} \X Recordings) \cup ({"parked"} \X Recordings))
                 \cup (({"request"} \X Uploads) \cup ({"writer"} \X Uploads))
  BY DEF Leases, Stream, Parked, Request, Writer
<1>. QED BY <1>1, <1>2, FS_Union, Zenon

LEMMA SlotsFinite == IsFiniteSet(Slots) /\ Cardinality(Slots) = VoiceLimit
<1>1. 1 \in Int /\ VoiceLimit \in Int /\ VoiceLimit > 0
  BY Amounts
<1>2. IsFiniteSet(1..VoiceLimit) /\ Cardinality(1..VoiceLimit) = IF 1 > VoiceLimit THEN 0 ELSE VoiceLimit - 1 + 1
  BY <1>1, FS_Interval, Zenon
<1>. QED BY <1>1, <1>2 DEF Slots

\* The leases of a slot, and the slots with leases, are finitely many.
LEMMA HeldFinite ==
  ASSUME NEW g, NEW H \in SUBSET Leases, NEW s
  PROVE  IsFiniteSet(Held(g, H, s)) /\ Cardinality(Held(g, H, s)) \in Nat
<1>1. Held(g, H, s) \in SUBSET Leases
  BY DEF Held
<1>. QED BY <1>1, LeasesFinite, FS_Subset, FS_CardinalityType, Zenon
LEMMA LiveFinite ==
  ASSUME NEW g
  PROVE  IsFiniteSet(Live(g)) /\ Cardinality(Live(g)) \in Nat /\ Live(g) \in SUBSET Slots
<1>1. Live(g) \in SUBSET Slots
  BY DEF Live
<1>. QED BY <1>1, SlotsFinite, FS_Subset, FS_CardinalityType, Zenon
LEMMA GrowingFinite ==
  ASSUME NEW g \in Guard
  PROVE  IsFiniteSet(g.growing) /\ Cardinality(g.growing) \in Nat
<1>1. g.growing \in SUBSET Texts
  BY DEF Guard
<1>. QED BY <1>1, FiniteAssumption, FS_Subset, FS_CardinalityType, Zenon DEF FiniteAssumption

\* The guard's counters after any change of leases: it suffices to say which leases a
\* slot has and which slots are in use.
LEMMA StillBalanced ==
  ASSUME NEW g, NEW k \in Guard, NEW dLive \in Int, NEW dGrow \in Int, GuardOK(g),
         \A s \in Slots : k.references[s] = Cardinality(Held(k, Leases, s)),
         Cardinality(Live(k)) = Cardinality(Live(g)) + dLive,
         Cardinality(k.growing) = Cardinality(g.growing) + dGrow,
         k.active = g.active + dLive,
         \A d \in Devices : k.reserved[d] = g.reserved[d] + dLive * Needed(d) + dGrow * Growth(d)
  PROVE  GuardOK(k)
<1>1. g \in Guard /\ Balanced(g)
  BY DEF GuardOK
<1>2. k.active = Cardinality(Live(k))
  BY <1>1 DEF Balanced
<1>3. ASSUME NEW d \in Devices
      PROVE  k.reserved[d] = Cardinality(Live(k)) * Needed(d) + Cardinality(k.growing) * Growth(d)
  <2>1. /\ Needed(d) \in Nat /\ Growth(d) \in Nat
        /\ Cardinality(Live(g)) \in Nat /\ Cardinality(g.growing) \in Nat
    BY <1>1, Amounts, LiveFinite, GrowingFinite
  <2>2. g.reserved[d] = Cardinality(Live(g)) * Needed(d) + Cardinality(g.growing) * Growth(d)
    BY <1>1 DEF Balanced
  <2>3. /\ (Cardinality(Live(g)) + dLive) * Needed(d) = Cardinality(Live(g)) * Needed(d) + dLive * Needed(d)
        /\ (Cardinality(g.growing) + dGrow) * Growth(d)
             = Cardinality(g.growing) * Growth(d) + dGrow * Growth(d)
    BY <2>1
  <2>4. /\ Cardinality(Live(g)) * Needed(d) \in Int /\ dLive * Needed(d) \in Int
        /\ Cardinality(g.growing) * Growth(d) \in Int /\ dGrow * Growth(d) \in Int
    BY <2>1
  <2>. QED BY <2>2, <2>3, <2>4
<1>. QED BY <1>2, <1>3 DEF GuardOK, Balanced

----------------------------------------------------------------------------
\* Releasing leases: the slots of which none is left are free, no other slot is.
LEMMA Releasing ==
  ASSUME NEW g, GuardOK(g), NEW H \in SUBSET Leases
  PROVE  /\ GuardOK(Released(g, H))
         /\ Released(g, H).lease = [h \in Leases |-> IF h \in H THEN NoSlot ELSE g.lease[h]]
         /\ Released(g, H).growing = g.growing /\ Released(g, H).left = g.left
         /\ \A s \in Slots : Released(g, H).references[s] <= g.references[s]
         /\ Cardinality(Live(Released(g, H))) <= Cardinality(Live(g))
<1>. DEFINE R == Released(g, H)
            freed == {s \in Slots : /\ Held(g, H, s) # {}
                                    /\ g.references[s] = Cardinality(Held(g, H, s))}
            lease == [h \in Leases |-> IF h \in H THEN NoSlot ELSE g.lease[h]]
            references == [s \in Slots |-> g.references[s] - Cardinality(Held(g, H, s))]
            active == g.active - Cardinality(freed)
            reserved == [d \in Devices |-> g.reserved[d] - Cardinality(freed) * Needed(d)]
<1>1. g \in Guard /\ Balanced(g) /\ g.lease \in [Leases -> Slots \cup {NoSlot}]
      /\ g.references \in [Slots -> Int] /\ g.active \in Int /\ g.reserved \in [Devices -> Int]
  BY DEF GuardOK, Guard
<1>2. freed \in SUBSET Live(g)
  BY DEF Held, Live
<1>3. IsFiniteSet(freed) /\ Cardinality(freed) \in Nat
  BY <1>2, LiveFinite, FS_Subset, FS_CardinalityType, Zenon
<1>4. lease \in [Leases -> Slots \cup {NoSlot}]
  BY <1>1
<1>5. references \in [Slots -> Int]
  BY <1>1, HeldFinite
<1>6. reserved \in [Devices -> Int]
  <2>1. \A d \in Devices : Cardinality(freed) * Needed(d) \in Int
    BY <1>3, Amounts
  <2>. HIDE DEF freed
  <2>. QED BY <1>1, <2>1
<1>7. R = [g EXCEPT !.lease = lease, !.references = references,
                    !.active = active, !.reserved = reserved]
  BY DEF Released
<1>. HIDE DEF freed, lease, references, active, reserved, R
<1>8. /\ R \in Guard /\ R.lease = lease /\ R.references = references
      /\ R.active = active /\ R.reserved = reserved
      /\ R.growing = g.growing /\ R.left = g.left
  <2>1. active \in Int
    BY <1>1, <1>3 DEF active
  <2>. QED BY <1>1, <1>4, <1>5, <1>6, <1>7, <2>1 DEF Guard
<1>9. ASSUME NEW s \in Slots
      PROVE  /\ Held(R, Leases, s) = Held(g, Leases, s) \ Held(g, H, s)
             /\ Held(g, H, s) \in SUBSET Held(g, Leases, s)
  BY <1>8, Amounts DEF Held, lease
<1>10. ASSUME NEW s \in Slots
       PROVE  /\ R.references[s] = Cardinality(Held(R, Leases, s))
              /\ R.references[s] <= g.references[s]
              /\ s \in Live(R) <=> s \in Live(g) \ freed
  <2>. DEFINE A == Held(g, Leases, s)
              B == Held(g, H, s)
  <2>1. IsFiniteSet(A) /\ IsFiniteSet(B) /\ Cardinality(A) \in Nat /\ Cardinality(B) \in Nat
    BY HeldFinite
  <2>2. Held(R, Leases, s) = A \ B /\ B \in SUBSET A /\ A \cap B = B
    BY <1>9
  <2>3. g.references[s] = Cardinality(A)
    BY <1>1 DEF Balanced
  <2>4. s \in Live(R) <=> Held(R, Leases, s) # {}
    BY DEF Live, Held
  <2>5. s \in Live(g) <=> A # {}
    BY DEF Live, Held
  <2>6. s \in freed <=> B # {} /\ Cardinality(A) = Cardinality(B)
    BY <2>3 DEF freed
  <2>. HIDE DEF A, B
  <2>7. Cardinality(A \ B) = Cardinality(A) - Cardinality(B)
    BY <2>1, <2>2, FS_Difference
  <2>8. R.references[s] = Cardinality(A) - Cardinality(B)
    BY <1>8, <2>3 DEF references, B
  <2>9. Cardinality(A) = Cardinality(B) => A = B
    BY <2>1, <2>2, FS_Subset
  <2>10. s \in Live(R) <=> s \in Live(g) \ freed
    <3>1. A \ B # {} <=> A # B /\ A # {}
      BY <2>2
    <3>2. A # {} /\ B = {} => A # B
      OBVIOUS
    <3>. QED BY <2>2, <2>4, <2>5, <2>6, <2>9, <3>1, <3>2
  <2>. QED BY <2>1, <2>2, <2>3, <2>7, <2>8, <2>10
<1>11. Live(R) = Live(g) \ freed
  BY <1>10 DEF Live
<1>12. /\ Cardinality(Live(R)) = Cardinality(Live(g)) - Cardinality(freed)
       /\ Cardinality(Live(g)) \in Nat
  <2>1. Live(g) \cap freed = freed
    BY <1>2
  <2>. QED BY <1>11, <2>1, LiveFinite, FS_Difference
<1>13. \A d \in Devices : R.reserved[d] = g.reserved[d] + (0 - Cardinality(freed)) * Needed(d) + 0 * Growth(d)
  <2>1. ASSUME NEW d \in Devices
        PROVE  R.reserved[d] = g.reserved[d] + (0 - Cardinality(freed)) * Needed(d) + 0 * Growth(d)
    <3>1. R.reserved[d] = g.reserved[d] - Cardinality(freed) * Needed(d)
      BY <1>8 DEF reserved
    <3>2. Needed(d) \in Nat /\ Growth(d) \in Nat /\ g.reserved[d] \in Int
      BY <1>1, Amounts
    <3>. QED BY <1>3, <3>1, <3>2
  <2>. QED BY <2>1
<1>14. Cardinality(R.growing) = Cardinality(g.growing) + 0
  BY <1>1, <1>8, GrowingFinite
<1>15. Cardinality(Live(R)) = Cardinality(Live(g)) + (0 - Cardinality(freed))
       /\ R.active = g.active + (0 - Cardinality(freed)) /\ 0 - Cardinality(freed) \in Int
  BY <1>1, <1>3, <1>8, <1>12 DEF active
<1>16. GuardOK(R)
  <2>. DEFINE dLive == 0 - Cardinality(freed)
  <2>1. dLive \in Int /\ Cardinality(Live(R)) = Cardinality(Live(g)) + dLive /\ R.active = g.active + dLive
    BY <1>15
  <2>2. \A d \in Devices : R.reserved[d] = g.reserved[d] + dLive * Needed(d) + 0 * Growth(d)
    BY <1>13
  <2>3. R \in Guard /\ \A s \in Slots : R.references[s] = Cardinality(Held(R, Leases, s))
    BY <1>8, <1>10
  <2>. HIDE DEF dLive
  <2>. QED BY <1>14, <2>1, <2>2, <2>3, StillBalanced
<1>17. Cardinality(Live(R)) <= Cardinality(Live(g))
  BY <1>3, <1>12
<1>. QED BY <1>8, <1>10, <1>16, <1>17 DEF R, lease

\* Forking a lease: its slot has one more.
LEMMA Forking ==
  ASSUME NEW g, GuardOK(g), NEW h \in Leases, NEW new \in Leases, g.lease[new] = NoSlot
  PROVE  /\ GuardOK(Forked(g, h, new))
         /\ Forked(g, h, new).lease = [g.lease EXCEPT ![new] = g.lease[h]]
         /\ Forked(g, h, new).growing = g.growing /\ Forked(g, h, new).left = g.left
<1>. DEFINE k == Forked(g, h, new)
            slot == g.lease[h]
            lease == [g.lease EXCEPT ![new] = slot]
            references == [g.references EXCEPT ![slot] = g.references[slot] + 1]
<1>1. g \in Guard /\ Balanced(g) /\ g.lease \in [Leases -> Slots \cup {NoSlot}]
      /\ g.references \in [Slots -> Int] /\ slot \in Slots \cup {NoSlot}
  BY DEF GuardOK, Guard
<1>2. lease \in [Leases -> Slots \cup {NoSlot}] /\ references \in [Slots -> Int]
  <2>1. lease \in [Leases -> Slots \cup {NoSlot}]
    BY <1>1
  <2>2. CASE slot \in Slots
    <3>1. g.references[slot] + 1 \in Int
      BY <1>1, <2>2
    <3>. HIDE DEF slot
    <3>. QED BY <1>1, <2>1, <3>1
  <2>3. CASE slot \notin Slots
    <3>. HIDE DEF slot
    <3>1. references = g.references
      BY <1>1, <2>3
    <3>. QED BY <1>1, <2>1, <3>1
  <2>. QED BY <2>2, <2>3
<1>3. k = [g EXCEPT !.references = references, !.lease = lease]
  BY DEF Forked
<1>. HIDE DEF k, slot, lease, references
<1>4. /\ k \in Guard /\ k.lease = lease /\ k.references = references
      /\ k.active = g.active /\ k.reserved = g.reserved
      /\ k.growing = g.growing /\ k.left = g.left
  BY <1>1, <1>2, <1>3 DEF Guard
<1>5. ASSUME NEW s \in Slots
      PROVE  /\ Held(k, Leases, s) = IF s = slot THEN Held(g, Leases, s) \cup {new} ELSE Held(g, Leases, s)
             /\ new \notin Held(g, Leases, s)
  BY <1>1, <1>4, Amounts DEF Held, lease, slot
<1>6. ASSUME NEW s \in Slots
      PROVE  k.references[s] = Cardinality(Held(k, Leases, s)) /\ (s \in Live(k) <=> s \in Live(g))
  <2>. DEFINE A == Held(g, Leases, s)
  <2>1. IsFiniteSet(A) /\ Cardinality(A) \in Nat /\ g.references[s] = Cardinality(A)
    BY <1>1, HeldFinite DEF Balanced
  <2>2. Cardinality(A \cup {new}) = Cardinality(A) + 1
    BY <1>5, <2>1, FS_AddElement
  <2>3. s = slot => h \in A
    BY DEF Held, slot
  <2>4. (s \in Live(k) <=> Held(k, Leases, s) # {}) /\ (s \in Live(g) <=> A # {})
    BY DEF Live, Held
  <2>. HIDE DEF A
  <2>5. Held(k, Leases, s) = IF s = slot THEN A \cup {new} ELSE A
    BY <1>5 DEF A
  <2>6. k.references[s] = IF s = slot THEN g.references[s] + 1 ELSE g.references[s]
    BY <1>1, <1>4 DEF references
  <2>. QED BY <2>1, <2>2, <2>3, <2>4, <2>5, <2>6
<1>7. Live(k) = Live(g)
  BY <1>6 DEF Live
<1>8. GuardOK(k)
  BY <1>1, <1>4, <1>6, <1>7 DEF GuardOK, Balanced
<1>. QED BY <1>4, <1>8 DEF k, lease, slot

\* An admitted write touches only its window.
LEMMA Writing ==
  ASSUME NEW g, GuardOK(g)
  PROVE  /\ GuardOK(Wrote(g)) /\ Wrote(g).lease = g.lease /\ Wrote(g).references = g.references
         /\ Wrote(g).growing = g.growing /\ Wrote(g).left = g.left /\ Live(Wrote(g)) = Live(g)
         /\ Wrote(g).active = g.active /\ Wrote(g).reserved = g.reserved
<1>. DEFINE k == Wrote(g)
<1>1. g \in Guard /\ Balanced(g)
  BY DEF GuardOK
<1>2. /\ k \in Guard /\ k.lease = g.lease /\ k.references = g.references
      /\ k.active = g.active /\ k.reserved = g.reserved
      /\ k.growing = g.growing /\ k.left = g.left
  <2>1. 0 \in 0..WriteWindow /\ 1 \in Nat /\ g.used + 1 \in Nat
    BY <1>1, Amounts DEF Guard
  <2>2. CASE k = [g EXCEPT !.window = 0, !.used = 1]
    <3>. HIDE DEF k
    <3>. QED BY <1>1, <2>1, <2>2 DEF Guard
  <2>3. CASE k = [g EXCEPT !.used = g.used + 1]
    <3>. HIDE DEF k
    <3>. QED BY <1>1, <2>1, <2>3 DEF Guard
  <2>. QED BY <2>2, <2>3 DEF Wrote
<1>. HIDE DEF k
<1>3. Live(k) = Live(g) /\ \A s : Held(k, Leases, s) = Held(g, Leases, s)
  BY <1>2 DEF Live, Held
<1>4. Balanced(k)
  BY <1>1, <1>2, <1>3 DEF Balanced
<1>. QED BY <1>2, <1>3, <1>4 DEF GuardOK, k

\* Reserving a slot: there is a free one, and it gets its first lease.
LEMMA ReservingVoice ==
  ASSUME NEW g, GuardOK(g), NEW h \in Leases, g.lease[h] = NoSlot, g.active < VoiceLimit
  PROVE  /\ GuardOK(VoiceReserved(g, h))
         /\ \E s \in Slots : /\ \A x \in Leases : g.lease[x] # s
                             /\ VoiceReserved(g, h).lease = [g.lease EXCEPT ![h] = s]
         /\ VoiceReserved(g, h).growing = g.growing /\ VoiceReserved(g, h).left = g.left
         /\ Cardinality(Live(VoiceReserved(g, h))) = Cardinality(Live(g)) + 1
<1>. DEFINE slot == CHOOSE s \in Slots : g.references[s] = 0
            w == Wrote(g)
            k == VoiceReserved(g, h)
            lease == [w.lease EXCEPT ![h] = slot]
            references == [w.references EXCEPT ![slot] = 1]
            active == w.active + 1
            reserved == [d \in Devices |-> w.reserved[d] + Needed(d)]
<1>1. g \in Guard /\ Balanced(g) /\ g.lease \in [Leases -> Slots \cup {NoSlot}]
  BY DEF GuardOK, Guard
<1>2. \A s \in Slots : g.references[s] = 0 <=> s \notin Live(g)
  <2>1. ASSUME NEW s \in Slots PROVE g.references[s] = 0 <=> s \notin Live(g)
    <3>1. g.references[s] = Cardinality(Held(g, Leases, s)) /\ IsFiniteSet(Held(g, Leases, s))
      BY <1>1, HeldFinite DEF Balanced
    <3>2. s \in Live(g) <=> Held(g, Leases, s) # {}
      BY DEF Live, Held
    <3>. QED BY <3>1, <3>2, FS_EmptySet
  <2>. QED BY <2>1
<1>3. slot \in Slots /\ g.references[slot] = 0
  <2>1. Live(g) # Slots
    BY <1>1, SlotsFinite, Amounts DEF Balanced
  <2>2. \E s \in Slots : g.references[s] = 0
    BY <1>2, <2>1, LiveFinite
  <2>. QED BY <2>2
<1>4. \A x \in Leases : g.lease[x] # slot
  BY <1>2, <1>3 DEF Live
<1>5. /\ w \in Guard /\ GuardOK(w) /\ w.lease = g.lease /\ w.references = g.references
      /\ w.growing = g.growing /\ w.left = g.left /\ w.active = g.active /\ w.reserved = g.reserved
      /\ Live(w) = Live(g)
  BY Writing DEF GuardOK
<1>6. k = [w EXCEPT !.lease = lease, !.references = references, !.active = active, !.reserved = reserved]
  BY DEF VoiceReserved
<1>. HIDE DEF slot, w, k
<1>7. /\ lease \in [Leases -> Slots \cup {NoSlot}] /\ references \in [Slots -> Int] /\ active \in Int
  BY <1>3, <1>5 DEF Guard
<1>8. reserved \in [Devices -> Int]
  BY <1>5, Amounts DEF Guard
<1>. HIDE DEF lease, references, active, reserved
<1>9. /\ k \in Guard /\ k.lease = lease /\ k.references = references
      /\ k.active = active /\ k.reserved = reserved
      /\ k.growing = w.growing /\ k.left = w.left
  BY <1>5, <1>6, <1>7, <1>8 DEF Guard
<1>10. ASSUME NEW s \in Slots
       PROVE  Held(k, Leases, s) = IF s = slot THEN {h} ELSE Held(g, Leases, s)
  BY <1>1, <1>3, <1>4, <1>5, <1>9, Amounts DEF Held, lease
<1>11. ASSUME NEW s \in Slots PROVE k.references[s] = Cardinality(Held(k, Leases, s))
  <2>1. k.references[s] = IF s = slot THEN 1 ELSE g.references[s]
    BY <1>3, <1>5, <1>9 DEF references, Guard
  <2>2. g.references[s] = Cardinality(Held(g, Leases, s))
    BY <1>1 DEF Balanced
  <2>. QED BY <1>10, <2>1, <2>2, FS_Singleton
<1>12. Live(k) = Live(g) \cup {slot} /\ slot \notin Live(g)
  <2>1. \A s \in Slots : /\ s \in Live(k) <=> Held(k, Leases, s) # {}
                         /\ s \in Live(g) <=> Held(g, Leases, s) # {}
    BY DEF Live, Held
  <2>2. \A s \in Slots : s \in Live(k) <=> s = slot \/ s \in Live(g)
    BY <1>10, <2>1
  <2>. QED BY <1>2, <1>3, <2>2, LiveFinite
<1>13. Cardinality(Live(k)) = Cardinality(Live(g)) + 1
  BY <1>12, LiveFinite, FS_AddElement
<1>14. \A d \in Devices : k.reserved[d] = g.reserved[d] + 1 * Needed(d) + 0 * Growth(d)
  BY <1>1, <1>5, <1>9, Amounts DEF reserved, Guard
<1>15. Cardinality(k.growing) = Cardinality(g.growing) + 0 /\ k.active = g.active + 1
  BY <1>1, <1>5, <1>9, GrowingFinite DEF active
<1>16. GuardOK(k)
  BY <1>9, <1>11, <1>13, <1>14, <1>15, StillBalanced
<1>. QED BY <1>3, <1>4, <1>5, <1>9, <1>13, <1>16 DEF k, lease

\* What does not touch leases, texts and their counters keeps them balanced.
LEMMA SameBalance ==
  ASSUME NEW g, GuardOK(g), NEW k \in Guard, k.lease = g.lease, k.references = g.references,
         k.active = g.active, k.reserved = g.reserved, k.growing = g.growing
  PROVE  GuardOK(k)
<1>1. Live(k) = Live(g) /\ \A s : Held(k, Leases, s) = Held(g, Leases, s)
  BY DEF Live, Held
<1>. QED BY <1>1 DEF GuardOK, Balanced

\* A text reserves what it may add to the database, and gives it back.
LEMMA Growing ==
  ASSUME NEW g, GuardOK(g), NEW t \in Texts, t \notin g.growing
  PROVE  /\ GuardOK(GrowthReserved(g, t))
         /\ GrowthReserved(g, t).lease = g.lease /\ GrowthReserved(g, t).left = g.left
         /\ GrowthReserved(g, t).growing = g.growing \cup {t}
<1>. DEFINE w == Wrote(g)
            k == GrowthReserved(g, t)
            growing == w.growing \cup {t}
            reserved == [d \in Devices |-> w.reserved[d] + Growth(d)]
<1>1. /\ g \in Guard /\ w \in Guard /\ GuardOK(w) /\ w.lease = g.lease /\ w.left = g.left
      /\ w.growing = g.growing /\ Live(w) = Live(g)
  BY Writing DEF GuardOK
<1>2. k = [w EXCEPT !.growing = growing, !.reserved = reserved]
  BY DEF GrowthReserved
<1>. HIDE DEF w, k
<1>3. growing \in SUBSET Texts
  BY <1>1 DEF Guard
<1>4. reserved \in [Devices -> Int]
  BY <1>1, Amounts DEF Guard
<1>. HIDE DEF growing, reserved
<1>5. /\ k \in Guard /\ k.lease = w.lease /\ k.references = w.references /\ k.active = w.active
      /\ k.reserved = reserved /\ k.growing = growing /\ k.left = w.left
  BY <1>1, <1>2, <1>3, <1>4 DEF Guard
<1>6. Live(k) = Live(w) /\ \A s : Held(k, Leases, s) = Held(w, Leases, s)
  BY <1>5 DEF Live, Held
<1>7. \A s \in Slots : k.references[s] = Cardinality(Held(k, Leases, s))
  BY <1>1, <1>5, <1>6 DEF GuardOK, Balanced
<1>8. Cardinality(k.growing) = Cardinality(w.growing) + 1
  BY <1>1, <1>5, GrowingFinite, FS_AddElement DEF growing
<1>9. \A d \in Devices : k.reserved[d] = w.reserved[d] + 0 * Needed(d) + 1 * Growth(d)
  BY <1>1, <1>5, Amounts DEF reserved, Guard
<1>10. Cardinality(Live(k)) = Cardinality(Live(w)) + 0 /\ k.active = w.active + 0
  BY <1>1, <1>5, <1>6, LiveFinite DEF Guard
<1>11. GuardOK(k)
  BY <1>1, <1>5, <1>7, <1>8, <1>9, <1>10, StillBalanced
<1>. QED BY <1>1, <1>5, <1>11 DEF k, growing

\* The capacity of a text is given back.
LEMMA Grown ==
  ASSUME NEW g, GuardOK(g), NEW t \in Texts, t \in g.growing
  PROVE  /\ GuardOK(GrowthReleased(g, t))
         /\ GrowthReleased(g, t).lease = g.lease /\ GrowthReleased(g, t).left = g.left
         /\ GrowthReleased(g, t).growing = g.growing \ {t}
<1>. DEFINE k == GrowthReleased(g, t)
            growing == g.growing \ {t}
            reserved == [d \in Devices |-> g.reserved[d] - Growth(d)]
<1>1. g \in Guard
  BY DEF GuardOK
<1>2. k = [g EXCEPT !.growing = growing, !.reserved = reserved]
  BY DEF GrowthReleased
<1>. HIDE DEF k
<1>3. growing \in SUBSET Texts
  BY <1>1 DEF Guard
<1>4. reserved \in [Devices -> Int]
  BY <1>1, Amounts DEF Guard
<1>. HIDE DEF growing, reserved
<1>5. /\ k \in Guard /\ k.lease = g.lease /\ k.references = g.references /\ k.active = g.active
      /\ k.reserved = reserved /\ k.growing = growing /\ k.left = g.left
  BY <1>1, <1>2, <1>3, <1>4 DEF Guard
<1>6. Live(k) = Live(g) /\ \A s : Held(k, Leases, s) = Held(g, Leases, s)
  BY <1>5 DEF Live, Held
<1>7. \A s \in Slots : k.references[s] = Cardinality(Held(k, Leases, s))
  BY <1>1, <1>5, <1>6 DEF GuardOK, Balanced
<1>8. Cardinality(k.growing) = Cardinality(g.growing) + (-1)
  BY <1>1, <1>5, GrowingFinite, FS_RemoveElement DEF growing
<1>9. \A d \in Devices : k.reserved[d] = g.reserved[d] + 0 * Needed(d) + (-1) * Growth(d)
  BY <1>1, <1>5, Amounts DEF reserved, Guard
<1>10. Cardinality(Live(k)) = Cardinality(Live(g)) + 0 /\ k.active = g.active + 0
  BY <1>1, <1>5, <1>6, LiveFinite DEF Guard
<1>11. GuardOK(k)
  BY <1>1, <1>5, <1>7, <1>8, <1>9, <1>10, StillBalanced
<1>. QED BY <1>1, <1>5, <1>11 DEF k, growing

----------------------------------------------------------------------------
\* Leases that are not parked.
Unparked(h) == h \in Leases /\ \A r \in Recordings : h # Parked(r)

\* Expiry takes parked leases only.
LEMMA Expiring ==
  ASSUME NEW g, GuardOK(g)
  PROVE  /\ GuardOK(Expired(g))
         /\ \A h \in Leases : /\ Expired(g).lease[h] \in {NoSlot, g.lease[h]}
                              /\ Unparked(h) => Expired(g).lease[h] = g.lease[h]
         /\ Expired(g).growing = g.growing /\ Expired(g).left = g.left
<1>. DEFINE H == {Parked(r) : r \in {q \in Recordings : g.left[q] = 0}}
<1>1. H \in SUBSET Leases /\ \A h : Unparked(h) => h \notin H
  BY LeaseNames DEF Unparked
<1>2. Expired(g) = Released(g, H)
  BY DEF Expired
<1>. HIDE DEF H
<1>3. /\ GuardOK(Released(g, H)) /\ Released(g, H).growing = g.growing /\ Released(g, H).left = g.left
      /\ Released(g, H).lease = [h \in Leases |-> IF h \in H THEN NoSlot ELSE g.lease[h]]
  BY <1>1, Releasing
<1>4. \A h \in Leases : Released(g, H).lease[h] = IF h \in H THEN NoSlot ELSE g.lease[h]
  BY <1>3
<1>. QED BY <1>1, <1>2, <1>3, <1>4

\* The lease of a failed stream is forked for the upload that follows it.
LEMMA HandingOver ==
  ASSUME NEW g, GuardOK(g), NEW r \in Recordings, NEW h, Unparked(h)
  PROVE  /\ GuardOK(Handed(g, r, h)) /\ Handed(g, r, h).growing = g.growing
         /\ \A x \in Leases : /\ Unparked(x) => Handed(g, r, h).lease[x] = g.lease[x]
                              /\ x # Parked(r) => Handed(g, r, h).lease[x] \in {NoSlot, g.lease[x]}
         /\ g.lease[h] # NoSlot => Handed(g, r, h).lease[Parked(r)] = g.lease[h]
<1>. DEFINE e == Expired(g)
            p == Released(e, {Parked(r)})
            f == Forked(p, h, Parked(r))
            k == [f EXCEPT !.left[r] = HandoffTime]
<1>1. Parked(r) \in Leases /\ h \in Leases /\ ~Unparked(Parked(r)) /\ h # Parked(r)
  BY LeaseNames DEF Unparked
<1>2. /\ GuardOK(e) /\ e.growing = g.growing
      /\ \A x \in Leases : e.lease[x] \in {NoSlot, g.lease[x]} /\ (Unparked(x) => e.lease[x] = g.lease[x])
  BY Expiring
<1>. HIDE DEF e
<1>3. /\ GuardOK(p) /\ p.growing = e.growing
      /\ p.lease = [x \in Leases |-> IF x \in {Parked(r)} THEN NoSlot ELSE e.lease[x]]
  BY <1>1, <1>2, Releasing
<1>. HIDE DEF p
<1>4. p.lease[Parked(r)] = NoSlot /\ p.lease[h] = g.lease[h]
  BY <1>1, <1>2, <1>3
<1>5. /\ GuardOK(f) /\ f.growing = p.growing
      /\ f.lease = [p.lease EXCEPT ![Parked(r)] = p.lease[h]]
  BY <1>1, <1>3, <1>4, Forking
<1>. HIDE DEF f
<1>6. /\ k \in Guard /\ k.lease = f.lease /\ k.references = f.references
      /\ k.active = f.active /\ k.reserved = f.reserved /\ k.growing = f.growing
  <2>1. f \in Guard /\ f.left \in [Recordings -> 0..HandoffTime]
    BY <1>5 DEF GuardOK, Guard
  <2>2. [f.left EXCEPT ![r] = HandoffTime] \in [Recordings -> 0..HandoffTime]
    BY <2>1, Amounts
  <2>. QED BY <2>1, <2>2 DEF Guard
<1>. HIDE DEF k
<1>7. GuardOK(k)
  BY <1>5, <1>6, SameBalance
<1>8. Handed(g, r, h) = IF g.lease[h] = NoSlot THEN e ELSE k
  BY DEF Handed, e, p, f, k
<1>9. ASSUME NEW x \in Leases
      PROVE  /\ x # Parked(r) => k.lease[x] = e.lease[x]
             /\ x = Parked(r) => k.lease[x] = g.lease[h]
  BY <1>1, <1>3, <1>4, <1>5, <1>6
<1>. QED BY <1>1, <1>2, <1>3, <1>5, <1>6, <1>7, <1>8, <1>9

\* The upload takes the parked lease for its own.
LEMMA TakingOver ==
  ASSUME NEW g, GuardOK(g), NEW r \in Recordings, NEW h, Unparked(h), g.lease[h] = NoSlot
  PROVE  /\ GuardOK(TakenOver(g, r, h)) /\ TakenOver(g, r, h).growing = g.growing
         /\ TakenOver(g, r, h).lease[Parked(r)] = NoSlot
         /\ TakenOver(g, r, h).lease[h] \in {NoSlot, g.lease[Parked(r)]}
         /\ \A x \in Leases : /\ x # h /\ Unparked(x) => TakenOver(g, r, h).lease[x] = g.lease[x]
                              /\ x # h => TakenOver(g, r, h).lease[x] \in {NoSlot, g.lease[x]}
<1>. DEFINE e == Expired(g)
            k == TakenOver(g, r, h)
            slot == e.lease[Parked(r)]
            lease == [[e.lease EXCEPT ![h] = slot] EXCEPT ![Parked(r)] = NoSlot]
<1>1. Parked(r) \in Leases /\ h \in Leases /\ ~Unparked(Parked(r)) /\ h # Parked(r)
  BY LeaseNames DEF Unparked
<1>2. /\ GuardOK(e) /\ e.growing = g.growing
      /\ \A x \in Leases : e.lease[x] \in {NoSlot, g.lease[x]} /\ (Unparked(x) => e.lease[x] = g.lease[x])
  BY Expiring
<1>3. k = [e EXCEPT !.lease = lease]
  BY DEF TakenOver
<1>. HIDE DEF e, k
<1>4. /\ e \in Guard /\ Balanced(e) /\ e.lease \in [Leases -> Slots \cup {NoSlot}]
      /\ e.lease[h] = NoSlot /\ slot \in Slots \cup {NoSlot}
  BY <1>1, <1>2 DEF GuardOK, Guard
<1>. HIDE DEF slot
<1>5. /\ lease \in [Leases -> Slots \cup {NoSlot}]
      /\ \A x \in Leases : lease[x] = IF x = Parked(r) THEN NoSlot ELSE IF x = h THEN slot ELSE e.lease[x]
  BY <1>1, <1>4
<1>. HIDE DEF lease
<1>6. /\ k \in Guard /\ k.lease = lease /\ k.references = e.references
      /\ k.active = e.active /\ k.reserved = e.reserved /\ k.growing = e.growing
  BY <1>3, <1>4, <1>5 DEF Guard
<1>7. ASSUME NEW s \in Slots
      PROVE  /\ Cardinality(Held(k, Leases, s)) = Cardinality(Held(e, Leases, s))
             /\ s \in Live(k) <=> s \in Live(e)
  <2>. DEFINE A == Held(e, Leases, s)
              B == A \ {Parked(r)}
  <2>1. (s \in Live(k) <=> Held(k, Leases, s) # {}) /\ (s \in Live(e) <=> A # {})
    BY DEF Live, Held
  <2>2. s # NoSlot
    BY Amounts
  <2>3. CASE s # slot
    <3>1. Held(k, Leases, s) = A
      BY <1>1, <1>4, <1>5, <1>6, <2>2, <2>3 DEF Held, slot
    <3>. QED BY <2>1, <3>1
  <2>4. CASE s = slot
    <3>1. Held(k, Leases, s) = B \cup {h}
      BY <1>1, <1>4, <1>5, <1>6, <2>2, <2>4 DEF Held, slot
    <3>2. Parked(r) \in A /\ h \notin B /\ IsFiniteSet(A) /\ Cardinality(A) \in Nat
      <4>1. Parked(r) \in A /\ h \notin B
        BY <1>1, <1>4, <2>2, <2>4 DEF Held, slot
      <4>2. IsFiniteSet(A) /\ Cardinality(A) \in Nat
        BY HeldFinite
      <4>. QED BY <4>1, <4>2
    <3>. HIDE DEF A
    <3>3. IsFiniteSet(B) /\ Cardinality(B) = Cardinality(A) - 1
      BY <3>2, FS_RemoveElement, Zenon
    <3>. HIDE DEF B
    <3>4. Cardinality(B \cup {h}) = Cardinality(B) + 1
      BY <3>2, <3>3, FS_AddElement, Zenon
    <3>5. Cardinality(B \cup {h}) = Cardinality(A)
      BY <3>2, <3>3, <3>4
    <3>. QED BY <2>1, <3>1, <3>2, <3>5 DEF A
  <2>. QED BY <2>3, <2>4
<1>8. Live(k) = Live(e)
  BY <1>7 DEF Live
<1>9. GuardOK(k)
  BY <1>4, <1>6, <1>7, <1>8 DEF GuardOK, Balanced
<1>. QED BY <1>1, <1>2, <1>4, <1>5, <1>6, <1>9 DEF k, slot

\* Time touches no lease.
LEMMA Ageing ==
  ASSUME NEW g, GuardOK(g)
  PROVE  GuardOK(Aged(g)) /\ Aged(g).lease = g.lease /\ Aged(g).growing = g.growing
<1>. DEFINE window == IF g.window < WriteWindow THEN g.window + 1 ELSE g.window
            left == [r \in Recordings |-> IF g.left[r] > 0 THEN g.left[r] - 1 ELSE 0]
            k == Aged(g)
<1>1. g \in Guard
  BY DEF GuardOK
<1>2. window \in 0..WriteWindow /\ left \in [Recordings -> 0..HandoffTime]
  <2>1. WriteWindow \in Nat /\ HandoffTime \in Nat
    BY LimitsAssumption DEF LimitsAssumption, Positive
  <2>2. window \in 0..WriteWindow
    BY <1>1, <2>1 DEF Guard
  <2>3. \A r \in Recordings : g.left[r] \in 0..HandoffTime
    BY <1>1 DEF Guard
  <2>. QED BY <2>1, <2>2, <2>3
<1>3. k = [g EXCEPT !.window = window, !.left = left]
  BY DEF Aged
<1>. HIDE DEF window, left, k
<1>4. /\ k \in Guard /\ k.lease = g.lease /\ k.references = g.references /\ k.active = g.active
      /\ k.reserved = g.reserved /\ k.growing = g.growing
  BY <1>1, <1>2, <1>3 DEF Guard
<1>. QED BY <1>4, SameBalance DEF k

\* At the start of the process nothing is held.
LEMMA Starting ==
  GuardOK(NewGuard) /\ NewGuard.growing = {} /\ \A h \in Leases : NewGuard.lease[h] = NoSlot
<1>1. \A s \in Slots : Held(NewGuard, Leases, s) = {}
  BY Amounts DEF Held, NewGuard
<1>2. Live(NewGuard) = {}
  BY Amounts DEF Live, NewGuard
<1>3. NewGuard \in Guard
  BY Amounts DEF NewGuard, Guard
<1>4. Cardinality({}) = 0
  BY FS_EmptySet
<1>5. \A d \in Devices : 0 = 0 * Needed(d) + 0 * Growth(d)
  BY Amounts
<1>6. Balanced(NewGuard)
  BY <1>1, <1>2, <1>4, <1>5 DEF Balanced, NewGuard
<1>. QED BY <1>3, <1>6 DEF GuardOK, NewGuard

----------------------------------------------------------------------------
\* Claims with slots of their own are no more than the slots in use.
LEMMA ClaimsFit ==
  ASSUME NEW g \in Guard, NEW C \in SUBSET Leases, \A h \in C : g.lease[h] # NoSlot,
         \A h, k \in C : g.lease[h] = g.lease[k] => h = k
  PROVE  IsFiniteSet(C) /\ Cardinality(C) \in Nat /\ Cardinality(C) <= Cardinality(Live(g))
<1>. DEFINE f == [h \in C |-> g.lease[h]]
<1>1. f \in [C -> Live(g)] /\ \A h, k \in C : f[h] = f[k] => h = k
  BY DEF Guard, Live
<1>2. f \in Injection(C, Live(g))
  BY <1>1 DEF Injection, IsInjective
<1>3. IsFiniteSet(Live(g))
  BY LiveFinite
<1>. HIDE DEF f
<1>. QED BY <1>2, <1>3, FS_Injection, LeasesFinite, FS_Subset, FS_CardinalityType

----------------------------------------------------------------------------
(* Files: what their uploads have made, and what leads back to them.       *)

Files == {"absent", "reserved", "complete"}
Places == {"none", "draft", "saved"}
RowsTyped ==
  /\ file \in [Uploads -> Files]
  /\ ledger \in [Uploads -> Row]
  /\ segment \in [Uploads -> Places]
  /\ upload \in [Uploads -> Upload]

\* What an upload that is under way has made: no segment before the end, no file
\* before the writer, and a file that is whole, or gone, after it.
UnderWay(u) ==
  /\ upload[u].pc \in {"idle", "admitted"} => upload[u].age = 0
  /\ upload[u].pc \in {"idle", "admitted", "recorded"} => file[u] = "absent"
  /\ upload[u].pc # "done" => segment[u] = "none"
  /\ upload[u].pc = "stored" => file[u] # "reserved"

\* Its row is as old as its upload, until both have reached the grace period.
RowStands(u) ==
  upload[u].pc \in {"recorded", "writing", "stored"} =>
    \/ ledger[u].reason = "orphan_cleanup" /\ ledger[u].age = upload[u].age
    \/ Outlived(u)

Kept(u) == segment[u] # "none" => file[u] = "complete"
Found(u) ==
  upload[u].pc = "done" /\ file[u] # "absent" /\ segment[u] = "none" =>
    ledger[u].reason # "none" \/ Outlived(u)

FileInv ==
  /\ RowsTyped
  /\ \A u \in Uploads : UnderWay(u) /\ RowStands(u) /\ Kept(u) /\ Found(u)

----------------------------------------------------------------------------
\* An age is a natural number up to the grace period, and stays one.
LEMMA AgesGrow ==
  /\ Grace \in Nat /\ Grace > 0 /\ 0 \in 0..Grace
  /\ \A n \in 0..Grace : Older(n, Grace) \in 0..Grace
  /\ Older(Grace, Grace) = Grace
BY GraceAssumption DEF GraceAssumption, Older, Positive

\* An upload moves to another point; its age and the other uploads stay.
Moved(u, pc) ==
  /\ upload' \in [Uploads -> Upload] /\ upload'[u].pc = pc
  /\ \A v \in Uploads : upload'[v].age = upload[v].age
  /\ \A v \in Uploads \ {u} : upload'[v] = upload[v]

\* How an action moves one upload.
LEMMA Moves ==
  ASSUME RowsTyped, NEW u \in Uploads
  PROVE  /\ \A r \in Recordings, shared \in BOOLEAN :
              Admitted(u, r, shared) => /\ Moved(u, "admitted")
                                        /\ upload'[u].rec = r /\ upload'[u].shared = shared
         /\ Failed(u) \/ Answered(u) => /\ Moved(u, "done") /\ upload'[u].shared = FALSE
         /\ \A pc \in {"recorded", "writing", "stored"} :
              upload' = [upload EXCEPT ![u].pc = pc] => Moved(u, pc)
<1>. USE DEF RowsTyped, Upload
<1>1. ASSUME NEW r \in Recordings, NEW shared \in BOOLEAN, Admitted(u, r, shared)
      PROVE  Moved(u, "admitted") /\ upload'[u].rec = r /\ upload'[u].shared = shared
  <2>1. [upload[u] EXCEPT !.pc = "admitted", !.rec = r, !.shared = shared] \in Upload
    OBVIOUS
  <2>2. upload' = [upload EXCEPT ![u] =
                    [upload[u] EXCEPT !.pc = "admitted", !.rec = r, !.shared = shared]]
    BY <1>1 DEF Admitted
  <2>. QED BY <2>1, <2>2 DEF Moved
<1>2. ASSUME Failed(u) \/ Answered(u)
      PROVE  Moved(u, "done") /\ upload'[u].shared = FALSE
  <2>1. upload[u] \in Upload /\ [upload[u] EXCEPT !.pc = "done", !.shared = FALSE] \in Upload
    OBVIOUS
  <2>2. upload' = [upload EXCEPT ![u] = [upload[u] EXCEPT !.pc = "done", !.shared = FALSE]]
    BY <1>2 DEF Failed, Answered
  <2>. QED BY <2>1, <2>2 DEF Moved
<1>3. ASSUME NEW pc \in {"recorded", "writing", "stored"}, upload' = [upload EXCEPT ![u].pc = pc]
      PROVE  Moved(u, pc)
  <2>1. upload[u] \in Upload /\ [upload[u] EXCEPT !.pc = pc] \in Upload
    OBVIOUS
  <2>2. upload' = [upload EXCEPT ![u] = [upload[u] EXCEPT !.pc = pc]]
    BY <1>3
  <2>. QED BY <2>1, <2>2 DEF Moved
<1>. QED BY <1>1, <1>2, <1>3

\* It is enough to look at the one upload that moves.
LEMMA OneUploadMoves ==
  ASSUME FileInv, NEW u \in Uploads, NEW pc, Moved(u, pc),
         file' \in [Uploads -> Files], ledger' \in [Uploads -> Row], segment' \in [Uploads -> Places],
         \A v \in Uploads \ {u} :
           file'[v] = file[v] /\ ledger'[v] = ledger[v] /\ segment'[v] = segment[v],
         UnderWay(u)' /\ RowStands(u)' /\ Kept(u)' /\ Found(u)'
  PROVE  FileInv'
<1>1. ASSUME NEW v \in Uploads \ {u}
      PROVE  UnderWay(v)' /\ RowStands(v)' /\ Kept(v)' /\ Found(v)'
  <2>1. /\ file'[v] = file[v] /\ ledger'[v] = ledger[v] /\ segment'[v] = segment[v]
        /\ upload'[v] = upload[v]
    BY DEF Moved
  <2>2. UnderWay(v) /\ RowStands(v) /\ Kept(v) /\ Found(v)
    BY DEF FileInv
  <2>. QED BY <2>1, <2>2 DEF UnderWay, RowStands, Kept, Found, Outlived
<1>2. RowsTyped'
  BY DEF RowsTyped, Moved
<1>. QED BY <1>1, <1>2 DEF FileInv

\* At first there is nothing.
LEMMA FileInit == Init => FileInv
BY AgesGrow DEF Init, FileInv, RowsTyped, UnderWay, RowStands, Kept, Found, Outlived,
   NoRow, Row, Upload, Files, Places

\* Each step of an upload keeps the invariant.
LEMMA UploadKeepsFiles ==
  ASSUME FileInv, NEW u \in Uploads, UploadStep(u)
  PROVE  FileInv'
<1>. DEFINE Same(v) == file'[v] = file[v] /\ ledger'[v] = ledger[v] /\ segment'[v] = segment[v]
            Parts(v) == UnderWay(v) /\ RowStands(v) /\ Kept(v) /\ Found(v)
<1>. USE DEF files, rows
<1>0. /\ file \in [Uploads -> Files] /\ ledger \in [Uploads -> Row]
      /\ segment \in [Uploads -> Places] /\ upload \in [Uploads -> Upload] /\ Parts(u)
  BY DEF FileInv, RowsTyped
<1>1. ASSUME NEW pc, Moved(u, pc), UNCHANGED <<file, ledger, segment>>, Parts(u)' PROVE FileInv'
  BY <1>0, <1>1, OneUploadMoves
<1>2. ASSUME NEW r \in Recordings,
             StartUpload(u, r) \/ StartSharedUpload(u, r) \/ StartLateUpload(u, r)
      PROVE  FileInv'
  <2>1. upload[u].pc = "idle" /\ UNCHANGED <<file, ledger, segment>>
    BY <1>2 DEF StartUpload, StartSharedUpload, StartLateUpload
  <2>2. PICK shared \in BOOLEAN : Admitted(u, r, shared)
    BY <1>2 DEF StartUpload, StartSharedUpload, StartLateUpload
  <2>3. Moved(u, "admitted")
    BY <2>2, Moves DEF FileInv
  <2>4. Parts(u)'
    BY <1>0, <2>1, <2>3 DEF Moved, UnderWay, RowStands, Kept, Found
  <2>. QED BY <1>1, <2>1, <2>3, <2>4
<1>3. ASSUME GiveUp(u) PROVE FileInv'
  <2>1. Moved(u, "done") /\ upload[u].pc \in {"admitted", "recorded"} /\ UNCHANGED <<file, ledger, segment>>
    BY <1>3, Moves DEF GiveUp, FileInv
  <2>2. Parts(u)'
    BY <1>0, <2>1 DEF Moved, UnderWay, RowStands, Kept, Found
  <2>. QED BY <1>1, <2>1, <2>2
<1>4. ASSUME RecordOrphan(u) PROVE FileInv'
  <2>1. Moved(u, "recorded") /\ upload[u].pc = "admitted" /\ UNCHANGED <<file, segment>>
    BY <1>4, Moves DEF RecordOrphan, FileInv
  <2>2. ledger' = [ledger EXCEPT ![u] = [reason |-> "orphan_cleanup", age |-> 0]]
    BY <1>4 DEF RecordOrphan
  <2>3. [reason |-> "orphan_cleanup", age |-> 0] \in Row
    BY AgesGrow DEF Row
  <2>4. /\ ledger' \in [Uploads -> Row] /\ ledger'[u] = [reason |-> "orphan_cleanup", age |-> 0]
        /\ \A v \in Uploads \ {u} : Same(v)
    BY <1>0, <2>1, <2>2, <2>3
  <2>5. Parts(u)'
    BY <1>0, <2>1, <2>4 DEF Moved, UnderWay, RowStands, Kept, Found
  <2>. QED BY <1>0, <2>1, <2>4, <2>5, OneUploadMoves
<1>5. ASSUME BeginWrite(u) PROVE FileInv'
  <2>1. Moved(u, "writing") /\ upload[u].pc = "recorded" /\ UNCHANGED <<ledger, segment>>
    BY <1>5, Moves DEF BeginWrite, FileInv
  <2>2. /\ file' \in [Uploads -> Files] /\ \A v \in Uploads \ {u} : Same(v)
    BY <1>0, <1>5, <2>1 DEF BeginWrite, Files
  <2>3. Parts(u)'
    BY <1>0, <2>1 DEF Moved, UnderWay, RowStands, Kept, Found, Outlived
  <2>. QED BY <1>0, <2>1, <2>2, <2>3, OneUploadMoves
<1>6. ASSUME WriteChunk(u) PROVE FileInv'
  <2>1. UNCHANGED <<file, ledger, segment, upload>>
    BY <1>6 DEF WriteChunk
  <2>. QED BY <2>1 DEF FileInv, RowsTyped, UnderWay, RowStands, Kept, Found, Outlived
<1>7. ASSUME FinishWrite(u) PROVE FileInv'
  <2>1. Moved(u, "stored") /\ upload[u].pc = "writing" /\ UNCHANGED <<ledger, segment>>
    BY <1>7, Moves DEF FinishWrite, FileInv
  <2>2. /\ file' \in [Uploads -> Files] /\ file'[u] = "complete" /\ \A v \in Uploads \ {u} : Same(v)
    BY <1>0, <1>7, <2>1 DEF FinishWrite, Files
  <2>3. Parts(u)'
    BY <1>0, <2>1, <2>2 DEF Moved, UnderWay, RowStands, Kept, Found, Outlived
  <2>. QED BY <1>0, <2>1, <2>2, <2>3, OneUploadMoves
<1>8. ASSUME NEW removed \in BOOLEAN, FailWrite(u, removed) PROVE FileInv'
  <2>1. Moved(u, "done") /\ upload[u].pc = "writing" /\ UNCHANGED <<ledger, segment>>
    BY <1>8, Moves DEF FailWrite, FileInv
  <2>2. file' = file \/ file' = [file EXCEPT ![u] = "absent"]
    BY <1>8 DEF FailWrite
  <2>3. file' \in [Uploads -> Files] /\ \A v \in Uploads \ {u} : Same(v)
    BY <1>0, <2>1, <2>2 DEF Files
  <2>4. Parts(u)'
    BY <1>0, <2>1 DEF Moved, UnderWay, RowStands, Kept, Found, Outlived
  <2>. QED BY <1>0, <2>1, <2>3, <2>4, OneUploadMoves
<1>9. ASSUME CreateSegment(u) PROVE FileInv'
  <2>1. Moved(u, "done") /\ upload[u].pc = "stored" /\ file[u] # "absent" /\ UNCHANGED file
    BY <1>9, Moves DEF CreateSegment, Answered, FileInv
  <2>2. segment' = [segment EXCEPT ![u] = "draft"] /\ ledger' = [ledger EXCEPT ![u] = NoRow]
    BY <1>9 DEF CreateSegment
  <2>3. NoRow \in Row /\ "draft" \in Places
    BY AgesGrow DEF NoRow, Row, Places
  <2>4. /\ ledger' \in [Uploads -> Row] /\ segment' \in [Uploads -> Places]
        /\ segment'[u] = "draft" /\ \A v \in Uploads \ {u} : Same(v)
    BY <1>0, <2>1, <2>2, <2>3
  <2>5. file[u] = "complete"
    BY <1>0, <2>1 DEF UnderWay, Files
  <2>6. Parts(u)'
    BY <2>1, <2>4, <2>5 DEF Moved, UnderWay, RowStands, Kept, Found
  <2>. QED BY <1>0, <2>1, <2>4, <2>6, OneUploadMoves
<1>10. ASSUME RefuseSegment(u) PROVE FileInv'
  <2>1. Moved(u, "done") /\ upload[u].pc = "stored" /\ UNCHANGED <<file, ledger, segment>>
    BY <1>10, Moves DEF RefuseSegment, Answered, FileInv
  <2>2. Parts(u)'
    BY <1>0, <2>1 DEF Moved, UnderWay, RowStands, Kept, Found, Outlived
  <2>. QED BY <1>1, <2>1, <2>2
<1>. QED
  BY <1>2, <1>3, <1>4, <1>5, <1>6, <1>7, <1>8, <1>9, <1>10 DEF UploadStep, UploadEnds

\* Every action keeps the invariant.
LEMMA FileStep == FileInv /\ [Next]_vars => FileInv'
<1>. SUFFICES ASSUME FileInv, [Next]_vars PROVE FileInv'
  OBVIOUS
<1>. USE AgesGrow DEF FileInv, RowsTyped, UnderWay, RowStands, Kept, Found, Outlived, files, rows,
     NoRow, Row, Upload, Files, Places
<1>10. ASSUME NEW r \in Recordings, OpenAttempt(r) \/ CloseAttempt(r) PROVE FileInv'
  BY <1>10 DEF OpenAttempt, CloseAttempt
<1>11. ASSUME NEW r \in Recordings, NEW b \in BOOLEAN, EndAttempt(r, b) PROVE FileInv'
  <2>1. \A v \in Uploads : /\ upload'[v] \in Upload /\ upload'[v].pc = upload[v].pc
                           /\ upload'[v].age = upload[v].age
    <3>1. TAKE v \in Uploads
    <3>2. CASE upload[v].rec = r
      <4>1. upload'[v] = [upload[v] EXCEPT !.shared = FALSE]
        BY <1>11, <3>2 DEF EndAttempt
      <4>2. upload[v] \in Upload
        OBVIOUS
      <4>3. [upload[v] EXCEPT !.shared = FALSE] \in Upload
        BY <4>2
      <4>4. /\ [upload[v] EXCEPT !.shared = FALSE].pc = upload[v].pc
            /\ [upload[v] EXCEPT !.shared = FALSE].age = upload[v].age
        BY <4>2
      <4>. QED BY <4>1, <4>3, <4>4
    <3>3. CASE upload[v].rec # r
      <4>1. upload'[v] = upload[v]
        BY <1>11, <3>3 DEF EndAttempt
      <4>. QED BY <4>1
    <3>. QED BY <3>2, <3>3
  <2>2. upload' \in [Uploads -> Upload]
    BY <1>11, <2>1 DEF EndAttempt
  <2>. QED BY <1>11, <2>1, <2>2 DEF EndAttempt
<1>12. ASSUME NEW S, S \subseteq Uploads, \A u \in S : segment[u] # "none", Condemned(S) PROVE FileInv'
  BY <1>12 DEF Condemned
<1>13. ASSUME NEW o, SaveDraft(o) PROVE FileInv'
  BY <1>13 DEF SaveDraft, SegmentsOf
<1>14. ASSUME DrainSelect \/ DrainEnds \/ Denied PROVE FileInv'
  BY <1>14 DEF DrainSelect, DrainEnds, Denied
<1>15. ASSUME NEW u \in Uploads, DrainOne(u) PROVE FileInv'
  BY <1>15 DEF DrainOne, Deletable
<1>16. ASSUME NEW u \in Uploads, DrainSkips(u) PROVE FileInv'
  BY <1>16 DEF DrainSkips
<1>17. ASSUME NEW t \in Texts, ReserveText(t) \/ WriteText(t) PROVE FileInv'
  BY <1>17 DEF ReserveText, WriteText
<1>18. ASSUME Tick PROVE FileInv'
  <2>1. UNCHANGED <<file, segment>>
    BY <1>18 DEF Tick
  <2>2. ASSUME NEW v \in Uploads
        PROVE  /\ upload'[v] \in Upload /\ upload'[v].pc = upload[v].pc
               /\ upload'[v].age = IF upload[v].pc \in {"recorded", "writing", "stored"}
                                    THEN Older(upload[v].age, Grace) ELSE upload[v].age
    BY <1>18 DEF Tick
  <2>3. ASSUME NEW v \in Uploads
        PROVE  /\ ledger'[v] \in Row /\ ledger'[v].reason = ledger[v].reason
               /\ ledger[v].reason # "none" => ledger'[v].age = Older(ledger[v].age, Grace)
    BY <1>18 DEF Tick
  <2>4. upload' \in [Uploads -> Upload] /\ ledger' \in [Uploads -> Row]
    BY <1>18, <2>2, <2>3 DEF Tick
  <2>. QED BY <2>1, <2>2, <2>3, <2>4
<1>19. ASSUME Restart PROVE FileInv'
  <2>1. UNCHANGED <<file, ledger, segment>>
    BY <1>19 DEF Restart
  <2>2. ASSUME NEW v \in Uploads
        PROVE  /\ upload'[v] \in Upload /\ upload'[v].age = upload[v].age
               /\ upload'[v].pc = IF upload[v].pc = "idle" THEN "idle" ELSE "done"
    <3>1. CASE upload[v].pc = "idle"
      BY <1>19, <3>1 DEF Restart
    <3>2. CASE upload[v].pc # "idle"
      <4>1. upload'[v] = [upload[v] EXCEPT !.pc = "done", !.shared = FALSE]
        BY <1>19, <3>2 DEF Restart
      <4>2. upload[v] \in Upload
        OBVIOUS
      <4>. QED BY <3>2, <4>1, <4>2
    <3>. QED BY <3>1, <3>2
  <2>3. upload' \in [Uploads -> Upload]
    BY <1>19, <2>2 DEF Restart
  <2>. QED BY <2>1, <2>2, <2>3
<1>20. ASSUME UserStep PROVE FileInv'
  <2>1. ASSUME NEW u \in Uploads, DeleteFailedSegment(u) PROVE FileInv'
    BY <2>1, <1>12 DEF DeleteFailedSegment
  <2>2. ASSUME NEW o, DeleteDraft(o) PROVE FileInv'
    BY <2>2, <1>12 DEF DeleteDraft, SegmentsOf
  <2>3. ASSUME NEW S \in SUBSET Uploads, DeleteSaved(S) PROVE FileInv'
    BY <2>3, <1>12 DEF DeleteSaved
  <2>. QED BY <1>20, <1>13, <2>1, <2>2, <2>3 DEF UserStep
<1>21. CASE UNCHANGED vars
  BY <1>21 DEF vars
<1>22. ASSUME NEW u \in Uploads, UploadStep(u) PROVE FileInv'
  BY <1>22, UploadKeepsFiles
<1>23. ASSUME NEW r \in Recordings, AttemptStep(r) PROVE FileInv'
  BY <1>23, <1>10, <1>11 DEF AttemptStep
<1>24. ASSUME DrainStep PROVE FileInv'
  BY <1>24, <1>14, <1>15, <1>16 DEF DrainStep
<1>. QED BY <1>14, <1>17, <1>18, <1>19, <1>20, <1>21, <1>22, <1>23, <1>24 DEF Next

\* FileInv holds in every state: the inductive invariant of uploads, deletions and
\* drain (voice_routes.py, voice_repository.py, voice_deletions.py).
THEOREM FilesHold == Spec => []FileInv
<1>. QED BY FileInit, FileStep, PTL DEF Spec

\* A registered segment keeps its file, whatever a drain selected before it was
\* registered and however long its upload took.
THEOREM SegmentKeepsFile == Spec => []SegmentHasFile
<1>1. FileInv => SegmentHasFile
  BY DEF FileInv, Kept, SegmentHasFile
<1>. QED BY <1>1, FilesHold, PTL

\* What is on the disk belongs to a segment, to a row that condemns it, to an
\* upload under way, or to an upload that outlived its row.
THEOREM NothingForgotten == Spec => []NoFileForgotten
<1>1. FileInv => NoFileForgotten
  BY DEF FileInv, RowsTyped, UnderWay, Found, NoFileForgotten, Ended, Outlived
<1>. QED BY <1>1, FilesHold, PTL
----------------------------------------------------------------------------
(* Storage: who holds a slot, who may write, and the room for it.          *)

\* The same, one inequality at a time; leases of streams, requests and writers are not parked.
LEMMA Names ==
  /\ \A r \in Recordings : Stream(r) \in Leases /\ Parked(r) \in Leases /\ Unparked(Stream(r))
  /\ \A u \in Uploads : /\ Request(u) \in Leases /\ Writer(u) \in Leases
                        /\ Unparked(Request(u)) /\ Unparked(Writer(u))
  /\ \A r, q \in Recordings : /\ Stream(r) # Parked(q)
                              /\ Stream(r) = Stream(q) => r = q
                              /\ Parked(r) = Parked(q) => r = q
  /\ \A u, v \in Uploads : /\ Request(u) # Writer(v)
                           /\ Request(u) = Request(v) => u = v
                           /\ Writer(u) = Writer(v) => u = v
  /\ \A r \in Recordings, u \in Uploads :
       /\ Stream(r) # Request(u) /\ Stream(r) # Writer(u)
       /\ Parked(r) # Request(u) /\ Parked(r) # Writer(u)
<1>1. \A r \in Recordings, u \in Uploads :
       /\ Stream(r) # Request(u) /\ Stream(r) # Writer(u)
       /\ Parked(r) # Request(u) /\ Parked(r) # Writer(u)
  BY DEF Stream, Parked, Request, Writer
<1>. QED BY <1>1, LeaseNames DEF Unparked

\* A slot that is reserved was held by nobody, and what is reserved afterwards fits.
LEMMA Admitting ==
  ASSUME NEW g, GuardOK(g), NEW h \in Leases, g.lease[h] = NoSlot,
         NEW free \in [Devices -> Int], MayReserveVoice(g, free), NEW k, k = VoiceReserved(g, h)
  PROVE  /\ GuardOK(k) /\ k.growing = g.growing /\ k.lease[h] # NoSlot
         /\ \A x \in Leases \ {h} : k.lease[x] = g.lease[x] /\ k.lease[x] # k.lease[h]
         /\ free[VoiceDevice] >= MinFree + Cardinality(Live(k)) * VoiceBytes
                                 + Cardinality(k.growing) * Growth(VoiceDevice)
<1>. g.active < VoiceLimit
  BY DEF MayReserveVoice
<1>1. /\ GuardOK(k) /\ k.growing = g.growing /\ Cardinality(Live(k)) = Cardinality(Live(g)) + 1
  BY ReservingVoice
<1>2. PICK s \in Slots : /\ \A x \in Leases : g.lease[x] # s
                         /\ k.lease = [g.lease EXCEPT ![h] = s]
  BY ReservingVoice
<1>3. g \in Guard /\ Balanced(g) /\ g.lease \in [Leases -> Slots \cup {NoSlot}] /\ s # NoSlot
  BY Amounts DEF GuardOK, Guard
<1>4. free[VoiceDevice] >= MinFree + Cardinality(Live(k)) * VoiceBytes
                                 + Cardinality(k.growing) * Growth(VoiceDevice)
  <2>. DEFINE n == Cardinality(Live(g))
              m == Cardinality(g.growing) * Growth(VoiceDevice)
              N == Needed(VoiceDevice)
  <2>1. /\ VoiceDevice \in Devices /\ free[VoiceDevice] \in Int /\ MinFree \in Nat /\ VoiceBytes \in Nat
        /\ N \in Nat /\ N >= VoiceBytes /\ N > 0
    BY LimitsAssumption, DevicesAssumption DEF LimitsAssumption, DevicesAssumption, Positive, Needed
  <2>2. n \in Nat /\ m \in Nat
    BY <1>3, <2>1, LiveFinite, GrowingFinite, Amounts
  <2>3. g.reserved[VoiceDevice] = n * N + m
    BY <1>3, <2>1 DEF Balanced
  <2>4. free[VoiceDevice] - g.reserved[VoiceDevice] >= MinFree + N
    BY <2>1 DEF MayReserveVoice, Fits
  <2>. HIDE DEF n, m, N
  <2>5. n * N \in Nat /\ n * VoiceBytes \in Nat /\ n * N >= n * VoiceBytes
    BY <2>1, <2>2
  <2>6. (n + 1) * VoiceBytes = n * VoiceBytes + VoiceBytes
    BY <2>1, <2>2
  <2>7. free[VoiceDevice] >= MinFree + (n + 1) * VoiceBytes + m
    BY <2>1, <2>2, <2>3, <2>4, <2>5, <2>6
  <2>. QED BY <1>1, <2>7 DEF n, m
<1>. QED BY <1>1, <1>2, <1>3, <1>4

\* Sets of uploads and of leases are finite.
LEMMA SetsOfUploads ==
  ASSUME NEW S \in SUBSET Uploads
  PROVE  IsFiniteSet(S) /\ Cardinality(S) \in Nat
BY FiniteAssumption, FS_Subset, FS_CardinalityType, Zenon DEF FiniteAssumption
LEMMA SetsOfLeases ==
  ASSUME NEW S \in SUBSET Leases
  PROVE  IsFiniteSet(S) /\ Cardinality(S) \in Nat
BY LeasesFinite, FS_Subset, FS_CardinalityType, Zenon

\* A set from which one member goes, and to which at most another comes.
LEMMA Exchanged ==
  ASSUME NEW S, IsFiniteSet(S), NEW x \in S, NEW y, NEW T, T \subseteq (S \ {x}) \cup {y}
  PROVE  Cardinality(T) <= Cardinality(S)
<1>1. IsFiniteSet(S \ {x}) /\ Cardinality(S \ {x}) = Cardinality(S) - 1 /\ Cardinality(S) \in Nat
  BY FS_RemoveElement, FS_CardinalityType
<1>2. /\ IsFiniteSet((S \ {x}) \cup {y})
      /\ Cardinality((S \ {x}) \cup {y}) \in {Cardinality(S) - 1, Cardinality(S)}
  BY <1>1, FS_AddElement
<1>3. IsFiniteSet(T) /\ Cardinality(T) <= Cardinality((S \ {x}) \cup {y})
  BY <1>2, FS_Subset, Zenon
<1>. QED BY <1>1, <1>2, <1>3, FS_CardinalityType
LEMMA Removed ==
  ASSUME NEW S, IsFiniteSet(S), NEW x \in S, NEW T, T \subseteq S \ {x}
  PROVE  Cardinality(T) <= Cardinality(S) - 1
<1>1. IsFiniteSet(S \ {x}) /\ Cardinality(S \ {x}) = Cardinality(S) - 1 /\ Cardinality(S) \in Nat
  BY FS_RemoveElement, FS_CardinalityType
<1>3. IsFiniteSet(T) /\ Cardinality(T) <= Cardinality(S \ {x})
  BY <1>1, FS_Subset, Zenon
<1>. QED BY <1>1, <1>3, FS_CardinalityType
LEMMA Added ==
  ASSUME NEW S, IsFiniteSet(S), NEW y, NEW T, T \subseteq S \cup {y}
  PROVE  Cardinality(T) <= Cardinality(S) + 1
<1>2. /\ IsFiniteSet(S \cup {y}) /\ Cardinality(S) \in Nat
      /\ Cardinality(S \cup {y}) \in {Cardinality(S), Cardinality(S) + 1}
  BY FS_AddElement, FS_CardinalityType
<1>3. IsFiniteSet(T) /\ Cardinality(T) <= Cardinality(S \cup {y})
  BY <1>2, FS_Subset, Zenon
<1>. QED BY <1>2, <1>3, FS_CardinalityType
----------------------------------------------------------------------------
\* The types of what FileInv does not speak of.
Typed ==
  /\ part \in [Uploads -> 0..NoPart]
  /\ attempt \in [Recordings -> Attempt]
  /\ drain \in [on : BOOLEAN, rows : SUBSET Uploads]
  /\ dbBytes \in Nat

\* What is under way has a slot.
UnderWayPcs == {"admitted", "recorded", "writing", "stored"}
Holders ==
  /\ \A r \in Recordings : attempt[r].state = "open" => guard.lease[Stream(r)] # NoSlot
  /\ \A u \in Uploads : upload[u].pc \in UnderWayPcs => guard.lease[Request(u)] # NoSlot

\* An upload that writes under the lease of an attempt: the attempt is live, was
\* started by it, and its slot is the same.
Sharing ==
  \A u \in Uploads : upload[u].shared =>
    /\ upload[u].rec \in Recordings /\ upload[u].pc \in UnderWayPcs
    /\ attempt[upload[u].rec].state = "open" /\ attempt[upload[u].rec].started
    /\ guard.lease[Request(u)] = guard.lease[Stream(upload[u].rec)]

\* The leases that entitle to write one file.
Claims == {Parked(r) : r \in Recordings} \cup {Request(u) : u \in Uploads}
          \cup {Stream(r) : r \in {q \in Recordings : attempt[q].state = "open" /\ ~attempt[q].started}}
Distinct(l, C) == \A h, k \in C : l[h] = l[k] /\ l[h] # NoSlot => h = k
OneClaim == Distinct(guard.lease, Claims)

\* A part file is there while its writer writes, or was left by it; a file that is
\* complete has none.
Parts ==
  \A u \in Uploads : /\ part[u] # NoPart => upload[u].pc \in {"writing", "done"}
                     /\ file[u] = "complete" => part[u] = NoPart /\ upload[u].pc \in {"stored", "done"}

\* Files that are on the disk or being written, and those that may still be.
Counted == {u \in Uploads : file[u] = "complete" \/ upload[u].pc = "writing"}
Waiting == {h \in Claims : /\ guard.lease[h] # NoSlot
                           /\ \A u \in Uploads : h = Request(u) => upload[u].pc \in {"admitted", "recorded"}}
Committed == Cardinality(Counted) + Cardinality(Waiting)
\* Each disk has room for the reserve, for what is there, and for what may still come.
Room ==
  \A d \in Devices :
    Disk[d] >= MinFree + (IF d = VoiceDevice THEN Committed * VoiceBytes ELSE 0)
                       + (IF d = DbDevice THEN dbBytes ELSE 0)
                       + Cardinality(guard.growing) * Growth(d)

StorageInv ==
  /\ GuardOK(guard) /\ Typed
  /\ Quiet /\ Holders /\ Sharing /\ OneClaim /\ Parts /\ Room

\* At first there is nothing.
LEMMA StorageInit == Init => StorageInv
<1>. SUFFICES ASSUME Init PROVE StorageInv
  OBVIOUS
<1>1. GuardOK(guard) /\ guard.growing = {} /\ \A h \in Leases : guard.lease[h] = NoSlot
  BY Starting DEF Init
<1>2. Typed
  BY AgesGrow DEF Init, Typed, NoPart, NoAttempt, Attempt, NoDrain
<1>3. Quiet /\ Holders /\ Sharing /\ OneClaim /\ Parts
  BY <1>1, Names DEF Init, Quiet, Holders, Sharing, OneClaim, Distinct, Claims, Parts, NoAttempt, UnderWayPcs
<1>4. Counted = {} /\ Waiting = {}
  BY <1>1, Names DEF Init, Counted, Waiting, Claims, NoAttempt
<1>5. Committed = 0 /\ Cardinality(guard.growing) = 0
  BY <1>1, <1>4, FS_EmptySet DEF Committed
<1>6. Room
  <2>1. ASSUME NEW d \in Devices
        PROVE  /\ Disk[d] \in Nat /\ Disk[d] >= MinFree /\ MinFree \in Nat
               /\ 0 * VoiceBytes = 0 /\ 0 * Growth(d) = 0
    BY DiskAssumption, LimitsAssumption, Amounts DEF DiskAssumption, LimitsAssumption, Positive
  <2>. QED BY <1>5, <2>1 DEF Room, Init
<1>. QED BY <1>1, <1>2, <1>3, <1>6 DEF StorageInv

\* What becomes of the leases outside H: only parked ones may be lost.
Others(k, g, H) ==
  \A x \in Leases \ H : /\ k.lease[x] \in {NoSlot, g.lease[x]}
                        /\ Unparked(x) => k.lease[x] = g.lease[x]

\* The sets that Room counts are finite.
LEMMA Sets ==
  /\ Claims \subseteq Leases /\ Claims' \subseteq Leases
  /\ Counted \subseteq Uploads /\ Counted' \subseteq Uploads
  /\ Waiting \subseteq Claims /\ Waiting' \subseteq Claims'
  /\ IsFiniteSet(Counted) /\ IsFiniteSet(Counted') /\ IsFiniteSet(Waiting) /\ IsFiniteSet(Waiting')
  /\ Cardinality(Counted) \in Nat /\ Cardinality(Counted') \in Nat
  /\ Cardinality(Waiting) \in Nat /\ Cardinality(Waiting') \in Nat
  /\ Committed \in Nat /\ Committed' \in Nat
<1>1. /\ Claims \subseteq Leases /\ Claims' \subseteq Leases
      /\ Counted \subseteq Uploads /\ Counted' \subseteq Uploads
      /\ Waiting \subseteq Claims /\ Waiting' \subseteq Claims'
  BY Names DEF Claims, Counted, Waiting
<1>2. /\ Cardinality(Counted) \in Nat /\ Cardinality(Counted') \in Nat
      /\ IsFiniteSet(Counted) /\ IsFiniteSet(Counted')
  BY <1>1, SetsOfUploads
<1>3. /\ Cardinality(Waiting) \in Nat /\ Cardinality(Waiting') \in Nat
      /\ IsFiniteSet(Waiting) /\ IsFiniteSet(Waiting')
  BY <1>1, SetsOfLeases
<1>. QED BY <1>1, <1>2, <1>3 DEF Committed

\* The sizes are natural numbers.
LEMMA Sizes ==
  /\ MinFree \in Nat /\ VoiceBytes \in Nat /\ VoiceDevice \in Devices /\ DbDevice \in Devices
  /\ \A d \in Devices : Disk[d] \in Nat /\ Growth(d) \in Nat /\ Needed(d) \in Nat
  /\ \A d \in Devices : d # DbDevice => Growth(d) = 0
  /\ Needed(VoiceDevice) >= VoiceBytes /\ Growth(DbDevice) > 0
BY LimitsAssumption, DevicesAssumption, DiskAssumption
   DEF LimitsAssumption, DevicesAssumption, DiskAssumption, Positive, Growth, Needed

LEMMA Products ==
  ASSUME NEW a \in Nat, NEW b \in Nat, a <= b, NEW n \in Nat
  PROVE  a * n \in Nat /\ b * n \in Nat /\ a * n <= b * n
OBVIOUS

\* Room stays when no more is committed.
LEMMA RoomStays ==
  ASSUME Typed, GuardOK(guard), GuardOK(guard'), Room, Committed' <= Committed, dbBytes' = dbBytes,
         guard'.growing \in {guard.growing, {}}
  PROVE  Room'
<1>. SUFFICES ASSUME NEW d \in Devices
             PROVE  Disk[d] >= MinFree + (IF d = VoiceDevice THEN Committed' * VoiceBytes ELSE 0)
                               + (IF d = DbDevice THEN dbBytes' ELSE 0)
                               + Cardinality(guard'.growing) * Growth(d)
  BY DEF Room
<1>1. Committed' * VoiceBytes \in Nat /\ Committed * VoiceBytes \in Nat
      /\ Committed' * VoiceBytes <= Committed * VoiceBytes
  BY Sets, Sizes, Products
<1>2. /\ Cardinality(guard'.growing) \in Nat /\ Cardinality(guard.growing) \in Nat
      /\ Cardinality(guard'.growing) <= Cardinality(guard.growing)
  BY GrowingFinite, FS_EmptySet DEF GuardOK
<1>3. /\ Cardinality(guard'.growing) * Growth(d) \in Nat /\ Cardinality(guard.growing) * Growth(d) \in Nat
      /\ Cardinality(guard'.growing) * Growth(d) <= Cardinality(guard.growing) * Growth(d)
  BY <1>2, Sizes, Products
<1>4. dbBytes \in Nat /\ Disk[d] \in Nat /\ MinFree \in Nat
  BY Sizes DEF Typed
<1>5. Disk[d] >= MinFree + (IF d = VoiceDevice THEN Committed * VoiceBytes ELSE 0)
                       + (IF d = DbDevice THEN dbBytes ELSE 0)
                       + Cardinality(guard.growing) * Growth(d)
  BY DEF Room
<1>. QED BY <1>1, <1>3, <1>4, <1>5

\* What is free is what neither files nor texts take.
LEMMA FreeSpace ==
  ASSUME Typed
  PROVE  /\ Free \in [Devices -> Int]
         /\ Counted \subseteq OnDisk /\ Cardinality(Counted) <= Cardinality(OnDisk)
         /\ IsFiniteSet(OnDisk) /\ Cardinality(OnDisk) \in Nat
         /\ \A d \in Devices :
              Disk[d] >= Free[d] + (IF d = VoiceDevice THEN Cardinality(Counted) * VoiceBytes ELSE 0)
                                 + (IF d = DbDevice THEN dbBytes ELSE 0)
<1>1. Counted \subseteq OnDisk /\ OnDisk \subseteq Uploads
  BY DEF Counted, OnDisk
<1>2. IsFiniteSet(OnDisk) /\ Cardinality(OnDisk) \in Nat /\ Cardinality(Counted) <= Cardinality(OnDisk)
  BY <1>1, SetsOfUploads, FS_Subset
<1>3. /\ Cardinality(OnDisk) * VoiceBytes \in Nat /\ Cardinality(Counted) * VoiceBytes \in Nat
      /\ Cardinality(Counted) * VoiceBytes <= Cardinality(OnDisk) * VoiceBytes
  BY <1>2, Sets, Sizes, Products
<1>4. \A d \in Devices : Disk[d] \in Int /\ dbBytes \in Int
  BY Sizes DEF Typed
<1>5. Free \in [Devices -> Int]
  BY <1>3, <1>4 DEF Free
<1>6. ASSUME NEW d \in Devices
      PROVE  Disk[d] >= Free[d] + (IF d = VoiceDevice THEN Cardinality(Counted) * VoiceBytes ELSE 0)
                                 + (IF d = DbDevice THEN dbBytes ELSE 0)
  BY <1>3, <1>4 DEF Free
<1>. QED BY <1>1, <1>2, <1>5, <1>6

\* What may still be written is no more than the slots in use.
LEMMA WaitingFits ==
  ASSUME GuardOK(guard'), OneClaim'
  PROVE  /\ Cardinality(Waiting') <= Cardinality(Live(guard'))
         /\ Cardinality(Waiting') * VoiceBytes \in Nat /\ Cardinality(Live(guard')) \in Nat
         /\ Cardinality(Waiting') * VoiceBytes <= Cardinality(Live(guard')) * VoiceBytes
<1>1. Cardinality(Waiting') <= Cardinality(Live(guard'))
  <2>1. guard' \in Guard /\ Waiting' \subseteq Leases
    BY Sets DEF GuardOK
  <2>2. \A h, k \in Waiting' : guard'.lease[h] = guard'.lease[k] => h = k
    BY DEF OneClaim, Distinct, Waiting
  <2>3. \A h \in Waiting' : guard'.lease[h] # NoSlot
    BY DEF Waiting
  <2>. QED BY <2>1, <2>2, <2>3, ClaimsFit
<1>. QED BY <1>1, LiveFinite, Sets, Sizes, Products

\* Room for a file, when its slot was reserved where the disk had the space.
LEMMA RoomReserved ==
  ASSUME Typed, GuardOK(guard), GuardOK(guard'), OneClaim', Room,
         Counted' = Counted, dbBytes' = dbBytes, guard'.growing = guard.growing,
         Free[VoiceDevice] >= MinFree + Cardinality(Live(guard')) * VoiceBytes
                                      + Cardinality(guard'.growing) * Growth(VoiceDevice)
  PROVE  Room'
<1>. SUFFICES ASSUME NEW d \in Devices
             PROVE  Disk[d] >= MinFree + (IF d = VoiceDevice THEN Committed' * VoiceBytes ELSE 0)
                               + (IF d = DbDevice THEN dbBytes' ELSE 0)
                               + Cardinality(guard'.growing) * Growth(d)
  BY DEF Room
<1>2. /\ Cardinality(Waiting') * VoiceBytes \in Nat /\ Cardinality(Live(guard')) * VoiceBytes \in Nat
      /\ Cardinality(Waiting') * VoiceBytes <= Cardinality(Live(guard')) * VoiceBytes
  BY WaitingFits, LiveFinite, Sizes, Products
<1>3. Committed' * VoiceBytes = Cardinality(Counted) * VoiceBytes + Cardinality(Waiting') * VoiceBytes
      /\ Cardinality(Counted) * VoiceBytes \in Nat
  BY Sets, Sizes DEF Committed
<1>4. Cardinality(guard'.growing) * Growth(d) \in Nat
  BY GrowingFinite, Sizes DEF GuardOK
<1>5. dbBytes \in Nat /\ Disk[d] \in Nat /\ MinFree \in Nat /\ Free[d] \in Int
  BY Sizes, FreeSpace DEF Typed
<1>6. CASE d = VoiceDevice
  <2>1. Disk[d] >= Free[d] + Cardinality(Counted) * VoiceBytes + (IF d = DbDevice THEN dbBytes ELSE 0)
    BY <1>6, FreeSpace
  <2>2. Free[d] >= MinFree + Cardinality(Live(guard')) * VoiceBytes + Cardinality(guard'.growing) * Growth(d)
    BY <1>6
  <2>. QED BY <1>2, <1>3, <1>4, <1>5, <1>6, <2>1, <2>2
<1>7. CASE d # VoiceDevice
  BY <1>7 DEF Room
<1>. QED BY <1>6, <1>7

\* Room for a text, when it was reserved where the disk had the space.
LEMMA RoomForText ==
  ASSUME Typed, GuardOK(guard), OneClaim', Room, NEW t \in Texts, t \notin guard.growing,
         Committed' <= Committed, Counted' = Counted, dbBytes' = dbBytes,
         NEW e, GuardOK(e), e.growing = guard.growing, MayGrow(e, Free), guard' = GrowthReserved(e, t)
  PROVE  Room'
<1>. SUFFICES ASSUME NEW d \in Devices
             PROVE  Disk[d] >= MinFree + (IF d = VoiceDevice THEN Committed' * VoiceBytes ELSE 0)
                               + (IF d = DbDevice THEN dbBytes' ELSE 0)
                               + Cardinality(guard'.growing) * Growth(d)
  BY DEF Room
<1>1. GuardOK(guard') /\ guard'.lease = e.lease /\ guard'.growing = guard.growing \cup {t}
  BY Growing
<1>2. Live(guard') = Live(e)
  BY <1>1 DEF Live
<1>. DEFINE n == Cardinality(guard.growing)
            l == Cardinality(Live(e))
<1>3. Cardinality(guard'.growing) = n + 1 /\ n \in Nat /\ l \in Nat
  BY <1>1, GrowingFinite, LiveFinite, FS_AddElement DEF GuardOK
<1>4. Committed' * VoiceBytes = Cardinality(Counted) * VoiceBytes + Cardinality(Waiting') * VoiceBytes
      /\ Cardinality(Counted) * VoiceBytes \in Nat /\ Committed' * VoiceBytes \in Nat
  BY Sets, Sizes DEF Committed
<1>5. dbBytes \in Nat /\ Disk[d] \in Nat /\ MinFree \in Nat /\ Free[d] \in Int
  BY Sizes, FreeSpace DEF Typed
<1>6. CASE d = DbDevice
  <2>1. Disk[d] >= Free[d] + (IF d = VoiceDevice THEN Cardinality(Counted) * VoiceBytes ELSE 0) + dbBytes
    BY <1>6, FreeSpace
  <2>2. e.reserved[d] = l * Needed(d) + n * Growth(d)
    BY DEF GuardOK, Balanced
  <2>3. Free[d] - e.reserved[d] >= MinFree + Growth(d)
    BY <1>6, Sizes DEF MayGrow, Fits
  <2>4. n * Growth(d) \in Nat /\ (n + 1) * Growth(d) = n * Growth(d) + Growth(d) /\ Growth(d) \in Nat
    BY <1>3, Sizes
  <2>5. l * Needed(d) \in Nat
    BY <1>3, Sizes
  <2>6. CASE d = VoiceDevice
    <3>1. Cardinality(Waiting') * VoiceBytes <= l * VoiceBytes /\ Cardinality(Waiting') * VoiceBytes \in Nat
      BY <1>1, <1>2, WaitingFits
    <3>2. l * VoiceBytes <= l * Needed(d) /\ l * VoiceBytes \in Nat
      <4>1. VoiceBytes \in Nat /\ Needed(d) \in Nat /\ VoiceBytes <= Needed(d)
        BY <2>6, Sizes
      <4>. QED BY <1>3, <4>1
    <3>. HIDE DEF n, l
    <3>. QED BY <1>3, <1>4, <1>5, <1>6, <2>1, <2>2, <2>3, <2>4, <2>5, <2>6, <3>1, <3>2
  <2>7. CASE d # VoiceDevice
    <3>. HIDE DEF n, l
    <3>. QED BY <1>3, <1>5, <1>6, <2>1, <2>2, <2>3, <2>4, <2>5, <2>7
  <2>. QED BY <2>6, <2>7
<1>7. CASE d # DbDevice
  <2>1. Growth(d) = 0 /\ Cardinality(guard'.growing) * 0 = 0 /\ n * 0 = 0
    BY <1>3, <1>7, Sizes
  <2>2. Disk[d] >= MinFree + (IF d = VoiceDevice THEN Committed * VoiceBytes ELSE 0)
    BY <1>5, <1>7, <2>1, Sets, Sizes DEF Room
  <2>3. Committed' * VoiceBytes <= Committed * VoiceBytes /\ Committed * VoiceBytes \in Nat
    BY Sets, Sizes, Products
  <2>. QED BY <1>4, <1>5, <1>7, <2>1, <2>2, <2>3
<1>. QED BY <1>6, <1>7

\* A text has been written, or not: what it reserved covers it.
LEMMA RoomWhenWritten ==
  ASSUME Typed, GuardOK(guard), Room, NEW t \in Texts, t \in guard.growing, Committed' = Committed,
         guard'.growing = guard.growing \ {t}, dbBytes' \in {dbBytes, dbBytes + Growth(DbDevice)}
  PROVE  Room'
<1>. SUFFICES ASSUME NEW d \in Devices
             PROVE  Disk[d] >= MinFree + (IF d = VoiceDevice THEN Committed' * VoiceBytes ELSE 0)
                               + (IF d = DbDevice THEN dbBytes' ELSE 0)
                               + Cardinality(guard'.growing) * Growth(d)
  BY DEF Room
<1>. DEFINE n == Cardinality(guard.growing)
<1>1. n \in Nat /\ Cardinality(guard'.growing) = n - 1 /\ Cardinality(guard'.growing) \in Nat
  <2>1. IsFiniteSet(guard.growing) /\ n \in Nat
    BY GrowingFinite DEF GuardOK
  <2>. QED BY <2>1, FS_RemoveElement, FS_CardinalityType
<1>2. n * Growth(d) \in Nat /\ (n - 1) * Growth(d) = n * Growth(d) - Growth(d) /\ Growth(d) \in Nat
  BY <1>1, Sizes
<1>3. dbBytes \in Nat /\ Disk[d] \in Nat /\ MinFree \in Nat /\ Committed * VoiceBytes \in Nat
  BY Sets, Sizes DEF Typed
<1>4. Disk[d] >= MinFree + (IF d = VoiceDevice THEN Committed * VoiceBytes ELSE 0)
                       + (IF d = DbDevice THEN dbBytes ELSE 0) + n * Growth(d)
  BY DEF Room
<1>. HIDE DEF n
<1>5. CASE d = DbDevice
  BY <1>1, <1>2, <1>3, <1>4, <1>5
<1>6. CASE d # DbDevice
  <2>1. Growth(d) = 0
    BY <1>6, Sizes
  <2>. QED BY <1>1, <1>2, <1>3, <1>4, <1>6, <2>1
<1>. QED BY <1>5, <1>6

\* Steps that take no lease but parked ones and begin or end nothing.
LEMMA CalmStep ==
  ASSUME StorageInv, Typed', GuardOK(guard'), Others(guard', guard, {}), attempt' = attempt,
         \A u \in Uploads : /\ \/ upload'[u].pc = upload[u].pc
                               \/ upload[u].pc = "admitted" /\ upload'[u].pc = "recorded"
                            /\ upload'[u].rec = upload[u].rec /\ upload'[u].shared = upload[u].shared
                            /\ file'[u] = "complete" => file[u] = "complete"
                            /\ part'[u] # NoPart => part[u] # NoPart
  PROVE  /\ Quiet' /\ Holders' /\ Sharing' /\ OneClaim' /\ Parts'
         /\ Counted' \subseteq Counted /\ Waiting' \subseteq Waiting /\ Committed' <= Committed
<1>. USE DEF StorageInv
<1>1. /\ \A r \in Recordings : guard'.lease[Stream(r)] = guard.lease[Stream(r)]
      /\ \A u \in Uploads : /\ guard'.lease[Request(u)] = guard.lease[Request(u)]
                            /\ guard'.lease[Writer(u)] = guard.lease[Writer(u)]
  BY Names DEF Others
<1>2. Quiet'
  BY <1>1 DEF Quiet
<1>3. Holders'
  BY <1>1 DEF Holders, UnderWayPcs
<1>4. Sharing'
  BY <1>1 DEF Sharing, UnderWayPcs
<1>5. Claims' = Claims
  BY DEF Claims
<1>6. \A h \in Claims : guard'.lease[h] \in {NoSlot, guard.lease[h]}
  BY Sets DEF Others
<1>7. OneClaim'
  BY <1>5, <1>6 DEF OneClaim, Distinct
<1>8. Parts'
  BY DEF Parts
<1>9. Counted' \subseteq Counted
  BY DEF Counted
<1>10. Waiting' \subseteq Waiting
  <2>1. ASSUME NEW u \in Uploads, upload'[u].pc \in {"admitted", "recorded"}
        PROVE  upload[u].pc \in {"admitted", "recorded"}
    BY <2>1
  <2>. QED BY <1>5, <1>6, <2>1 DEF Waiting
<1>11. Cardinality(Counted') <= Cardinality(Counted) /\ Cardinality(Waiting') <= Cardinality(Waiting)
  BY <1>9, <1>10, Sets, FS_Subset, Zenon
<1>12. Committed' <= Committed
  BY <1>11, Sets DEF Committed
<1>. QED BY <1>2, <1>3, <1>4, <1>7, <1>8, <1>9, <1>10, <1>12

\* The handshake of an attempt reserves a slot for its stream.
LEMMA OpenStep ==
  ASSUME FileInv, StorageInv, NEW r \in Recordings, OpenAttempt(r)
  PROVE  StorageInv'
<1>. USE DEF StorageInv
<1>. DEFINE e == Expired(guard)
            h == Stream(r)
<1>1. /\ attempt[r].state = "none" /\ MayReserveVoice(e, Free) /\ guard' = VoiceReserved(e, h)
      /\ attempt' = [attempt EXCEPT ![r].state = "open"]
      /\ UNCHANGED <<file, part, upload, drain, dbBytes>>
  BY DEF OpenAttempt, files, rows
<1>2. /\ GuardOK(e) /\ e.growing = guard.growing /\ e.lease[h] = NoSlot /\ h \in Leases
      /\ \A x \in Leases : e.lease[x] \in {NoSlot, guard.lease[x]} /\ (Unparked(x) => e.lease[x] = guard.lease[x])
  BY <1>1, Expiring, Names DEF Quiet
<1>. HIDE DEF e, h
<1>3. /\ GuardOK(guard') /\ guard'.growing = guard.growing /\ guard'.lease[h] # NoSlot
      /\ \A x \in Leases \ {h} : guard'.lease[x] = e.lease[x] /\ guard'.lease[x] # guard'.lease[h]
      /\ Free[VoiceDevice] >= MinFree + Cardinality(Live(guard')) * VoiceBytes
                               + Cardinality(guard'.growing) * Growth(VoiceDevice)
  BY <1>1, <1>2, FreeSpace, Admitting
<1>4. /\ \A q \in Recordings \ {r} : /\ guard'.lease[Stream(q)] = guard.lease[Stream(q)]
                                     /\ attempt'[q] = attempt[q]
      /\ attempt'[r].state = "open" /\ attempt' \in [Recordings -> Attempt]
      /\ \A u \in Uploads : /\ guard'.lease[Request(u)] = guard.lease[Request(u)]
                            /\ guard'.lease[Writer(u)] = guard.lease[Writer(u)]
  BY <1>1, <1>2, <1>3, Names DEF h, Typed, Attempt
<1>5. Typed'
  BY <1>1, <1>4 DEF Typed
<1>6. Quiet' /\ Holders'
  BY <1>1, <1>3, <1>4 DEF Quiet, Holders, h
<1>7. Sharing'
  BY <1>1, <1>4 DEF Sharing
<1>8. OneClaim'
  <2>1. \A x \in Claims' : x \in Leases /\ (x # h => x \in Claims)
    BY <1>1, <1>4, Sets DEF Claims, h
  <2>. QED BY <1>2, <1>3, <2>1 DEF OneClaim, Distinct
<1>9. Parts' /\ Counted' = Counted
  BY <1>1 DEF Parts, Counted
<1>10. Room'
  BY <1>1, <1>3, <1>8, <1>9, RoomReserved
<1>. QED BY <1>3, <1>5, <1>6, <1>7, <1>8, <1>9, <1>10

\* The end of an attempt: its entitlement goes to the parked lease, or is over.
LEMMA EndStep ==
  ASSUME FileInv, FileInv', StorageInv, NEW r \in Recordings, NEW b \in BOOLEAN, EndAttempt(r, b)
  PROVE  StorageInv'
<1>. USE DEF StorageInv
<1>1. /\ attempt[r].state = "open"
      /\ guard' = IF b /\ ~attempt[r].started THEN Handed(guard, r, Stream(r)) ELSE guard
      /\ attempt' = [attempt EXCEPT ![r].state = "closing"]
      /\ UNCHANGED <<file, part, drain, dbBytes>>
  BY DEF EndAttempt, files, rows
<1>2. ASSUME NEW u \in Uploads
      PROVE  /\ upload'[u].pc = upload[u].pc /\ upload'[u].rec = upload[u].rec
             /\ upload'[u].shared => upload[u].shared /\ upload[u].rec # r
  <2>1. upload[u] \in Upload
    BY DEF FileInv, RowsTyped
  <2>2. upload'[u] = IF upload[u].rec = r THEN [upload[u] EXCEPT !.shared = FALSE] ELSE upload[u]
    BY DEF EndAttempt
  <2>. QED BY <2>1, <2>2 DEF Upload
<1>3. /\ GuardOK(guard') /\ guard'.growing = guard.growing
      /\ \A x \in Leases : /\ Unparked(x) => guard'.lease[x] = guard.lease[x]
                           /\ x # Parked(r) => guard'.lease[x] \in {NoSlot, guard.lease[x]}
      /\ IF b /\ ~attempt[r].started THEN guard'.lease[Parked(r)] = guard.lease[Stream(r)]
                                     ELSE guard'.lease[Parked(r)] = guard.lease[Parked(r)]
  BY <1>1, Names, HandingOver DEF Holders
<1>4. /\ \A q \in Recordings \ {r} : attempt'[q] = attempt[q]
      /\ attempt'[r].state = "closing" /\ attempt' \in [Recordings -> Attempt]
      /\ \A q \in Recordings : guard'.lease[Stream(q)] = guard.lease[Stream(q)]
      /\ \A u \in Uploads : /\ guard'.lease[Request(u)] = guard.lease[Request(u)]
                            /\ guard'.lease[Writer(u)] = guard.lease[Writer(u)]
  BY <1>1, <1>3, Names DEF Typed, Attempt
<1>5. Typed'
  BY <1>1, <1>4 DEF Typed
<1>6. Quiet' /\ Holders'
  BY <1>2, <1>4 DEF Quiet, Holders, UnderWayPcs
<1>7. Sharing'
  BY <1>2, <1>4 DEF Sharing, UnderWayPcs
<1>8. Parts' /\ Counted' = Counted
  BY <1>1, <1>2 DEF Parts, Counted
<1>9. Claims' \subseteq Claims /\ Stream(r) \notin Claims' /\ Parked(r) \in Claims
  BY <1>4, Names DEF Claims
<1>10. CASE b /\ ~attempt[r].started
  <2>1. Stream(r) \in Claims /\ guard.lease[Stream(r)] # NoSlot
    BY <1>1, <1>10 DEF Claims, Holders
  <2>2. \A x \in Claims' : /\ x # Parked(r) => /\ x \in Claims /\ x # Stream(r)
                                               /\ guard'.lease[x] \in {NoSlot, guard.lease[x]}
                           /\ x = Parked(r) => guard'.lease[x] = guard.lease[Stream(r)]
    BY <1>3, <1>9, <1>10, Sets
  <2>3. OneClaim'
    BY <2>1, <2>2 DEF OneClaim, Distinct
  <2>4. Stream(r) \in Waiting /\ Waiting' \subseteq (Waiting \ {Stream(r)}) \cup {Parked(r)}
    BY <1>2, <2>1, <2>2, Names DEF Waiting
  <2>5. Cardinality(Waiting') <= Cardinality(Waiting)
    BY <2>4, Sets, Exchanged
  <2>6. Committed' <= Committed
    BY <1>8, <2>5, Sets DEF Committed
  <2>7. Room'
    BY <1>1, <1>3, <2>6, RoomStays
  <2>. QED BY <1>3, <1>5, <1>6, <1>7, <1>8, <2>3, <2>7
<1>11. CASE ~(b /\ ~attempt[r].started)
  <2>1. guard' = guard
    BY <1>1, <1>11
  <2>2. OneClaim'
    BY <1>9, <2>1 DEF OneClaim, Distinct
  <2>3. Waiting' \subseteq Waiting
    BY <1>2, <1>9, <2>1 DEF Waiting
  <2>4. Cardinality(Waiting') <= Cardinality(Waiting)
    BY <2>3, Sets, FS_Subset, Zenon
  <2>6. Committed' <= Committed
    BY <1>8, <2>4, Sets DEF Committed
  <2>7. Room'
    BY <1>1, <1>3, <2>6, RoomStays
  <2>. QED BY <1>3, <1>5, <1>6, <1>7, <1>8, <2>2, <2>7
<1>. QED BY <1>10, <1>11

\* The cleanup of an attempt releases its stream, which entitles to nothing any more.
LEMMA CloseStep ==
  ASSUME FileInv, StorageInv, NEW r \in Recordings, CloseAttempt(r)
  PROVE  StorageInv'
<1>. USE DEF StorageInv
<1>1. /\ attempt[r].state = "closing" /\ guard' = Released(guard, {Stream(r)})
      /\ attempt' = [attempt EXCEPT ![r] = NoAttempt]
      /\ UNCHANGED <<file, part, upload, drain, dbBytes>>
  BY DEF CloseAttempt, files, rows
<1>2. /\ GuardOK(guard') /\ guard'.growing = guard.growing
      /\ guard'.lease = [h \in Leases |-> IF h \in {Stream(r)} THEN NoSlot ELSE guard.lease[h]]
  BY <1>1, Names, Releasing
<1>3. /\ guard'.lease[Stream(r)] = NoSlot
      /\ \A h \in Leases \ {Stream(r)} : guard'.lease[h] = guard.lease[h]
  BY <1>2, Names
<1>4. /\ \A q \in Recordings \ {r} : /\ attempt'[q] = attempt[q]
                                     /\ guard'.lease[Stream(q)] = guard.lease[Stream(q)]
      /\ attempt'[r].state = "none" /\ attempt' \in [Recordings -> Attempt]
      /\ \A u \in Uploads : /\ guard'.lease[Request(u)] = guard.lease[Request(u)]
                            /\ guard'.lease[Writer(u)] = guard.lease[Writer(u)]
  BY <1>1, <1>3, Names DEF Typed, Attempt, NoAttempt
<1>5. Typed'
  BY <1>1, <1>4 DEF Typed
<1>6. Quiet' /\ Holders'
  <2>1. Quiet'
    BY <1>1, <1>3, <1>4 DEF Quiet
  <2>2. Holders'
    BY <1>1, <1>4 DEF Holders
  <2>. QED BY <2>1, <2>2
<1>7. Sharing'
  <2>1. ASSUME NEW u \in Uploads, upload[u].shared
        PROVE  /\ upload[u].rec \in Recordings \ {r} /\ upload[u].pc \in UnderWayPcs
               /\ attempt[upload[u].rec].state = "open" /\ attempt[upload[u].rec].started
               /\ guard.lease[Request(u)] = guard.lease[Stream(upload[u].rec)]
    BY <1>1, <2>1 DEF Sharing
  <2>2. ASSUME NEW u \in Uploads, upload'[u].shared
        PROVE  /\ upload'[u].rec \in Recordings /\ upload'[u].pc \in UnderWayPcs
               /\ attempt'[upload'[u].rec].state = "open" /\ attempt'[upload'[u].rec].started
               /\ guard'.lease[Request(u)] = guard'.lease[Stream(upload'[u].rec)]
    <3>1. upload' = upload
      BY <1>1
    <3>. QED BY <1>4, <2>1, <2>2, <3>1
  <2>. QED BY <2>2, Zenon DEF Sharing
<1>8. Parts' /\ Counted' = Counted
  BY <1>1 DEF Parts, Counted
<1>9. Claims' \subseteq Claims /\ Stream(r) \notin Claims'
  BY <1>4, Names DEF Claims
<1>10. \A x \in Claims' : x \in Claims /\ guard'.lease[x] = guard.lease[x]
  BY <1>3, <1>9, Sets
<1>11. OneClaim'
  BY <1>10 DEF OneClaim, Distinct
<1>12. Waiting' \subseteq Waiting
  BY <1>1, <1>10 DEF Waiting
<1>13. Cardinality(Waiting') <= Cardinality(Waiting)
  BY <1>12, Sets, FS_Subset, Zenon
<1>14. Committed' <= Committed
  BY <1>8, <1>13, Sets DEF Committed
<1>15. Room'
  BY <1>1, <1>2, <1>14, RoomStays
<1>. QED BY <1>2, <1>5, <1>6, <1>7, <1>8, <1>11, <1>15

\* The leases of an upload's request and writer, and of everybody else.
LEMMA RequestMoves ==
  ASSUME NEW u \in Uploads, NEW k, NEW g, NEW H, Others(k, g, H), H \subseteq {Request(u), Writer(u)}
  PROVE  /\ \A r \in Recordings : k.lease[Stream(r)] = g.lease[Stream(r)]
         /\ \A v \in Uploads \ {u} : /\ k.lease[Request(v)] = g.lease[Request(v)]
                                     /\ k.lease[Writer(v)] = g.lease[Writer(v)]
         /\ Request(u) \notin H => k.lease[Request(u)] = g.lease[Request(u)]
         /\ Writer(u) \notin H => k.lease[Writer(u)] = g.lease[Writer(u)]
BY Names DEF Others

\* Leases that are released, and everybody else.
LEMMA ReleasedOthers ==
  ASSUME NEW g, GuardOK(g), NEW H \in SUBSET Leases, NEW k, k = Released(g, H)
  PROVE  /\ GuardOK(k) /\ k.growing = g.growing /\ \A h \in H : k.lease[h] = NoSlot
         /\ \A h \in Leases \ H : k.lease[h] = g.lease[h]
         /\ Others(k, g, H)
<1>1. /\ GuardOK(k) /\ k.growing = g.growing
      /\ k.lease = [h \in Leases |-> IF h \in H THEN NoSlot ELSE g.lease[h]]
  BY Releasing
<1>2. /\ \A h \in H : k.lease[h] = NoSlot
      /\ \A h \in Leases \ H : k.lease[h] = g.lease[h]
  BY <1>1
<1>. QED BY <1>1, <1>2 DEF Others

\* What every start of an upload leaves: it has a slot, and the attempts are as before.
LEMMA StartTyped ==
  ASSUME FileInv, StorageInv, NEW u \in Uploads, upload[u].pc = "idle", NEW r \in Recordings,
         Admitted(u, r, FALSE), UNCHANGED <<files, rows, attempt>>,
         GuardOK(guard'), Others(guard', guard, {Request(u)}), guard'.lease[Request(u)] # NoSlot
  PROVE  /\ Typed' /\ Quiet' /\ Holders' /\ Sharing' /\ Parts' /\ Counted' = Counted
         /\ Claims' = Claims /\ Request(u) \in Claims /\ Request(u) \notin Waiting
         /\ \A h \in Waiting' : h # Request(u) /\ guard.lease[h] # NoSlot => h \in Waiting
<1>. USE DEF StorageInv
<1>1. /\ Moved(u, "admitted") /\ upload'[u].rec = r /\ upload'[u].shared = FALSE
      /\ attempt' = attempt /\ file' = file /\ part' = part /\ drain' = drain /\ dbBytes' = dbBytes
  BY Moves DEF FileInv, files, rows
<1>2. /\ \A q \in Recordings : guard'.lease[Stream(q)] = guard.lease[Stream(q)]
      /\ \A v \in Uploads \ {u} : /\ guard'.lease[Request(v)] = guard.lease[Request(v)]
                                  /\ guard'.lease[Writer(v)] = guard.lease[Writer(v)]
      /\ guard'.lease[Writer(u)] = guard.lease[Writer(u)]
  BY Names, RequestMoves
<1>3. \A v \in Uploads \ {u} : upload'[v] = upload[v]
  BY <1>1 DEF Moved
<1>4. upload'[u].pc = "admitted"
  BY <1>1 DEF Moved
<1>5. Typed'
  BY <1>1 DEF Typed
<1>6. Quiet' /\ Holders'
  BY <1>1, <1>2, <1>3, <1>4 DEF Quiet, Holders, UnderWayPcs
<1>7. Sharing'
  BY <1>1, <1>2, <1>3, <1>4 DEF Sharing, UnderWayPcs
<1>8. Parts'
  BY <1>1, <1>3, <1>4 DEF Parts
<1>9. Counted' = Counted
  BY <1>1, <1>3, <1>4 DEF Counted
<1>10. Claims' = Claims /\ Request(u) \in Claims /\ Request(u) \notin Waiting
  BY <1>1 DEF Claims, Waiting
<1>11. \A h \in Waiting' : h # Request(u) /\ guard.lease[h] # NoSlot => h \in Waiting
  BY <1>3, <1>10, Names DEF Waiting
<1>. QED BY <1>5, <1>6, <1>7, <1>8, <1>9, <1>10, <1>11

\* A recorded file, or the recording of an attempt that has parked nothing: new capacity.
LEMMA StartStep ==
  ASSUME FileInv, StorageInv, NEW u \in Uploads, upload[u].pc = "idle", NEW r \in Recordings,
         Admitted(u, r, FALSE), UNCHANGED <<files, rows, attempt>>,
         NEW e, GuardOK(e), e.growing = guard.growing, e.lease[Request(u)] = NoSlot,
         Others(e, guard, {Request(u)}), MayReserveVoice(e, Free), guard' = VoiceReserved(e, Request(u))
  PROVE  StorageInv'
<1>. USE DEF StorageInv
<1>. DEFINE h == Request(u)
<1>1. h \in Leases
  BY Names
<1>2. /\ GuardOK(guard') /\ guard'.growing = guard.growing /\ guard'.lease[h] # NoSlot
      /\ \A x \in Leases \ {h} : guard'.lease[x] = e.lease[x] /\ guard'.lease[x] # guard'.lease[h]
      /\ Free[VoiceDevice] >= MinFree + Cardinality(Live(guard')) * VoiceBytes
                               + Cardinality(guard'.growing) * Growth(VoiceDevice)
  BY <1>1, FreeSpace, Admitting
<1>3. Others(guard', guard, {h})
  BY <1>2 DEF Others
<1>4. /\ Typed' /\ Quiet' /\ Holders' /\ Sharing' /\ Parts' /\ Counted' = Counted /\ Claims' = Claims
  BY <1>2, <1>3, StartTyped
<1>5. OneClaim'
  <2>1. \A x \in Claims' : x \in Leases /\ x \in Claims
    BY <1>4, Sets
  <2>2. \A x \in Claims' \ {h} : /\ guard'.lease[x] \in {NoSlot, guard.lease[x]}
                                 /\ guard'.lease[x] # guard'.lease[h]
    BY <1>2, <1>3, <2>1 DEF Others
  <2>. HIDE DEF h
  <2>. QED BY <1>2, <2>1, <2>2 DEF OneClaim, Distinct
<1>6. dbBytes' = dbBytes
  BY DEF rows
<1>7. Room'
  BY <1>2, <1>4, <1>5, <1>6, RoomReserved
<1>. QED BY <1>2, <1>4, <1>5, <1>7

\* The recording of an attempt that has parked its slot: the upload takes it over.
LEMMA TakeOverStep ==
  ASSUME FileInv, StorageInv, NEW u \in Uploads, upload[u].pc = "idle", NEW r \in Recordings,
         Admitted(u, r, FALSE), UNCHANGED <<files, rows, attempt>>,
         guard' = TakenOver(guard, r, Request(u)), guard'.lease[Request(u)] # NoSlot
  PROVE  StorageInv'
<1>. USE DEF StorageInv
<1>. DEFINE h == Request(u)
            p == Parked(r)
<1>1. h \in Leases /\ Unparked(h) /\ guard.lease[h] = NoSlot /\ p \in Leases /\ p # h /\ p \in Claims
  BY Names DEF Quiet, Claims
<1>2. /\ GuardOK(guard') /\ guard'.growing = guard.growing /\ guard'.lease[p] = NoSlot
      /\ guard'.lease[h] \in {NoSlot, guard.lease[p]}
      /\ Others(guard', guard, {h})
  BY <1>1, TakingOver DEF Others
<1>3. /\ Typed' /\ Quiet' /\ Holders' /\ Sharing' /\ Parts' /\ Counted' = Counted
      /\ Claims' = Claims /\ h \in Claims /\ h \notin Waiting
      /\ \A x \in Waiting' : x # h /\ guard.lease[x] # NoSlot => x \in Waiting
  BY <1>2, StartTyped
<1>4. \A x \in Claims' \ {h} : /\ x \in Claims /\ guard'.lease[x] \in {NoSlot, guard.lease[x]}
  BY <1>2, <1>3, Sets DEF Others
<1>5. p \in Waiting
  BY <1>1, <1>2, Names DEF Waiting
<1>. HIDE DEF h, p
<1>6. OneClaim'
  BY <1>1, <1>2, <1>4 DEF OneClaim, Distinct, h
<1>7. Waiting' \subseteq (Waiting \ {p}) \cup {h}
  <2>1. \A x \in Waiting' : x \in Claims' /\ guard'.lease[x] # NoSlot
    BY DEF Waiting
  <2>. QED BY <1>2, <1>3, <1>4, <2>1
<1>8. Cardinality(Waiting') <= Cardinality(Waiting)
  BY <1>5, <1>7, Sets, Exchanged
<1>9. Committed' <= Committed /\ dbBytes' = dbBytes
  BY <1>3, <1>8, Sets DEF Committed, rows
<1>10. Room'
  BY <1>2, <1>9, RoomStays
<1>. QED BY <1>2, <1>3, <1>6, <1>10

\* The recording of a live attempt: the request takes its entitlement.
LEMMA ShareStep ==
  ASSUME FileInv, StorageInv, NEW u \in Uploads, NEW r \in Recordings, StartSharedUpload(u, r)
  PROVE  StorageInv'
<1>. USE DEF StorageInv
<1>. DEFINE h == Request(u)
            s == Stream(r)
<1>1. /\ upload[u].pc = "idle" /\ attempt[r].state = "open" /\ ~attempt[r].started
      /\ guard' = Forked(guard, s, h)
      /\ attempt' = [attempt EXCEPT ![r].started = TRUE]
      /\ file' = file /\ part' = part /\ drain' = drain /\ dbBytes' = dbBytes
  BY DEF StartSharedUpload, files, rows
<1>2. Moved(u, "admitted") /\ upload'[u].rec = r /\ upload'[u].shared = TRUE
  BY Moves DEF StartSharedUpload, FileInv
<1>3. h \in Leases /\ s \in Leases /\ h # s /\ guard.lease[h] = NoSlot /\ guard.lease[s] # NoSlot
  BY <1>1, Names DEF Quiet, Holders
<1>4. /\ GuardOK(guard') /\ guard'.growing = guard.growing /\ guard'.lease[h] = guard.lease[s]
      /\ \A x \in Leases \ {h} : guard'.lease[x] = guard.lease[x]
  <2>1. /\ GuardOK(guard') /\ guard'.growing = guard.growing
        /\ guard'.lease = [guard.lease EXCEPT ![h] = guard.lease[s]]
    BY <1>1, <1>3, Forking
  <2>2. guard.lease \in [Leases -> Slots \cup {NoSlot}]
    BY DEF GuardOK, Guard
  <2>. QED BY <1>3, <2>1, <2>2
<1>5. /\ \A q \in Recordings : guard'.lease[Stream(q)] = guard.lease[Stream(q)]
      /\ \A v \in Uploads \ {u} : /\ guard'.lease[Request(v)] = guard.lease[Request(v)]
                                  /\ guard'.lease[Writer(v)] = guard.lease[Writer(v)]
      /\ guard'.lease[Writer(u)] = guard.lease[Writer(u)]
  BY <1>4, Names
<1>6. /\ attempt' \in [Recordings -> Attempt] /\ attempt'[r].started /\ attempt'[r].state = "open"
      /\ \A q \in Recordings \ {r} : attempt'[q] = attempt[q]
  BY <1>1 DEF Typed, Attempt
<1>7. upload'[u].pc = "admitted" /\ \A v \in Uploads \ {u} : upload'[v] = upload[v]
  BY <1>2 DEF Moved
<1>8. Typed'
  BY <1>1, <1>6 DEF Typed
<1>9. Quiet' /\ Holders'
  BY <1>1, <1>3, <1>4, <1>5, <1>6, <1>7 DEF Quiet, Holders, UnderWayPcs
<1>10. Sharing'
  BY <1>1, <1>2, <1>4, <1>5, <1>6, <1>7 DEF Sharing, UnderWayPcs
<1>11. Parts' /\ Counted' = Counted
  BY <1>1, <1>7 DEF Parts, Counted
<1>12. Claims' \subseteq Claims /\ s \in Claims /\ s \notin Claims' /\ h \in Claims
  BY <1>1, <1>6, Names DEF Claims
<1>13. \A x \in Claims' \ {h} : x \in Claims /\ x # s /\ guard'.lease[x] = guard.lease[x]
  BY <1>4, <1>12, Sets
<1>14. s \in Waiting
  BY <1>3, <1>12, Names DEF Waiting
<1>15. Waiting' \subseteq (Waiting \ {s}) \cup {h}
  <2>1. \A x \in Waiting' \ {h} : x \in Claims /\ x # s /\ guard.lease[x] # NoSlot
    BY <1>13 DEF Waiting
  <2>. QED BY <1>7, <2>1, Names DEF Waiting
<1>. HIDE DEF h, s
<1>16. OneClaim'
  BY <1>4, <1>12, <1>13 DEF OneClaim, Distinct
<1>17. Cardinality(Waiting') <= Cardinality(Waiting)
  BY <1>14, <1>15, Sets, Exchanged
<1>18. Committed' <= Committed
  BY <1>11, <1>17, Sets DEF Committed
<1>19. Room'
  BY <1>1, <1>4, <1>18, RoomStays
<1>. QED BY <1>4, <1>8, <1>9, <1>10, <1>11, <1>16, <1>19

\* A request that fails: the attempt whose slot it used, if it lives, is entitled again.
LEMMA FailStep ==
  ASSUME FileInv, StorageInv, NEW u \in Uploads, Failed(u), drain' = drain, dbBytes' = dbBytes,
         upload[u].pc \in {"admitted", "recorded", "writing"}, part' \in [Uploads -> 0..NoPart],
         \A v \in Uploads \ {u} : file'[v] = file[v] /\ part'[v] = part[v],
         \/ file'[u] = file[u] /\ part'[u] = part[u]
         \/ file'[u] = "absent" /\ part'[u] = NoPart
  PROVE  StorageInv'
<1>. USE DEF StorageInv
<1>. DEFINE h == Request(u)
            q == upload[u].rec
            s == Stream(q)
<1>1. /\ guard' = Released(guard, {h, Writer(u)})
      /\ attempt' = IF upload[u].shared THEN [attempt EXCEPT ![q].started = FALSE] ELSE attempt
  BY DEF Failed
<1>2. upload'[u].pc = "done" /\ upload'[u].shared = FALSE /\ \A v \in Uploads \ {u} : upload'[v] = upload[v]
  BY Moves DEF FileInv, Moved
<1>3. h \in Leases /\ Writer(u) \in Leases /\ h # Writer(u) /\ guard.lease[h] # NoSlot /\ h \in Claims
  BY Names DEF Holders, UnderWayPcs, Claims
<1>4. /\ GuardOK(guard') /\ guard'.growing = guard.growing
      /\ guard'.lease[h] = NoSlot /\ guard'.lease[Writer(u)] = NoSlot
      /\ \A x \in Leases \ {h, Writer(u)} : guard'.lease[x] = guard.lease[x]
      /\ Others(guard', guard, {h, Writer(u)})
  BY <1>1, <1>3, ReleasedOthers
<1>5. /\ \A r \in Recordings : guard'.lease[Stream(r)] = guard.lease[Stream(r)]
      /\ \A v \in Uploads \ {u} : /\ guard'.lease[Request(v)] = guard.lease[Request(v)]
                                  /\ guard'.lease[Writer(v)] = guard.lease[Writer(v)]
  BY <1>4, RequestMoves
<1>6. upload[u].shared => /\ q \in Recordings /\ attempt[q].state = "open" /\ attempt[q].started
                          /\ guard.lease[h] = guard.lease[s] /\ s \in Leases
  BY Names DEF Sharing
<1>7. /\ attempt' \in [Recordings -> Attempt]
      /\ \A r \in Recordings : /\ attempt'[r].state = attempt[r].state
                               /\ attempt'[r].started = IF upload[u].shared /\ r = q THEN FALSE ELSE attempt[r].started
  <2>1. attempt \in [Recordings -> Attempt]
    BY DEF Typed
  <2>2. CASE upload[u].shared
    <3>1. [attempt[q] EXCEPT !.started = FALSE] \in Attempt /\ attempt[q] \in Attempt
      BY <1>6, <2>1, <2>2 DEF Attempt
    <3>2. attempt' = [attempt EXCEPT ![q] = [attempt[q] EXCEPT !.started = FALSE]]
      BY <1>1, <2>2
    <3>3. /\ [attempt[q] EXCEPT !.started = FALSE].state = attempt[q].state
          /\ [attempt[q] EXCEPT !.started = FALSE].started = FALSE
      BY <3>1 DEF Attempt
    <3>. QED BY <1>6, <2>1, <2>2, <3>1, <3>2, <3>3
  <2>3. CASE ~upload[u].shared
    BY <1>1, <2>1, <2>3
  <2>. QED BY <2>2, <2>3
<1>8. Typed'
  BY <1>7 DEF Typed
<1>9. Quiet' /\ Holders'
  <2>1. Quiet'
    <3>1. \A r \in Recordings : attempt'[r].state = "none" => guard'.lease[Stream(r)] = NoSlot
      BY <1>5, <1>7 DEF Quiet
    <3>2. \A v \in Uploads : /\ upload'[v].pc \in {"idle", "done"} => guard'.lease[Request(v)] = NoSlot
                             /\ upload'[v].pc # "writing" => guard'.lease[Writer(v)] = NoSlot
      BY <1>2, <1>4, <1>5 DEF Quiet
    <3>. QED BY <3>1, <3>2 DEF Quiet
  <2>2. Holders'
    BY <1>2, <1>5, <1>7 DEF Holders, UnderWayPcs
  <2>. QED BY <2>1, <2>2
<1>10. ASSUME NEW v \in Uploads \ {u}, upload[v].shared, upload[u].shared PROVE upload[v].rec # q
  <2>1. SUFFICES ASSUME upload[v].rec = q PROVE FALSE
    OBVIOUS
  <2>2. guard.lease[Request(v)] = guard.lease[h]
    BY <1>6, <1>10, <2>1 DEF Sharing
  <2>3. Request(v) \in Claims /\ Request(v) # h
    BY Names DEF Claims
  <2>. QED BY <1>3, <2>2, <2>3 DEF OneClaim, Distinct
<1>11. Sharing'
  <2>1. ASSUME NEW v \in Uploads, upload'[v].shared
        PROVE  /\ v # u /\ upload'[v] = upload[v] /\ upload[v].rec \in Recordings /\ upload[v].pc \in UnderWayPcs
               /\ attempt[upload[v].rec].state = "open" /\ attempt[upload[v].rec].started
               /\ guard.lease[Request(v)] = guard.lease[Stream(upload[v].rec)]
    BY <1>2, <2>1 DEF Sharing
  <2>2. ASSUME NEW v \in Uploads, upload'[v].shared
        PROVE  attempt'[upload[v].rec].started
    BY <1>7, <1>10, <2>1, <2>2
  <2>3. ASSUME NEW v \in Uploads, upload'[v].shared
        PROVE  /\ upload'[v].rec \in Recordings /\ upload'[v].pc \in UnderWayPcs
               /\ attempt'[upload'[v].rec].state = "open" /\ attempt'[upload'[v].rec].started
               /\ guard'.lease[Request(v)] = guard'.lease[Stream(upload'[v].rec)]
    <3>1. /\ v # u /\ upload'[v] = upload[v] /\ upload[v].rec \in Recordings /\ upload[v].pc \in UnderWayPcs
          /\ attempt[upload[v].rec].state = "open"
          /\ guard.lease[Request(v)] = guard.lease[Stream(upload[v].rec)]
      BY <2>1, <2>3
    <3>2. attempt'[upload[v].rec].started
      BY <2>2, <2>3
    <3>3. attempt'[upload[v].rec].state = "open"
      BY <1>7, <3>1
    <3>. QED BY <1>5, <3>1, <3>2, <3>3
  <2>. QED BY <2>3 DEF Sharing
<1>12. Parts'
  BY <1>2 DEF Parts
<1>13. Counted' \subseteq Counted /\ (upload[u].pc = "writing" => u \in Counted /\ u \notin Counted')
  BY <1>2 DEF Parts, Counted
<1>14. \A x \in Claims' : x \in Leases /\ (x \in Claims \/ (upload[u].shared /\ x = s))
  <2>1. \A r \in Recordings : attempt'[r].state = "open" /\ ~attempt'[r].started =>
          \/ attempt[r].state = "open" /\ ~attempt[r].started
          \/ upload[u].shared /\ r = q
    BY <1>7
  <2>2. \A x \in Claims' : x \in Claims \/ (upload[u].shared /\ x = s)
    BY <2>1 DEF Claims
  <2>. QED BY <2>2, Sets
<1>15. \A x \in Claims' : /\ x \in Claims => (x # h /\ guard'.lease[x] = guard.lease[x]) \/ guard'.lease[x] = NoSlot
                          /\ x \notin Claims => upload[u].shared /\ x = s /\ guard'.lease[x] = guard.lease[h]
  BY <1>4, <1>5, <1>6, <1>14
<1>16. upload[u].shared => s \notin Claims
  BY <1>6, Names DEF Claims
<1>17. \A x \in Waiting' : /\ x \in Claims => x \in Waiting \ {h}
                           /\ x \notin Claims => x = s
  <2>1. ASSUME NEW x \in Waiting' PROVE x \in Claims' /\ guard'.lease[x] # NoSlot
    BY DEF Waiting
  <2>2. ASSUME NEW x \in Waiting', x \in Claims PROVE x # h /\ guard.lease[x] # NoSlot
    BY <1>15, <2>1, <2>2
  <2>3. ASSUME NEW x \in Waiting', x \in Claims
        PROVE  \A v \in Uploads : x = Request(v) => upload[v].pc \in {"admitted", "recorded"}
    <3>1. \A v \in Uploads : x = Request(v) => upload'[v].pc \in {"admitted", "recorded"}
      BY DEF Waiting
    <3>. QED BY <1>2, <2>2, <2>3, <3>1
  <2>4. ASSUME NEW x \in Waiting', x \in Claims PROVE x \in Waiting \ {h}
    BY <2>2, <2>3, <2>4 DEF Waiting
  <2>. QED BY <1>15, <2>1, <2>4
<1>. HIDE DEF h, s, q
<1>18. OneClaim'
  BY <1>3, <1>15 DEF OneClaim, Distinct
<1>19. Committed' <= Committed
  <2>1. CASE upload[u].pc = "writing"
    <3>1. Cardinality(Counted') <= Cardinality(Counted) - 1
      <4>1. Counted' \subseteq Counted \ {u} /\ u \in Counted
        BY <1>13, <2>1
      <4>. QED BY <4>1, Sets, Removed
    <3>2. Waiting' \subseteq Waiting \cup {s}
      BY <1>17
    <3>3. Cardinality(Waiting') <= Cardinality(Waiting) + 1
      BY <3>2, Sets, Added
    <3>. QED BY <3>1, <3>3, Sets DEF Committed
  <2>2. CASE upload[u].pc # "writing"
    <3>1. h \in Waiting
      BY <1>3, <2>2, Names DEF Waiting, h
    <3>2. Waiting' \subseteq (Waiting \ {h}) \cup {s}
      BY <1>17
    <3>3. Cardinality(Waiting') <= Cardinality(Waiting)
      BY <3>1, <3>2, Sets, Exchanged
    <3>4. Cardinality(Counted') <= Cardinality(Counted)
      BY <1>13, Sets, FS_Subset, Zenon
    <3>. QED BY <3>3, <3>4, Sets DEF Committed
  <2>. QED BY <2>1, <2>2
<1>20. Room'
  BY <1>4, <1>19, RoomStays
<1>. QED BY <1>4, <1>8, <1>9, <1>11, <1>12, <1>18, <1>20

\* The writer begins: its file counts from now on, the request no longer waits.
LEMMA BeginStep ==
  ASSUME FileInv, StorageInv, NEW u \in Uploads, BeginWrite(u)
  PROVE  StorageInv'
<1>. USE DEF StorageInv
<1>. DEFINE h == Request(u)
            w == Writer(u)
<1>1. /\ upload[u].pc = "recorded" /\ guard' = Forked(guard, h, w)
      /\ file' = [file EXCEPT ![u] = "reserved"] /\ part' = [part EXCEPT ![u] = 0]
      /\ upload' = [upload EXCEPT ![u].pc = "writing"]
      /\ attempt' = attempt /\ drain' = drain /\ dbBytes' = dbBytes
  BY DEF BeginWrite, rows
<1>2. h \in Leases /\ w \in Leases /\ h # w /\ guard.lease[h] # NoSlot /\ guard.lease[w] = NoSlot
  BY <1>1, Names DEF Quiet, Holders, UnderWayPcs
<1>3. /\ GuardOK(guard') /\ guard'.growing = guard.growing
      /\ \A x \in Leases \ {w} : guard'.lease[x] = guard.lease[x]
  <2>1. /\ GuardOK(guard') /\ guard'.growing = guard.growing
        /\ guard'.lease = [guard.lease EXCEPT ![w] = guard.lease[h]]
    BY <1>1, <1>2, Forking
  <2>2. guard.lease \in [Leases -> Slots \cup {NoSlot}]
    BY DEF GuardOK, Guard
  <2>. QED BY <1>2, <2>1, <2>2
<1>4. /\ \A r \in Recordings : /\ guard'.lease[Stream(r)] = guard.lease[Stream(r)]
                               /\ guard'.lease[Parked(r)] = guard.lease[Parked(r)]
      /\ \A v \in Uploads : /\ guard'.lease[Request(v)] = guard.lease[Request(v)]
                            /\ v # u => guard'.lease[Writer(v)] = guard.lease[Writer(v)]
  BY <1>3, Names
<1>5. /\ \A v \in Uploads : /\ upload'[v].rec = upload[v].rec /\ upload'[v].shared = upload[v].shared
                            /\ v # u => /\ upload'[v].pc = upload[v].pc
                                        /\ file'[v] = file[v] /\ part'[v] = part[v]
      /\ upload'[u].pc = "writing" /\ file'[u] = "reserved" /\ part' \in [Uploads -> 0..NoPart]
  <2>1. upload \in [Uploads -> Upload] /\ file \in [Uploads -> Files] /\ 0 \in 0..NoPart
    BY AgesGrow DEF FileInv, RowsTyped, NoPart
  <2>. QED BY <1>1, <2>1 DEF Upload, Typed
<1>6. Typed'
  BY <1>1, <1>5 DEF Typed
<1>7. Quiet' /\ Holders'
  BY <1>1, <1>4, <1>5 DEF Quiet, Holders, UnderWayPcs
<1>8. Sharing'
  BY <1>1, <1>4, <1>5 DEF Sharing, UnderWayPcs
<1>9. Parts'
  BY <1>1, <1>5 DEF Parts
<1>10. Claims' = Claims /\ h \in Claims /\ \A x \in Claims : guard'.lease[x] = guard.lease[x]
  <2>1. Claims' = Claims /\ h \in Claims
    BY <1>1 DEF Claims
  <2>2. \A x \in Claims : x \in Leases /\ x # w
    BY Names, Sets DEF Claims
  <2>. QED BY <1>3, <2>1, <2>2
<1>11. OneClaim'
  BY <1>10 DEF OneClaim, Distinct
<1>12. h \in Waiting /\ Waiting' \subseteq Waiting \ {h}
  <2>1. h \in Waiting
    BY <1>1, <1>2, <1>10, Names DEF Waiting
  <2>2. ASSUME NEW x \in Waiting' PROVE x \in Waiting \ {h}
    <3>1. /\ x \in Claims /\ guard.lease[x] # NoSlot
          /\ \A v \in Uploads : x = Request(v) => upload'[v].pc \in {"admitted", "recorded"}
      BY <1>10 DEF Waiting
    <3>. QED BY <1>5, <3>1 DEF Waiting
  <2>. QED BY <2>1, <2>2
<1>13. Counted' \subseteq Counted \cup {u}
  BY <1>5 DEF Counted
<1>. HIDE DEF h
<1>14. Cardinality(Waiting') <= Cardinality(Waiting) - 1
  BY <1>12, Sets, Removed
<1>15. Cardinality(Counted') <= Cardinality(Counted) + 1
  BY <1>13, Sets, Added
<1>16. Committed' <= Committed
  BY <1>14, <1>15, Sets DEF Committed
<1>17. Room'
  BY <1>1, <1>3, <1>16, RoomStays
<1>. QED BY <1>3, <1>6, <1>7, <1>8, <1>9, <1>11, <1>17

\* The file is whole: the writer's lease is released, the file still counts.
LEMMA FinishStep ==
  ASSUME FileInv, StorageInv, NEW u \in Uploads, FinishWrite(u)
  PROVE  StorageInv'
<1>. USE DEF StorageInv
<1>. DEFINE w == Writer(u)
            q == upload[u].rec
<1>1. /\ upload[u].pc = "writing" /\ guard' = Released(guard, {w})
      /\ file' = [file EXCEPT ![u] = "complete"] /\ part' = [part EXCEPT ![u] = NoPart]
      /\ upload' = [upload EXCEPT ![u].pc = "stored"]
      /\ attempt' = IF upload[u].shared THEN [attempt EXCEPT ![q].completed = TRUE] ELSE attempt
      /\ drain' = drain /\ dbBytes' = dbBytes
  BY DEF FinishWrite, rows
<1>2. /\ GuardOK(guard') /\ guard'.growing = guard.growing /\ guard'.lease[w] = NoSlot
      /\ \A x \in Leases \ {w} : guard'.lease[x] = guard.lease[x]
  BY <1>1, Names, ReleasedOthers
<1>3. /\ \A r \in Recordings : guard'.lease[Stream(r)] = guard.lease[Stream(r)]
      /\ \A v \in Uploads : /\ guard'.lease[Request(v)] = guard.lease[Request(v)]
                            /\ v # u => guard'.lease[Writer(v)] = guard.lease[Writer(v)]
  BY <1>2, Names
<1>4. /\ \A v \in Uploads : /\ upload'[v].rec = upload[v].rec /\ upload'[v].shared = upload[v].shared
                            /\ v # u => /\ upload'[v].pc = upload[v].pc
                                        /\ file'[v] = file[v] /\ part'[v] = part[v]
      /\ upload'[u].pc = "stored" /\ file'[u] = "complete" /\ part'[u] = NoPart
      /\ part' \in [Uploads -> 0..NoPart]
  <2>1. upload \in [Uploads -> Upload] /\ file \in [Uploads -> Files] /\ NoPart \in 0..NoPart
    BY AgesGrow DEF FileInv, RowsTyped, NoPart
  <2>. QED BY <1>1, <2>1 DEF Upload, Typed
<1>5. /\ attempt' \in [Recordings -> Attempt]
      /\ \A r \in Recordings : attempt'[r].state = attempt[r].state /\ attempt'[r].started = attempt[r].started
  BY <1>1 DEF Typed, Attempt
<1>6. Typed'
  BY <1>1, <1>4, <1>5 DEF Typed
<1>7. Quiet' /\ Holders'
  <2>1. Quiet'
    BY <1>2, <1>3, <1>4, <1>5 DEF Quiet
  <2>2. upload[u].pc = "writing"
    BY <1>1
  <2>3. Holders'
    BY <1>3, <1>4, <1>5, <2>2 DEF Holders, UnderWayPcs
  <2>. QED BY <2>1, <2>3
<1>8. Sharing'
  <2>1. ASSUME NEW v \in Uploads, upload'[v].shared
        PROVE  /\ upload'[v].rec \in Recordings /\ upload'[v].pc \in UnderWayPcs
               /\ attempt'[upload'[v].rec].state = "open" /\ attempt'[upload'[v].rec].started
               /\ guard'.lease[Request(v)] = guard'.lease[Stream(upload'[v].rec)]
    <3>1. /\ upload[v].rec \in Recordings /\ upload[v].pc \in UnderWayPcs
          /\ attempt[upload[v].rec].state = "open" /\ attempt[upload[v].rec].started
          /\ guard.lease[Request(v)] = guard.lease[Stream(upload[v].rec)]
      BY <1>4, <2>1 DEF Sharing
    <3>2. upload'[v].pc \in UnderWayPcs
      BY <1>4, <3>1 DEF UnderWayPcs
    <3>. QED BY <1>3, <1>4, <1>5, <3>1, <3>2
  <2>. QED BY <2>1 DEF Sharing
<1>9. Parts' /\ Counted' = Counted
  BY <1>1, <1>4 DEF Parts, Counted
<1>10. Claims' = Claims /\ \A x \in Claims : guard'.lease[x] = guard.lease[x]
  <2>1. Claims' = Claims
    BY <1>5 DEF Claims
  <2>2. \A x \in Claims : x \in Leases /\ x # w
    BY Names, Sets DEF Claims
  <2>. QED BY <1>2, <2>1, <2>2
<1>11. OneClaim'
  BY <1>10 DEF OneClaim, Distinct
<1>12. Waiting' = Waiting
  <2>1. \A v \in Uploads : upload'[v].pc \in {"admitted", "recorded"} <=> upload[v].pc \in {"admitted", "recorded"}
    BY <1>1, <1>4
  <2>. QED BY <1>10, <2>1 DEF Waiting
<1>13. Committed' <= Committed
  BY <1>9, <1>12, Sets DEF Committed
<1>14. Room'
  BY <1>1, <1>2, <1>13, RoomStays
<1>. QED BY <1>2, <1>6, <1>7, <1>8, <1>9, <1>11, <1>14

\* The segment is registered or refused: the request releases its lease.
LEMMA AnswerStep ==
  ASSUME FileInv, StorageInv, NEW u \in Uploads, upload[u].pc = "stored", Answered(u),
         dbBytes' = dbBytes, drain' \in [on : BOOLEAN, rows : SUBSET Uploads]
  PROVE  StorageInv'
<1>. USE DEF StorageInv
<1>. DEFINE h == Request(u)
<1>1. guard' = Released(guard, {h}) /\ attempt' = attempt /\ file' = file /\ part' = part
  BY DEF Answered, files
<1>2. upload'[u].pc = "done" /\ upload'[u].shared = FALSE /\ \A v \in Uploads \ {u} : upload'[v] = upload[v]
  BY Moves DEF FileInv, Moved
<1>3. /\ GuardOK(guard') /\ guard'.growing = guard.growing /\ guard'.lease[h] = NoSlot
      /\ \A x \in Leases \ {h} : guard'.lease[x] = guard.lease[x]
  BY <1>1, Names, ReleasedOthers
<1>4. /\ \A r \in Recordings : guard'.lease[Stream(r)] = guard.lease[Stream(r)]
      /\ \A v \in Uploads : /\ v # u => guard'.lease[Request(v)] = guard.lease[Request(v)]
                            /\ guard'.lease[Writer(v)] = guard.lease[Writer(v)]
  BY <1>3, Names
<1>5. Typed'
  BY <1>1 DEF Typed
<1>6. Quiet' /\ Holders'
  <2>1. Quiet'
    <3>1. \A r \in Recordings : attempt'[r].state = "none" => guard'.lease[Stream(r)] = NoSlot
      BY <1>1, <1>4 DEF Quiet
    <3>2. \A v \in Uploads : /\ upload'[v].pc \in {"idle", "done"} => guard'.lease[Request(v)] = NoSlot
                             /\ upload'[v].pc # "writing" => guard'.lease[Writer(v)] = NoSlot
      BY <1>2, <1>3, <1>4 DEF Quiet
    <3>. QED BY <3>1, <3>2 DEF Quiet
  <2>2. Holders'
    BY <1>1, <1>2, <1>4 DEF Holders, UnderWayPcs
  <2>. QED BY <2>1, <2>2
<1>7. Sharing'
  <2>1. ASSUME NEW v \in Uploads, upload'[v].shared
        PROVE  /\ upload'[v].rec \in Recordings /\ upload'[v].pc \in UnderWayPcs
               /\ attempt'[upload'[v].rec].state = "open" /\ attempt'[upload'[v].rec].started
               /\ guard'.lease[Request(v)] = guard'.lease[Stream(upload'[v].rec)]
    <3>1. v # u /\ upload'[v] = upload[v] /\ attempt' = attempt
      BY <1>1, <1>2, <2>1
    <3>2. /\ upload[v].rec \in Recordings /\ upload[v].pc \in UnderWayPcs
          /\ attempt[upload[v].rec].state = "open" /\ attempt[upload[v].rec].started
          /\ guard.lease[Request(v)] = guard.lease[Stream(upload[v].rec)]
      BY <2>1, <3>1 DEF Sharing
    <3>. QED BY <1>4, <3>1, <3>2
  <2>. QED BY <2>1 DEF Sharing
<1>8. Parts' /\ Counted' = Counted
  BY <1>1, <1>2 DEF Parts, Counted
<1>9. Claims' = Claims /\ \A x \in Claims : guard'.lease[x] \in {NoSlot, guard.lease[x]}
  BY <1>1, <1>3, Sets DEF Claims
<1>10. OneClaim'
  BY <1>9 DEF OneClaim, Distinct
<1>11. Waiting' \subseteq Waiting
  BY <1>2, <1>9 DEF Waiting
<1>12. Cardinality(Waiting') <= Cardinality(Waiting)
  BY <1>11, Sets, FS_Subset, Zenon
<1>13. Committed' <= Committed
  BY <1>8, <1>12, Sets DEF Committed
<1>14. Room'
  BY <1>3, <1>13, RoomStays
<1>. QED BY <1>3, <1>5, <1>6, <1>7, <1>8, <1>10, <1>14

\* A restart forgets all capacity; files that were being written no longer are.
LEMMA RestartStep ==
  ASSUME FileInv, FileInv', StorageInv, Restart
  PROVE  StorageInv'
<1>. USE DEF StorageInv
<1>1. /\ guard' = NewGuard /\ drain' = NoDrain /\ file' = file /\ part' = part /\ dbBytes' = dbBytes
      /\ attempt' = [r \in Recordings |-> NoAttempt]
  BY DEF Restart, files
<1>2. ASSUME NEW v \in Uploads
      PROVE  /\ upload'[v].pc = IF upload[v].pc = "idle" THEN "idle" ELSE "done"
             /\ upload[v].pc # "idle" => upload'[v].shared = FALSE
             /\ upload[v].pc = "idle" => upload'[v] = upload[v]
  <2>1. upload[v] \in Upload
    BY DEF FileInv, RowsTyped
  <2>. QED BY <2>1 DEF Restart, Upload
<1>3. GuardOK(guard') /\ guard'.growing = {} /\ \A h \in Leases : guard'.lease[h] = NoSlot
  BY <1>1, Starting
<1>4. Typed'
  BY <1>1 DEF Typed, NoDrain, NoAttempt, Attempt
<1>5. Quiet' /\ Holders'
  BY <1>1, <1>2, <1>3, Names DEF Quiet, Holders, UnderWayPcs, NoAttempt
<1>6. Sharing'
  BY <1>2 DEF Sharing, UnderWayPcs
<1>7. OneClaim'
  BY <1>3, Sets DEF OneClaim, Distinct
<1>8. Parts' /\ Counted' \subseteq Counted
  BY <1>1, <1>2 DEF Parts, Counted
<1>9. Waiting' = {}
  BY <1>3, Sets DEF Waiting
<1>10. Cardinality(Counted') <= Cardinality(Counted) /\ Cardinality(Waiting') = 0
  BY <1>8, <1>9, Sets, FS_Subset, FS_EmptySet, Zenon
<1>11. Committed' <= Committed
  BY <1>10, Sets DEF Committed
<1>12. Room'
  BY <1>1, <1>3, <1>11, RoomStays
<1>. QED BY <1>3, <1>4, <1>5, <1>6, <1>7, <1>8, <1>12

\* Steps that leave capacity to the calm, and space as it is.
LEMMA QuietStep ==
  ASSUME StorageInv, Typed', GuardOK(guard'), Others(guard', guard, {}), attempt' = attempt,
         guard'.growing = guard.growing, dbBytes' = dbBytes,
         \A u \in Uploads : /\ \/ upload'[u].pc = upload[u].pc
                               \/ upload[u].pc = "admitted" /\ upload'[u].pc = "recorded"
                            /\ upload'[u].rec = upload[u].rec /\ upload'[u].shared = upload[u].shared
                            /\ file'[u] = "complete" => file[u] = "complete"
                            /\ part'[u] # NoPart => part[u] # NoPart
  PROVE  StorageInv'
<1>. USE DEF StorageInv
<1>1. Quiet' /\ Holders' /\ Sharing' /\ OneClaim' /\ Parts' /\ Committed' <= Committed
  BY CalmStep
<1>2. Room'
  BY <1>1, RoomStays
<1>. QED BY <1>1, <1>2

\* The same guard, and expiry, take nothing that is not parked.
LEMMA SameOthers == \A g : Others(g, g, {})
BY DEF Others
LEMMA ExpiredOthers ==
  ASSUME NEW g, GuardOK(g)
  PROVE  GuardOK(Expired(g)) /\ Expired(g).growing = g.growing /\ Others(Expired(g), g, {})
BY Expiring DEF Others

\* A text reserves and gives back capacity of its own.
LEMMA TextStep ==
  ASSUME FileInv, StorageInv, NEW t \in Texts, ReserveText(t) \/ WriteText(t)
  PROVE  StorageInv'
<1>. USE DEF StorageInv
<1>1. /\ file' = file /\ part' = part /\ upload' = upload /\ attempt' = attempt /\ drain' = drain
  BY DEF ReserveText, WriteText, files, rows
<1>2. CASE ReserveText(t)
  <2>. DEFINE e == Expired(guard)
  <2>1. /\ t \notin guard.growing /\ MayGrow(e, Free) /\ guard' = GrowthReserved(e, t) /\ dbBytes' = dbBytes
    BY <1>2 DEF ReserveText, rows
  <2>2. GuardOK(e) /\ e.growing = guard.growing /\ Others(e, guard, {})
    BY ExpiredOthers
  <2>. HIDE DEF e
  <2>3. GuardOK(guard') /\ guard'.lease = e.lease /\ Typed'
    BY <1>1, <2>1, <2>2, Growing DEF Typed
  <2>4. Others(guard', guard, {})
    BY <2>2, <2>3 DEF Others
  <2>5. /\ Quiet' /\ Holders' /\ Sharing' /\ OneClaim' /\ Parts' /\ Committed' <= Committed
    BY <1>1, <2>3, <2>4, CalmStep
  <2>6. Counted' = Counted
    BY <1>1 DEF Counted
  <2>7. Room'
    BY <2>1, <2>2, <2>5, <2>6, RoomForText
  <2>. QED BY <2>3, <2>5, <2>7
<1>3. CASE WriteText(t)
  <2>1. /\ t \in guard.growing /\ guard' = GrowthReleased(guard, t)
        /\ dbBytes' \in {dbBytes + 0, dbBytes + Growth(DbDevice)}
    BY <1>3 DEF WriteText
  <2>2. dbBytes' \in {dbBytes, dbBytes + Growth(DbDevice)} /\ dbBytes' \in Nat
    BY <2>1, Sizes DEF Typed
  <2>3. /\ GuardOK(guard') /\ guard'.lease = guard.lease /\ guard'.growing = guard.growing \ {t}
    BY <2>1, Grown
  <2>4. Typed'
    BY <1>1, <2>2 DEF Typed
  <2>5. Others(guard', guard, {})
    BY <2>3 DEF Others
  <2>6. /\ Quiet' /\ Holders' /\ Sharing' /\ OneClaim' /\ Parts'
    BY <1>1, <2>3, <2>4, <2>5, CalmStep
  <2>7. Counted' = Counted /\ Waiting' = Waiting
    BY <1>1, <2>3 DEF Counted, Waiting, Claims
  <2>8. Committed' = Committed
    BY <2>7 DEF Committed
  <2>9. Room'
    BY <2>1, <2>2, <2>3, <2>8, RoomWhenWritten
  <2>. QED BY <2>3, <2>4, <2>6, <2>9
<1>. QED BY <1>2, <1>3

\* Every action keeps the invariant.
LEMMA StorageStep == FileInv /\ FileInv' /\ StorageInv /\ [Next]_vars => StorageInv'
<1>. SUFFICES ASSUME FileInv, FileInv', StorageInv, [Next]_vars PROVE StorageInv'
  OBVIOUS
<1>. USE DEF StorageInv
<1>. USE SameOthers
<1>1. ASSUME NEW u \in Uploads, NEW r \in Recordings, StartUpload(u, r) PROVE StorageInv'
  <2>. DEFINE e == Expired(guard)
  <2>1. /\ upload[u].pc = "idle" /\ MayReserveVoice(e, Free) /\ guard' = VoiceReserved(e, Request(u))
        /\ Admitted(u, r, FALSE) /\ UNCHANGED <<files, rows, attempt>>
    BY <1>1 DEF StartUpload
  <2>2. GuardOK(e) /\ e.growing = guard.growing /\ Others(e, guard, {})
    BY ExpiredOthers
  <2>3. Request(u) \in Leases /\ Unparked(Request(u)) /\ guard.lease[Request(u)] = NoSlot
    BY <2>1, Names DEF Quiet
  <2>. HIDE DEF e
  <2>4. e.lease[Request(u)] = NoSlot /\ Others(e, guard, {Request(u)})
    BY <2>2, <2>3 DEF Others
  <2>. QED BY <2>1, <2>2, <2>4, StartStep
<1>2. ASSUME NEW u \in Uploads, NEW r \in Recordings, StartLateUpload(u, r) PROVE StorageInv'
  <2>. DEFINE e == TakenOver(guard, r, Request(u))
  <2>1. /\ upload[u].pc = "idle" /\ Admitted(u, r, FALSE) /\ UNCHANGED <<files, rows, attempt>>
        /\ IF e.lease[Request(u)] # NoSlot THEN guard' = e
           ELSE MayReserveVoice(e, Free) /\ guard' = VoiceReserved(e, Request(u))
    BY <1>2 DEF StartLateUpload
  <2>2. CASE e.lease[Request(u)] # NoSlot
    BY <2>1, <2>2, TakeOverStep
  <2>3. CASE e.lease[Request(u)] = NoSlot
    <3>1. Request(u) \in Leases /\ Unparked(Request(u)) /\ guard.lease[Request(u)] = NoSlot
      BY <2>1, Names DEF Quiet
    <3>2. GuardOK(e) /\ e.growing = guard.growing /\ Others(e, guard, {Request(u)})
      BY <3>1, TakingOver DEF Others
    <3>. HIDE DEF e
    <3>. QED BY <2>1, <2>3, <3>2, StartStep
  <2>. QED BY <2>2, <2>3
<1>3. ASSUME NEW u \in Uploads, GiveUp(u) PROVE StorageInv'
  BY <1>3, FailStep DEF GiveUp, files, rows, Typed
<1>4. ASSUME NEW u \in Uploads, NEW removed \in BOOLEAN, FailWrite(u, removed) PROVE StorageInv'
  <2>1. /\ upload[u].pc = "writing" /\ Failed(u) /\ drain' = drain /\ dbBytes' = dbBytes
        /\ \/ file' = file /\ part' = part
           \/ file' = [file EXCEPT ![u] = "absent"] /\ part' = [part EXCEPT ![u] = NoPart]
    BY <1>4 DEF FailWrite, files, rows
  <2>2. /\ part' \in [Uploads -> 0..NoPart]
        /\ \A v \in Uploads \ {u} : file'[v] = file[v] /\ part'[v] = part[v]
        /\ \/ file'[u] = file[u] /\ part'[u] = part[u]
           \/ file'[u] = "absent" /\ part'[u] = NoPart
    BY <2>1, AgesGrow DEF Typed, FileInv, RowsTyped, NoPart
  <2>. QED BY <2>1, <2>2, FailStep
<1>5. ASSUME NEW u \in Uploads, CreateSegment(u) \/ RefuseSegment(u) PROVE StorageInv'
  <2>1. /\ upload[u].pc = "stored" /\ Answered(u) /\ dbBytes' = dbBytes
        /\ drain' = drain \/ drain' = [drain EXCEPT !.rows = @ \ {u}]
    BY <1>5 DEF CreateSegment, RefuseSegment, rows
  <2>2. drain' \in [on : BOOLEAN, rows : SUBSET Uploads]
    BY <2>1 DEF Typed
  <2>. QED BY <2>1, <2>2, AnswerStep
<1>6. ASSUME NEW u \in Uploads, RecordOrphan(u) \/ WriteChunk(u) PROVE StorageInv'
  <2>1. /\ guard' = guard /\ attempt' = attempt /\ drain' = drain /\ dbBytes' = dbBytes /\ file' = file
        /\ \/ /\ upload[u].pc = "admitted" /\ part' = part
              /\ upload' = [upload EXCEPT ![u].pc = "recorded"]
           \/ part[u] # NoPart /\ part' = [part EXCEPT ![u] = 0] /\ upload' = upload
    BY <1>6 DEF RecordOrphan, WriteChunk, files, rows
  <2>2. Typed'
    BY <2>1, AgesGrow DEF Typed, NoPart
  <2>3. \A v \in Uploads : /\ \/ upload'[v].pc = upload[v].pc
                              \/ upload[v].pc = "admitted" /\ upload'[v].pc = "recorded"
                           /\ upload'[v].rec = upload[v].rec /\ upload'[v].shared = upload[v].shared
                           /\ file'[v] = "complete" => file[v] = "complete"
                           /\ part'[v] # NoPart => part[v] # NoPart
    BY <2>1 DEF FileInv, RowsTyped, Upload, Typed
  <2>. QED BY <2>1, <2>2, <2>3, QuietStep
<1>7. ASSUME guard' = guard, upload' = upload, attempt' = attempt, part' = part, dbBytes' = dbBytes,
             drain' \in [on : BOOLEAN, rows : SUBSET Uploads],
             \A v \in Uploads : file'[v] = "complete" => file[v] = "complete"
      PROVE  StorageInv'
  <2>1. Typed'
    BY <1>7 DEF Typed
  <2>. QED BY <1>7, <2>1, QuietStep
<1>8. ASSUME UserStep PROVE StorageInv'
  BY <1>7, <1>8 DEF UserStep, DeleteFailedSegment, DeleteDraft, DeleteSaved, SaveDraft, Condemned, files, Typed
<1>9. ASSUME DrainStep PROVE StorageInv'
  <2>1. ASSUME DrainSelect PROVE StorageInv'
    <3>1. drain' \in [on : BOOLEAN, rows : SUBSET Uploads]
      BY <2>1 DEF DrainSelect
    <3>. QED BY <1>7, <2>1, <3>1 DEF DrainSelect, files
  <2>2. ASSUME DrainEnds PROVE StorageInv'
    <3>1. /\ guard' = guard /\ attempt' = attempt /\ dbBytes' = dbBytes /\ file' = file /\ upload' = upload
          /\ drain' = NoDrain
          /\ \E S : part' = [v \in Uploads |-> IF v \in S /\ part[v] = Grace THEN NoPart ELSE part[v]]
      BY <2>2 DEF DrainEnds
    <3>2. Typed' /\ \A v \in Uploads : part'[v] # NoPart => part[v] # NoPart
      BY <3>1, AgesGrow DEF Typed, NoDrain, NoPart
    <3>. QED BY <3>1, <3>2, QuietStep
  <2>3. ASSUME NEW u \in Uploads, DrainOne(u) \/ DrainSkips(u) PROVE StorageInv'
    <3>1. /\ guard' = guard /\ attempt' = attempt /\ dbBytes' = dbBytes /\ part' = part /\ upload' = upload
          /\ drain' = [drain EXCEPT !.rows = @ \ {u}]
          /\ file' = file \/ file' = [file EXCEPT ![u] = "absent"]
      BY <2>3 DEF DrainOne, DrainSkips, files
    <3>2. drain' \in [on : BOOLEAN, rows : SUBSET Uploads]
      BY <3>1 DEF Typed
    <3>3. \A v \in Uploads : file'[v] = "complete" => file[v] = "complete"
      BY <3>1 DEF FileInv, RowsTyped
    <3>. QED BY <1>7, <3>1, <3>2, <3>3
  <2>. QED BY <1>9, <2>1, <2>2, <2>3 DEF DrainStep
<1>10. ASSUME Denied PROVE StorageInv'
  <2>1. guard' = Expired(guard) /\ UNCHANGED <<file, part, drain, dbBytes, upload, attempt>>
    BY <1>10 DEF Denied, files, rows
  <2>2. Typed'
    BY <2>1 DEF Typed
  <2>3. GuardOK(guard') /\ guard'.growing = guard.growing /\ Others(guard', guard, {})
    BY <2>1, ExpiredOthers
  <2>. QED BY <2>1, <2>2, <2>3, QuietStep
<1>11. ASSUME Tick PROVE StorageInv'
  <2>1. /\ guard' = Aged(guard) /\ UNCHANGED <<file, attempt, drain, dbBytes>>
        /\ part' = [u \in Uploads |-> IF part[u] = NoPart THEN NoPart ELSE Older(part[u], Grace)]
    BY <1>11 DEF Tick
  <2>2. GuardOK(guard') /\ guard'.growing = guard.growing /\ guard'.lease = guard.lease
    BY <2>1, Ageing
  <2>3. Others(guard', guard, {})
    BY <2>2 DEF Others
  <2>4. ASSUME NEW v \in Uploads
        PROVE  /\ upload'[v].pc = upload[v].pc /\ upload'[v].rec = upload[v].rec
               /\ upload'[v].shared = upload[v].shared
    BY <1>11 DEF Tick, FileInv, RowsTyped, Upload
  <2>5. ASSUME NEW v \in Uploads
        PROVE  part'[v] \in 0..NoPart /\ (part'[v] # NoPart => part[v] # NoPart)
    <3>1. part[v] = NoPart \/ part[v] \in 0..Grace
      BY AgesGrow DEF Typed, NoPart
    <3>. QED BY <2>1, <3>1, AgesGrow DEF NoPart
  <2>6. Typed'
    BY <2>1, <2>5 DEF Typed
  <2>. QED BY <2>1, <2>2, <2>3, <2>4, <2>5, <2>6, QuietStep
<1>12. CASE UNCHANGED vars
  BY <1>7, <1>12 DEF vars, Typed
<1>13. ASSUME NEW u \in Uploads, UploadStep(u) PROVE StorageInv'
  BY <1>1, <1>2, <1>3, <1>4, <1>5, <1>6, <1>13, ShareStep, BeginStep, FinishStep DEF UploadStep, UploadEnds
<1>14. ASSUME NEW r \in Recordings, AttemptStep(r) PROVE StorageInv'
  BY <1>14, OpenStep, CloseStep, EndStep DEF AttemptStep
<1>15. ASSUME NEW t \in Texts, ReserveText(t) \/ WriteText(t) PROVE StorageInv'
  BY <1>15, TextStep
<1>16. ASSUME Restart PROVE StorageInv'
  BY <1>16, RestartStep
<1>. QED BY <1>8, <1>9, <1>10, <1>11, <1>12, <1>13, <1>14, <1>15, <1>16 DEF Next

\* StorageInv holds in every state: who holds which slot and who, having ended or not
\* begun, holds none; who is entitled to write a file; and the room left for all of
\* them (storage_admission.py, voice_routes.py).
THEOREM StorageHolds == Spec => [](FileInv /\ StorageInv)
<1>1. Init => FileInv /\ StorageInv
  BY FileInit, StorageInit
<1>2. (FileInv /\ StorageInv) /\ [Next]_vars => (FileInv /\ StorageInv)'
  BY FileStep, StorageStep
<1>. QED BY <1>1, <1>2, PTL DEF Spec

\* The type invariant of files, ledger, uploads and capacity.
THEOREM FilesTyped == Spec => []TypeOK
<1>1. FileInv /\ StorageInv => TypeOK
  BY DEF FileInv, RowsTyped, StorageInv, GuardOK, Typed, TypeOK, Files, Places
<1>. QED BY <1>1, StorageHolds, PTL

\* Capacity is given back on every path of an upload, an attempt and a text, and never
\* twice: the counters agree with the leases, and a request that was answered, failed or
\* given up, a writer that does not write and an attempt after its cleanup hold none.
THEOREM CapacityIsGivenBack == Spec => []CapacityBalances
<1>1. StorageInv => CapacityBalances
  BY DEF StorageInv, GuardOK, CapacityBalances
<1>. QED BY <1>1, StorageHolds, PTL

\* Admitted content never takes a disk below the reserve, part files that their
\* writer could not remove apart.
THEOREM DiskIsKept == Spec => []DiskKeepsReserve
<1>1. FileInv /\ StorageInv => DiskKeepsReserve
  <2>. SUFFICES ASSUME FileInv, StorageInv, NEW d \in Devices
                PROVE  Free[d] + (IF d = VoiceDevice THEN Cardinality(Leftover) * VoiceBytes ELSE 0) >= MinFree
    BY DEF DiskKeepsReserve
  <2>1. Leftover \subseteq Uploads /\ OnDisk = Counted \cup Leftover /\ Counted \cap Leftover = {}
    BY DEF StorageInv, Parts, OnDisk, Counted, Leftover
  <2>2. /\ Cardinality(Leftover) \in Nat /\ Cardinality(Counted) \in Nat
        /\ Cardinality(OnDisk) = Cardinality(Counted) + Cardinality(Leftover)
    <3>1. /\ IsFiniteSet(Leftover) /\ Cardinality(Leftover) \in Nat
          /\ IsFiniteSet(Counted) /\ Cardinality(Counted) \in Nat /\ Cardinality({}) = 0
      BY <2>1, Sets, SetsOfUploads, FS_EmptySet
    <3>2. Cardinality(Counted \cup Leftover)
            = Cardinality(Counted) + Cardinality(Leftover) - Cardinality(Counted \cap Leftover)
      BY <3>1, FS_Union, Zenon
    <3>3. Cardinality(OnDisk) = Cardinality(Counted \cup Leftover) /\ Cardinality(Counted \cap Leftover) = 0
      <4>1. OnDisk = Counted \cup Leftover /\ Counted \cap Leftover = {}
        BY <2>1
      <4>. HIDE DEF OnDisk, Counted, Leftover
      <4>. QED BY <3>1, <4>1, Zenon
    <3>. QED BY <3>1, <3>2, <3>3
  <2>3. /\ Cardinality(OnDisk) * VoiceBytes
             = Cardinality(Counted) * VoiceBytes + Cardinality(Leftover) * VoiceBytes
        /\ Cardinality(Counted) * VoiceBytes \in Nat /\ Cardinality(Leftover) * VoiceBytes \in Nat
    BY <2>2, Sizes
  <2>4. /\ Committed * VoiceBytes \in Nat /\ Committed * VoiceBytes >= Cardinality(Counted) * VoiceBytes
    BY Sets, Sizes, Products DEF Committed
  <2>5. Cardinality(guard.growing) * Growth(d) \in Nat
    BY GrowingFinite, Sizes DEF StorageInv, GuardOK
  <2>6. dbBytes \in Nat /\ Disk[d] \in Nat /\ MinFree \in Nat
    BY Sizes DEF StorageInv, Typed
  <2>7. Disk[d] >= MinFree + (IF d = VoiceDevice THEN Committed * VoiceBytes ELSE 0)
                       + (IF d = DbDevice THEN dbBytes ELSE 0) + Cardinality(guard.growing) * Growth(d)
    BY DEF StorageInv, Room
  <2>8. Free[d] = Disk[d] - (IF d = VoiceDevice THEN Cardinality(OnDisk) * VoiceBytes ELSE 0)
                          - (IF d = DbDevice THEN dbBytes ELSE 0)
    BY DEF Free
  <2>. QED BY <2>3, <2>4, <2>5, <2>6, <2>7, <2>8
<1>. QED BY <1>1, StorageHolds, PTL
=============================================================================
