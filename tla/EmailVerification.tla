------------------------- MODULE EmailVerification -------------------------
(* How a user proves that a reminder address is theirs, and the other requests *)
(* that send mail at once (src/app/email_repository.py, email_admission.py and *)
(* services/email_reminders.py).  A request runs in a thread of its own: it    *)
(* reads the settings, reserves a lease, commits its row, calls the provider   *)
(* and stores the answer in separate steps, between which every other request, *)
(* the Reminder worker and a restart may act.                                  *)
(* The delivery of Reminders to a verified address is EmailDelivery.           *)
EXTENDS EmailAdmission, Sequences

CONSTANTS Users, NoUser,
          Requests,                   \* threads that serve requests
          CodeLife, Cooldown, Hour,   \* of a verification code; the quota's window
          AddressLimit, AccountLimit, \* verification mails within Hour
          Tries,                      \* guesses a code takes
          TestCooldown, TestLimit,    \* test mails
          MaxChallenges, MailTime     \* bounds of the model

ASSUME VerificationAssumption ==
  /\ NoUser \notin Users /\ IsFiniteSet(Requests)
  /\ {CodeLife, Cooldown, Hour, AddressLimit, AccountLimit, Tries, TestCooldown, TestLimit}
       \subseteq Nat \ {0}
  /\ MaxChallenges \in Nat /\ MailTime \in Nat

VARIABLES mailNow,
          setting,     \* email_reminder_settings
          challenge,   \* email_verification_challenges, by id
          admission,   \* EmailSendAdmission, process-local
          request,     \* what each thread is at
          older,       \* history: challenges a user had when the address was last changed
          guesses,     \* history: wrong codes submitted against each challenge
          used         \* history: provider calls by the windows they were counted in

verificationVars == <<mailNow, setting, challenge, admission, request, older, guesses, used>>

NoSetting == [address |-> NoAddress, verified |-> FALSE, paused |-> FALSE,
              tested |-> Never, testWindow |-> Never, tests |-> 0]
Idle == [stage |-> "idle", user |-> NoUser, address |-> NoAddress, lease |-> NoLease, code |-> 0]
NothingUsed == [global |-> [t \in 0..MailTime |-> 0],
                recipients |-> [a \in Addresses |-> [t \in 0..MailTime |-> 0]]]

VerificationInit ==
  /\ mailNow = 0
  /\ setting = [u \in Users |-> NoSetting]
  /\ challenge = <<>>
  /\ admission = NewAdmission
  /\ request = [q \in Requests |-> Idle]
  /\ older = [u \in Users |-> 0]
  /\ guesses = <<>>
  /\ used = NothingUsed

Ids == 1..Len(challenge)
Open(k) == ~challenge[k].consumed /\ ~challenge[k].invalid
Waiting(q, stage) == request[q].stage = stage
Goes(q, r) == request' = [request EXCEPT ![q] = r]

-----------------------------------------------------------------------------
(* The settings.                                                              *)

Invalidated(S) ==
  [k \in Ids |-> IF k \in S /\ Open(k) THEN [challenge[k] EXCEPT !.invalid = TRUE]
                                       ELSE challenge[k]]

\* The codes of the earlier address stay open.
SetCandidateKeepsCodes(u, a) ==
  /\ setting[u].address # a
  /\ setting' = [setting EXCEPT ![u] = [@ EXCEPT !.address = a, !.verified = FALSE,
                                                 !.paused = FALSE]]
  /\ older' = [older EXCEPT ![u] = Len(challenge)]
  /\ UNCHANGED <<mailNow, challenge, admission, request, guesses, used>>
\* set_candidate_address: another address starts unverified and healthy, and no
\* code sent before counts any more.  The same address again changes nothing.
SetCandidate(u, a) ==
  /\ setting[u].address # a
  /\ setting' = [setting EXCEPT ![u] = [@ EXCEPT !.address = a, !.verified = FALSE,
                                                 !.paused = FALSE]]
  /\ challenge' = Invalidated({k \in Ids : challenge[k].user = u})
  /\ older' = [older EXCEPT ![u] = Len(challenge)]
  /\ UNCHANGED <<mailNow, admission, request, guesses, used>>

\* pause_matching_address: the provider suppresses the address.
PauseAddress(u, a) ==
  setting' = IF setting[u].address = a THEN [setting EXCEPT ![u].paused = TRUE] ELSE setting
\* A Reminder's answer or status check pauses it (EmailDelivery).
DeliveryPauses(u) ==
  /\ setting[u].address # NoAddress
  /\ PauseAddress(u, setting[u].address)
  /\ UNCHANGED <<mailNow, challenge, admission, request, older, guesses, used>>

-----------------------------------------------------------------------------
(* Sending a verification mail (send_verification).                           *)

\* _reserve, for the mail to one address or (NoAddress) for any other mail.
Reserve(q, address, next) ==
  /\ IF Admits(admission, address, mailNow)
       THEN /\ admission' = Reserved(admission, address, mailNow)
            /\ Goes(q, [next EXCEPT !.lease = LeaseOn(admission', address)])
       ELSE /\ admission' = Refused(admission, address, mailNow)
            /\ Goes(q, Idle)
  /\ UNCHANGED <<mailNow, setting, challenge, older, guesses, used>>

\* The settings are read and the mail to their address is reserved; without an
\* address, or with a paused one, the request is refused.  What happens between
\* the two is left to the time after both: the transaction that follows compares
\* the settings with what was read.
ReserveVerification(q, u) ==
  /\ Waiting(q, "idle")
  /\ setting[u].address # NoAddress /\ ~setting[u].paused
  /\ Reserve(q, setting[u].address, [Idle EXCEPT !.stage = "create", !.user = u,
                                                 !.address = setting[u].address])

\* create_verification_challenge: the address is still the user's and healthy,
\* the last mail to it is old enough, and both hourly quotas have room.
Recent(u) == {k \in Ids : challenge[k].user = u /\ challenge[k].sent >= mailNow - Hour}
RecentTo(u, a) == {k \in Recent(u) : challenge[k].address = a}
MayChallenge(u, a) ==
  /\ setting[u].address = a /\ ~setting[u].paused
  /\ \A k \in RecentTo(u, a) : challenge[k].sent <= mailNow - Cooldown
  /\ Cardinality(RecentTo(u, a)) < AddressLimit
  /\ Cardinality(Recent(u)) < AccountLimit

\* A lease that is consumed is kept by its windows: releasing it gives nothing back.
\* The history forgets the calls of windows that are over.
Consumed(lease) ==
  used' = [global |-> IF mailNow - lease.window < GlobalWindow
                        THEN [used.global EXCEPT ![lease.window] = @ + 1]
                        ELSE used.global,
           recipients |-> IF /\ lease.address \in Addresses
                             /\ mailNow - lease.own < RecipientWindow
                            THEN [used.recipients EXCEPT ![lease.address][lease.own] = @ + 1]
                            ELSE used.recipients]

CreateChallenge(q) ==
  LET u == request[q].user
      a == request[q].address IN
  /\ Waiting(q, "create") /\ MayChallenge(u, a) /\ Len(challenge) < MaxChallenges
  /\ challenge' = Append(Invalidated({k \in Ids : challenge[k].user = u /\ challenge[k].address = a}),
                         [user |-> u, address |-> a, status |-> "pending",
                          expires |-> mailNow + CodeLife, sent |-> mailNow,
                          attempts |-> 0, consumed |-> FALSE, invalid |-> FALSE])
  /\ guesses' = Append(guesses, 0)
  /\ Consumed(request[q].lease)
  /\ Goes(q, [request[q] EXCEPT !.stage = "call", !.lease = NoLease,
                                !.code = Len(challenge) + 1])
  /\ UNCHANGED <<mailNow, setting, admission, older>>

Release(q) == admission' = Released(admission, request[q].lease)
RefuseChallenge(q) ==
  /\ Waiting(q, "create") /\ ~MayChallenge(request[q].user, request[q].address)
  /\ Release(q)
  /\ Goes(q, Idle)
  /\ UNCHANGED <<mailNow, setting, challenge, older, guesses, used>>

\* The provider's answers: a suppressed address is a permanent failure that pauses it.
Answers == {"accepted", "failed", "unknown", "suppressed"}
Stored(answer) == IF answer = "suppressed" THEN "failed" ELSE answer
\* After the answer the request is over, unless the address has to be paused.
AfterCall(q, answer) ==
  Goes(q, IF answer = "suppressed"
            THEN [Idle EXCEPT !.stage = "pause", !.user = request[q].user,
                              !.address = request[q].address]
            ELSE Idle)

\* finish_verification_send: the answer is stored once.
FinishVerificationSend(q, answer) ==
  /\ Waiting(q, "call")
  /\ challenge' = IF challenge[request[q].code].status = "pending"
                    THEN [challenge EXCEPT ![request[q].code].status = Stored(answer)]
                    ELSE challenge
  /\ AfterCall(q, answer)
  /\ UNCHANGED <<mailNow, setting, admission, older, guesses, used>>

PauseDestination(q) ==
  /\ Waiting(q, "pause")
  /\ PauseAddress(request[q].user, request[q].address)
  /\ Goes(q, Idle)
  /\ UNCHANGED <<mailNow, challenge, admission, older, guesses, used>>

-----------------------------------------------------------------------------
(* Confirming a code (confirm_verification).                                  *)

\* The settings are read before the submitted code is bound to the address.
\* The code is one that was mailed, or a guess (0).
ReadsToConfirm(q, u, code) ==
  /\ Waiting(q, "idle") /\ setting[u].address # NoAddress
  /\ Goes(q, [Idle EXCEPT !.stage = "confirm", !.user = u,
                          !.address = setting[u].address, !.code = code])
  /\ UNCHANGED <<mailNow, setting, challenge, admission, older, guesses, used>>

Confirmable(u, a) ==
  {k \in Ids : /\ challenge[k].user = u /\ challenge[k].address = a
               /\ challenge[k].status \in {"accepted", "unknown"}
               /\ Open(k) /\ challenge[k].expires > mailNow
               /\ challenge[k].attempts < Tries}
Latest(S) == CHOOSE k \in S : \A i \in S : i <= k
ConfirmFinds(q) ==
  /\ setting[request[q].user].address = request[q].address
  /\ ~setting[request[q].user].paused
  /\ Confirmable(request[q].user, request[q].address) # {}

ConfirmAccepts(q) ==
  LET k == Latest(Confirmable(request[q].user, request[q].address)) IN
  /\ ConfirmFinds(q) /\ request[q].code = k
  /\ challenge' = [challenge EXCEPT ![k].consumed = TRUE]
  /\ setting' = [setting EXCEPT ![request[q].user].verified = TRUE]
  /\ UNCHANGED guesses

\* The error is raised inside the transaction, which takes the count back.
ConfirmCountsNothing(q) ==
  LET k == Latest(Confirmable(request[q].user, request[q].address)) IN
  /\ ConfirmFinds(q) /\ request[q].code # k
  /\ guesses[k] <= Tries
  /\ guesses' = [guesses EXCEPT ![k] = @ + 1]
  /\ UNCHANGED <<setting, challenge>>
\* The transaction of a wrong code commits its count; the error is raised after it.
ConfirmCounts(q) ==
  LET k == Latest(Confirmable(request[q].user, request[q].address)) IN
  /\ ConfirmFinds(q) /\ request[q].code # k
  /\ challenge' = [challenge EXCEPT ![k].attempts = @ + 1]
  /\ guesses' = [guesses EXCEPT ![k] = @ + 1]
  /\ UNCHANGED setting

ConfirmVerification(q) ==
  /\ Waiting(q, "confirm")
  /\ \/ ConfirmAccepts(q)
     \/ ConfirmCounts(q)
     \/ ~ConfirmFinds(q) /\ UNCHANGED <<setting, challenge, guesses>>
  /\ Goes(q, Idle)
  /\ UNCHANGED <<mailNow, admission, older, used>>

-----------------------------------------------------------------------------
(* Test mails (send_test_email) and the worker's use of the same admission.   *)

ReserveForTest(q, u) ==
  Waiting(q, "idle") /\ Reserve(q, NoAddress, [Idle EXCEPT !.stage = "test", !.user = u])

\* reserve_test_send: a fixed hour that starts with the first test of it.
TestsNow(s) ==
  IF s.testWindow = Never \/ mailNow - s.testWindow >= Hour
    THEN [s EXCEPT !.testWindow = mailNow, !.tests = 0] ELSE s
MayTest(s) ==
  /\ s.address # NoAddress /\ s.verified /\ ~s.paused
  /\ s.tested = Never \/ mailNow - s.tested >= TestCooldown
  /\ TestsNow(s).tests < TestLimit

ReserveTestSend(q) ==
  LET u == request[q].user
      now == TestsNow(setting[u]) IN
  /\ Waiting(q, "test") /\ MayTest(setting[u])
  /\ setting' = [setting EXCEPT ![u] = [now EXCEPT !.tested = mailNow,
                                                   !.tests = now.tests + 1]]
  /\ Consumed(request[q].lease)
  /\ Goes(q, [request[q] EXCEPT !.stage = "testing", !.lease = NoLease,
                                !.address = setting[u].address])
  /\ UNCHANGED <<mailNow, challenge, admission, older, guesses>>
RefuseTest(q) ==
  /\ Waiting(q, "test") /\ ~MayTest(setting[request[q].user])
  /\ Release(q)
  /\ Goes(q, Idle)
  /\ UNCHANGED <<mailNow, setting, challenge, older, guesses, used>>
FinishTest(q, answer) ==
  /\ Waiting(q, "testing")
  /\ AfterCall(q, answer)
  /\ UNCHANGED <<mailNow, setting, challenge, admission, older, guesses, used>>

\* run_sweep_once reserves before it claims a row, and releases when there is
\* none or the row may no longer be sent.
SweepReserves(q) == Waiting(q, "idle") /\ Reserve(q, NoAddress, [Idle EXCEPT !.stage = "sweep"])
SweepSends(q) ==
  /\ Waiting(q, "sweep")
  /\ Consumed(request[q].lease)
  /\ Goes(q, Idle)
  /\ UNCHANGED <<mailNow, setting, challenge, admission, older, guesses>>
SweepReleases(q) ==
  /\ Waiting(q, "sweep")
  /\ Release(q)
  /\ Goes(q, Idle)
  /\ UNCHANGED <<mailNow, setting, challenge, older, guesses, used>>

-----------------------------------------------------------------------------
MailTick ==
  /\ mailNow < MailTime
  /\ mailNow' = mailNow + 1
  /\ used' = [global |-> [t \in 0..MailTime |->
                            IF mailNow' - t < GlobalWindow THEN used.global[t] ELSE 0],
              recipients |-> [a \in Addresses |-> [t \in 0..MailTime |->
                            IF mailNow' - t < RecipientWindow THEN used.recipients[a][t] ELSE 0]]]
  /\ UNCHANGED <<setting, challenge, admission, request, older, guesses>>
\* A restart ends every request and forgets what was admitted.
MailRestart ==
  /\ admission' = NewAdmission /\ used' = NothingUsed
  /\ request' = [q \in Requests |-> Idle]
  /\ UNCHANGED <<mailNow, setting, challenge, older, guesses>>

VerificationNext ==
  \/ \E u \in Users : DeliveryPauses(u) \/ \E a \in Addresses : SetCandidate(u, a)
  \/ \E q \in Requests :
       \/ CreateChallenge(q) \/ RefuseChallenge(q)
       \/ PauseDestination(q) \/ ConfirmVerification(q)
       \/ ReserveTestSend(q) \/ RefuseTest(q)
       \/ SweepReserves(q) \/ SweepSends(q) \/ SweepReleases(q)
       \/ \E u \in Users : \/ ReserveVerification(q, u) \/ ReserveForTest(q, u)
                           \/ \E code \in {0} \cup Ids : ReadsToConfirm(q, u, code)
       \/ \E answer \in Answers : FinishVerificationSend(q, answer) \/ FinishTest(q, answer)
  \/ MailTick \/ MailRestart

VerificationSpec == VerificationInit /\ [][VerificationNext]_verificationVars

-----------------------------------------------------------------------------
Window == [started : {Never} \cup 0..MailTime, count : Nat]

\* The hour that ends with a verification mail holds no more of them than the quotas
\* of its user and its address allow, and the one before it to the same address is
\* older than the cooldown.
Before(k) == {i \in 1..k : /\ challenge[i].user = challenge[k].user
                           /\ challenge[i].sent >= challenge[k].sent - Hour}
BeforeTo(k) == {i \in Before(k) : challenge[i].address = challenge[k].address}
WithinQuota(k) ==
  /\ Cardinality(Before(k)) <= AccountLimit
  /\ Cardinality(BeforeTo(k)) <= AddressLimit
  /\ \A i \in BeforeTo(k) \ {k} : challenge[i].sent <= challenge[k].sent - Cooldown

\* The types, and the limits that the code promises of each value: no window ever
\* holds more sends than its limit, the table of addresses stays within its size,
\* a code takes at most Tries wrong guesses whoever submits them and whatever was
\* committed in between, and no two codes of a user are open for one address (the
\* unique index of the table, which an insert would otherwise run into).
VerificationTypeOK ==
  /\ mailNow \in 0..MailTime
  /\ \A u \in Users :
       /\ setting[u].address \in Addresses \cup {NoAddress}
       /\ setting[u].verified \in BOOLEAN /\ setting[u].paused \in BOOLEAN
       /\ {setting[u].tested, setting[u].testWindow} \subseteq {Never} \cup 0..mailNow
       /\ setting[u].tests \in 0..TestLimit
  /\ \A k \in Ids :
       /\ challenge[k].user \in Users /\ challenge[k].address \in Addresses
       /\ challenge[k].status \in {"pending", "accepted", "failed", "unknown"}
       /\ challenge[k].attempts \in 0..Tries
       /\ guesses[k] \in 0..Tries
       /\ ~(challenge[k].consumed /\ challenge[k].invalid)
       /\ \A i \in Ids \ {k} : Open(i) /\ Open(k) /\ challenge[i].user = challenge[k].user
                                 => challenge[i].address # challenge[k].address
  /\ \A k \in Ids : WithinQuota(k)
  /\ Len(guesses) = Len(challenge)
  /\ admission.global \in Window /\ admission.global.count <= GlobalLimit
  /\ Cardinality(DOMAIN admission.recipients) <= MaxRecipients
  /\ \A a \in DOMAIN admission.recipients :
       admission.recipients[a].count \in 1..RecipientLimit

\* An address counts as verified only when its user has submitted a code that was
\* mailed to that address since it was last made the user's address: neither a
\* code of an earlier address, nor one of an earlier period with the same address,
\* nor a request that read the settings before a change, proves it.
OwnershipProven ==
  \A u \in Users : setting[u].verified =>
    \E k \in Ids : /\ k > older[u]
                   /\ challenge[k].user = u /\ challenge[k].address = setting[u].address
                   /\ challenge[k].consumed
                   /\ challenge[k].status \in {"accepted", "unknown"}

\* Each window that is not over counts exactly the provider calls made on its leases and
\* the leases that are still held: a refused or abandoned send gives its place
\* back once, to the window it came from, even when another has begun since.
Holding(window, address, own) ==
  {q \in Requests : /\ request[q].lease # NoLease
                    /\ address = NoAddress => request[q].lease.window = window
                    /\ address # NoAddress => /\ request[q].lease.address = address
                                              /\ request[q].lease.own = own}
SendsAreCounted ==
  /\ mailNow - admission.global.started < GlobalWindow /\ admission.global # NoWindow =>
       admission.global.count = used.global[admission.global.started]
         + Cardinality(Holding(admission.global.started, NoAddress, Never))
  /\ \A a \in DOMAIN admission.recipients :
       LET started == admission.recipients[a].started IN
       mailNow - started < RecipientWindow =>
       admission.recipients[a].count = used.recipients[a][started]
         + Cardinality(Holding(Never, a, started))
=============================================================================
