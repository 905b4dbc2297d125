---------------------- MODULE EmailVerification_proofs ----------------------
(***************************************************************************)
(* What EmailVerification.tla guarantees for every number of users,        *)
(* addresses, requests and codes, whatever the limits are.                 *)
(*                                                                         *)
(* VerificationInv is inductive: RequestsInv says what a request has read, *)
(* CodesInv what the codes of a user say of the user's address.  On top of *)
(* it SendsInv balances every window of the limiter with the leases that   *)
(* are held and the calls that were made, LimitsInv bounds the tests, and  *)
(* QuotasInv the verification mails of an hour.                            *)
(***************************************************************************)
EXTENDS EmailVerification, FiniteSetTheorems, TLAPS

----------------------------------------------------------------------------
Setting == [address : Addresses \cup {NoAddress}, verified : BOOLEAN, paused : BOOLEAN,
            tested : Int, testWindow : Int, tests : Int]
Code == [user : Users, address : Addresses, status : {"pending", "accepted", "failed", "unknown"},
         expires : Int, sent : Int, attempts : Nat, consumed : BOOLEAN, invalid : BOOLEAN]
RowsTyped ==
  /\ mailNow \in Nat
  /\ setting \in [Users -> Setting]
  /\ challenge \in Seq(Code)
  /\ older \in [Users -> Nat]
  /\ guesses \in Seq(Nat)
  /\ Len(guesses) = Len(challenge)

\* A request that has read a user's address, or has made a code.
RequestOK(r, codes) ==
  /\ DOMAIN r = {"stage", "user", "address", "lease", "code"}
  /\ r.stage \in {"create", "call", "pause", "confirm", "test", "testing"} => r.user \in Users
  /\ r.stage \in {"create", "confirm"} => r.address \in Addresses
  /\ r.stage = "call" => r.code \in 1..codes
RequestsInv ==
  /\ request = [q \in Requests |-> request[q]]
  /\ \A q \in Requests : RequestOK(request[q], Len(challenge))

\* A code that can still be confirmed was made after the last change of address,
\* and is the only one of its user and address.
Current(k) == Open(k) => k > older[challenge[k].user]
OneOpen ==
  \A i, k \in Ids : Open(i) /\ Open(k) /\ challenge[i].user = challenge[k].user
                      /\ challenge[i].address = challenge[k].address => i = k
\* A code that was accepted had been mailed, and every wrong guess was counted.
Mailed(k) == challenge[k].consumed => challenge[k].status \in {"accepted", "unknown"}
Counted(k) == guesses[k] = challenge[k].attempts /\ guesses[k] <= Tries
CodesInv ==
  /\ RowsTyped
  /\ \A k \in Ids : Current(k) /\ Mailed(k) /\ Counted(k)
  /\ OneOpen
  /\ \A u \in Users : older[u] <= Len(challenge)
  /\ OwnershipProven

VerificationInv == RequestsInv /\ CodesInv

----------------------------------------------------------------------------
(* Requests.                                                               *)

LEMMA IdleIsOK == \A n : RequestOK(Idle, n)
BY DEF Idle, RequestOK

\* A request moves; no code is taken away.
LEMMA RequestMoves ==
  ASSUME RequestsInv, NEW q \in Requests, NEW r, Goes(q, r), RequestOK(r, Len(challenge')),
         Len(challenge) \in Nat, Len(challenge') \in Nat, Len(challenge) <= Len(challenge')
  PROVE  RequestsInv'
<1>1. request' = [p \in Requests |-> IF p = q THEN r ELSE request[p]]
  BY DEF RequestsInv, Goes
<1>2. ASSUME NEW p \in Requests PROVE RequestOK(request'[p], Len(challenge'))
  <2>1. CASE p = q
    BY <1>1, <2>1
  <2>2. CASE p # q
    <3>1. RequestOK(request[p], Len(challenge)) /\ request'[p] = request[p]
      BY <1>1, <2>2 DEF RequestsInv
    <3>. QED BY <3>1 DEF RequestOK
  <2>. QED BY <2>1, <2>2
<1>3. request' = [p \in Requests |-> request'[p]]
  BY <1>1
<1>. QED BY <1>2, <1>3 DEF RequestsInv

\* A request ends, or moves, while codes and settings stay.
LEMMA OnlyRequest ==
  ASSUME VerificationInv, NEW q \in Requests, NEW r, Goes(q, r), RequestOK(r, Len(challenge)),
         UNCHANGED <<mailNow, setting, challenge, older, guesses>>
  PROVE  VerificationInv'
<1>1. Len(challenge) \in Nat
  BY DEF VerificationInv, CodesInv, RowsTyped
<1>2. RequestsInv'
  BY <1>1, RequestMoves DEF VerificationInv
<1>3. CodesInv'
  BY DEF VerificationInv, CodesInv, RowsTyped, Current, OneOpen, Mailed, Counted, OwnershipProven,
     Ids, Open
<1>. QED BY <1>2, <1>3 DEF VerificationInv

\* Reserving a lease: the request ends, or holds the lease.
LEMMA Reserving ==
  ASSUME VerificationInv, NEW q \in Requests, NEW a, NEW r,
         DOMAIN r = {"stage", "user", "address", "lease", "code"},
         RequestOK(r, Len(challenge)), Reserve(q, a, r)
  PROVE  VerificationInv'
<1>1. ASSUME NEW lease PROVE RequestOK([r EXCEPT !.lease = lease], Len(challenge))
  BY DEF RequestOK
<1>2. PICK s : Goes(q, s) /\ RequestOK(s, Len(challenge))
  BY <1>1, IdleIsOK DEF Reserve
<1>. QED BY <1>2, OnlyRequest DEF Reserve

----------------------------------------------------------------------------
(* Codes.                                                                  *)

\* Only whether the address is paused, and the test mails, change.
LEMMA SettingTouched ==
  ASSUME CodesInv, setting' \in [Users -> Setting],
         \A u \in Users : /\ setting'[u].address = setting[u].address
                          /\ setting'[u].verified = setting[u].verified,
         UNCHANGED <<mailNow, challenge, older, guesses>>
  PROVE  CodesInv'
BY DEF CodesInv, RowsTyped, Current, OneOpen, Mailed, Counted, OwnershipProven, Ids, Open

\* The counters of test mails move; the address and its verification stay.
LEMMA TestsMove ==
  ASSUME NEW s \in Setting, NEW time \in Int, NEW n \in Int
  PROVE  /\ [s EXCEPT !.testWindow = time, !.tests = n] \in Setting
         /\ [s EXCEPT !.testWindow = time, !.tests = n].address = s.address
         /\ [s EXCEPT !.testWindow = time, !.tests = n].verified = s.verified
         /\ [s EXCEPT !.tested = time, !.tests = n] \in Setting
         /\ [s EXCEPT !.tested = time, !.tests = n].address = s.address
         /\ [s EXCEPT !.tested = time, !.tests = n].verified = s.verified
BY DEF Setting
LEMMA TestTaken ==
  ASSUME NEW s \in Setting, NEW time \in Int
  PROVE  /\ s.tests \in Int
         /\ [s EXCEPT !.tested = time, !.tests = s.tests + 1] \in Setting
         /\ [s EXCEPT !.tested = time, !.tests = s.tests + 1].address = s.address
         /\ [s EXCEPT !.tested = time, !.tests = s.tests + 1].verified = s.verified
<1>1. s.tests \in Int /\ s.tests + 1 \in Int
  BY DEF Setting
<1>. QED BY <1>1 DEF Setting

LEMMA Pausing ==
  ASSUME CodesInv, NEW u \in Users, NEW a, PauseAddress(u, a),
         UNCHANGED <<mailNow, challenge, older, guesses>>
  PROVE  CodesInv'
<1>1. setting[u] \in Setting /\ setting \in [Users -> Setting]
  BY DEF CodesInv, RowsTyped
<1>2. [setting[u] EXCEPT !.paused = TRUE] \in Setting
  BY <1>1 DEF Setting
<1>3. /\ setting' \in [Users -> Setting]
      /\ \A v \in Users : /\ setting'[v].address = setting[v].address
                          /\ setting'[v].verified = setting[v].verified
  BY <1>1, <1>2 DEF PauseAddress, Setting
<1>. QED BY <1>3, SettingTouched

\* One code changes its status or its counter, and stays open or closed as it was.
LEMMA CodeTouched ==
  ASSUME CodesInv, NEW k \in Ids, NEW c \in Code, challenge' = [challenge EXCEPT ![k] = c],
         c.user = challenge[k].user, c.address = challenge[k].address,
         c.consumed = challenge[k].consumed, c.invalid = challenge[k].invalid,
         c.consumed => c.status = challenge[k].status,
         guesses' \in Seq(Nat), Len(guesses') = Len(guesses),
         \A i \in Ids \ {k} : guesses'[i] = guesses[i],
         guesses'[k] = c.attempts, guesses'[k] <= Tries,
         UNCHANGED <<mailNow, setting, older>>
  PROVE  CodesInv'
<1>1. /\ challenge' \in Seq(Code) /\ Len(challenge') = Len(challenge) /\ Ids' = Ids
      /\ challenge'[k] = c /\ \A i \in Ids \ {k} : challenge'[i] = challenge[i]
  BY DEF CodesInv, RowsTyped, Ids
<1>2. \A i \in Ids : /\ challenge'[i].user = challenge[i].user
                     /\ challenge'[i].address = challenge[i].address
                     /\ challenge'[i].consumed = challenge[i].consumed
                     /\ challenge'[i].invalid = challenge[i].invalid
                     /\ challenge'[i].consumed => challenge'[i].status = challenge[i].status
                     /\ challenge'[i].attempts = guesses'[i] /\ guesses'[i] <= Tries
  <2>1. ASSUME NEW i \in Ids \ {k} PROVE challenge[i].attempts = guesses[i] /\ guesses[i] <= Tries
    BY DEF CodesInv, Counted
  <2>. QED BY <1>1, <2>1
<1>3. (\A i \in Ids : Current(i) /\ Mailed(i) /\ Counted(i))'
  BY <1>1, <1>2 DEF CodesInv, Current, Mailed, Counted, Open
<1>4. OneOpen'
  BY <1>1, <1>2 DEF CodesInv, OneOpen, Open
<1>5. OwnershipProven'
  BY <1>1, <1>2 DEF CodesInv, OwnershipProven
<1>. QED BY <1>1, <1>3, <1>4, <1>5 DEF CodesInv, RowsTyped

\* Codes are invalidated: none becomes open, and a consumed one stays as it is.
LEMMA Invalidating ==
  ASSUME CodesInv, NEW S
  PROVE  /\ Invalidated(S) \in Seq(Code) /\ Len(Invalidated(S)) = Len(challenge)
         /\ \A k \in Ids :
              /\ Invalidated(S)[k].user = challenge[k].user
              /\ Invalidated(S)[k].address = challenge[k].address
              /\ Invalidated(S)[k].status = challenge[k].status
              /\ Invalidated(S)[k].attempts = challenge[k].attempts
              /\ Invalidated(S)[k].consumed = challenge[k].consumed
              /\ ~Invalidated(S)[k].invalid => ~challenge[k].invalid
              /\ k \in S /\ ~Invalidated(S)[k].consumed => Invalidated(S)[k].invalid
<1>1. challenge \in Seq(Code) /\ Len(challenge) \in Nat
  BY DEF CodesInv, RowsTyped
<1>2. ASSUME NEW k \in Ids
      PROVE  challenge[k] \in Code /\ [challenge[k] EXCEPT !.invalid = TRUE] \in Code
  <2>1. challenge[k] \in Code
    BY <1>1 DEF Ids
  <2>. QED BY <2>1 DEF Code
<1>3. Invalidated(S) \in [1..Len(challenge) -> Code]
  BY <1>2 DEF Invalidated, Ids
<1>4. Invalidated(S) \in Seq(Code) /\ Len(Invalidated(S)) = Len(challenge)
  BY <1>1, <1>3
<1>5. ASSUME NEW k \in Ids
      PROVE  /\ Invalidated(S)[k].user = challenge[k].user
             /\ Invalidated(S)[k].address = challenge[k].address
             /\ Invalidated(S)[k].status = challenge[k].status
             /\ Invalidated(S)[k].attempts = challenge[k].attempts
             /\ Invalidated(S)[k].consumed = challenge[k].consumed
             /\ ~Invalidated(S)[k].invalid => ~challenge[k].invalid
             /\ k \in S /\ ~Invalidated(S)[k].consumed => Invalidated(S)[k].invalid
  BY <1>2 DEF Invalidated, Open, Code
<1>. QED BY <1>4, <1>5

\* Another address: no code of before is open, and nothing is verified.
LEMMA AddressChanges ==
  ASSUME CodesInv, NEW u \in Users, NEW a \in Addresses, SetCandidate(u, a)
  PROVE  CodesInv'
<1>. DEFINE S == {k \in Ids : challenge[k].user = u}
<1>1. /\ challenge' = Invalidated(S) /\ older' = [older EXCEPT ![u] = Len(challenge)]
      /\ setting' = [setting EXCEPT ![u] = [setting[u] EXCEPT !.address = a, !.verified = FALSE,
                                                              !.paused = FALSE]]
      /\ UNCHANGED <<mailNow, guesses>>
  BY DEF SetCandidate
<1>. HIDE DEF S
<1>2. setting[u] \in Setting /\ setting \in [Users -> Setting] /\ older \in [Users -> Nat]
      /\ Len(challenge) \in Nat
  BY DEF CodesInv, RowsTyped
<1>3. [setting[u] EXCEPT !.address = a, !.verified = FALSE, !.paused = FALSE] \in Setting
      /\ ~[setting[u] EXCEPT !.address = a, !.verified = FALSE, !.paused = FALSE].verified
  BY <1>2 DEF Setting
<1>4. /\ setting' \in [Users -> Setting] /\ ~setting'[u].verified
      /\ \A v \in Users \ {u} : setting'[v] = setting[v]
      /\ older' \in [Users -> Nat] /\ older'[u] = Len(challenge)
      /\ \A v \in Users \ {u} : older'[v] = older[v]
  BY <1>1, <1>2, <1>3
<1>5. Len(challenge') = Len(challenge) /\ challenge' \in Seq(Code) /\ Ids' = Ids
  BY <1>1, Invalidating DEF Ids
<1>6. RowsTyped'
  BY <1>1, <1>4, <1>5 DEF CodesInv, RowsTyped
<1>7. ASSUME NEW k \in Ids PROVE (Current(k) /\ Mailed(k) /\ Counted(k))'
  <2>1. Current(k) /\ Mailed(k) /\ Counted(k) /\ challenge[k].user \in Users
    <3>1. challenge[k] \in Code
      BY DEF CodesInv, RowsTyped, Ids
    <3>. QED BY <3>1 DEF CodesInv, Code
  <2>2. Open(k)' => Open(k) /\ k \notin S
    BY <1>1, Invalidating DEF Open
  <2>3. k \notin S => challenge[k].user # u
    BY DEF S
  <2>4. Current(k)'
    BY <1>1, <1>4, <2>1, <2>2, <2>3, Invalidating DEF Current
  <2>5. Mailed(k)' /\ Counted(k)'
    BY <1>1, <2>1, Invalidating DEF Mailed, Counted
  <2>. QED BY <2>4, <2>5
<1>8. OneOpen'
  <2>1. \A k \in Ids : /\ Open(k)' => Open(k)
                       /\ challenge'[k].user = challenge[k].user
                       /\ challenge'[k].address = challenge[k].address
    BY <1>1, Invalidating DEF Open
  <2>. QED BY <1>5, <2>1 DEF CodesInv, OneOpen
<1>9. OwnershipProven'
  <2>. SUFFICES ASSUME NEW v \in Users, setting'[v].verified
                PROVE  \E k \in Ids : /\ k > older'[v]
                                      /\ challenge'[k].user = v
                                      /\ challenge'[k].address = setting'[v].address
                                      /\ challenge'[k].consumed
                                      /\ challenge'[k].status \in {"accepted", "unknown"}
    BY <1>5 DEF OwnershipProven
  <2>1. v # u /\ setting'[v] = setting[v] /\ older'[v] = older[v]
    BY <1>4
  <2>2. PICK k \in Ids : /\ k > older[v]
                         /\ challenge[k].user = v /\ challenge[k].address = setting[v].address
                         /\ challenge[k].consumed
                         /\ challenge[k].status \in {"accepted", "unknown"}
    BY <2>1 DEF CodesInv, OwnershipProven
  <2>. QED BY <1>1, <2>1, <2>2, Invalidating
<1>10. \A v \in Users : older'[v] <= Len(challenge')
  BY <1>2, <1>4, <1>5 DEF CodesInv
<1>. QED BY <1>5, <1>6, <1>7, <1>8, <1>9, <1>10 DEF CodesInv

\* A new code: the open codes of its user and address are no longer open.
LEMMA CodeMade ==
  ASSUME VerificationInv, NEW q \in Requests, CreateChallenge(q)
  PROVE  CodesInv' /\ challenge' \in Seq(Code) /\ Len(challenge') = Len(challenge) + 1
<1>. DEFINE u == request[q].user
            a == request[q].address
            S == {k \in Ids : challenge[k].user = u /\ challenge[k].address = a}
            new == [user |-> u, address |-> a, status |-> "pending",
                    expires |-> mailNow + CodeLife, sent |-> mailNow,
                    attempts |-> 0, consumed |-> FALSE, invalid |-> FALSE]
            n == Len(challenge)
<1>1. /\ challenge' = Append(Invalidated(S), new) /\ guesses' = Append(guesses, 0)
      /\ UNCHANGED <<mailNow, setting, older>>
  BY DEF CreateChallenge
<1>2. CodesInv /\ RowsTyped /\ n \in Nat /\ u \in Users /\ a \in Addresses
  BY DEF VerificationInv, CodesInv, RowsTyped, RequestsInv, RequestOK, CreateChallenge, Waiting
<1>3. new \in Code
  BY <1>2, VerificationAssumption DEF Code, VerificationAssumption, RowsTyped
<1>4. /\ new.user = u /\ new.address = a /\ new.attempts = 0
      /\ ~new.consumed
  OBVIOUS
<1>. HIDE DEF new, S
<1>5. /\ challenge' \in Seq(Code) /\ Len(challenge') = n + 1 /\ challenge'[n + 1] = new
      /\ \A k \in 1..n : challenge'[k] = Invalidated(S)[k]
  BY <1>1, <1>2, <1>3, Invalidating
<1>6. /\ guesses' \in Seq(Nat) /\ Len(guesses') = n + 1 /\ guesses'[n + 1] = 0
      /\ \A k \in 1..n : guesses'[k] = guesses[k]
  BY <1>1, <1>2 DEF RowsTyped
<1>7. Ids = 1..n /\ Ids' = Ids \cup {n + 1} /\ n + 1 \notin Ids
  BY <1>2, <1>5 DEF Ids
<1>8. RowsTyped'
  BY <1>1, <1>2, <1>5, <1>6 DEF RowsTyped
<1>9. ASSUME NEW k \in Ids
      PROVE  /\ challenge'[k].user = challenge[k].user
             /\ challenge'[k].address = challenge[k].address
             /\ challenge'[k].status = challenge[k].status
             /\ challenge'[k].attempts = challenge[k].attempts
             /\ challenge'[k].consumed = challenge[k].consumed
             /\ Open(k)' => Open(k) /\ k \notin S
  <2>1. challenge'[k] = Invalidated(S)[k]
    BY <1>5, <1>7
  <2>2. /\ Invalidated(S)[k].user = challenge[k].user
        /\ Invalidated(S)[k].address = challenge[k].address
        /\ Invalidated(S)[k].status = challenge[k].status
        /\ Invalidated(S)[k].attempts = challenge[k].attempts
        /\ Invalidated(S)[k].consumed = challenge[k].consumed
        /\ ~Invalidated(S)[k].invalid => ~challenge[k].invalid
        /\ k \in S /\ ~Invalidated(S)[k].consumed => Invalidated(S)[k].invalid
    BY <1>2, Invalidating
  <2>. QED BY <2>1, <2>2 DEF Open
<1>10. ASSUME NEW k \in Ids' PROVE (Current(k) /\ Mailed(k) /\ Counted(k))'
  <2>1. CASE k \in Ids
    <3>1. Current(k) /\ Mailed(k) /\ Counted(k)
      BY <1>2, <2>1 DEF CodesInv
    <3>2. guesses'[k] = guesses[k]
      BY <1>6, <1>7, <2>1
    <3>. QED BY <1>1, <1>9, <2>1, <3>1, <3>2 DEF Current, Mailed, Counted
  <2>2. CASE k = n + 1
    <3>1. older[u] <= n /\ older[u] \in Nat
      BY <1>2 DEF CodesInv, RowsTyped
    <3>2. 0 <= Tries
      BY VerificationAssumption DEF VerificationAssumption
    <3>. QED BY <1>1, <1>2, <1>4, <1>5, <1>6, <2>2, <3>1, <3>2 DEF Current, Mailed, Counted
  <2>. QED BY <1>7, <2>1, <2>2
<1>11. OneOpen'
  <2>. SUFFICES ASSUME NEW i \in Ids', NEW k \in Ids', Open(i)', Open(k)',
                       challenge'[i].user = challenge'[k].user,
                       challenge'[i].address = challenge'[k].address
                PROVE  i = k
    BY DEF OneOpen
  <2>1. CASE i \in Ids /\ k \in Ids
    BY <1>2, <1>9, <2>1 DEF CodesInv, OneOpen
  <2>2. CASE i = n + 1 /\ k \in Ids
    BY <1>4, <1>5, <1>9, <2>2 DEF S
  <2>3. CASE i \in Ids /\ k = n + 1
    BY <1>4, <1>5, <1>9, <2>3 DEF S
  <2>. QED BY <1>7, <2>1, <2>2, <2>3
<1>12. OwnershipProven'
  <2>. SUFFICES ASSUME NEW v \in Users, setting'[v].verified
                PROVE  \E k \in Ids' : /\ k > older'[v]
                                       /\ challenge'[k].user = v
                                       /\ challenge'[k].address = setting'[v].address
                                       /\ challenge'[k].consumed
                                       /\ challenge'[k].status \in {"accepted", "unknown"}
    BY DEF OwnershipProven
  <2>1. PICK k \in Ids : /\ k > older[v]
                         /\ challenge[k].user = v /\ challenge[k].address = setting[v].address
                         /\ challenge[k].consumed
                         /\ challenge[k].status \in {"accepted", "unknown"}
    BY <1>1, <1>2 DEF CodesInv, OwnershipProven
  <2>. QED BY <1>1, <1>7, <1>9, <2>1
<1>13. \A v \in Users : older'[v] <= Len(challenge')
  BY <1>1, <1>2, <1>5 DEF CodesInv, RowsTyped
<1>. QED BY <1>5, <1>8, <1>10, <1>11, <1>12, <1>13 DEF CodesInv

\* The code that a confirmation looks at is the only one it could look at.
LEMMA TheCode ==
  ASSUME CodesInv, NEW u \in Users, NEW a, Confirmable(u, a) # {}
  PROVE  Latest(Confirmable(u, a)) \in Confirmable(u, a)
<1>1. PICK k : k \in Confirmable(u, a)
  OBVIOUS
<1>2. \A i \in Confirmable(u, a) : i = k
  BY <1>1 DEF Confirmable, CodesInv, OneOpen
<1>3. k \in Nat
  BY <1>1 DEF Confirmable, Ids
<1>4. \E m \in Confirmable(u, a) : \A i \in Confirmable(u, a) : i <= m
  BY <1>1, <1>2, <1>3
<1>. QED BY <1>4 DEF Latest

\* The right code verifies the address it was mailed to.
LEMMA Accepting ==
  ASSUME VerificationInv, NEW q \in Requests, Waiting(q, "confirm"), ConfirmAccepts(q),
         UNCHANGED <<mailNow, older>>
  PROVE  CodesInv' /\ Len(challenge') = Len(challenge)
<1>. DEFINE u == request[q].user
            a == request[q].address
            k == Latest(Confirmable(u, a))
            c == [challenge[k] EXCEPT !.consumed = TRUE]
<1>1. CodesInv /\ u \in Users
  BY DEF VerificationInv, RequestsInv, RequestOK, Waiting
<1>2. /\ setting[u].address = a /\ Confirmable(u, a) # {}
      /\ challenge' = [challenge EXCEPT ![k] = c]
      /\ setting' = [setting EXCEPT ![u] = [setting[u] EXCEPT !.verified = TRUE]]
      /\ guesses' = guesses
  BY DEF ConfirmAccepts, ConfirmFinds
<1>3. k \in Confirmable(u, a)
  BY <1>1, <1>2, TheCode
<1>4. /\ k \in Ids /\ challenge[k].user = u /\ challenge[k].address = a
      /\ challenge[k].status \in {"accepted", "unknown"} /\ Open(k)
  BY <1>3 DEF Confirmable
<1>5. challenge \in Seq(Code) /\ challenge[k] \in Code /\ Len(challenge) \in Nat
  BY <1>1, <1>4 DEF CodesInv, RowsTyped, Ids
<1>6. /\ c \in Code /\ c.user = u /\ c.address = a /\ c.consumed
      /\ c.status = challenge[k].status /\ c.attempts = challenge[k].attempts
  BY <1>4, <1>5 DEF Code
<1>7. /\ setting' \in [Users -> Setting] /\ setting'[u].address = a
      /\ \A v \in Users \ {u} : setting'[v] = setting[v]
  <2>1. setting \in [Users -> Setting] /\ setting[u] \in Setting
    BY <1>1 DEF CodesInv, RowsTyped
  <2>2. /\ [setting[u] EXCEPT !.verified = TRUE] \in Setting
        /\ [setting[u] EXCEPT !.verified = TRUE].address = a
    BY <1>2, <2>1 DEF Setting
  <2>. QED BY <1>1, <1>2, <2>1, <2>2
<1>. HIDE DEF c, k
<1>8. /\ challenge' \in Seq(Code) /\ Len(challenge') = Len(challenge) /\ Ids' = Ids
      /\ challenge'[k] = c /\ \A i \in Ids \ {k} : challenge'[i] = challenge[i]
  BY <1>2, <1>4, <1>5, <1>6 DEF Ids
<1>9. (\A i \in Ids : Current(i) /\ Mailed(i) /\ Counted(i))'
  <2>1. ASSUME NEW i \in Ids PROVE (Current(i) /\ Mailed(i) /\ Counted(i))'
    <3>1. Current(i) /\ Mailed(i) /\ Counted(i)
      BY <1>1 DEF CodesInv
    <3>2. CASE i = k
      BY <1>2, <1>4, <1>6, <1>8, <3>1, <3>2 DEF Current, Mailed, Counted, Open
    <3>3. CASE i # k
      BY <1>2, <1>8, <3>1, <3>3 DEF Current, Mailed, Counted, Open
    <3>. QED BY <3>2, <3>3
  <2>. QED BY <1>8, <2>1
<1>10. OneOpen'
  <2>. SUFFICES ASSUME NEW i \in Ids, NEW j \in Ids, Open(i)', Open(j)',
                       challenge'[i].user = challenge'[j].user,
                       challenge'[i].address = challenge'[j].address
                PROVE  i = j
    BY <1>8 DEF OneOpen
  <2>1. i # k /\ j # k
    BY <1>6, <1>8 DEF Open
  <2>2. challenge'[i] = challenge[i] /\ challenge'[j] = challenge[j]
    BY <1>8, <2>1
  <2>3. Open(i) /\ Open(j)
    BY <2>2 DEF Open
  <2>. QED BY <1>1, <2>2, <2>3 DEF CodesInv, OneOpen
<1>11. OwnershipProven'
  <2>. SUFFICES ASSUME NEW v \in Users, setting'[v].verified
                PROVE  \E i \in Ids : /\ i > older[v]
                                      /\ challenge'[i].user = v
                                      /\ challenge'[i].address = setting'[v].address
                                      /\ challenge'[i].consumed
                                      /\ challenge'[i].status \in {"accepted", "unknown"}
    BY <1>8 DEF OwnershipProven
  <2>1. CASE v = u
    <3>1. k > older[u]
      BY <1>1, <1>4 DEF CodesInv, Current
    <3>. QED BY <1>4, <1>6, <1>7, <1>8, <2>1, <3>1
  <2>2. CASE v # u
    <3>1. setting'[v] = setting[v]
      BY <1>7, <2>2
    <3>2. PICK i \in Ids : /\ i > older[v]
                           /\ challenge[i].user = v /\ challenge[i].address = setting[v].address
                           /\ challenge[i].consumed
                           /\ challenge[i].status \in {"accepted", "unknown"}
      BY <1>1, <3>1 DEF CodesInv, OwnershipProven
    <3>3. i # k
      BY <1>4, <3>2 DEF Open
    <3>. QED BY <1>8, <3>1, <3>2, <3>3
  <2>. QED BY <2>1, <2>2
<1>. QED BY <1>1, <1>2, <1>7, <1>8, <1>9, <1>10, <1>11 DEF CodesInv, RowsTyped

\* A wrong code is counted.
LEMMA Counting ==
  ASSUME VerificationInv, NEW q \in Requests, Waiting(q, "confirm"), ConfirmCounts(q),
         UNCHANGED <<mailNow, older>>
  PROVE  CodesInv' /\ Len(challenge') = Len(challenge)
<1>. DEFINE u == request[q].user
            a == request[q].address
            k == Latest(Confirmable(u, a))
            c == [challenge[k] EXCEPT !.attempts = challenge[k].attempts + 1]
<1>1. CodesInv /\ u \in Users
  BY DEF VerificationInv, RequestsInv, RequestOK, Waiting
<1>2. /\ Confirmable(u, a) # {}
      /\ challenge' = [challenge EXCEPT ![k] = c]
      /\ guesses' = [guesses EXCEPT ![k] = guesses[k] + 1]
      /\ setting' = setting
  BY DEF ConfirmCounts, ConfirmFinds
<1>3. k \in Confirmable(u, a)
  BY <1>1, <1>2, TheCode
<1>4. k \in Ids /\ challenge[k].attempts < Tries
  BY <1>3 DEF Confirmable
<1>5. /\ challenge \in Seq(Code) /\ challenge[k] \in Code /\ Len(challenge) \in Nat
      /\ guesses \in Seq(Nat) /\ Len(guesses) = Len(challenge) /\ guesses[k] \in Nat
      /\ guesses[k] = challenge[k].attempts
  BY <1>1, <1>4 DEF CodesInv, RowsTyped, Ids, Counted
<1>6. /\ c \in Code /\ c.user = challenge[k].user /\ c.address = challenge[k].address
      /\ c.consumed = challenge[k].consumed /\ c.invalid = challenge[k].invalid
      /\ c.status = challenge[k].status /\ c.attempts = challenge[k].attempts + 1
  <2>. DEFINE d == challenge[k]
  <2>1. d \in Code /\ d.attempts \in Nat /\ d.attempts + 1 \in Nat /\ c = [d EXCEPT !.attempts = d.attempts + 1]
    <3>1. d \in Code /\ c = [d EXCEPT !.attempts = d.attempts + 1]
      BY <1>5
    <3>2. d.attempts \in Nat
      BY <3>1 DEF Code
    <3>. QED BY <3>1, <3>2
  <2>. HIDE DEF d, c, k
  <2>2. \A m \in Nat : /\ [d EXCEPT !.attempts = m] \in Code
                       /\ [d EXCEPT !.attempts = m].user = d.user
                       /\ [d EXCEPT !.attempts = m].address = d.address
                       /\ [d EXCEPT !.attempts = m].consumed = d.consumed
                       /\ [d EXCEPT !.attempts = m].invalid = d.invalid
                       /\ [d EXCEPT !.attempts = m].status = d.status
                       /\ [d EXCEPT !.attempts = m].attempts = m
    BY <2>1 DEF Code
  <2>. QED BY <2>1, <2>2 DEF d
<1>7. Tries \in Nat
  BY VerificationAssumption DEF VerificationAssumption
<1>. HIDE DEF c, k
<1>8. /\ guesses' \in Seq(Nat) /\ Len(guesses') = Len(guesses)
      /\ guesses'[k] = guesses[k] + 1 /\ \A i \in Ids \ {k} : guesses'[i] = guesses[i]
  BY <1>2, <1>4, <1>5 DEF Ids
<1>9. guesses'[k] = c.attempts /\ guesses'[k] <= Tries
  BY <1>4, <1>5, <1>6, <1>7, <1>8
<1>10. CodesInv'
  BY <1>1, <1>2, <1>4, <1>6, <1>8, <1>9, CodeTouched
<1>. QED BY <1>2, <1>5, <1>10

----------------------------------------------------------------------------
LEMMA VerificationInitOK == VerificationInit => VerificationInv
<1>. SUFFICES ASSUME VerificationInit PROVE VerificationInv
  OBVIOUS
<1>1. RequestsInv
  BY IdleIsOK DEF VerificationInit, RequestsInv
<1>2. RowsTyped
  BY DEF VerificationInit, RowsTyped, NoSetting, Setting, Never
<1>3. Ids = {} /\ Len(challenge) = 0
  BY DEF VerificationInit, Ids
<1>4. OwnershipProven
  BY DEF VerificationInit, OwnershipProven, NoSetting
<1>5. \A u \in Users : older[u] <= Len(challenge)
  BY <1>3 DEF VerificationInit
<1>. QED BY <1>1, <1>2, <1>3, <1>4, <1>5 DEF VerificationInv, CodesInv, OneOpen

\* Every action keeps both invariants.
LEMMA VerificationStep ==
  VerificationInv /\ [VerificationNext]_verificationVars => VerificationInv'
<1>. SUFFICES ASSUME VerificationInv, [VerificationNext]_verificationVars PROVE VerificationInv'
  OBVIOUS
<1>. Len(challenge) \in Nat /\ CodesInv /\ RequestsInv
  BY DEF VerificationInv, CodesInv, RowsTyped
<1>. \A q \in Requests : RequestOK(request[q], Len(challenge))
  BY DEF RequestsInv
<1>. \A q \in Requests : RequestOK(Idle, Len(challenge))
  BY IdleIsOK
<1>1. ASSUME NEW u \in Users, DeliveryPauses(u) PROVE VerificationInv'
  <2>1. CodesInv'
    BY <1>1, Pausing DEF DeliveryPauses
  <2>2. RequestsInv'
    BY <1>1 DEF DeliveryPauses, RequestsInv
  <2>. QED BY <2>1, <2>2 DEF VerificationInv
<1>2. ASSUME NEW u \in Users, NEW a \in Addresses, SetCandidate(u, a) PROVE VerificationInv'
  <2>1. CodesInv'
    BY <1>2, AddressChanges
  <2>2. Len(challenge') = Len(challenge) /\ request' = request
    BY <1>2, Invalidating DEF SetCandidate
  <2>3. RequestsInv'
    BY <2>2 DEF RequestsInv
  <2>. QED BY <2>1, <2>3 DEF VerificationInv
<1>3. ASSUME NEW q \in Requests, CreateChallenge(q) PROVE VerificationInv'
  <2>1. CodesInv' /\ Len(challenge') = Len(challenge) + 1
    BY <1>3, CodeMade
  <2>2. RequestOK(request[q], Len(challenge)) /\ request[q].stage = "create"
    BY <1>3 DEF CreateChallenge, Waiting
  <2>. DEFINE r == [request[q] EXCEPT !.stage = "call", !.lease = NoLease, !.code = Len(challenge) + 1]
  <2>3. RequestOK(r, Len(challenge) + 1)
    BY <2>2 DEF RequestOK
  <2>4. Goes(q, r)
    BY <1>3 DEF CreateChallenge
  <2>. HIDE DEF r
  <2>5. RequestsInv'
    BY <2>1, <2>3, <2>4, RequestMoves
  <2>. QED BY <2>1, <2>5 DEF VerificationInv
<1>4. ASSUME NEW q \in Requests, RefuseChallenge(q) \/ RefuseTest(q) \/ SweepSends(q) \/ SweepReleases(q)
      PROVE  VerificationInv'
  <2>1. Goes(q, Idle) /\ UNCHANGED <<mailNow, setting, challenge, older, guesses>>
    BY <1>4 DEF RefuseChallenge, RefuseTest, SweepSends, SweepReleases
  <2>. QED BY <2>1, OnlyRequest
<1>5. ASSUME NEW q \in Requests, PauseDestination(q) PROVE VerificationInv'
  <2>1. request[q].user \in Users
    BY <1>5 DEF PauseDestination, Waiting, RequestOK
  <2>2. CodesInv'
    BY <1>5, <2>1, Pausing DEF PauseDestination
  <2>3. Goes(q, Idle) /\ challenge' = challenge
    BY <1>5 DEF PauseDestination
  <2>4. RequestsInv'
    BY <2>3, RequestMoves
  <2>. QED BY <2>2, <2>4 DEF VerificationInv
<1>6. ASSUME NEW q \in Requests, ConfirmVerification(q) PROVE VerificationInv'
  <2>1. Waiting(q, "confirm") /\ Goes(q, Idle) /\ UNCHANGED <<mailNow, older>>
    BY <1>6 DEF ConfirmVerification
  <2>2. CASE ConfirmAccepts(q)
    <3>1. CodesInv' /\ Len(challenge') = Len(challenge)
      BY <2>1, <2>2, Accepting
    <3>. QED BY <2>1, <3>1, RequestMoves DEF VerificationInv
  <2>3. CASE ConfirmCounts(q)
    <3>1. CodesInv' /\ Len(challenge') = Len(challenge)
      BY <2>1, <2>3, Counting
    <3>. QED BY <2>1, <3>1, RequestMoves DEF VerificationInv
  <2>4. CASE UNCHANGED <<setting, challenge, guesses>>
    BY <2>1, <2>4, OnlyRequest
  <2>. QED BY <1>6, <2>2, <2>3, <2>4 DEF ConfirmVerification
<1>7. ASSUME NEW q \in Requests, ReserveTestSend(q) PROVE VerificationInv'
  <2>. DEFINE u == request[q].user
              t == TestsNow(setting[u])
              s == [t EXCEPT !.tested = mailNow, !.tests = t.tests + 1]
  <2>1. /\ u \in Users /\ setting' = [setting EXCEPT ![u] = s]
        /\ UNCHANGED <<mailNow, challenge, older, guesses>>
        /\ Goes(q, [request[q] EXCEPT !.stage = "testing", !.lease = NoLease,
                                      !.address = setting[u].address])
    BY <1>7 DEF ReserveTestSend, Waiting, RequestOK
  <2>2. setting[u] \in Setting /\ setting \in [Users -> Setting] /\ mailNow \in Nat
    BY <2>1 DEF CodesInv, RowsTyped
  <2>3. TestsNow(setting[u]) \in Setting
        /\ TestsNow(setting[u]).address = setting[u].address
        /\ TestsNow(setting[u]).verified = setting[u].verified
    <3>. mailNow \in Int /\ 0 \in Int
      BY <2>2
    <3>. DEFINE v == setting[u]
    <3>1. v \in Setting
      BY <2>2
    <3>. HIDE DEF v
    <3>2. TestsNow(v) \in Setting /\ TestsNow(v).address = v.address /\ TestsNow(v).verified = v.verified
      <4>1. CASE v.testWindow = Never \/ mailNow - v.testWindow >= Hour
        <5>1. TestsNow(v) = [v EXCEPT !.testWindow = mailNow, !.tests = 0]
          BY <4>1 DEF TestsNow
        <5>2. /\ [v EXCEPT !.testWindow = mailNow, !.tests = 0] \in Setting
              /\ [v EXCEPT !.testWindow = mailNow, !.tests = 0].address = v.address
              /\ [v EXCEPT !.testWindow = mailNow, !.tests = 0].verified = v.verified
          BY <3>1, TestsMove, Zenon
        <5>. QED BY <5>1, <5>2
      <4>2. CASE ~(v.testWindow = Never \/ mailNow - v.testWindow >= Hour)
        BY <3>1, <4>2 DEF TestsNow
      <4>. QED BY <4>1, <4>2
    <3>. QED BY <3>2 DEF v
  <2>. HIDE DEF t
  <2>4. s \in Setting /\ s.address = setting[u].address /\ s.verified = setting[u].verified
    <3>1. t \in Setting /\ t.address = setting[u].address /\ t.verified = setting[u].verified
      BY <2>3 DEF t
    <3>2. s \in Setting /\ s.address = t.address /\ s.verified = t.verified
      <4>. mailNow \in Int
        BY <2>2
      <4>. HIDE DEF s
      <4>1. s = [t EXCEPT !.tested = mailNow, !.tests = t.tests + 1]
        BY DEF s
      <4>2. /\ [t EXCEPT !.tested = mailNow, !.tests = t.tests + 1] \in Setting
            /\ [t EXCEPT !.tested = mailNow, !.tests = t.tests + 1].address = t.address
            /\ [t EXCEPT !.tested = mailNow, !.tests = t.tests + 1].verified = t.verified
        BY <2>2, <3>1, TestTaken
      <4>. QED BY <4>1, <4>2
    <3>. QED BY <3>1, <3>2
  <2>5. RequestOK([request[q] EXCEPT !.stage = "testing", !.lease = NoLease,
                                     !.address = setting[u].address], Len(challenge))
    BY <1>7 DEF ReserveTestSend, Waiting, RequestOK
  <2>. HIDE DEF s
  <2>6. CodesInv'
    BY <2>1, <2>2, <2>4, SettingTouched
  <2>7. RequestsInv'
    BY <2>1, <2>5, RequestMoves
  <2>. QED BY <2>6, <2>7 DEF VerificationInv
<1>8. ASSUME NEW q \in Requests, NEW u \in Users, ReserveVerification(q, u) PROVE VerificationInv'
  <2>. DEFINE r == [Idle EXCEPT !.stage = "create", !.user = u, !.address = setting[u].address]
  <2>1. setting[u].address \in Addresses
    BY <1>8 DEF ReserveVerification, CodesInv, RowsTyped, Setting
  <2>2. RequestOK(r, Len(challenge)) /\ DOMAIN r = {"stage", "user", "address", "lease", "code"}
    BY <2>1 DEF Idle, RequestOK
  <2>. HIDE DEF r
  <2>3. Reserve(q, setting[u].address, r)
    BY <1>8 DEF ReserveVerification, r
  <2>. QED BY <2>2, <2>3, Reserving
<1>9. ASSUME NEW q \in Requests, NEW u \in Users, ReserveForTest(q, u) PROVE VerificationInv'
  <2>. DEFINE r == [Idle EXCEPT !.stage = "test", !.user = u]
  <2>1. RequestOK(r, Len(challenge)) /\ DOMAIN r = {"stage", "user", "address", "lease", "code"}
    BY DEF Idle, RequestOK
  <2>. HIDE DEF r
  <2>2. Reserve(q, NoAddress, r)
    BY <1>9 DEF ReserveForTest, r
  <2>. QED BY <2>1, <2>2, Reserving
<1>10. ASSUME NEW q \in Requests, SweepReserves(q) PROVE VerificationInv'
  <2>. DEFINE r == [Idle EXCEPT !.stage = "sweep"]
  <2>1. RequestOK(r, Len(challenge)) /\ DOMAIN r = {"stage", "user", "address", "lease", "code"}
    BY DEF Idle, RequestOK
  <2>. HIDE DEF r
  <2>2. Reserve(q, NoAddress, r)
    BY <1>10 DEF SweepReserves, r
  <2>. QED BY <2>1, <2>2, Reserving
<1>11. ASSUME NEW q \in Requests, NEW u \in Users, NEW code, ReadsToConfirm(q, u, code)
       PROVE  VerificationInv'
  <2>. DEFINE r == [Idle EXCEPT !.stage = "confirm", !.user = u,
                                !.address = setting[u].address, !.code = code]
  <2>1. setting[u].address \in Addresses
    BY <1>11 DEF ReadsToConfirm, CodesInv, RowsTyped, Setting
  <2>2. RequestOK(r, Len(challenge))
    BY <2>1 DEF Idle, RequestOK
  <2>3. Goes(q, r) /\ UNCHANGED <<mailNow, setting, challenge, older, guesses>>
    BY <1>11 DEF ReadsToConfirm
  <2>. HIDE DEF r
  <2>. QED BY <2>2, <2>3, OnlyRequest
<1>12. ASSUME NEW q \in Requests, NEW answer \in Answers, AfterCall(q, answer), request[q].user \in Users
       PROVE  \E r : Goes(q, r) /\ RequestOK(r, Len(challenge))
  <2>1. RequestOK([Idle EXCEPT !.stage = "pause", !.user = request[q].user,
                               !.address = request[q].address], Len(challenge))
    BY <1>12 DEF Idle, RequestOK
  <2>. QED BY <1>12, <2>1 DEF AfterCall
<1>13. ASSUME NEW q \in Requests, NEW answer \in Answers, FinishTest(q, answer) PROVE VerificationInv'
  <2>1. request[q].user \in Users
    BY <1>13 DEF FinishTest, Waiting, RequestOK
  <2>2. PICK r : Goes(q, r) /\ RequestOK(r, Len(challenge))
    BY <1>12, <1>13, <2>1 DEF FinishTest
  <2>. QED BY <1>13, <2>2, OnlyRequest DEF FinishTest
<1>14. ASSUME NEW q \in Requests, NEW answer \in Answers, FinishVerificationSend(q, answer)
       PROVE  VerificationInv'
  <2>. DEFINE k == request[q].code
              c == [challenge[k] EXCEPT !.status = Stored(answer)]
  <2>1. request[q].user \in Users /\ k \in Ids
    BY <1>14 DEF FinishVerificationSend, Waiting, RequestOK, Ids
  <2>2. PICK r : Goes(q, r) /\ RequestOK(r, Len(challenge))
    BY <1>12, <1>14, <2>1 DEF FinishVerificationSend
  <2>3. UNCHANGED <<mailNow, setting, older, guesses>>
    BY <1>14 DEF FinishVerificationSend
  <2>4. CASE challenge[k].status # "pending"
    <3>1. challenge' = challenge
      BY <1>14, <2>4 DEF FinishVerificationSend
    <3>. QED BY <2>2, <2>3, <3>1, OnlyRequest
  <2>5. CASE challenge[k].status = "pending"
    <3>1. challenge' = [challenge EXCEPT ![k] = c]
      BY <1>14, <2>5 DEF FinishVerificationSend
    <3>2. /\ challenge[k] \in Code /\ challenge \in Seq(Code) /\ guesses \in Seq(Nat)
          /\ Mailed(k) /\ Counted(k)
      BY <2>1 DEF CodesInv, RowsTyped, Ids
    <3>3. Stored(answer) \in {"accepted", "failed", "unknown"}
      BY DEF Stored, Answers
    <3>4. /\ c \in Code /\ c.user = challenge[k].user /\ c.address = challenge[k].address
          /\ c.consumed = challenge[k].consumed /\ c.invalid = challenge[k].invalid
          /\ ~c.consumed /\ c.attempts = challenge[k].attempts
      BY <2>5, <3>2, <3>3 DEF Code, Mailed
    <3>. HIDE DEF c
    <3>5. guesses'[k] = c.attempts /\ guesses'[k] <= Tries
      BY <2>3, <3>2, <3>4 DEF Counted
    <3>6. CodesInv'
      BY <2>1, <2>3, <3>1, <3>2, <3>4, <3>5, CodeTouched
    <3>7. Len(challenge') = Len(challenge)
      BY <3>1, <3>2
    <3>8. RequestsInv'
      BY <2>2, <3>7, RequestMoves
    <3>. QED BY <3>6, <3>8 DEF VerificationInv
  <2>. QED BY <2>4, <2>5
<1>15. CASE MailTick
  <2>1. mailNow' \in Nat /\ UNCHANGED <<setting, challenge, request, older, guesses>>
    BY <1>15 DEF MailTick, CodesInv, RowsTyped
  <2>. QED BY <2>1 DEF VerificationInv, RequestsInv, CodesInv, RowsTyped, Current, OneOpen, Mailed,
         Counted, OwnershipProven, Ids, Open
<1>16. CASE MailRestart
  <2>1. UNCHANGED <<mailNow, setting, challenge, older, guesses>> /\ request' = [q \in Requests |-> Idle]
    BY <1>16 DEF MailRestart
  <2>2. RequestsInv'
    BY <2>1, IdleIsOK DEF RequestsInv
  <2>3. CodesInv'
    BY <2>1 DEF CodesInv, RowsTyped, Current, OneOpen, Mailed, Counted, OwnershipProven, Ids, Open
  <2>. QED BY <2>2, <2>3 DEF VerificationInv
<1>17. CASE UNCHANGED verificationVars
  BY <1>17 DEF verificationVars, VerificationInv, RequestsInv, CodesInv, RowsTyped, Current, OneOpen,
     Mailed, Counted, OwnershipProven, Ids, Open
<1>. QED
  BY <1>1, <1>2, <1>3, <1>4, <1>5, <1>6, <1>7, <1>8, <1>9, <1>10, <1>11, <1>13, <1>14, <1>15, <1>16,
     <1>17
  DEF VerificationNext

----------------------------------------------------------------------------
\* VerificationInv holds in every state: the inductive invariant of settings, codes
\* and requests (email_repository.py, services/email_reminders.py).
THEOREM VerificationHolds == VerificationSpec => []VerificationInv
<1>. QED BY VerificationInitOK, VerificationStep, PTL DEF VerificationSpec

\* An address counts as verified only through a code that was mailed to it since it
\* was last made the user's address.
THEOREM AddressIsProven == VerificationSpec => []OwnershipProven
<1>1. VerificationInv => OwnershipProven
  BY DEF VerificationInv, CodesInv
<1>. QED BY <1>1, VerificationHolds, PTL

\* No code takes more than Tries wrong guesses, whoever submits them.
THEOREM GuessesAreLimited == VerificationSpec => [](\A k \in Ids : guesses[k] <= Tries)
<1>1. VerificationInv => \A k \in Ids : guesses[k] <= Tries
  BY DEF VerificationInv, CodesInv, Counted
<1>. QED BY <1>1, VerificationHolds, PTL

----------------------------------------------------------------------------
(* One counter of sends.  A window is the code's counter; "sent" are the provider *)
(* calls and "held" the leases that were counted in the window that began at a    *)
(* time.  The two make up the count of the window that stands, and nothing that   *)
(* is not over was counted in any other window.                                   *)

WindowsTo(now, limit) == {NoWindow} \cup [started : 0..now, count : 0..limit]
Numbers == [0..MailTime -> Nat]
Place(window, t) == IF window.started = t THEN window.count ELSE 0
Balanced(window, sent, held, now, length) ==
  /\ \A t \in 0..MailTime : now - t < length => sent[t] + held[t] = Place(window, t)
  /\ window # NoWindow => held[window.started] <= window.count

LEMMA WindowFields ==
  ASSUME NEW now \in Nat, NEW limit \in Nat, NEW w \in WindowsTo(now, limit)
  PROVE  /\ w.started \in Int /\ w.count \in 0..limit
         /\ w = NoWindow => w.started = Never /\ w.count = 0
         /\ w # NoWindow => w.started \in 0..now
BY DEF WindowsTo, NoWindow, Never

\* A window that is over, or none, gives way to a new one or to none.
LEMMA NewWindow ==
  ASSUME NEW now \in 0..MailTime, NEW length \in Nat \ {0}, NEW limit \in Nat,
         NEW w \in WindowsTo(now, limit), NEW sent \in Numbers, NEW held \in Numbers,
         Balanced(w, sent, held, now, length), w = NoWindow \/ Over(w, now, length),
         MailTime \in Nat
  PROVE  /\ Balanced([started |-> now, count |-> 0], sent, held, now, length)
         /\ Balanced(NoWindow, sent, held, now, length)
<1>. now \in Nat
  OBVIOUS
<1>1. \A t \in 0..MailTime : now - t < length => Place(w, t) = 0
  <2>1. CASE w = NoWindow
    BY <2>1 DEF Place, NoWindow
  <2>2. CASE Over(w, now, length) /\ w # NoWindow
    BY <2>2, WindowFields DEF Place, Over
  <2>. QED BY <2>1, <2>2
<1>2. \A t \in 0..MailTime : now - t < length => sent[t] + held[t] = 0
  BY <1>1 DEF Balanced
<1>3. \A t \in 0..MailTime : Place([started |-> now, count |-> 0], t) = 0 /\ Place(NoWindow, t) = 0
  BY DEF Place, NoWindow
<1>4. held[now] <= 0
  BY <1>2 DEF Numbers
<1>5. [started |-> now, count |-> 0].started = now /\ [started |-> now, count |-> 0].count = 0
  OBVIOUS
<1>6. Balanced([started |-> now, count |-> 0], sent, held, now, length)
  BY <1>2, <1>3, <1>4, <1>5 DEF Balanced
<1>7. Balanced(NoWindow, sent, held, now, length)
  BY <1>2, <1>3 DEF Balanced
<1>. QED BY <1>6, <1>7

\* A lease is counted in a window that is not over.
LEMMA OneMoreHeld ==
  ASSUME NEW now \in 0..MailTime, NEW length \in Nat \ {0}, NEW limit \in Nat,
         NEW w \in [started : 0..now, count : 0..limit], ~Over(w, now, length),
         NEW sent \in Numbers, NEW held \in Numbers, MailTime \in Nat,
         Balanced(w, sent, held, now, length)
  PROVE  /\ w.started \in 0..MailTime
         /\ Balanced(More(w), sent, [held EXCEPT ![w.started] = @ + 1], now, length)
         /\ [held EXCEPT ![w.started] = @ + 1] \in Numbers
<1>. DEFINE h == [held EXCEPT ![w.started] = @ + 1]
<1>1. w.started \in 0..MailTime /\ w.count \in Nat /\ More(w).started = w.started /\ More(w).count = w.count + 1
  BY DEF More
<1>2. h \in Numbers /\ h[w.started] = held[w.started] + 1 /\ held[w.started] \in Nat
  BY <1>1 DEF Numbers
<1>3. \A t \in 0..MailTime : t # w.started => h[t] = held[t]
  BY <1>1 DEF Numbers
<1>. HIDE DEF h
<1>4. w # NoWindow
  BY DEF NoWindow, Never
<1>5. h[w.started] <= w.count + 1
  BY <1>1, <1>2, <1>4 DEF Balanced
<1>6. ASSUME NEW t \in 0..MailTime, now - t < length
      PROVE  sent[t] + h[t] = Place(More(w), t)
  <2>1. sent[t] + held[t] = Place(w, t) /\ sent[t] \in Nat /\ held[t] \in Nat
    BY <1>6 DEF Balanced, Numbers
  <2>2. CASE t = w.started
    BY <1>1, <1>2, <2>1, <2>2 DEF Place
  <2>3. CASE t # w.started
    BY <1>1, <1>3, <2>1, <2>3 DEF Place
  <2>. QED BY <2>2, <2>3
<1>7. Balanced(More(w), sent, h, now, length)
  BY <1>1, <1>5, <1>6 DEF Balanced
<1>. QED BY <1>1, <1>2, <1>7 DEF h

\* A lease becomes a provider call: the windows that are over are forgotten.
LEMMA HeldIsSent ==
  ASSUME NEW now \in 0..MailTime, NEW length \in Nat \ {0}, NEW limit \in Nat,
         NEW w \in WindowsTo(now, limit), NEW sent \in Numbers, NEW held \in Numbers,
         MailTime \in Nat, Balanced(w, sent, held, now, length),
         NEW s \in 0..now, held[s] >= 1
  PROVE  LET h == [held EXCEPT ![s] = @ - 1]
             c == IF now - s < length THEN [sent EXCEPT ![s] = @ + 1] ELSE sent
         IN h \in Numbers /\ c \in Numbers /\ Balanced(w, c, h, now, length)
<1>. DEFINE h == [held EXCEPT ![s] = @ - 1]
            c == IF now - s < length THEN [sent EXCEPT ![s] = @ + 1] ELSE sent
<1>1. s \in 0..MailTime
  OBVIOUS
<1>2. held[s] \in Nat /\ held[s] - 1 \in Nat /\ sent[s] + 1 \in Nat /\ sent[s] \in Nat
  BY <1>1 DEF Numbers
<1>3. h \in Numbers /\ h[s] = held[s] - 1 /\ \A t \in 0..MailTime : t # s => h[t] = held[t]
  BY <1>1, <1>2 DEF Numbers
<1>4. /\ c \in Numbers /\ \A t \in 0..MailTime : t # s => c[t] = sent[t]
      /\ now - s < length => c[s] = sent[s] + 1
  BY <1>1, <1>2 DEF Numbers
<1>. HIDE DEF h, c
<1>5. ASSUME NEW t \in 0..MailTime, now - t < length PROVE c[t] + h[t] = Place(w, t)
  <2>1. sent[t] + held[t] = Place(w, t)
    BY <1>5 DEF Balanced
  <2>2. CASE t = s
    <3>1. c[t] + h[t] = sent[t] + held[t]
      BY <1>2, <1>3, <1>4, <1>5, <2>2
    <3>. QED BY <2>1, <3>1
  <2>3. CASE t # s
    BY <1>3, <1>4, <2>1, <2>3
  <2>. QED BY <2>2, <2>3
<1>6. ASSUME w # NoWindow PROVE h[w.started] <= w.count
  <2>1. held[w.started] <= w.count /\ w.started \in 0..MailTime /\ w.count \in Nat
    BY <1>6, WindowFields DEF Balanced
  <2>2. held[w.started] \in Nat
    BY <2>1 DEF Numbers
  <2>3. CASE w.started = s
    BY <1>2, <1>3, <2>1, <2>3
  <2>4. CASE w.started # s
    BY <1>3, <2>1, <2>4
  <2>. QED BY <2>3, <2>4
<1>7. Balanced(w, c, h, now, length)
  BY <1>5, <1>6 DEF Balanced
<1>. QED BY <1>3, <1>4, <1>7 DEF h, c

\* A lease is given back: to its own window when that one still stands, and else to
\* none, because then its own window is over.
LEMMA HeldIsReleased ==
  ASSUME NEW now \in 0..MailTime, NEW length \in Nat \ {0}, NEW limit \in Nat,
         NEW w \in WindowsTo(now, limit), NEW sent \in Numbers, NEW held \in Numbers,
         MailTime \in Nat, Balanced(w, sent, held, now, length),
         NEW s \in 0..now, held[s] >= 1,
         NEW v, v = IF w.started = s THEN Less(w) ELSE w
  PROVE  /\ v \in WindowsTo(now, limit)
         /\ v # NoWindow /\ w.count >= 1 => v.count >= 1
         /\ [held EXCEPT ![s] = @ - 1] \in Numbers
         /\ Balanced(v, sent, [held EXCEPT ![s] = @ - 1], now, length)
<1>. DEFINE h == [held EXCEPT ![s] = @ - 1]
<1>1. s \in 0..MailTime
  OBVIOUS
<1>2. held[s] \in Nat /\ held[s] - 1 \in Nat
  BY <1>1 DEF Numbers
<1>3. h \in Numbers /\ h[s] = held[s] - 1 /\ \A t \in 0..MailTime : t # s => h[t] = held[t]
  BY <1>1, <1>2 DEF Numbers
<1>. HIDE DEF h
<1>4. CASE w.started = s
  <2>1. w \in [started : 0..now, count : 0..limit] /\ w # NoWindow
    BY <1>4 DEF WindowsTo, NoWindow, Never
  <2>2. w.count >= held[s] /\ w.count >= 1 /\ w.count \in 0..limit
    BY <1>2, <1>4, <2>1 DEF Balanced
  <2>3. CASE w.count = 1
    <3>1. v = NoWindow
      BY <1>4, <2>3 DEF Less
    <3>2. ASSUME NEW t \in 0..MailTime, now - t < length PROVE sent[t] + h[t] = Place(v, t)
      <4>1. sent[t] + held[t] = Place(w, t) /\ sent[t] \in Nat /\ held[t] \in Nat
        BY <3>2 DEF Balanced, Numbers
      <4>2. Place(v, t) = 0
        BY <3>1 DEF Place, NoWindow
      <4>3. CASE t = s
        <5>1. Place(w, t) = 1
          BY <1>4, <2>3, <4>3 DEF Place
        <5>. QED BY <1>2, <1>3, <4>1, <4>2, <4>3, <5>1
      <4>4. CASE t # s
        <5>1. Place(w, t) = 0
          BY <1>4, <4>4 DEF Place
        <5>. QED BY <1>3, <4>1, <4>2, <4>4, <5>1
      <4>. QED BY <4>3, <4>4
    <3>. QED BY <1>3, <3>1, <3>2 DEF Balanced, WindowsTo, h
  <2>4. CASE w.count # 1
    <3>1. v = [w EXCEPT !.count = w.count - 1]
      BY <1>4, <2>4 DEF Less
    <3>2. v \in [started : 0..now, count : 0..limit] /\ v.started = s /\ v.count = w.count - 1 /\ v.count >= 1
      BY <1>4, <2>1, <2>2, <2>4, <3>1
    <3>3. ASSUME NEW t \in 0..MailTime, now - t < length PROVE sent[t] + h[t] = Place(v, t)
      <4>1. sent[t] + held[t] = Place(w, t) /\ sent[t] \in Nat /\ held[t] \in Nat
        BY <3>3 DEF Balanced, Numbers
      <4>3. CASE t = s
        <5>1. Place(w, t) = w.count /\ Place(v, t) = w.count - 1
          BY <1>4, <3>2, <4>3 DEF Place
        <5>. QED BY <1>2, <1>3, <2>2, <4>1, <4>3, <5>1
      <4>4. CASE t # s
        <5>1. Place(w, t) = 0 /\ Place(v, t) = 0
          BY <1>4, <3>2, <4>4 DEF Place
        <5>. QED BY <1>3, <4>1, <4>4, <5>1
      <4>. QED BY <4>3, <4>4
    <3>4. h[v.started] <= v.count
      BY <1>2, <1>3, <2>2, <3>2
    <3>5. Balanced(v, sent, h, now, length)
      BY <3>3, <3>4 DEF Balanced
    <3>. QED BY <1>3, <3>2, <3>5 DEF WindowsTo, h
  <2>. QED BY <2>3, <2>4
<1>5. CASE w.started # s
  <2>1. v = w
    BY <1>5
  <2>2. ASSUME NEW t \in 0..MailTime, now - t < length PROVE sent[t] + h[t] = Place(v, t)
    <3>1. sent[t] + held[t] = Place(w, t) /\ sent[t] \in Nat /\ held[t] \in Nat
      BY <2>2 DEF Balanced, Numbers
    <3>2. CASE t = s
      BY <1>2, <1>5, <3>1, <3>2 DEF Place
    <3>3. CASE t # s
      BY <1>3, <2>1, <3>1, <3>3
    <3>. QED BY <3>2, <3>3
  <2>3. ASSUME v # NoWindow PROVE h[v.started] <= v.count
    <3>1. held[w.started] <= w.count /\ w.started \in 0..MailTime
      BY <2>1, <2>3, WindowFields DEF Balanced
    <3>. QED BY <1>3, <1>5, <2>1, <3>1
  <2>4. Balanced(v, sent, h, now, length)
    BY <2>2, <2>3 DEF Balanced
  <2>. QED BY <1>3, <2>1, <2>4 DEF h
<1>. QED BY <1>4, <1>5

Left(sent, now, length) == [t \in 0..MailTime |-> IF now - t < length THEN sent[t] ELSE 0]

\* Time passes: the windows that are now over are forgotten.
LEMMA TimePasses ==
  ASSUME NEW now \in 0..MailTime, NEW length \in Nat \ {0}, NEW limit \in Nat,
         NEW w \in WindowsTo(now, limit), NEW sent \in Numbers, NEW held \in Numbers,
         MailTime \in Nat, Balanced(w, sent, held, now, length),
         NEW n, n = now + 1, NEW c, c = Left(sent, n, length)
  PROVE  /\ w \in WindowsTo(n, limit) /\ c \in Numbers
         /\ Balanced(w, c, held, n, length)
<1>. USE DEF Left
<1>1. w \in WindowsTo(n, limit)
  BY DEF WindowsTo
<1>2. c \in Numbers
  BY DEF Numbers
<1>3. \A t \in 0..MailTime : n - t < length => c[t] = sent[t] /\ now - t < length
  OBVIOUS
<1>4. Balanced(w, c, held, n, length)
  BY <1>3 DEF Balanced
<1>. QED BY <1>1, <1>2, <1>4

----------------------------------------------------------------------------
(* The leases that are held.                                               *)

HeldOf == [t \in 0..MailTime |-> Cardinality(Holding(t, NoAddress, Never))]
HeldTo == [a \in Addresses |-> [t \in 0..MailTime |-> Cardinality(Holding(Never, a, t))]]

\* Who holds a lease of a window.
LEMMA HoldingIs ==
  /\ \A t : Holding(t, NoAddress, Never) =
       {q \in Requests : request[q].lease # NoLease /\ request[q].lease.window = t}
  /\ \A t : Holding(t, NoAddress, Never)' =
       {q \in Requests : request'[q].lease # NoLease /\ request'[q].lease.window = t}
  /\ \A t : \A a \in Addresses : Holding(Never, a, t) =
       {q \in Requests : /\ request[q].lease # NoLease
                         /\ request[q].lease.address = a /\ request[q].lease.own = t}
  /\ \A t : \A a \in Addresses : Holding(Never, a, t)' =
       {q \in Requests : /\ request'[q].lease # NoLease
                         /\ request'[q].lease.address = a /\ request'[q].lease.own = t}
<1>1. NoAddress \notin Addresses
  BY AdmissionAssumption DEF AdmissionAssumption
<1>. QED BY <1>1 DEF Holding

LEMMA HeldTyped ==
  /\ HeldOf \in Numbers /\ HeldTo \in [Addresses -> Numbers]
  /\ HeldOf' \in Numbers /\ HeldTo' \in [Addresses -> Numbers]
<1>1. IsFiniteSet(Requests)
  BY VerificationAssumption DEF VerificationAssumption
<1>2. ASSUME NEW S \in SUBSET Requests PROVE Cardinality(S) \in Nat
  BY <1>1, FS_Subset, FS_CardinalityType
<1>3. \A w, a, o : Holding(w, a, o) \in SUBSET Requests /\ Holding(w, a, o)' \in SUBSET Requests
  BY DEF Holding
<1>4. \A w, a, o : Cardinality(Holding(w, a, o)) \in Nat /\ Cardinality(Holding(w, a, o)') \in Nat
  BY <1>2, <1>3
<1>. QED BY <1>4 DEF HeldOf, HeldTo, Numbers

LEMMA LeasesKept ==
  ASSUME \A q \in Requests : request'[q].lease = request[q].lease
  PROVE  HeldOf' = HeldOf /\ HeldTo' = HeldTo
<1>1. \A w, a, o : Holding(w, a, o)' = Holding(w, a, o)
  BY DEF Holding
<1>. QED BY <1>1 DEF HeldOf, HeldTo

\* One request more among those that hold a lease, or one less.
LEMMA OneMore ==
  ASSUME IsFiniteSet(Requests), NEW q \in Requests,
         NEW S \in SUBSET Requests, NEW T, q \notin S, T = S \cup {q}
  PROVE  Cardinality(T) = Cardinality(S) + 1 /\ Cardinality(S) \in Nat
<1>1. IsFiniteSet(S)
  BY FS_Subset
<1>. QED BY <1>1, FS_AddElement, FS_CardinalityType

LEMMA LeaseTaken ==
  ASSUME NEW q \in Requests, NEW l, l # NoLease,
         request[q].lease = NoLease, request'[q].lease = l,
         \A p \in Requests \ {q} : request'[p].lease = request[p].lease,
         l.window \in 0..MailTime, l.address \in Addresses => l.own \in 0..MailTime
  PROVE  /\ HeldOf' = [HeldOf EXCEPT ![l.window] = @ + 1]
         /\ HeldTo' = [a \in Addresses |->
              IF a = l.address THEN [HeldTo[a] EXCEPT ![l.own] = @ + 1] ELSE HeldTo[a]]
<1>1. IsFiniteSet(Requests)
  BY VerificationAssumption DEF VerificationAssumption
<1>2. ASSUME NEW t \in 0..MailTime
      PROVE  /\ t = l.window => HeldOf'[t] = HeldOf[t] + 1
             /\ t # l.window => HeldOf'[t] = HeldOf[t]
  <2>. DEFINE S == {p \in Requests : request[p].lease # NoLease /\ request[p].lease.window = t}
              T == {p \in Requests : request'[p].lease # NoLease /\ request'[p].lease.window = t}
  <2>1. HeldOf[t] = Cardinality(S) /\ HeldOf'[t] = Cardinality(T)
    <3>1. Holding(t, NoAddress, Never) = S
      BY HoldingIs
    <3>2. Holding(t, NoAddress, Never)' = T
      BY HoldingIs
    <3>. QED BY <3>1, <3>2 DEF HeldOf
  <2>2. q \notin S /\ S \in SUBSET Requests
    OBVIOUS
  <2>3. t = l.window => T = S \cup {q}
    OBVIOUS
  <2>4. t # l.window => T = S
    OBVIOUS
  <2>. HIDE DEF S, T
  <2>5. t = l.window => Cardinality(T) = Cardinality(S) + 1
    BY <1>1, <2>2, <2>3, OneMore
  <2>. QED BY <2>1, <2>4, <2>5
<1>3. ASSUME NEW a \in Addresses, NEW t \in 0..MailTime
      PROVE  /\ a = l.address /\ t = l.own => HeldTo'[a][t] = HeldTo[a][t] + 1
             /\ ~(a = l.address /\ t = l.own) => HeldTo'[a][t] = HeldTo[a][t]
  <2>. DEFINE S == {p \in Requests : /\ request[p].lease # NoLease
                                     /\ request[p].lease.address = a /\ request[p].lease.own = t}
              T == {p \in Requests : /\ request'[p].lease # NoLease
                                     /\ request'[p].lease.address = a /\ request'[p].lease.own = t}
  <2>1. HeldTo[a][t] = Cardinality(S) /\ HeldTo'[a][t] = Cardinality(T)
    <3>1. Holding(Never, a, t) = S
      BY HoldingIs
    <3>2. Holding(Never, a, t)' = T
      BY HoldingIs
    <3>. QED BY <3>1, <3>2 DEF HeldTo
  <2>2. q \notin S /\ S \in SUBSET Requests
    OBVIOUS
  <2>3. a = l.address /\ t = l.own => T = S \cup {q}
    OBVIOUS
  <2>4. ~(a = l.address /\ t = l.own) => T = S
    OBVIOUS
  <2>. HIDE DEF S, T
  <2>5. a = l.address /\ t = l.own => Cardinality(T) = Cardinality(S) + 1
    BY <1>1, <2>2, <2>3, OneMore
  <2>. QED BY <2>1, <2>4, <2>5
<1>4. HeldOf' \in Numbers /\ HeldTo' \in [Addresses -> Numbers]
  BY HeldTyped
<1>5. HeldOf' = [HeldOf EXCEPT ![l.window] = @ + 1]
  BY <1>2, <1>4, HeldTyped DEF Numbers
<1>6. ASSUME NEW a \in Addresses
      PROVE  HeldTo'[a] = IF a = l.address THEN [HeldTo[a] EXCEPT ![l.own] = @ + 1] ELSE HeldTo[a]
  <2>1. HeldTo'[a] \in Numbers /\ HeldTo[a] \in Numbers
    BY <1>4, HeldTyped
  <2>. DEFINE f == HeldTo[a]
              g == HeldTo'[a]
  <2>2. f \in [0..MailTime -> Nat] /\ g \in [0..MailTime -> Nat]
    BY <2>1 DEF Numbers
  <2>3. \A t \in 0..MailTime : /\ a = l.address /\ t = l.own => g[t] = f[t] + 1
                               /\ ~(a = l.address /\ t = l.own) => g[t] = f[t]
    BY <1>3
  <2>. HIDE DEF f, g
  <2>4. CASE a = l.address
    <3>1. l.own \in 0..MailTime
      BY <2>4
    <3>2. g = [f EXCEPT ![l.own] = f[l.own] + 1]
      BY <2>2, <2>3, <2>4, <3>1
    <3>. QED BY <2>4, <3>2 DEF f, g
  <2>5. CASE a # l.address
    <3>1. g = f
      <4>1. \A t \in 0..MailTime : g[t] = f[t]
        BY <2>3, <2>5
      <4>2. g = [t \in 0..MailTime |-> g[t]] /\ f = [t \in 0..MailTime |-> f[t]]
        BY <2>2
      <4>. QED BY <4>1, <4>2
    <3>. QED BY <2>5, <3>1 DEF f, g
  <2>. QED BY <2>4, <2>5
<1>. QED BY <1>4, <1>5, <1>6

LEMMA LeaseDropped ==
  ASSUME NEW q \in Requests, NEW l, l # NoLease,
         request[q].lease = l, request'[q].lease = NoLease,
         \A p \in Requests \ {q} : request'[p].lease = request[p].lease,
         l.window \in 0..MailTime, l.address \in Addresses => l.own \in 0..MailTime
  PROVE  /\ HeldOf[l.window] >= 1
         /\ HeldOf' = [HeldOf EXCEPT ![l.window] = @ - 1]
         /\ l.address \in Addresses => HeldTo[l.address][l.own] >= 1
         /\ HeldTo' = [a \in Addresses |->
              IF a = l.address THEN [HeldTo[a] EXCEPT ![l.own] = @ - 1] ELSE HeldTo[a]]
<1>1. IsFiniteSet(Requests)
  BY VerificationAssumption DEF VerificationAssumption
<1>2. ASSUME NEW t \in 0..MailTime
      PROVE  /\ t = l.window => HeldOf[t] = HeldOf'[t] + 1
             /\ t # l.window => HeldOf'[t] = HeldOf[t]
  <2>. DEFINE S == {p \in Requests : request[p].lease # NoLease /\ request[p].lease.window = t}
              T == {p \in Requests : request'[p].lease # NoLease /\ request'[p].lease.window = t}
  <2>1. HeldOf[t] = Cardinality(S) /\ HeldOf'[t] = Cardinality(T)
    <3>1. Holding(t, NoAddress, Never) = S
      BY HoldingIs
    <3>2. Holding(t, NoAddress, Never)' = T
      BY HoldingIs
    <3>. QED BY <3>1, <3>2 DEF HeldOf
  <2>2. q \notin T /\ T \in SUBSET Requests
    OBVIOUS
  <2>3. t = l.window => S = T \cup {q}
    OBVIOUS
  <2>4. t # l.window => T = S
    OBVIOUS
  <2>. HIDE DEF S, T
  <2>5. t = l.window => Cardinality(S) = Cardinality(T) + 1
    BY <1>1, <2>2, <2>3, OneMore
  <2>. QED BY <2>1, <2>4, <2>5
<1>3. ASSUME NEW a \in Addresses, NEW t \in 0..MailTime
      PROVE  /\ a = l.address /\ t = l.own => HeldTo[a][t] = HeldTo'[a][t] + 1
             /\ ~(a = l.address /\ t = l.own) => HeldTo'[a][t] = HeldTo[a][t]
  <2>. DEFINE S == {p \in Requests : /\ request[p].lease # NoLease
                                     /\ request[p].lease.address = a /\ request[p].lease.own = t}
              T == {p \in Requests : /\ request'[p].lease # NoLease
                                     /\ request'[p].lease.address = a /\ request'[p].lease.own = t}
  <2>1. HeldTo[a][t] = Cardinality(S) /\ HeldTo'[a][t] = Cardinality(T)
    <3>1. Holding(Never, a, t) = S
      BY HoldingIs
    <3>2. Holding(Never, a, t)' = T
      BY HoldingIs
    <3>. QED BY <3>1, <3>2 DEF HeldTo
  <2>2. q \notin T /\ T \in SUBSET Requests
    OBVIOUS
  <2>3. a = l.address /\ t = l.own => S = T \cup {q}
    OBVIOUS
  <2>4. ~(a = l.address /\ t = l.own) => T = S
    OBVIOUS
  <2>. HIDE DEF S, T
  <2>5. a = l.address /\ t = l.own => Cardinality(S) = Cardinality(T) + 1
    BY <1>1, <2>2, <2>3, OneMore
  <2>. QED BY <2>1, <2>4, <2>5
<1>4. HeldOf' \in Numbers /\ HeldTo' \in [Addresses -> Numbers] /\ HeldOf \in Numbers
      /\ HeldTo \in [Addresses -> Numbers]
  BY HeldTyped
<1>5. HeldOf' = [HeldOf EXCEPT ![l.window] = @ - 1] /\ HeldOf[l.window] >= 1
  BY <1>2, <1>4 DEF Numbers
<1>6. ASSUME NEW a \in Addresses
      PROVE  /\ HeldTo'[a] = IF a = l.address THEN [HeldTo[a] EXCEPT ![l.own] = @ - 1] ELSE HeldTo[a]
             /\ a = l.address => HeldTo[a][l.own] >= 1
  <2>1. HeldTo'[a] \in Numbers /\ HeldTo[a] \in Numbers
    BY <1>4
  <2>. DEFINE f == HeldTo[a]
              g == HeldTo'[a]
  <2>2. f \in [0..MailTime -> Nat] /\ g \in [0..MailTime -> Nat]
    BY <2>1 DEF Numbers
  <2>3. \A t \in 0..MailTime : /\ a = l.address /\ t = l.own => f[t] = g[t] + 1
                               /\ ~(a = l.address /\ t = l.own) => g[t] = f[t]
    BY <1>3
  <2>. HIDE DEF f, g
  <2>4. CASE a = l.address
    <3>1. l.own \in 0..MailTime
      BY <2>4
    <3>2. g = [f EXCEPT ![l.own] = f[l.own] - 1] /\ f[l.own] >= 1
      BY <2>2, <2>3, <2>4, <3>1
    <3>. QED BY <2>4, <3>2 DEF f, g
  <2>5. CASE a # l.address
    <3>1. g = f
      <4>1. \A t \in 0..MailTime : g[t] = f[t]
        BY <2>3, <2>5
      <4>2. g = [t \in 0..MailTime |-> g[t]] /\ f = [t \in 0..MailTime |-> f[t]]
        BY <2>2
      <4>. QED BY <4>1, <4>2
    <3>. QED BY <2>5, <3>1 DEF f, g
  <2>. QED BY <2>4, <2>5
<1>. QED BY <1>4, <1>5, <1>6

----------------------------------------------------------------------------
(* The whole limiter: its global window and the windows of the addresses.  *)

Of(table, a) == IF a \in DOMAIN table THEN table[a] ELSE NoWindow
LimiterOK(s, now) ==
  /\ s.global \in WindowsTo(now, GlobalLimit)
  /\ DOMAIN s.recipients \subseteq Addresses /\ IsFiniteSet(DOMAIN s.recipients)
  /\ Cardinality(DOMAIN s.recipients) <= MaxRecipients
  /\ \A a \in DOMAIN s.recipients :
       s.recipients[a] \in [started : 0..now, count : 1..RecipientLimit]
AllBalanced(s, calls, of, to, now) ==
  /\ Balanced(s.global, calls.global, of, now, GlobalWindow)
  /\ \A a \in Addresses :
       Balanced(Of(s.recipients, a), calls.recipients[a], to[a], now, RecipientWindow)
Calls == [global : Numbers, recipients : [Addresses -> Numbers]]

LEMMA LimitsTyped ==
  /\ GlobalWindow \in Nat \ {0} /\ GlobalLimit \in Nat \ {0} /\ RecipientWindow \in Nat \ {0}
  /\ RecipientLimit \in Nat \ {0} /\ MaxRecipients \in Nat \ {0} /\ MailTime \in Nat
  /\ NoAddress \notin Addresses
BY AdmissionAssumption, VerificationAssumption DEF AdmissionAssumption, VerificationAssumption

LEMMA OfTyped ==
  ASSUME NEW now \in Nat, NEW s, LimiterOK(s, now), NEW a \in Addresses
  PROVE  Of(s.recipients, a) \in WindowsTo(now, RecipientLimit)
BY LimitsTyped DEF Of, LimiterOK, WindowsTo

\* The global window that a look leaves behind is not over.
LEMMA Rolling ==
  ASSUME NEW now \in Nat, NEW s, LimiterOK(s, now)
  PROVE  /\ Rolled(s, now) \in [started : 0..now, count : 0..GlobalLimit]
         /\ ~Over(Rolled(s, now), now, GlobalWindow)
         /\ \/ Rolled(s, now) = s.global
            \/ /\ s.global = NoWindow \/ Over(s.global, now, GlobalWindow)
               /\ Rolled(s, now) = [started |-> now, count |-> 0]
<1>1. CASE s.global = NoWindow \/ Over(s.global, now, GlobalWindow)
  <2>1. Rolled(s, now) = [started |-> now, count |-> 0]
    BY <1>1 DEF Rolled
  <2>. QED BY <1>1, <2>1, LimitsTyped DEF Over
<1>2. CASE ~(s.global = NoWindow \/ Over(s.global, now, GlobalWindow))
  <2>1. Rolled(s, now) = s.global
    BY <1>2 DEF Rolled
  <2>. QED BY <1>2, <2>1, LimitsTyped DEF LimiterOK, WindowsTo
<1>. QED BY <1>1, <1>2

\* A look takes only windows that are over out of the table.
LEMMA Looking ==
  ASSUME NEW now \in Nat, NEW s, LimiterOK(s, now), NEW address
  PROVE  LET table == Looked(s, address, now) IN
         /\ DOMAIN table \subseteq DOMAIN s.recipients
         /\ table = [a \in DOMAIN table |-> s.recipients[a]]
         /\ \A a \in DOMAIN s.recipients \ DOMAIN table : Over(s.recipients[a], now, RecipientWindow)
         /\ address \in DOMAIN table => ~Over(table[address], now, RecipientWindow)
<1>. DEFINE table == s.recipients
            ended == {a \in DOMAIN table : Over(table[a], now, RecipientWindow)}
            rest == Without(table, ended \cap {address})
            all == Without(table, ended)
            looked == Looked(s, address, now)
<1>1. looked = rest \/ looked = all
  BY DEF Looked
<1>2. /\ DOMAIN rest = DOMAIN table \ (ended \cap {address})
      /\ \A a \in DOMAIN rest : rest[a] = table[a]
      /\ rest = [a \in DOMAIN rest |-> table[a]]
  BY DEF Without
<1>3. /\ DOMAIN all = DOMAIN table \ ended
      /\ \A a \in DOMAIN all : all[a] = table[a]
      /\ all = [a \in DOMAIN all |-> table[a]]
  BY DEF Without
<1>4. \A a \in DOMAIN table : a \in ended <=> Over(table[a], now, RecipientWindow)
  OBVIOUS
<1>. HIDE DEF ended, rest, all, looked
<1>5. CASE looked = rest
  BY <1>2, <1>4, <1>5 DEF looked
<1>6. CASE looked = all
  BY <1>3, <1>4, <1>6 DEF looked
<1>. QED BY <1>1, <1>5, <1>6

\* What one look does to the window of an address.
LEMMA LookedOf ==
  ASSUME NEW now \in Nat, NEW s, LimiterOK(s, now), NEW address, NEW a \in Addresses
  PROVE  \/ Of(Looked(s, address, now), a) = Of(s.recipients, a)
         \/ /\ Of(s.recipients, a) = NoWindow \/ Over(Of(s.recipients, a), now, RecipientWindow)
            /\ Of(Looked(s, address, now), a) = NoWindow
<1>. DEFINE table == Looked(s, address, now)
<1>1. /\ DOMAIN table \subseteq DOMAIN s.recipients
      /\ table = [b \in DOMAIN table |-> s.recipients[b]]
      /\ \A b \in DOMAIN s.recipients \ DOMAIN table : Over(s.recipients[b], now, RecipientWindow)
  BY Looking
<1>. HIDE DEF table
<1>2. CASE a \in DOMAIN table
  BY <1>1, <1>2 DEF Of, table
<1>3. CASE a \notin DOMAIN table
  BY <1>1, <1>3 DEF Of, table
<1>. QED BY <1>2, <1>3

LEMMA RefusalKeepsLimits ==
  ASSUME NEW now \in Nat, NEW s, LimiterOK(s, now), NEW address
  PROVE  LimiterOK(Refused(s, address, now), now)
<1>. DEFINE r == Refused(s, address, now)
            table == Looked(s, address, now)
<1>1. r.global = Rolled(s, now) /\ r.recipients = table
  BY DEF Refused
<1>2. r.global \in WindowsTo(now, GlobalLimit)
  BY <1>1, Rolling DEF WindowsTo
<1>3. DOMAIN table \subseteq DOMAIN s.recipients /\ table = [b \in DOMAIN table |-> s.recipients[b]]
  BY Looking
<1>. HIDE DEF r, table
<1>4. IsFiniteSet(DOMAIN table) /\ Cardinality(DOMAIN table) <= Cardinality(DOMAIN s.recipients)
  BY <1>3, FS_Subset DEF LimiterOK
<1>5. Cardinality(DOMAIN table) \in Nat /\ Cardinality(DOMAIN s.recipients) \in Nat
  BY <1>4, FS_CardinalityType DEF LimiterOK
<1>6. Cardinality(DOMAIN table) <= MaxRecipients
  BY <1>4, <1>5, LimitsTyped DEF LimiterOK
<1>. QED BY <1>1, <1>2, <1>3, <1>4, <1>6 DEF LimiterOK, r

LEMMA RefusalBalances ==
  ASSUME NEW now \in 0..MailTime, NEW s, LimiterOK(s, now), NEW address,
         NEW c \in Calls, NEW of \in Numbers, NEW to \in [Addresses -> Numbers],
         AllBalanced(s, c, of, to, now)
  PROVE  AllBalanced(Refused(s, address, now), c, of, to, now)
<1>. now \in Nat /\ MailTime \in Nat
  BY LimitsTyped
<1>. DEFINE r == Refused(s, address, now)
<1>1. r.global = Rolled(s, now) /\ r.recipients = Looked(s, address, now)
  BY DEF Refused
<1>. HIDE DEF r
<1>2. Balanced(r.global, c.global, of, now, GlobalWindow)
  <2>1. c.global \in Numbers /\ Balanced(s.global, c.global, of, now, GlobalWindow)
        /\ s.global \in WindowsTo(now, GlobalLimit)
    BY DEF Calls, AllBalanced, LimiterOK
  <2>2. CASE r.global = s.global
    BY <2>1, <2>2
  <2>3. CASE r.global # s.global
    <3>1. /\ s.global = NoWindow \/ Over(s.global, now, GlobalWindow)
          /\ r.global = [started |-> now, count |-> 0]
      BY <1>1, <2>3, Rolling
    <3>. QED BY <2>1, <3>1, NewWindow, LimitsTyped
  <2>. QED BY <2>2, <2>3
<1>3. ASSUME NEW a \in Addresses
      PROVE  Balanced(Of(r.recipients, a), c.recipients[a], to[a], now, RecipientWindow)
  <2>. DEFINE w == Of(s.recipients, a)
              v == Of(r.recipients, a)
  <2>1. /\ c.recipients[a] \in Numbers /\ to[a] \in Numbers
        /\ Balanced(w, c.recipients[a], to[a], now, RecipientWindow)
        /\ w \in WindowsTo(now, RecipientLimit)
    BY OfTyped DEF Calls, AllBalanced
  <2>2. v = w \/ ((w = NoWindow \/ Over(w, now, RecipientWindow)) /\ v = NoWindow)
    BY <1>1, LookedOf
  <2>. HIDE DEF w, v
  <2>3. Balanced(v, c.recipients[a], to[a], now, RecipientWindow)
    <3>1. CASE v = w
      BY <2>1, <3>1
    <3>2. CASE (w = NoWindow \/ Over(w, now, RecipientWindow)) /\ v = NoWindow
      BY <2>1, <3>2, NewWindow, LimitsTyped
    <3>. QED BY <2>2, <3>1, <3>2
  <2>. QED BY <2>3 DEF v
<1>. QED BY <1>2, <1>3 DEF AllBalanced, r

\* The fields of the limiter after a reservation.
LEMMA ReservedIs ==
  ASSUME NEW now \in Nat, NEW s, LimiterOK(s, now), NEW address \in Addresses \cup {NoAddress},
         Admits(s, address, now), NEW r, r = Reserved(s, address, now)
  PROVE  LET table == Looked(s, address, now)
             own == IF address \in DOMAIN table THEN table[address] ELSE [started |-> now, count |-> 0]
         IN /\ r.global = More(Rolled(s, now))
            /\ DOMAIN r.recipients = DOMAIN table \cup ({address} \cap Addresses)
            /\ address \in Addresses => r.recipients[address] = More(own)
            /\ \A a \in DOMAIN table : a # address => r.recipients[a] = table[a]
            /\ address \in Addresses => own \in [started : 0..now, count : 0..RecipientLimit - 1]
            /\ address \in Addresses => ~Over(own, now, RecipientWindow)
<1>. DEFINE table == Looked(s, address, now)
            own == IF address \in DOMAIN table THEN table[address] ELSE [started |-> now, count |-> 0]
<1>1. /\ DOMAIN table \subseteq DOMAIN s.recipients
      /\ table = [b \in DOMAIN table |-> s.recipients[b]]
      /\ address \in DOMAIN table => ~Over(table[address], now, RecipientWindow)
  BY Looking
<1>2. /\ r.global = More(Rolled(s, now))
      /\ r.recipients = [a \in DOMAIN table \cup ({address} \cap Addresses) |->
                           IF a = address THEN More(own) ELSE table[a]]
  BY DEF Reserved
<1>3. address \in DOMAIN table => table[address].count < RecipientLimit
  BY DEF Admits
<1>. HIDE DEF table
<1>4. own \in [started : 0..now, count : 0..RecipientLimit - 1] /\ ~Over(own, now, RecipientWindow)
  <2>1. CASE address \in DOMAIN table
    <3>1. table[address] \in [started : 0..now, count : 1..RecipientLimit]
      BY <1>1, <2>1 DEF LimiterOK
    <3>2. table[address].count \in 0..RecipientLimit - 1
      BY <1>3, <2>1, <3>1, LimitsTyped
    <3>. QED BY <1>1, <2>1, <3>1, <3>2
  <2>2. CASE address \notin DOMAIN table
    BY <2>2, LimitsTyped DEF Over
  <2>. QED BY <2>1, <2>2
<1>. HIDE DEF own
<1>5. /\ DOMAIN r.recipients = DOMAIN table \cup ({address} \cap Addresses)
      /\ address \in Addresses => r.recipients[address] = More(own)
      /\ \A a \in DOMAIN table : a # address => r.recipients[a] = table[a]
  BY <1>2
<1>. QED BY <1>2, <1>4, <1>5 DEF own, table

LEMMA ReservationKeepsLimits ==
  ASSUME NEW now \in Nat, NEW s, LimiterOK(s, now), NEW address \in Addresses \cup {NoAddress},
         Admits(s, address, now)
  PROVE  LimiterOK(Reserved(s, address, now), now)
<1>. DEFINE r == Reserved(s, address, now)
            table == Looked(s, address, now)
            own == IF address \in DOMAIN table THEN table[address] ELSE [started |-> now, count |-> 0]
<1>1. /\ r.global = More(Rolled(s, now))
      /\ DOMAIN r.recipients = DOMAIN table \cup ({address} \cap Addresses)
      /\ address \in Addresses => r.recipients[address] = More(own)
      /\ \A a \in DOMAIN table : a # address => r.recipients[a] = table[a]
      /\ address \in Addresses => own \in [started : 0..now, count : 0..RecipientLimit - 1]
  BY ReservedIs
<1>2. DOMAIN table \subseteq DOMAIN s.recipients /\ table = [b \in DOMAIN table |-> s.recipients[b]]
  BY Looking
<1>3. address \in Addresses \ DOMAIN table => Cardinality(DOMAIN table) < MaxRecipients
  BY DEF Admits
<1>4. Rolled(s, now).count < GlobalLimit /\ Rolled(s, now) \in [started : 0..now, count : 0..GlobalLimit]
  BY Rolling DEF Admits
<1>. HIDE DEF r, table, own
<1>5. r.global \in WindowsTo(now, GlobalLimit)
  BY <1>1, <1>4, LimitsTyped DEF More, WindowsTo
<1>6. IsFiniteSet(DOMAIN table) /\ Cardinality(DOMAIN table) <= Cardinality(DOMAIN s.recipients)
  BY <1>2, FS_Subset DEF LimiterOK
<1>7. Cardinality(DOMAIN table) \in Nat /\ Cardinality(DOMAIN s.recipients) \in Nat
  BY <1>6, FS_CardinalityType DEF LimiterOK
<1>8. Cardinality(DOMAIN table) <= MaxRecipients
  BY <1>6, <1>7, LimitsTyped DEF LimiterOK
<1>9. IsFiniteSet(DOMAIN r.recipients) /\ Cardinality(DOMAIN r.recipients) <= MaxRecipients
  <2>1. CASE address \in Addresses \ DOMAIN table
    <3>1. DOMAIN r.recipients = DOMAIN table \cup {address}
      BY <1>1, <2>1
    <3>2. /\ IsFiniteSet(DOMAIN table \cup {address})
          /\ Cardinality(DOMAIN table \cup {address}) = Cardinality(DOMAIN table) + 1
      BY <1>6, <2>1, FS_AddElement
    <3>. QED BY <1>3, <1>7, <2>1, <3>1, <3>2, LimitsTyped
  <2>2. CASE address \notin Addresses \ DOMAIN table
    <3>1. DOMAIN r.recipients = DOMAIN table
      BY <1>1, <2>2
    <3>. QED BY <1>6, <1>8, <3>1
  <2>. QED BY <2>1, <2>2
<1>10. ASSUME NEW a \in DOMAIN r.recipients
       PROVE  a \in Addresses /\ r.recipients[a] \in [started : 0..now, count : 1..RecipientLimit]
  <2>1. CASE a = address
    <3>1. address \in Addresses
      BY <1>1, <1>2, <2>1 DEF LimiterOK
    <3>2. More(own) \in [started : 0..now, count : 1..RecipientLimit]
      BY <1>1, <3>1, LimitsTyped DEF More
    <3>. QED BY <1>1, <2>1, <3>1, <3>2
  <2>2. CASE a # address
    BY <1>1, <1>2, <2>2 DEF LimiterOK
  <2>. QED BY <2>1, <2>2
<1>. QED BY <1>5, <1>9, <1>10 DEF LimiterOK, r

Plus(of, l) == [of EXCEPT ![l.window] = @ + 1]
PlusTo(to, l) ==
  [a \in Addresses |-> IF a = l.address THEN [to[a] EXCEPT ![l.own] = @ + 1] ELSE to[a]]

\* A reservation adds one to the lease's own windows, which are not over.
LEMMA ReservationBalances ==
  ASSUME NEW now \in 0..MailTime, NEW s, LimiterOK(s, now),
         NEW address \in Addresses \cup {NoAddress}, Admits(s, address, now),
         NEW c \in Calls, NEW of \in Numbers, NEW to \in [Addresses -> Numbers],
         AllBalanced(s, c, of, to, now),
         NEW r, r = Reserved(s, address, now), NEW l, l = LeaseOn(r, address)
  PROVE  /\ l.window \in 0..now /\ l.address = address
         /\ l.address \in Addresses => l.own \in 0..now
         /\ AllBalanced(r, c, Plus(of, l), PlusTo(to, l), now)
<1>. now \in Nat /\ MailTime \in Nat
  BY LimitsTyped
<1>. DEFINE table == Looked(s, address, now)
            own == IF address \in DOMAIN table THEN table[address] ELSE [started |-> now, count |-> 0]
            g == Rolled(s, now)
            looked == Refused(s, address, now)
<1>1. /\ r.global = More(g)
      /\ DOMAIN r.recipients = DOMAIN table \cup ({address} \cap Addresses)
      /\ address \in Addresses => r.recipients[address] = More(own)
      /\ \A a \in DOMAIN table : a # address => r.recipients[a] = table[a]
      /\ address \in Addresses => own \in [started : 0..now, count : 0..RecipientLimit - 1]
      /\ address \in Addresses => ~Over(own, now, RecipientWindow)
  BY ReservedIs
<1>2. g \in [started : 0..now, count : 0..GlobalLimit] /\ ~Over(g, now, GlobalWindow)
  BY Rolling
<1>3. looked.global = g /\ looked.recipients = table
  BY DEF Refused
<1>4. AllBalanced(looked, c, of, to, now)
  BY RefusalBalances
<1>5. table = [b \in DOMAIN table |-> s.recipients[b]] /\ DOMAIN table \subseteq DOMAIN s.recipients
  BY Looking
<1>. HIDE DEF table, own, g, looked
<1>6. More(g).started = g.started /\ (address \in Addresses => More(own).started = own.started)
  BY <1>1, <1>2 DEF More
<1>7. /\ l.window = g.started /\ l.address = address
      /\ l.address \in Addresses => l.own = own.started
  BY <1>1, <1>6 DEF LeaseOn
<1>8. Balanced(r.global, c.global, [of EXCEPT ![l.window] = @ + 1], now, GlobalWindow)
  <2>1. Balanced(g, c.global, of, now, GlobalWindow) /\ c.global \in Numbers
    BY <1>3, <1>4 DEF AllBalanced, Calls
  <2>2. Balanced(More(g), c.global, [of EXCEPT ![g.started] = @ + 1], now, GlobalWindow)
    BY <1>2, <2>1, OneMoreHeld, LimitsTyped
  <2>. QED BY <1>1, <1>7, <2>2
<1>9. ASSUME NEW a \in Addresses, a # address
      PROVE  Balanced(Of(r.recipients, a), c.recipients[a], to[a], now, RecipientWindow)
  <2>1. Of(r.recipients, a) = Of(table, a)
    BY <1>1, <1>9 DEF Of
  <2>. QED BY <1>3, <1>4, <2>1 DEF AllBalanced
<1>10. ASSUME address \in Addresses
       PROVE  Balanced(Of(r.recipients, address), c.recipients[address],
                       [to[address] EXCEPT ![l.own] = @ + 1], now, RecipientWindow)
  <2>. DEFINE sent == c.recipients[address]
              held == to[address]
  <2>1. sent \in Numbers /\ held \in Numbers /\ own \in [started : 0..now, count : 0..RecipientLimit]
    BY <1>1, <1>10, LimitsTyped DEF Calls
  <2>2. Balanced(Of(table, address), sent, held, now, RecipientWindow)
    BY <1>3, <1>4, <1>10 DEF AllBalanced
  <2>. HIDE DEF sent, held
  <2>3. Balanced(own, sent, held, now, RecipientWindow)
    <3>1. CASE address \in DOMAIN table
      BY <2>2, <3>1 DEF Of, own
    <3>2. CASE address \notin DOMAIN table
      <4>1. Of(table, address) = NoWindow /\ own = [started |-> now, count |-> 0]
        BY <3>2 DEF Of, own
      <4>2. NoWindow \in WindowsTo(now, RecipientLimit)
        BY DEF WindowsTo
      <4>. QED BY <2>1, <2>2, <4>1, <4>2, NewWindow, LimitsTyped
    <3>. QED BY <3>1, <3>2
  <2>4. Balanced(More(own), sent, [held EXCEPT ![own.started] = @ + 1], now, RecipientWindow)
    BY <1>1, <1>10, <2>1, <2>3, OneMoreHeld, LimitsTyped
  <2>5. Of(r.recipients, address) = More(own)
    BY <1>1, <1>10 DEF Of
  <2>. QED BY <1>7, <1>10, <2>4, <2>5 DEF sent, held
<1>11. l.window \in 0..now /\ (l.address \in Addresses => l.own \in 0..now)
  BY <1>1, <1>2, <1>7
<1>12. ASSUME NEW a \in Addresses
       PROVE  Balanced(Of(r.recipients, a), c.recipients[a], PlusTo(to, l)[a], now, RecipientWindow)
  <2>1. CASE a = address
    <3>1. PlusTo(to, l)[a] = [to[address] EXCEPT ![l.own] = @ + 1]
      BY <1>7, <2>1 DEF PlusTo
    <3>. QED BY <1>10, <2>1, <3>1
  <2>2. CASE a # address
    <3>1. PlusTo(to, l)[a] = to[a]
      BY <1>7, <2>2 DEF PlusTo
    <3>. QED BY <1>9, <2>2, <3>1
  <2>. QED BY <2>1, <2>2
<1>. QED BY <1>7, <1>8, <1>11, <1>12 DEF AllBalanced, Plus

----------------------------------------------------------------------------
\* A lease of the windows that now may still stand.
Lease(l, now) ==
  /\ l.window \in 0..now /\ l.address \in Addresses \cup {NoAddress}
  /\ l.address \in Addresses => l.own \in 0..now
Minus(of, l) == [of EXCEPT ![l.window] = @ - 1]
MinusTo(to, l) ==
  [a \in Addresses |-> IF a = l.address THEN [to[a] EXCEPT ![l.own] = @ - 1] ELSE to[a]]

\* A consumed lease is counted among the calls instead of among the leases.
LEMMA ConsumptionBalances ==
  ASSUME NEW now \in 0..MailTime, NEW s, LimiterOK(s, now),
         NEW c \in Calls, NEW of \in Numbers, NEW to \in [Addresses -> Numbers],
         AllBalanced(s, c, of, to, now), NEW l, Lease(l, now), of[l.window] >= 1,
         l.address \in Addresses => to[l.address][l.own] >= 1,
         NEW d,
         d = [global |-> IF now - l.window < GlobalWindow
                           THEN [c.global EXCEPT ![l.window] = @ + 1]
                           ELSE c.global,
              recipients |-> IF /\ l.address \in Addresses
                                /\ now - l.own < RecipientWindow
                               THEN [c.recipients EXCEPT ![l.address][l.own] = @ + 1]
                               ELSE c.recipients]
  PROVE  d \in Calls /\ AllBalanced(s, d, Minus(of, l), MinusTo(to, l), now)
<1>. now \in Nat /\ MailTime \in Nat
  BY LimitsTyped
<1>1. /\ d.global = IF now - l.window < GlobalWindow
                      THEN [c.global EXCEPT ![l.window] = @ + 1] ELSE c.global
      /\ d.recipients = IF l.address \in Addresses /\ now - l.own < RecipientWindow
                          THEN [c.recipients EXCEPT ![l.address][l.own] = @ + 1] ELSE c.recipients
      /\ d = [global |-> d.global, recipients |-> d.recipients]
  OBVIOUS
<1>2. d.global \in Numbers /\ Balanced(s.global, d.global, Minus(of, l), now, GlobalWindow)
  <2>1. /\ s.global \in WindowsTo(now, GlobalLimit) /\ c.global \in Numbers
        /\ Balanced(s.global, c.global, of, now, GlobalWindow) /\ l.window \in 0..now
    BY DEF LimiterOK, Calls, AllBalanced, Lease
  <2>. QED BY <1>1, <2>1, HeldIsSent, LimitsTyped DEF Minus
<1>3. c.recipients \in [Addresses -> Numbers]
  BY DEF Calls
<1>4. ASSUME NEW a \in Addresses
      PROVE  /\ d.recipients[a] \in Numbers
             /\ Balanced(Of(s.recipients, a), d.recipients[a], MinusTo(to, l)[a], now, RecipientWindow)
  <2>1. /\ Of(s.recipients, a) \in WindowsTo(now, RecipientLimit) /\ c.recipients[a] \in Numbers
        /\ to[a] \in Numbers
        /\ Balanced(Of(s.recipients, a), c.recipients[a], to[a], now, RecipientWindow)
    BY <1>3, OfTyped DEF AllBalanced
  <2>2. CASE a = l.address
    <3>1. l.own \in 0..now /\ to[a][l.own] >= 1
      BY <2>2 DEF Lease
    <3>2. d.recipients[a] = IF now - l.own < RecipientWindow
                              THEN [c.recipients[a] EXCEPT ![l.own] = @ + 1] ELSE c.recipients[a]
      BY <1>1, <1>3, <2>2
    <3>3. MinusTo(to, l)[a] = [to[a] EXCEPT ![l.own] = @ - 1]
      BY <2>2 DEF MinusTo
    <3>. DEFINE w == Of(s.recipients, a)
                sent == c.recipients[a]
                held == to[a]
                o == l.own
    <3>4. /\ w \in WindowsTo(now, RecipientLimit) /\ sent \in Numbers /\ held \in Numbers
          /\ Balanced(w, sent, held, now, RecipientWindow) /\ o \in 0..now /\ held[o] >= 1
          /\ d.recipients[a] = IF now - o < RecipientWindow THEN [sent EXCEPT ![o] = @ + 1] ELSE sent
      BY <2>1, <3>1, <3>2
    <3>. HIDE DEF w, sent, held, o
    <3>5. LET h == [held EXCEPT ![o] = @ - 1]
              calls == IF now - o < RecipientWindow THEN [sent EXCEPT ![o] = @ + 1] ELSE sent
          IN calls \in Numbers /\ Balanced(w, calls, h, now, RecipientWindow)
      BY <3>4, HeldIsSent, LimitsTyped
    <3>6. MinusTo(to, l)[a] = [held EXCEPT ![o] = @ - 1]
      BY <3>3 DEF held, o
    <3>. QED BY <3>4, <3>5, <3>6 DEF w
  <2>3. CASE a # l.address
    <3>1. d.recipients[a] = c.recipients[a]
      BY <1>1, <1>3, <2>3
    <3>2. MinusTo(to, l)[a] = to[a]
      BY <2>3 DEF MinusTo
    <3>. QED BY <2>1, <3>1, <3>2
  <2>. QED BY <2>2, <2>3
<1>5. d.recipients \in [Addresses -> Numbers]
  <2>1. d.recipients = [a \in Addresses |-> d.recipients[a]]
    BY <1>1, <1>3
  <2>. QED BY <1>4, <2>1
<1>6. d \in Calls
  BY <1>1, <1>2, <1>5 DEF Calls
<1>. QED BY <1>2, <1>4, <1>6 DEF AllBalanced

\* What a release does to the table, address by address.
LEMMA ReleasedIs ==
  ASSUME NEW now \in Nat, NEW s, LimiterOK(s, now), NEW l, l # NoLease, Lease(l, now),
         NEW r, r = Released(s, l)
  PROVE  /\ r.global = IF s.global.started = l.window THEN Less(s.global) ELSE s.global
         /\ DOMAIN r.recipients \subseteq DOMAIN s.recipients
         /\ \A a \in DOMAIN r.recipients : Of(r.recipients, a) = r.recipients[a]
         /\ \A a \in Addresses : a # l.address => Of(r.recipients, a) = Of(s.recipients, a)
         /\ l.address \in Addresses =>
              LET w == Of(s.recipients, l.address) IN
              Of(r.recipients, l.address) = IF w.started = l.own THEN Less(w) ELSE w
<1>. DEFINE table == s.recipients
            mine == {a \in DOMAIN table : a = l.address /\ table[a].started = l.own}
            gone == {a \in mine : table[a].count = 1}
            left == [a \in DOMAIN table \ gone |-> IF a \in mine THEN Less(table[a]) ELSE table[a]]
<1>1. /\ r.global = IF s.global.started = l.window THEN Less(s.global) ELSE s.global
      /\ r.recipients = left
  BY DEF Released
<1>2. \A a \in DOMAIN table : /\ a \in mine <=> (a = l.address /\ table[a].started = l.own)
                              /\ a \in gone <=> a \in mine /\ table[a].count = 1
  OBVIOUS
<1>3. mine \subseteq DOMAIN table /\ gone \subseteq mine
  OBVIOUS
<1>. HIDE DEF mine, gone
<1>4. DOMAIN left = DOMAIN table \ gone
      /\ \A a \in DOMAIN left : left[a] = IF a \in mine THEN Less(table[a]) ELSE table[a]
  OBVIOUS
<1>. HIDE DEF left
<1>5. \A a \in Addresses : a # l.address => Of(left, a) = Of(table, a)
  BY <1>2, <1>3, <1>4 DEF Of
<1>6. ASSUME l.address \in Addresses
      PROVE  LET w == Of(table, l.address) IN
             Of(left, l.address) = IF w.started = l.own THEN Less(w) ELSE w
  <2>. DEFINE a == l.address
  <2>1. CASE a \notin DOMAIN table
    <3>1. Of(left, a) = NoWindow /\ Of(table, a) = NoWindow
      BY <1>4, <2>1 DEF Of
    <3>2. NoWindow.started # l.own
      BY <1>6 DEF NoWindow, Never, Lease
    <3>. QED BY <3>1, <3>2
  <2>2. CASE a \in DOMAIN table /\ a \notin mine
    <3>1. Of(left, a) = table[a] /\ Of(table, a) = table[a] /\ table[a].started # l.own
      BY <1>2, <1>3, <1>4, <2>2 DEF Of
    <3>. QED BY <3>1
  <2>3. CASE a \in mine
    <3>1. a \in DOMAIN table /\ table[a].started = l.own /\ Of(table, a) = table[a]
      BY <1>2, <1>3, <2>3 DEF Of
    <3>2. CASE a \in gone
      <4>1. Of(left, a) = NoWindow /\ table[a].count = 1
        BY <1>2, <1>4, <3>1, <3>2 DEF Of
      <4>. QED BY <3>1, <4>1 DEF Less
    <3>3. CASE a \notin gone
      BY <1>4, <2>3, <3>1, <3>3 DEF Of
    <3>. QED BY <3>2, <3>3
  <2>. QED BY <2>1, <2>2, <2>3
<1>7. \A a \in DOMAIN left : Of(left, a) = left[a]
  BY DEF Of
<1>8. DOMAIN left \subseteq DOMAIN table
  BY <1>4
<1>. QED BY <1>1, <1>5, <1>6, <1>7, <1>8

\* A release gives the lease's place back, to its own windows only.
LEMMA ReleaseBalances ==
  ASSUME NEW now \in 0..MailTime, NEW s, LimiterOK(s, now),
         NEW c \in Calls, NEW of \in Numbers, NEW to \in [Addresses -> Numbers],
         AllBalanced(s, c, of, to, now), NEW l, l # NoLease, Lease(l, now), of[l.window] >= 1,
         l.address \in Addresses => to[l.address][l.own] >= 1
  PROVE  /\ LimiterOK(Released(s, l), now)
         /\ AllBalanced(Released(s, l), c, Minus(of, l), MinusTo(to, l), now)
<1>. now \in Nat /\ MailTime \in Nat
  BY LimitsTyped
<1>. DEFINE r == Released(s, l)
            w == Of(s.recipients, l.address)
<1>1. /\ r.global = IF s.global.started = l.window THEN Less(s.global) ELSE s.global
      /\ DOMAIN r.recipients \subseteq DOMAIN s.recipients
      /\ \A a \in DOMAIN r.recipients : Of(r.recipients, a) = r.recipients[a]
      /\ \A a \in Addresses : a # l.address => Of(r.recipients, a) = Of(s.recipients, a)
      /\ l.address \in Addresses =>
           Of(r.recipients, l.address) = IF w.started = l.own THEN Less(w) ELSE w
  BY ReleasedIs
<1>. HIDE DEF r, w
<1>2. r.global \in WindowsTo(now, GlobalLimit) /\ Balanced(r.global, c.global, Minus(of, l), now, GlobalWindow)
  <2>1. /\ s.global \in WindowsTo(now, GlobalLimit) /\ c.global \in Numbers
        /\ Balanced(s.global, c.global, of, now, GlobalWindow) /\ l.window \in 0..now
    BY DEF LimiterOK, Calls, AllBalanced, Lease
  <2>2. CASE s.global.started = l.window
    BY <1>1, <2>1, <2>2, HeldIsReleased, LimitsTyped DEF Minus
  <2>3. CASE s.global.started # l.window
    BY <1>1, <2>1, <2>3, HeldIsReleased, LimitsTyped DEF Minus
  <2>. QED BY <2>2, <2>3
<1>3. ASSUME NEW a \in Addresses
      PROVE  /\ Of(r.recipients, a) \in WindowsTo(now, RecipientLimit)
             /\ a \in DOMAIN r.recipients => r.recipients[a].count >= 1
             /\ Balanced(Of(r.recipients, a), c.recipients[a], MinusTo(to, l)[a], now, RecipientWindow)
  <2>1. /\ Of(s.recipients, a) \in WindowsTo(now, RecipientLimit) /\ c.recipients[a] \in Numbers
        /\ to[a] \in Numbers
        /\ Balanced(Of(s.recipients, a), c.recipients[a], to[a], now, RecipientWindow)
    BY OfTyped DEF Calls, AllBalanced
  <2>2. a \in DOMAIN r.recipients =>
          /\ Of(r.recipients, a) = r.recipients[a] /\ Of(s.recipients, a) = s.recipients[a]
          /\ s.recipients[a].count >= 1
    BY <1>1 DEF Of, LimiterOK
  <2>3. CASE a = l.address
    <3>1. l.own \in 0..now /\ to[a][l.own] >= 1
      BY <2>3 DEF Lease
    <3>2. MinusTo(to, l)[a] = [to[a] EXCEPT ![l.own] = @ - 1]
      BY <2>3 DEF MinusTo
    <3>. DEFINE v == Of(r.recipients, a)
                z == Of(s.recipients, a)
    <3>3. v = IF z.started = l.own THEN Less(z) ELSE z
      BY <1>1, <2>3 DEF w
    <3>. HIDE DEF v, z
    <3>4. /\ v \in WindowsTo(now, RecipientLimit)
          /\ v # NoWindow /\ z.count >= 1 => v.count >= 1
          /\ Balanced(v, c.recipients[a], [to[a] EXCEPT ![l.own] = @ - 1], now, RecipientWindow)
      <4>. DEFINE sent == c.recipients[a]
                  held == to[a]
                  o == l.own
      <4>1. /\ z \in WindowsTo(now, RecipientLimit) /\ sent \in Numbers /\ held \in Numbers
            /\ Balanced(z, sent, held, now, RecipientWindow) /\ o \in 0..now /\ held[o] >= 1
            /\ v = IF z.started = o THEN Less(z) ELSE z
        BY <2>1, <3>1, <3>3 DEF z
      <4>. HIDE DEF sent, held, o
      <4>2. /\ v \in WindowsTo(now, RecipientLimit)
            /\ v # NoWindow /\ z.count >= 1 => v.count >= 1
            /\ Balanced(v, sent, [held EXCEPT ![o] = @ - 1], now, RecipientWindow)
        BY <4>1, HeldIsReleased, LimitsTyped
      <4>. QED BY <4>2 DEF sent, held, o
    <3>5. a \in DOMAIN r.recipients => v # NoWindow
      <4>. SUFFICES ASSUME a \in DOMAIN r.recipients, v = NoWindow PROVE FALSE
        OBVIOUS
      <4>. DEFINE table == s.recipients
                  mine == {b \in DOMAIN table : b = l.address /\ table[b].started = l.own}
                  gone == {b \in mine : table[b].count = 1}
      <4>1. DOMAIN r.recipients = DOMAIN table \ gone
        BY DEF r, Released
      <4>2. a \in DOMAIN table /\ z = table[a] /\ z.count >= 1 /\ z \in [started : 0..now, count : 1..RecipientLimit]
        BY <1>1, <2>2 DEF z, LimiterOK
      <4>3. CASE z.started = l.own
        <5>1. z.count # 1
          BY <2>3, <4>1, <4>2, <4>3
        <5>2. v.started = z.started /\ z.started \in 0..now
          BY <3>3, <4>2, <4>3, <5>1 DEF Less
        <5>. QED BY <5>2 DEF NoWindow, Never
      <4>4. CASE z.started # l.own
        BY <3>3, <4>2, <4>4 DEF NoWindow, Never
      <4>. QED BY <4>3, <4>4
    <3>. QED BY <2>2, <3>2, <3>4, <3>5 DEF v, z
  <2>4. CASE a # l.address
    <3>1. Of(r.recipients, a) = Of(s.recipients, a)
      BY <1>1, <2>4
    <3>2. MinusTo(to, l)[a] = to[a]
      BY <2>4 DEF MinusTo
    <3>. QED BY <2>1, <2>2, <3>1, <3>2
  <2>. QED BY <2>3, <2>4
<1>4. IsFiniteSet(DOMAIN r.recipients) /\ Cardinality(DOMAIN r.recipients) <= Cardinality(DOMAIN s.recipients)
  BY <1>1, FS_Subset DEF LimiterOK
<1>5. Cardinality(DOMAIN r.recipients) \in Nat /\ Cardinality(DOMAIN s.recipients) \in Nat
  BY <1>4, FS_CardinalityType DEF LimiterOK
<1>6. Cardinality(DOMAIN r.recipients) <= MaxRecipients
  BY <1>4, <1>5, LimitsTyped DEF LimiterOK
<1>7. ASSUME NEW a \in DOMAIN r.recipients
      PROVE  a \in Addresses /\ r.recipients[a] \in [started : 0..now, count : 1..RecipientLimit]
  <2>1. a \in Addresses
    BY <1>1 DEF LimiterOK
  <2>2. r.recipients[a] \in WindowsTo(now, RecipientLimit) /\ r.recipients[a].count >= 1
    BY <1>1, <1>3, <2>1
  <2>3. r.recipients[a] # NoWindow
    BY <2>2 DEF NoWindow
  <2>. QED BY <2>1, <2>2, <2>3, LimitsTyped DEF WindowsTo
<1>8. LimiterOK(r, now)
  BY <1>2, <1>4, <1>6, <1>7, <1>1 DEF LimiterOK
<1>9. AllBalanced(r, c, Minus(of, l), MinusTo(to, l), now)
  BY <1>2, <1>3 DEF AllBalanced
<1>. QED BY <1>8, <1>9 DEF r

\* Time passes: what was counted in windows that are over is forgotten.
LEMMA TickBalances ==
  ASSUME NEW now \in 0..MailTime, NEW s, LimiterOK(s, now),
         NEW c \in Calls, NEW of \in Numbers, NEW to \in [Addresses -> Numbers],
         AllBalanced(s, c, of, to, now), NEW n, n = now + 1, NEW d,
         d = [global |-> d.global, recipients |-> [a \in Addresses |-> d.recipients[a]]],
         d.global = Left(c.global, n, GlobalWindow),
         \A a \in Addresses : d.recipients[a] = Left(c.recipients[a], n, RecipientWindow)
  PROVE  d \in Calls /\ LimiterOK(s, n) /\ AllBalanced(s, d, of, to, n)
<1>. now \in Nat /\ MailTime \in Nat
  BY LimitsTyped
<1>1. d.recipients = [a \in Addresses |-> d.recipients[a]]
  <2>. DEFINE g == d.global
              f == [a \in Addresses |-> d.recipients[a]]
  <2>1. d = [global |-> g, recipients |-> f]
    OBVIOUS
  <2>. HIDE DEF f
  <2>2. d.recipients = f
    BY <2>1
  <2>. QED BY <2>2 DEF f
<1>2. /\ s.global \in WindowsTo(n, GlobalLimit) /\ d.global \in Numbers
      /\ Balanced(s.global, d.global, of, n, GlobalWindow)
  <2>1. /\ s.global \in WindowsTo(now, GlobalLimit) /\ c.global \in Numbers
        /\ Balanced(s.global, c.global, of, now, GlobalWindow)
    BY DEF LimiterOK, Calls, AllBalanced
  <2>. QED BY <2>1, TimePasses, LimitsTyped
<1>3. ASSUME NEW a \in Addresses
      PROVE  /\ d.recipients[a] \in Numbers
             /\ Balanced(Of(s.recipients, a), d.recipients[a], to[a], n, RecipientWindow)
  <2>1. /\ Of(s.recipients, a) \in WindowsTo(now, RecipientLimit) /\ c.recipients[a] \in Numbers
        /\ to[a] \in Numbers
        /\ Balanced(Of(s.recipients, a), c.recipients[a], to[a], now, RecipientWindow)
    BY OfTyped DEF Calls, AllBalanced
  <2>. QED BY <2>1, TimePasses, LimitsTyped
<1>4. d \in Calls
  <2>1. d.recipients \in [Addresses -> Numbers]
    BY <1>1, <1>3
  <2>2. d = [global |-> d.global, recipients |-> d.recipients]
    BY <1>1
  <2>. QED BY <1>2, <2>1, <2>2 DEF Calls
<1>5. LimiterOK(s, n)
  <2>1. \A a \in DOMAIN s.recipients : s.recipients[a] \in [started : 0..n, count : 1..RecipientLimit]
    BY DEF LimiterOK
  <2>. QED BY <1>2, <2>1 DEF LimiterOK
<1>. QED BY <1>2, <1>3, <1>4, <1>5 DEF AllBalanced

\* Nothing was sent and nothing is held.
LEMMA EmptyBalances ==
  ASSUME NEW now \in Nat, NEW of \in Numbers, NEW to \in [Addresses -> Numbers],
         \A t \in 0..MailTime : of[t] = 0 /\ \A a \in Addresses : to[a][t] = 0
  PROVE  /\ NothingUsed \in Calls /\ LimiterOK(NewAdmission, now)
         /\ AllBalanced(NewAdmission, NothingUsed, of, to, now)
<1>1. NothingUsed \in Calls
  BY LimitsTyped DEF NothingUsed, Calls, Numbers
<1>2. /\ NewAdmission.global = NoWindow /\ DOMAIN NewAdmission.recipients = {}
  BY DEF NewAdmission
<1>3. IsFiniteSet({}) /\ Cardinality({}) = 0
  BY FS_EmptySet
<1>4. LimiterOK(NewAdmission, now)
  BY <1>2, <1>3, LimitsTyped DEF LimiterOK, WindowsTo
<1>5. \A t \in 0..MailTime : Place(NoWindow, t) = 0
  BY LimitsTyped DEF Place, NoWindow
<1>6. Balanced(NoWindow, NothingUsed.global, of, now, GlobalWindow)
  BY <1>5 DEF Balanced, NothingUsed
<1>7. ASSUME NEW a \in Addresses
      PROVE  Balanced(Of(NewAdmission.recipients, a), NothingUsed.recipients[a], to[a], now, RecipientWindow)
  BY <1>2, <1>5 DEF Balanced, NothingUsed, Of
<1>. QED BY <1>1, <1>2, <1>4, <1>6, <1>7 DEF AllBalanced

----------------------------------------------------------------------------
(* The sends that are counted.                                             *)

Held == {"create", "test", "sweep"}
LeaseOK(r, now) ==
  /\ r.lease # NoLease <=> r.stage \in Held
  /\ r.lease # NoLease => Lease(r.lease, now)
SendsInv ==
  /\ mailNow \in 0..MailTime
  /\ \A q \in Requests : LeaseOK(request[q], mailNow)
  /\ LimiterOK(admission, mailNow)
  /\ used \in Calls
  /\ AllBalanced(admission, used, HeldOf, HeldTo, mailNow)

\* One request moves, the others stay.
LEMMA OneMoves ==
  ASSUME RequestsInv, NEW q \in Requests, NEW r, Goes(q, r)
  PROVE  request'[q] = r /\ \A p \in Requests \ {q} : request'[p] = request[p]
<1>1. request = [p \in Requests |-> request[p]]
  BY DEF RequestsInv
<1>. QED BY <1>1 DEF Goes

\* A request without a lease moves.
LEMMA MovesWithoutLease ==
  ASSUME RequestsInv, SendsInv, NEW q \in Requests, NEW r, Goes(q, r),
         request[q].stage \notin Held, r.lease = NoLease, r.stage \notin Held,
         UNCHANGED <<mailNow, admission, used>>
  PROVE  SendsInv'
<1>1. request'[q] = r /\ \A p \in Requests \ {q} : request'[p] = request[p]
  BY OneMoves
<1>2. request[q].lease = NoLease
  BY DEF SendsInv, LeaseOK
<1>3. \A p \in Requests : request'[p].lease = request[p].lease
  BY <1>1, <1>2
<1>4. HeldOf' = HeldOf /\ HeldTo' = HeldTo
  BY <1>3, LeasesKept
<1>5. \A p \in Requests : LeaseOK(request'[p], mailNow')
  BY <1>1 DEF SendsInv, LeaseOK
<1>6. /\ mailNow' \in 0..MailTime /\ LimiterOK(admission', mailNow') /\ used' \in Calls
      /\ AllBalanced(admission', used', HeldOf', HeldTo', mailNow')
  BY <1>4 DEF SendsInv
<1>. QED BY <1>5, <1>6 DEF SendsInv

\* A reservation: the request takes a lease, or ends.
LEMMA ReservationCounts ==
  ASSUME RequestsInv, SendsInv, NEW q \in Requests, NEW address \in Addresses \cup {NoAddress},
         NEW next, Reserve(q, address, next), request[q].stage \notin Held, next.stage \in Held,
         DOMAIN next = {"stage", "user", "address", "lease", "code"}
  PROVE  SendsInv'
<1>. DEFINE r == Reserved(admission, address, mailNow)
            l == LeaseOn(r, address)
<1>1. /\ mailNow \in 0..MailTime /\ LimiterOK(admission, mailNow) /\ used \in Calls
      /\ AllBalanced(admission, used, HeldOf, HeldTo, mailNow)
      /\ HeldOf \in Numbers /\ HeldTo \in [Addresses -> Numbers]
      /\ mailNow \in Nat /\ MailTime \in Nat
  BY HeldTyped, LimitsTyped DEF SendsInv
<1>2. request[q].lease = NoLease
  BY DEF SendsInv, LeaseOK
<1>3. UNCHANGED <<mailNow, used>>
  BY DEF Reserve
<1>4. CASE Admits(admission, address, mailNow)
  <2>1. /\ l.window \in 0..mailNow /\ l.address = address
        /\ l.address \in Addresses => l.own \in 0..mailNow
        /\ AllBalanced(r, used, Plus(HeldOf, l), PlusTo(HeldTo, l), mailNow)
    <3>1. r = Reserved(admission, address, mailNow) /\ l = LeaseOn(r, address)
      OBVIOUS
    <3>. HIDE DEF r, l
    <3>. QED BY <1>1, <1>4, <3>1, ReservationBalances
  <2>2. LimiterOK(r, mailNow)
    BY <1>1, <1>4, ReservationKeepsLimits
  <2>3. admission' = r /\ Goes(q, [next EXCEPT !.lease = l])
    BY <1>4 DEF Reserve
  <2>. HIDE DEF r, l
  <2>4. l # NoLease
    BY <2>1 DEF NoLease, Never
  <2>. DEFINE n == [next EXCEPT !.lease = l]
  <2>5. n.lease = l /\ n.stage = next.stage
    OBVIOUS
  <2>. HIDE DEF n
  <2>6. request'[q] = n /\ \A p \in Requests \ {q} : request'[p] = request[p]
    BY <2>3, OneMoves DEF n
  <2>7. HeldOf' = Plus(HeldOf, l) /\ HeldTo' = PlusTo(HeldTo, l)
    <3>1. l.window \in 0..MailTime /\ (l.address \in Addresses => l.own \in 0..MailTime)
      BY <1>1, <2>1
    <3>2. request'[q].lease = l /\ \A p \in Requests \ {q} : request'[p].lease = request[p].lease
      BY <2>5, <2>6
    <3>. QED BY <1>2, <2>4, <3>1, <3>2, LeaseTaken DEF Plus, PlusTo
  <2>8. AllBalanced(admission', used', HeldOf', HeldTo', mailNow')
    BY <1>3, <2>1, <2>3, <2>7
  <2>9. \A p \in Requests : LeaseOK(request'[p], mailNow')
    <3>1. Lease(l, mailNow)
      BY <2>1 DEF Lease
    <3>2. LeaseOK(n, mailNow)
      BY <2>4, <2>5, <3>1 DEF LeaseOK
    <3>. QED BY <1>3, <2>6, <3>2 DEF SendsInv
  <2>. QED BY <1>1, <1>3, <2>2, <2>3, <2>8, <2>9 DEF SendsInv
<1>5. CASE ~Admits(admission, address, mailNow)
  <2>1. admission' = Refused(admission, address, mailNow) /\ Goes(q, Idle)
    BY <1>5 DEF Reserve
  <2>2. LimiterOK(admission', mailNow)
    BY <1>1, <2>1, RefusalKeepsLimits
  <2>3. AllBalanced(admission', used, HeldOf, HeldTo, mailNow)
    BY <1>1, <2>1, RefusalBalances
  <2>4. request'[q] = Idle /\ \A p \in Requests \ {q} : request'[p] = request[p]
    BY <2>1, OneMoves
  <2>5. Idle.lease = NoLease /\ Idle.stage \notin Held
    BY DEF Idle, Held
  <2>6. HeldOf' = HeldOf /\ HeldTo' = HeldTo
    <3>1. \A p \in Requests : request'[p].lease = request[p].lease
      BY <1>2, <2>4, <2>5
    <3>. QED BY <3>1, LeasesKept
  <2>7. \A p \in Requests : LeaseOK(request'[p], mailNow')
    BY <1>3, <2>4, <2>5 DEF SendsInv, LeaseOK
  <2>8. AllBalanced(admission', used', HeldOf', HeldTo', mailNow')
    BY <1>3, <2>3, <2>6
  <2>. QED BY <1>1, <1>3, <2>2, <2>7, <2>8 DEF SendsInv
<1>. QED BY <1>4, <1>5

\* A request lets its lease go: what it leaves among the leases is one less.
LEMMA LetsGo ==
  ASSUME RequestsInv, SendsInv, NEW q \in Requests, request[q].stage \in Held,
         NEW r, Goes(q, r), r.lease = NoLease, r.stage \notin Held, mailNow' = mailNow,
         NEW l, l = request[q].lease
  PROVE  /\ l # NoLease /\ Lease(l, mailNow)
         /\ HeldOf[l.window] >= 1 /\ (l.address \in Addresses => HeldTo[l.address][l.own] >= 1)
         /\ HeldOf' = Minus(HeldOf, l) /\ HeldTo' = MinusTo(HeldTo, l)
         /\ \A p \in Requests : LeaseOK(request'[p], mailNow')
<1>1. request'[q] = r /\ \A p \in Requests \ {q} : request'[p] = request[p]
  BY OneMoves
<1>2. l # NoLease /\ Lease(l, mailNow)
  BY DEF SendsInv, LeaseOK
<1>3. \A p \in Requests : LeaseOK(request'[p], mailNow')
  BY <1>1 DEF SendsInv, LeaseOK
<1>4. l.window \in 0..MailTime /\ (l.address \in Addresses => l.own \in 0..MailTime)
  BY <1>2, LimitsTyped DEF Lease, SendsInv
<1>5. request'[q].lease = NoLease /\ \A p \in Requests \ {q} : request'[p].lease = request[p].lease
  BY <1>1
<1>6. /\ HeldOf[l.window] >= 1
      /\ HeldOf' = [HeldOf EXCEPT ![l.window] = @ - 1]
      /\ l.address \in Addresses => HeldTo[l.address][l.own] >= 1
      /\ HeldTo' = [a \in Addresses |->
           IF a = l.address THEN [HeldTo[a] EXCEPT ![l.own] = @ - 1] ELSE HeldTo[a]]
  BY <1>2, <1>4, <1>5, LeaseDropped
<1>. QED BY <1>2, <1>3, <1>6 DEF Minus, MinusTo

\* A call is made on a lease.
LEMMA ConsumptionCounts ==
  ASSUME RequestsInv, SendsInv, NEW q \in Requests, request[q].stage \in Held,
         Consumed(request[q].lease), NEW r, Goes(q, r), r.lease = NoLease, r.stage \notin Held,
         UNCHANGED <<mailNow, admission>>
  PROVE  SendsInv'
<1>. DEFINE l == request[q].lease
<1>1. /\ mailNow \in 0..MailTime /\ LimiterOK(admission, mailNow) /\ used \in Calls
      /\ AllBalanced(admission, used, HeldOf, HeldTo, mailNow)
      /\ HeldOf \in Numbers /\ HeldTo \in [Addresses -> Numbers]
  BY HeldTyped DEF SendsInv
<1>2. /\ Lease(l, mailNow)
      /\ HeldOf[l.window] >= 1 /\ (l.address \in Addresses => HeldTo[l.address][l.own] >= 1)
      /\ HeldOf' = Minus(HeldOf, l) /\ HeldTo' = MinusTo(HeldTo, l)
      /\ \A p \in Requests : LeaseOK(request'[p], mailNow')
  BY LetsGo
<1>3. used' = [global |-> IF mailNow - l.window < GlobalWindow
                           THEN [used.global EXCEPT ![l.window] = @ + 1]
                           ELSE used.global,
              recipients |-> IF /\ l.address \in Addresses
                                /\ mailNow - l.own < RecipientWindow
                               THEN [used.recipients EXCEPT ![l.address][l.own] = @ + 1]
                               ELSE used.recipients]
  BY DEF Consumed
<1>. HIDE DEF l
<1>4. used' \in Calls /\ AllBalanced(admission, used', Minus(HeldOf, l), MinusTo(HeldTo, l), mailNow)
  BY <1>1, <1>2, <1>3, ConsumptionBalances
<1>5. AllBalanced(admission', used', HeldOf', HeldTo', mailNow')
  BY <1>2, <1>4
<1>. QED BY <1>1, <1>2, <1>4, <1>5 DEF SendsInv

\* A lease is given back.
LEMMA ReleaseCounts ==
  ASSUME RequestsInv, SendsInv, NEW q \in Requests, request[q].stage \in Held,
         Release(q), Goes(q, Idle), UNCHANGED <<mailNow, used>>
  PROVE  SendsInv'
<1>. DEFINE l == request[q].lease
<1>1. /\ mailNow \in 0..MailTime /\ LimiterOK(admission, mailNow) /\ used \in Calls
      /\ AllBalanced(admission, used, HeldOf, HeldTo, mailNow)
      /\ HeldOf \in Numbers /\ HeldTo \in [Addresses -> Numbers]
  BY HeldTyped DEF SendsInv
<1>2. Idle.lease = NoLease /\ Idle.stage \notin Held
  BY DEF Idle, Held
<1>3. /\ l # NoLease /\ Lease(l, mailNow)
      /\ HeldOf[l.window] >= 1 /\ (l.address \in Addresses => HeldTo[l.address][l.own] >= 1)
      /\ HeldOf' = Minus(HeldOf, l) /\ HeldTo' = MinusTo(HeldTo, l)
      /\ \A p \in Requests : LeaseOK(request'[p], mailNow')
  BY <1>2, LetsGo
<1>4. admission' = Released(admission, l)
  BY DEF Release
<1>. HIDE DEF l
<1>5. /\ LimiterOK(admission', mailNow)
      /\ AllBalanced(admission', used, Minus(HeldOf, l), MinusTo(HeldTo, l), mailNow)
  BY <1>1, <1>3, <1>4, ReleaseBalances
<1>6. AllBalanced(admission', used', HeldOf', HeldTo', mailNow')
  BY <1>3, <1>5
<1>. QED BY <1>1, <1>3, <1>5, <1>6 DEF SendsInv

\* Neither requests nor what they reserve change.
LEMMA SendsUntouched ==
  ASSUME SendsInv, UNCHANGED <<mailNow, admission, used, request>>
  PROVE  SendsInv'
<1>1. HeldOf' = HeldOf /\ HeldTo' = HeldTo
  BY LeasesKept
<1>. QED BY <1>1 DEF SendsInv

LEMMA TimeCounts ==
  ASSUME SendsInv, MailTick
  PROVE  SendsInv'
<1>1. /\ mailNow \in 0..MailTime /\ LimiterOK(admission, mailNow) /\ used \in Calls
      /\ AllBalanced(admission, used, HeldOf, HeldTo, mailNow)
      /\ HeldOf \in Numbers /\ HeldTo \in [Addresses -> Numbers] /\ MailTime \in Nat
  BY HeldTyped, LimitsTyped DEF SendsInv
<1>2. /\ mailNow' = mailNow + 1 /\ mailNow < MailTime
      /\ used' = [global |-> used'.global, recipients |-> [a \in Addresses |-> used'.recipients[a]]]
      /\ used'.global = Left(used.global, mailNow', GlobalWindow)
      /\ \A a \in Addresses : used'.recipients[a] = Left(used.recipients[a], mailNow', RecipientWindow)
      /\ UNCHANGED <<admission, request>>
  BY DEF MailTick, Left
<1>3. used' \in Calls /\ LimiterOK(admission, mailNow')
      /\ AllBalanced(admission, used', HeldOf, HeldTo, mailNow')
  BY <1>1, <1>2, TickBalances
<1>4. HeldOf' = HeldOf /\ HeldTo' = HeldTo
  BY <1>2, LeasesKept
<1>5. \A p \in Requests : LeaseOK(request'[p], mailNow')
  BY <1>1, <1>2 DEF SendsInv, LeaseOK, Lease
<1>6. mailNow' \in 0..MailTime
  BY <1>1, <1>2
<1>7. AllBalanced(admission', used', HeldOf', HeldTo', mailNow')
  BY <1>2, <1>3, <1>4
<1>. QED BY <1>2, <1>3, <1>5, <1>6, <1>7 DEF SendsInv

\* Nobody holds a lease: at first, and after a restart.
LEMMA NobodyHolds ==
  ASSUME NEW f, f = [q \in Requests |-> Idle]
  PROVE  /\ request = f => \A t : /\ Holding(t, NoAddress, Never) = {}
                                  /\ \A a \in Addresses : Holding(Never, a, t) = {}
         /\ request' = f => \A t : /\ Holding(t, NoAddress, Never)' = {}
                                   /\ \A a \in Addresses : Holding(Never, a, t)' = {}
<1>1. \A q \in Requests : f[q].lease = NoLease
  BY DEF Idle
<1>. QED BY <1>1 DEF Holding

LEMMA RestartCounts ==
  ASSUME SendsInv, MailRestart
  PROVE  SendsInv'
<1>1. /\ request' = [q \in Requests |-> Idle] /\ admission' = NewAdmission /\ used' = NothingUsed
      /\ mailNow' = mailNow
  BY DEF MailRestart
<1>2. mailNow \in 0..MailTime /\ mailNow \in Nat
  BY LimitsTyped DEF SendsInv
<1>3. \A t \in 0..MailTime : HeldOf'[t] = 0 /\ \A a \in Addresses : HeldTo'[a][t] = 0
  <2>1. \A t : Holding(t, NoAddress, Never)' = {} /\ \A a \in Addresses : Holding(Never, a, t)' = {}
    BY <1>1, NobodyHolds
  <2>. QED BY <2>1, FS_EmptySet DEF HeldOf, HeldTo
<1>4. HeldOf' \in Numbers /\ HeldTo' \in [Addresses -> Numbers]
  BY HeldTyped
<1>5. /\ used' \in Calls /\ LimiterOK(admission', mailNow')
      /\ AllBalanced(admission', used', HeldOf', HeldTo', mailNow')
  BY <1>1, <1>2, <1>3, <1>4, EmptyBalances
<1>6. \A p \in Requests : LeaseOK(request'[p], mailNow')
  BY <1>1 DEF LeaseOK, Idle, Held
<1>. QED BY <1>1, <1>2, <1>5, <1>6 DEF SendsInv

LEMMA SendsInit == VerificationInit => SendsInv
<1>. SUFFICES ASSUME VerificationInit PROVE SendsInv
  OBVIOUS
<1>1. /\ request = [q \in Requests |-> Idle] /\ admission = NewAdmission /\ used = NothingUsed
      /\ mailNow = 0
  BY DEF VerificationInit
<1>2. mailNow \in 0..MailTime /\ mailNow \in Nat
  BY <1>1, LimitsTyped
<1>3. \A t \in 0..MailTime : HeldOf[t] = 0 /\ \A a \in Addresses : HeldTo[a][t] = 0
  <2>1. \A t : Holding(t, NoAddress, Never) = {} /\ \A a \in Addresses : Holding(Never, a, t) = {}
    BY <1>1, NobodyHolds
  <2>. QED BY <2>1, FS_EmptySet DEF HeldOf, HeldTo
<1>4. /\ used \in Calls /\ LimiterOK(admission, mailNow)
      /\ AllBalanced(admission, used, HeldOf, HeldTo, mailNow)
  BY <1>1, <1>2, <1>3, HeldTyped, EmptyBalances
<1>5. \A p \in Requests : LeaseOK(request[p], mailNow)
  BY <1>1 DEF LeaseOK, Idle, Held
<1>. QED BY <1>2, <1>4, <1>5 DEF SendsInv

\* Every action keeps the count.
LEMMA SendsStep ==
  VerificationInv /\ SendsInv /\ [VerificationNext]_verificationVars => SendsInv'
<1>. SUFFICES ASSUME VerificationInv, SendsInv, [VerificationNext]_verificationVars PROVE SendsInv'
  OBVIOUS
<1>. RequestsInv
  BY DEF VerificationInv
<1>. \A q \in Requests : DOMAIN request[q] = {"stage", "user", "address", "lease", "code"}
  BY DEF RequestsInv, RequestOK
<1>. Idle.lease = NoLease /\ Idle.stage \notin Held
     /\ DOMAIN Idle = {"stage", "user", "address", "lease", "code"}
  BY DEF Idle, Held
<1>1. ASSUME NEW u \in Users, DeliveryPauses(u) \/ \E a \in Addresses : SetCandidate(u, a) PROVE SendsInv'
  BY <1>1, SendsUntouched DEF DeliveryPauses, SetCandidate
<1>2. ASSUME NEW q \in Requests, CreateChallenge(q) PROVE SendsInv'
  <2>. DEFINE r == [request[q] EXCEPT !.stage = "call", !.lease = NoLease, !.code = Len(challenge) + 1]
  <2>1. /\ Waiting(q, "create") /\ Consumed(request[q].lease) /\ Goes(q, r)
        /\ UNCHANGED <<mailNow, admission>>
    BY <1>2 DEF CreateChallenge
  <2>2. r.lease = NoLease /\ r.stage = "call"
    OBVIOUS
  <2>. HIDE DEF r
  <2>. QED BY <2>1, <2>2, ConsumptionCounts DEF Held, Waiting
<1>3. ASSUME NEW q \in Requests, RefuseChallenge(q) \/ RefuseTest(q) \/ SweepReleases(q) PROVE SendsInv'
  <2>1. Release(q) /\ Goes(q, Idle) /\ UNCHANGED <<mailNow, used>> /\ request[q].stage \in Held
    BY <1>3 DEF RefuseChallenge, RefuseTest, SweepReleases, Waiting, Held
  <2>. QED BY <2>1, ReleaseCounts
<1>4. ASSUME NEW q \in Requests, PauseDestination(q) \/ ConfirmVerification(q) PROVE SendsInv'
  <2>1. Goes(q, Idle) /\ UNCHANGED <<mailNow, admission, used>> /\ request[q].stage \notin Held
    BY <1>4 DEF PauseDestination, ConfirmVerification, Waiting, Held
  <2>. QED BY <2>1, MovesWithoutLease
<1>5. ASSUME NEW q \in Requests, ReserveTestSend(q) PROVE SendsInv'
  <2>. DEFINE r == [request[q] EXCEPT !.stage = "testing", !.lease = NoLease,
                                      !.address = setting[request[q].user].address]
  <2>1. /\ Waiting(q, "test") /\ Consumed(request[q].lease) /\ Goes(q, r)
        /\ UNCHANGED <<mailNow, admission>>
    BY <1>5 DEF ReserveTestSend
  <2>2. r.lease = NoLease /\ r.stage = "testing"
    OBVIOUS
  <2>. HIDE DEF r
  <2>. QED BY <2>1, <2>2, ConsumptionCounts DEF Held, Waiting
<1>6. ASSUME NEW q \in Requests, SweepReserves(q) PROVE SendsInv'
  <2>. DEFINE r == [Idle EXCEPT !.stage = "sweep"]
  <2>1. r.stage \in Held /\ DOMAIN r = {"stage", "user", "address", "lease", "code"}
    BY DEF Held
  <2>. HIDE DEF r
  <2>2. Reserve(q, NoAddress, r) /\ request[q].stage \notin Held
    BY <1>6 DEF SweepReserves, r, Waiting, Held
  <2>. QED BY <2>1, <2>2, ReservationCounts
<1>7. ASSUME NEW q \in Requests, SweepSends(q) PROVE SendsInv'
  <2>1. /\ Waiting(q, "sweep") /\ Consumed(request[q].lease) /\ Goes(q, Idle)
        /\ UNCHANGED <<mailNow, admission>>
    BY <1>7 DEF SweepSends
  <2>. QED BY <2>1, ConsumptionCounts DEF Held, Waiting
<1>8. ASSUME NEW q \in Requests, NEW u \in Users, ReserveVerification(q, u) PROVE SendsInv'
  <2>. DEFINE r == [Idle EXCEPT !.stage = "create", !.user = u, !.address = setting[u].address]
  <2>1. setting[u].address \in Addresses
    BY <1>8 DEF ReserveVerification, VerificationInv, CodesInv, RowsTyped, Setting
  <2>2. r.stage \in Held /\ DOMAIN r = {"stage", "user", "address", "lease", "code"}
    BY DEF Held
  <2>. HIDE DEF r
  <2>3. Reserve(q, setting[u].address, r) /\ request[q].stage \notin Held
    BY <1>8 DEF ReserveVerification, r, Waiting, Held
  <2>. QED BY <2>1, <2>2, <2>3, ReservationCounts
<1>9. ASSUME NEW q \in Requests, NEW u \in Users, ReserveForTest(q, u) PROVE SendsInv'
  <2>. DEFINE r == [Idle EXCEPT !.stage = "test", !.user = u]
  <2>1. r.stage \in Held /\ DOMAIN r = {"stage", "user", "address", "lease", "code"}
    BY DEF Held
  <2>. HIDE DEF r
  <2>2. Reserve(q, NoAddress, r) /\ request[q].stage \notin Held
    BY <1>9 DEF ReserveForTest, r, Waiting, Held
  <2>. QED BY <2>1, <2>2, ReservationCounts
<1>10. ASSUME NEW q \in Requests, NEW u \in Users, NEW code, ReadsToConfirm(q, u, code) PROVE SendsInv'
  <2>. DEFINE r == [Idle EXCEPT !.stage = "confirm", !.user = u,
                                !.address = setting[u].address, !.code = code]
  <2>1. r.lease = NoLease /\ r.stage \notin Held
    BY DEF Held, Idle
  <2>. HIDE DEF r
  <2>2. Goes(q, r) /\ UNCHANGED <<mailNow, admission, used>> /\ request[q].stage \notin Held
    BY <1>10 DEF ReadsToConfirm, r, Waiting, Held
  <2>. QED BY <2>1, <2>2, MovesWithoutLease
<1>11. ASSUME NEW q \in Requests, NEW answer \in Answers,
              FinishVerificationSend(q, answer) \/ FinishTest(q, answer) PROVE SendsInv'
  <2>. DEFINE r == [Idle EXCEPT !.stage = "pause", !.user = request[q].user,
                                !.address = request[q].address]
  <2>1. r.lease = NoLease /\ r.stage \notin Held
    BY DEF Held, Idle
  <2>. HIDE DEF r
  <2>2. (Goes(q, r) \/ Goes(q, Idle)) /\ UNCHANGED <<mailNow, admission, used>> /\ request[q].stage \notin Held
    BY <1>11 DEF FinishVerificationSend, FinishTest, AfterCall, r, Waiting, Held
  <2>. QED BY <2>1, <2>2, MovesWithoutLease
<1>12. CASE MailTick
  BY <1>12, TimeCounts
<1>13. CASE MailRestart
  BY <1>13, RestartCounts
<1>14. CASE UNCHANGED verificationVars
  BY <1>14, SendsUntouched DEF verificationVars
<1>. QED
  BY <1>1, <1>2, <1>3, <1>4, <1>5, <1>6, <1>7, <1>8, <1>9, <1>10, <1>11, <1>12, <1>13, <1>14
  DEF VerificationNext

----------------------------------------------------------------------------
(* Test mails, and how a code ends.                                        *)

TestsOK(s, now) ==
  s.tested \in {Never} \cup 0..now /\ s.testWindow \in {Never} \cup 0..now /\ s.tests \in 0..TestLimit
EndsOnce(c) == ~(c.consumed /\ c.invalid)
LimitsInv ==
  /\ \A u \in Users : TestsOK(setting[u], mailNow)
  /\ \A k \in Ids : EndsOnce(challenge[k])

\* The test mails of an address stay as they are while time may pass.
LEMMA TestsStay ==
  ASSUME LimitsInv, mailNow \in Nat, mailNow' \in Nat, mailNow <= mailNow',
         \A u \in Users : /\ setting'[u].tested = setting[u].tested
                          /\ setting'[u].testWindow = setting[u].testWindow
                          /\ setting'[u].tests = setting[u].tests
  PROVE  \A u \in Users : TestsOK(setting'[u], mailNow')
BY DEF LimitsInv, TestsOK

\* One row of the settings changes, in fields other than those of the tests.
LEMMA RowChanges ==
  ASSUME VerificationInv, NEW u \in Users, NEW a, NEW v, NEW p,
         LimitsInv, mailNow' = mailNow,
         \/ setting' = [setting EXCEPT ![u] = [setting[u] EXCEPT !.address = a, !.verified = v, !.paused = p]]
         \/ setting' = [setting EXCEPT ![u] = [setting[u] EXCEPT !.verified = v]]
         \/ setting' = [setting EXCEPT ![u] = [setting[u] EXCEPT !.paused = p]]
         \/ setting' = setting
  PROVE  \A w \in Users : TestsOK(setting'[w], mailNow')
<1>1. setting[u] \in Setting /\ setting \in [Users -> Setting] /\ mailNow \in Nat
  BY DEF VerificationInv, CodesInv, RowsTyped
<1>2. \A w \in Users : /\ setting'[w].tested = setting[w].tested
                       /\ setting'[w].testWindow = setting[w].testWindow
                       /\ setting'[w].tests = setting[w].tests
  <2>1. ASSUME NEW r, setting' = [setting EXCEPT ![u] = r],
               r.tested = setting[u].tested, r.testWindow = setting[u].testWindow, r.tests = setting[u].tests
        PROVE  \A w \in Users : /\ setting'[w].tested = setting[w].tested
                                /\ setting'[w].testWindow = setting[w].testWindow
                                /\ setting'[w].tests = setting[w].tests
    BY <1>1, <2>1
  <2>2. CASE setting' = [setting EXCEPT ![u] = [setting[u] EXCEPT !.address = a, !.verified = v, !.paused = p]]
    <3>. DEFINE r == [setting[u] EXCEPT !.address = a, !.verified = v, !.paused = p]
    <3>1. r.tested = setting[u].tested /\ r.testWindow = setting[u].testWindow /\ r.tests = setting[u].tests
      OBVIOUS
    <3>. HIDE DEF r
    <3>2. setting' = [setting EXCEPT ![u] = r]
      BY <2>2 DEF r
    <3>. QED BY <2>1, <3>1, <3>2
  <2>3. CASE setting' = [setting EXCEPT ![u] = [setting[u] EXCEPT !.verified = v]]
    <3>. DEFINE r == [setting[u] EXCEPT !.verified = v]
    <3>1. r.tested = setting[u].tested /\ r.testWindow = setting[u].testWindow /\ r.tests = setting[u].tests
      OBVIOUS
    <3>. HIDE DEF r
    <3>2. setting' = [setting EXCEPT ![u] = r]
      BY <2>3 DEF r
    <3>. QED BY <2>1, <3>1, <3>2
  <2>4. CASE setting' = [setting EXCEPT ![u] = [setting[u] EXCEPT !.paused = p]]
    <3>. DEFINE r == [setting[u] EXCEPT !.paused = p]
    <3>1. r.tested = setting[u].tested /\ r.testWindow = setting[u].testWindow /\ r.tests = setting[u].tests
      OBVIOUS
    <3>. HIDE DEF r
    <3>2. setting' = [setting EXCEPT ![u] = r]
      BY <2>4 DEF r
    <3>. QED BY <2>1, <3>1, <3>2
  <2>. QED BY <2>2, <2>3, <2>4
<1>. QED BY <1>1, <1>2, TestsStay

\* One code changes and keeps its end, or ends when it was open.
LEMMA CodeEnds ==
  ASSUME VerificationInv, LimitsInv, NEW k \in Ids, NEW c, challenge' = [challenge EXCEPT ![k] = c],
         EndsOnce(c)
  PROVE  \A i \in Ids' : EndsOnce(challenge'[i])
<1>1. challenge \in Seq(Code)
  BY DEF VerificationInv, CodesInv, RowsTyped
<1>2. Ids' = Ids /\ challenge'[k] = c /\ \A i \in Ids \ {k} : challenge'[i] = challenge[i]
  BY <1>1 DEF Ids
<1>. QED BY <1>2 DEF LimitsInv

LEMMA InvalidEnds ==
  ASSUME VerificationInv, LimitsInv, NEW S
  PROVE  \A k \in Ids : EndsOnce(Invalidated(S)[k])
<1>. SUFFICES ASSUME NEW k \in Ids PROVE EndsOnce(Invalidated(S)[k])
  OBVIOUS
<1>1. challenge[k] \in Code /\ EndsOnce(challenge[k])
  BY DEF VerificationInv, CodesInv, RowsTyped, Ids, LimitsInv
<1>2. Invalidated(S)[k] = IF k \in S /\ Open(k) THEN [challenge[k] EXCEPT !.invalid = TRUE] ELSE challenge[k]
  BY DEF Invalidated
<1>. QED BY <1>1, <1>2 DEF EndsOnce, Open, Code

\* A test is allowed only below the hour's limit.
LEMMA TestCounted ==
  ASSUME NEW now \in Nat, NEW s \in Setting, TestsOK(s, now),
         (IF s.testWindow = Never \/ now - s.testWindow >= Hour
            THEN [s EXCEPT !.testWindow = now, !.tests = 0] ELSE s).tests < TestLimit,
         NEW r, r = IF s.testWindow = Never \/ now - s.testWindow >= Hour
                      THEN [s EXCEPT !.testWindow = now, !.tests = 0] ELSE s
  PROVE  TestsOK([r EXCEPT !.tested = now, !.tests = r.tests + 1], now)
<1>. DEFINE n == [r EXCEPT !.tested = now, !.tests = r.tests + 1]
<1>1. TestLimit \in Nat
  BY VerificationAssumption DEF VerificationAssumption
<1>2. r \in Setting /\ r.testWindow \in {Never} \cup 0..now /\ r.tests \in 0..TestLimit /\ r.tests < TestLimit
  <2>1. CASE s.testWindow = Never \/ now - s.testWindow >= Hour
    <3>1. r = [s EXCEPT !.testWindow = now, !.tests = 0]
      BY <2>1
    <3>2. r \in Setting
      <4>1. now \in Int /\ 0 \in Int
        OBVIOUS
      <4>2. [s EXCEPT !.testWindow = now, !.tests = 0] \in Setting
        BY <4>1, TestsMove, Zenon
      <4>. QED BY <3>1, <4>2
    <3>3. r.testWindow = now /\ r.tests = 0
      <4>1. "testWindow" \in DOMAIN s /\ "tests" \in DOMAIN s
        BY DEF Setting
      <4>. QED BY <3>1, <4>1
    <3>. QED BY <1>1, <2>1, <3>2, <3>3
  <2>2. CASE ~(s.testWindow = Never \/ now - s.testWindow >= Hour)
    BY <2>2 DEF TestsOK
  <2>. QED BY <2>1, <2>2
<1>3. n.tested = now /\ n.testWindow = r.testWindow /\ n.tests = r.tests + 1
  BY <1>2 DEF Setting
<1>. HIDE DEF n
<1>. QED BY <1>1, <1>2, <1>3 DEF TestsOK, n

LEMMA LimitsInit == VerificationInit => LimitsInv
<1>. SUFFICES ASSUME VerificationInit PROVE LimitsInv
  OBVIOUS
<1>1. TestLimit \in Nat
  BY VerificationAssumption DEF VerificationAssumption
<1>2. \A u \in Users : TestsOK(setting[u], mailNow)
  BY <1>1 DEF VerificationInit, TestsOK, NoSetting
<1>3. Ids = {}
  BY DEF VerificationInit, Ids
<1>. QED BY <1>2, <1>3 DEF LimitsInv

LEMMA LimitsStep ==
  VerificationInv /\ LimitsInv /\ [VerificationNext]_verificationVars => LimitsInv'
<1>. SUFFICES ASSUME VerificationInv, LimitsInv, [VerificationNext]_verificationVars PROVE LimitsInv'
  OBVIOUS
<1>. /\ Len(challenge) \in Nat /\ CodesInv /\ RequestsInv /\ challenge \in Seq(Code)
     /\ setting \in [Users -> Setting] /\ mailNow \in Nat
  BY DEF VerificationInv, CodesInv, RowsTyped
<1>. \A q \in Requests : RequestOK(request[q], Len(challenge))
  BY DEF RequestsInv
<1>1. ASSUME UNCHANGED <<mailNow, setting, challenge>> PROVE LimitsInv'
  BY <1>1 DEF LimitsInv, Ids
<1>2. ASSUME NEW u \in Users, DeliveryPauses(u) PROVE LimitsInv'
  <2>1. \A w \in Users : TestsOK(setting'[w], mailNow')
    BY <1>2, RowChanges DEF DeliveryPauses, PauseAddress
  <2>. QED BY <1>2, <2>1 DEF DeliveryPauses, LimitsInv, Ids
<1>3. ASSUME NEW u \in Users, NEW a \in Addresses, SetCandidate(u, a) PROVE LimitsInv'
  <2>1. \A w \in Users : TestsOK(setting'[w], mailNow')
    BY <1>3, RowChanges DEF SetCandidate
  <2>2. challenge' = Invalidated({k \in Ids : challenge[k].user = u})
    BY <1>3 DEF SetCandidate
  <2>3. Ids' = Ids
    BY <2>2, Invalidating DEF Ids
  <2>. QED BY <2>1, <2>2, <2>3, InvalidEnds DEF LimitsInv
<1>4. ASSUME NEW q \in Requests, CreateChallenge(q) PROVE LimitsInv'
  <2>. DEFINE u == request[q].user
              a == request[q].address
              S == {k \in Ids : challenge[k].user = u /\ challenge[k].address = a}
              new == [user |-> u, address |-> a, status |-> "pending",
                      expires |-> mailNow + CodeLife, sent |-> mailNow,
                      attempts |-> 0, consumed |-> FALSE, invalid |-> FALSE]
              old == Invalidated(S)
  <2>1. challenge' = Append(old, new) /\ UNCHANGED <<mailNow, setting>>
    BY <1>4 DEF CreateChallenge
  <2>2. EndsOnce(new)
    BY DEF EndsOnce
  <2>3. old \in Seq(Code) /\ Len(old) = Len(challenge) /\ \A k \in Ids : EndsOnce(old[k])
    BY Invalidating, InvalidEnds
  <2>. HIDE DEF old, new
  <2>4. Len(challenge') = Len(challenge) + 1 /\ challenge'[Len(challenge) + 1] = new
        /\ \A k \in 1..Len(challenge) : challenge'[k] = old[k]
    BY <2>1, <2>3
  <2>5. \A k \in Ids' : EndsOnce(challenge'[k])
    BY <2>2, <2>3, <2>4 DEF Ids
  <2>. QED BY <2>1, <2>5 DEF LimitsInv
<1>5. ASSUME NEW q \in Requests, PauseDestination(q) PROVE LimitsInv'
  <2>1. request[q].user \in Users
    BY <1>5 DEF PauseDestination, Waiting, RequestOK
  <2>2. \A w \in Users : TestsOK(setting'[w], mailNow')
    BY <1>5, <2>1, RowChanges DEF PauseDestination, PauseAddress
  <2>. QED BY <1>5, <2>2 DEF PauseDestination, LimitsInv, Ids
<1>6. ASSUME NEW q \in Requests, ConfirmVerification(q) PROVE LimitsInv'
  <2>. DEFINE u == request[q].user
              a == request[q].address
              k == Latest(Confirmable(u, a))
  <2>1. u \in Users /\ mailNow' = mailNow
    BY <1>6 DEF ConfirmVerification, Waiting, RequestOK
  <2>2. ConfirmFinds(q) => k \in Ids /\ Open(k)
    <3>1. ConfirmFinds(q) => k \in Confirmable(u, a)
      BY <2>1, TheCode DEF ConfirmFinds
    <3>2. Confirmable(u, a) \subseteq {i \in Ids : Open(i)}
      BY DEF Confirmable
    <3>. HIDE DEF k
    <3>. QED BY <3>1, <3>2
  <2>3. CASE ConfirmAccepts(q)
    <3>1. /\ challenge' = [challenge EXCEPT ![k] = [challenge[k] EXCEPT !.consumed = TRUE]]
          /\ setting' = [setting EXCEPT ![u] = [setting[u] EXCEPT !.verified = TRUE]]
          /\ k \in Ids /\ Open(k)
      BY <2>2, <2>3 DEF ConfirmAccepts
    <3>2. EndsOnce([challenge[k] EXCEPT !.consumed = TRUE])
      <4>1. challenge[k] \in Code /\ ~challenge[k].invalid
        BY <3>1 DEF Open, Ids
      <4>. QED BY <4>1 DEF Code, EndsOnce
    <3>. HIDE DEF k
    <3>3. \A i \in Ids' : EndsOnce(challenge'[i])
      BY <3>1, <3>2, CodeEnds
    <3>4. \A w \in Users : TestsOK(setting'[w], mailNow')
      BY <2>1, <3>1, RowChanges
    <3>. QED BY <3>3, <3>4 DEF LimitsInv
  <2>4. CASE ConfirmCounts(q)
    <3>. DEFINE c == [challenge[k] EXCEPT !.attempts = challenge[k].attempts + 1]
    <3>1. challenge' = [challenge EXCEPT ![k] = c] /\ setting' = setting /\ k \in Ids
      BY <2>2, <2>4 DEF ConfirmCounts
    <3>2. EndsOnce(c)
      <4>1. challenge[k] \in Code /\ EndsOnce(challenge[k])
        BY <3>1 DEF Ids, LimitsInv
      <4>. QED BY <4>1 DEF Code, EndsOnce
    <3>. HIDE DEF c, k
    <3>3. \A i \in Ids' : EndsOnce(challenge'[i])
      BY <3>1, <3>2, CodeEnds
    <3>. QED BY <2>1, <3>1, <3>3 DEF LimitsInv
  <2>5. CASE UNCHANGED <<setting, challenge, guesses>>
    BY <2>1, <2>5, <1>1
  <2>. QED BY <1>6, <2>3, <2>4, <2>5 DEF ConfirmVerification
<1>7. ASSUME NEW q \in Requests, ReserveTestSend(q) PROVE LimitsInv'
  <2>. DEFINE u == request[q].user
              s == setting[u]
              r == TestsNow(s)
              n == [r EXCEPT !.tested = mailNow, !.tests = r.tests + 1]
  <2>1. /\ u \in Users /\ setting' = [setting EXCEPT ![u] = n] /\ UNCHANGED <<mailNow, challenge>>
        /\ MayTest(s)
    BY <1>7 DEF ReserveTestSend, Waiting, RequestOK
  <2>2. s \in Setting /\ TestsOK(s, mailNow)
    BY <2>1 DEF LimitsInv
  <2>3. r.tests < TestLimit
    BY <2>1 DEF MayTest
  <2>. HIDE DEF s
  <2>4. TestsOK(n, mailNow)
    BY <2>2, <2>3, TestCounted DEF TestsNow
  <2>. HIDE DEF n
  <2>5. \A w \in Users : TestsOK(setting'[w], mailNow')
    BY <2>1, <2>4 DEF LimitsInv
  <2>. QED BY <2>1, <2>5 DEF LimitsInv, Ids
<1>8. ASSUME NEW q \in Requests, NEW answer \in Answers, FinishVerificationSend(q, answer) PROVE LimitsInv'
  <2>. DEFINE k == request[q].code
              c == [challenge[k] EXCEPT !.status = Stored(answer)]
  <2>1. k \in Ids /\ UNCHANGED <<mailNow, setting>>
    BY <1>8 DEF FinishVerificationSend, Waiting, RequestOK, Ids
  <2>2. challenge' = challenge \/ challenge' = [challenge EXCEPT ![k] = c]
    BY <1>8 DEF FinishVerificationSend
  <2>3. EndsOnce(c)
    <3>1. challenge[k] \in Code /\ EndsOnce(challenge[k])
      BY <2>1 DEF Ids, LimitsInv
    <3>. QED BY <3>1 DEF Code, EndsOnce
  <2>. HIDE DEF c, k
  <2>4. CASE challenge' = challenge
    BY <1>1, <2>1, <2>4
  <2>5. CASE challenge' = [challenge EXCEPT ![k] = c]
    <3>1. \A i \in Ids' : EndsOnce(challenge'[i])
      BY <2>1, <2>3, <2>5, CodeEnds
    <3>. QED BY <2>1, <3>1 DEF LimitsInv
  <2>. QED BY <2>2, <2>4, <2>5
<1>9. ASSUME NEW q \in Requests,
             \/ RefuseChallenge(q) \/ RefuseTest(q) \/ SweepReserves(q) \/ SweepSends(q) \/ SweepReleases(q)
             \/ \E u \in Users : \/ ReserveVerification(q, u) \/ ReserveForTest(q, u)
                                 \/ \E code \in {0} \cup Ids : ReadsToConfirm(q, u, code)
             \/ \E answer \in Answers : FinishTest(q, answer)
      PROVE  LimitsInv'
  <2>1. UNCHANGED <<mailNow, setting, challenge>>
    BY <1>9 DEF RefuseChallenge, RefuseTest, SweepReserves, SweepSends, SweepReleases,
       ReserveVerification, ReserveForTest, ReadsToConfirm, FinishTest, Reserve
  <2>. QED BY <1>1, <2>1
<1>10. CASE MailTick
  <2>1. mailNow' = mailNow + 1 /\ UNCHANGED <<setting, challenge>>
    BY <1>10 DEF MailTick
  <2>2. \A w \in Users : TestsOK(setting'[w], mailNow')
    BY <2>1, TestsStay
  <2>. QED BY <2>1, <2>2 DEF LimitsInv, Ids
<1>11. CASE MailRestart
  BY <1>1, <1>11 DEF MailRestart
<1>12. CASE UNCHANGED verificationVars
  BY <1>1, <1>12 DEF verificationVars
<1>. QED
  BY <1>2, <1>3, <1>4, <1>5, <1>6, <1>7, <1>8, <1>9, <1>10, <1>11, <1>12
  DEF VerificationNext

----------------------------------------------------------------------------
(* The quotas of verification mails: a mail is judged when it is recorded, *)
(* and its user, address and time never change.                            *)

QuotasInv == \A k \in Ids : WithinQuota(k)
SameMail(c, d) == c.user = d.user /\ c.address = d.address /\ c.sent = d.sent

LEMMA QuotaStays ==
  ASSUME NEW k \in Nat, WithinQuota(k), \A i \in 1..k : SameMail(challenge'[i], challenge[i])
  PROVE  WithinQuota(k)'
<1>1. k \in 1..k => SameMail(challenge'[k], challenge[k])
  OBVIOUS
<1>2. Before(k)' = Before(k)
  BY <1>1 DEF Before, SameMail
<1>3. BeforeTo(k)' = BeforeTo(k) /\ Before(k) \subseteq 1..k
  BY <1>1, <1>2 DEF Before, BeforeTo, SameMail
<1>4. \A i \in BeforeTo(k) : SameMail(challenge'[i], challenge[i]) /\ i \in 1..k
  BY <1>3 DEF BeforeTo
<1>5. ASSUME NEW i \in BeforeTo(k)' \ {k}
      PROVE  challenge'[i].sent <= challenge'[k].sent - Cooldown
  <2>1. challenge[i].sent <= challenge[k].sent - Cooldown
    BY <1>3, <1>5 DEF WithinQuota
  <2>2. challenge'[i].sent = challenge[i].sent /\ i \in 1..k
    BY <1>3, <1>4, <1>5 DEF SameMail
  <2>3. challenge'[k].sent = challenge[k].sent
    BY <1>1, <2>2 DEF SameMail
  <2>. QED BY <2>1, <2>2, <2>3
<1>6. Cardinality(Before(k)') <= AccountLimit /\ Cardinality(BeforeTo(k)') <= AddressLimit
  BY <1>2, <1>3 DEF WithinQuota
<1>. QED BY <1>5, <1>6 DEF WithinQuota

\* The mails of an address whose codes lose their validity are the same mails.
LEMMA InvalidSame ==
  ASSUME VerificationInv, NEW S
  PROVE  \A k \in Ids : SameMail(Invalidated(S)[k], challenge[k])
<1>. SUFFICES ASSUME NEW k \in Ids PROVE SameMail(Invalidated(S)[k], challenge[k])
  OBVIOUS
<1>1. challenge[k] \in Code
  BY DEF VerificationInv, CodesInv, RowsTyped, Ids
<1>2. Invalidated(S)[k] = IF k \in S /\ Open(k) THEN [challenge[k] EXCEPT !.invalid = TRUE] ELSE challenge[k]
  BY DEF Invalidated
<1>. QED BY <1>1, <1>2 DEF SameMail, Code

LEMMA QuotasStay ==
  ASSUME QuotasInv, Len(challenge) \in Nat, Len(challenge') = Len(challenge),
         \A k \in Ids : SameMail(challenge'[k], challenge[k])
  PROVE  QuotasInv'
<1>1. Ids' = Ids
  BY DEF Ids
<1>2. ASSUME NEW k \in Ids PROVE WithinQuota(k)'
  <2>1. k \in Nat /\ WithinQuota(k) /\ \A i \in 1..k : i \in Ids
    BY DEF Ids, QuotasInv
  <2>. QED BY <2>1, QuotaStays
<1>. QED BY <1>1, <1>2 DEF QuotasInv

\* One code changes, but not its mail.
LEMMA QuotasOfOne ==
  ASSUME VerificationInv, QuotasInv, NEW k \in Ids, NEW c, SameMail(c, challenge[k]),
         challenge' = [challenge EXCEPT ![k] = c]
  PROVE  QuotasInv'
<1>1. challenge \in Seq(Code) /\ Len(challenge) \in Nat
  BY DEF VerificationInv, CodesInv, RowsTyped
<1>2. Len(challenge') = Len(challenge)
  BY <1>1
<1>3. \A i \in Ids : SameMail(challenge'[i], challenge[i])
  BY <1>1 DEF Ids, SameMail
<1>. QED BY <1>1, <1>2, <1>3, QuotasStay

\* A mail that is recorded fits the quotas at that time.
LEMMA QuotasCreate ==
  ASSUME VerificationInv, QuotasInv, NEW q \in Requests, CreateChallenge(q),
         NEW n, n = Len(challenge) + 1
  PROVE  QuotasInv'
<1>. DEFINE u == request[q].user
            a == request[q].address
            S == {k \in Ids : challenge[k].user = u /\ challenge[k].address = a}
            new == [user |-> u, address |-> a, status |-> "pending",
                    expires |-> mailNow + CodeLife, sent |-> mailNow,
                    attempts |-> 0, consumed |-> FALSE, invalid |-> FALSE]
            old == Invalidated(S)
<1>1. /\ CodesInv /\ challenge \in Seq(Code) /\ Len(challenge) \in Nat /\ mailNow \in Nat
      /\ {AccountLimit, AddressLimit} \subseteq Nat
  BY VerificationAssumption DEF VerificationInv, CodesInv, RowsTyped, VerificationAssumption
<1>2. challenge' = Append(old, new) /\ MayChallenge(u, a)
  BY DEF CreateChallenge
<1>3. old \in Seq(Code) /\ Len(old) = Len(challenge) /\ \A k \in Ids : SameMail(old[k], challenge[k])
  BY <1>1, Invalidating, InvalidSame
<1>4. new.user = u /\ new.address = a /\ new.sent = mailNow
  OBVIOUS
<1>. HIDE DEF old, new
<1>5. /\ Len(challenge') = n /\ challenge'[n] = new /\ Ids' = Ids \cup {n} /\ n \notin Ids /\ n \in Nat
      /\ \A k \in Ids : challenge'[k] = old[k]
  <2>1. Len(challenge') = n /\ challenge'[n] = new /\ \A k \in 1..Len(challenge) : challenge'[k] = old[k]
    BY <1>1, <1>2, <1>3
  <2>. QED BY <1>1, <2>1 DEF Ids
<1>6. \A k \in Ids : SameMail(challenge'[k], challenge[k])
  BY <1>3, <1>5
<1>7. ASSUME NEW k \in Ids PROVE WithinQuota(k)'
  <2>1. k \in Nat /\ WithinQuota(k) /\ \A i \in 1..k : i \in Ids
    BY <1>1 DEF Ids, QuotasInv
  <2>. QED BY <1>6, <2>1, QuotaStays
<1>8. \A k \in Ids : /\ challenge'[k].user = challenge[k].user
                      /\ challenge'[k].address = challenge[k].address
                      /\ challenge'[k].sent = challenge[k].sent
  BY <1>6 DEF SameMail
<1>9. Ids = 1..Len(challenge) /\ 1..n = Ids \cup {n} /\ IsFiniteSet(Ids)
  <2>1. Ids = 1..Len(challenge) /\ 1..n = Ids \cup {n}
    BY <1>1, <1>5 DEF Ids
  <2>2. IsFiniteSet(1..Len(challenge))
    BY <1>1, FS_Interval
  <2>. QED BY <2>1, <2>2
<1>. HIDE DEF u, a
<1>10. Before(n)' = Recent(u) \cup {n}
  <2>1. Before(n)' = {i \in 1..n : /\ challenge'[i].user = challenge'[n].user
                                   /\ challenge'[i].sent >= challenge'[n].sent - Hour}
    BY DEF Before
  <2>2. Before(n)' = {i \in Ids \cup {n} : /\ challenge'[i].user = u
                                            /\ challenge'[i].sent >= mailNow - Hour}
    BY <1>4, <1>5, <1>9, <2>1
  <2>3. mailNow >= mailNow - Hour
    BY <1>1, VerificationAssumption DEF VerificationAssumption
  <2>4. challenge'[n].user = u /\ challenge'[n].sent >= mailNow - Hour
    BY <1>4, <1>5, <2>3
  <2>. QED BY <1>8, <2>2, <2>4 DEF Recent
<1>11. BeforeTo(n)' = RecentTo(u, a) \cup {n}
  <2>1. BeforeTo(n)' = {i \in Before(n)' : challenge'[i].address = challenge'[n].address}
    BY DEF BeforeTo
  <2>2. challenge'[n].address = a /\ Recent(u) \subseteq Ids
    BY <1>4, <1>5 DEF Recent
  <2>. QED BY <1>8, <1>10, <2>1, <2>2 DEF RecentTo
<1>12. /\ IsFiniteSet(Recent(u)) /\ n \notin Recent(u)
       /\ IsFiniteSet(RecentTo(u, a)) /\ n \notin RecentTo(u, a)
  <2>1. Recent(u) \subseteq Ids /\ RecentTo(u, a) \subseteq Ids
    BY DEF Recent, RecentTo
  <2>. QED BY <1>5, <1>9, <2>1, FS_Subset
<1>13. Cardinality(Before(n)') <= AccountLimit
  <2>1. Cardinality(Recent(u)) \in Nat /\ Cardinality(Before(n)') = Cardinality(Recent(u)) + 1
    BY <1>10, <1>12, FS_AddElement, FS_CardinalityType
  <2>. QED BY <1>1, <1>2, <2>1 DEF MayChallenge
<1>14. Cardinality(BeforeTo(n)') <= AddressLimit
  <2>1. /\ Cardinality(RecentTo(u, a)) \in Nat
        /\ Cardinality(BeforeTo(n)') = Cardinality(RecentTo(u, a)) + 1
    BY <1>11, <1>12, FS_AddElement, FS_CardinalityType
  <2>. QED BY <1>1, <1>2, <2>1 DEF MayChallenge
<1>15. ASSUME NEW i \in BeforeTo(n)' \ {n} PROVE challenge'[i].sent <= challenge'[n].sent - Cooldown
  <2>1. i \in RecentTo(u, a) /\ i \in Ids
    BY <1>11, <1>15 DEF RecentTo, Recent
  <2>2. challenge[i].sent <= mailNow - Cooldown
    BY <1>2, <2>1 DEF MayChallenge
  <2>. QED BY <1>4, <1>5, <1>8, <2>1, <2>2
<1>16. WithinQuota(n)'
  BY <1>13, <1>14, <1>15 DEF WithinQuota
<1>. QED BY <1>5, <1>7, <1>16 DEF QuotasInv

LEMMA QuotasInit == VerificationInit => QuotasInv
BY DEF VerificationInit, QuotasInv, Ids

LEMMA QuotasStep ==
  VerificationInv /\ QuotasInv /\ [VerificationNext]_verificationVars => QuotasInv'
<1>. SUFFICES ASSUME VerificationInv, QuotasInv, [VerificationNext]_verificationVars PROVE QuotasInv'
  OBVIOUS
<1>. /\ Len(challenge) \in Nat /\ CodesInv /\ RequestsInv /\ challenge \in Seq(Code)
  BY DEF VerificationInv, CodesInv, RowsTyped
<1>. \A q \in Requests : RequestOK(request[q], Len(challenge))
  BY DEF RequestsInv
<1>1. ASSUME challenge' = challenge PROVE QuotasInv'
  BY <1>1, QuotasStay DEF SameMail
<1>2. ASSUME NEW u \in Users, NEW a \in Addresses, SetCandidate(u, a) PROVE QuotasInv'
  <2>1. challenge' = Invalidated({k \in Ids : challenge[k].user = u})
    BY <1>2 DEF SetCandidate
  <2>2. Len(challenge') = Len(challenge) /\ \A k \in Ids : SameMail(challenge'[k], challenge[k])
    BY <2>1, Invalidating, InvalidSame
  <2>. QED BY <2>2, QuotasStay
<1>3. ASSUME NEW q \in Requests, ConfirmVerification(q) PROVE QuotasInv'
  <2>. DEFINE u == request[q].user
              a == request[q].address
              k == Latest(Confirmable(u, a))
  <2>1. u \in Users
    BY <1>3 DEF ConfirmVerification, Waiting, RequestOK
  <2>2. ConfirmFinds(q) => k \in Ids /\ challenge[k] \in Code
    <3>1. ConfirmFinds(q) => k \in Confirmable(u, a)
      BY <2>1, TheCode DEF ConfirmFinds
    <3>2. Confirmable(u, a) \subseteq Ids
      BY DEF Confirmable
    <3>. HIDE DEF k
    <3>. QED BY <3>1, <3>2 DEF Ids
  <2>3. CASE ConfirmAccepts(q)
    <3>. DEFINE c == [challenge[k] EXCEPT !.consumed = TRUE]
    <3>1. challenge' = [challenge EXCEPT ![k] = c] /\ k \in Ids /\ challenge[k] \in Code
      BY <2>2, <2>3 DEF ConfirmAccepts
    <3>. HIDE DEF k
    <3>2. SameMail(c, challenge[k])
      BY <3>1 DEF SameMail, Code
    <3>. HIDE DEF c
    <3>. QED BY <3>1, <3>2, QuotasOfOne
  <2>4. CASE ConfirmCounts(q)
    <3>. DEFINE c == [challenge[k] EXCEPT !.attempts = challenge[k].attempts + 1]
    <3>1. challenge' = [challenge EXCEPT ![k] = c] /\ k \in Ids /\ challenge[k] \in Code
      BY <2>2, <2>4 DEF ConfirmCounts
    <3>. HIDE DEF k
    <3>2. SameMail(c, challenge[k])
      BY <3>1 DEF SameMail, Code
    <3>. HIDE DEF c
    <3>. QED BY <3>1, <3>2, QuotasOfOne
  <2>5. CASE UNCHANGED <<setting, challenge, guesses>>
    BY <1>1, <2>5
  <2>. QED BY <1>3, <2>3, <2>4, <2>5 DEF ConfirmVerification
<1>4. ASSUME NEW q \in Requests, NEW answer \in Answers, FinishVerificationSend(q, answer) PROVE QuotasInv'
  <2>. DEFINE k == request[q].code
              c == [challenge[k] EXCEPT !.status = Stored(answer)]
  <2>1. k \in Ids /\ challenge[k] \in Code
    BY <1>4 DEF FinishVerificationSend, Waiting, RequestOK, Ids
  <2>2. challenge' = challenge \/ challenge' = [challenge EXCEPT ![k] = c]
    BY <1>4 DEF FinishVerificationSend
  <2>. HIDE DEF k
  <2>3. SameMail(c, challenge[k])
    BY <2>1 DEF SameMail, Code
  <2>. HIDE DEF c
  <2>. QED BY <1>1, <2>1, <2>2, <2>3, QuotasOfOne
<1>5. ASSUME NEW q \in Requests,
             \/ RefuseChallenge(q) \/ PauseDestination(q) \/ ReserveTestSend(q) \/ RefuseTest(q)
             \/ SweepReserves(q) \/ SweepSends(q) \/ SweepReleases(q)
             \/ \E u \in Users : \/ ReserveVerification(q, u) \/ ReserveForTest(q, u)
                                 \/ \E code \in {0} \cup Ids : ReadsToConfirm(q, u, code)
             \/ \E answer \in Answers : FinishTest(q, answer)
      PROVE  QuotasInv'
  <2>1. challenge' = challenge
    BY <1>5 DEF RefuseChallenge, PauseDestination, ReserveTestSend, RefuseTest, SweepReserves, SweepSends,
       SweepReleases, ReserveVerification, ReserveForTest, ReadsToConfirm, FinishTest, Reserve
  <2>. QED BY <1>1, <2>1
<1>6. CASE (\E u \in Users : DeliveryPauses(u)) \/ MailTick \/ MailRestart \/ UNCHANGED verificationVars
  <2>1. challenge' = challenge
    BY <1>6 DEF DeliveryPauses, MailTick, MailRestart, verificationVars
  <2>. QED BY <1>1, <2>1
<1>. QED BY <1>2, <1>3, <1>4, <1>5, <1>6, QuotasCreate DEF VerificationNext

----------------------------------------------------------------------------
\* The limiter, the leases and the provider calls agree in every state
\* (email_admission.py): the inductive invariant of the sends.
THEOREM SendsHold == VerificationSpec => [](VerificationInv /\ SendsInv /\ LimitsInv /\ QuotasInv)
<1>1. VerificationInit => VerificationInv /\ SendsInv /\ LimitsInv /\ QuotasInv
  BY VerificationInitOK, SendsInit, LimitsInit, QuotasInit
<1>2. VerificationInv /\ SendsInv /\ LimitsInv /\ QuotasInv /\ [VerificationNext]_verificationVars
        => (VerificationInv /\ SendsInv /\ LimitsInv /\ QuotasInv)'
  BY VerificationStep, SendsStep, LimitsStep, QuotasStep
<1>. QED BY <1>1, <1>2, PTL DEF VerificationSpec

\* Every window that is not over counts exactly the calls made on its leases and the
\* leases that are still held.
THEOREM CallsAreCounted == VerificationSpec => []SendsAreCounted
<1>1. SendsInv => SendsAreCounted
  <2>. SUFFICES ASSUME SendsInv PROVE SendsAreCounted
    OBVIOUS
  <2>1. /\ mailNow \in 0..MailTime /\ LimiterOK(admission, mailNow) /\ mailNow \in Nat
        /\ AllBalanced(admission, used, HeldOf, HeldTo, mailNow)
    BY LimitsTyped DEF SendsInv
  <2>2. ASSUME admission.global # NoWindow, mailNow - admission.global.started < GlobalWindow
        PROVE  admission.global.count = used.global[admission.global.started]
                 + Cardinality(Holding(admission.global.started, NoAddress, Never))
    <3>. DEFINE t == admission.global.started
    <3>1. t \in 0..MailTime
      <4>1. admission.global \in [started : 0..mailNow, count : 0..GlobalLimit]
        BY <2>1, <2>2 DEF LimiterOK, WindowsTo
      <4>2. t \in 0..mailNow
        BY <4>1
      <4>. HIDE DEF t
      <4>. QED BY <2>1, <4>2, LimitsTyped
    <3>2. used.global[t] + HeldOf[t] = Place(admission.global, t)
      BY <2>1, <2>2, <3>1 DEF AllBalanced, Balanced
    <3>. QED BY <3>1, <3>2 DEF Place, HeldOf
  <2>3. ASSUME NEW a \in DOMAIN admission.recipients,
               mailNow - admission.recipients[a].started < RecipientWindow
        PROVE  admission.recipients[a].count = used.recipients[a][admission.recipients[a].started]
                 + Cardinality(Holding(Never, a, admission.recipients[a].started))
    <3>. DEFINE t == admission.recipients[a].started
    <3>1. t \in 0..MailTime /\ a \in Addresses /\ Of(admission.recipients, a) = admission.recipients[a]
      <4>1. admission.recipients[a] \in [started : 0..mailNow, count : 1..RecipientLimit]
        BY <2>1, <2>3 DEF LimiterOK
      <4>2. t \in 0..mailNow
        BY <4>1
      <4>3. a \in Addresses
        BY <2>1, <2>3 DEF LimiterOK
      <4>4. Of(admission.recipients, a) = admission.recipients[a]
        BY <2>3 DEF Of
      <4>. HIDE DEF t
      <4>. QED BY <2>1, <4>2, <4>3, <4>4, LimitsTyped
    <3>2. used.recipients[a][t] + HeldTo[a][t] = Place(admission.recipients[a], t)
      BY <2>1, <2>3, <3>1 DEF AllBalanced, Balanced
    <3>. QED BY <3>1, <3>2 DEF Place, HeldTo
  <2>. QED BY <2>2, <2>3 DEF SendsAreCounted
<1>. QED BY <1>1, SendsHold, PTL

\* The four invariants say it of every value.
LEMMA TypesFollow == VerificationInv /\ SendsInv /\ LimitsInv /\ QuotasInv => VerificationTypeOK
<1>. SUFFICES ASSUME VerificationInv, SendsInv, LimitsInv, QuotasInv PROVE VerificationTypeOK
  OBVIOUS
<1>1. /\ CodesInv /\ setting \in [Users -> Setting] /\ challenge \in Seq(Code) /\ guesses \in Seq(Nat)
      /\ Len(guesses) = Len(challenge) /\ mailNow \in 0..MailTime /\ LimiterOK(admission, mailNow)
  BY DEF VerificationInv, CodesInv, RowsTyped, SendsInv
<1>2. ASSUME NEW u \in Users
      PROVE  /\ setting[u].address \in Addresses \cup {NoAddress}
             /\ setting[u].verified \in BOOLEAN /\ setting[u].paused \in BOOLEAN
             /\ {setting[u].tested, setting[u].testWindow} \subseteq {Never} \cup 0..mailNow
             /\ setting[u].tests \in 0..TestLimit
  <2>1. setting[u] \in Setting /\ TestsOK(setting[u], mailNow)
    BY <1>1 DEF LimitsInv
  <2>. QED BY <2>1 DEF Setting, TestsOK
<1>3. ASSUME NEW k \in Ids
      PROVE  /\ challenge[k].user \in Users /\ challenge[k].address \in Addresses
             /\ challenge[k].status \in {"pending", "accepted", "failed", "unknown"}
             /\ challenge[k].attempts \in 0..Tries
             /\ guesses[k] \in 0..Tries
             /\ ~(challenge[k].consumed /\ challenge[k].invalid)
             /\ \A i \in Ids \ {k} : Open(i) /\ Open(k) /\ challenge[i].user = challenge[k].user
                                       => challenge[i].address # challenge[k].address
  <2>1. challenge[k] \in Code /\ Counted(k) /\ EndsOnce(challenge[k]) /\ guesses[k] \in Nat
    BY <1>1 DEF CodesInv, Ids, LimitsInv
  <2>2. Tries \in Nat
    BY VerificationAssumption DEF VerificationAssumption
  <2>3. challenge[k].attempts \in 0..Tries /\ guesses[k] \in 0..Tries
    BY <2>1, <2>2 DEF Counted
  <2>4. \A i \in Ids \ {k} : Open(i) /\ Open(k) /\ challenge[i].user = challenge[k].user
                               => challenge[i].address # challenge[k].address
    BY <1>1 DEF CodesInv, OneOpen
  <2>. QED BY <2>1, <2>3, <2>4 DEF Code, EndsOnce
<1>4. /\ admission.global \in Window /\ admission.global.count <= GlobalLimit
      /\ Cardinality(DOMAIN admission.recipients) <= MaxRecipients
      /\ \A a \in DOMAIN admission.recipients :
           admission.recipients[a].count \in 1..RecipientLimit
  BY <1>1, LimitsTyped DEF LimiterOK, WindowsTo, Window, NoWindow
<1>. QED BY <1>1, <1>2, <1>3, <1>4 DEF VerificationTypeOK, QuotasInv

\* Every value has its type and keeps its limit: the windows, the table of addresses,
\* the test mails, the guesses, one open code for an address, and the quotas of an hour.
THEOREM VerificationTyped == VerificationSpec => []VerificationTypeOK
<1>. QED BY TypesFollow, SendsHold, PTL
=============================================================================
