--------------------------- MODULE PairingProofs ---------------------------
(***************************************************************************)
(* Safety of Pairing for every number of users, requests in flight and     *)
(* sessions.  The inductive invariant IInv adds to the properties what the *)
(* local variables of suspended requests must satisfy: those are what a    *)
(* stale write puts into the rows.                                         *)
(***************************************************************************)
EXTENDS Pairing, TLAPS

\* PCs of the requests that belong to a pairing session, and those that have
\* already picked their session.
Pairings == {"tHold", "tFind", "tCreate", "tAtDongle", "tReply",
             "sExpire", "sHold", "sAtDongle", "sReply", "sToken"}
Submits == {"sHold", "sAtDongle", "sReply"}

Proved(confs) == confs \cup Reporters \cup {None}

\* A row is safe to write to the database.
SafeRow(row, confs) == RowCoherent(row) /\ row.owner \in Proved(confs)

\* What a suspended request remembers.
SafeRequest(q, confs, heard) ==
    /\ q.pc \in Pairings => q.user \in Users
    /\ q.pc = "sReply" /\ q.ans = "ok" => q.user \in confs
    /\ q.pc = "sToken" => q.user \in confs
    /\ q.pc = "rUpsert" => SafeRow(q.seen, confs)
    /\ q.pc \in Submits => q.sess \in Sessions /\ q.attempts <= heard[q.sess]
    /\ q.pc = "sReply" /\ q.ans = "invalid_pin" => q.attempts + 1 <= heard[q.sess]

SafeSession(row, heard) ==
    row.status = "ACTIVE" => row.attempts <= heard /\ row.attempts < MaxPinAttempts

IInv ==
    /\ TypeOK
    /\ SafeRow(dongle, confirmed)
    /\ token \in confirmed \cup {None}
    /\ \A r \in Reqs : SafeRequest(req[r], confirmed, wrong)
    /\ \A s \in Sessions : SafeSession(session[s], wrong[s])

\* The invariant says what the properties of Pairing say.
LEMMA IInvImplies ==
    IInv => TypeOK /\ OwnershipCoherent /\ OwnershipProved /\ AttemptsSound
BY DEF IInv, SafeRow, Proved, SafeSession, OwnershipCoherent, OwnershipProved, AttemptsSound

\* No request is in flight and no session exists at the start.
LEMMA InitIInv == Init => IInv
BY PairingAssumption DEF Init, IInv, TypeOK, SafeRow, Proved, SafeRequest, SafeSession, RowCoherent,
   Unclaimed, NoSession, Idle, DongleRow, SessionRow, Request, OwnershipStates,
   SessionStatus, PCs, Answers, UserOrNone, Pairings, Submits

\* A request that ends leaves nothing behind that IInv speaks of.
LEMMA IdleSafe ==
    ASSUME NEW confs, NEW heard
    PROVE  Idle \in Request /\ SafeRequest(Idle, confs, heard)
BY DEF Idle, Request, SafeRequest, PCs, Answers, UserOrNone, Unclaimed, DongleRow,
   OwnershipStates, Pairings, Submits

\* The one argument every step of a request makes: it replaces its own record
\* by a safe one, leaves the rows safe, and the histories only grow.
LEMMA Preserved ==
    ASSUME IInv,
           NEW r \in Reqs, NEW q \in Request,
           req' = [req EXCEPT ![r] = q],
           SafeRequest(q, confirmed', wrong'),
           dongle' \in DongleRow, SafeRow(dongle', confirmed'),
           token' \in confirmed' \cup {None},
           grouped' \in UserOrNone,
           session' \in [Sessions -> SessionRow],
           \A s \in Sessions : SafeSession(session'[s], wrong'[s]),
           confirmed \subseteq confirmed', confirmed' \subseteq Users,
           wrong' \in [Sessions -> Nat],
           \A s \in Sessions : wrong[s] <= wrong'[s],
           uncounted' \subseteq Sessions, overtaken' \subseteq Reqs
    PROVE  IInv'
<1>1. TypeOK'
  BY DEF IInv, TypeOK, UserOrNone
<1>2. ASSUME NEW p \in Reqs
      PROVE  SafeRequest(req'[p], confirmed', wrong')
  <2>1. CASE p = r
    BY <2>1 DEF IInv, TypeOK
  <2>2. CASE p # r
    <3>1. req'[p] = req[p] /\ req[p] \in Request /\ SafeRequest(req[p], confirmed, wrong)
      BY <2>2 DEF IInv, TypeOK
    <3>2. req[p].pc \in Submits => /\ req[p].sess \in Sessions
                                  /\ req[p].attempts <= wrong'[req[p].sess]
      <4>1. \A s \in Sessions : wrong[s] \in Nat /\ wrong'[s] \in Nat
        BY DEF IInv, TypeOK
      <4>2. req[p].attempts \in Nat
        BY <3>1 DEF Request
      <4> QED
        BY <3>1, <4>1, <4>2 DEF SafeRequest
    <3>4. req[p].pc = "sReply" /\ req[p].ans = "invalid_pin" =>
             req[p].attempts + 1 <= wrong'[req[p].sess]
      <4>1. \A s \in Sessions : /\ wrong[s] \in Nat /\ wrong'[s] \in Nat
                                /\ wrong[s] <= wrong'[s]
        BY DEF IInv, TypeOK
      <4>2. req[p].attempts \in Nat
        BY <3>1 DEF Request
      <4>3. req[p].pc = "sReply" => req[p].sess \in Sessions
        BY <3>1 DEF SafeRequest, Submits
      <4> QED
        BY <3>1, <4>1, <4>2, <4>3 DEF SafeRequest
    <3>3. req[p].pc = "rUpsert" => SafeRow(req[p].seen, confirmed')
      BY <3>1 DEF SafeRequest, SafeRow, Proved
    <3> QED
      BY <3>1, <3>2, <3>3, <3>4 DEF SafeRequest
  <2> QED
    BY <2>1, <2>2
<1> QED
  BY <1>1, <1>2 DEF IInv

\* The special case of a request that touches nothing but its own record.
LEMMA OnlyMoves ==
    ASSUME IInv,
           NEW r \in Reqs, NEW q \in Request,
           req' = [req EXCEPT ![r] = q],
           SafeRequest(q, confirmed, wrong),
           UNCHANGED <<rows, confirmed, wrong>>,
           uncounted' \subseteq Sessions, overtaken' \subseteq Reqs
    PROVE  IInv'
<1>1. /\ dongle' \in DongleRow /\ SafeRow(dongle', confirmed')
      /\ token' \in confirmed' \cup {None} /\ grouped' \in UserOrNone
      /\ session' \in [Sessions -> SessionRow]
      /\ \A s \in Sessions : SafeSession(session'[s], wrong'[s])
      /\ confirmed \subseteq confirmed' /\ confirmed' \subseteq Users
  BY DEF IInv, TypeOK, rows
<1>2. wrong' \in [Sessions -> Nat] /\ \A s \in Sessions : wrong[s] <= wrong'[s]
  BY DEF IInv, TypeOK
<1>3. SafeRequest(q, confirmed', wrong')
  OBVIOUS
<1> QED
  BY <1>1, <1>2, <1>3, Preserved

\* What IInv says of one request.
LEMMA OfRequest ==
    ASSUME IInv, NEW r \in Reqs
    PROVE  req[r] \in Request /\ SafeRequest(req[r], confirmed, wrong)
BY DEF IInv, TypeOK

\* enterSecurityHold ends a request and keeps the invariant: a dongle on hold
\* may have an owner or not, and the session is no longer ACTIVE.
LEMMA HoldKeepsIInv ==
    ASSUME IInv, NEW r \in Reqs, NEW s \in Sessions \cup {0},
           EnterSecurityHold(s), Finish(r),
           UNCHANGED <<token, grouped, confirmed>>,
           wrong' \in [Sessions -> Nat], \A t \in Sessions : wrong[t] <= wrong'[t],
           uncounted' \subseteq Sessions, overtaken' \subseteq Reqs
    PROVE  IInv'
<1>1. dongle' \in DongleRow /\ SafeRow(dongle', confirmed)
  BY DEF EnterSecurityHold, IInv, TypeOK, DongleRow, OwnershipStates, SafeRow, RowCoherent
<1>2. session' \in [Sessions -> SessionRow]
  BY ZenonT(30) DEF EnterSecurityHold, IInv, TypeOK, SessionRow, SessionStatus
<1>3. ASSUME NEW t \in Sessions PROVE SafeSession(session'[t], wrong'[t])
  <2>1. /\ session[t] \in SessionRow /\ wrong[t] \in Nat /\ wrong'[t] \in Nat
        /\ SafeSession(session[t], wrong[t])
    BY DEF IInv, TypeOK
  <2>2. CASE t = s
    BY <2>2, <2>1 DEF EnterSecurityHold, IInv, TypeOK, SafeSession, SessionRow
  <2>3. CASE t # s
    <3>1. session'[t] = session[t]
      BY <2>3 DEF EnterSecurityHold, IInv, TypeOK
    <3> QED
      BY <3>1, <2>1 DEF SafeSession, SessionRow
  <2> QED
    BY <2>2, <2>3
<1> QED
  BY <1>1, <1>2, <1>3, Preserved, IdleSafe DEF Finish, IInv, TypeOK

\* startPairingSession keeps the invariant.
LEMMA StartKeepsIInv ==
    ASSUME IInv, NEW r \in Reqs,
           uncounted' \subseteq Sessions, overtaken' \subseteq Reqs
    PROVE  /\ \A u \in Users : StartRead(r, u) => IInv'
           /\ StartHoldCheck(r) \/ StartFind(r) \/ StartCreate(r) => IInv'
           /\ StartAnswered(r) \/ StartReplyOk(r) \/ StartReplyCooldown(r) => IInv'
<1>0. req[r] \in Request /\ SafeRequest(req[r], confirmed, wrong)
  BY OfRequest
<1>1. ASSUME NEW u \in Users, StartRead(r, u) PROVE IInv'
  <2> DEFINE q == [Idle EXCEPT !.pc = "tHold", !.user = u]
  <2>1. q \in Request /\ SafeRequest(q, confirmed, wrong)
    BY IdleSafe DEF Idle, Request, SafeRequest, PCs, UserOrNone, Submits
  <2> QED
    BY <1>1, <2>1, OnlyMoves DEF history, StartRead
<1>2. ASSUME StartHoldCheck(r) PROVE IInv'
  <2> DEFINE q == [req[r] EXCEPT !.pc = "tFind"]
  <2>1. q \in Request /\ SafeRequest(q, confirmed, wrong)
    BY <1>0, <1>2 DEF history, StartHoldCheck, At, Request, SafeRequest, PCs, Pairings, Submits
  <2>2. req' = [req EXCEPT ![r] = q] \/ req' = [req EXCEPT ![r] = Idle]
    BY <1>2 DEF history, StartHoldCheck, Goto, Finish, IInv, TypeOK
  <2> QED
    BY <1>2, <2>1, <2>2, OnlyMoves, IdleSafe DEF history, StartHoldCheck
<1>3. ASSUME StartFind(r) PROVE IInv'
  <2>1. CASE Goto(r, "tCreate")
    <3> DEFINE q == [req[r] EXCEPT !.pc = "tCreate"]
    <3>1. q \in Request /\ SafeRequest(q, confirmed, wrong)
      BY <1>0, <1>3 DEF history, StartFind, At, Request, SafeRequest, PCs, Pairings, Submits
    <3>2. req' = [req EXCEPT ![r] = q]
      BY <2>1 DEF Goto, IInv, TypeOK
    <3> QED
      BY <1>3, <3>1, <3>2, OnlyMoves DEF history, StartFind
  <2>2. CASE Finish(r)
    BY <1>3, <2>2, OnlyMoves, IdleSafe DEF history, StartFind, Finish
  <2>3. ASSUME NEW s \in Sessions,
               req' = [req EXCEPT ![r] = [@ EXCEPT !.pc = "tAtDongle", !.sess = s]]
        PROVE  IInv'
    <3> DEFINE q == [req[r] EXCEPT !.pc = "tAtDongle", !.sess = s]
    <3>1. q \in Request /\ SafeRequest(q, confirmed, wrong)
      BY <1>0, <1>3 DEF history, StartFind, At, Request, SafeRequest, PCs, Pairings, Submits
    <3>2. req' = [req EXCEPT ![r] = q]
      BY <2>3 DEF IInv, TypeOK
    <3> QED
      BY <1>3, <3>1, <3>2, OnlyMoves DEF history, StartFind
  <2> QED
    BY <1>3, <2>1, <2>2, <2>3 DEF history, StartFind, LatestActiveSession, ActiveSessionsOf
<1>4. ASSUME StartCreate(r) PROVE IInv'
  <2>1. PICK s \in Sessions :
          /\ session' = [session EXCEPT ![s] = [NoSession EXCEPT !.status = "ACTIVE",
                                                                !.user = req[r].user,
                                                                !.running = TRUE]]
          /\ req' = [req EXCEPT ![r] = [@ EXCEPT !.pc = "tAtDongle", !.sess = s]]
    BY <1>4 DEF history, StartCreate
  <2> DEFINE q == [req[r] EXCEPT !.pc = "tAtDongle", !.sess = s]
  <2>2. q \in Request /\ SafeRequest(q, confirmed, wrong)
    BY <1>0, <1>4 DEF history, StartCreate, At, Request, SafeRequest, PCs, Pairings, Submits
  <2>3. req' = [req EXCEPT ![r] = q]
    BY <2>1 DEF IInv, TypeOK
  <2>4. session' \in [Sessions -> SessionRow]
    BY <1>0, <2>1 DEF IInv, TypeOK, NoSession, SessionRow, SessionStatus, Request
  <2>5. \A t \in Sessions : SafeSession(session'[t], wrong[t])
    BY <2>1, PairingAssumption DEF IInv, TypeOK, NoSession, SafeSession
  <2> QED
    BY <1>4, <2>2, <2>3, <2>4, <2>5, Preserved DEF history, StartCreate, IInv, TypeOK
<1>5. ASSUME StartAnswered(r) PROVE IInv'
  <2>1. PICK a \in Answers \ {"invalid_pin"} :
          req' = [req EXCEPT ![r] = [@ EXCEPT !.pc = "tReply", !.ans = a]]
    BY <1>5 DEF history, StartAnswered
  <2> DEFINE q == [req[r] EXCEPT !.pc = "tReply", !.ans = a]
  <2>2. q \in Request /\ SafeRequest(q, confirmed, wrong)
    BY <1>0, <1>5 DEF history, StartAnswered, At, Request, SafeRequest, PCs, Pairings, Submits
  <2>3. req' = [req EXCEPT ![r] = q]
    BY <2>1 DEF IInv, TypeOK
  <2> QED
    BY <1>5, <2>2, <2>3, OnlyMoves DEF history, StartAnswered
<1>6. ASSUME StartReplyOk(r) PROVE IInv'
  <2>1. session' \in [Sessions -> SessionRow]
    <3> DEFINE live == session[req[r].sess].status = "ACTIVE"
    <3>1. /\ session \in [Sessions -> SessionRow]
          /\ session' = [session EXCEPT ![req[r].sess] =
                         [@ EXCEPT !.nonce = live,
                                   !.running = session[req[r].sess].running \/ live]]
      BY <1>6 DEF StartReplyOk, IInv, TypeOK
    <3>2. live \in BOOLEAN
      OBVIOUS
    <3> HIDE DEF live
    <3>3. ASSUME NEW t \in Sessions
          PROVE  [session[t] EXCEPT !.nonce = live, !.running = @ \/ live] \in SessionRow
      <4>1. session[t] \in SessionRow
        BY <3>1
      <4>2. (session[t].running \/ live) \in BOOLEAN
        OBVIOUS
      <4> QED
        BY <3>2, <4>1, <4>2, Zenon DEF SessionRow
    <3>4. \A t \in Sessions : session'[t] \in SessionRow
      <4> TAKE t \in Sessions
      <4>1. CASE t = req[r].sess
        <5>1. session'[t] = [session[t] EXCEPT !.nonce = live, !.running = @ \/ live]
          BY <3>1, <4>1, Zenon
        <5> QED
          BY <3>3, <5>1
      <4>2. CASE t # req[r].sess
        BY <3>1, <4>2
      <4> QED
        BY <4>1, <4>2
    <3> QED
      BY <3>1, <3>4
  <2>2. \A t \in Sessions : SafeSession(session'[t], wrong[t])
    BY <1>6 DEF history, StartReplyOk, IInv, TypeOK, SafeSession, SessionRow
  <2> QED
    BY <1>6, <2>1, <2>2, Preserved, IdleSafe DEF history, StartReplyOk, Finish, IInv, TypeOK
<1>7. ASSUME StartReplyCooldown(r) PROVE IInv'
  <2>1. req[r].sess \in Sessions \cup {0}
    BY <1>0 DEF Request
  <2>2. /\ wrong' \in [Sessions -> Nat]
        /\ \A t \in Sessions : wrong[t] <= wrong'[t]
    BY <1>7 DEF history, StartReplyCooldown, IInv, TypeOK
  <2> QED
    BY <1>7, <2>1, <2>2, HoldKeepsIInv DEF history, StartReplyCooldown
<1> QED
  BY <1>1, <1>2, <1>3, <1>4, <1>5, <1>6, <1>7

\* A closing update (SUCCESS, FAILED or EXPIRED) leaves the sessions safe.
LEMMA ClosedSafe ==
    ASSUME IInv, NEW s \in Sessions \cup {0}, NEW tries \in Nat,
           NEW status \in SessionStatus \ {"ACTIVE"},
           session' = Closed(s, status, tries)
    PROVE  /\ session' \in [Sessions -> SessionRow]
           /\ \A t \in Sessions : SafeSession(session'[t], wrong[t])
<1>1. ASSUME NEW t \in Sessions
      PROVE  session'[t] \in SessionRow /\ SafeSession(session'[t], wrong[t])
  <2>1. session[t] \in SessionRow /\ SafeSession(session[t], wrong[t])
    BY DEF IInv, TypeOK
  <2>2. CASE t = s
    <3>1. session'[t] = [session[t] EXCEPT !.status = status, !.running = FALSE,
                                           !.nonce = FALSE, !.attempts = @ + tries]
      BY <2>2 DEF Closed, IInv, TypeOK
    <3>2. session[t].attempts + tries \in Nat
      BY <2>1 DEF SessionRow
    <3>3. session'[t].status = status /\ status # "ACTIVE"
      BY <2>1, <3>1 DEF SessionRow
    <3>4. session'[t] \in SessionRow
      BY <2>1, <3>1, <3>2 DEF SessionRow
    <3> QED
      BY <3>3, <3>4 DEF SafeSession
  <2>3. CASE t # s
    BY <2>1, <2>3 DEF Closed, IInv, TypeOK
  <2> QED
    BY <2>2, <2>3
<1> QED
  BY <1>1 DEF Closed, IInv, TypeOK

\* submitPairing keeps the invariant.
LEMMA SubmitKeepsIInv ==
    ASSUME IInv, NEW r \in Reqs,
           uncounted' \subseteq Sessions, overtaken' \subseteq Reqs
    PROVE  /\ \A u \in Users, s \in Sessions : SubmitRead(r, u, s) => IInv'
           /\ SubmitExpire(r) \/ SubmitHoldCheck(r) \/ SubmitAnswered(r) => IInv'
           /\ SubmitCooldown(r) \/ SubmitFailed(r) \/ SubmitInvalidPin(r) => IInv'
           /\ SubmitOk(r) \/ SubmitToken(r) => IInv'
<1>0. req[r] \in Request /\ SafeRequest(req[r], confirmed, wrong)
  BY OfRequest
<1>s. req[r].sess \in Sessions \cup {0}
  BY <1>0 DEF Request
<1>1. ASSUME NEW u \in Users, NEW s \in Sessions, SubmitRead(r, u, s) PROVE IInv'
  <2> DEFINE q == [Idle EXCEPT !.pc = IF session[s].running THEN "sHold" ELSE "sExpire",
                               !.user = u, !.sess = s, !.attempts = session[s].attempts]
  <2>1. session[s].attempts \in Nat /\ session[s].attempts <= wrong[s]
    BY <1>1 DEF SubmitRead, IInv, TypeOK, SessionRow, SafeSession
  <2>2. q \in Request /\ SafeRequest(q, confirmed, wrong)
    BY <2>1, IdleSafe DEF Idle, Request, SafeRequest, PCs, UserOrNone, Pairings
  <2> QED
    BY <1>1, <2>2, OnlyMoves DEF SubmitRead
<1>2. ASSUME SubmitExpire(r) PROVE IInv'
  <2>1. /\ session' \in [Sessions -> SessionRow]
        /\ \A t \in Sessions : SafeSession(session'[t], wrong[t])
    BY <1>2, <1>s, ClosedSafe DEF history, SubmitExpire, SessionStatus
  <2> QED
    BY <1>2, <2>1, Preserved, IdleSafe DEF history, SubmitExpire, Finish, IInv, TypeOK
<1>3. ASSUME SubmitHoldCheck(r) PROVE IInv'
  <2> DEFINE q == [req[r] EXCEPT !.pc = "sAtDongle"]
  <2>1. q \in Request /\ SafeRequest(q, confirmed, wrong)
    BY <1>0, <1>3 DEF history, SubmitHoldCheck, At, Request, SafeRequest, PCs, Pairings, Submits
  <2>2. req' = [req EXCEPT ![r] = q] \/ req' = [req EXCEPT ![r] = Idle]
    BY <1>3 DEF history, SubmitHoldCheck, Goto, Finish, IInv, TypeOK
  <2> QED
    BY <1>3, <2>1, <2>2, OnlyMoves, IdleSafe DEF history, SubmitHoldCheck
<1>4. ASSUME SubmitAnswered(r) PROVE IInv'
  <2>1. PICK a \in Answers :
          /\ req' = [req EXCEPT ![r] = [@ EXCEPT !.pc = "sReply", !.ans = a]]
          /\ confirmed' = IF a = "ok" THEN confirmed \cup {req[r].user} ELSE confirmed
          /\ wrong' = IF a = "invalid_pin" THEN [wrong EXCEPT ![req[r].sess] = @ + 1] ELSE wrong
    BY <1>4 DEF SubmitAnswered
  <2> DEFINE q == [req[r] EXCEPT !.pc = "sReply", !.ans = a]
  <2>2. /\ req[r].user \in Users /\ req[r].sess \in Sessions
        /\ req[r].attempts \in Nat /\ req[r].attempts <= wrong[req[r].sess]
    BY <1>0, <1>4 DEF SubmitAnswered, At, SafeRequest, Pairings, Submits, Request
  <2>3. /\ wrong \in [Sessions -> Nat] /\ wrong' \in [Sessions -> Nat]
        /\ \A t \in Sessions : wrong[t] \in Nat /\ wrong[t] <= wrong'[t]
        /\ a = "invalid_pin" => wrong'[req[r].sess] = wrong[req[r].sess] + 1
    BY <2>1, <2>2 DEF IInv, TypeOK
  <2>4. /\ q \in Request /\ q.pc = "sReply" /\ q.ans = a
        /\ q.user = req[r].user /\ q.sess = req[r].sess /\ q.attempts = req[r].attempts
    BY <1>0 DEF Request, PCs
  <2>5. SafeRequest(q, confirmed', wrong')
    <3>1. req[r].attempts <= wrong'[req[r].sess]
      BY <2>2, <2>3
    <3>2. a = "invalid_pin" => req[r].attempts + 1 <= wrong'[req[r].sess]
      BY <2>2, <2>3
    <3>3. a = "ok" => req[r].user \in confirmed'
      BY <2>1
    <3> HIDE DEF q
    <3> QED
      BY <2>2, <2>4, <3>1, <3>2, <3>3 DEF SafeRequest
  <2>6. req' = [req EXCEPT ![r] = q]
    BY <2>1 DEF IInv, TypeOK
  <2>7. confirmed \subseteq confirmed' /\ confirmed' \subseteq Users
    BY <2>1, <2>2 DEF IInv, TypeOK
  <2>8. SafeRow(dongle, confirmed') /\ token \in confirmed' \cup {None}
    BY <2>7 DEF IInv, SafeRow, Proved
  <2>9. \A t \in Sessions : SafeSession(session[t], wrong'[t])
    <3>1. ASSUME NEW t \in Sessions PROVE SafeSession(session[t], wrong'[t])
      <4>1. session[t] \in SessionRow /\ SafeSession(session[t], wrong[t])
        BY DEF IInv, TypeOK
      <4>2. session[t].attempts \in Nat
        BY <4>1 DEF SessionRow
      <4> QED
        BY <2>3, <4>1, <4>2 DEF SafeSession
    <3> QED
      BY <3>1
  <2>10. UNCHANGED <<dongle, session, token, grouped>>
    BY <1>4 DEF SubmitAnswered, rows
  <2>11. /\ dongle' \in DongleRow /\ SafeRow(dongle', confirmed')
         /\ token' \in confirmed' \cup {None} /\ grouped' \in UserOrNone
         /\ session' \in [Sessions -> SessionRow]
         /\ \A t \in Sessions : SafeSession(session'[t], wrong'[t])
    BY <2>8, <2>9, <2>10 DEF IInv, TypeOK
  <2> HIDE DEF q
  <2> QED
    BY <2>3, <2>4, <2>5, <2>6, <2>7, <2>11, Preserved
<1>5. ASSUME SubmitCooldown(r) PROVE IInv'
  BY <1>5, <1>s, HoldKeepsIInv DEF history, SubmitCooldown, IInv, TypeOK
<1>6. ASSUME SubmitFailed(r) PROVE IInv'
  <2>1. /\ session' \in [Sessions -> SessionRow]
        /\ \A t \in Sessions : SafeSession(session'[t], wrong[t])
    BY <1>6, <1>s, ClosedSafe DEF history, SubmitFailed, SessionStatus
  <2> QED
    BY <1>6, <2>1, Preserved, IdleSafe DEF history, SubmitFailed, Finish, IInv, TypeOK
<1>7. ASSUME SubmitInvalidPin(r) PROVE IInv'
  <2>0. /\ req[r].sess \in Sessions /\ req[r].attempts \in Nat
        /\ req[r].attempts + 1 <= wrong[req[r].sess]
    BY <1>0, <1>7 DEF history, SubmitInvalidPin, At, SafeRequest, Submits, Request
  <2>1. /\ wrong' \in [Sessions -> Nat]
        /\ \A t \in Sessions : wrong[t] \in Nat /\ wrong[t] <= wrong'[t]
        /\ wrong' = wrong
    BY <1>7, <2>0 DEF history, SubmitInvalidPin, IInv, TypeOK
  <2>2. CASE req[r].attempts + 1 >= MaxPinAttempts /\ EnterSecurityHold(req[r].sess)
    BY <1>7, <1>s, <2>1, <2>2, HoldKeepsIInv DEF history, SubmitInvalidPin
  <2>3. CASE /\ req[r].attempts + 1 < MaxPinAttempts
             /\ session' = [session EXCEPT ![req[r].sess].attempts = req[r].attempts + 1]
             /\ UNCHANGED dongle
    <3>1. session' \in [Sessions -> SessionRow]
      BY <2>0, <2>3 DEF IInv, TypeOK, SessionRow
    <3>2. ASSUME NEW t \in Sessions PROVE SafeSession(session'[t], wrong'[t])
      <4>1. /\ session[t] \in SessionRow /\ wrong[t] \in Nat /\ wrong'[t] \in Nat
            /\ SafeSession(session[t], wrong[t]) /\ wrong[t] <= wrong'[t]
        BY <2>1 DEF IInv, TypeOK
      <4>2. CASE t = req[r].sess
        <5>1. session'[t].attempts = req[r].attempts + 1
          BY <2>3, <4>2 DEF IInv, TypeOK, SessionRow
        <5> QED
          BY <5>1, <2>0, <2>1, <2>3, <4>1, <4>2 DEF SafeSession
      <4>3. CASE t # req[r].sess
        <5>1. session'[t] = session[t]
          BY <2>3, <4>3 DEF IInv, TypeOK
        <5> QED
          BY <5>1, <4>1 DEF SafeSession, SessionRow
      <4> QED
        BY <4>2, <4>3
    <3> QED
      BY <1>7, <2>1, <2>3, <3>1, <3>2, Preserved, IdleSafe
      DEF history, SubmitInvalidPin, Finish, IInv, TypeOK
  <2> QED
    BY <1>7, <2>2, <2>3 DEF history, SubmitInvalidPin
<1>8. ASSUME SubmitOk(r) PROVE IInv'
  <2>1. req[r].user \in confirmed
    BY <1>0, <1>8 DEF history, SubmitOk, At, SafeRequest
  <2>2. /\ session' \in [Sessions -> SessionRow]
        /\ \A t \in Sessions : SafeSession(session'[t], wrong[t])
    BY <1>8, <1>s, ClosedSafe DEF history, SubmitOk, SessionStatus
  <2>3. dongle' \in DongleRow /\ SafeRow(dongle', confirmed)
    BY <1>8, <2>1, PairingAssumption
       DEF history, SubmitOk, IInv, TypeOK, DongleRow, UserOrNone, OwnershipStates,
       SafeRow, RowCoherent, Proved
  <2> DEFINE q == [req[r] EXCEPT !.pc = "sToken"]
  <2>4. q \in Request /\ SafeRequest(q, confirmed, wrong)
    BY <1>0, <1>8, <2>1 DEF history, SubmitOk, At, Request, SafeRequest, PCs, Pairings, Submits
  <2>5. req' = [req EXCEPT ![r] = q]
    BY <1>8 DEF history, SubmitOk, Goto, IInv, TypeOK
  <2> QED
    BY <1>8, <2>2, <2>3, <2>4, <2>5, Preserved DEF history, SubmitOk, IInv, TypeOK
<1>9. ASSUME SubmitToken(r) PROVE IInv'
  <2>1. token' \in confirmed
    BY <1>0, <1>9 DEF history, SubmitToken, At, SafeRequest
  <2>2. /\ dongle' \in DongleRow /\ SafeRow(dongle', confirmed')
        /\ token' \in confirmed' \cup {None} /\ grouped' \in UserOrNone
        /\ session' \in [Sessions -> SessionRow]
        /\ \A t \in Sessions : SafeSession(session'[t], wrong'[t])
        /\ confirmed \subseteq confirmed' /\ confirmed' \subseteq Users
        /\ wrong' \in [Sessions -> Nat] /\ \A t \in Sessions : wrong[t] <= wrong'[t]
    BY <1>9, <2>1 DEF history, SubmitToken, IInv, TypeOK
  <2> QED
    BY <1>9, <2>1, <2>2, Preserved, IdleSafe DEF history, SubmitToken, Finish
<1> QED
  BY <1>1, <1>2, <1>3, <1>4, <1>5, <1>6, <1>7, <1>8, <1>9

\* unpairDongle, reportDevices, createGroup and a request that throws keep it.
LEMMA OthersKeepIInv ==
    ASSUME IInv, NEW r \in Reqs,
           uncounted' \subseteq Sessions, overtaken' \subseteq Reqs
    PROVE  /\ \A u \in Users : UnpairRead(r, u) \/ ForceUnpairRead(r, u) => IInv'
           /\ UnpairCommit(r) \/ ReportRead(r) \/ ReportUpsert(r) => IInv'
           /\ \A u \in Users : GroupCheck(r, u) => IInv'
           /\ GroupFree(r) \/ GroupCreate(r) \/ Abandon(r) => IInv'
<1>0. req[r] \in Request /\ SafeRequest(req[r], confirmed, wrong)
  BY OfRequest
<1>1. ASSUME NEW u \in Users, NEW pc \in {"uTx", "fTx", "gFree"},
             req' = [req EXCEPT ![r] = [Idle EXCEPT !.pc = pc, !.user = u]],
             UNCHANGED <<rows, confirmed, wrong>>
      PROVE  IInv'
  <2> DEFINE q == [Idle EXCEPT !.pc = pc, !.user = u]
  <2>1. q \in Request /\ SafeRequest(q, confirmed, wrong)
    BY IdleSafe DEF Idle, Request, SafeRequest, PCs, UserOrNone, Pairings, Submits
  <2> QED
    BY <1>1, <2>1, OnlyMoves
<1>2. ASSUME UnpairCommit(r) PROVE IInv'
  <2>1. dongle' \in DongleRow /\ SafeRow(dongle', confirmed)
    BY <1>2 DEF history, UnpairCommit, Unclaimed, DongleRow, OwnershipStates, UserOrNone, SafeRow,
       RowCoherent, Proved
  <2>2. session' \in [Sessions -> SessionRow]
    BY <1>2 DEF history, UnpairCommit, IInv, TypeOK, SessionRow, SessionStatus
  <2>3. \A t \in Sessions : SafeSession(session'[t], wrong[t])
    BY <1>2 DEF history, UnpairCommit, IInv, TypeOK, SafeSession, SessionRow
  <2> QED
    BY <1>2, <2>1, <2>2, <2>3, Preserved, IdleSafe
    DEF history, UnpairCommit, Finish, IInv, TypeOK, UserOrNone
<1>3. ASSUME ReportRead(r) PROVE IInv'
  <2>1. PICK row \in {dongle} \cup {[owner |-> u, state |-> "CLAIMED_ACTIVE"] : u \in Reporters} :
          req' = [req EXCEPT ![r] = [Idle EXCEPT !.pc = "rUpsert", !.seen = row]]
    BY <1>3 DEF history, ReportRead
  <2>2. row \in DongleRow /\ SafeRow(row, confirmed)
    <3>1. CASE row = dongle
      BY <3>1 DEF IInv, TypeOK
    <3>2. CASE row \in {[owner |-> u, state |-> "CLAIMED_ACTIVE"] : u \in Reporters}
      BY <3>2, PairingAssumption
      DEF DongleRow, UserOrNone, OwnershipStates, SafeRow, RowCoherent, Proved
    <3> QED
      BY <3>1, <3>2
  <2> DEFINE q == [Idle EXCEPT !.pc = "rUpsert", !.seen = row]
  <2>3. q \in Request /\ SafeRequest(q, confirmed, wrong)
    BY <2>2, IdleSafe DEF Idle, Request, SafeRequest, PCs, Pairings, Submits
  <2> QED
    BY <1>3, <2>1, <2>3, OnlyMoves DEF history, ReportRead
<1>4. ASSUME ReportUpsert(r) PROVE IInv'
  <2>1. dongle' \in DongleRow /\ SafeRow(dongle', confirmed)
    BY <1>0, <1>4 DEF history, ReportUpsert, At, Request, SafeRequest
  <2> QED
    BY <1>4, <2>1, Preserved, IdleSafe DEF history, ReportUpsert, Finish, IInv, TypeOK
<1>5. ASSUME GroupFree(r) PROVE IInv'
  <2> DEFINE q == [req[r] EXCEPT !.pc = "gCreate"]
  <2>1. q \in Request /\ SafeRequest(q, confirmed, wrong)
    BY <1>0, <1>5 DEF history, GroupFree, At, Request, SafeRequest, PCs, Pairings, Submits
  <2>2. req' = [req EXCEPT ![r] = q] \/ req' = [req EXCEPT ![r] = Idle]
    BY <1>5 DEF history, GroupFree, Goto, Finish, IInv, TypeOK
  <2> QED
    BY <1>5, <2>1, <2>2, OnlyMoves, IdleSafe DEF history, GroupFree
<1>6. ASSUME GroupCreate(r) PROVE IInv'
  <2>1. grouped' \in UserOrNone
    BY <1>0, <1>6 DEF history, GroupCreate, Request
  <2> QED
    BY <1>6, <2>1, Preserved, IdleSafe DEF history, GroupCreate, Finish, IInv, TypeOK
<1>7. ASSUME Abandon(r) PROVE IInv'
  BY <1>7, OnlyMoves, IdleSafe DEF Abandon, Finish
<1> QED
  BY <1>1, <1>2, <1>3, <1>4, <1>5, <1>6, <1>7
  DEF history, UnpairRead, ForceUnpairRead, GroupCheck

\* The passing of time and a restart of the API keep it.
LEMMA EnvironmentKeepsIInv ==
    ASSUME IInv, uncounted' \subseteq Sessions, overtaken' \subseteq Reqs
    PROVE  /\ \A s \in Sessions : Expire(s) \/ HoldLapse(s) => IInv'
           /\ Restart => IInv'
<1>1. ASSUME NEW s \in Sessions, Expire(s) \/ HoldLapse(s) PROVE IInv'
  <2>1. /\ \/ session' = [session EXCEPT ![s] = [@ EXCEPT !.running = FALSE, !.nonce = FALSE]]
           \/ session' = [session EXCEPT ![s].running = FALSE]
        /\ UNCHANGED <<dongle, token, grouped, req, confirmed, wrong>>
    BY <1>1 DEF history, Expire, HoldLapse
  <2>2. ASSUME NEW t \in Sessions
        PROVE  /\ session'[t] \in SessionRow
               /\ SafeSession(session'[t], wrong[t])
    <3>1. session[t] \in SessionRow /\ SafeSession(session[t], wrong[t])
      BY DEF IInv, TypeOK
    <3>2. \/ session'[t] = session[t]
          \/ session'[t] = [session[t] EXCEPT !.running = FALSE, !.nonce = FALSE]
          \/ session'[t] = [session[t] EXCEPT !.running = FALSE]
      BY <2>1 DEF IInv, TypeOK
    <3>3. /\ session'[t] \in SessionRow
          /\ session'[t].status = session[t].status
          /\ session'[t].attempts = session[t].attempts
      BY <3>1, <3>2 DEF SessionRow
    <3> QED
      BY <3>1, <3>3 DEF SafeSession
  <2>3. session' \in [Sessions -> SessionRow]
    BY <2>1, <2>2 DEF IInv, TypeOK
  <2> QED
    BY <2>1, <2>2, <2>3 DEF IInv, TypeOK
<1>2. ASSUME Restart PROVE IInv'
  <2>1. req' \in [Reqs -> Request] /\ \A r \in Reqs : SafeRequest(req'[r], confirmed, wrong)
    BY <1>2, IdleSafe DEF Restart
  <2> QED
    BY <1>2, <2>1 DEF Restart, rows, IInv, TypeOK
<1> QED
  BY <1>1, <1>2

\* The histories keep their types.
LEMMA HistoriesTyped ==
    ASSUME IInv, [Next]_vars
    PROVE  uncounted' \subseteq Sessions /\ overtaken' \subseteq Reqs
<1>0. uncounted \subseteq Sessions /\ overtaken \subseteq Reqs /\ req \in [Reqs -> Request]
  BY DEF IInv, TypeOK
<1>1. ASSUME NEW ended \in SUBSET Reqs PROVE Unrecorded(ended) \subseteq Sessions
  BY OfRequest DEF Unrecorded, SafeRequest, Submits, At
<1>2. ASSUME NEW r \in Reqs, NewRequest(r) PROVE uncounted' \subseteq Sessions
  BY <1>0, <1>2 DEF NewRequest, ReportRead, StartRead, SubmitRead, UnpairRead,
     ForceUnpairRead, GroupCheck, history
<1>3. ASSUME NEW r \in Reqs, RequestStep(r) PROVE uncounted' \subseteq Sessions
  <2>1. CASE Abandon(r)
    <3>1. Unrecorded({r}) \subseteq Sessions
      BY <1>1
    <3> QED
      BY <1>0, <2>1, <3>1 DEF Abandon
  <2>2. CASE UNCHANGED uncounted
    BY <1>0, <2>2
  <2> QED
    BY <1>3, <2>1, <2>2 DEF RequestStep, history, StartHoldCheck, StartFind, StartCreate,
       StartAnswered, StartReplyOk, StartReplyCooldown, SubmitExpire, SubmitHoldCheck,
       SubmitAnswered, SubmitCooldown, SubmitFailed, SubmitInvalidPin, SubmitOk,
       SubmitToken, UnpairCommit, ReportUpsert, GroupFree, GroupCreate
<1>4. CASE Restart
  <2>1. Unrecorded(Reqs) \subseteq Sessions
    BY <1>1
  <2> QED
    BY <1>0, <1>4, <2>1, Zenon DEF Restart
<1>5. ASSUME NEW r \in Reqs, Overtake(r) PROVE overtaken' \subseteq Reqs
  BY <1>5 DEF Overtake
<1>6. CASE UNCHANGED vars
  BY <1>0, <1>6 DEF vars, history
<1>7. CASE \E s \in Sessions : (Expire(s) \/ HoldLapse(s)) /\ UNCHANGED overtaken
  BY <1>0, <1>7 DEF Expire, HoldLapse, history
<1> QED
  BY <1>2, <1>3, <1>4, <1>5, <1>6, <1>7 DEF Next

\* Every step keeps the invariant: one case per kind of step.
LEMMA NextKeepsIInv == IInv /\ [Next]_vars => IInv'
<1> SUFFICES ASSUME IInv, [Next]_vars PROVE IInv'
  OBVIOUS
<1>0. uncounted' \subseteq Sessions /\ overtaken' \subseteq Reqs
  BY HistoriesTyped
<1>1. ASSUME NEW r \in Reqs, NewRequest(r) PROVE IInv'
  BY <1>0, <1>1, StartKeepsIInv, SubmitKeepsIInv, OthersKeepIInv DEF NewRequest
<1>2. ASSUME NEW r \in Reqs, RequestStep(r) PROVE IInv'
  BY <1>0, <1>2, StartKeepsIInv, SubmitKeepsIInv, OthersKeepIInv DEF RequestStep
<1>3. ASSUME NEW s \in Sessions, Expire(s) \/ HoldLapse(s) PROVE IInv'
  BY <1>0, <1>3, EnvironmentKeepsIInv
<1>4. CASE Restart
  BY <1>0, <1>4, EnvironmentKeepsIInv
<1>5. CASE UNCHANGED vars
  BY <1>5 DEF vars, rows, history, IInv, TypeOK
<1> QED
  BY <1>1, <1>2, <1>3, <1>4, <1>5 DEF Next

LEMMA IInvHolds == Spec => []IInv
BY InitIInv, NextKeepsIInv, PTL DEF Spec

\* Every row and every request in flight keeps its type.
THEOREM TypeCorrect == Spec => []TypeOK
BY IInvHolds, IInvImplies, PTL

\* However requests interleave and whatever stale row a report writes back, a
\* claimed dongle has an owner and an unclaimed one has none.
THEOREM OwnershipIsCoherent == Spec => []OwnershipCoherent
BY IInvHolds, IInvImplies, PTL

\* Ownership and tokens only ever go to users whose PIN the dongle confirmed
\* (or, for ownership, to users an agent's report named).
THEOREM OwnershipIsProved == Spec => []OwnershipProved
BY IInvHolds, IInvImplies, PTL

\* An open session never counts more attempts than were answered invalid_pin,
\* and is below MAX_PIN_ATTEMPTS, with any number of concurrent submissions.
THEOREM AttemptsAreSound == Spec => []AttemptsSound
BY IInvHolds, IInvImplies, PTL
----------------------------------------------------------------------------
(***************************************************************************)
(* What a request has read is still true until another one changes it: the *)
(* history `overtaken` records who did not get that far.  Nothing is       *)
(* assumed of how requests overlap, fail or are cut off.                   *)
(***************************************************************************)
Fresh(q, row, held) ==
    /\ q.pc \in {"sAtDongle", "sReply"} => ~ held
    /\ q.pc = "rUpsert" => q.seen = row \/ q.seen.owner \in Reporters
    /\ q.pc \in {"gFree", "gCreate"} => q.user \in Admins \/ row.owner = q.user
    /\ q.pc = "sToken" => row = [owner |-> q.user, state |-> "CLAIMED_ACTIVE"]

FreshInv == \A r \in Reqs \ overtaken : Fresh(req[r], dongle, Held)

\* Most pcs rely on nothing.
CarefulPcs == {"sAtDongle", "sReply", "rUpsert", "gFree", "gCreate", "sToken"}

LEMMA CarelessFresh ==
    ASSUME NEW q, NEW row, NEW held, q.pc \notin CarefulPcs
    PROVE  Fresh(q, row, held)
BY DEF Fresh, CarefulPcs

\* A step of r keeps the others fresh that it does not overtake.
LEMMA OthersStayFresh ==
    ASSUME IInv, FreshInv, NEW r \in Reqs, NEW q, req' = [req EXCEPT ![r] = q],
           Overtake(r), r \notin overtaken' => Fresh(q, dongle', Held')
    PROVE  FreshInv'
<1>0. req \in [Reqs -> Request]
  BY DEF IInv, TypeOK
<1> SUFFICES ASSUME NEW p \in Reqs, p \notin overtaken' PROVE Fresh(req'[p], dongle', Held')
  BY DEF FreshInv
<1>1. CASE p = r
  BY <1>0, <1>1
<1>2. CASE p # r
  <2>1. req'[p] = req[p]
    BY <1>0, <1>2
  <2>2. \/ req[p].pc = "idle"
        \/ p \notin overtaken /\ dongle' = dongle /\ (Held' => Held)
    BY <1>2, <2>1 DEF Overtake, Shaken
  <2>3. CASE req[p].pc = "idle"
    BY <2>1, <2>3, CarelessFresh DEF CarefulPcs
  <2>4. CASE p \notin overtaken /\ dongle' = dongle /\ (Held' => Held)
    <3>1. Fresh(req[p], dongle, Held)
      BY <2>4 DEF FreshInv
    <3> QED
      BY <2>1, <2>4, <3>1 DEF Fresh
  <2> QED
    BY <2>2, <2>3, <2>4
<1> QED
  BY <1>1, <1>2

\* Where a step leads: it ends, or goes on to a pc that relies on nothing, or
\* is one of the steps that read or write what the request then relies on.
LEMMA StepLeads ==
    ASSUME IInv, NEW r \in Reqs, RequestStep(r)
    PROVE  \E q \in Request :
              /\ req' = [req EXCEPT ![r] = q]
              /\ \/ q.pc \notin CarefulPcs
                 \/ SubmitHoldCheck(r) /\ ~ Held /\ q.pc = "sAtDongle" /\ UNCHANGED rows
                 \/ SubmitAnswered(r) /\ q.pc = "sReply" /\ UNCHANGED rows
                 \/ SubmitOk(r) /\ q.pc = "sToken" /\ q.user = req[r].user
                 \/ /\ GroupFree(r) /\ q.pc = "gCreate" /\ q.user = req[r].user
                    /\ UNCHANGED rows
<1>0. req[r] \in Request /\ req \in [Reqs -> Request]
  BY DEF IInv, TypeOK
<1>1. ASSUME Finish(r)
      PROVE  \E q \in Request : req' = [req EXCEPT ![r] = q] /\ q.pc \notin CarefulPcs
  BY <1>1, IdleSafe DEF Finish, Idle, CarefulPcs
<1>2. ASSUME NEW pc \in PCs, Goto(r, pc)
      PROVE  \E q \in Request : /\ req' = [req EXCEPT ![r] = q]
                                /\ q.pc = pc /\ q.user = req[r].user
  <2> DEFINE q == [req[r] EXCEPT !.pc = pc]
  <2>1. q \in Request /\ q.pc = pc /\ q.user = req[r].user
    BY <1>0 DEF Request
  <2>2. req' = [req EXCEPT ![r] = q]
    BY <1>2 DEF Goto
  <2> QED
    BY <2>1, <2>2
<1>3. CASE StartHoldCheck(r)
  <2>1. "tFind" \in PCs /\ "tFind" \notin CarefulPcs
    BY DEF PCs, CarefulPcs
  <2> QED
    BY <1>1, <1>2, <1>3, <2>1 DEF StartHoldCheck
<1>4. CASE StartFind(r)
  <2>1. "tCreate" \in PCs /\ "tCreate" \notin CarefulPcs
    BY DEF PCs, CarefulPcs
  <2>2. ASSUME NEW s \in Sessions,
               req' = [req EXCEPT ![r] = [@ EXCEPT !.pc = "tAtDongle", !.sess = s]]
        PROVE  \E q \in Request : req' = [req EXCEPT ![r] = q] /\ q.pc \notin CarefulPcs
    <3> DEFINE q == [req[r] EXCEPT !.pc = "tAtDongle", !.sess = s]
    <3>1. q \in Request /\ q.pc \notin CarefulPcs
      BY <1>0 DEF Request, PCs, CarefulPcs
    <3>2. req' = [req EXCEPT ![r] = q]
      BY <1>0, <2>2
    <3> QED
      BY <3>1, <3>2
  <2> QED
    BY <1>1, <1>2, <1>4, <2>1, <2>2 DEF StartFind, LatestActiveSession, ActiveSessionsOf
<1>5. CASE StartCreate(r)
  <2>1. PICK s \in Sessions : req' = [req EXCEPT ![r] = [@ EXCEPT !.pc = "tAtDongle", !.sess = s]]
    BY <1>5 DEF StartCreate
  <2> DEFINE q == [req[r] EXCEPT !.pc = "tAtDongle", !.sess = s]
  <2>2. q \in Request /\ q.pc \notin CarefulPcs
    BY <1>0 DEF Request, PCs, CarefulPcs
  <2>3. req' = [req EXCEPT ![r] = q]
    BY <1>0, <2>1
  <2> QED
    BY <2>2, <2>3
<1>6. CASE StartAnswered(r)
  <2>1. PICK a \in Answers : req' = [req EXCEPT ![r] = [@ EXCEPT !.pc = "tReply", !.ans = a]]
    BY <1>6 DEF StartAnswered
  <2> DEFINE q == [req[r] EXCEPT !.pc = "tReply", !.ans = a]
  <2>2. q \in Request /\ q.pc \notin CarefulPcs
    BY <1>0 DEF Request, PCs, CarefulPcs
  <2>3. req' = [req EXCEPT ![r] = q]
    BY <1>0, <2>1
  <2> QED
    BY <2>2, <2>3
<1>7. CASE SubmitHoldCheck(r)
  <2>1. "sAtDongle" \in PCs
    BY DEF PCs
  <2>2. UNCHANGED rows /\ (Finish(r) \/ (~ Held /\ Goto(r, "sAtDongle")))
    BY <1>7 DEF SubmitHoldCheck
  <2> QED
    BY <1>1, <1>2, <1>7, <2>1, <2>2
<1>8. CASE SubmitAnswered(r)
  <2>1. PICK a \in Answers : req' = [req EXCEPT ![r] = [@ EXCEPT !.pc = "sReply", !.ans = a]]
    BY <1>8 DEF SubmitAnswered
  <2> DEFINE q == [req[r] EXCEPT !.pc = "sReply", !.ans = a]
  <2>2. q \in Request /\ q.pc = "sReply"
    BY <1>0 DEF Request, PCs
  <2>3. req' = [req EXCEPT ![r] = q]
    BY <1>0, <2>1
  <2>4. UNCHANGED rows
    BY <1>8 DEF SubmitAnswered
  <2> QED
    BY <1>8, <2>2, <2>3, <2>4
<1>9. CASE SubmitOk(r)
  <2>1. "sToken" \in PCs /\ Goto(r, "sToken")
    BY <1>9 DEF PCs, SubmitOk
  <2> QED
    BY <1>2, <1>9, <2>1
<1>10. CASE GroupFree(r)
  <2>1. "gCreate" \in PCs
    BY DEF PCs
  <2>2. UNCHANGED rows /\ (Finish(r) \/ Goto(r, "gCreate"))
    BY <1>10 DEF GroupFree
  <2> QED
    BY <1>1, <1>2, <1>10, <2>1, <2>2
<1>11. CASE Finish(r)
  BY <1>1, <1>11
<1> QED
  BY <1>3, <1>4, <1>5, <1>6, <1>7, <1>8, <1>9, <1>10, <1>11
  DEF RequestStep, StartReplyOk, StartReplyCooldown, SubmitExpire, SubmitCooldown,
      SubmitFailed, SubmitInvalidPin, SubmitToken, UnpairCommit, ReportUpsert, GroupCreate,
      Abandon

\* Rows that stay leave the hold as it is.
LEMMA HoldOfRows == ASSUME UNCHANGED rows PROVE Held' = Held /\ dongle' = dongle
BY DEF rows, Held

\* A request that begins reads what it relies on.
LEMMA NewIsFresh ==
    ASSUME IInv, NEW r \in Reqs, NewRequest(r)
    PROVE  /\ UNCHANGED rows
           /\ \E q \in Request : req' = [req EXCEPT ![r] = q] /\ Fresh(q, dongle, Held)
<1>1. CASE ReportRead(r)
  <2>1. PICK row \in {dongle} \cup {[owner |-> u, state |-> "CLAIMED_ACTIVE"] : u \in Reporters} :
          req' = [req EXCEPT ![r] = [Idle EXCEPT !.pc = "rUpsert", !.seen = row]]
    BY <1>1 DEF ReportRead
  <2> DEFINE q == [Idle EXCEPT !.pc = "rUpsert", !.seen = row]
  <2>2. row \in DongleRow /\ (row = dongle \/ row.owner \in Reporters)
    BY PairingAssumption DEF IInv, TypeOK, DongleRow, UserOrNone, OwnershipStates
  <2>3. q.pc = "rUpsert" /\ q.seen = row /\ q \in Request
    BY <2>2, IdleSafe DEF Idle, Request, PCs
  <2>4. Fresh(q, dongle, Held)
    BY <2>2, <2>3 DEF Fresh
  <2> QED
    BY <1>1, <2>1, <2>3, <2>4 DEF ReportRead
<1>2. ASSUME NEW u \in Users, NEW pc \in PCs \ CarefulPcs,
             req' = [req EXCEPT ![r] = [Idle EXCEPT !.pc = pc, !.user = u]]
      PROVE  \E q \in Request : req' = [req EXCEPT ![r] = q] /\ Fresh(q, dongle, Held)
  <2> DEFINE q == [Idle EXCEPT !.pc = pc, !.user = u]
  <2>1. q.pc = pc /\ q \in Request
    BY IdleSafe DEF Idle, Request, PCs, UserOrNone
  <2> QED
    BY <1>2, <2>1, CarelessFresh
<1>3. ASSUME NEW u \in Users, StartRead(r, u) \/ UnpairRead(r, u) \/ ForceUnpairRead(r, u)
      PROVE  /\ UNCHANGED rows
             /\ \E q \in Request : req' = [req EXCEPT ![r] = q] /\ Fresh(q, dongle, Held)
  <2>1. {"tHold", "uTx", "fTx"} \subseteq PCs \ CarefulPcs
    BY DEF PCs, CarefulPcs
  <2> QED
    BY <1>2, <1>3, <2>1 DEF StartRead, UnpairRead, ForceUnpairRead
<1>4. ASSUME NEW u \in Users, GroupCheck(r, u)
      PROVE  /\ UNCHANGED rows
             /\ \E q \in Request : req' = [req EXCEPT ![r] = q] /\ Fresh(q, dongle, Held)
  <2> DEFINE q == [Idle EXCEPT !.pc = "gFree", !.user = u]
  <2>1. q.pc = "gFree" /\ q.user = u /\ q \in Request
    BY IdleSafe DEF Idle, Request, PCs, UserOrNone
  <2>2. Fresh(q, dongle, Held)
    BY <1>4, <2>1 DEF GroupCheck, Fresh
  <2> QED
    BY <1>4, <2>1, <2>2 DEF GroupCheck
<1>5. ASSUME NEW u \in Users, NEW s \in Sessions, SubmitRead(r, u, s)
      PROVE  /\ UNCHANGED rows
             /\ \E q \in Request : req' = [req EXCEPT ![r] = q] /\ Fresh(q, dongle, Held)
  <2> DEFINE q == [Idle EXCEPT !.pc = IF session[s].running THEN "sHold" ELSE "sExpire",
                               !.user = u, !.sess = s, !.attempts = session[s].attempts]
  <2>1. session[s].attempts \in Nat
    BY DEF IInv, TypeOK, SessionRow
  <2>2. q.pc \notin CarefulPcs /\ q \in Request
    BY <2>1, IdleSafe DEF Idle, Request, PCs, UserOrNone, CarefulPcs
  <2>3. req' = [req EXCEPT ![r] = q] /\ UNCHANGED rows
    BY <1>5 DEF SubmitRead, rows
  <2> QED
    BY <2>2, <2>3, CarelessFresh
<1> QED
  BY <1>1, <1>3, <1>4, <1>5 DEF NewRequest

\* A request that goes on stays overtaken, but past its own transaction.
LEMMA StaysOvertaken ==
    ASSUME NEW r \in Reqs, Overtake(r), r \in overtaken, req'[r].pc \notin {"idle", "sToken"}
    PROVE  r \in overtaken'
BY DEF Overtake

LEMMA StepKeepsFresh ==
    ASSUME IInv, FreshInv, NEW r \in Reqs, RequestStep(r), Overtake(r)
    PROVE  FreshInv'
<1>0. req \in [Reqs -> Request]
  BY DEF IInv, TypeOK
<1>1. PICK q \in Request :
        /\ req' = [req EXCEPT ![r] = q]
        /\ \/ q.pc \notin CarefulPcs
           \/ SubmitHoldCheck(r) /\ ~ Held /\ q.pc = "sAtDongle" /\ UNCHANGED rows
           \/ SubmitAnswered(r) /\ q.pc = "sReply" /\ UNCHANGED rows
           \/ SubmitOk(r) /\ q.pc = "sToken" /\ q.user = req[r].user
           \/ GroupFree(r) /\ q.pc = "gCreate" /\ q.user = req[r].user /\ UNCHANGED rows
  BY StepLeads
<1>2. req'[r] = q
  BY <1>0, <1>1
<1>3. r \notin overtaken' => Fresh(q, dongle', Held')
  <2>1. CASE q.pc \notin CarefulPcs
    BY <2>1, CarelessFresh
  <2>2. CASE SubmitHoldCheck(r) /\ ~ Held /\ q.pc = "sAtDongle" /\ UNCHANGED rows
    BY <2>2, HoldOfRows DEF Fresh
  <2>3. CASE SubmitAnswered(r) /\ q.pc = "sReply" /\ UNCHANGED rows
    <3>1. r \notin overtaken' => r \notin overtaken
      BY <1>2, <2>3, StaysOvertaken
    <3>2. req[r].pc = "sAtDongle"
      BY <2>3 DEF SubmitAnswered, At
    <3>3. r \notin overtaken' => ~ Held
      BY <3>1, <3>2 DEF FreshInv, Fresh
    <3> QED
      BY <2>3, <3>3, HoldOfRows DEF Fresh
  <2>4. CASE SubmitOk(r) /\ q.pc = "sToken" /\ q.user = req[r].user
    BY <2>4 DEF SubmitOk, Fresh
  <2>5. CASE GroupFree(r) /\ q.pc = "gCreate" /\ q.user = req[r].user /\ UNCHANGED rows
    <3>1. r \notin overtaken' => r \notin overtaken
      BY <1>2, <2>5, StaysOvertaken
    <3>2. req[r].pc = "gFree"
      BY <2>5 DEF GroupFree, At
    <3>3. r \notin overtaken' => q.user \in Admins \/ dongle.owner = q.user
      BY <2>5, <3>1, <3>2 DEF FreshInv, Fresh
    <3> QED
      BY <2>5, <3>3, HoldOfRows DEF Fresh
  <2> QED
    BY <1>1, <2>1, <2>2, <2>3, <2>4, <2>5
<1> QED
  BY <1>1, <1>3, OthersStayFresh

\* The clock neither starts a hold nor touches anything but the sessions.
LEMMA ClockIsQuiet ==
    ASSUME IInv, NEW s \in Sessions, Expire(s) \/ HoldLapse(s)
    PROVE  (Held' => Held) /\ UNCHANGED <<dongle, token, grouped, req, confirmed, wrong, uncounted>>
BY DEF Expire, HoldLapse, Held, IInv, TypeOK, SessionRow, history

LEMMA NextKeepsFresh == IInv /\ FreshInv /\ [Next]_vars => FreshInv'
<1> SUFFICES ASSUME IInv, FreshInv, [Next]_vars PROVE FreshInv'
  OBVIOUS
<1>1. ASSUME NEW r \in Reqs, RequestStep(r), Overtake(r) PROVE FreshInv'
  BY <1>1, StepKeepsFresh
<1>2. ASSUME NEW r \in Reqs, NewRequest(r), Overtake(r) PROVE FreshInv'
  <2>1. UNCHANGED rows /\ \E q \in Request : /\ req' = [req EXCEPT ![r] = q]
                                             /\ Fresh(q, dongle, Held)
    BY <1>2, NewIsFresh
  <2>2. PICK q \in Request : req' = [req EXCEPT ![r] = q] /\ Fresh(q, dongle, Held)
    BY <2>1
  <2>3. Fresh(q, dongle', Held')
    BY <2>1, <2>2, HoldOfRows
  <2> QED
    BY <1>2, <2>2, <2>3, OthersStayFresh
<1>3. ASSUME NEW s \in Sessions, Expire(s) \/ HoldLapse(s), UNCHANGED overtaken PROVE FreshInv'
  <2>1. (Held' => Held) /\ UNCHANGED <<dongle, req>>
    BY <1>3, ClockIsQuiet
  <2> QED
    BY <1>3, <2>1 DEF FreshInv, Fresh
<1>4. CASE Restart
  <2>1. \A r \in Reqs : req'[r] = Idle
    BY <1>4 DEF Restart
  <2>2. Idle.pc \notin CarefulPcs
    BY DEF Idle, CarefulPcs
  <2> QED
    BY <2>1, <2>2, CarelessFresh DEF FreshInv
<1>5. CASE UNCHANGED vars
  BY <1>5 DEF vars, rows, FreshInv, Held
<1> QED
  BY <1>1, <1>2, <1>3, <1>4, <1>5 DEF Next

LEMMA InitFresh == Init => FreshInv
<1> SUFFICES ASSUME Init PROVE FreshInv
  OBVIOUS
<1>1. \A r \in Reqs : req[r] = Idle
  BY DEF Init
<1>2. Idle.pc \notin CarefulPcs
  BY DEF Idle, CarefulPcs
<1> QED
  BY <1>1, <1>2, CarelessFresh DEF FreshInv

LEMMA FreshHolds == Spec => []FreshInv
BY NextKeepsFresh, InitFresh, IInvHolds, PTL DEF Spec

\* No request makes a dongle claimed while a hold is running (spec 11.3), but
\* one that was past its own check when the hold began.
THEOREM HoldsBlockClaims == Spec => HoldBlocksClaim
<1>1. IInv /\ FreshInv /\ [Next]_vars =>
        [dongle.state = "SECURITY_HOLD" /\ Held /\ dongle'.state = "CLAIMED_ACTIVE" =>
            dongle'.owner \in Reporters \/ \E r \in overtaken : req'[r] # req[r]]_vars
  <2> SUFFICES ASSUME IInv, FreshInv, Next, dongle.state = "SECURITY_HOLD", Held,
                      dongle'.state = "CLAIMED_ACTIVE"
               PROVE  dongle'.owner \in Reporters \/ \E r \in overtaken : req'[r] # req[r]
    OBVIOUS
  <2>0. dongle' # dongle /\ req \in [Reqs -> Request]
    BY DEF IInv, TypeOK
  <2>1. ASSUME NEW r \in Reqs, NewRequest(r) PROVE FALSE
    BY <2>0, <2>1, NewIsFresh DEF rows
  <2>2. ASSUME NEW r \in Reqs, RequestStep(r)
        PROVE  dongle'.owner \in Reporters \/ \E p \in overtaken : req'[p] # req[p]
    <3>1. CASE SubmitOk(r)
      <4>1. req[r].pc = "sReply" /\ req'[r].pc = "sToken"
        BY <2>0, <3>1 DEF SubmitOk, At, Goto, Request
      <4>2. r \in overtaken
        BY <4>1 DEF FreshInv, Fresh
      <4> QED
        BY <4>1, <4>2
    <3>2. CASE ReportUpsert(r)
      <4>1. req[r].pc = "rUpsert" /\ req'[r].pc = "idle" /\ dongle' = req[r].seen
        BY <2>0, <3>2 DEF ReportUpsert, At, Finish, Idle
      <4>2. r \in overtaken \/ req[r].seen.owner \in Reporters
        BY <2>0, <4>1 DEF FreshInv, Fresh
      <4> QED
        BY <4>1, <4>2
    <3>3. CASE \E s \in Sessions \cup {0} : EnterSecurityHold(s)
      BY <3>3 DEF EnterSecurityHold, IInv, TypeOK, DongleRow
    <3>4. CASE UnpairCommit(r)
      BY <3>4 DEF UnpairCommit, Unclaimed
    <3>5. CASE dongle' = dongle
      BY <2>0, <3>5
    <3>6. req[r].sess \in Sessions \cup {0}
      BY OfRequest DEF Request
    <3> QED
      BY <2>2, <3>1, <3>2, <3>3, <3>4, <3>5, <3>6
      DEF RequestStep, rows, StartHoldCheck, StartFind, StartCreate, StartAnswered,
          StartReplyOk, StartReplyCooldown, SubmitExpire, SubmitHoldCheck, SubmitAnswered,
          SubmitCooldown, SubmitFailed, SubmitInvalidPin, SubmitToken, GroupFree,
          GroupCreate, Abandon
  <2>3. ASSUME NEW s \in Sessions, Expire(s) \/ HoldLapse(s) PROVE FALSE
    BY <2>0, <2>3, ClockIsQuiet
  <2>4. CASE Restart
    BY <2>0, <2>4 DEF Restart, rows
  <2> QED
    BY <2>1, <2>2, <2>3, <2>4 DEF Next
<1> QED
  BY <1>1, IInvHolds, FreshHolds, PTL DEF Spec, HoldBlocksClaim

----------------------------------------------------------------------------
(***************************************************************************)
(* The stored token and group follow the ownership.  Each kind of step     *)
(* keeps RowsFollow, or is one of those the property names.                *)
(***************************************************************************)

\* The conclusion for a step of request r.
Followed(r) == RowsFollow' \/ dongle'.owner \in Reporters \/ Strays(r)

\* A step that leaves dongle, token and group alone, begins no hold and is not
\* the end of a request that owes a token.
LEMMA QuietFollows ==
    ASSUME IInv, RowsFollow, NEW r \in Reqs, NEW q, req' = [req EXCEPT ![r] = q],
           UNCHANGED <<dongle, token, grouped>>, Held' => Held, Overtake(r),
           req[r].pc # "sToken"
    PROVE  RowsFollow'
<1>0. req \in [Reqs -> Request]
  BY DEF IInv, TypeOK
<1>1. ASSUME NEW p \in Reqs \ overtaken, At(p, "sToken")
      PROVE  p \in Reqs \ overtaken' /\ At(p, "sToken")'
  <2>1. p # r /\ req'[p] = req[p]
    BY <1>0, <1>1 DEF At
  <2>2. ~ Shaken
    BY DEF Shaken
  <2> QED
    BY <1>1, <2>1, <2>2 DEF Overtake, At
<1> QED
  BY <1>1 DEF RowsFollow

\* The steps that touch neither the dongle nor its token nor its group.
LEMMA SessionsFollow ==
    ASSUME IInv, RowsFollow, NEW r \in Reqs, Overtake(r),
           \/ StartHoldCheck(r) \/ StartFind(r) \/ StartCreate(r) \/ StartAnswered(r)
           \/ StartReplyOk(r) \/ SubmitExpire(r) \/ SubmitHoldCheck(r) \/ SubmitAnswered(r)
           \/ SubmitFailed(r) \/ GroupFree(r) \/ (Abandon(r) /\ ~ At(r, "sToken"))
           \/ (SubmitInvalidPin(r) /\ UNCHANGED dongle /\ req[r].attempts + 1 < MaxPinAttempts)
    PROVE  RowsFollow'
<1>0. session \in [Sessions -> SessionRow]
  BY DEF IInv, TypeOK
<1>1. RequestStep(r)
  BY DEF RequestStep
<1>2. PICK q \in Request : req' = [req EXCEPT ![r] = q]
  BY <1>1, StepLeads
<1>3. req[r].pc # "sToken" /\ UNCHANGED <<dongle, token, grouped>>
  BY DEF At, rows, StartHoldCheck, StartFind, StartCreate, StartAnswered, StartReplyOk,
     SubmitExpire, SubmitHoldCheck, SubmitAnswered, SubmitFailed, GroupFree, Abandon,
     SubmitInvalidPin
<1>4. Held' => Held
  <2>1. CASE UNCHANGED rows
    BY <2>1, HoldOfRows
  <2>2. CASE StartCreate(r)
    BY <1>0, <2>2 DEF StartCreate, Held, NoSession
  <2>3. CASE StartReplyOk(r)
    <3>1. ASSUME NEW s \in Sessions, session'[s].status = "HOLD", session'[s].running
          PROVE  session[s].status = "HOLD" /\ session[s].running
      <4> DEFINE live == session[req[r].sess].status = "ACTIVE"
      <4>1. session' = [session EXCEPT ![req[r].sess] =
                         [@ EXCEPT !.nonce = live,
                                   !.running = session[req[r].sess].running \/ live]]
        BY <2>3 DEF StartReplyOk
      <4>2. CASE s = req[r].sess
        <5>1. session[s] \in SessionRow /\ session[s] = session[req[r].sess]
          BY <1>0, <4>2
        <5>2. session'[s] = [session[s] EXCEPT !.nonce = live, !.running = @ \/ live]
          BY <1>0, <4>1, <4>2, Zenon
        <5> HIDE DEF live
        <5>3. session'[s].status = session[s].status
          BY <5>1, <5>2 DEF SessionRow
        <5>4. session'[s].running = (session[s].running \/ live)
          BY <5>1, <5>2, Zenon DEF SessionRow
        <5>5. ~ live
          BY <3>1, <4>2, <5>3 DEF live
        <5> QED
          BY <3>1, <5>3, <5>4, <5>5
      <4>3. CASE s # req[r].sess
        BY <1>0, <3>1, <4>1, <4>3
      <4> QED
        BY <4>2, <4>3
    <3> QED
      BY <3>1 DEF Held
  <2>4. CASE SubmitExpire(r) \/ SubmitFailed(r)
    <3>1. \E status \in {"EXPIRED", "FAILED"}, tries \in {0, 1} :
             session' = Closed(req[r].sess, status, tries)
      BY <2>4 DEF SubmitExpire, SubmitFailed
    <3>2. PICK status \in {"EXPIRED", "FAILED"}, tries \in {0, 1} :
             session' = Closed(req[r].sess, status, tries)
      BY <3>1
    <3>3. ASSUME NEW s \in Sessions, session'[s].status = "HOLD" PROVE session'[s] = session[s]
      BY <1>0, <3>2, <3>3 DEF Closed, SessionRow
    <3> QED
      BY <3>3 DEF Held
  <2>5. CASE SubmitInvalidPin(r) /\ UNCHANGED dongle /\ req[r].attempts + 1 < MaxPinAttempts
    <3>1. req[r].attempts \in Nat
      BY OfRequest DEF Request
    <3>2. session' = [session EXCEPT ![req[r].sess].attempts = req[r].attempts + 1]
      BY <2>5, <3>1, PairingAssumption DEF SubmitInvalidPin
    <3> QED
      BY <1>0, <3>2 DEF Held, SessionRow
  <2> QED
    BY <2>1, <2>2, <2>3, <2>4, <2>5 DEF StartHoldCheck, StartFind, StartAnswered,
       SubmitHoldCheck, SubmitAnswered, GroupFree, Abandon
<1> QED
  BY <1>2, <1>3, <1>4, QuietFollows

\* The steps that write the dongle, its token or its group.
LEMMA WritesFollow ==
    ASSUME IInv, FreshInv, RowsFollow, NEW r \in Reqs, RequestStep(r), Overtake(r)
    PROVE  Followed(r)
<1>0. /\ req[r] \in Request /\ req \in [Reqs -> Request]
      /\ SafeRequest(req[r], confirmed, wrong)
      /\ dongle \in DongleRow /\ RowCoherent(dongle)
  BY DEF IInv, TypeOK, SafeRow
<1>1. ASSUME EnterSecurityHold(req[r].sess) PROVE Followed(r)
  <2>1. dongle'.state = "SECURITY_HOLD"
    BY <1>0, <1>1 DEF EnterSecurityHold, DongleRow
  <2> QED
    BY <2>1 DEF Followed, RowsFollow
<1>2. CASE SubmitOk(r)
  <2>1. dongle'.state = "CLAIMED_ACTIVE" /\ req'[r].pc = "sToken"
    BY <1>0, <1>2 DEF SubmitOk, Goto, Request
  <2>2. r \notin overtaken'
    BY <2>1 DEF Overtake
  <2> QED
    BY <2>1, <2>2 DEF Followed, RowsFollow, At
<1>3. CASE SubmitToken(r)
  <2>1. req[r].pc = "sToken" /\ req'[r].pc = "idle" /\ token' = req[r].user /\ dongle' = dongle
    BY <1>0, <1>3 DEF SubmitToken, At, Finish, Idle
  <2>2. CASE r \in overtaken
    BY <2>1, <2>2 DEF Followed, Strays, At
  <2>3. CASE r \notin overtaken
    <3>1. dongle = [owner |-> req[r].user, state |-> "CLAIMED_ACTIVE"]
      BY <2>1, <2>3 DEF FreshInv, Fresh
    <3>2. dongle'.owner = token' /\ dongle'.state = "CLAIMED_ACTIVE"
      BY <2>1, <3>1
    <3> QED
      BY <3>2 DEF Followed, RowsFollow
  <2> QED
    BY <2>2, <2>3
<1>4. CASE UnpairCommit(r)
  <2>1. dongle'.state = "UNCLAIMED" /\ token' = None /\ grouped' = None
    BY <1>4 DEF UnpairCommit, Unclaimed
  <2> QED
    BY <2>1 DEF Followed, RowsFollow
<1>5. CASE ReportUpsert(r)
  <2>1. /\ dongle' = req[r].seen /\ req[r].pc = "rUpsert" /\ req'[r].pc = "idle"
        /\ UNCHANGED <<session, token, grouped>>
    BY <1>0, <1>5 DEF ReportUpsert, At, Finish, Idle
  <2>2. CASE r \in overtaken
    BY <2>1, <2>2 DEF Followed, Strays, At
  <2>3. CASE r \notin overtaken
    <3>1. req[r].seen = dongle \/ req[r].seen.owner \in Reporters
      BY <2>1, <2>3 DEF FreshInv, Fresh
    <3>2. CASE req[r].seen.owner \in Reporters
      BY <2>1, <3>2 DEF Followed
    <3>3. CASE req[r].seen = dongle
      <4>1. UNCHANGED <<dongle, token, grouped>> /\ (Held' => Held)
        BY <2>1, <3>3 DEF Held
      <4>2. PICK q \in Request : req' = [req EXCEPT ![r] = q]
        BY StepLeads
      <4> QED
        BY <2>1, <4>1, <4>2, QuietFollows DEF Followed
    <3> QED
      BY <3>1, <3>2, <3>3
  <2> QED
    BY <2>2, <2>3
<1>6. CASE GroupCreate(r)
  <2>1. /\ grouped' = req[r].user /\ UNCHANGED <<dongle, session, token>>
        /\ req[r].pc = "gCreate" /\ req'[r].pc = "idle"
    BY <1>0, <1>6 DEF GroupCreate, At, Finish, Idle
  <2>2. CASE r \in overtaken
    BY <2>1, <2>2 DEF Followed, Strays, At
  <2>3. CASE r \notin overtaken
    <3>1. req[r].user \in Admins \/ dongle.owner = req[r].user
      BY <2>1, <2>3 DEF FreshInv, Fresh
    <3>2. dongle'.state = "UNCLAIMED" => token' = None /\ grouped' \in Admins \cup {None}
      BY <1>0, <2>1, <3>1 DEF RowCoherent, RowsFollow
    <3>3. dongle'.state = "CLAIMED_ACTIVE" =>
             token' = dongle'.owner \/ \E p \in Reqs \ overtaken' : At(p, "sToken")'
      <4>1. ~ Shaken
        BY <2>1 DEF Shaken, Held
      <4>2. ASSUME NEW p \in Reqs \ overtaken, At(p, "sToken")
            PROVE  p \in Reqs \ overtaken' /\ At(p, "sToken")'
        <5>1. p # r /\ req'[p] = req[p]
          BY <1>0, <2>1, <1>6, <4>2 DEF At, GroupCreate, Finish
        <5> QED
          BY <4>1, <4>2, <5>1 DEF Overtake, At
      <4> QED
        BY <2>1, <4>2 DEF RowsFollow
    <3> QED
      BY <3>2, <3>3 DEF Followed, RowsFollow
  <2> QED
    BY <2>2, <2>3
<1>7. CASE Abandon(r) /\ At(r, "sToken")
  <2>1. req[r].pc = "sToken" /\ req'[r].pc = "idle" /\ UNCHANGED rows
    BY <1>0, <1>7 DEF Abandon, At, Finish, Idle
  <2>2. CASE token = req[r].user /\ r \notin overtaken
    <3>1. dongle = [owner |-> req[r].user, state |-> "CLAIMED_ACTIVE"]
      BY <2>1, <2>2 DEF FreshInv, Fresh
    <3>2. dongle'.owner = token' /\ dongle'.state = "CLAIMED_ACTIVE"
      BY <2>1, <2>2, <3>1 DEF rows
    <3> QED
      BY <3>2 DEF Followed, RowsFollow
  <2>3. CASE token # req[r].user \/ r \in overtaken
    BY <2>1, <2>3 DEF Followed, Strays, At, rows
  <2> QED
    BY <2>2, <2>3
<1>8. CASE SubmitInvalidPin(r)
  BY <1>1, <1>8, SessionsFollow DEF SubmitInvalidPin, Followed
<1>9. CASE StartReplyCooldown(r) \/ SubmitCooldown(r)
  BY <1>1, <1>9 DEF StartReplyCooldown, SubmitCooldown
<1> QED
  BY <1>2, <1>3, <1>4, <1>5, <1>6, <1>7, <1>8, <1>9, SessionsFollow DEF RequestStep, Followed

\* The rows part from the ownership only by the write of a request that another
\* one has overtaken, by the loss of a token it owed, or by a report that names
\* an owner (spec 12).
THEOREM RowsFollowTheOwner == Spec => RowsFollowOwner
<1>1. IInv /\ FreshInv /\ [Next]_vars =>
        [RowsFollow => RowsFollow' \/ dongle'.owner \in Reporters
                                   \/ \E r \in Reqs : Strays(r)]_vars
  <2> SUFFICES ASSUME IInv, FreshInv, Next, RowsFollow
               PROVE  \/ RowsFollow' \/ dongle'.owner \in Reporters
                      \/ \E r \in Reqs : Strays(r)
    OBVIOUS
  <2>1. ASSUME NEW r \in Reqs, RequestStep(r), Overtake(r) PROVE Followed(r)
    BY <2>1, WritesFollow
  <2>2. ASSUME NEW r \in Reqs, NewRequest(r), Overtake(r) PROVE RowsFollow'
    <3>1. UNCHANGED rows /\ \E q \in Request : req' = [req EXCEPT ![r] = q]
      BY <2>2, NewIsFresh
    <3>2. PICK q \in Request : req' = [req EXCEPT ![r] = q]
      BY <3>1
    <3>3. UNCHANGED <<dongle, token, grouped>> /\ (Held' => Held)
      BY <3>1, HoldOfRows DEF rows
    <3>4. req[r].pc = "idle"
      BY <2>2 DEF NewRequest, ReportRead, StartRead, SubmitRead, UnpairRead,
         ForceUnpairRead, GroupCheck, At
    <3> QED
      BY <2>2, <3>2, <3>3, <3>4, QuietFollows
  <2>3. ASSUME NEW s \in Sessions, Expire(s) \/ HoldLapse(s), UNCHANGED overtaken
        PROVE  RowsFollow'
    <3>1. UNCHANGED <<dongle, token, grouped, req, overtaken>>
      BY <2>3, ClockIsQuiet
    <3> QED
      BY <3>1 DEF RowsFollow, At
  <2>4. CASE Restart
    <3>1. UNCHANGED rows /\ \A r \in Reqs : req'[r].pc = "idle"
      BY <2>4 DEF Restart, Idle
    <3>2. CASE \E r \in Reqs \ overtaken : At(r, "sToken") /\ token # req[r].user
      BY <3>1, <3>2 DEF Strays, At, rows
    <3>3. CASE \A r \in Reqs \ overtaken : At(r, "sToken") => token = req[r].user
      <4>1. dongle.state = "CLAIMED_ACTIVE" => token = dongle.owner
        BY <3>3 DEF RowsFollow, FreshInv, Fresh, At
      <4> QED
        BY <3>1, <4>1 DEF RowsFollow, rows
    <3> QED
      BY <3>2, <3>3
  <2> QED
    BY <2>1, <2>2, <2>3, <2>4 DEF Next, Followed
<1> QED
  BY <1>1, IInvHolds, FreshHolds, PTL DEF Spec, RowsFollowOwner

----------------------------------------------------------------------------
(***************************************************************************)
(* The PIN budget.  Unless two submissions of a session overlap, or one    *)
(* breaks off between the verdict and its record, the session's counter    *)
(* and the one submission in flight account for every wrong PIN.           *)
(***************************************************************************)
Subs(f, s) == {r \in Reqs : f[r].sess = s /\ f[r].pc \in Submits}

\* The wrong PIN of a submission that is not yet in the session's counter.
Judged(q) == IF q.pc = "sReply" /\ q.ans = "invalid_pin" THEN 1 ELSE 0

\* f: the requests; row and w: session s and the wrong PINs heard of.
Counted(f, row, w, s) ==
    /\ w <= MaxPinAttempts
    /\ \A r \in Subs(f, s) :
          /\ f[r].attempts < MaxPinAttempts
          /\ w = f[r].attempts + Judged(f[r])
          /\ row.status = "ACTIVE" => row.attempts = f[r].attempts
          /\ \A p \in Subs(f, s) : p = r
    /\ row.status = "ACTIVE" /\ Subs(f, s) = {} => row.attempts = w

Untouched(f, row, w, s) == row.status = "NONE" => w = 0 /\ Subs(f, s) = {}

BudgetInv ==
    \A s \in Sessions :
        /\ Untouched(req, session[s], wrong[s], s)
        /\ s \notin uncounted => Counted(req, session[s], wrong[s], s)

LEMMA SubsAre == ASSUME NEW s PROVE SubmissionsOf(s) = Subs(req, s)
BY DEF SubmissionsOf, Subs, Submits

\* A session whose status or counter no submission of it has touched.
Alike(row, new) ==
    \/ new.status \notin {"NONE", "ACTIVE"}
    \/ new.status = row.status /\ new.attempts = row.attempts

\* Steps of requests that are no submission of s, before and after.
LEMMA OthersCount ==
    ASSUME NEW f \in [Reqs -> Request], NEW r \in Reqs, NEW q \in Request,
           NEW s, NEW row, NEW new, NEW w, Alike(row, new),
           r \notin Subs(f, s), ~ (q.sess = s /\ q.pc \in Submits)
    PROVE  /\ Subs([f EXCEPT ![r] = q], s) = Subs(f, s)
           /\ Untouched(f, row, w, s) => Untouched([f EXCEPT ![r] = q], new, w, s)
           /\ Counted(f, row, w, s) => Counted([f EXCEPT ![r] = q], new, w, s)
<1> DEFINE g == [f EXCEPT ![r] = q]
<1>1. \A p \in Reqs : g[p] = IF p = r THEN q ELSE f[p]
  OBVIOUS
<1> HIDE DEF g
<1>2. Subs(g, s) = Subs(f, s)
  BY <1>1 DEF Subs
<1>3. \A p \in Subs(f, s) : g[p] = f[p]
  BY <1>1 DEF Subs
<1>4. Untouched(f, row, w, s) => Untouched(g, new, w, s)
  BY <1>2 DEF Untouched, Alike
<1>5. Counted(f, row, w, s) => Counted(g, new, w, s)
  BY <1>2, <1>3 DEF Counted, Alike
<1> QED
  BY <1>2, <1>4, <1>5 DEF g

\* A submission of s that ends: nothing is left to account for but the session.
LEMMA EndsCount ==
    ASSUME NEW f \in [Reqs -> Request], NEW r \in Reqs, NEW q \in Request,
           NEW s, NEW row, NEW new, NEW w, r \in Subs(f, s), q.pc \notin Submits,
           Counted(f, row, w, s), new.status = "ACTIVE" => new.attempts = w
    PROVE  Counted([f EXCEPT ![r] = q], new, w, s)
<1> DEFINE g == [f EXCEPT ![r] = q]
<1>1. \A p \in Reqs : g[p] = IF p = r THEN q ELSE f[p]
  OBVIOUS
<1> HIDE DEF g
<1>2. \A p \in Subs(f, s) : p = r
  BY DEF Counted
<1>3. Subs(g, s) = {}
  BY <1>1, <1>2 DEF Subs
<1> QED
  BY <1>3 DEF Counted, g

\* A submission of s that goes on, judged or not.
LEMMA GoesOnCount ==
    ASSUME NEW f \in [Reqs -> Request], NEW r \in Reqs, NEW q \in Request,
           NEW s, NEW row, NEW w \in Nat, r \in Subs(f, s),
           q.pc \in Submits, q.sess = s, q.attempts = f[r].attempts, Judged(f[r]) = 0,
           Counted(f, row, w, s)
    PROVE  Counted([f EXCEPT ![r] = q], row, w + Judged(q), s)
<1> DEFINE g == [f EXCEPT ![r] = q]
<1>1. \A p \in Reqs : g[p] = IF p = r THEN q ELSE f[p]
  OBVIOUS
<1> HIDE DEF g
<1>2. \A p \in Subs(f, s) : p = r
  BY DEF Counted
<1>3. Subs(g, s) = {r} /\ g[r] = q
  BY <1>1, <1>2 DEF Subs
<1>4. /\ f[r].attempts < MaxPinAttempts /\ w = f[r].attempts
      /\ row.status = "ACTIVE" => row.attempts = f[r].attempts
      /\ f[r].attempts \in Nat
  <2>1. /\ f[r].attempts < MaxPinAttempts /\ w = f[r].attempts + Judged(f[r])
        /\ row.status = "ACTIVE" => row.attempts = f[r].attempts
    BY DEF Counted
  <2>2. f[r].attempts \in Nat
    BY DEF Request
  <2> QED
    BY <2>1, <2>2
<1>5. Judged(q) \in {0, 1}
  BY DEF Judged
<1>6. w + Judged(q) <= MaxPinAttempts /\ w + Judged(q) = q.attempts + Judged(q)
  BY <1>4, <1>5, PairingAssumption
<1> QED
  BY <1>3, <1>4, <1>6 DEF Counted, g

\* What IInv and BudgetInv say of one session.
LEMMA OfSession ==
    ASSUME IInv, BudgetInv, NEW s \in Sessions
    PROVE  /\ session[s] \in SessionRow /\ wrong[s] \in Nat
           /\ SafeSession(session[s], wrong[s])
           /\ Untouched(req, session[s], wrong[s], s)
           /\ s \notin uncounted => Counted(req, session[s], wrong[s], s)
BY DEF IInv, TypeOK, BudgetInv

\* A step that is none of a submission: its sessions stay alike.
LEMMA QuietBudget ==
    ASSUME IInv, BudgetInv, NEW r \in Reqs, NEW q \in Request,
           req' = [req EXCEPT ![r] = q], UNCHANGED wrong, uncounted \subseteq uncounted',
           req[r].pc \notin Submits, q.pc \notin Submits,
           \A s \in Sessions : Alike(session[s], session'[s])
    PROVE  BudgetInv'
<1> SUFFICES ASSUME NEW s \in Sessions
             PROVE  /\ Untouched(req', session'[s], wrong'[s], s)
                    /\ s \notin uncounted' => Counted(req', session'[s], wrong'[s], s)
  BY DEF BudgetInv
<1>1. req \in [Reqs -> Request] /\ r \notin Subs(req, s)
  BY DEF IInv, TypeOK, Subs
<1>2. /\ Untouched(req, session[s], wrong[s], s) => Untouched(req', session'[s], wrong[s], s)
      /\ Counted(req, session[s], wrong[s], s) => Counted(req', session'[s], wrong[s], s)
  BY <1>1, OthersCount
<1> QED
  BY <1>2, OfSession

\* A step of a submission of s0: the other sessions are none of its business.
LEMMA SubmissionBudget ==
    ASSUME IInv, BudgetInv, NEW r \in Reqs, NEW q \in Request, NEW s0 \in Sessions,
           req' = [req EXCEPT ![r] = q], uncounted \subseteq uncounted',
           req[r].sess = s0 \/ req[r].pc \notin Submits,
           q.sess = s0 \/ q.pc \notin Submits,
           \A s \in Sessions \ {s0} : session'[s] = session[s] /\ wrong'[s] = wrong[s],
           session'[s0].status # "NONE",
           s0 \notin uncounted' => Counted(req', session'[s0], wrong'[s0], s0)
    PROVE  BudgetInv'
<1> SUFFICES ASSUME NEW s \in Sessions, s # s0
             PROVE  /\ Untouched(req', session'[s], wrong'[s], s)
                    /\ s \notin uncounted' => Counted(req', session'[s], wrong'[s], s)
  BY DEF BudgetInv, Untouched
<1>1. req \in [Reqs -> Request] /\ r \notin Subs(req, s) /\ Alike(session[s], session'[s])
  BY DEF IInv, TypeOK, Subs, Alike
<1>2. /\ Untouched(req, session[s], wrong[s], s) => Untouched(req', session'[s], wrong[s], s)
      /\ Counted(req, session[s], wrong[s], s) => Counted(req', session'[s], wrong[s], s)
  BY <1>1, OthersCount
<1> QED
  BY <1>2, OfSession

\* A submission has a session that was created.
LEMMA SubmissionHas ==
    ASSUME IInv, BudgetInv, NEW r \in Reqs, req[r].pc \in Submits
    PROVE  /\ req[r].sess \in Sessions /\ r \in Subs(req, req[r].sess)
           /\ session[req[r].sess].status # "NONE"
<1>1. req[r].sess \in Sessions
  BY OfRequest DEF SafeRequest
<1>2. r \in Subs(req, req[r].sess)
  BY DEF Subs
<1> QED
  BY <1>1, <1>2, OfSession DEF Untouched

\* Updates of the session rows by requests other than its submissions, or that
\* close it.
LEMMA HoldAlike ==
    ASSUME IInv, NEW s0 \in Sessions \cup {0}, EnterSecurityHold(s0), NEW s \in Sessions
    PROVE  /\ Alike(session[s], session'[s])
           /\ s = s0 => session'[s].status = "HOLD"
           /\ s # s0 => session'[s] = session[s]
BY DEF EnterSecurityHold, IInv, TypeOK, SessionRow, Alike

LEMMA ClosedAlike ==
    ASSUME IInv, NEW s0 \in Sessions \cup {0}, NEW tries,
           NEW status \in {"SUCCESS", "FAILED", "EXPIRED"},
           session' = Closed(s0, status, tries), NEW s \in Sessions
    PROVE  /\ Alike(session[s], session'[s])
           /\ s = s0 => session'[s].status = status
           /\ s # s0 => session'[s] = session[s]
BY DEF Closed, IInv, TypeOK, SessionRow, Alike

\* startPairingSession, but for the creation of a session.
LEMMA StartBudget ==
    ASSUME IInv, BudgetInv, NEW r \in Reqs,
           \/ StartHoldCheck(r) \/ StartFind(r) \/ StartAnswered(r) \/ StartReplyOk(r)
           \/ StartReplyCooldown(r) \/ SubmitExpire(r) \/ SubmitToken(r) \/ UnpairCommit(r)
           \/ ReportUpsert(r) \/ GroupFree(r) \/ GroupCreate(r)
    PROVE  BudgetInv'
<1>0. req \in [Reqs -> Request] /\ session \in [Sessions -> SessionRow] /\ req[r] \in Request
  BY DEF IInv, TypeOK
<1>1. RequestStep(r)
  BY DEF RequestStep
<1>2. PICK q \in Request :
        /\ req' = [req EXCEPT ![r] = q]
        /\ \/ q.pc \notin CarefulPcs
           \/ SubmitHoldCheck(r) /\ ~ Held /\ q.pc = "sAtDongle" /\ UNCHANGED rows
           \/ SubmitAnswered(r) /\ q.pc = "sReply" /\ UNCHANGED rows
           \/ SubmitOk(r) /\ q.pc = "sToken" /\ q.user = req[r].user
           \/ GroupFree(r) /\ q.pc = "gCreate" /\ q.user = req[r].user /\ UNCHANGED rows
  BY <1>1, StepLeads
<1>3. /\ req[r].pc \notin Submits /\ UNCHANGED <<wrong, uncounted>>
      /\ req'[r].pc \notin {"sHold", "sAtDongle", "sReply"}
  <2>1. /\ req[r].pc \notin Submits \cup {"sAtDongle"}
        /\ UNCHANGED <<wrong, uncounted>>
    BY DEF StartHoldCheck, StartFind, StartAnswered, StartReplyOk, StartReplyCooldown,
       SubmitExpire, SubmitToken, UnpairCommit, ReportUpsert, GroupFree, GroupCreate, At,
       Submits, history
  <2>2. req'[r].pc # "sHold"
    <3>1. CASE Finish(r)
      BY <1>0, <3>1 DEF Finish, Idle
    <3>2. CASE \E pc \in PCs \ {"sHold"} : Goto(r, pc)
      BY <1>0, <3>2 DEF Goto, Request
    <3>3. CASE StartFind(r)
      <4>1. CASE \E s \in Sessions :
                   req' = [req EXCEPT ![r] = [@ EXCEPT !.pc = "tAtDongle", !.sess = s]]
        BY <1>0, <4>1 DEF Request
      <4> QED
        BY <3>1, <3>2, <3>3, <4>1 DEF StartFind, LatestActiveSession, ActiveSessionsOf, PCs
    <3>4. CASE StartAnswered(r)
      BY <1>0, <3>4 DEF StartAnswered, Request
    <3> QED
      BY <3>1, <3>2, <3>3, <3>4 DEF StartHoldCheck, StartReplyOk, StartReplyCooldown,
         SubmitExpire, SubmitToken, UnpairCommit, ReportUpsert, GroupFree, GroupCreate, PCs
  <2>3. ~ SubmitHoldCheck(r) /\ ~ SubmitAnswered(r)
    BY <2>1 DEF SubmitHoldCheck, SubmitAnswered, At, Submits
  <2>4. req'[r] = q
    BY <1>0, <1>2
  <2> QED
    BY <1>2, <2>1, <2>2, <2>3, <2>4 DEF CarefulPcs
<1>4. q.pc \notin Submits
  BY <1>0, <1>2, <1>3 DEF Submits
<1>5. ASSUME NEW s \in Sessions PROVE Alike(session[s], session'[s])
  <2>1. req[r].sess \in Sessions \cup {0}
    BY <1>0 DEF Request
  <2>2. CASE UNCHANGED session
    BY <2>2 DEF Alike
  <2>3. CASE StartReplyOk(r)
    <3>1. session[s] \in SessionRow
      BY <1>0
    <3>2. session'[s].status = session[s].status /\ session'[s].attempts = session[s].attempts
      BY <1>0, <2>3, <3>1 DEF StartReplyOk, SessionRow
    <3> QED
      BY <3>2 DEF Alike
  <2>4. CASE StartReplyCooldown(r)
    BY <2>1, <2>4, HoldAlike DEF StartReplyCooldown
  <2>5. CASE SubmitExpire(r)
    BY <2>1, <2>5, ClosedAlike DEF SubmitExpire
  <2>6. CASE UnpairCommit(r)
    <3>1. session[s] \in SessionRow
      BY <1>0
    <3> QED
      BY <2>6, <3>1 DEF UnpairCommit, SessionRow, Alike
  <2> QED
    BY <2>2, <2>3, <2>4, <2>5, <2>6 DEF rows, StartHoldCheck, StartFind, StartAnswered,
       SubmitToken, ReportUpsert, GroupFree, GroupCreate
<1> QED
  BY <1>2, <1>3, <1>4, <1>5, QuietBudget

LEMMA CreateBudget ==
    ASSUME IInv, BudgetInv, NEW r \in Reqs, StartCreate(r)
    PROVE  BudgetInv'
<1>0. req \in [Reqs -> Request] /\ session \in [Sessions -> SessionRow] /\ req[r] \in Request
  BY DEF IInv, TypeOK
<1>1. PICK s0 \in Sessions :
        /\ session[s0].status = "NONE"
        /\ session' = [session EXCEPT ![s0] = [NoSession EXCEPT !.status = "ACTIVE",
                                                               !.user = req[r].user,
                                                               !.running = TRUE]]
        /\ req' = [req EXCEPT ![r] = [@ EXCEPT !.pc = "tAtDongle", !.sess = s0]]
  BY DEF StartCreate
<1> DEFINE q == [req[r] EXCEPT !.pc = "tAtDongle", !.sess = s0]
<1>2. q \in Request /\ q.pc = "tAtDongle" /\ req' = [req EXCEPT ![r] = q]
  BY <1>0, <1>1 DEF Request, PCs
<1> HIDE DEF q
<1>3. session'[s0].status = "ACTIVE" /\ session'[s0].attempts = 0
  BY <1>0, <1>1 DEF NoSession
<1>4. \A s \in Sessions \ {s0} : session'[s] = session[s]
  BY <1>0, <1>1
<1>5. req[r].pc = "tCreate" /\ UNCHANGED <<wrong, uncounted>>
  BY DEF StartCreate, At, history
<1>6. wrong[s0] = 0 /\ Subs(req, s0) = {}
  BY <1>1, OfSession DEF Untouched
<1>7. Subs(req', s0) = {}
  <2>1. Alike(session[s0], session[s0]) /\ r \notin Subs(req, s0) /\ q.pc \notin Submits
    BY <1>2, <1>6 DEF Alike, Submits
  <2> QED
    BY <1>0, <1>2, <1>6, <2>1, OthersCount
<1>8. Counted(req', session'[s0], wrong'[s0], s0)
  BY <1>3, <1>5, <1>6, <1>7, PairingAssumption DEF Counted
<1>9. req[r].pc \notin Submits /\ q.pc \notin Submits
  BY <1>2, <1>5 DEF Submits
<1> QED
  BY <1>2, <1>3, <1>4, <1>5, <1>8, <1>9, SubmissionBudget

LEMMA SubmitReadBudget ==
    ASSUME IInv, BudgetInv, NEW r \in Reqs, NEW u \in Users, NEW s0 \in Sessions,
           SubmitRead(r, u, s0)
    PROVE  BudgetInv'
<1>0. req \in [Reqs -> Request] /\ session \in [Sessions -> SessionRow]
  BY DEF IInv, TypeOK
<1> DEFINE q == [Idle EXCEPT !.pc = IF session[s0].running THEN "sHold" ELSE "sExpire",
                             !.user = u, !.sess = s0, !.attempts = session[s0].attempts]
<1>1. /\ req' = [req EXCEPT ![r] = q] /\ UNCHANGED <<session, wrong>>
      /\ req[r].pc = "idle" /\ session[s0].status = "ACTIVE"
  BY DEF SubmitRead, rows, At
<1>2. session[s0].attempts \in Nat
  BY <1>0 DEF SessionRow
<1>3. /\ q \in Request /\ q.sess = s0 /\ q.attempts = session[s0].attempts
      /\ q.pc = IF session[s0].running THEN "sHold" ELSE "sExpire"
  BY <1>2, IdleSafe DEF Idle, Request, PCs, UserOrNone
<1> HIDE DEF q
<1>4. req[r].pc \notin Submits
  BY <1>1 DEF Submits
<1>5. CASE ~ session[s0].running
  <2>1. q.pc \notin Submits /\ uncounted' = uncounted
    BY <1>3, <1>5 DEF Submits, SubmitRead
  <2> QED
    BY <1>1, <1>3, <1>4, <2>1, QuietBudget DEF Alike
<1>6. CASE session[s0].running /\ Subs(req, s0) # {}
  <2>1. uncounted' = uncounted \cup {s0}
    BY <1>6, SubsAre DEF SubmitRead
  <2> QED
    BY <1>1, <1>3, <1>4, <2>1, SubmissionBudget
<1>7. CASE session[s0].running /\ Subs(req, s0) = {}
  <2>1. uncounted' = uncounted
    BY <1>7, SubsAre DEF SubmitRead
  <2>2. req'[r] = q /\ \A p \in Reqs \ {r} : req'[p] = req[p]
    BY <1>0, <1>1
  <2>3. Subs(req', s0) = {r}
    BY <1>3, <1>7, <2>2 DEF Subs, Submits
  <2>4. ASSUME s0 \notin uncounted PROVE Counted(req', session[s0], wrong[s0], s0)
    <3>1. Counted(req, session[s0], wrong[s0], s0) /\ wrong[s0] \in Nat
      BY <2>4, OfSession
    <3>2. wrong[s0] = session[s0].attempts /\ wrong[s0] <= MaxPinAttempts
      BY <1>1, <1>7, <3>1 DEF Counted
    <3>3. session[s0].attempts < MaxPinAttempts
      BY <1>1, OfSession DEF SafeSession
    <3>4. Judged(q) = 0
      BY <1>3, <1>7 DEF Judged
    <3>5. wrong[s0] = q.attempts + Judged(q)
      BY <1>2, <1>3, <3>2, <3>4
    <3> QED
      BY <1>3, <2>2, <2>3, <3>2, <3>3, <3>5 DEF Counted
  <2> QED
    BY <1>1, <1>3, <1>4, <2>1, <2>4, SubmissionBudget
<1> QED
  BY <1>5, <1>6, <1>7

LEMMA NewBudget ==
    ASSUME IInv, BudgetInv, NEW r \in Reqs, NewRequest(r)
    PROVE  BudgetInv'
<1>0. req \in [Reqs -> Request]
  BY DEF IInv, TypeOK
<1>1. CASE \E u \in Users, s \in Sessions : SubmitRead(r, u, s)
  BY <1>1, SubmitReadBudget
<1>2. CASE \/ ReportRead(r)
           \/ \E u \in Users : \/ StartRead(r, u) \/ UnpairRead(r, u)
                               \/ ForceUnpairRead(r, u) \/ GroupCheck(r, u)
  <2>1. UNCHANGED rows /\ \E q \in Request : req' = [req EXCEPT ![r] = q]
    BY NewIsFresh
  <2>2. PICK q \in Request : req' = [req EXCEPT ![r] = q]
    BY <2>1
  <2>3. /\ req[r].pc = "idle" /\ req'[r].pc \in {"rUpsert", "tHold", "uTx", "fTx", "gFree"}
        /\ UNCHANGED <<wrong, uncounted>>
    BY <1>0, <1>2 DEF ReportRead, StartRead, UnpairRead, ForceUnpairRead, GroupCheck, At,
       Idle, history
  <2>4. req[r].pc \notin Submits /\ q.pc \notin Submits
    BY <1>0, <2>2, <2>3 DEF Submits
  <2>5. \A s \in Sessions : Alike(session[s], session'[s])
    BY <2>1 DEF rows, Alike
  <2> QED
    BY <2>2, <2>3, <2>4, <2>5, QuietBudget
<1> QED
  BY <1>1, <1>2 DEF NewRequest
\* A submission that ends, having recorded what it heard.
LEMMA EndsBudget ==
    ASSUME IInv, BudgetInv, NEW r \in Reqs, req[r].pc \in Submits,
           NEW q \in Request, q.pc \notin Submits, req' = [req EXCEPT ![r] = q],
           UNCHANGED wrong, uncounted \subseteq uncounted',
           \A s \in Sessions \ {req[r].sess} : session'[s] = session[s],
           session'[req[r].sess].status # "NONE",
           req[r].sess \notin uncounted' /\ session'[req[r].sess].status = "ACTIVE" =>
              session'[req[r].sess].attempts = wrong[req[r].sess]
    PROVE  BudgetInv'
<1> DEFINE s0 == req[r].sess
<1>1. s0 \in Sessions /\ r \in Subs(req, s0)
  BY SubmissionHas
<1>2. req \in [Reqs -> Request]
  BY DEF IInv, TypeOK
<1> HIDE DEF s0
<1>3. ASSUME s0 \notin uncounted' PROVE Counted(req', session'[s0], wrong'[s0], s0)
  <2>1. Counted(req, session[s0], wrong[s0], s0)
    BY <1>1, <1>3, OfSession
  <2>2. session'[s0].status = "ACTIVE" => session'[s0].attempts = wrong[s0]
    BY <1>3 DEF s0
  <2> QED
    BY <1>1, <1>2, <2>1, <2>2, EndsCount
<1> QED
  BY <1>1, <1>3, SubmissionBudget DEF s0

\* What the counter of an open session is while a submission is in flight.
LEMMA CounterOf ==
    ASSUME IInv, BudgetInv, NEW r \in Reqs, req[r].pc \in Submits,
           req[r].sess \notin uncounted, session[req[r].sess].status = "ACTIVE"
    PROVE  /\ session[req[r].sess].attempts = req[r].attempts
           /\ wrong[req[r].sess] = req[r].attempts + Judged(req[r])
           /\ req[r].attempts \in Nat
<1>1. req[r].sess \in Sessions /\ r \in Subs(req, req[r].sess)
  BY SubmissionHas
<1>2. Counted(req, session[req[r].sess], wrong[req[r].sess], req[r].sess)
  BY <1>1, OfSession
<1>3. req[r].attempts \in Nat
  BY DEF IInv, TypeOK, Request
<1> QED
  BY <1>1, <1>2, <1>3 DEF Counted

LEMMA HoldCheckBudget ==
    ASSUME IInv, BudgetInv, NEW r \in Reqs, SubmitHoldCheck(r)
    PROVE  BudgetInv'
<1>0. req \in [Reqs -> Request] /\ req[r] \in Request
  BY DEF IInv, TypeOK
<1>1. req[r].pc = "sHold" /\ UNCHANGED <<session, wrong, uncounted>>
  BY DEF SubmitHoldCheck, At, rows, history
<1>2. req[r].pc \in Submits /\ Judged(req[r]) = 0
  BY <1>1 DEF Submits, Judged
<1>3. /\ req[r].sess \in Sessions /\ r \in Subs(req, req[r].sess)
      /\ session[req[r].sess].status # "NONE"
  BY <1>2, SubmissionHas
<1>4. CASE Finish(r)
  <2>1. Idle \in Request /\ Idle.pc \notin Submits
    BY IdleSafe DEF Idle, Submits
  <2>2. ASSUME req[r].sess \notin uncounted', session'[req[r].sess].status = "ACTIVE"
        PROVE  session'[req[r].sess].attempts = wrong[req[r].sess]
    BY <1>1, <1>2, <2>2, CounterOf
  <2> QED
    BY <1>1, <1>2, <1>3, <1>4, <2>1, <2>2, EndsBudget DEF Finish
<1>5. CASE Goto(r, "sAtDongle")
  <2> DEFINE q == [req[r] EXCEPT !.pc = "sAtDongle"]
  <2>1. /\ q \in Request /\ q.pc = "sAtDongle" /\ q.sess = req[r].sess
        /\ q.attempts = req[r].attempts
    BY <1>0 DEF Request, PCs
  <2>2. req' = [req EXCEPT ![r] = q]
    BY <1>0, <1>5 DEF Goto
  <2> HIDE DEF q
  <2>3. Judged(q) = 0 /\ q.pc \in Submits
    BY <2>1 DEF Judged, Submits
  <2>4. wrong[req[r].sess] \in Nat
    BY <1>3 DEF IInv, TypeOK
  <2>5. ASSUME req[r].sess \notin uncounted
        PROVE  Counted(req', session[req[r].sess], wrong[req[r].sess], req[r].sess)
    <3>1. Counted(req, session[req[r].sess], wrong[req[r].sess], req[r].sess)
      BY <1>3, <2>5, OfSession
    <3>2. Counted(req', session[req[r].sess], wrong[req[r].sess] + Judged(q), req[r].sess)
      BY <1>0, <1>2, <1>3, <2>1, <2>2, <2>3, <2>4, <3>1, GoesOnCount
    <3> QED
      BY <2>3, <2>4, <3>2
  <2> QED
    BY <1>1, <1>3, <2>1, <2>2, <2>5, SubmissionBudget
<1> QED
  BY <1>4, <1>5 DEF SubmitHoldCheck

LEMMA AnsweredBudget ==
    ASSUME IInv, BudgetInv, NEW r \in Reqs, SubmitAnswered(r)
    PROVE  BudgetInv'
<1>0. req \in [Reqs -> Request] /\ req[r] \in Request /\ wrong \in [Sessions -> Nat]
  BY DEF IInv, TypeOK
<1>1. req[r].pc = "sAtDongle" /\ UNCHANGED <<session, uncounted>>
  BY DEF SubmitAnswered, At, rows
<1>2. req[r].pc \in Submits /\ Judged(req[r]) = 0
  BY <1>1 DEF Submits, Judged
<1>3. /\ req[r].sess \in Sessions /\ r \in Subs(req, req[r].sess)
      /\ session[req[r].sess].status # "NONE"
  BY <1>2, SubmissionHas
<1>4. PICK a \in Answers :
        /\ req' = [req EXCEPT ![r] = [@ EXCEPT !.pc = "sReply", !.ans = a]]
        /\ wrong' = IF a = "invalid_pin" THEN [wrong EXCEPT ![req[r].sess] = @ + 1] ELSE wrong
  BY DEF SubmitAnswered
<1> DEFINE q == [req[r] EXCEPT !.pc = "sReply", !.ans = a]
<1>5. /\ q \in Request /\ q.pc = "sReply" /\ q.sess = req[r].sess
      /\ q.attempts = req[r].attempts /\ q.ans = a
  BY <1>0 DEF Request, PCs
<1>6. req' = [req EXCEPT ![r] = q]
  BY <1>0, <1>4
<1> HIDE DEF q
<1>7. /\ wrong'[req[r].sess] = wrong[req[r].sess] + Judged(q)
      /\ \A s \in Sessions \ {req[r].sess} : wrong'[s] = wrong[s]
  <2>1. CASE a = "invalid_pin"
    <3>1. Judged(q) = 1
      BY <1>5, <2>1 DEF Judged
    <3> QED
      BY <1>0, <1>3, <1>4, <2>1, <3>1
  <2>2. CASE a # "invalid_pin"
    <3>1. Judged(q) = 0
      BY <1>5, <2>2 DEF Judged
    <3>2. wrong[req[r].sess] \in Nat
      BY <1>0, <1>3
    <3> QED
      BY <1>4, <2>2, <3>1, <3>2
  <2> QED
    BY <2>1, <2>2
<1>8. ASSUME req[r].sess \notin uncounted
      PROVE  Counted(req', session[req[r].sess], wrong'[req[r].sess], req[r].sess)
  <2>1. Counted(req, session[req[r].sess], wrong[req[r].sess], req[r].sess)
    BY <1>3, <1>8, OfSession
  <2>2. q.pc \in Submits /\ wrong[req[r].sess] \in Nat
    BY <1>0, <1>3, <1>5 DEF Submits
  <2>3. Counted(req', session[req[r].sess], wrong[req[r].sess] + Judged(q), req[r].sess)
    BY <1>0, <1>2, <1>3, <1>5, <1>6, <2>1, <2>2, GoesOnCount
  <2> QED
    BY <1>7, <2>3
<1> QED
  BY <1>1, <1>3, <1>5, <1>6, <1>7, <1>8, SubmissionBudget

\* The records of the verdict: all but a wrong PIN below the limit close the session.
LEMMA RecordBudget ==
    ASSUME IInv, BudgetInv, NEW r \in Reqs,
           SubmitCooldown(r) \/ SubmitFailed(r) \/ SubmitInvalidPin(r) \/ SubmitOk(r)
    PROVE  BudgetInv'
<1>0. req \in [Reqs -> Request] /\ req[r] \in Request
  BY DEF IInv, TypeOK
<1>1. req[r].pc = "sReply" /\ UNCHANGED <<wrong, uncounted>>
  BY DEF SubmitCooldown, SubmitFailed, SubmitInvalidPin, SubmitOk, At, history
<1>2. req[r].pc \in Submits
  BY <1>1 DEF Submits
<1>3. req[r].sess \in Sessions /\ session[req[r].sess].status # "NONE"
  BY <1>2, SubmissionHas
<1>4. PICK q \in Request : req' = [req EXCEPT ![r] = q] /\ q.pc \notin Submits
  <2>1. Idle \in Request /\ Idle.pc \notin Submits
    BY IdleSafe DEF Idle, Submits
  <2>2. CASE Finish(r)
    BY <2>1, <2>2 DEF Finish
  <2>3. CASE SubmitOk(r)
    <3>1. [req[r] EXCEPT !.pc = "sToken"] \in Request
      BY <1>0 DEF Request, PCs
    <3>2. [req[r] EXCEPT !.pc = "sToken"].pc \notin Submits
      BY <1>0 DEF Request, Submits
    <3> QED
      BY <1>0, <2>3, <3>1, <3>2 DEF SubmitOk, Goto
  <2> QED
    BY <2>2, <2>3 DEF SubmitCooldown, SubmitFailed, SubmitInvalidPin
<1>5. CASE \E status \in {"SUCCESS", "FAILED", "EXPIRED"}, tries \in {0, 1} :
              session' = Closed(req[r].sess, status, tries)
  <2>1. PICK status \in {"SUCCESS", "FAILED", "EXPIRED"}, tries \in {0, 1} :
              session' = Closed(req[r].sess, status, tries)
    BY <1>5
  <2>2. /\ session'[req[r].sess].status = status
        /\ \A s \in Sessions \ {req[r].sess} : session'[s] = session[s]
    BY <1>3, <2>1, ClosedAlike
  <2> QED
    BY <1>1, <1>2, <1>4, <2>2, EndsBudget
<1>6. CASE EnterSecurityHold(req[r].sess)
  <2>1. /\ session'[req[r].sess].status = "HOLD"
        /\ \A s \in Sessions \ {req[r].sess} : session'[s] = session[s]
    BY <1>3, <1>6, HoldAlike
  <2> QED
    BY <1>1, <1>2, <1>4, <2>1, EndsBudget
<1>7. CASE /\ SubmitInvalidPin(r)
           /\ session' = [session EXCEPT ![req[r].sess].attempts = req[r].attempts + 1]
  <2>1. session[req[r].sess] \in SessionRow
    BY <1>3 DEF IInv, TypeOK
  <2>2. /\ session'[req[r].sess] = [session[req[r].sess] EXCEPT !.attempts = req[r].attempts + 1]
        /\ \A s \in Sessions \ {req[r].sess} : session'[s] = session[s]
    BY <1>3, <1>7 DEF IInv, TypeOK
  <2>3. /\ session'[req[r].sess].status = session[req[r].sess].status
        /\ session'[req[r].sess].attempts = req[r].attempts + 1
    BY <2>1, <2>2 DEF SessionRow
  <2>4. Judged(req[r]) = 1
    BY <1>1, <1>7 DEF Judged, SubmitInvalidPin
  <2>5. ASSUME req[r].sess \notin uncounted', session'[req[r].sess].status = "ACTIVE"
        PROVE  session'[req[r].sess].attempts = wrong[req[r].sess]
    <3>1. wrong[req[r].sess] = req[r].attempts + Judged(req[r])
      BY <1>1, <1>2, <2>3, <2>5, CounterOf
    <3> QED
      BY <2>3, <2>4, <3>1
  <2> QED
    BY <1>1, <1>2, <1>3, <1>4, <2>2, <2>3, <2>5, EndsBudget
<1> QED
  BY <1>5, <1>6, <1>7 DEF SubmitCooldown, SubmitFailed, SubmitInvalidPin, SubmitOk

\* A submission that breaks off either had no wrong PIN to record, or takes its
\* session out of the count.
LEMMA AbandonBudget ==
    ASSUME IInv, BudgetInv, NEW r \in Reqs, Abandon(r)
    PROVE  BudgetInv'
<1>0. req \in [Reqs -> Request] /\ Idle \in Request /\ Idle.pc \notin Submits
  BY IdleSafe DEF IInv, TypeOK, Idle, Submits
<1>1. /\ req' = [req EXCEPT ![r] = Idle] /\ UNCHANGED <<session, wrong>>
      /\ uncounted' = uncounted \cup Unrecorded({r})
  BY DEF Abandon, Finish, rows
<1>2. CASE req[r].pc \notin Submits
  BY <1>0, <1>1, <1>2, QuietBudget DEF Alike
<1>3. CASE req[r].pc \in Submits
  <2>1. req[r].sess \in Sessions /\ session[req[r].sess].status # "NONE"
    BY <1>3, SubmissionHas
  <2>2. ASSUME req[r].sess \notin uncounted', session'[req[r].sess].status = "ACTIVE"
        PROVE  session'[req[r].sess].attempts = wrong[req[r].sess]
    <3>1. Judged(req[r]) = 0
      BY <1>1, <2>2 DEF Unrecorded, At, Judged
    <3>2. /\ session[req[r].sess].attempts = req[r].attempts
          /\ wrong[req[r].sess] = req[r].attempts + Judged(req[r])
          /\ req[r].attempts \in Nat
      BY <1>1, <1>3, <2>2, CounterOf
    <3> QED
      BY <1>1, <3>1, <3>2
  <2> QED
    BY <1>0, <1>1, <1>3, <2>1, <2>2, EndsBudget
<1> QED
  BY <1>2, <1>3

\* The clock, and the end of all requests at once.
LEMMA ClockBudget ==
    ASSUME IInv, BudgetInv, NEW s0 \in Sessions, Expire(s0) \/ HoldLapse(s0)
    PROVE  BudgetInv'
<1>1. UNCHANGED <<req, wrong, uncounted>>
  BY DEF Expire, HoldLapse, history
<1>2. ASSUME NEW s \in Sessions
      PROVE  /\ session'[s].status = session[s].status
             /\ session'[s].attempts = session[s].attempts
  <2>1. session[s] \in SessionRow
    BY DEF IInv, TypeOK
  <2>2. \/ session'[s] = session[s]
        \/ session'[s] = [session[s] EXCEPT !.running = FALSE, !.nonce = FALSE]
        \/ session'[s] = [session[s] EXCEPT !.running = FALSE]
    BY DEF IInv, TypeOK, Expire, HoldLapse
  <2> QED
    BY <2>1, <2>2 DEF SessionRow
<1> QED
  BY <1>1, <1>2 DEF BudgetInv, Untouched, Counted

LEMMA RestartBudget ==
    ASSUME IInv, BudgetInv, Restart
    PROVE  BudgetInv'
<1>1. /\ req' = [r \in Reqs |-> Idle] /\ UNCHANGED <<session, wrong>>
      /\ uncounted' = uncounted \cup Unrecorded(Reqs)
  BY DEF Restart, rows
<1> SUFFICES ASSUME NEW s \in Sessions
             PROVE  /\ Untouched(req', session[s], wrong[s], s)
                    /\ s \notin uncounted' => Counted(req', session[s], wrong[s], s)
  BY <1>1 DEF BudgetInv
<1>2. Subs(req', s) = {}
  BY <1>1 DEF Subs, Submits, Idle
<1>3. Untouched(req', session[s], wrong[s], s)
  BY <1>2, OfSession DEF Untouched
<1>4. ASSUME s \notin uncounted' PROVE Counted(req', session[s], wrong[s], s)
  <2>1. Counted(req, session[s], wrong[s], s)
    BY <1>1, <1>4, OfSession
  <2>2. ASSUME session[s].status = "ACTIVE" PROVE session[s].attempts = wrong[s]
    <3>1. CASE Subs(req, s) = {}
      BY <2>1, <2>2, <3>1 DEF Counted
    <3>2. ASSUME NEW r \in Subs(req, s) PROVE session[s].attempts = wrong[s]
      <4>1. r \in Reqs /\ req[r].sess = s /\ req[r].pc \in Submits
        BY <3>2 DEF Subs
      <4>2. Judged(req[r]) = 0
        BY <1>1, <1>4, <4>1 DEF Unrecorded, At, Judged
      <4>3. /\ session[req[r].sess].attempts = req[r].attempts
            /\ wrong[req[r].sess] = req[r].attempts + Judged(req[r])
            /\ req[r].attempts \in Nat
        BY <1>1, <1>4, <2>2, <4>1, CounterOf
      <4> QED
        BY <4>1, <4>2, <4>3
    <3> QED
      BY <3>1, <3>2
  <2> QED
    BY <1>2, <2>1, <2>2 DEF Counted
<1> QED
  BY <1>3, <1>4

LEMMA InitBudget == Init => BudgetInv
<1> SUFFICES ASSUME Init PROVE BudgetInv
  OBVIOUS
<1> SUFFICES ASSUME NEW s \in Sessions
             PROVE  Untouched(req, session[s], wrong[s], s) /\ Counted(req, session[s], wrong[s], s)
  BY DEF BudgetInv
<1>1. Subs(req, s) = {} /\ session[s].status = "NONE" /\ wrong[s] = 0
  BY DEF Init, Subs, Idle, Submits, NoSession
<1> QED
  BY <1>1, PairingAssumption DEF Untouched, Counted

LEMMA NextKeepsBudget == IInv /\ BudgetInv /\ [Next]_vars => BudgetInv'
<1> SUFFICES ASSUME IInv, BudgetInv, [Next]_vars PROVE BudgetInv'
  OBVIOUS
<1>1. ASSUME NEW r \in Reqs, RequestStep(r) PROVE BudgetInv'
  BY <1>1, StartBudget, CreateBudget, HoldCheckBudget, AnsweredBudget, RecordBudget,
     AbandonBudget DEF RequestStep
<1>2. CASE UNCHANGED vars
  BY <1>2 DEF vars, rows, history, BudgetInv, Untouched, Counted, Subs
<1> QED
  BY <1>1, <1>2, NewBudget, ClockBudget, RestartBudget DEF Next

\* Spec 11.2: unless submissions of it overlap or break off between the verdict
\* and its record, no session ever takes more than MAX_PIN_ATTEMPTS wrong PINs.
THEOREM PinBudgetHolds == Spec => []PinBudget
<1>1. BudgetInv => PinBudget
  BY DEF BudgetInv, Counted, PinBudget
<1> QED
  BY <1>1, InitIInv, NextKeepsIInv, InitBudget, NextKeepsBudget, PTL DEF Spec
=============================================================================
