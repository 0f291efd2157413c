------------------------------ MODULE Pairing ------------------------------
(***************************************************************************)
(* Ownership of one dongle in the dashboard API: pairing sessions, PIN     *)
(* submission, security hold, unpairing, the encrypted dongle token, group *)
(* membership and the agent's device report.                               *)
(*                                                                         *)
(* The API is one Node process, so the code between two awaits is atomic   *)
(* and every await is a point where another request may run.  A request in *)
(* flight is a record in `req`: its `pc` names the await it is suspended   *)
(* at, the other fields are the local variables it still needs.  Each      *)
(* Prisma statement and each $transaction of blind writes is one step.  A  *)
(* request whose guard fails throws: it ends and changes nothing.          *)
(*                                                                         *)
(* Time is abstract: `running` is expiresAt > now for an ACTIVE session    *)
(* and holdUntil > now for one in HOLD; `nonce` is a stored pairingNonce   *)
(* of an ACTIVE session that runs.  Nothing reads these otherwise.  Expire *)
(* and HoldLapse are the clock.                                            *)
(***************************************************************************)
EXTENDS Naturals

CONSTANTS
    Users,          \* accounts that call the API
    Admins,         \* those with the role super_admin
    Reporters,      \* owner_user_id values a device report may carry
    Reqs,           \* slots for requests in flight at the same time
    MaxSessions,    \* bound: PairingSession rows ever created
    MaxPinAttempts, \* MAX_PIN_ATTEMPTS
    MaxWrong,       \* bound: wrong PINs the API hears of per session
    Calls,          \* bound: the operations the clients of this instance call
    MayCrash,       \* whether the API process may stop and restart
    None            \* SQL NULL

ASSUME PairingAssumption ==
    /\ Admins \subseteq Users
    /\ Reporters \subseteq Users
    /\ None \notin Users
    /\ MaxSessions \in Nat /\ MaxPinAttempts \in Nat \ {0} /\ MaxWrong \in Nat
    /\ Calls \subseteq {"start", "submit", "unpair", "force", "report", "group"}
    /\ MayCrash \in BOOLEAN

Sessions == 1 .. MaxSessions
UserOrNone == Users \cup {None}
OwnershipStates == {"UNCLAIMED", "CLAIMED_ACTIVE", "SECURITY_HOLD"}
SessionStatus == {"NONE", "ACTIVE", "SUCCESS", "FAILED", "EXPIRED", "HOLD"}
Answers == {"ok", "invalid_pin", "cooldown", "error"}

VARIABLES
    dongle,     \* the Dongle row: ownerUserId and ownershipState
    session,    \* the PairingSession rows, numbered by createdAt
    token,      \* the DongleToken row: the user its AAD was sealed for
    grouped,    \* the user who put the dongle in a DongleGroup, if any
    req,        \* the requests in flight
    confirmed,  \* history: users whose PIN the dongle answered ok
    wrong,      \* history: invalid_pin answers the API got per session
    uncounted,  \* history: sessions with a submission that overlapped another,
                \* or ended between such an answer and the update of its count
    overtaken   \* history: requests in flight since whose start (or, past the
                \* ownership transaction, since then) another one has changed
                \* the dongle's row or begun a hold

rows == <<dongle, session, token, grouped>>
history == <<confirmed, wrong, uncounted>>
vars == <<rows, req, history, overtaken>>

PCs == {"idle", "tHold", "tFind", "tCreate", "tAtDongle", "tReply",
        "sExpire", "sHold", "sAtDongle", "sReply", "sToken",
        "uTx", "fTx", "rUpsert", "gFree", "gCreate"}

SessionRow == [status: SessionStatus, user: UserOrNone, attempts: Nat,
               nonce: BOOLEAN, running: BOOLEAN]
DongleRow == [owner: UserOrNone, state: OwnershipStates]
Request == [pc: PCs, user: UserOrNone, sess: Sessions \cup {0}, attempts: Nat,
            seen: DongleRow, ans: Answers]

\* Type correctness of the rows and of every request in flight.
TypeOK ==
    /\ dongle \in DongleRow
    /\ session \in [Sessions -> SessionRow]
    /\ token \in UserOrNone
    /\ grouped \in UserOrNone
    /\ req \in [Reqs -> Request]
    /\ confirmed \subseteq Users
    /\ wrong \in [Sessions -> Nat]
    /\ uncounted \subseteq Sessions
    /\ overtaken \subseteq Reqs

Unclaimed == [owner |-> None, state |-> "UNCLAIMED"]
NoSession == [status |-> "NONE", user |-> None, attempts |-> 0,
              nonce |-> FALSE, running |-> FALSE]
Idle == [pc |-> "idle", user |-> None, sess |-> 0, attempts |-> 0,
         seen |-> Unclaimed, ans |-> "error"]

Init ==
    /\ dongle = Unclaimed
    /\ session = [s \in Sessions |-> NoSession]
    /\ token = None
    /\ grouped = None
    /\ req = [r \in Reqs |-> Idle]
    /\ confirmed = {}
    /\ wrong = [s \in Sessions |-> 0]
    /\ uncounted = {}
    /\ overtaken = {}

----------------------------------------------------------------------------
(* Helpers *)

At(r, pc) == req[r].pc = pc
Goto(r, pc) == req' = [req EXCEPT ![r].pc = pc]
Finish(r) == req' = [req EXCEPT ![r] = Idle]

\* latestHoldSession: some HOLD session of the dongle has holdUntil > now.
Held == \E s \in Sessions : session[s].status = "HOLD" /\ session[s].running

\* latestActiveSession: the youngest live session of the user (at most one).
ActiveSessionsOf(u) ==
    {s \in Sessions : /\ session[s].status = "ACTIVE"
                      /\ session[s].user = u
                      /\ session[s].running}
LatestActiveSession(u) ==
    {s \in ActiveSessionsOf(u) : \A t \in ActiveSessionsOf(u) : t <= s}

\* An unconditional update of the session's status and attempts.
Closed(s, status, tries) ==
    [session EXCEPT ![s] = [@ EXCEPT !.status = status, !.running = FALSE,
                                     !.nonce = FALSE,
                                     !.attempts = session[s].attempts + tries]]

\* Fault seeded to test TypeOK: the session's status is written to the dongle.
EnterSecurityHoldWrongState(s) ==
    /\ session' = [session EXCEPT ![s] = [@ EXCEPT !.status = "HOLD", !.running = TRUE,
                                                   !.nonce = FALSE]]
    /\ dongle' = [dongle EXCEPT !.state = "HOLD"]

\* enterSecurityHold, one transaction over the session and the dongle.
EnterSecurityHold(s) ==
    /\ session' = [session EXCEPT ![s] = [@ EXCEPT !.status = "HOLD", !.running = TRUE,
                                                   !.nonce = FALSE]]
    /\ dongle' = [dongle EXCEPT !.state = "SECURITY_HOLD"]

----------------------------------------------------------------------------
(* startPairingSession.  The agent being offline ends the request at any   *)
(* of its awaits (Abandon).                                                *)

\* findUnique, then the ownership and security-hold guards.
StartRead(r, u) ==
    /\ At(r, "idle")
    /\ dongle.owner \in {None, u}
    /\ dongle.state # "SECURITY_HOLD"
    /\ ~ (dongle.owner = u /\ dongle.state = "CLAIMED_ACTIVE")
    /\ req' = [req EXCEPT ![r] = [Idle EXCEPT !.pc = "tHold", !.user = u]]
    /\ UNCHANGED <<rows, history>>

StartHoldCheck(r) ==
    /\ At(r, "tHold")
    /\ IF Held THEN Finish(r) ELSE Goto(r, "tFind")
    /\ UNCHANGED <<rows, history>>

\* latestActiveSession: none, one without a nonce (asked again for pairing
\* mode), or one to return as it is.
StartFind(r) ==
    /\ At(r, "tFind")
    /\ \/ /\ LatestActiveSession(req[r].user) = {}
          /\ Goto(r, "tCreate")
       \/ \E s \in LatestActiveSession(req[r].user) :
             IF session[s].nonce
             THEN Finish(r)
             ELSE req' = [req EXCEPT ![r] = [@ EXCEPT !.pc = "tAtDongle", !.sess = s]]
    /\ UNCHANGED <<rows, history>>

\* The transaction that creates the session (rows are numbered in creation
\* order), followed by the pairing_mode_start control request.
StartCreate(r) ==
    /\ At(r, "tCreate")
    /\ \E s \in Sessions :
        /\ session[s].status = "NONE"
        /\ \A t \in Sessions : t < s => session[t].status # "NONE"
        /\ session' = [session EXCEPT ![s] = [NoSession EXCEPT !.status = "ACTIVE",
                                                               !.user = req[r].user,
                                                               !.running = TRUE]]
        /\ req' = [req EXCEPT ![r] = [@ EXCEPT !.pc = "tAtDongle", !.sess = s]]
    /\ UNCHANGED <<dongle, token, grouped, history>>

\* The agent reports the dongle's status: ok with a nonce and an expiry,
\* cooldown, or anything else.
StartAnswered(r) ==
    /\ At(r, "tAtDongle")
    /\ \E a \in Answers \ {"invalid_pin"} :
        req' = [req EXCEPT ![r] = [@ EXCEPT !.pc = "tReply", !.ans = a]]
    /\ UNCHANGED <<rows, history>>

StartReplyOk(r) ==
    /\ At(r, "tReply")
    /\ req[r].ans = "ok"
    /\ LET live == session[req[r].sess].status = "ACTIVE"
       IN  session' = [session EXCEPT ![req[r].sess] =
                         [@ EXCEPT !.nonce = live,
                                   !.running = session[req[r].sess].running \/ live]]
    /\ Finish(r)
    /\ UNCHANGED <<dongle, token, grouped, history>>

StartReplyCooldown(r) ==
    /\ At(r, "tReply")
    /\ req[r].ans = "cooldown"
    /\ EnterSecurityHold(req[r].sess)
    /\ Finish(r)
    /\ UNCHANGED <<token, grouped, history>>

----------------------------------------------------------------------------
(* submitPairing *)

\* The requests that bring a PIN to session s and have not recorded its verdict.
SubmissionsOf(s) ==
    {r \in Reqs : req[r].sess = s /\ req[r].pc \in {"sHold", "sAtDongle", "sReply"}}

\* findUnique of the session; an expired one is marked by a later update.
SubmitRead(r, u, s) ==
    /\ At(r, "idle")
    /\ session[s].status = "ACTIVE"
    /\ session[s].user = u
    /\ wrong[s] < MaxWrong
    /\ req' = [req EXCEPT ![r] =
                 [Idle EXCEPT !.pc = IF session[s].running THEN "sHold" ELSE "sExpire",
                              !.user = u,
                              !.sess = s,
                              !.attempts = session[s].attempts]]
    /\ uncounted' = IF session[s].running /\ SubmissionsOf(s) # {}
                     THEN uncounted \cup {s} ELSE uncounted
    /\ UNCHANGED <<rows, confirmed, wrong>>

SubmitExpire(r) ==
    /\ At(r, "sExpire")
    /\ session' = Closed(req[r].sess, "EXPIRED", 0)
    /\ Finish(r)
    /\ UNCHANGED <<dongle, token, grouped, history>>

\* Fault seeded to test HoldBlocksClaim: the hold is not looked up.
SubmitWithoutHoldCheck(r) ==
    /\ At(r, "sHold")
    /\ Goto(r, "sAtDongle")
    /\ UNCHANGED <<rows, history>>

\* latestHoldSession, then the pairing_submit control request (with the nonce
\* of the client or of the session; without one the request ends: Abandon).
SubmitHoldCheck(r) ==
    /\ At(r, "sHold")
    /\ IF Held THEN Finish(r) ELSE Goto(r, "sAtDongle")
    /\ UNCHANGED <<rows, history>>

\* The dongle judges the PIN; its answer travels back through the agent.
SubmitAnswered(r) ==
    /\ At(r, "sAtDongle")
    /\ \E a \in Answers :
        /\ req' = [req EXCEPT ![r] = [@ EXCEPT !.pc = "sReply", !.ans = a]]
        /\ confirmed' = IF a = "ok" THEN confirmed \cup {req[r].user} ELSE confirmed
        /\ wrong' = IF a = "invalid_pin" THEN [wrong EXCEPT ![req[r].sess] = @ + 1] ELSE wrong
    /\ UNCHANGED <<rows, uncounted>>

SubmitCooldown(r) ==
    /\ At(r, "sReply")
    /\ req[r].ans = "cooldown"
    /\ EnterSecurityHold(req[r].sess)
    /\ Finish(r)
    /\ UNCHANGED <<token, grouped, history>>

SubmitFailed(r) ==
    /\ At(r, "sReply")
    /\ req[r].ans = "error"
    /\ session' = Closed(req[r].sess, "FAILED", 1)
    /\ Finish(r)
    /\ UNCHANGED <<dongle, token, grouped, history>>

\* Fault seeded to test AttemptsSound: > instead of >= at the limit.
SubmitInvalidPinOffByOne(r) ==
    /\ At(r, "sReply")
    /\ req[r].ans = "invalid_pin"
    /\ IF req[r].attempts + 1 > MaxPinAttempts
       THEN EnterSecurityHold(req[r].sess)
       ELSE /\ session' = [session EXCEPT ![req[r].sess].attempts = req[r].attempts + 1]
            /\ UNCHANGED dongle
    /\ Finish(r)
    /\ UNCHANGED <<token, grouped, history>>

\* Fault seeded to test PinBudget: the new count is not saved.
SubmitInvalidPinUnsaved(r) ==
    /\ At(r, "sReply")
    /\ req[r].ans = "invalid_pin"
    /\ IF req[r].attempts + 1 >= MaxPinAttempts
       THEN EnterSecurityHold(req[r].sess)
       ELSE UNCHANGED <<session, dongle>>
    /\ Finish(r)
    /\ UNCHANGED <<token, grouped, history>>

\* nextAttempts is computed from the session as it was first read.
SubmitInvalidPin(r) ==
    /\ At(r, "sReply")
    /\ req[r].ans = "invalid_pin"
    /\ LET nextAttempts == req[r].attempts + 1
       IN  \/ /\ nextAttempts >= MaxPinAttempts
              /\ EnterSecurityHold(req[r].sess)
           \/ /\ nextAttempts < MaxPinAttempts
              /\ session' = [session EXCEPT ![req[r].sess].attempts = nextAttempts]
              /\ UNCHANGED dongle
    /\ Finish(r)
    /\ UNCHANGED <<token, grouped, history>>

\* Fault seeded to test OwnershipProved: whatever is not invalid_pin is success.
SubmitOkUnchecked(r) ==
    /\ At(r, "sReply")
    /\ req[r].ans # "invalid_pin"
    /\ session' = Closed(req[r].sess, "SUCCESS", 1)
    /\ dongle' = [owner |-> req[r].user, state |-> "CLAIMED_ACTIVE"]
    /\ Goto(r, "sToken")
    /\ UNCHANGED <<token, grouped, history>>

\* Fault seeded to test RowsFollowOwner: the token is not stored.
SubmitOkNoToken(r) ==
    /\ At(r, "sReply")
    /\ req[r].ans = "ok"
    /\ session' = Closed(req[r].sess, "SUCCESS", 1)
    /\ dongle' = [owner |-> req[r].user, state |-> "CLAIMED_ACTIVE"]
    /\ Finish(r)
    /\ UNCHANGED <<token, grouped, history>>

\* The ownership transaction; the token is stored after it, not in it.
SubmitOk(r) ==
    /\ At(r, "sReply")
    /\ req[r].ans = "ok"
    /\ session' = Closed(req[r].sess, "SUCCESS", 1)
    /\ dongle' = [owner |-> req[r].user, state |-> "CLAIMED_ACTIVE"]
    /\ Goto(r, "sToken")
    /\ UNCHANGED <<token, grouped, history>>

\* createEncryptedDongleToken: an upsert sealed for the submitting user.
SubmitToken(r) ==
    /\ At(r, "sToken")
    /\ token' = req[r].user
    /\ Finish(r)
    /\ UNCHANGED <<dongle, session, grouped, history>>

----------------------------------------------------------------------------
(* unpairDongle, by its owner (uTx) or forced by an admin (fTx) *)

UnpairRead(r, u) ==
    /\ At(r, "idle")
    /\ dongle.owner = u
    /\ req' = [req EXCEPT ![r] = [Idle EXCEPT !.pc = "uTx", !.user = u]]
    /\ UNCHANGED <<rows, history>>

ForceUnpairRead(r, u) ==
    /\ At(r, "idle")
    /\ u \in Admins
    /\ req' = [req EXCEPT ![r] = [Idle EXCEPT !.pc = "fTx", !.user = u]]
    /\ UNCHANGED <<rows, history>>

\* Fault seeded to test RowsFollowOwner: the token row is left behind.
UnpairCommitKeepsToken(r) ==
    /\ req[r].pc \in {"uTx", "fTx"}
    /\ grouped' = None
    /\ session' = [s \in Sessions |->
                     IF session[s].status = "ACTIVE"
                     THEN [session[s] EXCEPT !.status = "EXPIRED", !.running = FALSE,
                                            !.nonce = FALSE]
                     ELSE session[s]]
    /\ dongle' = Unclaimed
    /\ Finish(r)
    /\ UNCHANGED <<token, history>>

\* The transaction, whatever the row has become since it was read.
UnpairCommit(r) ==
    /\ req[r].pc \in {"uTx", "fTx"}
    /\ token' = None
    /\ grouped' = None
    /\ session' = [s \in Sessions |->
                     IF session[s].status = "ACTIVE"
                     THEN [session[s] EXCEPT !.status = "EXPIRED", !.running = FALSE,
                                            !.nonce = FALSE]
                     ELSE session[s]]
    /\ dongle' = Unclaimed
    /\ Finish(r)
    /\ UNCHANGED history

----------------------------------------------------------------------------
(* reportDevices, for this dongle *)

\* findUnique, and the row to write back computed from it.
ReportRead(r) ==
    /\ At(r, "idle")
    /\ \E row \in {dongle} \cup {[owner |-> u, state |-> "CLAIMED_ACTIVE"] : u \in Reporters} :
        req' = [req EXCEPT ![r] = [Idle EXCEPT !.pc = "rUpsert", !.seen = row]]
    /\ UNCHANGED <<rows, history>>

\* Fault seeded to test OwnershipCoherent: only the owner is written back.
ReportUpsertOwnerOnly(r) ==
    /\ At(r, "rUpsert")
    /\ dongle' = [dongle EXCEPT !.owner = req[r].seen.owner]
    /\ Finish(r)
    /\ UNCHANGED <<session, token, grouped, history>>

\* The upsert of owner and state, whatever the row has become.
ReportUpsert(r) ==
    /\ At(r, "rUpsert")
    /\ dongle' = req[r].seen
    /\ Finish(r)
    /\ UNCHANGED <<session, token, grouped, history>>

----------------------------------------------------------------------------
(* createGroup, as far as it concerns this dongle *)

\* assertOwnership
GroupCheck(r, u) ==
    /\ At(r, "idle")
    /\ u \in Admins \/ dongle.owner = u
    /\ req' = [req EXCEPT ![r] = [Idle EXCEPT !.pc = "gFree", !.user = u]]
    /\ UNCHANGED <<rows, history>>

\* assertNotGrouped
GroupFree(r) ==
    /\ At(r, "gFree")
    /\ IF grouped = None THEN Goto(r, "gCreate") ELSE Finish(r)
    /\ UNCHANGED <<rows, history>>

GroupCreate(r) ==
    /\ At(r, "gCreate")
    /\ grouped' = req[r].user
    /\ Finish(r)
    /\ UNCHANGED <<dongle, session, token, history>>

----------------------------------------------------------------------------
(* The clock, failures and the specification *)

\* expiresAt passes.
Expire(s) ==
    /\ session[s].status = "ACTIVE"
    /\ session[s].running
    /\ session' = [session EXCEPT ![s] = [@ EXCEPT !.running = FALSE, !.nonce = FALSE]]
    /\ UNCHANGED <<dongle, token, grouped, req, history>>

\* holdUntil passes: five minutes after too many PINs, or when the dongle's own
\* cooldown said.
HoldLapse(s) ==
    /\ session[s].status = "HOLD"
    /\ session[s].running
    /\ session' = [session EXCEPT ![s].running = FALSE]
    /\ UNCHANGED <<dongle, token, grouped, req, history>>

\* The sessions among those of `ended` requests whose wrong PIN is not recorded.
Unrecorded(ended) ==
    {req[r].sess : r \in {p \in ended : At(p, "sReply") /\ req[p].ans = "invalid_pin"}}

\* A statement or transaction fails, the agent is offline, the control request
\* fails or times out, the answer is not usable, the nonce is missing: the
\* request throws.  Nothing takes back what it has written before, the
\* ownership of a pairing whose token is not stored included.
Abandon(r) ==
    /\ ~ At(r, "idle")
    /\ Finish(r)
    /\ uncounted' = uncounted \cup Unrecorded({r})
    /\ UNCHANGED <<rows, confirmed, wrong>>

\* The API process stops: requests in flight are lost, rows stay.
Restart ==
    /\ MayCrash
    /\ req' = [r \in Reqs |-> Idle]
    /\ uncounted' = uncounted \cup Unrecorded(Reqs)
    /\ overtaken' = {}
    /\ UNCHANGED <<rows, confirmed, wrong>>

RequestStep(r) ==
    \/ StartHoldCheck(r) \/ StartFind(r) \/ StartCreate(r) \/ StartAnswered(r)
    \/ StartReplyOk(r) \/ StartReplyCooldown(r)
    \/ SubmitExpire(r) \/ SubmitHoldCheck(r) \/ SubmitAnswered(r) \/ SubmitCooldown(r)
    \/ SubmitFailed(r) \/ SubmitInvalidPin(r) \/ SubmitOk(r) \/ SubmitToken(r)
    \/ UnpairCommit(r) \/ ReportUpsert(r) \/ GroupFree(r) \/ GroupCreate(r)
    \/ Abandon(r)

NewRequest(r) ==
    \/ "report" \in Calls /\ ReportRead(r)
    \/ \E u \in Users :
        \/ "start" \in Calls /\ StartRead(r, u)
        \/ "submit" \in Calls /\ \E s \in Sessions : SubmitRead(r, u, s)
        \/ "unpair" \in Calls /\ UnpairRead(r, u)
        \/ "force" \in Calls /\ ForceUnpairRead(r, u)
        \/ "group" \in Calls /\ GroupCheck(r, u)

\* What requests in flight have read is no longer so.
Shaken == dongle' # dongle \/ (Held' /\ ~ Held)

\* The history of a step of request r: the others are overtaken when it changes
\* what they rely on; past its ownership transaction r relies on its own write.
Overtake(r) ==
    overtaken' =
        {p \in Reqs :
            /\ req'[p].pc # "idle"
            /\ \/ p \in overtaken /\ (p = r => req'[p].pc # "sToken")
               \/ p # r /\ Shaken}

Next ==
    \/ \E r \in Reqs : (NewRequest(r) \/ RequestStep(r)) /\ Overtake(r)
    \/ \E s \in Sessions : (Expire(s) \/ HoldLapse(s)) /\ UNCHANGED overtaken
    \/ Restart

Spec == Init /\ [][Next]_vars

----------------------------------------------------------------------------
(* What holds however the requests interleave, fail or are cut off *)

\* A claimed dongle has an owner and an unclaimed one has none, although
\* reportDevices writes back an owner and a state it read earlier.
RowCoherent(row) ==
    /\ row.state = "CLAIMED_ACTIVE" => row.owner # None
    /\ row.state = "UNCLAIMED" => row.owner = None
OwnershipCoherent == RowCoherent(dongle)

\* Nobody owns the dongle, or has a token sealed for it, whose PIN the dongle
\* did not confirm (or whom an agent's report did not name), whatever stale
\* snapshot is written back.
OwnershipProved ==
    /\ dongle.owner \in confirmed \cup Reporters \cup {None}
    /\ token \in confirmed \cup {None}

\* The stored attempt counter of a session still open never runs ahead of the
\* wrong PINs really heard of, and is always below the limit: the check
\* `session.attempts >= MAX_PIN_ATTEMPTS` of submitPairing never fires.
AttemptsSound ==
    \A s \in Sessions : session[s].status = "ACTIVE" =>
        session[s].attempts <= wrong[s] /\ session[s].attempts < MaxPinAttempts

\* Spec 11.2: at most MAX_PIN_ATTEMPTS wrong PINs are taken on a session.  Only
\* two submissions of the same session at once, or one that breaks off between
\* the verdict and its record, can stretch the budget: neither other sessions,
\* reports, unpairings and holds, nor a failure anywhere else.
PinBudget == \A s \in Sessions \ uncounted : wrong[s] <= MaxPinAttempts

\* Spec 12: the stored token of a claimed dongle is sealed for its owner (or is
\* about to be, by a request nobody has overtaken), so that
\* getDecryptedDongleToken can open it; an unclaimed dongle has neither a token
\* nor a group of an ordinary user.
RowsFollow ==
    /\ dongle.state = "CLAIMED_ACTIVE" =>
          token = dongle.owner \/ \E r \in Reqs \ overtaken : At(r, "sToken")
    /\ dongle.state = "UNCLAIMED" => token = None /\ grouped \in Admins \cup {None}

\* A request ends by a write that rests on a row another one has changed, or
\* without the token it owed.
Strays(r) ==
    /\ ~ At(r, "idle") /\ req'[r].pc = "idle"
    /\ r \in overtaken \/ (At(r, "sToken") /\ token' # req[r].user)

\* The rows part from the ownership in no other way: no order of the steps of
\* requests that saw the row as it is, no unpairing and no hold separates them.
RowsFollowOwner ==
    [][RowsFollow => RowsFollow' \/ dongle'.owner \in Reporters
                                \/ \E r \in Reqs : Strays(r)]_vars

\* Spec 11.3: while a hold is running nobody becomes the owner, but by a request
\* that was already past its own check when the hold began.
HoldBlocksClaim ==
    [][dongle.state = "SECURITY_HOLD" /\ Held /\ dongle'.state = "CLAIMED_ACTIVE" =>
          dongle'.owner \in Reporters \/ \E r \in overtaken : req'[r] # req[r]]_vars

\* Spec 11.5: the first user whose PIN succeeded stays the owner until the
\* dongle is unpaired.
FirstPinWins ==
    [][dongle.owner # None => dongle'.owner \in {dongle.owner, None}]_vars
=============================================================================
