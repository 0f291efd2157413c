--------------------------- MODULE ControlChannel ---------------------------
(***************************************************************************)
(* The control channel between the API and one bridge agent: the registry  *)
(* of sockets and the table of pending requests (dashboard-api,            *)
(* ws/control.ts), the agent's reconnecting client (bridge-agent,          *)
(* ws/control.ts) and the answers of its message handlers (agent-core.ts). *)
(*                                                                         *)
(* Requests of different agents meet nowhere: the tables are keyed by      *)
(* agent and by random UUID.  Sockets are numbered as they are dialled;    *)
(* both ends of one notice separately that it is gone, and the API, which  *)
(* never pings, perhaps never.  Heartbeats and presence are left out.      *)
(***************************************************************************)
EXTENDS Naturals, Sequences

CONSTANTS
    Requests,   \* calls of sendControlRequest
    MaxSockets, \* bound: sockets the agent dials
    MaxFailures \* bound: broken sockets, failed upgrades and restarts of the API

ASSUME ControlChannelAssumption ==
    MaxSockets \in Nat \ {0} /\ MaxFailures \in Nat

Sockets == 1 .. MaxSockets
NoSocket == 0

VARIABLES
    connection,      \* the entry of connections
    api,             \* a socket as the API sees it
    client,          \* a socket as the agent sees it
    intact,          \* whether what is sent on it arrives
    down,            \* requests on their way to the agent
    up,              \* requests whose answer is on its way to the API
    pendingRequests, \* the keys of pendingRequests; each has a timer
    promise,         \* what the caller of sendControlRequest holds
    agent,           \* how far the agent is with a request
    via,             \* history: the socket a request was sent on
    failures         \* bound: failures so far

vars == <<connection, api, client, intact, down, up, pendingRequests, promise,
          agent, via, failures>>
wires == <<intact, down, up>>
calls == <<pendingRequests, promise, via>>

\* Type correctness of the tables, of the sockets and of what is on them.
TypeOK ==
    /\ connection \in Sockets \cup {NoSocket}
    /\ api \in [Sockets -> {"none", "upgrading", "open", "closing", "errored", "closed"}]
    /\ client \in [Sockets -> {"none", "dialing", "open", "closed"}]
    /\ intact \in [Sockets -> BOOLEAN]
    /\ down \in [Sockets -> Seq(Requests)] /\ up \in [Sockets -> Seq(Requests)]
    /\ pendingRequests \subseteq Requests
    /\ promise \in [Requests -> {"none", "pending", "resolved", "rejected"}]
    /\ agent \in [Requests -> {"unaware", "busy", "succeeded", "failed"}]
    /\ via \in [Requests -> Sockets \cup {NoSocket}]
    /\ failures \in Nat

Init ==
    /\ connection = NoSocket
    /\ api = [s \in Sockets |-> "none"] /\ client = [s \in Sockets |-> "none"]
    /\ intact = [s \in Sockets |-> FALSE]
    /\ down = [s \in Sockets |-> <<>>] /\ up = [s \in Sockets |-> <<>>]
    /\ pendingRequests = {} /\ promise = [r \in Requests |-> "none"]
    /\ agent = [r \in Requests |-> "unaware"]
    /\ via = [r \in Requests |-> NoSocket]
    /\ failures = 0

-----------------------------------------------------------------------------
(* The agent's client *)

InUse(s) == client[s] \in {"dialing", "open"}

\* connect: the client opens a socket when the last one is gone.
Dial(s) ==
    /\ \A t \in Sockets : ~InUse(t) /\ (client[t] = "none" <=> t >= s)
    /\ client' = [client EXCEPT ![s] = "dialing"]
    /\ api' = [api EXCEPT ![s] = "upgrading"]
    /\ intact' = [intact EXCEPT ![s] = TRUE]
    /\ UNCHANGED <<connection, down, up, calls, agent, failures>>

ClientOpen(s) ==
    /\ client[s] = "dialing" /\ api[s] \in {"open", "closing"} /\ intact[s]
    /\ client' = [client EXCEPT ![s] = "open"]
    /\ UNCHANGED <<connection, api, wires, calls, agent, failures>>

\* The close event: the socket broke, or the API closed it and what it had sent
\* before has arrived.
ClientClose(s) ==
    /\ InUse(s)
    /\ ~intact[s] \/ (api[s] \in {"closing", "errored", "closed"} /\ down[s] = <<>>)
    /\ client' = [client EXCEPT ![s] = "closed"]
    /\ intact' = [intact EXCEPT ![s] = FALSE]
    /\ down' = [down EXCEPT ![s] = <<>>]
    /\ UNCHANGED <<connection, api, up, calls, agent, failures>>

\* The handler of a request starts.
TakeRequest(s) ==
    /\ client[s] = "open" /\ down[s] # <<>>
    /\ agent' = [agent EXCEPT ![Head(down[s])] = "busy"]
    /\ down' = [down EXCEPT ![s] = Tail(@)]
    /\ UNCHANGED <<connection, api, client, intact, up, calls, failures>>

\* It ends: the answer leaves on whatever socket is the client's by then, and is
\* dropped silently if that one is not open.
Reply(r) ==
    /\ agent[r] = "busy"
    /\ \E a \in {"succeeded", "failed"} : agent' = [agent EXCEPT ![r] = a]
    /\ up' = [s \in Sockets |->
                IF client[s] = "open" /\ intact[s] THEN Append(up[s], r) ELSE up[s]]
    /\ UNCHANGED <<connection, api, client, intact, down, calls, failures>>

-----------------------------------------------------------------------------
(* The API's registry of sockets *)

\* seeded fault: the first socket stays and a second one is turned away
AcceptFirst(s) ==
    /\ api[s] = "upgrading"
    /\ IF connection # NoSocket /\ api[connection] = "open"
       THEN api' = [api EXCEPT ![s] = "closing"] /\ UNCHANGED connection
       ELSE api' = [api EXCEPT ![s] = "open"] /\ connection' = s
    /\ UNCHANGED <<client, wires, calls, agent, failures>>

\* The token was found, an await after the upgrade began; the socket may be dead
\* by now, or younger ones registered.
Accept(s) ==
    /\ api[s] = "upgrading"
    /\ api' = [t \in Sockets |->
                IF t = s THEN "open"
                ELSE IF t = connection /\ api[t] = "open" THEN "closing" ELSE api[t]]
    /\ connection' = s
    /\ UNCHANGED <<client, wires, calls, agent, failures>>

\* The upgrade ends without a socket: it is known to be gone, or the database
\* failed (500).
Refuse(s) ==
    /\ api[s] = "upgrading"
    /\ \/ ~intact[s] /\ UNCHANGED failures
       \/ failures < MaxFailures /\ failures' = failures + 1
    /\ api' = [api EXCEPT ![s] = "closed"]
    /\ UNCHANGED <<connection, client, wires, calls, agent>>

\* rejectPendingForAgent: whatever socket the requests were sent on.
RejectAll ==
    /\ promise' = [r \in Requests |->
                    IF r \in pendingRequests THEN "rejected" ELSE promise[r]]
    /\ pendingRequests' = {}
    /\ UNCHANGED via

\* seeded fault: the entry is deleted whatever socket it holds
UnregisterAny(s) == connection' = NoSocket

\* Only the socket that is registered takes its entry away.
Unregister(s) == connection' = IF connection = s THEN NoSocket ELSE connection

\* The error event.  The close event of the same socket comes later.
ApiError(s) ==
    /\ api[s] \in {"open", "closing"} /\ ~intact[s]
    /\ api' = [api EXCEPT ![s] = "errored"]
    /\ Unregister(s) /\ RejectAll
    /\ UNCHANGED <<client, wires, agent, failures>>

\* The close event: the socket broke, the agent closed it, or the API did and
\* waited for the agent long enough.
ApiClose(s) ==
    /\ api[s] \in {"open", "closing", "errored"} /\ (~intact[s] \/ api[s] = "closing")
    /\ api' = [api EXCEPT ![s] = "closed"]
    /\ intact' = [intact EXCEPT ![s] = FALSE] /\ up' = [up EXCEPT ![s] = <<>>]
    /\ Unregister(s) /\ RejectAll
    /\ UNCHANGED <<client, down, agent, failures>>

-----------------------------------------------------------------------------
(* Requests *)

Online == connection # NoSocket /\ api[connection] = "open"

SendRequest(r) ==
    /\ promise[r] = "none" /\ Online
    /\ promise' = [promise EXCEPT ![r] = "pending"]
    /\ pendingRequests' = pendingRequests \cup {r}
    /\ via' = [via EXCEPT ![r] = connection]
    /\ down' = IF intact[connection]
               THEN [down EXCEPT ![connection] = Append(@, r)] ELSE down
    /\ UNCHANGED <<connection, api, client, intact, up, agent, failures>>

SendOffline(r) ==
    /\ promise[r] = "none" /\ ~Online
    /\ promise' = [promise EXCEPT ![r] = "rejected"]
    /\ UNCHANGED <<connection, api, client, wires, pendingRequests, agent, via, failures>>

\* seeded fault: the entry stays in the table
TimeoutKeepsEntry(r) ==
    /\ r \in pendingRequests
    /\ promise' = [promise EXCEPT ![r] = "rejected"]
    /\ UNCHANGED <<connection, api, client, wires, pendingRequests, agent, via, failures>>

\* REQUEST_TIMEOUT_MS is over.
Timeout(r) ==
    /\ r \in pendingRequests
    /\ promise' = [promise EXCEPT ![r] = "rejected"]
    /\ pendingRequests' = pendingRequests \ {r}
    /\ UNCHANGED <<connection, api, client, wires, agent, via, failures>>

\* seeded fault: an answer is taken whether or not its request is pending
SettleLate(r) ==
    promise' = [promise EXCEPT ![r] = IF agent[r] = "failed" THEN "rejected" ELSE "resolved"]

\* seeded fault: the answer's own word is kept
SettleVerbatim(r) ==
    promise' = IF r \in pendingRequests THEN [promise EXCEPT ![r] = agent[r]] ELSE promise

\* seeded fault: an error is dropped after its entry was deleted
SettleSuccessOnly(r) ==
    promise' = [promise EXCEPT ![r] =
                    IF r \in pendingRequests /\ agent[r] = "succeeded" THEN "resolved" ELSE @]

\* resolvePending and rejectPending: a request that is not pending is ignored.
Settle(r) ==
    promise' = [promise EXCEPT ![r] =
                    IF r \notin pendingRequests THEN @
                    ELSE IF agent[r] = "failed" THEN "rejected" ELSE "resolved"]

\* A message with a request_id, also from a socket that is being replaced.
ReceiveReply(s) ==
    /\ api[s] \in {"open", "closing", "errored"} /\ up[s] # <<>>
    /\ up' = [up EXCEPT ![s] = Tail(@)]
    /\ Settle(Head(up[s]))
    /\ pendingRequests' = pendingRequests \ {Head(up[s])}
    /\ UNCHANGED <<connection, api, client, intact, down, agent, via, failures>>

-----------------------------------------------------------------------------
(* The environment *)

\* A socket breaks; what is on it is lost and neither end knows yet.
Break(s) ==
    /\ failures < MaxFailures /\ failures' = failures + 1
    /\ intact[s] /\ intact' = [intact EXCEPT ![s] = FALSE]
    /\ down' = [down EXCEPT ![s] = <<>>] /\ up' = [up EXCEPT ![s] = <<>>]
    /\ UNCHANGED <<connection, api, client, calls, agent>>

\* The API stops and starts: both tables are empty and callers hear nothing.
Restart ==
    /\ failures < MaxFailures /\ failures' = failures + 1
    /\ connection' = NoSocket
    /\ api' = [s \in Sockets |-> IF api[s] = "none" THEN "none" ELSE "closed"]
    /\ intact' = [s \in Sockets |-> FALSE]
    /\ down' = [s \in Sockets |-> <<>>] /\ up' = [s \in Sockets |-> <<>>]
    /\ RejectAll
    /\ UNCHANGED <<client, agent>>

-----------------------------------------------------------------------------
SocketStep(s) ==
    \/ Dial(s) \/ ClientOpen(s) \/ ClientClose(s) \/ TakeRequest(s)
    \/ Accept(s) \/ Refuse(s) \/ ApiError(s) \/ ApiClose(s) \/ ReceiveReply(s)
    \/ Break(s)
RequestStep(r) == SendRequest(r) \/ SendOffline(r) \/ Timeout(r) \/ Reply(r)

Next ==
    \/ \E s \in Sockets : SocketStep(s)
    \/ \E r \in Requests : RequestStep(r)
    \/ Restart

Spec == Init /\ [][Next]_vars

\* Timers fire, the database answers, an open connection attempt succeeds, and
\* the agent reads its socket and, as it writes a heartbeat every 30 s, notices
\* a dead one.  The API need not notice, the agent need not answer.
Fairness ==
    /\ \A r \in Requests : WF_vars(Timeout(r))
    /\ \A s \in Sockets : WF_vars(Dial(s)) /\ WF_vars(ClientOpen(s))
                          /\ WF_vars(ClientClose(s)) /\ WF_vars(Accept(s))
                          /\ WF_vars(TakeRequest(s))

FairSpec == Spec /\ Fairness

-----------------------------------------------------------------------------
\* ws/control.ts, pendingRequests: exactly the requests whose promise is open
\* have an entry, and with it a timer, whichever way they are settled.
PendingIsPromised == pendingRequests = {r \in Requests : promise[r] = "pending"}

\* ws/control.ts, connections: the only socket the API holds open is the one it
\* would send on; the late close of a replaced one does not unregister it.
OpenIsRegistered == \A s \in Sockets : api[s] = "open" => connection = s

\* ws/control.ts: both tables, of requests and of sockets, are up to date.
TablesCurrent == PendingIsPromised /\ OpenIsRegistered

\* All of it implements a request that settles once.
Abstract == INSTANCE OneShot WITH promise <- promise, agent <- agent
OneShotSpec == Abstract!Spec

\* ws/control.ts, REQUEST_TIMEOUT_MS: every request settles in the end.
Settles == \A r \in Requests : promise[r] = "pending" ~> promise[r] # "pending"

\* ws/control.ts, both: when failures stop, the agent is in the end registered
\* for good on a socket that works, although a dead one was never noticed or was
\* accepted after its successor.
Reconnects ==
    <>[](connection # NoSocket /\ client[connection] = "open" /\ intact[connection])

\* execplan-11, line 59: a request blocks until its answer or its timeout, as
\* long as the socket it was sent on is open.
BlocksUntilAnswered ==
    [][\A r \in Requests : promise[r] = "pending" /\ promise'[r] = "rejected" =>
            agent[r] = "failed" \/ Timeout(r) \/ api'[via[r]] # "open"]_vars
=============================================================================
