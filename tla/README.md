# Verification of the remote OBD2 dashboard

TLA+ models of the dashboard API, the bridge agent and the protocols between
them, checked with TLC on small instances and, where it matters most, proved
with TLAPS for every instance. All paths below are paths of the repository
under `src/`.

## 1. The system

A user's browser talks to the **dashboard API** (`apps/dashboard-api`, one Node
process over PostgreSQL and Redis). On the user's LAN a **bridge agent**
(`apps/bridge-agent`) discovers **dongles** over UDP, keeps a control WebSocket
and a data-plane WebSocket to the API, and relays. A dongle is firmware outside
this repository: it is modelled by the answers the code is prepared to get.

Concurrency in both programs is that of Node: the code between two `await`s runs
alone, and every `await` (a Prisma query, a Redis command, a control request, a
UDP exchange) lets another request, message or timer run. PostgreSQL runs each
statement, and each `$transaction` of plain writes, as one step.

### 1.1 Inventory

| Component | State | Operations | Talks to | What is hard | What makes it correct |
|---|---|---|---|---|---|
| Pairing and ownership (`services/pairing.ts`, `security-hold.ts`, `dongle-tokens.ts`, `reportDevices` of `agents.ts`) | Dongle, PairingSession, DongleToken rows | start, submit PIN, unpair, force-unpair, hold, report | agent through a control request; groups | read-await-write on rows, two users on one dongle, the PIN counter, holds and their clock, a crash between two statements | only proved users own; owner and state agree; the PIN budget; unpaired means clean |
| Commands (`services/commands.ts`, executors in `agent-core.ts`) | Command rows, `commandTimers` | enqueue, dispatch, agent chunk / response / error, timeout | agent, streams | fire-and-forget handlers of messages that interleave, timers against answers, restart | an ended command stays ended and gets one verdict; every command ends |
| Control channel (`ws/control.ts` on both sides) | `connections`, `pendingRequests`, sockets | connect, replace, close, send request, resolve, reject, time out, reconnect | everything that asks an agent | a late close of a replaced socket, answers after a timeout, lost messages | each request settles exactly once and only with its own answer |
| Groups and CAN relay (`services/groups.ts`, `ws/data-plane.ts`) | DongleGroup rows, Redis streams, `groupState`, sockets | create, activate, deactivate, frame in, buffer, replay, mode change | agent data-plane clients, Redis, streams | replay against live frames, trim, check-then-create, mode written after an await | frames in order, none lost within the limits, a dongle in one group |
| Streams (`services/streams.ts`, SSE route, `useSse.ts`) | ring buffer and listeners per key | publish, subscribe with Last-Event-ID, reset, prune | every publisher, the browser | resume after the buffer was trimmed or the API restarted | a client gets every event or is told to reset |
| REMP transport (`bridge-agent/src/remp`) | pending exchanges, UDP socket | send, ack, retry, time out, match | dongle | two exchanges with one dongle, late answers | an answer settles the exchange it belongs to |
| Bridge agent core (`agent-core.ts`) | discovery snapshots, token cache, report flag, sockets | login, logout, report, discovery, execute | API, dongles | stale token cache, dirty flag cleared after an await, stop while starting | changes are reported in the end; nothing runs after logout |
| Discovery (`discovery/index.ts`, `shared/protocols/discovery.ts`) | sockets per interface, intervals | scan, announce, prune | dongles, core | interface changes | parse what is well formed, reject the rest |
| Protocol codecs (`packages/remp`, `packages/shared`) | none | encode, decode, CRC, TLV | both ends | lengths, widths, sequence wrap | decode after encode is the identity; bad input is refused |
| Key rotation (`jobs/rotate-dongle-keys.ts`) | DongleToken rows | re-encrypt | pairing | upsert between read and write | a token that could be opened still can |
| Password reset (`services/password-reset.ts`) | PasswordResetToken rows | create, redeem | mailer | two redemptions | a token is used once |
| CAN configuration and sending (`can-config.ts`, `can-send.ts`) | CanConfig rows | apply, read, send | agent | apply acknowledged and row written in two steps | the row says what the dongle was last told |
| Auth, sessions, CSRF, rate limits (`middleware`, `session`, `AuthContext.tsx`, `api/client.ts`) | session table, cookie, a CSRF token per tab | load, sign in, sign out, act, retry | browser | copies of a session, tabs that share it, tokens that go stale | a user is never told the wrong thing; signing in makes a new session |
| Benchmark (`routes/benchmark.ts`, `BenchmarkPage.tsx`) | counters per dongle, the page's event list | send, publish, check | streams, CAN sending | an effect over a list that is cut and refilled, sends that overlap | events are checked once; an alert means a frame out of order |
| Console (`ConsolePage.tsx`) | target, lists, details, timer | choose, load, send, repeat | API, streams | answers for an earlier target, a timer across targets | what is sent goes to the chosen dongle |
| Other pages, desktop windows, PCAN tool, infrastructure | UI | - | - | - | - |

### 1.2 Modules

| Part | Modules | Abstract specification | Proofs |
|---|---|---|---|
| Pairing | `Pairing`, `MCPairing` | | `PairingProofs` |
| Commands | `Commands` | | `CommandsProofs` |
| Control channel | `ControlChannel` | `OneShot`: a request that settles once | `ControlChannelProofs` |
| Event streams | `Streams` | `ResumableLog`: a reader sees what follows, or a reset | `StreamsProofs` |
| Relay and groups | `Relay` | `FrameLink`: a FIFO that loses on a broken connection | `RelayProofs` |
| Exchanges with a dongle, CAN configuration | `Exchanges` | | `ExchangesProofs` |
| Agent | `Agent` | | `AgentProofs` |
| Codecs | `Remp`, `Announce`, `Codecs`, `MCCodecs` | | `RelayProofs`, second part |
| Sessions, password resets, key rotation, benchmark, console | `Sessions`, `Resets`, `Rotation`, `Benchmark`, `Console`, composed in `MCDashboard` | | `DashboardProofs` |

Every module is about one entity of its kind where entities share nothing (a
dongle's ownership, a command, an agent's channel, a stream, a direction of a
group); each section says why that is enough.

Still to do: a composition of `Commands` on `OneShot` instead of its own
acknowledgement, and of `Relay` with the creation of groups.

Where the code lets overlapping activities spoil what one expects, the models keep
the overlap: a *history variable*, which no guard reads, remembers the moment
(`overtaken`, `overwritten`, `overlap`, `unsaved`, ...), and the property names
it as its exception. The property then says that nothing else can spoil it, under
every interleaving, failure and crash of the model, and the section says what the
exception looks like in the code.

## 2. Pairing

`Pairing` is the ownership of one dongle (no code of these files touches two
dongles' rows in one transaction except group rows, seen here from one side).
A request in flight is a record of `req` whose `pc` names the await it is
suspended at: `t..` startPairingSession, `s..` submitPairing, `uTx`/`fTx`
unpairDongle, `rUpsert` reportDevices, `g..` createGroup. `seen` and `attempts`
are the snapshots the code writes back later.

| Action | Code |
|---|---|
| `StartRead`, `StartHoldCheck`, `StartFind`, `StartCreate`, `StartReply*` | `startPairingSession`, await by await |
| `SubmitRead`, `SubmitHoldCheck`, `SubmitFailed`, `SubmitInvalidPin`, `SubmitCooldown`, `SubmitOk`, `SubmitToken`, `SubmitExpire` | `submitPairing` |
| `StartAnswered`, `SubmitAnswered` | the agent's handlers and the dongle's answer |
| `UnpairRead`, `ForceUnpairRead`, `UnpairCommit` | `unpairDongle` |
| `ReportRead`, `ReportUpsert` | `reportDevices` |
| `GroupCheck`, `GroupFree`, `GroupCreate` | `createGroup` as far as this dongle goes |
| `Expire`, `HoldLapse`, `Restart`, `Abandon` | clock, crash of the API, errors and timeouts |

Abstractions. Times are one flag per session, `running`: when a session or a hold
(five minutes, or the dongle's own cooldown) comes to its end is free. Audit rows,
network addresses and the token's bytes are left out; the token is the user in its
AAD, which is what decides whether `getDecryptedDongleToken` can open it. A
submission may bring its own nonce (`routes/dongles.ts:109`), so none is required
of the session. `session.attempts >= MAX_PIN_ATTEMPTS` in `submitPairing` is not a
branch of the model: `AttemptsSound`, proved, shows that an ACTIVE session never
gets there. `Abandon` ends a request at any await, the storing of the token
included, and takes nothing back.

Requests overlap, statements fail and the API stops at any moment. Two histories
remember when that matters: `overtaken` has the requests since whose start (for a
pairing past its ownership transaction: since then) another request has changed the
dongle's row or begun a hold; `uncounted` has the sessions with two submissions at
once, or with one that broke off between the dongle's verdict and its record.

| Property | What it says, and where it stops |
|---|---|
| `OwnershipCoherent`, `OwnershipProved` | owner and state fit; who owns, or has the token, was confirmed (or, as owner, named by a report) |
| `AttemptsSound` | the counter of an open session is at most the wrong PINs heard of, and below the limit |
| `PinBudget` | no more wrong PINs than the limit on a session that is not `uncounted` |
| `RowsFollowOwner` | token and group rows part from the owner only by a step that ends an overtaken request or one that still owed the token, or by a report that names an owner |
| `HoldBlocksClaim` | during a hold the dongle is claimed only by a request that had passed its check before, or by such a report |

| Run | Question | Instance |
|---|---|---|
| `pairing_concurrent` | what survives any interleaving of two users: ownership, rows, holds | 2 users, 2 requests in flight, 2 sessions, limit 1, crashes; pairing, unpairing, reports |
| `pairing_all_calls` | the counter, the budget and the rows with every call | 2 users (one admin), 2 requests in flight, 1 session, limit 2, up to 3 wrong PINs, reports that name an owner, groups, forced unpairing, crashes |

Two requests are enough for the races of this code: each is a read and a later
write with one foreign write in between. Two sessions give each of two users one,
and one is enough for its counter. A limit of 2 makes the counter go up once
before it ends the session, and 3 wrong PINs exceed it. `Calls` bounds which
operations an instance uses.

Proved (`PairingProofs`), for every number of users, requests and sessions: `TypeOK`
and all six properties of the table, with no hypothesis on how requests overlap. None
is inductive alone. A suspended request writes its snapshot later, so `IInv` says of
every request in flight that what it remembers is safe to write (`SafeRequest`): a
report's row is coherent and proved, a request about to claim has been confirmed, a
submission's remembered count is at most the wrong PINs heard of. `FreshInv` adds
that what a request which nobody has overtaken has read is what the rows still say;
`RowsFollowOwner` and `HoldBlocksClaim` follow from it. `BudgetInv` counts, for a
session that is not `uncounted`, the wrong PINs against the stored counter and the
one submission that may be between verdict and record. The lemma `Preserved` is the
common argument of all steps; each action then shows only what it writes.

What the code does not keep, and the exceptions above are made for:

- overlapping submissions both write the same count, so a session takes more wrong
  PINs than the limit (`pairing.ts:389`, against `doc/new-dashboard-spec-v0.7.md:308`);
  a submission whose statement fails after the dongle's verdict is not counted at all;
- a session opened before the dongle was claimed still takes it over (`:432`, against
  `:348` of the same document): `FirstPinWins`, broken with one request in flight;
- a report writes back the owner and state it read before another request changed
  them (`agents.ts:165`, against `:304`), and so undoes a pairing, an unpair or a hold;
- one dongle can become A of one group and B of another: the check precedes the
  insert (`groups.ts:61`) and the unique indexes are one per column;
- the token is stored after the ownership (`pairing.ts:465`): an unpair in between
  leaves a token without an owner, and a failure of that statement (or a crash) an
  owner without a token, whom the client is told an error although the dongle is his;
- the hold is checked before the dongle is asked (`:303`), so a hold entered in
  between is overwritten by the success;
- a user with an open session can put a dongle that has an owner on hold, and its
  owner can clear the hold by unpairing (`:480`);
- a forced unpair clears the state but leaves the session in HOLD (`:493`), so
  pairing still answers 423 until the hold lapses.

## 3. Commands

`Commands` is one command: commands share no row, timer or message. Its state
is the `row`, the timer, the status the last event showed, the agent's `link`,
the request with its acknowledgement, and the `messages` the agent sent, each
with the state of the handler the API started for it (`received`, `read`,
`written`, `handled`; `ignored` is the early return for an ended command) and
the copy of the row it read.

| Action | Code |
|---|---|
| `EnqueueCreate`, `EnqueueSend`, `EnqueueOffline`, `EnqueueAuditFails` | `enqueueCommand` up to the control request |
| `AckReceived`, `DispatchRejected`, `DispatchFailed`, `DispatchUnwritten`, `DispatchReported` | its second half: answer, rejection, the catch block, its failing statement, its event |
| `TimerFire`, `TimerWrite`, `TimerPublish`, `TimerFails` | the callback of `scheduleTimeout` |
| `TakeRequest`, `Output`, `Respond`, `AgentStops` | `executeAgentCommand`, `executeDongleCommand` |
| `Receive`, `HandleRead`, `HandleWrite`, `HandlePublish` | `handleAgentCommandUpdate` |
| `Disconnect`, `Reconnect`, `Restart` | network, agent, API process |

Abstractions. A text is the number of its message and a size in bytes; `Clamp` counts
bytes of UTF-8 as `clampOutputChunk` does. A text that is cut may end inside a
character, of which `toString` then makes U+FFFD: up to two bytes more than the
room (`Overruns`), so the cap that holds is the limit and two bytes. Dates, exit
codes and the API's own wording are left out, and so is its error message, which the
catch block stores without counting. The rejection of a control request is one step
whatever its cause (`ControlChannel` has the causes). The bounds are `Chunks` (pieces
of output), `Sizes` (of a text) and `Overlap` (handlers, timer callbacks and failing
dispatches under way at once). `Faults` says what may go wrong; the two runs have all.

Handlers write back copies of the row and events leave in another order than the
writes. Three histories remember it: `reopened` (a verdict was overwritten by an
open status), `muddled` (the status changed while an event was still due, or one was
lost), `overwritten` (a row was written over that the writer had not read). `Remember`
sets them from the step; no guard reads them.

| Property | What it says, and where it stops |
|---|---|
| `OutputWithinCap`, `OutputGenuine` | the stored output stays within the limit and two bytes, and has only texts of this command, in their stream, each once |
| `OutputKept` | a text that was written stays, up to the limit, unless `overwritten` |
| `DoneIsReal` | "done" means that the process exited with 0 |
| `VerdictFinal` | a verdict changes only by the catch block of the dispatch or by a handler that had read the row before it |
| `TimerGuards` | an open command has someone left who will end it, unless `reopened`, after a crash, or when a statement that was to end it failed |
| `ShownIsStored` | when no event is due, the last one told the stored status, unless `muddled` |
| `EventuallyEnds` | every command ends, unless after a crash or such a failed statement |

| Run | Question | Instance |
|---|---|---|
| `commands_concurrent` | the safety properties under any overlap and any fault | 2 chunks of 1 or 3 bytes, limit 2, overlap 2, all faults |
| `commands_ends` | `EventuallyEnds` | 2 chunks of 1 byte, limit 1, overlap 2, all faults |

Two chunks and a response are three handlers of which two overlap: every race
here is one between a read and a write of one of them with one foreign write in
between. With a limit of 2, chunks of 1 and 3 bytes fit, are cut with and without an
overrun, and come when there is no room left.

Fairness (`FairSpec`): PostgreSQL answers, timers fire, started handlers go on.
Nothing is assumed of the agent, the link or the arrival of a message, so
`EventuallyEnds` rests on the timer alone. Its escapes are the states where the
code gives up: a crash, a failed audit insert, a failed statement of the timer.

What the code does not keep, and the exceptions are made for: a handler that read the
open row writes `running` over a verdict (`commands.ts:486`, against
`plans/execplan-08-*.md:67`), and as the timer has been cleared by then the command
runs for ever; the rejection of the dispatch turns `timeout` into `error` (`:333`); two
handlers that overlap lose one's chunk (`:490`); the catch block clears the timer
before its own statement, and when that fails nothing is left that would end the
command; nothing looks at open commands after a restart (`:56`, against line 27 of
that plan); after a lost acknowledgement the user is told "Agent failed to accept
command." although the agent runs it.

Proved (`CommandsProofs`), for all values of the constants, any overlap and all
faults: `TypeOK` and all safety properties of the table. For the output, the property
alone is not enough: a handler stores a row computed from an old copy. `RowsSafe`
says that the row and every copy about to be written back respect the limit and
hold only texts of messages that are past `read`. `SafeGrows` shows that this
stays true while messages only come and move on (`Grows`), so an old copy is as
safe as the row, and a handler adds its own text to a copy that cannot hold it
yet (`UpdatedSafe`, with `CutFits` for the cut). `LaterInv` carries the rest: who has
begun (`BeginInv`), who will end an open command (`GuardInv`), which event is due for
which status (`ShownInv`), and that every text written is stored while nothing has
been overwritten (`KeptInv`).

## 4. Control channel

`ControlChannel` is the connection of one agent: `connections` and
`pendingRequests` are keyed by agent and by random UUID, so agents do not meet.
Sockets are numbered as the agent dials them. Each has a state at the API
(`api`), one at the agent (`client`), the truth (`intact`), and what is on its
way in each direction (`down`, `up`).

| Action | Code |
|---|---|
| `Dial`, `ClientOpen`, `ClientClose` | `connectControlWs` of the agent |
| `TakeRequest`, `Reply` | the agent's message handler and `emitter.send`, which drops what it cannot send |
| `Accept`, `Refuse` | the upgrade after its database query, and the connection handler, which closes the socket it replaces |
| `ApiClose`, `ApiError` | the handlers of those events, both with `rejectPendingForAgent` |
| `SendRequest`, `SendOffline`, `Timeout`, `ReceiveReply` | `sendControlRequest` and the message handler |
| `Break`, `Restart` | a broken connection; a crash of the API |

`OneShot` says what callers (pairing, CAN configuration and frames, commands)
rely on: a request settles once, is carried out at most once and only after it
was sent, and a success means that it was carried out (for a command: accepted).
`OneShotSpec` is checked as a property and proved.

Abstractions. Heartbeats and presence are left out; so are revoked tokens and
logging out (`emitter.close`). `via`, the socket a request was sent on, is a
history variable. `MaxSockets` and `MaxFailures` are the bounds; failures are
broken sockets, failed upgrades and restarts.

| Run | Question | Instance |
|---|---|---|
| `control_channel` | registry and table (`TablesCurrent`), settlement (`OneShotSpec`, `Settles`) and `Reconnects` under late accepts, late closes, breaks and restarts | 2 requests, 3 sockets, 1 failure |

One failure suffices for the races met here: it makes the agent dial again, and then
the old socket's accept or close can come after the new one's. The third socket
is the one that is dialled when a late accept has closed the second.

Fairness (`FairSpec`): `Timeout` (timers), `Accept` (the database answers),
`ClientOpen` (an attempt on a working network succeeds), `Dial` (the client's
reconnect timer), `TakeRequest` (the agent reads its socket) and `ClientClose`.
The last is justified by the heartbeat, which makes the agent's TCP notice a
dead socket; for an attempt that never gets an answer the code has no timeout of
its own, and the operating system's is assumed. Nothing is assumed of the API's
noticing (it never pings), nor of the agent's answering: `Settles` rests on the
timer alone. `MaxSockets` is above what the failures need, so `Reconnects` does
not run into the bound.

`BlocksUntilAnswered` is what the code does not keep: the close event of a
replaced socket rejects a request that waits on the new, open one (`ws/control.ts:164`).

Proved (`ControlChannelProofs`), for any number of requests, sockets and
failures: `TypeOK`, `TablesCurrent` (that is, `PendingIsPromised` and
`OpenIsRegistered`) and `Spec => OneShotSpec`. The inductive invariant adds what is on the wires:
`DownFresh` (a request on its way down is there once, sent on that socket and
unknown to the agent), `UpFinished` (an answer comes from a handler that ended)
and `KnownWasSent`. The refinement then maps each action to one step of
`OneShot` or to none: `TakeRequest` to `Take` by `DownFresh`, `ReceiveReply` to
`Resolve` or `Reject` by `UpFinished` and `PendingIsPromised`, and everything
that goes through `rejectPendingForAgent` to a joint `Reject`.

## 5. Event streams

`Streams` is one stream key, with the pages that follow it. `log` (history) has
what was published since the API started, `buffer` the ids that can be replayed,
`stale` how many of those are past the age limit, `recent` the frames in the
window of the rate, and each page has a `link`, a `wire` and the `lastEventId`
that its EventSource would resume after.

| Action | Code |
|---|---|
| `PublishFrame`, `PublishOther` with `Push`, `Prune`, `DesiredFactor` | `publish`, `maybeAdjustSampling`, `prune` of `services/streams.ts` |
| `Resume`, `Reset`, `Refuse` | the SSE route and `subscribe`, which replays, or `emitReset` |
| `Open`, `Close`, `Receive`, `Cut`, `Retry` | `useSse.ts` over the browser's EventSource |
| `Age`, `Expire`, `Restart` | the clock; a crash of the API |

`ResumableLog` is what a page may rely on: it sees every event after its last one
in order, or a reset in place of what is missing. `Streams` implements it
(`ResumableSpec`): `pos` is a page's `lastEventId` if it comes from this life of
the API, and 0 otherwise.

`streams`: two pages (one disturbs the other through `emitReset`), a buffer of
two, a quota of two frames, four events, one broken connection or restart.
`StreamsInvariant` is `TypeOK`, `WireComplete` (what is on its way to a page ends
with the last event published and has no gap: replayed and live events join) and
`SamplingTold` (the factor in use is the one announced). `DropsOnlyUnderLoad` and
`CatchesUp` complete it. Fairness: the browser reads and retries, the route
answers; pages need not stay.

Proved (`StreamsProofs`) for any number of pages and any limits:
`StreamsInvariant`, `DropsOnlyUnderLoad`, `Spec => ResumableSpec`. The inductive
invariant says that the buffer is a run of ids up to the last one, that a wire
is such a run too, and that a page's place is before what is on its wire.

What the code does not keep: `ResumedOrReset` (after a restart ids start at 1
again, and an old Last-Event-ID can be found in the new buffer: the page skips
what is between, `streams.ts:32`) and `SamplingFlows` (when the number of frames
in the window stays where it is no multiple of the factor, frames come and none
is published, `:74`). A page that is up to date is reset when its last event has
been pruned (`:132`).

## 6. Groups and the relay

`Relay` is one direction of one group; the other is the same code with its own
Redis stream. The two dongles are seen by different agents. Each frame's handler
is in `pc`, each connection's replay in `replay`, and the activities that set the
mode are counted per step in `marks`, since they carry nothing else.

| Action | Code |
|---|---|
| `Arrive`, `Find`, `Send`, `Miss`, `Add` | `handleCanFrame`, `sendToAgent`, `bufferFrame` |
| `Load`, `Replay`, `Del` | `replayBufferedFrames`: look at the group, `XRANGE`, `DEL` |
| `LoadGroup`, `Compute`, `ReadMode`, `WriteMode` | `updateGroupModesForAgent`, `markGroupMode` |
| `Activate`, `Deactivate` | `services/groups.ts` |
| `Dial`, `Refuse`, `Accept`, `Break`, `Close`, `Receive`, `SwitchA` | the data-plane sockets of both sides |

`Restart` is the end of the API: nobody catches a rejected statement of a handler or of
a replay, and Node stops. Connections and activities are gone, the database and Redis
keep what was written; in particular the buffer, when it comes between a replay's
sends (`data-plane.ts:82`) and its `DEL` (`:89`). `sendToAgent` also looks at the
socket's `readyState`: a socket that broke may show it before its close event
(`Open`), and then the frame is buffered, or not yet, and then it is lost. `XADD`
trims to about `BufferMax`: never below it, how far above is free (`Add`).

`relay`: two frames, a buffer of one, so that trimming happens, two sockets, two
changes of the owner's mind or of A's connection or ends of the API, one mode activity
at a time. `RelayInvariant` holds under any overlap: no socket gets a frame twice
(`OncePerSocket`), and a deactivation that finds no activity past its look at the mode
is final (`StaysInactive`). `Relays` says that as long as frames and replays do not
overlap, the relay is the FIFO `FrameLink`, which loses frames on a broken connection
or as the oldest of too many; `overlap` marks the moment from which this no longer has
to hold. The one step that it does not have is `CutOff`, the end of the API between
a replay's sends and its `DEL`: the frames sent are in the buffer still, and the next
socket gets them again. `Drains`: what is buffered goes out once the agent is back.
Fairness: the database and Redis answer, both sides dial and accept, close events come.

What the code does not keep: `OrderPreserved` (`doc/new-dashboard-spec-v0.7.md`,
13.3.7; a live frame overtakes a replay, `ws/data-plane.ts:301,313`),
`NeverDropped` (13.3.3; a frame buffered between `XRANGE` and `DEL` is deleted
unsent, `:89`), `ModeFollows` (`plans/execplan-06-*.md:41`; `markGroupMode` writes
a mode computed before its awaits). The bundled agent never puts the group into
its messages (`agent-core.ts:828`), so of its frames none is relayed; `NamesGroup`
is that difference, and the run has it TRUE, as
`infra/scripts/test-data-plane.js` does. A frame can reach its dongle twice, over two
sockets, after a `CutOff`.

Proved (`RelayProofs`), for any number of frames, connections and activities and
any buffer: `RelayInvariant` and `Relays`. A frame is in one place at a time:
until its handler is done it is neither buffered nor on a socket, and the socket
that is to get the buffer has none of it yet (`FramesOK`); a final deactivation has
nobody past the look at the mode (`FinalOK`); and as long as nothing has overlapped,
a connected agent whose replay is done leaves an empty buffer (`AloneOK`), over the
sockets' states (`SocketsOK`). For the refinement the queue of `FrameLink` is what is
on the wire followed by what is buffered; a frame that is sent goes behind all
others because `AloneOK` says the buffer is empty, a replay that was cut off is
`CutOff`, and a step after `overlap` needs no counterpart, since `Relays` then
promises nothing.

## 7. Exchanges with a dongle

`Exchanges` is the agent's UDP transport to one dongle, with the two procedures
that differ in how they match answers: a command (by a fresh correlation id) and
a CAN configuration (by type and device; pairing matches like it, but with a
correlation id checked afterwards). The dongle is external: it hears what reaches
one of its addresses with its token in the encoding it expects, does it, and
answers; datagrams are lost and overtake one another.

| Action | Code |
|---|---|
| `Start`, `Decline`, `Answer`, `Retry`, `GiveUp` with `Plan` | `executeDongleCommand`: every address with every encoding, and what an answer teaches |
| `Apply`, `Configured`, `ConfigTimeout`, `Store` | `applyCanConfigToDongle`, `applyCanConfig` of the API |
| `Request`, `Taker`, `SocketError` | `remp/transport.ts` |
| `Announce` | an announcement replaces the snapshot |

Simplified: a command that brings `lan_ip` and `udp_port` tries them in place of the
snapshot's first address (`agent-core.ts:417`), so that with a stale hint a third
address may come up, and the encoding as text is left out when the token is too long
for it (`Plan` has both addresses and both encodings); a CLI answer whose status is not ok or that
cannot be decoded ends a command like `GiveUp` does, without its own text (`Answer`).

`exchanges`: one command (up to four tries), two configurations, a dongle that can
be reached at both addresses, one error of the socket. `ExchangesInvariant`: a
command that succeeded was run (`OkWasRun`), at most once per address
(`RunsOncePerAddress`), and taught the encoding (`Learns`); the CanConfig row says
what the dongle has unless two configurations overlapped, a late answer of the
earlier one included (`RowIsApplied`). `Ends` rests on timers alone.

Proved (`ExchangesProofs`), for any sets of commands and configurations and any
number of errors: `ExchangesInvariant`. What makes an answer true is known of the
datagrams: one for a command is of a try that the dongle could hear, an answer is
of a try that it carried out (`Heard`), an exchange that waits is the last try of
what asked for it (`Pending`), a plan has no step twice and the encoding changes
only to the dongle's (`Plans`); and while configurations do not overlap, each
datagram about one is about the last (`Alone`).

What the code does not keep: `RunsOnce` (a try whose answer is late has run, and
the try at the other address runs it again, `agent-core.ts:941`). A late answer
of a timed-out configuration is taken by the next one (`transport.ts:77`), and an
announcement makes the agent forget the route that worked.

## 8. The agent

`Agent` is one agent process with its file, its API and one dongle. Procedures
that wait are in `pc` and `arg` (`start`, `login`, `reset`, `beat`, `report`), and
between waits the code runs alone. `headless` is the agent without a window, which
registers by itself from the environment and again after each rejection.

| Action | Code |
|---|---|
| `Start`, `StartFails`, `Exit`, `WriteFails` | `start`, `config/store.ts` (a torn file makes `loadConfig` throw, a failed write makes `saveConfig` reject), `desktop/main.ts` |
| `Login`, `Registered`, `RegisterFails`, `Saved` | `registerWithCredentials`, `applyRegistration` |
| `Reset`, `Wiped` | Reset Login, settings, `clearCredentials`, `handleAuthFailure` |
| `Beat`, `BeatOk`, `BeatRejected`, `BeatLost` | `sendHeartbeatNow` |
| `Announce`, `Report`, `ReportOk`, `ReportRejected`, `ReportLost`, `Toggle` | discovery and `reportNow` |
| `Revoke`, `Move`, `GhostEnds` | an operator, the dongle, the network |

`WriteFails`: `clearCredentials` and `applyRegistration` change the state, await
`saveConfig`, and see to connections and timers only then (`agent-core.ts:1301`,
`:1322`). When the write is rejected, the rest is left out: after a wipe the old
connections stay open with the old token, after a login there are none, and the file is
as before or torn. The history `unsaved` lasts from there to the next wipe, registration
or end of the process that gets through. In the headless agent nobody catches the
rejection and the process ends; in the desktop it ends `start` alone.

`agent`: two tokens, two APIs, one move of the dongle, one reset, toggle or failed write.
`AgentInvariant`: between waits, connections are closed or have the agent's token
(`LinksCurrent`), the file has its credentials (`FileIsCurrent`), and it is
connected with timers exactly if it has a token (`Online`), except where named:
`overlap` (a wipe and a login wrote at once: the agent is left logged in and
disconnected), `unsaved` (below) and `stranded` (the heartbeat of `start` was lost: no timers and no
connection until a restart, `agent-core.ts:1416`). `NoticesRejection` and
`Reported` are its liveness. Fairness: files get written, timers fire, the dongle
answers broadcasts, and, as strong fairness, of all heartbeats and reports some
get an answer; without that no retry would ever succeed.

Proved (`AgentProofs`), for any number of tokens, APIs, moves and resets, exits and
crashes included: `AgentInvariant`. It speaks of the moments between waits; the
inductive invariant adds what holds inside them: a registration writes a token and
a wipe none (`Written`), `start` waits for its heartbeat alone (`Starting`), stale
connections are open only while a wipe or a registration is about to close them or one
of them failed (`Links`), and without an overlap there is one writer and it writes what the agent
has (`Writers`).

What the code does not keep: `NoGhosts` (`emitter.close` leaves a socket alone that
is still connecting, so it opens later and a logged-out agent stays reachable on
it, `ws/control.ts:106`), `AsksForLogin` (a late heartbeat clears `needsLogin`
after a reset), `KeepsToken` (a late rejection of an old token wipes the new one),
`StartsAgain` (a file torn by a crash keeps the agent from starting, `store.ts:53`).
A headless agent registers as a new agent each time. Left out: the token cache of
`agent-core.ts:491`, the choice among base URLs, several dongles, heartbeats that
overlap.

## 9. Codecs

`Remp` (header, token, CAN frames, configuration, commands, pairing) and `Announce`
(discovery messages) are the pure functions; `Codecs` sends one job of each kind
through the programs that use them and lets any datagram arrive shorter than it
was written. Bytes are numbers; texts are sequences of hex digits, with one more
symbol for anything that is not one.

`codecs`: identifiers at and around the 11- and 29-bit limits, lengths around 8
bytes, datagrams cut by eight different lengths, addresses with loopback and wildcard
octets, a 16-bit field that does not fit. `FramesIntact`: a frame keeps
format, identifier and data from user to bus (`SentAsAsked`), to the browser
(`ShownAsSent`) and, unless it is dropped on the way, from bus to bus (`RelayedIntact`). `MessagesMeanTheSame`: both ends
read a request alike (`RequestIsUnderstood`), an answer is reported as it was given
(`AnswerIsRead`: of the start of a pairing with `invalid_pin` as `error`, of a submission
the status and, in a cooldown, its seconds, `remp/pairing.ts:58,108`), an announcement is reported as made, at an address of the LAN
(`ReportIsAnnounced`), and what is cut short is refused (`ShortIsRefused`).

A frame on its way from bus to bus is dropped, silently, at three places: the agent that
hears it has no cloud id for the dongle or no open data plane, or the datagram is short
or without data (`agent-core.ts:798,831`); the API finds no group or no direction
(`ws/data-plane.ts:190`); the other agent cannot send it to its dongle
(`agent-core.ts:823`). `AgentHears`, `ApiRelays` and `AgentRelays` may drop it there. The
API's look-ups are a free choice; `Relay` has what leads to them.

Known limits of the code, built into these statements: a mode the agent does not know is shown as "normal",
the loopback flag is not looked at when relaying, sequence numbers and timestamps
are not read. Left out: fractions, prefixes, blanks and case in what a user types,
CRC collisions.

The numbers, texts and payloads are parameters; the assumption `CodecsAssumption`
says what they are in its three parts: of frames (texts of digits, at most 8 bytes of
data), of requests (any bytes; a bit rate that fits the database's column) and of
announcements (no number longer than its type, a sender on the LAN). A datagram that
is longer than UDP carries (`MaxDatagram`) is refused by the socket, so the proofs
need no bound on a command. `MCCodecs` gives small sets.

`FramesKept` proves `FramesIntact` for all of them, in the second part of
`RelayProofs` (the frames whose order the first part is about). Its inductive
invariant `FramesInv` names, for each stage, what the datagram and the message hold:
a request's message is `CanFrame` of what was asked, a datagram is the encoding of
the frame of the message, one that arrives is that datagram less its end. The
lemmas say that a decoder undoes its encoder: for the header, a CAN frame, the data
as text, and the identifier as text (`Number(HexOf(n)) = n`, over the up to eight
digits, with the recursive function `Number` shown to exist by a minimal
counterexample), and that the header refuses what lost its end.

`MessagesKept` proves `MessagesMeanTheSame` likewise, from `MsgInv`: a request on its
way is the encoding of what was asked (`RequestOnTheWay`), an answer that of what the
dongle said, less its end (`AnswerOnTheWay`), what the agent makes of it is true of it
(`AskInv`), and an announcement is the packet of the announced fields and its report
follows from them (`AnnounceInv`). Its lemmas undo the encoders of configurations,
commands and their output, pairing messages, UUIDs and device ids, and follow the TLV
loop through a packet that may be cut anywhere.

## 10. The dashboard's smaller parts

Five modules that share no state run together in `MCDashboard`, which picks one of
them at the start, in the run `dashboard`.

**Sessions** (`PagesAreTrue`, `EndsInOrder`): two tabs share a cookie, each keeps a CSRF
token. A request takes a copy of the session (`Serve`), and saves it when the
handler changed it; a response sets the cookie again. `AnsweredTruly`: an action is
done at most once and not when it was refused. `CsrfRecovers`: a tab that is not
disturbed gets past a stale token with its one retry. `ShownIsTrue`: a tab that
shows a user has a session with one, unless tabs overlapped or something got lost.
`FreshSession`: no session that existed before gets a user. `TabAnswers`: every click
ends. Two clicks, one loss or expiry. `logout_clears_session` is the one promise that
breaks: the client posts the sign-out without a CSRF token and the API refuses it,
so the page looks signed out and the session lives on. Also seen: a late response
to an older request takes the cookie back after a login; a concurrent `GET /csrf`
brings a destroyed session row back. Not modelled: rate limits, signing up (as
signing in), a reload while a request is under way, two requests of one tab at once.

**Resets** (`ResetsSound`): three requests for a token and two confirmations, with the
row locks and snapshots of READ COMMITTED. `OncePerToken`, `OlderAreDead` (a new token
kills those handed out before it was asked for), `DeadForAReason` (nothing else
does). `OneToken` is not kept: two requests at once leave two tokens
(`plans/execplan-01-*.md:78`). A reset leaves sessions alive, and an account
disabled during hashing still gets its password.

**Rotation** (`RotationSound`, `EndsInOrder`): two dongles, three pairings, two runs of
the job, which may be killed. `TokenSurvives`: the token of an owned dongle opens
unless a pairing raced the job or another one, took the dongle from another owner
(`Claim`, section 2) or did not get its token stored (`FailToStore`);
`JobIsComplete`; `JobEnds`.
`NoTokenLost` is not kept: a token stored while the job holds the old row is
overwritten with what no longer opens (`plans/execplan-03-*.md:59`). The running API
reads its keyring once, so tokens moved to the new key open only after a restart.

**Benchmark** (`PagesAreTrue`): payloads counted with carry, and the page that checks
them over a list that is cut at its limit. `EventsOnce`, `AlertsAreTrue`,
`QuietInOrder`. `ApiKeepsOrder` is not kept: the interval does not wait for answers, and
two sends can overtake one another. Left out: fuzz mode, delays, the list of frames, the
`stream_reset` entries of the page's list; events of one stream have distinct times, where
`Date.now()` can tie; the bus (external) keeps the order.

**Console** (`PagesAreTrue`): `SentToChosen` (the timer goes on across targets and still
sends to the chosen one), `DetailsSettle` (answers for an earlier target are not
taken), `TargetFits`. Not kept: `TargetAlwaysFits` (the type changed while lists load),
`ShownAreTargets` and `DetailsAreTargets` (what is shown lags behind the target).

`SFair` and `KFair` assume that requests that are not lost get through and that the
job's process runs; a loss ends the request it hits.

Proved (`DashboardProofs`): `ResetsSound`, `RotationSound`, what the console
promises, `FreshSession` and all of `PagesAreTrue`, for any number of tabs, requests,
dongles and calls, any byte size and any length of list. It is one module because
`MCDashboard` is: each part has its own invariant and theorem, and `DashInv` is
their conjunction, since a step of one part leaves the others alone.

- Resets: a request that is marking has found every row that is neither used nor
  newer than its look (`RequestOK`); a confirmation that hashes holds a row's number
  (`ConfirmOK`).
- Rotation: for a dongle that nobody meddled with, a pairing about to store
  holds the owner's token and the job's copy of a row is either the row or of an
  earlier one (`Steady`); a dongle that is due is done or still on the list (`Pending`).
- Sessions: what a tab's program and its request say of one another (`InStep`); what
  an undisturbed tab keeps until its retry is through (`RetryInv`: the cookie's session
  has the tab's token); what holds while nothing overlapped (`OrderInv`); and that
  copies of a session agree with it on having a user (`CopyInv`), from which
  `FreshSession` follows. The fresh id is "a number not in use", which stands for the
  random one.
- Benchmark: the list is the latest part of the stream (`EventsOK`); counted plus still
  to be counted is what happened (`CountOK`); and while nothing was unruly, the frames
  from the one the page saw to the one the API counts on from follow on one another
  (`OrderlyBench`).

## 11. What is proved, what is only checked, what is left out

Proofs rest on the assumptions named in the modules (`...Assumption`: bounds
are naturals, the sets of constants are what their comments say) and on nothing
else.

Proved, for all values of the constants: every invariant and every action
property that a passing run checks; the refinements `OneShotSpec` (control channel),
`ResumableSpec` (streams) and `Relays` (frames), step by step. No theorem assumes that
requests or handlers take turns, or that nothing fails: the exceptions are in the
properties, as histories of what has happened.

TLC alone covers:

- liveness (`EventuallyEnds`, `Settles`, `Reconnects`, `CatchesUp`, `Drains`, `Ends`,
  `NoticesRejection`, `Reported`, and `TabAnswers` and `JobEnds` of `EndsInOrder`):
  fairness and ENABLED are beyond the prover;
- the violation (`logout_clears_session`).

One convention of the modules is there for the prover: a function is updated at one
index at a time (`[f EXCEPT ![s] = [@ EXCEPT !.a = x, !.b = y]]`). tlapm 1.4.5
translates `[f EXCEPT ![s].a = x, ![s].b = y]`, two updates at equal indices, to
something from which SMT proves FALSE.

The formulas said not to be kept are in their modules with the comment that
names the document; to see a trace, put one into a `.cfg` of its module.

Not modelled: the PCAN tool (a desktop program around a vendor's library), rate
limits (a library's counters), the delivery of mail, the sockets of discovery per
network interface, windows and layout of the desktop shell, the pages that load a
list and show it (`DonglesPage`, `DongleDetailPage`, `GroupsPage`, `AdminPage`),
deployment.

Run a model with `tlc -config <run>.cfg <module>` and the proofs with
`tlapm <Module>Proofs.tla`; `PROJECT.json` lists runs, the source lines of
every definition, seeded faults that each property catches, hazards and theorems.
