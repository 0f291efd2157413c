------------------------------ MODULE Commands ------------------------------
(***************************************************************************)
(* The life of one console command: enqueueCommand and its timer in the    *)
(* API, the control request that takes it to the bridge agent, the agent's *)
(* executor, and handleAgentCommandUpdate, which the control channel       *)
(* starts for every message about the command and never waits for.         *)
(*                                                                         *)
(* Commands share no row, timer or message, so one is enough.  A Prisma    *)
(* statement is one step and every await a point where anything else may   *)
(* run; two statements of two handlers may reach PostgreSQL in any order.  *)
(* Time is abstract: a timer that is armed may fire.                       *)
(*                                                                         *)
(* A message's text is its number in `messages`, and has a size in bytes   *)
(* of UTF-8.  Dates, exit codes and the API's own errors are left out.     *)
(*                                                                         *)
(* Handlers write back old copies of the row, and events leave in another  *)
(* order than the writes.  Three history variables, which no guard reads,  *)
(* remember when that happened; the properties name them as exceptions.    *)
(***************************************************************************)
EXTENDS Integers, Sequences, FiniteSetsExt

CONSTANTS
    Chunks,    \* bound: pieces of output the process prints
    OutputMax, \* COMMAND_OUTPUT_MAX_BYTES
    Sizes,     \* bound: bytes a text may have
    Overlap,   \* bound: activities of the API under way at the same time
    Faults     \* what may go wrong in this instance

ASSUME CommandsAssumption ==
    /\ Chunks \in Nat /\ OutputMax \in Nat /\ Overlap \in Nat \ {0}
    /\ Sizes \subseteq Nat \ {0}
    /\ Faults \subseteq {"link", "agent", "restart", "database"}

Streams == {"stdout", "stderr"}
Open == {"queued", "running"}
Terminal == {"done", "error", "timeout"}
Responses == {"ok", "exit", "failed", "timeout"}
Bodies == Streams \cup Responses

VARIABLES
    pc,       \* where enqueueCommand is
    row,      \* the Command row
    timer,    \* the entry of commandTimers, or its callback once it fired
    shown,    \* status of the last command_status event
    link,     \* whether the agent's control socket is connected
    request,  \* the command_request, then the agent's execution of it
    ack,      \* the command_ack
    messages, \* chunks and responses, with the state of their handlers
    reopened, \* history: a verdict was overwritten by an open status
    muddled,  \* history: the status changed while an event was still due
    overwritten \* history: a row was written over that the writer had not read

program == <<pc, row, timer, shown, link, request, ack, messages>>
vars == <<program, reopened, muddled, overwritten>>

Texts == [texts: Seq(Nat), bytes: Nat]
Nothing == [texts |-> <<>>, bytes |-> 0]
Row == [status: {"absent"} \cup Open \cup Terminal,
        stdout: Texts, stderr: Texts, truncated: BOOLEAN]
Queued == [status |-> "queued", stdout |-> Nothing, stderr |-> Nothing,
           truncated |-> FALSE]
NoRow == [Queued EXCEPT !.status = "absent"]

Message == [pc: {"wire", "lost", "received", "ignored", "read", "written", "handled"},
            body: Bodies, size: Nat, seen: Row]

\* Type correctness of the row, of the timer and of every message.
TypeOK ==
    /\ pc \in {"idle", "audit", "pending", "accepted", "failing", "telling",
               "failed", "unaudited", "unwritten", "gone"}
    /\ row \in Row
    /\ timer \in {"none", "armed", "fired", "wrote", "failed"}
    /\ shown \in {"absent"} \cup Open \cup Terminal
    /\ link \in BOOLEAN
    /\ request \in {"none", "wire", "lost", "executing", "over"}
    /\ ack \in {"none", "wire", "gone"}
    /\ messages \in Seq(Message)
    /\ {reopened, muddled, overwritten} \subseteq BOOLEAN

Init ==
    /\ pc = "idle" /\ row = NoRow /\ timer = "none" /\ shown = "absent"
    /\ link = TRUE /\ request = "none" /\ ack = "none" /\ messages = <<>>
    /\ reopened = FALSE /\ muddled = FALSE /\ overwritten = FALSE

-----------------------------------------------------------------------------
(* Helpers *)

Ended == row.status \in Terminal

\* seeded fault: the agent's word is stored as it came
StatusUnmapped(body) ==
    CASE body \in Streams -> "running" [] body \in {"ok", "timeout"} -> body
      [] OTHER -> "error"

\* seeded fault: a failed process counts as done
StatusOptimistic(body) ==
    IF body \in Streams THEN "running" ELSE IF body = "timeout" THEN "timeout" ELSE "done"

\* The status a message makes the command have: mapAgentStatusToDb, and
\* "running" for a chunk.
Status(body) ==
    CASE body \in Streams -> "running"
      [] body = "ok" -> "done"
      [] body = "timeout" -> "timeout"
      [] body \in {"exit", "failed"} -> "error"

\* The stream a message has text for; a spawn failure explains itself.
CarriesTo(body, s) == body = s \/ (body = "failed" /\ s = "stderr")

\* seeded fault: the limit counts stdout alone
RemainingOfOne(r) == OutputMax - r.stdout.bytes

\* The room for more output: both streams count.
Remaining(r) == OutputMax - r.stdout.bytes - r.stderr.bytes

\* What a cut text can have more than the room: a character of which k bytes
\* remain is decoded to U+FFFD, which has three.
Overruns(room) == {over \in 0 .. 2 : over = 0 \/ 3 - over <= room}

\* seeded fault: a text replaces what was there
ClampReplacing(base, i, size, room, over) ==
    IF room <= 0 THEN base
    ELSE [texts |-> <<i>>, bytes |-> IF size <= room THEN size ELSE room + over]

\* clampOutputChunk: base with the text of message i, as far as there is room.
Clamp(base, i, size, room, over) ==
    IF room <= 0 THEN base
    ELSE [texts |-> Append(base.texts, i),
          bytes |-> base.bytes + (IF size <= room THEN size ELSE room + over)]

\* The row handleAgentCommandUpdate writes for message i from the row it read.
Updated(seen, i, body, size, over) ==
    LET room == Remaining(seen)
        out(s, base) == IF CarriesTo(body, s) THEN Clamp(base, i, size, room, over)
                                              ELSE base
    IN  [status |-> Status(body),
         stdout |-> out("stdout", seen.stdout),
         stderr |-> out("stderr", seen.stderr),
         truncated |-> \/ seen.truncated
                       \/ /\ room <= 0 \/ size > room
                          /\ \E s \in Streams : CarriesTo(body, s)]

\* clearTimer: a callback that already runs is not stopped.
Cleared(t) == IF t = "armed" THEN "none" ELSE t

\* Handlers, timer callbacks and failing requests that have begun and not ended.
InFlight ==
    Cardinality({i \in DOMAIN messages : messages[i].pc \in {"received", "read", "written"}})
    + (IF timer \in {"fired", "wrote"} THEN 1 ELSE 0)
    + (IF pc \in {"failing", "telling"} THEN 1 ELSE 0)
Free == InFlight < Overlap

Move(i, from, to) ==
    /\ messages[i].pc = from
    /\ messages' = [messages EXCEPT ![i].pc = to]

-----------------------------------------------------------------------------
(* enqueueCommand *)

\* The row is created and announced.  Validation and authorization come first
\* and leave nothing behind.
EnqueueCreate ==
    /\ pc = "idle"
    /\ pc' = "audit" /\ row' = Queued /\ shown' = "queued"
    /\ UNCHANGED <<timer, link, request, ack, messages>>

\* seeded fault: the timer is armed after the agent accepted
EnqueueSendUntimed ==
    /\ pc = "audit"
    /\ pc' = "pending"
    /\ request' = IF link THEN "wire" ELSE "lost"
    /\ UNCHANGED <<timer, row, shown, link, ack, messages>>

\* The audit row is written; the timer is armed and the request sent in one go.
\* A socket whose peer is gone takes the request until its end is noticed.
EnqueueSend ==
    /\ pc = "audit"
    /\ pc' = "pending" /\ timer' = "armed"
    /\ request' = IF link THEN "wire" ELSE "lost"
    /\ UNCHANGED <<row, shown, link, ack, messages>>

\* No open socket: sendControlRequest throws and the timer is cleared at once.
EnqueueOffline ==
    /\ pc = "audit" /\ ~link
    /\ pc' = "failing"
    /\ UNCHANGED <<row, timer, shown, link, request, ack, messages>>

\* The audit row cannot be written: the request fails, the command stays.
EnqueueAuditFails ==
    /\ "database" \in Faults /\ pc = "audit"
    /\ pc' = "unaudited"
    /\ UNCHANGED <<row, timer, shown, link, request, ack, messages>>

\* The command_ack resolves the pending request, if it still is pending.
AckReceived ==
    /\ ack = "wire" /\ ack' = "gone"
    /\ pc' = IF pc = "pending" THEN "accepted" ELSE pc
    /\ UNCHANGED <<row, timer, shown, link, request, messages>>

\* The pending request is rejected: its 10 s timer, or a socket of the agent
\* closed or failed.
DispatchRejected ==
    /\ Free /\ pc = "pending"
    /\ pc' = "failing" /\ timer' = Cleared(timer)
    /\ UNCHANGED <<row, shown, link, request, ack, messages>>

\* The catch block writes "error" whatever the row says, and its own stderr.
DispatchFailed ==
    /\ pc = "failing" /\ pc' = "telling"
    /\ row' = [row EXCEPT !.status = "error", !.stderr = Nothing]
    /\ UNCHANGED <<timer, shown, link, request, ack, messages>>

\* Its own statement fails: the timer is cleared and the command stays open.
DispatchUnwritten ==
    /\ "database" \in Faults /\ pc = "failing" /\ pc' = "unwritten"
    /\ UNCHANGED <<row, timer, shown, link, request, ack, messages>>

DispatchReported ==
    /\ pc = "telling" /\ pc' = "failed" /\ shown' = "error"
    /\ UNCHANGED <<row, timer, link, request, ack, messages>>

-----------------------------------------------------------------------------
(* scheduleTimeout *)

TimerFire ==
    /\ Free /\ timer = "armed" /\ timer' = "fired"
    /\ UNCHANGED <<pc, row, shown, link, request, ack, messages>>

\* seeded fault: only a command that never started times out
TimerWriteQueuedOnly ==
    /\ timer = "fired"
    /\ timer' = IF row.status = "queued" THEN "wrote" ELSE "none"
    /\ row' = IF row.status = "queued" THEN [row EXCEPT !.status = "timeout"] ELSE row
    /\ UNCHANGED <<pc, shown, link, request, ack, messages>>

\* One guarded updateMany; a command that ended is left alone.
TimerWrite ==
    /\ timer = "fired"
    /\ timer' = IF row.status \in Open THEN "wrote" ELSE "none"
    /\ row' = IF row.status \in Open THEN [row EXCEPT !.status = "timeout"] ELSE row
    /\ UNCHANGED <<pc, shown, link, request, ack, messages>>

\* The row is read again, announced, and the entry dropped.
TimerPublish ==
    /\ timer = "wrote" /\ timer' = "none" /\ shown' = row.status
    /\ UNCHANGED <<pc, row, link, request, ack, messages>>

\* The catch of the callback swallows a failed statement ("best-effort").
TimerFails ==
    /\ "database" \in Faults /\ timer \in {"fired", "wrote"} /\ timer' = "failed"
    /\ UNCHANGED <<pc, row, shown, link, request, ack, messages>>

-----------------------------------------------------------------------------
(* The agent: command_ack, then executeAgentCommand or executeDongleCommand *)

TakeRequest ==
    /\ request = "wire" /\ request' = "executing" /\ ack' = "wire"
    /\ UNCHANGED <<pc, row, timer, shown, link, messages>>

\* control.send drops a message silently when the socket is not open.
Send(body, size) ==
    messages' = Append(messages, [pc |-> IF link THEN "wire" ELSE "lost",
                                  body |-> body, size |-> size, seen |-> NoRow])

Output(s, size) ==
    /\ request = "executing" /\ Len(messages) < Chunks /\ Send(s, size)
    /\ UNCHANGED <<pc, row, timer, shown, link, request, ack>>

\* The one response: exit, the agent's own timer, or a failure before any output.
Respond(body, size) ==
    /\ request = "executing" /\ request' = "over"
    /\ body = "failed" => messages = <<>>
    /\ Send(body, size)
    /\ UNCHANGED <<pc, row, timer, shown, link, ack>>

AgentStops ==
    /\ "agent" \in Faults /\ request = "executing" /\ request' = "over"
    /\ UNCHANGED <<pc, row, timer, shown, link, ack, messages>>

-----------------------------------------------------------------------------
(* handleAgentCommandUpdate *)

\* Messages of one socket arrive in order, after the command_ack.
Receive(i) ==
    /\ Free /\ ack # "wire" /\ \A j \in 1 .. i - 1 : messages[j].pc # "wire"
    /\ Move(i, "wire", "received")
    /\ UNCHANGED <<pc, row, timer, shown, link, request, ack>>

\* seeded fault: no early return for a command that ended
HandleReadAlways(i) ==
    /\ messages[i].pc = "received"
    /\ messages' = [messages EXCEPT ![i] = [@ EXCEPT !.seen = row, !.pc = "read"]]
    /\ UNCHANGED <<pc, row, timer, shown, link, request, ack>>

HandleRead(i) ==
    /\ messages[i].pc = "received"
    /\ messages' = [messages EXCEPT ![i] =
            [@ EXCEPT !.seen = row, !.pc = IF Ended THEN "ignored" ELSE "read"]]
    /\ UNCHANGED <<pc, row, timer, shown, link, request, ack>>

Written(i) ==
    LET m == messages[i]
    IN  \E over \in Overruns(Remaining(m.seen)) :
            row' = Updated(m.seen, i, m.body, m.size, over)

\* seeded fault: after a failed statement the handler starts over
HandleWriteTwice(i) ==
    /\ messages[i].pc = "read"
    /\ \E to \in {"written", "received"} : Move(i, "read", to)
    /\ Written(i)
    /\ UNCHANGED <<pc, timer, shown, link, request, ack>>

\* The update is not guarded by the status that was read.
HandleWrite(i) ==
    /\ Move(i, "read", "written")
    /\ Written(i)
    /\ UNCHANGED <<pc, timer, shown, link, request, ack>>

\* seeded fault: every message clears the timer
HandlePublishClearing(i) ==
    /\ Move(i, "written", "handled")
    /\ timer' = Cleared(timer)
    /\ shown' = Status(messages[i].body)
    /\ UNCHANGED <<pc, row, link, request, ack>>

\* seeded fault: only the end is announced
HandlePublishLast(i) ==
    LET status == Status(messages[i].body)
    IN  /\ Move(i, "written", "handled")
        /\ timer' = IF status \in Terminal THEN Cleared(timer) ELSE timer
        /\ shown' = IF status \in Terminal THEN status ELSE shown
        /\ UNCHANGED <<pc, row, link, request, ack>>

HandlePublish(i) ==
    LET status == Status(messages[i].body)
    IN  /\ Move(i, "written", "handled")
        /\ timer' = IF status \in Terminal THEN Cleared(timer) ELSE timer
        /\ shown' = status
        /\ UNCHANGED <<pc, row, link, request, ack>>

-----------------------------------------------------------------------------
(* The environment *)

\* What is on the wire when the socket breaks is lost.
OffWire(x, lost) == IF x = "wire" THEN lost ELSE x

Disconnect ==
    /\ "link" \in Faults /\ link /\ link' = FALSE
    /\ request' = OffWire(request, "lost") /\ ack' = OffWire(ack, "gone")
    /\ messages' = [i \in DOMAIN messages |->
                        [messages[i] EXCEPT !.pc = OffWire(@, "lost")]]
    /\ UNCHANGED <<pc, row, timer, shown>>

\* The agent's client reconnects until it is stopped.
Reconnect ==
    /\ ~link /\ link' = TRUE
    /\ UNCHANGED <<pc, row, timer, shown, request, ack, messages>>

\* The API process stops and starts: timers, handlers and requests are gone,
\* and nothing reads the rows of unfinished commands at startup.
Restart ==
    /\ "restart" \in Faults /\ pc # "idle"
    /\ pc' = "gone" /\ timer' = "none" /\ link' = FALSE
    /\ request' = OffWire(request, "lost") /\ ack' = OffWire(ack, "gone")
    /\ messages' = [i \in DOMAIN messages |->
            [messages[i] EXCEPT !.pc = IF @ \in {"ignored", "handled"} THEN @ ELSE "lost"]]
    /\ UNCHANGED <<row, shown>>

-----------------------------------------------------------------------------
Enqueue == EnqueueCreate \/ EnqueueSend \/ EnqueueOffline \/ EnqueueAuditFails
Dispatch ==
    AckReceived \/ DispatchRejected \/ DispatchFailed \/ DispatchUnwritten \/ DispatchReported
Timer == TimerFire \/ TimerWrite \/ TimerPublish \/ TimerFails
Agent ==
    \/ TakeRequest \/ AgentStops
    \/ \E s \in Streams, size \in Sizes : Output(s, size)
    \/ \E body \in Responses :
            \E size \in (IF body = "failed" THEN Sizes ELSE {0}) : Respond(body, size)
Handle(i) == Receive(i) \/ HandleRead(i) \/ HandleWrite(i) \/ HandlePublish(i)
Environment == Disconnect \/ Reconnect \/ Restart

Step ==
    \/ Enqueue \/ Dispatch \/ Timer \/ Agent \/ Environment
    \/ \E i \in DOMAIN messages : Handle(i)

\* An activity that changed the row and has not yet told it.
OwesEvent ==
    \/ pc = "telling" \/ timer = "wrote"
    \/ \E i \in DOMAIN messages : messages[i].pc = "written"

\* An event that was due is not sent any more.
EventDropped ==
    \/ pc = "telling" /\ pc' = "gone"
    \/ timer = "wrote" /\ (timer' = "failed" \/ pc' = "gone")
    \/ \E i \in DOMAIN messages : messages[i].pc = "written" /\ messages'[i].pc = "lost"

\* Message i writes back a row that is no longer the stored one.
WritesOld(i) ==
    messages[i].pc = "read" /\ messages'[i].pc = "written" /\ messages[i].seen # row

Remember ==
    /\ reopened' = (reopened \/ (Ended /\ row'.status \in Open))
    /\ muddled' = IF row'.status # row.status THEN OwesEvent ELSE muddled \/ EventDropped
    /\ overwritten' = \/ overwritten
                      \/ pc = "failing" /\ pc' = "telling"
                      \/ \E i \in DOMAIN messages : WritesOld(i)

Next == Step /\ Remember

Spec == Init /\ [][Next]_vars

\* PostgreSQL answers, timers fire and microtasks run.  Nothing is assumed of
\* the agent, of the link or of the arrival of any message.
Fairness ==
    /\ WF_program(EnqueueSend \/ EnqueueOffline)
    /\ WF_program(DispatchRejected) /\ WF_program(DispatchFailed)
    /\ WF_program(DispatchReported)
    /\ WF_program(TimerFire) /\ WF_program(TimerWrite) /\ WF_program(TimerPublish)
    /\ \A i \in 1 .. Chunks + 1 :
            WF_program(i \in DOMAIN messages
                       /\ (HandleRead(i) \/ HandleWrite(i) \/ HandlePublish(i)))

FairSpec == Spec /\ Fairness

-----------------------------------------------------------------------------
(* Properties: any number of activities overlap and anything may fail *)

\* commands.ts, COMMAND_OUTPUT_MAX_BYTES: every handler counts both streams of
\* the row it read and writes both, so no order of the writes exceeds the limit
\* by more than the two bytes a character cut at the end of the last text adds.
OutputWithinCap == row.stdout.bytes + row.stderr.bytes <= OutputMax + 2

\* commands.ts, handleAgentCommandUpdate: the output holds only text the agent
\* sent for that stream, and no text twice, although handlers write old copies.
OutputGenuine ==
    LET genuine(s, out) ==
            /\ \A k \in DOMAIN out : /\ out[k] \in DOMAIN messages
                                     /\ CarriesTo(messages[out[k]].body, s)
            /\ \A k, l \in DOMAIN out : out[k] = out[l] => k = l
    IN  genuine("stdout", row.stdout.texts) /\ genuine("stderr", row.stderr.texts)

\* commands.ts, lines 477-502: every text a handler wrote stays in its stream,
\* up to the limit.  It is lost only to a handler that wrote back an older copy
\* of the row, or to the catch block, which empties stderr.
OutputKept ==
    LET holds(out, i) == \E k \in DOMAIN out : out[k] = i
        kept(i) == /\ CarriesTo(messages[i].body, "stdout") => holds(row.stdout.texts, i)
                   /\ CarriesTo(messages[i].body, "stderr") => holds(row.stderr.texts, i)
    IN  ~overwritten =>
            \/ row.truncated
            \/ \A i \in DOMAIN messages : messages[i].pc \in {"written", "handled"} => kept(i)

\* commands.ts, handleAgentCommandUpdate, timer and catch: "done" in the row
\* means that the process of this command exited with 0 on the agent.
DoneIsReal == row.status = "done" => \E i \in DOMAIN messages : messages[i].body = "ok"

\* commands.ts, line 425: a verdict is changed by a failed dispatch, or by a
\* handler that had read the row before there was one; by nothing else, and by
\* no message that arrives after it.
VerdictFinal ==
    [][Ended => \/ row'.status = row.status
                \/ pc = "failing" /\ pc' = "telling"
                \/ \E i \in DOMAIN messages :
                        /\ messages[i].pc = "read" /\ messages'[i].pc = "written"
                        /\ messages[i].seen.status \notin Terminal]_vars

\* commands.ts, commandTimers: from the dispatch on, a command that has not
\* ended has someone left who will end it, unless a statement that was to end it
\* failed, the API crashed, or an older handler has reopened it.
TimerGuards ==
    row.status \in Open /\ ~reopened =>
        timer # "none" \/ pc \in {"audit", "failing", "unaudited", "unwritten", "gone"}

\* commands.ts, publishSse: when no event is due, the last command_status event
\* tells the status a reload would show, unless the status changed while an
\* event was still due, or that event was lost with a crash or a failed read.
ShownIsStored == ~OwesEvent /\ ~muddled => shown = row.status

\* commands.ts, scheduleTimeout: every command that was created reaches an end,
\* even if the agent never answers, unless the API crashed or a statement failed.
EventuallyEnds ==
    row.status = "queued" ~>
        Ended \/ pc \in {"gone", "unaudited", "unwritten"} \/ timer = "failed"
=============================================================================
