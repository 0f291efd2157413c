------------------------------ MODULE Streams ------------------------------
(***************************************************************************)
(* One console stream: the StreamManager's entry for it (dashboard-api,    *)
(* services/streams.ts), the route that subscribes a response to it        *)
(* (routes/streams.ts, and the benchmark's) and the browsers that follow   *)
(* it (dashboard-web, hooks/useSse.ts, over the browser's EventSource).    *)
(*                                                                         *)
(* Streams share nothing, so one is enough.  Events are written by their   *)
(* ids; log has what each of them is.  Of time only the effects are        *)
(* modelled: events grow too old for the buffer, frames leave the window   *)
(* of the rate.                                                            *)
(***************************************************************************)
EXTENDS Naturals, Sequences

CONSTANTS
    Clients,   \* pages that follow the stream
    BufferMax, \* BUFFER_MAX_EVENTS
    Quota,     \* frames in the window of the rate that need no sampling
    MaxRecent, \* bound: frames in that window
    MaxEvents, \* bound: ids given to what is published
    MaxCuts    \* bound: broken connections and restarts of the API

ASSUME StreamsAssumption ==
    /\ BufferMax \in Nat \ {0} /\ Quota \in Nat \ {0}
    /\ MaxRecent \in Nat /\ MaxEvents \in Nat /\ MaxCuts \in Nat

\* What the properties tell apart: a lost history, and everything else (frames,
\* logs, presence, commands, groups).
Kinds == {"reset", "event"}

VARIABLES
    nextId,       \* of the stream, like the next three
    buffer,       \* the ids that can be replayed
    stale,        \* how many of them, from the front, are too old
    sampleFactor, \* one in so many frames is published
    recent,       \* frameTimestamps: frames in the window
    listening,    \* pages whose response is among the listeners
    link,         \* the EventSource of a page
    lastEventId,  \* what it would resume after; 0 if it got no event yet
    wire,         \* ids written to a response and not received yet
    log,          \* history: the kinds of all events since the API started
    placed,       \* history: pages whose lastEventId was given in that time
    announced,    \* history: the factor the last sampling event told
    cuts          \* bound: failures so far

stream == <<nextId, buffer, stale, sampleFactor, recent, log, announced>>
vars == <<stream, listening, link, lastEventId, wire, placed, cuts>>

\* Type correctness of the stream, of its readers and of the history.
TypeOK ==
    /\ nextId \in Nat \ {0} /\ buffer \in Seq(Nat) /\ stale \in 0 .. Len(buffer)
    /\ sampleFactor \in Nat \ {0} /\ recent \in Nat
    /\ listening \subseteq Clients
    /\ link \in [Clients -> {"off", "connecting", "open", "waiting", "failed"}]
    /\ lastEventId \in [Clients -> Nat] /\ wire \in [Clients -> Seq(Nat)]
    /\ log \in Seq(Kinds) /\ placed \subseteq Clients
    /\ announced \in Nat \ {0} /\ cuts \in Nat

\* The stream is as ensure makes it.
Init ==
    /\ nextId = 1 /\ buffer = <<>> /\ stale = 0
    /\ sampleFactor = 1 /\ recent = 0
    /\ log = <<>> /\ announced = 1
    /\ listening = {} /\ placed = {} /\ cuts = 0
    /\ link = [c \in Clients |-> "off"]
    /\ lastEventId = [c \in Clients |-> 0]
    /\ wire = [c \in Clients |-> <<>>]

-----------------------------------------------------------------------------
(* The StreamManager *)

\* prune: events over the limit and events that are too old, from the front.
Prune(ids, old) ==
    LET over == IF Len(ids) > BufferMax THEN Len(ids) - BufferMax ELSE 0
        gone == IF over > old THEN over ELSE old
    IN  SubSeq(ids, gone + 1, Len(ids))

\* The ids toEvent gives to the next n events.
NewIds(n) == [i \in 1 .. n |-> nextId + i - 1]

\* seeded fault: only the last of several events reaches the listeners
PushLast(kinds, to) ==
    /\ log' = log \o kinds
    /\ nextId' = nextId + Len(kinds)
    /\ buffer' = Prune(buffer \o NewIds(Len(kinds)), stale)
    /\ stale' = 0
    /\ wire' = [c \in Clients |->
                    IF c \in to THEN Append(wire[c], nextId + Len(kinds) - 1) ELSE wire[c]]

\* seeded fault: events are counted as too old after they left the buffer
PushKeepsAge(kinds, to) ==
    /\ log' = log \o kinds
    /\ nextId' = nextId + Len(kinds)
    /\ buffer' = Prune(buffer \o NewIds(Len(kinds)), stale)
    /\ stale' = stale
    /\ wire' = [c \in Clients |->
                    IF c \in to THEN wire[c] \o NewIds(Len(kinds)) ELSE wire[c]]

\* toEvent and push: events get their ids, go into the buffer and to listeners.
Push(kinds, to) ==
    /\ log' = log \o kinds
    /\ nextId' = nextId + Len(kinds)
    /\ buffer' = Prune(buffer \o NewIds(Len(kinds)), stale)
    /\ stale' = 0
    /\ wire' = [c \in Clients |->
                    IF c \in to THEN wire[c] \o NewIds(Len(kinds)) ELSE wire[c]]

PublishOther ==
    /\ nextId <= MaxEvents
    /\ Push(<<"event">>, listening)
    /\ UNCHANGED <<sampleFactor, recent, announced, listening, link, lastEventId,
                   placed, cuts>>

\* seeded fault: the factor is not taken back when the rate falls
StickyFactor(n) == IF n > Quota THEN (n + Quota - 1) \div Quota ELSE sampleFactor

\* maybeAdjustSampling: one in ceil(rate / threshold).
DesiredFactor(n) == IF n > Quota THEN (n + Quota - 1) \div Quota ELSE 1

\* seeded fault: a change of the factor is not announced
PublishFrameSilently ==
    LET seen   == recent + 1
        factor == DesiredFactor(seen)
        frame  == IF seen % factor = 0 THEN <<"event">> ELSE <<>>
    IN  /\ nextId <= MaxEvents /\ recent < MaxRecent
        /\ recent' = seen /\ sampleFactor' = factor
        /\ IF frame = <<>> THEN UNCHANGED <<nextId, buffer, stale, log, wire>>
           ELSE Push(frame, listening)
        /\ UNCHANGED <<announced, listening, link, lastEventId, placed, cuts>>

\* publish of a frame: the factor follows the rate, a new one is announced, and
\* the frame is kept if the number of frames in the window is a multiple of it.
PublishFrame ==
    LET seen   == recent + 1
        factor == DesiredFactor(seen)
        told   == IF factor # sampleFactor THEN <<"event">> ELSE <<>>
        frame  == IF seen % factor = 0 THEN <<"event">> ELSE <<>>
    IN  /\ nextId <= MaxEvents /\ recent < MaxRecent
        /\ recent' = seen /\ sampleFactor' = factor
        /\ announced' = IF told = <<>> THEN announced ELSE factor
        /\ IF told \o frame = <<>> THEN UNCHANGED <<nextId, buffer, stale, log, wire>>
           ELSE Push(told \o frame, listening)
        /\ UNCHANGED <<listening, link, lastEventId, placed, cuts>>

\* Time passes: a frame leaves the window of the rate.
Expire ==
    /\ recent > 0 /\ recent' = recent - 1
    /\ UNCHANGED <<nextId, buffer, stale, sampleFactor, log, announced, listening,
                   link, lastEventId, wire, placed, cuts>>

\* Time passes: one more event is older than BUFFER_MAX_AGE_MS.
Age ==
    /\ stale < Len(buffer) /\ stale' = stale + 1
    /\ UNCHANGED <<nextId, buffer, sampleFactor, recent, log, announced, listening,
                   link, lastEventId, wire, placed, cuts>>

-----------------------------------------------------------------------------
(* The route *)

\* seeded fault: everything in the buffer is replayed
ResumeWhole(c) ==
    /\ link[c] = "connecting"
    /\ \/ lastEventId[c] = 0 /\ UNCHANGED wire
       \/ /\ \E i \in 1 .. Len(buffer) : buffer[i] = lastEventId[c]
          /\ wire' = [wire EXCEPT ![c] = buffer]
    /\ link' = [link EXCEPT ![c] = "open"] /\ listening' = listening \cup {c}
    /\ UNCHANGED <<stream, lastEventId, placed, cuts>>

\* subscribe: without a Last-Event-ID the response just listens; with one it gets
\* what follows that event in the buffer,
Resume(c) ==
    /\ link[c] = "connecting"
    /\ \/ lastEventId[c] = 0 /\ UNCHANGED wire
       \/ \E i \in 1 .. Len(buffer) :
            /\ buffer[i] = lastEventId[c]
            /\ wire' = [wire EXCEPT ![c] = SubSeq(buffer, i + 1, Len(buffer))]
    /\ link' = [link EXCEPT ![c] = "open"] /\ listening' = listening \cup {c}
    /\ UNCHANGED <<stream, lastEventId, placed, cuts>>

Lost(c) ==
    /\ link[c] = "connecting" /\ lastEventId[c] # 0
    /\ \A i \in 1 .. Len(buffer) : buffer[i] # lastEventId[c]
    /\ link' = [link EXCEPT ![c] = "open"] /\ listening' = listening \cup {c}
    /\ UNCHANGED <<sampleFactor, recent, announced, lastEventId, placed, cuts>>

\* seeded fault: the response itself is not told
ResetOthers(c) == Lost(c) /\ Push(<<"reset">>, listening)

\* or, if that event is not there any more, a reset, which emitReset publishes to
\* everyone who listens too, and none of what the buffer still has.
Reset(c) == Lost(c) /\ Push(<<"reset">>, listening \cup {c})

\* The session or the dongle is gone, or the proxy has no API to talk to: the
\* browser does not try again.
Refuse(c) ==
    /\ link[c] = "connecting"
    /\ link' = [link EXCEPT ![c] = "failed"]
    /\ UNCHANGED <<stream, listening, lastEventId, wire, placed, cuts>>

-----------------------------------------------------------------------------
(* The page *)

\* The effect opens an EventSource of its own, which knows no id.
Open(c) ==
    /\ link[c] = "off"
    /\ link' = [link EXCEPT ![c] = "connecting"]
    /\ UNCHANGED <<stream, listening, lastEventId, wire, placed, cuts>>

\* Its cleanup, for another target or another page; the route unsubscribes.
Close(c) ==
    /\ link[c] # "off"
    /\ link' = [link EXCEPT ![c] = "off"] /\ listening' = listening \ {c}
    /\ wire' = [wire EXCEPT ![c] = <<>>]
    /\ lastEventId' = [lastEventId EXCEPT ![c] = 0]
    /\ placed' = placed \ {c}
    /\ UNCHANGED <<stream, cuts>>

Receive(c) ==
    /\ link[c] = "open" /\ wire[c] # <<>>
    /\ lastEventId' = [lastEventId EXCEPT ![c] = Head(wire[c])]
    /\ wire' = [wire EXCEPT ![c] = Tail(@)]
    /\ placed' = placed \cup {c}
    /\ UNCHANGED <<stream, listening, link, cuts>>

\* onerror, on a connection that broke: what is on it is lost, and the route
\* hears the close event.
Cut(c) ==
    /\ cuts < MaxCuts /\ cuts' = cuts + 1
    /\ link[c] \in {"connecting", "open"}
    /\ link' = [link EXCEPT ![c] = "waiting"] /\ listening' = listening \ {c}
    /\ wire' = [wire EXCEPT ![c] = <<>>]
    /\ UNCHANGED <<stream, lastEventId, placed>>

\* The browser tries again with the last id it saw.
Retry(c) ==
    /\ link[c] = "waiting"
    /\ link' = [link EXCEPT ![c] = "connecting"]
    /\ UNCHANGED <<stream, listening, lastEventId, wire, placed, cuts>>

\* The API stops and starts: the stream is a new one and its ids start again.
Restart ==
    /\ cuts < MaxCuts /\ cuts' = cuts + 1
    /\ nextId' = 1 /\ buffer' = <<>> /\ stale' = 0
    /\ sampleFactor' = 1 /\ recent' = 0
    /\ log' = <<>> /\ announced' = 1
    /\ listening' = {} /\ placed' = {}
    /\ wire' = [c \in Clients |-> <<>>]
    /\ link' = [c \in Clients |->
                    IF link[c] \in {"connecting", "open"} THEN "waiting" ELSE link[c]]
    /\ UNCHANGED lastEventId

-----------------------------------------------------------------------------
ClientStep(c) ==
    \/ Resume(c) \/ Reset(c) \/ Refuse(c)
    \/ Open(c) \/ Close(c) \/ Receive(c) \/ Cut(c) \/ Retry(c)

Next ==
    \/ PublishOther \/ PublishFrame \/ Expire \/ Age
    \/ \E c \in Clients : ClientStep(c)
    \/ Restart

Spec == Init /\ [][Next]_vars

\* The browser reads what arrives and tries again, and the API answers.
Fairness ==
    \A c \in Clients : WF_vars(Receive(c)) /\ WF_vars(Retry(c))
                       /\ WF_vars(Resume(c) \/ Reset(c))

FairSpec == Spec /\ Fairness

-----------------------------------------------------------------------------
\* services/streams.ts, subscribe: what is replayed joins what is published
\* without a gap or a repetition, for every listener and at every moment.
WireComplete ==
    \A c \in listening :
        \A i \in 1 .. Len(wire[c]) : wire[c][i] = nextId - 1 - Len(wire[c]) + i

\* Along every connection and across reconnections: no event is skipped or
\* repeated unless a reset says so.
Abstract == INSTANCE ResumableLog
    WITH Readers <- Clients, Kinds <- Kinds, log <- log,
         pos <- [c \in Clients |-> IF c \in placed THEN lastEventId[c] ELSE 0]
ResumableSpec == Abstract!Spec

\* services/streams.ts, maybeAdjustSampling: whoever has followed the stream
\* knows how frames are sampled now.
SamplingTold == announced = sampleFactor

\* services/streams.ts: the types, and what listeners are sent is whole and tells the
\* sampling.
StreamsInvariant == TypeOK /\ WireComplete /\ SamplingTold

\* services/streams.ts, publish: a frame is dropped only while there are more in
\* the window than the threshold allows.
DropsOnlyUnderLoad ==
    [][recent' = recent + 1 /\ log' = log => recent' > Quota]_vars

\* hooks/useSse.ts: once nothing more is published (MaxEvents), a page that stays
\* has everything or was told of a reset, unless the API restarts or refuses it.
CatchesUp ==
    \A c \in Clients :
        c \in placed ~> c \notin placed \/ link[c] = "failed" \/ lastEventId[c] = nextId - 1

\* doc/new-dashboard-spec-v0.7.md, 18.2: a page whose last event is too old gets
\* a reset before anything else; here that event belongs to a stream before the
\* restart.
ResumedOrReset ==
    [][\A c \in Clients :
        lastEventId[c] # 0 /\ lastEventId'[c] \notin {0, lastEventId[c]} =>
            c \in placed \/ log'[lastEventId'[c]] = "reset"]_vars

\* services/streams.ts, line 74, "Sampling enabled at 1 in N frames": while frames
\* keep coming, events keep being published.
SamplingFlows ==
    []<><<recent' = recent + 1>>_vars => <>(nextId >= MaxEvents)
=============================================================================
