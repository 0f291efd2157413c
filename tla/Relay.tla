------------------------------- MODULE Relay -------------------------------
(***************************************************************************)
(* The relay of CAN frames between the two dongles of a group              *)
(* (dashboard-api, ws/data-plane.ts and services/groups.ts; bridge-agent,  *)
(* ws/data-plane.ts; the owner's page, pages/GroupsPage.tsx).              *)
(*                                                                         *)
(* The direction from dongle A to dongle B is modelled, the other one is   *)
(* the same code.  Each dongle is seen by an agent of its own, and frames  *)
(* are numbered in the order in which A's agent sends them.  What the API  *)
(* does for a message or a connection is an activity; activities wait for  *)
(* the database and for Redis, and meanwhile others go on.                 *)
(***************************************************************************)
EXTENDS Naturals, Sequences, Folds, Functions

CONSTANTS
    NamesGroup, \* whether A's agent puts the group into its messages
    BufferMax,  \* STREAM_MAX_LEN, which XADD trims to approximately: never below it
    MaxFrames,  \* bound: frames
    MaxSockets, \* bound: connections of B's agent
    MaxMarks,   \* bound: activities at once that set the mode
    MaxSwitches \* bound: changes of A's connection and of the owner's mind, and ends of
                \* the API

ASSUME RelayAssumption ==
    /\ NamesGroup \in BOOLEAN /\ BufferMax \in Nat \ {0}
    /\ MaxFrames \in Nat /\ MaxSockets \in Nat
    /\ MaxMarks \in Nat /\ MaxSwitches \in Nat

Frames == 1 .. MaxFrames
Sockets == 1 .. MaxSockets
Modes == {"INACTIVE", "ACTIVE", "DEGRADED"}

\* What an activity that sets the mode of the group does next.
Steps == {<<"load">>, <<"compute">>} \cup ({"read", "write"} \X {"ACTIVE", "DEGRADED"})

VARIABLES
    mode,     \* of the group, in the database
    pc,       \* what the handler of a frame does next
    arrived,  \* frames that reached the API
    marks,    \* how many activities that set the mode are at each step
    buffer,   \* the Redis stream of the direction
    replay,   \* what replayBufferedFrames does next for a socket of B's agent
    aUp,      \* whether A's agent is connected
    sock,     \* the socket registered for B's agent, 0 if there is none
    live,     \* the socket B's agent has open, 0 if there is none
    dialing,  \* whether B's agent has an upgrade under way
    broken,   \* sockets whose close event is still to come
    opened,   \* sockets so far
    wire,     \* frames on the way to B's agent, on its open socket
    got,      \* history: frames it received on that socket
    received, \* history: all frames it received
    overlap,  \* history: a frame or a replay was not finished when another came,
              \* or a replay left frames because the group was inactive
    final,    \* history: the owner's deactivation found nothing under way
    switches  \* bound

delivery == <<pc, arrived, buffer, replay, wire, got, received, overlap>>
links == <<aUp, sock, live, dialing, broken, opened>>
owner == <<final, switches>>
vars == <<mode, marks, delivery, links, owner>>

TypeOK ==
    /\ mode \in Modes /\ marks \in [Steps -> Nat]
    /\ pc \in [Frames -> {"new", "find", "relay", "add", "done"}]
    /\ arrived \in 0 .. MaxFrames
    /\ buffer \in Seq(Frames) /\ wire \in Seq(Frames)
    /\ got \in Seq(Frames) /\ received \in Seq(Frames)
    /\ replay \in [Sockets -> {"none", "load", "range", "del"}]
    /\ aUp \in BOOLEAN /\ dialing \in BOOLEAN
    /\ sock \in 0 .. MaxSockets /\ live \in 0 .. MaxSockets
    /\ broken \subseteq Sockets /\ opened \in 0 .. MaxSockets
    /\ overlap \in BOOLEAN /\ final \in BOOLEAN /\ switches \in Nat

\* A group that was just created, and only A's agent is there.
Init ==
    /\ mode = "INACTIVE" /\ marks = [s \in Steps |-> 0]
    /\ pc = [f \in Frames |-> "new"] /\ arrived = 0
    /\ buffer = <<>> /\ wire = <<>> /\ got = <<>> /\ received = <<>>
    /\ replay = [s \in Sockets |-> "none"]
    /\ aUp = TRUE /\ sock = 0 /\ live = 0 /\ dialing = FALSE /\ broken = {} /\ opened = 0
    /\ overlap = FALSE /\ final = TRUE /\ switches = 0

Busy(p, r) ==
    \/ \E f \in Frames : p[f] \in {"find", "relay", "add"}
    \/ \E s \in Sockets : r[s] # "none"

One(s) == [t \in Steps |-> IF t = s THEN 1 ELSE 0]
Room == FoldFunction(+, 0, marks) < MaxMarks
Begin(s) == Room /\ marks' = [marks EXCEPT ![s] = @ + 1]
Go(s, t) == marks' = [u \in Steps |-> marks[u] - One(s)[u] + One(t)[u]]
End(s) == marks' = [marks EXCEPT ![s] = @ - 1]

\* Whether the registered socket is open, as its readyState says: one that broke may
\* show it before its close event.
Open == {sock # 0, sock # 0 /\ sock \notin broken}

\* Activities that no longer look whether the group is inactive.
Decided(m, p) ==
    \/ \E s \in Steps \ {<<"load">>} : m[s] > 0
    \/ \E f \in Frames : p[f] \in {"relay", "add"}

-----------------------------------------------------------------------------
(* The owner and the agents *)

\* activateGroup
Activate ==
    /\ switches < MaxSwitches /\ switches' = switches + 1
    /\ mode # "ACTIVE" /\ mode' = "ACTIVE" /\ final' = FALSE
    /\ UNCHANGED <<marks, delivery, links>>

\* deactivateGroup
Deactivate ==
    /\ switches < MaxSwitches /\ switches' = switches + 1
    /\ mode # "INACTIVE" /\ mode' = "INACTIVE" /\ final' = ~Decided(marks, pc)
    /\ UNCHANGED <<marks, delivery, links>>

\* The connection of A's agent comes and goes.
SwitchA ==
    /\ switches < MaxSwitches /\ switches' = switches + 1
    /\ aUp' = ~aUp /\ Begin(<<"load">>)
    /\ UNCHANGED <<mode, delivery, sock, live, dialing, broken, opened, final>>

\* connect: B's agent dials when it has no open socket.
Dial ==
    /\ live = 0 /\ ~dialing /\ opened < MaxSockets /\ dialing' = TRUE
    /\ UNCHANGED <<mode, marks, delivery, aUp, sock, live, broken, opened, owner>>

\* The upgrade fails, and scheduleReconnect has it dial again.
Refuse ==
    /\ dialing /\ dialing' = FALSE
    /\ UNCHANGED <<mode, marks, delivery, aUp, sock, live, broken, opened, owner>>

\* The connection handler: the new socket replaces the registered one, and two
\* activities start.
Accept ==
    /\ dialing /\ dialing' = FALSE
    /\ opened' = opened + 1 /\ live' = opened + 1 /\ sock' = opened + 1
    /\ replay' = [replay EXCEPT ![opened + 1] = "load"] /\ got' = <<>>
    /\ overlap' = (overlap \/ Busy(pc, replay))
    /\ Begin(<<"load">>)
    /\ UNCHANGED <<mode, pc, arrived, buffer, wire, received, aUp, broken, owner>>

\* The connection breaks.  B's agent knows, the API does not yet.
Break ==
    /\ live # 0 /\ live' = 0
    /\ broken' = broken \cup {live} /\ wire' = <<>>
    /\ UNCHANGED <<mode, marks, pc, arrived, buffer, replay, got, received, overlap,
                   aUp, sock, dialing, opened, owner>>

\* seeded fault: the registration is removed whoever it belongs to
CloseAny(s) ==
    /\ s \in broken /\ broken' = broken \ {s}
    /\ sock' = 0
    /\ Begin(<<"load">>)
    /\ UNCHANGED <<mode, delivery, aUp, live, dialing, opened, owner>>

\* The close handler: a socket that was replaced meanwhile leaves its successor.
Close(s) ==
    /\ s \in broken /\ broken' = broken \ {s}
    /\ sock' = IF sock = s THEN 0 ELSE sock
    /\ Begin(<<"load">>)
    /\ UNCHANGED <<mode, delivery, aUp, live, dialing, opened, owner>>

\* The API ends: nobody catches the rejection when a statement of an activity fails,
\* and Node stops.  Its connections and activities are gone; the database and Redis
\* keep what was written.
Restart ==
    /\ switches < MaxSwitches /\ switches' = switches + 1
    /\ pc' = [f \in Frames |-> IF pc[f] = "new" THEN "new" ELSE "done"]
    /\ replay' = [s \in Sockets |-> "none"] /\ marks' = [s \in Steps |-> 0]
    /\ aUp' = FALSE /\ sock' = 0 /\ live' = 0 /\ dialing' = FALSE /\ broken' = {}
    /\ wire' = <<>>
    /\ UNCHANGED <<mode, arrived, buffer, got, received, overlap, opened, final>>

Receive ==
    /\ wire # <<>> /\ wire' = Tail(wire)
    /\ got' = Append(got, Head(wire)) /\ received' = Append(received, Head(wire))
    /\ UNCHANGED <<mode, marks, pc, arrived, buffer, replay, overlap, links, owner>>

-----------------------------------------------------------------------------
(* handleCanFrame *)

\* A's agent sends its next frame, and the handler touches the dongle and asks
\* for the group.
Arrive ==
    /\ aUp /\ arrived < MaxFrames /\ arrived' = arrived + 1
    /\ pc' = [pc EXCEPT ![arrived + 1] = "find"]
    /\ overlap' = (overlap \/ Busy(pc, replay))
    /\ UNCHANGED <<mode, marks, buffer, replay, wire, got, received, links, owner>>

\* The database answers.  Without a group, or with one that is inactive, the
\* frame goes to the stream of the dongle and nowhere else.
Find(f) ==
    /\ pc[f] = "find"
    /\ pc' = [pc EXCEPT ![f] =
                IF NamesGroup /\ mode # "INACTIVE" THEN "relay" ELSE "done"]
    /\ UNCHANGED <<mode, marks, arrived, buffer, replay, wire, got, received, overlap,
                   links, owner>>

\* seeded fault: a frame is buffered whether it was sent or not
SendAndAdd(f) ==
    /\ pc[f] = "relay" /\ sock # 0
    /\ wire' = IF sock = live THEN Append(wire, f) ELSE wire
    /\ pc' = [pc EXCEPT ![f] = "add"]
    /\ UNCHANGED <<mode, marks, arrived, buffer, replay, got, received, overlap, links,
                   owner>>

\* seeded fault: what is sent belongs to the frame before
SendPrevious(f) ==
    /\ pc[f] = "relay" /\ sock # 0
    /\ wire' = IF sock = live THEN Append(wire, f - 1) ELSE wire
    /\ pc' = [pc EXCEPT ![f] = "done"] /\ Begin(<<"read", "ACTIVE">>)
    /\ UNCHANGED <<mode, arrived, buffer, replay, got, received, overlap, links, owner>>

\* sendToAgent.  A broken connection takes the frame, and it is lost.
Send(f) ==
    /\ pc[f] = "relay" /\ TRUE \in Open
    /\ wire' = IF sock = live THEN Append(wire, f) ELSE wire
    /\ pc' = [pc EXCEPT ![f] = "done"] /\ Begin(<<"read", "ACTIVE">>)
    /\ UNCHANGED <<mode, arrived, buffer, replay, got, received, overlap, links, owner>>

\* or no open socket is there: the frame is to be buffered.
Miss(f) ==
    /\ pc[f] = "relay" /\ FALSE \in Open
    /\ pc' = [pc EXCEPT ![f] = "add"]
    /\ UNCHANGED <<mode, marks, arrived, buffer, replay, wire, got, received, overlap,
                   links, owner>>

\* bufferFrame: XADD, which may trim the oldest of more than BufferMax.
Add(f) ==
    /\ pc[f] = "add" /\ pc' = [pc EXCEPT ![f] = "done"]
    /\ \E n \in 0 .. Len(buffer) :
         /\ n > 0 => Len(buffer) - n + 1 >= BufferMax
         /\ buffer' = Append(SubSeq(buffer, n + 1, Len(buffer)), f)
    /\ Begin(<<"read", "DEGRADED">>)
    /\ UNCHANGED <<mode, arrived, replay, wire, got, received, overlap, links, owner>>

-----------------------------------------------------------------------------
(* replayBufferedFrames *)

Load(s) ==
    /\ replay[s] = "load"
    /\ replay' = [replay EXCEPT ![s] = IF mode = "INACTIVE" THEN "none" ELSE "range"]
    /\ overlap' = (overlap \/ (mode = "INACTIVE" /\ buffer # <<>>))
    /\ UNCHANGED <<mode, marks, pc, arrived, buffer, wire, got, received, links, owner>>

\* XRANGE, and all that it returned is sent.
Replay(s) ==
    /\ replay[s] = "range"
    /\ replay' = [replay EXCEPT ![s] = IF buffer = <<>> THEN "none" ELSE "del"]
    /\ wire' = IF s = live THEN wire \o buffer ELSE wire
    /\ UNCHANGED <<mode, marks, pc, arrived, buffer, got, received, overlap, links, owner>>

\* seeded fault: the buffer is kept
DelNothing(s) ==
    /\ replay[s] = "del" /\ replay' = [replay EXCEPT ![s] = "none"]
    /\ UNCHANGED <<mode, marks, pc, arrived, buffer, wire, got, received, overlap,
                   links, owner>>

\* DEL
Del(s) ==
    /\ replay[s] = "del" /\ replay' = [replay EXCEPT ![s] = "none"]
    /\ buffer' = <<>>
    /\ UNCHANGED <<mode, marks, pc, arrived, wire, got, received, overlap, links, owner>>

-----------------------------------------------------------------------------
(* updateGroupModesForAgent and markGroupMode *)

\* seeded fault: an inactive group is treated like any other
LoadAnyGroup ==
    /\ marks[<<"load">>] > 0
    /\ Go(<<"load">>, <<"compute">>)
    /\ UNCHANGED <<mode, delivery, links, owner>>

LoadGroup ==
    /\ marks[<<"load">>] > 0
    /\ IF mode = "INACTIVE" THEN End(<<"load">>) ELSE Go(<<"load">>, <<"compute">>)
    /\ UNCHANGED <<mode, delivery, links, owner>>

Compute ==
    /\ marks[<<"compute">>] > 0
    /\ \E open \in Open :
         Go(<<"compute">>, <<"read", IF aUp /\ open THEN "ACTIVE" ELSE "DEGRADED">>)
    /\ UNCHANGED <<mode, delivery, links, owner>>

ReadMode(m) ==
    /\ marks[<<"read", m>>] > 0
    /\ IF mode = m THEN End(<<"read", m>>) ELSE Go(<<"read", m>>, <<"write", m>>)
    /\ UNCHANGED <<mode, delivery, links, owner>>

\* Whatever the mode is by now.
WriteMode(m) ==
    /\ marks[<<"write", m>>] > 0 /\ End(<<"write", m>>)
    /\ mode' = m
    /\ UNCHANGED <<delivery, links, owner>>

-----------------------------------------------------------------------------
FrameStep(f) == Find(f) \/ Send(f) \/ Miss(f) \/ Add(f)
ReplayStep(s) == Load(s) \/ Replay(s) \/ Del(s)
MarkStep ==
    \/ LoadGroup \/ Compute
    \/ \E m \in {"ACTIVE", "DEGRADED"} : ReadMode(m) \/ WriteMode(m)

Next ==
    \/ Activate \/ Deactivate \/ SwitchA
    \/ Dial \/ Refuse \/ Accept \/ Break \/ Restart \/ Receive \/ Arrive
    \/ \E s \in Sockets : Close(s) \/ ReplayStep(s)
    \/ \E f \in Frames : FrameStep(f)
    \/ MarkStep

Spec == Init /\ [][Next]_vars

\* The database, Redis and the network answer; B's agent dials again.
Fairness ==
    /\ WF_vars(\E f \in Frames : FrameStep(f))
    /\ WF_vars(\E s \in Sockets : ReplayStep(s)) /\ WF_vars(\E s \in Sockets : Close(s))
    /\ WF_vars(MarkStep) /\ WF_vars(Receive) /\ WF_vars(Dial) /\ WF_vars(Accept)

FairSpec == Spec /\ Fairness

-----------------------------------------------------------------------------
\* ws/data-plane.ts, handleCanFrame and replayBufferedFrames: a frame is either
\* sent or buffered, and replayed once, so no socket gets it twice, whatever
\* overlaps.
OncePerSocket ==
    \A i, j \in 1 .. Len(got \o wire) :
        (got \o wire)[i] = (got \o wire)[j] => i = j

\* ws/data-plane.ts, as a whole: frames come out in order and once, and are lost on a
\* broken connection or as the oldest of too many alone, as long as one frame or
\* replay at a time is under way and the group stays active.  What a replay has sent
\* is to be sent again when the API ends before the DEL.
Link == INSTANCE FrameLink
    WITH Frames <- Frames, Capacity <- BufferMax, out <- received,
         queue <- wire \o IF \E s \in Sockets : replay[s] = "del" THEN <<>> ELSE buffer
CutOff == Restart /\ \E s \in Sockets : replay[s] = "del"
Relays == Link!Init /\ [][Link!Next \/ overlap' \/ CutOff]_<<Link!vars, overlap>>

\* services/groups.ts, deactivateGroup: a deactivation that finds no activity past
\* its look at the mode stays in force until the owner activates the group.
StaysInactive == final => mode = "INACTIVE"

\* ws/data-plane.ts and services/groups.ts: what holds of the relay however its
\* activities overlap.
RelayInvariant == TypeOK /\ OncePerSocket /\ StaysInactive

\* ws/data-plane.ts, replayBufferedFrames: what is buffered does not stay once B's
\* agent is back, unless frames and replays overlap.
Waits(f) == \E i \in 1 .. Len(buffer) : buffer[i] = f
Drains == \A f \in Frames : Waits(f) ~> ~Waits(f) \/ overlap \/ live = 0

\* doc/new-dashboard-spec-v0.7.md, 13.3.7, "Preserve ordering per direction".
OrderPreserved ==
    \A i, j \in 1 .. Len(received) : i < j => received[i] < received[j]

\* doc/new-dashboard-spec-v0.7.md, 13.3.3, "buffer frames instead of dropping
\* them": here for an agent that stays connected.
NeverDropped ==
    \A f \in Frames : pc[f] = "add" /\ mode # "INACTIVE"
        ~> (\E i \in 1 .. Len(received) : received[i] = f)
           \/ mode = "INACTIVE" \/ live = 0 \/ broken # {}

\* plans/execplan-06-groups-data-plane-relay.md, line 41, "ACTIVE when both sides
\* connected, DEGRADED otherwise": once nothing is under way.
ModeFollows ==
    (\A s \in Steps : marks[s] = 0) /\ broken = {} =>
        ~(mode = "DEGRADED" /\ aUp /\ sock # 0)
=============================================================================
