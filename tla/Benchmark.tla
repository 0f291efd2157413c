----------------------------- MODULE Benchmark ------------------------------
(***************************************************************************)
(* The benchmark: the API counts in the payload of the frames it sends to  *)
(* a dongle (routes/benchmark.ts of the API), and the page checks that     *)
(* what comes back from the dongle's bus counts in the same way            *)
(* (BenchmarkPage.tsx and its hook useSse of the dashboard).               *)
(*                                                                         *)
(* The bus returns each frame, in the order sent.  A published event is in *)
(* the page's list at once, what lies between being the matter of Streams; *)
(* the page's effect runs on the list some time later.  Frames have one    *)
(* CAN id and Dlc bytes of ByteValues values each.  Fuzzing, the checks on *)
(* delays and the frames on show are left out.                             *)
(***************************************************************************)
EXTENDS Integers, Sequences, FiniteSets

CONSTANTS
  Targets,       \* dongles
  ByteValues,    \* number of values of a byte: 256 in the code
  Dlc,           \* bytes of a frame
  BufferSize,    \* events the page keeps: 1000 in the code
  MaxSends,      \* number of frames that are asked for
  MaxUpsets      \* number of frames that get lost and of restarts of the API

ASSUME BenchmarkAssumption ==
  /\ ByteValues \in Nat \ {0} /\ Dlc \in Nat /\ BufferSize \in Nat \ {0}
  /\ MaxSends \in Nat /\ MaxUpsets \in Nat

NoPayload == <<>>
NoEvent == [id |-> 0, at |-> 0]

VARIABLES
  orderedState,  \* the API's counters: the dongles' last payloads
  sending,       \* the requests that sendCanFrame is busy with
  bus,           \* the frames on the dongles' buses
  nextId,        \* the next event ids of the dongles' streams
  page,          \* the page's state and refs
  odds           \* budget used, and what the model notes

bVars == <<orderedState, sending, bus, nextId, page, odds>>

\* due: the list has changed since the effect last ran
NewPage(d) == [target |-> d, events |-> <<>>, due |-> FALSE,
               lastProcessed |-> NoEvent, ordering |-> NoPayload, alerts |-> 0]

\* sends and upsets count what has happened; serial numbers the events of the
\* page since it was last reset, handled those that the effect has gone
\* through.  wrong: it went through one twice or not at all; full: the page's
\* list had to drop one before that; restarted: the API was, since the reset.
\* seen is the last frame that came in, breaks how many did not follow on the
\* one before; unruly: the frames need not come in the order counted.
NewNotes == [serial |-> 0, handled |-> 0, wrong |-> FALSE, full |-> FALSE,
             restarted |-> FALSE, seen |-> NoPayload, breaks |-> 0]

BInit ==
  /\ orderedState = [d \in Targets |-> NoPayload]
  /\ sending = <<>>
  /\ bus = [d \in Targets |-> <<>>]
  /\ nextId = [d \in Targets |-> 1]
  /\ \E d \in Targets : page = NewPage(d)
  /\ odds = [notes |-> NewNotes, sends |-> 0, upsets |-> 0, unruly |-> FALSE]

\* Little-endian: a byte is counted up, and starts again when it was full, if
\* all bytes before it were full.  The page has the same function.
Increment(p) ==
  [i \in 1..Len(p) |->
    IF \A j \in 1..(i - 1) : p[j] = ByteValues - 1
    THEN (p[i] + 1) % ByteValues ELSE p[i]]

Zero == [i \in 1..Dlc |-> 0]

(***************************************************************************)
(* The page's timer, or the button, asks for a frame for the target; the   *)
(* API counts when the request comes in, before it waits for anything.     *)
(***************************************************************************)
\* mutant: a byte that is full does not carry
NextPayloadNoCarry(d) ==
  IF orderedState[d] = NoPayload THEN Zero
  ELSE [orderedState[d] EXCEPT ![1] = (@ + 1) % ByteValues]

\* mutant: a full byte is counted up as well
NextPayloadFull(d) ==
  IF orderedState[d] = NoPayload THEN Zero ELSE [orderedState[d] EXCEPT ![1] = @ + 1]

NextPayload(d) ==
  IF orderedState[d] = NoPayload THEN Zero ELSE Increment(orderedState[d])

SendOnce ==
  LET d == page.target
  IN /\ odds.sends < MaxSends
     /\ orderedState' = [orderedState EXCEPT ![d] = NextPayload(d)]
     /\ sending' = Append(sending, [dongle |-> d, payload |-> NextPayload(d)])
     /\ odds' = [odds EXCEPT !.sends = @ + 1,
                   !.unruly = @ \/ (\E i \in 1..Len(sending) : sending[i].dongle = d)]
     /\ UNCHANGED <<bus, nextId, page>>

\* useSse's handler: the list keeps the latest BufferSize events.  The time of
\* an event is its serial number; in the code some have the same one.
Published(d, direction, payload) ==
  LET n == odds.notes
      e == [id |-> nextId[d], at |-> n.serial + 1, direction |-> direction,
            payload |-> payload]
      all == Append(page.events, e)
      kept == SubSeq(all, IF Len(all) > BufferSize THEN 2 ELSE 1, Len(all))
      rx == direction = "rx"
  IN /\ nextId' = [nextId EXCEPT ![d] = @ + 1]
     /\ IF page.target # d THEN UNCHANGED <<page, odds>>
        ELSE /\ page' = [page EXCEPT !.events = kept, !.due = TRUE]
             /\ odds' = [odds EXCEPT !.notes =
                  [n EXCEPT !.serial = @ + 1,
                     !.full = @ \/ (all[1].at >= n.handled /\ Len(all) > BufferSize),
                     !.seen = IF rx THEN payload ELSE @,
                     !.breaks = IF rx /\ n.seen # NoPayload
                                     /\ payload # Increment(n.seen)
                                THEN @ + 1 ELSE @]]

Without(s, i) == SubSeq(s, 1, i - 1) \o SubSeq(s, i + 1, Len(s))

\* sendCanFrame is through, whichever of the requests it is: the frame is on
\* the bus, and the stream shows it as sent.
FrameSent(i) ==
  LET s == sending[i]
  IN /\ sending' = Without(sending, i)
     /\ bus' = [bus EXCEPT ![s.dongle] = Append(@, s.payload)]
     /\ Published(s.dongle, "tx", s.payload)
     /\ UNCHANGED orderedState

\* It fails, or the frame gets lost on its way; the counter has gone on.
FrameLost(i) ==
  /\ odds.upsets < MaxUpsets
  /\ sending' = Without(sending, i)
  /\ odds' = [odds EXCEPT !.upsets = @ + 1, !.unruly = TRUE]
  /\ UNCHANGED <<orderedState, bus, nextId, page>>

FrameReturns(d) ==
  /\ bus[d] # <<>>
  /\ bus' = [bus EXCEPT ![d] = Tail(@)]
  /\ Published(d, "rx", Head(bus[d]))
  /\ UNCHANGED <<orderedState, sending>>

(***************************************************************************)
(* The page's effect.  It looks for the event it came to last by its id,   *)
(* and, when that is not in the list any more, by the time: the list is in *)
(* the order of the times, so that those that are later are its end.       *)
(***************************************************************************)
Place(events, last) ==
  LET same == {i \in 1..Len(events) : events[i].id = last.id}
      past == {i \in 1..Len(events) : events[i].at <= last.at}
  IN IF last = NoEvent THEN 0
     ELSE IF same # {} THEN CHOOSE i \in same : \A j \in same : i <= j
     ELSE Cardinality(past)

Unprocessed(events, last) == SubSeq(events, Place(events, last) + 1, Len(events))

\* mutant: what was sent counts as well
RxLikeAny(e) == TRUE

RxLike(e) == e.direction # "tx"

\* There may be nothing to do: ids that begin again hide what is new.
FindNothing ==
  /\ page.due /\ Unprocessed(page.events, page.lastProcessed) = <<>>
  /\ page' = [page EXCEPT !.due = FALSE]
  /\ UNCHANGED <<orderedState, sending, bus, nextId, odds>>

\* The payload that was checked last when the effect has gone through the
\* first k of the events new, and before that was at ordering.
Arrived(new, k) == {i \in 1..k : RxLike(new[i])}
Latest(places) == CHOOSE i \in places : \A j \in places : j <= i

Checked(new, k, ordering) ==
  IF Arrived(new, k) = {} THEN ordering ELSE new[Latest(Arrived(new, k))].payload

Mismatches(new, ordering) ==
  {i \in 1..Len(new) :
     /\ RxLike(new[i])
     /\ Checked(new, i - 1, ordering) # NoPayload
     /\ new[i].payload # Increment(Checked(new, i - 1, ordering))}

ProcessEvents ==
  LET new == Unprocessed(page.events, page.lastProcessed)
      latest == new[Len(new)]
  IN /\ page.due /\ new # <<>>
     /\ page' = [page EXCEPT !.due = FALSE,
          !.lastProcessed = [id |-> latest.id, at |-> latest.at],
          !.ordering = Checked(new, Len(new), @),
          !.alerts = @ + Cardinality(Mismatches(new, page.ordering))]
     /\ odds' = [odds EXCEPT !.notes = [@ EXCEPT !.handled = latest.at,
          !.wrong = \/ odds.notes.wrong
                    \/ \E i \in 1..Len(new) : new[i].at # odds.notes.handled + i]]
     /\ UNCHANGED <<orderedState, sending, bus, nextId>>

\* mutant: the place in the old stream is kept
ResetToKept(d) == [NewPage(d) EXCEPT !.lastProcessed = page.lastProcessed]

ResetTo(d) == NewPage(d)

\* resetState: by the button, or by the effect after another target was chosen.
ResetState(d) ==
  /\ page' = ResetTo(d)
  /\ odds' = [odds EXCEPT !.notes = NewNotes]
  /\ UNCHANGED <<orderedState, sending, bus, nextId>>

\* Counters, event ids and requests are gone; the page goes on.
RestartApi ==
  /\ odds.upsets < MaxUpsets
  /\ orderedState' = [d \in Targets |-> NoPayload]
  /\ sending' = <<>>
  /\ nextId' = [d \in Targets |-> 1]
  /\ odds' = [odds EXCEPT !.upsets = @ + 1, !.unruly = TRUE,
                          !.notes.restarted = TRUE]
  /\ UNCHANGED <<bus, page>>

BNext ==
  \/ SendOnce \/ ProcessEvents \/ FindNothing \/ RestartApi
  \/ \E i \in 1..Len(sending) : FrameSent(i) \/ FrameLost(i)
  \/ \E d \in Targets : FrameReturns(d) \/ (page # NewPage(d) /\ ResetState(d))

BSpec == BInit /\ [][BNext]_bVars
-----------------------------------------------------------------------------
BenchmarkTypeOK ==
  /\ Len(page.events) <= BufferSize
  /\ \A d \in Targets : orderedState[d] \in {NoPayload} \cup [1..Dlc -> 0..(ByteValues - 1)]
  /\ odds.notes.handled <= odds.notes.serial

(***************************************************************************)
(* The effect goes through every event of the target once and in order,    *)
(* however many come between two runs of it, until the list is full or ids *)
(* begin again: another target's place in its stream is not taken for one  *)
(* in this.  (BenchmarkPage.tsx:163-229)                                   *)
(***************************************************************************)
EventsOnce == ~odds.notes.full /\ ~odds.notes.restarted => ~odds.notes.wrong

(***************************************************************************)
(* When the page has caught up, there has been an alert for each frame     *)
(* that did not follow on the one before it.  (BenchmarkPage.tsx:260-280)  *)
(***************************************************************************)
AlertsAreTrue ==
  LET n == odds.notes
  IN n.handled = n.serial /\ ~n.full /\ ~n.restarted => page.alerts = n.breaks

(***************************************************************************)
(* Frames that are sent one after the other, none of which gets lost, on   *)
(* the way or in a full list, give no alert: the API and the page count in *)
(* the same way, past the carry and the return to zero, and a target to    *)
(* which the page comes back starts afresh.  (routes/benchmark.ts:78-124)  *)
(***************************************************************************)
QuietInOrder == ~odds.unruly /\ ~odds.notes.full => page.alerts = 0

(***************************************************************************)
(* The page sends at an interval that does not wait for the answers, and   *)
(* is to tell whether the dongle keeps the order: an alert that the API    *)
(* caused itself tells nothing.                                            *)
(***************************************************************************)
ApiKeepsOrder == odds.upsets = 0 => page.alerts = 0
=============================================================================
