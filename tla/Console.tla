------------------------------ MODULE Console -------------------------------
(***************************************************************************)
(* The live console of the dashboard (ConsolePage.tsx): the target that is *)
(* chosen, a dongle or a group, what the page keeps about it, and the      *)
(* frames it sends to a dongle, once or at an interval.                    *)
(*                                                                         *)
(* A click is rendered, and the effects that depend on the target are run, *)
(* before anything else happens.  What is not about the target (filters,   *)
(* statistics, commands) is left out.                                      *)
(***************************************************************************)
EXTENDS Integers, Sequences

CONSTANTS
  DongleList,    \* the user's dongles, as the API lists them
  GroupList      \* the user's groups

NoTarget == "no target"
Types == {"dongle", "group"}
List(type) == IF type = "dongle" THEN DongleList ELSE GroupList
Members(type) == {List(type)[i] : i \in 1..Len(List(type))}

ASSUME ConsoleAssumption == \A type \in Types : List(type) \in Seq(Members(type))

First(type) == IF List(type) = <<>> THEN NoTarget ELSE List(type)[1]

VARIABLES
  view,      \* targetType, targetId, the ref to it, and what the page was
             \* opened with
  lists,     \* "loading", "loaded" or "failed"
  details,   \* the requests for a dongle's details under way
  selected,  \* selectedDongle: the dongle whose details are there
  timer,     \* whether frames are sent at an interval
  lastSent,  \* the frame sent last: its dongle, and what was chosen then
  shown,     \* the targets whose events are listed
  hasty      \* the model's note: the type was changed before there were lists

cVars == <<view, lists, details, selected, timer, lastSent, shown, hasty>>

NothingSent == [to |-> NoTarget, type |-> "dongle", id |-> NoTarget]

CInit ==
  /\ \E type \in Types : \E id \in Members(type) \cup {NoTarget} :
       /\ type = "group" => id # NoTarget
       /\ view = [type |-> type, id |-> id, ref |-> id, atFirst |-> id,
                  typeAtFirst |-> type]
       /\ details = IF type = "dongle" /\ id # NoTarget
                    THEN {[id |-> id, cancelled |-> FALSE]} ELSE {}
  /\ lists = "loading"
  /\ selected = NoTarget
  /\ timer = FALSE
  /\ lastSent = NothingSent
  /\ shown = {}
  /\ hasty = FALSE

Asks(type, id) == type = "dongle" /\ id # NoTarget

\* mutant: an answer is taken whatever has been chosen since
CancelAllNot(requests) == requests

CancelAll(requests) == {[r EXCEPT !.cancelled = TRUE] : r \in requests}

\* mutant: only another target stops the timer, not another type
TimerAfterId(type, id) == timer /\ id # NoTarget

TimerAfter(type, id) == timer /\ type = "dongle"

(***************************************************************************)
(* The state is set, and the effects run whose dependencies have changed:  *)
(* the ref follows, the timer stops when this is not a dongle, and the     *)
(* details are asked for, an earlier request being cancelled.              *)
(***************************************************************************)
SetTarget(type, id) ==
  /\ view' = [view EXCEPT !.type = type, !.id = id, !.ref = id]
  /\ IF type = view.type /\ id = view.id THEN UNCHANGED <<timer, details, selected>>
     ELSE /\ timer' = TimerAfter(type, id)
          /\ details' = CancelAll(details) \cup
                          (IF Asks(type, id)
                           THEN {[id |-> id, cancelled |-> FALSE]} ELSE {})
          /\ selected' = IF Asks(type, id) THEN selected ELSE NoTarget

\* The lists come.  What load() knows of the target is from when the page was
\* opened, and so is the type whose first member it falls back on.
ListsLoaded ==
  /\ lists = "loading"
  /\ lists' = "loaded"
  /\ IF view.atFirst = NoTarget
     THEN SetTarget(view.type, First(view.typeAtFirst))
     ELSE UNCHANGED <<view, timer, details, selected>>
  /\ UNCHANGED <<lastSent, shown, hasty>>

ListsFailed ==
  /\ lists = "loading"
  /\ lists' = "failed"
  /\ UNCHANGED <<view, details, selected, timer, lastSent, shown, hasty>>

\* mutant: the first dongle, whatever the type
FallbackDongle(type) ==
  IF lists = "loaded" THEN First("dongle") ELSE NoTarget

Fallback(type) == IF lists = "loaded" THEN First(type) ELSE NoTarget

ChooseType(type) ==
  /\ type # view.type
  /\ SetTarget(type, Fallback(type))
  /\ hasty' = (hasty \/ lists = "loading")
  /\ UNCHANGED <<lists, lastSent, shown>>

ChooseTarget(id) ==
  /\ lists = "loaded" /\ id \in Members(view.type)
  /\ SetTarget(view.type, id)
  /\ UNCHANGED <<lists, lastSent, shown, hasty>>

\* The details of a dongle come, or an error does.
DetailsCome(r, ok) ==
  /\ details' = details \ {r}
  /\ selected' = IF r.cancelled THEN selected ELSE IF ok THEN r.id ELSE NoTarget
  /\ UNCHANGED <<view, lists, timer, lastSent, shown, hasty>>

\* sendCanOnce goes by the ref, and by the type of the render it is from.
SendCan(type) ==
  IF type = "dongle" /\ view.ref # NoTarget
  THEN lastSent' = [to |-> view.ref, type |-> view.type, id |-> view.id]
  ELSE UNCHANGED lastSent

SendClicked ==
  /\ view.id # NoTarget
  /\ SendCan(view.type)
  /\ UNCHANGED <<view, lists, details, selected, timer, shown, hasty>>

\* togglePeriodic: the first frame is sent at once.
TogglePeriodic ==
  /\ view.id # NoTarget
  /\ IF timer THEN timer' = FALSE /\ UNCHANGED lastSent
     ELSE IF view.type = "dongle" /\ view.ref # NoTarget
     THEN timer' = TRUE /\ SendCan(view.type)
     ELSE UNCHANGED <<timer, lastSent>>
  /\ UNCHANGED <<view, lists, details, selected, shown, hasty>>

\* The timer's function is from a render in which a dongle was chosen.
TimerFires ==
  /\ timer
  /\ SendCan("dongle")
  /\ UNCHANGED <<view, lists, details, selected, timer, shown, hasty>>

\* An event of the target's stream; the list is kept when another is chosen.
EventComes ==
  /\ view.id # NoTarget
  /\ shown' = shown \cup {view.id}
  /\ UNCHANGED <<view, lists, details, selected, timer, lastSent, hasty>>

ClearEvents ==
  /\ shown' = {}
  /\ UNCHANGED <<view, lists, details, selected, timer, lastSent, hasty>>

CNext ==
  \/ ListsLoaded \/ ListsFailed \/ SendClicked \/ TogglePeriodic \/ TimerFires
  \/ EventComes \/ ClearEvents
  \/ \E type \in Types : ChooseType(type)
  \/ \E id \in Members(view.type) : ChooseTarget(id)
  \/ \E r \in details, ok \in BOOLEAN : DetailsCome(r, ok)

CSpec == CInit /\ [][CNext]_cVars
-----------------------------------------------------------------------------
ConsoleTypeOK ==
  /\ view.type \in Types
  /\ lists \in {"loading", "loaded", "failed"}
  /\ shown \cup {r.id : r \in details} \subseteq Members("dongle") \cup Members("group")
  /\ lastSent.type \in Types

(***************************************************************************)
(* A frame goes to the dongle that is chosen when it is sent, and never to *)
(* a group, though the timer goes on when another dongle is chosen, and    *)
(* its function is from an earlier render.  (ConsolePage.tsx:263-270,      *)
(* 338-373)                                                                *)
(***************************************************************************)
SentToChosen ==
  lastSent # NothingSent =>
    lastSent.type = "dongle" /\ lastSent.to = lastSent.id
                             /\ (~hasty => lastSent.to \in Members("dongle"))

(***************************************************************************)
(* When the details that were asked for last have come, or failed to, the  *)
(* page has no other dongle's: an answer that comes after the next         *)
(* question is not taken.  (ConsolePage.tsx:272-293)                       *)
(***************************************************************************)
DetailsSettle ==
  (\A r \in details : r.cancelled) => selected \in {view.id, NoTarget}

(***************************************************************************)
(* The target is one of its type, whatever the user does while the lists   *)
(* load, but for choosing the other type.  (ConsolePage.tsx:236-252,       *)
(* 410-421)                                                                *)
(***************************************************************************)
TargetFits == ~hasty => view.id \in Members(view.type) \cup {NoTarget}

\* Not so when the type is changed while the lists load: load() chooses a
\* member of the other type.
TargetAlwaysFits == view.id \in Members(view.type) \cup {NoTarget}

\* Nor are all the events listed those of the target.
ShownAreTargets == shown \subseteq {view.id}

\* Nor are the details those of the target while they are loaded.
DetailsAreTargets == selected \in {view.id, NoTarget}
=============================================================================
