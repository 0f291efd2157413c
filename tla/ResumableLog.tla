---------------------------- MODULE ResumableLog ----------------------------
(***************************************************************************)
(* What a live event stream promises a reader, however often the           *)
(* connection breaks: from the first event it gets on, it gets every event *)
(* in the order of publication, and when some cannot be had any more, a    *)
(* reset event in their place says so.  A reader that starts, starts       *)
(* anywhere; one that leaves, or outlives the server, starts again.        *)
(***************************************************************************)
EXTENDS Naturals, Sequences

CONSTANTS Readers, Kinds

VARIABLES
    log, \* the kinds of all events published, by id
    pos  \* the last event a reader got, 0 if it has no place in this log

vars == <<log, pos>>

Init == log = <<>> /\ pos = [c \in Readers |-> 0]

\* One call may publish several events: a change of the sampling and a frame.
Publish ==
    /\ log' \in Seq(Kinds) /\ Len(log') > Len(log)
    /\ \A i \in 1 .. Len(log) : log'[i] = log[i]
    /\ UNCHANGED pos

Start(c) ==
    /\ pos[c] = 0
    /\ \E i \in 1 .. Len(log) : pos' = [pos EXCEPT ![c] = i]
    /\ UNCHANGED log

Read(c) ==
    /\ pos[c] \in 1 .. Len(log) - 1
    /\ pos' = [pos EXCEPT ![c] = @ + 1]
    /\ UNCHANGED log

Jump(c) ==
    /\ pos[c] # 0
    /\ \E i \in pos[c] + 1 .. Len(log) :
        log[i] = "reset" /\ pos' = [pos EXCEPT ![c] = i]
    /\ UNCHANGED log

Leave(c) ==
    /\ pos' = [pos EXCEPT ![c] = 0]
    /\ UNCHANGED log

Restart == log' = <<>> /\ pos' = [c \in Readers |-> 0]

Next ==
    \/ Publish
    \/ \E c \in Readers : Start(c) \/ Read(c) \/ Jump(c) \/ Leave(c)
    \/ Restart

Spec == Init /\ [][Next]_vars
=============================================================================
