----------------------------- MODULE FrameLink -----------------------------
(***************************************************************************)
(* What the relay of a group promises for one direction: the frames it     *)
(* accepts come out in their order and at most once, and the only ones     *)
(* that never do were on their way when a connection broke, or were the    *)
(* oldest of too many that waited.                                         *)
(***************************************************************************)
EXTENDS Naturals, Sequences

CONSTANTS Frames, Capacity

VARIABLES queue, out

vars == <<queue, out>>

Init == queue = <<>> /\ out = <<>>

\* A frame comes in, and the oldest of more than Capacity may have to go.
Put ==
    /\ \E f \in Frames, n \in 0 .. Len(queue) :
         /\ n > 0 => Len(queue) - n + 1 >= Capacity
         /\ queue' = Append(SubSeq(queue, n + 1, Len(queue)), f)
    /\ UNCHANGED out

Take ==
    /\ queue # <<>>
    /\ out' = Append(out, Head(queue)) /\ queue' = Tail(queue)

Lose ==
    /\ \E n \in 1 .. Len(queue) : queue' = SubSeq(queue, n + 1, Len(queue))
    /\ UNCHANGED out

Next == Put \/ Take \/ Lose

Spec == Init /\ [][Next]_vars
=============================================================================
