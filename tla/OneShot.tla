------------------------------ MODULE OneShot ------------------------------
(***************************************************************************)
(* What sendControlRequest promises its callers (pairing, CAN              *)
(* configuration and frames, commands, modes), whatever happens to the     *)
(* agent's sockets: a request settles once; it is carried out at most      *)
(* once, and only after it was sent; a success means that it was carried   *)
(* out.  A rejection promises nothing: the agent may still carry it out.   *)
(***************************************************************************)
CONSTANT Requests

VARIABLES
    promise, \* what the caller's promise is
    agent    \* what the agent knows of the request

vars == <<promise, agent>>

Init ==
    /\ promise = [r \in Requests |-> "none"]
    /\ agent = [r \in Requests |-> "unaware"]

\* The request is sent, or refused at once.
Send(r) ==
    /\ promise[r] = "none"
    /\ \E p \in {"pending", "rejected"} : promise' = [promise EXCEPT ![r] = p]
    /\ UNCHANGED agent

\* The agent gets a request that was sent, at most once, whether or not the
\* caller still waits, and carries it out.
Take(r) ==
    /\ promise[r] # "none" /\ agent[r] = "unaware"
    /\ agent' = [agent EXCEPT ![r] = "busy"]
    /\ UNCHANGED promise

\* It succeeds or fails; an agent that stops never says which.
Finish(r) ==
    /\ agent[r] = "busy"
    /\ \E a \in {"succeeded", "failed"} : agent' = [agent EXCEPT ![r] = a]
    /\ UNCHANGED promise

Resolve(r) ==
    /\ promise[r] = "pending" /\ agent[r] = "succeeded"
    /\ promise' = [promise EXCEPT ![r] = "resolved"]
    /\ UNCHANGED agent

\* Requests may be rejected together, by the loss of a socket.
Reject(R) ==
    /\ R # {} /\ \A r \in R : promise[r] = "pending"
    /\ promise' = [r \in Requests |-> IF r \in R THEN "rejected" ELSE promise[r]]
    /\ UNCHANGED agent

Next ==
    \/ \E r \in Requests : Send(r) \/ Take(r) \/ Finish(r) \/ Resolve(r)
    \/ \E R \in SUBSET Requests : Reject(R)

Spec == Init /\ [][Next]_vars
=============================================================================
