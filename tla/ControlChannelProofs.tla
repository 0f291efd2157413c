------------------------ MODULE ControlChannelProofs ------------------------
(***************************************************************************)
(* Safety of ControlChannel for every number of requests, sockets and      *)
(* failures, and that it implements OneShot.  The inductive invariant says *)
(* what is on the wires: a request on its way down is new to the agent and *)
(* nowhere else, one on its way up has been carried out.                   *)
(***************************************************************************)
EXTENDS ControlChannel, TLAPS

\* A request on its way to the agent was sent on this socket, once, and the
\* agent has not seen it.
DownFresh ==
    \A s \in Sockets :
        /\ \A k \in DOMAIN down[s] : /\ via[down[s][k]] = s
                                     /\ agent[down[s][k]] = "unaware"
                                     /\ promise[down[s][k]] # "none"
        /\ \A k, l \in DOMAIN down[s] : down[s][k] = down[s][l] => k = l

\* An answer comes from a handler that ended.
UpFinished ==
    \A s \in Sockets : \A k \in DOMAIN up[s] : agent[up[s][k]] \in {"succeeded", "failed"}

\* The agent only knows of requests that were sent.
KnownWasSent == \A r \in Requests : promise[r] = "none" => agent[r] = "unaware"

IInv ==
    /\ TypeOK /\ PendingIsPromised /\ OpenIsRegistered
    /\ DownFresh /\ UpFinished /\ KnownWasSent

\* Nothing is on any wire at the start.
LEMMA InitIInv == Init => IInv
BY ControlChannelAssumption
   DEF Init, IInv, TypeOK, PendingIsPromised, OpenIsRegistered, DownFresh, UpFinished,
       KnownWasSent, Sockets, NoSocket

-----------------------------------------------------------------------------
(* The wires *)

\* Taking the first element of a sequence shifts the others.
LEMMA TailFacts ==
    ASSUME NEW S, NEW q \in Seq(S), q # <<>>
    PROVE  /\ Head(q) = q[1] /\ 1 \in DOMAIN q /\ q[1] \in S
           /\ Tail(q) \in Seq(S)
           /\ \A k \in DOMAIN Tail(q) : /\ k \in Nat \ {0} /\ k + 1 \in DOMAIN q
                                        /\ Tail(q)[k] = q[k + 1]
<1>1. Len(q) \in Nat \ {0} /\ DOMAIN q = 1 .. Len(q)
  OBVIOUS
<1>2. Len(Tail(q)) = Len(q) - 1 /\ DOMAIN Tail(q) = 1 .. Len(Tail(q))
  BY <1>1
<1> QED
  BY <1>1, <1>2

\* Appending leaves what was there.
LEMMA AppendFacts ==
    ASSUME NEW S, NEW q \in Seq(S), NEW e \in S
    PROVE  /\ Append(q, e) \in Seq(S)
           /\ \A k \in DOMAIN Append(q, e) : IF k \in DOMAIN q
                                             THEN Append(q, e)[k] = q[k] /\ q[k] \in S
                                             ELSE Append(q, e)[k] = e
           /\ DOMAIN q \subseteq DOMAIN Append(q, e)
<1>1. DOMAIN q = 1 .. Len(q) /\ Len(q) \in Nat
  OBVIOUS
<1>2. DOMAIN Append(q, e) = 1 .. (Len(q) + 1)
  BY <1>1
<1> QED
  BY <1>1, <1>2

\* What is on the wires stays in order when wires are only emptied and requests
\* that are on no wire change.
LEMMA WiresEmptied ==
    ASSUME TypeOK, DownFresh, UpFinished, KnownWasSent,
           \A s \in Sockets : down'[s] \in {down[s], <<>>} /\ up'[s] \in {up[s], <<>>},
           UNCHANGED <<via, agent>>,
           \A r \in Requests : promise[r] # "none" => promise'[r] # "none"
    PROVE  DownFresh' /\ UpFinished' /\ KnownWasSent'
<1>1. ASSUME NEW s \in Sockets
      PROVE  /\ \A k \in DOMAIN down'[s] : /\ via'[down'[s][k]] = s
                                           /\ agent'[down'[s][k]] = "unaware"
                                           /\ promise'[down'[s][k]] # "none"
             /\ \A k, l \in DOMAIN down'[s] : down'[s][k] = down'[s][l] => k = l
  <2>1. \A k \in DOMAIN down[s] : down[s][k] \in Requests
    BY DEF TypeOK
  <2>2. CASE down'[s] = down[s]
    BY <2>1, <2>2 DEF DownFresh
  <2>3. CASE down'[s] = <<>>
    BY <2>3
  <2> QED
    BY <2>2, <2>3
<1>2. ASSUME NEW s \in Sockets, NEW k \in DOMAIN up'[s]
      PROVE  agent'[up'[s][k]] \in {"succeeded", "failed"}
  <2>1. CASE up'[s] = up[s]
    BY <2>1 DEF UpFinished
  <2>2. CASE up'[s] = <<>>
    BY <2>2
  <2> QED
    BY <2>1, <2>2
<1>3. KnownWasSent'
  BY DEF TypeOK, KnownWasSent
<1> QED
  BY <1>1, <1>2, <1>3 DEF DownFresh, UpFinished

\* Rejecting everything that is pending keeps the table and the promises equal.
LEMMA RejectAllKeeps ==
    ASSUME TypeOK, PendingIsPromised, RejectAll
    PROVE  /\ PendingIsPromised'
           /\ pendingRequests' \subseteq Requests
           /\ promise' \in [Requests -> {"none", "pending", "resolved", "rejected"}]
           /\ \A r \in Requests : promise[r] # "none" => promise'[r] # "none"
BY DEF TypeOK, PendingIsPromised, RejectAll

-----------------------------------------------------------------------------
(* The steps *)

LEMMA DialKeeps ==
    ASSUME IInv, NEW s \in Sockets, Dial(s) PROVE IInv'
<1>1. TypeOK'
  BY DEF IInv, TypeOK, Dial, calls
<1>2. PendingIsPromised' /\ OpenIsRegistered'
  BY DEF IInv, TypeOK, PendingIsPromised, OpenIsRegistered, Dial, calls
<1>3. DownFresh' /\ UpFinished' /\ KnownWasSent'
  BY WiresEmptied DEF IInv, Dial, calls
<1> QED
  BY <1>1, <1>2, <1>3 DEF IInv

LEMMA ClientOpenKeeps ==
    ASSUME IInv, NEW s \in Sockets, ClientOpen(s) PROVE IInv'
<1>1. TypeOK'
  BY DEF IInv, TypeOK, ClientOpen, calls, wires
<1>2. PendingIsPromised' /\ OpenIsRegistered'
  BY DEF IInv, PendingIsPromised, OpenIsRegistered, ClientOpen, calls
<1>3. DownFresh' /\ UpFinished' /\ KnownWasSent'
  BY WiresEmptied DEF IInv, ClientOpen, calls, wires
<1> QED
  BY <1>1, <1>2, <1>3 DEF IInv

LEMMA ClientCloseKeeps ==
    ASSUME IInv, NEW s \in Sockets, ClientClose(s) PROVE IInv'
<1>1. TypeOK'
  BY DEF IInv, TypeOK, ClientClose, calls
<1>2. PendingIsPromised' /\ OpenIsRegistered'
  BY DEF IInv, PendingIsPromised, OpenIsRegistered, ClientClose, calls
<1>3. DownFresh' /\ UpFinished' /\ KnownWasSent'
  BY WiresEmptied DEF IInv, TypeOK, ClientClose, calls
<1> QED
  BY <1>1, <1>2, <1>3 DEF IInv

\* The request that is taken leaves the wire, and is on no other.
LEMMA TakeRequestKeeps ==
    ASSUME IInv, NEW s \in Sockets, TakeRequest(s) PROVE IInv'
<1> DEFINE r == Head(down[s])
<1>1. /\ down[s] \in Seq(Requests) /\ down[s] # <<>>
      /\ agent' = [agent EXCEPT ![r] = "busy"]
      /\ down' = [down EXCEPT ![s] = Tail(@)]
      /\ UNCHANGED <<connection, api, client, intact, up, pendingRequests, promise, via, failures>>
  BY DEF IInv, TypeOK, TakeRequest, calls
<1>2. /\ r \in Requests /\ r = down[s][1] /\ 1 \in DOMAIN down[s]
      /\ Tail(down[s]) \in Seq(Requests)
  BY <1>1, TailFacts
<1> HIDE DEF r
<1>3. TypeOK'
  BY <1>1, <1>2 DEF IInv, TypeOK
<1>4. PendingIsPromised' /\ OpenIsRegistered'
  BY <1>1 DEF IInv, PendingIsPromised, OpenIsRegistered
<1>5. agent[r] = "unaware" /\ via[r] = s
  BY <1>1, <1>2 DEF IInv, DownFresh
<1>6. ASSUME NEW t \in Sockets
      PROVE  /\ \A k \in DOMAIN down'[t] : /\ via'[down'[t][k]] = t
                                           /\ agent'[down'[t][k]] = "unaware"
                                           /\ promise'[down'[t][k]] # "none"
             /\ \A k, l \in DOMAIN down'[t] : down'[t][k] = down'[t][l] => k = l
  <2>1. \A k \in DOMAIN down[t] : /\ via[down[t][k]] = t /\ agent[down[t][k]] = "unaware"
                                  /\ promise[down[t][k]] # "none"
                                  /\ down[t][k] \in Requests
    BY DEF IInv, TypeOK, DownFresh
  <2>2. \A k, l \in DOMAIN down[t] : down[t][k] = down[t][l] => k = l
    BY DEF IInv, DownFresh
  <2>3. CASE t # s
    <3>1. down'[t] = down[t]
      BY <1>1, <2>3
    <3>2. \A k \in DOMAIN down[t] : down[t][k] # r
      BY <2>1, <2>3, <1>5
    <3> QED
      BY <1>1, <2>1, <2>2, <3>1, <3>2 DEF IInv, TypeOK
  <2>4. CASE t = s
    <3>1. down'[t] = Tail(down[s])
      BY <1>1, <2>4 DEF IInv, TypeOK
    <3>2. \A k \in DOMAIN down'[t] : /\ k + 1 \in DOMAIN down[s] /\ k \in Nat \ {0}
                                     /\ down'[t][k] = down[s][k + 1]
      <4>1. \A k \in DOMAIN Tail(down[s]) : /\ k \in Nat \ {0} /\ k + 1 \in DOMAIN down[s]
                                           /\ Tail(down[s])[k] = down[s][k + 1]
        BY <1>1, TailFacts
      <4> QED
        BY <3>1, <4>1
    <3>3. 1 \in DOMAIN down[s]
      BY <1>1, TailFacts
    <3>4. \A k \in DOMAIN down'[t] : down'[t][k] # r
      BY <1>2, <2>2, <2>4, <3>2, <3>3
    <3>5. \A k \in DOMAIN down'[t] : /\ via'[down'[t][k]] = t
                                     /\ agent'[down'[t][k]] = "unaware"
                                     /\ promise'[down'[t][k]] # "none"
      BY <1>1, <2>1, <2>4, <3>2, <3>4 DEF IInv, TypeOK
    <3>6. \A k, l \in DOMAIN down'[t] : down'[t][k] = down'[t][l] => k = l
      BY <2>2, <2>4, <3>2
    <3> QED
      BY <3>5, <3>6
  <2> QED
    BY <2>3, <2>4
<1>7. UpFinished'
  <2> SUFFICES ASSUME NEW t \in Sockets, NEW k \in DOMAIN up'[t]
               PROVE  agent'[up'[t][k]] \in {"succeeded", "failed"}
    BY DEF UpFinished
  <2>1. k \in DOMAIN up[t] /\ up'[t][k] = up[t][k] /\ up[t][k] \in Requests
    BY <1>1 DEF IInv, TypeOK
  <2>2. agent[up[t][k]] \in {"succeeded", "failed"}
    BY <2>1 DEF IInv, UpFinished
  <2> QED
    BY <1>1, <1>5, <2>1, <2>2 DEF IInv, TypeOK
<1>8. DownFresh'
  BY <1>6 DEF DownFresh
<1>9. KnownWasSent'
  <2>1. promise[r] # "none"
    BY <1>1, <1>2 DEF IInv, DownFresh
  <2> QED
    BY <1>1, <2>1 DEF IInv, TypeOK, KnownWasSent
<1> QED
  BY <1>3, <1>4, <1>7, <1>8, <1>9 DEF IInv

\* The answer joins the wire after its handler has ended.
LEMMA ReplyKeeps ==
    ASSUME IInv, NEW r \in Requests, Reply(r) PROVE IInv'
<1>1. PICK a \in {"succeeded", "failed"} : agent' = [agent EXCEPT ![r] = a]
  BY DEF Reply
<1>2. /\ agent[r] = "busy"
      /\ \A s \in Sockets : up'[s] \in {up[s], Append(up[s], r)}
      /\ up' \in [Sockets -> Seq(Requests)]
      /\ UNCHANGED <<connection, api, client, intact, down, pendingRequests, promise, via, failures>>
  BY DEF Reply, calls, IInv, TypeOK
<1>3. TypeOK'
  BY <1>1, <1>2 DEF IInv, TypeOK
<1>4. PendingIsPromised' /\ OpenIsRegistered'
  BY <1>2 DEF IInv, PendingIsPromised, OpenIsRegistered
<1>5. DownFresh'
  <2>1. \A s \in Sockets : \A k \in DOMAIN down[s] :
            down[s][k] \in Requests /\ down[s][k] # r
    BY <1>2 DEF IInv, TypeOK, DownFresh
  <2>2. \A s \in Sockets : \A k \in DOMAIN down[s] : agent'[down[s][k]] = "unaware"
    BY <1>1, <2>1 DEF IInv, TypeOK, DownFresh
  <2> QED
    BY <1>2, <2>2 DEF IInv, DownFresh
<1>6. UpFinished'
  <2> SUFFICES ASSUME NEW s \in Sockets, NEW k \in DOMAIN up'[s]
               PROVE  agent'[up'[s][k]] \in {"succeeded", "failed"}
    BY DEF UpFinished
  <2>1. up[s] \in Seq(Requests) /\ agent'[r] = a
    BY <1>1 DEF IInv, TypeOK
  <2>2. CASE k \in DOMAIN up[s]
    <3>1. up'[s][k] = up[s][k] /\ up[s][k] \in Requests
      BY <1>2, <2>1, <2>2, AppendFacts
    <3>2. agent[up[s][k]] \in {"succeeded", "failed"}
      BY <2>2 DEF IInv, UpFinished
    <3> QED
      BY <1>1, <1>2, <3>1, <3>2 DEF IInv, TypeOK
  <2>3. CASE k \notin DOMAIN up[s]
    <3>1. up'[s] = Append(up[s], r)
      BY <1>2, <2>1, <2>3
    <3>2. up'[s][k] = r
      BY <2>1, <2>3, <3>1, AppendFacts
    <3> QED
      BY <2>1, <3>2
  <2> QED
    BY <2>2, <2>3
<1>7. KnownWasSent'
  BY <1>1, <1>2 DEF IInv, TypeOK, KnownWasSent
<1> QED
  BY <1>3, <1>4, <1>5, <1>6, <1>7 DEF IInv

LEMMA AcceptKeeps ==
    ASSUME IInv, NEW s \in Sockets, Accept(s) PROVE IInv'
<1>1. TypeOK'
  BY DEF IInv, TypeOK, Accept, calls, wires
<1>2. PendingIsPromised'
  BY DEF IInv, PendingIsPromised, Accept, calls
<1>3. OpenIsRegistered'
  BY DEF IInv, TypeOK, OpenIsRegistered, Accept
<1>4. DownFresh' /\ UpFinished' /\ KnownWasSent'
  BY WiresEmptied DEF IInv, Accept, calls, wires
<1> QED
  BY <1>1, <1>2, <1>3, <1>4 DEF IInv

LEMMA RefuseKeeps ==
    ASSUME IInv, NEW s \in Sockets, Refuse(s) PROVE IInv'
<1>1. TypeOK'
  BY DEF IInv, TypeOK, Refuse, calls, wires
<1>2. PendingIsPromised' /\ OpenIsRegistered'
  BY DEF IInv, TypeOK, PendingIsPromised, OpenIsRegistered, Refuse, calls
<1>3. DownFresh' /\ UpFinished' /\ KnownWasSent'
  BY WiresEmptied DEF IInv, Refuse, calls, wires
<1> QED
  BY <1>1, <1>2, <1>3 DEF IInv

\* A socket the API is about to forget is not the registered open one of
\* another: unregistering it leaves the others registered.
LEMMA SocketGoneKeeps ==
    ASSUME IInv, NEW s \in Sockets, NEW x \in {"errored", "closed"},
           api' = [api EXCEPT ![s] = x], Unregister(s), RejectAll,
           UNCHANGED <<client, down, agent, failures>>,
           intact' \in [Sockets -> BOOLEAN],
           up' \in {up, [up EXCEPT ![s] = <<>>]}
    PROVE  IInv'
<1>1. /\ PendingIsPromised' /\ pendingRequests' \subseteq Requests
      /\ promise' \in [Requests -> {"none", "pending", "resolved", "rejected"}]
      /\ \A r \in Requests : promise[r] # "none" => promise'[r] # "none"
  BY RejectAllKeeps DEF IInv
<1>2. TypeOK'
  <2>1. connection' \in Sockets \cup {NoSocket}
    BY DEF IInv, TypeOK, Unregister
  <2>2. api' \in [Sockets -> {"none", "upgrading", "open", "closing", "errored", "closed"}]
    BY DEF IInv, TypeOK
  <2>3. up' \in [Sockets -> Seq(Requests)]
    <3>1. <<>> \in Seq(Requests) /\ up \in [Sockets -> Seq(Requests)]
      BY DEF IInv, TypeOK
    <3> QED
      BY <3>1
  <2> QED
    BY <1>1, <2>1, <2>2, <2>3 DEF IInv, TypeOK, RejectAll
<1>3. OpenIsRegistered'
  BY DEF IInv, TypeOK, OpenIsRegistered, Unregister
<1>4. DownFresh' /\ UpFinished' /\ KnownWasSent'
  <2>1. \A t \in Sockets : down'[t] \in {down[t], <<>>} /\ up'[t] \in {up[t], <<>>}
    BY DEF IInv, TypeOK
  <2> QED
    BY <1>1, <2>1, WiresEmptied DEF IInv, RejectAll
<1> QED
  BY <1>1, <1>2, <1>3, <1>4 DEF IInv

LEMMA ApiErrorKeeps ==
    ASSUME IInv, NEW s \in Sockets, ApiError(s) PROVE IInv'
<1>1. /\ api' = [api EXCEPT ![s] = "errored"] /\ Unregister(s) /\ RejectAll
      /\ UNCHANGED <<client, down, agent, failures>>
      /\ intact' \in [Sockets -> BOOLEAN] /\ up' = up
  BY DEF IInv, TypeOK, ApiError, wires
<1> QED
  BY <1>1, SocketGoneKeeps

LEMMA ApiCloseKeeps ==
    ASSUME IInv, NEW s \in Sockets, ApiClose(s) PROVE IInv'
<1>1. /\ api' = [api EXCEPT ![s] = "closed"] /\ Unregister(s) /\ RejectAll
      /\ UNCHANGED <<client, down, agent, failures>>
      /\ intact' \in [Sockets -> BOOLEAN] /\ up' = [up EXCEPT ![s] = <<>>]
  BY DEF IInv, TypeOK, ApiClose
<1> QED
  BY <1>1, SocketGoneKeeps

\* A new request is on no wire yet.
LEMMA SendRequestKeeps ==
    ASSUME IInv, NEW r \in Requests, SendRequest(r) PROVE IInv'
<1>1. /\ promise[r] = "none" /\ promise' = [promise EXCEPT ![r] = "pending"]
      /\ pendingRequests' = pendingRequests \cup {r}
      /\ connection \in Sockets /\ agent[r] = "unaware"
      /\ via' = [via EXCEPT ![r] = connection]
      /\ down' \in {down, [down EXCEPT ![connection] = Append(@, r)]}
      /\ UNCHANGED <<connection, api, client, intact, up, agent, failures>>
  BY DEF SendRequest, Online, IInv, TypeOK, KnownWasSent
<1>2. TypeOK'
  <2>1. Append(down[connection], r) \in Seq(Requests)
    BY <1>1 DEF IInv, TypeOK
  <2>2. down' \in [Sockets -> Seq(Requests)]
    BY <1>1, <2>1 DEF IInv, TypeOK
  <2>3. promise' \in [Requests -> {"none", "pending", "resolved", "rejected"}]
    BY <1>1 DEF IInv, TypeOK
  <2> QED
    BY <1>1, <2>2, <2>3 DEF IInv, TypeOK
<1>3. PendingIsPromised' /\ OpenIsRegistered'
  BY <1>1 DEF IInv, TypeOK, PendingIsPromised, OpenIsRegistered
<1>4. DownFresh'
  <2> SUFFICES ASSUME NEW t \in Sockets
               PROVE  /\ \A k \in DOMAIN down'[t] : /\ via'[down'[t][k]] = t
                                                    /\ agent'[down'[t][k]] = "unaware"
                                                    /\ promise'[down'[t][k]] # "none"
                      /\ \A k, l \in DOMAIN down'[t] : down'[t][k] = down'[t][l] => k = l
    BY DEF DownFresh
  <2>1. \A k \in DOMAIN down[t] : /\ down[t][k] \in Requests /\ down[t][k] # r
                                  /\ via'[down[t][k]] = t
                                  /\ agent'[down[t][k]] = "unaware"
                                  /\ promise'[down[t][k]] # "none"
    <3>1. \A k \in DOMAIN down[t] : /\ down[t][k] \in Requests /\ via[down[t][k]] = t
                                    /\ agent[down[t][k]] = "unaware"
                                    /\ promise[down[t][k]] # "none"
      BY DEF IInv, TypeOK, DownFresh
    <3> QED
      BY <1>1, <3>1 DEF IInv, TypeOK
  <2>2. \A k, l \in DOMAIN down[t] : down[t][k] = down[t][l] => k = l
    BY DEF IInv, DownFresh
  <2>3. CASE down'[t] = down[t]
    BY <2>1, <2>2, <2>3
  <2>4. CASE t = connection /\ down'[t] = Append(down[t], r)
    <3>1. down[t] \in Seq(Requests)
      BY DEF IInv, TypeOK
    <3>2. /\ via'[r] = t /\ agent'[r] = "unaware" /\ promise'[r] # "none"
      BY <1>1, <2>4 DEF IInv, TypeOK
    <3>3. DOMAIN down[t] = 1 .. Len(down[t]) /\ Len(down[t]) \in Nat
      BY <3>1
    <3>4. DOMAIN down'[t] = 1 .. (Len(down[t]) + 1)
      BY <2>4, <3>1
    <3>5. \A k \in DOMAIN down'[t] : \/ k \in DOMAIN down[t] /\ down'[t][k] = down[t][k]
                                     \/ k = Len(down[t]) + 1 /\ down'[t][k] = r
      BY <2>4, <3>1, <3>3, <3>4
    <3>6. \A k \in DOMAIN down'[t] : /\ via'[down'[t][k]] = t
                                     /\ agent'[down'[t][k]] = "unaware"
                                     /\ promise'[down'[t][k]] # "none"
      BY <2>1, <3>2, <3>5
    <3>7. \A k, l \in DOMAIN down'[t] : down'[t][k] = down'[t][l] => k = l
      BY <2>1, <2>2, <3>5
    <3> QED
      BY <3>6, <3>7
  <2> QED
    BY <1>1, <2>3, <2>4 DEF IInv, TypeOK
<1>5. UpFinished' /\ KnownWasSent'
  BY <1>1 DEF IInv, TypeOK, UpFinished, KnownWasSent
<1> QED
  BY <1>2, <1>3, <1>4, <1>5 DEF IInv

\* A request that is refused, or whose time is over, touches no wire.
LEMMA SettledAloneKeeps ==
    ASSUME IInv, NEW r \in Requests,
           promise' = [promise EXCEPT ![r] = "rejected"],
           pendingRequests' = pendingRequests \ {r},
           UNCHANGED <<connection, api, client, wires, agent, via, failures>>
    PROVE  IInv'
<1>1. TypeOK'
  BY DEF IInv, TypeOK, wires
<1>2. PendingIsPromised' /\ OpenIsRegistered'
  BY DEF IInv, TypeOK, PendingIsPromised, OpenIsRegistered
<1>3. DownFresh' /\ UpFinished' /\ KnownWasSent'
  BY WiresEmptied DEF IInv, TypeOK, wires
<1> QED
  BY <1>1, <1>2, <1>3 DEF IInv

LEMMA SendOfflineKeeps ==
    ASSUME IInv, NEW r \in Requests, SendOffline(r) PROVE IInv'
<1>1. r \notin pendingRequests
  BY DEF SendOffline, IInv, PendingIsPromised
<1> QED
  BY <1>1, SettledAloneKeeps DEF SendOffline

LEMMA TimeoutKeeps ==
    ASSUME IInv, NEW r \in Requests, Timeout(r) PROVE IInv'
BY SettledAloneKeeps DEF Timeout

\* The answer leaves the wire; what is left was there before.
LEMMA ReceiveReplyKeeps ==
    ASSUME IInv, NEW s \in Sockets, ReceiveReply(s) PROVE IInv'
<1> DEFINE r == Head(up[s])
<1>1. /\ up[s] \in Seq(Requests) /\ up[s] # <<>>
      /\ up' = [up EXCEPT ![s] = Tail(@)]
      /\ pendingRequests' = pendingRequests \ {r}
      /\ UNCHANGED <<connection, api, client, intact, down, agent, via, failures>>
  BY DEF IInv, TypeOK, ReceiveReply
<1>2. r \in Requests /\ Tail(up[s]) \in Seq(Requests)
  BY <1>1, TailFacts
<1>3. \E x \in {"resolved", "rejected"} :
          promise' = IF r \in pendingRequests THEN [promise EXCEPT ![r] = x] ELSE promise
  BY <1>2 DEF ReceiveReply, Settle, IInv, TypeOK
<1> HIDE DEF r
<1>4. TypeOK'
  <2>1. promise' \in [Requests -> {"none", "pending", "resolved", "rejected"}]
    BY <1>2, <1>3 DEF IInv, TypeOK
  <2> QED
    BY <1>1, <1>2, <2>1 DEF IInv, TypeOK
<1>5. PendingIsPromised'
  BY <1>1, <1>2, <1>3 DEF IInv, TypeOK, PendingIsPromised
<1>6. OpenIsRegistered'
  BY <1>1 DEF IInv, OpenIsRegistered
<1>7. DownFresh' /\ KnownWasSent'
  <2>1. \A q \in Requests : promise[q] # "none" => promise'[q] # "none"
    BY <1>2, <1>3 DEF IInv, TypeOK
  <2>2. \A t \in Sockets : \A k \in DOMAIN down[t] : down[t][k] \in Requests
    BY DEF IInv, TypeOK
  <2> QED
    BY <1>1, <2>1, <2>2 DEF IInv, TypeOK, DownFresh, KnownWasSent
<1>8. UpFinished'
  <2> SUFFICES ASSUME NEW t \in Sockets, NEW k \in DOMAIN up'[t]
               PROVE  agent[up'[t][k]] \in {"succeeded", "failed"}
    BY <1>1 DEF UpFinished
  <2>1. CASE t # s
    BY <1>1, <2>1 DEF IInv, UpFinished
  <2>2. CASE t = s
    <3>1. k \in DOMAIN Tail(up[s]) /\ up'[t][k] = Tail(up[s])[k]
      BY <1>1, <2>2 DEF IInv, TypeOK
    <3>2. k + 1 \in DOMAIN up[s] /\ Tail(up[s])[k] = up[s][k + 1]
      BY <1>1, <3>1, TailFacts
    <3> QED
      BY <3>1, <3>2 DEF IInv, UpFinished
  <2> QED
    BY <2>1, <2>2
<1> QED
  BY <1>4, <1>5, <1>6, <1>7, <1>8 DEF IInv

LEMMA BreakKeeps ==
    ASSUME IInv, NEW s \in Sockets, Break(s) PROVE IInv'
<1>1. TypeOK'
  BY DEF IInv, TypeOK, Break, calls
<1>2. PendingIsPromised' /\ OpenIsRegistered'
  BY DEF IInv, PendingIsPromised, OpenIsRegistered, Break, calls
<1>3. DownFresh' /\ UpFinished' /\ KnownWasSent'
  BY WiresEmptied DEF IInv, TypeOK, Break, calls
<1> QED
  BY <1>1, <1>2, <1>3 DEF IInv

LEMMA RestartKeeps ==
    ASSUME IInv, Restart PROVE IInv'
<1>1. /\ PendingIsPromised' /\ pendingRequests' \subseteq Requests
      /\ promise' \in [Requests -> {"none", "pending", "resolved", "rejected"}]
      /\ \A r \in Requests : promise[r] # "none" => promise'[r] # "none"
  BY RejectAllKeeps DEF IInv, Restart
<1>2. TypeOK'
  BY <1>1 DEF IInv, TypeOK, Restart, RejectAll
<1>3. OpenIsRegistered'
  BY DEF OpenIsRegistered, Restart
<1>4. DownFresh' /\ UpFinished' /\ KnownWasSent'
  BY <1>1, WiresEmptied DEF IInv, Restart, RejectAll
<1> QED
  BY <1>1, <1>2, <1>3, <1>4 DEF IInv

-----------------------------------------------------------------------------
(* The theorems *)

\* The strengthened invariant holds in every reachable state.
THEOREM Inductive == Spec => []IInv
<1>1. IInv /\ [Next]_vars => IInv'
  <2> SUFFICES ASSUME IInv, [Next]_vars PROVE IInv'
    OBVIOUS
  <2>1. CASE \E s \in Sockets : SocketStep(s)
    BY <2>1, DialKeeps, ClientOpenKeeps, ClientCloseKeeps, TakeRequestKeeps, AcceptKeeps,
       RefuseKeeps, ApiErrorKeeps, ApiCloseKeeps, ReceiveReplyKeeps, BreakKeeps
       DEF SocketStep
  <2>2. CASE \E r \in Requests : RequestStep(r)
    BY <2>2, SendRequestKeeps, SendOfflineKeeps, TimeoutKeeps, ReplyKeeps DEF RequestStep
  <2>3. CASE Restart
    BY <2>3, RestartKeeps
  <2>4. CASE UNCHANGED vars
    BY <2>4 DEF IInv, TypeOK, PendingIsPromised, OpenIsRegistered, DownFresh, UpFinished,
                KnownWasSent, vars, wires, calls
  <2> QED
    BY <2>1, <2>2, <2>3, <2>4 DEF Next
<1> QED
  BY InitIInv, <1>1, PTL DEF Spec

\* Every variable keeps its type.
THEOREM TypeCorrect == Spec => []TypeOK
<1>1. IInv => TypeOK
  BY DEF IInv
<1> QED
  BY <1>1, Inductive, PTL

\* However requests settle, and however many sockets replace one another and
\* whenever their close events come: the entries of pendingRequests are the
\* promises nobody has settled, and the socket the API holds open is the
\* registered one (ws/control.ts).
THEOREM TablesAreCurrent == Spec => []TablesCurrent
<1>1. IInv => TablesCurrent
  BY DEF IInv, TablesCurrent
<1> QED
  BY <1>1, Inductive, PTL

-----------------------------------------------------------------------------
(* ControlChannel implements OneShot *)

\* Whatever settles everything that is pending is a joint rejection, or nothing.
LEMMA RejectAllRefines ==
    ASSUME IInv, RejectAll, UNCHANGED agent
    PROVE  [Abstract!Next]_(Abstract!vars)
<1>1. CASE pendingRequests = {}
  <2>1. promise' = promise
    BY <1>1 DEF RejectAll, IInv, TypeOK
  <2> QED
    BY <2>1 DEF Abstract!vars
<1>2. CASE pendingRequests # {}
  <2>1. pendingRequests \in SUBSET Requests
    BY DEF IInv, TypeOK
  <2>2. Abstract!Reject(pendingRequests)
    BY <1>2 DEF Abstract!Reject, RejectAll, IInv, PendingIsPromised
  <2> QED
    BY <2>1, <2>2 DEF Abstract!Next
<1> QED
  BY <1>1, <1>2

\* A request is taken once, because it is on one wire, once, and new.
LEMMA TakeRequestRefines ==
    ASSUME IInv, NEW s \in Sockets, TakeRequest(s)
    PROVE  \E r \in Requests : Abstract!Take(r)
<1> DEFINE r == Head(down[s])
<1>1. down[s] \in Seq(Requests) /\ down[s] # <<>>
  BY DEF IInv, TypeOK, TakeRequest
<1>2. r \in Requests /\ r = down[s][1] /\ 1 \in DOMAIN down[s]
  BY <1>1, TailFacts
<1>3. agent[r] = "unaware" /\ promise[r] # "none"
  BY <1>2 DEF IInv, DownFresh
<1>4. agent' = [agent EXCEPT ![r] = "busy"] /\ UNCHANGED promise
  BY DEF TakeRequest, calls
<1> QED
  BY <1>2, <1>3, <1>4 DEF Abstract!Take

\* An answer settles a pending request the way the agent finished it.
LEMMA ReceiveReplyRefines ==
    ASSUME IInv, NEW s \in Sockets, ReceiveReply(s)
    PROVE  [Abstract!Next]_(Abstract!vars)
<1> DEFINE r == Head(up[s])
<1>1. up[s] \in Seq(Requests) /\ up[s] # <<>>
  BY DEF IInv, TypeOK, ReceiveReply
<1>2. r \in Requests /\ r = up[s][1] /\ 1 \in DOMAIN up[s]
  BY <1>1, TailFacts
<1>3. agent[r] \in {"succeeded", "failed"}
  BY <1>2 DEF IInv, UpFinished
<1>4. /\ promise' = [promise EXCEPT ![r] =
                        IF r \notin pendingRequests THEN @
                        ELSE IF agent[r] = "failed" THEN "rejected" ELSE "resolved"]
      /\ UNCHANGED agent
  BY DEF ReceiveReply, Settle
<1> HIDE DEF r
<1>5. CASE r \notin pendingRequests
  <2>1. promise' = promise
    BY <1>2, <1>4, <1>5 DEF IInv, TypeOK
  <2> QED
    BY <1>4, <2>1 DEF Abstract!vars
<1>6. CASE r \in pendingRequests /\ agent[r] = "failed"
  <2>1. promise[r] = "pending"
    BY <1>2, <1>6 DEF IInv, PendingIsPromised
  <2>2. promise' = [q \in Requests |-> IF q \in {r} THEN "rejected" ELSE promise[q]]
    BY <1>2, <1>4, <1>6 DEF IInv, TypeOK
  <2>3. Abstract!Reject({r})
    BY <1>4, <2>1, <2>2 DEF Abstract!Reject
  <2>4. {r} \in SUBSET Requests
    BY <1>2
  <2> QED
    BY <2>3, <2>4 DEF Abstract!Next
<1>7. CASE r \in pendingRequests /\ agent[r] = "succeeded"
  <2>1. promise[r] = "pending"
    BY <1>2, <1>7 DEF IInv, PendingIsPromised
  <2>2. Abstract!Resolve(r)
    BY <1>4, <1>7, <2>1 DEF Abstract!Resolve
  <2> QED
    BY <1>2, <2>2 DEF Abstract!Next
<1> QED
  BY <1>3, <1>5, <1>6, <1>7

\* Sending and running out of time concern one request.
LEMMA RequestStepRefines ==
    ASSUME IInv, NEW r \in Requests, RequestStep(r)
    PROVE  [Abstract!Next]_(Abstract!vars)
<1>1. CASE SendRequest(r) \/ SendOffline(r)
  <2>1. Abstract!Send(r)
    BY <1>1 DEF SendRequest, SendOffline, Abstract!Send
  <2> QED
    BY <2>1 DEF Abstract!Next
<1>2. CASE Timeout(r)
  <2>1. promise[r] = "pending"
    BY <1>2 DEF Timeout, IInv, PendingIsPromised
  <2>2. promise' = [q \in Requests |-> IF q \in {r} THEN "rejected" ELSE promise[q]]
    BY <1>2 DEF Timeout, IInv, TypeOK
  <2>3. Abstract!Reject({r})
    BY <1>2, <2>1, <2>2 DEF Abstract!Reject, Timeout
  <2>4. {r} \in SUBSET Requests
    OBVIOUS
  <2> QED
    BY <2>3, <2>4 DEF Abstract!Next
<1>3. CASE Reply(r)
  <2>1. Abstract!Finish(r)
    BY <1>3 DEF Reply, Abstract!Finish, calls
  <2> QED
    BY <2>1 DEF Abstract!Next
<1> QED
  BY <1>1, <1>2, <1>3 DEF RequestStep

\* Through any number of sockets and failures, a request settles once, is
\* carried out at most once and only after it was sent, and succeeds only if it
\* was carried out (ws/control.ts, sendControlRequest).
THEOREM ImplementsOneShot == Spec => OneShotSpec
<1>1. Init => Abstract!Init
  BY DEF Init, Abstract!Init
<1>2. IInv /\ [Next]_vars => [Abstract!Next]_(Abstract!vars)
  <2> SUFFICES ASSUME IInv, [Next]_vars PROVE [Abstract!Next]_(Abstract!vars)
    OBVIOUS
  <2>1. ASSUME NEW s \in Sockets, SocketStep(s)
        PROVE  [Abstract!Next]_(Abstract!vars)
    <3>1. CASE Dial(s) \/ ClientOpen(s) \/ ClientClose(s) \/ Accept(s) \/ Refuse(s) \/ Break(s)
      BY <3>1 DEF Dial, ClientOpen, ClientClose, Accept, Refuse, Break, calls, Abstract!vars
    <3>2. CASE TakeRequest(s)
      BY <3>2, TakeRequestRefines DEF Abstract!Next
    <3>3. CASE ApiError(s) \/ ApiClose(s)
      BY <3>3, RejectAllRefines DEF ApiError, ApiClose
    <3>4. CASE ReceiveReply(s)
      BY <3>4, ReceiveReplyRefines
    <3> QED
      BY <2>1, <3>1, <3>2, <3>3, <3>4 DEF SocketStep
  <2>2. ASSUME NEW r \in Requests, RequestStep(r)
        PROVE  [Abstract!Next]_(Abstract!vars)
    BY <2>2, RequestStepRefines
  <2>3. CASE Restart
    BY <2>3, RejectAllRefines DEF Restart
  <2>4. CASE UNCHANGED vars
    BY <2>4 DEF vars, calls, Abstract!vars
  <2> QED
    BY <2>1, <2>2, <2>3, <2>4 DEF Next
<1> QED
  BY <1>1, <1>2, Inductive, PTL DEF Spec, OneShotSpec, Abstract!Spec
=============================================================================
