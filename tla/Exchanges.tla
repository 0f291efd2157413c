----------------------------- MODULE Exchanges -----------------------------
(***************************************************************************)
(* Exchanges of the bridge agent with one dongle over UDP: the transport   *)
(* that matches answers to requests (remp/transport.ts), commands with     *)
(* their retries (remp/cli.ts, executeDongleCommand of agent-core.ts), and *)
(* CAN configurations (remp/can-config.ts), from the request to the row    *)
(* that the API writes (dashboard-api, services/can-config.ts).            *)
(*                                                                         *)
(* The dongle hears what is sent to one of its addresses with its token in *)
(* the encoding it expects, and is silent otherwise.  Datagrams can be     *)
(* lost and overtake one another.                                          *)
(***************************************************************************)
EXTENDS Naturals, SequencesExt

CONSTANTS
    Commands,  \* command requests
    Configs,   \* CAN configurations, each asked for once
    Reported,  \* the address that the dongle announces
    Homes,     \* the addresses at which it can be reached
    MaxErrors  \* bound: errors of the socket

\* What an announcement says and where it comes from, and the encodings of
\* getTokenBytes.
Addresses == {"lan", "source"}
Encodings == {"raw", "ascii"}

ASSUME ExchangesAssumption ==
    /\ Reported \in Addresses /\ Homes \subseteq Addresses
    /\ Commands \cap Configs = {} /\ "none" \notin Configs /\ MaxErrors \in Nat

\* A command has several exchanges, one after another, a configuration has one.
Exchange == [for : Commands \cup Configs, try : 1 .. 4]

VARIABLES
    pending,   \* of the transport, in the order in which they were added
    net,       \* datagrams under way, to the dongle and to the agent
    route,     \* the address in the agent's snapshot of the dongle
    encoding,  \* tokenEncodingCache for it
    plan,      \* of a command: addresses and encodings to try, fixed at the start
    try,       \* of a command: how many of them were tried
    held,      \* commands that hold the current snapshot
    state,     \* of commands and configurations
    effective, \* what the answer to a configuration said
    mixed,     \* history: two exchanges for configurations overlapped
    latest,    \* history: the configuration asked for last
    expects,   \* the encoding of its token that the dongle expects
    runs,      \* history: the tries of a command that the dongle carried out
    applied,   \* the configuration that the dongle has
    row,       \* the CanConfig row
    errors     \* bound

learnt == <<route, encoding>>
commands == <<plan, try, held>>
configs == <<effective, mixed, latest, row>>
dongle == <<expects, runs, applied>>
vars == <<pending, net, learnt, commands, configs, state, dongle, errors>>

TypeOK ==
    /\ pending \in Seq(Exchange)
    /\ net \subseteq [ex : Exchange, to : {"dongle", "agent"}]
    /\ route \in Addresses /\ encoding \in Encodings
    /\ plan \in [Commands -> Seq(Addresses \X Encodings)]
    /\ expects \in Encodings /\ try \in [Commands -> 0 .. 4] /\ held \subseteq Commands
    /\ state \in [Commands \cup Configs ->
                    {"none", "started", "ok", "timeout", "error", "stored"}]
    /\ effective \in [Configs -> Configs \cup {"none"}]
    /\ mixed \in BOOLEAN /\ latest \in Configs \cup {"none"}
    /\ runs \in [Commands -> SUBSET (1 .. 4)]
    /\ applied \in Configs \cup {"none"} /\ row \in Configs \cup {"none"}
    /\ errors \in 0 .. MaxErrors

Init ==
    /\ pending = <<>> /\ net = {}
    /\ route = Reported /\ encoding = "raw"
    /\ plan = [c \in Commands |-> <<>>] /\ try = [c \in Commands |-> 0] /\ held = {}
    /\ state = [w \in Commands \cup Configs |-> "none"]
    /\ effective = [k \in Configs |-> "none"] /\ mixed = FALSE /\ latest = "none"
    /\ expects \in Encodings /\ runs = [c \in Commands |-> {}] /\ applied = "none" /\ row = "none"
    /\ errors = 0

-----------------------------------------------------------------------------
(* The transport *)

Waiting == {pending[i] : i \in 1 .. Len(pending)}
IsPending(w) == \E ex \in Waiting : ex.for = w

\* seeded fault: any answer from its device is taken
MatchesDevice(ex, answer) == TRUE

\* A command's exchange knows its answer by a fresh corr_id, a configuration's
\* takes any answer of its type from its device.
Matches(ex, answer) == ex = answer \/ (ex.for \in Configs /\ answer.for \in Configs)

\* The first pending exchange that matches takes the answer.
Taker(answer) ==
    {pending[i] : i \in {i \in 1 .. Len(pending) :
        /\ Matches(pending[i], answer)
        /\ \A j \in 1 .. i - 1 : ~Matches(pending[j], answer)}}

\* The transport has one exchange of each at a time, and deletes it.
Forget(w) == RemoveAt(pending, CHOOSE i \in 1 .. Len(pending) : pending[i].for = w)

\* request: the exchange is added and its datagram sent, which the dongle hears at
\* its addresses and with the encoding that it expects.
Request(queue, ex, to, enc) ==
    /\ pending' = Append(queue, ex)
    /\ net' = IF to \in Homes /\ enc = expects
              THEN net \cup {[ex |-> ex, to |-> "dongle"]} ELSE net

\* A datagram is lost, or an answer finds nobody who waits for it.
Lose(d) ==
    /\ net' = net \ {d}
    /\ UNCHANGED <<pending, learnt, commands, configs, state, dongle, errors>>

\* The socket fails: rejectAll.
SocketError ==
    /\ errors < MaxErrors /\ errors' = errors + 1
    /\ pending' = <<>>
    /\ state' = [w \in Commands \cup Configs |-> IF IsPending(w) THEN "error" ELSE state[w]]
    /\ UNCHANGED <<net, learnt, commands, configs, dongle>>

\* The dongle does what it is asked to, once for every datagram it hears.
Obey(d) ==
    /\ d.to = "dongle"
    /\ net' = (net \ {d}) \cup {[d EXCEPT !.to = "agent"]}
    /\ \/ /\ d.ex.for \in Configs /\ applied' = d.ex.for /\ UNCHANGED runs
       \/ /\ d.ex.for \in Commands /\ UNCHANGED applied
          /\ runs' = [runs EXCEPT ![d.ex.for] = @ \cup {d.ex.try}]
    /\ UNCHANGED <<pending, learnt, commands, configs, state, expects, errors>>

\* An announcement replaces the snapshot.
Announce ==
    /\ route' = Reported /\ held' = {}
    /\ UNCHANGED <<pending, net, encoding, plan, try, configs, state, dongle, errors>>

-----------------------------------------------------------------------------
(* Commands: executeDongleCommand *)

Other(enc) == IF enc = "raw" THEN "ascii" ELSE "raw"

\* seeded fault: the address is its own fallback
PlanAgain ==
    LET at(a) == <<<<a, encoding>>, <<a, Other(encoding)>>>>
    IN  at(route) \o at(route)

\* resolveTargetsForDongle and tokenVariants: every address with every encoding.
Plan ==
    LET at(a) == <<<<a, encoding>>, <<a, Other(encoding)>>>>
    IN  IF route = "source" THEN at("source") ELSE at("lan") \o at("source")

\* seeded fault: tries are numbered from zero
AttemptFromZero(queue, c, steps, n) ==
    /\ try' = [try EXCEPT ![c] = n]
    /\ Request(queue, [for |-> c, try |-> n - 1], steps[n][1], steps[n][2])

Attempt(queue, c, steps, n) ==
    /\ try' = [try EXCEPT ![c] = n]
    /\ Request(queue, [for |-> c, try |-> n], steps[n][1], steps[n][2])

Start(c) ==
    /\ state[c] = "none" /\ state' = [state EXCEPT ![c] = "started"]
    /\ plan' = [plan EXCEPT ![c] = Plan] /\ held' = held \cup {c}
    /\ Attempt(pending, c, Plan, 1)
    /\ UNCHANGED <<learnt, configs, dongle, errors>>

\* The dongle is not known, has no address, or its token cannot be had.
Decline(c) ==
    /\ state[c] = "none" /\ state' = [state EXCEPT ![c] = "error"]
    /\ UNCHANGED <<pending, net, learnt, commands, configs, dongle, errors>>

\* seeded fault: the first encoding is kept, not the one that was answered
AnswerFirst(c, d) ==
    /\ d.to = "agent" /\ \E ex \in Taker(d.ex) : ex.for = c
    /\ net' = net \ {d} /\ pending' = Forget(c)
    /\ state' = [state EXCEPT ![c] = "ok"]
    /\ encoding' = plan[c][1][2]
    /\ UNCHANGED <<route, commands, configs, dongle, errors>>

\* The answer of a try teaches the agent the address, in the snapshot the command
\* started with, and the encoding.
Answer(c, d) ==
    LET used == plan[c][try[c]] IN
    /\ d.to = "agent" /\ \E ex \in Taker(d.ex) : ex.for = c
    /\ net' = net \ {d} /\ pending' = Forget(c)
    /\ state' = [state EXCEPT ![c] = "ok"]
    /\ route' = IF c \in held /\ used[1] # plan[c][1][1] THEN used[1] ELSE route
    /\ encoding' = IF used[2] # plan[c][1][2] THEN used[2] ELSE encoding
    /\ UNCHANGED <<commands, configs, dongle, errors>>

\* seeded fault: the last try is repeated
RetryForever(c) ==
    /\ IsPending(c)
    /\ Attempt(Forget(c), c, plan[c], IF try[c] < Len(plan[c]) THEN try[c] + 1 ELSE try[c])
    /\ UNCHANGED <<learnt, plan, held, configs, state, dongle, errors>>

\* The timer of a try: the next one,
Retry(c) ==
    /\ IsPending(c) /\ try[c] < Len(plan[c])
    /\ Attempt(Forget(c), c, plan[c], try[c] + 1)
    /\ UNCHANGED <<learnt, plan, held, configs, state, dongle, errors>>

\* or none is left.
GiveUp(c) ==
    /\ IsPending(c) /\ try[c] = Len(plan[c])
    /\ pending' = Forget(c)
    /\ state' = [state EXCEPT ![c] = "timeout"]
    /\ UNCHANGED <<net, learnt, commands, configs, dongle, errors>>

-----------------------------------------------------------------------------
(* CAN configurations *)

\* applyCanConfig of the API, its control request and applyCanConfigToDongle: one
\* try, with what is known.
Apply(k) ==
    /\ state[k] = "none" /\ state' = [state EXCEPT ![k] = "started"]
    /\ latest' = k
    /\ mixed' = (\/ mixed
                 \/ \E g \in Configs : state[g] \in {"started", "ok"}
                 \/ \E d \in net : d.ex.for \in Configs)
    /\ Request(pending, [for |-> k, try |-> 1], route, encoding)
    /\ UNCHANGED <<learnt, commands, effective, row, dongle, errors>>

\* The answer says what is effective, or that the configuration is rejected.
Configured(k, d) ==
    /\ d.to = "agent" /\ \E ex \in Taker(d.ex) : ex.for = k
    /\ net' = net \ {d} /\ pending' = Forget(k)
    /\ \/ /\ state' = [state EXCEPT ![k] = "ok"]
          /\ effective' = [effective EXCEPT ![k] = d.ex.for]
       \/ /\ state' = [state EXCEPT ![k] = "error"]
          /\ UNCHANGED effective
    /\ UNCHANGED <<learnt, commands, mixed, latest, row, dongle, errors>>

\* seeded fault: a configuration that nobody answered counts as applied
TimeoutIsOk(k) ==
    /\ IsPending(k) /\ pending' = Forget(k)
    /\ state' = [state EXCEPT ![k] = "ok"]
    /\ effective' = [effective EXCEPT ![k] = k]
    /\ UNCHANGED <<net, learnt, commands, mixed, latest, row, dongle, errors>>

ConfigTimeout(k) ==
    /\ IsPending(k) /\ pending' = Forget(k)
    /\ state' = [state EXCEPT ![k] = "timeout"]
    /\ UNCHANGED <<net, learnt, commands, configs, dongle, errors>>

\* The agent's answer reaches the API, and the row is written.
Store(k) ==
    /\ state[k] = "ok" /\ state' = [state EXCEPT ![k] = "stored"]
    /\ row' = effective[k]
    /\ UNCHANGED <<pending, net, learnt, commands, effective, mixed, latest, dongle, errors>>

-----------------------------------------------------------------------------
CommandStep(c) ==
    \/ Start(c) \/ Decline(c) \/ Retry(c) \/ GiveUp(c)
    \/ \E d \in net : Answer(c, d)

ConfigStep(k) ==
    \/ Apply(k) \/ ConfigTimeout(k) \/ Store(k)
    \/ \E d \in net : Configured(k, d)

Next ==
    \/ SocketError \/ Announce
    \/ \E d \in net : Lose(d) \/ Obey(d)
    \/ \E c \in Commands : CommandStep(c)
    \/ \E k \in Configs : ConfigStep(k)

Spec == Init /\ [][Next]_vars

\* Timers fire, and the API gets what the agent answers.
Fairness ==
    /\ \A c \in Commands : WF_vars(Retry(c) \/ GiveUp(c))
    /\ \A k \in Configs : WF_vars(ConfigTimeout(k)) /\ WF_vars(Store(k))

FairSpec == Spec /\ Fairness

-----------------------------------------------------------------------------
\* remp/cli.ts, match: no late or foreign answer makes a command succeed that the
\* dongle did not carry out.
OkWasRun == \A c \in Commands : state[c] = "ok" => runs[c] # {}

\* agent-core.ts, executeDongleCommand: the tries of a command run it at most once
\* at each address, even when answers are lost; twice takes a dongle that can be
\* reached at both.
RunsOncePerAddress ==
    \A c \in Commands : \A m, n \in runs[c] :
        plan[c][m][1] = plan[c][n][1] => m = n

\* agent-core.ts, setTokenEncoding: after a command has succeeded the agent knows
\* the encoding the dongle expects, and does not forget it.
Learns == (\E c \in Commands : state[c] = "ok") => encoding = expects

\* services/can-config.ts: when the configuration asked for last was stored, the
\* row says what the dongle has, unless it overlapped with another one.
RowIsApplied ==
    ~mixed /\ latest # "none" /\ state[latest] = "stored" => row = applied

\* remp/transport.ts, remp/cli.ts, agent-core.ts and services/can-config.ts: what the
\* agent and the API say of the dongle is true of it.
ExchangesInvariant == TypeOK /\ OkWasRun /\ RunsOncePerAddress /\ Learns /\ RowIsApplied

\* remp/transport.ts, request: every command and configuration ends.
Ends ==
    \A w \in Commands \cup Configs :
        state[w] = "started" ~> state[w] \in {"ok", "timeout", "error", "stored"}

\* agent-core.ts, line 923: no command is carried out twice.  A dongle that is
\* reached at both addresses runs it again when its first answer is late.
RunsOnce == \A c \in Commands : \A m, n \in runs[c] : m = n
=============================================================================
