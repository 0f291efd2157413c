-------------------------- MODULE ExchangesProofs --------------------------
(***************************************************************************)
(* The invariant of Exchanges, for all sets of commands and configurations *)
(* and all errors of the socket: what the agent and the API say of the     *)
(* dongle is true of it.                                                   *)
(*                                                                         *)
(* What carries it over a step is about datagrams under way: one for a     *)
(* command is of a try that the dongle could hear, and an answer is of a   *)
(* try that it carried out; and, as long as no two configurations overlap, *)
(* one for a configuration is of the one that was asked for last.          *)
(***************************************************************************)
EXTENDS Exchanges, SequenceTheorems, TLAPS

\* The transport has one exchange of each, the one of its last try.
Single(queue) ==
    \A i, j \in 1 .. Len(queue) : queue[i].for = queue[j].for => i = j

Pending ==
    /\ Single(pending)
    /\ \A ex \in Waiting :
        /\ state[ex.for] = "started"
        /\ ex.for \in Commands => ex.try = try[ex.for]

\* A plan has no step twice, and begins with the encoding that was known then; that
\* changes only to the one that the dongle expects.
Plans ==
    \A c \in Commands :
        /\ state[c] = "none" => plan[c] = <<>>
        /\ state[c] = "started" => try[c] \in 1 .. Len(plan[c])
        /\ Len(plan[c]) <= 4
        /\ \A m, n \in 1 .. Len(plan[c]) : plan[c][m] = plan[c][n] => m = n
        /\ plan[c] # <<>> /\ plan[c][1][2] = expects => encoding = expects

\* The tries that the dongle could hear.
Audible(c) == {n \in 1 .. Len(plan[c]) : plan[c][n][2] = expects}

Heard ==
    /\ \A c \in Commands : runs[c] \subseteq Audible(c)
    /\ \A d \in net : d.ex.for \in Commands =>
        /\ d.ex.try \in Audible(d.ex.for)
        /\ d.to = "agent" => d.ex.try \in runs[d.ex.for]

\* The configuration asked for last is the only one, without an overlap.
Alone ==
    ~mixed =>
        /\ \A k \in Configs : state[k] \in {"started", "ok"} => k = latest
        /\ \A d \in net : d.ex.for \in Configs =>
            d.ex.for = latest /\ (d.to = "agent" => applied = latest)
        /\ latest # "none" /\ state[latest] = "ok" =>
            effective[latest] = latest /\ applied = latest
        /\ latest # "none" /\ state[latest] = "stored" => row = latest /\ applied = latest

Facts == Pending /\ Plans /\ Heard /\ Alone /\ OkWasRun /\ Learns

IInv == TypeOK /\ Facts

LEMMA InitIInv == Init => IInv
<1> SUFFICES ASSUME Init PROVE IInv  OBVIOUS
<1> USE ExchangesAssumption DEF Init
<1>1. Len(pending) = 0  OBVIOUS
<1>2. Waiting = {}  BY <1>1 DEF Waiting
<1>3. TypeOK
  <2>1. 0 \in 0 .. MaxErrors /\ 0 \in 0 .. 4  OBVIOUS
  <2>2. pending \in Seq(Exchange) /\ net = {}  OBVIOUS
  <2>3. plan \in [Commands -> Seq(Addresses \X Encodings)] /\ held \subseteq Commands
    BY EmptySeq
  <2>4. try \in [Commands -> 0 .. 4] /\ runs \in [Commands -> SUBSET (1 .. 4)]  BY <2>1
  <2>5. /\ state \in [Commands \cup Configs ->
                        {"none", "started", "ok", "timeout", "error", "stored"}]
        /\ effective \in [Configs -> Configs \cup {"none"}]
    OBVIOUS
  <2>6. route \in Addresses /\ encoding \in Encodings /\ expects \in Encodings
    BY DEF Encodings
  <2> QED  BY <2>1, <2>2, <2>3, <2>4, <2>5, <2>6 DEF TypeOK
<1>4. Pending  BY <1>1, <1>2 DEF Pending, Single
<1>5. Plans  BY DEF Plans
<1>6. Heard /\ Alone  BY DEF Heard, Alone
<1>7. OkWasRun /\ Learns  BY DEF OkWasRun, Learns
<1> QED  BY <1>3, <1>4, <1>5, <1>6, <1>7 DEF IInv, Facts

-----------------------------------------------------------------------------
(* The list of the transport *)

\* What is left of a sequence when one of its elements is removed.
LEMMA RemoveAtFacts ==
    ASSUME NEW S, NEW s \in Seq(S), NEW h \in 1 .. Len(s)
    PROVE  /\ RemoveAt(s, h) \in Seq(S) /\ Len(RemoveAt(s, h)) = Len(s) - 1
           /\ \A j \in 1 .. Len(s) - 1 : RemoveAt(s, h)[j] = IF j < h THEN s[j] ELSE s[j + 1]
<1> DEFINE front == SubSeq(s, 1, h - 1)
           back == SubSeq(s, h + 1, Len(s))
<1>0. Len(s) \in Nat /\ h \in Nat /\ \A i \in 1 .. Len(s) : s[i] \in S
  BY LenProperties, ElementOfSeq
<1>1. /\ front \in Seq(S) /\ Len(front) = h - 1
      /\ \A j \in 1 .. h - 1 : front[j] = s[j]
  <2>1. 1 \in Int /\ h - 1 \in Int /\ \A i \in 1 .. h - 1 : s[i] \in S  BY <1>0
  <2>2. /\ front \in Seq(S) /\ Len(front) = IF 1 <= h - 1 THEN (h - 1) - 1 + 1 ELSE 0
        /\ \A j \in 1 .. (h - 1) - 1 + 1 : front[j] = s[1 + j - 1]
    BY <2>1, SubSeqProperties
  <2> HIDE DEF front
  <2> QED  BY <1>0, <2>2
<1>2. /\ back \in Seq(S) /\ Len(back) = Len(s) - h
      /\ \A j \in 1 .. Len(s) - h : back[j] = s[j + h]
  <2>1. h + 1 \in Int /\ Len(s) \in Int /\ \A i \in h + 1 .. Len(s) : s[i] \in S  BY <1>0
  <2>2. /\ back \in Seq(S) /\ Len(back) = IF h + 1 <= Len(s) THEN Len(s) - (h + 1) + 1 ELSE 0
        /\ \A j \in 1 .. Len(s) - (h + 1) + 1 : back[j] = s[(h + 1) + j - 1]
    BY <2>1, SubSeqProperties
  <2> HIDE DEF back
  <2>3. \A j \in 1 .. Len(s) - h : back[j] = s[(h + 1) + j - 1] /\ (h + 1) + j - 1 = j + h
    BY <1>0, <2>2
  <2>4. Len(back) = Len(s) - h  BY <1>0, <2>2
  <2> QED  BY <2>2, <2>3, <2>4
<1>3. RemoveAt(s, h) = front \o back  BY DEF RemoveAt
<1> HIDE DEF front, back
<1>4. /\ front \o back \in Seq(S) /\ Len(front \o back) = Len(front) + Len(back)
      /\ \A j \in 1 .. Len(front) + Len(back) :
            (front \o back)[j] = IF j <= Len(front) THEN front[j] ELSE back[j - Len(front)]
  BY <1>1, <1>2, ConcatProperties
<1>5. Len(front) + Len(back) = Len(s) - 1  BY <1>0, <1>1, <1>2
<1>6. ASSUME NEW j \in 1 .. Len(s) - 1
      PROVE  (front \o back)[j] = IF j < h THEN s[j] ELSE s[j + 1]
  <2>1. CASE j < h  BY <1>0, <1>1, <1>4, <1>5, <2>1
  <2>2. CASE ~(j < h)
    <3>1. j - (h - 1) \in 1 .. Len(s) - h /\ j - (h - 1) + h = j + 1  BY <1>0, <2>2
    <3>2. (front \o back)[j] = back[j - (h - 1)]  BY <1>0, <1>1, <1>4, <1>5, <2>2
    <3>3. back[j - (h - 1)] = s[j - (h - 1) + h]  BY <1>2, <3>1
    <3> QED  BY <2>2, <3>1, <3>2, <3>3
  <2> QED  BY <2>1, <2>2
<1> QED  BY <1>3, <1>4, <1>5, <1>6

LEMMA ForgetFacts ==
    ASSUME pending \in Seq(Exchange), Single(pending), NEW w, IsPending(w)
    PROVE  /\ Forget(w) \in Seq(Exchange) /\ Single(Forget(w))
           /\ \A j \in 1 .. Len(Forget(w)) : Forget(w)[j] \in Waiting /\ Forget(w)[j].for # w
<1>0. Len(pending) \in Nat  BY LenProperties
<1>1. PICK h \in 1 .. Len(pending) :
        h = (CHOOSE i \in 1 .. Len(pending) : pending[i].for = w) /\ pending[h].for = w
  BY DEF IsPending, Waiting
<1>2. Forget(w) = RemoveAt(pending, h)  BY <1>1 DEF Forget
<1>3. /\ Forget(w) \in Seq(Exchange) /\ Len(Forget(w)) = Len(pending) - 1
      /\ \A j \in 1 .. Len(pending) - 1 :
            Forget(w)[j] = IF j < h THEN pending[j] ELSE pending[j + 1]
  BY <1>2, RemoveAtFacts
<1>6. PICK q \in Seq(Exchange) :
        /\ q = Forget(w) /\ Len(q) = Len(pending) - 1
        /\ \A j \in 1 .. Len(q) : q[j] = IF j < h THEN pending[j] ELSE pending[j + 1]
  BY <1>3
<1>7. \A j \in 1 .. Len(q) : \E n \in 1 .. Len(pending) :
        n # h /\ q[j] = pending[n] /\ n = IF j < h THEN j ELSE j + 1
  <2> SUFFICES ASSUME NEW j \in 1 .. Len(q)
               PROVE  \E n \in 1 .. Len(pending) :
                        n # h /\ q[j] = pending[n] /\ n = IF j < h THEN j ELSE j + 1
    OBVIOUS
  <2>1. CASE j < h
    <3>1. j \in 1 .. Len(pending) /\ j # h /\ q[j] = pending[j]  BY <1>0, <1>6, <2>1
    <3> QED  BY <2>1, <3>1
  <2>2. CASE ~(j < h)
    <3>1. j + 1 \in 1 .. Len(pending) /\ j + 1 # h /\ q[j] = pending[j + 1]  BY <1>0, <1>6, <2>2
    <3> QED  BY <2>2, <3>1
  <2> QED  BY <2>1, <2>2
<1>8. Single(q)
  <2> SUFFICES ASSUME NEW a \in 1 .. Len(q), NEW b \in 1 .. Len(q), q[a].for = q[b].for
               PROVE  a = b
    BY DEF Single
  <2>1. PICK m \in 1 .. Len(pending) : q[a] = pending[m] /\ m = IF a < h THEN a ELSE a + 1
    BY <1>7
  <2>2. PICK n \in 1 .. Len(pending) : q[b] = pending[n] /\ n = IF b < h THEN b ELSE b + 1
    BY <1>7
  <2>3. m = n  BY <2>1, <2>2 DEF Single
  <2> QED  BY <2>1, <2>2, <2>3
<1>9. \A j \in 1 .. Len(q) : q[j] \in Waiting /\ q[j].for # w
  BY <1>1, <1>7 DEF Single, Waiting
<1> QED  BY <1>6, <1>8, <1>9

\* Forgetting an exchange and nothing else: what was true of the others still is.
LEMMA ForgetKeeps ==
    ASSUME TypeOK, Pending, NEW w, IsPending(w), pending' = Forget(w),
           \A v \in (Commands \cup Configs) \ {w} : state'[v] = state[v],
           UNCHANGED try
    PROVE  pending' \in Seq(Exchange) /\ Pending'
<1>1. /\ Forget(w) \in Seq(Exchange) /\ Single(Forget(w))
      /\ \A j \in 1 .. Len(Forget(w)) : Forget(w)[j] \in Waiting /\ Forget(w)[j].for # w
  BY ForgetFacts DEF TypeOK, Pending
<1>2. Waiting' \subseteq {ex \in Waiting : ex.for # w}  BY <1>1 DEF Waiting
<1>3. \A ex \in Waiting : ex.for \in Commands \cup Configs
  <2>1. \A i \in 1 .. Len(pending) : pending[i] \in Exchange  BY ElementOfSeq DEF TypeOK
  <2> QED  BY <2>1 DEF Waiting, Exchange
<1>4. \A ex \in Waiting' : /\ state'[ex.for] = "started"
                           /\ ex.for \in Commands => ex.try = try'[ex.for]
  BY <1>2, <1>3 DEF Pending
<1> QED  BY <1>1, <1>4 DEF Pending

LEMMA RequestFacts ==
    ASSUME NEW queue \in Seq(Exchange), NEW ex \in Exchange, Single(queue), NEW to, NEW enc,
           \A j \in 1 .. Len(queue) : queue[j].for # ex.for,
           Request(queue, ex, to, enc)
    PROVE  /\ pending' \in Seq(Exchange) /\ Single(pending')
           /\ Waiting' = {queue[j] : j \in 1 .. Len(queue)} \cup {ex}
           /\ \A d \in net' : \/ d \in net
                              \/ d = [ex |-> ex, to |-> "dongle"] /\ enc = expects
<1>0. Len(queue) \in Nat  BY LenProperties
<1> DEFINE longer == Append(queue, ex)
<1>1. /\ longer \in Seq(Exchange) /\ Len(longer) = Len(queue) + 1
      /\ \A j \in 1 .. Len(queue) : longer[j] = queue[j]
      /\ longer[Len(queue) + 1] = ex
  BY <1>0, AppendProperties
<1> HIDE DEF longer
<1>2. pending' = longer  BY DEF longer, Request
<1>3. \A j \in 1 .. Len(longer) : j \in 1 .. Len(queue) \/ j = Len(queue) + 1  BY <1>0, <1>1
<1>4. Single(longer)
  <2> SUFFICES ASSUME NEW a \in 1 .. Len(longer), NEW b \in 1 .. Len(longer), longer[a].for = longer[b].for
               PROVE  a = b
    BY DEF Single
  <2>1. CASE a \in 1 .. Len(queue) /\ b \in 1 .. Len(queue)  BY <1>1, <2>1 DEF Single
  <2>2. CASE a = Len(queue) + 1 /\ b = Len(queue) + 1  BY <2>2
  <2>3. CASE a \in 1 .. Len(queue) /\ b = Len(queue) + 1  BY <1>1, <2>3
  <2>4. CASE a = Len(queue) + 1 /\ b \in 1 .. Len(queue)  BY <1>1, <2>4
  <2> QED  BY <1>3, <2>1, <2>2, <2>3, <2>4
<1>5. {longer[j] : j \in 1 .. Len(longer)} = {queue[j] : j \in 1 .. Len(queue)} \cup {ex}
  <2>1. Len(queue) + 1 \in 1 .. Len(longer)  BY <1>0, <1>1
  <2>2. \A j \in 1 .. Len(queue) : j \in 1 .. Len(longer)  BY <1>0, <1>1
  <2> QED  BY <1>1, <1>3, <2>1, <2>2
<1>6. \A d \in net' : d \in net \/ (d = [ex |-> ex, to |-> "dongle"] /\ enc = expects)
  BY DEF Request
<1>7. pending' \in Seq(Exchange) /\ Single(pending')  BY <1>1, <1>2, <1>4
<1>8. Waiting' = {longer[j] : j \in 1 .. Len(longer)}  BY <1>2 DEF Waiting
<1> QED  BY <1>5, <1>6, <1>7, <1>8

LEMMA TakerFacts ==
    ASSUME NEW answer, NEW w, \E ex \in Taker(answer) : ex.for = w
    PROVE  IsPending(w) /\ \E ex \in Waiting : ex.for = w /\ Matches(ex, answer)
BY DEF Taker, IsPending, Waiting

LEMMA PlanFacts ==
    ASSUME route \in Addresses, encoding \in Encodings
    PROVE  /\ Plan \in Seq(Addresses \X Encodings)
           /\ Len(Plan) \in 1 .. 4 /\ Plan[1][2] = encoding
           /\ \A m, n \in 1 .. Len(Plan) : Plan[m] = Plan[n] => m = n
<1> DEFINE at(a) == <<<<a, encoding>>, <<a, Other(encoding)>>>>
<1>1. Other(encoding) \in Encodings /\ Other(encoding) # encoding  BY DEF Other, Encodings
<1>2. \A a \in Addresses : /\ at(a) \in Seq(Addresses \X Encodings) /\ Len(at(a)) = 2
                           /\ at(a)[1] = <<a, encoding>> /\ at(a)[2] = <<a, Other(encoding)>>
  BY <1>1
<1>3. CASE route = "source"
  <2>1. Plan = at("source")  BY <1>3 DEF Plan
  <2>2. "source" \in Addresses  BY DEF Addresses
  <2> HIDE DEF at
  <2>3. PICK p \in Seq(Addresses \X Encodings) :
          /\ p = Plan /\ Len(p) = 2
          /\ p[1] = <<"source", encoding>> /\ p[2] = <<"source", Other(encoding)>>
    BY <1>2, <2>1, <2>2
  <2>4. \A m, n \in 1 .. 2 : p[m] = p[n] => m = n  BY <1>1, <2>3
  <2> QED  BY <2>3, <2>4
<1>4. CASE route # "source"
  <2>1. Plan = at("lan") \o at("source")  BY <1>4 DEF Plan
  <2>2. "source" \in Addresses /\ "lan" \in Addresses  BY DEF Addresses
  <2> HIDE DEF at
  <2>3. PICK p, q \in Seq(Addresses \X Encodings) :
          /\ p = at("lan") /\ q = at("source") /\ Len(p) = 2 /\ Len(q) = 2
          /\ p[1] = <<"lan", encoding>> /\ p[2] = <<"lan", Other(encoding)>>
          /\ q[1] = <<"source", encoding>> /\ q[2] = <<"source", Other(encoding)>>
    BY <1>2, <2>2
  <2>4. /\ p \o q \in Seq(Addresses \X Encodings) /\ Len(p \o q) = Len(p) + Len(q)
        /\ \A j \in 1 .. Len(p) + Len(q) :
              (p \o q)[j] = IF j <= Len(p) THEN p[j] ELSE q[j - Len(p)]
    BY ConcatProperties
  <2>5. Len(p \o q) = 4 /\ \A j \in 1 .. 4 : (p \o q)[j] = IF j <= 2 THEN p[j] ELSE q[j - 2]
    <3>1. Len(p) = 2 /\ Len(q) = 2  BY <2>3, Zenon
    <3> QED  BY <2>4, <3>1
  <2>6. /\ (p \o q)[1] = <<"lan", encoding>> /\ (p \o q)[2] = <<"lan", Other(encoding)>>
        /\ (p \o q)[3] = <<"source", encoding>> /\ (p \o q)[4] = <<"source", Other(encoding)>>
    <3>1. 3 - 2 = 1 /\ 4 - 2 = 2  OBVIOUS
    <3> QED  BY <2>3, <2>5, <3>1
  <2>7. PICK u \in Seq(Addresses \X Encodings) : u = p \o q  BY <2>4
  <2>8. \A m, n \in 1 .. 4 : u[m] = u[n] => m = n
    <3>1. \A m \in 1 .. 4 : m = 1 \/ m = 2 \/ m = 3 \/ m = 4  OBVIOUS
    <3>2. \A x, y \in Addresses, e, f \in Encodings : <<x, e>> = <<y, f>> => x = y /\ e = f
      OBVIOUS
    <3>3. /\ <<"lan", encoding>> # <<"lan", Other(encoding)>>
          /\ <<"lan", encoding>> # <<"source", encoding>>
          /\ <<"lan", encoding>> # <<"source", Other(encoding)>>
          /\ <<"lan", Other(encoding)>> # <<"source", encoding>>
          /\ <<"lan", Other(encoding)>> # <<"source", Other(encoding)>>
          /\ <<"source", encoding>> # <<"source", Other(encoding)>>
      BY <1>1, <2>2, <3>2
    <3>4. u[1] # u[2] /\ u[1] # u[3] /\ u[1] # u[4] /\ u[2] # u[3] /\ u[2] # u[4] /\ u[3] # u[4]
      BY <2>6, <2>7, <3>3, Zenon
    <3> QED  BY <3>1, <3>4
  <2>9. Plan = u /\ Len(u) = 4 /\ u[1][2] = encoding  BY <2>1, <2>3, <2>5, <2>6, <2>7
  <2> QED  BY <2>7, <2>8, <2>9, SMTT(30)
<1> QED  BY <1>3, <1>4

-----------------------------------------------------------------------------
(* What a step leaves alone *)

LEMMA Apart ==
    ASSUME NEW w
    PROVE  /\ w \in Commands => w \notin Configs
           /\ "none" \notin Configs
BY ExchangesAssumption

LEMMA PendingKeeps ==
    ASSUME Pending, UNCHANGED <<pending, try>>,
           \A ex \in Waiting : state'[ex.for] = state[ex.for]
    PROVE  Pending'
<1>1. Waiting' = Waiting  BY DEF Waiting
<1>2. Single(pending')  BY DEF Pending
<1> QED  BY <1>1, <1>2 DEF Pending

\* A step about commands that leave the configurations alone, or lets some fail.
LEMMA AloneKeeps ==
    ASSUME TypeOK, Alone, UNCHANGED <<configs, applied>>,
           \A k \in Configs : state'[k] \in {state[k], "error", "timeout"},
           \A d \in net' : d.ex.for \in Configs => d \in net
    PROVE  Alone'
<1> USE DEF configs
<1>1. latest # "none" => latest \in Configs  BY DEF TypeOK
<1>2. ASSUME ~mixed'  PROVE \A k \in Configs : state'[k] \in {"started", "ok"} => k = latest'
  BY <1>2 DEF Alone
<1>3. ASSUME ~mixed'  PROVE \A d \in net' : d.ex.for \in Configs =>
                              d.ex.for = latest' /\ (d.to = "agent" => applied' = latest')
  BY <1>3 DEF Alone
<1>4. ASSUME ~mixed', latest' # "none", state'[latest'] = "ok"
      PROVE  effective'[latest'] = latest' /\ applied' = latest'
  BY <1>1, <1>4 DEF Alone
<1>5. ASSUME ~mixed', latest' # "none", state'[latest'] = "stored"
      PROVE  row' = latest' /\ applied' = latest'
  BY <1>1, <1>5 DEF Alone
<1> QED  BY <1>2, <1>3, <1>4, <1>5 DEF Alone

Dispatch == Plans /\ Heard /\ OkWasRun /\ Learns

\* A step about configurations, or one at which commands fail.
LEMMA DispatchKeeps ==
    ASSUME Dispatch, UNCHANGED <<plan, try, encoding, expects, runs>>,
           \A c \in Commands : state'[c] \in {state[c], "error", "timeout"},
           \A d \in net' : d.ex.for \in Commands => d \in net
    PROVE  Dispatch'
<1>1. Plans'  BY DEF Dispatch, Plans
<1>2. \A c : Audible(c)' = Audible(c)  BY DEF Audible
<1>3. Heard'  BY <1>2 DEF Dispatch, Heard
<1>4. OkWasRun' /\ Learns'  BY DEF Dispatch, OkWasRun, Learns
<1> QED  BY <1>1, <1>3, <1>4 DEF Dispatch

-----------------------------------------------------------------------------
(* Datagrams, the socket and announcements *)

LEMMA LoseKeeps ==
    ASSUME IInv, NEW d \in net, Lose(d)
    PROVE  IInv'
<1> USE DEF IInv, Facts, Lose, learnt, commands, configs, dongle
<1>1. TypeOK'  BY DEF TypeOK
<1>2. Pending'  BY PendingKeeps
<1>3. Alone'  BY AloneKeeps
<1>4. Dispatch'  BY DispatchKeeps DEF Dispatch
<1> QED  BY <1>1, <1>2, <1>3, <1>4 DEF Dispatch

LEMMA SocketErrorKeeps ==
    ASSUME IInv, SocketError
    PROVE  IInv'
<1> USE DEF IInv, Facts, SocketError, learnt, commands, configs, dongle
<1>1. TypeOK'
  <2>1. errors' \in 0 .. MaxErrors  BY ExchangesAssumption DEF TypeOK
  <2>2. pending' \in Seq(Exchange)  BY EmptySeq
  <2>3. state' \in [Commands \cup Configs ->
                      {"none", "started", "ok", "timeout", "error", "stored"}]
    BY DEF TypeOK
  <2> QED  BY <2>1, <2>2, <2>3 DEF TypeOK
<1>2. Pending'
  <2>1. Len(pending') = 0  BY EmptySeq
  <2>2. Waiting' = {}  BY <2>1 DEF Waiting
  <2> QED  BY <2>1, <2>2 DEF Pending, Single
<1>3. \A w \in Commands \cup Configs : state'[w] \in {state[w], "error", "timeout"}
  OBVIOUS
<1>4. Alone'  BY <1>3, AloneKeeps
<1>5. Dispatch'  BY <1>3, DispatchKeeps DEF Dispatch
<1> QED  BY <1>1, <1>2, <1>4, <1>5 DEF Dispatch

LEMMA AnnounceKeeps ==
    ASSUME IInv, Announce
    PROVE  IInv'
<1> USE DEF IInv, Facts, Announce, configs, dongle
<1>1. TypeOK'  BY ExchangesAssumption DEF TypeOK
<1>2. Pending'  BY PendingKeeps
<1>3. Alone'  BY AloneKeeps
<1>4. Dispatch'  BY DispatchKeeps DEF Dispatch
<1> QED  BY <1>1, <1>2, <1>3, <1>4 DEF Dispatch

LEMMA ObeyKeeps ==
    ASSUME IInv, NEW d \in net, Obey(d)
    PROVE  IInv'
<1> USE DEF IInv, Facts, learnt, commands, configs
<1>0. /\ d \in [ex : Exchange, to : {"dongle", "agent"}] /\ d.to = "dongle"
      /\ d.ex.for \in Commands \cup Configs /\ d.ex.try \in 1 .. 4
  BY DEF TypeOK, Obey, Exchange
<1>1. PICK answer \in [ex : Exchange, to : {"dongle", "agent"}] :
        /\ answer.ex = d.ex /\ answer.to = "agent"
        /\ net' = (net \ {d}) \cup {answer}
  BY <1>0 DEF Obey
<1>2. UNCHANGED <<pending, learnt, commands, configs, state, expects, errors>>  BY DEF Obey
<1>3. Pending'  BY <1>2, PendingKeeps
<1>4. Plans'  BY <1>2 DEF Plans
<1>5. Learns'  BY <1>2 DEF Learns
<1>6. CASE d.ex.for \in Configs
  <2>0. d.ex.for \notin Commands  BY <1>6, Apart
  <2>1. applied' = d.ex.for /\ runs' = runs  BY <1>6, <2>0 DEF Obey
  <2>2. TypeOK'  BY <1>1, <1>2, <1>6, <2>1 DEF TypeOK
  <2>3. \A e \in net' : e.ex.for \in Commands => e \in net  BY <1>1, <2>0
  <2>4. Dispatch'  BY <1>2, <2>1, <2>3, DispatchKeeps DEF Dispatch
  <2>5. Alone'
    <3>1. ~mixed => d.ex.for = latest  BY <1>6 DEF Alone
    <3>2. \A e \in net' : e \in net \/ e = answer  BY <1>1
    <3> QED  BY <1>1, <1>2, <2>1, <3>1, <3>2 DEF Alone
  <2> QED  BY <1>3, <2>2, <2>4, <2>5 DEF Dispatch
<1>7. CASE d.ex.for \in Commands
  <2>0. d.ex.for \notin Configs  BY <1>7, Apart
  <2>1. applied' = applied /\ runs' = [runs EXCEPT ![d.ex.for] = @ \cup {d.ex.try}]
    BY <1>7, <2>0 DEF Obey
  <2>2. \A c \in Commands : runs'[c] = IF c = d.ex.for THEN runs[c] \cup {d.ex.try} ELSE runs[c]
    BY <2>1 DEF TypeOK
  <2>3. TypeOK'
    <3>1. runs' \in [Commands -> SUBSET (1 .. 4)]  BY <1>0, <2>1 DEF TypeOK
    <3> QED  BY <1>1, <1>2, <2>1, <3>1 DEF TypeOK
  <2>4. \A c : Audible(c)' = Audible(c)  BY <1>2 DEF Audible
  <2>5. d.ex.try \in Audible(d.ex.for)  BY <1>7 DEF Heard
  <2>6. Heard'
    <3>1. \A c \in Commands : runs'[c] \subseteq Audible(c)  BY <2>2, <2>5 DEF Heard
    <3>2. \A e \in net' : e \in net \/ e = answer  BY <1>1
    <3>3. \A e \in net' : e.ex.for \in Commands =>
            /\ e.ex.try \in Audible(e.ex.for)
            /\ e.to = "agent" => e.ex.try \in runs'[e.ex.for]
      BY <1>1, <2>2, <2>5, <3>2 DEF Heard
    <3> QED  BY <2>4, <3>1, <3>3 DEF Heard
  <2>7. OkWasRun'  BY <1>2, <2>2 DEF OkWasRun
  <2>8. \A e \in net' : e.ex.for \in Configs => e \in net  BY <1>1, <2>0
  <2>9. Alone'  BY <1>2, <2>1, <2>8, AloneKeeps
  <2> QED  BY <1>3, <1>4, <1>5, <2>3, <2>6, <2>7, <2>9
<1> QED  BY <1>0, <1>6, <1>7

-----------------------------------------------------------------------------
(* Commands *)

LEMMA StartKeeps ==
    ASSUME IInv, NEW c \in Commands, Start(c)
    PROVE  IInv'
<1> USE DEF IInv, Facts, Start, Attempt, learnt, configs, dongle
<1>0. c \notin Configs  BY Apart
<1>1. PICK steps \in Seq(Addresses \X Encodings) :
        /\ steps = Plan /\ Len(steps) \in 1 .. 4 /\ steps[1][2] = encoding
        /\ \A m, n \in 1 .. Len(steps) : steps[m] = steps[n] => m = n
  BY PlanFacts DEF TypeOK
<1>2. /\ \A b \in Commands : plan'[b] = IF b = c THEN steps ELSE plan[b]
      /\ \A b \in Commands : try'[b] = IF b = c THEN 1 ELSE try[b]
      /\ \A w \in Commands \cup Configs : state'[w] = IF w = c THEN "started" ELSE state[w]
  BY <1>1 DEF TypeOK
<1>3. \A j \in 1 .. Len(pending) : pending[j] \in Exchange /\ pending[j].for # c
  <2>1. \A j \in 1 .. Len(pending) : pending[j] \in Exchange  BY ElementOfSeq DEF TypeOK
  <2>2. \A ex \in Waiting : ex.for # c  BY DEF Pending
  <2> QED  BY <2>1, <2>2 DEF Waiting
<1>4. PICK ex \in Exchange : ex = [for |-> c, try |-> 1]  BY DEF Exchange
<1>5. /\ pending' \in Seq(Exchange) /\ Single(pending')
      /\ Waiting' = Waiting \cup {ex}
      /\ \A d \in net' : d \in net \/ (d = [ex |-> ex, to |-> "dongle"] /\ encoding = expects)
  <2>1. Request(pending, ex, steps[1][1], steps[1][2])  BY <1>1, <1>4
  <2>2. ex.for = c  BY <1>4
  <2>3. pending \in Seq(Exchange) /\ Single(pending)  BY DEF TypeOK, Pending
  <2>4. \A j \in 1 .. Len(pending) : pending[j].for # ex.for  BY <1>3, <2>2
  <2> HIDE DEF IInv, Facts, Start, Attempt
  <2>5. /\ pending' \in Seq(Exchange) /\ Single(pending')
        /\ Waiting' = {pending[j] : j \in 1 .. Len(pending)} \cup {ex}
        /\ \A d \in net' : \/ d \in net
                           \/ d = [ex |-> ex, to |-> "dongle"] /\ steps[1][2] = expects
    BY <2>1, <2>3, <2>4, RequestFacts
  <2>6. Waiting = {pending[j] : j \in 1 .. Len(pending)}  BY DEF Waiting
  <2> QED  BY <1>1, <2>5, <2>6
<1>6. TypeOK'
  <2>1. net' \subseteq [ex : Exchange, to : {"dongle", "agent"}]  BY <1>5 DEF TypeOK
  <2>2. plan' \in [Commands -> Seq(Addresses \X Encodings)]  BY <1>1 DEF TypeOK
  <2>3. try' \in [Commands -> 0 .. 4] /\ held' \subseteq Commands  BY DEF TypeOK
  <2>4. state' \in [Commands \cup Configs ->
                      {"none", "started", "ok", "timeout", "error", "stored"}]
    BY DEF TypeOK
  <2> QED  BY <1>5, <2>1, <2>2, <2>3, <2>4 DEF TypeOK
<1>7. Pending'
  <2>1. \A x \in Waiting : x.for # c /\ x.for \in Commands \cup Configs
    BY <1>3 DEF Waiting, Exchange
  <2>2. \A x \in Waiting' : /\ state'[x.for] = "started"
                            /\ x.for \in Commands => x.try = try'[x.for]
    BY <1>2, <1>4, <1>5, <2>1 DEF Pending
  <2> QED  BY <1>5, <2>2 DEF Pending
<1>8. Plans'
  <2> SUFFICES ASSUME NEW b \in Commands
               PROVE  /\ state'[b] = "none" => plan'[b] = <<>>
                      /\ state'[b] = "started" => try'[b] \in 1 .. Len(plan'[b])
                      /\ Len(plan'[b]) <= 4
                      /\ \A m, n \in 1 .. Len(plan'[b]) : plan'[b][m] = plan'[b][n] => m = n
                      /\ plan'[b] # <<>> /\ plan'[b][1][2] = expects' => encoding' = expects'
    BY DEF Plans
  <2>1. CASE b = c
    <3>1. plan'[b] = steps /\ try'[b] = 1 /\ state'[b] = "started"  BY <1>2, <2>1
    <3>2. encoding' = encoding /\ expects' = expects  OBVIOUS
    <3> HIDE DEF IInv, Facts, Start, Attempt
    <3> QED  BY <1>1, <3>1, <3>2, SMTT(30)
  <2>2. CASE b # c  BY <1>2, <2>2 DEF Plans
  <2> QED  BY <2>1, <2>2
<1>9. plan[c] = <<>> /\ runs[c] = {} /\ \A d \in net : d.ex.for # c
  <2>1. plan[c] = <<>>  BY DEF Plans
  <2>2. Audible(c) = {}
    <3>1. Len(plan[c]) = 0  BY <2>1, EmptySeq
    <3> QED  BY <3>1 DEF Audible
  <2> QED  BY <2>1, <2>2 DEF Heard
<1>10. Heard'
  <2>1. \A b \in Commands \ {c} : Audible(b)' = Audible(b)  BY <1>2 DEF Audible
  <2>2. encoding = expects => 1 \in Audible(c)'  BY <1>1, <1>2 DEF Audible
  <2>3. \A b \in Commands : runs'[b] \subseteq Audible(b)'  BY <1>9, <2>1 DEF Heard
  <2>4. ASSUME NEW d \in net', d.ex.for \in Commands
        PROVE  d.ex.try \in Audible(d.ex.for)' /\ (d.to = "agent" => d.ex.try \in runs'[d.ex.for])
    <3>1. CASE d \in net
      <4>1. d.ex.for \in Commands \ {c}  BY <1>9, <2>4, <3>1
      <4>2. PICK b \in Commands \ {c} : b = d.ex.for  BY <4>1
      <4>3. d.ex.try \in Audible(b) /\ (d.to = "agent" => d.ex.try \in runs[b])
        BY <3>1, <4>2 DEF Heard
      <4> QED  BY <2>1, <4>2, <4>3
    <3>2. CASE d = [ex |-> ex, to |-> "dongle"] /\ encoding = expects
      BY <1>4, <2>2, <3>2
    <3> QED  BY <1>5, <3>1, <3>2
  <2> QED  BY <2>3, <2>4 DEF Heard
<1>11. OkWasRun' /\ Learns'  BY <1>2 DEF OkWasRun, Learns
<1>12. Alone'
  <2>1. \A d \in net' : d.ex.for \in Configs => d \in net  BY <1>0, <1>4, <1>5
  <2>2. \A k \in Configs : state'[k] = state[k]  BY <1>0, <1>2
  <2> QED  BY <2>1, <2>2, AloneKeeps
<1> QED  BY <1>6, <1>7, <1>8, <1>10, <1>11, <1>12

LEMMA DeclineKeeps ==
    ASSUME IInv, NEW c \in Commands, Decline(c)
    PROVE  IInv'
<1> USE DEF IInv, Facts, Decline, learnt, commands, configs, dongle
<1>1. \A w \in Commands \cup Configs : state'[w] = IF w = c THEN "error" ELSE state[w]
  BY DEF TypeOK
<1>2. TypeOK'  BY DEF TypeOK
<1>3. \A ex \in Waiting : ex.for \in (Commands \cup Configs) \ {c}
  <2>1. \A i \in 1 .. Len(pending) : pending[i] \in Exchange  BY ElementOfSeq DEF TypeOK
  <2> QED  BY <2>1 DEF Pending, Waiting, Exchange
<1>4. Pending'  BY <1>1, <1>3, PendingKeeps
<1>5. Alone'  BY <1>1, AloneKeeps
<1>6. Dispatch'  BY <1>1, DispatchKeeps DEF Dispatch
<1> QED  BY <1>2, <1>4, <1>5, <1>6 DEF Dispatch

\* A command or configuration that has an exchange has started.
LEMMA Started ==
    ASSUME Pending, NEW w, IsPending(w)
    PROVE  state[w] = "started"
BY DEF Pending, IsPending

LEMMA GiveUpKeeps ==
    ASSUME IInv, NEW c \in Commands, GiveUp(c)
    PROVE  IInv'
<1> USE DEF IInv, Facts, GiveUp, learnt, commands, configs, dongle
<1>1. \A w \in Commands \cup Configs : state'[w] = IF w = c THEN "timeout" ELSE state[w]
  BY DEF TypeOK
<1>2. pending' \in Seq(Exchange) /\ Pending'  BY <1>1, ForgetKeeps
<1>3. TypeOK'  BY <1>2 DEF TypeOK
<1>4. Alone'  BY <1>1, AloneKeeps
<1>5. Dispatch'  BY <1>1, DispatchKeeps DEF Dispatch
<1> QED  BY <1>2, <1>3, <1>4, <1>5 DEF Dispatch

LEMMA RetryKeeps ==
    ASSUME IInv, NEW c \in Commands, Retry(c)
    PROVE  IInv'
<1> USE DEF IInv, Facts
<1>0. c \notin Configs  BY Apart
<1>1. PICK n \in 1 .. 4 : n = try[c] + 1 /\ n \in 1 .. Len(plan[c])
  <2>1. state[c] = "started"  BY Started DEF Retry
  <2>2. try[c] \in 1 .. Len(plan[c]) /\ Len(plan[c]) <= 4  BY <2>1 DEF Plans
  <2>3. plan[c] \in Seq(Addresses \X Encodings)  BY DEF TypeOK
  <2>4. Len(plan[c]) \in Nat  BY <2>3, LenProperties
  <2> QED  BY <2>2, <2>4 DEF Retry
<1>2. /\ IsPending(c)
      /\ try' = [try EXCEPT ![c] = n]
      /\ Request(Forget(c), [for |-> c, try |-> n], plan[c][n][1], plan[c][n][2])
      /\ UNCHANGED <<learnt, plan, held, configs, state, dongle, errors>>
  BY <1>1 DEF Retry, Attempt
<1>3. /\ Forget(c) \in Seq(Exchange) /\ Single(Forget(c))
      /\ \A j \in 1 .. Len(Forget(c)) : Forget(c)[j] \in Waiting /\ Forget(c)[j].for # c
  BY <1>2, ForgetFacts DEF TypeOK, Pending
<1>4. PICK ex \in Exchange : ex = [for |-> c, try |-> n]  BY DEF Exchange
<1>5. /\ pending' \in Seq(Exchange) /\ Single(pending')
      /\ \A x \in Waiting' : x = ex \/ (x \in Waiting /\ x.for # c)
      /\ \A d \in net' : \/ d \in net
                         \/ d = [ex |-> ex, to |-> "dongle"] /\ plan[c][n][2] = expects
  <2>1. Request(Forget(c), ex, plan[c][n][1], plan[c][n][2])  BY <1>2, <1>4
  <2>2. ex.for = c  BY <1>4
  <2>3. \A j \in 1 .. Len(Forget(c)) : Forget(c)[j].for # ex.for  BY <1>3, <2>2
  <2> HIDE DEF IInv, Facts
  <2>4. PICK q \in Seq(Exchange) : q = Forget(c)  BY <1>3
  <2>5. /\ pending' \in Seq(Exchange) /\ Single(pending')
        /\ Waiting' = {q[j] : j \in 1 .. Len(q)} \cup {ex}
        /\ \A d \in net' : \/ d \in net
                           \/ d = [ex |-> ex, to |-> "dongle"] /\ plan[c][n][2] = expects
    BY <1>3, <2>1, <2>3, <2>4, RequestFacts
  <2>6. \A j \in 1 .. Len(q) : q[j] \in Waiting /\ q[j].for # c  BY <1>3, <2>4
  <2> QED  BY <2>5, <2>6
<1>6. \A b \in Commands : try'[b] = IF b = c THEN n ELSE try[b]  BY <1>2 DEF TypeOK
<1>7. UNCHANGED <<route, encoding, plan, held, configs, effective, mixed, latest, row, state,
                  expects, runs, applied, errors>>
  BY <1>2 DEF learnt, configs, dongle
<1>8. TypeOK'
  <2>1. net' \subseteq [ex : Exchange, to : {"dongle", "agent"}]  BY <1>5 DEF TypeOK
  <2>2. try' \in [Commands -> 0 .. 4]  BY <1>2 DEF TypeOK
  <2> QED  BY <1>5, <1>7, <2>1, <2>2 DEF TypeOK
<1>9. Pending'
  <2>1. state[c] = "started"  BY <1>2, Started
  <2>2. \A x \in Waiting' : /\ state'[x.for] = "started"
                            /\ x.for \in Commands => x.try = try'[x.for]
    BY <1>4, <1>5, <1>6, <1>7, <2>1 DEF Pending
  <2> QED  BY <1>5, <2>2 DEF Pending
<1>10. Plans'  BY <1>1, <1>6, <1>7 DEF Plans
<1>11. Heard'
  <2>1. \A b : Audible(b)' = Audible(b)  BY <1>7 DEF Audible
  <2>2. plan[c][n][2] = expects => n \in Audible(c)  BY <1>1 DEF Audible
  <2>3. ASSUME NEW d \in net', d.ex.for \in Commands
        PROVE  d.ex.try \in Audible(d.ex.for) /\ (d.to = "agent" => d.ex.try \in runs'[d.ex.for])
    <3>1. CASE d \in net  BY <1>7, <2>3, <3>1 DEF Heard
    <3>2. CASE d = [ex |-> ex, to |-> "dongle"] /\ plan[c][n][2] = expects
      BY <1>4, <2>2, <3>2
    <3> QED  BY <1>5, <3>1, <3>2
  <2>4. \A b \in Commands : runs'[b] \subseteq Audible(b)  BY <1>7 DEF Heard
  <2> QED  BY <2>1, <2>3, <2>4 DEF Heard
<1>12. OkWasRun' /\ Learns'  BY <1>7 DEF OkWasRun, Learns
<1>13. Alone'
  <2>1. \A d \in net' : d.ex.for \in Configs => d \in net  BY <1>0, <1>4, <1>5
  <2> QED  BY <1>7, <2>1, AloneKeeps
<1> QED  BY <1>8, <1>9, <1>10, <1>11, <1>12, <1>13

LEMMA AnswerKeeps ==
    ASSUME IInv, NEW c \in Commands, NEW d \in net, Answer(c, d)
    PROVE  IInv'
<1> USE DEF IInv, Facts
<1>0. c \notin Configs  BY Apart
<1>1. IsPending(c) /\ \E ex \in Waiting : ex.for = c /\ Matches(ex, d.ex)
  BY TakerFacts DEF Answer
<1>2. d.ex.for = c /\ d.ex.try = try[c] /\ state[c] = "started"
  BY <1>0, <1>1, Started DEF Matches, Pending
<1>3. PICK n \in 1 .. Len(plan[c]) : n = try[c]  BY <1>2 DEF Plans
<1>4. n \in Audible(c) /\ n \in runs[c]  BY <1>2, <1>3 DEF Heard, Answer
<1>5. plan[c][n] \in Addresses \X Encodings /\ plan[c][n][2] = expects
  <2>1. plan[c] \in Seq(Addresses \X Encodings)  BY DEF TypeOK
  <2> QED  BY <1>4, <2>1, ElementOfSeq DEF Audible
<1>6. /\ net' = net \ {d} /\ pending' = Forget(c)
      /\ state' = [state EXCEPT ![c] = "ok"]
      /\ route' \in {route, plan[c][n][1]}
      /\ encoding' = IF plan[c][n][2] # plan[c][1][2] THEN plan[c][n][2] ELSE encoding
      /\ UNCHANGED <<plan, try, held, effective, mixed, latest, row, expects, runs, applied, errors>>
  BY <1>3 DEF Answer, commands, configs, dongle
<1>7. plan[c] # <<>>
  <2>1. plan[c] = <<>> => Len(plan[c]) = 0  BY EmptySeq
  <2> QED  BY <1>3, <2>1
<1>8. encoding' = expects  BY <1>5, <1>6, <1>7 DEF Plans
<1>9. \A w \in Commands \cup Configs : state'[w] = IF w = c THEN "ok" ELSE state[w]
  BY <1>6 DEF TypeOK
<1>10. pending' \in Seq(Exchange) /\ Pending'  BY <1>1, <1>6, <1>9, ForgetKeeps
<1>11. TypeOK'
  <2>1. route' \in Addresses /\ encoding' \in Encodings  BY <1>5, <1>6, <1>8 DEF TypeOK
  <2>2. state' \in [Commands \cup Configs ->
                      {"none", "started", "ok", "timeout", "error", "stored"}]
    BY <1>6 DEF TypeOK
  <2> QED  BY <1>6, <1>10, <2>1, <2>2 DEF TypeOK
<1>12. Plans'  BY <1>6, <1>8, <1>9 DEF Plans
<1>13. Heard'
  <2>1. \A b : Audible(b)' = Audible(b)  BY <1>6 DEF Audible
  <2> QED  BY <1>6, <2>1 DEF Heard
<1>14. OkWasRun' /\ Learns'  BY <1>4, <1>6, <1>8, <1>9 DEF OkWasRun, Learns
<1>15. Alone'
  <2>1. \A k \in Configs : state'[k] = state[k]  BY <1>0, <1>9
  <2> QED  BY <1>6, <2>1, AloneKeeps DEF configs
<1> QED  BY <1>10, <1>11, <1>12, <1>13, <1>14, <1>15

-----------------------------------------------------------------------------
(* Configurations *)

LEMMA ApplyKeeps ==
    ASSUME IInv, NEW k \in Configs, Apply(k)
    PROVE  IInv'
<1> USE DEF IInv, Facts
<1>0. k \notin Commands /\ k # "none"  BY Apart
<1>1. \A w \in Commands \cup Configs : state'[w] = IF w = k THEN "started" ELSE state[w]
  BY DEF Apply, TypeOK
<1>2. PICK ex \in Exchange : ex = [for |-> k, try |-> 1]
  <2>1. k \in Commands \cup Configs /\ 1 \in 1 .. 4  OBVIOUS
  <2> HIDE DEF IInv, Facts
  <2>2. [for |-> k, try |-> 1] \in Exchange  BY <2>1 DEF Exchange
  <2> QED  BY <2>2
<1>3. /\ state[k] = "none" /\ latest' = k
      /\ mixed' = (\/ mixed
                   \/ \E g \in Configs : state[g] \in {"started", "ok"}
                   \/ \E d \in net : d.ex.for \in Configs)
      /\ Request(pending, ex, route, encoding)
      /\ UNCHANGED <<route, encoding, plan, try, held, effective, row, expects, runs, applied,
                     errors>>
  BY <1>2 DEF Apply, learnt, commands, dongle
<1>4. \A j \in 1 .. Len(pending) :
        pending[j] \in Exchange /\ pending[j] \in Waiting /\ pending[j].for # k
  <2>1. \A j \in 1 .. Len(pending) : pending[j] \in Exchange  BY ElementOfSeq DEF TypeOK
  <2>2. \A x \in Waiting : x.for # k  BY <1>3 DEF Pending
  <2> QED  BY <2>1, <2>2 DEF Waiting
<1>5. /\ pending' \in Seq(Exchange) /\ Single(pending')
      /\ Waiting' = Waiting \cup {ex}
      /\ \A d \in net' : d \in net \/ d = [ex |-> ex, to |-> "dongle"]
  <2>1. \A j \in 1 .. Len(pending) : pending[j].for # ex.for  BY <1>2, <1>4
  <2>2. pending \in Seq(Exchange) /\ Single(pending)  BY DEF TypeOK, Pending
  <2> HIDE DEF IInv, Facts
  <2>3. /\ pending' \in Seq(Exchange) /\ Single(pending')
        /\ Waiting' = {pending[j] : j \in 1 .. Len(pending)} \cup {ex}
        /\ \A d \in net' : \/ d \in net
                           \/ d = [ex |-> ex, to |-> "dongle"] /\ encoding = expects
    BY <1>3, <2>1, <2>2, RequestFacts
  <2>4. Waiting = {pending[j] : j \in 1 .. Len(pending)}  BY DEF Waiting
  <2> QED  BY <2>3, <2>4
<1>6. TypeOK'
  <2>1. net' \subseteq [ex : Exchange, to : {"dongle", "agent"}]  BY <1>5 DEF TypeOK
  <2>2. state' \in [Commands \cup Configs ->
                      {"none", "started", "ok", "timeout", "error", "stored"}]
    BY DEF Apply, TypeOK
  <2>3. mixed' \in BOOLEAN  BY <1>3 DEF TypeOK
  <2> QED  BY <1>3, <1>5, <2>1, <2>2, <2>3 DEF TypeOK
<1>7. Pending'
  <2>1. \A x \in Waiting : x.for # k /\ x.for \in Commands \cup Configs
    BY <1>4 DEF Waiting, Exchange
  <2>2. \A x \in Waiting' : /\ state'[x.for] = "started"
                            /\ x.for \in Commands => x.try = try'[x.for]
    BY <1>0, <1>1, <1>2, <1>3, <1>5, <2>1 DEF Pending
  <2> QED  BY <1>5, <2>2 DEF Pending
<1>8. Dispatch'
  <2>1. \A c \in Commands : state'[c] = state[c]  BY <1>0, <1>1
  <2>2. \A d \in net' : d.ex.for \in Commands => d \in net  BY <1>0, <1>2, <1>5
  <2> QED  BY <1>3, <2>1, <2>2, DispatchKeeps DEF Dispatch
<1>9. Alone'
  <2>1. \A d \in net' : d.ex.for \in Configs => d \in net \/ (d.ex.for = k /\ d.to = "dongle")
    BY <1>2, <1>5
  <2> QED  BY <1>0, <1>1, <1>3, <2>1 DEF Alone
<1> QED  BY <1>6, <1>7, <1>8, <1>9 DEF Dispatch

LEMMA ConfiguredKeeps ==
    ASSUME IInv, NEW k \in Configs, NEW d \in net, Configured(k, d)
    PROVE  IInv'
<1> USE DEF IInv, Facts
<1>0. k \notin Commands  BY Apart
<1>1. IsPending(k) /\ \E ex \in Waiting : ex.for = k /\ Matches(ex, d.ex)
  BY TakerFacts DEF Configured
<1>2. d.ex.for \in Configs /\ d.to = "agent" /\ state[k] = "started"
  BY <1>1, Started DEF Matches, Configured
<1>3. /\ net' = net \ {d} /\ pending' = Forget(k)
      /\ \/ /\ state' = [state EXCEPT ![k] = "ok"]
            /\ effective' = [effective EXCEPT ![k] = d.ex.for]
         \/ state' = [state EXCEPT ![k] = "error"] /\ effective' = effective
      /\ UNCHANGED <<route, encoding, plan, try, held, mixed, latest, row, expects, runs, applied,
                     errors>>
  BY DEF Configured, learnt, commands, dongle
<1>4. PICK s \in {"ok", "error"} :
        /\ state' = [state EXCEPT ![k] = s]
        /\ s = "ok" => effective' = [effective EXCEPT ![k] = d.ex.for]
        /\ s = "error" => effective' = effective
  BY <1>3
<1>5. \A w \in Commands \cup Configs : state'[w] = IF w = k THEN s ELSE state[w]
  BY <1>4 DEF TypeOK
<1>6. pending' \in Seq(Exchange) /\ Pending'  BY <1>1, <1>3, <1>5, ForgetKeeps
<1>7. TypeOK'
  <2>1. state' \in [Commands \cup Configs ->
                      {"none", "started", "ok", "timeout", "error", "stored"}]
    BY <1>4 DEF TypeOK
  <2>2. effective' \in [Configs -> Configs \cup {"none"}]  BY <1>2, <1>4 DEF TypeOK
  <2> QED  BY <1>3, <1>6, <2>1, <2>2 DEF TypeOK
<1>8. Dispatch'
  <2>1. \A c \in Commands : state'[c] = state[c]  BY <1>0, <1>5
  <2> QED  BY <1>3, <2>1, DispatchKeeps DEF Dispatch
<1>9. Alone'
  <2>1. ~mixed => k = latest /\ d.ex.for = latest /\ applied = latest
    BY <1>2 DEF Alone
  <2>2. ~mixed /\ s = "ok" => effective'[latest] = latest
    BY <1>4, <2>1 DEF TypeOK
  <2> QED  BY <1>3, <1>5, <2>1, <2>2 DEF Alone
<1> QED  BY <1>6, <1>7, <1>8, <1>9 DEF Dispatch

LEMMA ConfigTimeoutKeeps ==
    ASSUME IInv, NEW k \in Configs, ConfigTimeout(k)
    PROVE  IInv'
<1> USE DEF IInv, Facts, ConfigTimeout, learnt, commands, configs, dongle
<1>1. \A w \in Commands \cup Configs : state'[w] = IF w = k THEN "timeout" ELSE state[w]
  BY DEF TypeOK
<1>2. pending' \in Seq(Exchange) /\ Pending'  BY <1>1, ForgetKeeps
<1>3. TypeOK'  BY <1>2 DEF TypeOK
<1>4. Alone'  BY <1>1, AloneKeeps
<1>5. Dispatch'  BY <1>1, DispatchKeeps DEF Dispatch
<1> QED  BY <1>2, <1>3, <1>4, <1>5 DEF Dispatch

LEMMA StoreKeeps ==
    ASSUME IInv, NEW k \in Configs, Store(k)
    PROVE  IInv'
<1> USE DEF IInv, Facts, Store, learnt, commands, dongle
<1>0. k \notin Commands /\ k # "none"  BY Apart
<1>1. \A w \in Commands \cup Configs : state'[w] = IF w = k THEN "stored" ELSE state[w]
  BY DEF TypeOK
<1>2. \A ex \in Waiting : ex.for # k /\ ex.for \in Commands \cup Configs
  <2>1. \A i \in 1 .. Len(pending) : pending[i] \in Exchange  BY ElementOfSeq DEF TypeOK
  <2> QED  BY <2>1 DEF Pending, Waiting, Exchange
<1>3. Pending'  BY <1>1, <1>2, PendingKeeps
<1>4. TypeOK'  BY DEF TypeOK
<1>5. Dispatch'
  <2>1. \A c \in Commands : state'[c] = state[c]  BY <1>0, <1>1
  <2> QED  BY <2>1, DispatchKeeps DEF Dispatch
<1>6. Alone'
  <2>1. ~mixed => k = latest /\ effective[k] = latest /\ applied = latest
    BY <1>0 DEF Alone
  <2> QED  BY <1>1, <2>1 DEF Alone
<1> QED  BY <1>3, <1>4, <1>5, <1>6 DEF Dispatch

-----------------------------------------------------------------------------
(* Every step *)

LEMMA NextIInv == IInv /\ [Next]_vars => IInv'
<1> SUFFICES ASSUME IInv, [Next]_vars PROVE IInv'  OBVIOUS
<1>1. CASE SocketError  BY <1>1, SocketErrorKeeps
<1>2. CASE Announce  BY <1>2, AnnounceKeeps
<1>3. ASSUME NEW d \in net, Lose(d)  PROVE IInv'  BY <1>3, LoseKeeps
<1>4. ASSUME NEW d \in net, Obey(d)  PROVE IInv'  BY <1>4, ObeyKeeps
<1>5. ASSUME NEW c \in Commands, CommandStep(c)  PROVE IInv'
  BY <1>5, StartKeeps, DeclineKeeps, RetryKeeps, GiveUpKeeps, AnswerKeeps DEF CommandStep
<1>6. ASSUME NEW k \in Configs, ConfigStep(k)  PROVE IInv'
  BY <1>6, ApplyKeeps, ConfigTimeoutKeeps, StoreKeeps, ConfiguredKeeps DEF ConfigStep
<1>7. CASE UNCHANGED vars
  <2> USE <1>7 DEF vars, learnt, commands, configs, dongle, IInv, Facts
  <2>1. TypeOK'  BY DEF TypeOK
  <2>2. Pending'  BY PendingKeeps
  <2>3. Alone'  BY AloneKeeps
  <2>4. Dispatch'  BY DispatchKeeps DEF Dispatch
  <2> QED  BY <2>1, <2>2, <2>3, <2>4 DEF Dispatch
<1> QED  BY <1>1, <1>2, <1>3, <1>4, <1>5, <1>6, <1>7 DEF Next

LEMMA IInvExchanges == IInv => ExchangesInvariant
<1> SUFFICES ASSUME IInv PROVE ExchangesInvariant  OBVIOUS
<1> USE DEF IInv, Facts
<1>1. RunsOncePerAddress
  <2> SUFFICES ASSUME NEW c \in Commands, NEW m \in runs[c], NEW n \in runs[c],
                      plan[c][m][1] = plan[c][n][1]
               PROVE  m = n
    BY DEF RunsOncePerAddress
  <2>1. /\ m \in 1 .. Len(plan[c]) /\ n \in 1 .. Len(plan[c])
        /\ plan[c][m][2] = expects /\ plan[c][n][2] = expects
    BY DEF Heard, Audible
  <2>2. plan[c] \in Seq(Addresses \X Encodings)  BY DEF TypeOK
  <2>3. PICK p \in Addresses \X Encodings : p = plan[c][m]  BY <2>1, <2>2, ElementOfSeq
  <2>4. PICK q \in Addresses \X Encodings : q = plan[c][n]  BY <2>1, <2>2, ElementOfSeq
  <2>5. p = q  BY <2>1, <2>3, <2>4
  <2> QED  BY <2>1, <2>3, <2>4, <2>5 DEF Plans
<1>2. RowIsApplied  BY DEF RowIsApplied, Alone
<1> QED  BY <1>1, <1>2 DEF ExchangesInvariant

-----------------------------------------------------------------------------
\* remp/transport.ts and agent-core.ts: the inductive invariant, which says of the
\* datagrams under way and the exchanges that wait what makes the answers true.
THEOREM Inductive == Spec => []IInv
<1>1. Init => IInv  BY InitIInv
<1>2. IInv /\ [Next]_vars => IInv'  BY NextIInv
<1> QED  BY <1>1, <1>2, PTL DEF Spec

\* remp/cli.ts, match, and executeDongleCommand and applyCanConfigToDongle of agent-core.ts:
\* whatever is lost, late or out of order, a command that succeeded was carried out, at most
\* once at each address, the encoding that is kept is the dongle's, and the row that is
\* stored for the last configuration is what the dongle has, unless two overlapped; for
\* all numbers of commands, configurations and errors of the socket.
THEOREM ExchangesAreSound == Spec => []ExchangesInvariant
<1>1. IInv => ExchangesInvariant  BY IInvExchanges
<1> QED  BY <1>1, Inductive, PTL
=============================================================================
