--------------------------- MODULE CommandsProofs ---------------------------
(***************************************************************************)
(* What the stored output and verdict of a command may be, whatever number *)
(* of handlers overlap and whatever fails.  OutputWithinCap and            *)
(* OutputGenuine are not inductive: a handler writes back the row it read  *)
(* some time ago.  The invariant says that such a row is as good as the    *)
(* stored one, and that no row holds the text of a message whose handler   *)
(* has not written yet.  The second part proves the properties that have   *)
(* an exception, which a history variable of Commands remembers.           *)
(***************************************************************************)
EXTENDS Commands, TLAPS

Unwritten == {"wire", "received", "read"}

\* out holds texts of messages m for stream s, each once and handled.
SafeOutput(out, s, m) ==
    /\ \A k \in DOMAIN out : /\ out[k] \in DOMAIN m
                             /\ CarriesTo(m[out[k]].body, s)
                             /\ m[out[k]].pc \notin Unwritten
    /\ \A k, l \in DOMAIN out : out[k] = out[l] => k = l

SafeRow(r, m) ==
    /\ r.stdout.bytes + r.stderr.bytes <= OutputMax + 2
    /\ SafeOutput(r.stdout.texts, "stdout", m)
    /\ SafeOutput(r.stderr.texts, "stderr", m)

\* The stored row and every row a handler is about to write back are safe.
RowsSafe ==
    /\ SafeRow(row, messages)
    /\ \A i \in DOMAIN messages :
            messages[i].pc = "read" => SafeRow(messages[i].seen, messages)

HistoryOK == {reopened, muddled, overwritten} \subseteq BOOLEAN

IInv == TypeOK /\ DoneIsReal /\ RowsSafe

\* Messages only come and move on.
Grows(m, n) ==
    /\ DOMAIN m \subseteq DOMAIN n
    /\ \A i \in DOMAIN m : /\ n[i].body = m[i].body
                           /\ m[i].pc \notin Unwritten => n[i].pc \notin Unwritten

-----------------------------------------------------------------------------
(* Rows and messages *)

\* An empty row is safe.
LEMMA EmptySafe ==
    Queued \in Row /\ NoRow \in Row /\ \A m : SafeRow(Queued, m) /\ SafeRow(NoRow, m)
<1>1. <<>> \in Seq(Nat)
  OBVIOUS
<1>2. Nothing \in Texts /\ Nothing.texts = <<>> /\ Nothing.bytes = 0
  BY <1>1 DEF Nothing, Texts
<1>3. Queued \in Row /\ NoRow = [Queued EXCEPT !.status = "absent"]
  BY <1>2 DEF Queued, NoRow, Row, Open
<1>4. NoRow \in Row
  BY <1>3 DEF Row
<1>5. \A m : SafeOutput(<<>>, "stdout", m) /\ SafeOutput(<<>>, "stderr", m)
  BY DEF SafeOutput
<1>6. \A m : SafeRow(Queued, m) /\ SafeRow(NoRow, m)
  BY <1>2, <1>5, CommandsAssumption DEF SafeRow, Queued, NoRow
<1> QED
  BY <1>3, <1>4, <1>6

\* A safe row stays safe while messages move on.
LEMMA SafeGrows ==
    ASSUME NEW r, NEW m, NEW n, Grows(m, n), SafeRow(r, m)
    PROVE  SafeRow(r, n)
BY DEF SafeRow, SafeOutput, Grows

\* A new message changes none of the others.
LEMMA AppendGrows ==
    ASSUME NEW S, NEW m \in Seq(S), NEW e \in S
    PROVE  /\ Grows(m, Append(m, e)) /\ Append(m, e) \in Seq(S)
           /\ \A i \in DOMAIN Append(m, e) :
                    \/ i \in DOMAIN m /\ Append(m, e)[i] = m[i]
                    \/ Append(m, e)[i] = e
<1>1. Len(m) \in Nat /\ DOMAIN m = 1 .. Len(m)
  OBVIOUS
<1>2. DOMAIN Append(m, e) = 1 .. (Len(m) + 1)
  BY <1>1
<1>3. \A i \in 1 .. Len(m) : Append(m, e)[i] = m[i]
  BY <1>1
<1> QED
  BY <1>1, <1>2, <1>3 DEF Grows

\* A text that a safe stream did not hold can be added at its end.
LEMMA AppendSafe ==
    ASSUME NEW out \in Seq(Nat), NEW s, NEW m, SafeOutput(out, s, m),
           NEW i \in Nat, i \in DOMAIN m, CarriesTo(m[i].body, s),
           m[i].pc \notin Unwritten, \A k \in DOMAIN out : out[k] # i
    PROVE  /\ SafeOutput(Append(out, i), s, m)
           /\ Append(out, i) \in Seq(Nat) /\ Len(Append(out, i)) = Len(out) + 1
<1>1. Len(out) \in Nat /\ DOMAIN out = 1 .. Len(out)
  OBVIOUS
<1>2. DOMAIN Append(out, i) = 1 .. (Len(out) + 1) /\ Append(out, i)[Len(out) + 1] = i
  BY <1>1
<1>3. \A k \in DOMAIN out : Append(out, i)[k] = out[k]
  BY <1>1
<1>4. \A k \in DOMAIN Append(out, i) : k \in DOMAIN out \/ k = Len(out) + 1
  BY <1>1, <1>2
<1>5. \A k \in DOMAIN Append(out, i) : /\ Append(out, i)[k] \in DOMAIN m
                                       /\ CarriesTo(m[Append(out, i)[k]].body, s)
                                       /\ m[Append(out, i)[k]].pc \notin Unwritten
  BY <1>2, <1>3, <1>4 DEF SafeOutput
<1>6. \A k, l \in DOMAIN Append(out, i) : Append(out, i)[k] = Append(out, i)[l] => k = l
  BY <1>2, <1>3, <1>4 DEF SafeOutput
<1> QED
  BY <1>1, <1>2, <1>5, <1>6 DEF SafeOutput

\* A text that fits, or is cut to what fits and a torn character, passes the
\* limit by two bytes at most.
LEMMA CutFits ==
    ASSUME NEW max \in Nat, NEW a \in Nat, NEW b \in Nat, NEW size \in Nat,
           NEW over \in 0 .. 2, max - a - b > 0
    PROVE  LET kept == IF size <= max - a - b THEN size ELSE max - a - b + over
           IN  kept \in Nat /\ (a + kept) + b <= max + 2 /\ a + (b + kept) <= max + 2
OBVIOUS

\* The bytes and the text a handler adds to a stream.
Kept(r, size, over) ==
    IF size <= Remaining(r) THEN size ELSE Remaining(r) + over

\* What a handler writes, field by field.
IsUpdate(u, r, i, body, size, over) ==
    /\ u.status = Status(body)
    /\ u.stdout = IF CarriesTo(body, "stdout") /\ Remaining(r) > 0
                  THEN [texts |-> Append(r.stdout.texts, i),
                        bytes |-> r.stdout.bytes + Kept(r, size, over)]
                  ELSE r.stdout
    /\ u.stderr = IF CarriesTo(body, "stderr") /\ Remaining(r) > 0
                  THEN [texts |-> Append(r.stderr.texts, i),
                        bytes |-> r.stderr.bytes + Kept(r, size, over)]
                  ELSE r.stderr
    /\ u.truncated \in BOOLEAN
    /\ u = [status |-> u.status, stdout |-> u.stdout, stderr |-> u.stderr,
            truncated |-> u.truncated]
    /\ r.truncated => u.truncated
    /\ CarriesTo(body, "stdout") \/ CarriesTo(body, "stderr") =>
            Remaining(r) > 0 \/ u.truncated

LEMMA UpdatedFields ==
    ASSUME NEW r \in Row, NEW i, NEW body, NEW size, NEW over
    PROVE  IsUpdate(Updated(r, i, body, size, over), r, i, body, size, over)
<1>1. r.stdout.bytes \in Nat /\ r.stderr.bytes \in Nat
  BY DEF Row, Texts
<1>2. Remaining(r) \in Int
  BY <1>1, CommandsAssumption DEF Remaining
<1>3. ~(Remaining(r) <= 0) <=> Remaining(r) > 0
  BY <1>2
<1> QED
  BY <1>3 DEF Updated, Clamp, Kept, Streams, IsUpdate

\* What handleAgentCommandUpdate writes from a safe row is safe.
LEMMA UpdatedSafe ==
    ASSUME NEW r \in Row, NEW m, NEW n, Grows(m, n), SafeRow(r, m),
           NEW i \in Nat, i \in DOMAIN m, m[i].pc = "read", n[i].pc = "written",
           m[i].body \in Bodies, NEW size \in Nat, NEW over \in 0 .. 2
    PROVE  LET u == Updated(r, i, m[i].body, size, over)
           IN  u \in Row /\ SafeRow(u, n) /\ (u.status = "done" => m[i].body = "ok")
<1> DEFINE body == m[i].body
           u == Updated(r, i, body, size, over)
           kept == Kept(r, size, over)
           more(old) == [texts |-> Append(old.texts, i), bytes |-> old.bytes + kept]
<1>1. /\ r.stdout \in Texts /\ r.stderr \in Texts
      /\ r.stdout.texts \in Seq(Nat) /\ r.stderr.texts \in Seq(Nat)
      /\ r.stdout.bytes \in Nat /\ r.stderr.bytes \in Nat
  BY DEF Row, Texts
<1>2. /\ SafeOutput(r.stdout.texts, "stdout", n) /\ SafeOutput(r.stderr.texts, "stderr", n)
      /\ r.stdout.bytes + r.stderr.bytes <= OutputMax + 2
  BY SafeGrows DEF SafeRow
<1>3. i \in DOMAIN n /\ n[i].body = body /\ n[i].pc \notin Unwritten
  BY DEF Grows, Unwritten
<1>4. /\ \A k \in DOMAIN r.stdout.texts : r.stdout.texts[k] # i
      /\ \A k \in DOMAIN r.stderr.texts : r.stderr.texts[k] # i
  BY DEF SafeRow, SafeOutput, Unwritten
<1>5. ~(CarriesTo(body, "stdout") /\ CarriesTo(body, "stderr"))
  BY DEF CarriesTo
<1>6. /\ u.stdout = IF CarriesTo(body, "stdout") /\ Remaining(r) > 0
                    THEN more(r.stdout) ELSE r.stdout
      /\ u.stderr = IF CarriesTo(body, "stderr") /\ Remaining(r) > 0
                    THEN more(r.stderr) ELSE r.stderr
      /\ u.status = Status(body) /\ u.truncated \in BOOLEAN
      /\ u = [status |-> u.status, stdout |-> u.stdout, stderr |-> u.stderr,
              truncated |-> u.truncated]
  <2>1. IsUpdate(u, r, i, body, size, over)
    BY UpdatedFields
  <2> QED
    BY <2>1 DEF IsUpdate
<1>7. /\ CarriesTo(body, "stdout") =>
            /\ SafeOutput(Append(r.stdout.texts, i), "stdout", n)
            /\ Append(r.stdout.texts, i) \in Seq(Nat)
      /\ CarriesTo(body, "stderr") =>
            /\ SafeOutput(Append(r.stderr.texts, i), "stderr", n)
            /\ Append(r.stderr.texts, i) \in Seq(Nat)
  BY <1>1, <1>2, <1>3, <1>4, AppendSafe
<1>8. Remaining(r) > 0 =>
            /\ kept \in Nat
            /\ (r.stdout.bytes + kept) + r.stderr.bytes <= OutputMax + 2
            /\ r.stdout.bytes + (r.stderr.bytes + kept) <= OutputMax + 2
  <2>1. OutputMax \in Nat
    BY CommandsAssumption
  <2> QED
    BY <1>1, <2>1, CutFits DEF Remaining, Kept
<1> HIDE DEF kept
<1>9. Status(body) \in Open \cup Terminal /\ (Status(body) = "done" => body = "ok")
  BY DEF Status, Bodies, Streams, Responses, Open, Terminal
<1>10. Remaining(r) > 0 => r.stdout.bytes + kept \in Nat /\ r.stderr.bytes + kept \in Nat
  <2>1. r.stdout.bytes \in Nat /\ r.stderr.bytes \in Nat /\ (Remaining(r) > 0 => kept \in Nat)
    BY <1>1, <1>8, Zenon
  <2>2. \A x, y \in Nat : x + y \in Nat
    OBVIOUS
  <2> QED
    BY <2>1, <2>2, Zenon
<1> HIDE DEF u
<1>11. u.stdout \in Texts /\ u.stderr \in Texts
  BY <1>1, <1>6, <1>7, <1>10 DEF Texts
<1>12. u \in Row
  BY <1>6, <1>9, <1>11 DEF Row
<1>13. SafeRow(u, n)
  <2>1. CASE CarriesTo(body, "stdout") /\ Remaining(r) > 0
    <3>1. u.stdout = more(r.stdout) /\ u.stderr = r.stderr
      BY <1>5, <1>6, <2>1
    <3> QED
      BY <1>2, <1>7, <1>8, <2>1, <3>1 DEF SafeRow
  <2>2. CASE CarriesTo(body, "stderr") /\ Remaining(r) > 0
    <3>1. u.stdout = r.stdout /\ u.stderr = more(r.stderr)
      BY <1>5, <1>6, <2>2
    <3> QED
      BY <1>2, <1>7, <1>8, <2>2, <3>1 DEF SafeRow
  <2>3. CASE ~((CarriesTo(body, "stdout") \/ CarriesTo(body, "stderr")) /\ Remaining(r) > 0)
    <3>1. u.stdout = r.stdout /\ u.stderr = r.stderr
      BY <1>6, <2>3
    <3> QED
      BY <1>2, <3>1 DEF SafeRow
  <2> QED
    BY <2>1, <2>2, <2>3
<1> QED
  BY <1>6, <1>9, <1>12, <1>13 DEF u

\* A handler moves on and changes its own message only.
LEMMA ReplaceGrows ==
    ASSUME NEW m \in Seq(Message), NEW i \in DOMAIN m, NEW e \in Message, NEW n,
           e.body = m[i].body, m[i].pc \notin Unwritten => e.pc \notin Unwritten,
           n = [m EXCEPT ![i] = e]
    PROVE  /\ n \in Seq(Message) /\ Grows(m, n) /\ DOMAIN n = DOMAIN m
           /\ n[i] = e /\ \A j \in DOMAIN m : j # i => n[j] = m[j]
<1>1. DOMAIN n = DOMAIN m /\ n[i] = e /\ \A j \in DOMAIN m : j # i => n[j] = m[j]
  OBVIOUS
<1>2. n \in Seq(Message)
  OBVIOUS
<1> QED
  BY <1>1, <1>2 DEF Grows

-----------------------------------------------------------------------------
(* The shapes of the steps *)

LEMMA NothingStored ==
    ASSUME IInv, TypeOK', UNCHANGED <<row, messages>> PROVE IInv'
BY DEF IInv, DoneIsReal, RowsSafe

LEMMA RowStored ==
    ASSUME IInv, TypeOK', UNCHANGED messages,
           SafeRow(row', messages), row'.status # "done"
    PROVE  IInv'
BY DEF IInv, DoneIsReal, RowsSafe

LEMMA MessagesStored ==
    ASSUME IInv, TypeOK', UNCHANGED row, Grows(messages, messages'),
           \A i \in DOMAIN messages' : messages'[i].pc = "read" =>
                \/ i \in DOMAIN messages /\ messages[i].pc = "read"
                                         /\ messages'[i].seen = messages[i].seen
                \/ messages'[i].seen = row
    PROVE  IInv'
<1>1. SafeRow(row', messages')
  BY SafeGrows DEF IInv, RowsSafe
<1>2. ASSUME NEW i \in DOMAIN messages', messages'[i].pc = "read"
      PROVE  SafeRow(messages'[i].seen, messages')
  <2>1. CASE messages'[i].seen = row
    BY <1>1, <2>1
  <2>2. CASE i \in DOMAIN messages /\ messages[i].pc = "read"
                                    /\ messages'[i].seen = messages[i].seen
    <3>1. SafeRow(messages[i].seen, messages)
      BY <2>2 DEF IInv, RowsSafe
    <3> QED
      BY <2>2, <3>1, SafeGrows
  <2> QED
    BY <1>2, <2>1, <2>2
<1>3. DoneIsReal'
  BY DEF IInv, DoneIsReal, Grows
<1> QED
  BY <1>1, <1>2, <1>3 DEF IInv, RowsSafe

-----------------------------------------------------------------------------
(* The steps *)

LEMMA InitIInv == Init => IInv
<1> SUFFICES ASSUME Init PROVE IInv
  OBVIOUS
<1>1. TypeOK
  <2>1. row \in Row /\ messages \in Seq(Message)
    BY EmptySafe DEF Init
  <2> QED
    BY <2>1 DEF Init, TypeOK
<1>2. DoneIsReal /\ RowsSafe
  <2>1. row = NoRow /\ messages = <<>> /\ row.status = "absent"
    BY DEF Init, NoRow, Queued
  <2>2. SafeRow(row, messages)
    BY <2>1, EmptySafe
  <2> QED
    BY <2>1, <2>2 DEF DoneIsReal, RowsSafe
<1> QED
  BY <1>1, <1>2 DEF IInv

LEMMA EnqueueKeeps ==
    ASSUME IInv, HistoryOK', Enqueue PROVE IInv'
<1>1. CASE EnqueueCreate
  <2>1. TypeOK'
    BY <1>1, EmptySafe DEF IInv, TypeOK, HistoryOK, EnqueueCreate, Open
  <2>2. SafeRow(row', messages) /\ row'.status # "done"
    BY <1>1, EmptySafe DEF EnqueueCreate, Queued
  <2> QED
    BY <1>1, <2>1, <2>2, RowStored DEF EnqueueCreate
<1>2. CASE EnqueueSend \/ EnqueueOffline \/ EnqueueAuditFails
  <2>1. TypeOK'
    BY <1>2 DEF IInv, TypeOK, HistoryOK, EnqueueSend, EnqueueOffline, EnqueueAuditFails
  <2> QED
    BY <1>2, <2>1, NothingStored DEF EnqueueSend, EnqueueOffline, EnqueueAuditFails
<1> QED
  BY <1>1, <1>2 DEF Enqueue

\* The catch block empties stderr and keeps stdout.
LEMMA DispatchKeeps ==
    ASSUME IInv, HistoryOK', Dispatch PROVE IInv'
<1>1. CASE DispatchFailed
  <2>1. row \in Row /\ row' = [row EXCEPT !.status = "error", !.stderr = Nothing]
    BY <1>1 DEF IInv, TypeOK, DispatchFailed
  <2>2. Nothing \in Texts /\ Nothing.texts = <<>> /\ Nothing.bytes = 0
    <3>1. <<>> \in Seq(Nat)
      OBVIOUS
    <3> QED
      BY <3>1 DEF Nothing, Texts
  <2>3. /\ row'.status = "error" /\ row'.stdout = row.stdout /\ row'.stderr = Nothing
        /\ row' \in Row
    BY <2>1, <2>2 DEF Row, Terminal
  <2>4. TypeOK'
    BY <1>1, <2>3 DEF IInv, TypeOK, HistoryOK, DispatchFailed
  <2>5. SafeOutput(row'.stderr.texts, "stderr", messages)
    BY <2>2, <2>3 DEF SafeOutput
  <2>6. row.stdout.bytes + row'.stderr.bytes <= OutputMax + 2
    <3>1. row.stdout.bytes \in Nat /\ row.stderr.bytes \in Nat
      BY <2>1 DEF Row, Texts
    <3>2. row.stdout.bytes + row.stderr.bytes <= OutputMax + 2
      BY DEF IInv, RowsSafe, SafeRow
    <3> QED
      BY <2>2, <2>3, <3>1, <3>2, CommandsAssumption
  <2>7. SafeRow(row', messages)
    BY <2>3, <2>5, <2>6 DEF IInv, RowsSafe, SafeRow
  <2> QED
    BY <1>1, <2>3, <2>4, <2>7, RowStored DEF DispatchFailed
<1>2. CASE AckReceived \/ DispatchRejected \/ DispatchUnwritten \/ DispatchReported
  <2>1. TypeOK'
    BY <1>2 DEF IInv, TypeOK, HistoryOK, AckReceived, DispatchRejected,
                DispatchUnwritten, DispatchReported, Cleared,
                Open, Terminal
  <2> QED
    BY <1>2, <2>1, NothingStored
    DEF AckReceived, DispatchRejected, DispatchUnwritten, DispatchReported
<1> QED
  BY <1>1, <1>2 DEF Dispatch

LEMMA TimerKeeps ==
    ASSUME IInv, HistoryOK', Timer PROVE IInv'
<1>1. CASE TimerWrite /\ row.status \in Open
  <2>1. row \in Row /\ row' = [row EXCEPT !.status = "timeout"]
    BY <1>1 DEF IInv, TypeOK, TimerWrite
  <2>2. /\ row'.status = "timeout" /\ row'.stdout = row.stdout /\ row'.stderr = row.stderr
        /\ row' \in Row
    BY <2>1 DEF Row, Terminal
  <2>3. TypeOK'
    BY <1>1, <2>2 DEF IInv, TypeOK, HistoryOK, TimerWrite
  <2>4. SafeRow(row', messages)
    BY <2>2 DEF IInv, RowsSafe, SafeRow
  <2> QED
    BY <1>1, <2>2, <2>3, <2>4, RowStored DEF TimerWrite
<1>2. CASE TimerFire \/ (TimerWrite /\ row.status \notin Open) \/ TimerPublish \/ TimerFails
  <2>1. UNCHANGED <<row, messages>>
    BY <1>2 DEF TimerFire, TimerWrite, TimerPublish, TimerFails
  <2>2. row.status \in {"absent"} \cup Open \cup Terminal
    BY DEF IInv, TypeOK, Row
  <2>3. TypeOK'
    BY <1>2, <2>1, <2>2 DEF IInv, TypeOK, HistoryOK, TimerFire, TimerWrite,
       TimerPublish, TimerFails
  <2> QED
    BY <2>1, <2>3, NothingStored
<1> QED
  BY <1>1, <1>2 DEF Timer

\* What the agent sends joins the others, lost or on its way.
LEMMA SendKeeps ==
    ASSUME IInv, HistoryOK', NEW body \in Bodies, NEW size \in Nat, Send(body, size),
           request' \in {request, "over"},
           UNCHANGED <<pc, row, timer, shown, link, ack>>
    PROVE  IInv'
<1> DEFINE e == [pc |-> IF link THEN "wire" ELSE "lost", body |-> body, size |-> size,
                seen |-> NoRow]
<1>1. e \in Message /\ e.pc # "read"
  BY EmptySafe DEF Message
<1>2. messages \in Seq(Message) /\ messages' = Append(messages, e)
  BY DEF IInv, TypeOK, Send
<1> HIDE DEF e
<1>3. /\ Grows(messages, messages') /\ messages' \in Seq(Message)
      /\ \A i \in DOMAIN messages' :
                \/ i \in DOMAIN messages /\ messages'[i] = messages[i]
                \/ messages'[i] = e
  BY <1>1, <1>2, AppendGrows
<1>4. TypeOK'
  BY <1>3 DEF IInv, TypeOK, HistoryOK
<1> QED
  BY <1>1, <1>3, <1>4, MessagesStored

LEMMA AgentKeeps ==
    ASSUME IInv, HistoryOK', Agent PROVE IInv'
<1>1. CASE TakeRequest \/ AgentStops
  <2>1. TypeOK'
    BY <1>1 DEF IInv, TypeOK, HistoryOK, TakeRequest, AgentStops
  <2> QED
    BY <1>1, <2>1, NothingStored DEF TakeRequest, AgentStops
<1>2. ASSUME NEW s \in Streams, NEW size \in Nat, Output(s, size) PROVE IInv'
  BY <1>2, SendKeeps DEF Output, Bodies
<1>3. ASSUME NEW body \in Responses, NEW size \in Nat, Respond(body, size) PROVE IInv'
  BY <1>3, SendKeeps DEF Respond, Bodies
<1>4. Sizes \subseteq Nat /\ 0 \in Nat
  BY CommandsAssumption
<1> QED
  BY <1>1, <1>2, <1>3, <1>4 DEF Agent

\* A handler reads the row only into its own message, and writes it once.
LEMMA HandleKeeps ==
    ASSUME IInv, HistoryOK', NEW i \in DOMAIN messages, Handle(i) PROVE IInv'
<1>1. messages \in Seq(Message) /\ messages[i] \in Message /\ row \in Row
  BY DEF IInv, TypeOK
<1>2. CASE Receive(i)
  <2> DEFINE e == [messages[i] EXCEPT !.pc = "received"]
  <2>1. messages' = [messages EXCEPT ![i] = e] /\ messages[i].pc = "wire"
        /\ UNCHANGED <<pc, row, timer, shown, link, request, ack>>
    BY <1>2 DEF Receive, Move
  <2>2. e \in Message /\ e.body = messages[i].body /\ e.pc = "received"
    BY <1>1 DEF Message
  <2> HIDE DEF e
  <2>3. /\ messages' \in Seq(Message) /\ Grows(messages, messages')
        /\ DOMAIN messages' = DOMAIN messages /\ messages'[i] = e
        /\ \A j \in DOMAIN messages : j # i => messages'[j] = messages[j]
    BY <1>1, <2>1, <2>2, ReplaceGrows DEF Unwritten
  <2>4. TypeOK'
    BY <2>1, <2>3 DEF IInv, TypeOK, HistoryOK
  <2> QED
    BY <2>1, <2>2, <2>3, <2>4, MessagesStored
<1>3. CASE HandleRead(i)
  <2> DEFINE e == [messages[i] EXCEPT !.seen = row, !.pc = IF Ended THEN "ignored" ELSE "read"]
  <2>1. messages' = [messages EXCEPT ![i] = e] /\ messages[i].pc = "received"
        /\ UNCHANGED <<pc, row, timer, shown, link, request, ack>>
    BY <1>3, <1>1 DEF HandleRead, Message
  <2>2. e \in Message /\ e.body = messages[i].body /\ e.seen = row
    BY <1>1 DEF Message
  <2> HIDE DEF e
  <2>3. /\ messages' \in Seq(Message) /\ Grows(messages, messages')
        /\ DOMAIN messages' = DOMAIN messages /\ messages'[i] = e
        /\ \A j \in DOMAIN messages : j # i => messages'[j] = messages[j]
    BY <1>1, <2>1, <2>2, ReplaceGrows DEF Unwritten
  <2>4. TypeOK'
    BY <2>1, <2>3 DEF IInv, TypeOK, HistoryOK
  <2> QED
    BY <2>1, <2>2, <2>3, <2>4, MessagesStored
<1>4. CASE HandlePublish(i)
  <2> DEFINE e == [messages[i] EXCEPT !.pc = "handled"]
  <2>1. messages' = [messages EXCEPT ![i] = e] /\ messages[i].pc = "written"
        /\ timer' \in {timer, Cleared(timer)} /\ shown' = Status(messages[i].body)
        /\ UNCHANGED <<pc, row, link, request, ack>>
    BY <1>4 DEF HandlePublish, Move
  <2>2. e \in Message /\ e.body = messages[i].body /\ e.pc = "handled"
    BY <1>1 DEF Message
  <2> HIDE DEF e
  <2>3. /\ messages' \in Seq(Message) /\ Grows(messages, messages')
        /\ DOMAIN messages' = DOMAIN messages /\ messages'[i] = e
        /\ \A j \in DOMAIN messages : j # i => messages'[j] = messages[j]
    BY <1>1, <2>1, <2>2, ReplaceGrows DEF Unwritten
  <2>4. messages[i].body \in Bodies
    BY <1>1 DEF Message
  <2>5. shown' \in Open \cup Terminal
    BY <2>1, <2>4 DEF Status, Bodies, Streams, Responses, Open, Terminal
  <2>6. TypeOK'
    BY <2>1, <2>3, <2>5 DEF IInv, TypeOK, HistoryOK, Cleared
  <2> QED
    BY <2>1, <2>2, <2>3, <2>6, MessagesStored
<1>5. CASE HandleWrite(i)
  <2> DEFINE e == [messages[i] EXCEPT !.pc = "written"]
             seen == messages[i].seen
             body == messages[i].body
             size == messages[i].size
  <2>1. messages' = [messages EXCEPT ![i] = e] /\ messages[i].pc = "read"
        /\ UNCHANGED <<pc, timer, shown, link, request, ack>>
        /\ \E over \in Overruns(Remaining(seen)) : row' = Updated(seen, i, body, size, over)
    BY <1>5 DEF HandleWrite, Move, Written
  <2>0. PICK over \in 0 .. 2 : row' = Updated(seen, i, body, size, over)
    BY <2>1 DEF Overruns
  <2>2. e \in Message /\ e.body = body /\ e.pc = "written"
    BY <1>1 DEF Message
  <2>3. seen \in Row /\ body \in Bodies /\ i \in Nat /\ size \in Nat
    BY <1>1 DEF Message
  <2>4. SafeRow(seen, messages)
    BY <2>1 DEF IInv, RowsSafe
  <2> HIDE DEF e
  <2>5. /\ messages' \in Seq(Message) /\ Grows(messages, messages')
        /\ DOMAIN messages' = DOMAIN messages /\ messages'[i] = e
        /\ \A j \in DOMAIN messages : j # i => messages'[j] = messages[j]
    BY <1>1, <2>1, <2>2, ReplaceGrows DEF Unwritten
  <2>6. /\ row' \in Row /\ SafeRow(row', messages')
        /\ row'.status = "done" => body = "ok"
    <3>1. messages[i].pc = "read" /\ messages'[i].pc = "written" /\ Grows(messages, messages')
      BY <2>1, <2>2, <2>5
    <3>2. LET u == Updated(seen, i, body, size, over)
          IN  u \in Row /\ SafeRow(u, messages') /\ (u.status = "done" => body = "ok")
      BY <2>0, <2>3, <2>4, <3>1, UpdatedSafe
    <3> QED
      BY <2>0, <3>2
  <2>7. TypeOK'
    BY <2>1, <2>5, <2>6 DEF IInv, TypeOK, HistoryOK
  <2>8. ASSUME NEW j \in DOMAIN messages', messages'[j].pc = "read"
        PROVE  SafeRow(messages'[j].seen, messages')
    <3>1. j \in DOMAIN messages /\ messages'[j] = messages[j]
      BY <2>2, <2>5, <2>8
    <3>2. SafeRow(messages[j].seen, messages)
      BY <2>8, <3>1 DEF IInv, RowsSafe
    <3> QED
      BY <2>5, <3>1, <3>2, SafeGrows
  <2>9. DoneIsReal'
    BY <2>2, <2>5, <2>6 DEF DoneIsReal
  <2> QED
    BY <2>6, <2>7, <2>8, <2>9 DEF IInv, RowsSafe
<1> QED
  BY <1>2, <1>3, <1>4, <1>5 DEF Handle

\* A broken link and a crash change where messages are, not what they say.
LEMMA AllMoved ==
    ASSUME IInv, HistoryOK',
           messages' = [i \in DOMAIN messages |-> [messages[i] EXCEPT !.pc = messages'[i].pc]],
           \A i \in DOMAIN messages :
                messages'[i].pc \in {"lost"} \/ messages'[i].pc = messages[i].pc,
           pc' \in {pc, "gone"}, timer' \in {timer, "none"}, link' \in BOOLEAN,
           request' \in {request, "lost"}, ack' \in {ack, "gone"},
           UNCHANGED <<row, shown>>
    PROVE  IInv'
<1>1. messages \in Seq(Message) /\ DOMAIN messages' = DOMAIN messages
  BY DEF IInv, TypeOK
<1>2. \A i \in DOMAIN messages :
        /\ messages[i] \in Message
        /\ messages'[i] = [messages[i] EXCEPT !.pc = messages'[i].pc]
  BY <1>1
<1>3. \A i \in DOMAIN messages :
        /\ messages'[i] \in Message
        /\ messages'[i].body = messages[i].body /\ messages'[i].seen = messages[i].seen
  BY <1>2 DEF Message
<1>4. messages' \in Seq(Message)
  <2>1. Len(messages) \in Nat /\ DOMAIN messages = 1 .. Len(messages)
    BY <1>1
  <2>2. messages' \in [1 .. Len(messages) -> Message]
    BY <1>3, <2>1
  <2> QED
    BY <2>1, <2>2
<1>5. Grows(messages, messages')
  BY <1>1, <1>3 DEF Grows, Unwritten
<1>6. TypeOK'
  BY <1>4 DEF IInv, TypeOK, HistoryOK
<1> QED
  BY <1>1, <1>3, <1>5, <1>6, MessagesStored

LEMMA EnvironmentKeeps ==
    ASSUME IInv, HistoryOK', Environment PROVE IInv'
<1>1. messages \in Seq(Message) /\ \A i \in DOMAIN messages : messages[i] \in Message
  BY DEF IInv, TypeOK
<1>2. CASE Reconnect
  <2>1. TypeOK'
    BY <1>2 DEF IInv, TypeOK, HistoryOK, Reconnect
  <2> QED
    BY <1>2, <2>1, NothingStored DEF Reconnect
<1>3. CASE Disconnect
  <2>1. \A i \in DOMAIN messages :
            messages'[i] = [messages[i] EXCEPT !.pc = OffWire(messages[i].pc, "lost")]
    BY <1>3 DEF Disconnect
  <2>2. \A i \in DOMAIN messages : messages'[i].pc = OffWire(messages[i].pc, "lost")
    BY <1>1, <2>1 DEF Message
  <2>3. messages' = [i \in DOMAIN messages |-> [messages[i] EXCEPT !.pc = messages'[i].pc]]
    BY <1>3, <2>2 DEF Disconnect
  <2> QED
    BY <1>3, <2>2, <2>3, AllMoved DEF Disconnect, OffWire
<1>4. CASE Restart
  <2>1. \A i \in DOMAIN messages : messages'[i] =
            [messages[i] EXCEPT !.pc = IF messages[i].pc \in {"ignored", "handled"}
                                       THEN messages[i].pc ELSE "lost"]
    BY <1>4 DEF Restart
  <2>2. \A i \in DOMAIN messages : messages'[i].pc =
            IF messages[i].pc \in {"ignored", "handled"} THEN messages[i].pc ELSE "lost"
    BY <1>1, <2>1, ZenonT(30) DEF Message
  <2>3. messages' = [i \in DOMAIN messages |-> [messages[i] EXCEPT !.pc = messages'[i].pc]]
    BY <1>4, <2>2 DEF Restart
  <2> QED
    BY <1>4, <2>2, <2>3, AllMoved DEF Restart, OffWire
<1> QED
  BY <1>2, <1>3, <1>4 DEF Environment

-----------------------------------------------------------------------------
(* The theorems *)

\* The histories keep their types.
LEMMA RememberTyped ==
    ASSUME TypeOK, Remember PROVE HistoryOK'
<1>1. OwesEvent \in BOOLEAN /\ EventDropped \in BOOLEAN
  BY DEF OwesEvent, EventDropped
<1>2. {reopened, muddled, overwritten} \subseteq BOOLEAN
  BY DEF TypeOK
<1>3. reopened' \in BOOLEAN
  BY <1>2 DEF Remember
<1>4. muddled' \in BOOLEAN
  BY <1>1, <1>2 DEF Remember
<1>5. overwritten' \in BOOLEAN
  BY <1>2 DEF Remember
<1> QED
  BY <1>3, <1>4, <1>5 DEF HistoryOK

\* The strengthened invariant holds in every reachable state.
THEOREM Inductive == Spec => []IInv
<1>1. IInv /\ [Next]_vars => IInv'
  <2> SUFFICES ASSUME IInv, [Next]_vars PROVE IInv'
    OBVIOUS
  <2>1. CASE UNCHANGED vars
    <3>1. TypeOK' /\ UNCHANGED <<row, messages>>
      BY <2>1 DEF IInv, TypeOK, vars, program
    <3> QED
      BY <3>1, NothingStored
  <2>2. CASE Step /\ Remember
    <3>1. HistoryOK'
      BY <2>2, RememberTyped DEF IInv
    <3> QED
      BY <2>2, <3>1, EnqueueKeeps, DispatchKeeps, TimerKeeps, AgentKeeps, HandleKeeps,
         EnvironmentKeeps DEF Step
  <2> QED
    BY <2>1, <2>2 DEF Next
<1> QED
  BY InitIInv, <1>1, PTL DEF Spec

\* Row, timer and messages keep their types.
THEOREM TypeCorrect == Spec => []TypeOK
<1>1. IInv => TypeOK
  BY DEF IInv
<1> QED
  BY <1>1, Inductive, PTL

\* However many handlers write back old copies of the row, the stored output
\* stays within the limit and two bytes more (commands.ts, clampOutputChunk).
THEOREM OutputIsBounded == Spec => []OutputWithinCap
<1>1. IInv => OutputWithinCap
  BY DEF IInv, RowsSafe, SafeRow, OutputWithinCap
<1> QED
  BY <1>1, Inductive, PTL

\* Under any overlap, the output holds only texts of this command for that
\* stream, each at most once (commands.ts, handleAgentCommandUpdate).
THEOREM OutputIsGenuine == Spec => []OutputGenuine
<1>1. IInv => OutputGenuine
  BY DEF IInv, RowsSafe, SafeRow, SafeOutput, OutputGenuine
<1> QED
  BY <1>1, Inductive, PTL

\* A command is only ever "done" if its process exited with 0 (commands.ts).
THEOREM DoneIsTrue == Spec => []DoneIsReal
<1>1. IInv => DoneIsReal
  BY DEF IInv
<1> QED
  BY <1>1, Inductive, PTL
-----------------------------------------------------------------------------
(***************************************************************************)
(* What the histories except.  Each of the remaining properties holds      *)
(* under any overlap up to the one thing it names, and each needs a little *)
(* more than it says: what a handler may have read (BeginInv), that a due  *)
(* end is in the row unless it was reopened (GuardInv), and that a due     *)
(* event tells the row unless the order was muddled (ShownInv).            *)
(***************************************************************************)
BeginInv ==
    /\ pc \in {"idle", "audit"} => messages = <<>> /\ timer = "none" /\ request = "none"
    /\ pc = "idle" <=> row.status = "absent"
    /\ \A i \in DOMAIN messages :
            messages[i].pc = "read" => messages[i].seen.status \notin Terminal

GuardInv ==
    /\ TimerGuards
    /\ ~reopened =>
        /\ timer = "wrote" \/ pc = "telling" => Ended
        /\ \A i \in DOMAIN messages :
                messages[i].pc = "written" /\ Status(messages[i].body) \in Terminal => Ended

ShownInv ==
    ~muddled =>
        /\ pc = "telling" => row.status = "error"
        /\ \A i \in DOMAIN messages :
                messages[i].pc = "written" => row.status = Status(messages[i].body)
        /\ ~OwesEvent => shown = row.status

Holds(out, i) == \E k \in DOMAIN out : out[k] = i
Stored(body, i, r) ==
    /\ CarriesTo(body, "stdout") => Holds(r.stdout.texts, i)
    /\ CarriesTo(body, "stderr") => Holds(r.stderr.texts, i)
KeptInv ==
    ~overwritten =>
        \/ row.truncated
        \/ \A i \in DOMAIN messages : messages[i].pc \in {"written", "handled"} =>
                Stored(messages[i].body, i, row)

LaterInv == BeginInv /\ GuardInv /\ ShownInv /\ KeptInv

\* What the histories say of a step.
LEMMA Recall ==
    ASSUME Remember
    PROVE  /\ ~reopened' => ~reopened /\ ~(Ended /\ row'.status \in Open)
           /\ row'.status = row.status /\ ~muddled' => ~muddled /\ ~EventDropped
           /\ row'.status # row.status /\ ~muddled' => ~OwesEvent
           /\ ~overwritten' => /\ ~overwritten /\ ~(pc = "failing" /\ pc' = "telling")
                               /\ \A i \in DOMAIN messages : ~WritesOld(i)
BY DEF Remember

\* Messages stay where they are, are lost, or are new and not yet received.
Calm ==
    /\ DOMAIN messages \subseteq DOMAIN messages'
    /\ \A i \in DOMAIN messages :
        /\ messages'[i].body = messages[i].body /\ messages'[i].seen = messages[i].seen
        /\ messages'[i].pc \in {messages[i].pc, "lost"}
        /\ messages[i].pc = "written" /\ messages'[i].pc = "lost" => pc' = "gone"
    /\ \A i \in DOMAIN messages' \ DOMAIN messages : messages'[i].pc \in {"wire", "lost"}

\* One message moves on, the others stay.
OneMoves(i, from, to) ==
    /\ DOMAIN messages' = DOMAIN messages
    /\ messages[i].pc = from /\ messages'[i].pc = to
    /\ messages'[i].body = messages[i].body
    /\ \A j \in DOMAIN messages : j # i => messages'[j] = messages[j]

LEMMA MoveFacts ==
    ASSUME TypeOK, NEW i \in DOMAIN messages, NEW from, NEW to, Move(i, from, to)
    PROVE  OneMoves(i, from, to) /\ messages'[i].seen = messages[i].seen
<1>1. messages[i] \in Message
  BY DEF TypeOK
<1>2. messages' = [messages EXCEPT ![i] = [messages[i] EXCEPT !.pc = to]]
  BY DEF Move
<1> QED
  BY <1>1, <1>2 DEF Move, Message, OneMoves

LEMMA ReadFacts ==
    ASSUME TypeOK, NEW i \in DOMAIN messages, HandleRead(i)
    PROVE  /\ OneMoves(i, "received", IF Ended THEN "ignored" ELSE "read")
           /\ messages'[i].seen = row /\ UNCHANGED <<pc, row, timer, shown, request>>
<1>1. messages[i] \in Message
  BY DEF TypeOK
<1> DEFINE to == IF Ended THEN "ignored" ELSE "read"
<1>2. messages' = [messages EXCEPT ![i] = [messages[i] EXCEPT !.seen = row, !.pc = to]]
  BY <1>1 DEF HandleRead, Message
<1>3. messages[i].pc = "received" /\ UNCHANGED <<pc, row, timer, shown, request>>
  BY DEF HandleRead
<1> HIDE DEF to
<1>4. /\ DOMAIN messages' = DOMAIN messages
      /\ messages'[i] = [messages[i] EXCEPT !.seen = row, !.pc = to]
      /\ \A j \in DOMAIN messages : j # i => messages'[j] = messages[j]
  BY <1>2
<1>5. /\ messages'[i].seen = row /\ messages'[i].pc = to
      /\ messages'[i].body = messages[i].body
  BY <1>1, <1>4 DEF Message
<1> QED
  BY <1>3, <1>4, <1>5 DEF to, OneMoves

\* What the agent sends and what breaks leaves the handlers alone.
LEMMA SendIsCalm ==
    ASSUME TypeOK, NEW body, NEW size, Send(body, size)
    PROVE  Calm /\ \A i \in DOMAIN messages : messages'[i] = messages[i]
<1> DEFINE e == [pc |-> IF link THEN "wire" ELSE "lost", body |-> body, size |-> size,
                 seen |-> NoRow]
<1>1. messages \in Seq(Message) /\ messages' = Append(messages, e) /\ e.pc \in {"wire", "lost"}
  BY DEF TypeOK, Send
<1> HIDE DEF e
<1>2. /\ DOMAIN messages = 1 .. Len(messages) /\ Len(messages) \in Nat
      /\ DOMAIN messages' = 1 .. Len(messages) + 1
      /\ messages'[Len(messages) + 1] = e
      /\ \A i \in DOMAIN messages : messages'[i] = messages[i]
  BY <1>1
<1>3. \A i \in DOMAIN messages' \ DOMAIN messages : messages'[i] = e
  BY <1>2
<1>4. \A i \in DOMAIN messages : messages[i].pc = "written" => messages'[i].pc # "lost"
  BY <1>2
<1> QED
  BY <1>1, <1>2, <1>3, <1>4 DEF Calm

LEMMA BreaksAreCalm ==
    ASSUME TypeOK, Disconnect \/ Restart
    PROVE  Calm /\ DOMAIN messages' = DOMAIN messages
<1>1. \A i \in DOMAIN messages : messages[i] \in Message
  BY DEF TypeOK
<1>2. CASE Disconnect
  BY <1>1, <1>2 DEF Disconnect, OffWire, Calm, Message
<1>3. CASE Restart
  BY <1>1, <1>3 DEF Restart, Calm, Message
<1> QED
  BY <1>2, <1>3

\* The agent and the network change none of it.
LEMMA QuietKeeps ==
    ASSUME LaterInv, Remember, Calm, UNCHANGED <<pc, row, timer, shown>>,
           pc \in {"idle", "audit"} => UNCHANGED <<messages, request>>,
           \A i \in DOMAIN messages : messages[i].pc = "written" => messages'[i].pc = "written"
    PROVE  LaterInv'
<1>1. \A i \in DOMAIN messages' : messages'[i].pc \in {"read", "written", "handled"} =>
            /\ i \in DOMAIN messages /\ messages[i].pc = messages'[i].pc
            /\ messages'[i].body = messages[i].body /\ messages'[i].seen = messages[i].seen
  BY DEF Calm
<1>2. (~reopened' => ~reopened) /\ (~muddled' => ~muddled) /\ (~overwritten' => ~overwritten)
  BY Recall
<1>3. BeginInv'
  BY <1>1 DEF LaterInv, BeginInv
<1>4. GuardInv'
  BY <1>1, <1>2 DEF LaterInv, GuardInv, TimerGuards, Ended
<1>5. OwesEvent => OwesEvent'
  BY DEF OwesEvent, Calm
<1>6. ShownInv'
  BY <1>1, <1>2, <1>5 DEF LaterInv, ShownInv
<1>7. KeptInv'
  BY <1>1, <1>2 DEF LaterInv, KeptInv
<1> QED
  BY <1>3, <1>4, <1>6, <1>7 DEF LaterInv

LEMMA AgentLater ==
    ASSUME IInv, LaterInv, Remember, Agent \/ Disconnect \/ Reconnect PROVE LaterInv'
<1>0. TypeOK /\ \A i \in DOMAIN messages : messages[i] \in Message
  BY DEF IInv, TypeOK
<1>1. ASSUME UNCHANGED messages PROVE Calm
  BY <1>1 DEF Calm
<1>2. CASE TakeRequest \/ AgentStops \/ Reconnect
  <2>1. UNCHANGED <<pc, row, timer, shown, messages>>
    BY <1>2 DEF TakeRequest, AgentStops, Reconnect
  <2>2. pc \in {"idle", "audit"} => UNCHANGED request
    BY <1>2 DEF TakeRequest, AgentStops, Reconnect, LaterInv, BeginInv
  <2> QED
    BY <1>1, <2>1, <2>2, QuietKeeps
<1>3. ASSUME NEW body, NEW size, Send(body, size), request = "executing",
             UNCHANGED <<pc, row, timer, shown>>
      PROVE  LaterInv'
  <2>1. pc \notin {"idle", "audit"}
    BY <1>3 DEF LaterInv, BeginInv
  <2>2. Calm /\ \A i \in DOMAIN messages : messages'[i] = messages[i]
    BY <1>0, <1>3, SendIsCalm
  <2> QED
    BY <1>3, <2>1, <2>2, QuietKeeps
<1>4. CASE Disconnect
  <2>1. \A i \in DOMAIN messages : messages[i].pc = "written" => messages'[i].pc = "written"
    BY <1>0, <1>4 DEF Disconnect, OffWire, Message
  <2>2. messages = <<>> => messages' = <<>>
    BY <1>4 DEF Disconnect
  <2>3. pc \in {"idle", "audit"} => UNCHANGED <<messages, request>>
    BY <1>4, <2>2 DEF Disconnect, OffWire, LaterInv, BeginInv
  <2>4. Calm /\ UNCHANGED <<pc, row, timer, shown>>
    BY <1>0, <1>4, BreaksAreCalm DEF Disconnect
  <2> QED
    BY <2>1, <2>3, <2>4, QuietKeeps
<1> QED
  BY <1>2, <1>3, <1>4 DEF Agent, Output, Respond

LEMMA RestartLater ==
    ASSUME IInv, LaterInv, Remember, Restart PROVE LaterInv'
<1>1. /\ Calm /\ pc' = "gone" /\ timer' = "none" /\ UNCHANGED <<row, shown>>
      /\ row.status # "absent" /\ DOMAIN messages' = DOMAIN messages
  BY BreaksAreCalm DEF Restart, IInv, LaterInv, BeginInv
<1>2. \A i \in DOMAIN messages' :
            /\ messages'[i].pc \notin {"read", "written"}
            /\ messages[i].pc = "written" => messages'[i].pc = "lost"
            /\ messages'[i].body = messages[i].body
            /\ messages'[i].pc = "handled" => messages[i].pc = "handled"
  <2>1. \A i \in DOMAIN messages : messages[i] \in Message
    BY DEF IInv, TypeOK
  <2> QED
    BY <2>1 DEF Restart, Message
<1>3. (~muddled' => ~muddled /\ ~EventDropped) /\ (~overwritten' => ~overwritten)
  BY <1>1, Recall
<1>4. BeginInv'
  BY <1>1, <1>2 DEF LaterInv, BeginInv
<1>5. GuardInv'
  BY <1>1, <1>2 DEF LaterInv, GuardInv, TimerGuards
<1>6. ~EventDropped => ~OwesEvent
  BY <1>1, <1>2 DEF EventDropped, OwesEvent
<1>7. ShownInv'
  BY <1>1, <1>2, <1>3, <1>6 DEF LaterInv, ShownInv
<1>8. KeptInv'
  BY <1>1, <1>2, <1>3 DEF LaterInv, KeptInv
<1> QED
  BY <1>4, <1>5, <1>7, <1>8 DEF LaterInv

\* enqueueCommand, its catch block and the timer leave the messages alone.
ApiStep == Enqueue \/ Dispatch \/ Timer

\* What such a step does to the row.
LEMMA ApiRow ==
    ASSUME IInv, LaterInv, ApiStep
    PROVE  /\ UNCHANGED messages
           /\ EnqueueCreate => row' = Queued
           /\ DispatchFailed => row'.status = "error"
           /\ TimerWrite /\ row.status \in Open =>
                    /\ row'.status = "timeout" /\ pc \notin {"idle", "audit"}
                    /\ row'.stdout = row.stdout /\ row'.stderr = row.stderr
                    /\ row'.truncated = row.truncated
           /\ \/ EnqueueCreate \/ DispatchFailed \/ (TimerWrite /\ row.status \in Open)
              \/ row' = row
<1>1. row \in Row
  BY DEF IInv, TypeOK
<1>2. CASE EnqueueCreate
  BY <1>2 DEF EnqueueCreate, DispatchFailed, TimerWrite, LaterInv, BeginInv
<1>3. CASE DispatchFailed
  <2>1. row' = [row EXCEPT !.status = "error", !.stderr = Nothing]
    BY <1>3 DEF DispatchFailed
  <2>2. row'.status = "error"
    BY <1>1, <2>1 DEF Row
  <2>3. UNCHANGED messages /\ ~EnqueueCreate /\ ~TimerWrite
    BY <1>3 DEF DispatchFailed, TimerWrite, EnqueueCreate
  <2> QED
    BY <1>3, <2>2, <2>3
<1>4. CASE TimerWrite /\ row.status \in Open
  <2>1. row' = [row EXCEPT !.status = "timeout"]
    BY <1>4 DEF TimerWrite
  <2>2. /\ row'.status = "timeout" /\ row'.stdout = row.stdout /\ row'.stderr = row.stderr
        /\ row'.truncated = row.truncated
    BY <1>1, <2>1 DEF Row
  <2>3. pc \notin {"idle", "audit"}
    BY <1>4 DEF TimerWrite, LaterInv, BeginInv
  <2>4. ~DispatchFailed /\ ~EnqueueCreate /\ UNCHANGED messages
    BY <1>4 DEF TimerWrite, DispatchFailed, EnqueueCreate
  <2> QED
    BY <1>4, <2>2, <2>3, <2>4
<1>5. CASE \/ EnqueueSend \/ EnqueueOffline \/ EnqueueAuditFails \/ AckReceived
           \/ DispatchRejected \/ DispatchUnwritten \/ DispatchReported
           \/ TimerFire \/ TimerPublish \/ TimerFails \/ (TimerWrite /\ row.status \notin Open)
  <2>1. ~EnqueueCreate /\ ~DispatchFailed /\ ~(TimerWrite /\ row.status \in Open)
    BY <1>5 DEF EnqueueSend, EnqueueOffline, EnqueueAuditFails, AckReceived,
       DispatchRejected, DispatchUnwritten, DispatchReported, TimerFire, TimerPublish,
       TimerFails, TimerWrite, EnqueueCreate, DispatchFailed
  <2>2. UNCHANGED <<row, messages>>
    BY <1>5 DEF EnqueueSend, EnqueueOffline, EnqueueAuditFails, AckReceived,
       DispatchRejected, DispatchUnwritten, DispatchReported, TimerFire, TimerPublish,
       TimerFails, TimerWrite
  <2> QED
    BY <2>1, <2>2
<1> QED
  BY <1>2, <1>3, <1>4, <1>5 DEF ApiStep, Enqueue, Dispatch, Timer

LEMMA ApiBegins ==
    ASSUME IInv, LaterInv, ApiStep PROVE BeginInv'
<1>1. UNCHANGED messages
  BY ApiRow
<1>2. pc' = "idle" <=> row'.status = "absent"
  <2>1. CASE EnqueueCreate
    BY <2>1 DEF EnqueueCreate, Queued
  <2>2. CASE ~EnqueueCreate
    <3>1. pc' = "idle" <=> pc = "idle"
      BY <2>2 DEF ApiStep, Enqueue, Dispatch, Timer, EnqueueSend, EnqueueOffline,
         EnqueueAuditFails, AckReceived, DispatchRejected, DispatchFailed, DispatchUnwritten,
         DispatchReported, TimerFire, TimerWrite, TimerPublish, TimerFails
    <3> QED
      <4>1. CASE DispatchFailed \/ (TimerWrite /\ row.status \in Open)
        <5>1. row'.status # "absent"
          BY <4>1, ApiRow
        <5>2. pc # "idle"
          BY <4>1, ApiRow DEF DispatchFailed
        <5> QED
          BY <3>1, <5>1, <5>2
      <4> QED
        BY <2>2, <3>1, <4>1, ApiRow DEF LaterInv, BeginInv
  <2> QED
    BY <2>1, <2>2
<1>3. pc' \in {"idle", "audit"} => messages = <<>> /\ timer' = "none" /\ request' = "none"
  BY DEF ApiStep, Enqueue, Dispatch, Timer, EnqueueCreate, EnqueueSend, EnqueueOffline,
     EnqueueAuditFails, AckReceived, DispatchRejected, DispatchFailed, DispatchUnwritten,
     DispatchReported, TimerFire, TimerWrite, TimerPublish, TimerFails, LaterInv, BeginInv
<1> QED
  BY <1>1, <1>2, <1>3 DEF LaterInv, BeginInv

LEMMA ApiGuards ==
    ASSUME IInv, LaterInv, Remember, ApiStep PROVE GuardInv'
<1>1. UNCHANGED messages
  BY ApiRow
<1>2. SUFFICES ASSUME ~reopened'
               PROVE  /\ TimerGuards'
                      /\ timer' = "wrote" \/ pc' = "telling" => Ended'
                      /\ \A i \in DOMAIN messages :
                            messages[i].pc = "written" /\ Status(messages[i].body) \in Terminal
                                => Ended'
  BY <1>1 DEF GuardInv, TimerGuards
<1>3. ~reopened /\ ~(Ended /\ row'.status \in Open)
  BY <1>2, Recall
<1>4. CASE EnqueueCreate
  BY <1>4 DEF EnqueueCreate, TimerGuards, LaterInv, BeginInv
<1>5. CASE DispatchFailed \/ (TimerWrite /\ row.status \in Open)
  <2>1. row'.status \in Terminal
    BY <1>5, ApiRow DEF Terminal
  <2> QED
    BY <2>1 DEF TimerGuards, Ended, Open, Terminal
<1>6. CASE \/ EnqueueSend \/ EnqueueOffline \/ EnqueueAuditFails \/ AckReceived
           \/ DispatchRejected \/ DispatchUnwritten \/ DispatchReported
           \/ TimerFire \/ TimerPublish \/ TimerFails \/ (TimerWrite /\ row.status \notin Open)
  <2>1. /\ UNCHANGED row
        /\ timer' = "wrote" => timer = "wrote"
        /\ pc' = "telling" => pc = "telling"
    BY <1>6 DEF EnqueueSend, EnqueueOffline, EnqueueAuditFails, AckReceived, DispatchRejected,
       DispatchUnwritten, DispatchReported, TimerFire, TimerPublish, TimerFails, TimerWrite,
       Cleared
  <2>2. TimerGuards'
    BY <1>3, <1>6, <2>1 DEF EnqueueSend, EnqueueOffline, EnqueueAuditFails, AckReceived,
       DispatchRejected, DispatchUnwritten, DispatchReported, TimerFire, TimerPublish,
       TimerFails, TimerWrite, Cleared, TimerGuards, LaterInv, GuardInv, Ended, Open, Terminal
  <2> QED
    BY <1>3, <2>1, <2>2 DEF LaterInv, GuardInv, Ended
<1> QED
  BY <1>4, <1>5, <1>6 DEF ApiStep, Enqueue, Dispatch, Timer

LEMMA ApiShows ==
    ASSUME IInv, LaterInv, Remember, ApiStep PROVE ShownInv'
<1>1. UNCHANGED messages
  BY ApiRow
<1>2. SUFFICES ASSUME ~muddled'
               PROVE  /\ pc' = "telling" => row'.status = "error"
                      /\ \A i \in DOMAIN messages :
                            messages[i].pc = "written" => row'.status = Status(messages[i].body)
                      /\ ~OwesEvent' => shown' = row'.status
  BY <1>1 DEF ShownInv
<1>3. CASE row'.status # row.status
  <2>1. ~OwesEvent
    BY <1>2, <1>3, Recall
  <2>2. \A i \in DOMAIN messages : messages[i].pc # "written"
    BY <2>1 DEF OwesEvent
  <2>3. CASE EnqueueCreate
    BY <2>2, <2>3 DEF EnqueueCreate, Queued
  <2>4. CASE DispatchFailed
    BY <1>3, <2>2, <2>4, ApiRow DEF DispatchFailed, OwesEvent, EnqueueCreate
  <2>5. CASE TimerWrite /\ row.status \in Open
    BY <2>1, <2>2, <2>5 DEF TimerWrite, OwesEvent
  <2> QED
    BY <1>3, <2>3, <2>4, <2>5, ApiRow
<1>4. CASE row'.status = row.status
  <2>1. ~muddled /\ ~EventDropped
    BY <1>2, <1>4, Recall
  <2>2. \A i \in DOMAIN messages : messages[i].pc = "written" =>
                row'.status = Status(messages[i].body)
    BY <1>4, <2>1 DEF LaterInv, ShownInv
  <2>3. CASE EnqueueCreate
    BY <2>2, <2>3 DEF EnqueueCreate, Queued
  <2>4. CASE DispatchFailed
    BY <2>2, <2>4, ApiRow DEF DispatchFailed, OwesEvent, EnqueueCreate
  <2>5. CASE DispatchReported
    BY <1>4, <2>1, <2>2, <2>5 DEF DispatchReported, LaterInv, ShownInv
  <2>6. CASE TimerPublish
    BY <1>4, <2>1, <2>2, <2>6 DEF TimerPublish, LaterInv, ShownInv
  <2>7. CASE TimerFails
    <3>1. timer # "wrote"
      BY <2>1, <2>7 DEF TimerFails, EventDropped
    <3> QED
      BY <1>4, <2>1, <2>2, <2>7, <3>1 DEF TimerFails, LaterInv, ShownInv, OwesEvent
  <2>8. CASE TimerWrite
    <3>1. row.status \in Open => timer' = "wrote"
      BY <2>8 DEF TimerWrite
    <3> QED
      BY <1>4, <2>1, <2>2, <2>8, <3>1 DEF TimerWrite, LaterInv, ShownInv, OwesEvent
  <2>9. CASE \/ EnqueueSend \/ EnqueueOffline \/ EnqueueAuditFails \/ AckReceived
             \/ DispatchRejected \/ DispatchUnwritten \/ TimerFire
    <3>1. /\ shown' = shown /\ (OwesEvent => OwesEvent')
          /\ pc' = "telling" => pc = "telling"
      BY <2>9 DEF EnqueueSend, EnqueueOffline, EnqueueAuditFails, AckReceived,
         DispatchRejected, DispatchUnwritten, TimerFire, OwesEvent, Cleared, LaterInv,
         BeginInv
    <3> QED
      BY <1>4, <2>1, <2>2, <3>1 DEF LaterInv, ShownInv
  <2> QED
    BY <2>3, <2>4, <2>5, <2>6, <2>7, <2>8, <2>9 DEF ApiStep, Enqueue, Dispatch, Timer
<1> QED
  BY <1>3, <1>4

LEMMA ApiStores ==
    ASSUME IInv, LaterInv, Remember, ApiStep PROVE KeptInv'
<1>1. UNCHANGED messages
  BY ApiRow
<1>2. SUFFICES ASSUME ~overwritten'
               PROVE  \/ row'.truncated
                      \/ \A i \in DOMAIN messages : messages[i].pc \in {"written", "handled"} =>
                              Stored(messages[i].body, i, row')
  BY <1>1 DEF KeptInv
<1>3. ~overwritten /\ ~(pc = "failing" /\ pc' = "telling")
  BY <1>2, Recall
<1>4. CASE EnqueueCreate
  <2>1. messages = <<>>
    BY <1>4 DEF EnqueueCreate, LaterInv, BeginInv
  <2> QED
    BY <2>1
<1>5. CASE ~EnqueueCreate
  <2>1. row'.stdout = row.stdout /\ row'.stderr = row.stderr /\ row'.truncated = row.truncated
    BY <1>3, <1>5, ApiRow DEF DispatchFailed
  <2> QED
    BY <1>3, <2>1 DEF LaterInv, KeptInv, Stored
<1> QED
  BY <1>4, <1>5

\* The text a handler writes is in its stream, or the row is truncated.
LEMMA WriteStores ==
    ASSUME NEW r \in Row, NEW i \in Nat, NEW body, NEW u, NEW size, NEW over,
           IsUpdate(u, r, i, body, size, over)
    PROVE  /\ r.truncated => u.truncated
           /\ u.truncated \/ Stored(body, i, u)
           /\ \A j, b : Stored(b, j, r) => Stored(b, j, u)
<1>1. r.stdout.texts \in Seq(Nat) /\ r.stderr.texts \in Seq(Nat)
  BY DEF Row, Texts
<1>2. ASSUME NEW out \in Seq(Nat)
      PROVE  Holds(Append(out, i), i) /\ \A j : Holds(out, j) => Holds(Append(out, i), j)
  <2>1. /\ DOMAIN out = 1 .. Len(out) /\ Len(out) \in Nat
        /\ DOMAIN Append(out, i) = 1 .. Len(out) + 1
        /\ Append(out, i)[Len(out) + 1] = i
        /\ \A k \in DOMAIN out : Append(out, i)[k] = out[k]
    OBVIOUS
  <2> QED
    BY <2>1 DEF Holds
<1>3. /\ CarriesTo(body, "stdout") /\ Remaining(r) > 0 =>
            u.stdout.texts = Append(r.stdout.texts, i)
      /\ CarriesTo(body, "stderr") /\ Remaining(r) > 0 =>
            u.stderr.texts = Append(r.stderr.texts, i)
      /\ u.stdout.texts \in {r.stdout.texts, Append(r.stdout.texts, i)}
      /\ u.stderr.texts \in {r.stderr.texts, Append(r.stderr.texts, i)}
  BY DEF IsUpdate
<1>4. \A j, b : Stored(b, j, r) => Stored(b, j, u)
  BY <1>1, <1>2, <1>3 DEF Stored
<1>5. u.truncated \/ Stored(body, i, u)
  <2>1. CASE Remaining(r) > 0
    BY <1>1, <1>2, <1>3, <2>1 DEF Stored
  <2>2. CASE ~(Remaining(r) > 0)
    BY <2>2 DEF IsUpdate, Stored
  <2> QED
    BY <2>1, <2>2
<1> QED
  BY <1>4, <1>5 DEF IsUpdate

LEMMA WriteLater ==
    ASSUME IInv, LaterInv, Remember, NEW i \in DOMAIN messages, HandleWrite(i),
           i \in Nat, messages[i].body \in Bodies, pc \notin {"idle", "audit"}
    PROVE  LaterInv'
<1> DEFINE body == messages[i].body
           seen == messages[i].seen
           size == messages[i].size
<1>1. /\ OneMoves(i, "read", "written") /\ messages'[i].seen = seen
      /\ UNCHANGED <<pc, timer, shown>>
  BY MoveFacts DEF HandleWrite, IInv
<1>2. PICK over : row' = Updated(seen, i, body, size, over)
  BY DEF HandleWrite, Written
<1>3. seen \in Row /\ row \in Row
  <2>1. messages[i] \in Message /\ row \in Row
    BY DEF IInv, TypeOK
  <2> QED
    BY <2>1 DEF Message
<1>4. IsUpdate(row', seen, i, body, size, over)
  BY <1>2, <1>3, UpdatedFields
<1>5. row'.status = Status(body) /\ row'.status \in Open \cup Terminal
  <2>1. Status(body) \in Open \cup Terminal
    BY DEF Status, Bodies, Streams, Responses, Open, Terminal
  <2> QED
    BY <1>4, <2>1 DEF IsUpdate
<1>6. /\ \A j \in DOMAIN messages : j # i => messages'[j] = messages[j]
      /\ DOMAIN messages' = DOMAIN messages
      /\ messages'[i].body = body /\ messages[i].pc = "read" /\ messages'[i].pc = "written"
  BY <1>1 DEF OneMoves
<1> HIDE DEF body, seen, size
<1>7. BeginInv'
  <2>1. row'.status # "absent"
    BY <1>5 DEF Open, Terminal
  <2> QED
    BY <1>1, <1>6, <2>1 DEF LaterInv, BeginInv
<1>8. GuardInv'
  <2>1. SUFFICES ASSUME ~reopened' PROVE GuardInv'
    BY DEF GuardInv, TimerGuards
  <2>2. ~reopened /\ ~(Ended /\ row'.status \in Open)
    BY <2>1, Recall
  <2>3. row'.status \in Open => row.status \in Open
    BY <1>3, <2>2 DEF Row, Ended, LaterInv, BeginInv
  <2>4. TimerGuards'
    BY <1>1, <2>2, <2>3 DEF LaterInv, GuardInv, TimerGuards
  <2>5. Ended => Ended'
    BY <1>5, <2>2 DEF Ended
  <2>6. Status(body) \in Terminal => Ended'
    BY <1>5 DEF Ended
  <2> QED
    BY <1>1, <1>6, <2>2, <2>4, <2>5, <2>6 DEF LaterInv, GuardInv
<1>9. ShownInv'
  <2>1. SUFFICES ASSUME ~muddled' PROVE ShownInv'
    BY DEF ShownInv
  <2>2. OwesEvent'
    BY <1>6 DEF OwesEvent
  <2>3. CASE row'.status = row.status
    <3>1. ~muddled
      BY <2>1, <2>3, Recall
    <3> QED
      BY <1>1, <1>5, <1>6, <2>2, <2>3, <3>1 DEF LaterInv, ShownInv
  <2>4. CASE row'.status # row.status
    <3>1. ~OwesEvent
      BY <2>1, <2>4, Recall
    <3>2. pc # "telling" /\ \A j \in DOMAIN messages : messages[j].pc # "written"
      BY <3>1 DEF OwesEvent
    <3> QED
      BY <1>1, <1>5, <1>6, <2>2, <3>2 DEF ShownInv
  <2> QED
    BY <2>3, <2>4
<1>10. KeptInv'
  <2>1. SUFFICES ASSUME ~overwritten' PROVE KeptInv'
    BY DEF KeptInv
  <2>2. ~overwritten /\ ~WritesOld(i)
    BY <2>1, Recall
  <2>3. seen = row
    BY <1>6, <2>2 DEF WritesOld, seen
  <2>4. /\ row.truncated => row'.truncated
        /\ row'.truncated \/ Stored(body, i, row')
        /\ \A j, b : Stored(b, j, row) => Stored(b, j, row')
    BY <1>3, <1>4, <2>3, WriteStores
  <2> QED
    BY <1>6, <2>2, <2>4 DEF LaterInv, KeptInv
<1> QED
  BY <1>7, <1>8, <1>9, <1>10 DEF LaterInv

\* Every step of a handler.
LEMMA HandleLater ==
    ASSUME IInv, LaterInv, Remember, NEW i \in DOMAIN messages, Handle(i) PROVE LaterInv'
<1>0. /\ TypeOK /\ messages[i].body \in Bodies /\ i \in Nat
      /\ pc \notin {"idle", "audit"}
  <2>1. TypeOK /\ messages[i] \in Message /\ i \in Nat
    BY DEF IInv, TypeOK
  <2>2. pc \notin {"idle", "audit"}
    BY DEF LaterInv, BeginInv
  <2> QED
    BY <2>1, <2>2 DEF Message
<1>1. CASE Receive(i) \/ HandleRead(i)
  <2>1. /\ \A j \in DOMAIN messages :
                /\ messages'[j].pc \in {"written", "handled"} <=>
                        messages[j].pc \in {"written", "handled"}
                /\ messages'[j].pc = "written" <=> messages[j].pc = "written"
                /\ messages'[j].body = messages[j].body
                /\ messages'[j].pc = "read" =>
                        \/ messages[j].pc = "read" /\ messages'[j].seen = messages[j].seen
                        \/ messages'[j].seen = row /\ ~Ended
        /\ DOMAIN messages' = DOMAIN messages
        /\ UNCHANGED <<pc, row, timer, shown>>
    <3>1. CASE Receive(i)
      BY <1>0, <3>1, MoveFacts DEF Receive, OneMoves
    <3>2. CASE HandleRead(i)
      BY <1>0, <3>2, ReadFacts, Zenon DEF OneMoves
    <3> QED
      BY <1>1, <3>1, <3>2
  <2>2. (~reopened' => ~reopened) /\ (~muddled' => ~muddled) /\ (~overwritten' => ~overwritten)
    BY <2>1, Recall
  <2>3. BeginInv'
    BY <1>0, <2>1 DEF LaterInv, BeginInv, Ended
  <2>4. GuardInv'
    BY <2>1, <2>2 DEF LaterInv, GuardInv, TimerGuards, Ended
  <2>5. OwesEvent' <=> OwesEvent
    BY <2>1 DEF OwesEvent
  <2>6. ShownInv'
    BY <2>1, <2>2, <2>5 DEF LaterInv, ShownInv
  <2>7. KeptInv'
    BY <2>1, <2>2 DEF LaterInv, KeptInv
  <2> QED
    BY <2>3, <2>4, <2>6, <2>7 DEF LaterInv
<1>2. CASE HandleWrite(i)
  BY <1>0, <1>2, WriteLater
<1>3. CASE HandlePublish(i)
  <2>1. /\ OneMoves(i, "written", "handled") /\ UNCHANGED <<pc, row>>
        /\ messages'[i].seen = messages[i].seen
        /\ shown' = Status(messages[i].body)
        /\ timer' = timer \/ (timer = "armed" /\ timer' = "none"
                                /\ Status(messages[i].body) \in Terminal)
    BY <1>0, <1>3, MoveFacts DEF HandlePublish, Cleared
  <2>2. /\ \A j \in DOMAIN messages :
                /\ messages'[j].pc \in {"written", "handled"} =>
                        messages[j].pc \in {"written", "handled"}
                /\ messages'[j].pc = "written" => messages[j].pc = "written"
                /\ messages'[j].body = messages[j].body
                /\ messages'[j].pc = "read" =>
                        messages[j].pc = "read" /\ messages'[j].seen = messages[j].seen
        /\ DOMAIN messages' = DOMAIN messages /\ messages[i].pc = "written"
    BY <2>1 DEF OneMoves
  <2>3. (~reopened' => ~reopened) /\ (~muddled' => ~muddled) /\ (~overwritten' => ~overwritten)
    BY <2>1, Recall
  <2>4. BeginInv'
    BY <1>0, <2>1, <2>2 DEF LaterInv, BeginInv
  <2>5. GuardInv'
    <3>1. ~reopened /\ Status(messages[i].body) \in Terminal => row.status \notin Open
      BY <2>2 DEF LaterInv, GuardInv, Ended, Open, Terminal
    <3>2. TimerGuards'
      BY <2>1, <2>3, <3>1 DEF LaterInv, GuardInv, TimerGuards
    <3> QED
      BY <2>1, <2>2, <2>3, <3>2 DEF LaterInv, GuardInv, Ended
  <2>6. ShownInv'
    BY <2>1, <2>2, <2>3 DEF LaterInv, ShownInv
  <2>7. KeptInv'
    BY <2>1, <2>2, <2>3 DEF LaterInv, KeptInv
  <2> QED
    BY <2>4, <2>5, <2>6, <2>7 DEF LaterInv
<1> QED
  BY <1>1, <1>2, <1>3 DEF Handle

LEMMA InitLater == Init => LaterInv
<1> SUFFICES ASSUME Init PROVE LaterInv
  OBVIOUS
<1>1. /\ pc = "idle" /\ messages = <<>> /\ timer = "none" /\ request = "none"
      /\ row.status = "absent" /\ shown = "absent"
  BY DEF Init, NoRow, Queued
<1> QED
  BY <1>1 DEF LaterInv, BeginInv, GuardInv, TimerGuards, ShownInv, KeptInv, Open

LEMMA NextLater ==
    IInv /\ LaterInv /\ [Next]_vars => LaterInv'
<1> SUFFICES ASSUME IInv, LaterInv, [Next]_vars PROVE LaterInv'
  OBVIOUS
<1>1. CASE UNCHANGED vars
  BY <1>1 DEF vars, program, LaterInv, BeginInv, GuardInv, TimerGuards, ShownInv, OwesEvent,
     KeptInv, Stored, Ended
<1>2. CASE Step /\ Remember
  <2>1. CASE ApiStep
    BY <1>2, <2>1, ApiBegins, ApiGuards, ApiShows, ApiStores DEF LaterInv
  <2> QED
    BY <1>2, <2>1, AgentLater, RestartLater, HandleLater DEF Step, ApiStep, Environment
<1> QED
  BY <1>1, <1>2 DEF Next

THEOREM Later == Spec => []LaterInv
BY InitLater, NextLater, Inductive, PTL DEF Spec

-----------------------------------------------------------------------------
(* The theorems about verdicts, timers, events and lost output *)

\* A verdict is changed by a failed dispatch, or by a handler that had read the
\* row before there was one, and by nothing else (commands.ts, line 425).
THEOREM VerdictsAreFinal == Spec => VerdictFinal
<1> DEFINE Excused ==
        \/ pc = "failing" /\ pc' = "telling"
        \/ \E i \in DOMAIN messages :
                /\ messages[i].pc = "read" /\ messages'[i].pc = "written"
                /\ messages[i].seen.status \notin Terminal
<1>1. IInv /\ LaterInv /\ [Next]_vars => [Ended => row'.status = row.status \/ Excused]_vars
  <2> SUFFICES ASSUME IInv, LaterInv, Step, Ended, ~Excused PROVE row'.status = row.status
    BY DEF Next
  <2>1. CASE ApiStep
    <3>1. ~EnqueueCreate /\ ~DispatchFailed /\ row.status \notin Open
      BY DEF EnqueueCreate, DispatchFailed, LaterInv, BeginInv, Ended, Terminal, Open
    <3> QED
      BY <2>1, <3>1, ApiRow
  <2>2. ASSUME NEW i \in DOMAIN messages, Handle(i) PROVE row' = row
    <3>1. ~HandleWrite(i)
      <4> SUFFICES ASSUME HandleWrite(i) PROVE FALSE
        OBVIOUS
      <4>1. OneMoves(i, "read", "written")
        BY MoveFacts DEF HandleWrite, IInv
      <4> QED
        BY <4>1 DEF OneMoves, LaterInv, BeginInv
    <3> QED
      BY <2>2, <3>1 DEF Handle, Receive, HandleRead, HandlePublish
  <2>3. CASE Agent \/ Environment
    BY <2>3 DEF Agent, TakeRequest, AgentStops, Output, Respond, Environment, Disconnect,
       Reconnect, Restart
  <2> QED
    BY <2>1, <2>2, <2>3 DEF Step, ApiStep
<1> QED
  BY <1>1, Inductive, Later, PTL DEF Spec, VerdictFinal

\* From the dispatch on an open command has a timer or a failing request that
\* will end it, up to a crash, a failed statement and a reopening handler
\* (commands.ts, commandTimers).
THEOREM TimersGuard == Spec => []TimerGuards
<1>1. LaterInv => TimerGuards
  BY DEF LaterInv, GuardInv
<1> QED
  BY <1>1, Later, PTL

\* When no event is due, the last command_status event tells the stored status,
\* unless the status changed while another event was due or one was lost
\* (commands.ts, publishSse).
THEOREM ShownStatusIsStored == Spec => []ShownIsStored
<1>1. LaterInv => ShownIsStored
  BY DEF LaterInv, ShownInv, ShownIsStored
<1> QED
  BY <1>1, Later, PTL

\* No text a handler wrote leaves the output, up to the limit, unless an older
\* copy of the row was written over it or the dispatch failed (commands.ts,
\* lines 477-502).
THEOREM OutputIsKept == Spec => []OutputKept
<1>1. LaterInv => OutputKept
  BY DEF LaterInv, KeptInv, Stored, Holds, OutputKept
<1> QED
  BY <1>1, Later, PTL
=============================================================================
