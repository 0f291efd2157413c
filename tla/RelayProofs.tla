----------------------------- MODULE RelayProofs -----------------------------
(***************************************************************************)
(* The relay for any number of frames, connections and activities, and any *)
(* length of the buffer: no socket gets a frame twice, whatever overlaps;  *)
(* a deactivation stays in force; and, as long as nothing overlaps, the    *)
(* relay is a link that keeps the order (FrameLink).                       *)
(*                                                                         *)
(* A frame is in one place at a time: until its handler is done it is      *)
(* neither buffered nor on a socket (FramesOK), and a socket whose replay  *)
(* is still to send the buffer has none of it.  While nothing overlaps, a  *)
(* frame is only relayed to a connected agent whose replay is done, when   *)
(* the buffer is empty (AloneOK).                                          *)
(*                                                                         *)
(* The second part is about what the datagrams and messages hold, for all  *)
(* identifiers, texts and payloads: FramesInv says that a frame's message  *)
(* is that of the request or of the bus, and its datagram that of the      *)
(* message; the lemmas that carry it say that every encoder is undone by   *)
(* its decoder, and that what lost its end is refused.  MsgInv adds the    *)
(* same of the requests that a dongle answers (AskInv), of announcements   *)
(* (AnnounceInv), and that every datagram fits (TypesInv).                 *)
(***************************************************************************)
EXTENDS Relay, Codecs, SequenceTheorems, WellFoundedInduction, TLAPS

Distinct(s) == \A i, j \in 1 .. Len(s) : s[i] = s[j] => i = j

SocketsOK ==
  /\ live <= opened /\ sock <= opened /\ \A s \in broken : s <= opened
  /\ live # 0 => sock = live /\ live \notin broken
  /\ dialing => live = 0 /\ opened < MaxSockets
  /\ live = 0 => wire = <<>>
  /\ \A s \in Sockets : s > opened => replay[s] = "none"

FramesOK ==
  /\ \A f \in Frames : f > arrived => pc[f] = "new"
  /\ \A f \in Range(got \o wire) \cup Range(buffer) : pc[f] = "done"
  /\ Distinct(got \o wire) /\ Distinct(buffer)
  /\ live # 0 /\ replay[live] \in {"load", "range"} =>
       Range(got \o wire) \cap Range(buffer) = {}

FinalOK == final => mode = "INACTIVE" /\ ~Decided(marks, pc)

Underway(f) == pc[f] \in {"find", "relay", "add"}
AloneOK ==
  ~overlap /\ live # 0 =>
    /\ \A s \in Sockets : replay[s] # "none" => s = live
    /\ \A f \in Frames : pc[f] # "add"
    /\ (\E f \in Frames : Underway(f)) => replay[live] = "none"
    /\ replay[live] = "none" => buffer = <<>>

IInv == TypeOK /\ SocketsOK /\ FramesOK /\ FinalOK /\ AloneOK
-----------------------------------------------------------------------------
(* Sequences: what they hold, and that it is held once *)

LEMMA ConcatFacts ==
  ASSUME NEW S, NEW s \in Seq(S), NEW t \in Seq(S)
  PROVE  /\ s \o t \in Seq(S)
         /\ Range(s \o t) = Range(s) \cup Range(t)
         /\ Distinct(s) /\ Distinct(t) /\ Range(s) \cap Range(t) = {} => Distinct(s \o t)
<1>1. /\ s \o t \in Seq(S) /\ Len(s) \in Nat /\ Len(t) \in Nat
      /\ Len(s \o t) = Len(s) + Len(t)
      /\ DOMAIN s = 1 .. Len(s) /\ DOMAIN t = 1 .. Len(t)
      /\ DOMAIN (s \o t) = 1 .. Len(s) + Len(t)
  BY ConcatProperties, LenProperties
<1>2. \A i \in 1 .. Len(s) + Len(t) :
        (s \o t)[i] = IF i <= Len(s) THEN s[i] ELSE t[i - Len(s)]
  BY ConcatProperties
<1>3. \A i \in 1 .. Len(s) : i \in 1 .. Len(s) + Len(t) /\ (s \o t)[i] = s[i]
  BY <1>1, <1>2
<1>4. \A i \in 1 .. Len(t) :
        i + Len(s) \in 1 .. Len(s) + Len(t) /\ (s \o t)[i + Len(s)] = t[i]
  BY <1>1, <1>2
<1>5. \A i \in 1 .. Len(s) + Len(t) :
        i \in 1 .. Len(s) \/ (i - Len(s) \in 1 .. Len(t) /\ i = (i - Len(s)) + Len(s))
  BY <1>1
<1> DEFINE u == s \o t
<1>6. Range(u) = Range(s) \cup Range(t)
  <2>1. \A x \in Range(s) \cup Range(t) : x \in Range(u)
    BY <1>1, <1>3, <1>4 DEF Range
  <2>2. ASSUME NEW i \in 1 .. Len(s) + Len(t) PROVE u[i] \in Range(s) \cup Range(t)
    <3>1. CASE i \in 1 .. Len(s)
      BY <1>1, <1>3, <3>1 DEF Range
    <3>2. CASE i - Len(s) \in 1 .. Len(t) /\ i = (i - Len(s)) + Len(s)
      <4>1. u[i] = t[i - Len(s)]
        BY <1>4, <3>2
      <4> QED
        BY <1>1, <3>2, <4>1 DEF Range
    <3> QED
      BY <1>5, <3>1, <3>2
  <2> QED
    BY <1>1, <2>1, <2>2 DEF Range
<1>7. ASSUME Distinct(s), Distinct(t), Range(s) \cap Range(t) = {},
             NEW i \in 1 .. Len(s) + Len(t), NEW j \in 1 .. Len(s) + Len(t), u[i] = u[j]
      PROVE  i = j
  <2>1. \A k \in 1 .. Len(s), l \in 1 .. Len(t) : s[k] # t[l]
    BY <1>1, <1>7 DEF Range
  <2>2. /\ i <= Len(s) => i \in 1 .. Len(s) /\ u[i] = s[i]
        /\ ~(i <= Len(s)) => i - Len(s) \in 1 .. Len(t) /\ u[i] = t[i - Len(s)]
        /\ j <= Len(s) => j \in 1 .. Len(s) /\ u[j] = s[j]
        /\ ~(j <= Len(s)) => j - Len(s) \in 1 .. Len(t) /\ u[j] = t[j - Len(s)]
    BY <1>1, <1>2
  <2> HIDE DEF u
  <2>3. CASE i <= Len(s) /\ j <= Len(s)
    BY <1>7, <2>2, <2>3 DEF Distinct
  <2>4. CASE ~(i <= Len(s)) /\ ~(j <= Len(s))
    <3>1. i - Len(s) = j - Len(s)
      BY <1>7, <2>2, <2>4 DEF Distinct
    <3> QED
      BY <1>1, <3>1
  <2> QED
    BY <1>7, <2>1, <2>2, <2>3, <2>4
<1> QED
  BY <1>1, <1>6, <1>7 DEF Distinct

LEMMA AppendFacts ==
  ASSUME NEW S, NEW s \in Seq(S), NEW e \in S
  PROVE  /\ Append(s, e) \in Seq(S)
         /\ Range(Append(s, e)) = Range(s) \cup {e}
         /\ Distinct(s) /\ e \notin Range(s) => Distinct(Append(s, e))
<1>1. PICK o \in Seq(S) : o = <<e>>
  <2>1. <<e>> \in Seq(S)
    OBVIOUS
  <2> QED
    BY <2>1, Zenon
<1>2. Range(o) = {e} /\ Distinct(o)
  <2>1. Len(o) = 1 /\ DOMAIN o = {1} /\ o[1] = e
    BY <1>1
  <2> QED
    BY <2>1 DEF Range, Distinct
<1>3. Append(s, e) = s \o o
  BY <1>1, AppendIsConcat
<1>4. /\ s \o o \in Seq(S) /\ Range(s \o o) = Range(s) \cup Range(o)
      /\ Distinct(s) /\ Distinct(o) /\ Range(s) \cap Range(o) = {} => Distinct(s \o o)
  BY ConcatFacts
<1> QED
  BY <1>2, <1>3, <1>4, Zenon

LEMMA TailFacts ==
  ASSUME NEW S, NEW s \in Seq(S), s # <<>>
  PROVE  /\ Tail(s) \in Seq(S) /\ Head(s) \in S
         /\ Range(Tail(s)) \subseteq Range(s)
         /\ Distinct(s) => Distinct(Tail(s))
<1>1. /\ Tail(s) \in Seq(S) /\ Head(s) \in S /\ Len(s) \in Nat /\ Len(Tail(s)) = Len(s) - 1
      /\ \A i \in 1 .. Len(Tail(s)) : Tail(s)[i] = s[i + 1]
      /\ DOMAIN s = 1 .. Len(s) /\ DOMAIN Tail(s) = 1 .. Len(Tail(s))
  BY HeadTailProperties, LenProperties
<1>2. \A i \in 1 .. Len(Tail(s)) : i + 1 \in 1 .. Len(s) /\ i \in Nat
  BY <1>1
<1>3. Range(Tail(s)) \subseteq Range(s)
  BY <1>1, <1>2 DEF Range
<1>4. ASSUME Distinct(s), NEW i \in 1 .. Len(Tail(s)), NEW j \in 1 .. Len(Tail(s)),
             Tail(s)[i] = Tail(s)[j]
      PROVE  i = j
  <2>1. i + 1 = j + 1
    BY <1>1, <1>2, <1>4 DEF Distinct
  <2> QED
    BY <1>2, <2>1
<1> QED
  BY <1>1, <1>3, <1>4 DEF Distinct

\* What is left when the oldest are dropped.
LEMMA SuffixFacts ==
  ASSUME NEW S, NEW s \in Seq(S), NEW n \in 0 .. Len(s)
  PROVE  /\ SubSeq(s, n + 1, Len(s)) \in Seq(S)
         /\ Range(SubSeq(s, n + 1, Len(s))) \subseteq Range(s)
         /\ Distinct(s) => Distinct(SubSeq(s, n + 1, Len(s)))
<1>1. PICK l \in Nat : l = Len(s)
  BY LenProperties
<1>2. PICK k \in Nat : k = n + 1 /\ k >= 1 /\ k <= l + 1 /\ n = k - 1
  BY <1>1
<1>3. /\ DOMAIN s = 1 .. l /\ \A i \in 1 .. l : s[i] \in S
      /\ \A i \in k .. l : i \in 1 .. l
  BY <1>1, <1>2, LenProperties, ElementOfSeq
<1>4. PICK r : r = SubSeq(s, k, l)
  OBVIOUS
<1>5. /\ r \in Seq(S) /\ Len(r) = (IF k <= l THEN l - k + 1 ELSE 0)
      /\ \A i \in 1 .. l - k + 1 : r[i] = s[k + i - 1]
  BY <1>2, <1>3, <1>4, SubSeqProperties
<1>6. Len(r) = l - k + 1
  BY <1>2, <1>5
<1>7. DOMAIN r = 1 .. l - k + 1
  BY <1>5, <1>6, LenProperties
<1>8. ASSUME NEW i \in 1 .. l - k + 1
      PROVE  k + i - 1 \in 1 .. l /\ i \in Int
  BY <1>2
<1>9. Range(r) \subseteq Range(s)
  BY <1>3, <1>5, <1>7, <1>8 DEF Range
<1>10. ASSUME Distinct(s), NEW i \in 1 .. l - k + 1, NEW j \in 1 .. l - k + 1, r[i] = r[j]
       PROVE  i = j
  <2>1. k + i - 1 = k + j - 1
    BY <1>1, <1>5, <1>8, <1>10 DEF Distinct
  <2> QED
    BY <1>2, <1>8, <2>1
<1>11. Distinct(s) => Distinct(r)
  BY <1>6, <1>10 DEF Distinct
<1> QED
  BY <1>1, <1>2, <1>4, <1>5, <1>9, <1>11

\* Nothing is dropped.
LEMMA WholeSeq ==
  ASSUME NEW S, NEW s \in Seq(S)
  PROVE  SubSeq(s, 0 + 1, Len(s)) = s
<1>1. Len(s) \in Nat /\ \A i \in 1 .. Len(s) : s[i] \in S
  BY LenProperties, ElementOfSeq
<1>2. PICK r : r = SubSeq(s, 1, Len(s))
  OBVIOUS
<1>3. /\ r \in Seq(S)
      /\ Len(r) = IF 1 <= Len(s) THEN Len(s) - 1 + 1 ELSE 0
      /\ \A i \in 1 .. Len(s) - 1 + 1 : r[i] = s[1 + i - 1]
  BY <1>1, <1>2, SubSeqProperties
<1>4. Len(r) = Len(s) /\ \A i \in 1 .. Len(s) : r[i] = s[i]
  BY <1>1, <1>3
<1>5. r = s
  BY <1>3, <1>4, SeqEqual
<1> QED
  BY <1>2, <1>5

\* What is received moves from the wire to what was got.
LEMMA TakeKeeps ==
  ASSUME NEW S, NEW s \in Seq(S), NEW t \in Seq(S), t # <<>>
  PROVE  Append(s, Head(t)) \o Tail(t) = s \o t
<1>1. Head(t) \in S /\ Tail(t) \in Seq(S) /\ <<Head(t)>> \in Seq(S)
  BY HeadTailProperties
<1>2. Append(s, Head(t)) = s \o <<Head(t)>>
  BY <1>1, AppendIsConcat
<1>3. <<Head(t)>> \o Tail(t) = t
  BY ConcatProperties, HeadTailProperties, SeqEqual
<1> QED
  BY <1>1, <1>2, <1>3, ConcatAssociative

LEMMA AppendInside ==
  ASSUME NEW S, NEW s \in Seq(S), NEW t \in Seq(S), NEW e \in S
  PROVE  s \o Append(t, e) = Append(s \o t, e)
<1>1. <<e>> \in Seq(S) /\ s \o t \in Seq(S)
  BY ConcatProperties
<1> QED
  BY <1>1, AppendIsConcat, ConcatAssociative
-----------------------------------------------------------------------------
(* The initial state, types and sockets *)

LEMMA InitIInv == Init => IInv
<1> SUFFICES ASSUME Init PROVE IInv
  OBVIOUS
<1>1. got \o wire = <<>> /\ Range(<<>>) = {} /\ Distinct(<<>>) /\ <<>> \in Seq(Frames)
  BY DEF Init, Range, Distinct
<1>2. TypeOK
  <2>1. buffer = <<>> /\ wire = <<>> /\ got = <<>> /\ received = <<>>
    BY DEF Init
  <2>2. marks \in [Steps -> Nat] /\ mode \in Modes
    BY DEF Init, Modes
  <2>3. /\ pc \in [Frames -> {"new", "find", "relay", "add", "done"}]
        /\ replay \in [Sockets -> {"none", "load", "range", "del"}]
    BY DEF Init
  <2>4. /\ arrived \in 0 .. MaxFrames /\ switches \in Nat
        /\ sock \in 0 .. MaxSockets /\ live \in 0 .. MaxSockets
        /\ broken \subseteq Sockets /\ opened \in 0 .. MaxSockets
    BY RelayAssumption DEF Init
  <2>5. aUp \in BOOLEAN /\ dialing \in BOOLEAN /\ overlap \in BOOLEAN /\ final \in BOOLEAN
    BY DEF Init
  <2> QED
    BY <1>1, <2>1, <2>2, <2>3, <2>4, <2>5 DEF TypeOK
<1>3. SocketsOK
  BY DEF Init, SocketsOK
<1>4. FramesOK
  BY <1>1 DEF Init, FramesOK
<1>5. FinalOK
  BY DEF Init, FinalOK, Decided
<1>6. AloneOK
  BY DEF Init, AloneOK
<1> QED
  BY <1>2, <1>3, <1>4, <1>5, <1>6 DEF IInv

LEMMA StepsFacts ==
  /\ <<"load">> \in Steps /\ <<"compute">> \in Steps /\ <<"load">> # <<"compute">>
  /\ \A m \in {"ACTIVE", "DEGRADED"} :
       <<"read", m>> \in Steps /\ <<"write", m>> \in Steps
       /\ <<"read", m>> # <<"load">> /\ <<"write", m>> # <<"load">>
BY DEF Steps

\* An activity begins, goes on or ends: the others stay where they are.
LEMMA MarksFacts ==
  ASSUME marks \in [Steps -> Nat], NEW s \in Steps, NEW t \in Steps
  PROVE  /\ Begin(s) => /\ marks' \in [Steps -> Nat]
                        /\ \A u \in Steps : u # s => marks'[u] = marks[u]
         /\ marks[s] > 0 /\ End(s) =>
              /\ marks' \in [Steps -> Nat]
              /\ \A u \in Steps : u # s => marks'[u] = marks[u]
         /\ marks[s] > 0 /\ s # t /\ Go(s, t) =>
              /\ marks' \in [Steps -> Nat]
              /\ \A u \in Steps : u \notin {s, t} => marks'[u] = marks[u]
<1>1. Begin(s) => /\ marks' \in [Steps -> Nat]
                  /\ \A u \in Steps : u # s => marks'[u] = marks[u]
  BY DEF Begin
<1>2. marks[s] > 0 /\ End(s) => /\ marks' \in [Steps -> Nat]
                                /\ \A u \in Steps : u # s => marks'[u] = marks[u]
  BY DEF End
<1>3. ASSUME marks[s] > 0, s # t, Go(s, t)
      PROVE  /\ marks' \in [Steps -> Nat]
             /\ \A u \in Steps : u \notin {s, t} => marks'[u] = marks[u]
  <2>1. marks' = [u \in Steps |-> marks[u] - One(s)[u] + One(t)[u]]
    BY <1>3 DEF Go
  <2>2. \A u \in Steps : One(s)[u] = (IF u = s THEN 1 ELSE 0)
                         /\ One(t)[u] = (IF u = t THEN 1 ELSE 0)
    BY DEF One
  <2>3. \A u \in Steps : marks'[u] \in Nat /\ (u \notin {s, t} => marks'[u] = marks[u])
    <3> TAKE u \in Steps
    <3>1. marks'[u] = marks[u] - (IF u = s THEN 1 ELSE 0) + (IF u = t THEN 1 ELSE 0)
      BY <2>1, <2>2
    <3>2. marks[u] \in Nat /\ marks[s] \in Nat
      OBVIOUS
    <3> QED
      BY <1>3, <3>1, <3>2
  <2> QED
    BY <2>1, <2>3
<1> QED
  BY <1>1, <1>2, <1>3

\* Steps of the activities that set the mode.
LEMMA MarkStepFacts ==
  ASSUME TypeOK, MarkStep
  PROVE  /\ marks' \in [Steps -> Nat] /\ mode' \in Modes
         /\ UNCHANGED <<delivery, links, owner>>
<1>0. marks \in [Steps -> Nat] /\ mode \in Modes
  BY DEF TypeOK
<1>1. CASE LoadGroup
  BY <1>0, <1>1, StepsFacts, MarksFacts DEF LoadGroup
<1>2. CASE Compute
  <2>1. PICK m \in {"ACTIVE", "DEGRADED"} : Go(<<"compute">>, <<"read", m>>)
    BY <1>2 DEF Compute
  <2>2. <<"compute">> # <<"read", m>>
    OBVIOUS
  <2> QED
    BY <1>0, <1>2, <2>1, <2>2, StepsFacts, MarksFacts DEF Compute
<1>3. ASSUME NEW m \in {"ACTIVE", "DEGRADED"}, ReadMode(m)
      PROVE  marks' \in [Steps -> Nat] /\ UNCHANGED <<mode, delivery, links, owner>>
  <2>1. <<"read", m>> # <<"write", m>>
    OBVIOUS
  <2> QED
    BY <1>0, <1>3, <2>1, StepsFacts, MarksFacts DEF ReadMode
<1>4. ASSUME NEW m \in {"ACTIVE", "DEGRADED"}, WriteMode(m)
      PROVE  marks' \in [Steps -> Nat] /\ mode' \in Modes
             /\ UNCHANGED <<delivery, links, owner>>
  BY <1>0, <1>4, StepsFacts, MarksFacts DEF WriteMode, Modes
<1> QED
  BY <1>0, <1>1, <1>2, <1>3, <1>4 DEF MarkStep

LEMMA TypesKeep ==
  ASSUME TypeOK, SocketsOK, Next
  PROVE  TypeOK'
<1>0. /\ marks \in [Steps -> Nat] /\ <<"load">> \in Steps
      /\ \A m \in {"ACTIVE", "DEGRADED"} : <<"read", m>> \in Steps
  BY StepsFacts DEF TypeOK
<1>1. ASSUME NEW s \in Steps, Begin(s) PROVE marks' \in [Steps -> Nat]
  BY <1>0, <1>1, MarksFacts
<1> USE DEF delivery, links, owner
<1>2. CASE Activate \/ Deactivate
  <2>1. final' \in BOOLEAN
    BY <1>2 DEF Activate, Deactivate, Decided
  <2>2. /\ mode' \in Modes /\ switches' = switches + 1
        /\ UNCHANGED <<marks, delivery, links>>
    BY <1>2 DEF Activate, Deactivate, Modes
  <2> QED
    BY <2>1, <2>2 DEF TypeOK
<1>3. CASE SwitchA
  BY <1>0, <1>1, <1>3, SMTT(30) DEF SwitchA, TypeOK
<1>4. CASE Dial \/ Refuse
  BY <1>4 DEF Dial, Refuse, TypeOK
<1>5. CASE Accept
  <2>1. marks' \in [Steps -> Nat]
    BY <1>0, <1>1, <1>5 DEF Accept
  <2>2. opened + 1 \in Sockets /\ opened + 1 \in 0 .. MaxSockets
    BY <1>5, RelayAssumption DEF Accept, SocketsOK, TypeOK, Sockets
  <2>3. <<>> \in Seq(Frames) /\ overlap' \in BOOLEAN
    BY <1>5 DEF Accept, Busy
  <2> QED
    BY <1>5, <2>1, <2>2, <2>3 DEF Accept, TypeOK
<1>6. CASE Break
  <2>1. live \in Sockets /\ <<>> \in Seq(Frames) /\ 0 \in 0 .. MaxSockets
    BY <1>6, RelayAssumption DEF Break, TypeOK, Sockets
  <2> QED
    BY <1>6, <2>1 DEF Break, TypeOK
<1>7. CASE Receive
  <2>1. /\ Head(wire) \in Frames /\ Tail(wire) \in Seq(Frames)
        /\ Append(got, Head(wire)) \in Seq(Frames)
        /\ Append(received, Head(wire)) \in Seq(Frames)
    BY <1>7, TailFacts, AppendFacts DEF Receive, TypeOK
  <2> QED
    BY <1>7, <2>1 DEF Receive, TypeOK
<1>8. CASE Arrive
  <2>1. arrived + 1 \in 0 .. MaxFrames /\ overlap' \in BOOLEAN
    BY <1>8, RelayAssumption DEF Arrive, TypeOK, Busy
  <2> QED
    BY <1>8, <2>1 DEF Arrive, TypeOK
<1>13. CASE Restart
  <2>1. pc' = [f \in Frames |-> IF pc[f] = "new" THEN "new" ELSE "done"]
        /\ replay' = [s \in Sockets |-> "none"] /\ marks' = [s \in Steps |-> 0]
    BY <1>13 DEF Restart
  <2>2. pc' \in [Frames -> {"new", "find", "relay", "add", "done"}]
        /\ replay' \in [Sockets -> {"none", "load", "range", "del"}]
        /\ marks' \in [Steps -> Nat]
    BY <2>1
  <2>3. <<>> \in Seq(Frames) /\ 0 \in 0 .. MaxSockets /\ {} \subseteq Sockets
    BY RelayAssumption
  <2>4. /\ aUp' \in BOOLEAN /\ dialing' \in BOOLEAN /\ sock' = 0 /\ live' = 0
        /\ broken' = {} /\ wire' = <<>> /\ switches' = switches + 1
        /\ UNCHANGED <<mode, arrived, buffer, got, received, overlap, opened, final>>
    BY <1>13 DEF Restart
  <2> QED
    BY <2>2, <2>3, <2>4 DEF TypeOK
<1>9. ASSUME NEW s \in Sockets, Close(s) PROVE TypeOK'
  <2>1. marks' \in [Steps -> Nat] /\ 0 \in 0 .. MaxSockets
    BY <1>0, <1>1, <1>9, RelayAssumption DEF Close
  <2> QED
    BY <1>9, <2>1 DEF Close, TypeOK
<1>10. ASSUME NEW s \in Sockets, ReplayStep(s) PROVE TypeOK'
  <2>1. wire \o buffer \in Seq(Frames) /\ <<>> \in Seq(Frames)
    BY ConcatFacts DEF TypeOK
  <2>2. CASE Load(s)
    BY <2>2 DEF Load, TypeOK
  <2>3. CASE Replay(s)
    BY <2>1, <2>3 DEF Replay, TypeOK
  <2>4. CASE Del(s)
    BY <2>1, <2>4 DEF Del, TypeOK
  <2> QED
    BY <1>10, <2>2, <2>3, <2>4 DEF ReplayStep
<1>11. ASSUME NEW f \in Frames, FrameStep(f) PROVE TypeOK'
  <2>1. CASE Find(f) \/ Miss(f)
    BY <2>1 DEF Find, Miss, TypeOK
  <2>2. CASE Send(f)
    <3>1. marks' \in [Steps -> Nat] /\ Append(wire, f) \in Seq(Frames)
      BY <1>0, <1>1, <2>2, AppendFacts DEF Send, TypeOK
    <3> QED
      BY <2>2, <3>1 DEF Send, TypeOK
  <2>3. CASE Add(f)
    <3>1. marks' \in [Steps -> Nat]
      BY <1>0, <1>1, <2>3 DEF Add
    <3>2. PICK n \in 0 .. Len(buffer) : buffer' = Append(SubSeq(buffer, n + 1, Len(buffer)), f)
      BY <2>3 DEF Add
    <3>4. SubSeq(buffer, n + 1, Len(buffer)) \in Seq(Frames)
      BY SuffixFacts DEF TypeOK
    <3>5. buffer' \in Seq(Frames)
      BY <3>2, <3>4, AppendFacts
    <3> QED
      BY <2>3, <3>1, <3>5 DEF Add, TypeOK
  <2> QED
    BY <1>11, <2>1, <2>2, <2>3 DEF FrameStep
<1>12. CASE MarkStep
  BY <1>12, MarkStepFacts DEF TypeOK
<1> QED
  BY <1>2, <1>3, <1>4, <1>5, <1>6, <1>7, <1>8, <1>9, <1>10, <1>11, <1>12, <1>13 DEF Next

LEMMA SocketsKeep ==
  ASSUME TypeOK, SocketsOK, Next
  PROVE  SocketsOK'
<1>0. /\ opened \in Nat /\ live \in Nat /\ sock \in Nat /\ Sockets \subseteq Nat \ {0}
      /\ replay \in [Sockets -> {"none", "load", "range", "del"}]
  BY DEF TypeOK, Sockets
<1> USE DEF delivery, links, owner
<1>1. CASE Activate \/ Deactivate \/ SwitchA \/ MarkStep
  <2>1. UNCHANGED <<live, opened, sock, broken, dialing, wire, replay>>
    BY <1>1, MarkStepFacts DEF Activate, Deactivate, SwitchA
  <2> QED
    BY <2>1 DEF SocketsOK
<1>2. CASE Dial \/ Refuse
  BY <1>2 DEF Dial, Refuse, SocketsOK
<1>3. CASE Accept
  <2>1. opened + 1 \notin broken /\ live = 0 /\ wire = <<>>
    BY <1>0, <1>3 DEF Accept, SocketsOK, TypeOK
  <2>2. /\ live' = opened + 1 /\ sock' = opened + 1 /\ opened' = opened + 1
        /\ ~dialing' /\ broken' = broken /\ wire' = wire
        /\ replay' = [replay EXCEPT ![opened + 1] = "load"]
    BY <1>3 DEF Accept
  <2>3. \A s \in Sockets : s > opened' => replay'[s] = "none"
    BY <1>0, <2>2 DEF SocketsOK
  <2>4. \A s \in broken' : s <= opened'
    BY <1>0, <2>2 DEF SocketsOK, TypeOK
  <2> QED
    BY <1>0, <2>1, <2>2, <2>3, <2>4 DEF SocketsOK
<1>4. CASE Break
  BY <1>0, <1>4 DEF Break, SocketsOK
<1>5. CASE Receive
  BY <1>5 DEF Receive, SocketsOK
<1>6. CASE Arrive
  BY <1>6 DEF Arrive, SocketsOK
<1>10. CASE Restart
  <2>1. /\ live' = 0 /\ sock' = 0 /\ broken' = {} /\ ~dialing' /\ wire' = <<>>
        /\ opened' = opened /\ replay' = [s \in Sockets |-> "none"]
    BY <1>10 DEF Restart
  <2> QED
    BY <1>0, <2>1 DEF SocketsOK
<1>7. ASSUME NEW s \in Sockets, Close(s) PROVE SocketsOK'
  BY <1>0, <1>7 DEF Close, SocketsOK
<1>8. ASSUME NEW s \in Sockets, ReplayStep(s) PROVE SocketsOK'
  <2>1. replay[s] # "none" /\ replay' = [replay EXCEPT ![s] = replay'[s]]
        /\ UNCHANGED <<live, opened, sock, broken, dialing>>
    BY <1>0, <1>8 DEF ReplayStep, Load, Replay, Del
  <2>2. ~(s > opened)
    BY <2>1 DEF SocketsOK
  <2>3. wire' = wire \/ live = s
    BY <1>8 DEF ReplayStep, Load, Replay, Del
  <2> QED
    BY <1>0, <2>1, <2>2, <2>3 DEF SocketsOK
<1>9. ASSUME NEW f \in Frames, FrameStep(f) PROVE SocketsOK'
  <2>1. UNCHANGED <<live, opened, sock, broken, dialing, replay>>
        /\ (wire' = wire \/ (sock # 0 /\ sock = live))
    BY <1>9 DEF FrameStep, Find, Send, Miss, Add, Open
  <2> QED
    BY <2>1 DEF SocketsOK
<1> QED
  BY <1>1, <1>2, <1>3, <1>4, <1>5, <1>6, <1>7, <1>8, <1>9, <1>10 DEF Next
-----------------------------------------------------------------------------
(* Where the frames are *)

\* A step that moves no frame and opens no socket.
LEMMA StillKeeps ==
  ASSUME FramesOK, UNCHANGED <<arrived, buffer>>, got' \o wire' = got \o wire,
         live' = live \/ live' = 0,
         live # 0 => replay'[live] = replay[live]
                     \/ (replay'[live] = "range" /\ replay[live] = "load")
                     \/ replay'[live] \in {"none", "del"},
         \A f \in Frames : pc[f] = "new" => pc'[f] = "new",
         \A f \in Frames : pc[f] = "done" => pc'[f] = "done",
         Range(got \o wire) \cup Range(buffer) \subseteq Frames
  PROVE  FramesOK'
BY DEF FramesOK

\* What is on a socket and what is buffered is a set of frames.
LEMMA Placed ==
  ASSUME TypeOK
  PROVE  /\ got \o wire \in Seq(Frames) /\ Range(got \o wire) \subseteq Frames
         /\ Range(buffer) \subseteq Frames /\ Range(<<>>) = {} /\ Distinct(<<>>)
         /\ Frames \subseteq Nat \ {0} /\ arrived \in Nat
<1>1. got \o wire \in Seq(Frames)
  BY ConcatFacts DEF TypeOK
<1>2. ASSUME NEW s \in Seq(Frames) PROVE Range(s) \subseteq Frames
  BY LenProperties, ElementOfSeq DEF Range
<1>3. Range(<<>>) = {} /\ Distinct(<<>>)
  BY DEF Range, Distinct
<1>4. buffer \in Seq(Frames) /\ arrived \in Nat /\ Frames \subseteq Nat \ {0}
  BY DEF TypeOK, Frames
<1> QED
  BY <1>1, <1>2, <1>3, <1>4, Zenon

LEMMA FramesKeep ==
  ASSUME TypeOK, SocketsOK, FramesOK, Next
  PROVE  FramesOK'
<1>0. /\ got \o wire \in Seq(Frames) /\ Range(got \o wire) \subseteq Frames
      /\ Range(buffer) \subseteq Frames /\ Range(<<>>) = {} /\ Distinct(<<>>)
      /\ Frames \subseteq Nat \ {0} /\ arrived \in Nat
      /\ pc \in [Frames -> {"new", "find", "relay", "add", "done"}]
      /\ replay \in [Sockets -> {"none", "load", "range", "del"}]
      /\ Range(got \o wire) \cup Range(buffer) \subseteq Frames
  <2>1. /\ pc \in [Frames -> {"new", "find", "relay", "add", "done"}]
        /\ replay \in [Sockets -> {"none", "load", "range", "del"}]
    BY DEF TypeOK
  <2> QED
    BY <2>1, Placed, Zenon
<1> USE DEF delivery, links, owner
<1>1. CASE Activate \/ Deactivate \/ SwitchA \/ MarkStep \/ Dial \/ Refuse
  <2>1. UNCHANGED <<arrived, buffer, got, wire, live, replay, pc>>
    BY <1>1, MarkStepFacts DEF Activate, Deactivate, SwitchA, Dial, Refuse
  <2> QED
    BY <1>0, <2>1, StillKeeps
<1>2. ASSUME NEW s \in Sockets, Close(s) PROVE FramesOK'
  BY <1>0, <1>2, StillKeeps DEF Close
<1>3. CASE Accept
  <2>1. /\ live' = opened + 1 /\ got' \o wire' = <<>>
        /\ UNCHANGED <<arrived, buffer, pc>>
    <3>1. wire' = <<>> /\ got' = <<>> /\ <<>> \o <<>> = <<>>
      BY <1>3 DEF Accept, SocketsOK
    <3> QED
      BY <1>3, <3>1 DEF Accept
  <2> QED
    BY <1>0, <2>1 DEF FramesOK
<1>4. CASE Break \/ Restart
  <2>1. /\ live' = 0 /\ got' \o wire' = got /\ UNCHANGED <<arrived, buffer>>
    BY <1>4, ConcatEmptySeq DEF Break, Restart, TypeOK
  <2>3. \A f \in Frames : (pc[f] = "new" => pc'[f] = "new") /\ (pc[f] = "done" => pc'[f] = "done")
    BY <1>4 DEF Break, Restart
  <2>2. Range(got) \subseteq Range(got \o wire) /\ Distinct(got)
    <3>1. got \in Seq(Frames) /\ wire \in Seq(Frames)
      BY DEF TypeOK
    <3>2. /\ Len(got) \in Nat /\ Len(wire) \in Nat /\ Len(got \o wire) = Len(got) + Len(wire)
          /\ \A i \in 1 .. Len(got) : i \in 1 .. Len(got \o wire) /\ (got \o wire)[i] = got[i]
      BY <3>1, ConcatProperties, LenProperties
    <3> QED
      BY <3>1, <3>2, ConcatFacts DEF FramesOK, Distinct
  <2> QED
    BY <1>0, <2>1, <2>2, <2>3 DEF FramesOK
<1>5. CASE Receive
  <2>1. got' \o wire' = got \o wire
    BY <1>5, TakeKeeps DEF Receive, TypeOK
  <2> QED
    BY <1>0, <1>5, <2>1, StillKeeps DEF Receive
<1>6. CASE Arrive
  <2>1. arrived + 1 \in Frames /\ arrived' = arrived + 1
        /\ pc' = [pc EXCEPT ![arrived + 1] = "find"]
        /\ UNCHANGED <<buffer, replay, wire, got, live>>
    BY <1>6, RelayAssumption DEF Arrive, TypeOK, Frames
  <2>2. pc[arrived + 1] = "new"
    BY <1>0, <2>1 DEF FramesOK
  <2>3. \A f \in Range(got \o wire) \cup Range(buffer) : pc'[f] = "done"
    BY <1>0, <2>1, <2>2 DEF FramesOK
  <2>4. \A f \in Frames : f > arrived' => pc'[f] = "new"
    BY <1>0, <2>1 DEF FramesOK
  <2> QED
    BY <2>1, <2>3, <2>4 DEF FramesOK
<1>7. ASSUME NEW s \in Sockets, ReplayStep(s) PROVE FramesOK'
  <2>1. CASE Load(s)
    BY <1>0, <2>1, StillKeeps DEF Load
  <2>2. CASE Replay(s)
    <3>1. CASE s # live
      BY <1>0, <2>2, <3>1, StillKeeps DEF Replay
    <3>2. CASE s = live
      <4>1. got' \o wire' = (got \o wire) \o buffer /\ UNCHANGED <<arrived, buffer, pc, live>>
        <5>1. wire' = wire \o buffer /\ UNCHANGED <<got, arrived, buffer, pc, live>>
          BY <2>2, <3>2 DEF Replay
        <5>2. got \in Seq(Frames) /\ wire \in Seq(Frames) /\ buffer \in Seq(Frames)
          BY DEF TypeOK
        <5>3. (got \o wire) \o buffer = got \o (wire \o buffer)
          BY <5>2, ConcatAssociative, SMTT(30)
        <5> QED
          BY <5>1, <5>3
      <4>2. live # 0 /\ replay[live] = "range" /\ replay'[live] \in {"none", "del"}
        BY <1>0, <2>2, <3>2 DEF Replay, Sockets
      <4>3. Range(got' \o wire') = Range(got \o wire) \cup Range(buffer)
            /\ Distinct(got' \o wire')
        <5>1. PICK u \in Seq(Frames), b \in Seq(Frames) : u = got \o wire /\ b = buffer
          BY <1>0 DEF TypeOK
        <5>2. Distinct(u) /\ Distinct(b) /\ Range(u) \cap Range(b) = {}
          BY <4>2, <5>1 DEF FramesOK
        <5>3. Range(u \o b) = Range(u) \cup Range(b) /\ Distinct(u \o b)
          BY <5>2, ConcatFacts
        <5> QED
          BY <4>1, <5>1, <5>3
      <4> QED
        BY <4>1, <4>2, <4>3 DEF FramesOK
    <3> QED
      BY <3>1, <3>2
  <2>3. CASE Del(s)
    <3>1. buffer' = <<>> /\ UNCHANGED <<arrived, pc, got, wire, live>>
      BY <2>3 DEF Del
    <3> QED
      BY <1>0, <3>1 DEF FramesOK
  <2> QED
    BY <1>7, <2>1, <2>2, <2>3 DEF ReplayStep
<1>8. ASSUME NEW f \in Frames, FrameStep(f) PROVE FramesOK'
  <2>1. /\ pc[f] \in {"find", "relay", "add"} /\ pc' = [pc EXCEPT ![f] = pc'[f]]
        /\ UNCHANGED <<arrived, got, replay, live>>
    BY <1>0, <1>8 DEF FrameStep, Find, Send, Miss, Add
  <2>2. f \notin Range(got \o wire) /\ f \notin Range(buffer) /\ ~(f > arrived)
    BY <2>1 DEF FramesOK
  <2>3. /\ \A g \in Frames : g # f => pc'[g] = pc[g]
        /\ \A g \in Range(got \o wire) \cup Range(buffer) : pc'[g] = "done"
        /\ \A g \in Frames : g > arrived' => pc'[g] = "new"
    BY <1>0, <2>1, <2>2 DEF FramesOK
  <2>4. CASE UNCHANGED <<buffer, wire>>
    BY <2>1, <2>3, <2>4 DEF FramesOK
  <2>5. CASE Send(f) /\ wire' # wire
    <3>1. wire' = Append(wire, f) /\ buffer' = buffer /\ pc'[f] = "done"
      BY <1>0, <2>5 DEF Send
    <3>2. got' \o wire' = Append(got \o wire, f)
      BY <2>1, <3>1, AppendInside DEF TypeOK
    <3>3. Range(got' \o wire') = Range(got \o wire) \cup {f} /\ Distinct(got' \o wire')
      <4>1. PICK u \in Seq(Frames) : u = got \o wire
        BY <1>0
      <4>2. Distinct(u) /\ f \notin Range(u)
        BY <2>2, <4>1 DEF FramesOK
      <4>3. Range(Append(u, f)) = Range(u) \cup {f} /\ Distinct(Append(u, f))
        BY <4>2, AppendFacts
      <4> QED
        BY <3>2, <4>1, <4>3
    <3> QED
      BY <2>1, <2>2, <2>3, <3>1, <3>3 DEF FramesOK
  <2>6. CASE Add(f)
    <3>4. PICK n \in 0 .. Len(buffer) : buffer' = Append(SubSeq(buffer, n + 1, Len(buffer)), f)
      BY <2>6 DEF Add
    <3> DEFINE rest == SubSeq(buffer, n + 1, Len(buffer))
    <3>1. buffer' = Append(rest, f) /\ wire' = wire /\ pc'[f] = "done"
      BY <1>0, <2>6, <3>4 DEF Add
    <3>2. rest \in Seq(Frames) /\ Range(rest) \subseteq Range(buffer) /\ Distinct(rest)
      BY SuffixFacts DEF TypeOK, FramesOK
    <3> HIDE DEF rest
    <3>3. Range(buffer') \subseteq Range(buffer) \cup {f} /\ Distinct(buffer')
      BY <2>2, <3>1, <3>2, AppendFacts
    <3> QED
      BY <2>1, <2>2, <2>3, <3>1, <3>3 DEF FramesOK
  <2> QED
    BY <1>8, <2>4, <2>5, <2>6 DEF FrameStep, Find, Send, Miss
<1> QED
  BY <1>1, <1>2, <1>3, <1>4, <1>5, <1>6, <1>7, <1>8 DEF Next
-----------------------------------------------------------------------------
(* The deactivation that nothing was under way for *)

\* Nothing gets past its look at the mode while the group is inactive.
LEMMA FinalKeep ==
  ASSUME TypeOK, FinalOK, Next
  PROVE  FinalOK'
<1>0. /\ marks \in [Steps -> Nat] /\ <<"load">> \in Steps
      /\ pc \in [Frames -> {"new", "find", "relay", "add", "done"}]
  BY StepsFacts DEF TypeOK
<1>1. ASSUME Begin(<<"load">>)
      PROVE  \A s \in Steps \ {<<"load">>} : marks'[s] = marks[s]
  BY <1>0, <1>1, MarksFacts
<1> USE DEF delivery, links, owner
<1>2. CASE Activate
  BY <1>2 DEF Activate, FinalOK
<1>3. CASE Deactivate
  BY <1>3 DEF Deactivate, FinalOK, Decided
<1>4. CASE SwitchA \/ Accept \/ \E s \in Sockets : Close(s)
  <2>1. Begin(<<"load">>) /\ UNCHANGED <<mode, final, pc>>
    BY <1>4 DEF SwitchA, Accept, Close
  <2>2. Decided(marks, pc)' => Decided(marks, pc)
    BY <1>1, <2>1 DEF Decided
  <2> QED
    BY <2>1, <2>2 DEF FinalOK
<1>5. CASE Dial \/ Refuse \/ Break \/ Receive \/ \E s \in Sockets : ReplayStep(s)
  <2>1. UNCHANGED <<mode, final, pc, marks>>
    BY <1>5 DEF Dial, Refuse, Break, Receive, ReplayStep, Load, Replay, Del
  <2> QED
    BY <2>1 DEF FinalOK, Decided
<1>6. CASE Arrive
  BY <1>0, <1>6 DEF Arrive, FinalOK, Decided
<1>9. CASE Restart
  <2>1. /\ pc' = [f \in Frames |-> IF pc[f] = "new" THEN "new" ELSE "done"]
        /\ marks' = [s \in Steps |-> 0] /\ UNCHANGED <<mode, final>>
    BY <1>9 DEF Restart
  <2>2. ~Decided(marks, pc)'
    BY <2>1 DEF Decided
  <2> QED
    BY <2>1, <2>2 DEF FinalOK
<1>7. ASSUME NEW f \in Frames, FrameStep(f) PROVE FinalOK'
  <2>1. CASE Find(f)
    BY <1>0, <2>1 DEF Find, FinalOK, Decided
  <2>2. CASE Send(f) \/ Miss(f) \/ Add(f)
    BY <2>2 DEF Send, Miss, Add, FinalOK, Decided
  <2> QED
    BY <1>7, <2>1, <2>2 DEF FrameStep
<1>8. CASE MarkStep
  <2> SUFFICES ASSUME final, mode = "INACTIVE", ~Decided(marks, pc)
               PROVE  mode' = "INACTIVE" /\ ~Decided(marks, pc)'
    BY <1>8, MarkStepFacts DEF FinalOK
  <2>1. \A s \in Steps \ {<<"load">>} : ~(marks[s] > 0)
    BY DEF Decided
  <2>2. LoadGroup
    BY <1>8, <2>1, StepsFacts DEF MarkStep, Compute, ReadMode, WriteMode
  <2>3. marks[<<"load">>] > 0 /\ End(<<"load">>) /\ UNCHANGED <<mode, pc>>
    BY <2>2 DEF LoadGroup
  <2>4. \A s \in Steps \ {<<"load">>} : marks'[s] = marks[s]
    BY <1>0, <2>3, MarksFacts
  <2> QED
    BY <2>3, <2>4 DEF Decided
<1> QED
  BY <1>2, <1>3, <1>4, <1>5, <1>6, <1>7, <1>8, <1>9 DEF Next
-----------------------------------------------------------------------------
(* While nothing overlaps *)

\* A step that starts nothing, and buffers nothing.
LEMMA QuietKeeps ==
  ASSUME AloneOK, overlap => overlap', live' \in {live, 0},
         live' # 0 => buffer' = buffer \/ buffer' = <<>>,
         live # 0 => replay'[live] = replay[live]
                     \/ (replay[live] # "none" /\ replay'[live] # "none")
                     \/ (replay[live] # "none" /\ replay'[live] = "none"
                         /\ (overlap' \/ buffer' = <<>>)),
         \A s \in Sockets : replay[s] = "none" => replay'[s] = "none",
         \A f \in Frames : pc'[f] = pc[f] \/ pc'[f] = "done"
                           \/ (pc[f] = "find" /\ pc'[f] = "relay")
  PROVE  AloneOK'
<1> SUFFICES ASSUME ~overlap', live' # 0 PROVE AloneOK'
  BY DEF AloneOK
<1>1. live' = live /\ ~overlap /\ live # 0
  OBVIOUS
<1>2. \A f \in Frames : Underway(f)' => Underway(f)
  BY DEF Underway
<1>3. \A s \in Sockets : replay'[s] # "none" => s = live
  BY <1>1 DEF AloneOK
<1>4. \A f \in Frames : pc'[f] # "add"
  BY <1>1 DEF AloneOK
<1>5. (\E f \in Frames : Underway(f)') => replay'[live] = "none"
  BY <1>1, <1>2 DEF AloneOK
<1>6. replay'[live] = "none" => buffer' = <<>>
  BY <1>1 DEF AloneOK
<1> QED
  BY <1>1, <1>3, <1>4, <1>5, <1>6 DEF AloneOK

LEMMA AloneKeep ==
  ASSUME TypeOK, SocketsOK, AloneOK, Next
  PROVE  AloneOK'
<1>0. /\ replay \in [Sockets -> {"none", "load", "range", "del"}]
      /\ pc \in [Frames -> {"new", "find", "relay", "add", "done"}]
      /\ live # 0 => live \in Sockets
  BY RelayAssumption DEF TypeOK, Sockets
<1> USE DEF delivery, links, owner
<1>1. CASE Activate \/ Deactivate \/ SwitchA \/ MarkStep \/ Dial \/ Refuse
  <2>1. UNCHANGED <<overlap, buffer, live, replay, pc>>
    BY <1>1, MarkStepFacts DEF Activate, Deactivate, SwitchA, Dial, Refuse
  <2> QED
    BY <2>1, QuietKeeps
<1>2. CASE Break \/ Receive \/ \E s \in Sockets : Close(s)
  <2>1. UNCHANGED <<overlap, buffer, replay, pc>> /\ live' \in {live, 0}
    BY <1>2 DEF Break, Receive, Close
  <2> QED
    BY <2>1, QuietKeeps
<1>7. CASE Restart
  <2>1. live' = 0
    BY <1>7 DEF Restart
  <2> QED
    BY <2>1 DEF AloneOK
<1>3. CASE Accept
  <2> SUFFICES ASSUME ~Busy(pc, replay) PROVE AloneOK'
    BY <1>3 DEF Accept, AloneOK
  <2>1. /\ live' = opened + 1 /\ pc' = pc /\ opened + 1 \in Sockets
        /\ replay' = [replay EXCEPT ![opened + 1] = "load"]
    BY <1>3, RelayAssumption DEF Accept, TypeOK, SocketsOK, Sockets
  <2>2. /\ \A s \in Sockets : replay[s] = "none"
        /\ \A f \in Frames : ~Underway(f)
    BY DEF Busy, Underway
  <2>3. /\ \A s \in Sockets : replay'[s] # "none" => s = live'
        /\ \A f \in Frames : ~Underway(f)' /\ pc'[f] # "add"
        /\ replay'[live'] # "none"
    BY <1>0, <2>1, <2>2 DEF Underway
  <2> QED
    BY <2>3 DEF AloneOK
<1>4. CASE Arrive
  <2> SUFFICES ASSUME ~Busy(pc, replay), ~overlap, live # 0 PROVE AloneOK'
    BY <1>4 DEF Arrive, AloneOK
  <2>1. /\ \A s \in Sockets : replay[s] = "none"
        /\ UNCHANGED <<replay, live, buffer>>
        /\ pc' = [pc EXCEPT ![arrived + 1] = "find"]
    BY <1>4 DEF Busy, Arrive
  <2>2. \A f \in Frames : pc'[f] # "add"
    BY <1>0, <2>1 DEF AloneOK
  <2> QED
    BY <1>0, <2>1, <2>2 DEF AloneOK
<1>5. ASSUME NEW s \in Sockets, ReplayStep(s) PROVE AloneOK'
  <2>1. CASE Load(s)
    BY <1>0, <2>1, QuietKeeps DEF Load
  <2>2. CASE Replay(s)
    BY <1>0, <2>2, QuietKeeps DEF Replay
  <2>3. CASE Del(s)
    BY <1>0, <2>3, QuietKeeps DEF Del
  <2> QED
    BY <1>5, <2>1, <2>2, <2>3 DEF ReplayStep
<1>6. ASSUME NEW f \in Frames, FrameStep(f) PROVE AloneOK'
  <2>1. CASE Find(f)
    BY <1>0, <2>1, QuietKeeps DEF Find
  <2>4. CASE Send(f)
    BY <1>0, <2>4, QuietKeeps DEF Send
  <2>2. CASE Miss(f)
    <3>1. live = 0 /\ live' = live
      BY <2>2 DEF Miss, Open, SocketsOK
    <3> QED
      BY <3>1 DEF AloneOK
  <2>3. CASE Add(f)
    <3>1. pc[f] = "add" /\ UNCHANGED <<live, overlap>>
      BY <2>3 DEF Add
    <3> QED
      BY <3>1 DEF AloneOK
  <2> QED
    BY <1>6, <2>1, <2>2, <2>3, <2>4 DEF FrameStep
<1> QED
  BY <1>1, <1>2, <1>3, <1>4, <1>5, <1>6, <1>7 DEF Next
-----------------------------------------------------------------------------
LEMMA NextIInv == IInv /\ [Next]_vars => IInv'
<1> SUFFICES ASSUME IInv, [Next]_vars PROVE IInv'
  OBVIOUS
<1>1. CASE UNCHANGED vars
  <2>1. UNCHANGED <<mode, pc, arrived, marks, buffer, replay, aUp, sock, live, dialing, broken,
                    opened, wire, got, received, overlap, final, switches>>
    BY <1>1 DEF vars, delivery, links, owner
  <2>2. TypeOK' /\ SocketsOK'
    BY <2>1 DEF IInv, TypeOK, SocketsOK
  <2>3. FramesOK' /\ FinalOK' /\ AloneOK'
    BY <2>1 DEF IInv, FramesOK, FinalOK, AloneOK, Decided, Underway
  <2> QED
    BY <2>2, <2>3 DEF IInv
<1>2. CASE Next
  BY <1>2, TypesKeep, SocketsKeep, FramesKeep, FinalKeep, AloneKeep DEF IInv
<1> QED
  BY <1>1, <1>2

THEOREM Inductive == Spec => []IInv
BY InitIInv, NextIInv, PTL DEF Spec

\* However frames, replays, connections and mode changes overlap, no socket
\* gets a frame twice, and a deactivation that found nothing past its look at
\* the mode stays in force (ws/data-plane.ts, services/groups.ts).
THEOREM RelayIsSound == Spec => []RelayInvariant
<1>1. IInv => RelayInvariant
  BY DEF IInv, FramesOK, FinalOK, Distinct, RelayInvariant, OncePerSocket, StaysInactive
<1> QED
  BY <1>1, Inductive, PTL
-----------------------------------------------------------------------------
(* The relay implements FrameLink while nothing overlaps *)

\* The mapping of Relays: what is to be sent again counts until it was sent.
Held == IF \E s \in Sockets : replay[s] = "del" THEN <<>> ELSE buffer
Queue == wire \o Held

LEMMA LinkSteps ==
  /\ Link!Init <=> (Queue = <<>> /\ received = <<>>)
  /\ Link!Put <=> /\ \E f \in Frames, n \in 0 .. Len(Queue) :
                       /\ n > 0 => Len(Queue) - n + 1 >= BufferMax
                       /\ Queue' = Append(SubSeq(Queue, n + 1, Len(Queue)), f)
                  /\ received' = received
  /\ Link!Take <=> /\ Queue # <<>>
                   /\ received' = Append(received, Head(Queue)) /\ Queue' = Tail(Queue)
  /\ Link!Lose <=> /\ \E n \in 1 .. Len(Queue) : Queue' = SubSeq(Queue, n + 1, Len(Queue))
                   /\ received' = received
  /\ Link!Next <=> Link!Put \/ Link!Take \/ Link!Lose
  /\ Link!vars = <<Queue, received>>
BY DEF Link!Init, Link!Put, Link!Take, Link!Lose, Link!Next, Link!vars, Queue, Held

LEMMA QueueType ==
  ASSUME TypeOK
  PROVE  /\ wire \in Seq(Frames) /\ Held \in Seq(Frames) /\ Queue \in Seq(Frames)
         /\ Len(Queue) = Len(wire) + Len(Held) /\ Len(wire) \in Nat /\ Len(Held) \in Nat
<1>1. wire \in Seq(Frames) /\ Held \in Seq(Frames)
  BY DEF TypeOK, Held
<1> QED
  BY <1>1, ConcatProperties, LenProperties DEF Queue

\* What a broken connection takes with it, or a replay that nobody gets.
LEMMA PrefixLost ==
  ASSUME NEW S, NEW s \in Seq(S), NEW t \in Seq(S)
  PROVE  \/ s \o t = t
         \/ \E n \in 1 .. Len(s \o t) : t = SubSeq(s \o t, n + 1, Len(s \o t))
<1>1. /\ s \o t \in Seq(S) /\ Len(s) \in Nat /\ Len(t) \in Nat
      /\ Len(s \o t) = Len(s) + Len(t)
      /\ \A i \in 1 .. Len(s) + Len(t) : (s \o t)[i] =
           IF i <= Len(s) THEN s[i] ELSE t[i - Len(s)]
  BY ConcatProperties, LenProperties
<1>2. CASE s = <<>>
  BY <1>2, ConcatEmptySeq
<1>3. CASE s # <<>>
  <2>1. Len(s) \in 1 .. Len(s \o t)
    BY <1>1, <1>3, EmptySeq
  <2> DEFINE r == SubSeq(s \o t, Len(s) + 1, Len(s \o t))
  <2>2. \A i \in Len(s) + 1 .. Len(s \o t) : (s \o t)[i] \in S
    BY <1>1, ElementOfSeq
  <2>3. /\ r \in Seq(S)
        /\ Len(r) = IF Len(s) + 1 <= Len(s \o t) THEN Len(s \o t) - (Len(s) + 1) + 1 ELSE 0
        /\ \A i \in 1 .. Len(s \o t) - (Len(s) + 1) + 1 : r[i] = (s \o t)[Len(s) + 1 + i - 1]
    BY <1>1, <2>2, SubSeqProperties
  <2>4. Len(r) = Len(t) /\ \A i \in 1 .. Len(t) : r[i] = t[i]
    BY <1>1, <2>3
  <2>5. r = t
    BY <2>3, <2>4, SeqEqual
  <2> QED
    BY <2>1, <2>5
<1> QED
  BY <1>2, <1>3

\* The frame that is sent goes behind all others, since the buffer is empty.
LEMMA SendPuts ==
  ASSUME IInv, ~overlap, NEW f \in Frames, Send(f)
  PROVE  Link!Put \/ (Queue' = Queue /\ received' = received)
<1>1. /\ pc[f] = "relay" /\ sock # 0
      /\ wire' = (IF sock = live THEN Append(wire, f) ELSE wire)
      /\ UNCHANGED <<buffer, replay, received>>
  BY DEF Send, Open
<1>2. Held' = Held
  BY <1>1 DEF Held
<1>3. CASE sock # live
  BY <1>1, <1>2, <1>3 DEF Queue
<1>4. CASE sock = live
  <2>1. live # 0 /\ replay[live] = "none" /\ buffer = <<>>
    BY <1>1, <1>4 DEF IInv, AloneOK, Underway
  <2>2. Held = <<>>
    BY <2>1 DEF Held
  <2>3. wire \in Seq(Frames) /\ Append(wire, f) \in Seq(Frames)
    BY QueueType, AppendFacts DEF IInv
  <2>4. Queue = wire /\ Queue' = Append(wire, f)
    BY <1>1, <1>2, <1>4, <2>2, <2>3, ConcatEmptySeq DEF Queue
  <2>5. PICK n \in 0 .. Len(Queue) : n = 0
    BY LenProperties, QueueType DEF IInv
  <2>6. /\ n > 0 => Len(Queue) - n + 1 >= BufferMax
        /\ Queue' = Append(SubSeq(Queue, n + 1, Len(Queue)), f)
    BY <2>4, <2>5, WholeSeq, QueueType DEF IInv
  <2> QED
    BY <1>1, <2>5, <2>6, LinkSteps
<1> QED
  BY <1>3, <1>4

\* A frame is buffered when nobody is connected: nothing is on the wire.
LEMMA AddPuts ==
  ASSUME IInv, ~overlap, NEW f \in Frames, Add(f)
  PROVE  Link!Put \/ (Queue' = Queue /\ received' = received)
<1>1. pc[f] = "add" /\ UNCHANGED <<wire, replay, received>>
  BY DEF Add
<1>4. PICK n \in 0 .. Len(buffer) :
        /\ n > 0 => Len(buffer) - n + 1 >= BufferMax
        /\ buffer' = Append(SubSeq(buffer, n + 1, Len(buffer)), f)
  BY DEF Add
<1>2. CASE \E s \in Sockets : replay[s] = "del"
  BY <1>1, <1>2 DEF Queue, Held
<1>3. CASE ~\E s \in Sockets : replay[s] = "del"
  <2>1. wire = <<>>
    BY <1>1 DEF IInv, AloneOK, SocketsOK
  <2>2. buffer \in Seq(Frames) /\ buffer' \in Seq(Frames)
    <3>1. TypeOK'
      BY TypesKeep DEF IInv, Next, FrameStep
    <3> QED
      BY <3>1 DEF IInv, TypeOK
  <2>3. Queue = buffer /\ Queue' = buffer'
    BY <1>1, <1>3, <2>1, <2>2, ConcatEmptySeq DEF Queue, Held
  <2>4. /\ n \in 0 .. Len(Queue)
        /\ n > 0 => Len(Queue) - n + 1 >= BufferMax
        /\ Queue' = Append(SubSeq(Queue, n + 1, Len(Queue)), f)
    BY <1>4, <2>3
  <2> QED
    BY <1>1, <2>4, LinkSteps
<1> QED
  BY <1>2, <1>3

\* What a replay sends was in the queue before, or its agent is gone again.
LEMMA ReplayLoses ==
  ASSUME IInv, ~overlap, NEW s \in Sockets, Replay(s)
  PROVE  Link!Lose \/ (Queue' = Queue /\ received' = received)
<1>1. /\ replay[s] = "range" /\ UNCHANGED <<buffer, received>>
      /\ replay' = [replay EXCEPT ![s] = IF buffer = <<>> THEN "none" ELSE "del"]
      /\ wire' = (IF s = live THEN wire \o buffer ELSE wire)
      /\ replay \in [Sockets -> {"none", "load", "range", "del"}]
      /\ buffer \in Seq(Frames) /\ wire \in Seq(Frames)
  BY DEF Replay, IInv, TypeOK
<1>2. Held' = <<>>
  <2>1. CASE buffer = <<>>
    BY <1>1, <2>1 DEF Held
  <2>2. CASE buffer # <<>>
    <3>1. replay'[s] = "del"
      BY <1>1, <2>2
    <3> QED
      BY <3>1 DEF Held
  <2> QED
    BY <2>1, <2>2
<1>3. CASE s = live
  <2>1. live # 0
    BY <1>3 DEF Sockets
  <2>2. \A t \in Sockets : replay[t] # "del"
    BY <1>1, <1>3, <2>1 DEF IInv, AloneOK
  <2>3. Held = buffer
    BY <2>2 DEF Held
  <2>4. wire \o buffer \in Seq(Frames)
    BY <1>1, ConcatProperties
  <2>5. Queue' = wire \o buffer /\ Queue = wire \o buffer
    BY <1>1, <1>2, <1>3, <2>3, <2>4, ConcatEmptySeq DEF Queue
  <2> QED
    BY <1>1, <2>5
<1>4. CASE s # live
  <2>1. live = 0
    BY <1>1, <1>4 DEF IInv, AloneOK
  <2>2. wire = <<>> /\ wire' = <<>>
    BY <1>1, <1>4, <2>1 DEF IInv, SocketsOK
  <2>3. Held \in Seq(Frames) /\ <<>> \in Seq(Frames)
    BY QueueType, EmptySeq DEF IInv
  <2>4. Queue = Held /\ Queue' = <<>>
    BY <1>2, <2>2, <2>3, ConcatEmptySeq DEF Queue
  <2>5. Held \o <<>> = Held
    BY <2>3, ConcatEmptySeq
  <2>6. \/ Queue' = Queue
        \/ \E n \in 1 .. Len(Queue) : Queue' = SubSeq(Queue, n + 1, Len(Queue))
    BY <2>3, <2>4, <2>5, PrefixLost
  <2> QED
    BY <1>1, <2>6, LinkSteps
<1> QED
  BY <1>3, <1>4

LEMMA BreakLoses ==
  ASSUME IInv, Break
  PROVE  Link!Lose \/ (Queue' = Queue /\ received' = received)
<1>1. wire' = <<>> /\ UNCHANGED <<buffer, replay, received>>
  BY DEF Break
<1>2. wire \in Seq(Frames) /\ Held \in Seq(Frames) /\ Held' = Held
  BY <1>1, QueueType DEF IInv, Held
<1>3. Queue' = Held /\ Queue = wire \o Held
  BY <1>1, <1>2, ConcatEmptySeq DEF Queue
<1>4. \/ Queue' = Queue
      \/ \E n \in 1 .. Len(Queue) : Queue' = SubSeq(Queue, n + 1, Len(Queue))
  BY <1>2, <1>3, PrefixLost
<1> QED
  BY <1>1, <1>4, LinkSteps

\* The end of the API, unless it cuts a replay off.
LEMMA RestartLoses ==
  ASSUME IInv, Restart, ~CutOff
  PROVE  Link!Lose \/ (Queue' = Queue /\ received' = received)
<1>1. /\ wire' = <<>> /\ UNCHANGED <<buffer, received>>
      /\ replay' = [s \in Sockets |-> "none"]
  BY DEF Restart
<1>2. Held = buffer /\ Held' = buffer
  BY <1>1 DEF Held, CutOff
<1>3. wire \in Seq(Frames) /\ Held \in Seq(Frames) /\ Held' = Held
  BY <1>2, QueueType DEF IInv
<1>4. Queue' = Held /\ Queue = wire \o Held
  BY <1>1, <1>3, ConcatEmptySeq DEF Queue
<1>5. \/ Queue' = Queue
      \/ \E n \in 1 .. Len(Queue) : Queue' = SubSeq(Queue, n + 1, Len(Queue))
  BY <1>3, <1>4, PrefixLost
<1> QED
  BY <1>1, <1>5, LinkSteps

LEMMA ReceiveTakes ==
  ASSUME IInv, Receive
  PROVE  Link!Take
<1>1. /\ wire # <<>> /\ wire' = Tail(wire) /\ UNCHANGED <<buffer, replay>>
      /\ received' = Append(received, Head(wire))
  BY DEF Receive
<1>2. wire \in Seq(Frames) /\ Held \in Seq(Frames) /\ Held' = Held
      /\ Queue \in Seq(Frames) /\ Len(Queue) = Len(wire) + Len(Held)
      /\ Len(wire) \in Nat \ {0} /\ Len(Held) \in Nat
  BY <1>1, QueueType, EmptySeq DEF IInv, Held
<1>3. /\ Len(Tail(wire)) = Len(wire) - 1 /\ Tail(wire) \in Seq(Frames)
      /\ \A i \in 1 .. Len(wire) - 1 : Tail(wire)[i] = wire[i + 1]
  BY <1>1, <1>2, HeadTailProperties
<1>4. Queue # <<>> /\ Head(Queue) = Head(wire)
  <2>1. Queue[1] = wire[1]
    BY <1>2, ConcatProperties DEF Queue
  <2> QED
    BY <1>1, <1>2, <2>1
<1>5. /\ Tail(Queue) \in Seq(Frames) /\ Len(Tail(Queue)) = Len(Queue) - 1
      /\ \A i \in 1 .. Len(Queue) - 1 : Tail(Queue)[i] = Queue[i + 1]
  BY <1>2, <1>4, HeadTailProperties
<1>6. /\ Queue' \in Seq(Frames) /\ Len(Queue') = Len(wire) - 1 + Len(Held)
      /\ \A i \in 1 .. Len(wire) - 1 + Len(Held) :
           Queue'[i] = IF i <= Len(wire) - 1 THEN Tail(wire)[i] ELSE Held[i - (Len(wire) - 1)]
  BY <1>1, <1>2, <1>3, ConcatProperties DEF Queue
<1>7. \A i \in 1 .. Len(wire) + Len(Held) :
        Queue[i] = IF i <= Len(wire) THEN wire[i] ELSE Held[i - Len(wire)]
  BY <1>2, ConcatProperties DEF Queue
<1>8. ASSUME NEW i \in 1 .. Len(Queue') PROVE Queue'[i] = Tail(Queue)[i]
  <2>1. i \in 1 .. Len(wire) - 1 + Len(Held) /\ i + 1 \in 1 .. Len(wire) + Len(Held)
        /\ i \in 1 .. Len(Queue) - 1
    BY <1>2, <1>6
  <2>2. Tail(Queue)[i] = Queue[i + 1]
    BY <1>5, <2>1
  <2>3. CASE i <= Len(wire) - 1
    BY <1>2, <1>3, <1>6, <1>7, <2>1, <2>2, <2>3
  <2>4. CASE ~(i <= Len(wire) - 1)
    <3>1. ~(i + 1 <= Len(wire)) /\ i + 1 - Len(wire) = i - (Len(wire) - 1)
      BY <1>2, <2>1, <2>4
    <3> QED
      BY <1>6, <1>7, <2>1, <2>2, <2>4, <3>1
  <2> QED
    BY <2>3, <2>4
<1>9. Len(Queue') = Len(Tail(Queue))
  BY <1>2, <1>5, <1>6
<1>10. Queue' = Tail(Queue)
  BY <1>5, <1>6, <1>8, <1>9, SeqEqual
<1> QED
  BY <1>1, <1>4, <1>10, LinkSteps

LEMMA LinkNext ==
  ASSUME IInv, Next, ~overlap', ~CutOff
  PROVE  Link!Next \/ (Queue' = Queue /\ received' = received /\ overlap' = overlap)
<1> USE DEF delivery, links, owner
<1>0. ~overlap /\ overlap' = overlap
  <2>1. overlap => overlap'
    BY MarkStepFacts DEF IInv, Next, Activate, Deactivate, SwitchA, Dial, Refuse, Accept, Break,
       Restart, Receive, Arrive, Close, ReplayStep, Load, Replay, Del, FrameStep, Find, Send, Miss, Add
  <2> QED
    BY <2>1, TypesKeep DEF IInv, TypeOK
<1>1. CASE UNCHANGED <<wire, buffer, replay, received>>
  BY <1>0, <1>1 DEF Queue, Held
<1>2. CASE Accept \/ \E s \in Sockets : Load(s)
  <2>1. UNCHANGED <<wire, buffer, received>>
    BY <1>2 DEF Accept, Load
  <2>2. \A s \in Sockets : replay'[s] = "del" <=> replay[s] = "del"
    <3>1. replay \in [Sockets -> {"none", "load", "range", "del"}]
      BY DEF IInv, TypeOK
    <3>2. ASSUME Accept PROVE replay[opened + 1] = "none" /\ opened + 1 \in Sockets
      BY <3>2, RelayAssumption DEF Accept, IInv, SocketsOK, TypeOK, Sockets
    <3>3. CASE Accept
      BY <3>1, <3>2, <3>3 DEF Accept
    <3>4. CASE \E s \in Sockets : Load(s)
      BY <3>1, <3>4 DEF Load
    <3> QED
      BY <1>2, <3>3, <3>4
  <2>3. Held' = Held
    BY <2>1, <2>2 DEF Held
  <2> QED
    BY <1>0, <2>1, <2>3 DEF Queue
<1>3. ASSUME NEW s \in Sockets, Del(s) PROVE Queue' = Queue /\ received' = received
  BY <1>3 DEF Del, Queue, Held
<1>4. CASE Break \/ Restart \/ Receive \/ \E s \in Sockets : Replay(s)
  BY <1>0, <1>4, BreakLoses, RestartLoses, ReceiveTakes, ReplayLoses, LinkSteps
<1>5. CASE \E f \in Frames : Send(f) \/ Add(f)
  BY <1>0, <1>5, SendPuts, AddPuts, LinkSteps
<1>6. CASE MarkStep
  BY <1>1, <1>6, MarkStepFacts DEF IInv
<1>7. CASE \/ Activate \/ Deactivate \/ SwitchA \/ Dial \/ Refuse \/ Arrive
           \/ \E s \in Sockets : Close(s)
           \/ \E f \in Frames : Find(f) \/ Miss(f)
  BY <1>1, <1>7 DEF Activate, Deactivate, SwitchA, Dial, Refuse, Arrive, Close, Find, Miss
<1> QED
  BY <1>0, <1>2, <1>3, <1>4, <1>5, <1>6, <1>7 DEF Next, ReplayStep, FrameStep

\* As long as one frame or replay at a time is under way and the group stays
\* active, frames come out in their order and once, and are lost on a broken
\* connection or as the oldest of too many alone; only an end of the API between
\* the sends of a replay and its DEL has them sent again (ws/data-plane.ts).
THEOREM ImplementsLink == Spec => Relays
<1>1. Init => Link!Init
  <2> SUFFICES ASSUME Init PROVE Link!Init
    OBVIOUS
  <2>1. wire = <<>> /\ Held = <<>> /\ received = <<>>
    BY DEF Init, Held
  <2>2. <<>> \o <<>> = <<>>
    OBVIOUS
  <2> QED
    BY <2>1, <2>2, LinkSteps DEF Queue
<1>2. IInv /\ [Next]_vars => [Link!Next \/ overlap' \/ CutOff]_<<Link!vars, overlap>>
  <2> SUFFICES ASSUME IInv, [Next]_vars
               PROVE  Link!Next \/ overlap' \/ CutOff \/ UNCHANGED <<Link!vars, overlap>>
    OBVIOUS
  <2>0. Link!vars = <<Queue, received>> /\ (Link!vars)' = <<Queue', received'>>
    BY DEF Link!vars, Queue, Held
  <2>1. CASE UNCHANGED vars
    <3>1. UNCHANGED <<wire, buffer, replay, received, overlap>>
      BY <2>1 DEF vars, delivery
    <3>2. Queue' = Queue
      BY <3>1 DEF Queue, Held
    <3> QED
      BY <2>0, <3>1, <3>2
  <2>2. CASE Next /\ ~overlap' /\ ~CutOff
    BY <2>0, <2>2, LinkNext
  <2> QED
    BY <2>1, <2>2
<1> QED
  BY <1>1, <1>2, Inductive, PTL DEF Spec, Relays

-----------------------------------------------------------------------------
(***************************************************************************)
(* What the datagrams and messages hold.                                   *)
(***************************************************************************)
\* Two sequences joined, and parted again.
LEMMA Joined ==
  ASSUME NEW s \in Seq(Byte), NEW t \in Seq(Byte)
  PROVE  /\ s \o t \in Seq(Byte) /\ Len(s \o t) = Len(s) + Len(t)
         /\ Len(s) \in Nat /\ Len(t) \in Nat
         /\ \A i \in 1..Len(s) : (s \o t)[i] = s[i]
         /\ \A i \in 1..Len(t) : (s \o t)[Len(s) + i] = t[i]
<1>1. /\ s \o t \in Seq(Byte) /\ Len(s \o t) = Len(s) + Len(t)
      /\ \A i \in 1..(Len(s) + Len(t)) :
           (s \o t)[i] = IF i <= Len(s) THEN s[i] ELSE t[i - Len(s)]
  BY ConcatProperties
<1>2. Len(s) \in Nat /\ Len(t) \in Nat
  OBVIOUS
<1>3. ASSUME NEW i \in 1..Len(t) PROVE (s \o t)[Len(s) + i] = t[i]
  BY <1>1, <1>2, Len(s) + i \in 1..(Len(s) + Len(t)), ~(Len(s) + i <= Len(s)),
     (Len(s) + i) - Len(s) = i
<1> QED
  BY <1>1, <1>2, <1>3

\* A beginning of a sequence, and what is left.
LEMMA Begun ==
  ASSUME NEW s \in Seq(Byte), NEW i \in Nat, NEW j \in 0..Len(s), i <= j
  PROVE  /\ SubSeq(s, i + 1, j) \in Seq(Byte) /\ Len(SubSeq(s, i + 1, j)) = j - i
         /\ \A k \in 1..(j - i) : SubSeq(s, i + 1, j)[k] = s[i + k]
OBVIOUS

LEMMA SameSlice ==
  ASSUME NEW s \in Seq(Byte), NEW t \in Seq(Byte), NEW k \in Nat, k <= Len(s), k <= Len(t),
         \A i \in 1..k : s[i] = t[i], NEW l \in Nat, NEW j \in Nat, l >= 1, j <= k, l <= j + 1
  PROVE  SubSeq(s, l, j) = SubSeq(t, l, j)
<1>0. PICK i \in Nat : l = i + 1 /\ i <= j
  BY l - 1 \in Nat, l = (l - 1) + 1
<1>1. /\ Len(s) \in Nat /\ Len(t) \in Nat /\ j \in 0..Len(s) /\ j \in 0..Len(t)
      /\ \A m \in 1..(j - i) : i + m \in 1..k
  BY <1>0, LenProperties
<1>2. /\ SubSeq(s, i + 1, j) \in Seq(Byte) /\ Len(SubSeq(s, i + 1, j)) = j - i
      /\ \A m \in 1..(j - i) : SubSeq(s, i + 1, j)[m] = s[i + m]
  BY <1>0, <1>1, Begun
<1>3. /\ SubSeq(t, i + 1, j) \in Seq(Byte) /\ Len(SubSeq(t, i + 1, j)) = j - i
      /\ \A m \in 1..(j - i) : SubSeq(t, i + 1, j)[m] = t[i + m]
  BY <1>0, <1>1, Begun
<1>4. \A m \in 1..(j - i) : SubSeq(s, i + 1, j)[m] = SubSeq(t, i + 1, j)[m]
  BY <1>0, <1>1, <1>2, <1>3
<1> QED
  BY <1>0, <1>2, <1>3, <1>4, SeqEqual

LEMMA Parted ==
  ASSUME NEW s \in Seq(Byte), NEW t \in Seq(Byte)
  PROVE  /\ SubSeq(s \o t, 1, Len(s)) = s
         /\ \A j \in 0..Len(t) :
              SubSeq(s \o t, Len(s) + 1, Len(s) + j) = SubSeq(t, 1, j)
<1> DEFINE u == s \o t
<1>1. /\ u \in Seq(Byte) /\ Len(u) = Len(s) + Len(t)
      /\ Len(s) \in Nat /\ Len(t) \in Nat
      /\ \A i \in 1..Len(s) : u[i] = s[i]
      /\ \A i \in 1..Len(t) : u[Len(s) + i] = t[i]
  BY Joined
<1> HIDE DEF u
<1>2. SubSeq(u, 1, Len(s)) = s
  <2>1. /\ SubSeq(u, 1, Len(s)) \in Seq(Byte) /\ Len(SubSeq(u, 1, Len(s))) = Len(s)
        /\ \A i \in 1..Len(s) : SubSeq(u, 1, Len(s))[i] = u[i]
    BY <1>1
  <2> QED
    BY <1>1, <2>1, SeqEqual
<1>3. ASSUME NEW j \in 0..Len(t)
      PROVE  SubSeq(u, Len(s) + 1, Len(s) + j) = SubSeq(t, 1, j)
  <2>1. /\ SubSeq(u, Len(s) + 1, Len(s) + j) \in Seq(Byte)
        /\ Len(SubSeq(u, Len(s) + 1, Len(s) + j)) = j
        /\ \A i \in 1..j : SubSeq(u, Len(s) + 1, Len(s) + j)[i] = u[Len(s) + i]
    BY <1>1
  <2>2. /\ SubSeq(t, 1, j) \in Seq(Byte) /\ Len(SubSeq(t, 1, j)) = j
        /\ \A i \in 1..j : SubSeq(t, 1, j)[i] = t[i]
    BY <1>1
  <2> QED
    BY <1>1, <2>1, <2>2, SeqEqual
<1> QED
  BY <1>2, <1>3 DEF u

-----------------------------------------------------------------------------
LEMMA SmallIsByte ==
  ASSUME NEW n \in Nat, n <= 255
  PROVE  n \in Byte
BY DEF Byte

\* The numbers that U16 and U31 make of bytes.
LEMMA Assembled ==
  ASSUME NEW a \in Byte, NEW b \in Byte, NEW c \in Byte, NEW d \in Byte
  PROVE  65536 * (256 * a + b) + (256 * c + d) = ((a * 256 + b) * 256 + c) * 256 + d
BY SMT DEF Byte

LEMMA TopBit ==
  ASSUME NEW a \in Byte, a < 32
  PROVE  ((a + 128) \div 128) % 2 = 1 /\ (a + 128) % 128 = a
BY SMT DEF Byte

\* The four bytes of a number.
LEMMA FourBytes ==
  ASSUME NEW a \in Byte, NEW b \in Byte, NEW c \in Byte, NEW d \in Byte,
         NEW n \in Nat, n = ((a * 256 + b) * 256 + c) * 256 + d
  PROVE  /\ BE(n, 4) \in Seq(Byte) /\ Len(BE(n, 4)) = 4
         /\ BE(n, 4)[1] = a /\ BE(n, 4)[2] = b /\ BE(n, 4)[3] = c /\ BE(n, 4)[4] = d
<1>1. BE(n, 4) \in Seq(Byte) /\ Len(BE(n, 4)) = 4
  BY SMT DEF BE, Byte
<1>2. /\ BE(n, 4)[1] = (n \div 16777216) % 256
      /\ BE(n, 4)[2] = (n \div 65536) % 256
      /\ BE(n, 4)[3] = (n \div 256) % 256
      /\ BE(n, 4)[4] = (n \div 1) % 256
  BY SMT DEF BE
<1>3. /\ n \div 256 = (a * 256 + b) * 256 + c /\ n % 256 = d /\ n \div 1 = n
  BY SMT DEF Byte
<1>4. (n \div 256) % 256 = c
  BY <1>3, SMT DEF Byte
<1>5. n \div 65536 = a * 256 + b
  BY SMT DEF Byte
<1>6. n \div 16777216 = a
  BY SMT DEF Byte
<1>7. (a * 256 + b) % 256 = b /\ a % 256 = a
  BY SMT DEF Byte
<1>8. BE(n, 4)[1] = a /\ BE(n, 4)[2] = b /\ BE(n, 4)[3] = c /\ BE(n, 4)[4] = d
  BY <1>2, <1>3, <1>4, <1>5, <1>6, <1>7, SMT
<1> QED
  BY <1>1, <1>8, SMT

\* A number that four bytes hold is one of four bytes.
LEMMA HasDigits ==
  ASSUME NEW n \in Nat
  PROVE  \E a \in Nat, b \in Byte, c \in Byte, d \in Byte :
           n = ((a * 256 + b) * 256 + c) * 256 + d
<1>1. PICK m \in Nat, d \in Byte : n = m * 256 + d
  <2>1. n \div 256 \in Nat /\ n % 256 \in Byte /\ n = (n \div 256) * 256 + (n % 256)
    BY SMT DEF Byte
  <2> QED
    BY <2>1
<1>2. PICK l \in Nat, c \in Byte : m = l * 256 + c
  <2>1. m \div 256 \in Nat /\ m % 256 \in Byte /\ m = (m \div 256) * 256 + (m % 256)
    BY SMT DEF Byte
  <2> QED
    BY <2>1
<1>3. PICK a \in Nat, b \in Byte : l = a * 256 + b
  <2>1. l \div 256 \in Nat /\ l % 256 \in Byte /\ l = (l \div 256) * 256 + (l % 256)
    BY SMT DEF Byte
  <2> QED
    BY <2>1
<1> QED
  BY <1>1, <1>2, <1>3

LEMMA TwoBytes ==
  ASSUME NEW n \in Nat
  PROVE  /\ BE(n, 2) \in Seq(Byte) /\ Len(BE(n, 2)) = 2
         /\ n < 65536 => 256 * BE(n, 2)[1] + BE(n, 2)[2] = n
<1>1. BE(n, 2) \in Seq(Byte) /\ Len(BE(n, 2)) = 2
  BY SMT DEF BE, Byte
<1>2. BE(n, 2)[1] = (n \div 256) % 256 /\ BE(n, 2)[2] = (n \div 1) % 256
  BY SMT DEF BE
<1>3. PICK a \in Nat, d \in Byte : n = a * 256 + d
  <2>1. n \div 256 \in Nat /\ n % 256 \in Byte /\ n = (n \div 256) * 256 + (n % 256)
    BY SMT DEF Byte
  <2> QED
    BY <2>1
<1>4. n \div 256 = a /\ n \div 1 = n /\ n % 256 = d
  BY <1>3, SMT DEF Byte
<1>5. n < 65536 => a < 256
  BY <1>3, SMT DEF Byte
<1>6. a < 256 => a % 256 = a
  BY <1>3, SMT
<1>7. BE(n, 2)[2] = d /\ (n < 65536 => BE(n, 2)[1] = a)
  BY <1>2, <1>4, <1>5, <1>6, SMT
<1> QED
  BY <1>1, <1>3, <1>7, SMT DEF Byte

-----------------------------------------------------------------------------
Framed(f) ==
  /\ f.extended \in BOOLEAN /\ f.simulated \in BOOLEAN /\ f.loopback \in BOOLEAN
  /\ f.id \in Nat /\ f.id <= MaxId(f.extended)
  /\ f.data \in Seq(Byte) /\ Len(f.data) <= 8

\* The first eight bytes h of a frame.
Heads(h, f) ==
  /\ h \in Seq(Byte) /\ Len(h) = 8 /\ h[6] = Len(f.data)
  /\ \E a \in Byte, b \in Byte, c \in Byte, d \in Byte :
       /\ a < 32 /\ f.id = ((a * 256 + b) * 256 + c) * 256 + d
       /\ ~f.extended => a = 0
       /\ h[1] = a + Flag(f.extended, 128) /\ h[2] = b /\ h[3] = c /\ h[4] = d

LEMMA FrameOut ==
  ASSUME NEW f, Framed(f)
  PROVE  \E h : Heads(h, f) /\ EncodeCanFrame(f) = [ok |-> TRUE, bytes |-> h \o f.data]
<1>0. f.id \in Nat /\ f.data \in Seq(Byte) /\ Len(f.data) <= 8 /\ f.extended \in BOOLEAN
  BY DEF Framed
<1>1. PICK a \in Nat, b \in Byte, c \in Byte, d \in Byte :
        f.id = ((a * 256 + b) * 256 + c) * 256 + d
  BY HasDigits DEF Framed
<1>2. a < 32 /\ (~f.extended => a = 0) /\ a \in Byte
  BY <1>1, SMT DEF Framed, MaxId, MaxExtId, MaxStdId, Byte
<1>3. f.id % (MaxId(f.extended) + 1) = f.id
  BY SMT DEF Framed, MaxId, MaxExtId, MaxStdId
<1> DEFINE w == BE(f.id, 4)
           v == [w EXCEPT ![1] = @ + Flag(f.extended, 128)]
           g == <<Flag(f.simulated, 1) + Flag(f.loopback, 2), Len(f.data), 0, 0>>
           h == v \o g
<1>4. /\ w \in Seq(Byte) /\ Len(w) = 4
      /\ w[1] = a /\ w[2] = b /\ w[3] = c /\ w[4] = d
  BY <1>0, <1>1, <1>2, FourBytes
<1>5. EncodeCanFrame(f) = [ok |-> TRUE, bytes |-> h \o f.data]
  <2>1. ~(Len(f.data) > 8) /\ ~(f.id > MaxId(f.extended))
    BY SMT DEF Framed, MaxId, MaxExtId, MaxStdId
  <2> QED
    BY <1>3, <2>1, Zenon DEF EncodeCanFrame
<1>6. g \in Seq(Byte) /\ Len(g) = 4 /\ g[2] = Len(f.data)
  <2>1. Flag(f.simulated, 1) \in {0, 1} /\ Flag(f.loopback, 2) \in {0, 2}
    BY DEF Flag
  <2>2. Flag(f.simulated, 1) + Flag(f.loopback, 2) \in {0 + 0, 0 + 2, 1 + 0, 1 + 2}
    BY <2>1
  <2>3. Flag(f.simulated, 1) + Flag(f.loopback, 2) \in Byte
    BY <2>2, SMT DEF Byte
  <2>4. Len(f.data) \in Byte /\ 0 \in Byte
    <3>1. Len(f.data) \in Nat /\ Len(f.data) <= 255
      BY <1>0, LenProperties
    <3> QED
      BY <3>1, SmallIsByte, 0 \in Nat
  <2> QED
    BY <2>3, <2>4
<1> HIDE DEF g, w
<1>7. a + Flag(f.extended, 128) \in Byte
  BY <1>2, SMT DEF Flag, Byte, Framed
<1>8. /\ v \in Seq(Byte) /\ Len(v) = 4
      /\ v[1] = a + Flag(f.extended, 128) /\ v[2] = b /\ v[3] = c /\ v[4] = d
  <2>1. v = [w EXCEPT ![1] = a + Flag(f.extended, 128)]
    BY <1>4
  <2> HIDE DEF v
  <2> QED
    BY <1>4, <1>7, <2>1, ExceptSeq, SMT
<1> HIDE DEF v
<1>9. /\ h \in Seq(Byte) /\ Len(h) = 8
      /\ \A i \in 1..4 : h[i] = v[i] /\ h[4 + i] = g[i]
  <2>1. /\ v \o g \in Seq(Byte) /\ Len(v \o g) = Len(v) + Len(g)
        /\ \A i \in 1..Len(v) : (v \o g)[i] = v[i]
        /\ \A i \in 1..Len(g) : (v \o g)[Len(v) + i] = g[i]
    BY <1>6, <1>8, Joined
  <2> QED
    BY <1>6, <1>8, <2>1
<1> HIDE DEF h
<1>10. h[1] = v[1] /\ h[2] = v[2] /\ h[3] = v[3] /\ h[4] = v[4] /\ h[6] = g[2]
  BY <1>9, 4 + 2 = 6, 1 \in 1..4, 2 \in 1..4, 3 \in 1..4, 4 \in 1..4
<1>11. Heads(h, f)
  BY <1>1, <1>2, <1>6, <1>8, <1>9, <1>10 DEF Heads
<1> QED
  BY <1>5, <1>11

\* A frame is read as it was, and not at all when its end is missing.
LEMMA FrameIn ==
  ASSUME NEW f, Framed(f), NEW h, Heads(h, f), NEW j \in 0..(8 + Len(f.data))
  PROVE  /\ j < 8 + Len(f.data) => DecodeCanFrame(SubSeq(h \o f.data, 1, j)) = Error
         /\ j = 8 + Len(f.data) =>
              LET g == DecodeCanFrame(SubSeq(h \o f.data, 1, j))
              IN g.ok /\ g.id = f.id /\ g.extended = f.extended /\ g.data = f.data
<1>1. /\ f.id \in Nat /\ f.data \in Seq(Byte) /\ Len(f.data) <= 8 /\ f.extended \in BOOLEAN
      /\ Len(f.data) \in Nat /\ f.id <= MaxId(f.extended)
  BY LenProperties DEF Framed
<1>2. h \in Seq(Byte) /\ Len(h) = 8 /\ h[6] = Len(f.data)
  BY DEF Heads
<1>3. PICK a \in Byte, b \in Byte, c \in Byte, d \in Byte :
       /\ a < 32 /\ f.id = ((a * 256 + b) * 256 + c) * 256 + d
       /\ ~f.extended => a = 0
       /\ h[1] = a + Flag(f.extended, 128) /\ h[2] = b /\ h[3] = c /\ h[4] = d
  BY DEF Heads
<1>4. PICK p : p = h \o f.data
  OBVIOUS
<1>5. /\ p \in Seq(Byte) /\ Len(p) = 8 + Len(f.data)
      /\ \A i \in 1..8 : p[i] = h[i]
      /\ SubSeq(p, 8 + 1, 8 + Len(f.data)) = f.data
  <2>1. /\ p \in Seq(Byte) /\ Len(p) = 8 + Len(f.data)
        /\ \A i \in 1..8 : p[i] = h[i]
    <3>1. /\ h \o f.data \in Seq(Byte) /\ Len(h \o f.data) = Len(h) + Len(f.data)
          /\ \A i \in 1..Len(h) : (h \o f.data)[i] = h[i]
      BY <1>1, <1>2, Joined
    <3> QED
      BY <1>2, <1>4, <3>1
  <2>2. SubSeq(p, Len(h) + 1, Len(h) + Len(f.data)) = SubSeq(f.data, 1, Len(f.data))
    <3>1. \A k \in 0..Len(f.data) :
            SubSeq(h \o f.data, Len(h) + 1, Len(h) + k) = SubSeq(f.data, 1, k)
      BY <1>1, <1>2, Parted
    <3> QED
      BY <1>1, <1>4, <3>1
  <2>3. SubSeq(f.data, 1, Len(f.data)) = f.data
    BY <1>1, SubSeqFull
  <2> QED
    BY <1>2, <2>1, <2>2, <2>3
<1>6. PICK q : q = SubSeq(p, 1, j)
  OBVIOUS
<1>7. /\ q \in Seq(Byte) /\ Len(q) = j /\ \A k \in 1..j : q[k] = p[k]
  BY <1>1, <1>5, <1>6
<1>8. ASSUME j < 8 + Len(f.data) PROVE DecodeCanFrame(q) = Error
  <2>1. CASE j < 8
    BY <1>7, <2>1 DEF DecodeCanFrame
  <2>2. CASE j >= 8
    <3>1. U8(q, 5) = Len(f.data)
      BY <1>2, <1>5, <1>7, <2>2, 5 + 1 = 6, 6 \in 1..j, 6 \in 1..8 DEF U8
    <3> QED
      BY <1>7, <1>8, <3>1 DEF DecodeCanFrame
  <2> QED
    BY <2>1, <2>2
<1>9. ASSUME j = 8 + Len(f.data)
      PROVE  LET g == DecodeCanFrame(q)
             IN g.ok /\ g.id = f.id /\ g.extended = f.extended /\ g.data = f.data
  <2>1. q = p
    BY <1>5, <1>6, <1>9, SubSeqFull
  <2>2. /\ p[1] = a + Flag(f.extended, 128) /\ p[2] = b /\ p[3] = c /\ p[4] = d
        /\ p[6] = Len(f.data)
    <3>1. p[1] = h[1] /\ p[2] = h[2] /\ p[3] = h[3]
      BY <1>5, 1 \in 1..8, 2 \in 1..8, 3 \in 1..8
    <3>2. p[4] = h[4] /\ p[6] = h[6]
      BY <1>5, 4 \in 1..8, 6 \in 1..8
    <3> QED
      BY <1>2, <1>3, <3>1, <3>2, Zenon
  <2>3. Bit(U8(p, 0), 7) = f.extended /\ p[1] % 128 = a
    <3>0. 2^7 = 128 /\ U8(p, 0) = p[1] /\ 0 # 1
      BY SMT DEF U8
    <3>1. CASE f.extended = TRUE
      <4>1. p[1] = a + 128
        BY <2>2, <3>1 DEF Flag
      <4>2. (p[1] \div 128) % 2 = 1 /\ p[1] % 128 = a
        BY <1>3, <4>1, TopBit
      <4>3. Bit(U8(p, 0), 7) = TRUE
        BY <3>0, <4>2, Zenon DEF Bit
      <4> QED
        BY <3>1, <4>2, <4>3, Zenon
    <3>2. CASE f.extended = FALSE
      <4>1. p[1] = 0 /\ a = 0
        BY <1>3, <2>2, <3>2 DEF Flag
      <4>2. (p[1] \div 128) % 2 = 0 /\ p[1] % 128 = a
        BY <4>1, SMT
      <4>3. Bit(U8(p, 0), 7) = FALSE
        BY <3>0, <4>2, Zenon DEF Bit
      <4> QED
        BY <3>2, <4>2, <4>3, Zenon
    <3> QED
      BY <1>1, <3>1, <3>2
  <2>4. PICK r : r = [p EXCEPT ![1] = @ % 128]
    OBVIOUS
  <2>5. r[1] = a /\ r[2] = b /\ r[3] = c /\ r[4] = d
    <3>1. DOMAIN p = 1..Len(p) /\ Len(p) \in Nat /\ Len(p) >= 8
      BY <1>1, <1>5, LenProperties
    <3> QED
      BY <2>2, <2>3, <2>4, <3>1
  <2>6. U31(r, 0) = f.id
    <3>1. U31(r, 0) = 65536 * (256 * r[0 + 1] + r[0 + 1 + 1]) + (256 * r[0 + 2 + 1] + r[0 + 2 + 1 + 1])
      BY DEF U31, U16, U8
    <3> QED
      BY <1>3, <2>5, <3>1, Assembled,
         0 + 1 = 1, 0 + 1 + 1 = 2, 0 + 2 + 1 = 3, 0 + 2 + 1 + 1 = 4
  <2>7. f.id % (MaxId(f.extended) + 1) = f.id
    BY <1>1, SMT DEF MaxId, MaxExtId, MaxStdId
  <2>8. U8(p, 5) = Len(f.data) /\ Slice(p, 8, 8 + U8(p, 5)) = f.data
    BY <1>5, <2>2, 5 + 1 = 6 DEF U8, Slice
  <2>9. ~(Len(p) < 8) /\ ~(U8(p, 5) > 8) /\ ~(Len(p) < 8 + U8(p, 5))
    BY <1>1, <1>5, <2>8
  <2> QED
    BY <2>1, <2>3, <2>4, <2>6, <2>7, <2>8, <2>9, Zenon DEF DecodeCanFrame
<1> QED
  BY <1>4, <1>6, <1>8, <1>9

-----------------------------------------------------------------------------
LEMMA ZeroBytes ==
  ASSUME NEW n \in Nat
  PROVE  Zeros(n) \in Seq(Byte) /\ Len(Zeros(n)) = n
<1>1. 0 \in Byte
  BY DEF Byte
<1> QED
  BY <1>1 DEF Zeros

\* The beginning u of a datagram, n bytes of it.
Starts(u, n, type, size) ==
  /\ u \in Seq(Byte) /\ Len(u) = n
  /\ SubSeq(u, 1, 4) = Magic /\ u[5] = 1 /\ u[6] = type /\ u[9] = size

LEMMA StartGrows ==
  ASSUME NEW u, NEW n \in Nat, n >= 9, NEW type, NEW size, Starts(u, n, type, size),
         NEW k \in Nat, NEW t \in Seq(Byte), Len(t) = k
  PROVE  Starts(u \o t, n + k, type, size)
<1>1. u \in Seq(Byte) /\ Len(u) = n
  BY DEF Starts
<1>2. PICK v : v = u \o t
  OBVIOUS
<1>3. v \in Seq(Byte) /\ Len(v) = n + k /\ \A i \in 1..n : v[i] = u[i]
  <2>1. /\ u \o t \in Seq(Byte) /\ Len(u \o t) = Len(u) + Len(t)
        /\ \A i \in 1..Len(u) : (u \o t)[i] = u[i]
    BY <1>1, Joined
  <2> QED
    BY <1>1, <1>2, <2>1
<1>4. SubSeq(v, 1, 4) = SubSeq(u, 1, 4)
  <2>1. n <= Len(v) /\ n <= Len(u) /\ 4 \in Nat /\ 4 <= n /\ 1 \in Nat /\ 1 >= 1 /\ 1 <= 4 + 1
    BY <1>1, <1>3
  <2> QED
    BY <1>1, <1>3, <2>1, SameSlice
<1> QED
  BY <1>2, <1>3, <1>4 DEF Starts

LEMMA HeaderOut ==
  ASSUME NEW type \in Byte, NEW device \in Seq(Byte), Len(device) = 8,
         NEW token \in Seq(Byte), Len(token) <= MaxTokenLen
  PROVE  \E h : /\ Starts(h, HeaderLen + Len(token), type, Len(token))
               /\ EncodeRempHeader(type, device, token) = [ok |-> TRUE, bytes |-> h]
<1> DEFINE g == <<1, type, 0, 0, Len(token)>>
<1>1. Len(token) \in Nat /\ Len(token) <= 255
  BY LenProperties DEF MaxTokenLen
<1>2. g \in Seq(Byte) /\ Len(g) = 5 /\ g[1] = 1 /\ g[2] = type /\ g[5] = Len(token)
  BY <1>1, SmallIsByte, 0 \in Nat, 1 \in Nat
<1> HIDE DEF g
<1>3. Magic \in Seq(Byte) /\ Len(Magic) = 4
  BY SmallIsByte, 82 \in Nat, 69 \in Nat, 77 \in Nat, 80 \in Nat DEF Magic
<1>4. Starts(Magic \o g, 9, type, Len(token))
  <2>1. /\ Magic \o g \in Seq(Byte) /\ Len(Magic \o g) = Len(Magic) + Len(g)
        /\ \A i \in 1..Len(g) : (Magic \o g)[Len(Magic) + i] = g[i]
    BY <1>2, <1>3, Joined
  <2>2. SubSeq(Magic \o g, 1, Len(Magic)) = Magic
    BY <1>2, <1>3, Parted
  <2>3. PICK a : a = Magic \o g
    OBVIOUS
  <2>4. \A i \in 1..5 : a[4 + i] = g[i]
    BY <1>2, <1>3, <2>1, <2>3
  <2>5. a[5] = 1 /\ a[6] = type /\ a[9] = Len(token)
    BY <1>2, <2>4, 4 + 1 = 5, 4 + 2 = 6, 4 + 5 = 9, 1 \in 1..5, 2 \in 1..5, 5 \in 1..5
  <2> QED
    BY <1>2, <1>3, <2>1, <2>2, <2>3, <2>5, 4 + 5 = 9 DEF Starts
<1>5. /\ Zeros(2) \in Seq(Byte) /\ Zeros(4) \in Seq(Byte) /\ Zeros(8) \in Seq(Byte)
      /\ Len(Zeros(2)) = 2 /\ Len(Zeros(4)) = 4 /\ Len(Zeros(8)) = 8
  BY ZeroBytes, 2 \in Nat, 4 \in Nat, 8 \in Nat
<1>6. Starts(Magic \o g \o Zeros(2), 11, type, Len(token))
  BY <1>4, <1>5, StartGrows, 9 + 2 = 11, 9 \in Nat, 9 >= 9, 2 \in Nat
<1>7. Starts(Magic \o g \o Zeros(2) \o device, 19, type, Len(token))
  BY <1>6, StartGrows, 11 + 8 = 19, 11 \in Nat, 11 >= 9, 8 \in Nat
<1>8. Starts(Magic \o g \o Zeros(2) \o device \o Zeros(4), 23, type, Len(token))
  BY <1>5, <1>7, StartGrows, 19 + 4 = 23, 19 \in Nat, 19 >= 9, 4 \in Nat
<1>9. Starts(Magic \o g \o Zeros(2) \o device \o Zeros(4) \o Zeros(8), 31,
             type, Len(token))
  BY <1>5, <1>8, StartGrows, 23 + 8 = 31, 23 \in Nat, 23 >= 9, 8 \in Nat
<1>10. Starts(Magic \o g \o Zeros(2) \o device \o Zeros(4) \o Zeros(8) \o token,
              HeaderLen + Len(token), type, Len(token))
  BY <1>1, <1>9, StartGrows, 31 \in Nat, 31 >= 9 DEF HeaderLen
<1>11. ~(Len(token) > MaxTokenLen)
  BY <1>1 DEF MaxTokenLen
<1>12. EncodeRempHeader(type, device, token)
        = [ok |-> TRUE, bytes |-> Magic \o g \o Zeros(2) \o device \o Zeros(4)
                                    \o Zeros(8) \o token]
  BY <1>11, Zenon DEF EncodeRempHeader, g
<1> QED
  BY <1>10, <1>12

\* The header h of a datagram, n bytes of it with its token.
Header(h, n, type) ==
  \E size \in Nat : size <= MaxTokenLen /\ n = HeaderLen + size /\ Starts(h, n, type, size)

\* What k bytes of a datagram, with a header of n bytes and payload p, give.
IsRead(r, type, n, p, k) ==
  /\ k < n => r = Error
  /\ k >= n => r.ok /\ r.type = type /\ r.payload = SubSeq(p, 1, k - n)

\* A datagram is read as it was; of one that lost its end, the header says so,
\* or else the payload has lost it.
LEMMA DatagramIn ==
  ASSUME NEW type, NEW n, NEW h, Header(h, n, type), NEW p \in Seq(Byte),
         NEW k \in Nat, k <= n + Len(p)
  PROVE  IsRead(DecodeRempHeader(SubSeq(h \o p, 1, k)), type, n, p, k)
<1> PICK size \in Nat :
      size <= MaxTokenLen /\ n = HeaderLen + size /\ Starts(h, n, type, size)
  BY DEF Header
<1> n \in Nat
  BY DEF HeaderLen
<1>0. PICK r : r = DecodeRempHeader(SubSeq(h \o p, 1, k))
  OBVIOUS
<1>1. Len(p) \in Nat /\ h \in Seq(Byte) /\ Len(h) = n /\ n >= 31
  BY LenProperties DEF Starts, HeaderLen
<1>2. PICK b : b = h \o p
  OBVIOUS
<1>3. Starts(b, n + Len(p), type, size)
  BY <1>1, <1>2, StartGrows, n >= 9
<1>4. b \in Seq(Byte) /\ Len(b) = n + Len(p)
  BY <1>3 DEF Starts
<1>5. PICK m : m = SubSeq(b, 1, k)
  OBVIOUS
<1>6. m \in Seq(Byte) /\ Len(m) = k /\ \A i \in 1..k : m[i] = b[i]
  BY <1>1, <1>4, <1>5
<1>7. k < 31 => r = Error
  BY <1>0, <1>2, <1>5, <1>6 DEF DecodeRempHeader, HeaderLen
<1>8. ASSUME k >= 31
      PROVE  /\ U8(m, 4) = 1 /\ U8(m, 5) = type /\ U8(m, 8) = size
             /\ Slice(m, 0, 4) = Magic
  <2>1. m[5] = 1 /\ m[6] = type /\ m[9] = size
    BY <1>3, <1>6, <1>8, 5 \in 1..k, 6 \in 1..k, 9 \in 1..k DEF Starts
  <2>2. SubSeq(m, 1, 4) = Magic
    <3>1. k <= Len(m) /\ k <= Len(b) /\ 4 \in Nat /\ 4 <= k /\ 1 \in Nat /\ 1 >= 1 /\ 1 <= 4 + 1
      BY <1>1, <1>4, <1>6, <1>8
    <3>2. SubSeq(m, 1, 4) = SubSeq(b, 1, 4)
      BY <1>4, <1>6, <3>1, SameSlice
    <3> QED
      BY <1>3, <3>2 DEF Starts
  <2> QED
    BY <2>1, <2>2, 4 + 1 = 5, 5 + 1 = 6, 8 + 1 = 9, 0 + 1 = 1 DEF U8, Slice
<1>9. ASSUME k >= 31, k < n PROVE r = Error
  <2>1. HeaderLen + U8(m, 8) > Len(m)
    BY <1>6, <1>8, <1>9 DEF HeaderLen
  <2> QED
    BY <1>0, <1>2, <1>5, <2>1, Zenon DEF DecodeRempHeader
<1>10. ASSUME k >= n
       PROVE  r.ok /\ r.type = type /\ r.payload = SubSeq(p, 1, k - n)
  <2>1. /\ ~(Len(m) < HeaderLen) /\ ~(U8(m, 8) > MaxTokenLen)
        /\ ~(HeaderLen + U8(m, 8) > Len(m))
    BY <1>1, <1>6, <1>8, <1>10 DEF HeaderLen, MaxTokenLen
  <2>2. U8(m, 4) = 1 /\ U8(m, 5) = type /\ U8(m, 8) = size /\ Slice(m, 0, 4) = Magic
    BY <1>1, <1>8, <1>10
  <2>3. r.ok /\ r.type = U8(m, 5) /\ r.payload = Slice(m, HeaderLen + U8(m, 8), Len(m))
    BY <1>0, <1>2, <1>5, <2>1, <2>2, Zenon DEF DecodeRempHeader
  <2>4. Slice(m, HeaderLen + U8(m, 8), Len(m)) = SubSeq(m, n + 1, k)
    BY <1>6, <2>2 DEF Slice
  <2>5. PICK j \in Nat : k = n + j /\ j <= Len(p) /\ k - n = j
    BY <1>1, <1>10, k - n \in Nat, k = n + (k - n), k - n <= Len(p)
  <2>6. SubSeq(b, n + 1, n + j) = SubSeq(p, 1, j)
    <3>1. \A i \in 0..Len(p) : SubSeq(h \o p, Len(h) + 1, Len(h) + i) = SubSeq(p, 1, i)
      BY <1>1, Parted
    <3>0. j \in 0..Len(p)
      BY <1>1, <2>5
    <3>2. SubSeq(h \o p, Len(h) + 1, Len(h) + j) = SubSeq(p, 1, j)
      BY <3>0, <3>1, Zenon
    <3> QED
      BY <1>1, <1>2, <3>2
  <2>7. SubSeq(m, n + 1, k) = SubSeq(b, n + 1, k)
    <3>1. /\ k <= Len(m) /\ k <= Len(b) /\ n + 1 \in Nat /\ n + 1 >= 1 /\ k <= k
          /\ n + 1 <= k + 1
      BY <1>1, <1>4, <1>6, <1>10
    <3>2. PICK l \in Nat : l = n + 1
      BY <3>1
    <3>3. SubSeq(m, l, k) = SubSeq(b, l, k)
      BY <1>4, <1>6, <3>1, <3>2, SameSlice, SMTT(60)
    <3> QED
      BY <3>2, <3>3
  <2> QED
    BY <2>2, <2>3, <2>4, <2>5, <2>6, <2>7
<1> QED
  BY <1>0, <1>1, <1>7, <1>9, <1>10 DEF IsRead

LEMMA FrameSize ==
  ASSUME NEW size \in Nat, size <= 64, NEW l \in Nat, l <= 8, NEW n, n = 31 + size
  PROVE  n + (8 + l) <= 111
OBVIOUS

\* The datagram of a frame.
LEMMA FrameTravels ==
  ASSUME NEW f, Framed(f), NEW token \in Seq(Byte), Len(token) <= MaxTokenLen
  PROVE  \E b \in Seq(Byte) :
           /\ Datagram(CanType, Device, token, EncodeCanFrame(f)) = [ok |-> TRUE, bytes |-> b]
           /\ SameFrame(DongleFrame(b), f) /\ DongleFrame(b).ok
           /\ DecodeRempHeader(b).ok /\ DecodeRempHeader(b).type = CanType
           /\ Len(b) <= 111
           /\ \A k \in 0..(Len(b) - 1) :
                LET r == DecodeRempHeader(SubSeq(b, 1, k))
                IN r = Error \/ DecodeCanFrame(r.payload) = Error
<1>1. PICK g : Heads(g, f) /\ EncodeCanFrame(f) = [ok |-> TRUE, bytes |-> g \o f.data]
  BY FrameOut
<1>2. CanType \in Byte /\ Device \in Seq(Byte) /\ Len(Device) = 8
  BY CodecsAssumption, SmallIsByte, 0 \in Nat DEF CodecsAssumption, FramesAssumption, CanType
<1>3. PICK size \in Nat : size = Len(token)
  BY LenProperties
<1>4. PICK n \in Nat : n = HeaderLen + size
  BY DEF HeaderLen
<1>5. PICK h : /\ Starts(h, n, CanType, size)
               /\ EncodeRempHeader(CanType, Device, token) = [ok |-> TRUE, bytes |-> h]
  BY <1>2, <1>3, <1>4, HeaderOut
<1>6. PICK p : p = g \o f.data
  OBVIOUS
<1>7. /\ f.data \in Seq(Byte) /\ Len(f.data) \in Nat
      /\ p \in Seq(Byte) /\ Len(p) = 8 + Len(f.data)
  <2>1. g \in Seq(Byte) /\ Len(g) = 8 /\ f.data \in Seq(Byte)
    BY <1>1 DEF Heads, Framed
  <2>2. p \in Seq(Byte) /\ Len(p) = Len(g) + Len(f.data)
    BY <1>6, <2>1, Joined
  <2> QED
    BY <2>1, <2>2, LenProperties
<1>8. PICK b : b = h \o p
  OBVIOUS
<1>9. b \in Seq(Byte) /\ Len(b) = n + Len(p) /\ SubSeq(b, 1, Len(b)) = b /\ Len(b) \in Nat
  <2>1. h \in Seq(Byte) /\ Len(h) = n
    BY <1>5 DEF Starts
  <2>2. b \in Seq(Byte) /\ Len(b) = Len(h) + Len(p)
    BY <1>7, <1>8, <2>1, Joined
  <2> QED
    BY <2>1, <2>2, SubSeqFull, LenProperties
<1>10. Datagram(CanType, Device, token, EncodeCanFrame(f)) = [ok |-> TRUE, bytes |-> b]
  <2>1. PICK x : x = EncodeRempHeader(CanType, Device, token)
    OBVIOUS
  <2>2. PICK y : y = EncodeCanFrame(f)
    OBVIOUS
  <2>3. x.ok /\ x.bytes = h /\ y.ok /\ y.bytes = p
    BY <1>1, <1>5, <1>6, <2>1, <2>2
  <2> QED
    BY <1>8, <2>1, <2>2, <2>3, Zenon DEF Datagram
<1>11. ASSUME NEW k \in Nat, k <= Len(b), NEW r, r = DecodeRempHeader(SubSeq(b, 1, k))
       PROVE  /\ k < n => r = Error
              /\ k >= n => r.ok /\ r.type = CanType /\ r.payload = SubSeq(p, 1, k - n)
  <2>1. Header(h, n, CanType)
    BY <1>3, <1>4, <1>5 DEF Header
  <2>2. k <= n + Len(p) /\ r = DecodeRempHeader(SubSeq(h \o p, 1, k))
    BY <1>8, <1>9, <1>11
  <2>3. p \in Seq(Byte) /\ k \in Nat
    BY <1>7
  <2>4. IsRead(DecodeRempHeader(SubSeq(h \o p, 1, k)), CanType, n, p, k)
    BY <2>1, <2>2, <2>3, DatagramIn
  <2> QED
    BY <2>2, <2>4 DEF IsRead
<1>12. /\ DecodeRempHeader(b).ok /\ DecodeRempHeader(b).type = CanType
       /\ DecodeRempHeader(b).payload = p
  <2>1. PICK r : r = DecodeRempHeader(b)
    OBVIOUS
  <2>2. Len(b) >= n /\ Len(b) - n = Len(p)
    BY <1>7, <1>9
  <2>3. r = DecodeRempHeader(SubSeq(b, 1, Len(b)))
    BY <1>9, <2>1, Zenon
  <2>4. r.ok /\ r.type = CanType /\ r.payload = SubSeq(p, 1, Len(b) - n)
    BY <1>9, <1>11, <2>2, <2>3
  <2> QED
    BY <1>7, <2>1, <2>2, <2>4, SubSeqFull
<1>13. SameFrame(DongleFrame(b), f) /\ DongleFrame(b).ok
  <2>1. PICK j \in 0..(8 + Len(f.data)) : j = 8 + Len(f.data)
    BY <1>7
  <2>2. PICK e : e = DecodeCanFrame(SubSeq(g \o f.data, 1, j))
    OBVIOUS
  <2>3. e.ok /\ e.id = f.id /\ e.extended = f.extended /\ e.data = f.data
    BY <1>1, <2>1, <2>2, FrameIn
  <2>4. SubSeq(g \o f.data, 1, j) = p
    BY <1>6, <1>7, <2>1, SubSeqFull
  <2> QED
    BY <1>12, <2>2, <2>3, <2>4 DEF DongleFrame, SameFrame
<1>14. ASSUME NEW k \in 0..(Len(b) - 1), NEW r, r = DecodeRempHeader(SubSeq(b, 1, k))
       PROVE  r = Error \/ DecodeCanFrame(r.payload) = Error
  <2>0. k \in Nat /\ k <= Len(b)
    BY <1>9
  <2>1. CASE k < n
    BY <1>11, <1>14, <2>0, <2>1, Zenon
  <2>2. CASE k >= n
    <3>1. r.payload = SubSeq(p, 1, k - n)
      BY <1>11, <1>14, <2>0, <2>2, Zenon
    <3>2. PICK j \in 0..(8 + Len(f.data)) : j = k - n /\ j < 8 + Len(f.data)
      BY <1>7, <1>9, <2>2, k - n \in 0..(8 + Len(f.data))
    <3>3. DecodeCanFrame(SubSeq(g \o f.data, 1, j)) = Error
      BY <1>1, <3>2, FrameIn
    <3> QED
      BY <1>6, <3>1, <3>2, <3>3
  <2> QED
    BY <2>1, <2>2
<1>15. Len(b) <= 111
  <2>1. PICK l \in Nat : l = Len(f.data) /\ l <= 8
    BY <1>7 DEF Framed
  <2>2. size <= 64 /\ n = 31 + size
    BY <1>3, <1>4 DEF HeaderLen, MaxTokenLen
  <2>3. Len(b) = n + (8 + l)
    BY <1>7, <1>9, <2>1
  <2>4. n + (8 + l) <= 111
    BY <2>1, <2>2, FrameSize
  <2> QED
    BY <2>3, <2>4
<1> QED
  BY <1>9, <1>10, <1>12, <1>13, <1>14, <1>15

-----------------------------------------------------------------------------
\* A set of numbers has a smallest one.
LEMMA NoneBelow ==
  ASSUME NEW T, T \subseteq Nat, T # {}
  PROVE  \E x \in T : \A y \in T : ~ (y < x)
<1>1. PICK x \in T : \A y \in T : ~ (<<y, x>> \in OpToRel(<, Nat))
  BY NatLessThanWellFounded, WFMin
<1>2. ASSUME NEW y \in T, y < x PROVE <<y, x>> \in OpToRel(<, Nat)
  <2>1. <<y, x>> \in Nat \X Nat
    OBVIOUS
  <2> QED
    BY <1>2, <2>1 DEF OpToRel
<1> QED
  BY <1>1, <1>2, Zenon

\* The number x with the digit d after it.
After(x, d) == IF x > MaxExtId \div 16 THEN TooBig ELSE 16 * x + d

LEMMA AfterIsNumber ==
  ASSUME NEW x \in Nat, NEW d \in 0..16
  PROVE  After(x, d) \in Nat
<1>1. TooBig \in Nat
  BY SMT DEF TooBig, MaxExtId
<1>2. 16 * x + d \in Nat
  OBVIOUS
<1> QED
  BY <1>1, <1>2, Zenon DEF After

\* The values v of the beginnings of a text, up to k digits.
Valued(v, k, text) ==
  /\ v \in [0..k -> Nat] /\ v[0] = 0
  /\ \A i \in 1..k : v[i] = After(v[i - 1], text[i])

LEMMA HasValues ==
  ASSUME NEW text \in Seq(0..16), NEW n \in 0..Len(text)
  PROVE  \E v : Valued(v, n, text)
<1> DEFINE T == {k \in 0..Len(text) : ~ \E v : Valued(v, k, text)}
<1>1. Len(text) \in Nat
  OBVIOUS
<1>2. SUFFICES ASSUME T # {} PROVE FALSE
  OBVIOUS
<1>3. PICK k \in T : \A j \in T : ~ (j < k)
  BY <1>1, <1>2, NoneBelow, T \subseteq Nat
<1>4. CASE k = 0
  <2> DEFINE v == [i \in 0..0 |-> 0]
  <2>1. v \in [0..0 -> Nat] /\ v[0] = 0 /\ 1..0 = {}
    OBVIOUS
  <2> QED
    BY <1>3, <1>4, <2>1 DEF Valued
<1>5. CASE k # 0
  <2>1. k - 1 \in 0..Len(text) /\ k - 1 < k /\ k - 1 \notin T
    BY <1>1, <1>3, <1>5
  <2>2. PICK v : Valued(v, k - 1, text)
    BY <2>1
  <2>3. PICK x : x = After(v[k - 1], text[k])
    OBVIOUS
  <2>4. v[k - 1] \in Nat /\ text[k] \in 0..16
    BY <1>1, <1>3, <1>5, <2>2 DEF Valued
  <2>5. x \in Nat
    BY <2>3, <2>4, AfterIsNumber
  <2> DEFINE w == [i \in 0..k |-> IF i = k THEN x ELSE v[i]]
  <2>6. w \in [0..k -> Nat] /\ w[0] = 0
    BY <1>1, <1>3, <1>5, <2>2, <2>5 DEF Valued
  <2>7. ASSUME NEW i \in 1..k PROVE w[i] = After(w[i - 1], text[i])
    <3>1. w[i - 1] = v[i - 1]
      BY <1>1, <1>3, i - 1 \in 0..k, i - 1 # k
    <3>2. CASE i = k
      BY <1>1, <1>3, <2>3, <3>1, <3>2
    <3>3. CASE i # k
      <4>1. w[i] = v[i] /\ i \in 1..(k - 1)
        BY <1>1, <1>3, <3>3
      <4> QED
        BY <2>2, <3>1, <4>1 DEF Valued
    <3> QED
      BY <3>2, <3>3
  <2>8. Valued(w, k, text)
    <3> HIDE DEF w
    <3> QED
      BY <2>6, <2>7 DEF Valued
  <2> QED
    BY <1>3, <2>8
<1> QED
  BY <1>4, <1>5

\* The number of a text is the last of the values.
LEMMA NumberIs ==
  ASSUME NEW text \in Seq(0..16)
  PROVE  \E v : Valued(v, Len(text), text) /\ Number(text) = v[Len(text)]
<1> DEFINE F(v) == v = [i \in 0..Len(text) |->
                         IF i = 0 THEN 0 ELSE After(v[i - 1], text[i])]
<1>1. Number(text) = (CHOOSE v : F(v))[Len(text)]
  BY Zenon DEF Number, After
<1>2. Len(text) \in Nat /\ Len(text) \in 0..Len(text)
  OBVIOUS
<1>3. PICK u : Valued(u, Len(text), text)
  BY <1>2, HasValues
<1>4. F(u)
  BY <1>2, <1>3 DEF Valued
<1>5. PICK w : w = CHOOSE v : F(v)
  OBVIOUS
<1>6. F(w)
  BY <1>4, <1>5, Zenon
<1>7. ASSUME NEW i \in 0..Len(text) PROVE w[i] = u[i]
  <2> DEFINE D == {j \in 0..Len(text) : w[j] # u[j]}
  <2>1. SUFFICES ASSUME D # {} PROVE FALSE
    BY <1>7
  <2>2. PICK k \in D : \A j \in D : ~ (j < k)
    BY <1>2, <2>1, NoneBelow, D \subseteq Nat
  <2>3. k # 0
    BY <1>2, <1>3, <1>6, <2>2 DEF Valued
  <2>4. k - 1 \in 0..Len(text) /\ k - 1 \notin D
    BY <1>2, <2>2, <2>3
  <2>5. w[k] = After(w[k - 1], text[k])
    BY <1>6, <2>2, <2>3
  <2>6. u[k] = After(u[k - 1], text[k])
    BY <1>2, <1>3, <2>2, <2>3 DEF Valued
  <2> QED
    BY <2>2, <2>4, <2>5, <2>6
<1>8. Number(text) = u[Len(text)]
  BY <1>1, <1>2, <1>5, <1>7
<1> QED
  BY <1>3, <1>8

LEMMA NumberIsNumber ==
  ASSUME NEW text \in Seq(0..16)
  PROVE  Number(text) \in Nat
<1>1. PICK v : Valued(v, Len(text), text) /\ Number(text) = v[Len(text)]
  BY NumberIs
<1> QED
  BY <1>1 DEF Valued

\* The text of k digits that stands for n.
Spelt(text, k, n) ==
  /\ k \in 1..8 /\ n < 16^k
  /\ text = [i \in 1..k |-> (n \div 16^(k - i)) % 16]

\* The text of any number.
LEMMA DigitsAre ==
  ASSUME NEW n \in Nat
  PROVE  /\ Digits(n) \in Seq(Int)
         /\ \E k \in 1..8 : /\ k = 8 \/ n < 16^k
                            /\ Digits(n) = [i \in 1..k |-> (n \div 16^(k - i)) % 16]
<1> DEFINE C(i) == /\ i = 1 \/ n >= 16^(i - 1)
                   /\ i = 8 \/ n < 16^i
<1>1. \E i \in 1..8 : C(i)
  <2>1. CASE n < 16^1
    BY <2>1, SMT
  <2>2. CASE n >= 16^1 /\ n < 16^2
    BY <2>2, SMT, 2 \in 1..8, 2 - 1 = 1
  <2>3. CASE n >= 16^2 /\ n < 16^3
    BY <2>3, SMT, 3 \in 1..8, 3 - 1 = 2
  <2>4. CASE n >= 16^3 /\ n < 16^4
    BY <2>4, SMT, 4 \in 1..8, 4 - 1 = 3
  <2>5. CASE n >= 16^4 /\ n < 16^5
    BY <2>5, SMT, 5 \in 1..8, 5 - 1 = 4
  <2>6. CASE n >= 16^5 /\ n < 16^6
    BY <2>6, SMT, 6 \in 1..8, 6 - 1 = 5
  <2>7. CASE n >= 16^6 /\ n < 16^7
    BY <2>7, SMT, 7 \in 1..8, 7 - 1 = 6
  <2>8. CASE n >= 16^7
    BY <2>8, SMT, 8 \in 1..8, 8 - 1 = 7
  <2> QED
    BY <2>1, <2>2, <2>3, <2>4, <2>5, <2>6, <2>7, <2>8, SMT
<1>2. PICK k : k = CHOOSE i \in 1..8 : C(i)
  OBVIOUS
<1>3. k \in 1..8 /\ C(k)
  BY <1>1, <1>2, Zenon
<1>4. Digits(n) = [i \in 1..k |-> (n \div 16^(k - i)) % 16]
  <2>1. Digits(n) = [j \in 1..(CHOOSE i \in 1..8 : C(i)) |->
                      (n \div 16^((CHOOSE i \in 1..8 : C(i)) - j)) % 16]
    BY DEF Digits
  <2> QED
    BY <1>2, <2>1, Zenon
<1>5. ASSUME NEW i \in 1..k PROVE (n \div 16^(k - i)) % 16 \in Int
  <2>1. PICK x : x = n \div 16^(k - i)
    OBVIOUS
  <2>2. k - i \in {0, 1, 2, 3, 4, 5, 6, 7}
    BY <1>3
  <2>3. x \in Int
    BY <2>1, <2>2, SMT
  <2> QED
    BY <2>1, <2>3
<1>6. Digits(n) \in Seq(Int)
  BY <1>3, <1>4, <1>5
<1> QED
  BY <1>3, <1>4, <1>6

LEMMA HexSpells ==
  ASSUME NEW n \in Nat, n <= MaxExtId
  PROVE  \E k : Spelt(HexOf(n), k, n)
<1>1. HexOf(n) = Digits(n)
  <2>1. ~(n < 0)
    OBVIOUS
  <2> QED
    BY <2>1, Zenon DEF HexOf
<1>2. PICK k \in 1..8 : /\ k = 8 \/ n < 16^k
                        /\ Digits(n) = [i \in 1..k |-> (n \div 16^(k - i)) % 16]
  BY DigitsAre
<1>3. n < 16^k
  <2>1. CASE k = 8
    BY <2>1, SMT DEF MaxExtId
  <2> QED
    BY <1>2, <2>1
<1> QED
  BY <1>1, <1>2, <1>3, Zenon DEF Spelt

LEMMA SpeltIsText ==
  ASSUME NEW n \in Nat, NEW text, NEW k, Spelt(text, k, n)
  PROVE  /\ text \in Seq(0..16) /\ Len(text) = k /\ text # <<>> /\ IsHex(text)
<1>1. k \in 1..8 /\ text = [i \in 1..k |-> (n \div 16^(k - i)) % 16]
  BY DEF Spelt
<1>2. ASSUME NEW i \in 1..k
      PROVE  text[i] \in 0..15
  <2>1. PICK x : x = n \div 16^(k - i)
    OBVIOUS
  <2>2. x \in Int
    <3>1. k - i \in {0, 1, 2, 3, 4, 5, 6, 7}
      BY <1>1
    <3> QED
      BY <2>1, <3>1, SMT
  <2>3. text[i] = x % 16
    BY <1>1, <2>1
  <2> QED
    BY <2>2, <2>3
<1>3. text \in Seq(0..16) /\ Len(text) = k
  BY <1>1, <1>2
<1>4. text # <<>>
  BY <1>1, <1>3
<1>5. IsHex(text)
  BY <1>1, <1>2, <1>3 DEF IsHex, NotHex
<1> QED
  BY <1>3, <1>4, <1>5

\* One more digit of a number.
LEMMA NextDigit ==
  ASSUME NEW n \in Nat, n <= MaxExtId, NEW j \in 0..7, NEW x, NEW d,
         x = n \div 16^(j + 1), d = (n \div 16^j) % 16
  PROVE  After(x, d) = n \div 16^j
<1>1. ~(x > MaxExtId \div 16) /\ 16 * x + d = n \div 16^j
  <2>1. CASE j = 0
    BY <2>1, SMT DEF MaxExtId
  <2>2. CASE j = 1
    BY <2>2, SMT DEF MaxExtId
  <2>3. CASE j = 2
    BY <2>3, SMT DEF MaxExtId
  <2>4. CASE j = 3
    BY <2>4, SMT DEF MaxExtId
  <2>5. CASE j = 4
    BY <2>5, SMT DEF MaxExtId
  <2>6. CASE j = 5
    BY <2>6, SMT DEF MaxExtId
  <2>7. CASE j = 6
    BY <2>7, SMT DEF MaxExtId
  <2>8. CASE j = 7
    BY <2>8, SMT DEF MaxExtId
  <2> QED
    BY <2>1, <2>2, <2>3, <2>4, <2>5, <2>6, <2>7, <2>8, SMT
<1> QED
  BY <1>1, Zenon DEF After

\* A number that the text of a number stands for is that number.
LEMMA NumberOfHex ==
  ASSUME NEW n \in Nat, n <= MaxExtId
  PROVE  /\ HexOf(n) \in Seq(0..16) /\ HexOf(n) # <<>> /\ IsHex(HexOf(n))
         /\ Number(HexOf(n)) = n
<1>1. PICK text : text = HexOf(n)
  OBVIOUS
<1>2. PICK k : Spelt(text, k, n)
  BY <1>1, HexSpells
<1>3. text \in Seq(0..16) /\ Len(text) = k /\ text # <<>> /\ IsHex(text)
  BY <1>2, SpeltIsText
<1>4. PICK v : Valued(v, Len(text), text) /\ Number(text) = v[Len(text)]
  BY <1>3, NumberIs
<1>5. k \in 1..8 /\ Valued(v, k, text) /\ Number(text) = v[k]
  BY <1>2, <1>3, <1>4 DEF Spelt
<1> DEFINE Q(j) == v[k - j] = n \div 16^j
<1>6. Q(k)
  <2>1. n \div 16^k = 0
    <3>1. n < 16^k /\ 16^k \in Nat
      <4>1. k \in {1, 2, 3, 4, 5, 6, 7, 8}
        BY <1>5
      <4> QED
        BY <1>2, <4>1, SMT DEF Spelt
    <3> QED
      BY <3>1
  <2>2. v[k - k] = 0
    BY <1>5, k - k = 0 DEF Valued
  <2> QED
    BY <2>1, <2>2
<1>7. ASSUME NEW j \in 0..7, j < k, Q(j + 1) PROVE Q(j)
  <2>1. PICK i : i = k - j
    OBVIOUS
  <2>2. i \in 1..k /\ i - 1 = k - (j + 1) /\ k - i = j
    BY <1>5, <1>7, <2>1
  <2>3. v[i] = After(v[i - 1], text[i])
    BY <1>5, <2>2 DEF Valued
  <2>4. text[i] = (n \div 16^j) % 16
    BY <1>2, <2>2 DEF Spelt
  <2>5. v[i - 1] = n \div 16^(j + 1)
    BY <1>7, <2>2
  <2>6. After(v[i - 1], text[i]) = n \div 16^j
    BY <2>4, <2>5, NextDigit
  <2> QED
    BY <2>1, <2>3, <2>6
<1> HIDE DEF Q
<1>8. k >= 8 => Q(8)
  BY <1>5, <1>6
<1>9. k >= 7 => Q(7)
  BY <1>5, <1>6, <1>7, <1>8, 7 + 1 = 8
<1>10. k >= 6 => Q(6)
  BY <1>5, <1>6, <1>7, <1>9, 6 + 1 = 7
<1>11. k >= 5 => Q(5)
  BY <1>5, <1>6, <1>7, <1>10, 5 + 1 = 6
<1>12. k >= 4 => Q(4)
  BY <1>5, <1>6, <1>7, <1>11, 4 + 1 = 5
<1>13. k >= 3 => Q(3)
  BY <1>5, <1>6, <1>7, <1>12, 3 + 1 = 4
<1>14. k >= 2 => Q(2)
  BY <1>5, <1>6, <1>7, <1>13, 2 + 1 = 3
<1>15. k >= 1 => Q(1)
  BY <1>5, <1>6, <1>7, <1>14, 1 + 1 = 2
<1>16. Q(0)
  BY <1>5, <1>7, <1>15, 0 + 1 = 1
<1>17. v[k] = n
  <2>1. n \div 16^0 = n /\ k - 0 = k
    BY <1>5, SMT
  <2> QED
    BY <1>16, <2>1 DEF Q
<1> QED
  BY <1>1, <1>3, <1>5, <1>17

-----------------------------------------------------------------------------
\* The text of data, and the data of a text.
LEMMA HexDataParsed ==
  ASSUME NEW d \in Seq(Byte)
  PROVE  /\ HexData(d) \in Seq(0..15) /\ Len(HexData(d)) = 2 * Len(d)
         /\ ParseDataHex(HexData(d)) = [ok |-> TRUE, data |-> d]
<1>1. PICK t : t = HexData(d)
  OBVIOUS
<1>2. Len(d) \in Nat
  OBVIOUS
<1>3. ASSUME NEW j \in 1..Len(d)
      PROVE  /\ d[j] \in Byte
             /\ d[j] \div 16 \in 0..15 /\ d[j] % 16 \in 0..15
             /\ 16 * (d[j] \div 16) + (d[j] % 16) = d[j]
  <2>1. d[j] \in Byte
    OBVIOUS
  <2>2. PICK x \in Byte : x = d[j]
    BY <2>1
  <2>3. x \div 16 \in 0..15 /\ x % 16 \in 0..15 /\ 16 * (x \div 16) + (x % 16) = x
    BY SMT DEF Byte
  <2> QED
    BY <2>2, <2>3
<1>4. t = [i \in 1..(2 * Len(d)) |-> IF i % 2 = 1 THEN d[(i + 1) \div 2] \div 16
                                     ELSE d[i \div 2] % 16]
  BY <1>1 DEF HexData
<1>5. ASSUME NEW i \in 1..(2 * Len(d)) PROVE t[i] \in 0..15
  <2>1. i % 2 = 1 \/ i % 2 = 0
    OBVIOUS
  <2>2. CASE i % 2 = 1
    <3>1. (i + 1) \div 2 \in 1..Len(d)
      BY <1>2, <2>2
    <3> QED
      BY <1>3, <1>4, <2>2, <3>1
  <2>3. CASE i % 2 = 0
    <3>1. i \div 2 \in 1..Len(d)
      BY <1>2, <2>3
    <3> QED
      BY <1>3, <1>4, <2>3, <3>1
  <2> QED
    BY <2>1, <2>2, <2>3
<1>6. t \in Seq(0..15) /\ Len(t) = 2 * Len(d)
  BY <1>2, <1>4, <1>5
<1>7. EvenHex(t)
  <2>1. IsHex(t)
    <3>1. ASSUME NEW i \in 1..Len(t) PROVE t[i] # 16
      <4>1. t[i] \in 0..15
        BY <1>5, <1>6
      <4> QED
        BY <4>1
    <3> QED
      BY <3>1, Zenon DEF IsHex, NotHex
  <2>2. Len(t) % 2 = 0
    BY <1>2, <1>6
  <2> QED
    BY <2>1, <2>2 DEF EvenHex
<1>8. Len(t) \div 2 = Len(d)
  BY <1>2, <1>6
<1>9. ASSUME NEW j \in 1..Len(d) PROVE 16 * t[2 * j - 1] + t[2 * j] = d[j]
  <2>1. /\ 2 * j - 1 \in 1..(2 * Len(d)) /\ (2 * j - 1) % 2 = 1
        /\ ((2 * j - 1) + 1) \div 2 = j
        /\ 2 * j \in 1..(2 * Len(d)) /\ (2 * j) % 2 = 0 /\ (2 * j) \div 2 = j
    BY <1>2
  <2>2. t[2 * j - 1] = d[j] \div 16 /\ t[2 * j] = d[j] % 16
    BY <1>4, <2>1
  <2> QED
    BY <1>3, <2>2
<1>10. [i \in 1..(Len(t) \div 2) |-> 16 * t[2 * i - 1] + t[2 * i]] = d
  BY <1>2, <1>8, <1>9
<1>11. ParseDataHex(t) = [ok |-> TRUE, data |-> d]
  BY <1>7, <1>10, Zenon DEF ParseDataHex
<1> QED
  BY <1>1, <1>6, <1>11

LEMMA ParsedIsData ==
  ASSUME NEW text \in Seq(0..16), EvenHex(text), Len(text) <= 16
  PROVE  /\ ParseDataHex(text).ok /\ ParseDataHex(text).data \in Seq(Byte)
         /\ Len(ParseDataHex(text).data) <= 8
<1>1. Len(text) \in Nat /\ Len(text) \div 2 \in Nat /\ Len(text) \div 2 <= 8
  OBVIOUS
<1>2. ASSUME NEW i \in 1..(Len(text) \div 2)
      PROVE  16 * text[2 * i - 1] + text[2 * i] \in Byte
  <2>1. 2 * i - 1 \in 1..Len(text) /\ 2 * i \in 1..Len(text)
    BY <1>1
  <2>2. text[2 * i - 1] \in 0..15 /\ text[2 * i] \in 0..15
    <3>1. \A j \in 1..Len(text) : text[j] # 16
      BY Zenon DEF EvenHex, IsHex, NotHex
    <3>2. \A j \in 1..Len(text) : text[j] \in 0..16
      OBVIOUS
    <3>3. \A j \in 1..Len(text) : text[j] \in 0..15
      <4> SUFFICES ASSUME NEW j \in 1..Len(text) PROVE text[j] \in 0..15
        OBVIOUS
      <4>1. text[j] # 16 /\ text[j] \in 0..16
        BY <3>1, <3>2, Zenon
      <4> QED
        BY <4>1
    <3> QED
      BY <2>1, <3>3, Zenon
  <2>3. PICK x \in 0..15, y \in 0..15 : x = text[2 * i - 1] /\ y = text[2 * i]
    BY <2>2
  <2>4. 16 * x + y \in Byte
    BY SMT DEF Byte
  <2> QED
    BY <2>3, <2>4
<1>3. PICK d : d = [i \in 1..(Len(text) \div 2) |-> 16 * text[2 * i - 1] + text[2 * i]]
  OBVIOUS
<1>4. d \in Seq(Byte) /\ Len(d) <= 8
  BY <1>1, <1>2, <1>3
<1>5. ParseDataHex(text) = [ok |-> TRUE, data |-> d]
  BY <1>3, Zenon DEF ParseDataHex
<1> QED
  BY <1>4, <1>5

-----------------------------------------------------------------------------
\* A message of which the agent can make a datagram.
Sendable(m) ==
  /\ m.id \in Seq(0..16) /\ m.id # <<>> /\ IsHex(m.id)
  /\ m.extended \in BOOLEAN /\ Number(m.id) <= MaxId(m.extended)
  /\ m.data \in Seq(0..16) /\ EvenHex(m.data) /\ Len(m.data) <= 16

MeantFrame(m) ==
  [id |-> Number(m.id), extended |-> m.extended, data |-> ParseDataHex(m.data).data]

\* The datagram that the agent makes of a message is the frame it means.
LEMMA AgentWrites ==
  ASSUME NEW m, Sendable(m)
  PROVE  /\ FrameDatagram(m).ok
         /\ FrameDatagram(m).bytes \in Seq(Byte) /\ Len(FrameDatagram(m).bytes) <= 111
         /\ DongleFrame(FrameDatagram(m).bytes).ok
         /\ SameFrame(DongleFrame(FrameDatagram(m).bytes), MeantFrame(m))
<1>1. PICK n : n = Number(m.id)
  OBVIOUS
<1>2. PICK d : d = ParseDataHex(m.data).data
  OBVIOUS
<1>3. n \in Nat /\ n <= MaxId(m.extended) /\ m.extended \in BOOLEAN
  BY <1>1, NumberIsNumber DEF Sendable
<1>4. d \in Seq(Byte) /\ Len(d) <= 8 /\ ParseDataHex(m.data).ok
  BY <1>2, ParsedIsData DEF Sendable
<1>5. PICK f : f = [id |-> n, extended |-> m.extended, data |-> d,
                    simulated |-> FALSE, loopback |-> FALSE]
  OBVIOUS
<1>6. Framed(f) /\ SameFrame(f, MeantFrame(m))
  BY <1>1, <1>2, <1>3, <1>4, <1>5 DEF Framed, SameFrame, MeantFrame
<1>7. Token \in Seq(Byte) /\ Len(Token) <= MaxTokenLen
  BY CodecsAssumption DEF CodecsAssumption, FramesAssumption
<1>8. PICK b \in Seq(Byte) :
        /\ Datagram(CanType, Device, Token, EncodeCanFrame(f)) = [ok |-> TRUE, bytes |-> b]
        /\ SameFrame(DongleFrame(b), f) /\ DongleFrame(b).ok /\ Len(b) <= 111
  BY <1>6, <1>7, FrameTravels
<1>9. ParseCanId(m.id) = [ok |-> TRUE, id |-> n]
  BY <1>1, Zenon DEF Sendable, ParseCanId
<1>10. FrameDatagram(m) = [ok |-> TRUE, bytes |-> b]
  <2>1. PICK x : x = ParseCanId(m.id)
    OBVIOUS
  <2>2. PICK y : y = ParseDataHex(m.data)
    OBVIOUS
  <2>3. x.ok /\ x.id = n /\ y.ok /\ y.data = d
    BY <1>2, <1>4, <1>9, <2>1, <2>2
  <2> QED
    BY <1>5, <1>8, <2>1, <2>2, <2>3, Zenon DEF FrameDatagram
<1>11. SameFrame(DongleFrame(b), MeantFrame(m))
  BY <1>6, <1>8 DEF SameFrame
<1> QED
  BY <1>8, <1>10, <1>11

\* A negative number has no text that the agent takes for one.
LEMMA MinusIsNotHex ==
  ASSUME NEW n \in Int, n < 0
  PROVE  ~ IsHex(HexOf(n))
<1>1. -n \in Nat
  OBVIOUS
<1>2. Digits(-n) \in Seq(Int)
  <2>1. PICK p \in Nat : p = -n
    BY <1>1
  <2> QED
    BY <2>1, DigitsAre
<1>3. PICK s \in Seq(Int) : s = Digits(-n)
  BY <1>2
<1>4. HexOf(n) = <<NotHex>> \o s
  BY <1>3, Zenon DEF HexOf
<1>5. (<<NotHex>> \o s)[1] = NotHex /\ 1 \in 1..Len(<<NotHex>> \o s)
  BY DEF NotHex
<1> QED
  BY <1>4, <1>5, Zenon DEF IsHex

\* What the API sends to the agent.
LEMMA ApiFrame ==
  ASSUME NEW given \in Given, NEW asked \in {"yes", "no", "unset"}, NEW text \in Texts,
         NEW c, c = CanFrame(given, asked, text), c.ok,
         NEW id, id = IF given.number THEN given.id ELSE Number(given.text)
  PROVE  /\ c.id = HexOf(id) /\ c.data = text
         /\ c.extended = (asked = "yes" \/ (asked = "unset" /\ id > MaxStdId))
         /\ id \in Int /\ id <= MaxId(c.extended)
         /\ text \in Seq(0..16) /\ EvenHex(text) /\ Len(text) <= 16
<1>1. PICK x : x = NormalizeCanId(given)
  OBVIOUS
<1>2. PICK y : y = NormalizeHexData(text)
  OBVIOUS
<1>3. PICK e : e = IF asked = "unset" THEN x.id > MaxStdId ELSE asked = "yes"
  OBVIOUS
<1>4. c = IF ~x.ok THEN Error
          ELSE IF x.id > MaxId(e) \/ ~y.ok THEN Error
          ELSE [ok |-> TRUE, id |-> HexOf(x.id), extended |-> e, data |-> y.data]
  BY <1>1, <1>2, <1>3, Zenon DEF CanFrame
<1>5. /\ x.ok /\ ~(x.id > MaxId(e)) /\ y.ok
      /\ c = [ok |-> TRUE, id |-> HexOf(x.id), extended |-> e, data |-> y.data]
  BY <1>4 DEF Error
<1>6. x.id = id
  BY <1>1, <1>5 DEF NormalizeCanId, ParseCanId, Error
<1>7. EvenHex(text) /\ Len(text) <= 16 /\ y.data = text
  BY <1>2, <1>5 DEF NormalizeHexData, Error
<1>8. text \in Seq(0..16)
  BY CodecsAssumption DEF CodecsAssumption, FramesAssumption
<1>9. id \in Int
  <2>1. CASE given.number
    BY <2>1, CodecsAssumption DEF CodecsAssumption, FramesAssumption, Given
  <2>2. CASE ~given.number
    <3>1. given.text \in Seq(0..16)
      BY <2>2, CodecsAssumption DEF CodecsAssumption, FramesAssumption, Given
    <3> QED
      BY <2>2, <3>1, NumberIsNumber
  <2> QED
    BY <2>1, <2>2
<1>10. e = (asked = "yes" \/ (asked = "unset" /\ id > MaxStdId))
  BY <1>3, <1>6
<1>11. MaxId(e) \in Nat
  BY SMT DEF MaxId, MaxExtId, MaxStdId
<1> QED
  BY <1>5, <1>6, <1>7, <1>8, <1>9, <1>10, <1>11

-----------------------------------------------------------------------------
\* The message of a frame that an agent has heard, and the frame's datagram.
Crossing(f) == [ok |-> TRUE, id |-> HexOf(f.id), extended |-> f.extended,
                data |-> HexData(f.data)]

Emitted(f) == Datagram(CanType, Device, <<>>, EncodeCanFrame(f)).bytes

LEMMA BusFrameIsFramed ==
  ASSUME NEW f \in BusFrames
  PROVE  Framed(f) /\ f.id <= MaxExtId
<1>1. /\ f.extended \in BOOLEAN /\ f.simulated \in BOOLEAN /\ f.loopback \in BOOLEAN
      /\ f.data \in Payloads /\ f.id \in 0..MaxId(f.extended)
  BY DEF BusFrames
<1>2. f.data \in Seq(Byte) /\ Len(f.data) <= 8
  BY <1>1, CodecsAssumption DEF CodecsAssumption, FramesAssumption
<1>3. MaxId(f.extended) \in Nat /\ MaxId(f.extended) <= MaxExtId
  BY SMT DEF MaxId, MaxExtId, MaxStdId
<1>4. f.id \in Nat /\ f.id <= MaxId(f.extended) /\ f.id <= MaxExtId
  BY <1>1, <1>3, SMT DEF MaxExtId
<1> QED
  BY <1>1, <1>2, <1>4 DEF Framed

\* An agent hears the whole frame or nothing.
LEMMA AgentHeard ==
  ASSUME NEW f \in BusFrames, NEW n \in Nat, n < Len(Emitted(f)),
         NEW m, m = SubSeq(Emitted(f), 1, Len(Emitted(f)) - n)
  PROVE  HeardFrame(m) = IF n = 0 THEN Crossing(f) ELSE Error
<1>1. Framed(f)
  BY BusFrameIsFramed
<1>2. <<>> \in Seq(Byte) /\ Len(<<>>) <= MaxTokenLen
  BY DEF MaxTokenLen
<1>3. PICK b \in Seq(Byte) :
        /\ Datagram(CanType, Device, <<>>, EncodeCanFrame(f)) = [ok |-> TRUE, bytes |-> b]
        /\ SameFrame(DongleFrame(b), f) /\ DongleFrame(b).ok
        /\ DecodeRempHeader(b).ok /\ DecodeRempHeader(b).type = CanType
        /\ \A k \in 0..(Len(b) - 1) :
             LET r == DecodeRempHeader(SubSeq(b, 1, k))
             IN r = Error \/ DecodeCanFrame(r.payload) = Error
  BY <1>1, <1>2, FrameTravels
<1>4. Emitted(f) = b
  <2>1. PICK d : d = Datagram(CanType, Device, <<>>, EncodeCanFrame(f))
    OBVIOUS
  <2>2. d.bytes = b
    BY <1>3, <2>1
  <2> QED
    BY <2>1, <2>2, Zenon DEF Emitted
<1>5. Len(b) \in Nat /\ n < Len(b) /\ m = SubSeq(b, 1, Len(b) - n)
  BY <1>4, LenProperties
<1>6. PICK h : h = DecodeRempHeader(m)
  OBVIOUS
<1>7. PICK g : g = DecodeCanFrame(h.payload)
  OBVIOUS
<1>8. HeardFrame(m) = IF ~h.ok THEN Error
                      ELSE IF h.type # CanType \/ ~g.ok THEN Error
                      ELSE [ok |-> TRUE, id |-> HexOf(g.id),
                            extended |-> g.extended, data |-> HexData(g.data)]
  BY <1>6, <1>7, Zenon DEF HeardFrame
<1>9. CASE n = 0
  <2>1. m = b
    BY <1>5, <1>9, SubSeqFull, Len(b) - 0 = Len(b)
  <2>2. h.ok /\ h.type = CanType /\ g = DongleFrame(b)
    BY <1>3, <1>6, <1>7, <2>1, Zenon DEF DongleFrame
  <2>3. g.ok /\ g.id = f.id /\ g.extended = f.extended /\ g.data = f.data
    BY <1>3, <2>2, Zenon DEF SameFrame
  <2> QED
    BY <1>8, <1>9, <2>2, <2>3, Zenon DEF Crossing
<1>10. CASE n # 0
  <2>0. PICK l \in Nat : l = Len(b)
    BY <1>5
  <2>1. PICK k \in 0..(Len(b) - 1) : k = Len(b) - n
    BY <1>5, <1>10, <2>0, l - n \in 0..(l - 1)
  <2>2. h = DecodeRempHeader(SubSeq(b, 1, k))
    BY <1>5, <1>6, <2>1
  <2>3. h = Error \/ g = Error
    BY <1>3, <1>7, <2>1, <2>2, Zenon
  <2>4. ~Error.ok
    BY DEF Error
  <2> QED
    BY <1>8, <1>10, <2>3, <2>4, Zenon
<1> QED
  BY <1>9, <1>10

\* What crosses can be sent on, and means the frame that was on the bus.
LEMMA CrossingIsSendable ==
  ASSUME NEW f \in BusFrames
  PROVE  /\ Sendable(Crossing(f)) /\ SameFrame(MeantFrame(Crossing(f)), f)
         /\ Crossing(f).ok /\ (Crossing(f).data = <<>> => f.data = <<>>)
<1>1. Framed(f) /\ f.id <= MaxExtId
  BY BusFrameIsFramed
<1>2. /\ f.id \in Nat /\ f.id <= MaxId(f.extended) /\ f.extended \in BOOLEAN
      /\ f.data \in Seq(Byte) /\ Len(f.data) <= 8 /\ Len(f.data) \in Nat
  BY <1>1, LenProperties DEF Framed
<1>3. PICK t : t = HexOf(f.id)
  OBVIOUS
<1>4. t \in Seq(0..16) /\ t # <<>> /\ IsHex(t) /\ Number(t) = f.id
  BY <1>1, <1>2, <1>3, NumberOfHex
<1>5. PICK d : d = HexData(f.data)
  OBVIOUS
<1>6. /\ d \in Seq(0..15) /\ Len(d) = 2 * Len(f.data)
      /\ ParseDataHex(d) = [ok |-> TRUE, data |-> f.data]
  BY <1>2, <1>5, HexDataParsed
<1>7. d \in Seq(0..16) /\ Len(d) <= 16
  BY <1>2, <1>6
<1>8. EvenHex(d)
  <2>1. ParseDataHex(d).ok /\ ~Error.ok
    BY <1>6 DEF Error
  <2> QED
    BY <2>1, Zenon DEF ParseDataHex
<1>9. d = <<>> => f.data = <<>>
  BY <1>2, <1>6
<1>10. PICK c : c = Crossing(f)
  OBVIOUS
<1>11. c.ok /\ c.id = t /\ c.extended = f.extended /\ c.data = d
  BY <1>3, <1>5, <1>10 DEF Crossing
<1>12. Sendable(c)
  BY <1>2, <1>4, <1>7, <1>8, <1>11 DEF Sendable
<1>13. SameFrame(MeantFrame(c), f)
  BY <1>4, <1>6, <1>11 DEF SameFrame, MeantFrame
<1> QED
  BY <1>9, <1>10, <1>11, <1>12, <1>13

-----------------------------------------------------------------------------
(***************************************************************************)
(* The invariant.  A frame for a bus: the API has made its message of the  *)
(* request, the agent its datagram of the message, and the event is the    *)
(* message again.                                                          *)
(***************************************************************************)
SendInv ==
  /\ job \in SendJobs
  /\ stage \in {"asked", "sent", "refused", "failed", "acknowledged", "done"}
  /\ stage \in {"sent", "acknowledged", "done"} =>
       /\ job.open /\ control.ok
       /\ control = CanFrame(job.given, job.extended, job.text)
  /\ stage \in {"acknowledged", "done"} =>
       FrameDatagram(control).ok /\ datagram = FrameDatagram(control).bytes
  /\ stage = "done" => shown = control

(***************************************************************************)
(* A frame that crosses: its message exists only when nothing of it was    *)
(* lost, and is what the browser and the other agent get.                  *)
(***************************************************************************)
RelayInv ==
  /\ job \in RelayJobs
  /\ stage \in {"asked", "emitted", "heard", "relayed", "dropped", "done"}
  /\ stage = "emitted" =>
       /\ cut \in Nat /\ cut < Len(Emitted(job.frame))
       /\ datagram = SubSeq(Emitted(job.frame), 1, Len(Emitted(job.frame)) - cut)
  /\ stage \in {"heard", "relayed", "done"} => control = Crossing(job.frame)
  /\ stage \in {"relayed", "done"} => shown = control
  /\ stage = "done" => datagram = FrameDatagram(control).bytes

\* The other jobs show no frame.
FramesInv ==
  /\ job.kind = "send" => SendInv
  /\ job.kind = "relay" => RelayInv
  /\ job.kind \notin {"send", "relay"} => shown = Nothing

LEMMA FramesInit ==
  ASSUME JobInit PROVE FramesInv
<1>1. job.kind = "send" => job \in SendJobs
  BY DEF JobInit, SendJobs, RelayJobs, ConfigJobs, CliJobs, PairJobs, AnnounceJobs
<1>2. job.kind = "relay" => job \in RelayJobs
  BY DEF JobInit, SendJobs, RelayJobs, ConfigJobs, CliJobs, PairJobs, AnnounceJobs
<1>3. stage = "asked" /\ shown = Nothing
  BY DEF JobInit
<1> QED
  BY <1>1, <1>2, <1>3 DEF FramesInv, SendInv, RelayInv

LEMMA FramesStep ==
  ASSUME FramesInv, [JobNext]_jobVars PROVE FramesInv'
<1>1. CASE ApiSends
  <2>1. job' = job /\ job.kind = "send" /\ stage = "asked" /\ stage' \in {"sent", "refused"}
    BY <1>1 DEF ApiSends, Job
  <2>2. stage' = "sent" => /\ job.open /\ control'.ok
                           /\ control' = CanFrame(job.given, job.extended, job.text)
    BY <1>1 DEF ApiSends, Error
  <2> QED
    BY <2>1, <2>2 DEF FramesInv, SendInv
<1>2. CASE AgentFails
  <2>1. /\ job' = job /\ job.kind = "send" /\ stage' = "failed"
    BY <1>2 DEF AgentFails, Job
  <2> QED
    BY <2>1 DEF FramesInv, SendInv
<1>3. CASE AgentTransmits
  <2>1. /\ job' = job /\ job.kind = "send" /\ stage = "sent" /\ control' = control
        /\ stage' \in {"acknowledged", "failed"}
    BY <1>3 DEF AgentTransmits, Job
  <2>2. stage' = "acknowledged" => /\ FrameDatagram(control).ok
                                   /\ datagram' = FrameDatagram(control).bytes
    BY <1>3 DEF AgentTransmits
  <2> QED
    BY <2>1, <2>2 DEF FramesInv, SendInv
<1>4. CASE ApiShows
  <2>1. /\ job' = job /\ job.kind = "send" /\ stage = "acknowledged" /\ stage' = "done"
        /\ control' = control /\ datagram' = datagram /\ shown' = control
    BY <1>4 DEF ApiShows, Job
  <2> QED
    BY <2>1 DEF FramesInv, SendInv
<1>5. CASE DongleEmits
  <2>1. job' = job /\ job.kind = "relay" /\ stage = "asked" /\ stage' = "emitted"
    BY <1>5 DEF DongleEmits, Job
  <2>2. Arrives(Emitted(job.frame))
    BY <1>5 DEF DongleEmits, Emitted
  <2>3. /\ cut' \in Nat /\ cut' < Len(Emitted(job.frame))
        /\ datagram' = SubSeq(Emitted(job.frame), 1, Len(Emitted(job.frame)) - cut')
    BY <2>2, CodecsAssumption, Zenon DEF Arrives, CodecsAssumption, FramesAssumption
  <2>4. job \in RelayJobs
    BY <2>1 DEF FramesInv, RelayInv
  <2> QED
    BY <2>1, <2>3, <2>4 DEF FramesInv, RelayInv
<1>6. CASE AgentHears
  <2>1. /\ job' = job /\ job.kind = "relay" /\ stage = "emitted" /\ cut' = cut
        /\ control' = HeardFrame(datagram)
        /\ stage' \in {"heard", "dropped"} /\ (stage' = "heard" => control'.ok)
    BY <1>6 DEF AgentHears, Job
  <2>2. /\ job \in RelayJobs /\ cut \in Nat /\ cut < Len(Emitted(job.frame))
        /\ datagram = SubSeq(Emitted(job.frame), 1, Len(Emitted(job.frame)) - cut)
    BY <2>1 DEF FramesInv, RelayInv
  <2>3. job.frame \in BusFrames
    BY <2>2 DEF RelayJobs
  <2>4. control' = IF cut = 0 THEN Crossing(job.frame) ELSE Error
    BY <2>1, <2>2, <2>3, AgentHeard
  <2>5. Crossing(job.frame).ok /\ ~Error.ok
    BY <2>3, CrossingIsSendable DEF Error
  <2>6. CASE cut = 0
    BY <2>1, <2>2, <2>4, <2>5, <2>6 DEF FramesInv, RelayInv
  <2>7. CASE cut # 0
    <3>1. stage' = "dropped"
      BY <2>1, <2>4, <2>5, <2>7
    <3> QED
      BY <2>1, <2>2, <3>1 DEF FramesInv, RelayInv
  <2> QED
    BY <2>6, <2>7
<1>7. CASE ApiRelays
  <2>1. /\ job' = job /\ job.kind = "relay" /\ stage = "heard"
        /\ stage' \in {"relayed", "dropped"} /\ control' = control /\ shown' = control
    BY <1>7 DEF ApiRelays, Job
  <2> QED
    BY <2>1 DEF FramesInv, RelayInv
<1>8. CASE AgentRelays
  <2>1. /\ job' = job /\ job.kind = "relay" /\ stage = "relayed" /\ shown' = shown
        /\ control' = control /\ cut' = cut
        /\ stage' \in {"done", "dropped"}
        /\ stage' = "done" => datagram' = FrameDatagram(control).bytes
    BY <1>8 DEF AgentRelays, Job
  <2>2. job \in RelayJobs /\ control = Crossing(job.frame) /\ shown = control
    BY <2>1 DEF FramesInv, RelayInv
  <2> QED
    BY <2>1, <2>2 DEF FramesInv, RelayInv
<1>9. CASE AgentAsks \/ AgentStartsPairing \/ DongleAnswers \/ AgentReads
           \/ DongleAnnounces \/ AgentDiscovers
  <2>1. job' = job /\ shown' = shown
    BY <1>9 DEF AgentAsks, AgentStartsPairing, DongleAnswers, AgentReads,
                DongleAnnounces, AgentDiscovers
  <2>2. job.kind \notin {"send", "relay"}
    BY <1>9 DEF AgentAsks, AgentStartsPairing, DongleAnswers, AgentReads,
                DongleAnnounces, AgentDiscovers, Job, FramesInv, SendInv, RelayInv
  <2> QED
    BY <2>1, <2>2 DEF FramesInv
<1>10. CASE UNCHANGED jobVars
  BY <1>10 DEF jobVars, FramesInv, SendInv, RelayInv
<1> QED
  BY <1>1, <1>2, <1>3, <1>4, <1>5, <1>6, <1>7, <1>8, <1>9, <1>10 DEF JobNext

\* The identifier that is meant, and the message made of what was given.
IdMeant(given) == IF given.number THEN given.id ELSE Number(given.text)

MadeOf(c, j, id) ==
  /\ Sendable(c) /\ c.data = j.text /\ Number(c.id) = id
  /\ c.extended = (j.extended = "yes" \/ (j.extended = "unset" /\ id > MaxStdId))
  /\ id \in Nat /\ id <= MaxId(c.extended) /\ MaxId(c.extended) \in Nat

\* What the API has let through and the agent can write is what was meant.
LEMMA SentIsSendable ==
  ASSUME NEW j \in SendJobs, NEW c, c = CanFrame(j.given, j.extended, j.text), c.ok,
         FrameDatagram(c).ok
  PROVE  MadeOf(c, j, IdMeant(j.given))
<1>1. /\ j.given \in Given /\ j.extended \in {"yes", "no", "unset"}
      /\ j.text \in Texts
  BY DEF SendJobs
<1>2. PICK id : id = IdMeant(j.given)
  OBVIOUS
<1>3. /\ c.id = HexOf(id) /\ c.data = j.text
      /\ c.extended = (j.extended = "yes"
                         \/ (j.extended = "unset" /\ id > MaxStdId))
      /\ id \in Int /\ id <= MaxId(c.extended)
      /\ j.text \in Seq(0..16) /\ EvenHex(j.text) /\ Len(j.text) <= 16
  BY <1>1, <1>2, ApiFrame DEF IdMeant
<1>4. id >= 0
  <2>1. SUFFICES ASSUME id < 0 PROVE FALSE
    BY <1>3
  <2>2. ~IsHex(c.id)
    BY <1>3, <2>1, MinusIsNotHex
  <2>3. ~ParseCanId(c.id).ok
    BY <2>2 DEF ParseCanId, Error
  <2>4. ~FrameDatagram(c).ok
    BY <2>3, Zenon DEF FrameDatagram, Error
  <2> QED
    BY <2>4
<1>5. /\ MaxId(c.extended) \in Nat /\ MaxId(c.extended) <= MaxExtId
      /\ c.extended \in BOOLEAN
  BY <1>3, SMT DEF MaxId, MaxExtId, MaxStdId
<1>6. id \in Nat /\ id <= MaxExtId
  BY <1>3, <1>4, <1>5, SMT DEF MaxExtId
<1>7. /\ c.id \in Seq(0..16) /\ c.id # <<>> /\ IsHex(c.id)
      /\ Number(c.id) = id
  BY <1>3, <1>6, NumberOfHex
<1>8. Sendable(c)
  BY <1>3, <1>5, <1>7 DEF Sendable
<1> QED
  BY <1>2, <1>3, <1>5, <1>6, <1>7, <1>8 DEF MadeOf

LEMMA SentIsAsked ==
  ASSUME FramesInv
  PROVE  SentAsAsked /\ (job.kind = "send" /\ stage \in {"acknowledged", "done"}
                            => SameFrame(DongleFrame(datagram), MeantFrame(control)))
<1>1. SUFFICES ASSUME job.kind = "send", stage \in {"acknowledged", "done"}
               PROVE  /\ SameFrame(DongleFrame(datagram), MeantFrame(control))
                      /\ job.open
                      /\ DongleFrame(datagram).ok
                      /\ SameFrame(DongleFrame(datagram), AskedFrame)
                      /\ AskedFrame.id \in 0..MaxId(AskedFrame.extended)
  BY DEF SentAsAsked, Job
<1>2. /\ job \in SendJobs /\ job.open /\ control.ok
      /\ control = CanFrame(job.given, job.extended, job.text)
      /\ FrameDatagram(control).ok /\ datagram = FrameDatagram(control).bytes
  BY <1>1 DEF FramesInv, SendInv
<1>3. PICK id : id = IdMeant(job.given)
  OBVIOUS
<1>4. MadeOf(control, job, id)
  BY <1>2, <1>3, SentIsSendable
<1>5. /\ Sendable(control) /\ control.data = job.text /\ Number(control.id) = id
      /\ control.extended = (job.extended = "yes"
                               \/ (job.extended = "unset" /\ id > MaxStdId))
      /\ id \in Nat /\ id <= MaxId(control.extended) /\ MaxId(control.extended) \in Nat
  BY <1>4 DEF MadeOf
<1>6. /\ DongleFrame(datagram).ok
      /\ SameFrame(DongleFrame(datagram), MeantFrame(control))
  BY <1>2, <1>5, AgentWrites
<1>7. AskedFrame.id = id /\ AskedFrame.extended = control.extended
  BY <1>3, <1>5, Zenon DEF AskedFrame, IdMeant
<1>8. AskedFrame.data = ParseDataHex(control.data).data
  <2>1. EvenHex(control.data)
    BY <1>5 DEF Sendable
  <2> QED
    BY <1>5, <2>1 DEF AskedFrame, ParseDataHex
<1>9. SameFrame(DongleFrame(datagram), AskedFrame)
  BY <1>5, <1>6, <1>7, <1>8 DEF SameFrame, MeantFrame
<1>10. AskedFrame.id \in 0..MaxId(AskedFrame.extended)
  BY <1>5, <1>7
<1> QED
  BY <1>2, <1>6, <1>9, <1>10

LEMMA ShownIsSent ==
  ASSUME FramesInv PROVE ShownAsSent
<1>1. SUFFICES ASSUME shown.ok, stage = "done"
               PROVE  SameFrame(DongleFrame(datagram), MeantFrame(shown))
  BY DEF ShownAsSent, MeantFrame
<1>2. CASE job.kind = "send"
  BY <1>1, <1>2, SentIsAsked DEF FramesInv, SendInv
<1>3. CASE job.kind = "relay"
  <2>1. /\ job \in RelayJobs /\ control = Crossing(job.frame) /\ shown = control
        /\ datagram = FrameDatagram(control).bytes
    BY <1>1, <1>3 DEF FramesInv, RelayInv
  <2>2. Sendable(control)
    BY <2>1, CrossingIsSendable DEF RelayJobs
  <2> QED
    BY <2>1, <2>2, AgentWrites
<1>4. CASE job.kind \notin {"send", "relay"}
  BY <1>1, <1>4 DEF FramesInv, Nothing
<1> QED
  BY <1>2, <1>3, <1>4

LEMMA RelayedIsIntact ==
  ASSUME FramesInv PROVE RelayedIntact
<1>1. SUFFICES ASSUME job.kind = "relay", stage = "done"
               PROVE  SameFrame(DongleFrame(datagram), job.frame)
  BY DEF RelayedIntact
<1>2. /\ job.frame \in BusFrames /\ control = Crossing(job.frame)
      /\ datagram = FrameDatagram(control).bytes
  BY <1>1 DEF FramesInv, RelayInv, RelayJobs
<1>3. Sendable(control) /\ SameFrame(MeantFrame(control), job.frame)
  BY <1>2, CrossingIsSendable
<1>4. SameFrame(DongleFrame(datagram), MeantFrame(control))
  BY <1>2, <1>3, AgentWrites
<1> QED
  BY <1>3, <1>4 DEF SameFrame

(***************************************************************************)
(* A frame keeps its format, its identifier and its data, whoever sends    *)
(* it: from the request of a user to the bus of a dongle, from one bus to  *)
(* another, and to the console, for every identifier, text and payload.    *)
(* (can-send.ts:17-132, agent-core.ts:757-859, can.ts:17-64)               *)
(***************************************************************************)
THEOREM FramesKept == JobSpec => []FramesIntact
<1>1. JobInit => FramesInv
  BY FramesInit
<1>2. FramesInv /\ [JobNext]_jobVars => FramesInv'
  BY FramesStep
<1>3. FramesInv => FramesIntact
  BY SentIsAsked, ShownIsSent, RelayedIsIntact DEF FramesIntact
<1> QED
  BY <1>1, <1>2, <1>3, PTL DEF JobSpec

-----------------------------------------------------------------------------
(***************************************************************************)
(* Where a sequence of bytes holds another.                                *)
(***************************************************************************)
Holds(u, at, x) ==
  /\ u \in Seq(Byte) /\ x \in Seq(Byte) /\ at \in Nat /\ at + Len(x) <= Len(u)
  /\ \A i \in 1..Len(x) : u[at + i] = x[i]

LEMMA HoldsGrows ==
  ASSUME NEW u, NEW at, NEW x, Holds(u, at, x), NEW t \in Seq(Byte)
  PROVE  Holds(u \o t, at, x)
<1>1. /\ u \in Seq(Byte) /\ x \in Seq(Byte) /\ at \in Nat /\ at + Len(x) <= Len(u)
      /\ \A i \in 1..Len(x) : u[at + i] = x[i]
  BY DEF Holds
<1>2. PICK w : w = u \o t
  OBVIOUS
<1>3. /\ w \in Seq(Byte) /\ Len(w) = Len(u) + Len(t) /\ Len(u) \in Nat /\ Len(t) \in Nat
      /\ \A i \in 1..Len(u) : w[i] = u[i]
  BY <1>1, <1>2, Joined
<1>4. Len(x) \in Nat
  BY <1>1
<1>5. ASSUME NEW i \in 1..Len(x) PROVE w[at + i] = x[i]
  BY <1>1, <1>3, <1>4, at + i \in 1..Len(u)
<1>6. at + Len(x) <= Len(w)
  BY <1>1, <1>3, <1>4
<1> QED
  BY <1>1, <1>2, <1>3, <1>5, <1>6 DEF Holds

LEMMA HoldsAdded ==
  ASSUME NEW u \in Seq(Byte), NEW t \in Seq(Byte), NEW at, at = Len(u)
  PROVE  Holds(u \o t, at, t)
<1>1. PICK w : w = u \o t
  OBVIOUS
<1>2. /\ w \in Seq(Byte) /\ Len(w) = Len(u) + Len(t) /\ Len(u) \in Nat /\ Len(t) \in Nat
      /\ \A i \in 1..Len(t) : w[Len(u) + i] = t[i]
  BY <1>1, Joined
<1> QED
  BY <1>1, <1>2 DEF Holds

LEMMA HoldsSelf ==
  ASSUME NEW u \in Seq(Byte)
  PROVE  Holds(u, 0, u)
BY LenProperties DEF Holds

LEMMA HoldsCut ==
  ASSUME NEW u, NEW at, NEW x, Holds(u, at, x), NEW k \in Nat, at + Len(x) <= k, k <= Len(u)
  PROVE  Holds(SubSeq(u, 1, k), at, x)
<1>1. /\ u \in Seq(Byte) /\ x \in Seq(Byte) /\ at \in Nat
      /\ \A i \in 1..Len(x) : u[at + i] = x[i]
      /\ Len(x) \in Nat /\ Len(u) \in Nat
  BY LenProperties DEF Holds
<1>2. PICK w : w = SubSeq(u, 1, k)
  OBVIOUS
<1>3. w \in Seq(Byte) /\ Len(w) = k /\ \A i \in 1..k : w[i] = u[i]
  BY <1>1, <1>2
<1>4. ASSUME NEW i \in 1..Len(x) PROVE w[at + i] = x[i]
  BY <1>1, <1>3, at + i \in 1..k
<1> QED
  BY <1>1, <1>2, <1>3, <1>4 DEF Holds

LEMMA HoldsSlice ==
  ASSUME NEW u, NEW at, NEW x, Holds(u, at, x), NEW end, end = at + Len(x)
  PROVE  Slice(u, at, end) = x
<1>1. /\ u \in Seq(Byte) /\ x \in Seq(Byte) /\ at \in Nat /\ at + Len(x) <= Len(u)
      /\ \A i \in 1..Len(x) : u[at + i] = x[i]
      /\ Len(x) \in Nat /\ Len(u) \in Nat
  BY LenProperties DEF Holds
<1>2. end \in 0..Len(u) /\ at <= end /\ end - at = Len(x)
  BY <1>1
<1>3. PICK w : w = SubSeq(u, at + 1, end)
  OBVIOUS
<1>4. /\ w \in Seq(Byte) /\ Len(w) = end - at /\ \A k \in 1..(end - at) : w[k] = u[at + k]
  BY <1>1, <1>2, <1>3, Begun
<1>5. w = x
  BY <1>1, <1>2, <1>4, SeqEqual
<1> QED
  BY <1>3, <1>5 DEF Slice

LEMMA HoldsByte ==
  ASSUME NEW u, NEW at, NEW x, Holds(u, at, x), NEW i \in Nat, i < Len(x)
  PROVE  U8(u, at + i) = x[i + 1]
<1>1. /\ x \in Seq(Byte) /\ at \in Nat /\ Len(x) \in Nat
      /\ \A k \in 1..Len(x) : u[at + k] = x[k]
  BY LenProperties DEF Holds
<1>2. i + 1 \in 1..Len(x) /\ at + (i + 1) = (at + i) + 1
  BY <1>1
<1>3. u[(at + i) + 1] = x[i + 1]
  BY <1>1, <1>2
<1> QED
  BY <1>3 DEF U8

LEMMA HoldsPair ==
  ASSUME NEW u, NEW at, NEW x, Holds(u, at, x), NEW a, NEW b, x = <<a, b>>,
         NEW j, j = at + 1
  PROVE  U8(u, at) = a /\ U8(u, j) = b
<1>1. Len(x) = 2 /\ x[1] = a /\ x[2] = b /\ at \in Nat
  BY DEF Holds
<1>2. U8(u, at + 0) = x[0 + 1]
  BY <1>1, HoldsByte, 0 \in Nat, 0 < Len(x)
<1>3. U8(u, at + 1) = x[1 + 1]
  BY <1>1, HoldsByte, 1 \in Nat, 1 < Len(x)
<1>4. at + 0 = at /\ 0 + 1 = 1 /\ 1 + 1 = 2
  BY <1>1
<1> QED
  BY <1>1, <1>2, <1>3, <1>4

LEMMA HoldsThree ==
  ASSUME NEW u, NEW at, NEW x, Holds(u, at, x), NEW a, NEW b, NEW c, x = <<a, b, c>>,
         NEW j, j = at + 1, NEW k, k = at + 2
  PROVE  U8(u, at) = a /\ U8(u, j) = b /\ U8(u, k) = c
<1>1. Len(x) = 3 /\ x[1] = a /\ x[2] = b /\ x[3] = c /\ at \in Nat
  BY DEF Holds
<1>2. U8(u, at + 0) = x[0 + 1]
  BY <1>1, HoldsByte, 0 \in Nat, 0 < Len(x)
<1>3. U8(u, at + 1) = x[1 + 1]
  BY <1>1, HoldsByte, 1 \in Nat, 1 < Len(x)
<1>4. U8(u, at + 2) = x[2 + 1]
  BY <1>1, HoldsByte, 2 \in Nat, 2 < Len(x)
<1>5. at + 0 = at /\ 0 + 1 = 1 /\ 1 + 1 = 2 /\ 2 + 1 = 3
  BY <1>1
<1> QED
  BY <1>1, <1>2, <1>3, <1>4, <1>5

LEMMA HoldsQuad ==
  ASSUME NEW u, NEW at, NEW x, Holds(u, at, x), NEW a, NEW b, NEW c, NEW d,
         x = <<a, b, c, d>>, NEW j, j = at + 1, NEW k, k = at + 2
  PROVE  U8(u, at) = a /\ U8(u, j) = b /\ U8(u, k) = c
<1>1. Len(x) = 4 /\ x[1] = a /\ x[2] = b /\ x[3] = c /\ at \in Nat
  BY DEF Holds
<1>2. U8(u, at + 0) = x[0 + 1]
  BY <1>1, HoldsByte, 0 \in Nat, 0 < Len(x)
<1>3. U8(u, at + 1) = x[1 + 1]
  BY <1>1, HoldsByte, 1 \in Nat, 1 < Len(x)
<1>4. U8(u, at + 2) = x[2 + 1]
  BY <1>1, HoldsByte, 2 \in Nat, 2 < Len(x)
<1>5. at + 0 = at /\ 0 + 1 = 1 /\ 1 + 1 = 2 /\ 2 + 1 = 3
  BY <1>1
<1> QED
  BY <1>1, <1>2, <1>3, <1>4, <1>5

LEMMA IsWord ==
  ASSUME NEW n \in Word
  PROVE  n \in Nat /\ n < 65536
<1>1. MaxWord \in Nat /\ MaxWord < 65536
  BY SMT DEF MaxWord
<1> QED
  BY <1>1 DEF Word

LEMMA WordIs ==
  ASSUME NEW n \in Nat, n < 65536
  PROVE  n \in Word
<1>1. MaxWord \in Nat /\ n <= MaxWord
  BY SMT DEF MaxWord
<1> QED
  BY <1>1 DEF Word

LEMMA StatusIsWord ==
  ASSUME NEW n \in 0..4
  PROVE  n \in Word /\ n \in Byte
<1>1. n \in Nat /\ n < 65536
  BY SMT
<1>2. n \in Word
  BY <1>1, WordIs
<1> QED
  BY <1>2, SMT DEF Byte

LEMMA TwoBytesOfWord ==
  ASSUME NEW n \in Word
  PROVE  BE(n, 2) \in Seq(Byte) /\ Len(BE(n, 2)) = 2
<1>1. n \in Nat
  BY IsWord, SMT
<1> QED
  BY <1>1, TwoBytes, SMT

LEMMA FourBytesOfRate ==
  ASSUME NEW n \in Nat, n <= MaxBitrate
  PROVE  BE(n, 4) \in Seq(Byte) /\ Len(BE(n, 4)) = 4
<1>1. PICK a \in Nat, b \in Byte, c \in Byte, d \in Byte :
        n = ((a * 256 + b) * 256 + c) * 256 + d
  BY HasDigits, SMT
<1>2. n <= 2147483647
  BY SMT DEF MaxBitrate
<1>3. a \in Byte
  BY <1>1, <1>2, SMT DEF Byte
<1> QED
  BY <1>1, <1>3, FourBytes, SMT

LEMMA HoldsTwo ==
  ASSUME NEW u, NEW at, NEW n \in Word, Holds(u, at, BE(n, 2))
  PROVE  U16(u, at) = n
<1>1. PICK x : x = BE(n, 2)
  OBVIOUS
<1>2. Len(x) = 2 /\ 256 * x[1] + x[2] = n
  <2>1. n \in Nat /\ n < 65536
    BY IsWord, SMT
  <2> QED
    BY <1>1, <2>1, TwoBytes, SMT
<1>3. at \in Nat /\ \A i \in 1..2 : u[at + i] = x[i]
  BY <1>1, <1>2 DEF Holds
<1>4. u[at + 1] = x[1] /\ u[(at + 1) + 1] = x[2]
  BY <1>3, 1 \in 1..2, 2 \in 1..2, (at + 1) + 1 = at + 2
<1>5. U16(u, at) = 256 * x[1] + x[2]
  BY <1>4 DEF U16, U8
<1> QED
  BY <1>2, <1>5, SMT

LEMMA HoldsFour ==
  ASSUME NEW u, NEW at, NEW n \in Nat, n <= MaxBitrate, Holds(u, at, BE(n, 4))
  PROVE  U31(u, at) = n
<1>1. PICK a \in Nat, b \in Byte, c \in Byte, d \in Byte :
        n = ((a * 256 + b) * 256 + c) * 256 + d
  BY HasDigits
<1>2. a \in Byte
  <2>1. n <= 2147483647
    BY SMT DEF MaxBitrate
  <2> QED
    BY <1>1, <2>1, SMT DEF Byte
<1>3. PICK x : x = BE(n, 4)
  OBVIOUS
<1>4. Len(x) = 4 /\ x[1] = a /\ x[2] = b /\ x[3] = c /\ x[4] = d
  BY <1>1, <1>2, <1>3, FourBytes
<1>5. at \in Nat /\ \A i \in 1..4 : u[at + i] = x[i]
  BY <1>3, <1>4 DEF Holds
<1>6. u[at + 1] = a /\ u[(at + 1) + 1] = b
  BY <1>4, <1>5, 1 \in 1..4, 2 \in 1..4, (at + 1) + 1 = at + 2
<1>7. u[(at + 2) + 1] = c /\ u[((at + 2) + 1) + 1] = d
  BY <1>4, <1>5, 3 \in 1..4, 4 \in 1..4, (at + 2) + 1 = at + 3, ((at + 2) + 1) + 1 = at + 4
<1>8. U31(u, at) = 65536 * (256 * a + b) + (256 * c + d)
  BY <1>6, <1>7, SMT DEF U31, U16, U8
<1> QED
  BY <1>1, <1>2, <1>8, Assembled

(***************************************************************************)
(* Sequences joined of several.                                            *)
(***************************************************************************)
LEMMA TwoPieces ==
  ASSUME NEW a \in Seq(Byte), NEW b \in Seq(Byte), NEW u, u = a \o b
  PROVE  /\ u \in Seq(Byte) /\ Len(u) = Len(a) + Len(b)
         /\ Holds(u, 0, a) /\ Holds(u, Len(a), b)
<1>1. a \o b \in Seq(Byte) /\ Len(a \o b) = Len(a) + Len(b)
  BY Joined
<1>2. Holds(a \o b, 0, a)
  BY HoldsSelf, HoldsGrows
<1>3. Holds(a \o b, Len(a), b)
  BY HoldsAdded
<1> QED
  BY <1>1, <1>2, <1>3

FourIn(u, a, b, c, d) ==
  /\ u \in Seq(Byte) /\ Len(u) = Len(a) + Len(b) + Len(c) + Len(d)
  /\ Holds(u, 0, a) /\ Holds(u, Len(a), b) /\ Holds(u, Len(a) + Len(b), c)
  /\ Holds(u, Len(a) + Len(b) + Len(c), d)

LEMMA FourPieces ==
  ASSUME NEW a \in Seq(Byte), NEW b \in Seq(Byte), NEW c \in Seq(Byte), NEW d \in Seq(Byte)
  PROVE  FourIn(a \o b \o c \o d, a, b, c, d)
<1>0. PICK u : u = a \o b \o c \o d
  OBVIOUS
<1>1. PICK v : v = a \o b
  OBVIOUS
<1>2. /\ v \in Seq(Byte) /\ Len(v) = Len(a) + Len(b)
      /\ Holds(v, 0, a) /\ Holds(v, Len(a), b)
  BY <1>1, TwoPieces
<1>3. PICK w : w = v \o c
  OBVIOUS
<1>4. /\ w \in Seq(Byte) /\ Len(w) = Len(v) + Len(c)
      /\ Holds(w, 0, v) /\ Holds(w, Len(v), c)
  BY <1>2, <1>3, TwoPieces
<1>5. Holds(w, 0, a) /\ Holds(w, Len(a), b)
  BY <1>2, <1>3, HoldsGrows
<1>6. PICK x : x = w \o d
  OBVIOUS
<1>7. /\ x \in Seq(Byte) /\ Len(x) = Len(w) + Len(d)
      /\ Holds(x, 0, w) /\ Holds(x, Len(w), d)
  BY <1>4, <1>6, TwoPieces
<1>8. Holds(x, 0, a) /\ Holds(x, Len(a), b) /\ Holds(x, Len(v), c)
  BY <1>4, <1>5, <1>6, HoldsGrows
<1>9. u = x
  BY <1>0, <1>1, <1>3, <1>6
<1> QED
  BY <1>0, <1>2, <1>4, <1>7, <1>8, <1>9 DEF FourIn

FiveIn(u, a, b, c, d, e) ==
  /\ u \in Seq(Byte) /\ Len(u) = Len(a) + Len(b) + Len(c) + Len(d) + Len(e)
  /\ Holds(u, 0, a) /\ Holds(u, Len(a), b) /\ Holds(u, Len(a) + Len(b), c)
  /\ Holds(u, Len(a) + Len(b) + Len(c), d)
  /\ Holds(u, Len(a) + Len(b) + Len(c) + Len(d), e)

LEMMA FivePieces ==
  ASSUME NEW a \in Seq(Byte), NEW b \in Seq(Byte), NEW c \in Seq(Byte), NEW d \in Seq(Byte),
         NEW e \in Seq(Byte)
  PROVE  FiveIn(a \o b \o c \o d \o e, a, b, c, d, e)
<1>0. PICK v : v = a \o b \o c \o d
  OBVIOUS
<1>1. FourIn(v, a, b, c, d)
  BY <1>0, FourPieces
<1>2. /\ v \in Seq(Byte) /\ Len(v) = Len(a) + Len(b) + Len(c) + Len(d)
      /\ Holds(v, 0, a) /\ Holds(v, Len(a), b) /\ Holds(v, Len(a) + Len(b), c)
      /\ Holds(v, Len(a) + Len(b) + Len(c), d)
  BY <1>1 DEF FourIn
<1>3. PICK u : u = v \o e
  OBVIOUS
<1>4. /\ u \in Seq(Byte) /\ Len(u) = Len(v) + Len(e) /\ Holds(u, Len(v), e)
  BY <1>2, <1>3, TwoPieces
<1>5. /\ Holds(u, 0, a) /\ Holds(u, Len(a), b) /\ Holds(u, Len(a) + Len(b), c)
      /\ Holds(u, Len(a) + Len(b) + Len(c), d)
  BY <1>2, <1>3, HoldsGrows
<1> QED
  BY <1>0, <1>2, <1>3, <1>4, <1>5 DEF FiveIn

-----------------------------------------------------------------------------
(***************************************************************************)
(* Datagram b carries payload p after a header of n bytes.                 *)
(***************************************************************************)
Carries(b, type, n, p) ==
  /\ b \in Seq(Byte) /\ p \in Seq(Byte) /\ n \in Nat /\ Len(b) = n + Len(p)
  /\ \A k \in 0..Len(b) : IsRead(DecodeRempHeader(SubSeq(b, 1, k)), type, n, p, k)

LEMMA Travels ==
  ASSUME NEW type \in Byte, NEW token \in Seq(Byte), Len(token) <= MaxTokenLen,
         NEW p \in Seq(Byte), NEW e, e.ok, e.bytes = p
  PROVE  \E b : /\ Datagram(type, Device, token, e) = [ok |-> TRUE, bytes |-> b]
                /\ Carries(b, type, HeaderLen + Len(token), p)
<1>1. Device \in Seq(Byte) /\ Len(Device) = 8
  BY CodecsAssumption DEF CodecsAssumption, FramesAssumption
<1>2. PICK size \in Nat : size = Len(token) /\ size <= MaxTokenLen
  BY LenProperties
<1>3. PICK n \in Nat : n = HeaderLen + size
  BY DEF HeaderLen
<1>4. PICK h : /\ Starts(h, n, type, size)
               /\ EncodeRempHeader(type, Device, token) = [ok |-> TRUE, bytes |-> h]
  BY <1>1, <1>2, <1>3, HeaderOut
<1>5. Header(h, n, type)
  BY <1>2, <1>3, <1>4 DEF Header
<1>6. PICK b : b = h \o p
  OBVIOUS
<1>7. b \in Seq(Byte) /\ Len(b) = n + Len(p) /\ Len(b) \in Nat
  <2>1. h \in Seq(Byte) /\ Len(h) = n
    BY <1>4 DEF Starts
  <2>2. h \o p \in Seq(Byte) /\ Len(h \o p) = Len(h) + Len(p)
    BY <2>1, Joined
  <2> QED
    BY <1>6, <2>1, <2>2, LenProperties
<1>8. Datagram(type, Device, token, e) = [ok |-> TRUE, bytes |-> b]
  <2>1. PICK x : x = EncodeRempHeader(type, Device, token)
    OBVIOUS
  <2>2. x.ok /\ x.bytes = h
    BY <1>4, <2>1
  <2> QED
    BY <1>6, <2>1, <2>2, Zenon DEF Datagram
<1>9. ASSUME NEW k \in 0..Len(b)
      PROVE  IsRead(DecodeRempHeader(SubSeq(b, 1, k)), type, n, p, k)
  <2>1. k \in Nat /\ k <= n + Len(p)
    BY <1>7
  <2>2. IsRead(DecodeRempHeader(SubSeq(h \o p, 1, k)), type, n, p, k)
    BY <1>5, <2>1, DatagramIn
  <2> QED
    BY <1>6, <2>2
<1>10. Carries(b, type, n, p)
  BY <1>7, <1>9 DEF Carries
<1> QED
  BY <1>2, <1>3, <1>8, <1>10

LEMMA WholeRead ==
  ASSUME NEW b, NEW type, NEW n, NEW p, Carries(b, type, n, p)
  PROVE  /\ DecodeRempHeader(b).ok /\ DecodeRempHeader(b).type = type
         /\ DecodeRempHeader(b).payload = p
<1>1. /\ b \in Seq(Byte) /\ p \in Seq(Byte) /\ n \in Nat /\ Len(b) = n + Len(p)
      /\ Len(b) \in Nat /\ Len(p) \in Nat
  BY LenProperties DEF Carries
<1>2. IsRead(DecodeRempHeader(SubSeq(b, 1, Len(b))), type, n, p, Len(b))
  BY <1>1, Len(b) \in 0..Len(b), Zenon DEF Carries
<1>3. SubSeq(b, 1, Len(b)) = b
  BY <1>1, SubSeqFull
<1>4. IsRead(DecodeRempHeader(b), type, n, p, Len(b))
  BY <1>2, <1>3
<1>5. Len(b) >= n /\ Len(b) - n = Len(p) /\ SubSeq(p, 1, Len(p)) = p
  BY <1>1, SubSeqFull
<1> QED
  BY <1>4, <1>5 DEF IsRead

\* What is read of a datagram that lost its end.
RestRead(r, type, p) ==
  \/ r = Error
  \/ /\ r.ok /\ r.type = type
     /\ \E j \in Nat : j < Len(p) /\ r.payload = SubSeq(p, 1, j)

LEMMA CutRead ==
  ASSUME NEW b, NEW type, NEW n, NEW p, Carries(b, type, n, p),
         NEW k \in Nat, k < Len(b), NEW r, r = DecodeRempHeader(SubSeq(b, 1, k))
  PROVE  RestRead(r, type, p)
<1>1. /\ b \in Seq(Byte) /\ p \in Seq(Byte) /\ n \in Nat /\ Len(b) = n + Len(p)
      /\ Len(b) \in Nat /\ Len(p) \in Nat
  BY LenProperties DEF Carries
<1>2. IsRead(r, type, n, p, k)
  BY <1>1, k \in 0..Len(b), Zenon DEF Carries
<1>3. CASE k < n
  BY <1>2, <1>3 DEF IsRead, RestRead
<1>4. CASE k >= n
  <2>1. r.ok /\ r.type = type /\ r.payload = SubSeq(p, 1, k - n)
    BY <1>2, <1>4 DEF IsRead
  <2>2. k - n \in Nat /\ k - n < Len(p)
    BY <1>1, <1>4
  <2> QED
    BY <2>1, <2>2 DEF RestRead
<1> QED
  BY <1>1, <1>3, <1>4

-----------------------------------------------------------------------------
(***************************************************************************)
(* Configurations.                                                         *)
(***************************************************************************)
LEMMA HoldsJoined ==
  ASSUME NEW u, NEW at, NEW x, NEW y, NEW k, Holds(u, at, x), Holds(u, k, y),
         k = at + Len(x)
  PROVE  Holds(u, at, x \o y)
<1>1. /\ u \in Seq(Byte) /\ x \in Seq(Byte) /\ y \in Seq(Byte) /\ at \in Nat /\ k \in Nat
      /\ k + Len(y) <= Len(u) /\ Len(x) \in Nat /\ Len(y) \in Nat
      /\ \A i \in 1..Len(x) : u[at + i] = x[i]
      /\ \A i \in 1..Len(y) : u[k + i] = y[i]
  BY LenProperties DEF Holds
<1>2. PICK z : z = x \o y
  OBVIOUS
<1>3. /\ z \in Seq(Byte) /\ Len(z) = Len(x) + Len(y)
      /\ \A i \in 1..Len(x) : z[i] = x[i]
      /\ \A i \in 1..Len(y) : z[Len(x) + i] = y[i]
  BY <1>1, <1>2, Joined
<1>4. ASSUME NEW i \in 1..Len(z) PROVE u[at + i] = z[i]
  <2>1. CASE i <= Len(x)
    BY <1>1, <1>3, <2>1
  <2>2. CASE i > Len(x)
    <3>1. PICK j \in 1..Len(y) : i = Len(x) + j /\ at + i = k + j
      BY <1>1, <1>3, <2>2, i - Len(x) \in 1..Len(y), i = Len(x) + (i - Len(x))
    <3>2. z[i] = y[j] /\ u[at + i] = y[j]
      BY <1>1, <1>3, <3>1
    <3> QED
      BY <3>2
  <2> QED
    BY <1>1, <1>3, <2>1, <2>2
<1>5. at + Len(z) <= Len(u)
  BY <1>1, <1>3
<1> QED
  BY <1>1, <1>2, <1>3, <1>4, <1>5 DEF Holds

LEMMA HoldsWithin ==
  ASSUME NEW u, NEW at, NEW x, NEW k, NEW y, Holds(u, at, x), Holds(x, k, y),
         NEW l, l = at + k
  PROVE  Holds(u, l, y)
<1>1. /\ u \in Seq(Byte) /\ x \in Seq(Byte) /\ y \in Seq(Byte) /\ at \in Nat /\ k \in Nat
      /\ at + Len(x) <= Len(u) /\ k + Len(y) <= Len(x)
      /\ Len(x) \in Nat /\ Len(y) \in Nat /\ Len(u) \in Nat
      /\ \A i \in 1..Len(x) : u[at + i] = x[i]
      /\ \A i \in 1..Len(y) : x[k + i] = y[i]
  BY LenProperties DEF Holds
<1>2. ASSUME NEW i \in 1..Len(y) PROVE u[l + i] = y[i]
  <2>1. k + i \in 1..Len(x) /\ l + i = at + (k + i)
    BY <1>1
  <2>2. u[at + (k + i)] = x[k + i] /\ x[k + i] = y[i]
    BY <1>1, <2>1
  <2> QED
    BY <2>1, <2>2
<1> QED
  BY <1>1, <1>2 DEF Holds

Encodable(c) ==
  /\ c.samplePoint \in Word /\ c.prescaler \in Word
  /\ c.sjw \in Byte /\ c.tseg1 \in Byte /\ c.tseg2 \in Byte

Timing(c) == BE(c.samplePoint, 2) \o BE(c.prescaler, 2) \o <<c.sjw, c.tseg1, c.tseg2>>

LEMMA TimingHolds ==
  ASSUME NEW c, Encodable(c)
  PROVE  /\ Timing(c) \in Seq(Byte) /\ Len(Timing(c)) = 7
         /\ Holds(Timing(c), 0, BE(c.samplePoint, 2))
         /\ Holds(Timing(c), 2, BE(c.prescaler, 2))
         /\ Holds(Timing(c), 4, <<c.sjw, c.tseg1, c.tseg2>>)
<1>1. PICK x : x = BE(c.samplePoint, 2)
  OBVIOUS
<1>2. PICK y : y = BE(c.prescaler, 2)
  OBVIOUS
<1>3. PICK z : z = <<c.sjw, c.tseg1, c.tseg2>>
  OBVIOUS
<1>4. x \in Seq(Byte) /\ Len(x) = 2 /\ y \in Seq(Byte) /\ Len(y) = 2
  BY <1>1, <1>2, TwoBytesOfWord DEF Encodable
<1>5. z \in Seq(Byte) /\ Len(z) = 3
  BY <1>3 DEF Encodable
<1>6. PICK v : v = x \o y
  OBVIOUS
<1>7. /\ v \in Seq(Byte) /\ Len(v) = Len(x) + Len(y)
      /\ Holds(v, 0, x) /\ Holds(v, Len(x), y)
  BY <1>4, <1>6, TwoPieces
<1>8. PICK w : w = v \o z
  OBVIOUS
<1>9. /\ w \in Seq(Byte) /\ Len(w) = Len(v) + Len(z) /\ Holds(w, Len(v), z)
  BY <1>5, <1>7, <1>8, TwoPieces
<1>10. Holds(w, 0, x) /\ Holds(w, Len(x), y)
  BY <1>5, <1>7, <1>8, HoldsGrows
<1>11. w = Timing(c)
  BY <1>1, <1>2, <1>3, <1>6, <1>8 DEF Timing
<1>12. Len(v) = 4 /\ Len(w) = 7
  BY <1>4, <1>5, <1>7, <1>9
<1>13. Holds(w, 0, x) /\ Holds(w, 2, y) /\ Holds(w, 4, z)
  BY <1>4, <1>9, <1>10, <1>12
<1>14. w \in Seq(Byte) /\ Len(w) = 7
  BY <1>9, <1>12
<1> QED
  BY <1>1, <1>2, <1>3, <1>11, <1>13, <1>14

LEMMA FlagBits ==
  ASSUME NEW c, c.useRaw \in BOOLEAN, c.autoRetx \in BOOLEAN, c.txPause \in BOOLEAN,
         c.protocolExc \in BOOLEAN
  PROVE  /\ EncodeFlags(c) \in Byte
         /\ Bit(EncodeFlags(c), 0) = c.useRaw /\ Bit(EncodeFlags(c), 1) = c.autoRetx
         /\ Bit(EncodeFlags(c), 2) = c.txPause /\ Bit(EncodeFlags(c), 3) = c.protocolExc
<1> DEFINE BitOf(x) == IF x THEN 1 ELSE 0
<1>1. PICK a \in {0, 1}, b \in {0, 1}, d \in {0, 1}, e \in {0, 1} :
        /\ a = BitOf(c.useRaw) /\ b = BitOf(c.autoRetx)
        /\ d = BitOf(c.txPause) /\ e = BitOf(c.protocolExc)
  OBVIOUS
<1>2. EncodeFlags(c) = a + 2 * b + 4 * d + 8 * e
  BY <1>1 DEF EncodeFlags, Flag
<1>3. PICK f : f = a + 2 * b + 4 * d + 8 * e
  OBVIOUS
<1>4. /\ (f \div 2^0) % 2 = a /\ (f \div 2^1) % 2 = b
      /\ (f \div 2^2) % 2 = d /\ (f \div 2^3) % 2 = e
  BY <1>3, SMT
<1>5. f \in Byte
  BY <1>3, SMT DEF Byte
<1>6. Bit(f, 0) = (a = 1) /\ Bit(f, 1) = (b = 1) /\ Bit(f, 2) = (d = 1) /\ Bit(f, 3) = (e = 1)
  BY <1>4, Zenon DEF Bit
<1>7. /\ (a = 1) = c.useRaw /\ (b = 1) = c.autoRetx
      /\ (d = 1) = c.txPause /\ (e = 1) = c.protocolExc
  BY <1>1, 0 # 1, Zenon
<1> QED
  BY <1>2, <1>3, <1>5, <1>6, <1>7, Zenon

LEMMA ModeCounts ==
  ASSUME NEW c, c.mode \in {CanModes[i] : i \in 1..4},
         NEW m, m = (CHOOSE i \in 1..4 : CanModes[i] = c.mode) - 1
  PROVE  m \in 0..3 /\ CanModes[m + 1] = c.mode
<1>1. \E i \in 1..4 : CanModes[i] = c.mode
  OBVIOUS
<1>2. PICK k : k = CHOOSE i \in 1..4 : CanModes[i] = c.mode
  OBVIOUS
<1>3. k \in 1..4 /\ CanModes[k] = c.mode
  BY <1>1, <1>2, Zenon
<1> QED
  BY <1>2, <1>3

-----------------------------------------------------------------------------
(***************************************************************************)
(* A configuration: the request, what the dongle reads of it, its answer,  *)
(* and what the agent reads of that, whole or cut short.                   *)
(***************************************************************************)
LEMMA IsByte ==
  ASSUME NEW n \in Byte
  PROVE  n \in Nat /\ n < 256
BY SMT DEF Byte

LEMMA NoneOutside ==
  ASSUME NEW S, NEW x, NEW y, NEW z, {x, y, z} \ S = {}
  PROVE  x \in S /\ y \in S /\ z \in S
OBVIOUS

\* A configuration as the agent has it after toRempConfig.
Settable(c) ==
  /\ c.bitrate \in Nat /\ c.bitrate <= MaxBitrate
  /\ c.samplePoint \in Int /\ c.prescaler \in Int
  /\ c.sjw \in Int /\ c.tseg1 \in Int /\ c.tseg2 \in Int
  /\ c.mode \in 0..3
  /\ c.useRaw \in BOOLEAN /\ c.autoRetx \in BOOLEAN /\ c.txPause \in BOOLEAN
  /\ c.protocolExc \in BOOLEAN

\* What the configuration c has become in a request.
ConfigSaid(p, c) ==
  /\ p \in Seq(Byte) /\ Len(p) = 16
  /\ Holds(p, 2, BE(c.bitrate, 4)) /\ Holds(p, 6, Timing(c))
  /\ Holds(p, 13, <<c.mode, EncodeFlags(c), 0>>)

LEMMA AskedIsSettable ==
  ASSUME NEW a \in Configs, NEW c, c = ToRempConfig(a)
  PROVE  /\ Settable(c) /\ CanModes[c.mode + 1] = a.mode
         /\ a = [c EXCEPT !.mode = a.mode]
         /\ DOMAIN c = {"bitrate", "samplePoint", "prescaler", "sjw", "tseg1", "tseg2",
                        "mode", "useRaw", "autoRetx", "txPause", "protocolExc"}
<1>1. a \in [bitrate : 0..MaxBitrate, samplePoint : Int, prescaler : Int,
              sjw : Int, tseg1 : Int, tseg2 : Int,
              mode : {CanModes[i] : i \in 1..4}, useRaw : BOOLEAN,
              autoRetx : BOOLEAN, txPause : BOOLEAN, protocolExc : BOOLEAN]
  BY CodecsAssumption DEF CodecsAssumption, RequestsAssumption
<1>2. PICK m : m = (CHOOSE i \in 1..4 : CanModes[i] = a.mode) - 1
  OBVIOUS
<1>3. a.mode \in {CanModes[i] : i \in 1..4}
  BY <1>1
<1>4. m \in 0..3 /\ CanModes[m + 1] = a.mode
  BY <1>2, <1>3, ModeCounts
<1>5. c = [a EXCEPT !.mode = m]
  BY <1>2, Zenon DEF ToRempConfig
<1>6. c.mode = m
  BY <1>1, <1>5
<1>7. /\ c.bitrate = a.bitrate /\ c.samplePoint = a.samplePoint
      /\ c.prescaler = a.prescaler /\ c.sjw = a.sjw /\ c.tseg1 = a.tseg1
      /\ c.tseg2 = a.tseg2 /\ c.useRaw = a.useRaw /\ c.autoRetx = a.autoRetx
      /\ c.txPause = a.txPause /\ c.protocolExc = a.protocolExc
  BY <1>1, <1>5
<1>8. a.bitrate \in 0..MaxBitrate /\ MaxBitrate \in Nat
  <2>1. MaxBitrate \in Nat
    BY SMT DEF MaxBitrate
  <2> QED
    BY <1>1, <2>1
<1>9. Settable(c)
  <2>1. c.bitrate \in Nat /\ c.bitrate <= MaxBitrate
    BY <1>7, <1>8
  <2>2. /\ c.samplePoint \in Int /\ c.prescaler \in Int
        /\ c.sjw \in Int /\ c.tseg1 \in Int /\ c.tseg2 \in Int
        /\ c.useRaw \in BOOLEAN /\ c.autoRetx \in BOOLEAN /\ c.txPause \in BOOLEAN
        /\ c.protocolExc \in BOOLEAN
    BY <1>1, <1>7
  <2> QED
    BY <1>4, <1>6, <2>1, <2>2 DEF Settable
<1>10. a = [c EXCEPT !.mode = a.mode]
  BY <1>1, <1>5
<1>11. DOMAIN c = {"bitrate", "samplePoint", "prescaler", "sjw", "tseg1", "tseg2",
                        "mode", "useRaw", "autoRetx", "txPause", "protocolExc"}
  BY <1>1, <1>5
<1> QED
  BY <1>4, <1>6, <1>9, <1>10, <1>11

LEMMA SixBytes ==
  ASSUME NEW a \in Byte, NEW b \in Byte, NEW c \in Byte, NEW d \in Byte, NEW e \in Byte,
         NEW f \in Byte, NEW x, x = <<a, b, c, d, e, f>>
  PROVE  /\ x \in Seq(Byte) /\ Len(x) = 6
         /\ Holds(x, 0, <<a, b, c>>) /\ Holds(x, 3, <<d, e, f>>)
<1>1. x \in Seq(Byte) /\ Len(x) = 6
  OBVIOUS
<1>2. PICK y : y = <<a, b, c>>
  OBVIOUS
<1>3. PICK z : z = <<d, e, f>>
  OBVIOUS
<1>4. /\ y \in Seq(Byte) /\ Len(y) = 3 /\ z \in Seq(Byte) /\ Len(z) = 3
  BY <1>2, <1>3
<1>5. \A i \in 1..3 : x[0 + i] = y[i] /\ x[3 + i] = z[i]
  <2>1. /\ x[1] = y[1] /\ x[2] = y[2] /\ x[3] = y[3]
        /\ x[4] = z[1] /\ x[5] = z[2] /\ x[6] = z[3]
    BY <1>2, <1>3
  <2> QED
    BY <2>1
<1>6. Holds(x, 0, y)
  BY <1>1, <1>4, <1>5 DEF Holds
<1>7. Holds(x, 3, z)
  BY <1>1, <1>4, <1>5 DEF Holds
<1> QED
  BY <1>1, <1>2, <1>3, <1>6, <1>7

LEMMA ConfigOut ==
  ASSUME NEW c, Settable(c), EncodeCanConfigRequest(c).ok
  PROVE  /\ Encodable(c)
         /\ \E p : ConfigSaid(p, c)
                   /\ EncodeCanConfigRequest(c) = [ok |-> TRUE, bytes |-> p]
<1>0. /\ {c.samplePoint, c.prescaler} \ Word = {}
      /\ {c.sjw, c.tseg1, c.tseg2} \ Byte = {}
  BY DEF EncodeCanConfigRequest, Error
<1>1. /\ c.samplePoint \in Word /\ c.prescaler \in Word
      /\ c.sjw \in Byte /\ c.tseg1 \in Byte /\ c.tseg2 \in Byte
  BY <1>0
<1>2. Encodable(c)
  BY <1>1 DEF Encodable
<1>3. PICK a : a = <<1, 0>>
  OBVIOUS
<1>4. PICK b : b = BE(c.bitrate, 4)
  OBVIOUS
<1>5. PICK d : d = BE(c.samplePoint, 2)
  OBVIOUS
<1>6. PICK e : e = BE(c.prescaler, 2)
  OBVIOUS
<1>7. PICK f : f = <<c.sjw, c.tseg1, c.tseg2, c.mode, EncodeFlags(c), 0>>
  OBVIOUS
<1>8. a \in Seq(Byte) /\ Len(a) = 2
  BY <1>3 DEF Byte
<1>9. b \in Seq(Byte) /\ Len(b) = 4
  BY <1>4, FourBytesOfRate DEF Settable
<1>10. d \in Seq(Byte) /\ Len(d) = 2 /\ e \in Seq(Byte) /\ Len(e) = 2
  BY <1>1, <1>5, <1>6, TwoBytesOfWord
<1>11. /\ c.mode \in Byte /\ EncodeFlags(c) \in Byte /\ 0 \in Byte
       /\ c.sjw \in Byte /\ c.tseg1 \in Byte /\ c.tseg2 \in Byte
  <2>1. c.mode \in Byte /\ 0 \in Byte
    BY DEF Settable, Byte
  <2>2. EncodeFlags(c) \in Byte
    BY FlagBits DEF Settable
  <2> QED
    BY <1>1, <2>1, <2>2
<1>12. /\ f \in Seq(Byte) /\ Len(f) = 6 /\ Holds(f, 0, <<c.sjw, c.tseg1, c.tseg2>>)
       /\ Holds(f, 3, <<c.mode, EncodeFlags(c), 0>>)
  BY <1>7, <1>11, SixBytes
<1>13. PICK p : p = a \o b \o d \o e \o f
  OBVIOUS
<1>14. FiveIn(p, a, b, d, e, f)
  BY <1>8, <1>9, <1>10, <1>12, <1>13, FivePieces
<1>15. /\ p \in Seq(Byte) /\ Len(p) = 16 /\ Holds(p, 2, b) /\ Holds(p, 6, d)
       /\ Holds(p, 8, e) /\ Holds(p, 10, f)
  BY <1>8, <1>9, <1>10, <1>12, <1>14 DEF FiveIn
<1>16. Holds(p, 10, <<c.sjw, c.tseg1, c.tseg2>>)
  BY <1>12, <1>15, HoldsWithin, 10 = 10 + 0
<1>17. Holds(p, 13, <<c.mode, EncodeFlags(c), 0>>)
  <2>1. PICK g : g = <<c.mode, EncodeFlags(c), 0>>
    OBVIOUS
  <2>2. Holds(f, 3, g)
    BY <1>12, <2>1
  <2>3. PICK l : l = 13 /\ l = 10 + 3
    OBVIOUS
  <2>4. Holds(p, l, g)
    BY <1>15, <2>2, <2>3, HoldsWithin
  <2> QED
    BY <2>1, <2>3, <2>4
<1>18. Holds(p, 6, d \o e)
  BY <1>10, <1>15, HoldsJoined, 8 = 6 + 2
<1>19. Len(d \o e) = 4
  <2>1. Len(d \o e) = Len(d) + Len(e)
    BY <1>10, Joined
  <2> QED
    BY <1>10, <2>1
<1>20. Holds(p, 6, (d \o e) \o <<c.sjw, c.tseg1, c.tseg2>>)
  BY <1>16, <1>18, <1>19, HoldsJoined, 10 = 6 + 4
<1>21. Holds(p, 6, Timing(c))
  BY <1>5, <1>6, <1>20 DEF Timing
<1>22. EncodeCanConfigRequest(c) = [ok |-> TRUE, bytes |-> p]
  BY <1>0, <1>3, <1>4, <1>5, <1>6, <1>7, <1>13, Zenon DEF EncodeCanConfigRequest
<1> QED
  BY <1>2, <1>4, <1>15, <1>17, <1>21, <1>22 DEF ConfigSaid

\* What the dongle reads of the payload of a request of each kind.
LEMMA ConfigRead ==
  ASSUME NEW p, NEW c, Settable(c), Encodable(c), ConfigSaid(p, c)
  PROVE  /\ U8(p, 13) = c.mode /\ U31(p, 2) = c.bitrate
         /\ Slice(p, 6, 13) = Timing(c) /\ U8(p, 14) = EncodeFlags(c)
<1>1. PICK g : g = <<c.mode, EncodeFlags(c), 0>>
  OBVIOUS
<1>3. Holds(p, 13, g) /\ Holds(p, 2, BE(c.bitrate, 4)) /\ Holds(p, 6, Timing(c))
  BY <1>1 DEF ConfigSaid
<1>4. PICK j, k : j = 13 + 1 /\ k = 13 + 2
  OBVIOUS
<1>5. U8(p, 13) = c.mode /\ U8(p, j) = EncodeFlags(c)
  BY <1>1, <1>3, <1>4, HoldsThree
<1>6. U31(p, 2) = c.bitrate
  BY <1>3, HoldsFour DEF Settable
<1>7. Slice(p, 6, 13) = Timing(c)
  <2>1. Len(Timing(c)) = 7
    BY TimingHolds
  <2>2. PICK e : e = 13 /\ e = 6 + Len(Timing(c))
    BY <2>1
  <2> QED
    BY <1>3, <2>2, HoldsSlice
<1> QED
  BY <1>4, <1>5, <1>6, <1>7, 13 + 1 = 14

\* The dongle's answer about configuration c, with its status and its mode.
ConfigAnswer(status, c, applied) ==
  <<2, status>> \o BE(c.bitrate, 4) \o Timing(c) \o <<applied, EncodeFlags(c), 0>>

ConfigAnswered(p, status, c, applied) ==
  /\ p \in Seq(Byte) /\ Len(p) = 16
  /\ Holds(p, 0, <<2, status>>) /\ Holds(p, 2, BE(c.bitrate, 4))
  /\ Holds(p, 6, Timing(c)) /\ Holds(p, 13, <<applied, EncodeFlags(c), 0>>)

LEMMA ConfigAnswerOut ==
  ASSUME NEW c, Settable(c), Encodable(c), NEW status \in 0..4, NEW applied \in 0..4
  PROVE  ConfigAnswered(ConfigAnswer(status, c, applied), status, c, applied)
<1>1. PICK a : a = <<2, status>>
  OBVIOUS
<1>2. PICK b : b = BE(c.bitrate, 4)
  OBVIOUS
<1>3. PICK d : d = Timing(c)
  OBVIOUS
<1>4. PICK e : e = <<applied, EncodeFlags(c), 0>>
  OBVIOUS
<1>5. status \in Byte /\ applied \in Byte /\ 0 \in Byte /\ 2 \in Byte
  BY StatusIsWord, 0 \in 0..4, 2 \in 0..4
<1>6. a \in Seq(Byte) /\ Len(a) = 2
  BY <1>1, <1>5
<1>7. b \in Seq(Byte) /\ Len(b) = 4
  BY <1>2, FourBytesOfRate DEF Settable
<1>8. d \in Seq(Byte) /\ Len(d) = 7
  BY <1>3, TimingHolds
<1>9. e \in Seq(Byte) /\ Len(e) = 3
  <2>1. EncodeFlags(c) \in Byte
    BY FlagBits DEF Settable
  <2> QED
    BY <1>4, <1>5, <2>1
<1>10. PICK p : p = a \o b \o d \o e
  OBVIOUS
<1>11. FourIn(p, a, b, d, e)
  BY <1>6, <1>7, <1>8, <1>9, <1>10, FourPieces
<1>12. /\ p \in Seq(Byte) /\ Len(p) = 16 /\ Holds(p, 0, a) /\ Holds(p, 2, b)
       /\ Holds(p, 6, d) /\ Holds(p, 13, e)
  BY <1>6, <1>7, <1>8, <1>9, <1>11 DEF FourIn
<1>13. p = ConfigAnswer(status, c, applied)
  BY <1>1, <1>2, <1>3, <1>4, <1>10 DEF ConfigAnswer
<1> QED
  BY <1>1, <1>2, <1>3, <1>4, <1>12, <1>13 DEF ConfigAnswered

\* The configuration that it stands for.
Effective(c, applied) ==
  [bitrate |-> c.bitrate, samplePoint |-> c.samplePoint, prescaler |-> c.prescaler,
   sjw |-> c.sjw, tseg1 |-> c.tseg1, tseg2 |-> c.tseg2, mode |-> applied,
   useRaw |-> c.useRaw, autoRetx |-> c.autoRetx, txPause |-> c.txPause,
   protocolExc |-> c.protocolExc]

SetRead(r, status, c, applied) ==
  r.ok /\ (r.status = "ok" => status = 0) /\ r.config = Effective(c, applied)

\* The agent reads of it what was set.
LEMMA ConfigAnswerIn ==
  ASSUME NEW c, Settable(c), Encodable(c), NEW status \in 0..4, NEW applied \in 0..4,
         NEW p, ConfigAnswered(p, status, c, applied),
         NEW r, r = DecodeCanConfigResponse(p)
  PROVE  SetRead(r, status, c, applied)
<1>1. PICK a : a = <<2, status>>
  OBVIOUS
<1>2. PICK g : g = <<applied, EncodeFlags(c), 0>>
  OBVIOUS
<1>3. PICK t : t = Timing(c)
  OBVIOUS
<1>4. PICK s : s = <<c.sjw, c.tseg1, c.tseg2>>
  OBVIOUS
<1>6. /\ p \in Seq(Byte) /\ Len(p) = 16 /\ Holds(p, 0, a) /\ Holds(p, 2, BE(c.bitrate, 4))
      /\ Holds(p, 6, t) /\ Holds(p, 13, g)
  BY <1>1, <1>2, <1>3 DEF ConfigAnswered
<1>7. /\ Holds(t, 0, BE(c.samplePoint, 2)) /\ Holds(t, 2, BE(c.prescaler, 2))
      /\ Holds(t, 4, s)
  BY <1>3, <1>4, TimingHolds
<1>8. PICK six : six = 6 /\ six = 6 + 0
  OBVIOUS
<1>9. PICK eight : eight = 8 /\ eight = 6 + 2
  OBVIOUS
<1>10. PICK ten : ten = 10 /\ ten = 6 + 4
  OBVIOUS
<1>11. Holds(p, six, BE(c.samplePoint, 2))
  BY <1>6, <1>7, <1>8, HoldsWithin
<1>12. Holds(p, eight, BE(c.prescaler, 2))
  BY <1>6, <1>7, <1>9, HoldsWithin
<1>13. Holds(p, ten, s)
  BY <1>6, <1>7, <1>10, HoldsWithin
<1>14. U16(p, 6) = c.samplePoint /\ U16(p, 8) = c.prescaler
  <2>1. c.samplePoint \in Word /\ c.prescaler \in Word
    BY DEF Encodable
  <2>2. U16(p, six) = c.samplePoint /\ U16(p, eight) = c.prescaler
    BY <1>11, <1>12, <2>1, HoldsTwo
  <2> QED
    BY <1>8, <1>9, <2>2
<1>15. PICK one, fourteen, fifteen, k :
         one = 0 + 1 /\ fourteen = 13 + 1 /\ fifteen = 13 + 2 /\ k = ten + 1
  OBVIOUS
<1>16. PICK l : l = ten + 2
  OBVIOUS
<1>17. U8(p, ten) = c.sjw /\ U8(p, k) = c.tseg1 /\ U8(p, l) = c.tseg2
  BY <1>4, <1>13, <1>15, <1>16, HoldsThree
<1>20. U8(p, 0) = 2 /\ U8(p, one) = status
  BY <1>1, <1>6, <1>15, HoldsPair
<1>22. U8(p, 13) = applied /\ U8(p, fourteen) = EncodeFlags(c)
  BY <1>2, <1>6, <1>15, HoldsThree
<1>24. U31(p, 2) = c.bitrate
  BY <1>6, HoldsFour DEF Settable
<1>25. /\ U8(p, 1) = status /\ U8(p, 14) = EncodeFlags(c)
       /\ U8(p, 10) = c.sjw /\ U8(p, 11) = c.tseg1 /\ U8(p, 12) = c.tseg2
  BY <1>10, <1>15, <1>16, <1>17, <1>20, <1>22
<1>26. PICK f : f = EncodeFlags(c)
  OBVIOUS
<1>27. /\ Bit(f, 0) = c.useRaw /\ Bit(f, 1) = c.autoRetx
       /\ Bit(f, 2) = c.txPause /\ Bit(f, 3) = c.protocolExc
  BY <1>26, FlagBits DEF Settable
<1>28. ~ (Len(p) < 16 \/ U8(p, 0) # 2)
  BY <1>6, <1>20
<1>29. PICK w : w = CASE U8(p, 1) = 0 -> "ok"
                      [] U8(p, 1) = 1 -> "invalid"
                      [] OTHER -> "apply_failed"
  OBVIOUS
<1>30. w = "ok" => status = 0
  BY <1>25, <1>29
<1>31. r = [ok |-> TRUE, status |-> w,
            config |-> Effective(c, applied)]
  BY <1>14, <1>22, <1>24, <1>25, <1>26, <1>27, <1>28, <1>29, Zenon DEF DecodeCanConfigResponse, Effective
<1> QED
  BY <1>30, <1>31 DEF SetRead

-----------------------------------------------------------------------------
(***************************************************************************)
(* A command, alike.                                                       *)
(***************************************************************************)
LEMMA CorrIs == Corr \in Seq(Byte) /\ Len(Corr) = 16
BY CodecsAssumption DEF CodecsAssumption, RequestsAssumption

LEMMA FlagIsByte ==
  ASSUME NEW on
  PROVE  Flag(on, 1) \in Byte
BY DEF Flag, Byte

\* The payload of a command's request.
CliSaid(p, dangerous, command) ==
  /\ p \in Seq(Byte) /\ command \in Seq(Byte) /\ Len(command) \in Word
  /\ Len(p) = 22 + Len(command)
  /\ Holds(p, 0, <<1, Flag(dangerous, 1), 0, 0>>) /\ Holds(p, 4, Corr)
  /\ Holds(p, 20, BE(Len(command), 2)) /\ Holds(p, 22, command)

LEMMA CliOut ==
  ASSUME NEW dangerous, NEW command \in Seq(Byte),
         EncodeCliRequest(Corr, dangerous, command).ok
  PROVE  \E p : /\ CliSaid(p, dangerous, command)
                /\ EncodeCliRequest(Corr, dangerous, command) = [ok |-> TRUE, bytes |-> p]
<1>1. PICK n : n = Len(command)
  OBVIOUS
<1>2. n \in Word
  BY <1>1, Zenon DEF EncodeCliRequest, Error
<1>3. PICK a : a = <<1, Flag(dangerous, 1), 0, 0>>
  OBVIOUS
<1>4. PICK c : c = BE(n, 2)
  OBVIOUS
<1>5. a \in Seq(Byte) /\ Len(a) = 4
  BY <1>3, FlagIsByte, StatusIsWord, 0 \in 0..4, 1 \in 0..4
<1>6. c \in Seq(Byte) /\ Len(c) = 2
  BY <1>2, <1>4, TwoBytesOfWord
<1>7. PICK p : p = a \o Corr \o c \o command
  OBVIOUS
<1>8. FourIn(p, a, Corr, c, command)
  BY <1>5, <1>6, <1>7, CorrIs, FourPieces
<1>9. n \in Nat
  BY <1>1
<1>10. /\ p \in Seq(Byte) /\ Len(p) = 22 + n /\ Holds(p, 0, a) /\ Holds(p, 4, Corr)
       /\ Holds(p, 20, c) /\ Holds(p, 22, command)
  BY <1>1, <1>5, <1>6, <1>8, <1>9, CorrIs DEF FourIn
<1>11. CliSaid(p, dangerous, command)
  BY <1>1, <1>2, <1>3, <1>4, <1>10 DEF CliSaid
<1>12. EncodeCliRequest(Corr, dangerous, command) = [ok |-> TRUE, bytes |-> p]
  BY <1>1, <1>2, <1>3, <1>4, <1>7, Zenon DEF EncodeCliRequest
<1> QED
  BY <1>11, <1>12

LEMMA CliRead ==
  ASSUME NEW p, NEW dangerous \in BOOLEAN, NEW command, CliSaid(p, dangerous, command)
  PROVE  /\ Slice(p, 4, 20) = Corr /\ (U8(p, 1) = 1) = dangerous
         /\ Slice(p, 22, 22 + U16(p, 20)) = command
<1>1. PICK a : a = <<1, Flag(dangerous, 1), 0, 0>>
  OBVIOUS
<1>2. PICK n : n = Len(command)
  OBVIOUS
<1>3. /\ n \in Word /\ Holds(p, 0, a) /\ Holds(p, 4, Corr) /\ Holds(p, 20, BE(n, 2))
      /\ Holds(p, 22, command)
  BY <1>1, <1>2 DEF CliSaid
<1>4. PICK j, k : j = 0 + 1 /\ k = 0 + 2
  OBVIOUS
<1>5. U8(p, j) = Flag(dangerous, 1)
  BY <1>1, <1>3, <1>4, HoldsQuad
<1>6. U16(p, 20) = n
  BY <1>3, HoldsTwo
<1>7. PICK e : e = 4 + Len(Corr) /\ e = 20
  BY CorrIs
<1>8. Slice(p, 4, e) = Corr
  BY <1>3, <1>7, HoldsSlice
<1>9. PICK l : l = 22 + n
  OBVIOUS
<1>10. Slice(p, 22, l) = command
  BY <1>2, <1>3, <1>9, HoldsSlice
<1>11. (U8(p, 1) = 1) = dangerous
  <2>1. U8(p, 1) = Flag(dangerous, 1)
    BY <1>4, <1>5
  <2>2. (Flag(dangerous, 1) = 1) = dangerous
    BY DEF Flag
  <2> QED
    BY <2>1, <2>2
<1> QED
  BY <1>6, <1>7, <1>8, <1>9, <1>10, <1>11

CliAnswer(status, truncated, command) ==
  <<2, status, Flag(truncated, 1), 0>> \o Corr \o BE(status, 2)
    \o BE(Len(command), 2) \o command

CliAnswered(p, status, truncated, command) ==
  /\ p \in Seq(Byte) /\ Len(p) = 24 + Len(command) /\ Len(command) \in Word
  /\ Len(command) \in Nat
  /\ Holds(p, 0, <<2, status, Flag(truncated, 1), 0>>) /\ Holds(p, 4, Corr)
  /\ Holds(p, 20, BE(status, 2)) /\ Holds(p, 22, BE(Len(command), 2))
  /\ Holds(p, 24, command)

LEMMA CliAnswerOut ==
  ASSUME NEW status \in 0..4, NEW truncated \in BOOLEAN, NEW command \in Seq(Byte),
         Len(command) \in Word
  PROVE  CliAnswered(CliAnswer(status, truncated, command), status, truncated, command)
<1>1. PICK a : a = <<2, status, Flag(truncated, 1), 0>>
  OBVIOUS
<1>2. PICK c : c = BE(status, 2)
  OBVIOUS
<1>3. PICK n : n = Len(command)
  OBVIOUS
<1>4. PICK d : d = BE(n, 2)
  OBVIOUS
<1>5. a \in Seq(Byte) /\ Len(a) = 4
  BY <1>1, FlagIsByte, StatusIsWord, 0 \in 0..4, 2 \in 0..4
<1>6. c \in Seq(Byte) /\ Len(c) = 2 /\ d \in Seq(Byte) /\ Len(d) = 2
  BY <1>2, <1>3, <1>4, StatusIsWord, TwoBytesOfWord
<1>7. PICK p : p = a \o Corr \o c \o d \o command
  OBVIOUS
<1>8. FiveIn(p, a, Corr, c, d, command)
  BY <1>5, <1>6, <1>7, CorrIs, FivePieces
<1>9. n \in Nat
  BY <1>3
<1>10. /\ p \in Seq(Byte) /\ Len(p) = 24 + n /\ Holds(p, 0, a) /\ Holds(p, 4, Corr)
       /\ Holds(p, 20, c) /\ Holds(p, 22, d) /\ Holds(p, 24, command)
  BY <1>3, <1>5, <1>6, <1>8, <1>9, CorrIs DEF FiveIn
<1>11. p = CliAnswer(status, truncated, command)
  BY <1>1, <1>2, <1>3, <1>4, <1>7 DEF CliAnswer
<1> QED
  BY <1>1, <1>2, <1>3, <1>4, <1>9, <1>10, <1>11 DEF CliAnswered

\* The answer is read as it was given, or not at all.
LEMMA CliAnswerIn ==
  ASSUME NEW status \in 0..4, NEW truncated \in BOOLEAN, NEW command, NEW p,
         CliAnswered(p, status, truncated, command)
  PROVE  DecodeCliResponse(p)
           = [ok |-> TRUE, status |-> CliStatus(status), truncated |-> truncated,
              corr |-> Corr, exitCode |-> status, output |-> command]
<1>1. PICK a : a = <<2, status, Flag(truncated, 1), 0>>
  OBVIOUS
<1>2. PICK n : n = Len(command)
  OBVIOUS
<1>3. /\ n \in Word /\ n \in Nat /\ Holds(p, 0, a) /\ Holds(p, 4, Corr)
      /\ Holds(p, 20, BE(status, 2)) /\ Holds(p, 22, BE(n, 2)) /\ Holds(p, 24, command)
      /\ Len(p) = 24 + n
  BY <1>1, <1>2 DEF CliAnswered
<1>4. PICK one, two : one = 0 + 1 /\ two = 0 + 2
  OBVIOUS
<1>5. U8(p, 0) = 2 /\ U8(p, one) = status /\ U8(p, two) = Flag(truncated, 1)
  BY <1>1, <1>3, <1>4, HoldsQuad
<1>6. U16(p, 22) = n /\ U16(p, 20) = status
  BY <1>3, StatusIsWord, HoldsTwo
<1>7. PICK e : e = 4 + Len(Corr) /\ e = 20
  BY CorrIs
<1>8. Slice(p, 4, e) = Corr
  BY <1>3, <1>7, HoldsSlice
<1>9. PICK l : l = 24 + n
  OBVIOUS
<1>10. Slice(p, 24, l) = command
  BY <1>2, <1>3, <1>9, HoldsSlice
<1>11. Bit(U8(p, 2), 0) = truncated
  <2>1. U8(p, 2) = Flag(truncated, 1)
    BY <1>4, <1>5
  <2>2. PICK x \in {0, 1} : x = Flag(truncated, 1)
    BY DEF Flag
  <2>3. (x \div 2^0) % 2 = x
    BY <2>2, SMT
  <2>4. Bit(x, 0) = (x = 1)
    BY <2>3, Zenon DEF Bit
  <2>5. (x = 1) = truncated
    BY <2>2 DEF Flag
  <2> QED
    BY <2>1, <2>2, <2>4, <2>5, Zenon
<1>12. ~ (Len(p) < 24 \/ U8(p, 0) # 2 \/ Len(p) < 24 + U16(p, 22))
  BY <1>3, <1>5, <1>6
<1>13. U8(p, 1) = status
  BY <1>4, <1>5
<1> QED
  BY <1>6, <1>7, <1>8, <1>9, <1>10, <1>11, <1>12, <1>13, Zenon DEF DecodeCliResponse

LEMMA CliAnswerCut ==
  ASSUME NEW status, NEW truncated, NEW command, NEW p,
         CliAnswered(p, status, truncated, command),
         NEW j \in Nat, j < Len(p)
  PROVE  DecodeCliResponse(SubSeq(p, 1, j)) = Error
<1>1. PICK n : n = Len(command)
  OBVIOUS
<1>2. PICK s : s = SubSeq(p, 1, j)
  OBVIOUS
<1>3. PICK d : d = BE(n, 2)
  OBVIOUS
<1>4. /\ n \in Word /\ n \in Nat /\ Holds(p, 22, d) /\ p \in Seq(Byte) /\ Len(p) = 24 + n
  BY <1>1, <1>3 DEF CliAnswered
<1>5. Len(s) = j
  BY <1>2, <1>4
<1>6. CASE j < 24
  <2>1. Len(s) < 24
    BY <1>5, <1>6
  <2> QED
    BY <1>2, <2>1, Zenon DEF DecodeCliResponse
<1>7. CASE j >= 24
  <2>1. Len(d) = 2
    BY <1>3, <1>4, TwoBytesOfWord
  <2>2. 22 + Len(d) <= j /\ j <= Len(p)
    BY <1>4, <1>7, <2>1
  <2>3. Holds(s, 22, d)
    BY <1>2, <1>4, <2>2, HoldsCut
  <2>4. U16(s, 22) = n
    BY <1>3, <1>4, <2>3, HoldsTwo
  <2>5. Len(s) < 24 + U16(s, 22)
    BY <1>4, <1>5, <2>4
  <2> QED
    BY <1>2, <2>5, Zenon DEF DecodeCliResponse
<1> QED
  BY <1>6, <1>7

LEMMA ConfigAnswerCut ==
  ASSUME NEW p \in Seq(Byte), Len(p) = 16, NEW j \in Nat, j < Len(p)
  PROVE  DecodeCanConfigResponse(SubSeq(p, 1, j)) = Error
<1>1. PICK s : s = SubSeq(p, 1, j)
  OBVIOUS
<1>2. Len(s) < 16
  BY <1>1
<1> QED
  BY <1>1, <1>2, Zenon DEF DecodeCanConfigResponse

-----------------------------------------------------------------------------
(***************************************************************************)
(* A pairing, alike: its start, its submission and the answer to each.     *)
(***************************************************************************)
\* The payloads of the two requests of a pairing.
StartSaid(p) ==
  /\ p \in Seq(Byte) /\ Len(p) = 20
  /\ Holds(p, 0, <<1, 0, 0, 0>>) /\ Holds(p, 4, Corr)

SubmitSaid(p, pin, nonce, token) ==
  /\ p \in Seq(Byte) /\ Len(pin) = 6 /\ Len(nonce) = 16 /\ Len(token) = 32
  /\ Holds(p, 0, <<2, 0, 0, 0>>) /\ Holds(p, 4, Corr) /\ Holds(p, 20, pin)
  /\ Holds(p, 26, nonce) /\ Holds(p, 42, <<Len(token)>>) /\ Holds(p, 43, token)

LEMMA StartOut ==
  \E p : StartSaid(p) /\ EncodePairingStart(Corr) = [ok |-> TRUE, bytes |-> p]
<1>1. PICK a : a = <<1, 0, 0, 0>>
  OBVIOUS
<1>2. a \in Seq(Byte) /\ Len(a) = 4
  BY <1>1, StatusIsWord, 0 \in 0..4, 1 \in 0..4
<1>3. PICK p : p = a \o Corr
  OBVIOUS
<1>4. /\ p \in Seq(Byte) /\ Len(p) = Len(a) + Len(Corr)
      /\ Holds(p, 0, a) /\ Holds(p, Len(a), Corr)
  BY <1>2, <1>3, CorrIs, TwoPieces
<1>5. Len(p) = 20 /\ Holds(p, 4, Corr)
  BY <1>2, <1>4, CorrIs
<1>6. StartSaid(p)
  BY <1>1, <1>4, <1>5 DEF StartSaid
<1> QED
  BY <1>1, <1>3, <1>6, Zenon DEF EncodePairingStart

LEMMA SubmitOut ==
  ASSUME NEW pin \in Seq(Byte), NEW nonce \in Seq(Byte), NEW token \in Seq(Byte),
         EncodePairingSubmit(Corr, pin, nonce, token).ok
  PROVE  \E p : /\ SubmitSaid(p, pin, nonce, token)
                /\ EncodePairingSubmit(Corr, pin, nonce, token) = [ok |-> TRUE, bytes |-> p]
<1>1. Len(pin) = 6 /\ Len(nonce) = 16 /\ Len(token) = 32
  BY Zenon DEF EncodePairingSubmit, Error
<1>2. PICK a : a = <<2, 0, 0, 0>>
  OBVIOUS
<1>3. PICK e : e = <<Len(token)>>
  OBVIOUS
<1>4. a \in Seq(Byte) /\ Len(a) = 4
  BY <1>2, StatusIsWord, 0 \in 0..4, 2 \in 0..4
<1>5. e \in Seq(Byte) /\ Len(e) = 1
  BY <1>1, <1>3 DEF Byte
<1>6. PICK q : q = a \o Corr \o pin \o nonce \o e
  OBVIOUS
<1>7. FiveIn(q, a, Corr, pin, nonce, e)
  BY <1>4, <1>5, <1>6, CorrIs, FivePieces
<1>8. /\ q \in Seq(Byte) /\ Len(q) = 43 /\ Holds(q, 0, a) /\ Holds(q, 4, Corr)
      /\ Holds(q, 20, pin) /\ Holds(q, 26, nonce) /\ Holds(q, 42, e)
  BY <1>1, <1>4, <1>5, <1>7, CorrIs DEF FiveIn
<1>9. PICK p : p = q \o token
  OBVIOUS
<1>10. p \in Seq(Byte) /\ Holds(p, Len(q), token)
  BY <1>8, <1>9, TwoPieces
<1>11. /\ Holds(p, 0, a) /\ Holds(p, 4, Corr) /\ Holds(p, 20, pin) /\ Holds(p, 26, nonce)
       /\ Holds(p, 42, e)
  BY <1>8, <1>9, HoldsGrows
<1>12. SubmitSaid(p, pin, nonce, token)
  BY <1>1, <1>2, <1>3, <1>8, <1>10, <1>11 DEF SubmitSaid
<1>13. EncodePairingSubmit(Corr, pin, nonce, token) = [ok |-> TRUE, bytes |-> p]
  BY <1>1, <1>2, <1>3, <1>6, <1>9, Zenon DEF EncodePairingSubmit
<1> QED
  BY <1>12, <1>13

LEMMA StartRead ==
  ASSUME NEW p, StartSaid(p)
  PROVE  U8(p, 0) = 1 /\ Slice(p, 4, 20) = Corr
<1>1. PICK a : a = <<1, 0, 0, 0>>
  OBVIOUS
<1>2. Holds(p, 0, a) /\ Holds(p, 4, Corr)
  BY <1>1 DEF StartSaid
<1>3. PICK j, k : j = 0 + 1 /\ k = 0 + 2
  OBVIOUS
<1>4. U8(p, 0) = 1
  BY <1>1, <1>2, <1>3, HoldsQuad
<1>5. PICK e : e = 4 + Len(Corr) /\ e = 20
  BY CorrIs
<1>6. Slice(p, 4, e) = Corr
  BY <1>2, <1>5, HoldsSlice
<1> QED
  BY <1>4, <1>5, <1>6

LEMMA SubmitRead ==
  ASSUME NEW p, NEW pin, NEW nonce, NEW token, SubmitSaid(p, pin, nonce, token)
  PROVE  /\ U8(p, 0) # 1 /\ Slice(p, 4, 20) = Corr /\ Slice(p, 20, 26) = pin
         /\ Slice(p, 26, 42) = nonce /\ Slice(p, 43, 43 + U8(p, 42)) = token
<1>1. PICK a : a = <<2, 0, 0, 0>>
  OBVIOUS
<1>2. PICK l : l = <<Len(token)>>
  OBVIOUS
<1>3. /\ Holds(p, 0, a) /\ Holds(p, 4, Corr) /\ Holds(p, 20, pin) /\ Holds(p, 26, nonce)
      /\ Holds(p, 42, l) /\ Holds(p, 43, token)
      /\ Len(pin) = 6 /\ Len(nonce) = 16 /\ Len(token) = 32
  BY <1>1, <1>2 DEF SubmitSaid
<1>4. PICK j, k : j = 0 + 1 /\ k = 0 + 2
  OBVIOUS
<1>5. U8(p, 0) = 2
  BY <1>1, <1>3, <1>4, HoldsQuad
<1>6. Slice(p, 4, 20) = Corr
  <2>1. PICK e : e = 4 + Len(Corr)
    OBVIOUS
  <2>2. Slice(p, 4, e) = Corr
    BY <1>3, <2>1, HoldsSlice
  <2>3. e = 20
    BY <2>1, CorrIs
  <2> QED
    BY <2>2, <2>3
<1>7. Slice(p, 20, 26) = pin
  <2>1. PICK e : e = 20 + Len(pin)
    OBVIOUS
  <2>2. Slice(p, 20, e) = pin
    <3>1. Holds(p, 20, pin)
      BY <1>3
    <3> QED
      BY <2>1, <3>1, HoldsSlice
  <2>3. e = 26
    BY <1>3, <2>1
  <2> QED
    BY <2>2, <2>3
<1>8. Slice(p, 26, 42) = nonce
  <2>1. PICK e : e = 26 + Len(nonce)
    OBVIOUS
  <2>2. Slice(p, 26, e) = nonce
    <3>1. Holds(p, 26, nonce)
      BY <1>3
    <3> QED
      BY <2>1, <3>1, HoldsSlice
  <2>3. e = 42
    BY <1>3, <2>1
  <2> QED
    BY <2>2, <2>3
<1>9. PICK h : h = 43 + Len(token)
  OBVIOUS
<1>10. Slice(p, 43, h) = token
  <2>1. Holds(p, 43, token)
    BY <1>3
  <2> QED
    BY <1>9, <2>1, HoldsSlice
<1>11. U8(p, 42) = Len(token)
  <2>1. Len(l) = 1 /\ l[1] = Len(token)
    BY <1>2
  <2>2. U8(p, 42 + 0) = l[0 + 1]
    BY <1>3, <2>1, HoldsByte, 0 \in Nat, 0 < Len(l)
  <2> QED
    BY <2>1, <2>2, 42 + 0 = 42, 0 + 1 = 1
<1> QED
  <2>1. U8(p, 0) # 1
    BY <1>5
  <2>2. Slice(p, 43, 43 + U8(p, 42)) = token
    BY <1>9, <1>10, <1>11
  <2> QED
    BY <1>6, <1>7, <1>8, <2>1, <2>2

PairAnswer(status, seconds, nonce) ==
  <<3, status>> \o BE(seconds, 2) \o Corr \o nonce

PairAnswered(p, status, seconds, nonce) ==
  /\ p \in Seq(Byte) /\ Len(p) = 20 + Len(nonce)
  /\ Holds(p, 0, <<3, status>>) /\ Holds(p, 2, BE(seconds, 2))
  /\ Holds(p, 4, Corr) /\ Holds(p, 20, nonce)

LEMMA PairAnswerOut ==
  ASSUME NEW status \in 0..4, NEW seconds \in Word, NEW nonce \in Seq(Byte)
  PROVE  PairAnswered(PairAnswer(status, seconds, nonce), status, seconds, nonce)
<1>1. PICK a : a = <<3, status>>
  OBVIOUS
<1>2. PICK b : b = BE(seconds, 2)
  OBVIOUS
<1>3. a \in Seq(Byte) /\ Len(a) = 2
  BY <1>1, StatusIsWord, 3 \in 0..4
<1>4. b \in Seq(Byte) /\ Len(b) = 2
  BY <1>2, TwoBytesOfWord
<1>5. PICK p : p = a \o b \o Corr \o nonce
  OBVIOUS
<1>6. FourIn(p, a, b, Corr, nonce)
  BY <1>3, <1>4, <1>5, CorrIs, FourPieces
<1>7. /\ p \in Seq(Byte) /\ Len(p) = 20 + Len(nonce) /\ Holds(p, 0, a) /\ Holds(p, 2, b)
      /\ Holds(p, 4, Corr) /\ Holds(p, 20, nonce)
  BY <1>3, <1>4, <1>6, CorrIs DEF FourIn
<1>8. p = PairAnswer(status, seconds, nonce)
  BY <1>1, <1>2, <1>5 DEF PairAnswer
<1> QED
  BY <1>1, <1>2, <1>7, <1>8 DEF PairAnswered

LEMMA NonceOrNot ==
  ASSUME NEW n \in Nat, NEW l \in Nat, NEW j \in Nat, l = 20 + n, j <= l, n = 0 \/ n = 16
  PROVE  /\ j >= 36 => n = 16 /\ j = l
         /\ j < 36 => j # l \/ n = 0
<1>1. CASE n = 0
  <2>1. l = 20
    BY <1>1
  <2> QED
    BY <1>1, <2>1
<1>2. CASE n = 16
  <2>1. l = 36
    BY <1>2
  <2> QED
    BY <1>2, <2>1
<1> QED
  BY <1>1, <1>2

\* What is read of the first j bytes of the answer, when it is read at all.
LEMMA PairAnswerIn ==
  ASSUME NEW status \in 0..4, NEW seconds \in Word, NEW nonce \in Seq(Byte),
         Len(nonce) = 0 \/ Len(nonce) = 16, NEW p, PairAnswered(p, status, seconds, nonce),
         NEW j \in Nat, j <= Len(p)
  PROVE  DecodePairingAck(SubSeq(p, 1, j))
           = IF j < 20 THEN Error
             ELSE [ok |-> TRUE, status |-> PairingStatus(status), expiresInS |-> seconds,
                   corr |-> Corr, nonce |-> IF j = Len(p) THEN nonce ELSE <<>>]
<1>1. PICK a : a = <<3, status>>
  OBVIOUS
<1>2. PICK b : b = BE(seconds, 2)
  OBVIOUS
<1>3. PICK s : s = SubSeq(p, 1, j)
  OBVIOUS
<1>4. /\ p \in Seq(Byte) /\ Len(p) = 20 + Len(nonce) /\ Holds(p, 0, a) /\ Holds(p, 2, b)
      /\ Holds(p, 4, Corr) /\ Holds(p, 20, nonce)
  BY <1>1, <1>2 DEF PairAnswered
<1>5. s \in Seq(Byte) /\ Len(s) = j
  BY <1>3, <1>4
<1>51. PICK n \in Nat, l \in Nat : n = Len(nonce) /\ l = Len(p) /\ l = 20 + n
  BY <1>4
<1>52. n = 0 \/ n = 16
  BY <1>51
<1>6. CASE j < 20
  <2>1. Len(s) < 20
    BY <1>5, <1>6
  <2> QED
    BY <1>3, <1>6, <2>1, Zenon DEF DecodePairingAck
<1>7. CASE j >= 20
  <2>1. Len(a) = 2 /\ Len(b) = 2
    BY <1>1, <1>2, TwoBytesOfWord
  <2>2. 0 + Len(a) <= j /\ 2 + Len(b) <= j /\ 4 + Len(Corr) <= j
    BY <1>7, <2>1, CorrIs
  <2>3. Holds(s, 0, a)
    BY <1>3, <1>4, <2>2, HoldsCut
  <2>4. Holds(s, 2, b)
    BY <1>3, <1>4, <2>2, HoldsCut
  <2>5. Holds(s, 4, Corr)
    BY <1>3, <1>4, <2>2, HoldsCut
  <2>6. PICK one : one = 0 + 1
    OBVIOUS
  <2>7. U8(s, 0) = 3 /\ U8(s, one) = status
    BY <1>1, <2>3, <2>6, HoldsPair
  <2>8. U16(s, 2) = seconds
    BY <1>2, <2>4, HoldsTwo
  <2>9. PICK e : e = 4 + Len(Corr) /\ e = 20
    BY CorrIs
  <2>10. Slice(s, 4, e) = Corr
    BY <2>5, <2>9, HoldsSlice
  <2>14. (IF Len(s) >= 36 THEN Slice(s, 20, 36) ELSE <<>>)
           = IF j = Len(p) THEN nonce ELSE <<>>
    <3>1. CASE Len(s) >= 36
      <4>1. j = Len(p) /\ Len(nonce) = 16
        <5>1. j >= 36 /\ j <= l
          BY <1>5, <1>51, <3>1
        <5>2. n = 16 /\ j = l
          BY <1>51, <1>52, <5>1, NonceOrNot
        <5> QED
          BY <1>51, <5>2
      <4>2. s = p
        BY <1>3, <1>4, <4>1, SubSeqFull
      <4>3. PICK f : f = 20 + Len(nonce)
        OBVIOUS
      <4>4. Slice(p, 20, f) = nonce
        BY <1>4, <4>3, HoldsSlice
      <4>5. f = 36
        BY <4>1, <4>3
      <4> QED
        BY <3>1, <4>1, <4>2, <4>4, <4>5, Zenon
    <3>2. CASE ~ (Len(s) >= 36)
      <4>1. j # Len(p) \/ Len(nonce) = 0
        <5>1. j < 36
          BY <1>5, <3>2
        <5>2. j # l \/ n = 0
          BY <1>51, <1>52, <5>1, NonceOrNot
        <5> QED
          BY <1>51, <5>2
      <4>2. Len(nonce) = 0 => nonce = <<>>
        BY EmptySeq
      <4> QED
        BY <3>2, <4>1, <4>2, Zenon
    <3> QED
      BY <3>1, <3>2
  <2>15. ~ (Len(s) < 20 \/ U8(s, 0) # 3) /\ U8(s, 1) = status
    BY <1>5, <1>7, <2>6, <2>7
  <2>16. DecodePairingAck(s)
           = [ok |-> TRUE, status |-> PairingStatus(status), expiresInS |-> seconds,
              corr |-> Corr, nonce |-> IF Len(s) >= 36 THEN Slice(s, 20, 36) ELSE <<>>]
    BY <2>8, <2>9, <2>10, <2>15, Zenon DEF DecodePairingAck
  <2>17. ~ (j < 20)
    BY <1>7
  <2> QED
    BY <1>3, <2>14, <2>16, <2>17, Zenon
<1> QED
  BY <1>6, <1>7

-----------------------------------------------------------------------------
(***************************************************************************)
(* Any request on its way to the dongle, and its answer on the way back.   *)
(***************************************************************************)
AskJobs == ConfigJobs \cup CliJobs \cup PairJobs

LEMMA AskJobsAre ==
  ASSUME NEW j \in AskJobs
  PROVE  /\ j.kind \in {"config", "cli", "pair"}
         /\ j.kind = "config" => /\ j.config \in Configs /\ j.status \in 0..4
                                 /\ j.applied \in 0..4
         /\ j.kind = "cli" => /\ j.dangerous \in BOOLEAN /\ j.command \in Seq(Byte)
                              /\ j.status \in 0..4 /\ j.truncated \in BOOLEAN
         /\ j.kind = "pair" => /\ j.start \in BOOLEAN
                               /\ j.pin \in Seq(Byte) /\ j.nonce \in Seq(Byte)
                               /\ j.token \in Seq(Byte) /\ j.status \in 0..4
                               /\ j.seconds \in Word /\ j.offered \in Seq(Byte)
                               /\ Len(j.offered) = 16
<1>1. RequestsAssumption
  BY CodecsAssumption DEF CodecsAssumption
<1>2. CASE j \in ConfigJobs
  <2>1. j.kind = "config" /\ j.config \in Configs /\ j.status \in 0..2 /\ j.applied \in 0..4
    BY <1>2 DEF ConfigJobs
  <2>2. j.status \in 0..4
    BY <2>1
  <2> QED
    BY <2>1, <2>2
<1>3. CASE j \in CliJobs
  <2>1. /\ j.kind = "cli" /\ j.dangerous \in BOOLEAN /\ j.command \in Commands
        /\ j.status \in 0..4 /\ j.truncated \in BOOLEAN
    BY <1>3 DEF CliJobs
  <2>2. j.command \in Seq(Byte)
    BY <1>1, <2>1 DEF RequestsAssumption
  <2> QED
    BY <2>1, <2>2
<1>4. CASE j \in PairJobs
  <2>1. /\ j.kind = "pair" /\ j.start \in BOOLEAN /\ j.pin \in Pins /\ j.nonce \in Nonces /\ j.token \in Tokens
        /\ j.status \in 0..3 /\ j.seconds \in Seconds
        /\ j.offered \in Nonces /\ Len(j.offered) = 16
    BY <1>4 DEF PairJobs
  <2>2. /\ j.pin \in Seq(Byte) /\ j.nonce \in Seq(Byte) /\ j.token \in Seq(Byte)
        /\ j.offered \in Seq(Byte) /\ j.seconds \in Word
    BY <1>1, <2>1 DEF RequestsAssumption
  <2>3. j.status \in 0..4
    BY <2>1
  <2> QED
    BY <2>1, <2>2, <2>3
<1> QED
  BY <1>2, <1>3, <1>4 DEF AskJobs

TypeFor(j) == IF j.kind = "config" THEN ConfigType
              ELSE IF j.kind = "cli" THEN CliType ELSE PairingType

\* The payload p is that of a request of the job j.
Said(j, p) ==
  /\ j.kind = "config" => /\ Encodable(ToRempConfig(j.config))
                          /\ ConfigSaid(p, ToRempConfig(j.config))
  /\ j.kind = "cli" => CliSaid(p, j.dangerous, j.command)
  /\ j.kind = "pair" => IF j.start THEN StartSaid(p)
                        ELSE SubmitSaid(p, j.pin, j.nonce, j.token)

\* The dongle has understood u, which is what the job j is about.
ConfigMeant(c) == [mode |-> c.mode, bitrate |-> c.bitrate, rest |-> Timing(c),
                   flags |-> EncodeFlags(c)]

Meant(j, u) ==
  /\ j.kind = "config" => /\ Encodable(ToRempConfig(j.config))
                          /\ u = ConfigMeant(ToRempConfig(j.config))
  /\ j.kind = "cli" => /\ Len(j.command) \in Word
                       /\ u = [corr |-> Corr, dangerous |-> j.dangerous,
                               command |-> j.command]
  /\ j.kind = "pair" => IF j.start
                        THEN u = [corr |-> Corr, pin |-> <<>>, nonce |-> <<>>,
                                  token |-> <<>>]
                        ELSE /\ u = [corr |-> Corr, pin |-> j.pin, nonce |-> j.nonce,
                                   token |-> j.token]
                           /\ Len(j.token) = 32

LEMMA TypesAreBytes ==
  /\ ConfigType \in Byte /\ CliType \in Byte /\ PairingType \in Byte
  /\ Token \in Seq(Byte) /\ Len(Token) <= MaxTokenLen
  /\ <<>> \in Seq(Byte) /\ Len(<<>>) <= MaxTokenLen
<1>1. /\ ConfigType \in Byte /\ CliType \in Byte /\ PairingType \in Byte
  BY DEF ConfigType, CliType, PairingType, Byte
<1>2. Token \in Seq(Byte) /\ Len(Token) <= MaxTokenLen
  BY CodecsAssumption DEF CodecsAssumption, FramesAssumption
<1>3. <<>> \in Seq(Byte) /\ Len(<<>>) <= MaxTokenLen
  BY DEF MaxTokenLen
<1> QED
  BY <1>1, <1>2, <1>3

LEMMA ErrorIsNotOk ==
  /\ ~ Error.ok
  /\ \A type, device, token, e : Datagram(type, device, token, e).ok => e.ok
<1>1. ~ Error.ok
  BY DEF Error
<1> QED
  BY <1>1, Zenon DEF Datagram

LEMMA AskedIsSaid ==
  ASSUME NEW j \in AskJobs, NEW d, d = RequestOf(j), d.ok,
         j.kind = "pair" => ~j.start
  PROVE  \E n, p : Carries(d.bytes, TypeFor(j), n, p) /\ Said(j, p)
<1>1. CASE j.kind = "config"
  <2>1. PICK c : c = ToRempConfig(j.config)
    OBVIOUS
  <2>2. PICK e : e = EncodeCanConfigRequest(c)
    OBVIOUS
  <2>3. d = Datagram(ConfigType, Device, Token, e)
    BY <1>1, <2>1, <2>2, Zenon DEF RequestOf, Request
  <2>4. Settable(c)
    BY <1>1, <2>1, AskJobsAre, AskedIsSettable
  <2>5. e.ok
    BY <2>3, ErrorIsNotOk
  <2>6. PICK p : Encodable(c) /\ ConfigSaid(p, c) /\ e = [ok |-> TRUE, bytes |-> p]
    BY <2>2, <2>4, <2>5, ConfigOut
  <2>7. p \in Seq(Byte) /\ e.ok /\ e.bytes = p
    BY <2>6 DEF ConfigSaid
  <2>8. PICK b : /\ Datagram(ConfigType, Device, Token, e) = [ok |-> TRUE, bytes |-> b]
                 /\ Carries(b, ConfigType, HeaderLen + Len(Token), p)
    BY <2>7, TypesAreBytes, Travels
  <2>9. d.bytes = b /\ TypeFor(j) = ConfigType
    BY <1>1, <2>3, <2>8 DEF TypeFor
  <2>10. Said(j, p)
    BY <1>1, <2>1, <2>6 DEF Said
  <2> QED
    BY <2>8, <2>9, <2>10, Zenon
<1>2. CASE j.kind = "cli"
  <2>1. PICK e : e = EncodeCliRequest(Corr, j.dangerous, j.command)
    OBVIOUS
  <2>2. d = Datagram(CliType, Device, Token, e)
    BY <1>2, <2>1, "cli" # "config", Zenon DEF RequestOf, Request
  <2>3. e.ok
    BY <2>2, ErrorIsNotOk
  <2>4. PICK p : CliSaid(p, j.dangerous, j.command) /\ e = [ok |-> TRUE, bytes |-> p]
    BY <1>2, <2>1, <2>3, AskJobsAre, CliOut
  <2>5. p \in Seq(Byte) /\ e.ok /\ e.bytes = p
    BY <2>4 DEF CliSaid
  <2>6. PICK b : /\ Datagram(CliType, Device, Token, e) = [ok |-> TRUE, bytes |-> b]
                 /\ Carries(b, CliType, HeaderLen + Len(Token), p)
    BY <2>5, TypesAreBytes, Travels
  <2>7. d.bytes = b /\ TypeFor(j) = CliType
    BY <1>2, <2>2, <2>6 DEF TypeFor
  <2>8. Said(j, p)
    BY <1>2, <2>4 DEF Said
  <2> QED
    BY <2>6, <2>7, <2>8, Zenon
<1>3. CASE j.kind = "pair"
  <2>1. PICK e : e = EncodePairingSubmit(Corr, j.pin, j.nonce, j.token)
    OBVIOUS
  <2>2. d = IF j.nonce = <<>> THEN Error ELSE Datagram(PairingType, Device, <<>>, e)
    BY <1>3, <2>1, "pair" # "config", "pair" # "cli", Zenon DEF RequestOf
  <2>3. d = Datagram(PairingType, Device, <<>>, e) /\ e.ok
    BY <2>2, ErrorIsNotOk
  <2>4. PICK p : SubmitSaid(p, j.pin, j.nonce, j.token) /\ e = [ok |-> TRUE, bytes |-> p]
    <3>1. PICK pin, nonce, token : pin = j.pin /\ nonce = j.nonce /\ token = j.token
      OBVIOUS
    <3>2. pin \in Seq(Byte) /\ nonce \in Seq(Byte) /\ token \in Seq(Byte)
      BY <1>3, <3>1, AskJobsAre
    <3>3. e = EncodePairingSubmit(Corr, pin, nonce, token)
      BY <2>1, <3>1
    <3>4. \E p : SubmitSaid(p, pin, nonce, token) /\ e = [ok |-> TRUE, bytes |-> p]
      BY <2>3, <3>2, <3>3, SubmitOut
    <3> QED
      BY <3>1, <3>4
  <2>5. p \in Seq(Byte) /\ e.ok /\ e.bytes = p
    BY <2>4 DEF SubmitSaid
  <2>6. PICK b : /\ Datagram(PairingType, Device, <<>>, e) = [ok |-> TRUE, bytes |-> b]
                 /\ Carries(b, PairingType, HeaderLen + Len(<<>>), p)
    BY <2>5, TypesAreBytes, Travels
  <2>7. d.bytes = b /\ TypeFor(j) = PairingType
    BY <1>3, <2>3, <2>6 DEF TypeFor
  <2>8. Said(j, p)
    BY <1>3, <2>4, Zenon DEF Said
  <2> QED
    BY <2>6, <2>7, <2>8, Zenon
<1> QED
  BY <1>1, <1>2, <1>3, AskJobsAre

LEMMA StartIsSaid ==
  ASSUME NEW j, j.kind = "pair", j.start,
         NEW d, d = Datagram(PairingType, Device, <<>>, EncodePairingStart(Corr)).bytes
  PROVE  \E n, p : /\ Carries(d, TypeFor(j), n, p) /\ Said(j, p)
                   /\ Len(d) <= MaxDatagram
<1>1. PICK e : e = EncodePairingStart(Corr)
  OBVIOUS
<1>2. PICK p : StartSaid(p) /\ e = [ok |-> TRUE, bytes |-> p]
  BY <1>1, StartOut
<1>3. p \in Seq(Byte) /\ Len(p) = 20 /\ e.ok /\ e.bytes = p
  BY <1>2 DEF StartSaid
<1>4. PICK b : /\ Datagram(PairingType, Device, <<>>, e) = [ok |-> TRUE, bytes |-> b]
               /\ Carries(b, PairingType, HeaderLen + Len(<<>>), p)
  BY <1>3, TypesAreBytes, Travels
<1>5. d = b /\ TypeFor(j) = PairingType
  BY <1>1, <1>4 DEF TypeFor
<1>6. Said(j, p)
  BY <1>2, "pair" # "config", "pair" # "cli", Zenon DEF Said
<1>7. Len(b) = 51
  BY <1>3, <1>4 DEF Carries, HeaderLen
<1>8. Len(b) <= MaxDatagram
  BY <1>7, SMT DEF MaxDatagram
<1> QED
  BY <1>4, <1>5, <1>6, <1>8, Zenon

LEMMA SaidIsMeant ==
  ASSUME job \in AskJobs, NEW p, Said(job, p)
  PROVE  Meant(job, Understood(job, p))
<1>1. CASE job.kind = "config"
  <2>1. PICK c : c = ToRempConfig(job.config)
    OBVIOUS
  <2>2. Settable(c)
    BY <1>1, <2>1, AskJobsAre, AskedIsSettable
  <2>3. Encodable(c) /\ ConfigSaid(p, c)
    BY <1>1, <2>1 DEF Said
  <2>4. /\ U8(p, 13) = c.mode /\ U31(p, 2) = c.bitrate
        /\ Slice(p, 6, 13) = Timing(c) /\ U8(p, 14) = EncodeFlags(c)
    BY <2>2, <2>3, ConfigRead
  <2>5. Understood(job, p) = ConfigMeant(c)
    BY <1>1, <2>4, Zenon DEF Understood, ConfigMeant
  <2> QED
    BY <1>1, <2>1, <2>3, <2>5 DEF Meant
<1>2. CASE job.kind = "cli"
  <2>1. PICK dangerous, command : dangerous = job.dangerous /\ command = job.command
    OBVIOUS
  <2>2. CliSaid(p, dangerous, command) /\ dangerous \in BOOLEAN
    BY <1>2, <2>1, AskJobsAre DEF Said
  <2>3. /\ Slice(p, 4, 20) = Corr /\ (U8(p, 1) = 1) = dangerous
        /\ Slice(p, 22, 22 + U16(p, 20)) = command
    BY <2>2, CliRead
  <2>4. Understood(job, p) = [corr |-> Corr, dangerous |-> dangerous, command |-> command]
    BY <1>2, <2>3, "cli" # "config", Zenon DEF Understood
  <2>5. Len(command) \in Word
    BY <2>2 DEF CliSaid
  <2> QED
    BY <1>2, <2>1, <2>4, <2>5 DEF Meant
<1>3. CASE job.kind = "pair"
  <2>1. PICK pin, nonce, token : pin = job.pin /\ nonce = job.nonce /\ token = job.token
    OBVIOUS
  <2>2. IF job.start THEN StartSaid(p) ELSE SubmitSaid(p, pin, nonce, token)
    BY <1>3, <2>1 DEF Said
  <2>3. CASE job.start
    <3>1. U8(p, 0) = 1 /\ Slice(p, 4, 20) = Corr
      BY <2>2, <2>3, StartRead
    <3>2. Understood(job, p) = [corr |-> Corr, pin |-> <<>>, nonce |-> <<>>, token |-> <<>>]
      BY <1>3, <3>1, "pair" # "config", "pair" # "cli", Zenon DEF Understood
    <3> QED
      BY <1>3, <2>3, <3>2, "pair" # "config", "pair" # "cli", Zenon DEF Meant
  <2>4. CASE ~job.start
    <3>1. /\ U8(p, 0) # 1 /\ Slice(p, 4, 20) = Corr /\ Slice(p, 20, 26) = pin
          /\ Slice(p, 26, 42) = nonce /\ Slice(p, 43, 43 + U8(p, 42)) = token
      BY <2>2, <2>4, SubmitRead
    <3>2. Understood(job, p) = [corr |-> Corr, pin |-> pin, nonce |-> nonce, token |-> token]
      BY <1>3, <3>1, "pair" # "config", "pair" # "cli", Zenon DEF Understood
    <3>3. Len(token) = 32
      BY <2>2, <2>4 DEF SubmitSaid
    <3> QED
      BY <1>3, <2>1, <2>4, <3>2, <3>3, "pair" # "config", "pair" # "cli", Zenon DEF Meant
  <2> QED
    BY <2>3, <2>4
<1> QED
  BY <1>1, <1>2, <1>3, AskJobsAre

LEMMA AnswerCarried ==
  ASSUME job \in AskJobs, NEW u, Meant(job, u), NEW type, type = TypeFor(job),
         NEW e, e.ok, e.bytes = AnswerTo(job, u)
  PROVE  \E n : Carries(Datagram(type, Device, <<>>, e).bytes, type, n, AnswerTo(job, u))
<1>1. AnswerTo(job, u) \in Seq(Byte)
  <2>1. CASE job.kind = "config"
    <3>1. PICK c, status, applied : /\ c = ToRempConfig(job.config)
                                    /\ status = job.status /\ applied = job.applied
      OBVIOUS
    <3>2. Settable(c) /\ status \in 0..4 /\ applied \in 0..4
      BY <2>1, <3>1, AskJobsAre, AskedIsSettable
    <3>3. Encodable(c) /\ u = ConfigMeant(c)
      BY <2>1, <3>1 DEF Meant
    <3>4. ConfigAnswered(ConfigAnswer(status, c, applied), status, c, applied)
      BY <3>2, <3>3, ConfigAnswerOut
    <3>5. u.bitrate = c.bitrate /\ u.rest = Timing(c) /\ u.flags = EncodeFlags(c)
      BY <3>3 DEF ConfigMeant
    <3>6. AnswerTo(job, u) = ConfigAnswer(status, c, applied)
      BY <2>1, <3>1, <3>5, Zenon DEF AnswerTo, ConfigAnswer
    <3> QED
      BY <3>4, <3>6 DEF ConfigAnswered
  <2>2. CASE job.kind = "cli"
    <3>1. PICK status, truncated, command :
            status = job.status /\ truncated = job.truncated /\ command = job.command
      OBVIOUS
    <3>2. status \in 0..4 /\ truncated \in BOOLEAN /\ command \in Seq(Byte)
      BY <2>2, <3>1, AskJobsAre
    <3>3. /\ Len(command) \in Word
          /\ u = [corr |-> Corr, dangerous |-> job.dangerous, command |-> command]
      BY <2>2, <3>1 DEF Meant
    <3>4. CliAnswered(CliAnswer(status, truncated, command), status, truncated, command)
      BY <3>2, <3>3, CliAnswerOut
    <3>5. u.corr = Corr /\ u.command = command
      BY <3>3
    <3>6. AnswerTo(job, u) = CliAnswer(status, truncated, command)
      BY <2>2, <3>1, <3>5, "cli" # "config", Zenon DEF AnswerTo, CliAnswer
    <3> QED
      BY <3>4, <3>6 DEF CliAnswered
  <2>3. CASE job.kind = "pair"
    <3>1. PICK status, seconds, nonce :
            /\ status = job.status /\ seconds = job.seconds
            /\ nonce = IF u.token = <<>> THEN job.offered ELSE <<>>
      OBVIOUS
    <3>2. status \in 0..4 /\ seconds \in Word /\ nonce \in Seq(Byte)
      BY <2>3, <3>1, AskJobsAre, TypesAreBytes
    <3>3. u.corr = Corr
      BY <2>3 DEF Meant
    <3>4. PairAnswered(PairAnswer(status, seconds, nonce), status, seconds, nonce)
      BY <3>2, PairAnswerOut
    <3>5. AnswerTo(job, u) = PairAnswer(status, seconds, nonce)
      BY <2>3, <3>1, <3>3, "pair" # "config", "pair" # "cli", Zenon DEF AnswerTo, PairAnswer
    <3> QED
      BY <3>4, <3>5 DEF PairAnswered
  <2> QED
    BY <2>1, <2>2, <2>3, AskJobsAre
<1>2. PICK p : p = AnswerTo(job, u)
  OBVIOUS
<1>3. p \in Seq(Byte) /\ e.bytes = p
  BY <1>1, <1>2
<1>4. type \in Byte
  BY TypesAreBytes DEF TypeFor
<1>5. PICK b : /\ Datagram(type, Device, <<>>, e) = [ok |-> TRUE, bytes |-> b]
               /\ Carries(b, type, HeaderLen + Len(<<>>), p)
  BY <1>3, <1>4, TypesAreBytes, Travels
<1>6. Datagram(type, Device, <<>>, e).bytes = b
  BY <1>5
<1> QED
  BY <1>2, <1>5, <1>6

\* What the agent may make r of an answer to what the dongle understood as u,
\* when n bytes of it are lost.
ConfigTrue(j, r) ==
  /\ j.status = 0
  /\ j.applied < 4 => r.effective = [j.config EXCEPT !.mode = CanModes[j.applied + 1]]

CliTrue(j, r) ==
  /\ r.corr = Corr /\ r.output = j.command /\ r.status = CliStatus(j.status)
  /\ r.exitCode = j.status /\ r.truncated = j.truncated

PairTrue(j, n, r) ==
  IF j.start
  THEN /\ r.expiresInS = j.seconds
       /\ r.status = IF j.status = 1 THEN "error" ELSE PairingStatus(j.status)
       /\ r.nonce = IF n = 0 THEN j.offered ELSE <<>>
  ELSE /\ r.status = PairingStatus(j.status) /\ r.nonce = <<>>
       /\ r.status = "cooldown" => r.expiresInS = j.seconds

ReadTrue(j, n, r) ==
  /\ r.ok \in BOOLEAN
  /\ r.ok /\ n > 0 => j.kind = "pair" /\ r.nonce = <<>>
  /\ r.ok => /\ j.kind = "config" => ConfigTrue(j, r)
             /\ j.kind = "cli" => CliTrue(j, r)
             /\ j.kind = "pair" => PairTrue(j, n, r)

LEMMA ErrorReadsTrue ==
  ASSUME NEW j, NEW n
  PROVE  ReadTrue(j, n, Error)
<1>1. Error.ok = FALSE
  BY DEF Error
<1> QED
  BY <1>1, Zenon DEF ReadTrue

\* What arrives of an answer: a header that refuses, or the payload, or less.
Reaches(r, type, p, lost) ==
  \/ r = Error
  \/ /\ r.ok /\ r.type = type
     /\ \E k \in Nat : /\ r.payload = SubSeq(p, 1, k)
                       /\ k <= Len(p) /\ (lost = 0) = (k = Len(p))

LEMMA Arrived ==
  ASSUME NEW b, NEW type, NEW n, NEW p, Carries(b, type, n, p),
         NEW lost \in Nat, lost < Len(b), NEW m, m = SubSeq(b, 1, Len(b) - lost)
  PROVE  Reaches(DecodeRempHeader(m), type, p, lost)
<1>1. b \in Seq(Byte) /\ p \in Seq(Byte) /\ Len(b) \in Nat /\ Len(p) \in Nat
  BY LenProperties DEF Carries
<1>2. CASE lost = 0
  <2>1. m = b
    <3>1. Len(b) - lost = Len(b)
      BY <1>1, <1>2
    <3> QED
      BY <1>1, <3>1, SubSeqFull
  <2>2. /\ DecodeRempHeader(m).ok /\ DecodeRempHeader(m).type = type
        /\ DecodeRempHeader(m).payload = p
    BY <2>1, WholeRead
  <2>3. p = SubSeq(p, 1, Len(p)) /\ Len(p) <= Len(p)
    BY <1>1, SubSeqFull
  <2> QED
    BY <1>1, <1>2, <2>2, <2>3 DEF Reaches
<1>3. CASE lost > 0
  <2>1. PICK k \in Nat : k = Len(b) - lost /\ k < Len(b)
    BY <1>1, <1>3
  <2>2. PICK r : r = DecodeRempHeader(m)
    OBVIOUS
  <2>3. m = SubSeq(b, 1, k)
    BY <2>1
  <2>4. RestRead(r, type, p)
    BY <2>1, <2>2, <2>3, CutRead
  <2>5. CASE r = Error
    BY <2>2, <2>5 DEF Reaches
  <2>6. CASE r # Error
    <3>1. PICK i \in Nat : i < Len(p) /\ r.payload = SubSeq(p, 1, i)
      BY <2>4, <2>6 DEF RestRead
    <3>2. i <= Len(p) /\ (lost = 0) = (i = Len(p))
      BY <1>1, <1>3, <3>1
    <3> QED
      BY <2>2, <2>4, <2>6, <3>1, <3>2 DEF RestRead, Reaches
  <2> QED
    BY <2>5, <2>6
<1> QED
  BY <1>2, <1>3

WithMode(c, x) == [c EXCEPT !.mode = x]

LEMMA FromConfig ==
  ASSUME NEW a \in Configs, NEW c, c = ToRempConfig(a), NEW applied, NEW x
  PROVE  WithMode(Effective(c, applied), x) = WithMode(a, x)
<1>1. a \in [bitrate : 0..MaxBitrate, samplePoint : Int, prescaler : Int,
              sjw : Int, tseg1 : Int, tseg2 : Int,
              mode : {CanModes[i] : i \in 1..4}, useRaw : BOOLEAN,
              autoRetx : BOOLEAN, txPause : BOOLEAN, protocolExc : BOOLEAN]
  BY CodecsAssumption DEF CodecsAssumption, RequestsAssumption
<1>2. PICK m : m = (CHOOSE i \in 1..4 : CanModes[i] = a.mode) - 1
  OBVIOUS
<1>3. c = [a EXCEPT !.mode = m]
  BY <1>2, Zenon DEF ToRempConfig
<1> QED
  BY <1>1, <1>3 DEF Effective, WithMode

\* The acknowledgement of the job of a pairing, of which n bytes are lost.
Acknowledges(ack, j, u, n) ==
  /\ ack.status = PairingStatus(j.status) /\ ack.expiresInS = j.seconds
  /\ ack.nonce = IF n = 0 /\ u.token = <<>> THEN j.offered ELSE <<>>

PairTold(j, n, y) == PairTrue(j, n, y) /\ y.ok = TRUE /\ (n > 0 => y.nonce = <<>>)

LEMMA ReplyFields ==
  ASSUME NEW st, NEW s, NEW g, NEW y,
         y = [ok |-> TRUE, status |-> st, expiresInS |-> s, nonce |-> g]
  PROVE  y.ok = TRUE /\ y.status = st /\ y.expiresInS = s /\ y.nonce = g
OBVIOUS

LEMMA AnswerTold ==
  ASSUME NEW j, j.kind = "pair", NEW u, Meant(j, u), NEW lost \in Nat,
         NEW ack, Acknowledges(ack, j, u, lost), NEW y, y = PairingReply(j.start, ack)
  PROVE  PairTold(j, lost, y)
<1>1. PICK status, seconds, told, given :
        /\ status = j.status /\ seconds = j.seconds /\ told = PairingStatus(status)
        /\ given = IF lost = 0 /\ u.token = <<>> THEN j.offered ELSE <<>>
  OBVIOUS
<1>2. /\ ack.status = told /\ ack.expiresInS = seconds /\ ack.nonce = given
  BY <1>1 DEF Acknowledges
<1>3. told = "invalid_pin" <=> status = 1
  BY <1>1 DEF PairingStatus
<1>4. lost > 0 => lost # 0
  OBVIOUS
<1>5. CASE j.start
  <2>1. PICK st : st = IF told = "invalid_pin" THEN "error" ELSE told
    OBVIOUS
  <2>2. y = [ok |-> TRUE, status |-> st, expiresInS |-> seconds, nonce |-> given]
    BY <1>2, <1>5, <2>1, Zenon DEF PairingReply
  <2>3. y.ok = TRUE /\ y.status = st /\ y.expiresInS = seconds /\ y.nonce = given
    BY <2>2, ReplyFields
  <2>4. u = [corr |-> Corr, pin |-> <<>>, nonce |-> <<>>, token |-> <<>>]
    BY <1>5, "pair" # "config", "pair" # "cli", Zenon DEF Meant
  <2>5. u.token = <<>>
    BY <2>4
  <2>6. given = IF lost = 0 THEN j.offered ELSE <<>>
    BY <1>1, <2>5, Zenon
  <2>7. st = IF j.status = 1 THEN "error" ELSE PairingStatus(j.status)
    BY <1>1, <1>3, <2>1, Zenon
  <2> QED
    BY <1>1, <1>4, <1>5, <2>3, <2>6, <2>7, Zenon DEF PairTrue, PairTold
<1>6. CASE ~j.start
  <2>1. PICK s : s = IF told = "cooldown" THEN seconds ELSE 0
    OBVIOUS
  <2>2. y = [ok |-> TRUE, status |-> told, expiresInS |-> s, nonce |-> <<>>]
    BY <1>2, <1>6, <2>1, Zenon DEF PairingReply
  <2>3. y.ok = TRUE /\ y.status = told /\ y.expiresInS = s /\ y.nonce = <<>>
    BY <2>2, ReplyFields
  <2> QED
    BY <1>1, <1>6, <2>1, <2>3, Zenon DEF PairTrue, PairTold
<1> QED
  BY <1>5, <1>6

LEMMA ReadingIsTrue ==
  ASSUME job \in AskJobs, NEW u, Meant(job, u), NEW type, type = TypeFor(job),
         NEW b, NEW n, Carries(b, type, n, AnswerTo(job, u)),
         NEW lost \in Nat, lost < Len(b), NEW m, m = SubSeq(b, 1, Len(b) - lost)
  PROVE  ReadTrue(job, lost, Reading(job, m))
<1>1. PICK p : p = AnswerTo(job, u)
  OBVIOUS
<1>2. PICK h : h = DecodeRempHeader(m)
  OBVIOUS
<1>3. Reaches(h, type, p, lost)
  BY <1>1, <1>2, Arrived
<1>4. CASE h = Error
  <2>1. Reading(job, m) = Error
    BY <1>2, <1>4, ErrorIsNotOk, Zenon DEF Reading
  <2> QED
    BY <2>1, ErrorReadsTrue
<1>5. CASE h # Error
  <2>1. /\ h.ok /\ h.type = type
        /\ \E k \in Nat : /\ h.payload = SubSeq(p, 1, k)
                          /\ k <= Len(p) /\ (lost = 0) = (k = Len(p))
    BY <1>3, <1>5 DEF Reaches
  <2>2. PICK k \in Nat : /\ h.payload = SubSeq(p, 1, k)
                         /\ k <= Len(p) /\ (lost = 0) = (k = Len(p))
    BY <2>1
  <2>3. ConfigType # CliType /\ ConfigType # PairingType /\ CliType # PairingType
    BY DEF ConfigType, CliType, PairingType
  <2>4. CASE job.kind = "config"
    <3>1. type = ConfigType
      BY <2>4 DEF TypeFor
    <3>2. PICK c, status, applied : /\ c = ToRempConfig(job.config)
                                    /\ status = job.status /\ applied = job.applied
      OBVIOUS
    <3>3. Settable(c) /\ status \in 0..4 /\ applied \in 0..4 /\ job.config \in Configs
      BY <2>4, <3>2, AskJobsAre, AskedIsSettable
    <3>4. Encodable(c) /\ u = ConfigMeant(c)
      BY <2>4, <3>2 DEF Meant
    <3>5. u.bitrate = c.bitrate /\ u.rest = Timing(c) /\ u.flags = EncodeFlags(c)
      BY <3>4 DEF ConfigMeant
    <3>6. p = ConfigAnswer(status, c, applied)
      BY <1>1, <2>4, <3>2, <3>5, Zenon DEF AnswerTo, ConfigAnswer
    <3>7. ConfigAnswered(p, status, c, applied)
      BY <3>3, <3>4, <3>6, ConfigAnswerOut
    <3>8. p \in Seq(Byte) /\ Len(p) = 16
      BY <3>7 DEF ConfigAnswered
    <3>9. PICK r : r = DecodeCanConfigResponse(h.payload)
      OBVIOUS
    <3>10. Reading(job, m) = IF ~r.ok THEN Error
                        ELSE IF r.status # "ok" THEN Error
                        ELSE [ok |-> TRUE, effective |-> FromRempConfig(r.config)]
      BY <1>2, <2>1, <2>3, <3>1, <3>9, Zenon DEF Reading
    <3>11. CASE k < Len(p)
      <4>1. r = Error
        BY <2>2, <3>8, <3>9, <3>11, ConfigAnswerCut
      <4>2. Reading(job, m) = Error
        BY <3>10, <4>1, ErrorIsNotOk, Zenon
      <4> QED
        BY <4>2, ErrorReadsTrue
    <3>12. CASE ~ (k < Len(p))
      <4>1. k = Len(p) /\ lost = 0
        BY <2>2, <3>8, <3>12
      <4>2. h.payload = p
        BY <2>2, <3>8, <4>1, SubSeqFull
      <4>3. PICK f : f = Effective(c, applied)
        OBVIOUS
      <4>31. SetRead(r, status, c, applied)
        BY <3>3, <3>4, <3>7, <3>9, <4>2, ConfigAnswerIn
      <4>4. r.ok /\ (r.status = "ok" => status = 0) /\ r.config = f
        BY <4>3, <4>31 DEF SetRead
      <4>5. CASE r.status # "ok"
        <5>1. Reading(job, m) = Error
          BY <3>10, <4>4, <4>5, Zenon
        <5> QED
          BY <5>1, ErrorReadsTrue
      <4>6. CASE r.status = "ok"
        <5>1. PICK x : x = FromRempConfig(f)
          OBVIOUS
        <5>2. Reading(job, m) = [ok |-> TRUE, effective |-> x]
          BY <3>10, <4>4, <4>6, <5>1, Zenon
        <5>3. ASSUME applied < 4
              PROVE  x = [job.config EXCEPT !.mode = CanModes[applied + 1]]
          <6>1. f.mode = applied /\ applied \in 0..3
            BY <3>3, <4>3, <5>3 DEF Effective
          <6>2. x = [f EXCEPT !.mode = CanModes[applied + 1]]
            BY <5>1, <6>1, Zenon DEF FromRempConfig
          <6>3. PICK a, md : a = job.config /\ md = CanModes[applied + 1]
            OBVIOUS
          <6>4. a \in Configs /\ c = ToRempConfig(a)
            BY <3>2, <3>3, <6>3
          <6>5. WithMode(Effective(c, applied), md) = WithMode(a, md)
            BY <6>4, FromConfig
          <6> QED
            BY <4>3, <6>2, <6>3, <6>5, Zenon DEF WithMode
        <5>4. PICK y : y = Reading(job, m)
          OBVIOUS
        <5>5. y.ok = TRUE /\ y.effective = x
          BY <5>2, <5>4
        <5>6. ConfigTrue(job, y)
          BY <3>2, <4>4, <4>6, <5>3, <5>5 DEF ConfigTrue
        <5>7. ~ (lost > 0)
          BY <4>1
        <5> QED
          BY <2>4, <5>4, <5>5, <5>6, <5>7, Zenon DEF ReadTrue
      <4> QED
        BY <4>5, <4>6
    <3> QED
      BY <3>11, <3>12
  <2>5. CASE job.kind = "cli"
    <3>1. type = CliType
      BY <2>5 DEF TypeFor
    <3>2. PICK status, truncated, command :
            status = job.status /\ truncated = job.truncated /\ command = job.command
      OBVIOUS
    <3>3. status \in 0..4 /\ truncated \in BOOLEAN /\ command \in Seq(Byte)
      BY <2>5, <3>2, AskJobsAre
    <3>4. /\ Len(command) \in Word
          /\ u = [corr |-> Corr, dangerous |-> job.dangerous, command |-> command]
      BY <2>5, <3>2 DEF Meant
    <3>5. u.corr = Corr /\ u.command = command
      BY <3>4
    <3>6. p = CliAnswer(status, truncated, command)
      BY <1>1, <2>5, <3>2, <3>5, "cli" # "config", Zenon DEF AnswerTo, CliAnswer
    <3>7. CliAnswered(p, status, truncated, command)
      BY <3>3, <3>4, <3>6, CliAnswerOut
    <3>8. p \in Seq(Byte)
      BY <3>7 DEF CliAnswered
    <3>9. Reading(job, m) = DecodeCliResponse(h.payload)
      BY <1>2, <2>1, <2>3, <3>1, Zenon DEF Reading
    <3>10. CASE k < Len(p)
      <4>1. DecodeCliResponse(SubSeq(p, 1, k)) = Error
        BY <3>7, <3>10, CliAnswerCut
      <4> QED
        BY <2>2, <3>9, <4>1, ErrorReadsTrue
    <3>11. CASE ~ (k < Len(p))
      <4>1. k = Len(p) /\ lost = 0
        BY <2>2, <3>8, <3>11
      <4>2. h.payload = p
        BY <2>2, <3>8, <4>1, SubSeqFull
      <4>3. Reading(job, m) = [ok |-> TRUE, status |-> CliStatus(status), truncated |-> truncated,
              corr |-> Corr, exitCode |-> status, output |-> command]
        BY <3>3, <3>7, <3>9, <4>2, CliAnswerIn
      <4>4. PICK y : y = Reading(job, m)
        OBVIOUS
      <4>5. /\ y.ok = TRUE /\ y.status = CliStatus(status) /\ y.truncated = truncated
            /\ y.corr = Corr /\ y.exitCode = status /\ y.output = command
        BY <4>3, <4>4
      <4>6. CliTrue(job, y)
        BY <3>2, <4>5 DEF CliTrue
      <4>7. ~ (lost > 0)
        BY <4>1
      <4> QED
        BY <2>5, <4>4, <4>5, <4>6, <4>7, Zenon DEF ReadTrue
    <3> QED
      BY <3>10, <3>11
  <2>6. CASE job.kind = "pair"
    <3>1. type = PairingType
      BY <2>6 DEF TypeFor
    <3>2. PICK status, seconds, nonce :
            /\ status = job.status /\ seconds = job.seconds
            /\ nonce = IF u.token = <<>> THEN job.offered ELSE <<>>
      OBVIOUS
    <3>3. status \in 0..4 /\ seconds \in Word /\ nonce \in Seq(Byte)
      BY <2>6, <3>2, AskJobsAre, TypesAreBytes
    <3>4. Len(nonce) = 0 \/ Len(nonce) = 16
      BY <2>6, <3>2, AskJobsAre
    <3>5. u.corr = Corr
      BY <2>6 DEF Meant
    <3>6. p = PairAnswer(status, seconds, nonce)
      BY <1>1, <2>6, <3>2, <3>5, "pair" # "config", "pair" # "cli", Zenon
         DEF AnswerTo, PairAnswer
    <3>7. PairAnswered(p, status, seconds, nonce)
      BY <3>3, <3>6, PairAnswerOut
    <3>8. p \in Seq(Byte)
      BY <3>7 DEF PairAnswered
    <3>9. PICK ack : ack = DecodePairingAck(h.payload)
      OBVIOUS
    <3>91. Reading(job, m) = IF ~ack.ok THEN Error
                             ELSE IF ack.corr # Corr THEN Error
                             ELSE PairingReply(job.start, ack)
      BY <1>2, <2>1, <2>3, <3>1, <3>9, Zenon DEF Reading
    <3>10. DecodePairingAck(SubSeq(p, 1, k))
             = IF k < 20 THEN Error
               ELSE [ok |-> TRUE, status |-> PairingStatus(status), expiresInS |-> seconds,
                     corr |-> Corr, nonce |-> IF k = Len(p) THEN nonce ELSE <<>>]
      BY <2>2, <3>3, <3>4, <3>7, PairAnswerIn
    <3>11. CASE k < 20
      <4>1. ack = Error
        BY <2>2, <3>9, <3>10, <3>11, Zenon
      <4>2. Reading(job, m) = Error
        BY <3>91, <4>1, ErrorIsNotOk, Zenon
      <4> QED
        BY <4>2, ErrorReadsTrue
    <3>12. CASE ~ (k < 20)
      <4>1. PICK given : given = IF k = Len(p) THEN nonce ELSE <<>>
        OBVIOUS
      <4>2. ack = [ok |-> TRUE, status |-> PairingStatus(status),
                   expiresInS |-> seconds, corr |-> Corr, nonce |-> given]
        BY <2>2, <3>9, <3>10, <3>12, <4>1, Zenon
      <4>3. given = IF lost = 0 /\ u.token = <<>> THEN job.offered ELSE <<>>
        BY <2>2, <3>2, <4>1, Zenon
      <4>4. PICK y : y = Reading(job, m)
        OBVIOUS
      <4>5. y = PairingReply(job.start, ack)
        <5>1. ack.ok = TRUE /\ ack.corr = Corr
          BY <4>2
        <5> QED
          BY <3>91, <4>4, <5>1, Zenon
      <4>6. Acknowledges(ack, job, u, lost)
        <5>1. /\ ack.status = PairingStatus(status) /\ ack.expiresInS = seconds
              /\ ack.nonce = given
          BY <4>2
        <5> QED
          BY <3>2, <4>3, <5>1, Zenon DEF Acknowledges
      <4>7. PairTold(job, lost, y)
        BY <2>6, <4>5, <4>6, AnswerTold
      <4> QED
        BY <2>6, <4>4, <4>7, "pair" # "config", "pair" # "cli", Zenon DEF ReadTrue, PairTold
    <3> QED
      BY <3>11, <3>12
  <2> QED
    BY <2>4, <2>5, <2>6, AskJobsAre
<1> QED
  BY <1>4, <1>5

AnswerOnTheWay(j, u, lost, d) ==
  /\ lost \in Nat
  /\ \E b, n : /\ Carries(b, TypeFor(j), n, AnswerTo(j, u))
               /\ lost < Len(b) /\ Len(b) <= MaxDatagram
               /\ d = SubSeq(b, 1, Len(b) - lost)

RequestOnTheWay(j, d) == \E n, p : Carries(d, TypeFor(j), n, p) /\ Said(j, p)

\* A request, its answer and what the agent makes of it.
AskInv ==
  /\ job \in AskJobs
  /\ stage \in {"asked", "refused", "requested", "answered", "done"}
  /\ stage # "done" => reply = Nothing
  /\ stage = "requested" => RequestOnTheWay(job, datagram)
  /\ stage \in {"answered", "done"} => Meant(job, said)
  /\ stage = "answered" => AnswerOnTheWay(job, said, cut, datagram)
  /\ stage = "done" => ReadTrue(job, cut, reply)

Asking == job.kind \in {"config", "cli", "pair"} => AskInv

LEMMA KindsOfJobs ==
  /\ \A j \in SendJobs : j.kind = "send"
  /\ \A j \in RelayJobs : j.kind = "relay"
  /\ \A j \in AnnounceJobs : j.kind = "announce"
  /\ \A j \in AskJobs : j.kind \in {"config", "cli", "pair"}
<1>1. \A j \in SendJobs : j.kind = "send"
  BY DEF SendJobs
<1>2. \A j \in RelayJobs : j.kind = "relay"
  BY DEF RelayJobs
<1>3. \A j \in AnnounceJobs : j.kind = "announce"
  BY DEF AnnounceJobs
<1>4. \A j \in AskJobs : j.kind \in {"config", "cli", "pair"}
  BY AskJobsAre
<1> QED
  BY <1>1, <1>2, <1>3, <1>4

LEMMA AskInit ==
  ASSUME JobInit PROVE Asking
<1>1. job \in SendJobs \cup RelayJobs \cup AskJobs \cup AnnounceJobs
  BY DEF JobInit, AskJobs
<1>2. job.kind \in {"config", "cli", "pair"} => job \in AskJobs
  BY <1>1, KindsOfJobs
<1>3. stage = "asked" /\ reply = Nothing
  BY DEF JobInit
<1> QED
  BY <1>2, <1>3 DEF Asking, AskInv

LEMMA AskStep ==
  ASSUME Asking, [JobNext]_jobVars PROVE Asking'
<1>1. job' = job
  BY Zenon DEF JobNext, jobVars, ApiSends, AgentFails, AgentTransmits, ApiShows, DongleEmits,
       AgentHears, ApiRelays, AgentRelays, AgentAsks, AgentStartsPairing, DongleAnswers,
       AgentReads, DongleAnnounces, AgentDiscovers
<1>2. SUFFICES ASSUME job.kind \in {"config", "cli", "pair"} PROVE AskInv'
  BY <1>1 DEF Asking
<1>3. AskInv
  BY <1>2 DEF Asking
<1>4. CASE UNCHANGED jobVars
  <2>1. /\ job' = job /\ stage' = stage /\ reply' = reply /\ said' = said /\ cut' = cut
        /\ datagram' = datagram
    BY <1>4 DEF jobVars
  <2> QED
    BY <1>3, <2>1 DEF AskInv
<1>5. CASE AgentAsks
  <2>1. PICK d : d = RequestOf(job)
    OBVIOUS
  <2>2. /\ stage = "asked" /\ reply' = reply
        /\ job.kind = "pair" => ~job.start
        /\ IF d.ok /\ Len(d.bytes) <= MaxDatagram
           THEN datagram' = d.bytes /\ stage' = "requested"
           ELSE datagram' = datagram /\ stage' = "refused"
    BY <1>5, <2>1, Zenon DEF AgentAsks
  <2>3. stage' = "requested" => RequestOnTheWay(job, datagram')
    <3>1. SUFFICES ASSUME stage' = "requested"
                   PROVE  \E n, p : Carries(datagram', TypeFor(job), n, p) /\ Said(job, p)
      BY DEF RequestOnTheWay
    <3>2. d.ok /\ datagram' = d.bytes
      BY <2>2, <3>1
    <3>3. job \in AskJobs
      BY <1>3 DEF AskInv
    <3>4. \E n, p : Carries(d.bytes, TypeFor(job), n, p) /\ Said(job, p)
      BY <2>1, <2>2, <3>2, <3>3, AskedIsSaid
    <3> QED
      BY <3>2, <3>4
  <2> QED
    BY <1>1, <1>3, <2>2, <2>3 DEF AskInv
<1>6. CASE AgentStartsPairing
  <2>1. PICK d : d = Datagram(PairingType, Device, <<>>, EncodePairingStart(Corr)).bytes
    OBVIOUS
  <2>2. /\ job.kind = "pair" /\ job.start /\ stage = "asked" /\ reply' = reply /\ datagram' = d
        /\ stage' = "requested"
    BY <1>6, <2>1, Zenon DEF AgentStartsPairing, Job
  <2>3. RequestOnTheWay(job, datagram')
    <3>1. \E n, p : Carries(d, TypeFor(job), n, p) /\ Said(job, p) /\ Len(d) <= MaxDatagram
      BY <2>1, <2>2, StartIsSaid
    <3> QED
      BY <2>2, <3>1 DEF RequestOnTheWay
  <2> QED
    BY <1>1, <1>3, <2>2, <2>3 DEF AskInv
<1>7. CASE DongleAnswers
  <2>1. PICK h : h = DecodeRempHeader(datagram)
    OBVIOUS
  <2>2. PICK e : e = [ok |-> TRUE, bytes |-> AnswerTo(job, said')]
    OBVIOUS
  <2>3. PICK d : d = Datagram(h.type, Device, <<>>, e).bytes
    OBVIOUS
  <2>4. /\ stage = "requested" /\ stage' = "answered" /\ reply' = reply
        /\ said' = Understood(job, h.payload) /\ Arrives(d)
    BY <1>7, <2>1, <2>2, <2>3, Zenon DEF DongleAnswers
  <2>5. job \in AskJobs /\ RequestOnTheWay(job, datagram)
    BY <1>3, <2>4 DEF AskInv
  <2>6. PICK n, p : Carries(datagram, TypeFor(job), n, p) /\ Said(job, p)
    BY <2>5 DEF RequestOnTheWay
  <2>7. h.type = TypeFor(job) /\ h.payload = p
    BY <2>1, <2>6, WholeRead
  <2>8. Meant(job, said')
    BY <2>4, <2>5, <2>6, <2>7, SaidIsMeant
  <2>9. PICK u : u = said'
    OBVIOUS
  <2>10. e.ok /\ e.bytes = AnswerTo(job, u)
    BY <2>2, <2>9
  <2>11. PICK k : Carries(d, h.type, k, AnswerTo(job, u))
    BY <2>3, <2>5, <2>7, <2>8, <2>9, <2>10, AnswerCarried
  <2>12. PICK lost \in Cuts : /\ lost < Len(d) /\ cut' = lost /\ Len(d) <= MaxDatagram
                              /\ datagram' = SubSeq(d, 1, Len(d) - lost)
    BY <2>4 DEF Arrives
  <2>13. lost \in Nat
    BY <2>12, CodecsAssumption DEF CodecsAssumption, FramesAssumption
  <2>14. AnswerOnTheWay(job, said', cut', datagram')
    BY <2>7, <2>9, <2>11, <2>12, <2>13 DEF AnswerOnTheWay
  <2> QED
    BY <1>1, <1>3, <2>4, <2>8, <2>14 DEF AskInv
<1>8. CASE AgentReads
  <2>1. /\ stage = "answered" /\ stage' = "done" /\ reply' = Reading(job, datagram)
        /\ said' = said /\ cut' = cut
    BY <1>8 DEF AgentReads
  <2>2. job \in AskJobs /\ Meant(job, said) /\ AnswerOnTheWay(job, said, cut, datagram)
    BY <1>3, <2>1 DEF AskInv
  <2>3. PICK b, n : /\ Carries(b, TypeFor(job), n, AnswerTo(job, said)) /\ cut < Len(b)
                    /\ datagram = SubSeq(b, 1, Len(b) - cut) /\ cut \in Nat
    BY <2>2 DEF AnswerOnTheWay
  <2>4. PICK type, u, m : type = TypeFor(job) /\ u = said /\ m = datagram
    OBVIOUS
  <2>5. ReadTrue(job, cut, Reading(job, m))
    BY <2>2, <2>3, <2>4, ReadingIsTrue
  <2>6. ReadTrue(job, cut', reply')
    BY <2>1, <2>4, <2>5
  <2> QED
    BY <1>1, <1>3, <2>1, <2>2, <2>6 DEF AskInv
<1>9. CASE ~ (AgentAsks \/ AgentStartsPairing \/ DongleAnswers \/ AgentReads) /\ JobNext
  <2>1. \/ ApiSends \/ AgentFails \/ AgentTransmits \/ ApiShows \/ DongleEmits
        \/ AgentHears \/ ApiRelays \/ AgentRelays \/ DongleAnnounces \/ AgentDiscovers
    BY <1>9 DEF JobNext
  <2>2. job.kind \in {"send", "relay", "announce"}
    BY <2>1 DEF ApiSends, AgentFails, AgentTransmits, ApiShows, DongleEmits,
       AgentHears, ApiRelays, AgentRelays, DongleAnnounces, AgentDiscovers, Job
  <2> QED
    BY <1>2, <2>2
<1> QED
  BY <1>4, <1>5, <1>6, <1>7, <1>8, <1>9

-----------------------------------------------------------------------------
(***************************************************************************)
(* The fields of an announcement.  The reader of the fields is a recursive *)
(* function over positions: where a field begins it finds that field and   *)
(* what it finds from there on.                                            *)
(***************************************************************************)
\* What is read from byte at on, when v tells what is read from later ones on.
TlvAt(payload, v, at) ==
  IF at + 2 > Len(payload) \/ at + 2 + payload[at + 2] > Len(payload)
  THEN [ok |-> TRUE, values |-> <<>>]
  ELSE LET type == payload[at + 1]
           end == at + 2 + payload[at + 2]
           value == SubSeq(payload, at + 3, end)
           rest == v[end]
       IN IF Len(value) < ShortestValue(type) \/ ~rest.ok THEN Failure
          ELSE [ok |-> TRUE,
                values |-> [t \in DOMAIN rest.values \cup {type} |->
                  IF t \in DOMAIN rest.values THEN rest.values[t]
                  ELSE value]]

Tails(v, payload, k) ==
  v = [at \in k..Len(payload) |-> TlvAt(payload, v, at)]

LEMMA LaterDecide ==
  ASSUME NEW payload \in Seq(Byte), NEW at \in Nat, NEW v, NEW w,
         \A i \in (at + 1)..Len(payload) : v[i] = w[i]
  PROVE  TlvAt(payload, v, at) = TlvAt(payload, w, at)
<1>1. CASE at + 2 > Len(payload) \/ at + 2 + payload[at + 2] > Len(payload)
  BY <1>1, Zenon DEF TlvAt
<1>2. CASE ~ (at + 2 > Len(payload) \/ at + 2 + payload[at + 2] > Len(payload))
  <2>1. PICK end : end = at + 2 + payload[at + 2]
    OBVIOUS
  <2>2. PICK n \in Nat, size \in Nat : n = Len(payload) /\ size = payload[at + 2]
    <3>1. at + 2 \in 1..Len(payload)
      BY <1>2
    <3>2. payload[at + 2] \in Byte
      BY <3>1
    <3>3. payload[at + 2] \in Nat
      BY <3>2, IsByte
    <3> QED
      BY <3>3, LenProperties
  <2>3. end \in (at + 1)..Len(payload)
    <3>1. ~ (at + 2 + size > n) /\ end = at + 2 + size
      BY <1>2, <2>1, <2>2
    <3>2. end \in (at + 1)..n
      BY <3>1
    <3> QED
      BY <2>2, <3>2
  <2>4. v[end] = w[end]
    BY <2>3
  <2>5. v[at + 2 + payload[at + 2]] = w[at + 2 + payload[at + 2]]
    BY <2>1, <2>4
  <2> QED
    BY <1>2, <2>5, Zenon DEF TlvAt
<1> QED
  BY <1>1, <1>2

LEMMA HasTails ==
  ASSUME NEW payload \in Seq(Byte)
  PROVE  \E v : Tails(v, payload, 0)
<1>1. PICK n \in Nat : n = Len(payload)
  OBVIOUS
<1> DEFINE T == {d \in 0..n : ~ \E v : Tails(v, payload, n - d)}
<1>2. SUFFICES ASSUME T # {} PROVE FALSE
  BY <1>1, n - n = 0, n \in 0..n
<1>3. PICK d \in T : \A e \in T : ~ (e < d)
  BY <1>1, <1>2, NoneBelow, T \subseteq Nat
<1>4. PICK k \in Nat : k = n - d /\ k <= n
  BY <1>1, <1>3
<1>5. \E u : \A at \in (k + 1)..n : u[at] = TlvAt(payload, u, at)
  <2>1. CASE d = 0
    BY <1>1, <1>4, <2>1, (k + 1)..n = {}
  <2>2. CASE d # 0
    <3>1. d - 1 \in 0..n /\ d - 1 < d /\ n - (d - 1) = k + 1
      BY <1>1, <1>3, <1>4, <2>2
    <3>2. d - 1 \notin T
      BY <1>3, <3>1
    <3>3. PICK u : Tails(u, payload, k + 1)
      BY <3>1, <3>2
    <3>4. \A at \in (k + 1)..n : u[at] = TlvAt(payload, u, at)
      BY <1>1, <3>3, Zenon DEF Tails
    <3> QED
      BY <3>4
  <2> QED
    BY <2>1, <2>2
<1>6. PICK u : \A at \in (k + 1)..n : u[at] = TlvAt(payload, u, at)
  BY <1>5
<1>7. PICK w : w = [at \in k..n |-> IF at = k THEN TlvAt(payload, u, k) ELSE u[at]]
  OBVIOUS
<1>8. \A i \in (k + 1)..n : w[i] = u[i]
  BY <1>1, <1>4, <1>7
<1>9. ASSUME NEW at \in k..n PROVE w[at] = TlvAt(payload, w, at)
  <2>1. \A i \in (at + 1)..Len(payload) : w[i] = u[i]
    BY <1>1, <1>4, <1>8
  <2>2. at \in Nat
    BY <1>4
  <2>3. TlvAt(payload, w, at) = TlvAt(payload, u, at)
    BY <2>1, <2>2, LaterDecide
  <2>4. w[at] = TlvAt(payload, u, at)
    BY <1>1, <1>4, <1>6, <1>7
  <2> QED
    BY <2>3, <2>4
<1>10. DOMAIN w = k..n
  BY <1>7
<1>11. w = [at \in k..n |-> w[at]]
  BY <1>7, <1>10, Zenon
<1>12. Tails(w, payload, k)
  BY <1>1, <1>9, <1>11, Zenon DEF Tails
<1> QED
  BY <1>3, <1>4, <1>12

LEMMA ReadTlvsIs ==
  ASSUME NEW payload \in Seq(Byte)
  PROVE  \E w : /\ ReadTlvs(payload) = w[0]
                /\ \A at \in 0..Len(payload) : w[at] = TlvAt(payload, w, at)
<1> DEFINE F(v) == v = [at \in 0..Len(payload) |-> TlvAt(payload, v, at)]
<1>1. ReadTlvs(payload) = (CHOOSE v : F(v))[0]
  BY Zenon DEF ReadTlvs, TlvAt
<1>2. PICK u : F(u)
  BY HasTails, Zenon DEF Tails
<1>3. PICK w : w = CHOOSE v : F(v)
  OBVIOUS
<1>4. F(w)
  BY <1>2, <1>3, Zenon
<1>5. \A at \in 0..Len(payload) : w[at] = TlvAt(payload, w, at)
  BY <1>4, Zenon
<1> QED
  BY <1>1, <1>3, <1>5, Zenon

LEMMA NamesDiffer ==
  ASSUME NEW s \in 1..8, NEW t \in 1..8, Names[s] = Names[t]
  PROVE  s = t
BY DEF Names

LEMMA TypeOfName ==
  ASSUME NEW t \in 1..8
  PROVE  TypeOf(Names[t]) = t /\ Names[t] \in Fields
<1>1. PICK s : s = CHOOSE u \in 1..8 : Names[u] = Names[t]
  OBVIOUS
<1>2. s \in 1..8 /\ Names[s] = Names[t]
  BY <1>1, Zenon
<1>3. s = t
  BY <1>2, NamesDiffer
<1>4. TypeOf(Names[t]) = t
  BY <1>1, <1>3, Zenon DEF TypeOf
<1> QED
  BY <1>4 DEF Fields

\* A field of an announcement as it is written: nothing when it is not there.
Tlv(a, t) ==
  IF a[Names[t]] = <<>> THEN <<>> ELSE <<t, Len(a[Names[t]])>> \o a[Names[t]]

Tlvs(a) == Tlv(a, 1) \o Tlv(a, 2) \o Tlv(a, 3) \o Tlv(a, 4) \o Tlv(a, 5) \o Tlv(a, 6)
             \o Tlv(a, 7) \o Tlv(a, 8)

LEMMA NamesAre ==
  /\ Names[1] = "deviceId" /\ Names[2] = "fwBuild" /\ Names[3] = "udpPort"
  /\ Names[4] = "capabilities" /\ Names[5] = "protoVer" /\ Names[6] = "lanIp"
  /\ Names[7] = "pairingState" /\ Names[8] = "pairingNonce"
BY DEF Names

LEMMA TypesAre ==
  /\ TypeOf("deviceId") = 1 /\ TypeOf("fwBuild") = 2 /\ TypeOf("udpPort") = 3
  /\ TypeOf("capabilities") = 4 /\ TypeOf("protoVer") = 5 /\ TypeOf("lanIp") = 6
  /\ TypeOf("pairingState") = 7 /\ TypeOf("pairingNonce") = 8
<1>1. /\ 1 \in 1..8 /\ 2 \in 1..8 /\ 3 \in 1..8 /\ 4 \in 1..8 /\ 5 \in 1..8 /\ 6 \in 1..8
      /\ 7 \in 1..8 /\ 8 \in 1..8
  OBVIOUS
<1> QED
  BY <1>1, NamesAre, TypeOfName, Zenon

\* One field, as the encoder names it.
NamedTlv(a, name) ==
  IF a[name] = <<>> THEN <<>> ELSE <<TypeOf(name), Len(a[name])>> \o a[name]

NamedTlvs(a) == NamedTlv(a, "deviceId") \o NamedTlv(a, "fwBuild") \o NamedTlv(a, "udpPort")
             \o NamedTlv(a, "capabilities") \o NamedTlv(a, "protoVer") \o NamedTlv(a, "lanIp")
             \o NamedTlv(a, "pairingState") \o NamedTlv(a, "pairingNonce")

HeaderOf(payload) ==
  [magic |-> "OBD2", proto |-> 1, kind |-> "announce", headerLen |-> 18,
   payloadLen |-> Len(payload), seq |-> 1]

LEMMA EncodeIs ==
  ASSUME NEW a
  PROVE  Encode(1, a).payload = Tlvs(a) /\ Encode(1, a).header = HeaderOf(Tlvs(a))
<1>1. Encode(1, a).payload = NamedTlvs(a)
  BY Zenon DEF Encode, NamedTlvs, NamedTlv
<1>2. Encode(1, a).header = HeaderOf(NamedTlvs(a))
  BY Zenon DEF Encode, NamedTlvs, NamedTlv, HeaderOf
<1>3. /\ NamedTlv(a, "deviceId") = Tlv(a, 1) /\ NamedTlv(a, "fwBuild") = Tlv(a, 2)
      /\ NamedTlv(a, "udpPort") = Tlv(a, 3) /\ NamedTlv(a, "capabilities") = Tlv(a, 4)
      /\ NamedTlv(a, "protoVer") = Tlv(a, 5) /\ NamedTlv(a, "lanIp") = Tlv(a, 6)
      /\ NamedTlv(a, "pairingState") = Tlv(a, 7) /\ NamedTlv(a, "pairingNonce") = Tlv(a, 8)
  BY NamesAre, TypesAre, Zenon DEF Tlv, NamedTlv
<1>4. NamedTlvs(a) = Tlvs(a)
  BY <1>3, Zenon DEF Tlvs, NamedTlvs
<1> QED
  BY <1>1, <1>2, <1>4

\* What an announcement may hold, seen by the numbers of its fields.
Announces(a) ==
  \A t \in 1..8 : /\ a[Names[t]] \in Seq(Byte) /\ Len(a[Names[t]]) \in 0..255
                  /\ ShortestValue(t) > 0 => Len(a[Names[t]]) <= ShortestValue(t)

LEMMA AnnouncedAre ==
  ASSUME NEW a \in Announced
  PROVE  Announces(a) /\ DOMAIN a = Fields
<1>1. AnnouncedAssumption
  BY CodecsAssumption DEF CodecsAssumption
<1>2. ASSUME NEW t \in 1..8
      PROVE  /\ a[Names[t]] \in Seq(Byte) /\ Len(a[Names[t]]) \in 0..255
             /\ ShortestValue(t) > 0 => Len(a[Names[t]]) <= ShortestValue(t)
  <2>1. PICK f \in Fields : f = Names[t]
    BY TypeOfName
  <2>2. TypeOf(f) = t
    BY <2>1, TypeOfName
  <2>3. /\ a[f] \in Seq(Byte) /\ Len(a[f]) <= 255
        /\ ShortestValue(TypeOf(f)) > 0 => Len(a[f]) <= ShortestValue(TypeOf(f))
    BY <1>1, Zenon DEF AnnouncedAssumption
  <2>4. Len(a[f]) \in 0..255
    <3>1. PICK v : v = a[f]
      OBVIOUS
    <3>2. v \in Seq(Byte) /\ Len(v) <= 255
      BY <2>3, <3>1
    <3>3. PICK n : n = Len(v)
      OBVIOUS
    <3>4. n \in Nat /\ n <= 255
      BY <3>2, <3>3, LenProperties
    <3>5. n \in 0..255
      BY <3>4
    <3> QED
      BY <3>1, <3>3, <3>5
  <2> QED
    BY <2>1, <2>2, <2>3, <2>4
<1>3. DOMAIN a = Fields
  BY <1>1, Zenon DEF AnnouncedAssumption
<1> QED
  BY <1>2, <1>3 DEF Announces

\* x is the field t with value v as it is written.
Written(x, t, v) ==
  /\ x \in Seq(Byte)
  /\ v = <<>> => Len(x) = 0
  /\ v # <<>> => /\ Len(x) = 2 + Len(v) /\ Holds(x, 0, <<t, Len(v)>>) /\ Holds(x, 2, v)

LEMMA TlvIs ==
  ASSUME NEW a, Announces(a), NEW t \in 1..8
  PROVE  Written(Tlv(a, t), t, a[Names[t]])
<1>1. PICK v : v = a[Names[t]]
  OBVIOUS
<1>2. v \in Seq(Byte) /\ Len(v) \in 0..255
  BY <1>1 DEF Announces
<1>3. CASE v = <<>>
  BY <1>1, <1>3 DEF Tlv, Written
<1>4. CASE v # <<>>
  <2>1. PICK b : b = <<t, Len(v)>>
    OBVIOUS
  <2>2. b \in Seq(Byte) /\ Len(b) = 2
    <3>1. t \in Byte /\ Len(v) \in Byte
      BY <1>2, SMT DEF Byte
    <3> QED
      BY <2>1, <3>1
  <2>3. PICK x : x = b \o v
    OBVIOUS
  <2>4. /\ x \in Seq(Byte) /\ Len(x) = Len(b) + Len(v)
        /\ Holds(x, 0, b) /\ Holds(x, Len(b), v)
    BY <1>2, <2>2, <2>3, TwoPieces
  <2>5. x = Tlv(a, t)
    BY <1>1, <1>4, <2>1, <2>3, Zenon DEF Tlv
  <2>6. /\ x \in Seq(Byte) /\ Len(x) = 2 + Len(v) /\ Holds(x, 0, b) /\ Holds(x, 2, v)
    BY <2>2, <2>4
  <2> QED
    BY <1>1, <1>4, <2>1, <2>5, <2>6 DEF Written
<1> QED
  BY <1>3, <1>4

\* The fields before t are written in u, each where the one before it ends.
Laid(u, q, a, t) ==
  /\ u \in Seq(Byte) /\ q[1] = 0 /\ q[t] = Len(u)
  /\ \A s \in 1..t : q[s] \in Nat
  /\ \A s \in 1..(t - 1) : q[s + 1] = q[s] + Len(Tlv(a, s)) /\ Holds(u, q[s], Tlv(a, s))

LEMMA LaidNext ==
  ASSUME NEW a, Announces(a), NEW t \in 1..8, NEW u, NEW n, n = t + 1,
         \E q : Laid(u, q, a, t)
  PROVE  \E q : Laid(u \o Tlv(a, t), q, a, n)
<1>1. PICK q : Laid(u, q, a, t)
  OBVIOUS
<1>2. PICK x : x = Tlv(a, t)
  OBVIOUS
<1>3. x \in Seq(Byte)
  BY <1>2, TlvIs DEF Written
<1>4. PICK z : z = u \o x
  OBVIOUS
<1>5. u \in Seq(Byte) /\ q[1] = 0 /\ q[t] = Len(u) /\ \A s \in 1..t : q[s] \in Nat
  BY <1>1 DEF Laid
<1>6. /\ z \in Seq(Byte) /\ Len(z) = Len(u) + Len(x) /\ Holds(z, Len(u), x)
  BY <1>3, <1>4, <1>5, TwoPieces
<1>7. PICK r : r = [s \in 1..n |-> IF s = n THEN Len(z) ELSE q[s]]
  OBVIOUS
<1>8. r[n] = Len(z) /\ \A s \in 1..t : r[s] = q[s]
  BY <1>7
<1>9. \A s \in 1..n : r[s] \in Nat
  BY <1>5, <1>6, <1>8, LenProperties
<1>10. ASSUME NEW s \in 1..(n - 1)
       PROVE  r[s + 1] = r[s] + Len(Tlv(a, s)) /\ Holds(z, r[s], Tlv(a, s))
  <2>1. CASE s = t
    <3>1. r[s + 1] = Len(u) + Len(x) /\ r[s] = Len(u)
      BY <1>5, <1>6, <1>8, <2>1
    <3> QED
      BY <1>2, <1>6, <2>1, <3>1
  <2>2. CASE s # t
    <3>1. s \in 1..(t - 1) /\ s + 1 \in 1..t /\ s \in 1..t
      BY <2>2
    <3>2. q[s + 1] = q[s] + Len(Tlv(a, s)) /\ Holds(u, q[s], Tlv(a, s))
      BY <1>1, <3>1 DEF Laid
    <3>3. Holds(z, q[s], Tlv(a, s))
      BY <1>3, <1>4, <3>2, HoldsGrows
    <3> QED
      BY <1>8, <3>1, <3>2, <3>3
  <2> QED
    BY <2>1, <2>2
<1>11. r[1] = 0
  BY <1>5, <1>8
<1>12. Laid(z, r, a, n)
  BY <1>6, <1>8, <1>9, <1>10, <1>11 DEF Laid
<1> QED
  BY <1>2, <1>4, <1>12

LEMMA AllLaid ==
  ASSUME NEW a, Announces(a)
  PROVE  \E q : Laid(Tlvs(a), q, a, 9)
<1>1. \E q : Laid(<<>>, q, a, 1)
  <2>1. PICK q : q = [s \in 1..1 |-> 0]
    OBVIOUS
  <2>2. q[1] = 0 /\ <<>> \in Seq(Byte) /\ Len(<<>>) = 0 /\ 1..(1 - 1) = {}
    BY <2>1
  <2>3. \A s \in 1..1 : q[s] \in Nat
    BY <2>2
  <2> QED
    BY <2>2, <2>3 DEF Laid
<1>2. <<>> \o Tlv(a, 1) = Tlv(a, 1)
  <2>1. Tlv(a, 1) \in Seq(Byte)
    BY TlvIs, 1 \in 1..8 DEF Written
  <2> QED
    BY <2>1
<1>3. PICK u1 : u1 = Tlv(a, 1)
  OBVIOUS
<1>4. \E q : Laid(u1, q, a, 2)
  BY <1>1, <1>2, <1>3, LaidNext, 1 \in 1..8, 2 = 1 + 1
<1>5. PICK u2 : u2 = u1 \o Tlv(a, 2)
  OBVIOUS
<1>6. \E q : Laid(u2, q, a, 3)
  BY <1>4, <1>5, LaidNext, 2 \in 1..8, 3 = 2 + 1
<1>7. PICK u3 : u3 = u2 \o Tlv(a, 3)
  OBVIOUS
<1>8. \E q : Laid(u3, q, a, 4)
  BY <1>6, <1>7, LaidNext, 3 \in 1..8, 4 = 3 + 1
<1>9. PICK u4 : u4 = u3 \o Tlv(a, 4)
  OBVIOUS
<1>10. \E q : Laid(u4, q, a, 5)
  BY <1>8, <1>9, LaidNext, 4 \in 1..8, 5 = 4 + 1
<1>11. PICK u5 : u5 = u4 \o Tlv(a, 5)
  OBVIOUS
<1>12. \E q : Laid(u5, q, a, 6)
  BY <1>10, <1>11, LaidNext, 5 \in 1..8, 6 = 5 + 1
<1>13. PICK u6 : u6 = u5 \o Tlv(a, 6)
  OBVIOUS
<1>14. \E q : Laid(u6, q, a, 7)
  BY <1>12, <1>13, LaidNext, 6 \in 1..8, 7 = 6 + 1
<1>15. PICK u7 : u7 = u6 \o Tlv(a, 7)
  OBVIOUS
<1>16. \E q : Laid(u7, q, a, 8)
  BY <1>14, <1>15, LaidNext, 7 \in 1..8, 8 = 7 + 1
<1>17. \E q : Laid(u7 \o Tlv(a, 8), q, a, 9)
  BY <1>16, LaidNext, 8 \in 1..8, 9 = 8 + 1
<1> QED
  BY <1>3, <1>5, <1>7, <1>9, <1>11, <1>13, <1>15, <1>17, Zenon DEF Tlvs

\* A number is there, but cut short.
Short(a, s) == Len(a[Names[s]]) \in 1..(ShortestValue(s) - 1)

\* x is what is to be read of the fields of a from t on.
Found(x, a, t) ==
  /\ x.ok \in BOOLEAN
  /\ x.ok <=> ~ \E s \in t..8 : Short(a, s)
  /\ x.ok => /\ DOMAIN x.values = {s \in t..8 : a[Names[s]] # <<>>}
             /\ \A s \in t..8 : a[Names[s]] # <<>> => x.values[s] = a[Names[s]]

LEMMA ShortestIs ==
  ASSUME NEW t \in 1..8
  PROVE  ShortestValue(t) \in 0..4 /\ ShortestValue(t) \in Nat
BY DEF ShortestValue

\* The fields from t on, read at q, where t is written, when those after t are
\* read as they should be.
LEMMA FoundBefore ==
  ASSUME NEW a, Announces(a), NEW t \in 1..8, NEW n, n = t + 1,
         NEW payload \in Seq(Byte), NEW w, NEW q \in Nat, NEW r \in Nat,
         w[q] = TlvAt(payload, w, q), Holds(payload, q, Tlv(a, t)),
         r = q + Len(Tlv(a, t)), Found(w[r], a, n)
  PROVE  Found(w[q], a, t)
<1>1. PICK x, v : x = Tlv(a, t) /\ v = a[Names[t]]
  OBVIOUS
<1>2. Written(x, t, v) /\ v \in Seq(Byte) /\ Len(v) \in 0..255
  BY <1>1, TlvIs DEF Announces
<1>3. /\ \A s \in t..8 : s # t => s \in n..8
      /\ \A s \in n..8 : s \in t..8 /\ s # t
      /\ t \in t..8
  OBVIOUS
<1>4. PICK y : y = w[r]
  OBVIOUS
<1>5. /\ y.ok \in BOOLEAN
      /\ y.ok <=> ~ \E s \in n..8 : Short(a, s)
      /\ y.ok => /\ DOMAIN y.values = {s \in n..8 : a[Names[s]] # <<>>}
                 /\ \A s \in n..8 : a[Names[s]] # <<>> => y.values[s] = a[Names[s]]
  BY <1>4 DEF Found
<1>6. CASE v = <<>>
  <2>1. Len(x) = 0
    BY <1>2, <1>6 DEF Written
  <2>2. w[q] = y
    BY <1>1, <1>4, <2>1
  <2>3. ~ Short(a, t)
    BY <1>1, <1>6 DEF Short
  <2>4. (\E s \in t..8 : Short(a, s)) <=> (\E s \in n..8 : Short(a, s))
    BY <1>3, <2>3, Zenon
  <2>5. {s \in t..8 : a[Names[s]] # <<>>} = {s \in n..8 : a[Names[s]] # <<>>}
    BY <1>1, <1>3, <1>6, Zenon
  <2>6. y.ok => \A s \in t..8 : a[Names[s]] # <<>> => y.values[s] = a[Names[s]]
    BY <1>1, <1>3, <1>5, <1>6, Zenon
  <2> QED
    BY <1>5, <2>2, <2>4, <2>5, <2>6, Zenon DEF Found
<1>7. CASE v # <<>>
  <2>1. Len(x) = 2 + Len(v) /\ Holds(x, 0, <<t, Len(v)>>) /\ Holds(x, 2, v)
    BY <1>2, <1>7 DEF Written
  <2>2. PICK size \in Nat : size = Len(v) /\ size > 0
    BY <1>2, <1>7
  <2>3. PICK b : b = <<t, size>>
    OBVIOUS
  <2>4. PICK k : k = q + 0 /\ k = q
    OBVIOUS
  <2>5. Holds(payload, k, b)
    BY <1>1, <2>1, <2>2, <2>3, <2>4, HoldsWithin
  <2>6. PICK l : l = q + 1
    OBVIOUS
  <2>7. U8(payload, q) = t /\ U8(payload, l) = size
    BY <2>3, <2>4, <2>5, <2>6, HoldsPair
  <2>8. payload[q + 1] = t /\ payload[q + 2] = size
    BY <2>6, <2>7, l + 1 = q + 2 DEF U8
  <2>9. r = q + 2 + size /\ r <= Len(payload)
    <3>1. Holds(payload, q, x) /\ r = q + Len(x)
      BY <1>1
    <3>2. q + Len(x) <= Len(payload)
      BY <3>1 DEF Holds
    <3>3. q + (2 + size) <= Len(payload) /\ r = q + (2 + size)
      BY <2>1, <2>2, <3>1, <3>2
    <3>4. q + (2 + size) = q + 2 + size
      OBVIOUS
    <3> QED
      BY <3>3, <3>4
  <2>10. SubSeq(payload, q + 3, r) = v
    <3>1. PICK h : h = q + 2
      OBVIOUS
    <3>2. Holds(payload, h, v)
      BY <1>1, <2>1, <3>1, HoldsWithin
    <3>3. r = h + Len(v)
      BY <2>2, <2>9, <3>1
    <3>4. Slice(payload, h, r) = v
      BY <3>2, <3>3, HoldsSlice
    <3> QED
      BY <3>1, <3>4, h + 1 = q + 3 DEF Slice
  <2>11. ~ (q + 2 > Len(payload) \/ q + 2 + payload[q + 2] > Len(payload))
    BY <2>8, <2>9, LenProperties
  <2>12. q + 2 + payload[q + 2] = r
    BY <2>8, <2>9
  <2>13. w[q] = IF Len(v) < ShortestValue(t) \/ ~y.ok THEN Failure
                ELSE [ok |-> TRUE,
                      values |-> [s \in DOMAIN y.values \cup {t} |->
                        IF s \in DOMAIN y.values THEN y.values[s]
                        ELSE v]]
    BY <1>4, <2>8, <2>10, <2>11, <2>12, Zenon DEF TlvAt
  <2>14. Len(v) < ShortestValue(t) <=> Short(a, t)
    <3>1. PICK least \in Nat : least = ShortestValue(t)
      BY ShortestIs
    <3>2. Short(a, t) <=> size \in 1..(least - 1)
      BY <1>1, <2>2, <3>1, Zenon DEF Short
    <3>3. size \in 1..(least - 1) <=> size < least
      BY <2>2
    <3> QED
      BY <2>2, <3>1, <3>2, <3>3
  <2>15. (\E s \in t..8 : Short(a, s)) <=> (Short(a, t) \/ \E s \in n..8 : Short(a, s))
    BY <1>3, Zenon
  <2>16. CASE Len(v) < ShortestValue(t) \/ ~y.ok
    <3>1. w[q] = Failure
      BY <2>13, <2>16, Zenon
    <3>2. w[q].ok = FALSE
      BY <3>1 DEF Failure
    <3>3. \E s \in t..8 : Short(a, s)
      BY <1>5, <2>14, <2>15, <2>16
    <3> QED
      BY <3>2, <3>3, Zenon DEF Found
  <2>17. CASE ~ (Len(v) < ShortestValue(t) \/ ~y.ok)
    <3>1. PICK g : g = [s \in DOMAIN y.values \cup {t} |->
                        IF s \in DOMAIN y.values THEN y.values[s]
                        ELSE v]
      OBVIOUS
    <3>2. w[q] = [ok |-> TRUE, values |-> g]
      BY <2>13, <2>17, <3>1, Zenon
    <3>3. w[q].ok = TRUE /\ w[q].values = g
      BY <3>2
    <3>4. ~ \E s \in t..8 : Short(a, s)
      BY <1>5, <2>14, <2>15, <2>17
    <3>5. DOMAIN y.values = {s \in n..8 : a[Names[s]] # <<>>}
      BY <1>5, <2>17
    <3>6. DOMAIN g = {s \in t..8 : a[Names[s]] # <<>>}
      <4>1. DOMAIN g = DOMAIN y.values \cup {t}
        BY <3>1
      <4> QED
        BY <1>1, <1>3, <1>7, <3>5, <4>1
    <3>7. ASSUME NEW s \in t..8, a[Names[s]] # <<>>
          PROVE  g[s] = a[Names[s]]
      <4>1. CASE s = t
        <5>1. s \notin DOMAIN y.values /\ s \in DOMAIN y.values \cup {t}
          BY <1>3, <3>5, <4>1
        <5>2. g[s] = v
          BY <3>1, <5>1
        <5> QED
          BY <1>1, <4>1, <5>2
      <4>2. CASE s # t
        <5>1. s \in DOMAIN y.values
          BY <1>3, <3>5, <3>7, <4>2
        <5>2. g[s] = y.values[s]
          BY <3>1, <5>1
        <5>3. y.values[s] = a[Names[s]]
          BY <1>3, <1>5, <2>17, <3>7, <4>2
        <5> QED
          BY <5>2, <5>3
      <4> QED
        BY <4>1, <4>2
    <3> QED
      BY <3>3, <3>4, <3>6, <3>7, Zenon DEF Found
  <2> QED
    BY <2>16, <2>17
<1> QED
  BY <1>6, <1>7

LEMMA AllFound ==
  ASSUME NEW a, Announces(a)
  PROVE  Found(ReadTlvs(Tlvs(a)), a, 1) /\ Tlvs(a) \in Seq(Byte)
<1>1. PICK p : p = Tlvs(a)
  OBVIOUS
<1>2. PICK q : Laid(p, q, a, 9)
  BY <1>1, AllLaid
<1>3. /\ p \in Seq(Byte) /\ q[1] = 0 /\ q[9] = Len(p)
      /\ \A s \in 1..9 : q[s] \in Nat
      /\ \A s \in 1..8 : q[s + 1] = q[s] + Len(Tlv(a, s)) /\ Holds(p, q[s], Tlv(a, s))
  BY <1>2, 9 - 1 = 8 DEF Laid
<1>4. PICK w : /\ ReadTlvs(p) = w[0]
               /\ \A at \in 0..Len(p) : w[at] = TlvAt(p, w, at)
  BY <1>3, ReadTlvsIs
<1>5. Found(w[q[9]], a, 9)
  <2>1. PICK n \in Nat : n = Len(p)
    BY <1>3, LenProperties
  <2>2. n + 2 > Len(p) /\ n \in 0..Len(p)
    BY <2>1
  <2>3. w[n] = [ok |-> TRUE, values |-> <<>>]
    BY <1>4, <2>2, Zenon DEF TlvAt
  <2>4. w[n].ok = TRUE /\ w[n].values = <<>>
    BY <2>3
  <2>5. 9..8 = {} /\ DOMAIN <<>> = {}
    OBVIOUS
  <2>6. {s \in 9..8 : a[Names[s]] # <<>>} = {}
    BY <2>5
  <2>7. Found(w[n], a, 9)
    BY <2>4, <2>5, <2>6, Zenon DEF Found
  <2> QED
    BY <1>3, <2>1, <2>7
<1>6. ASSUME NEW s \in 1..8, NEW n, n = s + 1, Found(w[q[n]], a, n)
      PROVE  Found(w[q[s]], a, s)
  <2>1. PICK i, j : i = q[s] /\ j = q[n]
    OBVIOUS
  <2>2. /\ i \in Nat /\ j \in Nat /\ j = i + Len(Tlv(a, s)) /\ Holds(p, i, Tlv(a, s))
    <3>1. s \in 1..9 /\ n \in 1..9
      BY <1>6
    <3> QED
      BY <1>3, <1>6, <2>1, <3>1
  <2>3. i \in 0..Len(p)
    <3>1. PICK l \in Nat, m \in Nat : l = Len(p) /\ m = Len(Tlv(a, s))
      BY <2>2, LenProperties DEF Holds
    <3>2. i + m <= l
      BY <2>2, <3>1 DEF Holds
    <3>3. i \in 0..l
      BY <2>2, <3>1, <3>2
    <3> QED
      BY <3>1, <3>3
  <2>4. w[i] = TlvAt(p, w, i)
    BY <1>4, <2>3
  <2>5. Found(w[j], a, n)
    BY <1>6, <2>1
  <2>6. Found(w[i], a, s)
    BY <1>3, <1>6, <2>2, <2>4, <2>5, FoundBefore
  <2> QED
    BY <2>1, <2>6
<1>7. Found(w[q[8]], a, 8)
  BY <1>5, <1>6, 8 \in 1..8, 9 = 8 + 1
<1>8. Found(w[q[7]], a, 7)
  BY <1>6, <1>7, 7 \in 1..8, 8 = 7 + 1
<1>9. Found(w[q[6]], a, 6)
  BY <1>6, <1>8, 6 \in 1..8, 7 = 6 + 1
<1>10. Found(w[q[5]], a, 5)
  BY <1>6, <1>9, 5 \in 1..8, 6 = 5 + 1
<1>11. Found(w[q[4]], a, 4)
  BY <1>6, <1>10, 4 \in 1..8, 5 = 4 + 1
<1>12. Found(w[q[3]], a, 3)
  BY <1>6, <1>11, 3 \in 1..8, 4 = 3 + 1
<1>13. Found(w[q[2]], a, 2)
  BY <1>6, <1>12, 2 \in 1..8, 3 = 2 + 1
<1>14. Found(w[q[1]], a, 1)
  BY <1>6, <1>13, 1 \in 1..8, 2 = 1 + 1
<1> QED
  BY <1>1, <1>3, <1>4, <1>14

\* The announcement of a when n bytes of its end are lost.
SentHeader(a, legacy) ==
  [HeaderOf(Tlvs(a)) EXCEPT !.headerLen = IF legacy THEN 16 ELSE 18]

Packet(a, legacy, n) ==
  [header |-> SentHeader(a, legacy),
   crc |-> Checksum(SentHeader(a, legacy), Tlvs(a)),
   payload |-> SubSeq(Tlvs(a), 1, Len(Tlvs(a)) - n)]

AsFields(a) == [f \in Fields |-> a[f]]

Decoded(r, a, n) ==
  /\ r.ok \in BOOLEAN
  /\ r.ok <=> n = 0 /\ ~ \E s \in 1..8 : Short(a, s)
  /\ r.ok => r.fields = AsFields(a)

LEMMA ShortOf ==
  ASSUME NEW f \in Fields
  PROVE  \E t \in 1..8 : f = Names[t] /\ TypeOf(f) = t
<1>1. PICK t \in 1..8 : f = Names[t]
  BY DEF Fields
<1> QED
  BY <1>1, TypeOfName

LEMMA FieldRead ==
  ASSUME NEW a, Announces(a), NEW x, Found(x, a, 1), x.ok, NEW f \in Fields
  PROVE  (IF TypeOf(f) \notin DOMAIN x.values THEN <<>>
          ELSE IF ShortestValue(TypeOf(f)) = 0 THEN x.values[TypeOf(f)]
               ELSE SubSeq(x.values[TypeOf(f)], 1, ShortestValue(TypeOf(f)))) = a[f]
<1>1. PICK t \in 1..8 : f = Names[t] /\ TypeOf(f) = t
  BY ShortOf
<1>2. PICK v : v = a[f]
  OBVIOUS
<1>3. v \in Seq(Byte) /\ (ShortestValue(t) > 0 => Len(v) <= ShortestValue(t))
  BY <1>1, <1>2 DEF Announces
<1>4. /\ ~ Short(a, t)
      /\ DOMAIN x.values = {s \in 1..8 : a[Names[s]] # <<>>}
      /\ v # <<>> => x.values[t] = v
  BY <1>1, <1>2 DEF Found
<1>5. t \in DOMAIN x.values <=> v # <<>>
  BY <1>1, <1>2, <1>4
<1>6. CASE v = <<>>
  BY <1>1, <1>2, <1>5, <1>6, Zenon
<1>7. CASE v # <<>>
  <2>1. PICK least \in Nat, n \in Nat : least = ShortestValue(t) /\ n = Len(v)
    BY <1>3, ShortestIs, LenProperties
  <2>2. n # 0
    BY <1>3, <1>7, <2>1
  <2>3. ~ (n \in 1..(least - 1))
    BY <1>1, <1>2, <1>4, <2>1, Zenon DEF Short
  <2>4. least = 0 \/ least = n
    BY <1>3, <2>1, <2>2, <2>3
  <2>5. SubSeq(v, 1, n) = v
    BY <1>3, <2>1, SubSeqFull
  <2>6. (IF least = 0 THEN v ELSE SubSeq(v, 1, least)) = v
    BY <2>4, <2>5, Zenon
  <2> QED
    BY <1>1, <1>2, <1>4, <1>5, <1>7, <2>1, <2>6, Zenon
<1> QED
  BY <1>6, <1>7

LEMMA DecodedIs ==
  ASSUME NEW a, Announces(a), NEW legacy, NEW n \in Nat, n <= Len(Tlvs(a)),
         NEW m, m = Packet(a, legacy, n)
  PROVE  Decoded(DecodeAnnounce(m), a, n)
<1>1. PICK p : p = Tlvs(a)
  OBVIOUS
<1>2. Found(ReadTlvs(p), a, 1) /\ p \in Seq(Byte)
  BY <1>1, AllFound
<1>3. PICK h : h = SentHeader(a, legacy)
  OBVIOUS
<1>4. PICK g : g = HeaderOf(p)
  OBVIOUS
<1>41. h = [g EXCEPT !.headerLen = IF legacy THEN 16 ELSE 18]
  BY <1>1, <1>3, <1>4 DEF SentHeader
<1>42. /\ g.magic = "OBD2" /\ g.proto = 1 /\ g.kind = "announce"
       /\ g.payloadLen = Len(p) /\ g.seq = 1
       /\ DOMAIN g = {"magic", "proto", "kind", "headerLen", "payloadLen", "seq"}
       /\ g = [k \in DOMAIN g |-> g[k]]
  BY <1>4 DEF HeaderOf
<1>5. /\ h.magic = "OBD2" /\ h.proto = 1 /\ h.headerLen \in {16, 18} /\ h.kind = "announce"
      /\ h.payloadLen = Len(p) /\ h.seq = 1
  BY <1>41, <1>42
<1>6. m.header = h /\ m.crc = Checksum(h, p) /\ m.payload = SubSeq(p, 1, Len(p) - n)
  BY <1>1, <1>3 DEF Packet
<1>7. PICK size \in Nat : size = Len(p) /\ n <= size
  BY <1>1, <1>2, LenProperties
<1>8. Len(m.payload) = size - n
  BY <1>2, <1>6, <1>7
<1>9. PICK parsed : parsed = ParseHeader(m)
  OBVIOUS
<1>10. CASE n # 0
  <2>1. Len(m.payload) < m.header.payloadLen
    BY <1>5, <1>6, <1>7, <1>8, <1>10
  <2>2. parsed = Failure
    BY <1>9, <2>1, Zenon DEF ParseHeader
  <2>3. ~ Failure.ok /\ Failure.ok = FALSE
    BY DEF Failure
  <2>4. DecodeAnnounce(m) = Failure
    BY <1>9, <2>2, <2>3, Zenon DEF DecodeAnnounce
  <2> QED
    BY <1>10, <2>3, <2>4, Zenon DEF Decoded
<1>11. CASE n = 0
  <2>1. m.payload = p
    BY <1>2, <1>6, <1>7, <1>11, size - 0 = size, SubSeqFull
  <2>2. ~ (Len(m.payload) < m.header.payloadLen)
    BY <1>5, <1>6, <1>7, <2>1
  <2>3. SubSeq(m.payload, 1, m.header.payloadLen) = p
    BY <1>2, <1>5, <1>6, <2>1, SubSeqFull
  <2>4. parsed = [ok |-> TRUE, kind |-> m.header.kind, seq |-> m.header.seq, payload |-> p]
    BY <1>5, <1>6, <1>9, <2>2, <2>3, Zenon DEF ParseHeader
  <2>5. parsed.ok = TRUE /\ parsed.kind = "announce" /\ parsed.payload = p
    BY <1>5, <1>6, <2>4
  <2>6. m.crc = Checksum(m.header, p)
    BY <1>6
  <2>7. PICK x : x = ReadTlvs(p)
    OBVIOUS
  <2>8. Found(x, a, 1)
    BY <1>2, <2>7
  <2>9. x.ok \in BOOLEAN /\ (x.ok <=> ~ \E s \in 1..8 : Short(a, s))
    BY <2>8, Zenon DEF Found
  <2>10. CASE ~ x.ok
    <3>1. DecodeAnnounce(m) = Failure
      BY <1>9, <2>5, <2>6, <2>7, <2>10, Zenon DEF DecodeAnnounce
    <3>2. Failure.ok = FALSE
      BY DEF Failure
    <3> QED
      BY <2>9, <2>10, <3>1, <3>2, Zenon DEF Decoded
  <2>11. CASE x.ok
    <3>1. PICK F : F = [f \in Fields |->
                     IF TypeOf(f) \notin DOMAIN x.values THEN <<>>
                     ELSE IF ShortestValue(TypeOf(f)) = 0 THEN x.values[TypeOf(f)]
                          ELSE SubSeq(x.values[TypeOf(f)], 1, ShortestValue(TypeOf(f)))]
      OBVIOUS
    <3>2. DecodeAnnounce(m) = [ok |-> TRUE, fields |-> F]
      BY <1>9, <2>5, <2>6, <2>7, <2>11, <3>1, Zenon DEF DecodeAnnounce
    <3>3. F = AsFields(a)
      BY <2>8, <2>11, <3>1, FieldRead, Zenon DEF AsFields
    <3>4. DecodeAnnounce(m).ok = TRUE /\ DecodeAnnounce(m).fields = F
      BY <3>2
    <3> QED
      BY <1>11, <2>9, <2>11, <3>3, <3>4, Zenon DEF Decoded
  <2> QED
    BY <2>9, <2>10, <2>11
<1> QED
  BY <1>10, <1>11

-----------------------------------------------------------------------------
(***************************************************************************)
(* What the agent reports of an announcement.                              *)
(***************************************************************************)
LEMMA PortBytes ==
  ASSUME NEW n \in Word
  PROVE  n \in Ports <=> LE16(n) # LE16(0)
<1>1. n \in Nat /\ n < 65536
  BY IsWord, SMT
<1>2. LE16(n) = <<n % 256, n \div 256>> /\ LE16(0) = <<0, 0>>
  BY SMT DEF LE16
<1>3. (n % 256 = 0 /\ n \div 256 = 0) <=> n = 0
  BY <1>1, SMT
<1>4. LE16(n) = LE16(0) <=> n = 0
  BY <1>2, <1>3
<1> QED
  BY <1>1, <1>4, SMT DEF Ports

LEMMA PortDigits ==
  ASSUME NEW a \in Byte, NEW b \in Byte, NEW n, n = a + 256 * b
  PROVE  n \in Word /\ n % 256 = a /\ n \div 256 = b
<1>1. a \in Nat /\ a < 256 /\ b \in Nat /\ b < 256
  BY IsByte, SMT
<1>2. n \in Nat /\ n < 65536
  BY <1>1, SMT
<1>3. n % 256 = a
  BY <1>1, SMT
<1>4. n \div 256 = b
  BY <1>1, SMT
<1>5. n \in Word
  BY <1>2, WordIs
<1> QED
  BY <1>3, <1>4, <1>5

LEMMA PortRead ==
  ASSUME NEW v \in Seq(Byte), Len(v) = 2
  PROVE  FromLE16(v) \in Word /\ LE16(FromLE16(v)) = v
<1>1. PICK a \in Byte, b \in Byte : a = v[1] /\ b = v[2]
  OBVIOUS
<1>2. v = <<a, b>>
  BY <1>1
<1>3. PICK n : n = a + 256 * b
  OBVIOUS
<1>4. n \in Word /\ n % 256 = a /\ n \div 256 = b
  BY <1>3, PortDigits
<1>5. FromLE16(v) = n
  BY <1>1, <1>3, Zenon DEF FromLE16
<1> QED
  BY <1>2, <1>4, <1>5 DEF LE16

PortOf(a, source) == IF a["udpPort"] = <<>> THEN LE16(source.port) ELSE a["udpPort"]

\* r is what the agent is to report of the announcement a from a source when n
\* bytes are lost.
Reported(r, a, source, n) ==
  /\ r.ok \in BOOLEAN
  /\ r.ok <=> n = 0 /\ a["deviceId"] # <<>> /\ ~ \E s \in 1..8 : Short(a, s)
  /\ r.ok => /\ \A f \in Fields \ {"lanIp", "udpPort"} : r.report[f] = a[f]
             /\ r.report["lanIp"] \in {a["lanIp"], source.ip}
             /\ r.report["lanIp"][1] # 127 /\ r.report["lanIp"] # <<0, 0, 0, 0>>
             /\ r.report["udpPort"] = IF PortOf(a, source) = LE16(0) THEN <<>>
                                      ELSE PortOf(a, source)

LEMMA FieldsAre ==
  "deviceId" \in Fields /\ "lanIp" \in Fields /\ "udpPort" \in Fields
BY NamesAre, TypeOfName, 1 \in 1..8, 3 \in 1..8, 6 \in 1..8

LEMMA ReportIs ==
  ASSUME NEW a, Announces(a), NEW legacy, NEW n \in Nat, n <= Len(Tlvs(a)),
         NEW m, m = Packet(a, legacy, n), NEW source \in Sources
  PROVE  Reported(Report(m, source), a, source, n)
<1>1. PICK d : d = DecodeAnnounce(m)
  OBVIOUS
<1>2. Decoded(d, a, n)
  BY <1>1, DecodedIs
<1>3. /\ d.ok \in BOOLEAN
      /\ d.ok <=> n = 0 /\ ~ \E s \in 1..8 : Short(a, s)
      /\ d.ok => d.fields = AsFields(a)
  BY <1>2, Zenon DEF Decoded
<1>4. Failure.ok = FALSE
  BY DEF Failure
<1>5. CASE ~ d.ok
  <2>1. Report(m, source) = Failure
    BY <1>1, <1>5, Zenon DEF Report
  <2> QED
    BY <1>3, <1>4, <1>5, <2>1, Zenon DEF Reported
<1>6. CASE d.ok
  <2>1. PICK f : f = AsFields(a)
    OBVIOUS
  <2>2. f = d.fields /\ DOMAIN f = Fields /\ \A x \in Fields : f[x] = a[x]
    BY <1>3, <1>6, <2>1 DEF AsFields
  <2>21. f = [x \in Fields |-> f[x]]
    BY <2>1 DEF AsFields
  <2>3. PICK id, lan, udp : id = a["deviceId"] /\ lan = a["lanIp"] /\ udp = a["udpPort"]
    OBVIOUS
  <2>4. f["deviceId"] = id /\ f["lanIp"] = lan /\ f["udpPort"] = udp
    BY <2>2, <2>3, FieldsAre
  <2>5. CASE id = <<>>
    <3>1. Report(m, source) = Failure
      BY <1>1, <1>6, <2>2, <2>4, <2>5, Zenon DEF Report
    <3> QED
      BY <1>4, <2>3, <2>5, <3>1, Zenon DEF Reported
  <2>6. CASE id # <<>>
    <3>1. PICK port : port = IF udp = <<>> THEN source.port ELSE FromLE16(udp)
      OBVIOUS
    <3>2. PICK ip : ip = IF IsLanAddress(lan) THEN lan ELSE source.ip
      OBVIOUS
    <3>3. PICK bytes : bytes = IF port \in Ports THEN LE16(port) ELSE <<>>
      OBVIOUS
    <3>4. PICK g : g = [f EXCEPT !["lanIp"] = ip, !["udpPort"] = bytes]
      OBVIOUS
    <3>5. Report(m, source) = [ok |-> TRUE, report |-> g]
      BY <1>1, <1>6, <2>2, <2>4, <2>6, <3>1, <3>2, <3>3, <3>4, Zenon DEF Report
    <3>6. PICK r : r = Report(m, source)
      OBVIOUS
    <3>7. r.ok = TRUE /\ r.report = g
      BY <3>5, <3>6
    <3>8. \A x \in Fields \ {"lanIp", "udpPort"} : g[x] = a[x]
      BY <2>2, <2>21, <3>4
    <3>9. g["lanIp"] = ip /\ g["udpPort"] = bytes
      BY <2>2, <2>21, <3>4, FieldsAre
    <3>10. source.port \in Word /\ IsLanAddress(source.ip)
      BY CodecsAssumption DEF CodecsAssumption, AnnouncedAssumption
    <3>11. ip \in {lan, source.ip} /\ IsLanAddress(ip)
      BY <3>2, <3>10, Zenon
    <3>12. ip[1] # 127 /\ ip # <<0, 0, 0, 0>>
      BY <3>11 DEF IsLanAddress
    <3>13. PICK seen : seen = PortOf(a, source)
      OBVIOUS
    <3>14. seen = IF udp = <<>> THEN LE16(source.port) ELSE udp
      BY <2>3, <3>13, Zenon DEF PortOf
    <3>15. port \in Word /\ LE16(port) = seen
      <4>1. CASE udp = <<>>
        BY <3>1, <3>10, <3>14, <4>1, Zenon
      <4>2. CASE udp # <<>>
        <5>1. 3 \in 1..8 /\ Names[3] = "udpPort" /\ ShortestValue(3) = 2
          BY NamesAre DEF ShortestValue
        <5>2. udp \in Seq(Byte) /\ Len(udp) <= 2
          <6>1. ShortestValue(3) > 0
            BY <5>1
          <6>2. udp \in Seq(Byte) /\ Len(udp) <= ShortestValue(3)
            BY <2>3, <5>1, <6>1, Zenon DEF Announces
          <6> QED
            BY <5>1, <6>2
        <5>3. ~ Short(a, 3)
          BY <1>3, <1>6, <5>1
        <5>4. ~ (Len(udp) \in 1..(2 - 1))
          BY <2>3, <5>1, <5>3, Zenon DEF Short
        <5>5. PICK l \in Nat : l = Len(udp)
          BY <5>2, LenProperties
        <5>6. l # 0
          BY <4>2, <5>2, <5>5
        <5>7. Len(udp) = 2
          BY <5>2, <5>4, <5>5, <5>6
        <5> QED
          BY <3>1, <3>14, <4>2, <5>2, <5>7, PortRead, Zenon
      <4> QED
        BY <4>1, <4>2
    <3>16. bytes = IF seen = LE16(0) THEN <<>> ELSE seen
      <4>1. port \in Ports <=> seen # LE16(0)
        BY <3>15, PortBytes, Zenon
      <4> QED
        BY <3>3, <3>15, <4>1, Zenon
    <3>17. r.ok <=> n = 0 /\ a["deviceId"] # <<>> /\ ~ \E s \in 1..8 : Short(a, s)
      BY <1>3, <1>6, <2>3, <2>6, <3>7, Zenon
    <3> QED
      BY <2>3, <3>6, <3>7, <3>8, <3>9, <3>11, <3>12, <3>13, <3>16, <3>17, Zenon DEF Reported
  <2> QED
    BY <2>5, <2>6
<1> QED
  BY <1>3, <1>5, <1>6

\* An announcement, as it was sent and as the agent has reported it.
AnnounceInv ==
  /\ job \in AnnounceJobs
  /\ stage \in {"asked", "announced", "done"}
  /\ stage # "done" => reply = Nothing
  /\ stage # "asked" => /\ cut \in Nat /\ cut <= Len(Tlvs(job.fields))
                        /\ said = Packet(job.fields, job.legacy, cut)
  /\ stage = "done" => reply = Report(said, job.source)

Announcing == job.kind = "announce" => AnnounceInv

LEMMA AnnounceJobsAre ==
  ASSUME NEW j \in AnnounceJobs
  PROVE  j.fields \in Announced /\ j.source \in Sources /\ Announces(j.fields)
<1>1. j.fields \in Announced /\ j.source \in Sources
  BY DEF AnnounceJobs
<1> QED
  BY <1>1, AnnouncedAre

LEMMA AnnounceInit ==
  ASSUME JobInit PROVE Announcing
<1>1. job \in SendJobs \cup RelayJobs \cup AskJobs \cup AnnounceJobs
  BY DEF JobInit, AskJobs
<1>2. job.kind = "announce" => job \in AnnounceJobs
  BY <1>1, KindsOfJobs
<1>3. stage = "asked" /\ reply = Nothing
  BY DEF JobInit
<1> QED
  BY <1>2, <1>3 DEF Announcing, AnnounceInv

LEMMA AnnounceStep ==
  ASSUME Announcing, [JobNext]_jobVars PROVE Announcing'
<1>1. job' = job
  BY Zenon DEF JobNext, jobVars, ApiSends, AgentFails, AgentTransmits, ApiShows, DongleEmits,
       AgentHears, ApiRelays, AgentRelays, AgentAsks, AgentStartsPairing, DongleAnswers,
       AgentReads, DongleAnnounces, AgentDiscovers
<1>2. SUFFICES ASSUME job.kind = "announce" PROVE AnnounceInv'
  BY <1>1 DEF Announcing
<1>3. AnnounceInv
  BY <1>2 DEF Announcing
<1>4. CASE UNCHANGED jobVars
  <2>1. /\ job' = job /\ stage' = stage /\ reply' = reply /\ said' = said /\ cut' = cut
    BY <1>4 DEF jobVars
  <2> QED
    BY <1>3, <2>1 DEF AnnounceInv
<1>5. CASE DongleAnnounces
  <2>1. PICK a, legacy : a = job.fields /\ legacy = job.legacy
    OBVIOUS
  <2>2. PICK p : p = Tlvs(a)
    OBVIOUS
  <2>3. Announces(a) /\ job \in AnnounceJobs
    BY <1>3, <2>1, AnnounceJobsAre DEF AnnounceInv
  <2>4. p \in Seq(Byte)
    BY <2>2, <2>3, AllFound
  <2>5. Encode(1, a).payload = p /\ Encode(1, a).header = HeaderOf(p)
    BY <2>2, EncodeIs
  <2>6. PICK h : h = [Encode(1, a).header EXCEPT !.headerLen = IF legacy THEN 16 ELSE 18]
    OBVIOUS
  <2>7. h = SentHeader(a, legacy)
    BY <2>2, <2>5, <2>6, Zenon DEF SentHeader
  <2>8. /\ stage' = "announced" /\ reply' = reply /\ stage = "asked"
        /\ \E n \in Cuts :
             /\ n <= Len(p) /\ cut' = n
             /\ said' = [header |-> h, crc |-> Checksum(h, p),
                         payload |-> SubSeq(p, 1, Len(p) - n)]
    BY <1>5, <2>1, <2>5, <2>6, Zenon DEF DongleAnnounces, Job
  <2>9. cut' \in Cuts
    BY <2>8
  <2>10. cut' \in Nat /\ cut' <= Len(p)
    BY <2>8, <2>9, CodecsAssumption DEF CodecsAssumption, FramesAssumption
  <2>11. said' = Packet(a, legacy, cut')
    BY <2>2, <2>7, <2>8, Zenon DEF Packet
  <2>12. said' = Packet(job.fields, job.legacy, cut') /\ cut' <= Len(Tlvs(job.fields))
    BY <2>1, <2>2, <2>10, <2>11
  <2> QED
    BY <1>1, <1>3, <2>8, <2>10, <2>12 DEF AnnounceInv
<1>6. CASE AgentDiscovers
  <2>1. /\ stage = "announced" /\ stage' = "done" /\ reply' = Report(said, job.source)
        /\ said' = said /\ cut' = cut
    BY <1>6 DEF AgentDiscovers, Job
  <2> QED
    BY <1>1, <1>3, <2>1 DEF AnnounceInv
<1>7. CASE ~ (DongleAnnounces \/ AgentDiscovers) /\ JobNext
  <2>1. \/ ApiSends \/ AgentFails \/ AgentTransmits \/ ApiShows \/ DongleEmits
        \/ AgentHears \/ ApiRelays \/ AgentRelays \/ AgentAsks \/ AgentStartsPairing
        \/ DongleAnswers \/ AgentReads
    BY <1>7 DEF JobNext
  <2>2. \/ job.kind \in {"send", "relay", "config", "cli", "pair"}
        \/ stage = "requested" \/ stage = "answered"
    BY <2>1 DEF ApiSends, AgentFails, AgentTransmits, ApiShows, DongleEmits,
       AgentHears, ApiRelays, AgentRelays, AgentAsks, AgentStartsPairing, DongleAnswers,
       AgentReads, Job
  <2> QED
    BY <1>2, <1>3, <2>2 DEF AnnounceInv
<1> QED
  BY <1>4, <1>5, <1>6, <1>7

-----------------------------------------------------------------------------
(***************************************************************************)
(* All jobs: the invariant, and that each step keeps it.                   *)
(***************************************************************************)
Fits(d) == d \in Seq(Byte) /\ Len(d) <= MaxDatagram

\* Where a job may be, and what is not yet made of it.
TypesInv ==
  /\ Fits(datagram)
  /\ cut \in Cuts \cup {0}
  /\ job.kind \in {"send", "relay", "config", "cli", "pair", "announce"}
  /\ stage \in {"asked", "sent", "acknowledged", "done", "refused", "failed",
                "emitted", "heard", "relayed", "dropped", "requested",
                "answered", "announced"}
  /\ control.ok \in BOOLEAN /\ shown.ok \in BOOLEAN
  /\ job.kind \in {"send", "relay"} => reply = Nothing
  /\ stage \in {"heard", "relayed"} => cut = 0

MsgInv == FramesInv /\ Asking /\ Announcing /\ TypesInv

LEMMA SmallFits ==
  ASSUME NEW d \in Seq(Byte), Len(d) <= 111 PROVE Fits(d)
<1>1. Len(d) \in Nat
  BY LenProperties
<1>2. Len(d) <= MaxDatagram
  BY <1>1, SMT DEF MaxDatagram
<1> QED
  BY <1>2 DEF Fits

LEMMA WrittenFits ==
  ASSUME NEW m, Sendable(m) PROVE Fits(FrameDatagram(m).bytes)
BY AgentWrites, SmallFits

LEMMA CutFits ==
  ASSUME NEW d, Fits(d), NEW n \in Nat, n < Len(d)
  PROVE  Fits(SubSeq(d, 1, Len(d) - n))
<1>1. d \in Seq(Byte) /\ Len(d) \in Nat /\ Len(d) <= MaxDatagram /\ MaxDatagram \in Nat
  BY LenProperties, SMT DEF Fits, MaxDatagram
<1>2. PICK k \in Nat : k = Len(d) - n /\ k <= Len(d)
  BY <1>1
<1>3. SubSeq(d, 1, k) \in Seq(Byte) /\ Len(SubSeq(d, 1, k)) = k
  BY <1>1, <1>2, Begun
<1>4. k <= MaxDatagram
  BY <1>1, <1>2
<1> QED
  BY <1>2, <1>3, <1>4 DEF Fits

LEMMA EmittedFits ==
  ASSUME NEW f \in BusFrames PROVE Fits(Emitted(f))
<1>1. Framed(f) /\ <<>> \in Seq(Byte) /\ Len(<<>>) <= MaxTokenLen
  BY BusFrameIsFramed DEF MaxTokenLen
<1>2. PICK b \in Seq(Byte) :
        /\ Datagram(CanType, Device, <<>>, EncodeCanFrame(f)) = [ok |-> TRUE, bytes |-> b]
        /\ Len(b) <= 111
  BY <1>1, FrameTravels
<1>3. Emitted(f) = b
  <2>1. PICK d : d = Datagram(CanType, Device, <<>>, EncodeCanFrame(f))
    OBVIOUS
  <2>2. d.bytes = b
    BY <1>2, <2>1
  <2> QED
    BY <2>1, <2>2, Zenon DEF Emitted
<1> QED
  BY <1>2, <1>3, SmallFits

LEMMA VerdictsAre ==
  /\ Nothing.ok = FALSE /\ Error.ok = FALSE
  /\ \A given, asked, text : CanFrame(given, asked, text).ok \in BOOLEAN
<1>1. Nothing.ok = FALSE /\ Error.ok = FALSE
  BY DEF Nothing, Error
<1>2. ASSUME NEW given, NEW asked, NEW text
      PROVE  CanFrame(given, asked, text).ok \in BOOLEAN
  <2>1. PICK id, data : id = NormalizeCanId(given) /\ data = NormalizeHexData(text)
    OBVIOUS
  <2>2. PICK e : e = IF asked = "unset" THEN id.id > MaxStdId ELSE asked = "yes"
    OBVIOUS
  <2>3. PICK x : x = [ok |-> TRUE, id |-> HexOf(id.id), extended |-> e, data |-> data.data]
    OBVIOUS
  <2>4. CanFrame(given, asked, text) = Error \/ CanFrame(given, asked, text) = x
    BY <2>1, <2>2, <2>3, Zenon DEF CanFrame
  <2>5. x.ok = TRUE
    BY <2>3
  <2> QED
    BY <1>1, <2>4, <2>5
<1> QED
  BY <1>1, <1>2

LEMMA CutsAreNumbers == Cuts \subseteq Nat
BY CodecsAssumption DEF CodecsAssumption, FramesAssumption

LEMMA TypesInit ==
  ASSUME JobInit PROVE TypesInv
<1>1. job \in SendJobs \cup RelayJobs \cup AskJobs \cup AnnounceJobs
  BY DEF JobInit, AskJobs
<1>2. job.kind \in {"send", "relay", "config", "cli", "pair", "announce"}
  BY <1>1, KindsOfJobs
<1>3. /\ stage = "asked" /\ control = Nothing /\ shown = Nothing /\ reply = Nothing
      /\ datagram = <<>> /\ cut = 0
  BY DEF JobInit
<1>4. Fits(datagram)
  <2>1. <<>> \in Seq(Byte) /\ Len(<<>>) <= 111
    OBVIOUS
  <2> QED
    BY <1>3, <2>1, SmallFits
<1> QED
  BY <1>2, <1>3, <1>4, VerdictsAre DEF TypesInv

\* The steps that make a datagram.
LEMMA TypesStepWrites ==
  ASSUME MsgInv, \/ AgentTransmits \/ DongleEmits \/ AgentRelays
                 \/ AgentAsks \/ AgentStartsPairing \/ DongleAnswers
  PROVE  TypesInv'
<1>0. TypesInv /\ FramesInv /\ Asking
  BY DEF MsgInv
<1>1. CASE AgentTransmits
  <2>1. PICK d : d = FrameDatagram(control)
    OBVIOUS
  <2>2. /\ job.kind = "send" /\ stage = "sent"
        /\ job' = job /\ control' = control /\ cut' = cut /\ shown' = shown /\ reply' = reply
        /\ \/ d.ok /\ datagram' = d.bytes /\ stage' = "acknowledged"
           \/ datagram' = datagram /\ stage' = "failed"
    BY <1>1, <2>1, Zenon DEF AgentTransmits, Job
  <2>3. /\ job \in SendJobs /\ control.ok
        /\ control = CanFrame(job.given, job.extended, job.text)
    BY <1>0, <2>2 DEF FramesInv, SendInv
  <2>4. d.ok => Fits(d.bytes)
    <3>1. SUFFICES ASSUME d.ok PROVE Fits(d.bytes)
      OBVIOUS
    <3>2. PICK id : id = IdMeant(job.given)
      OBVIOUS
    <3>3. MadeOf(control, job, id)
      BY <2>1, <2>3, <3>1, <3>2, SentIsSendable
    <3> QED
      BY <2>1, <3>3, WrittenFits DEF MadeOf
  <2>5. Fits(datagram')
    BY <1>0, <2>2, <2>4 DEF TypesInv
  <2> QED
    BY <1>0, <2>2, <2>5 DEF TypesInv
<1>2. CASE DongleEmits
  <2>1. /\ job.kind = "relay" /\ stage = "asked" /\ stage' = "emitted"
        /\ job' = job /\ control' = control /\ shown' = shown /\ reply' = reply
    BY <1>2 DEF DongleEmits, Job
  <2>2. Arrives(Emitted(job.frame))
    BY <1>2 DEF DongleEmits, Emitted
  <2>3. PICK e : e = Emitted(job.frame)
    OBVIOUS
  <2>4. job.frame \in BusFrames
    BY <1>0, <2>1 DEF FramesInv, RelayInv, RelayJobs
  <2>5. PICK n \in Cuts : n < Len(e) /\ cut' = n /\ datagram' = SubSeq(e, 1, Len(e) - n)
    BY <2>2, <2>3 DEF Arrives
  <2>6. Fits(datagram')
    BY <2>3, <2>4, <2>5, EmittedFits, CutFits, CutsAreNumbers
  <2> QED
    BY <1>0, <2>1, <2>5, <2>6 DEF TypesInv
<1>3. CASE AgentRelays
  <2>1. PICK d : d = FrameDatagram(control)
    OBVIOUS
  <2>2. /\ job.kind = "relay" /\ stage = "relayed"
        /\ job' = job /\ control' = control /\ cut' = cut /\ shown' = shown /\ reply' = reply
        /\ \/ datagram' = d.bytes /\ stage' = "done"
           \/ datagram' = datagram /\ stage' = "dropped"
    BY <1>3, <2>1, Zenon DEF AgentRelays, Job
  <2>3. job.frame \in BusFrames /\ control = Crossing(job.frame)
    BY <1>0, <2>2 DEF FramesInv, RelayInv, RelayJobs
  <2>4. Fits(d.bytes)
    BY <2>1, <2>3, CrossingIsSendable, WrittenFits
  <2>5. Fits(datagram')
    BY <1>0, <2>2, <2>4 DEF TypesInv
  <2> QED
    BY <1>0, <2>2, <2>5 DEF TypesInv
<1>4. CASE AgentAsks
  <2>1. PICK d : d = RequestOf(job)
    OBVIOUS
  <2>2. /\ job.kind \in {"config", "cli", "pair"}
        /\ job' = job /\ control' = control /\ cut' = cut /\ shown' = shown /\ reply' = reply
        /\ job.kind = "pair" => ~job.start
        /\ \/ d.ok /\ Len(d.bytes) <= MaxDatagram /\ datagram' = d.bytes /\ stage' = "requested"
           \/ datagram' = datagram /\ stage' = "refused"
    BY <1>4, <2>1, Zenon DEF AgentAsks
  <2>3. job \in AskJobs
    BY <1>0, <2>2 DEF Asking, AskInv
  <2>4. d.ok => d.bytes \in Seq(Byte)
    BY <2>1, <2>2, <2>3, AskedIsSaid DEF Carries
  <2>5. Fits(datagram')
    BY <1>0, <2>2, <2>4 DEF TypesInv, Fits
  <2> QED
    BY <1>0, <2>2, <2>5 DEF TypesInv
<1>5. CASE AgentStartsPairing
  <2>1. PICK d : d = Datagram(PairingType, Device, <<>>, EncodePairingStart(Corr)).bytes
    OBVIOUS
  <2>2. /\ job.kind = "pair" /\ job.start /\ datagram' = d /\ stage' = "requested"
        /\ job' = job /\ control' = control /\ cut' = cut /\ shown' = shown /\ reply' = reply
    BY <1>5, <2>1, Zenon DEF AgentStartsPairing, Job
  <2>3. \E n, p : Carries(d, TypeFor(job), n, p) /\ Said(job, p) /\ Len(d) <= MaxDatagram
    BY <2>1, <2>2, StartIsSaid
  <2>4. Fits(datagram')
    BY <2>2, <2>3 DEF Carries, Fits
  <2> QED
    BY <1>0, <2>2, <2>4 DEF TypesInv
<1>6. CASE DongleAnswers
  <2>1. PICK h : h = DecodeRempHeader(datagram)
    OBVIOUS
  <2>2. PICK e : e = [ok |-> TRUE, bytes |-> AnswerTo(job, said')]
    OBVIOUS
  <2>3. PICK d : d = Datagram(h.type, Device, <<>>, e).bytes
    OBVIOUS
  <2>4. /\ stage = "requested" /\ stage' = "answered" /\ job' = job /\ control' = control
        /\ shown' = shown /\ reply' = reply
        /\ said' = Understood(job, h.payload) /\ Arrives(d)
    BY <1>6, <2>1, <2>2, <2>3, Zenon DEF DongleAnswers
  <2>5. job.kind \in {"config", "cli", "pair"}
    BY <1>0, <2>4 DEF TypesInv, FramesInv, SendInv, RelayInv, MsgInv, Announcing, AnnounceInv
  <2>6. job \in AskJobs /\ RequestOnTheWay(job, datagram)
    BY <1>0, <2>4, <2>5 DEF Asking, AskInv
  <2>7. PICK n, p : Carries(datagram, TypeFor(job), n, p) /\ Said(job, p)
    BY <2>6 DEF RequestOnTheWay
  <2>8. h.type = TypeFor(job) /\ h.payload = p
    BY <2>1, <2>7, WholeRead
  <2>9. Meant(job, said')
    BY <2>4, <2>6, <2>7, <2>8, SaidIsMeant
  <2>10. PICK u : u = said'
    OBVIOUS
  <2>11. e.ok /\ e.bytes = AnswerTo(job, u)
    BY <2>2, <2>10
  <2>12. PICK k : Carries(d, h.type, k, AnswerTo(job, u))
    BY <2>3, <2>6, <2>8, <2>9, <2>10, <2>11, AnswerCarried
  <2>13. PICK lost \in Cuts : /\ lost < Len(d) /\ cut' = lost /\ Len(d) <= MaxDatagram
                              /\ datagram' = SubSeq(d, 1, Len(d) - lost)
    BY <2>4 DEF Arrives
  <2>14. Fits(datagram')
    BY <2>12, <2>13, CutFits, CutsAreNumbers DEF Carries, Fits
  <2> QED
    BY <1>0, <2>4, <2>13, <2>14 DEF TypesInv
<1> QED
  BY <1>1, <1>2, <1>3, <1>4, <1>5, <1>6

\* The others.
LEMMA TypesStepKeeps ==
  ASSUME MsgInv, \/ ApiSends \/ AgentFails \/ ApiShows \/ AgentHears \/ ApiRelays
                 \/ AgentReads \/ DongleAnnounces \/ AgentDiscovers
                 \/ UNCHANGED jobVars
  PROVE  TypesInv'
<1>0. TypesInv /\ FramesInv /\ Asking
  BY DEF MsgInv
<1>1. CASE ApiSends
  <2>1. PICK x : x = CanFrame(job.given, job.extended, job.text)
    OBVIOUS
  <2>2. /\ job' = job /\ datagram' = datagram /\ cut' = cut /\ shown' = shown /\ reply' = reply
        /\ control' = (IF job.open THEN x ELSE Error)
        /\ stage' = IF control'.ok THEN "sent" ELSE "refused"
    BY <1>1, <2>1, Zenon DEF ApiSends
  <2>3. control'.ok \in BOOLEAN
    BY <2>1, <2>2, VerdictsAre
  <2>4. stage' \in {"sent", "refused"}
    BY <2>2
  <2> QED
    BY <1>0, <2>2, <2>3, <2>4 DEF TypesInv
<1>2. CASE AgentFails \/ ApiShows \/ ApiRelays
  <2>1. /\ job' = job /\ datagram' = datagram /\ cut' = cut /\ reply' = reply
        /\ control' = control /\ shown' \in {shown, control}
        /\ stage' \in {"failed", "done", "relayed", "dropped"}
        /\ stage' = "relayed" => stage = "heard"
    BY <1>2 DEF AgentFails, ApiShows, ApiRelays, Job
  <2> QED
    BY <1>0, <2>1 DEF TypesInv
<1>3. CASE AgentHears
  <2>1. /\ job' = job /\ job.kind = "relay" /\ stage = "emitted" /\ cut' = cut
        /\ control' = HeardFrame(datagram) /\ shown' = shown /\ reply' = reply
        /\ datagram' = datagram
        /\ stage' \in {"heard", "dropped"} /\ (stage' = "heard" => control'.ok)
    BY <1>3 DEF AgentHears, Job
  <2>2. /\ job \in RelayJobs /\ cut \in Nat /\ cut < Len(Emitted(job.frame))
        /\ datagram = SubSeq(Emitted(job.frame), 1, Len(Emitted(job.frame)) - cut)
    BY <1>0, <2>1 DEF FramesInv, RelayInv
  <2>3. job.frame \in BusFrames
    BY <2>2 DEF RelayJobs
  <2>4. control' = IF cut = 0 THEN Crossing(job.frame) ELSE Error
    BY <2>1, <2>2, <2>3, AgentHeard
  <2>5. Crossing(job.frame).ok = TRUE
    BY DEF Crossing
  <2>6. control'.ok \in BOOLEAN /\ (control'.ok => cut = 0)
    BY <2>4, <2>5, VerdictsAre
  <2>7. stage' \in {"heard", "dropped"} /\ (stage' = "heard" => cut' = 0)
    BY <2>1, <2>6
  <2> QED
    BY <1>0, <2>1, <2>6, <2>7 DEF TypesInv
<1>4. CASE AgentReads
  <2>1. /\ stage = "answered" /\ stage' = "done" /\ job' = job /\ control' = control
        /\ datagram' = datagram /\ cut' = cut /\ shown' = shown
    BY <1>4 DEF AgentReads
  <2>2. job.kind \notin {"send", "relay"}
    BY <1>0, <2>1 DEF FramesInv, SendInv, RelayInv
  <2> QED
    BY <1>0, <2>1, <2>2 DEF TypesInv
<1>5. CASE DongleAnnounces
  <2>1. /\ job.kind = "announce" /\ stage' = "announced" /\ job' = job /\ control' = control
        /\ datagram' = datagram /\ shown' = shown
    BY <1>5, Zenon DEF DongleAnnounces, Job
  <2>2. cut' \in Cuts
    BY <1>5, Zenon DEF DongleAnnounces
  <2> QED
    BY <1>0, <2>1, <2>2 DEF TypesInv
<1>6. CASE AgentDiscovers
  <2>1. /\ job.kind = "announce" /\ stage' = "done" /\ job' = job /\ control' = control
        /\ datagram' = datagram /\ cut' = cut /\ shown' = shown
    BY <1>6 DEF AgentDiscovers, Job
  <2> QED
    BY <1>0, <2>1 DEF TypesInv
<1>7. CASE UNCHANGED jobVars
  <2>1. /\ job' = job /\ stage' = stage /\ control' = control /\ datagram' = datagram
        /\ cut' = cut /\ shown' = shown /\ reply' = reply
    BY <1>7 DEF jobVars
  <2> QED
    BY <1>0, <2>1 DEF TypesInv
<1> QED
  BY <1>1, <1>2, <1>3, <1>4, <1>5, <1>6, <1>7

LEMMA MsgStep ==
  ASSUME MsgInv, [JobNext]_jobVars PROVE MsgInv'
<1>1. FramesInv' /\ Asking' /\ Announcing'
  BY FramesStep, AskStep, AnnounceStep DEF MsgInv
<1>2. TypesInv'
  BY TypesStepWrites, TypesStepKeeps DEF JobNext
<1> QED
  BY <1>1, <1>2 DEF MsgInv

LEMMA MsgInit ==
  ASSUME JobInit PROVE MsgInv
BY FramesInit, AskInit, AnnounceInit, TypesInit DEF MsgInv

-----------------------------------------------------------------------------
(***************************************************************************)
(* What the invariant says of messages.                                    *)
(***************************************************************************)
\* Of a job that is done, what the agent has made of the answer or announcement.
LEMMA Verdicts ==
  ASSUME MsgInv
  PROVE  /\ reply.ok \in BOOLEAN
         /\ reply.ok => stage = "done" /\ job.kind \in {"config", "cli", "pair", "announce"}
         /\ stage = "done" /\ job.kind = "announce" =>
              Reported(reply, job.fields, job.source, cut)
<1>0. TypesInv /\ Asking /\ Announcing
  BY DEF MsgInv
<1>1. CASE reply = Nothing
  <2>1. ~ (stage = "done" /\ job.kind = "announce") \/ reply = Report(said, job.source)
    BY <1>0 DEF Announcing, AnnounceInv
  <2>2. stage = "done" /\ job.kind = "announce" =>
          Reported(reply, job.fields, job.source, cut)
    <3>1. SUFFICES ASSUME stage = "done", job.kind = "announce"
                   PROVE  Reported(reply, job.fields, job.source, cut)
      OBVIOUS
    <3>2. PICK a, legacy, n, m, source : /\ a = job.fields /\ legacy = job.legacy /\ n = cut
                                         /\ m = said /\ source = job.source
      OBVIOUS
    <3>3. /\ job \in AnnounceJobs /\ n \in Nat /\ n <= Len(Tlvs(a)) /\ m = Packet(a, legacy, n)
          /\ reply = Report(m, source)
      BY <1>0, <3>1, <3>2 DEF Announcing, AnnounceInv
    <3>4. Announces(a) /\ source \in Sources
      BY <3>2, <3>3, AnnounceJobsAre
    <3>5. Reported(Report(m, source), a, source, n)
      BY <3>3, <3>4, ReportIs
    <3> QED
      BY <3>2, <3>3, <3>5
  <2> QED
    BY <1>1, <2>2, VerdictsAre
<1>2. CASE reply # Nothing
  <2>1. stage = "done" /\ job.kind \in {"config", "cli", "pair", "announce"}
    BY <1>0, <1>2 DEF TypesInv, Asking, AskInv, Announcing, AnnounceInv
  <2>2. CASE job.kind = "announce"
    <3>2. PICK a, legacy, n, m, source : /\ a = job.fields /\ legacy = job.legacy /\ n = cut
                                         /\ m = said /\ source = job.source
      OBVIOUS
    <3>3. /\ job \in AnnounceJobs /\ n \in Nat /\ n <= Len(Tlvs(a)) /\ m = Packet(a, legacy, n)
          /\ reply = Report(m, source)
      BY <1>0, <2>1, <2>2, <3>2 DEF Announcing, AnnounceInv
    <3>4. Announces(a) /\ source \in Sources
      BY <3>2, <3>3, AnnounceJobsAre
    <3>5. Reported(Report(m, source), a, source, n)
      BY <3>3, <3>4, ReportIs
    <3>6. Reported(reply, job.fields, job.source, cut)
      BY <3>2, <3>3, <3>5
    <3>7. reply.ok \in BOOLEAN
      BY <3>6, Zenon DEF Reported
    <3> QED
      BY <2>1, <3>6, <3>7
  <2>3. CASE job.kind # "announce"
    <3>1. ReadTrue(job, cut, reply)
      BY <1>0, <2>1, <2>3 DEF Asking, AskInv
    <3>2. reply.ok \in BOOLEAN
      BY <3>1, Zenon DEF ReadTrue
    <3> QED
      BY <2>1, <2>3, <3>2
  <2> QED
    BY <2>2, <2>3
<1> QED
  BY <1>1, <1>2

LEMMA TypesAreOK ==
  ASSUME MsgInv PROVE CodecsTypeOK
BY Verdicts DEF MsgInv, TypesInv, Fits, CodecsTypeOK

LEMMA CutIsRefused ==
  ASSUME MsgInv PROVE ShortIsRefused
<1>0. TypesInv /\ Asking
  BY DEF MsgInv
<1>1. cut \in Nat
  BY <1>0, CutsAreNumbers DEF TypesInv
<1>2. SUFFICES ASSUME cut > 0
               PROVE  /\ stage \notin {"heard", "relayed"}
                      /\ reply.ok => (job.kind = "pair" /\ reply.nonce = <<>>)
  BY DEF ShortIsRefused
<1>3. stage \notin {"heard", "relayed"}
  BY <1>0, <1>2 DEF TypesInv
<1>4. ASSUME reply.ok PROVE job.kind = "pair" /\ reply.nonce = <<>>
  <2>1. stage = "done" /\ job.kind \in {"config", "cli", "pair", "announce"}
    BY <1>4, Verdicts
  <2>2. job.kind # "announce"
    <3>1. SUFFICES ASSUME job.kind = "announce" PROVE FALSE
      OBVIOUS
    <3>2. Reported(reply, job.fields, job.source, cut)
      BY <2>1, <3>1, Verdicts
    <3>3. cut = 0
      BY <1>4, <3>2, Zenon DEF Reported
    <3> QED
      BY <1>2, <3>3
  <2>3. ReadTrue(job, cut, reply)
    BY <1>0, <2>1, <2>2 DEF Asking, AskInv
  <2> QED
    BY <1>2, <1>4, <2>3, Zenon DEF ReadTrue
<1> QED
  BY <1>3, <1>4

\* The dongle's u is the configuration a.
Settles(u, a) ==
  /\ u.bitrate = a.bitrate /\ u.mode < 4 /\ CanModes[u.mode + 1] = a.mode
  /\ u.rest = BE(a.samplePoint, 2) \o BE(a.prescaler, 2) \o <<a.sjw, a.tseg1, a.tseg2>>
  /\ u.flags = EncodeFlags(a)

LEMMA SettingsAre ==
  ASSUME NEW a \in Configs, NEW c, c = ToRempConfig(a), NEW u, u = ConfigMeant(c)
  PROVE  Settles(u, a)
<1>1. /\ Settable(c) /\ CanModes[c.mode + 1] = a.mode
      /\ a = [c EXCEPT !.mode = a.mode]
      /\ DOMAIN c = {"bitrate", "samplePoint", "prescaler", "sjw", "tseg1", "tseg2",
                     "mode", "useRaw", "autoRetx", "txPause", "protocolExc"}
  BY AskedIsSettable
<1>2. /\ a.bitrate = c.bitrate /\ a.samplePoint = c.samplePoint
      /\ a.prescaler = c.prescaler /\ a.sjw = c.sjw /\ a.tseg1 = c.tseg1
      /\ a.tseg2 = c.tseg2 /\ a.useRaw = c.useRaw /\ a.autoRetx = c.autoRetx
      /\ a.txPause = c.txPause /\ a.protocolExc = c.protocolExc
  <2>1. PICK x : x = a.mode
    OBVIOUS
  <2>2. a = [c EXCEPT !.mode = x]
    BY <1>1, <2>1
  <2> QED
    BY <1>1, <2>2
<1>3. /\ u.mode = c.mode /\ u.bitrate = c.bitrate /\ u.rest = Timing(c)
      /\ u.flags = EncodeFlags(c)
  BY DEF ConfigMeant
<1>4. EncodeFlags(c) = EncodeFlags(a)
  BY <1>2, Zenon DEF EncodeFlags
<1>5. Timing(c) = BE(a.samplePoint, 2) \o BE(a.prescaler, 2) \o <<a.sjw, a.tseg1, a.tseg2>>
  BY <1>2, Zenon DEF Timing
<1>6. c.mode < 4
  BY <1>1 DEF Settable
<1> QED
  BY <1>1, <1>2, <1>3, <1>4, <1>5, <1>6 DEF Settles

LEMMA RequestsAreMeant ==
  ASSUME MsgInv PROVE RequestIsUnderstood
<1>0. Asking
  BY DEF MsgInv
<1>1. SUFFICES ASSUME stage \in {"answered", "done"}, job.kind \in {"config", "cli", "pair"}
      PROVE
    /\ job.kind = "config" =>
         /\ said.bitrate = job.config.bitrate
         /\ said.mode < 4 /\ CanModes[said.mode + 1] = job.config.mode
         /\ said.rest = BE(job.config.samplePoint, 2)
                         \o BE(job.config.prescaler, 2)
                         \o <<job.config.sjw, job.config.tseg1,
                              job.config.tseg2>>
         /\ said.flags = EncodeFlags(job.config)
    /\ job.kind = "cli" =>
         said = [corr |-> Corr, dangerous |-> job.dangerous,
                 command |-> job.command]
    /\ job.kind = "pair" /\ ~job.start =>
         said = [corr |-> Corr, pin |-> job.pin, nonce |-> job.nonce,
                 token |-> job.token]
  BY Zenon DEF RequestIsUnderstood
<1>2. job \in AskJobs /\ Meant(job, said)
  BY <1>0, <1>1 DEF Asking, AskInv
<1>3. CASE job.kind = "config"
  <2>1. PICK a, c, u : a = job.config /\ c = ToRempConfig(a) /\ u = said
    OBVIOUS
  <2>2. a \in Configs /\ u = ConfigMeant(c)
    BY <1>2, <1>3, <2>1, AskJobsAre DEF Meant
  <2>3. Settles(u, a)
    BY <2>1, <2>2, SettingsAre
  <2> QED
    BY <1>3, <2>1, <2>3, Zenon DEF Settles
<1>4. CASE job.kind = "cli"
  BY <1>2, <1>4, Zenon DEF Meant
<1>5. CASE job.kind = "pair"
  BY <1>2, <1>5, "pair" # "config", "pair" # "cli", Zenon DEF Meant
<1> QED
  BY <1>1, <1>3, <1>4, <1>5

LEMMA AnswersAreRead ==
  ASSUME MsgInv PROVE AnswerIsRead
<1>0. Asking
  BY DEF MsgInv
<1>1. SUFFICES ASSUME stage = "done", reply.ok, job.kind \in {"config", "cli", "pair"}
      PROVE
    /\ job.kind = "config" =>
         /\ job.status = 0
         /\ job.applied < 4 =>
              reply.effective
                = [job.config EXCEPT !.mode = CanModes[job.applied + 1]]
    /\ job.kind = "cli" =>
         /\ reply.corr = Corr /\ reply.output = job.command
         /\ reply.status = CliStatus(job.status)
         /\ reply.exitCode = job.status
         /\ reply.truncated = job.truncated
    /\ job.kind = "pair" /\ job.start =>
         /\ reply.expiresInS = job.seconds
         /\ reply.status = IF job.status = 1 THEN "error" ELSE PairingStatus(job.status)
         /\ reply.nonce = IF cut = 0 THEN job.offered ELSE <<>>
    /\ job.kind = "pair" /\ ~job.start =>
         /\ reply.status = PairingStatus(job.status)
         /\ reply.status = "cooldown" => reply.expiresInS = job.seconds
  BY Zenon DEF AnswerIsRead
<1>2. ReadTrue(job, cut, reply)
  BY <1>0, <1>1 DEF Asking, AskInv
<1>3. /\ job.kind = "config" => ConfigTrue(job, reply)
      /\ job.kind = "cli" => CliTrue(job, reply)
      /\ job.kind = "pair" => PairTrue(job, cut, reply)
  BY <1>1, <1>2, Zenon DEF ReadTrue
<1> QED
  BY <1>3, Zenon DEF ConfigTrue, CliTrue, PairTrue

LEMMA ShorterIs ==
  ASSUME NEW a
  PROVE  (\E f \in Fields : Len(a[f]) \in 1..(ShortestValue(TypeOf(f)) - 1))
           <=> (\E s \in 1..8 : Short(a, s))
<1>1. ASSUME NEW f \in Fields, Len(a[f]) \in 1..(ShortestValue(TypeOf(f)) - 1)
      PROVE  \E s \in 1..8 : Short(a, s)
  <2>1. PICK t \in 1..8 : f = Names[t] /\ TypeOf(f) = t
    BY ShortOf
  <2>2. Short(a, t)
    BY <1>1, <2>1, Zenon DEF Short
  <2> QED
    BY <2>2
<1>2. ASSUME NEW s \in 1..8, Short(a, s)
      PROVE  \E f \in Fields : Len(a[f]) \in 1..(ShortestValue(TypeOf(f)) - 1)
  <2>1. PICK f : f = Names[s]
    OBVIOUS
  <2>2. TypeOf(f) = s /\ f \in Fields
    BY <2>1, TypeOfName
  <2>3. Len(a[f]) \in 1..(ShortestValue(TypeOf(f)) - 1)
    BY <1>2, <2>1, <2>2, Zenon DEF Short
  <2> QED
    BY <2>2, <2>3
<1> QED
  BY <1>1, <1>2, Zenon

LEMMA AnnouncedIsReported ==
  ASSUME MsgInv PROVE ReportIsAnnounced
<1>1. SUFFICES ASSUME Job("announce", "done") PROVE ReportIsAnnounced
  BY Zenon DEF ReportIsAnnounced
<1>2. PICK a, source, r, n : a = job.fields /\ source = job.source /\ r = reply /\ n = cut
  OBVIOUS
<1>3. Reported(r, a, source, n)
  BY <1>1, <1>2, Verdicts DEF Job
<1>4. PICK short \in BOOLEAN :
        short = \E f \in Fields : Len(a[f]) \in 1..(ShortestValue(TypeOf(f)) - 1)
  OBVIOUS
<1>5. short <=> \E s \in 1..8 : Short(a, s)
  BY <1>4, ShorterIs
<1>6. r.ok <=> n = 0 /\ a["deviceId"] # <<>> /\ ~short
  BY <1>3, <1>5, Zenon DEF Reported
<1>7. PICK port : port = PortOf(a, source)
  OBVIOUS
<1>8. r.ok => /\ \A f \in Fields \ {"lanIp", "udpPort"} : r.report[f] = a[f]
              /\ r.report["lanIp"] \in {a["lanIp"], source.ip}
              /\ r.report["lanIp"][1] # 127 /\ r.report["lanIp"] # <<0, 0, 0, 0>>
              /\ r.report["udpPort"] = IF port = LE16(0) THEN <<>> ELSE port
  BY <1>3, <1>7, Zenon DEF Reported
<1> QED
  BY <1>2, <1>4, <1>6, <1>7, <1>8, Zenon DEF ReportIsAnnounced, PortOf

(***************************************************************************)
(* Requests, answers and announcements mean the same at both ends,         *)
(* whatever the configuration, command, PIN, nonce, token and fields: what *)
(* a dongle understands is what the agent was asked, what the agent reads  *)
(* is what the dongle answered or announced, and a datagram that lost its  *)
(* end is refused, but for the acknowledgement of a pairing without its    *)
(* nonce. (packages/remp/src, shared/src/protocols/discovery.ts, and their *)
(* callers in bridge-agent/src/remp/can-config.ts, cli.ts, pairing.ts,     *)
(* discovery/index.ts)                                                     *)
(***************************************************************************)
THEOREM MessagesKept == JobSpec => []MessagesMeanTheSame
<1>1. JobInit => MsgInv
  BY MsgInit
<1>2. MsgInv /\ [JobNext]_jobVars => MsgInv'
  BY MsgStep
<1>3. MsgInv => MessagesMeanTheSame
  BY TypesAreOK, CutIsRefused, RequestsAreMeant, AnswersAreRead, AnnouncedIsReported
     DEF MessagesMeanTheSame
<1> QED
  BY <1>1, <1>2, <1>3, PTL DEF JobSpec
=============================================================================
