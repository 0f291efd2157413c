--------------------------- MODULE StreamsProofs ---------------------------
(***************************************************************************)
(* What Streams promises for any number of pages, any limits and any       *)
(* number of failures: types, complete wires, announced sampling, and that *)
(* the stream implements ResumableLog.                                     *)
(***************************************************************************)
EXTENDS Streams, TLAPS

\* A sequence of consecutive ids that ends with the last one given.
RunsUpTo(s, n) ==
    /\ Len(s) < n
    /\ \A i \in 1 .. Len(s) : s[i] = n - 1 - Len(s) + i

LEMMA ConcatIsSeq ==
  ASSUME NEW S, NEW s \in Seq(S), NEW t \in Seq(S) PROVE s \o t \in Seq(S)
  BY SMT

LEMMA ConcatLength ==
  ASSUME NEW S, NEW s \in Seq(S), NEW t \in Seq(S) PROVE Len(s \o t) = Len(s) + Len(t)
  BY SMT

LEMMA AppendGrows ==
  ASSUME NEW S, NEW s \in Seq(S), NEW t \in Seq(S), Len(t) = 1
  PROVE  Len(s \o t) > 0
<1>1. Len(s) \in Nat
  BY SMT
<1>2. \A m \in Nat : Len(t) = m => Len(s \o t) = Len(s) + m
  BY ConcatLength
<1>3. \A n \in Nat : n + 1 > 0
  BY SMT
<1> QED BY <1>1, <1>2, <1>3

LEMMA RunsEmpty == ASSUME NEW n \in Nat \ {0} PROVE RunsUpTo(<<>>, n)
  BY SMT DEF RunsUpTo

\* Consecutive ids stay consecutive when the next ones are appended,
LEMMA RunsConcat ==
  ASSUME NEW s \in Seq(Nat), NEW k \in Nat, nextId \in Nat \ {0}, RunsUpTo(s, nextId)
  PROVE  /\ NewIds(k) \in Seq(Nat) /\ Len(NewIds(k)) = k
         /\ s \o NewIds(k) \in Seq(Nat)
         /\ Len(s \o NewIds(k)) = Len(s) + k
         /\ RunsUpTo(s \o NewIds(k), nextId + k)
<1> DEFINE t == NewIds(k)
<1>1. t \in Seq(Nat) /\ Len(t) = k /\ \A i \in 1 .. k : t[i] = nextId + i - 1
  BY SMT DEF NewIds
<1> HIDE DEF t
<1>2. s \o t \in Seq(Nat) /\ Len(s \o t) = Len(s) + k
  BY <1>1, SMT
<1>3. \A i \in 1 .. Len(s) + k : (s \o t)[i] = nextId + k - 1 - (Len(s) + k) + i
  <2> TAKE i \in 1 .. Len(s) + k
  <2>1. CASE i <= Len(s)
    BY <2>1, <1>1, SMT DEF RunsUpTo
  <2>2. CASE i > Len(s)
    <3>1. (s \o t)[i] = t[i - Len(s)] /\ i - Len(s) \in 1 .. k
      BY <2>2, <1>1, SMT
    <3> QED BY <3>1, <1>1, SMT
  <2>3. i <= Len(s) \/ i > Len(s)
    OBVIOUS
  <2> QED BY <2>1, <2>2, <2>3
<1>4. Len(s) + k < nextId + k
  BY SMT DEF RunsUpTo
<1> QED BY <1>1, <1>2, <1>3, <1>4 DEF RunsUpTo, t

\* and when some are taken from the front.
LEMMA RunsSuffix ==
  ASSUME NEW s \in Seq(Nat), NEW n \in Nat, RunsUpTo(s, n), NEW g \in 0 .. Len(s)
  PROVE  /\ SubSeq(s, g + 1, Len(s)) \in Seq(Nat)
         /\ Len(SubSeq(s, g + 1, Len(s))) = Len(s) - g
         /\ RunsUpTo(SubSeq(s, g + 1, Len(s)), n)
<1> DEFINE t == SubSeq(s, g + 1, Len(s))
<1>1. t \in Seq(Nat) /\ Len(t) = Len(s) - g
  BY SMT
<1>2. \A i \in 1 .. Len(s) - g : t[i] = s[i + g] /\ i + g \in 1 .. Len(s)
  BY SMT
<1> HIDE DEF t
<1>3. \A i \in 1 .. Len(s) - g : t[i] = n - 1 - (Len(s) - g) + i
  BY <1>2, SMT DEF RunsUpTo
<1>4. Len(s) - g < n
  BY SMT DEF RunsUpTo
<1>5. RunsUpTo(t, n)
  BY <1>1, <1>3, <1>4 DEF RunsUpTo
<1> QED BY <1>1, <1>5 DEF t

\* The first of them.
LEMMA RunsHead ==
  ASSUME NEW s \in Seq(Nat), NEW n \in Nat, RunsUpTo(s, n), s # <<>>
  PROVE  Head(s) = n - Len(s) /\ Head(s) \in 1 .. n - 1
<1>1. Len(s) \in Nat \ {0} /\ Head(s) = s[1]
  BY SMT
<1> QED BY <1>1, SMT DEF RunsUpTo

\* prune takes some from the front.
LEMMA PruneSuffix ==
  ASSUME NEW s \in Seq(Nat), NEW n \in Nat, RunsUpTo(s, n), NEW old \in 0 .. Len(s)
  PROVE  Prune(s, old) \in Seq(Nat) /\ RunsUpTo(Prune(s, old), n)
<1> DEFINE over == IF Len(s) > BufferMax THEN Len(s) - BufferMax ELSE 0
           gone == IF over > old THEN over ELSE old
<1>1. gone \in 0 .. Len(s)
  BY StreamsAssumption, SMT
<1>2. Prune(s, old) = SubSeq(s, gone + 1, Len(s))
  BY DEF Prune
<1> HIDE DEF gone
<1> QED BY <1>1, <1>2, RunsSuffix

-----------------------------------------------------------------------------
\* What one page holds: a wire that is complete and continues what it has, or
\* begins with a reset, as long as it listens.
ReaderOK(c) ==
    /\ c \in listening <=> link[c] = "open"
    /\ c \notin listening => wire[c] = <<>>
    /\ RunsUpTo(wire[c], nextId) \/ c \notin listening
    /\ c \in placed => lastEventId[c] \in 1 .. nextId - 1
    /\ c \in listening /\ c \in placed =>
        \/ lastEventId[c] = nextId - 1 - Len(wire[c])
        \/ /\ wire[c] # <<>> /\ lastEventId[c] < Head(wire[c])
           /\ log[Head(wire[c])] = "reset"

IInv ==
    /\ TypeOK
    /\ Len(log) = nextId - 1
    /\ RunsUpTo(buffer, nextId)
    /\ \A c \in Clients : ReaderOK(c)
    /\ announced = sampleFactor

LEMMA InitIInv == Init => IInv
<1> SUFFICES ASSUME Init PROVE IInv
  OBVIOUS
<1>1. <<>> \in Seq(Nat) /\ <<>> \in Seq(Kinds) /\ Len(<<>>) = 0
  OBVIOUS
<1>2. TypeOK
  BY <1>1, SMT DEF Init, TypeOK
<1>3. Len(log) = nextId - 1 /\ RunsUpTo(buffer, nextId)
  BY <1>1, RunsEmpty, SMT DEF Init
<1>4. ASSUME NEW c \in Clients PROVE ReaderOK(c)
  <2>1. c \notin listening /\ c \notin placed /\ wire[c] = <<>> /\ link[c] # "open"
    BY SMT DEF Init
  <2> QED BY <2>1 DEF ReaderOK
<1> QED BY <1>2, <1>3, <1>4 DEF IInv, Init

\* What push does to the stream and to a page that does or does not hear it.
LEMMA PushStream ==
  ASSUME IInv, NEW kinds \in Seq(Kinds), NEW to \in SUBSET Clients, Push(kinds, to)
  PROVE  /\ log' \in Seq(Kinds) /\ Len(log') = Len(log) + Len(kinds)
         /\ \A i \in 1 .. Len(log) : log'[i] = log[i]
         /\ \A i \in 1 .. Len(kinds) : log'[Len(log) + i] = kinds[i]
         /\ nextId' = nextId + Len(kinds) /\ nextId' \in Nat \ {0}
         /\ buffer' \in Seq(Nat) /\ RunsUpTo(buffer', nextId')
         /\ stale' \in 0 .. Len(buffer')
<1>1. log \in Seq(Kinds) /\ nextId \in Nat \ {0} /\ buffer \in Seq(Nat)
      /\ stale \in 0 .. Len(buffer) /\ RunsUpTo(buffer, nextId)
  BY DEF IInv, TypeOK
<1>2. log' = log \o kinds /\ nextId' = nextId + Len(kinds) /\ stale' = 0
      /\ buffer' = Prune(buffer \o NewIds(Len(kinds)), stale)
  BY DEF Push
<1>3. log' \in Seq(Kinds) /\ Len(log') = Len(log) + Len(kinds)
      /\ (\A i \in 1 .. Len(log) : log'[i] = log[i])
      /\ \A i \in 1 .. Len(kinds) : log'[Len(log) + i] = kinds[i]
  BY <1>1, <1>2, SMT
<1>4. Len(kinds) \in Nat
  OBVIOUS
<1>5. nextId' \in Nat \ {0}
  BY <1>1, <1>2, <1>4, SMT
<1> DEFINE t == buffer \o NewIds(Len(kinds))
<1>6. t \in Seq(Nat) /\ Len(t) = Len(buffer) + Len(kinds) /\ RunsUpTo(t, nextId')
  BY <1>1, <1>2, <1>4, RunsConcat
<1> HIDE DEF t
<1>7. stale \in 0 .. Len(t)
  BY <1>1, <1>4, <1>6, SMT
<1>8. Prune(t, stale) \in Seq(Nat) /\ RunsUpTo(Prune(t, stale), nextId')
  BY <1>5, <1>6, <1>7, PruneSuffix
<1>9. buffer' \in Seq(Nat) /\ RunsUpTo(buffer', nextId') /\ stale' \in 0 .. Len(buffer')
  BY <1>2, <1>8, SMT DEF t
<1> QED BY <1>2, <1>3, <1>5, <1>9

LEMMA PushHeard ==
  ASSUME IInv, NEW kinds \in Seq(Kinds), NEW to \in SUBSET Clients, Push(kinds, to),
         NEW c \in to, RunsUpTo(wire[c], nextId)
  PROVE  /\ wire'[c] \in Seq(Nat) /\ Len(wire'[c]) = Len(wire[c]) + Len(kinds)
         /\ RunsUpTo(wire'[c], nextId')
         /\ wire[c] # <<>> => wire'[c] # <<>> /\ Head(wire'[c]) = Head(wire[c])
<1>1. wire[c] \in Seq(Nat) /\ nextId \in Nat \ {0} /\ Len(kinds) \in Nat
  BY DEF IInv, TypeOK
<1>2. wire'[c] = wire[c] \o NewIds(Len(kinds)) /\ nextId' = nextId + Len(kinds)
  BY DEF Push
<1>3. NewIds(Len(kinds)) \in Seq(Nat) /\ wire'[c] \in Seq(Nat)
      /\ Len(wire'[c]) = Len(wire[c]) + Len(kinds) /\ RunsUpTo(wire'[c], nextId')
  BY <1>1, <1>2, RunsConcat
<1>4. wire[c] # <<>> => wire'[c] # <<>> /\ Head(wire'[c]) = Head(wire[c])
  BY <1>1, <1>2, <1>3, SMT
<1> QED BY <1>3, <1>4

\* A publication to all listeners preserves the invariant.
LEMMA PublishIInv ==
  ASSUME IInv, NEW kinds \in Seq(Kinds), Push(kinds, listening),
         UNCHANGED <<listening, link, lastEventId, placed, cuts>>,
         sampleFactor' \in Nat \ {0}, recent' \in Nat, announced' = sampleFactor'
  PROVE  IInv'
<1>1. /\ log' \in Seq(Kinds) /\ Len(log') = Len(log) + Len(kinds)
      /\ \A i \in 1 .. Len(log) : log'[i] = log[i]
      /\ nextId' = nextId + Len(kinds) /\ nextId' \in Nat \ {0}
      /\ buffer' \in Seq(Nat) /\ RunsUpTo(buffer', nextId')
      /\ stale' \in 0 .. Len(buffer')
  BY PushStream DEF IInv, TypeOK
<1>2. Len(kinds) \in Nat /\ Len(log) = nextId - 1 /\ nextId \in Nat \ {0}
      /\ wire \in [Clients -> Seq(Nat)] /\ listening \subseteq Clients
      /\ lastEventId \in [Clients -> Nat]
  BY DEF IInv, TypeOK
<1>3. ASSUME NEW c \in Clients, c \notin listening PROVE wire'[c] = wire[c]
  BY <1>3 DEF Push
<1>4. ASSUME NEW c \in listening
      PROVE  /\ wire'[c] \in Seq(Nat) /\ Len(wire'[c]) = Len(wire[c]) + Len(kinds)
             /\ RunsUpTo(wire'[c], nextId')
             /\ wire[c] # <<>> => wire'[c] # <<>> /\ Head(wire'[c]) = Head(wire[c])
  <2>1. RunsUpTo(wire[c], nextId)
    BY <1>2 DEF IInv, ReaderOK
  <2> QED BY <2>1, PushHeard DEF IInv, TypeOK
<1>5. wire' \in [Clients -> Seq(Nat)]
  <2>1. \A c \in Clients : wire'[c] \in Seq(Nat)
    BY <1>2, <1>3, <1>4
  <2>2. wire' = [c \in Clients |-> wire'[c]]
    BY DEF Push
  <2> QED BY <2>1, <2>2
<1>6. TypeOK'
  BY <1>1, <1>5 DEF TypeOK, IInv
<1>7. Len(log') = nextId' - 1
  BY <1>1, <1>2, SMT
<1>8. ASSUME NEW c \in Clients PROVE ReaderOK(c)'
  <2>1. ReaderOK(c)
    BY DEF IInv
  <2>2. /\ listening' = listening /\ link'[c] = link[c] /\ placed' = placed
        /\ lastEventId'[c] = lastEventId[c] /\ lastEventId[c] \in Nat
        /\ wire[c] \in Seq(Nat)
    BY <1>2
  <2>3. CASE c \notin listening
    <3>1. wire'[c] = wire[c]
      BY <2>3, <1>3
    <3>2. c \in placed => lastEventId[c] \in 1 .. nextId' - 1
      BY <2>1, <1>1, <1>2, SMTT(30) DEF ReaderOK
    <3> QED BY <2>1, <2>2, <2>3, <3>1, <3>2 DEF ReaderOK
  <2>4. CASE c \in listening
    <3>1. c \in placed => lastEventId[c] \in 1 .. nextId' - 1
      BY <2>1, <1>1, <1>2, SMTT(30) DEF ReaderOK
    <3>2. c \in placed =>
            \/ lastEventId[c] = nextId' - 1 - Len(wire'[c])
            \/ /\ wire'[c] # <<>> /\ lastEventId[c] < Head(wire'[c])
               /\ log'[Head(wire'[c])] = "reset"
      <4> SUFFICES ASSUME c \in placed
                   PROVE  \/ lastEventId[c] = nextId' - 1 - Len(wire'[c])
                          \/ /\ wire'[c] # <<>> /\ lastEventId[c] < Head(wire'[c])
                             /\ log'[Head(wire'[c])] = "reset"
        OBVIOUS
      <4>1. CASE lastEventId[c] = nextId - 1 - Len(wire[c])
        <5>1. Len(wire'[c]) = Len(wire[c]) + Len(kinds)
          BY <1>4, <2>4
        <5>2. Len(wire[c]) \in Nat
          BY <2>2
        <5>3. lastEventId[c] = nextId' - 1 - Len(wire'[c])
          BY <4>1, <1>1, <1>2, <5>1, <5>2, SMT
        <5> QED BY <5>3
      <4>2. CASE wire[c] # <<>> /\ lastEventId[c] < Head(wire[c]) /\ log[Head(wire[c])] = "reset"
        <5>1. Head(wire[c]) \in 1 .. Len(log)
          <6>1. RunsUpTo(wire[c], nextId)
            BY <2>1, <2>4 DEF ReaderOK
          <6> QED BY <6>1, <4>2, <2>2, <1>2, SMT DEF RunsUpTo
        <5> QED BY <5>1, <4>2, <1>1, <1>4, <2>4
      <4> QED BY <2>1, <2>4, <4>1, <4>2 DEF ReaderOK
    <3> QED BY <2>1, <2>2, <2>4, <1>4, <3>1, <3>2 DEF ReaderOK
  <2> QED BY <2>3, <2>4
<1> QED BY <1>1, <1>6, <1>7, <1>8 DEF IInv

LEMMA FrameIInv == ASSUME IInv, PublishFrame PROVE IInv'
<1> DEFINE seen   == recent + 1
           factor == DesiredFactor(seen)
           told   == IF factor # sampleFactor THEN <<"event">> ELSE <<>>
           frame  == IF seen % factor = 0 THEN <<"event">> ELSE <<>>
<1>1. recent' = seen /\ sampleFactor' = factor
      /\ announced' = (IF told = <<>> THEN announced ELSE factor)
      /\ UNCHANGED <<listening, link, lastEventId, placed, cuts>>
      /\ IF told \o frame = <<>> THEN UNCHANGED <<nextId, buffer, stale, log, wire>>
         ELSE Push(told \o frame, listening)
  BY DEF PublishFrame
<1>2. seen \in Nat \ {0}
  BY SMT DEF IInv, TypeOK
<1> HIDE DEF seen
<1>3. factor \in Nat \ {0}
  <2>1. CASE seen > Quota
    <3>1. seen + Quota - 1 \in Nat /\ Quota \in Nat \ {0} /\ seen + Quota - 1 >= Quota
      BY <1>2, <2>1, StreamsAssumption, SMT
    <3>2. \A a \in Nat, b \in Nat \ {0} : a >= b => a \div b \in Nat /\ a \div b >= 1
      BY SMT
    <3> QED BY <2>1, <3>1, <3>2, SMT DEF DesiredFactor
  <2>2. CASE ~(seen > Quota)
    BY <2>2, SMT DEF DesiredFactor
  <2> QED BY <2>1, <2>2
<1>4. told \in Seq(Kinds) /\ frame \in Seq(Kinds) /\ told \o frame \in Seq(Kinds)
      /\ (told = <<>> <=> factor = sampleFactor)
  <2>1. <<>> \in Seq(Kinds) /\ <<"event">> \in Seq(Kinds) /\ <<"event">> # <<>>
    BY SMT DEF Kinds
  <2>2. told \in Seq(Kinds) /\ frame \in Seq(Kinds) /\ (told = <<>> <=> factor = sampleFactor)
    BY <2>1
  <2> HIDE DEF told, frame
  <2> QED BY <2>2
<1>5. announced' = sampleFactor'
  BY <1>1, <1>4 DEF IInv
<1>6. CASE told \o frame # <<>>
  <2>1. Push(told \o frame, listening)
    BY <1>1, <1>6
  <2> HIDE DEF told, frame, factor
  <2> QED BY <2>1, <1>1, <1>2, <1>3, <1>4, <1>5, PublishIInv
<1>7. CASE told \o frame = <<>>
  <2>1. UNCHANGED <<nextId, buffer, stale, log, wire, listening, link, lastEventId,
                    placed, cuts>>
    BY <1>1, <1>7
  <2> HIDE DEF told, frame, factor
  <2>2. TypeOK'
    BY <2>1, <1>1, <1>2, <1>3, <1>5 DEF IInv, TypeOK
  <2>3. \A c \in Clients : ReaderOK(c)'
    BY <2>1 DEF IInv, ReaderOK
  <2> QED BY <2>1, <2>2, <2>3, <1>5 DEF IInv
<1> QED BY <1>6, <1>7

\* A step that leaves the stream alone, and touches one page.
LEMMA PageIInv ==
  ASSUME IInv, UNCHANGED stream, NEW c \in Clients,
         TypeOK', ReaderOK(c)',
         \A d \in Clients \ {c} :
            /\ d \in listening' <=> d \in listening
            /\ d \in placed' <=> d \in placed
            /\ link'[d] = link[d] /\ wire'[d] = wire[d]
            /\ lastEventId'[d] = lastEventId[d]
  PROVE  IInv'
<1>1. ASSUME NEW d \in Clients PROVE ReaderOK(d)'
  <2>1. CASE d # c
    <3>1. ReaderOK(d)
      BY DEF IInv
    <3> QED BY <2>1, <3>1 DEF ReaderOK, stream
  <2> QED BY <2>1
<1> QED BY <1>1 DEF IInv, stream

LEMMA ResumeIInv == ASSUME IInv, NEW c \in Clients, Resume(c) PROVE IInv'
<1>1. /\ link[c] = "connecting" /\ UNCHANGED <<stream, lastEventId, placed, cuts>>
      /\ link' = [link EXCEPT ![c] = "open"] /\ listening' = listening \cup {c}
  BY DEF Resume
<1>2. /\ link \in [Clients -> {"off", "connecting", "open", "waiting", "failed"}]
      /\ listening \subseteq Clients /\ wire \in [Clients -> Seq(Nat)]
      /\ buffer \in Seq(Nat) /\ nextId \in Nat \ {0} /\ RunsUpTo(buffer, nextId)
      /\ lastEventId \in [Clients -> Nat]
  BY DEF IInv, TypeOK
<1>3. c \notin listening /\ wire[c] = <<>> /\ (c \in placed => lastEventId[c] \in 1 .. nextId - 1)
  BY <1>1 DEF IInv, ReaderOK
<1> DEFINE Resumed == /\ wire' = [wire EXCEPT ![c] = wire'[c]] /\ wire'[c] \in Seq(Nat)
                      /\ RunsUpTo(wire'[c], nextId)
                      /\ c \in placed => lastEventId[c] = nextId - 1 - Len(wire'[c])
<1>4. Resumed
  <2>1. CASE lastEventId[c] = 0 /\ UNCHANGED wire
    <3>1. RunsUpTo(<<>>, nextId)
      BY <1>2, RunsEmpty
    <3>2. c \notin placed
      BY <2>1, <1>3, SMT
    <3> QED BY <2>1, <1>2, <1>3, <3>1, <3>2
  <2>2. ASSUME NEW i \in 1 .. Len(buffer), buffer[i] = lastEventId[c],
               wire' = [wire EXCEPT ![c] = SubSeq(buffer, i + 1, Len(buffer))]
        PROVE  Resumed
    <3>1. /\ SubSeq(buffer, i + 1, Len(buffer)) \in Seq(Nat)
          /\ Len(SubSeq(buffer, i + 1, Len(buffer))) = Len(buffer) - i
          /\ RunsUpTo(SubSeq(buffer, i + 1, Len(buffer)), nextId)
      BY <1>2, RunsSuffix, SMT
    <3>2. wire'[c] = SubSeq(buffer, i + 1, Len(buffer))
      BY <2>2, <1>2
    <3>3. lastEventId[c] = nextId - 1 - Len(buffer) + i
      BY <2>2, <1>2, SMT DEF RunsUpTo
    <3>4. Len(buffer) \in Nat
      BY <1>2
    <3>5. lastEventId[c] = nextId - 1 - Len(wire'[c])
      <4>1. Len(wire'[c]) = Len(buffer) - i
        BY <3>1, <3>2
      <4> QED BY <4>1, <3>3, <3>4, <1>2, SMT
    <3> QED BY <3>1, <3>2, <3>5, <2>2, <1>2
  <2> QED BY <2>1, <2>2 DEF Resume
<1>5. link'[c] = "open" /\ c \in listening'
  BY <1>1, <1>2
<1>6. TypeOK'
  <2>1. wire' \in [Clients -> Seq(Nat)]
    BY <1>2, <1>4
  <2>2. link' \in [Clients -> {"off", "connecting", "open", "waiting", "failed"}]
        /\ listening' \subseteq Clients
    BY <1>1, <1>2
  <2> QED BY <2>1, <2>2, <1>1 DEF IInv, TypeOK, stream
<1>7. ReaderOK(c)'
  BY <1>1, <1>3, <1>4, <1>5 DEF ReaderOK, stream
<1>8. \A d \in Clients \ {c} :
        /\ d \in listening' <=> d \in listening
        /\ d \in placed' <=> d \in placed
        /\ link'[d] = link[d] /\ wire'[d] = wire[d]
        /\ lastEventId'[d] = lastEventId[d]
  BY <1>1, <1>2, <1>4
<1> QED BY <1>1, <1>6, <1>7, <1>8, PageIInv

LEMMA ResetIInv == ASSUME IInv, NEW c \in Clients, Reset(c) PROVE IInv'
<1> DEFINE to == listening \cup {c}
<1>1. /\ link[c] = "connecting" /\ UNCHANGED <<lastEventId, placed, cuts>>
      /\ UNCHANGED <<sampleFactor, recent, announced>>
      /\ link' = [link EXCEPT ![c] = "open"] /\ listening' = to
      /\ Push(<<"reset">>, to)
  BY DEF Reset, Lost
<1>2. /\ link \in [Clients -> {"off", "connecting", "open", "waiting", "failed"}]
      /\ listening \subseteq Clients /\ wire \in [Clients -> Seq(Nat)]
      /\ nextId \in Nat \ {0} /\ lastEventId \in [Clients -> Nat]
      /\ Len(log) = nextId - 1 /\ to \in SUBSET Clients
  BY DEF IInv, TypeOK
<1>3. c \notin listening /\ wire[c] = <<>> /\ (c \in placed => lastEventId[c] \in 1 .. nextId - 1)
  BY <1>1 DEF IInv, ReaderOK
<1>4. <<"reset">> \in Seq(Kinds) /\ Len(<<"reset">>) = 1 /\ <<"reset">>[1] = "reset"
  BY SMT DEF Kinds
<1>5. /\ log' \in Seq(Kinds) /\ Len(log') = Len(log) + 1
      /\ \A i \in 1 .. Len(log) : log'[i] = log[i]
      /\ log'[Len(log) + 1] = "reset"
      /\ nextId' = nextId + 1 /\ nextId' \in Nat \ {0}
      /\ buffer' \in Seq(Nat) /\ RunsUpTo(buffer', nextId')
      /\ stale' \in 0 .. Len(buffer')
  <2>1. 1 \in 1 .. 1
    BY SMT
  <2> QED BY <1>1, <1>2, <1>4, <2>1, PushStream
<1>6. ASSUME NEW d \in to
      PROVE  /\ RunsUpTo(wire[d], nextId)
             /\ wire'[d] \in Seq(Nat) /\ Len(wire'[d]) = Len(wire[d]) + 1
             /\ RunsUpTo(wire'[d], nextId')
             /\ wire[d] # <<>> => wire'[d] # <<>> /\ Head(wire'[d]) = Head(wire[d])
  <2>1. RunsUpTo(wire[d], nextId)
    <3>1. CASE d = c
      BY <3>1, <1>2, <1>3, RunsEmpty
    <3>2. CASE d \in listening
      BY <3>2, <1>2 DEF IInv, ReaderOK
    <3> QED BY <3>1, <3>2
  <2> QED BY <2>1, <1>1, <1>2, <1>4, PushHeard
<1>7. ASSUME NEW d \in Clients, d \notin to PROVE wire'[d] = wire[d]
  BY <1>1, <1>7 DEF Push
<1>8. TypeOK'
  <2>1. \A d \in Clients : wire'[d] \in Seq(Nat)
    BY <1>2, <1>6, <1>7
  <2>2. wire' = [d \in Clients |-> wire'[d]]
    BY <1>1 DEF Push
  <2>3. wire' \in [Clients -> Seq(Nat)]
    BY <2>1, <2>2
  <2>4. link' \in [Clients -> {"off", "connecting", "open", "waiting", "failed"}]
        /\ listening' \subseteq Clients
    BY <1>1, <1>2
  <2> QED BY <2>3, <2>4, <1>1, <1>5 DEF IInv, TypeOK
<1>9. ASSUME NEW d \in Clients, d # c PROVE ReaderOK(d)'
  <2>1. ReaderOK(d) /\ (d \in to <=> d \in listening)
    BY <1>9 DEF IInv
  <2>2. link'[d] = link[d] /\ lastEventId'[d] = lastEventId[d] /\ placed' = placed
        /\ lastEventId[d] \in Nat /\ wire[d] \in Seq(Nat) /\ Len(wire[d]) \in Nat
    BY <1>1, <1>2, <1>9
  <2>3. d \in placed => lastEventId[d] \in 1 .. nextId' - 1
    BY <2>1, <1>5, <1>2, SMT DEF ReaderOK
  <2>4. CASE d \notin listening
    BY <2>1, <2>2, <2>3, <2>4, <1>1, <1>7 DEF ReaderOK
  <2>5. CASE d \in listening
    <3>1. /\ Len(wire'[d]) = Len(wire[d]) + 1 /\ RunsUpTo(wire'[d], nextId')
          /\ wire[d] # <<>> => wire'[d] # <<>> /\ Head(wire'[d]) = Head(wire[d])
          /\ RunsUpTo(wire[d], nextId)
      BY <2>1, <2>5, <1>6
    <3>2. CASE lastEventId[d] = nextId - 1 - Len(wire[d])
      <4>1. lastEventId[d] = nextId' - 1 - Len(wire'[d])
        BY <3>1, <3>2, <1>2, <1>5, <2>2, SMT
      <4> QED BY <4>1, <2>1, <2>2, <2>3, <2>5, <3>1, <1>1 DEF ReaderOK
    <3>3. CASE wire[d] # <<>> /\ lastEventId[d] < Head(wire[d]) /\ log[Head(wire[d])] = "reset"
      <4>1. Head(wire[d]) \in 1 .. Len(log)
        <5>1. Head(wire[d]) \in 1 .. nextId - 1
          BY <3>1, <3>3, <2>2, <1>2, RunsHead
        <5> QED BY <5>1, <1>2
      <4>2. wire'[d] # <<>> /\ lastEventId[d] < Head(wire'[d]) /\ log'[Head(wire'[d])] = "reset"
        BY <4>1, <3>1, <3>3, <1>5
      <4> QED BY <4>2, <2>1, <2>2, <2>3, <2>5, <3>1, <1>1 DEF ReaderOK
    <3>4. CASE d \notin placed
      BY <3>4, <2>1, <2>2, <2>5, <3>1, <1>1 DEF ReaderOK
    <3> QED BY <3>2, <3>3, <3>4, <2>1, <2>5 DEF ReaderOK
  <2> QED BY <2>4, <2>5
<1>10. ReaderOK(c)'
  <2>1. link'[c] = "open" /\ c \in listening' /\ lastEventId'[c] = lastEventId[c]
        /\ placed' = placed /\ lastEventId[c] \in Nat
    BY <1>1, <1>2
  <2>2. wire'[c] \in Seq(Nat) /\ Len(wire'[c]) = 1 /\ RunsUpTo(wire'[c], nextId')
    <3>1. Len(wire[c]) = 0 /\ 0 + 1 = 1
      BY <1>3
    <3>2. c \in to /\ Len(wire'[c]) = Len(wire[c]) + 1
      BY <1>6
    <3> QED BY <3>1, <3>2, <1>6
  <2>3. wire'[c] # <<>> /\ Head(wire'[c]) = nextId
    BY <2>2, <1>2, <1>5, SMT DEF RunsUpTo
  <2>4. c \in placed => lastEventId[c] \in 1 .. nextId' - 1 /\ lastEventId[c] < Head(wire'[c])
    BY <2>3, <1>2, <1>3, <1>5, SMT
  <2>5. log'[Head(wire'[c])] = "reset"
    <3>1. Len(log) + 1 = nextId
      BY <1>2, SMT
    <3> QED BY <3>1, <2>3, <1>5
  <2> QED BY <2>1, <2>2, <2>3, <2>4, <2>5 DEF ReaderOK
<1>11. Len(log') = nextId' - 1
  BY <1>2, <1>5, SMT
<1> QED BY <1>1, <1>5, <1>8, <1>9, <1>10, <1>11 DEF IInv

LEMMA ReceiveIInv == ASSUME IInv, NEW c \in Clients, Receive(c) PROVE IInv'
<1>1. /\ link[c] = "open" /\ wire[c] # <<>> /\ UNCHANGED <<stream, listening, link, cuts>>
      /\ lastEventId' = [lastEventId EXCEPT ![c] = Head(wire[c])]
      /\ wire' = [wire EXCEPT ![c] = Tail(wire[c])]
      /\ placed' = placed \cup {c}
  BY DEF Receive
<1>2. wire \in [Clients -> Seq(Nat)] /\ lastEventId \in [Clients -> Nat]
      /\ nextId \in Nat \ {0} /\ placed \subseteq Clients
  BY DEF IInv, TypeOK
<1>3. c \in listening /\ RunsUpTo(wire[c], nextId)
  BY <1>1 DEF IInv, ReaderOK
<1>4. /\ wire'[c] = Tail(wire[c]) /\ lastEventId'[c] = Head(wire[c])
      /\ c \in placed' /\ c \in listening' /\ link'[c] = "open" /\ nextId' = nextId
  BY <1>1, <1>2, <1>3 DEF stream
<1>5. /\ Tail(wire[c]) \in Seq(Nat) /\ Len(wire[c]) \in Nat \ {0}
      /\ Len(Tail(wire[c])) = Len(wire[c]) - 1
      /\ \A i \in 1 .. Len(wire[c]) - 1 : Tail(wire[c])[i] = wire[c][i + 1]
  BY <1>1, <1>2, SMT
<1>6. Head(wire[c]) = nextId - Len(wire[c]) /\ Len(wire[c]) < nextId
  BY <1>1, <1>2, <1>3, <1>5, SMT DEF RunsUpTo
<1>7. RunsUpTo(wire'[c], nextId')
  <2>1. \A i \in 1 .. Len(wire[c]) - 1 :
            Tail(wire[c])[i] = nextId - 1 - (Len(wire[c]) - 1) + i
    BY <1>2, <1>3, <1>5, SMT DEF RunsUpTo
  <2>2. Len(wire[c]) - 1 < nextId
    BY <1>5, <1>6, <1>2, SMT
  <2> QED BY <2>1, <2>2, <1>4, <1>5 DEF RunsUpTo
<1>8. lastEventId'[c] \in 1 .. nextId' - 1 /\ lastEventId'[c] = nextId' - 1 - Len(wire'[c])
  BY <1>2, <1>4, <1>5, <1>6, SMT
<1>9. ReaderOK(c)'
  BY <1>4, <1>7, <1>8 DEF ReaderOK
<1>10. TypeOK'
  <2>1. lastEventId' \in [Clients -> Nat] /\ wire' \in [Clients -> Seq(Nat)]
    <3>1. Head(wire[c]) \in Nat
      BY <1>2, <1>5, <1>6, SMT
    <3> QED BY <3>1, <1>1, <1>2, <1>5
  <2> QED BY <2>1, <1>1 DEF IInv, TypeOK, stream
<1>11. \A d \in Clients \ {c} :
        /\ d \in listening' <=> d \in listening
        /\ d \in placed' <=> d \in placed
        /\ link'[d] = link[d] /\ wire'[d] = wire[d]
        /\ lastEventId'[d] = lastEventId[d]
  BY <1>1, <1>2
<1> QED BY <1>1, <1>9, <1>10, <1>11, PageIInv

\* Refuse, Open, Retry, Close and Cut: the page does not listen afterwards.
LEMMA QuietIInv ==
  ASSUME IInv, NEW c \in Clients, Refuse(c) \/ Open(c) \/ Retry(c) \/ Close(c) \/ Cut(c)
  PROVE  IInv'
<1>1. /\ link \in [Clients -> {"off", "connecting", "open", "waiting", "failed"}]
      /\ wire \in [Clients -> Seq(Nat)] /\ lastEventId \in [Clients -> Nat]
      /\ listening \subseteq Clients /\ placed \subseteq Clients /\ cuts \in Nat
  BY DEF IInv, TypeOK
<1>2. ReaderOK(c)
  BY DEF IInv
<1>3. UNCHANGED stream
  BY DEF Refuse, Open, Retry, Close, Cut
<1>4. \E l \in {"off", "connecting", "waiting", "failed"} : link' = [link EXCEPT ![c] = l]
  BY DEF Refuse, Open, Retry, Close, Cut
<1>5. /\ listening' = listening \ {c} /\ wire' = [wire EXCEPT ![c] = <<>>]
      /\ placed' \in {placed, placed \ {c}} /\ cuts' \in {cuts, cuts + 1}
      /\ \/ lastEventId' = lastEventId
         \/ lastEventId' = [lastEventId EXCEPT ![c] = 0] /\ placed' = placed \ {c}
  <2>1. CASE Refuse(c) \/ Open(c) \/ Retry(c)
    <3>1. c \notin listening /\ wire[c] = <<>>
      BY <2>1, <1>2 DEF ReaderOK, Refuse, Open, Retry
    <3> QED BY <2>1, <3>1, <1>1 DEF Refuse, Open, Retry
  <2>2. CASE Close(c)
    BY <2>2 DEF Close
  <2>3. CASE Cut(c)
    BY <2>3 DEF Cut
  <2> QED BY <2>1, <2>2, <2>3
<1>6. /\ link'[c] # "open" /\ c \notin listening' /\ wire'[c] = <<>>
      /\ c \in placed' => c \in placed /\ lastEventId'[c] = lastEventId[c]
  BY <1>1, <1>4, <1>5
<1>7. ReaderOK(c)'
  BY <1>2, <1>3, <1>6 DEF ReaderOK, stream
<1>8. TypeOK'
  <2>1. <<>> \in Seq(Nat) /\ 0 \in Nat /\ cuts' \in Nat
    BY <1>1, <1>5
  <2>2. /\ link' \in [Clients -> {"off", "connecting", "open", "waiting", "failed"}]
        /\ wire' \in [Clients -> Seq(Nat)] /\ lastEventId' \in [Clients -> Nat]
        /\ listening' \subseteq Clients /\ placed' \subseteq Clients
    BY <2>1, <1>1, <1>4, <1>5
  <2> QED BY <2>1, <2>2, <1>3 DEF IInv, TypeOK, stream
<1>9. \A d \in Clients \ {c} :
        /\ d \in listening' <=> d \in listening
        /\ d \in placed' <=> d \in placed
        /\ link'[d] = link[d] /\ wire'[d] = wire[d]
        /\ lastEventId'[d] = lastEventId[d]
  BY <1>1, <1>4, <1>5
<1> QED BY <1>3, <1>7, <1>8, <1>9, PageIInv

LEMMA RestartIInv == ASSUME IInv, Restart PROVE IInv'
<1>1. /\ nextId' = 1 /\ buffer' = <<>> /\ stale' = 0 /\ sampleFactor' = 1 /\ recent' = 0
      /\ log' = <<>> /\ announced' = 1 /\ listening' = {} /\ placed' = {}
      /\ wire' = [c \in Clients |-> <<>>] /\ lastEventId' = lastEventId /\ cuts' = cuts + 1
      /\ link' = [c \in Clients |->
                    IF link[c] \in {"connecting", "open"} THEN "waiting" ELSE link[c]]
  BY DEF Restart
<1>2. /\ link \in [Clients -> {"off", "connecting", "open", "waiting", "failed"}]
      /\ lastEventId \in [Clients -> Nat] /\ cuts \in Nat
  BY DEF IInv, TypeOK
<1>3. <<>> \in Seq(Nat) /\ <<>> \in Seq(Kinds) /\ Len(<<>>) = 0
  OBVIOUS
<1>4. link' \in [Clients -> {"off", "connecting", "open", "waiting", "failed"}]
      /\ wire' \in [Clients -> Seq(Nat)] /\ cuts' \in Nat
  BY <1>1, <1>2, <1>3
<1>5. TypeOK'
  BY <1>1, <1>2, <1>3, <1>4, SMT DEF TypeOK
<1>6. Len(log') = nextId' - 1 /\ RunsUpTo(buffer', nextId')
  BY <1>1, <1>3, RunsEmpty, SMT
<1>7. ASSUME NEW c \in Clients PROVE ReaderOK(c)'
  <2>1. c \notin listening' /\ c \notin placed' /\ wire'[c] = <<>> /\ link'[c] # "open"
    BY <1>1, <1>2
  <2> QED BY <2>1 DEF ReaderOK
<1> QED BY <1>1, <1>5, <1>6, <1>7 DEF IInv

LEMMA TimeIInv == ASSUME IInv, Expire \/ Age PROVE IInv'
<1>1. /\ UNCHANGED <<nextId, buffer, sampleFactor, log, announced, listening, link,
                     lastEventId, wire, placed, cuts>>
      /\ recent' \in Nat /\ stale' \in 0 .. Len(buffer)
  BY SMT DEF Expire, Age, IInv, TypeOK
<1>2. TypeOK'
  BY <1>1 DEF IInv, TypeOK
<1>3. \A c \in Clients : ReaderOK(c)'
  BY <1>1 DEF IInv, ReaderOK
<1> QED BY <1>1, <1>2, <1>3 DEF IInv

LEMMA NextIInv == IInv /\ [Next]_vars => IInv'
<1> SUFFICES ASSUME IInv, [Next]_vars PROVE IInv'
  OBVIOUS
<1>1. CASE PublishOther
  <2>1. <<"event">> \in Seq(Kinds)
    BY SMT DEF Kinds
  <2>2. sampleFactor' \in Nat \ {0} /\ recent' \in Nat /\ announced' = sampleFactor'
    BY <1>1 DEF PublishOther, IInv, TypeOK
  <2> QED BY <1>1, <2>1, <2>2, PublishIInv DEF PublishOther
<1>2. CASE PublishFrame
  BY <1>2, FrameIInv
<1>3. CASE Expire \/ Age
  BY <1>3, TimeIInv
<1>4. ASSUME NEW c \in Clients, ClientStep(c) PROVE IInv'
  BY <1>4, ResumeIInv, ResetIInv, ReceiveIInv, QuietIInv DEF ClientStep
<1>5. CASE Restart
  BY <1>5, RestartIInv
<1>6. CASE UNCHANGED vars
  <2>1. TypeOK'
    BY <1>6 DEF vars, stream, IInv, TypeOK
  <2>2. \A c \in Clients : ReaderOK(c)'
    BY <1>6 DEF vars, stream, IInv, ReaderOK
  <2> QED BY <1>6, <2>1, <2>2 DEF vars, stream, IInv
<1> QED BY <1>1, <1>2, <1>3, <1>4, <1>5, <1>6 DEF Next

\* The inductive invariant holds in every behaviour.
THEOREM Inductive == Spec => []IInv
<1> QED BY InitIInv, NextIInv, PTL DEF Spec

\* services/streams.ts and hooks/useSse.ts: every variable keeps its type, replayed
\* and live events join without a gap, and the factor in use was announced.
THEOREM StreamIsSound == Spec => []StreamsInvariant
<1>1. IInv => TypeOK /\ SamplingTold
  BY DEF IInv, SamplingTold
<1>2. IInv => WireComplete
  BY DEF IInv, TypeOK, WireComplete, ReaderOK, RunsUpTo
<1>3. IInv => StreamsInvariant
  BY <1>1, <1>2 DEF StreamsInvariant
<1> QED BY <1>3, Inductive, PTL

\* services/streams.ts, publish: no frame is dropped below the threshold.
THEOREM LoadedDrops == Spec => DropsOnlyUnderLoad
<1>1. ASSUME IInv, [Next]_vars, recent' = recent + 1, log' = log PROVE recent' > Quota
  <2>1. recent \in Nat /\ log \in Seq(Kinds) /\ Quota \in Nat \ {0}
    BY <1>1, StreamsAssumption DEF IInv, TypeOK
  <2>2. PublishFrame
    <3>1. ~PublishOther /\ ~Expire /\ ~Age /\ ~UNCHANGED vars
      BY <1>1, <2>1, SMT DEF PublishOther, Expire, Age, vars, stream
    <3>2. ASSUME NEW c \in Clients, ClientStep(c) PROVE FALSE
      <4>1. recent' = recent
        BY <3>2 DEF ClientStep, Resume, Reset, Lost, Refuse, Open, Close, Receive, Cut, Retry, stream
      <4> QED BY <4>1, <1>1, <2>1, SMT
    <3>3. ~Restart
      BY <1>1, <2>1, SMT DEF Restart
    <3> QED BY <1>1, <3>1, <3>2, <3>3 DEF Next
  <2>3. SUFFICES ASSUME ~(recent + 1 > Quota) PROVE FALSE
    BY <1>1
  <2>4. DesiredFactor(recent + 1) = 1 /\ (recent + 1) % 1 = 0
    BY <2>1, <2>3, SMT DEF DesiredFactor
  <2>5. \E told \in {<<"event">>, <<>>} : Push(told \o <<"event">>, listening)
    <3>1. <<"event">> \o <<"event">> # <<>> /\ <<>> \o <<"event">> # <<>>
      BY SMT
    <3> QED BY <2>2, <2>4, <3>1 DEF PublishFrame
  <2>6. PICK told \in {<<"event">>, <<>>} : Push(told \o <<"event">>, listening)
    BY <2>5
  <2>7. log' = log \o (told \o <<"event">>)
    BY <2>6 DEF Push
  <2>8. "event" \in Kinds
    BY DEF Kinds
  <2>9. told \o <<"event">> \in Seq(Kinds) /\ Len(told \o <<"event">>) > 0
    <3>1. <<"event">> \in Seq(Kinds) /\ <<>> \in Seq(Kinds)
      BY <2>8, SMT
    <3>2. Len(<<"event">>) = 1
      BY SMT
    <3> QED BY <3>1, <3>2, <2>6, ConcatIsSeq, AppendGrows
  <2>10. Len(log') > Len(log)
    BY <2>1, <2>7, <2>9, SMT
  <2> QED BY <2>1, <2>10, <1>1, SMT
<1>2. IInv /\ [Next]_vars => (recent' = recent + 1 /\ log' = log => recent' > Quota)
  BY <1>1
<1> QED BY <1>2, Inductive, PTL DEF Spec, DropsOnlyUnderLoad

-----------------------------------------------------------------------------
(* The stream implements ResumableLog *)

\* The mapping of ResumableSpec.
Pos == [c \in Clients |-> IF c \in placed THEN lastEventId[c] ELSE 0]

LEMMA PushPublishes ==
  ASSUME IInv, NEW kinds \in Seq(Kinds), kinds # <<>>, NEW to \in SUBSET Clients,
         Push(kinds, to), UNCHANGED <<placed, lastEventId>>
  PROVE  Abstract!Publish
<1>1. /\ log' \in Seq(Kinds) /\ Len(log') = Len(log) + Len(kinds)
      /\ \A i \in 1 .. Len(log) : log'[i] = log[i]
  BY PushStream
<1>2. log \in Seq(Kinds) /\ Len(log) \in Nat /\ Len(kinds) \in Nat \ {0}
  BY DEF IInv, TypeOK
<1>3. Len(log') > Len(log)
  BY <1>1, <1>2, SMT
<1> QED BY <1>1, <1>3 DEF Abstract!Publish

LEMMA ReceiveReads ==
  ASSUME IInv, NEW c \in Clients, Receive(c)
  PROVE  Abstract!Start(c) \/ Abstract!Read(c) \/ Abstract!Jump(c)
<1>1. /\ link[c] = "open" /\ wire[c] # <<>> /\ log' = log /\ nextId' = nextId
      /\ lastEventId' = [lastEventId EXCEPT ![c] = Head(wire[c])]
      /\ placed' = placed \cup {c}
  BY DEF Receive, stream
<1>2. wire \in [Clients -> Seq(Nat)] /\ lastEventId \in [Clients -> Nat]
      /\ nextId \in Nat \ {0} /\ placed \subseteq Clients /\ Len(log) = nextId - 1
  BY DEF IInv, TypeOK
<1>3. ReaderOK(c) /\ c \in listening /\ RunsUpTo(wire[c], nextId)
  BY <1>1 DEF IInv, ReaderOK
<1> DEFINE h == Head(wire[c])
<1>4. h \in 1 .. Len(log) /\ h = nextId - Len(wire[c]) /\ Len(wire[c]) \in Nat
  BY <1>1, <1>2, <1>3, RunsHead
<1> HIDE DEF h
<1>5. Pos' = [Pos EXCEPT ![c] = h]
  BY <1>1, <1>2 DEF Pos, h
<1>6. CASE c \notin placed
  <2>1. Pos[c] = 0
    BY <1>6 DEF Pos
  <2> QED BY <2>1, <1>1, <1>4, <1>5 DEF Abstract!Start, Pos
<1>7. CASE c \in placed /\ lastEventId[c] = nextId - 1 - Len(wire[c])
  <2>1. Pos[c] = lastEventId[c] /\ lastEventId[c] \in 1 .. nextId - 1
    BY <1>3, <1>7 DEF Pos, ReaderOK
  <2>2. Pos[c] \in 1 .. Len(log) - 1 /\ h = Pos[c] + 1
    <3>1. Len(wire[c]) > 0
      BY <1>1, <1>2
    <3> QED BY <2>1, <3>1, <1>2, <1>4, <1>7, SMT
  <2> QED BY <2>2, <1>1, <1>5 DEF Abstract!Read, Pos
<1>8. CASE c \in placed /\ lastEventId[c] < h /\ log[h] = "reset"
  <2>1. Pos[c] = lastEventId[c] /\ lastEventId[c] \in 1 .. nextId - 1
    BY <1>3, <1>8 DEF Pos, ReaderOK
  <2>2. Pos[c] # 0 /\ h \in Pos[c] + 1 .. Len(log)
    BY <2>1, <1>2, <1>4, <1>8, SMT
  <2> QED BY <2>2, <1>1, <1>5, <1>8 DEF Abstract!Jump, Pos
<1> QED BY <1>3, <1>6, <1>7, <1>8 DEF ReaderOK, h

\* services/streams.ts, with routes/streams.ts and hooks/useSse.ts: no page
\* misses an event, or gets one twice, unless a reset tells it so.
THEOREM Implements == Spec => ResumableSpec
<1>1. Init => Abstract!Init
  <2> SUFFICES ASSUME Init PROVE Abstract!Init
    OBVIOUS
  <2>1. log = <<>> /\ placed = {}
    BY DEF Init
  <2> QED BY <2>1 DEF Abstract!Init
<1>2. IInv /\ [Next]_vars => [Abstract!Next]_(Abstract!vars)
  <2> SUFFICES ASSUME IInv, [Next]_vars
               PROVE  Abstract!Next \/ (log' = log /\ Pos' = Pos)
    BY DEF Abstract!vars, Pos
  <2>1. CASE PublishOther
    <3>1. <<"event">> \in Seq(Kinds) /\ <<"event">> # <<>> /\ listening \subseteq Clients
      BY SMT DEF Kinds, IInv, TypeOK
    <3>2. Abstract!Publish
      BY <2>1, <3>1, PushPublishes DEF PublishOther
    <3> QED BY <3>2 DEF Abstract!Next
  <2>2. CASE PublishFrame
    <3>1. /\ UNCHANGED <<placed, lastEventId>> /\ listening \subseteq Clients
          /\ \/ log' = log
             \/ \E told, frame \in {<<>>, <<"event">>} :
                    told \o frame # <<>> /\ Push(told \o frame, listening)
      BY <2>2 DEF PublishFrame, IInv, TypeOK
    <3>2. CASE log' = log
      BY <3>1, <3>2 DEF Pos
    <3>3. ASSUME NEW told \in {<<>>, <<"event">>}, NEW frame \in {<<>>, <<"event">>},
                 told \o frame # <<>>, Push(told \o frame, listening)
          PROVE  Abstract!Publish
      <4>1. told \in Seq(Kinds) /\ frame \in Seq(Kinds)
        <5>1. <<>> \in Seq(Kinds) /\ <<"event">> \in Seq(Kinds)
          BY SMT DEF Kinds
        <5> QED BY <5>1, <3>3
      <4>2. told \o frame \in Seq(Kinds)
        BY <4>1, ConcatIsSeq
      <4> QED BY <3>1, <3>3, <4>2, PushPublishes
    <3> QED BY <3>1, <3>2, <3>3 DEF Abstract!Next
  <2>3. CASE Expire \/ Age \/ UNCHANGED vars
    BY <2>3 DEF Expire, Age, vars, stream, Pos
  <2>4. ASSUME NEW c \in Clients, ClientStep(c)
        PROVE  Abstract!Next \/ (log' = log /\ Pos' = Pos)
    <3>1. CASE Reset(c)
      <4>1. <<"reset">> \in Seq(Kinds) /\ <<"reset">> # <<>> /\ listening \cup {c} \in SUBSET Clients
        BY SMT DEF Kinds, IInv, TypeOK
      <4>2. Abstract!Publish
        BY <3>1, <4>1, PushPublishes DEF Reset, Lost
      <4> QED BY <4>2 DEF Abstract!Next
    <3>2. CASE Receive(c)
      BY <3>2, ReceiveReads DEF Abstract!Next
    <3>3. CASE Resume(c) \/ Refuse(c) \/ Open(c) \/ Retry(c) \/ Cut(c)
      BY <3>3 DEF Resume, Refuse, Open, Retry, Cut, stream, Pos
    <3>4. CASE Close(c)
      <4>1. /\ log' = log /\ placed' = placed \ {c}
            /\ lastEventId' = [lastEventId EXCEPT ![c] = 0]
        BY <3>4 DEF Close, stream
      <4>2. Pos' = [Pos EXCEPT ![c] = 0]
        BY <4>1 DEF Pos, IInv, TypeOK
      <4>3. Abstract!Leave(c)
        BY <4>1, <4>2 DEF Abstract!Leave, Pos
      <4> QED BY <4>3 DEF Abstract!Next
    <3> QED BY <2>4, <3>1, <3>2, <3>3, <3>4 DEF ClientStep
  <2>5. CASE Restart
    <3>1. log' = <<>> /\ Pos' = [c \in Clients |-> 0]
      BY <2>5 DEF Restart, Pos
    <3> QED BY <3>1 DEF Abstract!Next, Abstract!Restart, Pos
  <2> QED BY <2>1, <2>2, <2>3, <2>4, <2>5 DEF Next
<1> QED BY <1>1, <1>2, Inductive, PTL DEF Spec, ResumableSpec, Abstract!Spec
=============================================================================
