------------------------------- MODULE Codecs -------------------------------
(***************************************************************************)
(* One job of each kind on its way through the programs: a CAN frame that  *)
(* a user sends to a dongle's bus, a CAN frame that crosses from one bus   *)
(* to another, a CAN configuration, a command and the two requests of a    *)
(* pairing with the dongle's answer, and an announcement.  Each step is    *)
(* what one program does with it; every datagram may reach the agent       *)
(* shorter than the programs here write it, as from another firmware.      *)
(***************************************************************************)
EXTENDS Remp, Announce, FiniteSets

CONSTANTS
  Ids,        \* numbers a user may give as a CAN id
  IdTexts,    \* texts a user may give as one
  Texts,      \* texts a user may give as the data of a frame
  Payloads,   \* the data of frames on a bus
  Configs,    \* the configurations a user may ask for
  Commands,   \* the bytes of commands
  Pins,       \* the bytes of a PIN, as they reach the agent,
  Nonces,     \* of a pairing's nonce, and
  Tokens,     \* of a dongle's token
  Seconds,    \* seconds that a dongle's answer may name
  Announced,  \* the fields of announcements
  Sources,    \* addresses from which datagrams come
  Cuts,       \* numbers of bytes a datagram may lack
  Device, Token, Corr  \* the bytes of a device id, a token, a correlation id

VARIABLES
  job,      \* what was asked, or what happened on the bus or in the dongle
  stage,    \* which program has it
  control,  \* the message between the API and the agent
  datagram, \* the one under way to or from a dongle
  cut,      \* how much of the datagram was lost
  shown,    \* the event published for the browser
  said,     \* what the dongle has understood and answered
  reply     \* what the agent has made of the answer

jobVars == <<job, stage, control, datagram, cut, shown, said, reply>>

Nothing == [ok |-> FALSE, none |-> TRUE]

CanModes == <<"normal", "listen_only", "loopback", "ext_loop">>

\* A bit rate that the row of a configuration can hold, and what UDP can carry.
MaxBitrate == 2147483647
MaxDatagram == 65507

(***************************************************************************)
(* Texts are of digits, as described below, frames have at most 8 bytes,   *)
(* and a device id, a token and a correlation id have the size that the    *)
(* protocol gives them.  A configuration has numbers of any size, but for  *)
(* the bit rate, commands and PINs are any bytes.  No number of an         *)
(* announcement is longer than its type, and no datagram comes from the    *)
(* agent's own machine.                                                    *)
(***************************************************************************)
FramesAssumption ==
  /\ Ids \subseteq Int
  /\ \A t \in IdTexts \cup Texts : t \in Seq(0..16)
  /\ \A d \in Payloads : d \in Seq(Byte) /\ Len(d) <= 8
  /\ Cuts \subseteq Nat
  /\ Device \in Seq(Byte) /\ Len(Device) = 8
  /\ Token \in Seq(Byte) /\ Len(Token) <= MaxTokenLen

RequestsAssumption ==
  /\ \A c \in Configs :
       c \in [bitrate : 0..MaxBitrate, samplePoint : Int, prescaler : Int,
              sjw : Int, tseg1 : Int, tseg2 : Int,
              mode : {CanModes[i] : i \in 1..4}, useRaw : BOOLEAN,
              autoRetx : BOOLEAN, txPause : BOOLEAN, protocolExc : BOOLEAN]
  /\ \A d \in Commands \cup Pins \cup Nonces \cup Tokens : d \in Seq(Byte)
  /\ Seconds \subseteq Word
  /\ Corr \in Seq(Byte) /\ Len(Corr) = 16

AnnouncedAssumption ==
  /\ \A a \in Announced :
       /\ DOMAIN a = Fields
       /\ \A f \in Fields : /\ a[f] \in Seq(Byte) /\ Len(a[f]) <= 255
                            /\ ShortestValue(TypeOf(f)) > 0
                                 => Len(a[f]) <= ShortestValue(TypeOf(f))
  /\ \A s \in Sources : /\ s.port \in Word
                        /\ s.ip \in Seq(Byte) /\ IsLanAddress(s.ip)

ASSUME CodecsAssumption ==
  FramesAssumption /\ RequestsAssumption /\ AnnouncedAssumption

(***************************************************************************)
(* Text.  A hex text is a sequence of digits, 16 standing for any          *)
(* character that is not one; the prefix 0x, blanks and case are left out. *)
(* Numbers above MaxExtId, which are all refused alike, count as one.      *)
(***************************************************************************)
NotHex == 16
TooBig == MaxExtId + 1

Digits(n) ==
  LET k == CHOOSE i \in 1..8 : (i = 1 \/ n >= 16^(i - 1))
                               /\ (i = 8 \/ n < 16^i)
  IN [i \in 1..k |-> (n \div 16^(k - i)) % 16]

\* n.toString(16)
HexOf(n) == IF n < 0 THEN <<NotHex>> \o Digits(-n) ELSE Digits(n)

Number(text) ==
  LET value[i \in 0..Len(text)] ==
        IF i = 0 THEN 0
        ELSE IF value[i - 1] > MaxExtId \div 16 THEN TooBig
        ELSE 16 * value[i - 1] + text[i]
  IN value[Len(text)]

IsHex(text) == \A i \in 1..Len(text) : text[i] # NotHex

\* parseCanId of the agent, and normalizeCanId of the API for a string
ParseCanId(text) ==
  IF text = <<>> \/ ~IsHex(text) THEN Error
  ELSE [ok |-> TRUE, id |-> Number(text)]

NormalizeCanId(given) ==
  IF given.number THEN [ok |-> TRUE, id |-> given.id]
  ELSE ParseCanId(given.text)

EvenHex(text) == IsHex(text) /\ Len(text) % 2 = 0

NormalizeHexData(text) ==
  IF EvenHex(text) /\ Len(text) <= 16 THEN [ok |-> TRUE, data |-> text]
  ELSE Error

ParseDataHex(text) ==
  IF ~EvenHex(text) THEN Error
  ELSE [ok |-> TRUE,
        data |-> [i \in 1..(Len(text) \div 2) |->
                    16 * text[2 * i - 1] + text[2 * i]]]

HexData(bytes) ==
  [i \in 1..(2 * Len(bytes)) |->
    IF i % 2 = 1 THEN bytes[(i + 1) \div 2] \div 16
    ELSE bytes[i \div 2] % 16]

(***************************************************************************)
(* The jobs.                                                               *)
(***************************************************************************)
Given == [number : {TRUE}, id : Ids] \cup [number : {FALSE}, text : IdTexts]

\* open: the dongle is known, the user's, and its agent seen lately.
SendJobs == [kind : {"send"}, open : BOOLEAN, given : Given,
             extended : {"yes", "no", "unset"}, text : Texts]

BusFrames == {f \in [id : Ids, extended : BOOLEAN, data : Payloads,
                  simulated : BOOLEAN, loopback : BOOLEAN] :
             f.id \in 0..MaxId(f.extended)}

RelayJobs == [kind : {"relay"}, frame : BusFrames]

ConfigJobs == [kind : {"config"}, config : Configs, status : 0..2,
               applied : 0..4]

CliJobs == [kind : {"cli"}, dangerous : BOOLEAN, command : Commands,
            status : 0..4, truncated : BOOLEAN]

\* start: the request that opens the pairing, or the one that submits the PIN.
\* offered: the nonce of the dongle's answer.
PairJobs == [kind : {"pair"}, start : BOOLEAN, pin : Pins, nonce : Nonces, token : Tokens,
             status : 0..3, seconds : Seconds,
             offered : {n \in Nonces : Len(n) = 16}]

AnnounceJobs == [kind : {"announce"}, legacy : BOOLEAN, source : Sources,
                 fields : Announced]

JobInit ==
  /\ job \in SendJobs \cup RelayJobs \cup ConfigJobs \cup CliJobs
               \cup PairJobs \cup AnnounceJobs
  /\ stage = "asked"
  /\ control = Nothing
  /\ datagram = <<>>
  /\ cut = 0
  /\ shown = Nothing
  /\ said = Nothing
  /\ reply = Nothing

Job(kind, at) == job.kind = kind /\ stage = at

\* What is left of datagram d: bytes of its end may be missing.
Arrives(d) ==
  \E n \in Cuts : /\ n < Len(d) /\ Len(d) <= MaxDatagram
                  /\ cut' = n
                  /\ datagram' = SubSeq(d, 1, Len(d) - n)

(***************************************************************************)
(* A frame for a dongle's bus.  sendCanFrame of the API checks it; the     *)
(* agent makes the datagram of it; then the API shows it in the console.   *)
(***************************************************************************)
CanFrame(given, asked, text) ==
  LET id == NormalizeCanId(given)
      data == NormalizeHexData(text)
      extended == IF asked = "unset" THEN id.id > MaxStdId ELSE asked = "yes"
  IN IF ~id.ok THEN Error
     ELSE IF id.id > MaxId(extended) \/ ~data.ok THEN Error
     ELSE [ok |-> TRUE, id |-> HexOf(id.id), extended |-> extended,
           data |-> data.data]

\* mutant: the format is guessed from the identifier
FrameDatagramGuessed(message) ==
  LET id == ParseCanId(message.id)
      data == ParseDataHex(message.data)
  IN IF ~id.ok \/ ~data.ok THEN Error
     ELSE Datagram(CanType, Device, Token,
            EncodeCanFrame([id |-> id.id, extended |-> id.id > MaxStdId,
                            data |-> data.data, simulated |-> FALSE,
                            loopback |-> FALSE]))

\* sendCanFrameToDongle
FrameDatagram(message) ==
  LET id == ParseCanId(message.id)
      data == ParseDataHex(message.data)
  IN IF ~id.ok \/ ~data.ok THEN Error
     ELSE Datagram(CanType, Device, Token,
            EncodeCanFrame([id |-> id.id, extended |-> message.extended,
                            data |-> data.data, simulated |-> FALSE,
                            loopback |-> FALSE]))

ApiSends ==
  /\ Job("send", "asked")
  /\ control' = IF job.open THEN CanFrame(job.given, job.extended, job.text)
                ELSE Error
  /\ stage' = IF control'.ok THEN "sent" ELSE "refused"
  /\ UNCHANGED <<job, datagram, cut, shown, said, reply>>

\* The agent does not know the dongle or where it is, gets no token, or its
\* socket fails; the API's wait for it may also end in a timeout.
AgentFails ==
  /\ Job("send", "sent")
  /\ stage' = "failed"
  /\ UNCHANGED <<job, control, datagram, cut, shown, said, reply>>

AgentTransmits ==
  /\ Job("send", "sent")
  /\ LET d == FrameDatagram(control)
     IN IF d.ok THEN datagram' = d.bytes /\ stage' = "acknowledged"
        ELSE datagram' = datagram /\ stage' = "failed"
  /\ UNCHANGED <<job, control, cut, shown, said, reply>>

\* mutant: the event has the format asked for, not the one chosen
ApiShowsAsked ==
  /\ Job("send", "acknowledged")
  /\ shown' = [control EXCEPT !.extended = job.extended = "yes"]
  /\ stage' = "done"
  /\ UNCHANGED <<job, control, datagram, cut, said, reply>>

ApiShows ==
  /\ Job("send", "acknowledged")
  /\ shown' = control
  /\ stage' = "done"
  /\ UNCHANGED <<job, control, datagram, cut, said, reply>>

(***************************************************************************)
(* A frame from one bus to another: the first dongle's datagram, the       *)
(* transport and handleRempCanFrame of its agent, handleCanFrame of the    *)
(* API, handleDataPlaneFrame of the other agent.                           *)
(***************************************************************************)
DongleEmits ==
  /\ Job("relay", "asked")
  /\ Arrives(Datagram(CanType, Device, <<>>, EncodeCanFrame(job.frame)).bytes)
  /\ stage' = "emitted"
  /\ UNCHANGED <<job, control, shown, said, reply>>

\* mutant: the format is not passed on
HeardFrameGuessed(m) ==
  LET header == DecodeRempHeader(m)
      frame == DecodeCanFrame(header.payload)
  IN IF ~header.ok THEN Error
     ELSE IF header.type # CanType \/ ~frame.ok THEN Error
     ELSE [ok |-> TRUE, id |-> HexOf(frame.id),
           extended |-> frame.id > MaxStdId, data |-> HexData(frame.data)]

HeardFrame(m) ==
  LET header == DecodeRempHeader(m)
      frame == DecodeCanFrame(header.payload)
  IN IF ~header.ok THEN Error
     ELSE IF header.type # CanType \/ ~frame.ok THEN Error
     ELSE [ok |-> TRUE, id |-> HexOf(frame.id), extended |-> frame.extended,
           data |-> HexData(frame.data)]

\* open: the agent has the dongle's id from the API, and its data plane is open.
AgentHears ==
  /\ Job("relay", "emitted")
  /\ \E open \in BOOLEAN :
       /\ control' = HeardFrame(datagram)
       /\ stage' = IF open /\ control'.ok THEN "heard" ELSE "dropped"
  /\ UNCHANGED <<job, datagram, cut, shown, said, reply>>

\* The event goes to the first dongle's stream, and the frame to the other agent, if it
\* names a group that is active and the dongle's (in Relay).
ApiRelays ==
  /\ Job("relay", "heard")
  /\ shown' = control
  /\ stage' \in {"relayed", "dropped"}
  /\ UNCHANGED <<job, control, datagram, cut, said, reply>>

\* A frame without data is not sent on: its data_hex is the empty string.  sent: the
\* agent knows the dongle and where it is, has its token, and its socket takes the
\* datagram; otherwise it goes on without the frame.
AgentRelays ==
  /\ Job("relay", "relayed")
  /\ \E sent \in BOOLEAN :
       LET d == FrameDatagram(control)
       IN IF sent /\ control.data # <<>> /\ d.ok
          THEN datagram' = d.bytes /\ stage' = "done"
          ELSE datagram' = datagram /\ stage' = "dropped"
  /\ UNCHANGED <<job, control, cut, shown, said, reply>>

(***************************************************************************)
(* Requests that the dongle answers.  What the dongle reads of a request,  *)
(* and how it lays out its answer, is the protocol's, seen from the other  *)
(* side.                                                                   *)
(***************************************************************************)
ToRempConfig(c) ==
  [c EXCEPT !.mode = (CHOOSE i \in 1..4 : CanModes[i] = c.mode) - 1]

\* mutant: the modes are counted from 1
FromRempConfigFromOne(c) ==
  [c EXCEPT !.mode = IF c.mode \in 1..4 THEN CanModes[c.mode] ELSE "normal"]

FromRempConfig(c) ==
  [c EXCEPT !.mode = IF c.mode \in 0..3 THEN CanModes[c.mode + 1] ELSE "normal"]

Request(type, payload) == Datagram(type, Device, Token, payload)

\* The agent's pairing code makes no request without a nonce.  A datagram that
\* is too long is refused by the socket.
RequestOf(j) ==
  CASE j.kind = "config" ->
         Request(ConfigType, EncodeCanConfigRequest(ToRempConfig(j.config)))
    [] j.kind = "cli" ->
         Request(CliType, EncodeCliRequest(Corr, j.dangerous, j.command))
    [] j.kind = "pair" ->
         IF j.nonce = <<>> THEN Error
         ELSE Datagram(PairingType, Device, <<>>,
                EncodePairingSubmit(Corr, j.pin, j.nonce, j.token))

AgentAsks ==
  /\ job.kind \in {"config", "cli", "pair"} /\ (job.kind = "pair" => ~job.start)
  /\ stage = "asked"
  /\ LET d == RequestOf(job)
     IN IF d.ok /\ Len(d.bytes) <= MaxDatagram
        THEN datagram' = d.bytes /\ stage' = "requested"
        ELSE datagram' = datagram /\ stage' = "refused"
  /\ UNCHANGED <<job, control, cut, shown, said, reply>>

\* Start of a pairing, whose answer brings the nonce.
AgentStartsPairing ==
  /\ Job("pair", "asked") /\ job.start
  /\ datagram' = Datagram(PairingType, Device, <<>>, EncodePairingStart(Corr)).bytes
  /\ stage' = "requested"
  /\ UNCHANGED <<job, control, cut, shown, said, reply>>

\* What the dongle understands of the payload p of the request of a job j.
Understood(j, p) ==
  CASE j.kind = "config" ->
         [mode |-> U8(p, 13), bitrate |-> U31(p, 2), rest |-> Slice(p, 6, 13),
          flags |-> U8(p, 14)]
    [] j.kind = "cli" ->
         [corr |-> Slice(p, 4, 20), dangerous |-> U8(p, 1) = 1,
          command |-> Slice(p, 22, 22 + U16(p, 20))]
    [] j.kind = "pair" ->
         IF U8(p, 0) = 1
         THEN [corr |-> Slice(p, 4, 20), pin |-> <<>>, nonce |-> <<>>,
               token |-> <<>>]
         ELSE [corr |-> Slice(p, 4, 20), pin |-> Slice(p, 20, 26),
               nonce |-> Slice(p, 26, 42),
               token |-> Slice(p, 43, 43 + U8(p, 42))]

\* Its answer: the configuration now in effect, the command's output (the
\* command itself), or the state of the pairing and a nonce.
AnswerTo(j, u) ==
  CASE j.kind = "config" ->
         <<2, j.status>> \o BE(u.bitrate, 4) \o u.rest
           \o <<j.applied, u.flags, 0>>
    [] j.kind = "cli" ->
         <<2, j.status, Flag(j.truncated, 1), 0>> \o u.corr
           \o BE(j.status, 2) \o BE(Len(u.command), 2) \o u.command
    [] j.kind = "pair" ->
         <<3, j.status>> \o BE(j.seconds, 2) \o u.corr
           \o (IF u.token = <<>> THEN j.offered ELSE <<>>)

DongleAnswers ==
  /\ stage = "requested"
  /\ LET header == DecodeRempHeader(datagram)
     IN /\ said' = Understood(job, header.payload)
        /\ Arrives(Datagram(header.type, Device, <<>>,
             [ok |-> TRUE, bytes |-> AnswerTo(job, said')]).bytes)
  /\ stage' = "answered"
  /\ UNCHANGED <<job, control, shown, reply>>

\* What startPairingMode and submitPairing report of an answer.  To the start there is
\* no PIN that could be wrong; of a submission only the status is passed on, and the
\* seconds of a cooldown.
PairingReply(start, ack) ==
  [ok |-> TRUE,
   status |-> IF start /\ ack.status = "invalid_pin" THEN "error" ELSE ack.status,
   expiresInS |-> IF start \/ ack.status = "cooldown" THEN ack.expiresInS ELSE 0,
   nonce |-> IF start THEN ack.nonce ELSE <<>>]

\* What the agent makes of datagram m, the answer to the request of a job j.
Reading(j, m) ==
  LET header == DecodeRempHeader(m)
      config == DecodeCanConfigResponse(header.payload)
      output == DecodeCliResponse(header.payload)
      ack == DecodePairingAck(header.payload)
  IN CASE ~header.ok -> Error
       [] header.ok /\ header.type = ConfigType ->
            IF ~config.ok THEN Error
            ELSE IF config.status # "ok" THEN Error
            ELSE [ok |-> TRUE, effective |-> FromRempConfig(config.config)]
       [] header.ok /\ header.type = CliType -> output
       [] header.ok /\ header.type = PairingType ->
            IF ~ack.ok THEN Error
            ELSE IF ack.corr # Corr THEN Error
            ELSE PairingReply(j.start, ack)

AgentReads ==
  /\ stage = "answered"
  /\ reply' = Reading(job, datagram)
  /\ stage' = "done"
  /\ UNCHANGED <<job, control, datagram, cut, shown, said>>

(***************************************************************************)
(* An announcement, with the header of today or of the first protocol, the *)
(* one that has a shorter sequence number.                                 *)
(***************************************************************************)
DongleAnnounces ==
  /\ Job("announce", "asked")
  /\ LET packet == Encode(1, job.fields)
         header == [packet.header EXCEPT !.headerLen = IF job.legacy THEN 16
                                                       ELSE 18]
     IN \E n \in Cuts :
          /\ n <= Len(packet.payload)
          /\ cut' = n
          /\ said' = [header |-> header,
                      crc |-> Checksum(header, packet.payload),
                      payload |-> SubSeq(packet.payload, 1,
                                         Len(packet.payload) - n)]
  /\ stage' = "announced"
  /\ UNCHANGED <<job, control, datagram, shown, reply>>

AgentDiscovers ==
  /\ Job("announce", "announced")
  /\ reply' = Report(said, job.source)
  /\ stage' = "done"
  /\ UNCHANGED <<job, control, datagram, cut, shown, said>>

JobNext ==
  \/ ApiSends \/ AgentFails \/ AgentTransmits \/ ApiShows
  \/ DongleEmits \/ AgentHears \/ ApiRelays \/ AgentRelays
  \/ AgentAsks \/ AgentStartsPairing \/ DongleAnswers \/ AgentReads
  \/ DongleAnnounces \/ AgentDiscovers

JobSpec == JobInit /\ [][JobNext]_jobVars

-----------------------------------------------------------------------------
(***************************************************************************)
(* Properties.                                                             *)
(***************************************************************************)
\* Every datagram is a sequence of bytes that fits the one of UDP.
CodecsTypeOK ==
  /\ datagram \in Seq(Byte) /\ Len(datagram) <= MaxDatagram
  /\ cut \in Cuts \cup {0}
  /\ stage \in {"asked", "sent", "acknowledged", "done", "refused", "failed",
                "emitted", "heard", "relayed", "dropped", "requested",
                "answered", "announced"}
  /\ {control.ok, shown.ok, reply.ok} \subseteq BOOLEAN

DongleFrame(m) == DecodeCanFrame(DecodeRempHeader(m).payload)

SameFrame(f, g) ==
  f.id = g.id /\ f.extended = g.extended /\ f.data = g.data

\* The frame that a request of the console, or of a script, means.
AskedFrame ==
  LET id == IF job.given.number THEN job.given.id ELSE Number(job.given.text)
  IN [id |-> id,
      extended |-> \/ job.extended = "yes"
                   \/ job.extended = "unset" /\ id > MaxStdId,
      data |-> [i \in 1..(Len(job.text) \div 2) |->
                  16 * job.text[2 * i - 1] + job.text[2 * i]]]

(***************************************************************************)
(* A frame that the API acknowledges to its user is the one the user asked *)
(* for, with an identifier and a length that CAN allows: the checks of the *)
(* API, the text between it and the agent, and the agent's encoder, which  *)
(* would cut an identifier to its width, add up.  (can-send.ts:17-119,     *)
(* agent-core.ts:757-796, can.ts:17-42)                                    *)
(***************************************************************************)
SentAsAsked ==
  Job("send", stage) /\ stage \in {"acknowledged", "done"} =>
    /\ job.open
    /\ DongleFrame(datagram).ok
    /\ SameFrame(DongleFrame(datagram), AskedFrame)
    /\ AskedFrame.id \in 0..MaxId(AskedFrame.extended)

(***************************************************************************)
(* What the console shows of a frame is what a dongle has read of it, with *)
(* the frames the user sends (can-send.ts:121-132) and with those that     *)
(* cross from bus to bus (data-plane.ts:175-187).                          *)
(***************************************************************************)
ShownAsSent ==
  shown.ok /\ stage = "done" =>
    SameFrame(DongleFrame(datagram),
              [id |-> Number(shown.id), extended |-> shown.extended,
               data |-> ParseDataHex(shown.data).data])

(***************************************************************************)
(* A frame that crosses from one bus to another arrives with the format,   *)
(* identifier and data it had, or not at all.  (agent-core.ts:798-859)     *)
(***************************************************************************)
RelayedIntact ==
  job.kind = "relay" /\ stage = "done" => SameFrame(DongleFrame(datagram), job.frame)

(***************************************************************************)
(* A datagram that came short is never taken for another message: it is    *)
(* refused, but for the acknowledgement of a pairing, of which then only   *)
(* the nonce is lacking.                                                   *)
(***************************************************************************)
ShortIsRefused ==
  cut > 0 =>
    /\ stage \notin {"heard", "relayed"}
    /\ reply.ok => job.kind = "pair" /\ reply.nonce = <<>>

(***************************************************************************)
(* The dongle reads every request as the agent meant it: all fields of a   *)
(* configuration, the command and its permission, the PIN, nonce and token *)
(* of a pairing.                                                           *)
(***************************************************************************)
RequestIsUnderstood ==
  stage \in {"answered", "done"} =>
    /\ job.kind = "config" =>
         /\ said.bitrate = job.config.bitrate
         /\ said.mode < 4 /\ CanModes[said.mode + 1] = job.config.mode
         /\ said.rest = BE(job.config.samplePoint, 2)
                         \o BE(job.config.prescaler, 2)
                         \o <<job.config.sjw, job.config.tseg1,
                              job.config.tseg2>>
         /\ said.flags = EncodeFlags(job.config)
    /\ job.kind = "cli" =>
         said = [corr |-> Corr, dangerous |-> job.dangerous,
                 command |-> job.command]
    /\ job.kind = "pair" /\ ~job.start =>
         said = [corr |-> Corr, pin |-> job.pin, nonce |-> job.nonce,
                 token |-> job.token]

(***************************************************************************)
(* What the agent reports of an answer is what the dongle answered to this *)
(* request: the configuration now in effect when the dongle has accepted   *)
(* it and its mode is known, the status and the whole output of a command; *)
(* of the start of a pairing the status (a wrong PIN is an error there),   *)
(* the seconds and the nonce, and of a submission the status, with the     *)
(* seconds of a cooldown.                                                  *)
(***************************************************************************)
AnswerIsRead ==
  stage = "done" /\ reply.ok =>
    /\ job.kind = "config" =>
         /\ job.status = 0
         /\ job.applied < 4 =>
              reply.effective
                = [job.config EXCEPT !.mode = CanModes[job.applied + 1]]
    /\ job.kind = "cli" =>
         /\ reply.corr = Corr /\ reply.output = job.command
         /\ reply.status = CliStatus(job.status)
         /\ reply.exitCode = job.status
         /\ reply.truncated = job.truncated
    /\ job.kind = "pair" /\ job.start =>
         /\ reply.expiresInS = job.seconds
         /\ reply.status = IF job.status = 1 THEN "error" ELSE PairingStatus(job.status)
         /\ reply.nonce = IF cut = 0 THEN job.offered ELSE <<>>
    /\ job.kind = "pair" /\ ~job.start =>
         /\ reply.status = PairingStatus(job.status)
         /\ reply.status = "cooldown" => reply.expiresInS = job.seconds

(***************************************************************************)
(* A dongle that announces itself is reported with what it announced, at   *)
(* an address of the LAN: the one it gave, else the one it sent from, and  *)
(* a port that is one, chosen alike.  An announcement is only lost when it *)
(* came short, names no device or has a number cut short.                  *)
(***************************************************************************)
ReportIsAnnounced ==
  Job("announce", "done") =>
    LET r == reply.report
        shorter == \E f \in Fields :
                     Len(job.fields[f]) \in 1..(ShortestValue(TypeOf(f)) - 1)
        port == IF job.fields["udpPort"] = <<>> THEN LE16(job.source.port)
                ELSE job.fields["udpPort"]
    IN /\ reply.ok <=> cut = 0 /\ job.fields["deviceId"] # <<>> /\ ~shorter
       /\ reply.ok =>
            /\ \A f \in Fields \ {"lanIp", "udpPort"} : r[f] = job.fields[f]
            /\ r["lanIp"] \in {job.fields["lanIp"], job.source.ip}
            /\ r["lanIp"][1] # 127 /\ r["lanIp"] # <<0, 0, 0, 0>>
            /\ r["udpPort"] = IF port = LE16(0) THEN <<>> ELSE port

(***************************************************************************)
(* Frames keep their format, identifier and data on every way they take:   *)
(* from a user to a bus, from bus to bus, and to the browser.              *)
(***************************************************************************)
FramesIntact == SentAsAsked /\ ShownAsSent /\ RelayedIntact

(***************************************************************************)
(* Requests, answers and announcements mean the same at both ends, and     *)
(* what is cut short is not taken for one of them.                         *)
(***************************************************************************)
MessagesMeanTheSame ==
  CodecsTypeOK /\ ShortIsRefused /\ RequestIsUnderstood /\ AnswerIsRead
    /\ ReportIsAnnounced
=============================================================================
