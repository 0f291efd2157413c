-------------------------------- MODULE Remp --------------------------------
(***************************************************************************)
(* The REMP datagrams of packages/remp: what the bridge agent writes to a  *)
(* dongle and how it reads what a dongle sends back.  A datagram is a      *)
(* sequence of bytes.  An encoder or decoder that throws yields Error,     *)
(* otherwise a record whose field ok is TRUE.  Offsets are those of the    *)
(* code, from 0.  The timestamp and the sequence number, which no receiver *)
(* reads, are zero bytes; a UUID and a device id are their bytes.          *)
(***************************************************************************)
EXTENDS Integers, Sequences

Error == [ok |-> FALSE]

\* What fits in one byte, and in two.
Byte == 0..255
MaxWord == 65535
Word == 0..MaxWord

Zeros(n) == [i \in 1..n |-> 0]

\* writeUInt8, writeUInt16BE, writeUInt32BE of a number that fits.
BE(n, k) == [i \in 1..k |-> (n \div 256^(k - i)) % 256]

U8(b, at) == b[at + 1]
U16(b, at) == 256 * U8(b, at) + U8(b, at + 1)
U31(b, at) == 65536 * U16(b, at) + U16(b, at + 2)
Slice(b, from, to) == SubSeq(b, from + 1, to)

Bit(n, k) == (n \div 2^k) % 2 = 1
Flag(on, value) == IF on THEN value ELSE 0

Magic == <<82, 69, 77, 80>>
HeaderLen == 31
MaxTokenLen == 64
CanType == 0
ConfigType == 2
PairingType == 3
CliType == 4

(***************************************************************************)
(* The header, and a whole datagram of it and a payload.                   *)
(***************************************************************************)
EncodeRempHeader(type, device, token) ==
  IF Len(token) > MaxTokenLen THEN Error
  ELSE [ok |-> TRUE,
        bytes |-> Magic \o <<1, type, 0, 0, Len(token)>> \o Zeros(2)
                  \o device \o Zeros(4) \o Zeros(8) \o token]

DecodeRempHeader(m) ==
  IF \/ Len(m) < HeaderLen
     \/ Slice(m, 0, 4) # Magic
     \/ U8(m, 4) # 1
     \/ U8(m, 8) > MaxTokenLen
     \/ HeaderLen + U8(m, 8) > Len(m)
  THEN Error
  ELSE LET start == HeaderLen + U8(m, 8)
       IN [ok |-> TRUE, type |-> U8(m, 5), device |-> Slice(m, 11, 19),
           token |-> Slice(m, HeaderLen, start),
           payload |-> Slice(m, start, Len(m))]

Datagram(type, device, token, payload) ==
  LET header == EncodeRempHeader(type, device, token)
  IN IF header.ok /\ payload.ok
     THEN [ok |-> TRUE, bytes |-> header.bytes \o payload.bytes]
     ELSE Error

(***************************************************************************)
(* CAN frames.  The top bit of the identifier says that it is extended.    *)
(***************************************************************************)
MaxStdId == 2047
MaxExtId == 536870911
MaxId(extended) == IF extended THEN MaxExtId ELSE MaxStdId

EncodeCanFrame(f) ==
  IF Len(f.data) > 8 \/ f.id > MaxId(f.extended) THEN Error
  ELSE [ok |-> TRUE,
        bytes |-> [BE(f.id % (MaxId(f.extended) + 1), 4)
                     EXCEPT ![1] = @ + Flag(f.extended, 128)]
                  \o <<Flag(f.simulated, 1) + Flag(f.loopback, 2),
                       Len(f.data), 0, 0>>
                  \o f.data]

DecodeCanFrame(p) ==
  IF \/ Len(p) < 8
     \/ U8(p, 5) > 8
     \/ Len(p) < 8 + U8(p, 5)
  THEN Error
  ELSE LET extended == Bit(U8(p, 0), 7)
           raw == U31([p EXCEPT ![1] = @ % 128], 0)
       IN [ok |-> TRUE, id |-> raw % (MaxId(extended) + 1),
           extended |-> extended, data |-> Slice(p, 8, 8 + U8(p, 5)),
           simulated |-> Bit(U8(p, 4), 0), loopback |-> Bit(U8(p, 4), 1)]

(***************************************************************************)
(* CAN configurations.  A field too large for its place makes the encoder  *)
(* throw, but the bit rate, which it wraps.                                *)
(***************************************************************************)
\* mutant: the flags are placed from the seventh bit on
EncodeFlagsHigh(c) ==
  Flag(c.useRaw, 64) + Flag(c.autoRetx, 128) + Flag(c.txPause, 256)
    + Flag(c.protocolExc, 512)

EncodeFlags(c) ==
  Flag(c.useRaw, 1) + Flag(c.autoRetx, 2) + Flag(c.txPause, 4)
    + Flag(c.protocolExc, 8)

EncodeCanConfigRequest(c) ==
  IF \/ {c.samplePoint, c.prescaler} \ Word # {}
     \/ {c.sjw, c.tseg1, c.tseg2} \ Byte # {}
  THEN Error
  ELSE [ok |-> TRUE,
        bytes |-> <<1, 0>> \o BE(c.bitrate, 4) \o BE(c.samplePoint, 2)
                  \o BE(c.prescaler, 2)
                  \o <<c.sjw, c.tseg1, c.tseg2, c.mode, EncodeFlags(c), 0>>]

DecodeCanConfigResponse(p) ==
  IF Len(p) < 16 \/ U8(p, 0) # 2 THEN Error
  ELSE [ok |-> TRUE,
        status |-> CASE U8(p, 1) = 0 -> "ok"
                     [] U8(p, 1) = 1 -> "invalid"
                     [] OTHER -> "apply_failed",
        config |-> [bitrate |-> U31(p, 2), samplePoint |-> U16(p, 6),
                    prescaler |-> U16(p, 8), sjw |-> U8(p, 10),
                    tseg1 |-> U8(p, 11), tseg2 |-> U8(p, 12),
                    mode |-> U8(p, 13), useRaw |-> Bit(U8(p, 14), 0),
                    autoRetx |-> Bit(U8(p, 14), 1),
                    txPause |-> Bit(U8(p, 14), 2),
                    protocolExc |-> Bit(U8(p, 14), 3)]]

(***************************************************************************)
(* Commands and pairing.  corr is the request's correlation id.            *)
(***************************************************************************)
CliStatus(n) == CASE n = 0 -> "ok" [] n = 1 -> "denied" [] n = 2 -> "error"
                  [] OTHER -> "timeout"

EncodeCliRequest(corr, dangerous, command) ==
  IF Len(command) \notin Word THEN Error
  ELSE [ok |-> TRUE,
        bytes |-> <<1, Flag(dangerous, 1), 0, 0>> \o corr
                  \o BE(Len(command), 2) \o command]

\* mutant: the length of the output is not checked; subarray stops at the end
DecodeCliResponseUnchecked(p) ==
  LET end == 24 + U16(p, 22)
  IN IF Len(p) < 24 \/ U8(p, 0) # 2 THEN Error
     ELSE [ok |-> TRUE, status |-> CliStatus(U8(p, 1)),
           truncated |-> Bit(U8(p, 2), 0), corr |-> Slice(p, 4, 20),
           exitCode |-> U16(p, 20),
           output |-> Slice(p, 24, IF end < Len(p) THEN end ELSE Len(p))]

DecodeCliResponse(p) ==
  IF \/ Len(p) < 24
     \/ U8(p, 0) # 2
     \/ Len(p) < 24 + U16(p, 22)
  THEN Error
  ELSE [ok |-> TRUE, status |-> CliStatus(U8(p, 1)),
        truncated |-> Bit(U8(p, 2), 0), corr |-> Slice(p, 4, 20),
        exitCode |-> U16(p, 20), output |-> Slice(p, 24, 24 + U16(p, 22))]

PairingStatus(n) == CASE n = 0 -> "ok" [] n = 1 -> "invalid_pin"
                      [] n = 2 -> "cooldown" [] OTHER -> "error"

EncodePairingStart(corr) == [ok |-> TRUE, bytes |-> <<1, 0, 0, 0>> \o corr]

\* mutant: the nonce precedes the PIN
EncodePairingSubmitSwapped(corr, pin, nonce, token) ==
  IF Len(pin) # 6 \/ Len(nonce) # 16 \/ Len(token) # 32 THEN Error
  ELSE [ok |-> TRUE, bytes |-> <<2, 0, 0, 0>> \o corr \o nonce \o pin
                               \o <<Len(token)>> \o token]

EncodePairingSubmit(corr, pin, nonce, token) ==
  IF Len(pin) # 6 \/ Len(nonce) # 16 \/ Len(token) # 32 THEN Error
  ELSE [ok |-> TRUE, bytes |-> <<2, 0, 0, 0>> \o corr \o pin \o nonce
                               \o <<Len(token)>> \o token]

\* The nonce is there when the payload is long enough for it, else empty.
DecodePairingAck(p) ==
  IF Len(p) < 20 \/ U8(p, 0) # 3 THEN Error
  ELSE [ok |-> TRUE, status |-> PairingStatus(U8(p, 1)),
        expiresInS |-> U16(p, 2), corr |-> Slice(p, 4, 20),
        nonce |-> IF Len(p) >= 36 THEN Slice(p, 20, 36) ELSE <<>>]
=============================================================================
