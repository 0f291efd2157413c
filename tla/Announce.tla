------------------------------ MODULE Announce ------------------------------
(***************************************************************************)
(* The discovery packets by which a dongle announces itself on the LAN     *)
(* (packages/shared/src/protocols/discovery.ts) and what the bridge agent  *)
(* makes of one (apps/bridge-agent/src/discovery, agent-core.ts).  The     *)
(* payload is a sequence of bytes; the header is a record of its fields,   *)
(* whose crc is the very content the checksum covers: two contents with    *)
(* one CRC-32 are left out.                                                *)
(***************************************************************************)
EXTENDS Integers, Sequences

Failure == [ok |-> FALSE]

(***************************************************************************)
(* The fields an announcement may have, with the type of their TLV.  The   *)
(* value of a field is its bytes, <<>> when the announcement lacks it.     *)
(***************************************************************************)
Names == <<"deviceId", "fwBuild", "udpPort", "capabilities", "protoVer",
           "lanIp", "pairingState", "pairingNonce">>
Fields == {Names[t] : t \in 1..8}
TypeOf(name) == CHOOSE t \in 1..8 : Names[t] = name

\* The ports that there are.
Ports == 1..65535

LE16(n) == <<n % 256, n \div 256>>
FromLE16(v) == v[1] + 256 * v[2]

Checksum(header, payload) == [header |-> header, payload |-> payload]

\* encodeAnnounce writes the fields that are there, in the order of Names.
Encode(seq, fields) ==
  LET tlv(name) == IF fields[name] = <<>> THEN <<>>
                   ELSE <<TypeOf(name), Len(fields[name])>> \o fields[name]
      payload == tlv("deviceId") \o tlv("fwBuild") \o tlv("udpPort")
                 \o tlv("capabilities") \o tlv("protoVer") \o tlv("lanIp")
                 \o tlv("pairingState") \o tlv("pairingNonce")
      header == [magic |-> "OBD2", proto |-> 1, kind |-> "announce",
                 headerLen |-> 18, payloadLen |-> Len(payload), seq |-> seq]
  IN [header |-> header, crc |-> Checksum(header, payload),
      payload |-> payload]

ParseHeader(packet) ==
  LET h == packet.header
  IN IF \/ h.magic # "OBD2"
        \/ h.proto # 1
        \/ h.headerLen \notin {16, 18}
        \/ Len(packet.payload) < h.payloadLen
     THEN Failure
     ELSE [ok |-> TRUE, kind |-> h.kind, seq |-> h.seq,
           payload |-> SubSeq(packet.payload, 1, h.payloadLen)]

(***************************************************************************)
(* The loop over the TLVs: it stops at one that runs past the payload, the *)
(* last of a type counts, and a number whose value is too short throws.    *)
(***************************************************************************)
ShortestValue(type) == CASE type \in {3, 5} -> 2 [] type = 4 -> 4
                         [] type = 7 -> 1 [] OTHER -> 0

ReadTlvs(payload) ==
  LET n == Len(payload)
      tail[at \in 0..n] ==
        IF at + 2 > n \/ at + 2 + payload[at + 2] > n
        THEN [ok |-> TRUE, values |-> <<>>]
        ELSE LET type == payload[at + 1]
                 end == at + 2 + payload[at + 2]
                 value == SubSeq(payload, at + 3, end)
                 rest == tail[end]
             IN IF Len(value) < ShortestValue(type) \/ ~rest.ok THEN Failure
                ELSE [ok |-> TRUE,
                      values |-> [t \in DOMAIN rest.values \cup {type} |->
                        IF t \in DOMAIN rest.values THEN rest.values[t]
                        ELSE value]]
  IN tail[0]

DecodeAnnounce(packet) ==
  LET parsed == ParseHeader(packet)
  IN IF \/ ~parsed.ok
        \/ parsed.kind # "announce"
        \/ packet.crc # Checksum(packet.header, parsed.payload)
     THEN Failure
     ELSE LET read == ReadTlvs(parsed.payload)
          IN IF ~read.ok THEN Failure
             ELSE [ok |-> TRUE,
                   fields |-> [f \in Fields |->
                     IF TypeOf(f) \notin DOMAIN read.values THEN <<>>
                     ELSE LET v == read.values[TypeOf(f)]
                          IN IF ShortestValue(TypeOf(f)) = 0 THEN v
                             ELSE SubSeq(v, 1, ShortestValue(TypeOf(f)))]]

(***************************************************************************)
(* The address the agent keeps for the dongle: the one announced, unless   *)
(* it cannot be one of the LAN; the port announced, else the source's.     *)
(***************************************************************************)
\* mutant: the address announced is taken as it is
IsLanAddressAny(ip) == Len(ip) = 4

IsLanAddress(ip) == Len(ip) = 4 /\ ip[1] # 127 /\ ip # <<0, 0, 0, 0>>

\* The handler of an announcement and buildDeviceReport.
Report(packet, source) ==
  LET said == DecodeAnnounce(packet)
      f == said.fields
      port == IF f["udpPort"] = <<>> THEN source.port
              ELSE FromLE16(f["udpPort"])
  IN IF ~said.ok THEN Failure
     ELSE IF f["deviceId"] = <<>> THEN Failure
     ELSE [ok |-> TRUE,
           report |-> [f EXCEPT
             !["lanIp"] = IF IsLanAddress(@) THEN @ ELSE source.ip,
             !["udpPort"] = IF port \in Ports THEN LE16(port) ELSE <<>>]]
=============================================================================
