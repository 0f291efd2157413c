------------------------------ MODULE MCCodecs ------------------------------
(***************************************************************************)
(* The codecs for TLC: values at and around the limits of every field.     *)
(***************************************************************************)
EXTENDS Codecs

McIds == {-1, 0, 2047, 2048, 4660, 536870911, 536870912}
McIdTexts == {HexOf(n) : n \in McIds}
               \cup {<<>>, <<NotHex>>, <<0, 0, 7>>, <<1, 0, 0, 0, 0, 0, 0, 0, 0>>}
McTexts == {[i \in 1..n |-> (5 * i) % 16] : n \in {0, 1, 2, 14, 16, 18}}
             \cup {<<1, NotHex>>}

Sample(n) == [i \in 1..n |-> (91 * i) % 256]
McPayloads == {Sample(n) : n \in 0..8}
McDevice == [i \in 1..8 |-> i]
McToken == [i \in 1..32 |-> 255 - i]
McCorr == Sample(16)

McConfigs == [bitrate : {125000, 1000000}, samplePoint : {875, 65536},
              prescaler : {3}, sjw : {1, -1}, tseg1 : {13}, tseg2 : {2, 256},
              mode : {CanModes[i] : i \in 1..4}, useRaw : BOOLEAN,
              autoRetx : BOOLEAN, txPause : BOOLEAN, protocolExc : BOOLEAN]
McCommands == {Sample(n) : n \in 0..2}
McPins == {Sample(5), Sample(6)}
McNonces == {Sample(n) : n \in {0, 8, 16}}
McTokens == {McToken, Sample(31)}
McSeconds == {0, 258}

Octets == {0, 10, 127, 255}
Addresses == {<<a, b, 0, b>> : a \in Octets, b \in Octets}
McAnnounced ==
  [deviceId : {<<>>, McDevice}, fwBuild : {<<>>, <<49>>},
   udpPort : {<<>>} \cup {LE16(p) : p \in {0, 50000}},
   capabilities : {<<>>, <<1, 2, 3, 4>>}, protoVer : {<<>>, <<1>>, <<1, 0>>},
   lanIp : {<<>>, <<10, 0, 0>>} \cup Addresses,
   pairingState : {<<>>, <<1>>}, pairingNonce : {<<>>, Sample(16)}]
McSources == [ip : {<<10, 0, 0, 9>>}, port : {0, 4321}]
=============================================================================
