------------------------------ MODULE MCCodecs ------------------------------
(***************************************************************************)
(* The codecs over bounded inputs: every 16-bit sample, every voltage a    *)
(* battery can have, every zone a clock can be in, and packets of each     *)
(* kind with payloads around the lengths that matter.  The state is the    *)
(* input; it goes up by one step at a time.                                *)
(***************************************************************************)
EXTENDS Wire, G711, Readings, TLC

CONSTANT MaxPayload \* bound on the length of a payload

ASSUME CodecsAssumption == MaxPayload \in 8..256

VARIABLE input

CodecsInit == input \in {[kind |-> "sample", value |-> -32768],
                         [kind |-> "millivolts", value |-> 2990],
                         [kind |-> "zone", value |-> -15 * 3600],
                         [kind |-> "idle"]}

Rises(kind, step, last) ==
  /\ input.kind = kind /\ input.value < last
  /\ input' = [input EXCEPT !.value = @ + step]

----------------------------------------------------------------------------
\* Packets.

Indices == {0, 1, 2570, 65535}
Tokens == {Zeros(4), <<\h0E, \hFC, \hFF, \hFF>>}
SomePayload(n) == [i \in 1..n |-> (i * 37 + 200) % 256]
SomePayloads == {SomePayload(n) : n \in 0..MaxPayload}

DevId == [prefix |-> <<68, 71, 79, 75>>, serial |-> 1270023, suffix |-> <<80, 85, 75, 88, 69>>]
DevIds == {DevId, [DevId EXCEPT !.suffix = <<>>]}

\* A chunk of a frame may start with anything, the mark of a command too.
Chunks == SomePayloads \cup {START_CMD, START_CMD \o SomePayload(3), JSON_MARK \o SomePayload(12),
                             START_CMD \o <<\h20, \h10>> \o SomePayload(9),
                             JSON_MARK \o Zeros(6) \o JsonText["user"]}

EmptyPackets == {Plain(t, <<>>) : t \in {P2PAlive, P2PAliveAck, Close, LanSearch, LanSearchExt}}
Answers == {MakePunch(id) : id \in DevIds} \cup {[MakePunch(DevId) EXCEPT !.type = P2pRdy]}
Acks == {MakeDrwAck(Raw(ch, i, <<>>)) : ch \in Channels, i \in Indices}
Commands ==
  {Command(i, c, t, b) : i \in Indices, c \in BinaryCommands, t \in Tokens, b \in SomePayloads}
Documents == {Json(i, JSON_MARK \o <<160, 128>>, doc) : i \in Indices, doc \in DOMAIN JsonText}
RawPackets == {Raw(ch, i, b) : ch \in {1, 2}, i \in Indices, b \in Chunks}

Packets == EmptyPackets \cup Answers \cup Acks \cup Commands \cup Documents \cup RawPackets

\* Some cameras append zeros to an alive packet.
Sends(p, enc, zeros) ==
  /\ input.kind = "idle"
  /\ zeros > 0 => p.type = P2PAlive
  /\ input' = [kind |-> "datagram", packet |-> p, encryption |-> enc,
               data |-> Encode(enc, Bytes(p) \o Zeros(zeros))]

CodecsNext ==
  \/ Rises("sample", 1, 32767)
  \/ Rises("millivolts", 1, 4610)
  \/ Rises("zone", 300, 15 * 3600)
  \/ \E p \in Packets, enc \in Encryptions, zeros \in {0, 4} : Sends(p, enc, zeros)

CodecsSpec == CodecsInit /\ [][CodecsNext]_input

----------------------------------------------------------------------------
Abs(n) == IF n < 0 THEN -n ELSE n

\* The chunks that are read as what they are not: parse_drw_pkt() looks at the
\* first bytes of the payload, whatever the channel.
Mistakable(p) ==
  /\ p.type = Drw /\ p.channel # 0
  /\ Slice(p.payload, 0, 2) \in {START_CMD, JSON_MARK}

\* Whatever packet is sent, under either encryption, the receiver that knows
\* nothing of it finds the encryption and reads the same packet, byte for byte
\* -- the broken alive packets of some cameras included, but for a chunk that
\* starts like a command.  A device that answers the search is reported once,
\* with the identity it gave.
WhatIsSentIsRead ==
  input.kind = "datagram" =>
    LET p == input.packet
        enc == input.encryption
    IN /\ MaybeDecode(input.data) = enc
       /\ Mistakable(p) \/ ParsePacket(Decode(enc, input.data)) = p
       /\ p.type = PunchPkt =>
            \E id \in DevIds :
              /\ p = MakePunch(id)
              /\ Reported(input.data) =
                   {[dev_id |-> id, encryption |-> enc, is_json |-> enc = "XOR1"]}
       /\ p.type # PunchPkt => Reported(input.data) = {}

Heard(codec, sample) == DecodeSample(codec, EncodeSample(codec, sample))

\* Talk-back is heard as it was said: what the camera decodes is within 1/32 of
\* the sample and 8 more, a louder sample is never heard softer, and what was coded once is
\* not changed by coding it again.
AudioFaithful ==
  input.kind = "sample" =>
    \A codec \in Codecs :
      LET s == input.value
          heard == Heard(codec, s)
      IN /\ Abs(heard - s) <= Abs(s) \div 32 + 8
         /\ s < 32767 => heard <= Heard(codec, s + 1)
         /\ Heard(codec, heard) = heard

\* A millivolt more is the same percentage or one more, from 0 to 100; what no
\* battery reports has none.
BatteryGrows ==
  input.kind = "millivolts" =>
    LET now == BatPercent(input.value)
        next == BatPercent(input.value + 1)
    IN /\ (now = None) = (input.value \notin 3000..4600)
       /\ now # None => now \in 0..100
       /\ now # None /\ next # None => next - now \in {0, 1}
       /\ \A i \in 1..Len(BATTERY_CURVE) :
            BATTERY_CURVE[i][1] = input.value => now = BATTERY_CURVE[i][2]

\* The zones a camera may have been configured with: not all are a quarter.
OwnOffsets == {-12600, 0, 1172, 28800}

\* The clock that is set is the clock that is read, in every zone a host can be
\* in, and the kind of firmware is told from what it answers: where a zone is
\* kept, local time and zone are the host's; where none is, local time is that
\* of the zone the camera was configured with, whatever the host's.
ClockIsReadBack ==
  input.kind = "zone" =>
    \A firmware \in {"utc+tz", "local-only"}, own \in OwnOffsets :
      LET utc == 1787493648
          read == ParseDatetime(Stores(firmware, own, SetDatetime(utc, input.value)))
          zone == input.value % 900 = 0 /\ Abs(input.value) <= 14 * 3600
      IN zone => /\ read.layout = firmware
                 /\ firmware = "utc+tz" => /\ read.local = utc + input.value
                                           /\ read.offset = input.value
                 /\ firmware = "local-only" => read.local = utc + own
=============================================================================
