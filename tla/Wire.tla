-------------------------------- MODULE Wire --------------------------------
(***************************************************************************)
(* What goes over the wire, byte by byte: the encryptions of               *)
(* src/aiopppp/encrypt.py, the packets of src/aiopppp/packets.py and what  *)
(* src/aiopppp/discover.py makes of a datagram.  A packet is a record of   *)
(* what its class keeps; a byte string is a sequence of 0..255.            *)
(*                                                                         *)
(* A JSON document stands for itself: json.dumps and json.loads are taken  *)
(* for inverse on the documents of JsonText, and only those are JSON.      *)
(***************************************************************************)
EXTENDS Integers, Sequences, SequencesExt, Bytewise

Zeros(n) == [i \in 1..n |-> 0]
U16(n) == <<n \div 256, n % 256>>
U16le(n) == Reverse(U16(n))
FromU16(b) == b[1] * 256 + b[2]

\* PacketType, of which only these are made or told apart.
Close == \hF0           P2PAlive == \hE0        Drw == \hD0
LanSearch == \h30       P2PAliveAck == \hE1     DrwAck == \hD1
LanSearchExt == \h32    PunchPkt == \h41        P2pRdy == \h42
PacketTypes == {Close, P2PAlive, P2PAliveAck, Drw, DrwAck, LanSearch, LanSearchExt,
                PunchPkt, P2pRdy}

CAM_MAGIC == \hF1
Channels == 0..2

\* Some of BinaryCommands, with their CC_DEST.
CC_DEST(c) == CASE c \in {\h1020, \h1120} -> \h00FF [] c = \h1108 -> \h55AA [] OTHER -> 0
BinaryCommands == {\h1020, \h1120, \h1108, \h3010, \h3110}

----------------------------------------------------------------------------
\* encrypt.py

XOR1_KEY_TABLE == <<
  124, 156, 232, 74, 19, 222, 220, 178, 47, 33, 35, 228, 48, 123, 61, 140, 188, 11, 39, 12,
  60, 247, 154, 231, 8, 113, 150, 0, 151, 133, 239, 193, 31, 196, 219, 161, 194, 235, 217, 1,
  250, 186, 59, 5, 184, 21, 135, 131, 40, 114, 209, 139, 90, 214, 218, 147, 88, 254, 170, 204,
  110, 27, 240, 163, 136, 171, 67, 192, 13, 181, 69, 56, 79, 80, 34, 102, 32, 127, 7, 91,
  20, 152, 29, 155, 167, 42, 185, 168, 203, 241, 252, 73, 71, 6, 62, 177, 14, 4, 58, 148,
  94, 238, 84, 17, 52, 221, 77, 249, 236, 199, 201, 227, 120, 26, 111, 112, 107, 164, 189, 169,
  93, 213, 248, 229, 187, 38, 175, 66, 55, 216, 225, 2, 10, 174, 95, 28, 197, 115, 9, 78,
  105, 36, 144, 109, 18, 179, 25, 173, 116, 138, 41, 64, 245, 45, 190, 165, 89, 224, 244, 121,
  210, 75, 206, 137, 130, 72, 132, 37, 198, 145, 43, 162, 251, 143, 233, 166, 176, 158, 63, 101,
  246, 3, 49, 46, 172, 15, 149, 44, 92, 237, 57, 183, 51, 108, 86, 126, 180, 160, 253, 122,
  129, 83, 81, 134, 141, 159, 119, 255, 106, 128, 223, 226, 191, 16, 215, 117, 100, 87, 118, 243,
  85, 205, 208, 200, 24, 230, 54, 65, 98, 207, 153, 242, 50, 76, 103, 96, 97, 146, 202, 211,
  234, 99, 125, 22, 182, 142, 212, 104, 53, 195, 82, 157, 70, 68, 30, 23>>

XOR1_ENC_KEY == <<\h69, \h97, \hCC, \h19>>
XOR1_KEYSTREAM ==
  [prev \in Byte |-> XOR1_KEY_TABLE[((XOR1_ENC_KEY[(prev % 4) + 1] + prev) % 256) + 1]]

\* Each byte is masked by the ciphertext byte before it; the first by that of 0.
Xor1Decode(data) ==
  [i \in 1..Len(data) |-> Xor(data[i], XOR1_KEYSTREAM[IF i = 1 THEN 0 ELSE data[i - 1]])]
Xor1Encode(data) ==
  LET out[i \in 0..Len(data)] ==
        IF i = 0 THEN 0 ELSE Xor(data[i], XOR1_KEYSTREAM[out[i - 1]])
  IN [i \in 1..Len(data) |-> out[i]]

Encryptions == {"NONE", "XOR1"}
Encode(enc, data) == IF enc = "XOR1" THEN Xor1Encode(data) ELSE data
Decode(enc, data) == IF enc = "XOR1" THEN Xor1Decode(data) ELSE data

----------------------------------------------------------------------------
\* packets.py: the payload of a command is flipped bit 0 by bit 0 and rotated.

Flipped(data) == [i \in 1..Len(data) |-> IF data[i] % 2 = 1 THEN data[i] - 1 ELSE data[i] + 1]
Rotated(s, k) == SubSeq(s, k + 1, Len(s)) \o SubSeq(s, 1, k)

XqEncode(data, shift) ==
  IF data = <<>> THEN <<>> ELSE Rotated(Flipped(data), shift % Len(data))

\* Mutant: the shift is not taken modulo the length.
XqDecodeUnreduced(data, shift) ==
  IF shift >= Len(data) THEN Flipped(data) ELSE Rotated(Flipped(data), Len(data) - shift)

XqDecode(data, shift) ==
  IF data = <<>> THEN <<>> ELSE Rotated(Flipped(data), Len(data) - (shift % Len(data)))

\* The packets: one with a payload, and the three classes of a DRW.
Plain(type, payload) == [type |-> type, payload |-> payload]
Raw(channel, idx, payload) ==
  [type |-> Drw, channel |-> channel, idx |-> idx, payload |-> payload]
Json(idx, preamble, doc) ==
  [type |-> Drw, channel |-> 0, idx |-> idx, preamble |-> preamble, doc |-> doc]
Command(idx, command, token, payload) ==
  [type |-> Drw, channel |-> 0, idx |-> idx, command |-> command, token |-> token,
   payload |-> payload]

JsonText == [empty |-> <<123, 125>>, user |-> <<123, 34, 117, 34, 58, 49, 125>>]
IsJson(data) == \E doc \in DOMAIN JsonText : JsonText[doc] = data
Loads(data) == CHOOSE doc \in DOMAIN JsonText : JsonText[doc] = data

JSON_MARK == <<6, 10>>
START_CMD == <<17, 10>>

\* get_drw_payload of each class.
DrwPayload(p) ==
  IF "doc" \in DOMAIN p
  THEN p.preamble \o U16le(Len(JsonText[p.doc])) \o Zeros(2) \o JsonText[p.doc]
  ELSE IF "command" \in DOMAIN p
  THEN START_CMD \o U16le(p.command) \o U16le(Len(p.payload) + Len(p.token))
         \o U16le(CC_DEST(p.command)) \o p.token \o XqEncode(p.payload, 4)
  ELSE p.payload

Payload(p) ==
  IF p.type = Drw THEN <<\hD1, p.channel>> \o U16(p.idx) \o DrwPayload(p) ELSE p.payload

Bytes(p) == <<CAM_MAGIC, p.type>> \o U16(Len(Payload(p))) \o Payload(p)

MakeDrwAck(p) == Plain(DrwAck, <<\hD1, p.channel>> \o U16(1) \o U16(p.idx))

\* data[i:j] and data[i:].
Slice(data, i, j) == SubSeq(data, i + 1, IF j < Len(data) THEN j ELSE Len(data))
From(data, i) == SubSeq(data, i + 1, Len(data))

\* A ValueError or struct.error.
Invalid == [invalid |-> TRUE]

\* The command in a DRW: no token if it is too short for one.
ParseCommand(idx, command, rest) ==
  IF Len(rest) < 4 THEN Command(idx, command, Zeros(4), rest)
  ELSE Command(idx, command, Slice(rest, 0, 4), XqDecode(From(rest, 4), 4))

\* The class of a DRW is told by its first two bytes; what does not parse as
\* that class is taken as it is.
ParseDrw(data) ==
  LET channel == data[2]
      idx == FromU16(Slice(data, 2, 4))
      mark == Slice(data, 4, 6)
      command == FromU16(<<data[8], data[7]>>)
  IN IF Len(data) < 4 THEN Invalid
     ELSE IF mark = JSON_MARK /\ IsJson(From(data, 12))
     THEN Json(idx, Slice(data, 4, 8), Loads(From(data, 12)))
     ELSE IF mark = START_CMD /\ Len(data) < 12 THEN Invalid
     ELSE IF mark = START_CMD /\ command \in BinaryCommands
     THEN ParseCommand(idx, command, From(data, 12))
     ELSE IF channel \in Channels THEN Raw(channel, idx, From(data, 4)) ELSE Invalid

\* An alive packet is cut to its header when its length is wrong.
ParsePacket(data) ==
  IF Len(data) < 4 \/ data[1] # CAM_MAGIC \/ data[2] \notin PacketTypes THEN Invalid
  ELSE IF data[2] = Drw THEN ParseDrw(From(data, 4))
  ELSE Plain(data[2],
         IF data[2] = P2PAlive /\ Len(data) # FromU16(Slice(data, 2, 4)) + 4 THEN <<>>
         ELSE From(data, 4))

----------------------------------------------------------------------------
\* discover.py

U32(n) == U16(n \div 65536) \o U16(n % 65536)
Padded(s, n) == SubSeq(s \o Zeros(n), 1, n)

\* make_punch_pkt, for a serial that fits 31 bits, and as_object.
MakePunch(id) ==
  Plain(PunchPkt, Padded(id.prefix, 4) \o Zeros(4) \o U32(id.serial) \o Padded(id.suffix, 8))
AsObject(payload) ==
  [prefix |-> Slice(payload, 0, 4),
   serial |-> FromU16(Slice(payload, 8, 10)) * 65536 + FromU16(Slice(payload, 10, 12)),
   suffix |-> SubSeq(payload, 13, SelectLastInSeq(payload, LAMBDA b : b # 0))]

\* maybe_decode: the first encryption under which the datagram starts right.
MaybeDecode(data) ==
  IF data[1] = CAM_MAGIC THEN "NONE"
  ELSE IF Xor1Decode(data)[1] = CAM_MAGIC THEN "XOR1"
  ELSE "invalid"

\* on_receive: the devices that are reported for a datagram, none or one.
Reported(data) ==
  LET enc == MaybeDecode(data)
      p == ParsePacket(Decode(enc, data))
  IN IF enc = "invalid" \/ p = Invalid \/ p.type # PunchPkt THEN {}
     ELSE {[dev_id |-> AsObject(p.payload), encryption |-> enc, is_json |-> enc # "NONE"]}
=============================================================================
