---------------------------- MODULE CodecsProofs ----------------------------
(***************************************************************************)
(* Proofs about the codecs: of the operators of Wire, for byte strings and *)
(* packets of any content, and of the properties of MCCodecs, for any      *)
(* bound on the length of a payload.                                       *)
(*                                                                         *)
(* A byte string is taken apart where the parsers cut it: Begins4 says how *)
(* it begins, and Cat is \o, kept folded.                                  *)
(***************************************************************************)
EXTENDS MCCodecs, WellFoundedInduction, SequenceTheorems, TLAPS

----------------------------------------------------------------------------
\* Bytes, exclusive or, and the encryption of src/aiopppp/encrypt.py.

\* The bits of a byte, and the byte they make.
Bits == [0..7 -> {0, 1}]
Number(b) ==
  b[0] + 2 * b[1] + 4 * b[2] + 8 * b[3] + 16 * b[4] + 32 * b[5] + 64 * b[6] + 128 * b[7]
Sums(a, b) == [k \in 0..7 |-> (a[k] + b[k]) % 2]

\* Every byte has bits.
LEMMA ByteHasBits ==
  ASSUME NEW x \in Byte
  PROVE  \E b \in Bits : x = Number(b)
<1> DEFINE b == [k \in 0..7 |->
                   CASE k = 0 -> x % 2          [] k = 1 -> (x \div 2) % 2
                     [] k = 2 -> (x \div 4) % 2   [] k = 3 -> (x \div 8) % 2
                     [] k = 4 -> (x \div 16) % 2  [] k = 5 -> (x \div 32) % 2
                     [] k = 6 -> (x \div 64) % 2  [] OTHER -> (x \div 128) % 2]
<1>1. b \in Bits
  BY DEF Bits, Byte
<1>2. x = (x % 2) + 2 * ((x \div 2) % 2) + 4 * ((x \div 4) % 2) + 8 * ((x \div 8) % 2)
            + 16 * ((x \div 16) % 2) + 32 * ((x \div 32) % 2) + 64 * ((x \div 64) % 2)
            + 128 * ((x \div 128) % 2)
  BY DEF Byte
<1>3. x = Number(b)
  BY <1>2 DEF Number
<1>4. QED
  BY <1>1, <1>3

\* b are the bits of n.
HasBits(n, b) ==
  /\ (n \div 1) % 2 = b[0]  /\ (n \div 2) % 2 = b[1]
  /\ (n \div 4) % 2 = b[2]  /\ (n \div 8) % 2 = b[3]
  /\ (n \div 16) % 2 = b[4] /\ (n \div 32) % 2 = b[5]
  /\ (n \div 64) % 2 = b[6] /\ (n \div 128) % 2 = b[7]

\* The bits of a number are found by dividing it.
LEMMA BitsOfNumber ==
  ASSUME NEW b \in Bits
  PROVE  Number(b) \in Byte /\ HasBits(Number(b), b)
<1>1. /\ b[0] \in {0, 1} /\ b[1] \in {0, 1} /\ b[2] \in {0, 1} /\ b[3] \in {0, 1}
      /\ b[4] \in {0, 1} /\ b[5] \in {0, 1} /\ b[6] \in {0, 1} /\ b[7] \in {0, 1}
  BY DEF Bits
<1>2. QED
  BY <1>1 DEF Number, Byte, HasBits

\* Exclusive or, bit by bit.
LEMMA XorByBits ==
  ASSUME NEW m \in Nat, NEW n \in Nat, NEW a \in Bits, NEW b \in Bits,
         HasBits(m, a), HasBits(n, b)
  PROVE  Xor(m, n) = Number(Sums(a, b))
<1>1. ASSUME NEW p \in Nat, NEW q \in Nat PROVE (p + q) % 2 = ((p % 2) + (q % 2)) % 2
  OBVIOUS
<1>2. ASSUME NEW k \in {1, 2, 4, 8, 16, 32, 64, 128}
      PROVE  Differ(m, n, k) = (((m \div k) % 2) + ((n \div k) % 2)) % 2
  <2>1. m \div k \in Nat /\ n \div k \in Nat
    OBVIOUS
  <2>2. QED
    BY <1>1, <2>1 DEF Differ
<1>3. /\ Differ(m, n, 1) = (a[0] + b[0]) % 2  /\ Differ(m, n, 2) = (a[1] + b[1]) % 2
      /\ Differ(m, n, 4) = (a[2] + b[2]) % 2  /\ Differ(m, n, 8) = (a[3] + b[3]) % 2
      /\ Differ(m, n, 16) = (a[4] + b[4]) % 2 /\ Differ(m, n, 32) = (a[5] + b[5]) % 2
      /\ Differ(m, n, 64) = (a[6] + b[6]) % 2 /\ Differ(m, n, 128) = (a[7] + b[7]) % 2
  BY <1>2 DEF HasBits
<1>4. QED
  BY <1>3 DEF Xor, Sums, Number

\* Exclusive or of numbers made of bits.
LEMMA XorOfBits ==
  ASSUME NEW a \in Bits, NEW b \in Bits
  PROVE  Sums(a, b) \in Bits /\ Xor(Number(a), Number(b)) = Number(Sums(a, b))
<1>1. Sums(a, b) \in Bits
  BY DEF Sums, Bits
<1>2. Number(a) \in Nat /\ Number(b) \in Nat
  BY BitsOfNumber DEF Byte
<1>3. QED
  BY <1>1, <1>2, BitsOfNumber, XorByBits

\* The exclusive or of two bytes is a byte, and what is masked twice is not masked.
LEMMA XorTwice ==
  ASSUME NEW x \in Byte, NEW y \in Byte
  PROVE  Xor(x, y) \in Byte /\ Xor(Xor(x, y), y) = x
<1>1. PICK a \in Bits, b \in Bits : x = Number(a) /\ y = Number(b)
  BY ByteHasBits
<1>2. Sums(a, b) \in Bits /\ Xor(x, y) = Number(Sums(a, b))
  BY <1>1, XorOfBits
<1>3. Sums(Sums(a, b), b) = a
  BY DEF Sums, Bits
<1>4. QED
  BY <1>1, <1>2, <1>3, XorOfBits, BitsOfNumber

\* Exclusive or is associative.
LEMMA XorAssociates ==
  ASSUME NEW x \in Byte, NEW y \in Byte, NEW z \in Byte
  PROVE  Xor(Xor(x, y), z) = Xor(x, Xor(y, z))
<1>1. PICK a \in Bits, b \in Bits, c \in Bits : x = Number(a) /\ y = Number(b) /\ z = Number(c)
  BY ByteHasBits
<1>2. /\ Sums(a, b) \in Bits /\ Xor(x, y) = Number(Sums(a, b))
      /\ Sums(b, c) \in Bits /\ Xor(y, z) = Number(Sums(b, c))
  BY <1>1, XorOfBits
<1>3. Sums(Sums(a, b), c) = Sums(a, Sums(b, c))
  <2>1. ASSUME NEW k \in 0..7
        PROVE  (((a[k] + b[k]) % 2) + c[k]) % 2 = (a[k] + ((b[k] + c[k]) % 2)) % 2
    BY DEF Bits
  <2>2. QED
    BY <2>1 DEF Sums
<1>4. QED
  BY <1>1, <1>2, <1>3, XorOfBits, BitsOfNumber

\* The masks that occur: each moves a number of seven bits as arithmetic would.
LEMMA XorMasks ==
  ASSUME NEW x \in 0..127
  PROVE  /\ Xor(x, 128) = x + 128
         /\ Xor(x, 0) = x
         /\ Xor(x, 127) = 127 - x
         /\ Xor(x, 255) = 255 - x
         /\ Xor(213, 85) = 128 /\ Xor(85, 85) = 0
<1>1. x \in Byte
  BY DEF Byte
<1>2. PICK a \in Bits : x = Number(a)
  BY <1>1, ByteHasBits
<1>3. /\ (x \div 1) % 2 \in {0, 1} /\ (x \div 2) % 2 \in {0, 1} /\ (x \div 4) % 2 \in {0, 1}
      /\ (x \div 8) % 2 \in {0, 1} /\ (x \div 16) % 2 \in {0, 1}
      /\ (x \div 32) % 2 \in {0, 1} /\ (x \div 64) % 2 \in {0, 1}
      /\ (x \div 128) % 2 = 0
  OBVIOUS
<1>4. x = ((x \div 1) % 2) + 2 * ((x \div 2) % 2) + 4 * ((x \div 4) % 2) + 8 * ((x \div 8) % 2)
            + 16 * ((x \div 16) % 2) + 32 * ((x \div 32) % 2) + 64 * ((x \div 64) % 2)
  OBVIOUS
<1>5. Xor(x, 128) = x + 128
  BY <1>3, <1>4, SMT DEF Xor, Differ
<1>6. Xor(x, 0) = x
  BY <1>3, <1>4, SMT DEF Xor, Differ
<1>7. Xor(x, 127) = 127 - x
  BY <1>3, <1>4, SMT DEF Xor, Differ
<1>8. Xor(x, 255) = 255 - x
  BY <1>3, <1>4, SMT DEF Xor, Differ
<1>9. Xor(213, 85) = 128 /\ Xor(85, 85) = 0
  BY DEF Xor, Differ
<1>10. QED
  BY <1>5, <1>6, <1>7, <1>8, <1>9
----------------------------------------------------------------------------
\* A set of natural numbers that is not empty has a least one.
LEMMA LeastOne ==
  ASSUME NEW T \in SUBSET Nat, T # {}
  PROVE  \E n \in T : \A m \in T : n <= m
<1> DEFINE Less == {p \in Nat \X Nat : p[1] < p[2]}
<1>1. IsWellFoundedOn(Less, Nat)
  BY NatLessThanWellFounded DEF OpToRel
<1>2. PICK n \in T : \A m \in T : ~(<<m, n>> \in Less)
  <2> HIDE DEF Less
  <2>1. QED
    BY <1>1, WFMin
<1>3. ASSUME NEW m \in T PROVE n <= m
  <2>1. n \in Nat /\ m \in Nat /\ ~(<<m, n>> \in Less)
    BY <1>2
  <2>2. ~(m < n)
    BY <2>1
  <2>3. QED
    BY <2>1, <2>2
<1>4. QED
  BY <1>3

\* The keystream is of bytes.
LEMMA Keystream == \A prev \in Byte : XOR1_KEYSTREAM[prev] \in Byte
<1>1. \A i \in 1..256 : XOR1_KEY_TABLE[i] \in Byte
  BY DEF XOR1_KEY_TABLE, Byte
<1>2. ASSUME NEW prev \in Byte PROVE XOR1_KEYSTREAM[prev] \in Byte
  <2> DEFINE a == XOR1_ENC_KEY[(prev % 4) + 1]
             k == (a + prev) % 256
  <2>1. XOR1_KEYSTREAM[prev] = XOR1_KEY_TABLE[k + 1]
    BY DEF XOR1_KEYSTREAM
  <2>2. a \in Int
    BY DEF XOR1_ENC_KEY, Byte
  <2>3. k + 1 \in 1..256
    <3> HIDE DEF a
    <3>1. QED
      BY <2>2 DEF Byte
  <2>4. QED
    BY <1>1, <2>1, <2>3
<1>3. QED
  BY <1>2

\* The first byte of the keystream changes whatever it masks.
LEMMA FirstMask == XOR1_KEYSTREAM[0] \in Byte /\ XOR1_KEYSTREAM[0] # 0
<1>1. XOR1_ENC_KEY[1] = 105
  BY DEF XOR1_ENC_KEY
<1>2. XOR1_KEY_TABLE[106] # 0
  BY DEF XOR1_KEY_TABLE
<1>3. 0 \in Byte
  BY DEF Byte
<1>4. XOR1_KEYSTREAM[0] = XOR1_KEY_TABLE[106]
  BY <1>1, <1>3 DEF XOR1_KEYSTREAM
<1>5. QED
  BY <1>2, <1>3, <1>4, Keystream

\* The ciphertext: each byte is masked by the one before it, which is a byte.
Ciphers(data, out) ==
  out = [i \in 0..Len(data) |-> IF i = 0 THEN 0 ELSE Xor(data[i], XOR1_KEYSTREAM[out[i - 1]])]

\* Some sequence is the ciphertext: by the least length for which none were.
LEMMA CiphertextExists ==
  ASSUME NEW data \in Seq(Byte)
  PROVE  \E out : Ciphers(data, out)
<1> DEFINE Goes(n, f) == \A i \in 0..n :
                           f[i] = IF i = 0 THEN 0 ELSE Xor(data[i], XOR1_KEYSTREAM[f[i - 1]])
           Bad == {n \in 0..Len(data) : ~\E f \in [0..n -> Byte] : Goes(n, f)}
<1>1. Len(data) \in Nat
  OBVIOUS
<1>2. ASSUME Bad # {} PROVE FALSE
  <2>1. PICK n \in Bad : \A m \in Bad : n <= m
    <3>1. Bad \in SUBSET Nat
      OBVIOUS
    <3> HIDE DEF Bad
    <3>2. QED
      BY <1>2, <3>1, LeastOne
  <2>2. n # 0
    <3>1. SUFFICES ASSUME n = 0 PROVE FALSE
      OBVIOUS
    <3>2. [i \in 0..0 |-> 0] \in [0..n -> Byte] /\ Goes(n, [i \in 0..0 |-> 0])
      BY <3>1 DEF Byte
    <3>3. QED
      BY <3>2
  <2>3. n \in Nat /\ n - 1 \in 0..Len(data) /\ n - 1 \notin Bad
    <3>1. n \in 0..Len(data)
      BY <2>1
    <3>2. n - 1 \in 0..Len(data) /\ ~(n <= n - 1)
      BY <1>1, <2>2, <3>1
    <3> HIDE DEF Bad
    <3>3. QED
      BY <1>1, <2>1, <3>1, <3>2
  <2>4. PICK f \in [0..(n - 1) -> Byte] : Goes(n - 1, f)
    BY <2>3
  <2> DEFINE last == Xor(data[n], XOR1_KEYSTREAM[f[n - 1]])
             g == [i \in 0..n |-> IF i < n THEN f[i] ELSE last]
  <2>5. last \in Byte
    <3>1. f[n - 1] \in Byte /\ data[n] \in Byte
      BY <2>1, <2>2, <2>3
    <3>2. QED
      BY <3>1, Keystream, XorTwice
  <2>6. g \in [0..n -> Byte]
    <3> HIDE DEF last
    <3>1. QED
      BY <2>3, <2>5
  <2>7. Goes(n, g)
    <3>1. SUFFICES ASSUME NEW i \in 0..n
                   PROVE  g[i] = IF i = 0 THEN 0 ELSE Xor(data[i], XOR1_KEYSTREAM[g[i - 1]])
      OBVIOUS
    <3>2. CASE i = n
      BY <2>2, <2>3, <3>2
    <3>3. CASE i < n
      <4>1. g[i] = f[i] /\ (i # 0 => g[i - 1] = f[i - 1])
        BY <2>3, <3>3
      <4>2. f[i] = IF i = 0 THEN 0 ELSE Xor(data[i], XOR1_KEYSTREAM[f[i - 1]])
        BY <2>3, <2>4, <3>3
      <4> HIDE DEF g
      <4>3. QED
        BY <4>1, <4>2
    <3>4. QED
      BY <2>3, <3>2, <3>3
  <2>8. QED
    BY <2>1, <2>6, <2>7
<1>3. PICK f \in [0..Len(data) -> Byte] : Goes(Len(data), f)
  <2>1. Len(data) \in 0..Len(data)
    BY <1>1
  <2>2. Len(data) \notin Bad
    <3> HIDE DEF Bad
    <3>1. QED
      BY <1>2
  <2> HIDE DEF Goes
  <2>3. QED
    BY <2>1, <2>2
<1>4. Ciphers(data, f)
  BY <1>3 DEF Ciphers
<1>5. QED
  BY <1>4

\* What xor1 encode() returns: each byte masked by the one written before it.
LEMMA Xor1EncodeIs ==
  ASSUME NEW data \in Seq(Byte)
  PROVE  /\ Len(Xor1Encode(data)) = Len(data) /\ Xor1Encode(data) \in Seq(Byte)
         /\ \A i \in 1..Len(data) :
              Xor1Encode(data)[i] =
                Xor(data[i], XOR1_KEYSTREAM[IF i = 1 THEN 0 ELSE Xor1Encode(data)[i - 1]])
<1> DEFINE out == CHOOSE out : Ciphers(data, out)
           Bad == {n \in 0..Len(data) : out[n] \notin Byte}
<1>1. Ciphers(data, out)
  BY CiphertextExists
<1>2. Xor1Encode(data) = [i \in 1..Len(data) |-> out[i]]
  BY DEF Xor1Encode, Ciphers
<1> HIDE DEF out
<1>3. \A i \in 0..Len(data) :
        out[i] = IF i = 0 THEN 0 ELSE Xor(data[i], XOR1_KEYSTREAM[out[i - 1]])
  BY <1>1 DEF Ciphers
<1>4. Len(data) \in Nat
  OBVIOUS
<1>5. ASSUME Bad # {} PROVE FALSE
  <2>1. PICK n \in Bad : \A m \in Bad : n <= m
    <3>1. Bad \in SUBSET Nat
      OBVIOUS
    <3> HIDE DEF Bad
    <3>2. QED
      BY <1>5, <3>1, LeastOne
  <2>2. n # 0
    <3>1. 0 \in 0..Len(data) /\ 0 \in Byte
      BY <1>4 DEF Byte
    <3>2. out[0] = 0
      BY <1>3, <3>1
    <3>3. QED
      BY <2>1, <3>1, <3>2
  <2>3. out[n - 1] \in Byte /\ data[n] \in Byte
    BY <1>4, <2>1, <2>2
  <2>4. out[n] \in Byte
    BY <1>3, <2>1, <2>2, <2>3, Keystream, XorTwice
  <2>5. QED
    BY <2>1, <2>4
<1>6. \A i \in 0..Len(data) : out[i] \in Byte
  BY <1>5
<1>7. QED
  BY <1>2, <1>3, <1>4, <1>6

\* What is encoded is decoded, whatever it is.
THEOREM Xor1IsInverse ==
  ASSUME NEW data \in Seq(Byte)
  PROVE  Xor1Decode(Xor1Encode(data)) = data
<1> DEFINE out == Xor1Encode(data)
<1>1. /\ out \in Seq(Byte) /\ Len(out) = Len(data) /\ Len(data) \in Nat
      /\ \A i \in 1..Len(data) :
           out[i] = Xor(data[i], XOR1_KEYSTREAM[IF i = 1 THEN 0 ELSE out[i - 1]])
  BY Xor1EncodeIs
<1> HIDE DEF out
<1>2. ASSUME NEW i \in 1..Len(data)
      PROVE  Xor(out[i], XOR1_KEYSTREAM[IF i = 1 THEN 0 ELSE out[i - 1]]) = data[i]
  <2> DEFINE mask == XOR1_KEYSTREAM[IF i = 1 THEN 0 ELSE out[i - 1]]
  <2>1. mask \in Byte
    <3>1. (IF i = 1 THEN 0 ELSE out[i - 1]) \in Byte
      <4>1. 0 \in Byte
        BY DEF Byte
      <4>2. QED
        BY <1>1, <4>1
    <3>2. QED
      BY <3>1, Keystream
  <2>2. out[i] = Xor(data[i], mask) /\ data[i] \in Byte
    BY <1>1
  <2> HIDE DEF mask
  <2>3. Xor(out[i], mask) = data[i]
    BY <2>1, <2>2, XorTwice
  <2>4. QED
    BY <2>3 DEF mask
<1>3. QED
  BY <1>1, <1>2 DEF Xor1Decode, out

----------------------------------------------------------------------------
\* Byte strings put together and cut, and the flip and rotation of a payload.

\* u is s and then t; u is what is in s after m, up to n.
IsJoined(u, s, t) ==
  /\ u \in Seq(Int) /\ Len(u) = Len(s) + Len(t)
  /\ \A i \in 1..Len(s) : u[i] = s[i]
  /\ \A i \in 1..Len(t) : u[i + Len(s)] = t[i]

IsPart(u, s, m, n) ==
  /\ u \in Seq(Int) /\ Len(u) = n - m
  /\ \A i \in 1..(n - m) : u[i] = s[i + m]

\* What \o and SubSeq return.
LEMMA Joined ==
  ASSUME NEW s \in Seq(Int), NEW t \in Seq(Int)
  PROVE  IsJoined(s \o t, s, t)
BY DEF IsJoined

\* What SubSeq returns.
LEMMA Part ==
  ASSUME NEW s \in Seq(Int), NEW m \in Nat, NEW n \in Nat, m <= n, n <= Len(s)
  PROVE  IsPart(SubSeq(s, m + 1, n), s, m, n)
BY DEF IsPart

\* Sequences with the same elements are the same.
LEMMA Same ==
  ASSUME NEW s \in Seq(Int), NEW t \in Seq(Int), Len(s) = Len(t),
         \A i \in 1..Len(s) : s[i] = t[i]
  PROVE  s = t
OBVIOUS

\* data[m:n] is what is in it after m, up to n.
LEMMA SlicePart ==
  ASSUME NEW s \in Seq(Int), NEW m \in Nat, NEW n \in Nat, m <= n, n <= Len(s)
  PROVE  IsPart(Slice(s, m, n), s, m, n)
<1>1. Slice(s, m, n) = SubSeq(s, m + 1, n)
  BY DEF Slice
<1>2. QED
  BY <1>1, Part

\* data[m:] is what is in it after m.
LEMMA FromPart ==
  ASSUME NEW s \in Seq(Int), NEW m \in Nat, m <= Len(s)
  PROVE  IsPart(From(s, m), s, m, Len(s))
<1>1. From(s, m) = SubSeq(s, m + 1, Len(s)) /\ Len(s) \in Nat
  BY DEF From
<1>2. QED
  BY <1>1, Part

\* The parts of a string that begins with four numbers.
Begins4(s, a, b, c, d, rest) ==
  /\ s \in Seq(Int) /\ Len(s) = 4 + Len(rest)
  /\ s[1] = a /\ s[2] = b /\ s[3] = c /\ s[4] = d
  /\ \A i \in 1..Len(rest) : s[i + 4] = rest[i]

\* Four numbers and then the rest, as every header is put.
LEMMA FourThen ==
  ASSUME NEW a \in Int, NEW b \in Int, NEW c \in Int, NEW d \in Int, NEW rest \in Seq(Int)
  PROVE  Begins4(<<a, b, c, d>> \o rest, a, b, c, d, rest)
<1> DEFINE head == <<a, b, c, d>>
<1>1. /\ head \in Seq(Int) /\ Len(head) = 4
      /\ head[1] = a /\ head[2] = b /\ head[3] = c /\ head[4] = d
  OBVIOUS
<1> HIDE DEF head
<1>2. IsJoined(head \o rest, head, rest)
  BY <1>1, Joined
<1>3. QED
  BY <1>1, <1>2 DEF Begins4, IsJoined, head

\* The cuts the parsers make in what begins with four bytes.
LEMMA Cuts4 ==
  ASSUME NEW s, NEW a \in Int, NEW b \in Int, NEW c \in Int, NEW d \in Int,
         NEW rest \in Seq(Int), Begins4(s, a, b, c, d, rest)
  PROVE  /\ From(s, 4) = rest
         /\ Slice(s, 2, 4) = <<c, d>>
         /\ Slice(s, 0, 4) = <<a, b, c, d>>
<1>1. Len(rest) \in Nat /\ Len(s) = 4 + Len(rest) /\ s \in Seq(Int)
  BY DEF Begins4
<1>2. From(s, 4) = rest
  <2>1. IsPart(From(s, 4), s, 4, Len(s))
    BY <1>1, FromPart
  <2>2. From(s, 4) \in Seq(Int) /\ Len(From(s, 4)) = Len(rest)
    BY <1>1, <2>1 DEF IsPart
  <2>3. ASSUME NEW i \in 1..Len(rest) PROVE From(s, 4)[i] = rest[i]
    BY <1>1, <2>1 DEF Begins4, IsPart
  <2>4. QED
    BY <2>2, <2>3, Same
<1>3. Slice(s, 2, 4) = <<c, d>>
  <2>1. IsPart(Slice(s, 2, 4), s, 2, 4)
    BY <1>1, SlicePart
  <2>2. Slice(s, 2, 4)[1] = c /\ Slice(s, 2, 4)[2] = d
    BY <2>1 DEF Begins4, IsPart
  <2>3. QED
    BY <2>1, <2>2 DEF IsPart
<1>4. Slice(s, 0, 4) = <<a, b, c, d>>
  <2>1. IsPart(Slice(s, 0, 4), s, 0, 4)
    BY <1>1, SlicePart
  <2>2. /\ Slice(s, 0, 4)[1] = a /\ Slice(s, 0, 4)[2] = b
        /\ Slice(s, 0, 4)[3] = c /\ Slice(s, 0, 4)[4] = d
    BY <2>1 DEF Begins4, IsPart
  <2>3. QED
    BY <2>1, <2>2 DEF IsPart
<1>5. QED
  BY <1>2, <1>3, <1>4

\* A cut beyond the four is a cut of the rest.
LEMMA CutsLater ==
  ASSUME NEW s, NEW a, NEW b, NEW c, NEW d, NEW rest \in Seq(Int),
         Begins4(s, a, b, c, d, rest),
         NEW i \in Nat, i <= Len(rest), NEW j, j = i + 4
  PROVE  From(s, j) = From(rest, i)
<1>1. Len(rest) \in Nat /\ Len(s) = 4 + Len(rest) /\ s \in Seq(Int)
  BY DEF Begins4
<1>2. IsPart(From(s, j), s, i + 4, Len(s))
  BY <1>1, FromPart
<1>3. IsPart(From(rest, i), rest, i, Len(rest))
  BY <1>1, FromPart
<1>4. ASSUME NEW k \in 1..(Len(rest) - i) PROVE From(s, j)[k] = From(rest, i)[k]
  <2>1. From(s, j)[k] = s[k + (i + 4)]
    BY <1>1, <1>2 DEF IsPart
  <2>2. From(rest, i)[k] = rest[k + i]
    BY <1>3 DEF IsPart
  <2>3. k + i \in 1..Len(rest) /\ k + (i + 4) = (k + i) + 4
    BY <1>1
  <2>4. QED
    BY <2>1, <2>2, <2>3 DEF Begins4
<1>5. From(s, j) \in Seq(Int) /\ Len(From(s, j)) = Len(rest) - i
  BY <1>1, <1>2 DEF IsPart
<1>6. From(rest, i) \in Seq(Int) /\ Len(From(rest, i)) = Len(rest) - i
  BY <1>3 DEF IsPart
<1>7. QED
  BY <1>4, <1>5, <1>6, Same

\* As CutsLater, for a cut from both sides.
LEMMA SlicesLater ==
  ASSUME NEW s, NEW a, NEW b, NEW c, NEW d, NEW rest \in Seq(Int),
         Begins4(s, a, b, c, d, rest),
         NEW i \in Nat, NEW n \in Nat, i <= n, n <= Len(rest),
         NEW j, j = i + 4, NEW m, m = n + 4
  PROVE  Slice(s, j, m) = Slice(rest, i, n)
<1>1. Len(rest) \in Nat /\ Len(s) = 4 + Len(rest) /\ s \in Seq(Int)
  BY DEF Begins4
<1>2. IsPart(Slice(s, j, m), s, i + 4, n + 4)
  BY <1>1, SlicePart
<1>3. IsPart(Slice(rest, i, n), rest, i, n)
  BY <1>1, SlicePart
<1>4. ASSUME NEW k \in 1..(n - i) PROVE Slice(s, j, m)[k] = Slice(rest, i, n)[k]
  <2>1. Slice(s, j, m)[k] = s[k + (i + 4)]
    BY <1>1, <1>2 DEF IsPart
  <2>2. Slice(rest, i, n)[k] = rest[k + i]
    BY <1>3 DEF IsPart
  <2>3. k + i \in 1..Len(rest) /\ k + (i + 4) = (k + i) + 4
    BY <1>1
  <2>4. QED
    BY <2>1, <2>2, <2>3 DEF Begins4
<1>5. Slice(s, j, m) \in Seq(Int) /\ Len(Slice(s, j, m)) = n - i
  <2>1. (n + 4) - (i + 4) = n - i
    OBVIOUS
  <2>2. QED
    BY <1>2, <2>1 DEF IsPart
<1>6. Slice(rest, i, n) \in Seq(Int) /\ Len(Slice(rest, i, n)) = n - i
  BY <1>3 DEF IsPart
<1>7. QED
  BY <1>4, <1>5, <1>6, Same

\* Bytes and then bytes are bytes.
LEMMA FourBytesThen ==
  ASSUME NEW a \in Byte, NEW b \in Byte, NEW c \in Byte, NEW d \in Byte, NEW rest \in Seq(Byte)
  PROVE  <<a, b, c, d>> \o rest \in Seq(Byte)
<1>1. <<a, b, c, d>> \in Seq(Byte)
  OBVIOUS
<1>2. QED
  BY <1>1

\* A byte string is a sequence of integers.
LEMMA BytesAreInts ==
  ASSUME NEW s \in Seq(Byte)
  PROVE  s \in Seq(Int)
<1>1. Byte \subseteq Int
  BY DEF Byte
<1>2. QED
  BY <1>1, SeqMonotonic

\* The first two numbers after the four.
LEMMA MarkIs ==
  ASSUME NEW s, NEW a \in Int, NEW b \in Int, NEW c \in Int, NEW d \in Int,
         NEW rest \in Seq(Int), Begins4(s, a, b, c, d, rest)
  PROVE  Slice(s, 4, 6) = Slice(rest, 0, 2)
<1>1. Len(rest) \in Nat /\ Len(s) = 4 + Len(rest) /\ s \in Seq(Int)
  BY DEF Begins4
<1> DEFINE n == IF 2 < Len(rest) THEN 2 ELSE Len(rest)
<1>2. Slice(s, 4, 6) = SubSeq(s, 4 + 1, n + 4) /\ Slice(rest, 0, 2) = SubSeq(rest, 0 + 1, n)
  BY <1>1 DEF Slice
<1>3. n \in Nat /\ n <= Len(rest) /\ n + 4 <= Len(s)
  BY <1>1
<1> HIDE DEF n
<1>4. IsPart(SubSeq(s, 4 + 1, n + 4), s, 4, n + 4)
  BY <1>1, <1>3, Part
<1>5. IsPart(SubSeq(rest, 0 + 1, n), rest, 0, n)
  BY <1>1, <1>3, Part
<1>6. SubSeq(s, 4 + 1, n + 4) \in Seq(Int) /\ Len(SubSeq(s, 4 + 1, n + 4)) = n
  BY <1>3, <1>4 DEF IsPart
<1>7. SubSeq(rest, 0 + 1, n) \in Seq(Int) /\ Len(SubSeq(rest, 0 + 1, n)) = n
  BY <1>3, <1>5 DEF IsPart
<1>8. ASSUME NEW i \in 1..n PROVE SubSeq(s, 4 + 1, n + 4)[i] = SubSeq(rest, 0 + 1, n)[i]
  <2>1. i \in 1..Len(rest) /\ i \in 1..((n + 4) - 4) /\ i \in 1..(n - 0)
    BY <1>1, <1>3
  <2>2. SubSeq(s, 4 + 1, n + 4)[i] = s[i + 4]
    BY <1>4, <2>1 DEF IsPart
  <2>3. SubSeq(rest, 0 + 1, n)[i] = rest[i + 0]
    BY <1>5, <2>1 DEF IsPart
  <2>4. i + 0 = i /\ s[i + 4] = rest[i]
    BY <2>1 DEF Begins4
  <2>5. QED
    BY <2>2, <2>3, <2>4
<1>9. QED
  BY <1>2, <1>6, <1>7, <1>8, Same

----------------------------------------------------------------------------
\* What is not a DRW is read as its type and what follows the header.
LEMMA ParsePlain ==
  ASSUME NEW s, NEW t \in PacketTypes \ {Drw}, NEW h \in Int, NEW l \in Int, NEW body \in Seq(Int),
         Begins4(s, CAM_MAGIC, t, h, l, body), NEW n \in Nat, FromU16(<<h, l>>) = n
  PROVE  ParsePacket(s) = Plain(t, IF t = P2PAlive /\ Len(body) # n THEN <<>> ELSE body)
<1>1. t \in Int /\ CAM_MAGIC \in Int
  BY DEF PacketTypes, CAM_MAGIC, Close, P2PAlive, P2PAliveAck, Drw, DrwAck, LanSearch,
         LanSearchExt, PunchPkt, P2pRdy
<1>2. From(s, 4) = body /\ Slice(s, 2, 4) = <<h, l>>
  BY <1>1, Cuts4
<1>3. Len(s) = 4 + Len(body) /\ Len(body) \in Nat /\ s[1] = CAM_MAGIC /\ s[2] = t
  BY DEF Begins4
<1>4. ~(Len(s) < 4) /\ (Len(s) # n + 4 <=> Len(body) # n)
  BY <1>3
<1>5. ParsePacket(s) = Plain(t, IF t = P2PAlive /\ Len(s) # n + 4 THEN <<>> ELSE body)
  BY <1>2, <1>3, <1>4 DEF ParsePacket
<1>6. QED
  BY <1>4, <1>5

\* parse_packet() of what has the header of a DRW is parse_drw_pkt() of its body.
LEMMA ParseOfDrw ==
  ASSUME NEW s, NEW h \in Int, NEW l \in Int, NEW body \in Seq(Int),
         Begins4(s, CAM_MAGIC, Drw, h, l, body)
  PROVE  ParsePacket(s) = ParseDrw(body)
<1>1. Drw \in Int /\ CAM_MAGIC \in Int /\ Drw \in PacketTypes
  BY DEF PacketTypes, CAM_MAGIC, Drw
<1>2. From(s, 4) = body
  BY <1>1, Cuts4
<1>3. Len(s) = 4 + Len(body) /\ Len(body) \in Nat /\ s[1] = CAM_MAGIC /\ s[2] = Drw
  BY DEF Begins4
<1>4. QED
  BY <1>1, <1>2, <1>3 DEF ParsePacket

\* The two bytes of a number.
Hi(n) == n \div 256
Lo(n) == n % 256

\* The two bytes of a number of 16 bits, in both orders.
LEMMA TwoBytes ==
  ASSUME NEW n \in Nat, n < 65536
  PROVE  /\ Hi(n) \in Byte /\ Lo(n) \in Byte
         /\ U16(n) = <<Hi(n), Lo(n)>> /\ U16le(n) = <<Lo(n), Hi(n)>>
<1>1. Hi(n) \in Byte /\ Lo(n) \in Byte
  BY DEF Hi, Lo, Byte
<1>2. U16(n) = <<Hi(n), Lo(n)>>
  BY DEF U16, Hi, Lo
<1>3. Reverse(<<Hi(n), Lo(n)>>) = <<Lo(n), Hi(n)>>
  BY <1>1 DEF Reverse
<1>4. QED
  BY <1>1, <1>2, <1>3 DEF U16le

\* Read back, they are the number.
LEMMA HiAndLo ==
  ASSUME NEW n \in Nat
  PROVE  Hi(n) \in Int /\ Lo(n) \in Int /\ FromU16(<<Hi(n), Lo(n)>>) = n
<1>1. Hi(n) \in Int /\ Lo(n) \in Int /\ Hi(n) * 256 + Lo(n) = n
  BY DEF Hi, Lo
<1>2. QED
  BY <1>1 DEF FromU16

\* A DRW, after its header: 209 is what it begins with.
IsDrw(data, ch, idx, body) == Begins4(data, 209, ch, Hi(idx), Lo(idx), body)

ReadsHeader(data, ch, idx, body) ==
  /\ Len(data) = 4 + Len(body) /\ Len(data) \in Nat /\ Len(data) >= 4 /\ data[2] = ch
  /\ FromU16(Slice(data, 2, 4)) = idx
  /\ Slice(data, 4, 6) = Slice(body, 0, 2)
  /\ From(data, 4) = body

\* What parse_drw_pkt() reads of the header of a DRW.
LEMMA DrwHeader ==
  ASSUME NEW data, NEW ch \in Int, NEW idx \in Nat, NEW body \in Seq(Int),
         IsDrw(data, ch, idx, body)
  PROVE  ReadsHeader(data, ch, idx, body)
<1>1. Hi(idx) \in Int /\ Lo(idx) \in Int /\ FromU16(<<Hi(idx), Lo(idx)>>) = idx
  BY HiAndLo
<1>2. Slice(data, 2, 4) = <<Hi(idx), Lo(idx)>> /\ From(data, 4) = body
  BY <1>1, Cuts4 DEF IsDrw
<1>3. Slice(data, 4, 6) = Slice(body, 0, 2)
  BY <1>1, MarkIs DEF IsDrw
<1>4. Len(data) = 4 + Len(body) /\ Len(data) \in Nat /\ Len(data) >= 4 /\ data[2] = ch
  BY DEF IsDrw, Begins4
<1>5. QED
  BY <1>1, <1>2, <1>3, <1>4 DEF ReadsHeader

\* What does not begin like a command is taken as it is.
LEMMA ParseRaw ==
  ASSUME NEW data, NEW ch \in Channels, NEW idx \in Nat, NEW body \in Seq(Int),
         IsDrw(data, ch, idx, body),
         Slice(body, 0, 2) \notin {START_CMD, JSON_MARK}
  PROVE  ParseDrw(data) = Raw(ch, idx, body)
<1>1. ch \in Int
  BY DEF Channels
<1>2. ReadsHeader(data, ch, idx, body)
  BY <1>1, DrwHeader
<1>3. ~(Len(data) < 4) /\ Len(data) >= 4
  BY <1>2 DEF ReadsHeader
<1>4. QED
  BY <1>2, <1>3 DEF ParseDrw, ReadsHeader

\* A string of eight numbers and more.
StartsWith8(s, a, b, c, d, rest) ==
  /\ s \in Seq(Int) /\ Len(s) = 8 + Len(rest) /\ Len(rest) \in Nat
  /\ s[3] = c /\ s[4] = d
  /\ From(s, 8) = rest
  /\ Slice(s, 0, 2) = <<a, b>>
  /\ Slice(s, 0, 4) = <<a, b, c, d>>

\* Four, four and then the rest.
LEMMA EightThen ==
  ASSUME NEW s, NEW r \in Seq(Int), NEW rest \in Seq(Int),
         NEW a \in Int, NEW b \in Int, NEW c \in Int, NEW d \in Int,
         NEW e \in Int, NEW f \in Int, NEW g \in Int, NEW h \in Int,
         Begins4(s, a, b, c, d, r), Begins4(r, e, f, g, h, rest)
  PROVE  StartsWith8(s, a, b, c, d, rest)
<1>1. Len(r) = 4 + Len(rest) /\ Len(rest) \in Nat
  BY DEF Begins4
<1>2. From(r, 4) = rest
  BY Cuts4
<1>3. From(s, 8) = From(r, 4)
  BY <1>1, CutsLater
<1>4. Slice(s, 0, 4) = <<a, b, c, d>>
  BY Cuts4
<1>5. s \in Seq(Int) /\ Len(s) = 8 + Len(rest) /\ s[1] = a /\ s[2] = b /\ s[3] = c /\ s[4] = d
  BY <1>1 DEF Begins4
<1>6. Slice(s, 0, 2) = <<a, b>>
  <2>1. 2 <= Len(s)
    BY <1>1, <1>5
  <2>2. IsPart(Slice(s, 0, 2), s, 0, 2)
    BY <1>5, <2>1, SlicePart
  <2>3. Slice(s, 0, 2)[1] = a /\ Slice(s, 0, 2)[2] = b
    BY <1>5, <2>2 DEF IsPart
  <2>4. QED
    BY <2>2, <2>3 DEF IsPart
<1>7. QED
  BY <1>1, <1>2, <1>3, <1>4, <1>5, <1>6 DEF StartsWith8

\* The documents are bytes, and each is told from the others.
LEMMA JsonTexts ==
  ASSUME NEW doc \in DOMAIN JsonText
  PROVE  JsonText[doc] \in Seq(Byte) /\ IsJson(JsonText[doc]) /\ Loads(JsonText[doc]) = doc
<1>1. doc \in {"empty", "user"}
  BY DEF JsonText
<1>2. JsonText["empty"] = <<123, 125>> /\ JsonText["user"] = <<123, 34, 117, 34, 58, 49, 125>>
  BY DEF JsonText
<1>3. <<123, 125>> \in Seq(Byte) /\ <<123, 34, 117, 34, 58, 49, 125>> \in Seq(Byte)
  BY DEF Byte
<1>4. Len(<<123, 125>>) = 2 /\ Len(<<123, 34, 117, 34, 58, 49, 125>>) = 7
  OBVIOUS
<1>5. <<123, 125>> # <<123, 34, 117, 34, 58, 49, 125>>
  BY <1>4
<1>6. ASSUME NEW other \in DOMAIN JsonText, JsonText[other] = JsonText[doc] PROVE other = doc
  <2>1. other \in {"empty", "user"}
    BY DEF JsonText
  <2>2. QED
    BY <1>1, <1>2, <1>5, <1>6, <2>1
<1>7. QED
  BY <1>1, <1>2, <1>3, <1>6 DEF IsJson, Loads

\* A JSON command is read as its document.
LEMMA ParseJson ==
  ASSUME NEW data, NEW idx \in Nat, NEW doc \in DOMAIN JsonText,
         NEW c \in Int, NEW d \in Int, NEW body \in Seq(Int),
         StartsWith8(body, 6, 10, c, d, JsonText[doc]),
         IsDrw(data, 0, idx, body)
  PROVE  ParseDrw(data) = Json(idx, <<6, 10, c, d>>, doc)
<1> DEFINE text == JsonText[doc]
<1>1. text \in Seq(Int) /\ IsJson(text) /\ Loads(text) = doc
  BY JsonTexts, BytesAreInts
<1>2. ReadsHeader(data, 0, idx, body)
  BY DrwHeader
<1>3. From(data, 12) = text /\ Len(text) \in Nat /\ Len(body) = 8 + Len(text)
  <2>1. Len(text) \in Nat /\ Len(body) = 8 + Len(text) /\ From(body, 8) = text
    BY DEF StartsWith8
  <2>2. From(data, 12) = From(body, 8)
    <3>1. 8 <= Len(body)
      BY <2>1
    <3>2. QED
      BY <3>1, CutsLater DEF IsDrw
  <2>3. QED
    BY <2>1, <2>2
<1>4. Slice(data, 4, 8) = <<6, 10, c, d>>
  <2>1. 4 <= Len(body)
    BY <1>3
  <2>2. Slice(data, 4, 8) = Slice(body, 0, 4)
    BY <2>1, SlicesLater DEF IsDrw
  <2>3. QED
    BY <2>2 DEF StartsWith8
<1>5. Slice(data, 4, 6) = JSON_MARK
  BY <1>2 DEF ReadsHeader, StartsWith8, JSON_MARK
<1>6. ~(Len(data) < 4) /\ Len(data) >= 4 /\ FromU16(Slice(data, 2, 4)) = idx
  BY <1>2 DEF ReadsHeader
<1> HIDE DEF text
<1>7. QED
  BY <1>1, <1>3, <1>4, <1>5, <1>6 DEF ParseDrw

\* An element beyond the four is an element of the rest.
LEMMA ElementLater ==
  ASSUME NEW s, NEW a, NEW b, NEW c, NEW d, NEW rest, Begins4(s, a, b, c, d, rest),
         NEW i \in 1..Len(rest), NEW j, j = i + 4
  PROVE  s[j] = rest[i]
BY DEF Begins4

----------------------------------------------------------------------------
\* The payload of a command.
Flip(x) == IF x % 2 = 1 THEN x - 1 ELSE x + 1

\* The last bit, changed twice, is as it was.
LEMMA FlipTwice ==
  ASSUME NEW x \in Int
  PROVE  Flip(Flip(x)) = x
BY DEF Flip

\* Flipped changes each element.
LEMMA FlippedIs ==
  ASSUME NEW s \in Seq(Int)
  PROVE  /\ Flipped(s) \in Seq(Int) /\ Len(Flipped(s)) = Len(s)
         /\ \A i \in 1..Len(s) : Flipped(s)[i] = Flip(s[i])
BY DEF Flipped, Flip

IsRotated(u, s, k) ==
  /\ u \in Seq(Int) /\ Len(u) = Len(s)
  /\ \A i \in 1..(Len(s) - k) : u[i] = s[i + k]
  /\ \A i \in 1..k : u[i + (Len(s) - k)] = s[i]

\* Rotated moves each element, and the first ones to the end.
LEMMA RotatedIs ==
  ASSUME NEW s \in Seq(Int), NEW k \in Nat, k <= Len(s)
  PROVE  IsRotated(Rotated(s, k), s, k)
<1> DEFINE a == SubSeq(s, k + 1, Len(s))
           b == SubSeq(s, 0 + 1, k)
<1>1. IsPart(a, s, k, Len(s)) /\ IsPart(b, s, 0, k) /\ Len(s) \in Nat
  <2>1. Len(s) \in Nat
    OBVIOUS
  <2>2. QED
    BY <2>1, Part
<1>2. Rotated(s, k) = a \o b
  BY DEF Rotated
<1> HIDE DEF a, b
<1>3. IsJoined(a \o b, a, b)
  BY <1>1, Joined DEF IsPart
<1>4. Len(a) = Len(s) - k /\ Len(b) = k
  BY <1>1 DEF IsPart
<1>5. a \o b \in Seq(Int) /\ Len(a \o b) = Len(s)
  BY <1>1, <1>3, <1>4 DEF IsJoined
<1>6. ASSUME NEW i \in 1..(Len(s) - k) PROVE (a \o b)[i] = s[i + k]
  BY <1>1, <1>3, <1>4 DEF IsJoined, IsPart
<1>7. ASSUME NEW i \in 1..k PROVE (a \o b)[i + (Len(s) - k)] = s[i]
  <2>1. (a \o b)[i + Len(a)] = b[i]
    BY <1>3, <1>4 DEF IsJoined
  <2>2. b[i] = s[i + 0] /\ i + 0 = i
    BY <1>1 DEF IsPart
  <2>3. QED
    BY <1>4, <2>1, <2>2
<1>8. QED
  BY <1>2, <1>5, <1>6, <1>7 DEF IsRotated

\* A payload that is encoded is decoded.
LEMMA XqIsInverse ==
  ASSUME NEW s \in Seq(Int), NEW shift \in Nat
  PROVE  XqDecode(XqEncode(s, shift), shift) = s /\ XqEncode(s, shift) \in Seq(Int)
         /\ Len(XqEncode(s, shift)) = Len(s)
<1>1. CASE s = <<>>
  BY <1>1 DEF XqDecode, XqEncode
<1>2. CASE s # <<>>
  <2> DEFINE n == Len(s)
             k == shift % n
             f == Flipped(s)
             e == Rotated(f, k)
             g == Flipped(e)
             r == Rotated(g, n - k)
  <2>1. n \in Nat /\ n > 0 /\ k \in Nat /\ k < n /\ n - k \in Nat
    <3>1. n \in Nat /\ n > 0
      BY <1>2
    <3> HIDE DEF n
    <3>2. QED
      BY <3>1
  <2>2. f \in Seq(Int) /\ Len(f) = n
        /\ \A i \in 1..n : f[i] = Flip(s[i])
    BY FlippedIs
  <2>3. XqEncode(s, shift) = e
    BY <1>2 DEF XqEncode
  <2> HIDE DEF f, k
  <2>4. IsRotated(e, f, k)
    BY <2>1, <2>2, RotatedIs
  <2>5. e \in Seq(Int) /\ Len(e) = n
    BY <2>2, <2>4 DEF IsRotated
  <2> HIDE DEF e
  <2>6. g \in Seq(Int) /\ Len(g) = n
        /\ \A i \in 1..n : g[i] = Flip(e[i])
    BY <2>5, FlippedIs
  <2>7. XqDecode(e, shift) = r
    <3>1. e # <<>> /\ shift % Len(e) = k
      BY <2>1, <2>5 DEF k
    <3>2. QED
      BY <2>5, <3>1 DEF XqDecode
  <2> HIDE DEF g
  <2>8. IsRotated(r, g, n - k)
    BY <2>1, <2>6, RotatedIs
  <2>9. r \in Seq(Int) /\ Len(r) = n
    BY <2>6, <2>8 DEF IsRotated
  <2> HIDE DEF r
  <2>10. ASSUME NEW i \in 1..n PROVE r[i] = s[i]
    <3>1. CASE i <= k
      <4>1. r[i] = g[i + (n - k)]
        BY <2>1, <2>6, <2>8, <3>1 DEF IsRotated
      <4>2. e[i + (n - k)] = f[i]
        BY <2>1, <2>2, <2>4, <3>1 DEF IsRotated
      <4>3. i + (n - k) \in 1..n
        BY <2>1, <3>1
      <4>4. r[i] = Flip(f[i]) /\ f[i] = Flip(s[i]) /\ s[i] \in Int
        BY <2>2, <2>6, <4>1, <4>2, <4>3
      <4>5. QED
        BY <4>4, FlipTwice
    <3>2. CASE i > k
      <4> DEFINE j == i - k
      <4>1. j \in 1..(n - k) /\ j \in 1..n /\ j + k = i /\ j + (n - (n - k)) = i
        BY <2>1, <3>2
      <4>2. r[j + (n - (n - k))] = g[j]
        BY <2>1, <2>6, <2>8, <4>1 DEF IsRotated
      <4>3. e[j] = f[j + k]
        BY <2>1, <2>2, <2>4, <4>1 DEF IsRotated
      <4> HIDE DEF j
      <4>4. r[i] = Flip(f[i]) /\ f[i] = Flip(s[i]) /\ s[i] \in Int
        BY <2>2, <2>6, <4>1, <4>2, <4>3
      <4>5. QED
        BY <4>4, FlipTwice
    <3>3. QED
      BY <2>1, <3>1, <3>2
  <2>11. r = s
    BY <2>9, <2>10, Same
  <2>12. QED
    BY <2>3, <2>5, <2>7, <2>11
<1>3. QED
  BY <1>1, <1>2

\* A command is read with its token and its payload.
LEMMA ParseCommandOf ==
  ASSUME NEW data, NEW idx \in Nat, NEW c \in BinaryCommands, NEW token \in Seq(Int),
         NEW payload \in Seq(Int), NEW body \in Seq(Int), NEW rest \in Seq(Int), Len(token) = 4,
         StartsWith8(body, 17, 10, Lo(c), Hi(c), rest),
         Begins4(rest, token[1], token[2], token[3], token[4], XqEncode(payload, 4)),
         IsDrw(data, 0, idx, body)
  PROVE  ParseDrw(data) = Command(idx, c, token, payload)
<1> DEFINE xq == XqEncode(payload, 4)
<1>1. XqDecode(xq, 4) = payload /\ xq \in Seq(Int)
  BY XqIsInverse
<1>2. ReadsHeader(data, 0, idx, body)
  BY DrwHeader
<1>3. From(data, 12) = rest /\ Len(rest) \in Nat /\ Len(body) = 8 + Len(rest)
  <2>1. Len(rest) \in Nat /\ Len(body) = 8 + Len(rest) /\ From(body, 8) = rest
    BY DEF StartsWith8
  <2>2. From(data, 12) = From(body, 8)
    <3>1. 8 <= Len(body)
      BY <2>1
    <3>2. QED
      BY <3>1, CutsLater DEF IsDrw
  <2>3. QED
    BY <2>1, <2>2
<1> HIDE DEF xq
<1>4. Len(rest) >= 4 /\ From(rest, 4) = xq /\ Slice(rest, 0, 4) = token
  <2>1. token[1] \in Int /\ token[2] \in Int /\ token[3] \in Int /\ token[4] \in Int
    <3>1. \A i \in 1..Len(token) : token[i] \in Int
      BY ElementOfSeq
    <3>2. QED
      BY <3>1
  <2>2. From(rest, 4) = xq /\ Slice(rest, 0, 4) = <<token[1], token[2], token[3], token[4]>>
    BY <1>1, <2>1, Cuts4 DEF xq
  <2>3. token = <<token[1], token[2], token[3], token[4]>>
    OBVIOUS
  <2>4. Len(rest) >= 4
    <3>1. Len(rest) = 4 + Len(xq) /\ Len(xq) \in Nat
      BY <1>1 DEF Begins4, xq
    <3>2. QED
      BY <3>1
  <2>5. QED
    BY <2>2, <2>3, <2>4
<1>5. FromU16(<<data[8], data[7]>>) = c
  <2>1. body[3] = Lo(c) /\ body[4] = Hi(c)
    BY DEF StartsWith8
  <2>2. 3 \in 1..Len(body) /\ 4 \in 1..Len(body)
    BY <1>3
  <2>3. data[7] = body[3] /\ data[8] = body[4]
    BY <2>2, ElementLater DEF IsDrw
  <2>4. c \in Nat
    BY DEF BinaryCommands
  <2>5. FromU16(<<Hi(c), Lo(c)>>) = c
    BY <2>4, HiAndLo
  <2>6. QED
    BY <2>1, <2>3, <2>5
<1>6. Slice(data, 4, 6) = START_CMD /\ START_CMD # JSON_MARK
  BY <1>2 DEF ReadsHeader, StartsWith8, JSON_MARK, START_CMD
<1>7. ~(Len(data) < 4) /\ ~(Len(data) < 12) /\ FromU16(Slice(data, 2, 4)) = idx
  <2>1. Len(data) = 4 + Len(body) /\ FromU16(Slice(data, 2, 4)) = idx
    BY <1>2 DEF ReadsHeader
  <2>2. QED
    BY <1>3, <2>1
<1>8. ParseDrw(data) = ParseCommand(idx, c, rest)
  BY <1>3, <1>5, <1>6, <1>7 DEF ParseDrw
<1>9. ~(Len(rest) < 4)
  BY <1>3, <1>4
<1>10. QED
  BY <1>1, <1>4, <1>8, <1>9 DEF ParseCommand

----------------------------------------------------------------------------
\* Packets, as they are written and as they are parsed.

\* A byte is an integer.
LEMMA ByteIsInt == ASSUME NEW x \in Byte PROVE x \in Int
BY DEF Byte

\* An element of the second part.
LEMMA JoinedAt ==
  ASSUME NEW u, NEW s, NEW t, IsJoined(u, s, t), NEW i \in 1..Len(t), NEW j, j = i + Len(s)
  PROVE  u[j] = t[i]
BY DEF IsJoined

\* Two and two are four.
LEMMA Pairs ==
  ASSUME NEW a \in Int, NEW b \in Int, NEW c \in Int, NEW d \in Int
  PROVE  <<a, b>> \o <<c, d>> = <<a, b, c, d>>
<1> DEFINE s == <<a, b>>
           t == <<c, d>>
           u == <<a, b, c, d>>
<1>1. /\ s \in Seq(Int) /\ Len(s) = 2 /\ s[1] = a /\ s[2] = b
      /\ t \in Seq(Int) /\ Len(t) = 2 /\ t[1] = c /\ t[2] = d
      /\ u \in Seq(Int) /\ Len(u) = 4 /\ u[1] = a /\ u[2] = b /\ u[3] = c /\ u[4] = d
  OBVIOUS
<1> HIDE DEF s, t, u
<1>2. IsJoined(s \o t, s, t)
  BY <1>1, Joined
<1>3. s \o t \in Seq(Int) /\ Len(s \o t) = 4
  BY <1>1, <1>2 DEF IsJoined
<1>4. (s \o t)[1] = a /\ (s \o t)[2] = b
  BY <1>1, <1>2 DEF IsJoined
<1>5. (s \o t)[3] = c /\ (s \o t)[4] = d
  <2>1. /\ 1 \in 1..Len(t) /\ 2 \in 1..Len(t)
        /\ 3 = 1 + Len(s) /\ 4 = 2 + Len(s)
    BY <1>1
  <2>2. (s \o t)[3] = t[1] /\ (s \o t)[4] = t[2]
    BY <1>2, <2>1, JoinedAt
  <2>3. QED
    BY <1>1, <2>2
<1>6. ASSUME NEW i \in 1..4 PROVE (s \o t)[i] = u[i]
  <2>1. i = 1 \/ i = 2 \/ i = 3 \/ i = 4
    OBVIOUS
  <2>2. QED
    BY <1>1, <1>4, <1>5, <2>1
<1>7. s \o t = u
  BY <1>1, <1>3, <1>6, Same
<1>8. QED
  BY <1>7 DEF s, t, u

\* What is put together can be put together in any order.
LEMMA Associates ==
  ASSUME NEW s \in Seq(Int), NEW t \in Seq(Int), NEW u \in Seq(Int)
  PROVE  (s \o t) \o u = s \o (t \o u)
BY ConcatAssociative

\* A packet is its header and its payload.
LEMMA BytesOf ==
  ASSUME NEW p, p.type \in Byte, Payload(p) \in Seq(Byte), Len(Payload(p)) < 65536
  PROVE  /\ Bytes(p) \in Seq(Byte)
         /\ Begins4(Bytes(p), CAM_MAGIC, p.type, Hi(Len(Payload(p))), Lo(Len(Payload(p))),
                    Payload(p))
<1> DEFINE n == Len(Payload(p))
           t == p.type
           body == Payload(p)
<1>1. n \in Nat /\ n < 65536
  OBVIOUS
<1>2. Bytes(p) = <<CAM_MAGIC, t>> \o U16(n) \o body
  BY DEF Bytes
<1> HIDE DEF n, t, body
<1>3. U16(n) = <<Hi(n), Lo(n)>> /\ Hi(n) \in Byte /\ Lo(n) \in Byte
  BY <1>1, TwoBytes
<1>4. CAM_MAGIC \in Byte /\ t \in Byte /\ body \in Seq(Byte)
  BY DEF CAM_MAGIC, Byte, t, body
<1>5. <<CAM_MAGIC, t>> \o <<Hi(n), Lo(n)>> = <<CAM_MAGIC, t, Hi(n), Lo(n)>>
  BY <1>3, <1>4, Pairs, ByteIsInt
<1>6. Bytes(p) = <<CAM_MAGIC, t, Hi(n), Lo(n)>> \o body
  BY <1>2, <1>3, <1>5
<1>7. Bytes(p) \in Seq(Byte)
  BY <1>3, <1>4, <1>6, FourBytesThen
<1>8. CAM_MAGIC \in Int /\ t \in Int /\ Hi(n) \in Int /\ Lo(n) \in Int /\ body \in Seq(Int)
  BY <1>3, <1>4, BytesAreInts, ByteIsInt
<1>9. Begins4(<<CAM_MAGIC, t, Hi(n), Lo(n)>> \o body, CAM_MAGIC, t, Hi(n), Lo(n), body)
  BY <1>8, FourThen
<1>10. QED
  BY <1>6, <1>7, <1>9 DEF n, t, body

Indexed == {n \in Nat : n < 65536}

\* The payload of a DRW: four bytes of its own and what its class adds.
LEMMA DrwOf ==
  ASSUME NEW p, p.type = Drw, p.channel \in Byte, p.idx \in Indexed, DrwPayload(p) \in Seq(Byte),
         Len(DrwPayload(p)) < 65532
  PROVE  /\ Payload(p) \in Seq(Byte) /\ Len(Payload(p)) < 65536
         /\ IsDrw(Payload(p), p.channel, p.idx, DrwPayload(p))
<1> DEFINE ch == p.channel
           n == p.idx
           body == DrwPayload(p)
<1>1. n \in Nat /\ n < 65536
  BY DEF Indexed
<1>2. Payload(p) = <<209, ch>> \o U16(n) \o body
  BY DEF Payload
<1>3. 209 \in Byte /\ ch \in Byte /\ body \in Seq(Byte) /\ Len(body) < 65532 /\ Len(body) \in Nat
  BY DEF Byte
<1> HIDE DEF ch, n, body
<1>4. U16(n) = <<Hi(n), Lo(n)>> /\ Hi(n) \in Byte /\ Lo(n) \in Byte
  BY <1>1, TwoBytes
<1>5. <<209, ch>> \o <<Hi(n), Lo(n)>> = <<209, ch, Hi(n), Lo(n)>>
  BY <1>3, <1>4, Pairs, ByteIsInt
<1>6. Payload(p) = <<209, ch, Hi(n), Lo(n)>> \o body
  BY <1>2, <1>4, <1>5
<1>7. Payload(p) \in Seq(Byte)
  BY <1>3, <1>4, <1>6, FourBytesThen
<1>8. 209 \in Int /\ ch \in Int /\ Hi(n) \in Int /\ Lo(n) \in Int /\ body \in Seq(Int)
  BY <1>3, <1>4, BytesAreInts, ByteIsInt
<1>9. Begins4(<<209, ch, Hi(n), Lo(n)>> \o body, 209, ch, Hi(n), Lo(n), body)
  BY <1>8, FourThen
<1>10. Begins4(Payload(p), 209, ch, Hi(n), Lo(n), body)
  BY <1>6, <1>9
<1>11. Payload(p) \in Seq(Int) /\ Len(Payload(p)) < 65536
  BY <1>3, <1>10 DEF Begins4
<1>12. QED
  BY <1>7, <1>10, <1>11 DEF ch, n, body, IsDrw

\* What is read of a packet that is sent.
IsRead(p) ==
  /\ Bytes(p) \in Seq(Byte) /\ Len(Bytes(p)) >= 4 /\ Bytes(p)[1] = CAM_MAGIC
  /\ ParsePacket(Bytes(p)) = p

\* Every packet that is no DRW is read as it was sent; of an alive packet only an
\* empty one is sent.
LEMMA PlainIsRead ==
  ASSUME NEW t \in PacketTypes \ {Drw}, NEW payload \in Seq(Byte), Len(payload) < 65536,
         t = P2PAlive => payload = <<>>
  PROVE  IsRead(Plain(t, payload))
<1> DEFINE p == Plain(t, payload)
           n == Len(payload)
<1>1. p.type = t /\ p.type # Drw /\ p.payload = payload
  BY DEF Plain
<1>2. t \in Byte
  BY DEF PacketTypes, Close, P2PAlive, P2PAliveAck, Drw, DrwAck, LanSearch,
         LanSearchExt, PunchPkt, P2pRdy, Byte
<1>3. Payload(p) = payload
  BY <1>1 DEF Payload
<1> HIDE DEF p
<1>4. Bytes(p) \in Seq(Byte) /\ Begins4(Bytes(p), CAM_MAGIC, t, Hi(n), Lo(n), payload)
  BY <1>1, <1>2, <1>3, BytesOf
<1>5. n \in Nat /\ payload \in Seq(Int)
  BY BytesAreInts
<1>6. Hi(n) \in Int /\ Lo(n) \in Int /\ FromU16(<<Hi(n), Lo(n)>>) = n
  BY <1>5, HiAndLo
<1>7. ParsePacket(Bytes(p)) = Plain(t, IF t = P2PAlive /\ n # n THEN <<>> ELSE payload)
  BY <1>4, <1>5, <1>6, ParsePlain
<1>8. Len(Bytes(p)) >= 4 /\ Bytes(p)[1] = CAM_MAGIC
  BY <1>4, <1>5 DEF Begins4
<1>9. QED
  BY <1>4, <1>6, <1>7, <1>8 DEF IsRead, p

\* Every DRW reaches parse_drw_pkt() with its header and body.
LEMMA DrwIsRead ==
  ASSUME NEW p, p.type = Drw, p.channel \in Byte, p.idx \in Indexed, DrwPayload(p) \in Seq(Byte),
         Len(DrwPayload(p)) < 65532
  PROVE  /\ Bytes(p) \in Seq(Byte) /\ Len(Bytes(p)) >= 4 /\ Bytes(p)[1] = CAM_MAGIC
         /\ ParsePacket(Bytes(p)) = ParseDrw(Payload(p))
         /\ IsDrw(Payload(p), p.channel, p.idx, DrwPayload(p))
<1> DEFINE n == Len(Payload(p))
<1>1. Payload(p) \in Seq(Byte) /\ n < 65536 /\ IsDrw(Payload(p), p.channel, p.idx, DrwPayload(p))
  BY DrwOf
<1>2. Drw \in Byte
  BY DEF Drw, Byte
<1>3. Bytes(p) \in Seq(Byte) /\ Begins4(Bytes(p), CAM_MAGIC, Drw, Hi(n), Lo(n), Payload(p))
  BY <1>1, <1>2, BytesOf
<1>4. Payload(p) \in Seq(Int) /\ n \in Nat
  BY <1>1, BytesAreInts
<1>5. Hi(n) \in Int /\ Lo(n) \in Int /\ FromU16(<<Hi(n), Lo(n)>>) = n
  <2> HIDE DEF n
  <2>1. QED
    BY <1>4, HiAndLo
<1>6. ParsePacket(Bytes(p)) = ParseDrw(Payload(p))
  BY <1>3, <1>4, <1>5, ParseOfDrw
<1>7. Len(Bytes(p)) >= 4 /\ Bytes(p)[1] = CAM_MAGIC
  BY <1>3, <1>4 DEF Begins4
<1>8. QED
  BY <1>1, <1>3, <1>6, <1>7

\* A DRW of bytes that do not start like a command or a document is read as it was
\* sent, whatever the channel.
LEMMA RawIsRead ==
  ASSUME NEW ch \in Channels, NEW idx \in Indexed, NEW payload \in Seq(Byte), Len(payload) < 65532,
         Slice(payload, 0, 2) \notin {START_CMD, JSON_MARK}
  PROVE  IsRead(Raw(ch, idx, payload))
<1> DEFINE p == Raw(ch, idx, payload)
<1>1. p.type = Drw /\ p.channel = ch /\ p.idx = idx /\ DrwPayload(p) = payload
  BY DEF Raw, DrwPayload
<1>2. ch \in Byte /\ idx \in Nat /\ payload \in Seq(Int)
  BY BytesAreInts DEF Channels, Byte, Indexed
<1> HIDE DEF p
<1>3. /\ Bytes(p) \in Seq(Byte) /\ Len(Bytes(p)) >= 4 /\ Bytes(p)[1] = CAM_MAGIC
      /\ ParsePacket(Bytes(p)) = ParseDrw(Payload(p))
      /\ IsDrw(Payload(p), ch, idx, payload)
  BY <1>1, <1>2, DrwIsRead
<1>4. ParseDrw(Payload(p)) = Raw(ch, idx, payload)
  BY <1>2, <1>3, ParseRaw
<1>5. QED
  BY <1>3, <1>4 DEF IsRead, p

\* A sequence of bytes, element by element.
LEMMA AllBytes ==
  ASSUME NEW u \in Seq(Int), \A i \in 1..Len(u) : u[i] \in Byte
  PROVE  u \in Seq(Byte)
OBVIOUS

\* A byte with its last bit changed is a byte.
LEMMA FlipIsByte ==
  ASSUME NEW x \in Byte
  PROVE  Flip(x) \in Byte
<1>1. x \in Int /\ 0 <= x /\ x <= 255
  BY DEF Byte
<1>2. CASE x % 2 = 1
  <2>1. x # 0
    BY <1>2
  <2>2. Flip(x) = x - 1 /\ Flip(x) \in Int /\ 0 <= Flip(x) /\ Flip(x) <= 255
    BY <1>1, <1>2, <2>1 DEF Flip
  <2>3. QED
    BY <2>2 DEF Byte
<1>3. CASE x % 2 # 1
  <2>1. x # 255
    BY <1>3
  <2>2. Flip(x) = x + 1 /\ Flip(x) \in Int /\ 0 <= Flip(x) /\ Flip(x) <= 255
    BY <1>1, <1>3, <2>1 DEF Flip
  <2>3. QED
    BY <2>2 DEF Byte
<1>4. QED
  BY <1>2, <1>3

\* What xq_bytes_encode() returns are bytes.
LEMMA XqIsBytes ==
  ASSUME NEW s \in Seq(Byte), NEW shift \in Nat
  PROVE  XqEncode(s, shift) \in Seq(Byte)
<1>1. CASE s = <<>>
  BY <1>1 DEF XqEncode
<1>2. CASE s # <<>>
  <2> DEFINE n == Len(s)
             k == shift % n
             f == Flipped(s)
             e == Rotated(f, k)
  <2>1. n \in Nat /\ n > 0 /\ k \in Nat /\ k < n /\ s \in Seq(Int)
    <3>1. n \in Nat /\ n > 0 /\ s \in Seq(Int)
      BY <1>2, BytesAreInts
    <3> HIDE DEF n
    <3>2. QED
      BY <3>1
  <2>2. XqEncode(s, shift) = e
    BY <1>2 DEF XqEncode
  <2>3. f \in Seq(Int) /\ Len(f) = n /\ \A i \in 1..n : f[i] = Flip(s[i])
    BY <2>1, FlippedIs
  <2>4. ASSUME NEW i \in 1..n PROVE f[i] \in Byte
    <3>1. s[i] \in Byte
      BY ElementOfSeq
    <3>2. f[i] = Flip(s[i])
      BY <2>3
    <3>3. QED
      BY <3>1, <3>2, FlipIsByte
  <2> HIDE DEF f, k, n
  <2>5. IsRotated(e, f, k)
    BY <2>1, <2>3, RotatedIs
  <2> HIDE DEF e
  <2>6. e \in Seq(Int) /\ Len(e) = n
    BY <2>3, <2>5 DEF IsRotated
  <2>7. ASSUME NEW i \in 1..n PROVE e[i] \in Byte
    <3>1. CASE i <= n - k
      <4>1. e[i] = f[i + k] /\ i + k \in 1..n
        BY <2>1, <2>3, <2>5, <3>1 DEF IsRotated
      <4>2. QED
        BY <2>4, <4>1
    <3>2. CASE ~(i <= n - k)
      <4> DEFINE j == i - (n - k)
      <4>1. j \in 1..k /\ j \in 1..n /\ j + (n - k) = i
        BY <2>1, <3>2
      <4> HIDE DEF j
      <4>2. e[j + (n - k)] = f[j]
        BY <2>3, <2>5, <4>1 DEF IsRotated
      <4>3. QED
        BY <2>4, <4>1, <4>2
    <3>3. QED
      BY <3>1, <3>2
  <2>8. QED
    BY <2>2, <2>6, <2>7, AllBytes
<1>3. QED
  BY <1>1, <1>2

Cat(s, t) == s \o t

\* As Associates, for Cat.
LEMMA CatAssociates ==
  ASSUME NEW s \in Seq(Int), NEW t \in Seq(Int), NEW u \in Seq(Int)
  PROVE  Cat(s, t) \in Seq(Int) /\ Cat(Cat(s, t), u) = Cat(s, Cat(t, u))
<1>1. s \o t \in Seq(Int)
  BY ConcatProperties
<1>2. (s \o t) \o u = s \o (t \o u)
  BY ConcatAssociative
<1>3. QED
  BY <1>1, <1>2 DEF Cat

\* Four parts, as a JSON command is put and as it is read.
LEMMA Nested ==
  ASSUME NEW s \in Seq(Int), NEW t \in Seq(Int), NEW u \in Seq(Int), NEW v \in Seq(Int)
  PROVE  Cat(Cat(Cat(s, t), u), v) = Cat(s, Cat(Cat(t, u), v))
BY CatAssociates

\* Six parts, as a binary command is put and as it is read.
LEMMA NestedTwice ==
  ASSUME NEW r \in Seq(Int), NEW s \in Seq(Int), NEW t \in Seq(Int), NEW u \in Seq(Int),
         NEW v \in Seq(Int), NEW w \in Seq(Int)
  PROVE  Cat(Cat(Cat(Cat(Cat(r, s), t), u), v), w)
           = Cat(Cat(r, s), Cat(Cat(t, u), Cat(v, w)))
<1>1. Cat(r, s) \in Seq(Int) /\ Cat(t, u) \in Seq(Int)
  BY CatAssociates
<1>2. Cat(Cat(Cat(r, s), t), u) = Cat(Cat(r, s), Cat(t, u))
  BY <1>1, CatAssociates
<1>3. Cat(Cat(Cat(Cat(r, s), Cat(t, u)), v), w) = Cat(Cat(r, s), Cat(Cat(Cat(t, u), v), w))
  BY <1>1, Nested
<1>4. Cat(Cat(Cat(t, u), v), w) = Cat(Cat(t, u), Cat(v, w))
  BY <1>1, CatAssociates
<1>5. QED
  BY <1>2, <1>3, <1>4

\* Two and two are four, for Cat.
LEMMA SmallSeqs ==
  ASSUME NEW a \in Int, NEW b \in Int, NEW c \in Int, NEW d \in Int
  PROVE  /\ <<a, b>> \in Seq(Int) /\ <<c, d>> \in Seq(Int) /\ <<a, b, c, d>> \in Seq(Int)
         /\ Cat(<<a, b>>, <<c, d>>) = <<a, b, c, d>>
BY Pairs DEF Cat

AreInts(a, b, c, d, e, f, g, h) ==
  /\ a \in Int /\ b \in Int /\ c \in Int /\ d \in Int
  /\ e \in Int /\ f \in Int /\ g \in Int /\ h \in Int

\* The header of a JSON command, put together from its parts.
IsPutBefore(a, b, c, d, e, f, g, h, rest) ==
  Cat(Cat(Cat(<<a, b, c, d>>, <<e, f>>), <<g, h>>), rest)
    = Cat(<<a, b, c, d>>, Cat(<<e, f, g, h>>, rest))

\* The preamble of a document and what is after it, as it is read.
LEMMA JsonHeader ==
  ASSUME NEW a, NEW b, NEW c, NEW d, NEW e, NEW f, NEW g, NEW h, AreInts(a, b, c, d, e, f, g, h),
         NEW rest \in Seq(Int)
  PROVE  IsPutBefore(a, b, c, d, e, f, g, h, rest)
<1> DEFINE s == <<a, b, c, d>>
           t == <<e, f>>
           u == <<g, h>>
           v == <<e, f, g, h>>
<1>1. s \in Seq(Int) /\ t \in Seq(Int) /\ u \in Seq(Int) /\ Cat(t, u) = v
  BY SmallSeqs DEF AreInts
<1> HIDE DEF s, t, u, v
<1>2. Cat(Cat(Cat(s, t), u), rest) = Cat(s, Cat(v, rest))
  BY <1>1, Nested
<1>3. QED
  BY <1>2 DEF s, t, u, v, IsPutBefore

Six(r, s, t, u, v, w) == r \o s \o t \o u \o v \o w

\* The header of a binary command.
IsPutTogether(a, b, c, d, e, f, g, h, token, rest) ==
  Six(<<a, b>>, <<c, d>>, <<e, f>>, <<g, h>>, token, rest)
    = Cat(<<a, b, c, d>>, Cat(<<e, f, g, h>>, Cat(token, rest)))

\* The header of a binary command, its token and its payload, as they are read.
LEMMA CommandHeader ==
  ASSUME NEW a, NEW b, NEW c, NEW d, NEW e, NEW f, NEW g, NEW h, AreInts(a, b, c, d, e, f, g, h),
         NEW token \in Seq(Int), NEW rest \in Seq(Int)
  PROVE  IsPutTogether(a, b, c, d, e, f, g, h, token, rest)
<1> DEFINE p == <<a, b>>
           q == <<c, d>>
           t == <<e, f>>
           u == <<g, h>>
           v == <<a, b, c, d>>
           w == <<e, f, g, h>>
<1>1. p \in Seq(Int) /\ q \in Seq(Int) /\ Cat(p, q) = v
  BY SmallSeqs DEF AreInts
<1>2. t \in Seq(Int) /\ u \in Seq(Int) /\ Cat(t, u) = w
  BY SmallSeqs DEF AreInts
<1> HIDE DEF p, q, t, u, v, w
<1>3. Cat(Cat(Cat(Cat(Cat(p, q), t), u), token), rest) = Cat(v, Cat(w, Cat(token, rest)))
  BY <1>1, <1>2, NestedTwice
<1>4. Six(p, q, t, u, token, rest) = Cat(v, Cat(w, Cat(token, rest)))
  BY <1>3, Zenon DEF Cat, Six
<1>5. QED
  BY <1>4 DEF p, q, t, u, v, w, IsPutTogether

\* The documents are bytes, and fit a packet.
LEMMA JsonIsShort ==
  ASSUME NEW doc \in DOMAIN JsonText
  PROVE  JsonText[doc] \in Seq(Byte) /\ Len(JsonText[doc]) < 65500
<1>1. doc = "empty" \/ doc = "user"
  BY DEF JsonText
<1>2. JsonText["empty"] = <<123, 125>> /\ JsonText["user"] = <<123, 34, 117, 34, 58, 49, 125>>
  BY DEF JsonText
<1>3. Len(<<123, 125>>) = 2 /\ Len(<<123, 34, 117, 34, 58, 49, 125>>) = 7
  OBVIOUS
<1>4. Len(JsonText["empty"]) < 65500 /\ Len(JsonText["user"]) < 65500
  BY <1>2, <1>3
<1>5. QED
  BY <1>1, <1>4, JsonTexts

\* The length of what begins with four bytes.
LEMMA FourLonger ==
  ASSUME NEW s, NEW a, NEW b, NEW c, NEW d, NEW rest \in Seq(Int), Begins4(s, a, b, c, d, rest)
  PROVE  s \in Seq(Int) /\ Len(s) = 4 + Len(rest) /\ Len(rest) \in Nat
BY DEF Begins4

\* Every JSON command is read as it was sent.
LEMMA JsonIsRead ==
  ASSUME NEW idx \in Indexed, NEW c \in Byte, NEW d \in Byte, NEW doc \in DOMAIN JsonText
  PROVE  IsRead(Json(idx, <<6, 10, c, d>>, doc))
<1> DEFINE p == Json(idx, <<6, 10, c, d>>, doc)
           text == JsonText[doc]
           n == Len(text)
           later == <<Lo(n), Hi(n), 0, 0>> \o text
           body == <<6, 10, c, d>> \o later
<1>1. text \in Seq(Byte) /\ n < 65500
  BY JsonIsShort
<1>2. text \in Seq(Int) /\ n \in Nat
  BY <1>1, BytesAreInts
<1>3. p.type = Drw /\ p.channel = 0 /\ p.idx = idx /\ p.preamble = <<6, 10, c, d>> /\ p.doc = doc
      /\ "doc" \in DOMAIN p
  BY DEF Json
<1>4. DrwPayload(p) = <<6, 10, c, d>> \o U16le(n) \o Zeros(2) \o text
  BY <1>3 DEF DrwPayload
<1> HIDE DEF p, text, n
<1>5. Lo(n) \in Byte /\ Hi(n) \in Byte /\ U16le(n) = <<Lo(n), Hi(n)>>
  <2>1. n < 65536
    BY <1>1, <1>2
  <2>2. QED
    BY <1>2, <2>1, TwoBytes
<1>6. 0 \in Byte /\ 6 \in Byte /\ 10 \in Byte
  BY DEF Byte
<1>7. Zeros(2) = <<0, 0>>
  BY DEF Zeros
<1>8. later \in Seq(Byte)
  BY <1>1, <1>5, <1>6, FourBytesThen
<1>9. /\ 0 \in Int /\ 6 \in Int /\ 10 \in Int
      /\ Lo(n) \in Int /\ Hi(n) \in Int /\ c \in Int /\ d \in Int
  BY <1>5, ByteIsInt
<1>10. Begins4(later, Lo(n), Hi(n), 0, 0, text)
  BY <1>2, <1>9, FourThen
<1>11. DrwPayload(p) = body
  <2>1. DrwPayload(p) = <<6, 10, c, d>> \o <<Lo(n), Hi(n)>> \o <<0, 0>> \o text
    BY <1>4, <1>5, <1>7
  <2>2. AreInts(6, 10, c, d, Lo(n), Hi(n), 0, 0)
    BY <1>9 DEF AreInts
  <2>3. IsPutBefore(6, 10, c, d, Lo(n), Hi(n), 0, 0, text)
    <3> HIDE DEF body, later
    <3>1. QED
      BY <1>2, <2>2, JsonHeader
  <2>4. QED
    BY <2>1, <2>3, Zenon DEF Cat, IsPutBefore
<1> HIDE DEF later
<1>12. body \in Seq(Byte)
  BY <1>6, <1>8, FourBytesThen
<1>13. later \in Seq(Int)
  BY <1>8, BytesAreInts
<1>14. Begins4(body, 6, 10, c, d, later)
  BY <1>9, <1>13, FourThen
<1> HIDE DEF body
<1>15. Len(body) < 65532 /\ body \in Seq(Int)
  <2>1. later \in Seq(Int) /\ Len(later) = 4 + n
    BY <1>2, <1>10, FourLonger DEF n
  <2>2. body \in Seq(Int) /\ Len(body) = 4 + Len(later)
    BY <1>14, <2>1, FourLonger
  <2>3. QED
    BY <1>1, <1>2, <2>1, <2>2
<1>16. StartsWith8(body, 6, 10, c, d, text)
  BY <1>2, <1>9, <1>10, <1>13, <1>14, EightThen
<1>17. /\ Bytes(p) \in Seq(Byte) /\ Len(Bytes(p)) >= 4 /\ Bytes(p)[1] = CAM_MAGIC
       /\ ParsePacket(Bytes(p)) = ParseDrw(Payload(p))
       /\ IsDrw(Payload(p), 0, idx, body)
  BY <1>3, <1>6, <1>11, <1>12, <1>15, DrwIsRead
<1>18. ParseDrw(Payload(p)) = Json(idx, <<6, 10, c, d>>, doc)
  <2>1. idx \in Nat
    BY DEF Indexed
  <2>2. QED
    BY <1>9, <1>15, <1>16, <1>17, <2>1, ParseJson DEF text
<1>19. QED
  BY <1>17, <1>18 DEF IsRead, p

\* A sequence of four is made of its elements.
LEMMA FourOf ==
  ASSUME NEW s \in Seq(Byte), Len(s) = 4
  PROVE  /\ s[1] \in Byte /\ s[2] \in Byte /\ s[3] \in Byte /\ s[4] \in Byte
         /\ s = <<s[1], s[2], s[3], s[4]>>
<1>1. \A i \in 1..Len(s) : s[i] \in Byte
  BY ElementOfSeq
<1>2. s[1] \in Byte /\ s[2] \in Byte /\ s[3] \in Byte /\ s[4] \in Byte
  BY <1>1
<1>3. s = <<s[1], s[2], s[3], s[4]>>
  OBVIOUS
<1>4. QED
  BY <1>2, <1>3

\* What a command is put together to.
IsCommandBody(body, c1, c2, token, xq, last) ==
  /\ body \in Seq(Byte) /\ body \in Seq(Int) /\ last \in Seq(Int)
  /\ Len(body) = 12 + Len(xq)
  /\ StartsWith8(body, 17, 10, c1, c2, last)
  /\ Begins4(last, token[1], token[2], token[3], token[4], xq)

\* The length of what begins with twelve bytes.
LEMMA TwelveLonger ==
  ASSUME NEW s, NEW r \in Seq(Int), NEW q \in Seq(Int), NEW rest \in Seq(Int),
         NEW a, NEW b, NEW c, NEW d, Begins4(s, a, b, c, d, r),
         NEW e, NEW f, NEW g, NEW h, Begins4(r, e, f, g, h, q),
         NEW i, NEW j, NEW k, NEW l, Begins4(q, i, j, k, l, rest)
  PROVE  Len(s) = 12 + Len(rest)
<1>1. Len(s) = 4 + Len(r) /\ Len(r) = 4 + Len(q) /\ Len(q) = 4 + Len(rest)
  BY FourLonger
<1>2. Len(rest) \in Nat
  BY FourLonger
<1>3. QED
  BY <1>1, <1>2

\* As FourThen, for Cat.
LEMMA FourCat ==
  ASSUME NEW a \in Int, NEW b \in Int, NEW c \in Int, NEW d \in Int, NEW rest \in Seq(Int)
  PROVE  Begins4(Cat(<<a, b, c, d>>, rest), a, b, c, d, rest)
BY FourThen DEF Cat

\* As FourBytesThen, for Cat.
LEMMA FourBytesCat ==
  ASSUME NEW a \in Byte, NEW b \in Byte, NEW c \in Byte, NEW d \in Byte, NEW rest \in Seq(Byte)
  PROVE  Cat(<<a, b, c, d>>, rest) \in Seq(Byte)
BY FourBytesThen DEF Cat

\* What is read at each place of a binary command.
LEMMA CommandBody ==
  ASSUME NEW c1 \in Byte, NEW c2 \in Byte, NEW n1 \in Byte, NEW n2 \in Byte,
         NEW d1 \in Byte, NEW d2 \in Byte, NEW token \in Seq(Byte), Len(token) = 4,
         NEW xq \in Seq(Byte), NEW last, last = Cat(token, xq),
         NEW later, later = Cat(<<n1, n2, d1, d2>>, last),
         NEW body, body = Cat(<<17, 10, c1, c2>>, later)
  PROVE  IsCommandBody(body, c1, c2, token, xq, last)
<1>1. 17 \in Byte /\ 10 \in Byte
  BY DEF Byte
<1>2. token[1] \in Byte /\ token[2] \in Byte /\ token[3] \in Byte /\ token[4] \in Byte
  BY FourOf
<1>3. /\ 17 \in Int /\ 10 \in Int /\ c1 \in Int /\ c2 \in Int /\ n1 \in Int /\ n2 \in Int
      /\ d1 \in Int /\ d2 \in Int
      /\ token[1] \in Int /\ token[2] \in Int /\ token[3] \in Int /\ token[4] \in Int
  BY <1>2, ByteIsInt
<1>4. xq \in Seq(Int)
  BY BytesAreInts
<1> DEFINE t == <<token[1], token[2], token[3], token[4]>>
<1>5. Cat(t, xq) \in Seq(Byte)
  BY <1>2, FourBytesCat
<1>6. Begins4(Cat(t, xq), token[1], token[2], token[3], token[4], xq)
  BY <1>3, <1>4, FourCat
<1>7. t = token
  BY FourOf
<1> HIDE DEF t
<1>8. last \in Seq(Byte) /\ Begins4(last, token[1], token[2], token[3], token[4], xq)
  BY <1>5, <1>6, <1>7
<1>9. last \in Seq(Int)
  BY <1>8, BytesAreInts
<1>10. later \in Seq(Byte)
  BY <1>8, FourBytesCat
<1>11. Begins4(later, n1, n2, d1, d2, last)
  BY <1>3, <1>9, FourCat
<1>12. later \in Seq(Int)
  BY <1>10, BytesAreInts
<1>13. body \in Seq(Byte)
  BY <1>1, <1>10, FourBytesCat
<1>14. Begins4(body, 17, 10, c1, c2, later)
  BY <1>3, <1>12, FourCat
<1>15. Len(body) = 12 + Len(xq) /\ body \in Seq(Int)
  <2>1. body \in Seq(Int)
    BY <1>13, BytesAreInts
  <2>2. Len(body) = 12 + Len(xq)
    BY <1>4, <1>8, <1>9, <1>11, <1>12, <1>14, TwelveLonger
  <2>3. QED
    BY <2>1, <2>2
<1>16. StartsWith8(body, 17, 10, c1, c2, last)
  BY <1>3, <1>9, <1>11, <1>12, <1>14, EightThen
<1>17. QED
  BY <1>8, <1>9, <1>13, <1>15, <1>16 DEF IsCommandBody

IsCommandBytes(data, c, n, dest, token, xq) ==
  data = Six(START_CMD, U16le(c), U16le(n), U16le(dest), token, xq)

\* get_drw_payload() of a binary command, part by part.
LEMMA DrwOfFields ==
  ASSUME NEW p, "doc" \notin DOMAIN p, "command" \in DOMAIN p
  PROVE  IsCommandBytes(DrwPayload(p), p.command, Len(p.payload) + Len(p.token),
                        CC_DEST(p.command), p.token, XqEncode(p.payload, 4))
BY Zenon DEF DrwPayload, Six, IsCommandBytes

IsCommandSent(i, c, token, payload) ==
  IsCommandBytes(DrwPayload(Command(i, c, token, payload)), c, Len(payload) + Len(token),
                 CC_DEST(c), token, XqEncode(payload, 4))

\* The same, with the fields of the command.
LEMMA DrwOfCommand ==
  ASSUME NEW i, NEW c, NEW token, NEW payload
  PROVE  IsCommandSent(i, c, token, payload)
<1> DEFINE p == Command(i, c, token, payload)
<1>1. p.command = c /\ p.token = token /\ p.payload = payload
  BY DEF Command
<1>2. "doc" \notin DOMAIN p /\ "command" \in DOMAIN p
  BY DEF Command
<1> HIDE DEF p
<1>3. IsCommandBytes(DrwPayload(p), p.command, Len(p.payload) + Len(p.token),
                     CC_DEST(p.command), p.token, XqEncode(p.payload, 4))
  BY <1>2, DrwOfFields
<1>4. IsCommandBytes(DrwPayload(p), c, Len(payload) + Len(token),
                     CC_DEST(c), token, XqEncode(payload, 4))
  BY <1>1, <1>3
<1>5. QED
  BY <1>4 DEF p, IsCommandSent

\* Every binary command is read as it was sent, its payload decoded and its token too.
LEMMA CommandIsRead ==
  ASSUME NEW idx \in Indexed, NEW command \in BinaryCommands,
         NEW token \in Seq(Byte), Len(token) = 4, NEW payload \in Seq(Byte), Len(payload) < 65500
  PROVE  IsRead(Command(idx, command, token, payload))
<1> DEFINE p == Command(idx, command, token, payload)
           xq == XqEncode(payload, 4)
           n == Len(payload) + Len(token)
           dest == CC_DEST(command)
           last == Cat(token, xq)
           later == Cat(<<Lo(n), Hi(n), Lo(dest), Hi(dest)>>, last)
           body == Cat(<<17, 10, Lo(command), Hi(command)>>, later)
<1>1. /\ p.type = Drw /\ p.channel = 0 /\ p.idx = idx /\ p.command = command /\ p.token = token
      /\ p.payload = payload /\ "doc" \notin DOMAIN p /\ "command" \in DOMAIN p
  BY DEF Command
<1>2. IsCommandBytes(DrwPayload(p), command, n, dest, token, xq)
  <2>1. IsCommandSent(idx, command, token, payload)
    BY DrwOfCommand
  <2>2. QED
    BY <2>1 DEF IsCommandSent
<1> HIDE DEF p
<1>3. payload \in Seq(Int) /\ token \in Seq(Int)
  BY BytesAreInts
<1>4. n \in Nat /\ n < 65536 /\ Len(payload) \in Nat
  OBVIOUS
<1>5. xq \in Seq(Byte)
  BY XqIsBytes
<1>6. xq \in Seq(Int) /\ Len(xq) = Len(payload)
  BY <1>3, XqIsInverse
<1>7. command \in Nat /\ command < 65536 /\ dest \in Nat /\ dest < 65536
  BY DEF BinaryCommands, CC_DEST
<1> HIDE DEF xq, n, dest, last, later, body
<1>8. Lo(n) \in Byte /\ Hi(n) \in Byte /\ U16le(n) = <<Lo(n), Hi(n)>>
  BY <1>4, TwoBytes
<1>9. Lo(command) \in Byte /\ Hi(command) \in Byte
      /\ U16le(command) = <<Lo(command), Hi(command)>>
  BY <1>7, TwoBytes
<1>10. Lo(dest) \in Byte /\ Hi(dest) \in Byte /\ U16le(dest) = <<Lo(dest), Hi(dest)>>
  BY <1>7, TwoBytes
<1>11. DrwPayload(p) = body
  <2>1. START_CMD = <<17, 10>>
    BY DEF START_CMD
  <2>2. DrwPayload(p) = Six(<<17, 10>>, <<Lo(command), Hi(command)>>, <<Lo(n), Hi(n)>>,
                            <<Lo(dest), Hi(dest)>>, token, xq)
    BY <1>2, <1>8, <1>9, <1>10, <2>1 DEF IsCommandBytes
  <2>3. AreInts(17, 10, Lo(command), Hi(command), Lo(n), Hi(n), Lo(dest), Hi(dest))
    BY <1>8, <1>9, <1>10, ByteIsInt DEF AreInts
  <2>4. IsPutTogether(17, 10, Lo(command), Hi(command), Lo(n), Hi(n), Lo(dest), Hi(dest),
                      token, xq)
    BY <1>3, <1>6, <2>3, CommandHeader
  <2>5. QED
    BY <2>2, <2>4 DEF body, later, last, IsPutTogether
<1>12. IsCommandBody(body, Lo(command), Hi(command), token, xq, last)
  BY <1>5, <1>8, <1>9, <1>10, CommandBody DEF last, later, body
<1>13. Len(body) < 65532 /\ body \in Seq(Byte) /\ 0 \in Byte
  BY <1>4, <1>6, <1>12 DEF IsCommandBody, Byte
<1>14. /\ Bytes(p) \in Seq(Byte) /\ Len(Bytes(p)) >= 4 /\ Bytes(p)[1] = CAM_MAGIC
       /\ ParsePacket(Bytes(p)) = ParseDrw(Payload(p))
       /\ IsDrw(Payload(p), 0, idx, body)
  BY <1>1, <1>11, <1>13, DrwIsRead
<1>15. ParseDrw(Payload(p)) = Command(idx, command, token, payload)
  <2>1. idx \in Nat
    BY DEF Indexed
  <2>2. /\ Begins4(last, token[1], token[2], token[3], token[4], XqEncode(payload, 4))
        /\ StartsWith8(body, 17, 10, Lo(command), Hi(command), last)
        /\ body \in Seq(Int) /\ last \in Seq(Int)
    BY <1>12 DEF xq, IsCommandBody
  <2>3. QED
    BY <1>3, <1>14, <2>1, <2>2, ParseCommandOf
<1>16. QED
  BY <1>14, <1>15 DEF IsRead, p

----------------------------------------------------------------------------
\* Packets under encryption.

\* The first byte of a packet does not survive the encryption: a datagram that starts
\* right is not encrypted.
LEMMA FirstIsChanged == Xor(CAM_MAGIC, XOR1_KEYSTREAM[0]) # CAM_MAGIC
<1> DEFINE k == XOR1_KEYSTREAM[0]
<1>1. k \in Byte /\ k # 0 /\ CAM_MAGIC \in Byte /\ 0 \in Byte
  BY FirstMask DEF Byte, CAM_MAGIC
<1> HIDE DEF k
<1>2. Xor(CAM_MAGIC, k) = Xor(k, CAM_MAGIC)
  <2>1. ASSUME NEW x \in Int, NEW y \in Int PROVE Xor(x, y) = Xor(y, x)
    <3>1. ASSUME NEW n \in {1, 2, 4, 8, 16, 32, 64, 128} PROVE Differ(x, y, n) = Differ(y, x, n)
      BY DEF Differ
    <3>2. QED
      BY <3>1 DEF Xor
  <2>2. QED
    BY <1>1, <2>1 DEF Byte
<1>3. Xor(0, CAM_MAGIC) = CAM_MAGIC
  BY DEF Xor, Differ, CAM_MAGIC
<1>4. Xor(Xor(k, CAM_MAGIC), CAM_MAGIC) = k /\ Xor(Xor(0, CAM_MAGIC), CAM_MAGIC) = 0
  BY <1>1, XorTwice
<1>5. QED
  BY <1>1, <1>2, <1>3, <1>4 DEF k

\* What is sent can be told from its first byte, and is what is received.
Arrives(enc, bytes) ==
  MaybeDecode(Encode(enc, bytes)) = enc /\ Decode(enc, Encode(enc, bytes)) = bytes

\* Whatever starts right arrives: its encryption is found and undone.
LEMMA IsArrived ==
  ASSUME NEW enc \in Encryptions, NEW bytes \in Seq(Byte), Len(bytes) >= 1, bytes[1] = CAM_MAGIC
  PROVE  Arrives(enc, bytes)
<1>1. CASE enc = "NONE"
  BY <1>1 DEF Arrives, MaybeDecode, Encode, Decode
<1>2. CASE enc = "XOR1"
  <2> DEFINE out == Xor1Encode(bytes)
  <2>1. Xor1Decode(out) = bytes
    BY Xor1IsInverse
  <2>2. out[1] = Xor(CAM_MAGIC, XOR1_KEYSTREAM[0])
    <3>1. 1 \in 1..Len(bytes)
      OBVIOUS
    <3>2. QED
      BY <3>1, Xor1EncodeIs
  <2>3. out[1] # CAM_MAGIC
    BY <2>2, FirstIsChanged
  <2>4. Encode(enc, bytes) = out /\ Decode(enc, out) = Xor1Decode(out)
    BY <1>2 DEF Encode, Decode
  <2> HIDE DEF out
  <2>5. MaybeDecode(out) = "XOR1"
    BY <2>1, <2>3 DEF MaybeDecode
  <2>6. QED
    BY <1>2, <2>1, <2>4, <2>5 DEF Arrives
<1>3. QED
  BY <1>1, <1>2 DEF Encryptions

\* A packet that is read is read at the other end.
IsReceived(p, enc, data) ==
  MaybeDecode(data) = enc /\ ParsePacket(Decode(enc, data)) = p

\* A packet that is read by itself is read when it was encrypted.
LEMMA ReadIsReceived ==
  ASSUME NEW p, IsRead(p), NEW enc \in Encryptions
  PROVE  IsReceived(p, enc, Encode(enc, Bytes(p)))
<1>1. Bytes(p) \in Seq(Byte) /\ Len(Bytes(p)) >= 1 /\ Bytes(p)[1] = CAM_MAGIC
      /\ ParsePacket(Bytes(p)) = p
  <2>1. Bytes(p) \in Seq(Byte) /\ Len(Bytes(p)) >= 4 /\ Bytes(p)[1] = CAM_MAGIC
        /\ ParsePacket(Bytes(p)) = p
    BY DEF IsRead
  <2>2. QED
    BY <2>1
<1>2. Arrives(enc, Bytes(p))
  BY <1>1, IsArrived
<1>3. QED
  BY <1>1, <1>2 DEF IsReceived, Arrives

\* An alive packet with zeros after it is an alive packet.
LEMMA AliveIsRead ==
  ASSUME NEW enc \in Encryptions
  PROVE  IsReceived(Plain(P2PAlive, <<>>), enc,
                    Encode(enc, Bytes(Plain(P2PAlive, <<>>)) \o Zeros(4)))
<1> DEFINE p == Plain(P2PAlive, <<>>)
           s == <<CAM_MAGIC, P2PAlive, 0, 0>> \o Zeros(4)
<1>1. Bytes(p) = <<CAM_MAGIC, P2PAlive, 0, 0>>
  <2>1. p.type = P2PAlive /\ Payload(p) = <<>> /\ P2PAlive \in Byte
    BY DEF Plain, Payload, P2PAlive, Drw, Byte
  <2>2. <<>> \in Seq(Byte) /\ Len(<<>>) = 0
    OBVIOUS
  <2> DEFINE none == Payload(p)
  <2> HIDE DEF p
  <2>3. Begins4(Bytes(p), CAM_MAGIC, p.type, Hi(Len(none)), Lo(Len(none)), none)
    <3>1. none \in Seq(Byte) /\ Len(none) < 65536 /\ p.type \in Byte
      BY <2>1, <2>2
    <3>2. QED
      BY <3>1, BytesOf
  <2>4. Hi(0) = 0 /\ Lo(0) = 0
    BY DEF Hi, Lo
  <2>5. QED
    BY <2>1, <2>2, <2>3, <2>4 DEF Begins4
<1>2. CAM_MAGIC \in Byte /\ P2PAlive \in Byte /\ 0 \in Byte
  BY DEF CAM_MAGIC, P2PAlive, Byte
<1>3. Zeros(4) \in Seq(Byte) /\ Len(Zeros(4)) = 4
  BY <1>2 DEF Zeros
<1>4. CAM_MAGIC \in Int /\ P2PAlive \in Int /\ 0 \in Int /\ Zeros(4) \in Seq(Int)
  BY <1>2, <1>3, ByteIsInt, BytesAreInts
<1>5. s \in Seq(Byte)
  BY <1>2, <1>3, FourBytesThen
<1>6. Begins4(s, CAM_MAGIC, P2PAlive, 0, 0, Zeros(4))
  BY <1>4, FourThen
<1>7. Bytes(p) \o Zeros(4) = s
  BY <1>1
<1> HIDE DEF s
<1>8. s[1] = CAM_MAGIC /\ Len(s) >= 1
  BY <1>3, <1>6 DEF Begins4
<1>9. ParsePacket(s) = p
  <2>1. P2PAlive \in PacketTypes \ {Drw}
    BY DEF PacketTypes, P2PAlive, Drw
  <2>2. FromU16(<<0, 0>>) = 0
    BY DEF FromU16
  <2>3. ParsePacket(s) = Plain(P2PAlive, IF P2PAlive = P2PAlive /\ Len(Zeros(4)) # 0 THEN <<>>
                                         ELSE Zeros(4))
    BY <1>4, <1>6, <2>1, <2>2, ParsePlain
  <2>4. QED
    BY <1>3, <2>3
<1>10. Arrives(enc, s)
  BY <1>5, <1>8, IsArrived
<1>11. QED
  BY <1>7, <1>9, <1>10 DEF IsReceived, Arrives

----------------------------------------------------------------------------
\* The identity a device answers the search with.

LastNonZero(s) == SelectLastInSeq(s, LAMBDA b : b # 0)

\* The greatest of a set.
LEMMA MaxIs ==
  ASSUME NEW I \in SUBSET Int, NEW k \in I, \A i \in I : i <= k
  PROVE  Max(I) = k
<1>1. ASSUME NEW j \in I, \A i \in I : j >= i PROVE j = k
  <2>1. j >= k /\ j <= k
    BY <1>1
  <2>2. QED
    BY <2>1
<1>2. \A i \in I : k >= i
  OBVIOUS
<1>3. QED
  BY <1>1, <1>2 DEF Max

\* The place of the last byte that is not zero.
LEMMA LastIs ==
  ASSUME NEW s \in Seq(Int)
  PROVE  /\ LastNonZero(s) \in 0..Len(s)
         /\ LastNonZero(s) # 0 => s[LastNonZero(s)] # 0
         /\ \A i \in 1..Len(s) : s[i] # 0 => i <= LastNonZero(s)
<1> DEFINE I == {i \in 1..Len(s) : s[i] # 0}
<1>1. LastNonZero(s) = IF I # {} THEN Max(I) ELSE 0
  BY DEF SelectLastInSeq, LastNonZero
<1>2. CASE I = {}
  BY <1>1, <1>2
<1>3. CASE I # {}
  <2>1. PICK k \in I : \A i \in I : i <= k
    <3>1. I \in SUBSET Nat /\ Len(s) \in Nat
      OBVIOUS
    <3> DEFINE Below == {n \in Nat : \E i \in I : n = Len(s) - i}
    <3>2. Below \in SUBSET Nat /\ Below # {}
      <4>1. PICK i \in I : TRUE
        BY <1>3
      <4>2. Len(s) - i \in Below
        BY <3>1
      <4>3. QED
        BY <4>2
    <3>3. PICK n \in Below : \A m \in Below : n <= m
      <4> HIDE DEF Below
      <4>1. QED
        BY <3>2, LeastOne
    <3>4. PICK k \in I : n = Len(s) - k
      BY <3>3
    <3>5. ASSUME NEW i \in I PROVE i <= k
      <4>1. Len(s) - i \in Below
        BY <3>1
      <4>2. n <= Len(s) - i
        <5> HIDE DEF Below
        <5>1. QED
          BY <3>3, <4>1
      <4>3. QED
        BY <3>1, <3>4, <4>2
    <3>6. QED
      BY <3>4, <3>5
  <2>2. Max(I) = k
    <3>1. I \in SUBSET Int
      OBVIOUS
    <3> HIDE DEF I
    <3>2. QED
      BY <2>1, <3>1, MaxIs
  <2>3. LastNonZero(s) = k
    <3> HIDE DEF I
    <3>1. QED
      BY <1>1, <1>3, <2>2
  <2>4. k \in 1..Len(s) /\ s[k] # 0
    BY <2>1
  <2>5. ASSUME NEW i \in 1..Len(s), s[i] # 0 PROVE i <= k
    <3>1. i \in I
      BY <2>5
    <3> HIDE DEF I
    <3>2. QED
      BY <2>1, <3>1
  <2>6. QED
    BY <2>3, <2>4, <2>5
<1>4. QED
  BY <1>2, <1>3

\* Zeros(n) are n zeros.
LEMMA ZerosAre ==
  ASSUME NEW n \in Nat
  PROVE  /\ Zeros(n) \in Seq(Byte) /\ Zeros(n) \in Seq(Int) /\ Len(Zeros(n)) = n
         /\ \A i \in 1..n : Zeros(n)[i] = 0
<1>1. 0 \in Byte
  BY DEF Byte
<1>2. Zeros(n) \in Seq(Byte)
  BY <1>1 DEF Zeros
<1>3. QED
  BY <1>2, BytesAreInts DEF Zeros

IsPadded(t, s, n) ==
  /\ t \in Seq(Byte) /\ t \in Seq(Int) /\ Len(t) = n
  /\ \A i \in 1..n : t[i] = IF i <= Len(s) THEN s[i] ELSE 0

\* struct.pack pads with zeros.
LEMMA PaddedIs ==
  ASSUME NEW s \in Seq(Byte), NEW n \in Nat, Len(s) <= n
  PROVE  IsPadded(Padded(s, n), s, n)
<1> DEFINE z == Zeros(n)
           u == s \o z
           t == SubSeq(u, 0 + 1, n)
<1>1. s \in Seq(Int) /\ z \in Seq(Int) /\ Len(z) = n /\ Len(s) \in Nat
  BY BytesAreInts, ZerosAre
<1>2. \A i \in 1..n : z[i] = 0
  BY ZerosAre
<1> HIDE DEF z
<1>3. IsJoined(u, s, z)
  BY <1>1, Joined
<1>4. Padded(s, n) = t
  BY DEF Padded, z
<1> HIDE DEF u
<1>5. u \in Seq(Int) /\ Len(u) = Len(s) + n
  BY <1>1, <1>3 DEF IsJoined
<1>6. IsPart(t, u, 0, n)
  BY <1>1, <1>5, Part
<1> HIDE DEF t
<1>7. t \in Seq(Int) /\ Len(t) = n
  BY <1>6 DEF IsPart
<1>8. ASSUME NEW i \in 1..n PROVE t[i] = IF i <= Len(s) THEN s[i] ELSE 0
  <2>1. t[i] = u[i]
    <3>1. i \in 1..(n - 0) /\ i + 0 = i
      OBVIOUS
    <3>2. QED
      BY <1>6, <3>1 DEF IsPart
  <2>2. CASE i <= Len(s)
    BY <1>1, <1>3, <2>1, <2>2 DEF IsJoined
  <2>3. CASE i > Len(s)
    <3> DEFINE j == i - Len(s)
    <3>1. j \in 1..Len(z) /\ i = j + Len(s) /\ j \in 1..n
      BY <1>1, <2>3
    <3> HIDE DEF j
    <3>2. u[i] = z[j]
      BY <1>3, <3>1, JoinedAt
    <3>3. z[j] = 0 /\ ~(i <= Len(s))
      BY <1>1, <1>2, <2>3, <3>1
    <3>4. QED
      BY <2>1, <3>2, <3>3
  <2>4. QED
    BY <1>1, <2>2, <2>3
<1>9. \A i \in 1..Len(s) : s[i] \in Byte
  BY ElementOfSeq
<1>10. ASSUME NEW i \in 1..Len(t) PROVE t[i] \in Byte
  <2>1. 0 \in Byte
    BY DEF Byte
  <2>2. i \in 1..n
    BY <1>7
  <2>3. CASE i <= Len(s)
    BY <1>1, <1>8, <1>9, <2>2, <2>3
  <2>4. CASE ~(i <= Len(s))
    BY <1>8, <2>1, <2>2, <2>4
  <2>5. QED
    BY <2>3, <2>4
<1>11. t \in Seq(Byte)
  BY <1>7, <1>10, AllBytes
<1>12. QED
  BY <1>4, <1>7, <1>8, <1>11 DEF IsPadded

\* An identity as make_punch_pkt() can write it down.
IsIdentity(id) ==
  /\ id = [prefix |-> id.prefix, serial |-> id.serial, suffix |-> id.suffix]
  /\ id.prefix \in Seq(Byte) /\ Len(id.prefix) = 4
  /\ id.serial \in Nat /\ id.serial < 2147483648
  /\ id.suffix \in Seq(Byte) /\ Len(id.suffix) <= 8
  /\ id.suffix # <<>> => id.suffix[Len(id.suffix)] # 0

\* The payload of a punch packet: its four parts.
IsLaidOut(s, a, z, u, t) ==
  /\ s \in Seq(Byte) /\ s \in Seq(Int) /\ Len(s) = 20
  /\ \A i \in 1..4 : s[i] = a[i]
  /\ \A i \in 1..4 : s[i + 8] = u[i]
  /\ \A i \in 1..8 : s[i + 12] = t[i]

\* The parts of the payload are where as_object() looks for them.
LEMMA LaidOut ==
  ASSUME NEW a \in Seq(Byte), NEW z \in Seq(Byte), NEW u \in Seq(Byte), NEW t \in Seq(Byte),
         Len(a) = 4, Len(z) = 4, Len(u) = 4, Len(t) = 8
  PROVE  IsLaidOut(Cat(Cat(Cat(a, z), u), t), a, z, u, t)
<1> DEFINE p == Cat(a, z)
           q == Cat(p, u)
           r == Cat(q, t)
<1>1. a \in Seq(Int) /\ z \in Seq(Int) /\ u \in Seq(Int) /\ t \in Seq(Int)
  BY BytesAreInts
<1>2. IsJoined(p, a, z)
  BY <1>1, Joined DEF Cat
<1>3. p \in Seq(Int) /\ Len(p) = 8 /\ (\A i \in 1..4 : p[i] = a[i])
  BY <1>2 DEF IsJoined
<1> HIDE DEF p
<1>4. IsJoined(q, p, u)
  BY <1>1, <1>3, Joined DEF Cat
<1>5. q \in Seq(Int) /\ Len(q) = 12 /\ (\A i \in 1..8 : q[i] = p[i])
      /\ (\A i \in 1..4 : q[i + 8] = u[i])
  BY <1>3, <1>4 DEF IsJoined
<1> HIDE DEF q
<1>6. IsJoined(r, q, t)
  BY <1>1, <1>5, Joined DEF Cat
<1>7. r \in Seq(Int) /\ Len(r) = 20 /\ (\A i \in 1..12 : r[i] = q[i])
      /\ (\A i \in 1..8 : r[i + 12] = t[i])
  BY <1>5, <1>6 DEF IsJoined
<1>8. r \in Seq(Byte)
  <2>1. ASSUME NEW v \in Seq(Byte), NEW w \in Seq(Byte) PROVE Cat(v, w) \in Seq(Byte)
    BY ConcatProperties DEF Cat
  <2>2. p \in Seq(Byte)
    BY <2>1 DEF p
  <2>3. q \in Seq(Byte)
    BY <2>1, <2>2 DEF q
  <2>4. QED
    BY <2>1, <2>3
<1> HIDE DEF r
<1>9. ASSUME NEW i \in 1..4 PROVE r[i] = a[i] /\ r[i + 8] = u[i]
  <2>1. i \in 1..8 /\ i \in 1..12 /\ i + 8 \in 1..12
    OBVIOUS
  <2>2. QED
    BY <1>3, <1>5, <1>7, <2>1
<1>10. IsLaidOut(r, a, z, u, t)
  BY <1>7, <1>8, <1>9 DEF IsLaidOut
<1>11. QED
  BY <1>10 DEF r, q, p

\* A serial, in four bytes.
IsSerial(u, a, b, c, d, n) ==
  /\ a \in Byte /\ b \in Byte /\ c \in Byte /\ d \in Byte
  /\ u = <<a, b, c, d>> /\ FromU16(<<a, b>>) * 65536 + FromU16(<<c, d>>) = n

\* The four bytes of a serial, and what they are read as.
LEMMA SerialIs ==
  ASSUME NEW n \in Nat, n < 2147483648
  PROVE  \E a, b, c, d : IsSerial(U32(n), a, b, c, d, n)
<1> DEFINE h == n \div 65536
           l == n % 65536
<1>1. h \in Nat /\ h < 65536 /\ l \in Nat /\ l < 65536 /\ h * 65536 + l = n
  OBVIOUS
<1>2. U32(n) = U16(h) \o U16(l)
  BY DEF U32
<1> HIDE DEF h, l
<1>3. Hi(h) \in Byte /\ Lo(h) \in Byte /\ U16(h) = <<Hi(h), Lo(h)>>
  BY <1>1, TwoBytes
<1>4. Hi(l) \in Byte /\ Lo(l) \in Byte /\ U16(l) = <<Hi(l), Lo(l)>>
  BY <1>1, TwoBytes
<1>5. FromU16(<<Hi(h), Lo(h)>>) = h /\ FromU16(<<Hi(l), Lo(l)>>) = l
  BY <1>1, HiAndLo
<1>6. U32(n) = <<Hi(h), Lo(h), Hi(l), Lo(l)>>
  <2>1. <<Hi(h), Lo(h)>> \o <<Hi(l), Lo(l)>> = <<Hi(h), Lo(h), Hi(l), Lo(l)>>
    BY <1>3, <1>4, Pairs, ByteIsInt
  <2>2. QED
    BY <1>2, <1>3, <1>4, <2>1
<1>7. IsSerial(U32(n), Hi(h), Lo(h), Hi(l), Lo(l), n)
  BY <1>1, <1>3, <1>4, <1>5, <1>6 DEF IsSerial
<1>8. QED
  BY <1>7

\* Whoever reads a punch packet knows the identity that is in it.
LEMMA IdentityIsRead ==
  ASSUME NEW id, IsIdentity(id)
  PROVE  /\ MakePunch(id).payload \in Seq(Byte) /\ Len(MakePunch(id).payload) = 20
         /\ AsObject(MakePunch(id).payload) = id
<1> DEFINE prefix == id.prefix
           suffix == id.suffix
           a == Padded(prefix, 4)
           u == U32(id.serial)
           t == Padded(suffix, 8)
           s == Cat(Cat(Cat(a, Zeros(4)), u), t)
<1>1. /\ prefix \in Seq(Byte) /\ Len(prefix) = 4 /\ suffix \in Seq(Byte) /\ Len(suffix) <= 8
      /\ suffix # <<>> => suffix[Len(suffix)] # 0
      /\ Len(suffix) \in Nat
  BY DEF IsIdentity
<1>2. id = [prefix |-> prefix, serial |-> id.serial, suffix |-> suffix]
  BY DEF IsIdentity
<1> HIDE DEF prefix, suffix
<1>2a. IsPadded(a, prefix, 4)
  <2>1. prefix \in Seq(Byte) /\ Len(prefix) <= 4
    BY <1>1
  <2>2. QED
    BY <2>1, PaddedIs
<1>2b. IsPadded(t, suffix, 8)
  <2>1. suffix \in Seq(Byte) /\ Len(suffix) <= 8
    BY <1>1
  <2>2. QED
    BY <2>1, PaddedIs
<1>3. PICK b, c, d, e : IsSerial(u, b, c, d, e, id.serial)
  <2>1. id.serial \in Nat /\ id.serial < 2147483648
    BY DEF IsIdentity
  <2> DEFINE n == id.serial
  <2> HIDE DEF n
  <2>2. \E b, c, d, e : IsSerial(U32(n), b, c, d, e, n)
    BY <2>1, SerialIs DEF n
  <2>3. QED
    BY <2>2 DEF n
<1>3a. u = <<b, c, d, e>> /\ u \in Seq(Byte) /\ Len(u) = 4
       /\ FromU16(<<b, c>>) * 65536 + FromU16(<<d, e>>) = id.serial
  BY <1>3 DEF IsSerial
<1>4. MakePunch(id).payload = s
  BY DEF MakePunch, Plain, Cat, prefix, suffix
<1> HIDE DEF a, u, t
<1>5. IsLaidOut(s, a, Zeros(4), u, t)
  <2>1. u \in Seq(Byte) /\ Len(u) = 4
    BY <1>3a
  <2>2. a \in Seq(Byte) /\ Len(a) = 4 /\ t \in Seq(Byte) /\ Len(t) = 8
    BY <1>2a, <1>2b DEF IsPadded
  <2>3. Zeros(4) \in Seq(Byte) /\ Len(Zeros(4)) = 4
    BY ZerosAre
  <2>4. QED
    BY <2>1, <2>2, <2>3, LaidOut
<1> HIDE DEF s
<1>6a. s \in Seq(Byte)
  BY <1>5 DEF IsLaidOut
<1>6. s \in Seq(Int) /\ Len(s) = 20
  BY <1>5 DEF IsLaidOut
<1>6b. 4 <= Len(s) /\ 10 <= Len(s) /\ 12 <= Len(s)
  BY <1>6
<1>6c. s \in Seq(Int)
  BY <1>6
<1>7. Slice(s, 0, 4) = prefix
  <2>1. IsPart(Slice(s, 0, 4), s, 0, 4)
    BY <1>6b, <1>6c, SlicePart
  <2>2. Slice(s, 0, 4) \in Seq(Int) /\ Len(Slice(s, 0, 4)) = 4
    BY <2>1 DEF IsPart
  <2>3. ASSUME NEW i \in 1..4 PROVE Slice(s, 0, 4)[i] = prefix[i]
    <3>1. i \in 1..(4 - 0) /\ i + 0 = i
      OBVIOUS
    <3>2. Slice(s, 0, 4)[i] = s[i]
      BY <2>1, <3>1 DEF IsPart
    <3>3. s[i] = a[i]
      BY <1>5 DEF IsLaidOut
    <3>4. a[i] = prefix[i]
      BY <1>1, <1>2a DEF IsPadded
    <3>5. QED
      BY <3>2, <3>3, <3>4
  <2>4. prefix \in Seq(Int)
    BY <1>1, BytesAreInts
  <2>5. QED
    BY <1>1, <2>2, <2>3, <2>4, Same
<1>8. FromU16(Slice(s, 8, 10)) * 65536 + FromU16(Slice(s, 10, 12)) = id.serial
  <2>1. s[9] = b /\ s[10] = c /\ s[11] = d /\ s[12] = e
    <3>1. u[1] = b /\ u[2] = c /\ u[3] = d /\ u[4] = e
      BY <1>3a
    <3>2. \A i \in 1..4 : s[i + 8] = u[i]
      BY <1>5 DEF IsLaidOut
    <3>3. s[1 + 8] = u[1] /\ s[2 + 8] = u[2] /\ s[3 + 8] = u[3] /\ s[4 + 8] = u[4]
      BY <3>2
    <3>4. QED
      BY <3>1, <3>3
  <2>2. Slice(s, 8, 10) = <<s[9], s[10]>>
    <3>1. IsPart(Slice(s, 8, 10), s, 8, 10)
      BY <1>6b, <1>6c, SlicePart
    <3>2. QED
      BY <3>1 DEF IsPart
  <2>3. Slice(s, 10, 12) = <<s[11], s[12]>>
    <3>1. IsPart(Slice(s, 10, 12), s, 10, 12)
      BY <1>6b, <1>6c, SlicePart
    <3>2. QED
      BY <3>1 DEF IsPart
  <2>4. QED
    BY <1>3a, <2>1, <2>2, <2>3
<1>9. SubSeq(s, 13, LastNonZero(s)) = suffix
  <2> DEFINE k == LastNonZero(s)
             n == Len(suffix)
  <2>1. k \in 0..20 /\ (k # 0 => s[k] # 0) /\ \A i \in 1..20 : s[i] # 0 => i <= k
    BY <1>6, LastIs
  <2> HIDE DEF k
  <2>2. ASSUME NEW i \in 1..8 PROVE s[i + 12] = IF i <= n THEN suffix[i] ELSE 0
    BY <1>2b, <1>5 DEF IsPadded, IsLaidOut
  <2>3. n \in Nat /\ n <= 8
    BY <1>1
  <2> HIDE DEF n
  <2>4. k <= 12 + n
    <3>1. SUFFICES ASSUME k > 12 + n PROVE FALSE
      BY <2>1, <2>3
    <3> DEFINE i == k - 12
    <3>2. i \in 1..8 /\ i + 12 = k /\ ~(i <= n) /\ k # 0
      BY <2>1, <2>3, <3>1
    <3> HIDE DEF i
    <3>3. QED
      BY <2>1, <2>2, <3>2
  <2>5. CASE n = 0
    <3>1. suffix = <<>>
      BY <1>1, <2>5 DEF n
    <3>2. SubSeq(s, 13, k) = <<>>
      BY <1>6, <2>1, <2>4, <2>5
    <3>3. QED
      BY <3>1, <3>2 DEF k
  <2>6. CASE n # 0
    <3>1. k = 12 + n
      <4>1. n \in 1..8 /\ n <= n /\ n + 12 \in 1..20
        BY <2>3, <2>6
      <4>2. s[n + 12] = suffix[n]
        BY <2>2, <4>1
      <4>3. suffix[n] # 0
        BY <1>1, <2>6 DEF n
      <4>4. n + 12 <= k
        BY <2>1, <4>1, <4>2, <4>3
      <4>5. QED
        BY <2>1, <2>3, <2>4, <4>4
    <3>2. SubSeq(s, 13, k) = SubSeq(s, 12 + 1, 12 + n)
      BY <3>1
    <3>3. IsPart(SubSeq(s, 12 + 1, 12 + n), s, 12, 12 + n)
      <4>1. 12 + n \in Nat /\ 12 <= 12 + n /\ 12 + n <= Len(s)
        BY <1>6, <2>3
      <4>2. QED
        BY <1>6, <4>1, Part
    <3> DEFINE r == SubSeq(s, 12 + 1, 12 + n)
    <3> HIDE DEF r
    <3>4. r \in Seq(Int) /\ Len(r) = n /\ \A i \in 1..n : r[i] = s[i + 12]
      <4>1. (12 + n) - 12 = n
        BY <2>3
      <4>2. QED
        BY <3>3, <4>1 DEF IsPart, r
    <3>5. ASSUME NEW i \in 1..n PROVE r[i] = suffix[i]
      <4>1. i \in 1..8 /\ i <= n
        BY <2>3
      <4>2. QED
        BY <2>2, <3>4, <4>1
    <3>6. suffix \in Seq(Int)
      BY <1>1, BytesAreInts
    <3>7. r = suffix
      BY <3>4, <3>5, <3>6, Same DEF n
    <3>8. QED
      BY <3>2, <3>7 DEF r, k
  <2>7. QED
    BY <2>5, <2>6
<1>10. AsObject(s) = [prefix |-> Slice(s, 0, 4),
                      serial |-> FromU16(Slice(s, 8, 10)) * 65536 + FromU16(Slice(s, 10, 12)),
                      suffix |-> SubSeq(s, 13, LastNonZero(s))]
  BY DEF AsObject, LastNonZero
<1>11. AsObject(s) = [prefix |-> prefix, serial |-> id.serial, suffix |-> suffix]
  <2> DEFINE p == Slice(s, 0, 4)
             m == FromU16(Slice(s, 8, 10)) * 65536 + FromU16(Slice(s, 10, 12))
             q == SubSeq(s, 13, LastNonZero(s))
  <2>1. p = prefix /\ m = id.serial /\ q = suffix
    BY <1>7, <1>8, <1>9
  <2>2. AsObject(s) = [prefix |-> p, serial |-> m, suffix |-> q]
    BY <1>10
  <2> HIDE DEF p, m, q
  <2>3. QED
    BY <2>1, <2>2
<1>12. AsObject(s) = id
  BY <1>2, <1>11
<1>13. QED
  BY <1>4, <1>6, <1>6a, <1>12

----------------------------------------------------------------------------
\* Any packet, and the packets of the run.

\* A packet of any content, but for bytes on a channel that start like a command
\* or a document, and for what does not fit the length field.
IsPacket(p) ==
  \/ \E t \in PacketTypes \ {Drw}, payload \in Seq(Byte) :
       /\ Len(payload) < 65536 /\ (t = P2PAlive => payload = <<>>)
       /\ p = Plain(t, payload)
  \/ \E idx \in Indexed, command \in BinaryCommands, token \in Seq(Byte), payload \in Seq(Byte) :
       /\ Len(token) = 4 /\ Len(payload) < 65500
       /\ p = Command(idx, command, token, payload)
  \/ \E idx \in Indexed, c \in Byte, d \in Byte, doc \in DOMAIN JsonText :
       p = Json(idx, <<6, 10, c, d>>, doc)
  \/ \E ch \in Channels, idx \in Indexed, payload \in Seq(Byte) :
       /\ Len(payload) < 65532 /\ Slice(payload, 0, 2) \notin {START_CMD, JSON_MARK}
       /\ p = Raw(ch, idx, payload)

\* Whatever such packet is sent, under either encryption, maybe_decode() finds the
\* encryption, and decoding and parsing give the packet.
THEOREM AnyPacketIsRead ==
  ASSUME NEW p, IsPacket(p), NEW enc \in Encryptions
  PROVE  IsReceived(p, enc, Encode(enc, Bytes(p)))
<1>1. IsRead(p)
  <2>1. CASE \E t \in PacketTypes \ {Drw}, payload \in Seq(Byte) :
               /\ Len(payload) < 65536 /\ (t = P2PAlive => payload = <<>>)
               /\ p = Plain(t, payload)
    BY <2>1, PlainIsRead
  <2>2. CASE \E idx \in Indexed, command \in BinaryCommands, token \in Seq(Byte),
                payload \in Seq(Byte) :
               /\ Len(token) = 4 /\ Len(payload) < 65500
               /\ p = Command(idx, command, token, payload)
    BY <2>2, CommandIsRead
  <2>3. CASE \E idx \in Indexed, c \in Byte, d \in Byte, doc \in DOMAIN JsonText :
               p = Json(idx, <<6, 10, c, d>>, doc)
    BY <2>3, JsonIsRead
  <2>4. CASE \E ch \in Channels, idx \in Indexed, payload \in Seq(Byte) :
               /\ Len(payload) < 65532 /\ Slice(payload, 0, 2) \notin {START_CMD, JSON_MARK}
               /\ p = Raw(ch, idx, payload)
    BY <2>4, RawIsRead
  <2>5. QED
    BY <2>1, <2>2, <2>3, <2>4 DEF IsPacket
<1>2. QED
  BY <1>1, ReadIsReceived

\* What is to be shown of a packet and what was made of it.
ReadsBack(p, enc, data) ==
  /\ MaybeDecode(data) = enc
  /\ Mistakable(p) \/ ParsePacket(Decode(enc, data)) = p
  /\ p.type = PunchPkt =>
       \E id \in DevIds :
         /\ p = MakePunch(id)
         /\ Reported(data) = {[dev_id |-> id, encryption |-> enc, is_json |-> enc = "XOR1"]}
  /\ p.type # PunchPkt => Reported(data) = {}

IsSent(p, enc) ==
  Bytes(p) \in Seq(Byte) /\ ReadsBack(p, enc, Encode(enc, Bytes(p)))

\* Only an answer to the search is reported.
LEMMA NotReported ==
  ASSUME NEW data, NEW enc, NEW p, IsReceived(p, enc, data), p.type # PunchPkt
  PROVE  Reported(data) = {}
BY DEF IsReceived, Reported

\* A packet that is read and is no answer to the search is read back under either
\* encryption, and nothing is reported.
LEMMA NotPunch ==
  ASSUME NEW p, p.type # PunchPkt, IsRead(p), NEW enc \in Encryptions
  PROVE  IsSent(p, enc)
<1> DEFINE data == Encode(enc, Bytes(p))
<1>1. IsReceived(p, enc, data)
  BY ReadIsReceived
<1> HIDE DEF data
<1>2. Reported(data) = {}
  BY <1>1, NotReported
<1>3. ReadsBack(p, enc, data)
  BY <1>1, <1>2 DEF ReadsBack, IsReceived
<1>4. QED
  BY <1>3 DEF data, IsSent, IsRead

\* So is an alive packet with zeros after it.
LEMMA AliveReadsBack ==
  ASSUME NEW enc \in Encryptions
  PROVE  ReadsBack(Plain(P2PAlive, <<>>), enc,
                   Encode(enc, Bytes(Plain(P2PAlive, <<>>)) \o Zeros(4)))
<1> DEFINE p == Plain(P2PAlive, <<>>)
           data == Encode(enc, Bytes(p) \o Zeros(4))
<1>1. IsReceived(p, enc, data)
  BY AliveIsRead
<1>2. p.type # PunchPkt
  BY DEF Plain, P2PAlive, PunchPkt
<1> HIDE DEF data, p
<1>3. Reported(data) = {}
  BY <1>1, <1>2, NotReported
<1>4. ReadsBack(p, enc, data)
  BY <1>1, <1>2, <1>3 DEF ReadsBack, IsReceived
<1>5. QED
  BY <1>4 DEF data, p

ThisDevice(suffix) == [prefix |-> <<68, 71, 79, 75>>, serial |-> 1270023, suffix |-> suffix]

\* The device of the run has an identity that can be written down, whatever its suffix.
LEMMA ThisDeviceIs ==
  ASSUME NEW suffix \in Seq(Byte), Len(suffix) <= 8,
         suffix # <<>> => suffix[Len(suffix)] # 0
  PROVE  IsIdentity(ThisDevice(suffix))
<1> DEFINE id == ThisDevice(suffix)
           prefix == <<68, 71, 79, 75>>
<1>1. prefix \in Seq(Byte) /\ Len(prefix) = 4
  BY DEF Byte
<1>2. id.serial = 1270023
  BY DEF ThisDevice
<1>3. id.serial \in Nat /\ id.serial < 2147483648
  BY <1>2
<1>4. id.prefix = prefix /\ id.suffix = suffix
      /\ id = [prefix |-> id.prefix, serial |-> id.serial, suffix |-> id.suffix]
  BY DEF ThisDevice
<1> HIDE DEF id, prefix
<1>5. IsIdentity(id)
  BY <1>1, <1>3, <1>4 DEF IsIdentity
<1>6. QED
  BY <1>5 DEF id

\* The identities of the run can be written down.
LEMMA DevIdsAre ==
  ASSUME NEW id \in DevIds
  PROVE  IsIdentity(id)
<1> DEFINE suffix == <<80, 85, 75, 88, 69>>
<1>1. id = ThisDevice(suffix) \/ id = ThisDevice(<<>>)
  <2>1. DevId = ThisDevice(suffix)
    BY DEF DevId, ThisDevice
  <2>2. [DevId EXCEPT !.suffix = <<>>] = ThisDevice(<<>>)
    BY DEF DevId, ThisDevice
  <2>3. QED
    BY <2>1, <2>2 DEF DevIds
<1>2. suffix \in Seq(Byte) /\ Len(suffix) = 5 /\ suffix[5] = 69
  BY DEF Byte
<1> HIDE DEF suffix
<1>3. IsIdentity(ThisDevice(suffix))
  <2>1. Len(suffix) <= 8 /\ suffix[Len(suffix)] # 0
    BY <1>2
  <2>2. QED
    BY <1>2, <2>1, ThisDeviceIs
<1>4. IsIdentity(ThisDevice(<<>>))
  <2> DEFINE none == <<>>
  <2>1. none \in Seq(Byte) /\ Len(none) <= 8 /\ none = <<>>
    OBVIOUS
  <2> HIDE DEF none
  <2>2. IsIdentity(ThisDevice(none))
    BY <2>1, ThisDeviceIs
  <2>3. QED
    BY <2>1, <2>2
<1>5. QED
  BY <1>1, <1>3, <1>4

\* An answer to the search is read back, and reported once with its identity.
LEMMA PunchReadsBack ==
  ASSUME NEW id \in DevIds, NEW enc \in Encryptions
  PROVE  IsSent(MakePunch(id), enc)
<1> DEFINE p == MakePunch(id)
           data == Encode(enc, Bytes(p))
           payload == p.payload
<1>1. payload \in Seq(Byte) /\ Len(payload) = 20 /\ AsObject(payload) = id
  BY DevIdsAre, IdentityIsRead
<1>2. p = Plain(PunchPkt, payload) /\ p.type = PunchPkt
  BY DEF MakePunch, Plain
<1> HIDE DEF p, payload
<1>3. IsRead(p)
  <2>1. PunchPkt \in PacketTypes \ {Drw} /\ PunchPkt # P2PAlive
    BY SMT DEF PunchPkt, PacketTypes, Drw, P2PAlive
  <2>2. payload \in Seq(Byte) /\ Len(payload) < 65536
    BY <1>1
  <2> DEFINE t == PunchPkt
  <2> HIDE DEF t
  <2>3. t \in PacketTypes \ {Drw} /\ t # P2PAlive
    BY <2>1 DEF t
  <2>4. IsRead(Plain(t, payload))
    BY <2>2, <2>3, PlainIsRead
  <2>5. QED
    BY <1>2, <2>4 DEF t
<1>4. IsReceived(p, enc, data)
  BY <1>3, ReadIsReceived
<1> HIDE DEF data
<1>5. Reported(data) = {[dev_id |-> id, encryption |-> enc, is_json |-> enc = "XOR1"]}
  <2>1. p # Invalid
    BY <1>2 DEF Plain, Invalid
  <2>2. enc \in {"NONE", "XOR1"} /\ (enc # "NONE") = (enc = "XOR1") /\ enc # "invalid"
    BY DEF Encryptions
  <2>3. Reported(data) = {[dev_id |-> AsObject(p.payload), encryption |-> enc,
                           is_json |-> enc # "NONE"]}
    BY <1>2, <1>4, <2>1, <2>2 DEF Reported, IsReceived
  <2>4. QED
    BY <1>1, <2>2, <2>3 DEF payload
<1>6. ReadsBack(p, enc, data)
  <2>1. p = MakePunch(id)
    BY DEF p
  <2>2. QED
    BY <1>2, <1>4, <1>5, <2>1 DEF ReadsBack, IsReceived
<1>7. Bytes(p) \in Seq(Byte)
  BY <1>3 DEF IsRead
<1>8. QED
  BY <1>6, <1>7 DEF p, data, IsSent

\* parse_drw_pkt() returns a DRW or raises.
LEMMA ParseDrwType ==
  ASSUME NEW data
  PROVE  ParseDrw(data) = Invalid \/ ParseDrw(data).type = Drw
BY DEF ParseDrw, ParseCommand, Json, Command, Raw

\* A chunk is read as it was sent, or starts like a command.
LEMMA ChunkReadsBack ==
  ASSUME NEW ch \in Channels, ch # 0, NEW idx \in Indexed, NEW payload \in Seq(Byte),
         Len(payload) < 65532, NEW enc \in Encryptions
  PROVE  IsSent(Raw(ch, idx, payload), enc)
<1> DEFINE p == Raw(ch, idx, payload)
           data == Encode(enc, Bytes(p))
<1>1. p.type = Drw /\ p.type # PunchPkt /\ p.channel = ch /\ p.idx = idx /\ p.payload = payload
      /\ DrwPayload(p) = payload
  BY DEF Raw, Drw, PunchPkt, DrwPayload
<1>2. CASE Slice(payload, 0, 2) \notin {START_CMD, JSON_MARK}
  <2>1. IsRead(p)
    BY <1>2, RawIsRead
  <2> HIDE DEF p
  <2>2. QED
    BY <1>1, <2>1, NotPunch DEF p
<1>3. CASE Slice(payload, 0, 2) \in {START_CMD, JSON_MARK}
  <2> HIDE DEF p, data
  <2>1. Mistakable(p)
    BY <1>1, <1>3 DEF Mistakable
  <2>2. ch \in Byte
    BY DEF Channels, Byte
  <2>3. Bytes(p) \in Seq(Byte) /\ Len(Bytes(p)) >= 4 /\ Bytes(p)[1] = CAM_MAGIC
        /\ ParsePacket(Bytes(p)) = ParseDrw(Payload(p))
    BY <1>1, <2>2, DrwIsRead
  <2>4. Arrives(enc, Bytes(p))
    <3>1. Len(Bytes(p)) >= 1
      BY <2>3
    <3>2. QED
      BY <2>3, <3>1, IsArrived
  <2>5. MaybeDecode(data) = enc /\ ParsePacket(Decode(enc, data)) = ParseDrw(Payload(p))
    BY <2>3, <2>4 DEF Arrives, data
  <2>6. Reported(data) = {}
    <3> DEFINE r == ParseDrw(Payload(p))
    <3>1. r = Invalid \/ r.type # PunchPkt
      BY ParseDrwType DEF Drw, PunchPkt
    <3> HIDE DEF r
    <3>2. QED
      BY <2>5, <3>1 DEF Reported, r
  <2>7. ReadsBack(p, enc, data)
    BY <1>1, <2>1, <2>5, <2>6 DEF ReadsBack
  <2>8. QED
    BY <2>3, <2>7 DEF p, data, IsSent
<1>4. QED
  BY <1>2, <1>3

\* The payloads of the run are bytes.
LEMMA SomePayloadIs ==
  ASSUME NEW n \in Nat
  PROVE  SomePayload(n) \in Seq(Byte) /\ Len(SomePayload(n)) = n
<1>1. ASSUME NEW i \in 1..n PROVE (i * 37 + 200) % 256 \in Byte
  <2> DEFINE m == i * 37 + 200
  <2>1. m \in Int
    OBVIOUS
  <2> HIDE DEF m
  <2>2. m % 256 \in Byte
    BY <2>1 DEF Byte
  <2>3. QED
    BY <2>2 DEF m
<1>2. QED
  BY <1>1 DEF SomePayload

\* A byte string that fits a packet.
Fits(s) == s \in Seq(Byte) /\ Len(s) < 65500

\* They fit a packet.
LEMMA SomePayloadsFit ==
  ASSUME NEW s \in SomePayloads
  PROVE  Fits(s)
<1>1. PICK n \in 0..MaxPayload : s = SomePayload(n)
  BY DEF SomePayloads
<1>2. n \in Nat /\ n < 65500
  BY <1>1, CodecsAssumption
<1>3. QED
  BY <1>1, <1>2, SomePayloadIs DEF Fits

\* Of so many bytes.
HasLength(s, n) == s \in Seq(Byte) /\ Len(s) = n

\* The length of two parts.
LEMMA JoinHas ==
  ASSUME NEW s, NEW t, NEW m \in Nat, NEW n \in Nat, HasLength(s, m), HasLength(t, n)
  PROVE  HasLength(Cat(s, t), m + n)
BY ConcatProperties DEF Cat, HasLength

\* What is short enough fits.
LEMMA LengthFits ==
  ASSUME NEW s, NEW n \in Nat, HasLength(s, n), n < 65500
  PROVE  Fits(s)
BY DEF HasLength, Fits

\* The lengths of the marks and of a document.
LEMMA MarksHave ==
  /\ HasLength(START_CMD, 2)
  /\ HasLength(JSON_MARK, 2)
  /\ HasLength(<<\h20, \h10>>, 2)
  /\ HasLength(JsonText["user"], 7)
<1>1. HasLength(START_CMD, 2) /\ HasLength(JSON_MARK, 2) /\ HasLength(<<\h20, \h10>>, 2)
  BY DEF START_CMD, JSON_MARK, Byte, HasLength
<1>2. JsonText["user"] = <<123, 34, 117, 34, 58, 49, 125>>
  BY DEF JsonText
<1>3. HasLength(<<123, 34, 117, 34, 58, 49, 125>>, 7)
  BY DEF Byte, HasLength
<1>4. QED
  BY <1>1, <1>2, <1>3

\* The chunks of the run fit a packet.
LEMMA ChunksFit ==
  ASSUME NEW s \in Chunks
  PROVE  Fits(s)
<1> DEFINE start == START_CMD
           mark == JSON_MARK
           head == <<\h20, \h10>>
           text == JsonText["user"]
           zeros == Zeros(6)
           some3 == SomePayload(3)
           some9 == SomePayload(9)
           some12 == SomePayload(12)
<1>1. HasLength(start, 2) /\ HasLength(mark, 2) /\ HasLength(head, 2) /\ HasLength(text, 7)
  BY MarksHave
<1>2. HasLength(zeros, 6)
  BY ZerosAre DEF HasLength
<1>3. HasLength(some3, 3) /\ HasLength(some9, 9) /\ HasLength(some12, 12)
  BY SomePayloadIs DEF HasLength
<1>4. \/ s \in SomePayloads \/ s = start \/ s = Cat(start, some3)
      \/ s = Cat(mark, some12)
      \/ s = Cat(Cat(start, head), some9)
      \/ s = Cat(Cat(mark, zeros), text)
  BY Zenon DEF Chunks, Cat
<1> HIDE DEF start, mark, head, text, zeros, some3, some9, some12
<1>5. Fits(Cat(start, some3))
  <2>1. HasLength(Cat(start, some3), 2 + 3)
    BY <1>1, <1>3, JoinHas
  <2>2. QED
    BY <2>1, LengthFits
<1>6. Fits(Cat(mark, some12))
  <2>1. HasLength(Cat(mark, some12), 2 + 12)
    BY <1>1, <1>3, JoinHas
  <2>2. QED
    BY <2>1, LengthFits
<1>7. Fits(Cat(Cat(start, head), some9))
  <2>1. HasLength(Cat(start, head), 2 + 2)
    BY <1>1, JoinHas
  <2>2. HasLength(Cat(Cat(start, head), some9), 2 + 2 + 9)
    BY <1>3, <2>1, JoinHas
  <2>3. QED
    BY <2>2, LengthFits
<1>8. Fits(Cat(Cat(mark, zeros), text))
  <2>1. HasLength(Cat(mark, zeros), 2 + 6)
    BY <1>1, <1>2, JoinHas
  <2>2. HasLength(Cat(Cat(mark, zeros), text), 2 + 6 + 7)
    BY <1>1, <2>1, JoinHas
  <2>3. QED
    BY <2>2, LengthFits
<1>9. Fits(start)
  BY <1>1, LengthFits
<1>10. QED
  BY <1>4, <1>5, <1>6, <1>7, <1>8, <1>9, SomePayloadsFit

\* What every packet of the run satisfies; only one of them is an alive packet.
IsGood(p) ==
  /\ \A enc \in Encryptions : IsSent(p, enc)
  /\ p.type = P2PAlive => p = Plain(P2PAlive, <<>>)

\* A packet that is read and is neither an answer to the search nor alive is good.
LEMMA GoodIs ==
  ASSUME NEW p, p.type # PunchPkt, p.type # P2PAlive, IsRead(p)
  PROVE  IsGood(p)
BY NotPunch DEF IsGood

\* So is any other packet of such a type with its payload.
LEMMA PlainIsGood ==
  ASSUME NEW t, t \in PacketTypes, t # Drw, t # PunchPkt, t # P2PAlive,
         NEW payload, NEW n \in Nat, HasLength(payload, n), n < 65536
  PROVE  IsGood(Plain(t, payload))
<1> DEFINE p == Plain(t, payload)
<1>1. payload \in Seq(Byte) /\ Len(payload) < 65536
  BY DEF HasLength
<1>2. IsRead(Plain(t, payload))
  BY <1>1, PlainIsRead
<1>3. p.type = t
  BY DEF Plain
<1>4. p.type # PunchPkt /\ p.type # P2PAlive
  BY <1>3
<1> HIDE DEF p
<1>5. IsGood(p)
  BY <1>2, <1>4, GoodIs DEF p
<1>6. QED
  BY <1>5 DEF p

\* A payload that is kept, in a packet of this type.
IsKept(t, payload) ==
  /\ t \in PacketTypes \ {Drw} /\ payload \in Seq(Byte) /\ Len(payload) < 65536
  /\ t = P2PAlive => payload = <<>>

\* A payload that is kept is read.
LEMMA KeptIsRead ==
  ASSUME NEW t, NEW payload, IsKept(t, payload)
  PROVE  IsRead(Plain(t, payload))
BY PlainIsRead DEF IsKept

\* A packet without a payload is read.
LEMMA EmptyIsRead ==
  ASSUME NEW t, t \in PacketTypes, t # Drw
  PROVE  IsRead(Plain(t, <<>>))
<1>1. IsKept(t, <<>>)
  <2>1. <<>> \in Seq(Byte) /\ Len(<<>>) < 65536
    OBVIOUS
  <2>2. QED
    BY <2>1 DEF IsKept
<1>2. QED
  BY <1>1, KeptIsRead

\* The packets without a payload are good.
LEMMA EmptyIsGood ==
  ASSUME NEW t \in {P2PAlive, P2PAliveAck, Close, LanSearch, LanSearchExt}
  PROVE  IsGood(Plain(t, <<>>))
<1> DEFINE none == <<>>
<1>1. none \in Seq(Byte) /\ Len(none) < 65536 /\ none = <<>> /\ HasLength(none, 0)
  BY DEF HasLength
<1>2. t \in PacketTypes /\ t # Drw /\ t # PunchPkt
  BY SMT DEF PacketTypes, P2PAlive, P2PAliveAck, Close, LanSearch, LanSearchExt, Drw, PunchPkt,
             DrwAck, P2pRdy
<1>3. CASE t = P2PAlive
  <2> DEFINE p == Plain(P2PAlive, <<>>)
  <2>1. p.type = P2PAlive /\ p.type # PunchPkt
    BY SMT DEF Plain, P2PAlive, PunchPkt
  <2>2. IsRead(p)
    BY <1>2, <1>3, EmptyIsRead
  <2> HIDE DEF p
  <2>3. IsGood(p)
    BY <2>1, <2>2, NotPunch DEF IsGood, p
  <2>4. QED
    BY <1>3, <2>3 DEF p
<1>4. CASE t # P2PAlive
  <2> HIDE DEF none
  <2>1. IsGood(Plain(t, none))
    BY <1>1, <1>2, <1>4, PlainIsGood
  <2>2. QED
    BY <1>1, <2>1
<1>5. QED
  BY <1>3, <1>4

\* So are the answers to the search,
LEMMA PunchIsGood ==
  ASSUME NEW id \in DevIds
  PROVE  IsGood(MakePunch(id))
<1>1. MakePunch(id).type = PunchPkt
  BY DEF MakePunch, Plain
<1>2. MakePunch(id).type # P2PAlive
  BY <1>1 DEF PunchPkt, P2PAlive
<1>3. QED
  BY <1>2, PunchReadsBack DEF IsGood

\* the packet that says the device is ready,
LEMMA ReadyIsGood ==
  IsGood([MakePunch(DevId) EXCEPT !.type = P2pRdy])
<1> DEFINE payload == MakePunch(DevId).payload
           t == P2pRdy
           p == Plain(t, payload)
<1>1. [MakePunch(DevId) EXCEPT !.type = t] = p
  <2>1. MakePunch(DevId) = Plain(PunchPkt, payload)
    BY DEF MakePunch, Plain
  <2> HIDE DEF payload, t
  <2>2. [Plain(PunchPkt, payload) EXCEPT !.type = t] = Plain(t, payload)
    BY DEF Plain
  <2>3. QED
    BY <2>1, <2>2
<1>2. HasLength(payload, 20)
  <2>1. DevId \in DevIds
    BY DEF DevIds
  <2> DEFINE id == DevId
  <2> HIDE DEF id
  <2>2. IsIdentity(id)
    BY <2>1, DevIdsAre DEF id
  <2>3. MakePunch(id).payload \in Seq(Byte) /\ Len(MakePunch(id).payload) = 20
    BY <2>2, IdentityIsRead
  <2>4. QED
    BY <2>3 DEF HasLength, id
<1>3. t \in PacketTypes /\ t # Drw /\ t # P2PAlive /\ t # PunchPkt
  BY SMT DEF P2pRdy, PacketTypes, Drw, P2PAlive, PunchPkt
<1> HIDE DEF payload, t
<1>4. IsGood(Plain(t, payload))
  BY <1>2, <1>3, PlainIsGood
<1>5. QED
  BY <1>1, <1>4 DEF t

\* the acknowledgements,
LEMMA AckIsGood ==
  ASSUME NEW ch \in Channels, NEW i \in Indexed
  PROVE  IsGood(MakeDrwAck(Raw(ch, i, <<>>)))
<1> DEFINE payload == <<\hD1, ch>> \o U16(1) \o U16(i)
           t == DrwAck
           p == Plain(t, payload)
<1>1. MakeDrwAck(Raw(ch, i, <<>>)) = p
  BY DEF MakeDrwAck, Raw
<1>2. HasLength(payload, 6)
  <2> DEFINE head == <<\hD1, ch>>
             one == U16(1)
             idx == U16(i)
  <2>1. HasLength(head, 2)
    BY DEF Channels, Byte, HasLength
  <2>2. HasLength(one, 2)
    BY DEF U16, Byte, HasLength
  <2>3. HasLength(idx, 2)
    BY DEF U16, Byte, HasLength, Indexed
  <2>4. payload = Cat(Cat(head, one), idx)
    BY DEF Cat
  <2> HIDE DEF head, one, idx, payload
  <2>5. HasLength(Cat(head, one), 2 + 2)
    BY <2>1, <2>2, JoinHas
  <2>6. HasLength(Cat(Cat(head, one), idx), 2 + 2 + 2)
    BY <2>3, <2>5, JoinHas
  <2>7. QED
    BY <2>4, <2>6
<1>3. t \in PacketTypes /\ t # Drw /\ t # P2PAlive /\ t # PunchPkt
  BY SMT DEF DrwAck, PacketTypes, Drw, P2PAlive, PunchPkt
<1> HIDE DEF payload, t
<1>4. IsGood(Plain(t, payload))
  BY <1>2, <1>3, PlainIsGood
<1>5. QED
  BY <1>1, <1>4

\* the binary commands,
LEMMA CommandIsGood ==
  ASSUME NEW i \in Indexed, NEW c \in BinaryCommands, NEW token \in Tokens,
         NEW b \in SomePayloads
  PROVE  IsGood(Command(i, c, token, b))
<1> DEFINE p == Command(i, c, token, b)
<1>1. token \in Seq(Byte) /\ Len(token) = 4
  <2>1. Zeros(4) \in Seq(Byte) /\ Len(Zeros(4)) = 4
    BY ZerosAre
  <2>2. <<\h0E, \hFC, \hFF, \hFF>> \in Seq(Byte) /\ Len(<<\h0E, \hFC, \hFF, \hFF>>) = 4
    BY DEF Byte
  <2>3. QED
    BY <2>1, <2>2 DEF Tokens
<1>2. b \in Seq(Byte) /\ Len(b) < 65500
  BY SomePayloadsFit DEF Fits
<1>3. IsRead(p)
  BY <1>1, <1>2, CommandIsRead
<1>4. p.type # PunchPkt /\ p.type # P2PAlive
  BY SMT DEF Command, Drw, PunchPkt, P2PAlive
<1> HIDE DEF p
<1>5. IsGood(p)
  BY <1>3, <1>4, GoodIs
<1>6. QED
  BY <1>5 DEF p

\* TODO
\* the JSON commands,
LEMMA JsonIsGood ==
  ASSUME NEW i \in Indexed, NEW doc \in DOMAIN JsonText
  PROVE  IsGood(Json(i, JSON_MARK \o <<160, 128>>, doc))
<1> DEFINE preamble == <<6, 10, 160, 128>>
           p == Json(i, preamble, doc)
<1>1. JSON_MARK \o <<160, 128>> = preamble
  BY Pairs DEF JSON_MARK
<1>2. IsRead(p)
  <2>1. 160 \in Byte /\ 128 \in Byte
    BY DEF Byte
  <2>2. QED
    BY <2>1, JsonIsRead
<1>3. p.type # PunchPkt /\ p.type # P2PAlive
  BY SMT DEF Json, Drw, PunchPkt, P2PAlive
<1> HIDE DEF p
<1>4. IsGood(p)
  BY <1>2, <1>3, GoodIs
<1>5. QED
  BY <1>1, <1>4 DEF p

\* and the chunks of video and audio.
LEMMA ChunkIsGood ==
  ASSUME NEW ch \in {1, 2}, NEW i \in Indexed, NEW b \in Chunks
  PROVE  IsGood(Raw(ch, i, b))
<1> DEFINE p == Raw(ch, i, b)
<1>1. b \in Seq(Byte) /\ Len(b) < 65532
  <2>1. b \in Seq(Byte) /\ Len(b) < 65500
    BY ChunksFit DEF Fits
  <2>2. QED
    BY <2>1
<1>2. ch \in Channels /\ ch # 0
  BY DEF Channels
<1>3. \A enc \in Encryptions : IsSent(p, enc)
  BY <1>1, <1>2, ChunkReadsBack
<1>4. p.type # P2PAlive
  BY SMT DEF Raw, Drw, P2PAlive
<1> HIDE DEF p
<1>5. IsGood(p)
  BY <1>3, <1>4 DEF IsGood
<1>6. QED
  BY <1>5 DEF p

\* Every packet of the run is good.
LEMMA PacketsAreGood ==
  ASSUME NEW p \in Packets
  PROVE  IsGood(p)
<1>1. Indices \subseteq Indexed
  BY DEF Indices, Indexed
<1>2. p \in EmptyPackets => IsGood(p)
  BY EmptyIsGood DEF EmptyPackets
<1>3. p \in Answers => IsGood(p)
  BY PunchIsGood, ReadyIsGood DEF Answers
<1>4. p \in Acks => IsGood(p)
  BY <1>1, AckIsGood DEF Acks
<1>5. p \in Commands => IsGood(p)
  BY <1>1, CommandIsGood DEF Commands
<1>6. p \in Documents => IsGood(p)
  BY <1>1, JsonIsGood DEF Documents
<1>7. p \in RawPackets => IsGood(p)
  BY <1>1, ChunkIsGood DEF RawPackets
<1>8. QED
  BY <1>2, <1>3, <1>4, <1>5, <1>6, <1>7 DEF Packets

\* Every packet of the run reads back, with or without the zeros.
LEMMA SentReadsBack ==
  ASSUME NEW p \in Packets, NEW enc \in Encryptions, NEW zeros \in {0, 4},
         zeros > 0 => p.type = P2PAlive
  PROVE  ReadsBack(p, enc, Encode(enc, Bytes(p) \o Zeros(zeros)))
<1>1. IsSent(p, enc) /\ (p.type = P2PAlive => p = Plain(P2PAlive, <<>>))
  BY PacketsAreGood DEF IsGood
<1>2. CASE zeros = 0
  <2>1. Bytes(p) \in Seq(Byte)
    BY <1>1 DEF IsSent
  <2>2. Zeros(0) = <<>>
    BY DEF Zeros
  <2> DEFINE bytes == Bytes(p)
  <2> HIDE DEF bytes
  <2>3. bytes \o <<>> = bytes
    BY <2>1 DEF bytes
  <2>4. ReadsBack(p, enc, Encode(enc, bytes))
    BY <1>1 DEF IsSent, bytes
  <2>5. QED
    BY <1>2, <2>2, <2>3, <2>4 DEF bytes
<1>3. CASE zeros = 4
  <2>1. p = Plain(P2PAlive, <<>>)
    BY <1>1, <1>3
  <2>2. QED
    BY <1>3, <2>1, AliveReadsBack
<1>4. QED
  BY <1>2, <1>3

----------------------------------------------------------------------------
\* The sound: one 16-bit sample at a time.

\* The masks of G.711 are undone, and the sign is what they tell.
LEMMA G711Masks ==
  ASSUME NEW x \in 0..127
  PROVE  /\ Xor(Xor(x, \hD5), \h55) = x + 128 /\ Xor(Xor(x, \h55), \h55) = x
         /\ Xor(x, \h7F) = 127 - x /\ Xor(x, \hFF) = 255 - x
         /\ Xor(x, \hD5) \in Byte /\ Xor(x, \h55) \in Byte
<1>1. /\ x \in Byte /\ 213 \in Byte /\ 85 \in Byte
      /\ \hD5 = 213 /\ \h55 = 85 /\ \h7F = 127 /\ \hFF = 255
  BY DEF Byte
<1>2. /\ Xor(x, 128) = x + 128 /\ Xor(213, 85) = 128
      /\ Xor(x, 127) = 127 - x /\ Xor(x, 255) = 255 - x
  BY XorMasks
<1>3. /\ Xor(x, 213) \in Byte /\ Xor(x, 85) \in Byte /\ Xor(Xor(x, 85), 85) = x
  BY <1>1, XorTwice
<1>4. Xor(Xor(x, 213), 85) = x + 128
  BY <1>1, <1>2, XorAssociates
<1>5. QED
  BY <1>1, <1>2, <1>3, <1>4

\* Search finds the first entry that is not less.
LEMMA SearchFinds ==
  ASSUME NEW table, NEW v, NEW s \in 0..8,
         s = 8 \/ v <= table[s + 1],
         \A j \in 0..(s - 1) : ~(v <= table[j + 1])
  PROVE  Search(v, table) = s
<1> DEFINE First(i) == (i = 8 \/ v <= table[i + 1]) /\ \A j \in 0..(i - 1) : ~(v <= table[j + 1])
<1>1. First(s)
  OBVIOUS
<1>2. ASSUME NEW i \in 0..8, First(i) PROVE i = s
  <2>1. ~(i < s)
    BY <1>2
  <2>2. ~(s < i)
    BY <1>2
  <2>3. QED
    BY <2>1, <2>2
<1>3. Search(v, table) = CHOOSE i \in 0..8 : First(i)
  BY DEF Search, Lowest
<1> HIDE DEF First
<1>4. QED
  BY <1>1, <1>2, <1>3

\* The A-law segment of v and the step of that segment.
ASegment(v) ==
  IF v < 32 THEN 0 ELSE IF v < 64 THEN 1 ELSE IF v < 128 THEN 2 ELSE IF v < 256 THEN 3
  ELSE IF v < 512 THEN 4 ELSE IF v < 1024 THEN 5 ELSE IF v < 2048 THEN 6 ELSE 7

AStep(v) ==
  IF v < 64 THEN 2 ELSE IF v < 128 THEN 4 ELSE IF v < 256 THEN 8 ELSE IF v < 512 THEN 16
  ELSE IF v < 1024 THEN 32 ELSE IF v < 2048 THEN 64 ELSE 128

\* The code of v without its mask, and what is decoded from a code.
ACode(v) ==
  LET seg == Search(v, SEG_AEND)
  IN seg * 16 + ((v \div 2^(IF seg < 2 THEN 1 ELSE seg)) % 16)

AValue(a) ==
  LET t == Quant(a) * 16
  IN CASE Segment(a) = 0 -> t + 8
       [] Segment(a) = 1 -> t + \h108
       [] OTHER -> (t + \h108) * 2^(Segment(a) - 1)

AMagnitude(v) == ((v \div AStep(v)) * 16 + 8) * (AStep(v) \div 2)

\* search() finds the A-law segment.
LEMMA ASearch ==
  ASSUME NEW v \in Nat, v < 4096
  PROVE  Search(v, SEG_AEND) = ASegment(v)
<1>1. /\ SEG_AEND[1] = 31
      /\ SEG_AEND[2] = 63
      /\ SEG_AEND[3] = 127
      /\ SEG_AEND[4] = 255
      /\ SEG_AEND[5] = 511
      /\ SEG_AEND[6] = 1023
      /\ SEG_AEND[7] = 2047
      /\ SEG_AEND[8] = 4095
  BY DEF SEG_AEND
<1>2. ASegment(v) \in 0..8
  BY DEF ASegment
<1>3. v <= SEG_AEND[ASegment(v) + 1]
  BY <1>1 DEF ASegment
<1>4. ASSUME NEW j \in 0..(ASegment(v) - 1) PROVE ~(v <= SEG_AEND[j + 1])
  BY <1>1, <1>4 DEF ASegment
<1>5. QED
  BY <1>2, <1>3, <1>4, SearchFinds

\* v is in a segment: the first one, or one of sixteen steps of its own width.
IsASegment(v, seg, k) ==
  /\ seg \in 0..7
  /\ Search(v, SEG_AEND) = seg
  /\ AStep(v) = k
  /\ 2^(IF seg < 2 THEN 1 ELSE seg) = k
  /\ seg < 2 => k = 2
  /\ seg >= 2 => 2^(seg - 1) = k \div 2
  /\ v \div k \in IF seg = 0 THEN 0..15 ELSE 16..31

\* The segment holds the magnitude.
LEMMA ASegments ==
  ASSUME NEW v \in Nat, v < 4096
  PROVE  IsASegment(v, ASegment(v), AStep(v))
<1>1. Search(v, SEG_AEND) = ASegment(v)
  BY ASearch
<1>2. CASE 0 <= v /\ v < 32
  <2>1. ASegment(v) = 0 /\ AStep(v) = 2
    BY <1>2 DEF ASegment, AStep
  <2>2. IsASegment(v, 0, 2)
    BY <1>1, <1>2, <2>1 DEF IsASegment
  <2>3. QED
    BY <2>1, <2>2
<1>3. CASE 32 <= v /\ v < 64
  <2>1. ASegment(v) = 1 /\ AStep(v) = 2
    BY <1>3 DEF ASegment, AStep
  <2>2. IsASegment(v, 1, 2)
    BY <1>1, <1>3, <2>1 DEF IsASegment
  <2>3. QED
    BY <2>1, <2>2
<1>4. CASE 64 <= v /\ v < 128
  <2>1. ASegment(v) = 2 /\ AStep(v) = 4
    BY <1>4 DEF ASegment, AStep
  <2>2. IsASegment(v, 2, 4)
    BY <1>1, <1>4, <2>1 DEF IsASegment
  <2>3. QED
    BY <2>1, <2>2
<1>5. CASE 128 <= v /\ v < 256
  <2>1. ASegment(v) = 3 /\ AStep(v) = 8
    BY <1>5 DEF ASegment, AStep
  <2>2. IsASegment(v, 3, 8)
    BY <1>1, <1>5, <2>1 DEF IsASegment
  <2>3. QED
    BY <2>1, <2>2
<1>6. CASE 256 <= v /\ v < 512
  <2>1. ASegment(v) = 4 /\ AStep(v) = 16
    BY <1>6 DEF ASegment, AStep
  <2>2. IsASegment(v, 4, 16)
    BY <1>1, <1>6, <2>1 DEF IsASegment
  <2>3. QED
    BY <2>1, <2>2
<1>7. CASE 512 <= v /\ v < 1024
  <2>1. ASegment(v) = 5 /\ AStep(v) = 32
    BY <1>7 DEF ASegment, AStep
  <2>2. IsASegment(v, 5, 32)
    BY <1>1, <1>7, <2>1 DEF IsASegment
  <2>3. QED
    BY <2>1, <2>2
<1>8. CASE 1024 <= v /\ v < 2048
  <2>1. ASegment(v) = 6 /\ AStep(v) = 64
    BY <1>8 DEF ASegment, AStep
  <2>2. IsASegment(v, 6, 64)
    BY <1>1, <1>8, <2>1 DEF IsASegment
  <2>3. QED
    BY <2>1, <2>2
<1>9. CASE 2048 <= v /\ v < 4096
  <2>1. ASegment(v) = 7 /\ AStep(v) = 128
    BY <1>9 DEF ASegment, AStep
  <2>2. IsASegment(v, 7, 128)
    BY <1>1, <1>9, <2>1 DEF IsASegment
  <2>3. QED
    BY <2>1, <2>2
<1>10. QED
  BY <1>2, <1>3, <1>4, <1>5, <1>6, <1>7, <1>8, <1>9

\* The code of v fits seven bits, and is decoded as v's magnitude.
LEMMA ACodeIsDecoded ==
  ASSUME NEW v \in Nat, v < 4096
  PROVE  /\ ACode(v) \in 0..127
         /\ AValue(ACode(v)) = AMagnitude(v)
         /\ AValue(ACode(v) + 128) = AMagnitude(v)
<1> DEFINE seg == ASegment(v)
           k == AStep(v)
           q == v \div k
           c == ACode(v)
<1>1. IsASegment(v, seg, k)
  BY ASegments
<1>2. AMagnitude(v) = (q * 16 + 8) * (k \div 2)
  BY DEF AMagnitude
<1>3. c = seg * 16 + (q % 16)
  BY <1>1 DEF ACode, IsASegment
<1>4. /\ seg \in 0..7
      /\ q \in IF seg = 0 THEN 0..15 ELSE 16..31
      /\ seg < 2 => k = 2
      /\ seg >= 2 => 2^(seg - 1) = k \div 2
  BY <1>1 DEF IsASegment
<1> HIDE DEF seg, k, q, c
<1>5. /\ Segment(c) = seg /\ Segment(c + 128) = seg
      /\ Quant(c) = q % 16 /\ Quant(c + 128) = q % 16
      /\ c \in 0..127
  BY <1>3, <1>4 DEF Segment, Quant
<1>6. CASE seg = 0
  BY <1>2, <1>4, <1>5, <1>6 DEF AValue, c
<1>7. CASE seg = 1
  BY <1>2, <1>4, <1>5, <1>7 DEF AValue, c
<1>8. CASE seg >= 2
  <2>1. ((q % 16) * 16) + 264 = (q * 16) + 8
    BY <1>4, <1>8
  <2>2. /\ AValue(c) = (((q % 16) * 16) + 264) * (k \div 2)
        /\ AValue(c + 128) = (((q % 16) * 16) + 264) * (k \div 2)
    BY <1>4, <1>5, <1>8 DEF AValue
  <2>3. QED
    BY <1>2, <1>5, <2>1, <2>2 DEF c
<1>9. QED
  BY <1>4, <1>6, <1>7, <1>8

\* What is decoded is next to what was coded, is louder when that is, and has a code
\* of the same magnitude, on either side of zero.
AGoodMagnitude(v, m) ==
  /\ m \in Nat /\ m % 8 = 0 /\ 8 <= m /\ m < 32767
  /\ \A n \in Nat : (8 * v) <= n /\ n <= (8 * v) + 8 => /\ m - n <= (n \div 32) + 8
                                                    /\ n - m <= (n \div 32) + 8
  /\ v < 4095 => m <= AMagnitude(v + 1)
  /\ AMagnitude(m \div 8) = m
  /\ AMagnitude((m \div 8) - 1) = m

\* The A-law code of a magnitude decodes to the middle of its step.
LEMMA AMagnitudes ==
  ASSUME NEW v \in Nat, v < 4096
  PROVE  AGoodMagnitude(v, AMagnitude(v))
<1>1. CASE 0 <= v /\ v < 32
  <2>1. AMagnitude(v) = (16 * (v \div 2) + 8) * 1
    BY <1>1 DEF AMagnitude, AStep
  <2>2. ASSUME NEW n \in Nat, (8 * v) <= n, n <= (8 * v) + 8
        PROVE  AMagnitude(v) - n <= (n \div 32) + 8 /\ n - AMagnitude(v) <= (n \div 32) + 8
    BY <1>1, <2>1, <2>2
  <2>3. v < 4095 => AMagnitude(v) <= AMagnitude(v + 1)
    BY <1>1, <2>1 DEF AMagnitude, AStep
  <2>4. AMagnitude(AMagnitude(v) \div 8) = AMagnitude(v)
    BY <1>1, <2>1 DEF AMagnitude, AStep
  <2>5. AMagnitude((AMagnitude(v) \div 8) - 1) = AMagnitude(v)
    BY <1>1, <2>1 DEF AMagnitude, AStep
  <2>6. QED
    BY <1>1, <2>1, <2>2, <2>3, <2>4, <2>5 DEF AGoodMagnitude
<1>2. CASE 32 <= v /\ v < 64
  <2>1. AMagnitude(v) = (16 * (v \div 2) + 8) * 1
    BY <1>2 DEF AMagnitude, AStep
  <2>2. ASSUME NEW n \in Nat, (8 * v) <= n, n <= (8 * v) + 8
        PROVE  AMagnitude(v) - n <= (n \div 32) + 8 /\ n - AMagnitude(v) <= (n \div 32) + 8
    BY <1>2, <2>1, <2>2
  <2>3. v < 4095 => AMagnitude(v) <= AMagnitude(v + 1)
    BY <1>2, <2>1 DEF AMagnitude, AStep
  <2>4. AMagnitude(AMagnitude(v) \div 8) = AMagnitude(v)
    BY <1>2, <2>1 DEF AMagnitude, AStep
  <2>5. AMagnitude((AMagnitude(v) \div 8) - 1) = AMagnitude(v)
    BY <1>2, <2>1 DEF AMagnitude, AStep
  <2>6. QED
    BY <1>2, <2>1, <2>2, <2>3, <2>4, <2>5 DEF AGoodMagnitude
<1>3. CASE 64 <= v /\ v < 128
  <2>1. AMagnitude(v) = (16 * (v \div 4) + 8) * 2
    BY <1>3 DEF AMagnitude, AStep
  <2>2. ASSUME NEW n \in Nat, (8 * v) <= n, n <= (8 * v) + 8
        PROVE  AMagnitude(v) - n <= (n \div 32) + 8 /\ n - AMagnitude(v) <= (n \div 32) + 8
    BY <1>3, <2>1, <2>2
  <2>3. v < 4095 => AMagnitude(v) <= AMagnitude(v + 1)
    BY <1>3, <2>1 DEF AMagnitude, AStep
  <2>4. AMagnitude(AMagnitude(v) \div 8) = AMagnitude(v)
    BY <1>3, <2>1 DEF AMagnitude, AStep
  <2>5. AMagnitude((AMagnitude(v) \div 8) - 1) = AMagnitude(v)
    BY <1>3, <2>1 DEF AMagnitude, AStep
  <2>6. QED
    BY <1>3, <2>1, <2>2, <2>3, <2>4, <2>5 DEF AGoodMagnitude
<1>4. CASE 128 <= v /\ v < 256
  <2>1. AMagnitude(v) = (16 * (v \div 8) + 8) * 4
    BY <1>4 DEF AMagnitude, AStep
  <2>2. ASSUME NEW n \in Nat, (8 * v) <= n, n <= (8 * v) + 8
        PROVE  AMagnitude(v) - n <= (n \div 32) + 8 /\ n - AMagnitude(v) <= (n \div 32) + 8
    BY <1>4, <2>1, <2>2
  <2>3. v < 4095 => AMagnitude(v) <= AMagnitude(v + 1)
    BY <1>4, <2>1 DEF AMagnitude, AStep
  <2>4. AMagnitude(AMagnitude(v) \div 8) = AMagnitude(v)
    BY <1>4, <2>1 DEF AMagnitude, AStep
  <2>5. AMagnitude((AMagnitude(v) \div 8) - 1) = AMagnitude(v)
    BY <1>4, <2>1 DEF AMagnitude, AStep
  <2>6. QED
    BY <1>4, <2>1, <2>2, <2>3, <2>4, <2>5 DEF AGoodMagnitude
<1>5. CASE 256 <= v /\ v < 512
  <2>1. AMagnitude(v) = (16 * (v \div 16) + 8) * 8
    BY <1>5 DEF AMagnitude, AStep
  <2>2. ASSUME NEW n \in Nat, (8 * v) <= n, n <= (8 * v) + 8
        PROVE  AMagnitude(v) - n <= (n \div 32) + 8 /\ n - AMagnitude(v) <= (n \div 32) + 8
    BY <1>5, <2>1, <2>2
  <2>3. v < 4095 => AMagnitude(v) <= AMagnitude(v + 1)
    BY <1>5, <2>1 DEF AMagnitude, AStep
  <2>4. AMagnitude(AMagnitude(v) \div 8) = AMagnitude(v)
    BY <1>5, <2>1 DEF AMagnitude, AStep
  <2>5. AMagnitude((AMagnitude(v) \div 8) - 1) = AMagnitude(v)
    BY <1>5, <2>1 DEF AMagnitude, AStep
  <2>6. QED
    BY <1>5, <2>1, <2>2, <2>3, <2>4, <2>5 DEF AGoodMagnitude
<1>6. CASE 512 <= v /\ v < 1024
  <2>1. AMagnitude(v) = (16 * (v \div 32) + 8) * 16
    BY <1>6 DEF AMagnitude, AStep
  <2>2. ASSUME NEW n \in Nat, (8 * v) <= n, n <= (8 * v) + 8
        PROVE  AMagnitude(v) - n <= (n \div 32) + 8 /\ n - AMagnitude(v) <= (n \div 32) + 8
    BY <1>6, <2>1, <2>2
  <2>3. v < 4095 => AMagnitude(v) <= AMagnitude(v + 1)
    BY <1>6, <2>1 DEF AMagnitude, AStep
  <2>4. AMagnitude(AMagnitude(v) \div 8) = AMagnitude(v)
    BY <1>6, <2>1 DEF AMagnitude, AStep
  <2>5. AMagnitude((AMagnitude(v) \div 8) - 1) = AMagnitude(v)
    BY <1>6, <2>1 DEF AMagnitude, AStep
  <2>6. QED
    BY <1>6, <2>1, <2>2, <2>3, <2>4, <2>5 DEF AGoodMagnitude
<1>7. CASE 1024 <= v /\ v < 2048
  <2>1. AMagnitude(v) = (16 * (v \div 64) + 8) * 32
    BY <1>7 DEF AMagnitude, AStep
  <2>2. ASSUME NEW n \in Nat, (8 * v) <= n, n <= (8 * v) + 8
        PROVE  AMagnitude(v) - n <= (n \div 32) + 8 /\ n - AMagnitude(v) <= (n \div 32) + 8
    BY <1>7, <2>1, <2>2
  <2>3. v < 4095 => AMagnitude(v) <= AMagnitude(v + 1)
    BY <1>7, <2>1 DEF AMagnitude, AStep
  <2>4. AMagnitude(AMagnitude(v) \div 8) = AMagnitude(v)
    BY <1>7, <2>1 DEF AMagnitude, AStep
  <2>5. AMagnitude((AMagnitude(v) \div 8) - 1) = AMagnitude(v)
    BY <1>7, <2>1 DEF AMagnitude, AStep
  <2>6. QED
    BY <1>7, <2>1, <2>2, <2>3, <2>4, <2>5 DEF AGoodMagnitude
<1>8. CASE 2048 <= v /\ v < 4096
  <2>1. AMagnitude(v) = (16 * (v \div 128) + 8) * 64
    BY <1>8 DEF AMagnitude, AStep
  <2>2. ASSUME NEW n \in Nat, (8 * v) <= n, n <= (8 * v) + 8
        PROVE  AMagnitude(v) - n <= (n \div 32) + 8 /\ n - AMagnitude(v) <= (n \div 32) + 8
    BY <1>8, <2>1, <2>2
  <2>3. v < 4095 => AMagnitude(v) <= AMagnitude(v + 1)
    BY <1>8, <2>1 DEF AMagnitude, AStep
  <2>4. AMagnitude(AMagnitude(v) \div 8) = AMagnitude(v)
    BY <1>8, <2>1 DEF AMagnitude, AStep
  <2>5. AMagnitude((AMagnitude(v) \div 8) - 1) = AMagnitude(v)
    BY <1>8, <2>1 DEF AMagnitude, AStep
  <2>6. QED
    BY <1>8, <2>1, <2>2, <2>3, <2>4, <2>5 DEF AGoodMagnitude
<1>9. QED
  BY <1>1, <1>2, <1>3, <1>4, <1>5, <1>6, <1>7, <1>8

\* The u-law segment of v, the step of that segment, the code of v without its mask,
\* and what is decoded from a code.
USegment(v) ==
  IF v < 64 THEN 0 ELSE IF v < 128 THEN 1 ELSE IF v < 256 THEN 2 ELSE IF v < 512 THEN 3
  ELSE IF v < 1024 THEN 4 ELSE IF v < 2048 THEN 5 ELSE IF v < 4096 THEN 6 ELSE 7

UStep(v) ==
  IF v < 64 THEN 2 ELSE IF v < 128 THEN 4 ELSE IF v < 256 THEN 8 ELSE IF v < 512 THEN 16
  ELSE IF v < 1024 THEN 32 ELSE IF v < 2048 THEN 64 ELSE IF v < 4096 THEN 128 ELSE 256

UCode(v) ==
  LET seg == Search(v, SEG_UEND) IN seg * 16 + ((v \div 2^(seg + 1)) % 16)

UValue(u) == (Quant(u) * 8 + BIAS) * 2^Segment(u)

UMagnitude(v) == ((v \div UStep(v)) * 4 + 2) * UStep(v)

\* search() finds the mu-law segment.
LEMMA USearch ==
  ASSUME NEW v \in Nat, v < 8192
  PROVE  Search(v, SEG_UEND) = USegment(v)
<1>1. /\ SEG_UEND[1] = 63
      /\ SEG_UEND[2] = 127
      /\ SEG_UEND[3] = 255
      /\ SEG_UEND[4] = 511
      /\ SEG_UEND[5] = 1023
      /\ SEG_UEND[6] = 2047
      /\ SEG_UEND[7] = 4095
      /\ SEG_UEND[8] = 8191
  BY DEF SEG_UEND
<1>2. USegment(v) \in 0..8
  BY DEF USegment
<1>3. v <= SEG_UEND[USegment(v) + 1]
  BY <1>1 DEF USegment
<1>4. ASSUME NEW j \in 0..(USegment(v) - 1) PROVE ~(v <= SEG_UEND[j + 1])
  BY <1>1, <1>4 DEF USegment
<1>5. QED
  BY <1>2, <1>3, <1>4, SearchFinds

IsUSegment(v, seg, k) ==
  /\ seg \in 0..7
  /\ Search(v, SEG_UEND) = seg
  /\ UStep(v) = k
  /\ 2^(seg + 1) = k
  /\ k = 2 * 2^seg /\ 2^seg \in Nat
  /\ v \div k \in 16..31

\* The segment holds the magnitude.
LEMMA USegments ==
  ASSUME NEW v \in Nat, 32 <= v, v < 8192
  PROVE  IsUSegment(v, USegment(v), UStep(v))
<1>1. Search(v, SEG_UEND) = USegment(v)
  BY USearch
<1>2. CASE 32 <= v /\ v < 64
  <2>1. USegment(v) = 0 /\ UStep(v) = 2
    BY <1>2 DEF USegment, UStep
  <2>2. IsUSegment(v, 0, 2)
    BY <1>1, <1>2, <2>1 DEF IsUSegment
  <2>3. QED
    BY <2>1, <2>2
<1>3. CASE 64 <= v /\ v < 128
  <2>1. USegment(v) = 1 /\ UStep(v) = 4
    BY <1>3 DEF USegment, UStep
  <2>2. IsUSegment(v, 1, 4)
    BY <1>1, <1>3, <2>1 DEF IsUSegment
  <2>3. QED
    BY <2>1, <2>2
<1>4. CASE 128 <= v /\ v < 256
  <2>1. USegment(v) = 2 /\ UStep(v) = 8
    BY <1>4 DEF USegment, UStep
  <2>2. IsUSegment(v, 2, 8)
    BY <1>1, <1>4, <2>1 DEF IsUSegment
  <2>3. QED
    BY <2>1, <2>2
<1>5. CASE 256 <= v /\ v < 512
  <2>1. USegment(v) = 3 /\ UStep(v) = 16
    BY <1>5 DEF USegment, UStep
  <2>2. IsUSegment(v, 3, 16)
    BY <1>1, <1>5, <2>1 DEF IsUSegment
  <2>3. QED
    BY <2>1, <2>2
<1>6. CASE 512 <= v /\ v < 1024
  <2>1. USegment(v) = 4 /\ UStep(v) = 32
    BY <1>6 DEF USegment, UStep
  <2>2. IsUSegment(v, 4, 32)
    BY <1>1, <1>6, <2>1 DEF IsUSegment
  <2>3. QED
    BY <2>1, <2>2
<1>7. CASE 1024 <= v /\ v < 2048
  <2>1. USegment(v) = 5 /\ UStep(v) = 64
    BY <1>7 DEF USegment, UStep
  <2>2. IsUSegment(v, 5, 64)
    BY <1>1, <1>7, <2>1 DEF IsUSegment
  <2>3. QED
    BY <2>1, <2>2
<1>8. CASE 2048 <= v /\ v < 4096
  <2>1. USegment(v) = 6 /\ UStep(v) = 128
    BY <1>8 DEF USegment, UStep
  <2>2. IsUSegment(v, 6, 128)
    BY <1>1, <1>8, <2>1 DEF IsUSegment
  <2>3. QED
    BY <2>1, <2>2
<1>9. CASE 4096 <= v /\ v < 8192
  <2>1. USegment(v) = 7 /\ UStep(v) = 256
    BY <1>9 DEF USegment, UStep
  <2>2. IsUSegment(v, 7, 256)
    BY <1>1, <1>9, <2>1 DEF IsUSegment
  <2>3. QED
    BY <2>1, <2>2
<1>10. QED
  BY <1>2, <1>3, <1>4, <1>5, <1>6, <1>7, <1>8, <1>9

\* The mu-law code of a magnitude decodes to the middle of its step, whichever sign.
LEMMA UCodeIsDecoded ==
  ASSUME NEW v \in Nat, 32 <= v, v < 8192
  PROVE  /\ UCode(v) \in 0..127
         /\ UValue(UCode(v)) = UMagnitude(v) /\ UValue(UCode(v) + 128) = UMagnitude(v)
<1> DEFINE seg == USegment(v)
           k == UStep(v)
           q == v \div k
           c == UCode(v)
           w == 2^seg
<1>1. IsUSegment(v, seg, k)
  BY USegments
<1>2. UMagnitude(v) = (q * 4 + 2) * k
  BY DEF UMagnitude
<1>3. c = seg * 16 + (q % 16)
  BY <1>1 DEF UCode, IsUSegment
<1>4. seg \in 0..7 /\ q \in 16..31 /\ k = 2 * w /\ w \in Nat
  BY <1>1 DEF IsUSegment
<1>5. /\ Segment(c) = seg /\ Segment(c + 128) = seg
      /\ Quant(c) = q % 16 /\ Quant(c + 128) = q % 16
      /\ c \in 0..127
  <2> HIDE DEF seg, k, q, c, w
  <2>1. QED
    BY <1>3, <1>4 DEF Segment, Quant
<1>6. UValue(c) = ((q % 16) * 8 + 132) * w /\ UValue(c + 128) = ((q % 16) * 8 + 132) * w
  BY <1>5 DEF UValue, BIAS
<1> HIDE DEF seg, k, q, w
<1>7. (q % 16) * 8 + 132 = (q * 4 + 2) * 2
  BY <1>4
<1>8. ((q * 4 + 2) * 2) * w = (q * 4 + 2) * (2 * w)
  BY <1>4
<1>9. QED
  BY <1>2, <1>4, <1>5, <1>6, <1>7, <1>8

\* The magnitude that is heard for m, which is clipped.
UHeard(m) == UMagnitude((IF m > 8158 THEN 8158 ELSE m) + 33) - 132

UGoodMagnitude(m, h) ==
  /\ h \in Nat /\ h % 4 = 0 /\ h < 32767 /\ h \div 4 < 8159
  /\ \A n \in Nat : (4 * m) - 3 <= n /\ n <= (4 * m) + 3 => /\ h - n <= (n \div 32) + 8
                                                        /\ n - h <= (n \div 32) + 8
  /\ h <= UHeard(m + 1)
  /\ UHeard(h \div 4) = h

\* What is heard of a magnitude: near it, growing with it, and kept when coded again.
LEMMA UMagnitudes ==
  ASSUME NEW m \in Nat, m <= 8192
  PROVE  UGoodMagnitude(m, UHeard(m))
<1>1. CASE 0 <= m /\ m < 31
  <2>1. UHeard(m) = ((((IF m > 8158 THEN 8158 ELSE m) + 33) \div 2) * 4 + 2) * 2 - 132
    BY <1>1 DEF UHeard, UMagnitude, UStep
  <2>2. ASSUME NEW n \in Nat, (4 * m) - 3 <= n, n <= (4 * m) + 3
        PROVE  UHeard(m) - n <= (n \div 32) + 8 /\ n - UHeard(m) <= (n \div 32) + 8
    BY <1>1, <2>1, <2>2
  <2>3. UHeard(m) <= UHeard(m + 1)
    BY <1>1, <2>1 DEF UHeard, UMagnitude, UStep
  <2>4. UHeard(UHeard(m) \div 4) = UHeard(m)
    BY <1>1, <2>1 DEF UHeard, UMagnitude, UStep
  <2>5. UHeard(m) \in Nat /\ UHeard(m) % 4 = 0 /\ UHeard(m) < 32767 /\ UHeard(m) \div 4 < 8159
    BY <1>1, <2>1
  <2>6. QED
    BY <2>2, <2>3, <2>4, <2>5 DEF UGoodMagnitude
<1>2. CASE 31 <= m /\ m < 95
  <2>1. UHeard(m) = ((((IF m > 8158 THEN 8158 ELSE m) + 33) \div 4) * 4 + 2) * 4 - 132
    BY <1>2 DEF UHeard, UMagnitude, UStep
  <2>2. ASSUME NEW n \in Nat, (4 * m) - 3 <= n, n <= (4 * m) + 3
        PROVE  UHeard(m) - n <= (n \div 32) + 8 /\ n - UHeard(m) <= (n \div 32) + 8
    BY <1>2, <2>1, <2>2
  <2>3. UHeard(m) <= UHeard(m + 1)
    BY <1>2, <2>1 DEF UHeard, UMagnitude, UStep
  <2>4. UHeard(UHeard(m) \div 4) = UHeard(m)
    BY <1>2, <2>1 DEF UHeard, UMagnitude, UStep
  <2>5. UHeard(m) \in Nat /\ UHeard(m) % 4 = 0 /\ UHeard(m) < 32767 /\ UHeard(m) \div 4 < 8159
    BY <1>2, <2>1
  <2>6. QED
    BY <2>2, <2>3, <2>4, <2>5 DEF UGoodMagnitude
<1>3. CASE 95 <= m /\ m < 223
  <2>1. UHeard(m) = ((((IF m > 8158 THEN 8158 ELSE m) + 33) \div 8) * 4 + 2) * 8 - 132
    BY <1>3 DEF UHeard, UMagnitude, UStep
  <2>2. ASSUME NEW n \in Nat, (4 * m) - 3 <= n, n <= (4 * m) + 3
        PROVE  UHeard(m) - n <= (n \div 32) + 8 /\ n - UHeard(m) <= (n \div 32) + 8
    BY <1>3, <2>1, <2>2
  <2>3. UHeard(m) <= UHeard(m + 1)
    BY <1>3, <2>1 DEF UHeard, UMagnitude, UStep
  <2>4. UHeard(UHeard(m) \div 4) = UHeard(m)
    BY <1>3, <2>1 DEF UHeard, UMagnitude, UStep
  <2>5. UHeard(m) \in Nat /\ UHeard(m) % 4 = 0 /\ UHeard(m) < 32767 /\ UHeard(m) \div 4 < 8159
    BY <1>3, <2>1
  <2>6. QED
    BY <2>2, <2>3, <2>4, <2>5 DEF UGoodMagnitude
<1>4. CASE 223 <= m /\ m < 479
  <2>1. UHeard(m) = ((((IF m > 8158 THEN 8158 ELSE m) + 33) \div 16) * 4 + 2) * 16 - 132
    BY <1>4 DEF UHeard, UMagnitude, UStep
  <2>2. ASSUME NEW n \in Nat, (4 * m) - 3 <= n, n <= (4 * m) + 3
        PROVE  UHeard(m) - n <= (n \div 32) + 8 /\ n - UHeard(m) <= (n \div 32) + 8
    BY <1>4, <2>1, <2>2
  <2>3. UHeard(m) <= UHeard(m + 1)
    BY <1>4, <2>1 DEF UHeard, UMagnitude, UStep
  <2>4. UHeard(UHeard(m) \div 4) = UHeard(m)
    BY <1>4, <2>1 DEF UHeard, UMagnitude, UStep
  <2>5. UHeard(m) \in Nat /\ UHeard(m) % 4 = 0 /\ UHeard(m) < 32767 /\ UHeard(m) \div 4 < 8159
    BY <1>4, <2>1
  <2>6. QED
    BY <2>2, <2>3, <2>4, <2>5 DEF UGoodMagnitude
<1>5. CASE 479 <= m /\ m < 991
  <2>1. UHeard(m) = ((((IF m > 8158 THEN 8158 ELSE m) + 33) \div 32) * 4 + 2) * 32 - 132
    BY <1>5 DEF UHeard, UMagnitude, UStep
  <2>2. ASSUME NEW n \in Nat, (4 * m) - 3 <= n, n <= (4 * m) + 3
        PROVE  UHeard(m) - n <= (n \div 32) + 8 /\ n - UHeard(m) <= (n \div 32) + 8
    BY <1>5, <2>1, <2>2
  <2>3. UHeard(m) <= UHeard(m + 1)
    BY <1>5, <2>1 DEF UHeard, UMagnitude, UStep
  <2>4. UHeard(UHeard(m) \div 4) = UHeard(m)
    BY <1>5, <2>1 DEF UHeard, UMagnitude, UStep
  <2>5. UHeard(m) \in Nat /\ UHeard(m) % 4 = 0 /\ UHeard(m) < 32767 /\ UHeard(m) \div 4 < 8159
    BY <1>5, <2>1
  <2>6. QED
    BY <2>2, <2>3, <2>4, <2>5 DEF UGoodMagnitude
<1>6. CASE 991 <= m /\ m < 2015
  <2>1. UHeard(m) = ((((IF m > 8158 THEN 8158 ELSE m) + 33) \div 64) * 4 + 2) * 64 - 132
    BY <1>6 DEF UHeard, UMagnitude, UStep
  <2>2. ASSUME NEW n \in Nat, (4 * m) - 3 <= n, n <= (4 * m) + 3
        PROVE  UHeard(m) - n <= (n \div 32) + 8 /\ n - UHeard(m) <= (n \div 32) + 8
    BY <1>6, <2>1, <2>2
  <2>3. UHeard(m) <= UHeard(m + 1)
    BY <1>6, <2>1 DEF UHeard, UMagnitude, UStep
  <2>4. UHeard(UHeard(m) \div 4) = UHeard(m)
    BY <1>6, <2>1 DEF UHeard, UMagnitude, UStep
  <2>5. UHeard(m) \in Nat /\ UHeard(m) % 4 = 0 /\ UHeard(m) < 32767 /\ UHeard(m) \div 4 < 8159
    BY <1>6, <2>1
  <2>6. QED
    BY <2>2, <2>3, <2>4, <2>5 DEF UGoodMagnitude
<1>7. CASE 2015 <= m /\ m < 4063
  <2>1. UHeard(m) = ((((IF m > 8158 THEN 8158 ELSE m) + 33) \div 128) * 4 + 2) * 128 - 132
    BY <1>7 DEF UHeard, UMagnitude, UStep
  <2>2. ASSUME NEW n \in Nat, (4 * m) - 3 <= n, n <= (4 * m) + 3
        PROVE  UHeard(m) - n <= (n \div 32) + 8 /\ n - UHeard(m) <= (n \div 32) + 8
    BY <1>7, <2>1, <2>2
  <2>3. UHeard(m) <= UHeard(m + 1)
    BY <1>7, <2>1 DEF UHeard, UMagnitude, UStep
  <2>4. UHeard(UHeard(m) \div 4) = UHeard(m)
    BY <1>7, <2>1 DEF UHeard, UMagnitude, UStep
  <2>5. UHeard(m) \in Nat /\ UHeard(m) % 4 = 0 /\ UHeard(m) < 32767 /\ UHeard(m) \div 4 < 8159
    BY <1>7, <2>1
  <2>6. QED
    BY <2>2, <2>3, <2>4, <2>5 DEF UGoodMagnitude
<1>8. CASE 4063 <= m /\ m < 8193
  <2>1. UHeard(m) = ((((IF m > 8158 THEN 8158 ELSE m) + 33) \div 256) * 4 + 2) * 256 - 132
    BY <1>8 DEF UHeard, UMagnitude, UStep
  <2>2. ASSUME NEW n \in Nat, (4 * m) - 3 <= n, n <= (4 * m) + 3
        PROVE  UHeard(m) - n <= (n \div 32) + 8 /\ n - UHeard(m) <= (n \div 32) + 8
    BY <1>8, <2>1, <2>2
  <2>3. UHeard(m) <= UHeard(m + 1)
    BY <1>8, <2>1 DEF UHeard, UMagnitude, UStep
  <2>4. UHeard(UHeard(m) \div 4) = UHeard(m)
    BY <1>8, <2>1 DEF UHeard, UMagnitude, UStep
  <2>5. UHeard(m) \in Nat /\ UHeard(m) % 4 = 0 /\ UHeard(m) < 32767 /\ UHeard(m) \div 4 < 8159
    BY <1>8, <2>1
  <2>6. QED
    BY <2>2, <2>3, <2>4, <2>5 DEF UGoodMagnitude
<1>9. QED
  BY <1>1, <1>2, <1>3, <1>4, <1>5, <1>6, <1>7, <1>8

\* A sample is coded by its magnitude, with a bit for its sign.
LEMMA ALawCode ==
  ASSUME NEW s \in Int, -32768 <= s, s <= 32767
  PROVE  Linear2ALaw(s) = IF s >= 0 THEN Xor(ACode(s \div 8), \hD5)
                          ELSE Xor(ACode(-(s \div 8) - 1), \h55)
<1>1. ASSUME NEW v \in Nat, v < 4096 PROVE Search(v, SEG_AEND) # 8
  BY <1>1, ASearch DEF ASegment
<1>2. CASE s >= 0
  <2>1. s \div 8 \in Nat /\ s \div 8 < 4096 /\ s \div 8 >= 0
    BY <1>2
  <2>2. QED
    BY <1>1, <1>2, <2>1 DEF Linear2ALaw, ACode
<1>3. CASE s < 0
  <2>1. -(s \div 8) - 1 \in Nat /\ -(s \div 8) - 1 < 4096 /\ ~(s \div 8 >= 0)
    BY <1>3
  <2>2. QED
    BY <1>1, <1>3, <2>1 DEF Linear2ALaw, ACode
<1>4. QED
  BY <1>2, <1>3

\* The mask of the sign is undone.
LEMMA ALawSign ==
  ASSUME NEW v \in Nat, v < 4096
  PROVE  /\ DecodeSample("alaw", Xor(ACode(v), \hD5)) = AMagnitude(v)
         /\ DecodeSample("alaw", Xor(ACode(v), \h55)) = -AMagnitude(v)
<1> DEFINE c == ACode(v)
           m == AMagnitude(v)
<1>1. c \in 0..127 /\ AValue(c) = m /\ AValue(c + 128) = m
  BY ACodeIsDecoded
<1>2. m \in Nat /\ m < 32767
  BY AMagnitudes DEF AGoodMagnitude
<1> HIDE DEF c, m
<1>3. /\ Xor(c, \hD5) \in Byte /\ Xor(c, \h55) \in Byte
      /\ Xor(Xor(c, \hD5), \h55) = c + 128 /\ Xor(Xor(c, \h55), \h55) = c
  BY <1>1, G711Masks
<1>4. ALaw2Linear(Xor(c, \hD5)) = m /\ ALaw2Linear(Xor(c, \h55)) = -m
  BY <1>1, <1>3 DEF ALaw2Linear, AValue, IsSigned
<1>5. QED
  BY <1>2, <1>3, <1>4 DEF DecodeSample, ALAW_DECODE, Clamp16, Byte, c, m

\* What is heard of a sample is what is heard of its magnitude, with its sign.
LEMMA HeardALaw ==
  ASSUME NEW s \in Int, -32768 <= s, s <= 32767
  PROVE  /\ s >= 0 => Heard("alaw", s) = AMagnitude(s \div 8)
         /\ s < 0 => Heard("alaw", s) = -AMagnitude(-(s \div 8) - 1)
<1>1. CASE s >= 0
  <2>1. s \div 8 \in Nat /\ s \div 8 < 4096
    BY <1>1
  <2>2. QED
    BY <1>1, <2>1, ALawCode, ALawSign DEF Heard, EncodeSample
<1>2. CASE s < 0
  <2>1. -(s \div 8) - 1 \in Nat /\ -(s \div 8) - 1 < 4096
    BY <1>2
  <2>2. QED
    BY <1>2, <2>1, ALawCode, ALawSign DEF Heard, EncodeSample
<1>3. QED
  BY <1>1, <1>2

\* What is heard of a sample.
HeardWell(codec, s) ==
  /\ Abs(Heard(codec, s) - s) <= (Abs(s) \div 32) + 8
  /\ s < 32767 => Heard(codec, s) <= Heard(codec, s + 1)
  /\ Heard(codec, Heard(codec, s)) = Heard(codec, s)

\* Every sample is heard well in A-law.
LEMMA ALawIsHeardWell ==
  ASSUME NEW s \in Int, -32768 <= s, s <= 32767
  PROVE  HeardWell("alaw", s)
<1>1. CASE s >= 0
  <2> DEFINE v == s \div 8
             m == AMagnitude(v)
  <2>1. v \in Nat /\ v < 4096 /\ 8 * v <= s /\ s <= (8 * v) + 8 /\ s \in Nat
    BY <1>1
  <2>2. Heard("alaw", s) = m /\ AGoodMagnitude(v, m)
    BY <1>1, <2>1, HeardALaw, AMagnitudes
  <2> HIDE DEF m
  <2>3. m \in Nat /\ m < 32767 /\ m - s <= (s \div 32) + 8 /\ s - m <= (s \div 32) + 8
    BY <2>1, <2>2 DEF AGoodMagnitude
  <2>4. s < 32767 => m <= Heard("alaw", s + 1)
    <3>1. SUFFICES ASSUME s < 32767 PROVE m <= Heard("alaw", s + 1)
      OBVIOUS
    <3>2. Heard("alaw", s + 1) = AMagnitude((s + 1) \div 8)
      BY <1>1, <3>1, HeardALaw
    <3>3. (s + 1) \div 8 = v \/ ((s + 1) \div 8 = v + 1 /\ v < 4095)
      BY <1>1, <3>1
    <3>4. QED
      BY <2>2, <2>3, <3>2, <3>3 DEF AGoodMagnitude, m
  <2>5. Heard("alaw", m) = m
    BY <2>2, <2>3, HeardALaw DEF AGoodMagnitude
  <2>6. QED
    BY <1>1, <2>2, <2>3, <2>4, <2>5 DEF HeardWell, Abs
<1>2. CASE s < 0
  <2> DEFINE v == -(s \div 8) - 1
             m == AMagnitude(v)
  <2>1. v \in Nat /\ v < 4096 /\ 8 * v <= -s /\ -s <= (8 * v) + 8 /\ -s \in Nat
    BY <1>2
  <2>2. Heard("alaw", s) = -m /\ AGoodMagnitude(v, m)
    BY <1>2, <2>1, HeardALaw, AMagnitudes
  <2> HIDE DEF m
  <2>3. m \in Nat /\ m < 32767 /\ m + s <= ((-s) \div 32) + 8 /\ -s - m <= ((-s) \div 32) + 8
    <3>1. \A n \in Nat : (8 * v) <= n /\ n <= (8 * v) + 8 => /\ m - n <= (n \div 32) + 8
                                                    /\ n - m <= (n \div 32) + 8
      BY <2>2 DEF AGoodMagnitude
    <3> DEFINE n == -s
    <3>2. n \in Nat /\ (8 * v) <= n /\ n <= (8 * v) + 8
      BY <2>1
    <3>3. m - n <= (n \div 32) + 8 /\ n - m <= (n \div 32) + 8
      BY <3>1, <3>2
    <3>4. QED
      BY <2>2, <3>3 DEF AGoodMagnitude
  <2>4. -m <= Heard("alaw", s + 1)
    <3>1. CASE s = -1
      <4>1. Heard("alaw", 0) = AMagnitude(0) /\ AMagnitude(0) \in Nat
        BY HeardALaw, AMagnitudes DEF AGoodMagnitude
      <4>2. QED
        BY <2>3, <3>1, <4>1
    <3>2. CASE s < -1
      <4> DEFINE w == -((s + 1) \div 8) - 1
      <4>1. Heard("alaw", s + 1) = -AMagnitude(w)
        BY <3>2, HeardALaw
      <4>2. w \in Nat /\ w < 4096 /\ (w = v \/ (v = w + 1 /\ w < 4095))
        BY <3>2
      <4>3. AMagnitude(w) <= m /\ AMagnitude(w) \in Nat
        <5>1. AGoodMagnitude(w, AMagnitude(w))
          BY <4>2, AMagnitudes
        <5> HIDE DEF v, w
        <5>2. QED
          BY <2>3, <4>2, <5>1 DEF AGoodMagnitude, m
      <4>4. QED
        BY <2>3, <4>1, <4>3
    <3>3. QED
      BY <1>2, <3>1, <3>2
  <2>5. Heard("alaw", -m) = -m
    <3>1. m \in Nat /\ m % 8 = 0 /\ 8 <= m /\ AMagnitude((m \div 8) - 1) = m
      BY <2>2 DEF AGoodMagnitude
    <3>2. -((-m) \div 8) - 1 = (m \div 8) - 1
      BY <3>1
    <3>3. Heard("alaw", -m) = -AMagnitude(-((-m) \div 8) - 1)
      BY <2>3, <3>1, HeardALaw
    <3>4. QED
      BY <3>1, <3>2, <3>3
  <2>6. QED
    BY <1>2, <2>2, <2>3, <2>4, <2>5 DEF HeardWell, Abs
<1>3. QED
  BY <1>1, <1>2

\* The mu-law code: the segment and the step in it.
LEMMA UCodeIs ==
  ASSUME NEW v \in Nat, 32 <= v, v < 8192
  PROVE  UCode(v) = USegment(v) * 16 + ((v \div UStep(v)) % 16)
<1>1. IsUSegment(v, USegment(v), UStep(v))
  BY USegments
<1>2. QED
  BY <1>1 DEF UCode, IsUSegment

\* A sample is coded by its magnitude, clipped and biased, with a bit for its sign.
LEMMA ULawCode ==
  ASSUME NEW s \in Int, -32768 <= s, s <= 32767
  PROVE  LET m == IF s >= 0 THEN s \div 4 ELSE -(s \div 4)
             c == UCode((IF m > 8158 THEN 8158 ELSE m) + 33)
         IN Linear2ULaw(s) = IF s >= 0 THEN Xor(c, \hFF) ELSE Xor(c, \h7F)
<1> DEFINE m == IF s >= 0 THEN s \div 4 ELSE -(s \div 4)
           v == (IF m > 8159 THEN 8159 ELSE m) + 33
           u == (IF m > 8158 THEN 8158 ELSE m) + 33
           mask == IF s < 0 THEN \h7F ELSE \hFF
<1>1. /\ s \div 4 < 0 <=> s < 0
      /\ m \in Nat /\ m <= 8192 /\ v \in Nat /\ u \in Nat
      /\ v < 8192 => u = v
      /\ v >= 8192 => v = 8192 /\ u = 8191
  OBVIOUS
<1>2. Linear2ULaw(s) = IF Search(v, SEG_UEND) = 8 THEN Xor(\h7F, mask) ELSE Xor(UCode(v), mask)
  BY <1>1 DEF Linear2ULaw, CLIP, BIAS, UCode
<1>3. UCode(8191) = 127
  <2>1. USegment(8191) = 7 /\ 8191 \div UStep(8191) = 31
    BY DEF USegment, UStep
  <2>2. QED
    BY <2>1, UCodeIs
<1>4. Search(8192, SEG_UEND) = 8
  <2>1. \A j \in 0..7 : ~(8192 <= SEG_UEND[j + 1])
    BY DEF SEG_UEND
  <2>2. QED
    BY <2>1, SearchFinds
<1>5. CASE v < 8192
  <2>1. Search(v, SEG_UEND) # 8
    BY <1>1, <1>5, USearch DEF USegment
  <2>2. QED
    BY <1>1, <1>2, <1>5, <2>1
<1>6. CASE v >= 8192
  BY <1>1, <1>2, <1>3, <1>4, <1>6
<1>7. QED
  BY <1>1, <1>5, <1>6

\* The mask of the sign is undone.
LEMMA ULawSign ==
  ASSUME NEW m \in Nat, m <= 8192
  PROVE  LET c == UCode((IF m > 8158 THEN 8158 ELSE m) + 33)
         IN /\ DecodeSample("ulaw", Xor(c, \hFF)) = UHeard(m)
            /\ DecodeSample("ulaw", Xor(c, \h7F)) = -UHeard(m)
<1> DEFINE v == (IF m > 8158 THEN 8158 ELSE m) + 33
           c == UCode(v)
           h == UHeard(m)
<1>1. v \in Nat /\ 32 <= v /\ v < 8192
  OBVIOUS
<1>2. h = UMagnitude(v) - 132
  BY DEF UHeard
<1> HIDE DEF v, h
<1>3. c \in 0..127 /\ UValue(c) = UMagnitude(v) /\ UValue(c + 128) = UMagnitude(v)
  BY <1>1, UCodeIsDecoded
<1>4. h \in Nat /\ h < 32767
  BY UMagnitudes DEF UGoodMagnitude, h
<1> HIDE DEF c
<1>5. Xor(c, \h7F) = 127 - c /\ Xor(c, \hFF) = 255 - c
  BY <1>3, G711Masks
<1>6. ULaw2Linear(255 - c) = UValue(c) - 132 /\ ULaw2Linear(127 - c) = 132 - UValue(c + 128)
  <2>1. 255 - (255 - c) = c /\ 255 - (127 - c) = c + 128
    BY <1>3
  <2>2. ~IsSigned(c) /\ IsSigned(c + 128)
    BY <1>3 DEF IsSigned
  <2>3. QED
    BY <2>1, <2>2 DEF ULaw2Linear, UValue, BIAS
<1>7. UMagnitude(v) \in Int
  BY DEF UMagnitude, UStep, v
<1>8. ULaw2Linear(255 - c) = h /\ ULaw2Linear(127 - c) = -h
  BY <1>2, <1>3, <1>6, <1>7
<1>9. 255 - c \in 0..255 /\ 127 - c \in 0..255
  BY <1>3
<1>10. DecodeSample("ulaw", 255 - c) = h /\ DecodeSample("ulaw", 127 - c) = -h
  BY <1>4, <1>8, <1>9 DEF DecodeSample, ULAW_DECODE, Clamp16
<1>11. QED
  BY <1>5, <1>10 DEF c, v, h

\* What is heard of a sample is what is heard of its magnitude, with its sign.
LEMMA HeardULaw ==
  ASSUME NEW s \in Int, -32768 <= s, s <= 32767
  PROVE  /\ s >= 0 => Heard("ulaw", s) = UHeard(s \div 4)
         /\ s < 0 => Heard("ulaw", s) = -UHeard(-(s \div 4))
<1>1. CASE s >= 0
  <2>1. s \div 4 \in Nat /\ s \div 4 <= 8192
    BY <1>1
  <2>2. QED
    BY <1>1, <2>1, ULawCode, ULawSign DEF Heard, EncodeSample
<1>2. CASE s < 0
  <2>1. -(s \div 4) \in Nat /\ -(s \div 4) <= 8192
    BY <1>2
  <2>2. QED
    BY <1>2, <2>1, ULawCode, ULawSign DEF Heard, EncodeSample
<1>3. QED
  BY <1>1, <1>2

\* Every sample is heard well in mu-law.
LEMMA ULawIsHeardWell ==
  ASSUME NEW s \in Int, -32768 <= s, s <= 32767
  PROVE  HeardWell("ulaw", s)
<1>1. CASE s >= 0
  <2> DEFINE v == s \div 4
             h == UHeard(v)
  <2>1. v \in Nat /\ v <= 8191 /\ (4 * v) - 3 <= s /\ s <= (4 * v) + 3 /\ s \in Nat
    BY <1>1
  <2>2. Heard("ulaw", s) = h /\ UGoodMagnitude(v, h)
    BY <1>1, <2>1, HeardULaw, UMagnitudes
  <2> HIDE DEF h
  <2>3. h \in Nat /\ h < 32767 /\ h - s <= (s \div 32) + 8 /\ s - h <= (s \div 32) + 8
    BY <2>1, <2>2 DEF UGoodMagnitude
  <2>4. s < 32767 => h <= Heard("ulaw", s + 1)
    <3>1. SUFFICES ASSUME s < 32767 PROVE h <= Heard("ulaw", s + 1)
      OBVIOUS
    <3>2. Heard("ulaw", s + 1) = UHeard((s + 1) \div 4)
      BY <1>1, <3>1, HeardULaw
    <3>3. (s + 1) \div 4 = v \/ (s + 1) \div 4 = v + 1
      BY <1>1, <3>1
    <3>4. QED
      BY <2>2, <2>3, <3>2, <3>3 DEF UGoodMagnitude, h
  <2>5. Heard("ulaw", h) = h
    BY <2>2, <2>3, HeardULaw DEF UGoodMagnitude
  <2>6. QED
    BY <1>1, <2>2, <2>3, <2>4, <2>5 DEF HeardWell, Abs
<1>2. CASE s < 0
  <2> DEFINE v == -(s \div 4)
             h == UHeard(v)
  <2>1. v \in Nat /\ v <= 8192 /\ (4 * v) - 3 <= -s /\ -s <= (4 * v) + 3 /\ -s \in Nat
    BY <1>2
  <2>2. Heard("ulaw", s) = -h /\ UGoodMagnitude(v, h)
    BY <1>2, <2>1, HeardULaw, UMagnitudes
  <2> HIDE DEF h
  <2>3. h \in Nat /\ h < 32767 /\ h + s <= ((-s) \div 32) + 8 /\ -s - h <= ((-s) \div 32) + 8
    <3>1. \A n \in Nat : (4 * v) - 3 <= n /\ n <= (4 * v) + 3 => /\ h - n <= (n \div 32) + 8
                                                              /\ n - h <= (n \div 32) + 8
      BY <2>2 DEF UGoodMagnitude
    <3> DEFINE n == -s
    <3>2. n \in Nat /\ (4 * v) - 3 <= n /\ n <= (4 * v) + 3
      BY <2>1
    <3>3. h - n <= (n \div 32) + 8 /\ n - h <= (n \div 32) + 8
      BY <3>1, <3>2
    <3>4. QED
      BY <2>2, <3>3 DEF UGoodMagnitude
  <2>4. -h <= Heard("ulaw", s + 1)
    <3>1. CASE s = -1
      <4>1. Heard("ulaw", 0) = UHeard(0) /\ UHeard(0) \in Nat
        BY HeardULaw, UMagnitudes DEF UGoodMagnitude
      <4>2. QED
        BY <2>3, <3>1, <4>1
    <3>2. CASE s < -1
      <4> DEFINE w == -((s + 1) \div 4)
      <4>1. Heard("ulaw", s + 1) = -UHeard(w)
        BY <3>2, HeardULaw
      <4>2. w \in Nat /\ w <= 8192 /\ (w = v \/ v = w + 1)
        BY <3>2
      <4>3. UHeard(w) <= h /\ UHeard(w) \in Nat
        <5>1. UGoodMagnitude(w, UHeard(w))
          BY <4>2, UMagnitudes
        <5> HIDE DEF v, w
        <5>2. QED
          BY <2>3, <4>2, <5>1 DEF UGoodMagnitude, h
      <4>4. QED
        BY <2>3, <4>1, <4>3
    <3>3. QED
      BY <1>2, <3>1, <3>2
  <2>5. Heard("ulaw", -h) = -h
    <3>1. h \in Nat /\ h % 4 = 0 /\ UHeard(h \div 4) = h
      BY <2>2 DEF UGoodMagnitude
    <3>2. CASE h = 0
      BY <3>1, <3>2, HeardULaw
    <3>3. CASE h > 0
      <4>1. -((-h) \div 4) = h \div 4
        BY <3>1
      <4>2. Heard("ulaw", -h) = -UHeard(-((-h) \div 4))
        <5> DEFINE m == -h
        <5>1. m \in Int /\ -32768 <= m /\ m <= 32767 /\ m < 0
          BY <2>3, <3>1, <3>3
        <5> HIDE DEF m
        <5>2. Heard("ulaw", m) = -UHeard(-(m \div 4))
          BY <5>1, HeardULaw
        <5>3. QED
          BY <5>2 DEF m
      <4>3. QED
        BY <3>1, <4>1, <4>2
    <3>4. QED
      BY <3>1, <3>2, <3>3
  <2>6. QED
    BY <1>2, <2>2, <2>3, <2>4, <2>5 DEF HeardWell, Abs
<1>3. QED
  BY <1>1, <1>2

----------------------------------------------------------------------------
\* The battery and the clock.

\* What is read of a clock that was set.
ReadsClock(firmware, own, utc, offset) ==
  LET read == ParseDatetime(Stores(firmware, own, SetDatetime(utc, offset)))
  IN /\ read.layout = firmware
     /\ firmware = "utc+tz" => read.local = utc + offset /\ read.offset = offset
     /\ firmware = "local-only" => read.local = utc + own

\* A zone a host can be in.
IsZone(offset) == offset \in Int /\ offset % 900 = 0 /\ Abs(offset) <= 14 * 3600

\* The clock that was set is read, whatever the time and the zone.
LEMMA ClockRead ==
  ASSUME NEW utc \in Int, NEW offset, IsZone(offset), NEW own \in Int,
         NEW firmware \in {"utc+tz", "local-only"}
  PROVE  ReadsClock(firmware, own, utc, offset)
<1> offset \in Int /\ offset % 900 = 0 /\ Abs(offset) <= 14 * 3600
  BY DEF IsZone
<1>1. /\ TzWestSeconds(-offset) = offset
      /\ TzWestSeconds(224) = None
  BY DEF TzWestSeconds, Abs
<1>2. CASE firmware = "utc+tz"
  <2>1. offset # None
    BY ReadingsAssumption
  <2>2. Stores(firmware, own, SetDatetime(utc, offset)) = [timestamp |-> utc, field |-> -offset]
    BY <1>2 DEF Stores, SetDatetime
  <2>3. ParseDatetime([timestamp |-> utc, field |-> -offset])
          = [layout |-> "utc+tz", local |-> utc + offset, offset |-> offset]
    BY <1>1, <2>1 DEF ParseDatetime
  <2>4. QED
    BY <1>2, <2>2, <2>3 DEF ReadsClock
<1>3. CASE firmware = "local-only"
  BY <1>1, <1>3, ReadingsAssumption DEF ParseDatetime, Stores, SetDatetime, ReadsClock
<1>4. QED
  BY <1>2, <1>3

\* The curve falls strictly, by five percent from each point to the next.
Mv(i) == BATTERY_CURVE[i][1]
Pct(i) == BATTERY_CURVE[i][2]
Point(i) == /\ Mv(i) \in Int /\ 3270 <= Mv(i) /\ Mv(i) <= 4200
            /\ Pct(i) \in Int /\ 0 <= Pct(i) /\ Pct(i) <= 100
Widths == {10, 20, 30, 40, 50, 60, 80, 340}

\* What the argument needs of the table: its ends, its steps and their widths.
LEMMA TheCurve ==
  /\ Mv(1) = 4200 /\ Pct(1) = 100
  /\ Mv(21) = 3270 /\ Pct(21) = 0
  /\ Len(BATTERY_CURVE) = 21
  /\ \A i \in 1..21 : Point(i)
  /\ \A i \in 2..21 : Mv(i - 1) - Mv(i) \in Widths
  /\ \A i \in 2..21 : Pct(i - 1) - Pct(i) = 5
<1>1. \A i \in 2..21 : Mv(i - 1) - Mv(i) \in Widths
  BY DEF BATTERY_CURVE, Mv, Pct, Widths
<1>2. \A i \in 2..21 : Pct(i - 1) - Pct(i) = 5
  BY DEF BATTERY_CURVE, Mv, Pct
<1>3. \A i \in 1..21 : Point(i)
  BY DEF BATTERY_CURVE, Mv, Pct, Point
<1>4. /\ Mv(1) = 4200 /\ Pct(1) = 100
      /\ Mv(21) = 3270 /\ Pct(21) = 0
      /\ Len(BATTERY_CURVE) = 21
  BY DEF BATTERY_CURVE, Mv, Pct
<1>5. QED
  BY <1>1, <1>2, <1>3, <1>4

\* The voltages of the table fall.
LEMMA CurveFalls ==
  \A i, j \in 1..21 : i < j => Mv(i) > Mv(j)
BY DEF BATTERY_CURVE, Mv, Pct

\* Rounding between two points of the curve.
RoundsUp(p, d, x) ==
  /\ Round(p * d + 5 * x, d) \in p..(p + 5)
  /\ x = 0 => Round(p * d + 5 * x, d) = p
  /\ x = d => Round(p * d + 5 * x, d) = p + 5
  /\ x < d => Round(p * d + 5 * (x + 1), d) - Round(p * d + 5 * x, d) \in {0, 1}

\* A step of a fraction rounds to the same percentage or the next.
LEMMA Rounding ==
  ASSUME NEW d \in Widths, NEW p \in 0..95, NEW x \in 0..d
  PROVE  RoundsUp(p, d, x)
<1>1. CASE d = 10
  BY <1>1 DEF RoundsUp, Round
<1>2. CASE d = 20
  BY <1>2 DEF RoundsUp, Round
<1>3. CASE d = 30
  BY <1>3 DEF RoundsUp, Round
<1>4. CASE d = 40
  BY <1>4 DEF RoundsUp, Round
<1>5. CASE d = 50
  BY <1>5 DEF RoundsUp, Round
<1>6. CASE d = 60
  BY <1>6 DEF RoundsUp, Round
<1>7. CASE d = 80
  BY <1>7 DEF RoundsUp, Round
<1>8. CASE d = 340
  BY <1>8 DEF RoundsUp, Round
<1>9. QED
  BY <1>1, <1>2, <1>3, <1>4, <1>5, <1>6, <1>7, <1>8 DEF Widths

\* What is in the curve's range is interpolated between the two points it is between.
LEMMA Between ==
  ASSUME NEW i \in 2..21, NEW mv \in Int,
         Mv(i) <= mv, mv < Mv(i - 1), mv # 3270
  PROVE  BatPercent(mv) = Interpolated(BATTERY_CURVE[i - 1], BATTERY_CURVE[i], mv)
<1>2. ASSUME NEW j \in 2..21, Above(mv, j) PROVE j = i
  <2>1. /\ Mv(j) \in Int /\ Mv(j - 1) \in Int
        /\ Mv(i) \in Int /\ Mv(i - 1) \in Int
    BY TheCurve DEF Point
  <2>2. ~(j < i)
    <3>1. SUFFICES ASSUME j < i PROVE FALSE
      OBVIOUS
    <3>2. j = i - 1 \/ Mv(j) > Mv(i - 1)
      BY <3>1, CurveFalls
    <3>3. QED
      BY <1>2, <2>1, <3>2 DEF Above, Mv
  <2>3. ~(i < j)
    <3>1. SUFFICES ASSUME i < j PROVE FALSE
      OBVIOUS
    <3>2. i = j - 1 \/ Mv(i) > Mv(j - 1)
      BY <3>1, CurveFalls
    <3>3. QED
      BY <1>2, <2>1, <3>2 DEF Above, Mv
  <2>4. QED
    BY <2>2, <2>3
<1>3. Len(BATTERY_CURVE) = 21
  BY TheCurve DEF Point
<1>4. mv \in 3271..4199
  BY TheCurve DEF Point
<1> DEFINE chosen == CHOOSE j \in 2..21 : Above(mv, j)
<1>5. chosen = i
  <2>1. Above(mv, i)
    BY DEF Above, Mv
  <2>2. QED
    BY <1>2, <2>1
<1>6. BatPercent(mv) = Interpolated(BATTERY_CURVE[chosen - 1], BATTERY_CURVE[chosen], mv)
  BY <1>3, <1>4 DEF BatPercent
<1> HIDE DEF chosen
<1>7. QED
  BY <1>5, <1>6

\* Between two points the percentage is a fraction, rounded.
LEMMA InterpolatedIs ==
  ASSUME NEW i \in 2..21, NEW mv \in Int, Mv(i) <= mv, mv <= Mv(i - 1)
  PROVE  /\ Mv(i - 1) - Mv(i) \in Widths
         /\ Pct(i) \in 0..95
         /\ mv - Mv(i) \in 0..(Mv(i - 1) - Mv(i))
         /\ Interpolated(BATTERY_CURVE[i - 1], BATTERY_CURVE[i], mv)
              = Round(Pct(i) * (Mv(i - 1) - Mv(i)) + 5 * (mv - Mv(i)), Mv(i - 1) - Mv(i))
<1>1. /\ Point(i) /\ Point(i - 1) /\ Mv(i - 1) - Mv(i) \in Widths /\ Pct(i - 1) - Pct(i) = 5
  BY TheCurve
<1>2. Interpolated(BATTERY_CURVE[i - 1], BATTERY_CURVE[i], mv)
        = Round(Pct(i) * (Mv(i - 1) - Mv(i)) + (Pct(i - 1) - Pct(i)) * (mv - Mv(i)),
                Mv(i - 1) - Mv(i))
  BY DEF Interpolated, Mv, Pct
<1>3. Pct(i) \in 0..95 /\ mv - Mv(i) \in 0..(Mv(i - 1) - Mv(i))
  BY <1>1 DEF Point
<1>4. QED
  BY <1>1, <1>2, <1>3

\* The percentage at a point, and between two points with these included.
LEMMA AtPoint ==
  ASSUME NEW i \in 1..21
  PROVE  BatPercent(Mv(i)) = Pct(i)
<1>2. CASE i = 1
  BY TheCurve, <1>2 DEF Point, BatPercent
<1>3. CASE i = 21
  BY TheCurve, <1>3 DEF Point, BatPercent
<1>4. CASE i \in 2..20
  <2>1. Mv(i) < Mv(i - 1) /\ Mv(21) < Mv(i)
    BY <1>4, CurveFalls
  <2>2. Mv(i) \in Int /\ Mv(i) # 3270
    BY TheCurve, <1>4, <2>1 DEF Point
  <2>3. BatPercent(Mv(i))
          = Interpolated(BATTERY_CURVE[i - 1], BATTERY_CURVE[i], Mv(i))
    BY <1>4, <2>1, <2>2, Between
  <2> DEFINE d == Mv(i - 1) - Mv(i)
  <2>4. /\ d \in Widths /\ Pct(i) \in 0..95
        /\ Interpolated(BATTERY_CURVE[i - 1], BATTERY_CURVE[i], Mv(i))
             = Round(Pct(i) * d + 5 * 0, d)
    <3>1. Mv(i) <= Mv(i) /\ Mv(i) <= Mv(i - 1) /\ Mv(i) - Mv(i) = 0
      BY <1>4, <2>1, <2>2, TheCurve DEF Point
    <3>2. QED
      BY <1>4, <2>2, <3>1, InterpolatedIs
  <2>5. 0 \in 0..d
    BY <2>4 DEF Widths
  <2> HIDE DEF d
  <2>6. RoundsUp(Pct(i), d, 0)
    BY <2>4, <2>5, Rounding
  <2>7. QED
    BY <2>3, <2>4, <2>6 DEF RoundsUp
<1>5. QED
  BY <1>2, <1>3, <1>4

\* Which two points a voltage is between.
LEMMA OnSegment ==
  ASSUME NEW i \in 2..21, NEW mv \in Int,
         Mv(i) <= mv, mv <= Mv(i - 1)
  PROVE  BatPercent(mv) = Interpolated(BATTERY_CURVE[i - 1], BATTERY_CURVE[i], mv)
<1> DEFINE lo == BATTERY_CURVE[i]
           hi == BATTERY_CURVE[i - 1]
           d == Mv(i - 1) - Mv(i)
           x == mv - Mv(i)
<1>2. /\ Mv(i) \in Int /\ Mv(i - 1) \in Int /\ Pct(i - 1) = Pct(i) + 5 /\ Pct(i) \in Int
      /\ BatPercent(Mv(i)) = Pct(i) /\ BatPercent(Mv(i - 1)) = Pct(i - 1)
  <2>1. BatPercent(Mv(i)) = Pct(i) /\ BatPercent(Mv(i - 1)) = Pct(i - 1)
    BY AtPoint
  <2>2. QED
    BY TheCurve, <2>1 DEF Point
<1>3. /\ d \in Widths /\ Pct(i) \in 0..95 /\ x \in 0..d
      /\ Interpolated(hi, lo, mv) = Round(Pct(i) * d + 5 * x, d)
  BY InterpolatedIs
<1>4. RoundsUp(Pct(i), d, x)
  BY <1>3, Rounding, Zenon
<1>5. CASE mv = Mv(i)
  <2>1. x = 0
    BY <1>2, <1>5
  <2>2. QED
    BY <1>2, <1>3, <1>4, <1>5, <2>1 DEF RoundsUp
<1>6. CASE mv = Mv(i - 1)
  <2>1. x = d
    BY <1>6
  <2>2. QED
    BY <1>2, <1>3, <1>4, <1>6, <2>1 DEF RoundsUp
<1>7. CASE mv # Mv(i) /\ mv # Mv(i - 1)
  <2>1. Mv(i) >= 3270
    BY TheCurve DEF Point
  <2>2. Mv(i) <= mv /\ mv < Mv(i - 1) /\ mv # 3270
    BY <1>2, <1>7, <2>1
  <2>3. QED
    BY <2>2, Between
<1>8. QED
  BY <1>5, <1>6, <1>7

\* Every voltage of the curve is on a segment of it.
LEMMA SomeSegment ==
  ASSUME NEW mv \in Int, 3270 <= mv, mv < 4200
  PROVE  \E i \in 2..21 : Mv(i) <= mv /\ mv < Mv(i - 1)
<1>1. SUFFICES ASSUME \A i \in 2..21 : ~(Mv(i) <= mv /\ mv < Mv(i - 1))
               PROVE  FALSE
  OBVIOUS
<1>2. QED
  BY <1>1 DEF BATTERY_CURVE, Mv

\* A millivolt more.
LEMMA Grows ==
  ASSUME NEW mv \in Int
  PROVE  LET now == BatPercent(mv)
             next == BatPercent(mv + 1)
         IN /\ (now = None) = (mv \notin 3000..4600)
            /\ now # None => now \in 0..100
            /\ now # None /\ next # None => next - now \in {0, 1}
<1>1. CASE mv \notin 3000..4600
  BY <1>1 DEF BatPercent
<1>2. CASE mv \in 3000..3269
  <2>1. BatPercent(mv) = 0 /\ BatPercent(mv + 1) = 0
    BY <1>2 DEF BatPercent
  <2>2. QED
    BY <1>2, <2>1, ReadingsAssumption
<1>3. CASE mv \in 4200..4600
  <2>1. BatPercent(mv) = 100 /\ BatPercent(mv + 1) \in {100, None}
    BY <1>3 DEF BatPercent
  <2>2. QED
    BY <1>3, <2>1, ReadingsAssumption
<1>4. CASE mv \in 3270..4199
  <2>1. PICK i \in 2..21 : Mv(i) <= mv /\ mv < Mv(i - 1)
    <3>1. 3270 <= mv /\ mv < 4200
      BY <1>4
    <3>2. QED
      BY <3>1, SomeSegment
  <2> DEFINE d == Mv(i - 1) - Mv(i)
             x == mv - Mv(i)
             At(n) == Round(Pct(i) * d + 5 * (n - Mv(i)), d)
  <2>2. Mv(i) \in Int /\ Mv(i - 1) \in Int
    BY TheCurve DEF Point
  <2>3. ASSUME NEW n \in Int, Mv(i) <= n, n <= Mv(i - 1) PROVE BatPercent(n) = At(n)
    BY <2>3, OnSegment, InterpolatedIs
  <2>4. BatPercent(mv) = At(mv) /\ BatPercent(mv + 1) = At(mv + 1)
    <3>1. /\ mv + 1 \in Int /\ Mv(i) <= mv + 1 /\ mv + 1 <= Mv(i - 1) /\ mv <= Mv(i - 1)
      BY <2>1, <2>2
    <3> HIDE DEF At
    <3>2. QED
      BY <2>1, <2>3, <3>1
  <2>5. d \in Widths /\ Pct(i) \in 0..95 /\ x \in 0..d
    <3>1. mv <= Mv(i - 1)
      BY <2>1, <2>2
    <3>2. QED
      BY <2>1, <3>1, InterpolatedIs
  <2>6. /\ BatPercent(mv) = Round(Pct(i) * d + 5 * x, d)
        /\ BatPercent(mv + 1) = Round(Pct(i) * d + 5 * (x + 1), d)
    <3> DEFINE y == (mv + 1) - Mv(i)
    <3>1. y = x + 1
      BY <2>2
    <3>2. At(mv + 1) = Round(Pct(i) * d + 5 * y, d) /\ At(mv) = Round(Pct(i) * d + 5 * x, d)
      OBVIOUS
    <3> HIDE DEF At, x, y
    <3>3. QED
      BY <2>4, <3>1, <3>2
  <2>7. x < d
    BY <2>1, <2>2
  <2>8. RoundsUp(Pct(i), d, x)
    BY <2>5, Rounding, Zenon
  <2>9. Pct(i) \in Int
    BY <2>5
  <2> HIDE DEF d, x
  <2>10. BatPercent(mv) \in 0..100 /\ BatPercent(mv + 1) - BatPercent(mv) \in {0, 1}
    BY <2>6, <2>7, <2>8, <2>9, <2>5 DEF RoundsUp
  <2>11. QED
    BY <1>4, <2>10, ReadingsAssumption
<1>5. QED
  BY <1>1, <1>2, <1>3, <1>4

----------------------------------------------------------------------------
\* The properties of MCCodecs.

\* What the input of the run is.
IsValue(kind) == \E v \in Int : input = [kind |-> kind, value |-> v]
IsSample == \E v \in Int : /\ input = [kind |-> "sample", value |-> v]
                           /\ -32768 <= v /\ v <= 32767
IsDatagram ==
  \E p, enc : \E data :
    /\ ReadsBack(p, enc, data)
    /\ input = [kind |-> "datagram", packet |-> p, encryption |-> enc, data |-> data]

\* The invariant the properties follow from.
CodecsInv ==
  IsSample \/ IsValue("millivolts") \/ IsValue("zone") \/ input = [kind |-> "idle"] \/ IsDatagram

\* A step of a counter keeps its kind.
LEMMA RisesIs ==
  ASSUME NEW kind, NEW step \in Int, NEW last, NEW v \in Int,
         input = [kind |-> kind, value |-> v], Rises(kind, step, last)
  PROVE  input' = [kind |-> kind, value |-> v + step] /\ v < last /\ v + step \in Int
BY DEF Rises

\* Only a counter of that kind takes it.
LEMMA RisesOnly ==
  ASSUME NEW kind, NEW step, NEW last, Rises(kind, step, last)
  PROVE  input.kind = kind
BY DEF Rises

\* The kind of the input.
LEMMA KindsAre ==
  /\ IsSample => input.kind = "sample"
  /\ \A kind : IsValue(kind) => input.kind = kind
  /\ input = [kind |-> "idle"] => input.kind = "idle"
  /\ IsDatagram => input.kind = "datagram"
BY DEF IsSample, IsValue, IsDatagram

\* The input is always what the run may give.
THEOREM CodecsInvariant == CodecsSpec => []CodecsInv
<1>1. CodecsInit => CodecsInv
  <2>1. ASSUME input = [kind |-> "sample", value |-> -32768] PROVE IsSample
    BY <2>1 DEF IsSample
  <2>2. ASSUME input = [kind |-> "millivolts", value |-> 2990] PROVE IsValue("millivolts")
    BY <2>2 DEF IsValue
  <2>3. ASSUME input = [kind |-> "zone", value |-> -15 * 3600] PROVE IsValue("zone")
    BY <2>3 DEF IsValue
  <2>4. QED
    BY <2>1, <2>2, <2>3 DEF CodecsInit, CodecsInv
<1>2. CodecsInv /\ [CodecsNext]_input => CodecsInv'
  <2> SUFFICES ASSUME CodecsInv, [CodecsNext]_input PROVE CodecsInv'
    OBVIOUS
  <2>1. CASE Rises("sample", 1, 32767)
    <3>1. IsSample
      BY <2>1, RisesOnly, KindsAre DEF CodecsInv
    <3>2. PICK v \in Int : input = [kind |-> "sample", value |-> v] /\ -32768 <= v /\ v <= 32767
      BY <3>1 DEF IsSample
    <3>3. input' = [kind |-> "sample", value |-> v + 1] /\ v < 32767 /\ v + 1 \in Int
      BY <2>1, <3>2, RisesIs
    <3>4. -32768 <= v + 1 /\ v + 1 <= 32767
      BY <3>2, <3>3
    <3>5. QED
      BY <3>3, <3>4 DEF CodecsInv, IsSample
  <2>2. CASE Rises("millivolts", 1, 4610)
    <3>1. IsValue("millivolts")
      BY <2>2, RisesOnly, KindsAre DEF CodecsInv
    <3>2. PICK v \in Int : input = [kind |-> "millivolts", value |-> v]
      BY <3>1 DEF IsValue
    <3>3. input' = [kind |-> "millivolts", value |-> v + 1] /\ v + 1 \in Int
      BY <2>2, <3>2, RisesIs
    <3>4. QED
      BY <3>3 DEF CodecsInv, IsValue
  <2>3. CASE Rises("zone", 300, 15 * 3600)
    <3> DEFINE step == 300
               last == 15 * 3600
    <3>1. IsValue("zone")
      BY <2>3, RisesOnly, KindsAre DEF CodecsInv
    <3>2. PICK v \in Int : input = [kind |-> "zone", value |-> v]
      BY <3>1 DEF IsValue
    <3>3. Rises("zone", step, last) /\ step \in Int
      BY <2>3
    <3> HIDE DEF step, last
    <3>4. input' = [kind |-> "zone", value |-> v + step] /\ v + step \in Int
      BY <3>2, <3>3, RisesIs
    <3>5. QED
      BY <3>4 DEF CodecsInv, IsValue
  <2>4. ASSUME NEW p \in Packets, NEW enc \in Encryptions, NEW zeros \in {0, 4},
               Sends(p, enc, zeros)
        PROVE  IsDatagram'
    <3>1. ReadsBack(p, enc, Encode(enc, Bytes(p) \o Zeros(zeros)))
      BY <2>4, SentReadsBack DEF Sends
    <3>2. input' = [kind |-> "datagram", packet |-> p, encryption |-> enc,
                    data |-> Encode(enc, Bytes(p) \o Zeros(zeros))]
      BY <2>4 DEF Sends
    <3> DEFINE data == Encode(enc, Bytes(p) \o Zeros(zeros))
    <3> HIDE DEF data
    <3>3. ReadsBack(p, enc, data)
      BY <3>1 DEF data
    <3>4. input' = [kind |-> "datagram", packet |-> p, encryption |-> enc, data |-> data]
      BY <3>2 DEF data
    <3>5. QED
      BY <3>3, <3>4 DEF IsDatagram
  <2>5. CASE UNCHANGED input
    BY <2>5 DEF CodecsInv, IsSample, IsValue, IsDatagram
  <2>6. QED
    BY <2>1, <2>2, <2>3, <2>4, <2>5 DEF CodecsNext, CodecsInv
<1>3. QED
  BY <1>1, <1>2, PTL DEF CodecsSpec

\* What is sent is read: for every packet of the run and either encryption.
THEOREM SentIsRead == CodecsSpec => []WhatIsSentIsRead
<1>1. CodecsInv => WhatIsSentIsRead
  <2> SUFFICES ASSUME CodecsInv, input.kind = "datagram" PROVE WhatIsSentIsRead
    BY DEF WhatIsSentIsRead
  <2>1. IsDatagram
    BY KindsAre DEF CodecsInv
  <2>2. PICK p, enc, data :
          /\ ReadsBack(p, enc, data)
          /\ input = [kind |-> "datagram", packet |-> p, encryption |-> enc, data |-> data]
    BY <2>1 DEF IsDatagram
  <2>3. input.packet = p /\ input.encryption = enc /\ input.data = data
    BY <2>2
  <2>4. QED
    BY <2>2, <2>3 DEF ReadsBack, WhatIsSentIsRead
<1>2. QED
  BY <1>1, CodecsInvariant, PTL

\* Talk-back is heard as it was said: for every sample and both codecs.
THEOREM SoundIsFaithful == CodecsSpec => []AudioFaithful
<1>1. CodecsInv => AudioFaithful
  <2> SUFFICES ASSUME CodecsInv, input.kind = "sample" PROVE AudioFaithful
    BY DEF AudioFaithful
  <2>1. IsSample
    BY KindsAre DEF CodecsInv
  <2>2. PICK v \in Int : input = [kind |-> "sample", value |-> v] /\ -32768 <= v /\ v <= 32767
    BY <2>1 DEF IsSample
  <2>3. input.value = v
    BY <2>2
  <2>4. HeardWell("alaw", v) /\ HeardWell("ulaw", v)
    BY <2>2, ALawIsHeardWell, ULawIsHeardWell
  <2>5. \A codec \in Codecs : HeardWell(codec, v)
    BY <2>4 DEF Codecs
  <2>6. QED
    BY <2>3, <2>5 DEF HeardWell, AudioFaithful
<1>2. QED
  BY <1>1, CodecsInvariant, PTL

\* The percentage grows with the voltage: for every voltage.
THEOREM PercentageGrows == CodecsSpec => []BatteryGrows
<1>1. CodecsInv => BatteryGrows
  <2> SUFFICES ASSUME CodecsInv, input.kind = "millivolts" PROVE BatteryGrows
    BY DEF BatteryGrows
  <2>1. IsValue("millivolts")
    BY KindsAre DEF CodecsInv
  <2>2. PICK mv \in Int : input.value = mv
    BY <2>1 DEF IsValue
  <2>3. ASSUME NEW i \in 1..Len(BATTERY_CURVE), BATTERY_CURVE[i][1] = mv
        PROVE  BatPercent(mv) = BATTERY_CURVE[i][2]
    <3>1. i \in 1..21 /\ Mv(i) = mv
      BY <2>3, TheCurve DEF Mv
    <3>2. BatPercent(Mv(i)) = Pct(i)
      BY <3>1, AtPoint, Zenon
    <3>3. QED
      BY <3>1, <3>2 DEF Pct
  <2>4. QED
    BY <2>2, <2>3, Grows DEF BatteryGrows
<1>2. QED
  BY <1>1, CodecsInvariant, PTL

\* The clock that is set is read, in every zone a host can be in: local time and
\* zone where the firmware keeps a zone, and local time of the zone the camera was
\* configured with where it keeps none.
THEOREM ClockIsAsSet == CodecsSpec => []ClockIsReadBack
<1>1. CodecsInv => ClockIsReadBack
  <2> SUFFICES ASSUME CodecsInv, input.kind = "zone",
                      NEW firmware \in {"utc+tz", "local-only"}, NEW own \in OwnOffsets,
                      input.value % 900 = 0, Abs(input.value) <= 14 * 3600
               PROVE  LET read == ParseDatetime(Stores(firmware, own,
                                                       SetDatetime(1787493648, input.value)))
                      IN /\ read.layout = firmware
                         /\ firmware = "utc+tz" => /\ read.local = 1787493648 + input.value
                                                   /\ read.offset = input.value
                         /\ firmware = "local-only" => read.local = 1787493648 + own
    BY SMT DEF ClockIsReadBack
  <2> DEFINE utc == 1787493648
  <2>1. IsValue("zone")
    BY KindsAre DEF CodecsInv
  <2>2. utc \in Int /\ own \in Int /\ IsZone(input.value)
    BY <2>1 DEF IsValue, IsZone, OwnOffsets
  <2> HIDE DEF utc
  <2>3. ReadsClock(firmware, own, utc, input.value)
    BY <2>2, ClockRead
  <2>4. QED
    BY <2>3, SMT DEF utc, ReadsClock
<1>2. QED
  BY <1>1, CodecsInvariant, PTL
=============================================================================
