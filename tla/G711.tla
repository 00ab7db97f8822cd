-------------------------------- MODULE G711 --------------------------------
(***************************************************************************)
(* The audio codecs of src/aiopppp/audio.py, sample by sample: A-law and   *)
(* u-law codes, 0..255, of signed 16-bit samples.  \div rounds down, as    *)
(* the shifts of a negative sample do.                                     *)
(***************************************************************************)
EXTENDS Integers, Bytewise

SEG_AEND == <<\h1F, \h3F, \h7F, \hFF, \h1FF, \h3FF, \h7FF, \hFFF>>
SEG_UEND == <<\h3F, \h7F, \hFF, \h1FF, \h3FF, \h7FF, \hFFF, \h1FFF>>
BIAS == \h84
CLIP == 8159

Segment(code) == (code \div 16) % 8
Quant(code) == code % 16
IsSigned(code) == code >= 128

\* The lowest entry that satisfies Is, or one past the last.
Lowest(Is(_)) ==
  CHOOSE i \in 0..8 : (i = 8 \/ Is(i + 1)) /\ \A j \in 0..(i - 1) : ~Is(j + 1)

\* Mutant: the end of a segment is not part of it.
SearchBelow(val, table) == Lowest(LAMBDA i : val < table[i])

Search(val, table) == Lowest(LAMBDA i : val <= table[i])

ALaw2Linear(code) ==
  LET a == Xor(code, \h55)
      t == Quant(a) * 16
      m == CASE Segment(a) = 0 -> t + 8
             [] Segment(a) = 1 -> t + \h108
             [] OTHER -> (t + \h108) * 2^(Segment(a) - 1)
  IN IF IsSigned(a) THEN m ELSE -m

Linear2ALaw(sample) ==
  LET p == sample \div 8
      mask == IF p >= 0 THEN \hD5 ELSE \h55
      v == IF p >= 0 THEN p ELSE -p - 1
      seg == Search(v, SEG_AEND)
  IN IF seg = 8 THEN Xor(\h7F, mask)
     ELSE Xor(seg * 16 + ((v \div 2^(IF seg < 2 THEN 1 ELSE seg)) % 16), mask)

ULaw2Linear(code) ==
  LET u == 255 - code
      t == (Quant(u) * 8 + BIAS) * 2^Segment(u)
  IN IF IsSigned(u) THEN BIAS - t ELSE t - BIAS

Linear2ULaw(sample) ==
  LET p == sample \div 4
      mask == IF p < 0 THEN \h7F ELSE \hFF
      m == IF p < 0 THEN -p ELSE p
      v == (IF m > CLIP THEN CLIP ELSE m) + BIAS \div 4
      seg == Search(v, SEG_UEND)
  IN IF seg = 8 THEN Xor(\h7F, mask)
     ELSE Xor(seg * 16 + ((v \div 2^(seg + 1)) % 16), mask)

Codecs == {"alaw", "ulaw"}
EncodeSample(codec, sample) ==
  IF codec = "alaw" THEN Linear2ALaw(sample) ELSE Linear2ULaw(sample)

Clamp16(v) == IF v > 32767 THEN 32767 ELSE IF v < -32768 THEN -32768 ELSE v

\* The decode tables.
ALAW_DECODE == [code \in 0..255 |-> Clamp16(ALaw2Linear(code))]
ULAW_DECODE == [code \in 0..255 |-> Clamp16(ULaw2Linear(code))]
DecodeSample(codec, code) == IF codec = "alaw" THEN ALAW_DECODE[code] ELSE ULAW_DECODE[code]
=============================================================================
