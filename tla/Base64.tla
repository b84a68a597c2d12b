------------------------------- MODULE Base64 -------------------------------
(***************************************************************************)
(* base64.c.  Bytes and characters are numbers, characters in ASCII.  The  *)
(* loops over groups are written as functions of the position, so that     *)
(* ConfigProofs can speak about texts of every length.                     *)
(***************************************************************************)
EXTENDS Integers, Sequences

Byte == 0..255
Equals == 61       \* '='

\* BASE64_CHARS: A-Z, a-z, 0-9, + and /
BASE64_CHARS == [n \in 0..63 |-> IF n < 26 THEN 65 + n
                                 ELSE IF n < 52 THEN 71 + n
                                 ELSE IF n < 62 THEN n - 4
                                 ELSE IF n = 62 THEN 43 ELSE 47]

\* _base64_char_value
CharValue(c) == IF 65 <= c /\ c <= 90 THEN c - 65
                ELSE IF 97 <= c /\ c <= 122 THEN c - 71
                ELSE IF 48 <= c /\ c <= 57 THEN c + 4
                ELSE IF c = 43 THEN 62
                ELSE IF c = 47 THEN 63 ELSE -1

-----------------------------------------------------------------------------
\* _base64_encode_triple
EncodeTriple(a, b, c) ==
  LET v == (a * 256 + b) * 256 + c
  IN << BASE64_CHARS[(v \div 262144) % 64], BASE64_CHARS[(v \div 4096) % 64],
        BASE64_CHARS[(v \div 64) % 64], BASE64_CHARS[v % 64] >>

\* The byte at a position, 0 behind the end.
ByteAt(source, k) == IF k <= Len(source) THEN source[k] ELSE 0

\* The g-th group of four characters, padded if the source ends in it.
Group(source, g) ==
  LET left == Len(source) - 3 * (g - 1)
      four == EncodeTriple(ByteAt(source, 3*g - 2), ByteAt(source, 3*g - 1), ByteAt(source, 3*g))
  IN << four[1], four[2], IF left = 1 THEN Equals ELSE four[3],
                          IF left < 3 THEN Equals ELSE four[4] >>

\* base64_encode into a buffer that is large enough.
base64_encode(source) ==
  [k \in 1 .. 4 * ((Len(source) + 2) \div 3) |->
     Group(source, (k - 1) \div 4 + 1)[((k - 1) % 4) + 1]]

-----------------------------------------------------------------------------
\* How many '=' a group of four ends in.  Mutant: the test of the last one only.
PaddingOnce(q) == IF q[4] # Equals THEN 0 ELSE 1
Padding(q) == IF q[4] # Equals THEN 0
              ELSE IF q[3] # Equals THEN 1
              ELSE IF q[2] # Equals THEN 2
              ELSE IF q[1] # Equals THEN 3 ELSE 4

\* _base64_decode_triple: the number of bytes.
DecodedBytes(q) ==
  IF \E n \in 1 .. 4 - Padding(q) : CharValue(q[n]) < 0 THEN 0
  ELSE IF Padding(q) = 4 THEN 0 ELSE 3 - Padding(q)

ValueOf(c) == IF c = Equals THEN 0 ELSE CharValue(c)

\* _base64_decode_triple: one big value, broken into bytes, of which the first
\* DecodedBytes(q) count.
BigValue(q) == ((ValueOf(q[1]) * 64 + ValueOf(q[2])) * 64 + ValueOf(q[3])) * 64 + ValueOf(q[4])
BytesOf(v) == << (v \div 65536) % 256, (v \div 256) % 256, v % 256 >>
DecodeTriple(q) == BytesOf(BigValue(q))

\* What follows the text in the copy that is decoded.
Ending == <<Equals, Equals, Equals, Equals>>

\* Skipping other characters as they come is the same as dropping them first.
Significant(c) == c = Equals \/ CharValue(c) >= 0
Kept(source) ==
  LET text == source \o Ending
      kept[i \in 0..Len(text)] == IF i = 0 THEN <<>>
                                  ELSE IF Significant(text[i]) THEN Append(kept[i - 1], text[i])
                                  ELSE kept[i - 1]
  IN kept[Len(text)]

\* The n-th group of four that is decoded.
Quad(kept, n) == SubSeq(kept, 4*n - 3, 4*n)

\* The loop goes on while groups are full; a group that is not there would be
\* taken from behind the copy.
FullQuad(kept, n) == 4*n <= Len(kept) /\ DecodedBytes(Quad(kept, n)) = 3

\* The number of groups the loop decodes.
Rounds(kept) ==
  CHOOSE n \in 1 .. Len(kept) \div 4 + 1 :
    ~FullQuad(kept, n) /\ \A m \in 1..n-1 : FullQuad(kept, m)

\* The loop never reads behind the copy.
StaysInside(kept) == 4 * Rounds(kept) <= Len(kept)

\* base64_decode into a buffer that is large enough, after the filtering.
Decoded(kept) ==
  [k \in 1 .. 3 * (Rounds(kept) - 1) + DecodedBytes(Quad(kept, Rounds(kept))) |->
     DecodeTriple(Quad(kept, (k - 1) \div 3 + 1))[((k - 1) % 3) + 1]]

base64_decode(source) == Decoded(Kept(source))

-----------------------------------------------------------------------------
(* The reference: RFC 3548 as a string of bits, six for a character. *)

Weights == <<128, 64, 32, 16, 8, 4, 2, 1>>
Bit(source, b) == (ByteAt(source, b \div 8 + 1) \div Weights[(b % 8) + 1]) % 2

Six(source, n) ==
  Bit(source, 6*n) * 32 + Bit(source, 6*n + 1) * 16 + Bit(source, 6*n + 2) * 8
  + Bit(source, 6*n + 3) * 4 + Bit(source, 6*n + 4) * 2 + Bit(source, 6*n + 5)

Rfc3548(source) ==
  LET chars == (8 * Len(source) + 5) \div 6
      padded == 4 * ((Len(source) + 2) \div 3)
  IN [k \in 1..padded |-> IF k <= chars THEN BASE64_CHARS[Six(source, k - 1)] ELSE Equals]
=============================================================================
