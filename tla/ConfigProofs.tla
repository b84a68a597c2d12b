---------------------------- MODULE ConfigProofs ----------------------------
(***************************************************************************)
(* Proofs about base64.c and about the configuration.                      *)
(*                                                                         *)
(* For texts of every length: base64_encode writes the encoding of RFC     *)
(* 3548, base64_decode reads it back, and the decoder never reads behind   *)
(* its copy of what was sent.                                              *)
(*                                                                         *)
(* For every battery.conf: when all loaders have run, the settings are     *)
(* those of the last lines and the tables those of the first, a request    *)
(* is admitted by the first access line for its file, and login and        *)
(* password are found in the text that carries them.  The invariant        *)
(* ConfigInv says the same of the lines read so far.                       *)
(***************************************************************************)
EXTENDS Config, FiniteSetTheorems, SequenceTheorems, WellFoundedInduction, TLAPS

-----------------------------------------------------------------------------
(* One group. *)

\* Four values of six bits make the number they are cut from.
LEMMA SixBitsJoin ==
  ASSUME NEW v \in Nat, v < 16777216
  PROVE  ((((v \div 262144) % 64) * 64 + ((v \div 4096) % 64)) * 64 + ((v \div 64) % 64)) * 64
           + (v % 64) = v
BY SMT

\* What is cut from a number is a value of six bits.
LEMMA SixBitsType ==
  ASSUME NEW v \in Nat
  PROVE  /\ (v \div 262144) % 64 \in 0..63 /\ (v \div 4096) % 64 \in 0..63
         /\ (v \div 64) % 64 \in 0..63     /\ v % 64 \in 0..63
BY SMT

\* The value of a character of the alphabet is its place in it.
LEMMA CharValueOfChar ==
  ASSUME NEW n \in 0..63
  PROVE  /\ CharValue(BASE64_CHARS[n]) = n
         /\ BASE64_CHARS[n] # Equals
         /\ BASE64_CHARS[n] \in Byte
         /\ ValueOf(BASE64_CHARS[n]) = n
BY SMT DEF CharValue, BASE64_CHARS, Equals, Byte, ValueOf

\* A byte is a natural number below 256.
LEMMA ByteRange == \A x \in 0..255 : x \in Nat /\ x < 256
BY SMT

\* A value of six bits is not the -1 of a character outside the alphabet.
LEMMA SixBitRange == \A x \in 0..63 : ~(x < 0)
BY SMT

\* Within a text and behind it, ByteAt is a byte.
LEMMA ByteAtType ==
  ASSUME NEW source \in Seq(Byte), NEW k \in Nat \ {0}
  PROVE  ByteAt(source, k) \in Nat /\ ByteAt(source, k) < 256
<1>1. CASE k <= Len(source)
  <2>1. source[k] \in 0..255
    BY <1>1, ElementOfSeq DEF Byte
  <2>2. source[k] \in Nat /\ source[k] < 256
    BY <2>1, ByteRange, Zenon
  <2> QED
    BY <1>1, <2>2, Zenon DEF ByteAt
<1>2. CASE ~(k <= Len(source))
  BY <1>2 DEF ByteAt
<1> QED
  BY <1>1, <1>2

\* The bytes of the g-th group of a source.
Three(source, g) ==
  << ByteAt(source, 3*g - 2), ByteAt(source, 3*g - 1), ByteAt(source, 3*g) >>

Least(m, n) == IF m < n THEN m ELSE n

\* A group that is encoded and decoded gives its bytes, and as many of them as
\* the source has.
LEMMA GroupRoundTrip ==
  ASSUME NEW source \in Seq(Byte), NEW g \in Nat \ {0}, 3 * (g - 1) < Len(source)
  PROVE  /\ DecodeTriple(Group(source, g)) = Three(source, g)
         /\ DecodedBytes(Group(source, g)) = Least(3, Len(source) - 3 * (g - 1))
<1> DEFINE a == ByteAt(source, 3*g - 2)
           b == ByteAt(source, 3*g - 1)
           c == ByteAt(source, 3*g)
           v == (a * 256 + b) * 256 + c
           left == Len(source) - 3 * (g - 1)
           s1 == (v \div 262144) % 64
           s2 == (v \div 4096) % 64
           s3 == (v \div 64) % 64
           s4 == v % 64
           q == Group(source, g)
<1>1. /\ a \in Nat /\ b \in Nat /\ c \in Nat /\ a < 256 /\ b < 256 /\ c < 256
  <2>1. /\ 3*g - 2 \in Nat \ {0} /\ 3*g - 1 \in Nat \ {0} /\ 3*g \in Nat \ {0}
    BY SMT
  <2> QED
    BY <2>1, ByteAtType
<1>2. left \in Nat /\ left >= 1
  BY SMT
<1>3. /\ left = 1 => b = 0 /\ c = 0
      /\ left = 2 => c = 0
  BY SMT DEF ByteAt
<1>v. v = (a * 256 + b) * 256 + c
  OBVIOUS
<1> HIDE DEF a, b, c, v
<1>4. /\ v \in Nat /\ v < 16777216
      /\ (v \div 65536) % 256 = a /\ (v \div 256) % 256 = b /\ v % 256 = c
      /\ c = 0 => s4 = 0
      /\ b = 0 /\ c = 0 => s3 = 0
  BY <1>1, <1>v, SMT
<1>5. /\ s1 \in 0..63 /\ s2 \in 0..63 /\ s3 \in 0..63 /\ s4 \in 0..63
      /\ ((s1 * 64 + s2) * 64 + s3) * 64 + s4 = v
  BY <1>4, SixBitsJoin, SixBitsType, SMTT(40)
<1>6. q = << BASE64_CHARS[s1], BASE64_CHARS[s2],
             IF left = 1 THEN Equals ELSE BASE64_CHARS[s3],
             IF left < 3 THEN Equals ELSE BASE64_CHARS[s4] >>
  BY SMT DEF Group, EncodeTriple, a, b, c, v
<1> HIDE DEF left, s1, s2, s3, s4, q
<1>q. /\ q[1] = BASE64_CHARS[s1]
      /\ q[2] = BASE64_CHARS[s2]
      /\ q[3] = IF left = 1 THEN Equals ELSE BASE64_CHARS[s3]
      /\ q[4] = IF left < 3 THEN Equals ELSE BASE64_CHARS[s4]
  BY <1>6
<1>7. /\ ValueOf(q[1]) = s1 /\ ValueOf(q[2]) = s2 /\ ValueOf(q[3]) = s3 /\ ValueOf(q[4]) = s4
  <2>1. ValueOf(Equals) = 0
    BY DEF ValueOf
  <2>2. left = 1 => s3 = 0
    BY <1>3, <1>4
  <2>3. left < 3 => s4 = 0
    BY <1>2, <1>3, <1>4, SMT
  <2> QED
    BY <1>5, <1>6, <2>1, <2>2, <2>3, CharValueOfChar
<1>8. DecodeTriple(q) = <<a, b, c>>
  <2>1. BigValue(q) = v
    BY <1>5, <1>7, SMT DEF BigValue
  <2>2. BytesOf(v) = <<a, b, c>>
    BY <1>4, SMT DEF BytesOf
  <2> QED
    BY <2>1, <2>2, Zenon DEF DecodeTriple
<1>9. DecodedBytes(q) = Least(3, left)
  <2>1. /\ q[1] # Equals /\ q[2] # Equals
        /\ q[3] = Equals <=> left = 1
        /\ q[4] = Equals <=> left < 3
    <3>1. \A n \in 0..63 : BASE64_CHARS[n] # Equals
      BY CharValueOfChar
    <3> QED
      BY <1>5, <1>q, <3>1, Zenon
  <2>2. Padding(q) = 3 - Least(3, left)
    BY <1>2, <2>1, SMT DEF Padding, Least
  <2>3. \A n \in 1 .. 4 - Padding(q) : CharValue(q[n]) \in 0..63
    <3>1. CharValue(q[1]) = s1 /\ CharValue(q[2]) = s2
      BY <1>5, <1>6, CharValueOfChar
    <3>2. left # 1 => CharValue(q[3]) = s3
      BY <1>5, <1>6, CharValueOfChar
    <3>3. ~(left < 3) => CharValue(q[4]) = s4
      BY <1>5, <1>6, CharValueOfChar
    <3> QED
      <4>1. SUFFICES ASSUME NEW n \in 1 .. 4 - Padding(q)
                     PROVE  CharValue(q[n]) \in 0..63
        OBVIOUS
      <4>2. n \in 1 .. 4 - (3 - Least(3, left))
        BY <2>2
      <4>3. n \in 1..4 /\ (n = 3 => left # 1) /\ (n = 4 => ~(left < 3))
        BY <1>2, <4>2, SMT DEF Least
      <4> QED
        <5>1. n = 1 \/ n = 2 \/ n = 3 \/ n = 4
          BY <4>3, SMT
        <5> QED
          BY <1>5, <3>1, <3>2, <3>3, <4>3, <5>1, Zenon
  <2>4. ~ \E n \in 1 .. 4 - Padding(q) : CharValue(q[n]) < 0
    BY <2>3, SixBitRange, Zenon
  <2> QED
    BY <1>2, <2>2, <2>4, SMT DEF DecodedBytes, Least
<1> QED
  BY <1>8, <1>9 DEF Three, a, b, c, left, q

-----------------------------------------------------------------------------
(* Whole texts. *)

Encoded(source) == base64_encode(source) \o Ending

\* A function on 1..4 is the tuple of its four values.
LEMMA FourElements ==
  ASSUME NEW q, q = [k \in 1..4 |-> q[k]]
  PROVE  q = <<q[1], q[2], q[3], q[4]>>
<1> DEFINE t == <<q[1], q[2], q[3], q[4]>>
<1>1. t = [k \in 1..4 |-> t[k]]
  OBVIOUS
<1>2. \A k \in 1..4 : t[k] = q[k]
  <2>1. TAKE k \in 1..4
  <2>2. k = 1 \/ k = 2 \/ k = 3 \/ k = 4
    BY SMT
  <2>3. t[1] = q[1] /\ t[2] = q[2] /\ t[3] = q[3] /\ t[4] = q[4]
    OBVIOUS
  <2> QED
    BY <2>2, <2>3, Zenon
<1> HIDE DEF t
<1>3. [k \in 1..4 |-> t[k]] = [k \in 1..4 |-> q[k]]
  BY <1>2, Zenon
<1>4. q = t
  BY <1>1, <1>3, Zenon
<1> QED
  BY <1>4, Zenon DEF t

\* A group of four is its four elements.
LEMMA QuadElements ==
  ASSUME NEW S, NEW kept \in Seq(S), NEW n \in Nat \ {0}, 4 * n <= Len(kept)
  PROVE  Quad(kept, n) = << kept[4*n - 3], kept[4*n - 2], kept[4*n - 1], kept[4*n] >>
<1> DEFINE q == SubSeq(kept, 4*n - 3, 4*n)
<1>1. q = [k \in 1..4 |-> kept[4*n - 4 + k]]
  BY SMT
<1>2. /\ DOMAIN q = 1..4
      /\ q[1] = kept[4*n - 3] /\ q[2] = kept[4*n - 2] /\ q[3] = kept[4*n - 1] /\ q[4] = kept[4*n]
  BY <1>1, SMT
<1>3. q = [k \in 1..4 |-> q[k]]
  BY <1>1
<1> HIDE DEF q
<1>4. q = <<q[1], q[2], q[3], q[4]>>
  BY <1>3, FourElements, Zenon
<1> QED
  BY <1>2, <1>4, Zenon DEF Quad, q

\* What is decoded of an encoded text: the groups, then four '='.
LEMMA EncodedQuads ==
  ASSUME NEW source \in Seq(Byte)
  PROVE  LET groups == (Len(source) + 2) \div 3
         IN /\ groups \in Nat /\ 3 * groups >= Len(source) /\ 3 * groups < Len(source) + 3
            /\ Len(Encoded(source)) = 4 * groups + 4
            /\ \A g \in 1..groups : Quad(Encoded(source), g) = Group(source, g)
            /\ Quad(Encoded(source), groups + 1) = Ending
<1> DEFINE groups == (Len(source) + 2) \div 3
           text == base64_encode(source)
           all == Encoded(source)
<1>1. Len(source) \in Nat
  OBVIOUS
<1>2. groups \in Nat /\ 3 * groups >= Len(source) /\ 3 * groups < Len(source) + 3
  BY <1>1, SMT
<1> HIDE DEF groups
<1>3. text = [k \in 1 .. 4 * groups |-> Group(source, (k - 1) \div 4 + 1)[((k - 1) % 4) + 1]]
  BY Zenon DEF base64_encode, groups
<1>4. /\ DOMAIN text = 1 .. 4 * groups
      /\ \A k \in 1 .. 4 * groups :
           text[k] = Group(source, (k - 1) \div 4 + 1)[((k - 1) % 4) + 1]
  BY <1>3
<1> DEFINE S == {text[k] : k \in 1 .. 4 * groups} \cup {Equals}
<1> HIDE DEF text
<1>5. text \in Seq(S) /\ Len(text) = 4 * groups
  <2>1. text \in [1 .. 4 * groups -> S]
    BY <1>3, <1>4
  <2> QED
    BY <1>2, <2>1, SMT
<1>6. Ending \in Seq(S) /\ Len(Ending) = 4 /\ \A j \in 1..4 : Ending[j] = Equals
  BY DEF Ending
<1>7. all = text \o Ending
  BY DEF Encoded, text
<1> HIDE DEF all, S
<1>8. /\ all \in Seq(S)
      /\ Len(all) = 4 * groups + 4
      /\ \A k \in 1 .. 4 * groups : all[k] = text[k]
      /\ \A j \in 1..4 : all[4 * groups + j] = Equals
  <2>1. all \in Seq(S) /\ Len(all) = 4 * groups + 4
    <3>1. text \o Ending \in Seq(S) /\ Len(text \o Ending) = Len(text) + Len(Ending)
      BY <1>5, <1>6, ConcatProperties, Zenon
    <3> QED
      BY <1>5, <1>6, <1>7, <3>1, Zenon
  <2>2. \A k \in 1 .. Len(text) + Len(Ending) :
          all[k] = IF k <= Len(text) THEN text[k] ELSE Ending[k - Len(text)]
    BY <1>5, <1>6, <1>7, ConcatProperties
  <2>3. ASSUME NEW j \in 1..4 PROVE all[4 * groups + j] = Equals
    <3>1. ASSUME NEW k \in 1 .. Len(text) + Len(Ending), k = 4 * groups + j
          PROVE  all[k] = Ending[j]
      <4>1. ~(k <= Len(text)) /\ k - Len(text) = j
        BY <1>2, <1>5, <3>1
      <4> QED
        BY <2>2, <4>1, Zenon
    <3>2. 4 * groups + j \in 1 .. Len(text) + Len(Ending)
      BY <1>2, <1>5, <1>6
    <3> QED
      BY <1>6, <3>1, <3>2, Zenon
  <2>4. ASSUME NEW k \in 1 .. 4 * groups PROVE all[k] = text[k]
    <3>1. k <= 4 * groups /\ k \in 1 .. 4 * groups + 4
      BY <1>2, SMT
    <3> QED
      BY <1>5, <1>6, <2>2, <3>1, Zenon
  <2> QED
    BY <2>1, <2>3, <2>4
<1>9. ASSUME NEW g \in 1..groups
      PROVE  Quad(all, g) = Group(source, g)
  <2>1. g \in Nat \ {0} /\ 4 * g <= Len(all)
    BY <1>2, <1>8
  <2>2. \A j \in 1..4 : /\ 4*g - 4 + j \in 1 .. 4 * groups
                        /\ (4*g - 4 + j - 1) \div 4 + 1 = g
                        /\ ((4*g - 4 + j - 1) % 4) + 1 = j
    BY <1>2, SMT
  <2>3. ASSUME NEW j \in 1..4
        PROVE  all[4*g - 4 + j] = Group(source, g)[j]
    <3>1. all[4*g - 4 + j] = text[4*g - 4 + j]
      BY <1>8, <2>2, Zenon
    <3>2. ASSUME NEW k \in 1 .. 4 * groups, k = 4*g - 4 + j
          PROVE  text[k] = Group(source, g)[j]
      <4>1. text[k] = Group(source, (k - 1) \div 4 + 1)[((k - 1) % 4) + 1]
        BY <1>4
      <4>2. (k - 1) \div 4 + 1 = g /\ ((k - 1) % 4) + 1 = j
        BY <2>2, <3>2
      <4> QED
        BY <4>1, <4>2, Zenon
    <3> QED
      BY <2>2, <3>1, <3>2, Zenon
  <2>4. /\ 4*g - 4 + 1 = 4*g - 3 /\ 4*g - 4 + 2 = 4*g - 2
        /\ 4*g - 4 + 3 = 4*g - 1 /\ 4*g - 4 + 4 = 4*g
    BY <2>1, SMT
  <2>5. 1 \in 1..4 /\ 2 \in 1..4 /\ 3 \in 1..4 /\ 4 \in 1..4
    BY SMT
  <2>6. Group(source, g) = << Group(source, g)[1], Group(source, g)[2],
                              Group(source, g)[3], Group(source, g)[4] >>
    BY DEF Group
  <2>7. Quad(all, g) = << all[4*g - 3], all[4*g - 2], all[4*g - 1], all[4*g] >>
    BY <1>8, <2>1, QuadElements
  <2> QED
    BY <2>3, <2>4, <2>5, <2>6, <2>7, Zenon
<1>10. Quad(all, groups + 1) = Ending
  <2>1. groups + 1 \in Nat \ {0} /\ 4 * (groups + 1) <= Len(all)
    BY <1>2, <1>8
  <2>2. Quad(all, groups + 1) = << all[4*(groups+1) - 3], all[4*(groups+1) - 2],
                                   all[4*(groups+1) - 1], all[4*(groups+1)] >>
    BY <1>8, <2>1, QuadElements
  <2>3. /\ all[4*(groups+1) - 3] = Equals /\ all[4*(groups+1) - 2] = Equals
        /\ all[4*(groups+1) - 1] = Equals /\ all[4*(groups+1)] = Equals
    BY <1>2, <1>8, SMT
  <2> QED
    BY <2>2, <2>3, Zenon DEF Ending
<1> QED
  BY <1>2, <1>8, <1>9, <1>10 DEF groups, all

\* The loop ends after the first group that is not full.
LEMMA RoundsAre ==
  ASSUME NEW kept, NEW n \in 1 .. Len(kept) \div 4 + 1, Len(kept) \in Nat,
         ~FullQuad(kept, n), \A m \in 1..n-1 : FullQuad(kept, m)
  PROVE  Rounds(kept) = n
<1> DEFINE Ends(k) == ~FullQuad(kept, k) /\ \A m \in 1..k-1 : FullQuad(kept, m)
<1>1. Ends(n)
  OBVIOUS
<1>2. ASSUME NEW k \in 1 .. Len(kept) \div 4 + 1, Ends(k)
      PROVE  k = n
  <2>1. k \in Int /\ n \in Int /\ 1 <= k /\ 1 <= n
    OBVIOUS
  <2>2. ~(k < n)
    <3>1. k < n => k \in 1..n-1
      BY <2>1
    <3> QED
      BY <1>2, <3>1
  <2>3. ~(n < k)
    <3>1. n < k => n \in 1..k-1
      BY <2>1
    <3> QED
      BY <1>2, <3>1
  <2> QED
    BY <2>1, <2>2, <2>3
<1> QED
  BY <1>1, <1>2, Zenon DEF Rounds

\* The four '=' behind the text are no bytes.
LEMMA EndingIsEmpty == DecodedBytes(Ending) = 0
<1>1. Padding(Ending) = 4
  BY DEF Padding, Ending
<1> QED
  BY <1>1 DEF DecodedBytes

\* base64.c: what base64_encode writes, base64_decode reads back, for sources of
\* every length, whether the last group has one, two or three bytes.
THEOREM RoundTrip ==
  ASSUME NEW source \in Seq(Byte)
  PROVE  Decoded(Encoded(source)) = source
<1> DEFINE len == Len(source)
           groups == (len + 2) \div 3
           n == len \div 3 + 1
           kept == Encoded(source)
<1>1. len \in Nat
  OBVIOUS
<1>2. /\ groups \in Nat /\ Len(kept) = 4 * groups + 4
      /\ \A g \in 1..groups : Quad(kept, g) = Group(source, g)
      /\ Quad(kept, groups + 1) = Ending
  BY EncodedQuads, Zenon
<1> HIDE DEF len, kept
<1>3. /\ n \in 1 .. groups + 1
      /\ n \in 1 .. Len(kept) \div 4 + 1
      /\ 4 * n <= Len(kept)
      /\ len % 3 = 0 => n = groups + 1
      /\ len % 3 # 0 => n \in 1..groups
  BY <1>1, <1>2, SMT
<1>4. ASSUME NEW g \in 1..groups
      PROVE  /\ DecodeTriple(Quad(kept, g)) = Three(source, g)
             /\ DecodedBytes(Quad(kept, g)) = Least(3, len - 3 * (g - 1))
  <2>1. g \in Nat \ {0} /\ 3 * (g - 1) < len
    BY <1>1, SMT
  <2> QED
    BY <1>2, <2>1, GroupRoundTrip DEF len
<1>5. ASSUME NEW g \in 1..n-1
      PROVE  FullQuad(kept, g)
  <2>1. g \in 1..groups /\ 4 * g <= Len(kept) /\ Least(3, len - 3 * (g - 1)) = 3
    BY <1>1, <1>2, SMT DEF Least
  <2> QED
    BY <1>4, <2>1, Zenon DEF FullQuad
<1>6. DecodedBytes(Quad(kept, n)) = len % 3
  <2>1. CASE len % 3 = 0
    BY <1>2, <1>3, <2>1, EndingIsEmpty, Zenon
  <2>2. CASE len % 3 # 0
    <3>1. Least(3, len - 3 * (n - 1)) = len % 3
      BY <1>1, <2>2, SMT DEF Least
    <3>2. n \in 1..groups
      BY <1>3, <2>2, Zenon
    <3> QED
      BY <1>4, <3>1, <3>2, Zenon
  <2> QED
    BY <2>1, <2>2, Zenon
<1>7. ~FullQuad(kept, n)
  <2>1. len % 3 # 3
    BY <1>1, SMT
  <2> QED
    BY <1>6, <2>1, Zenon DEF FullQuad
<1>8. Rounds(kept) = n
  BY <1>2, <1>3, <1>5, <1>7, RoundsAre
<1>9. 3 * (n - 1) + (len % 3) = len
  BY <1>1, SMT
<1>10. Decoded(kept) = [k \in 1..len |->
                          DecodeTriple(Quad(kept, (k - 1) \div 3 + 1))[((k - 1) % 3) + 1]]
  BY <1>6, <1>8, <1>9, Zenon DEF Decoded
<1>11. ASSUME NEW k \in 1..len
       PROVE  DecodeTriple(Quad(kept, (k - 1) \div 3 + 1))[((k - 1) % 3) + 1] = source[k]
  <2> DEFINE g == (k - 1) \div 3 + 1
             r == (k - 1) % 3
  <2>1. g \in 1..groups /\ k = 3*g - 2 + r /\ (r = 0 \/ r = 1 \/ r = 2)
    BY <1>1, SMT
  <2>2. DecodeTriple(Quad(kept, g)) = Three(source, g)
    BY <1>4, <2>1, Zenon
  <2> HIDE DEF g, r
  <2>3. Three(source, g)[r + 1] = ByteAt(source, k)
    BY <2>1, SMT DEF Three
  <2>4. ByteAt(source, k) = source[k]
    BY DEF ByteAt, len
  <2> QED
    BY <2>2, <2>3, <2>4, Zenon DEF g, r
<1>12. Decoded(kept) = [k \in 1..len |-> source[k]]
  BY <1>10, <1>11, Zenon
<1> QED
  BY <1>12 DEF len, kept

-----------------------------------------------------------------------------
(* Texts that base64_encode has not made. *)

\* The loop ends no later than at a group that is not full.
LEMMA RoundsAtMost ==
  ASSUME NEW kept, Len(kept) \in Nat,
         NEW n \in 1 .. Len(kept) \div 4 + 1, ~FullQuad(kept, n)
  PROVE  Rounds(kept) \in 1..n
<1> DEFINE Ends(k) == ~FullQuad(kept, k) /\ \A m \in 1..k-1 : FullQuad(kept, m)
           open == {k \in 1..n : ~FullQuad(kept, k)}
<1>1. PICK k \in open : \A m \in open : ~(<<m, k>> \in OpToRel(<, Nat))
  <2>1. open \in SUBSET Nat /\ n \in open
    OBVIOUS
  <2> QED
    BY <2>1, WFMin, NatLessThanWellFounded
<1>2. k \in 1..n /\ ~FullQuad(kept, k)
  OBVIOUS
<1>3. ASSUME NEW m \in 1..k-1
      PROVE  FullQuad(kept, m)
  <2>1. m \in Nat /\ k \in Nat /\ m < k /\ m \in 1..n
    BY <1>2
  <2> QED
    BY <1>1, <2>1, Zenon DEF OpToRel
<1>4. k \in 1 .. Len(kept) \div 4 + 1
  BY <1>2
<1>5. Rounds(kept) = k
  BY <1>2, <1>3, <1>4, RoundsAre
<1> QED
  BY <1>2, <1>5, Zenon

\* base64.c: whatever text is decoded, padded or not, of any length: with the
\* four '=' behind it the loop never takes a character behind the copy.
THEOREM DecoderStaysInside ==
  ASSUME NEW S, Equals \in S, NEW text \in Seq(S)
  PROVE  StaysInside(text \o Ending)
<1> DEFINE kept == text \o Ending
           n == Len(text) \div 4 + 1
<1>1. Len(text) \in Nat
  OBVIOUS
<1>2. Ending \in Seq(S) /\ Len(Ending) = 4 /\ \A j \in 1..4 : Ending[j] = Equals
  BY DEF Ending
<1>3. /\ kept \in Seq(S)
      /\ Len(kept) = Len(text) + Len(Ending)
      /\ \A k \in 1 .. Len(text) + Len(Ending) :
           kept[k] = IF k <= Len(text) THEN text[k] ELSE Ending[k - Len(text)]
  BY <1>2, ConcatProperties, Zenon
<1> HIDE DEF kept
<1>4. /\ n \in Nat \ {0}
      /\ 4 * n <= Len(text) + 4 /\ ~(4 * n <= Len(text))
      /\ 4 * n - Len(text) \in 1..4
      /\ n \in 1 .. Len(kept) \div 4 + 1
  <2>1. ASSUME NEW l \in Nat
        PROVE  /\ l \div 4 + 1 \in Nat \ {0}
               /\ 4 * (l \div 4 + 1) <= l + 4 /\ ~(4 * (l \div 4 + 1) <= l)
               /\ 4 * (l \div 4 + 1) - l \in 1..4
               /\ l \div 4 + 1 \in 1 .. (l + 4) \div 4 + 1
    BY SMT
  <2>2. Len(kept) = Len(text) + 4
    BY <1>2, <1>3
  <2> QED
    BY <1>1, <2>1, <2>2, Zenon
<1>5. kept[4 * n] = Equals
  <2>1. ASSUME NEW k \in 1 .. Len(text) + Len(Ending), k = 4 * n
        PROVE  kept[k] = Equals
    <3>1. kept[k] = Ending[k - Len(text)]
      BY <1>3, <1>4, <2>1, Zenon
    <3>2. k - Len(text) \in 1..4
      BY <1>4, <2>1
    <3> QED
      BY <1>2, <3>1, <3>2, Zenon
  <2>2. 4 * n \in 1 .. Len(text) + Len(Ending)
    BY <1>1, <1>2, <1>4
  <2> QED
    BY <2>1, <2>2, Zenon
<1>6. ~FullQuad(kept, n)
  <2>1. Quad(kept, n) = << kept[4*n - 3], kept[4*n - 2], kept[4*n - 1], kept[4*n] >>
    BY <1>1, <1>2, <1>3, <1>4, QuadElements
  <2>2. Quad(kept, n)[4] = Equals
    BY <1>5, <2>1
  <2>3. Padding(Quad(kept, n)) \in 1..4
    BY <2>2 DEF Padding
  <2>4. DecodedBytes(Quad(kept, n)) # 3
    BY <2>3 DEF DecodedBytes
  <2> QED
    BY <2>4, Zenon DEF FullQuad
<1>7. Rounds(kept) \in 1..n
  BY <1>1, <1>2, <1>3, <1>4, <1>6, RoundsAtMost
<1>8. 4 * Rounds(kept) <= Len(kept)
  BY <1>2, <1>3, <1>4, <1>7
<1> QED
  BY <1>8, Zenon DEF StaysInside, kept

\* Six bits of a group of three bytes, cut from the number they make or joined
\* from single bits.
LEMMA SixBitsAre ==
  ASSUME NEW a \in Nat, NEW b \in Nat, NEW c \in Nat, a < 256, b < 256, c < 256
  PROVE  LET v == (a * 256 + b) * 256 + c
         IN /\ (v \div 262144) % 64 = a \div 4
            /\ (v \div 4096) % 64 = (a % 4) * 16 + b \div 16
            /\ (v \div 64) % 64 = (b % 16) * 4 + c \div 64
            /\ v % 64 = c % 64
BY SMTT(60)

\* The i-th bit of a byte.
BitOf(a, i) == (a \div Weights[i + 1]) % 2

\* The bits of a byte, with the weights written out.
LEMMA BitsAre ==
  ASSUME NEW a \in Nat
  PROVE  /\ BitOf(a, 0) = (a \div 128) % 2 /\ BitOf(a, 1) = (a \div 64) % 2
         /\ BitOf(a, 2) = (a \div 32) % 2  /\ BitOf(a, 3) = (a \div 16) % 2
         /\ BitOf(a, 4) = (a \div 8) % 2   /\ BitOf(a, 5) = (a \div 4) % 2
         /\ BitOf(a, 6) = (a \div 2) % 2   /\ BitOf(a, 7) = a % 2
<1>1. /\ Weights[0 + 1] = 128 /\ Weights[1 + 1] = 64 /\ Weights[2 + 1] = 32
      /\ Weights[3 + 1] = 16  /\ Weights[4 + 1] = 8  /\ Weights[5 + 1] = 4
      /\ Weights[6 + 1] = 2   /\ Weights[7 + 1] = 1
  BY DEF Weights
<1>2. a \div 1 = a
  OBVIOUS
<1> QED
  BY <1>1, <1>2, Zenon DEF BitOf

\* Bits of a byte that stand in the same character.
LEMMA BitsJoin ==
  ASSUME NEW a \in Nat, a < 256
  PROVE  /\ BitOf(a, 0) * 32 + BitOf(a, 1) * 16 + BitOf(a, 2) * 8 + BitOf(a, 3) * 4
              + BitOf(a, 4) * 2 + BitOf(a, 5) = a \div 4
         /\ BitOf(a, 6) * 32 + BitOf(a, 7) * 16 = (a % 4) * 16
         /\ BitOf(a, 0) * 8 + BitOf(a, 1) * 4 + BitOf(a, 2) * 2 + BitOf(a, 3) = a \div 16
         /\ BitOf(a, 4) * 32 + BitOf(a, 5) * 16 + BitOf(a, 6) * 8 + BitOf(a, 7) * 4 = (a % 16) * 4
         /\ BitOf(a, 0) * 2 + BitOf(a, 1) = a \div 64
         /\ BitOf(a, 2) * 32 + BitOf(a, 3) * 16 + BitOf(a, 4) * 8 + BitOf(a, 5) * 4
              + BitOf(a, 6) * 2 + BitOf(a, 7) = a % 64
         /\ \A i \in 0..7 : BitOf(a, i) \in Nat
<1>1. /\ ((a \div 128) % 2) * 32 + ((a \div 64) % 2) * 16 + ((a \div 32) % 2) * 8
           + ((a \div 16) % 2) * 4 + ((a \div 8) % 2) * 2 + ((a \div 4) % 2) = a \div 4
      /\ ((a \div 2) % 2) * 32 + (a % 2) * 16 = (a % 4) * 16
      /\ ((a \div 128) % 2) * 8 + ((a \div 64) % 2) * 4 + ((a \div 32) % 2) * 2
           + ((a \div 16) % 2) = a \div 16
  BY SMTT(60)
<1>2. /\ ((a \div 8) % 2) * 32 + ((a \div 4) % 2) * 16 + ((a \div 2) % 2) * 8
           + (a % 2) * 4 = (a % 16) * 4
      /\ ((a \div 128) % 2) * 2 + ((a \div 64) % 2) = a \div 64
      /\ ((a \div 32) % 2) * 32 + ((a \div 16) % 2) * 16 + ((a \div 8) % 2) * 8
           + ((a \div 4) % 2) * 4 + ((a \div 2) % 2) * 2 + (a % 2) = a % 64
  BY SMTT(60)
<1>3. \A n \in Nat : n % 2 \in Nat
  BY SMT
<1>4. ASSUME NEW i \in 0..7
      PROVE  BitOf(a, i) \in Nat
  <2> DEFINE w == Weights[i + 1]
  <2>1. w \in {128, 64, 32, 16, 8, 4, 2, 1}
    <3>1. Weights \in [1..8 -> {128, 64, 32, 16, 8, 4, 2, 1}] /\ i + 1 \in 1..8
      BY DEF Weights
    <3> QED
      BY <3>1
  <2>2. BitOf(a, i) = (a \div w) % 2
    BY Zenon DEF BitOf
  <2> HIDE DEF w
  <2>3. a \div w \in Nat
    <3>1. /\ a \div 128 \in Nat /\ a \div 64 \in Nat /\ a \div 32 \in Nat /\ a \div 16 \in Nat
          /\ a \div 8 \in Nat /\ a \div 4 \in Nat /\ a \div 2 \in Nat /\ a \div 1 \in Nat
      BY SMT
    <3> QED
      BY <2>1, <3>1, SMT
  <2> QED
    BY <1>3, <2>2, <2>3, Zenon
<1> QED
  BY <1>1, <1>2, <1>4, BitsAre, ZenonT(40)

\* The bits of the k-th byte.
LEMMA BitsOfByte ==
  ASSUME NEW source, NEW k \in Nat \ {0}, NEW i \in 0..7, NEW n, n = 8 * (k - 1) + i
  PROVE  Bit(source, n) = BitOf(ByteAt(source, k), i)
<1>1. n \div 8 + 1 = k /\ n % 8 = i
  BY SMT
<1> QED
  BY <1>1, Zenon DEF Bit, BitOf

\* The six bits behind a character are those that _base64_encode_triple takes.
LEMMA SixAre ==
  ASSUME NEW source \in Seq(Byte), NEW g \in Nat \ {0}
  PROVE  LET a == ByteAt(source, 3 * g - 2)
             b == ByteAt(source, 3 * g - 1)
             c == ByteAt(source, 3 * g)
             v == (a * 256 + b) * 256 + c
         IN /\ Six(source, 4 * g - 4) = (v \div 262144) % 64
            /\ Six(source, 4 * g - 3) = (v \div 4096) % 64
            /\ Six(source, 4 * g - 2) = (v \div 64) % 64
            /\ Six(source, 4 * g - 1) = v % 64
<1> DEFINE a == ByteAt(source, 3 * g - 2)
           b == ByteAt(source, 3 * g - 1)
           c == ByteAt(source, 3 * g)
<1>1. /\ 3 * g - 2 \in Nat \ {0} /\ 3 * g - 1 \in Nat \ {0} /\ 3 * g \in Nat \ {0}
  OBVIOUS
<1>2. /\ a \in Nat /\ a < 256 /\ b \in Nat /\ b < 256 /\ c \in Nat /\ c < 256
  BY <1>1, ByteAtType
<1>3. ASSUME NEW i \in 0..7, NEW n
      PROVE  /\ n = 24 * g - 24 + i => Bit(source, n) = BitOf(a, i)
             /\ n = 24 * g - 16 + i => Bit(source, n) = BitOf(b, i)
             /\ n = 24 * g - 8 + i => Bit(source, n) = BitOf(c, i)
  <2>1. /\ 24 * g - 24 + i = 8 * ((3 * g - 2) - 1) + i
        /\ 24 * g - 16 + i = 8 * ((3 * g - 1) - 1) + i
        /\ 24 * g - 8 + i = 8 * (3 * g - 1) + i
    OBVIOUS
  <2>2. n = 24 * g - 24 + i => Bit(source, n) = BitOf(a, i)
    BY <1>1, <2>1, BitsOfByte
  <2>3. n = 24 * g - 16 + i => Bit(source, n) = BitOf(b, i)
    BY <1>1, <2>1, BitsOfByte, SMTT(40)
  <2>4. n = 24 * g - 8 + i => Bit(source, n) = BitOf(c, i)
    BY <1>1, <2>1, BitsOfByte, SMTT(40)
  <2> QED
    BY <2>2, <2>3, <2>4
<1> HIDE DEF a, b, c
<1>4. Six(source, 4 * g - 4) = a \div 4
  <2> DEFINE n == 6 * (4 * g - 4)
  <2>1. /\ n = 24 * g - 24 + 0 /\ 0 \in 0..7
        /\ n + 1 = 24 * g - 24 + 1 /\ 1 \in 0..7
        /\ n + 2 = 24 * g - 24 + 2 /\ 2 \in 0..7
        /\ n + 3 = 24 * g - 24 + 3 /\ 3 \in 0..7
        /\ n + 4 = 24 * g - 24 + 4 /\ 4 \in 0..7
        /\ n + 5 = 24 * g - 24 + 5 /\ 5 \in 0..7
    OBVIOUS
  <2>2. /\ Bit(source, n) = BitOf(a, 0)
        /\ Bit(source, n + 1) = BitOf(a, 1)
        /\ Bit(source, n + 2) = BitOf(a, 2)
        /\ Bit(source, n + 3) = BitOf(a, 3)
        /\ Bit(source, n + 4) = BitOf(a, 4)
        /\ Bit(source, n + 5) = BitOf(a, 5)
    BY <1>3, <2>1, Zenon
  <2>3. Six(source, 4 * g - 4) = BitOf(a, 0) * 32 + BitOf(a, 1) * 16 + BitOf(a, 2) * 8
           + BitOf(a, 3) * 4 + BitOf(a, 4) * 2 + BitOf(a, 5)
    BY <2>2, Zenon DEF Six
  <2>4. \A i \in 0..7 : BitOf(a, i) \in Nat /\ BitOf(b, i) \in Nat /\ BitOf(c, i) \in Nat
    BY <1>2, BitsJoin
  <2> HIDE DEF n
  <2> QED
    BY <1>2, <2>1, <2>3, <2>4, BitsJoin
<1>5. Six(source, 4 * g - 3) = (a % 4) * 16 + b \div 16
  <2> DEFINE n == 6 * (4 * g - 3)
  <2>1. /\ n = 24 * g - 24 + 6 /\ 6 \in 0..7
        /\ n + 1 = 24 * g - 24 + 7 /\ 7 \in 0..7
        /\ n + 2 = 24 * g - 16 + 0 /\ 0 \in 0..7
        /\ n + 3 = 24 * g - 16 + 1 /\ 1 \in 0..7
        /\ n + 4 = 24 * g - 16 + 2 /\ 2 \in 0..7
        /\ n + 5 = 24 * g - 16 + 3 /\ 3 \in 0..7
    OBVIOUS
  <2>2. /\ Bit(source, n) = BitOf(a, 6)
        /\ Bit(source, n + 1) = BitOf(a, 7)
        /\ Bit(source, n + 2) = BitOf(b, 0)
        /\ Bit(source, n + 3) = BitOf(b, 1)
        /\ Bit(source, n + 4) = BitOf(b, 2)
        /\ Bit(source, n + 5) = BitOf(b, 3)
    BY <1>3, <2>1, Zenon
  <2>3. Six(source, 4 * g - 3) = BitOf(a, 6) * 32 + BitOf(a, 7) * 16 + BitOf(b, 0) * 8
           + BitOf(b, 1) * 4 + BitOf(b, 2) * 2 + BitOf(b, 3)
    BY <2>2, Zenon DEF Six
  <2>4. \A i \in 0..7 : BitOf(a, i) \in Nat /\ BitOf(b, i) \in Nat /\ BitOf(c, i) \in Nat
    BY <1>2, BitsJoin
  <2> HIDE DEF n
  <2>5. /\ BitOf(a, 6) * 32 + BitOf(a, 7) * 16 = (a % 4) * 16
        /\ BitOf(b, 0) * 8 + BitOf(b, 1) * 4 + BitOf(b, 2) * 2 + BitOf(b, 3) = b \div 16
    BY <1>2, BitsJoin
  <2>6. /\ BitOf(a, 6) \in Nat /\ BitOf(a, 7) \in Nat /\ BitOf(b, 0) \in Nat
        /\ BitOf(b, 1) \in Nat /\ BitOf(b, 2) \in Nat /\ BitOf(b, 3) \in Nat
    BY <2>4
  <2>7. (a % 4) * 16 \in Nat /\ b \div 16 \in Nat
    BY <1>2, SMT
  <2> DEFINE p == BitOf(a, 6)
             q == BitOf(a, 7)
             r == BitOf(b, 0)
             s == BitOf(b, 1)
             t == BitOf(b, 2)
             u == BitOf(b, 3)
             x == (a % 4) * 16
             y == b \div 16
  <2>8. Six(source, 4 * g - 3) = p * 32 + q * 16 + r * 8 + s * 4 + t * 2 + u
    BY <2>3
  <2>9. /\ p \in Nat /\ q \in Nat /\ r \in Nat /\ s \in Nat /\ t \in Nat /\ u \in Nat
        /\ x \in Nat /\ y \in Nat /\ p * 32 + q * 16 = x /\ r * 8 + s * 4 + t * 2 + u = y
    BY <2>5, <2>6, <2>7
  <2> HIDE DEF p, q, r, s, t, u, x, y
  <2>10. Six(source, 4 * g - 3) = x + y
    BY <2>8, <2>9
  <2> QED
    BY <2>10 DEF x, y
<1>6. Six(source, 4 * g - 2) = (b % 16) * 4 + c \div 64
  <2> DEFINE n == 6 * (4 * g - 2)
  <2>1. /\ n = 24 * g - 16 + 4 /\ 4 \in 0..7
        /\ n + 1 = 24 * g - 16 + 5 /\ 5 \in 0..7
        /\ n + 2 = 24 * g - 16 + 6 /\ 6 \in 0..7
        /\ n + 3 = 24 * g - 16 + 7 /\ 7 \in 0..7
        /\ n + 4 = 24 * g - 8 + 0 /\ 0 \in 0..7
        /\ n + 5 = 24 * g - 8 + 1 /\ 1 \in 0..7
    OBVIOUS
  <2>2. /\ Bit(source, n) = BitOf(b, 4)
        /\ Bit(source, n + 1) = BitOf(b, 5)
        /\ Bit(source, n + 2) = BitOf(b, 6)
        /\ Bit(source, n + 3) = BitOf(b, 7)
        /\ Bit(source, n + 4) = BitOf(c, 0)
        /\ Bit(source, n + 5) = BitOf(c, 1)
    BY <1>3, <2>1, Zenon
  <2>3. Six(source, 4 * g - 2) = BitOf(b, 4) * 32 + BitOf(b, 5) * 16 + BitOf(b, 6) * 8
           + BitOf(b, 7) * 4 + BitOf(c, 0) * 2 + BitOf(c, 1)
    BY <2>2, Zenon DEF Six
  <2>4. \A i \in 0..7 : BitOf(a, i) \in Nat /\ BitOf(b, i) \in Nat /\ BitOf(c, i) \in Nat
    BY <1>2, BitsJoin
  <2> HIDE DEF n
  <2>5. /\ BitOf(b, 4) * 32 + BitOf(b, 5) * 16 + BitOf(b, 6) * 8 + BitOf(b, 7) * 4 = (b % 16) * 4
        /\ BitOf(c, 0) * 2 + BitOf(c, 1) = c \div 64
    BY <1>2, BitsJoin
  <2>6. /\ BitOf(b, 4) \in Nat /\ BitOf(b, 5) \in Nat /\ BitOf(b, 6) \in Nat
        /\ BitOf(b, 7) \in Nat /\ BitOf(c, 0) \in Nat /\ BitOf(c, 1) \in Nat
    BY <2>4
  <2>7. (b % 16) * 4 \in Nat /\ c \div 64 \in Nat
    BY <1>2, SMT
  <2> DEFINE p == BitOf(b, 4)
             q == BitOf(b, 5)
             r == BitOf(b, 6)
             s == BitOf(b, 7)
             t == BitOf(c, 0)
             u == BitOf(c, 1)
             x == (b % 16) * 4
             y == c \div 64
  <2>8. Six(source, 4 * g - 2) = p * 32 + q * 16 + r * 8 + s * 4 + t * 2 + u
    BY <2>3
  <2>9. /\ p \in Nat /\ q \in Nat /\ r \in Nat /\ s \in Nat /\ t \in Nat /\ u \in Nat
        /\ x \in Nat /\ y \in Nat /\ p * 32 + q * 16 + r * 8 + s * 4 = x /\ t * 2 + u = y
    BY <2>5, <2>6, <2>7
  <2> HIDE DEF p, q, r, s, t, u, x, y
  <2>10. Six(source, 4 * g - 2) = x + y
    BY <2>8, <2>9
  <2> QED
    BY <2>10 DEF x, y
<1>7. Six(source, 4 * g - 1) = c % 64
  <2> DEFINE n == 6 * (4 * g - 1)
  <2>1. /\ n = 24 * g - 8 + 2 /\ 2 \in 0..7
        /\ n + 1 = 24 * g - 8 + 3 /\ 3 \in 0..7
        /\ n + 2 = 24 * g - 8 + 4 /\ 4 \in 0..7
        /\ n + 3 = 24 * g - 8 + 5 /\ 5 \in 0..7
        /\ n + 4 = 24 * g - 8 + 6 /\ 6 \in 0..7
        /\ n + 5 = 24 * g - 8 + 7 /\ 7 \in 0..7
    OBVIOUS
  <2>2. /\ Bit(source, n) = BitOf(c, 2)
        /\ Bit(source, n + 1) = BitOf(c, 3)
        /\ Bit(source, n + 2) = BitOf(c, 4)
        /\ Bit(source, n + 3) = BitOf(c, 5)
        /\ Bit(source, n + 4) = BitOf(c, 6)
        /\ Bit(source, n + 5) = BitOf(c, 7)
    BY <1>3, <2>1, Zenon
  <2>3. Six(source, 4 * g - 1) = BitOf(c, 2) * 32 + BitOf(c, 3) * 16 + BitOf(c, 4) * 8
           + BitOf(c, 5) * 4 + BitOf(c, 6) * 2 + BitOf(c, 7)
    BY <2>2, Zenon DEF Six
  <2>4. \A i \in 0..7 : BitOf(a, i) \in Nat /\ BitOf(b, i) \in Nat /\ BitOf(c, i) \in Nat
    BY <1>2, BitsJoin
  <2> HIDE DEF n
  <2> QED
    BY <1>2, <2>1, <2>3, <2>4, BitsJoin
<1>8. LET v == (a * 256 + b) * 256 + c
      IN /\ Six(source, 4 * g - 4) = (v \div 262144) % 64
         /\ Six(source, 4 * g - 3) = (v \div 4096) % 64
         /\ Six(source, 4 * g - 2) = (v \div 64) % 64
         /\ Six(source, 4 * g - 1) = v % 64
  <2> DEFINE v == (a * 256 + b) * 256 + c
  <2>1. /\ (v \div 262144) % 64 = a \div 4
        /\ (v \div 4096) % 64 = (a % 4) * 16 + b \div 16
        /\ (v \div 64) % 64 = (b % 16) * 4 + c \div 64
        /\ v % 64 = c % 64
    BY <1>2, SixBitsAre
  <2> HIDE DEF v
  <2>2. /\ Six(source, 4 * g - 4) = (v \div 262144) % 64
        /\ Six(source, 4 * g - 3) = (v \div 4096) % 64
        /\ Six(source, 4 * g - 2) = (v \div 64) % 64
        /\ Six(source, 4 * g - 1) = v % 64
    BY <1>4, <1>5, <1>6, <1>7, <2>1
  <2> QED
    BY <2>2 DEF v
<1> QED
  BY <1>8 DEF a, b, c

\* base64.c: what base64_encode writes is the encoding of RFC 3548, for sources of
\* every length.
THEOREM EncodesAsRfc ==
  ASSUME NEW source \in Seq(Byte)
  PROVE  base64_encode(source) = Rfc3548(source)
<1> DEFINE len == Len(source)
           groups == (len + 2) \div 3
           chars == (8 * len + 5) \div 6
<1>1. len \in Nat
  OBVIOUS
<1> HIDE DEF len
<1>2. ASSUME NEW g \in 1..groups
      PROVE  /\ g \in Nat \ {0}
             /\ 4 * g - 3 <= chars /\ 4 * g - 2 <= chars
             /\ 4 * g - 1 <= chars <=> len - 3 * (g - 1) # 1
             /\ 4 * g <= chars <=> ~(len - 3 * (g - 1) < 3)
  BY <1>1, SMT
<1>3. ASSUME NEW k \in 1 .. 4 * groups
      PROVE  LET g == (k - 1) \div 4 + 1
                 j == ((k - 1) % 4) + 1
             IN /\ g \in 1..groups
                /\ j = 1 \/ j = 2 \/ j = 3 \/ j = 4
                /\ k = 4 * g - 4 + j
  BY <1>1, SMT
<1> HIDE DEF groups, chars
<1>4. ASSUME NEW k \in 1 .. 4 * groups
      PROVE  Group(source, (k - 1) \div 4 + 1)[((k - 1) % 4) + 1]
               = IF k <= chars THEN BASE64_CHARS[Six(source, k - 1)] ELSE Equals
  <2> DEFINE g == (k - 1) \div 4 + 1
             j == ((k - 1) % 4) + 1
             a == ByteAt(source, 3 * g - 2)
             b == ByteAt(source, 3 * g - 1)
             c == ByteAt(source, 3 * g)
             v == (a * 256 + b) * 256 + c
             left == len - 3 * (g - 1)
             r == IF k <= chars THEN BASE64_CHARS[Six(source, k - 1)] ELSE Equals
  <2>1. g \in 1..groups /\ (j = 1 \/ j = 2 \/ j = 3 \/ j = 4) /\ k = 4 * g - 4 + j
    BY <1>3
  <2>2. /\ g \in Nat \ {0}
        /\ 4 * g - 3 <= chars /\ 4 * g - 2 <= chars
        /\ 4 * g - 1 <= chars <=> left # 1
        /\ 4 * g <= chars <=> ~(left < 3)
    BY <1>2, <2>1
  <2> HIDE DEF g, j
  <2>3. /\ Six(source, 4 * g - 4) = (v \div 262144) % 64
        /\ Six(source, 4 * g - 3) = (v \div 4096) % 64
        /\ Six(source, 4 * g - 2) = (v \div 64) % 64
        /\ Six(source, 4 * g - 1) = v % 64
    BY <2>2, SixAre
  <2>4. /\ Group(source, g)[1] = BASE64_CHARS[(v \div 262144) % 64]
        /\ Group(source, g)[2] = BASE64_CHARS[(v \div 4096) % 64]
        /\ Group(source, g)[3] = IF left = 1 THEN Equals ELSE BASE64_CHARS[(v \div 64) % 64]
        /\ Group(source, g)[4] = IF left < 3 THEN Equals ELSE BASE64_CHARS[v % 64]
    BY DEF Group, EncodeTriple, len
  <2> HIDE DEF v, left
  <2>5. Group(source, g)[j] = r
    <3>1. CASE j = 1
      <4>1. k <= chars /\ k - 1 = 4 * g - 4
        BY <2>1, <2>2, <3>1
      <4> QED
        BY <2>3, <2>4, <3>1, <4>1
    <3>2. CASE j = 2
      <4>1. k <= chars /\ k - 1 = 4 * g - 3
        BY <2>1, <2>2, <3>2
      <4> QED
        BY <2>3, <2>4, <3>2, <4>1
    <3>3. CASE j = 3
      <4>1. (k <= chars <=> left # 1) /\ k - 1 = 4 * g - 2
        BY <2>1, <2>2, <3>3
      <4> QED
        BY <2>3, <2>4, <3>3, <4>1
    <3>4. CASE j = 4
      <4>1. (k <= chars <=> ~(left < 3)) /\ k - 1 = 4 * g - 1
        BY <2>1, <2>2, <3>4
      <4> QED
        BY <2>3, <2>4, <3>4, <4>1
    <3> QED
      BY <2>1, <3>1, <3>2, <3>3, <3>4
  <2> QED
    BY <2>5 DEF g, j
<1>5. base64_encode(source) =
        [k \in 1 .. 4 * groups |-> Group(source, (k - 1) \div 4 + 1)[((k - 1) % 4) + 1]]
  BY Zenon DEF base64_encode, groups, len
<1>6. Rfc3548(source) =
        [k \in 1 .. 4 * groups |->
           IF k <= chars THEN BASE64_CHARS[Six(source, k - 1)] ELSE Equals]
  BY Zenon DEF Rfc3548, groups, chars, len
<1> QED
  BY <1>4, <1>5, <1>6, Zenon

-----------------------------------------------------------------------------
(* The characters that are kept. *)

\* A set of numbers that is not empty has a least one.
LEMMA LeastElement ==
  ASSUME NEW S \in SUBSET Nat, S # {}
  PROVE  \E m \in S : \A y \in S : m <= y
<1>1. PICK m \in S : \A y \in S : ~(<<y, m>> \in OpToRel(<, Nat))
  BY WFMin, NatLessThanWellFounded
<1>2. \A y \in S : y \in Nat /\ m \in Nat
  OBVIOUS
<1>3. \A y \in S : ~(y < m)
  BY <1>1, <1>2, Zenon DEF OpToRel
<1> QED
  BY <1>2, <1>3

\* The function that describes the loop over the text exists.
LEMMA KeptRun ==
  ASSUME NEW S, NEW source \in Seq(S), Equals \in S
  PROVE  LET text == source \o Ending
         IN \E kept : /\ kept[0] = <<>>
                      /\ \A i \in 1..Len(text) :
                           kept[i] = IF Significant(text[i]) THEN Append(kept[i - 1], text[i])
                                     ELSE kept[i - 1]
                      /\ Kept(source) = kept[Len(text)]
<1> DEFINE text == source \o Ending
           last == Len(text)
           Longer(s, i) == IF Significant(text[i]) THEN Append(s, text[i]) ELSE s
           Run(g, n) == g = [i \in 0..n |-> IF i = 0 THEN <<>>
                                            ELSE IF Significant(text[i])
                                                 THEN Append(g[i - 1], text[i])
                                                 ELSE g[i - 1]]
<1>1. last \in Nat
  <2>1. Ending \in Seq(S)
    BY DEF Ending
  <2>2. text \in Seq(S)
    BY <2>1, ConcatProperties
  <2> QED
    BY <2>2, LenProperties
<1>2. Kept(source) = (CHOOSE g : Run(g, last))[last]
  BY DEF Kept
<1> HIDE DEF text, last
<1>3. \A n \in 0..last : \E g : Run(g, n)
  <2> DEFINE T == {n \in 0..last : ~ \E g : Run(g, n)}
  <2> SUFFICES ASSUME T # {}
               PROVE  FALSE
    OBVIOUS
  <2>1. PICK m \in T : \A y \in T : m <= y
    <3>1. T \in SUBSET Nat
      BY <1>1
    <3> QED
      BY <3>1, LeastElement
  <2>2. m \in 0..last /\ ~ \E g : Run(g, m)
    OBVIOUS
  <2>3. CASE m = 0
    <3> DEFINE g == [i \in 0..0 |-> <<>>]
    <3>1. Run(g, 0)
      OBVIOUS
    <3> QED
      BY <2>2, <2>3, <3>1
  <2>4. CASE m # 0
    <3>1. m - 1 \in 0..last /\ m - 1 < m /\ m \in Nat
      BY <1>1, <2>2, <2>4
    <3>2. m - 1 \notin T
      BY <2>1, <3>1
    <3>3. PICK g : Run(g, m - 1)
      BY <3>1, <3>2
    <3> DEFINE h == [i \in 0..m |-> IF i = m THEN Longer(g[m - 1], m) ELSE g[i]]
               k == [i \in 0..m |-> IF i = 0 THEN <<>>
                                    ELSE IF Significant(text[i]) THEN Append(h[i - 1], text[i])
                                    ELSE h[i - 1]]
    <3>4. ASSUME NEW i \in 0..m
          PROVE  h[i] = k[i]
      <4>1. i # 0 => i - 1 \in 0..m-1 /\ i - 1 # m /\ i - 1 \in 0..m
        BY <3>1
      <4>2. i # 0 => h[i - 1] = g[i - 1]
        BY <4>1
      <4>3. CASE i = m
        BY <2>4, <4>2, <4>3
      <4>4. CASE i # m
        <5>1. i \in 0..m-1
          BY <3>1, <4>4
        <5>2. g[i] = IF i = 0 THEN <<>>
                     ELSE IF Significant(text[i]) THEN Append(g[i - 1], text[i]) ELSE g[i - 1]
          BY <3>3, <5>1
        <5> QED
          BY <4>2, <4>4, <5>2
      <4> QED
        BY <4>3, <4>4
    <3>5. h = k
      BY <3>4
    <3>6. Run(h, m)
      BY <3>5
    <3> QED
      BY <2>2, <3>6
  <2> QED
    BY <2>3, <2>4
<1> DEFINE kept == CHOOSE g : Run(g, last)
<1>4. Run(kept, last)
  <2>1. last \in 0..last
    BY <1>1
  <2> HIDE DEF Run
  <2>2. \E g : Run(g, last)
    BY <1>3, <2>1
  <2> QED
    BY <2>2
<1> HIDE DEF kept
<1>5. /\ kept[0] = <<>>
      /\ \A i \in 1..last : kept[i] = IF Significant(text[i]) THEN Append(kept[i - 1], text[i])
                                      ELSE kept[i - 1]
  <2>1. /\ 0 \in 0..last
        /\ \A i \in 1..last : i \in 0..last /\ i # 0
    BY <1>1
  <2>2. \A i \in 0..last : kept[i] = IF i = 0 THEN <<>>
                                     ELSE IF Significant(text[i])
                                          THEN Append(kept[i - 1], text[i])
                                          ELSE kept[i - 1]
    BY <1>4, Zenon
  <2> QED
    BY <2>1, <2>2, Zenon
<1>6. Kept(source) = kept[last]
  BY <1>2 DEF kept
<1> QED
  BY <1>5, <1>6 DEF last, text

\* The four '=' behind the text are kept.
LEMMA KeptEnds ==
  ASSUME NEW S, Equals \in S, NEW source \in Seq(S)
  PROVE  \E t \in Seq(S) : Kept(source) = t \o Ending
<1> DEFINE text == source \o Ending
           len == Len(source)
<1>1. Ending \in Seq(S) /\ Len(Ending) = 4 /\ \A j \in 1..4 : Ending[j] = Equals
  BY DEF Ending
<1>2. /\ text \in Seq(S) /\ len \in Nat /\ Len(text) = len + 4
      /\ \A i \in 1..len : text[i] = source[i]
      /\ text[len + 1] = Equals /\ text[len + 2] = Equals
      /\ text[len + 3] = Equals /\ text[len + 4] = Equals
  <2>1. /\ text \in Seq(S) /\ Len(text) = len + Len(Ending) /\ len \in Nat
        /\ \A i \in 1 .. len + Len(Ending) :
             text[i] = IF i <= len THEN source[i] ELSE Ending[i - len]
    BY <1>1, ConcatProperties, LenProperties, ZenonT(40)
  <2> HIDE DEF text, len
  <2>2. Len(text) = len + 4 /\ \A i \in 1 .. len + 4 : text[i] = IF i <= len THEN source[i] ELSE Ending[i - len]
    BY <1>1, <2>1, Zenon
  <2>3. \A i \in 1..len : i \in 1 .. len + 4 /\ i <= len
    BY <2>1
  <2>4. \A j \in 1..4 : len + j \in 1 .. len + 4 /\ ~(len + j <= len) /\ (len + j) - len = j
    BY <2>1
  <2>5. \A j \in 1..4 : text[len + j] = Equals
    BY <1>1, <2>2, <2>4
  <2>6. 1 \in 1..4 /\ 2 \in 1..4 /\ 3 \in 1..4 /\ 4 \in 1..4
    OBVIOUS
  <2> QED
    BY <2>1, <2>2, <2>3, <2>5, <2>6, Zenon
<1>3. PICK kept : /\ kept[0] = <<>>
                  /\ \A i \in 1..Len(text) :
                       kept[i] = IF Significant(text[i]) THEN Append(kept[i - 1], text[i])
                                 ELSE kept[i - 1]
                  /\ Kept(source) = kept[Len(text)]
  BY KeptRun
<1> HIDE DEF text, len
<1>4. \A i \in 0 .. len + 4 : kept[i] \in Seq(S)
  <2> DEFINE T == {i \in 0 .. len + 4 : kept[i] \notin Seq(S)}
  <2> SUFFICES ASSUME T # {}
               PROVE  FALSE
    OBVIOUS
  <2>1. PICK m \in T : \A y \in T : m <= y
    <3>1. T \in SUBSET Nat
      BY <1>2
    <3> QED
      BY <3>1, LeastElement
  <2>2. m # 0
    BY <1>3, EmptySeq
  <2>3. m \in 1 .. len + 4 /\ m - 1 \in 0 .. len + 4 /\ m - 1 < m
    BY <1>2, <2>2
  <2>4. kept[m - 1] \in Seq(S) /\ text[m] \in S
    <3>1. text[m] \in S
      BY <1>2, <2>3, ElementOfSeq
    <3> QED
      BY <2>1, <2>3, <3>1
  <2>5. Append(kept[m - 1], text[m]) \in Seq(S)
    BY <2>4, AppendProperties
  <2>6. kept[m] = Append(kept[m - 1], text[m]) \/ kept[m] = kept[m - 1]
    BY <1>2, <1>3, <2>3
  <2> QED
    BY <2>4, <2>5, <2>6
<1>5. Significant(Equals)
  BY DEF Significant
<1>6. /\ kept[len] \in Seq(S)
      /\ kept[len + 1] = Append(kept[len], Equals)
      /\ kept[len + 2] = Append(kept[len + 1], Equals)
      /\ kept[len + 3] = Append(kept[len + 2], Equals)
      /\ kept[len + 4] = Append(kept[len + 3], Equals)
  <2>1. /\ len \in 0 .. len + 4
        /\ len + 1 \in 1 .. len + 4 /\ (len + 1) - 1 = len
        /\ len + 2 \in 1 .. len + 4 /\ (len + 2) - 1 = len + 1
        /\ len + 3 \in 1 .. len + 4 /\ (len + 3) - 1 = len + 2
        /\ len + 4 \in 1 .. len + 4 /\ (len + 4) - 1 = len + 3
    BY <1>2
  <2>2. \A i \in 1 .. len + 4 :
          text[i] = Equals => kept[i] = Append(kept[i - 1], Equals)
    BY <1>2, <1>3, <1>5
  <2> QED
    BY <1>2, <1>4, <2>1, <2>2
<1> DEFINE t == kept[len]
<1>7. Append(Append(Append(Append(t, Equals), Equals), Equals), Equals) = t \o Ending
  <2>1. t \in Seq(S)
    BY <1>6
  <2> HIDE DEF t
  <2>2. ASSUME NEW s \in Seq(S)
        PROVE  Append(s, Equals) \in Seq(S) /\ Len(Append(s, Equals)) = Len(s) + 1
               /\ (\A i \in 1..Len(s) : Append(s, Equals)[i] = s[i])
               /\ Append(s, Equals)[Len(s) + 1] = Equals
    BY AppendProperties
  <2> DEFINE t1 == Append(t, Equals)
             t2 == Append(t1, Equals)
             t3 == Append(t2, Equals)
             t4 == Append(t3, Equals)
  <2>3. t1 \in Seq(S) /\ t2 \in Seq(S) /\ t3 \in Seq(S) /\ t4 \in Seq(S)
    BY <2>1, <2>2
  <2>4. /\ t \o Ending \in Seq(S) /\ Len(t \o Ending) = Len(t) + 4 /\ Len(t) \in Nat
        /\ \A i \in 1 .. Len(t) + 4 :
             (t \o Ending)[i] = IF i <= Len(t) THEN t[i] ELSE Ending[i - Len(t)]
    <3>1. /\ t \o Ending \in Seq(S) /\ Len(t \o Ending) = Len(t) + Len(Ending) /\ Len(t) \in Nat
          /\ \A i \in 1 .. Len(t) + Len(Ending) :
               (t \o Ending)[i] = IF i <= Len(t) THEN t[i] ELSE Ending[i - Len(t)]
      BY <1>1, <2>1, ConcatProperties, LenProperties, ZenonT(40)
    <3> QED
      BY <1>1, <3>1
  <2>5. /\ Len(t1) = Len(t) + 1 /\ Len(t2) = Len(t) + 2
        /\ Len(t3) = Len(t) + 3 /\ Len(t4) = Len(t) + 4
    <3>1. Len(t1) = Len(t) + 1 /\ Len(t2) = Len(t1) + 1 /\ Len(t3) = Len(t2) + 1 /\ Len(t4) = Len(t3) + 1
      BY <2>1, <2>2, <2>3
    <3> HIDE DEF t1, t2, t3, t4
    <3> QED
      BY <2>4, <3>1
  <2>6. /\ \A i \in 1..Len(t) : t4[i] = t[i]
        /\ t4[Len(t) + 1] = Equals /\ t4[Len(t) + 2] = Equals
        /\ t4[Len(t) + 3] = Equals /\ t4[Len(t) + 4] = Equals
    <3>1. /\ (\A i \in 1..Len(t) : t1[i] = t[i]) /\ t1[Len(t) + 1] = Equals
          /\ (\A i \in 1..Len(t1) : t2[i] = t1[i]) /\ t2[Len(t1) + 1] = Equals
          /\ (\A i \in 1..Len(t2) : t3[i] = t2[i]) /\ t3[Len(t2) + 1] = Equals
          /\ (\A i \in 1..Len(t3) : t4[i] = t3[i]) /\ t4[Len(t3) + 1] = Equals
      BY <2>1, <2>2, <2>3
    <3> HIDE DEF t1, t2, t3, t4
    <3> QED
      BY <2>4, <2>5, <3>1
  <2> HIDE DEF t1, t2, t3, t4
  <2>7. ASSUME NEW i \in 1 .. Len(t) + 4
        PROVE  t4[i] = (t \o Ending)[i]
    <3>1. CASE i <= Len(t)
      BY <2>4, <2>6, <3>1
    <3>2. CASE ~(i <= Len(t))
      <4>1. i - Len(t) \in 1..4 /\ Ending[i - Len(t)] = Equals
        BY <1>1, <2>4, <3>2, SMTT(40)
      <4>2. i = Len(t) + 1 \/ i = Len(t) + 2 \/ i = Len(t) + 3 \/ i = Len(t) + 4
        BY <2>4, <3>2
      <4> QED
        BY <2>4, <2>6, <3>2, <4>1, <4>2
    <3> QED
      BY <3>1, <3>2
  <2>8. t4 = t \o Ending
    BY <2>3, <2>4, <2>5, <2>7, SeqEqual
  <2> QED
    BY <2>8 DEF t4, t3, t2, t1
<1> QED
  BY <1>2, <1>3, <1>6, <1>7, ZenonT(40)

\* Nothing is dropped from a text without other characters.
LEMMA KeptWhole ==
  ASSUME NEW S, Equals \in S, NEW source \in Seq(S),
         \A i \in 1..Len(source) : Significant(source[i])
  PROVE  Kept(source) = source \o Ending
<1> DEFINE text == source \o Ending
           last == Len(text)
<1>1. Ending \in Seq(S) /\ Len(Ending) = 4 /\ \A j \in 1..4 : Ending[j] = Equals
  BY DEF Ending
<1>2. /\ text \in Seq(S) /\ last \in Nat
      /\ \A i \in 1..last : Significant(text[i])
  <2>1. /\ text \in Seq(S) /\ Len(text) = Len(source) + Len(Ending) /\ Len(source) \in Nat
        /\ \A i \in 1 .. Len(source) + Len(Ending) :
             text[i] = IF i <= Len(source) THEN source[i] ELSE Ending[i - Len(source)]
    BY <1>1, ConcatProperties, LenProperties, SMTT(40)
  <2>2. Significant(Equals)
    BY DEF Significant
  <2> HIDE DEF text
  <2>3. last = Len(source) + 4 /\ last \in Nat
    BY <1>1, <2>1
  <2> HIDE DEF last
  <2>4. ASSUME NEW i \in 1..last
        PROVE  Significant(text[i])
    <3>1. i \in 1 .. Len(source) + Len(Ending)
      BY <1>1, <2>3
    <3>2. CASE i <= Len(source)
      BY <2>1, <3>1, <3>2
    <3>3. CASE ~(i <= Len(source))
      <4>1. i - Len(source) \in 1..4
        BY <2>1, <2>3, <3>3
      <4>2. text[i] = Equals
        BY <1>1, <2>1, <3>1, <3>3, <4>1, Zenon
      <4> QED
        BY <2>2, <4>2
    <3> QED
      BY <3>2, <3>3
  <2> QED
    BY <2>1, <2>3, <2>4
<1>3. PICK kept : /\ kept[0] = <<>>
                  /\ \A i \in 1..Len(text) :
                       kept[i] = IF Significant(text[i]) THEN Append(kept[i - 1], text[i])
                                 ELSE kept[i - 1]
                  /\ Kept(source) = kept[Len(text)]
  BY KeptRun
<1>4. kept[0] = <<>> /\ Kept(source) = kept[last]
  BY <1>3
<1>5. \A i \in 1..last : kept[i] = Append(kept[i - 1], text[i])
  BY <1>2, <1>3
<1> HIDE DEF last, text
<1>6. \A i \in 0..last : kept[i] = SubSeq(text, 1, i)
  <2> DEFINE T == {i \in 0..last : kept[i] # SubSeq(text, 1, i)}
  <2> SUFFICES ASSUME T # {}
               PROVE  FALSE
    OBVIOUS
  <2>1. PICK m \in T : \A y \in T : m <= y
    <3>1. T \in SUBSET Nat
      BY <1>2
    <3> QED
      BY <3>1, LeastElement
  <2>2. m # 0
    <3>1. SubSeq(text, 1, 0) = <<>>
      BY SubSeqEmpty
    <3> QED
      BY <1>4, <3>1
  <2>3. m \in 1..last /\ m - 1 \in 0..last /\ m - 1 < m
    BY <1>2, <2>2
  <2>4. kept[m - 1] = SubSeq(text, 1, m - 1)
    <3>1. m - 1 \notin T
      BY <1>2, <2>1, <2>3
    <3> QED
      BY <2>3, <3>1
  <2>5. text[m] \in S /\ \A i \in 1 .. m - 1 : text[i] \in S
    <3>1. \A i \in 1..last : text[i] \in S
      BY <1>2, ElementOfSeq DEF last
    <3> QED
      BY <1>2, <2>3, <3>1
  <2>6. SubSeq(text, 1, m - 1) \in Seq(S)
    <3>1. 1 \in Int /\ m - 1 \in Int
      BY <1>2, <2>3
    <3> QED
      BY <2>5, <3>1, SubSeqProperties
  <2>7. SubSeq(text, 1, m) = SubSeq(text, 1, m - 1) \o << text[m] >>
    <3>1. 1 \in 1..last /\ m \in 1..last
      BY <1>2, <2>3
    <3> QED
      BY <1>2, <3>1, SubSeqRecursiveSecond DEF last
  <2>8. Append(SubSeq(text, 1, m - 1), text[m]) = SubSeq(text, 1, m - 1) \o << text[m] >>
    BY <2>5, <2>6, AppendIsConcat
  <2>9. kept[m] = SubSeq(text, 1, m)
    BY <1>5, <2>3, <2>4, <2>7, <2>8
  <2> QED
    BY <2>1, <2>9
<1>7. kept[last] = text
  <2>1. kept[last] = SubSeq(text, 1, last)
    BY <1>2, <1>6
  <2>2. SubSeq(text, 1, Len(text)) = text
    BY <1>2, SubSeqFull
  <2> QED
    BY <2>1, <2>2 DEF last
<1> QED
  BY <1>4, <1>7 DEF text

\* An encoded text consists of characters of the alphabet and of '='.
LEMMA EncodedIs ==
  ASSUME NEW source \in Seq(Byte)
  PROVE  /\ base64_encode(source) \in Seq(Byte)
         /\ \A i \in 1..Len(base64_encode(source)) : Significant(base64_encode(source)[i])
<1> DEFINE groups == (Len(source) + 2) \div 3
           text == base64_encode(source)
<1>1. groups \in Nat
  BY SMT
<1>2. Significant(Equals) /\ Equals \in Byte
  BY DEF Significant, Equals, Byte
<1>3. ASSUME NEW n \in 0..63
      PROVE  Significant(BASE64_CHARS[n]) /\ BASE64_CHARS[n] \in Byte
  <2>1. CharValue(BASE64_CHARS[n]) = n /\ BASE64_CHARS[n] \in Byte
    BY CharValueOfChar
  <2> QED
    BY <2>1 DEF Significant
<1>4. ASSUME NEW g \in Nat \ {0}, NEW j \in 1..4
      PROVE  Significant(Group(source, g)[j]) /\ Group(source, g)[j] \in Byte
  <2> DEFINE a == ByteAt(source, 3 * g - 2)
             b == ByteAt(source, 3 * g - 1)
             c == ByteAt(source, 3 * g)
             v == (a * 256 + b) * 256 + c
             left == Len(source) - 3 * (g - 1)
  <2>1. v \in Nat
    <3>1. 3 * g - 2 \in Nat \ {0} /\ 3 * g - 1 \in Nat \ {0} /\ 3 * g \in Nat \ {0}
      OBVIOUS
    <3>2. a \in Nat /\ b \in Nat /\ c \in Nat
      BY <3>1, ByteAtType
    <3> HIDE DEF a, b, c
    <3> QED
      BY <3>2
  <2>2. /\ Group(source, g)[1] = BASE64_CHARS[(v \div 262144) % 64]
        /\ Group(source, g)[2] = BASE64_CHARS[(v \div 4096) % 64]
        /\ Group(source, g)[3] = IF left = 1 THEN Equals ELSE BASE64_CHARS[(v \div 64) % 64]
        /\ Group(source, g)[4] = IF left < 3 THEN Equals ELSE BASE64_CHARS[v % 64]
    BY DEF Group, EncodeTriple
  <2> HIDE DEF v, left
  <2>3. /\ (v \div 262144) % 64 \in 0..63 /\ (v \div 4096) % 64 \in 0..63
        /\ (v \div 64) % 64 \in 0..63     /\ v % 64 \in 0..63
    BY <2>1, SixBitsType
  <2>4. j = 1 \/ j = 2 \/ j = 3 \/ j = 4
    OBVIOUS
  <2> DEFINE q == Group(source, g)
  <2> HIDE DEF q
  <2>5. /\ Significant(q[1]) /\ q[1] \in Byte /\ Significant(q[2]) /\ q[2] \in Byte
        /\ Significant(q[3]) /\ q[3] \in Byte /\ Significant(q[4]) /\ q[4] \in Byte
    <3> DEFINE x == (v \div 262144) % 64
               y == (v \div 4096) % 64
    <3>1. /\ q[1] = BASE64_CHARS[x] /\ q[2] = BASE64_CHARS[y] /\ x \in 0..63 /\ y \in 0..63
      BY <2>2, <2>3 DEF q
    <3> HIDE DEF x, y
    <3>2. q[3] = Equals \/ q[3] = BASE64_CHARS[(v \div 64) % 64]
      BY <2>2 DEF q
    <3>3. q[4] = Equals \/ q[4] = BASE64_CHARS[v % 64]
      BY <2>2 DEF q
    <3>4. (v \div 64) % 64 \in 0..63 /\ v % 64 \in 0..63
      BY <2>3
    <3> QED
      BY <1>2, <1>3, <3>1, <3>2, <3>3, <3>4, ZenonT(40)
  <2> QED
    BY <2>4, <2>5 DEF q
<1>5. text = [k \in 1 .. 4 * groups |-> Group(source, (k - 1) \div 4 + 1)[((k - 1) % 4) + 1]]
  BY Zenon DEF base64_encode
<1> HIDE DEF groups, text
<1>6. ASSUME NEW k \in 1 .. 4 * groups
      PROVE  Significant(text[k]) /\ text[k] \in Byte
  <2>1. (k - 1) \div 4 + 1 \in Nat \ {0} /\ ((k - 1) % 4) + 1 \in 1..4
    BY <1>1, SMT
  <2> QED
    BY <1>4, <1>5, <2>1
<1>7. text \in Seq(Byte) /\ Len(text) = 4 * groups
  <2>1. text \in [1 .. 4 * groups -> Byte] /\ 4 * groups \in Nat
    BY <1>1, <1>5, <1>6
  <2> QED
    BY <2>1
<1> QED
  BY <1>6, <1>7 DEF text

\* base64.c: what a client sends as its proof is decoded to what it encoded.
THEOREM DecodesRfc ==
  ASSUME NEW source \in Seq(Byte)
  PROVE  base64_decode(Rfc3548(source)) = source
<1>1. Rfc3548(source) = base64_encode(source)
  BY EncodesAsRfc
<1>2. Equals \in Byte
  BY DEF Equals, Byte
<1>3. Kept(base64_encode(source)) = base64_encode(source) \o Ending
  BY <1>2, EncodedIs, KeptWhole
<1> QED
  BY <1>1, <1>3, RoundTrip DEF base64_decode, Encoded

\* base64.c: whatever text is sent, the loop never takes a character behind the
\* copy of those that are kept.
THEOREM DecodesInside ==
  ASSUME NEW source \in Seq(Byte)
  PROVE  StaysInside(Kept(source))
<1>1. Equals \in Byte
  BY DEF Equals, Byte
<1>2. PICK t \in Seq(Byte) : Kept(source) = t \o Ending
  BY <1>1, KeptEnds
<1> QED
  BY <1>1, <1>2, DecoderStaysInside

-----------------------------------------------------------------------------
(* Sets of lines. *)

\* A line behind all others is the last.
LEMMA LastIs ==
  ASSUME NEW n \in Nat, NEW K \in SUBSET (1..n)
  PROVE  Last(K \cup {n + 1}) = n + 1
<1>1. n + 1 \in K \cup {n + 1} /\ \A m \in K \cup {n + 1} : m <= n + 1
  OBVIOUS
<1>2. \A k \in K \cup {n + 1} : (\A m \in K \cup {n + 1} : m <= k) => k = n + 1
  OBVIOUS
<1> QED
  BY <1>1, <1>2 DEF Last

\* The first of some lines is one of them, and none comes before it.
LEMMA FirstIs ==
  ASSUME NEW K \in SUBSET Nat, K # {}
  PROVE  First(K) \in K /\ \A m \in K : First(K) <= m
BY LeastElement DEF First

\* A line with none before it is the first.
LEMMA FirstUnique ==
  ASSUME NEW K \in SUBSET Nat, NEW k \in K, \A m \in K : k <= m
  PROVE  First(K) = k
<1> DEFINE f == First(K)
<1>1. f \in K /\ \A m \in K : f <= m
  BY FirstIs
<1> HIDE DEF f
<1>2. f <= k /\ k <= f /\ f \in Nat /\ k \in Nat
  BY <1>1
<1>3. f = k
  BY <1>2
<1> QED
  BY <1>3 DEF f

\* The lines of a file are finitely many.
LEMMA Countable ==
  ASSUME NEW n \in Nat, NEW L \in SUBSET (1..n)
  PROVE  IsFiniteSet(L) /\ Cardinality(L) \in Nat
<1>1. IsFiniteSet(1..n)
  BY FS_Interval
<1>2. IsFiniteSet(L)
  BY <1>1, FS_Subset
<1> QED
  BY <1>2, FS_CardinalityType

\* Places run from 1 to the number of lines, in the order of the lines.
LEMMA PlaceIs ==
  ASSUME NEW n \in Nat, NEW L \in SUBSET (1..n), NEW k \in L
  PROVE  /\ Place(k, L) \in 1..Cardinality(L)
         /\ \A m \in L : m <= k => Place(m, L) <= Place(k, L)
<1> DEFINE upto(m) == {x \in L : x <= m}
<1>1. IsFiniteSet(L) /\ Cardinality(L) \in Nat
  BY Countable
<1>2. ASSUME NEW A \in SUBSET L, NEW B \in SUBSET A
      PROVE  /\ IsFiniteSet(A) /\ Cardinality(A) \in Nat /\ Cardinality(B) \in Nat
             /\ Cardinality(B) <= Cardinality(A)
  <2>1. IsFiniteSet(A)
    BY <1>1, FS_Subset
  <2> QED
    BY <2>1, FS_Subset, FS_CardinalityType
<1>3. Cardinality(upto(k)) # 0
  <2>1. k \in upto(k) /\ upto(k) \in SUBSET L
    OBVIOUS
  <2>2. IsFiniteSet(upto(k))
    BY <1>2, <2>1
  <2> QED
    BY <2>1, <2>2, FS_EmptySet
<1>4. Cardinality(upto(k)) \in 1..Cardinality(L)
  <2>1. upto(k) \in SUBSET L
    OBVIOUS
  <2>2. Cardinality(upto(k)) \in Nat /\ Cardinality(upto(k)) <= Cardinality(L)
    BY <1>2, <2>1
  <2> HIDE DEF upto
  <2> QED
    BY <1>1, <1>3, <2>2
<1>5. ASSUME NEW m \in L, m <= k
      PROVE  Cardinality(upto(m)) <= Cardinality(upto(k))
  <2>1. upto(k) \in SUBSET L /\ upto(m) \in SUBSET upto(k)
    <3>1. \A x \in L : x <= m => x <= k
      BY <1>5
    <3> QED
      BY <3>1
  <2> QED
    BY <1>2, <2>1
<1> QED
  BY <1>4, <1>5 DEF Place

\* A line that is added behind the others has the last place, and moves none.
LEMMA PlaceAdded ==
  ASSUME NEW n \in Nat, NEW L \in SUBSET (1..n)
  PROVE  /\ Cardinality(L \cup {n + 1}) = Cardinality(L) + 1
         /\ Place(n + 1, L \cup {n + 1}) = Cardinality(L) + 1
         /\ \A k \in L : Place(k, L \cup {n + 1}) = Place(k, L)
<1>1. IsFiniteSet(L) /\ n + 1 \notin L
  <2>1. n + 1 \notin L
    OBVIOUS
  <2> QED
    BY <2>1, Countable
<1>2. Cardinality(L \cup {n + 1}) = Cardinality(L) + 1
  BY <1>1, FS_AddElement
<1>3. {m \in L \cup {n + 1} : m <= n + 1} = L \cup {n + 1}
  <2>1. \A m \in L \cup {n + 1} : m <= n + 1
    OBVIOUS
  <2> QED
    BY <2>1
<1>4. \A k \in L : {m \in L \cup {n + 1} : m <= k} = {m \in L : m <= k}
  <2>1. \A k \in L : ~(n + 1 <= k)
    OBVIOUS
  <2> QED
    BY <2>1
<1> QED
  BY <1>2, <1>3, <1>4 DEF Place

-----------------------------------------------------------------------------
(* A table that was filled from some lines. *)

Holds(table, entries, lines, limit) ==
  /\ table \in Seq({entries[k] : k \in DOMAIN entries})
  /\ Len(table) = IF Cardinality(lines) < limit THEN Cardinality(lines) ELSE limit
  /\ \A k \in lines : Place(k, lines) <= limit => table[Place(k, lines)] = entries[k]
  /\ \A j \in 1..Len(table) : \E k \in lines : Place(k, lines) = j

\* An empty table holds no lines.
LEMMA HoldsNone ==
  ASSUME NEW entries, NEW limit \in Nat
  PROVE  Holds(<<>>, entries, {}, limit)
<1>1. Cardinality({}) = 0
  BY FS_EmptySet
<1> QED
  BY <1>1 DEF Holds

\* A table with room holds one line more when its entry is appended.
LEMMA HoldsMore ==
  ASSUME NEW table, NEW entries, NEW limit \in Nat, NEW n \in Nat, NEW L \in SUBSET (1..n),
         L \subseteq DOMAIN entries, n + 1 \in DOMAIN entries,
         Holds(table, entries, L, limit), Len(table) < limit
  PROVE  Holds(Append(table, entries[n + 1]), entries, L \cup {n + 1}, limit)
<1> DEFINE S == {entries[k] : k \in DOMAIN entries}
           e == entries[n + 1]
           M == L \cup {n + 1}
           c == Cardinality(L)
<1>1. e \in S
  OBVIOUS
<1>2. /\ table \in Seq(S) /\ Len(table) = IF c < limit THEN c ELSE limit
      /\ \A k \in L : Place(k, L) <= limit => table[Place(k, L)] = entries[k]
      /\ \A j \in 1..Len(table) : \E k \in L : Place(k, L) = j
  BY DEF Holds
<1>3. /\ Cardinality(M) = c + 1 /\ Place(n + 1, M) = c + 1
      /\ \A k \in L : Place(k, M) = Place(k, L)
  BY PlaceAdded
<1>4. c \in Nat
  BY Countable
<1>5. \A k \in L : Place(k, L) \in 1..c
  BY PlaceIs
<1> HIDE DEF S, e, c
<1>6. Len(table) = c /\ c < limit
  BY <1>2, <1>4
<1>7. /\ Append(table, e) \in Seq(S) /\ Len(Append(table, e)) = c + 1
      /\ \A j \in 1..c : Append(table, e)[j] = table[j]
      /\ Append(table, e)[c + 1] = e
  BY <1>1, <1>2, <1>6, AppendProperties
<1>8. ASSUME NEW k \in M, Place(k, M) <= limit
      PROVE  Append(table, e)[Place(k, M)] = entries[k]
  <2>1. CASE k \in L
    <3>1. table[Place(k, L)] = entries[k] /\ Place(k, L) \in 1..c
      BY <1>2, <1>3, <1>5, <1>8, <2>1
    <3> QED
      BY <1>3, <1>7, <2>1, <3>1
  <2>2. CASE k = n + 1
    BY <1>3, <1>7, <2>2 DEF e
  <2> QED
    BY <2>1, <2>2
<1>9. ASSUME NEW j \in 1..c+1
      PROVE  \E k \in M : Place(k, M) = j
  <2>1. CASE j = c + 1
    BY <1>3, <2>1
  <2>2. CASE j # c + 1
    <3>1. PICK k \in L : Place(k, L) = j
      BY <1>2, <1>4, <1>6, <2>2
    <3> QED
      BY <1>3, <3>1
  <2> QED
    BY <2>1, <2>2
<1>10. Len(Append(table, e)) = IF Cardinality(M) < limit THEN Cardinality(M) ELSE limit
  BY <1>3, <1>4, <1>6, <1>7
<1> HIDE DEF M
<1> QED
  BY <1>7, <1>8, <1>9, <1>10 DEF Holds, S, e, M

\* Further lines do not matter to a full table.
LEMMA HoldsFull ==
  ASSUME NEW table, NEW entries, NEW limit \in Nat, NEW n \in Nat, NEW N \in Nat,
         NEW M \in SUBSET (1..N), NEW L \in SUBSET M, \A k \in M : k \in L <=> k <= n,
         Holds(table, entries, L, limit), ~(Len(table) < limit)
  PROVE  Holds(table, entries, M, limit)
<1>1. /\ IsFiniteSet(M) /\ Cardinality(M) \in Nat
      /\ Cardinality(L) \in Nat /\ Cardinality(L) <= Cardinality(M)
  <2>1. IsFiniteSet(M) /\ Cardinality(M) \in Nat
    BY Countable
  <2>2. L \in SUBSET M
    OBVIOUS
  <2> QED
    BY <2>1, <2>2, FS_Subset, FS_CardinalityType
<1>2. Len(table) = limit /\ limit <= Cardinality(L)
  BY <1>1 DEF Holds
<1>3. \A k \in L : Place(k, M) = Place(k, L)
  <2>1. \A k \in L : {m \in M : m <= k} = {m \in L : m <= k}
    <3>1. \A k \in L : \A m \in M : m <= k => m <= n
      OBVIOUS
    <3> QED
      BY <3>1
  <2> QED
    BY <2>1 DEF Place
<1>4. ASSUME NEW k \in M, k \notin L
      PROVE  ~(Place(k, M) <= limit)
  <2> DEFINE P == {m \in M : m <= k}
  <2>1. L \cup {k} \in SUBSET P /\ P \in SUBSET M
    <3>1. k <= k /\ \A m \in M : m <= n => m <= k
      BY <1>4
    <3> QED
      BY <3>1
  <2>2. IsFiniteSet(P) /\ IsFiniteSet(L) /\ IsFiniteSet(L \cup {k})
    BY <1>1, <2>1, FS_Subset
  <2>3. Cardinality(L \cup {k}) = Cardinality(L) + 1
    BY <1>4, <2>2, FS_AddElement
  <2>4. Cardinality(L \cup {k}) <= Cardinality(P) /\ Cardinality(P) \in Nat
    BY <2>1, <2>2, FS_Subset, FS_CardinalityType
  <2>5. Place(k, M) = Cardinality(P)
    BY DEF Place
  <2> HIDE DEF P
  <2> QED
    BY <1>1, <1>2, <2>3, <2>4, <2>5
<1>5. \A k \in L : Place(k, L) <= limit => table[Place(k, L)] = entries[k]
  BY DEF Holds
<1>6. \A k \in M : Place(k, M) <= limit => table[Place(k, M)] = entries[k]
  BY <1>3, <1>4, <1>5
<1>7. \A j \in 1..Len(table) : \E k \in L : Place(k, L) = j
  BY DEF Holds
<1>8. \A j \in 1..Len(table) : \E k \in M : Place(k, M) = j
  BY <1>3, <1>7
<1>9. Len(table) = IF Cardinality(M) < limit THEN Cardinality(M) ELSE limit
  BY <1>1, <1>2
<1>10. table \in Seq({entries[k] : k \in DOMAIN entries})
  BY DEF Holds
<1> QED
  BY <1>6, <1>8, <1>9, <1>10, Zenon DEF Holds

-----------------------------------------------------------------------------
(* The settings as a function of the lines read so far. *)

Options == {"ip_proto_ver", "active_port", "document_root", "ssl_cert_file", "ssl_key_file",
            "ssl_on", "connection_processor", "use_sendfile"}

\* The lines up to the n-th that have an option.
Upto(f, option, words, n) == {k \in LinesOf(f, option, words) : k <= n}

Known(f, n) == {k \in Upto(f, "connection_processor", 2, n) : f[k][2] \in Processors}

SslOf(f) == UNION {LinesOf(f, option, 2) : option \in SslOptions}

\* Line k is read in app_path, and its name was not looked for before.
Home(f, k) == \E m \in SslOf(f) :
                m < k /\ \A r \in LinesOf(f, "document_root", 2) : ~(m < r /\ r < k)
Fresh(f, k) == \A m \in SslOf(f) : m < k => f[m][2] # f[k][2]

Somewhere(name) == \E p \in Places : <<p, name>> \in Existing

\* file is what came of one line that names a certificate or a key.
FromLine(f, k, file) ==
  /\ file \in {f[k][2], NULL}
  /\ file # NULL => Somewhere(f[k][2])
  /\ (Home(f, k) /\ Fresh(f, k)) \/ Absolute(f[k][2])
       => (file # NULL <=> <<app_path, f[k][2]>> \in Existing)

\* file is what came of the last of some lines.
FromLast(f, lines, file) == IF lines = {} THEN file = NULL ELSE FromLine(f, Last(lines), file)

\* Where the process is and which files are open when line n is the next.
AtLine(f, n, place, found) ==
  /\ Home(f, n) => place = app_path
  /\ \A name \in found : \E m \in SslOf(f) : m < n /\ f[m][2] = name

\* What config is when n lines were read.
Settings(c, f, n) ==
  /\ c.active_port = Value(f, Upto(f, "port_number", 2, n), -1)
  /\ c.document_root = Value(f, Upto(f, "document_root", 2, n), NULL)
  /\ c.connection_processor = Value(f, Known(f, n), "epoll")
  /\ FromLast(f, Upto(f, "ssl_certificate_file", 2, n), c.ssl_cert_file)
  /\ FromLast(f, Upto(f, "ssl_key_file", 2, n), c.ssl_key_file)
  /\ c.use_sendfile <=> Value(f, Upto(f, "use_sendfile", 2, n), "true") = "true"

SettingsType(c, found) ==
  /\ DOMAIN c = Options
  /\ c.connection_processor \in Processors
  /\ c.ssl_cert_file \in found \cup {NULL}
  /\ c.ssl_key_file \in found \cup {NULL}
  /\ c.ssl_on \in BOOLEAN
  /\ c.use_sendfile \in BOOLEAN

\* What one line sets, setting by setting (CORE_load_configuration).
LEMMA AssignedIs ==
  ASSUME NEW c, DOMAIN c = Options, NEW option, NEW value
  PROVE  LET d == Assigned(c, option, value)
         IN /\ DOMAIN d = Options
            /\ d.active_port = IF option = "port_number" THEN value ELSE c.active_port
            /\ d.document_root = IF option = "document_root" THEN value ELSE c.document_root
            /\ d.connection_processor =
                 IF option = "connection_processor" /\ value \in Processors
                 THEN value ELSE c.connection_processor
            /\ d.ssl_cert_file = IF option = "ssl_certificate_file" THEN IfExists(value, c.ssl_cert_file)
                                 ELSE c.ssl_cert_file
            /\ d.ssl_key_file = IF option = "ssl_key_file" THEN IfExists(value, c.ssl_key_file)
                                ELSE c.ssl_key_file
            /\ d.use_sendfile = IF option = "use_sendfile" THEN value = "true" ELSE c.use_sendfile
            /\ d.ssl_on = c.ssl_on
<1> DEFINE d == Assigned(c, option, value)
<1>1. CASE option = "ip_ver"
  <2>1. d = [c EXCEPT !.ip_proto_ver = IF value = 6 THEN 6 ELSE 4]
    BY <1>1 DEF Assigned
  <2> QED
    BY <1>1, <2>1 DEF Options
<1>2. CASE option = "port_number"
  <2>1. d = [c EXCEPT !.active_port = value]
    BY <1>2 DEF Assigned
  <2> QED
    BY <1>2, <2>1 DEF Options
<1>3. CASE option = "document_root"
  <2>1. d = [c EXCEPT !.document_root = value]
    BY <1>3 DEF Assigned
  <2> QED
    BY <1>3, <2>1 DEF Options
<1>4. CASE option = "ssl_certificate_file"
  <2>1. d = [c EXCEPT !.ssl_cert_file = IfExists(value, @)]
    BY <1>4 DEF Assigned
  <2> QED
    BY <1>4, <2>1 DEF Options
<1>5. CASE option = "ssl_key_file"
  <2>1. d = [c EXCEPT !.ssl_key_file = IfExists(value, @)]
    BY <1>5 DEF Assigned
  <2> QED
    BY <1>5, <2>1 DEF Options
<1>6. CASE option = "connection_processor" /\ value \in Processors
  <2>1. d = [c EXCEPT !.connection_processor = value]
    BY <1>6 DEF Assigned
  <2> QED
    BY <1>6, <2>1 DEF Options
<1>7. CASE option = "use_sendfile"
  <2>1. d = [c EXCEPT !.use_sendfile = value = "true"]
    BY <1>7 DEF Assigned
  <2> QED
    BY <1>7, <2>1 DEF Options
<1>8. CASE /\ option \notin {"ip_ver", "port_number", "document_root", "ssl_certificate_file",
                             "ssl_key_file", "use_sendfile"}
           /\ ~(option = "connection_processor" /\ value \in Processors)
  <2>1. d = c
    BY <1>8 DEF Assigned
  <2> QED
    BY <1>8, <2>1
<1> QED
  BY <1>1, <1>2, <1>3, <1>4, <1>5, <1>6, <1>7, <1>8, Zenon

\* With one line more, the lines read that have an option are the same or have
\* that line added.
LEMMA UptoNext ==
  ASSUME NEW f, DOMAIN f \subseteq Nat \ {0}, NEW n \in Nat, n + 1 \in DOMAIN f,
         NEW option, NEW words
  PROVE  /\ Upto(f, option, words, n) \in SUBSET (1..n)
         /\ Upto(f, option, words, n + 1) =
              IF Has(f[n + 1], option, words) THEN Upto(f, option, words, n) \cup {n + 1}
              ELSE Upto(f, option, words, n)
<1> DEFINE L == LinesOf(f, option, words)
<1>1. \A k \in L : k \in Nat \ {0} /\ k \in DOMAIN f
  BY DEF LinesOf
<1>2. n + 1 \in L <=> Has(f[n + 1], option, words)
  BY DEF LinesOf
<1> HIDE DEF L
<1>3. {k \in L : k <= n} \in SUBSET (1..n)
  BY <1>1
<1>4. {k \in L : k <= n + 1} = {k \in L : k <= n} \cup {k \in L : k = n + 1}
  <2>1. \A k \in L : k <= n + 1 <=> k <= n \/ k = n + 1
    BY <1>1
  <2> QED
    BY <2>1
<1>5. {k \in L : k = n + 1} = IF n + 1 \in L THEN {n + 1} ELSE {}
  OBVIOUS
<1> QED
  BY <1>2, <1>3, <1>4, <1>5 DEF Upto, L

\* The line read last decides.
LEMMA ValueNext ==
  ASSUME NEW f, NEW n \in Nat, NEW K \in SUBSET (1..n), NEW default
  PROVE  Value(f, K \cup {n + 1}, default) = f[n + 1][2]
<1>1. Last(K \cup {n + 1}) = n + 1
  BY LastIs
<1>2. K \cup {n + 1} # {}
  OBVIOUS
<1> QED
  BY <1>1, <1>2 DEF Value

\* A line of an option sets it, any other line does not.
LEMMA ValueStep ==
  ASSUME NEW f, DOMAIN f \subseteq Nat \ {0}, NEW n \in Nat, n + 1 \in DOMAIN f,
         NEW option, NEW default
  PROVE  Value(f, Upto(f, option, 2, n + 1), default) =
           IF Has(f[n + 1], option, 2) THEN f[n + 1][2]
           ELSE Value(f, Upto(f, option, 2, n), default)
<1> DEFINE U == Upto(f, option, 2, n)
<1>1. /\ U \in SUBSET (1..n)
      /\ Upto(f, option, 2, n + 1) = IF Has(f[n + 1], option, 2) THEN U \cup {n + 1} ELSE U
  BY UptoNext
<1> HIDE DEF U
<1>2. Value(f, U \cup {n + 1}, default) = f[n + 1][2]
  BY <1>1, ValueNext
<1> QED
  BY <1>1, <1>2 DEF U

\* A processor nobody knows leaves the one before.
LEMMA KnownStep ==
  ASSUME NEW f, DOMAIN f \subseteq Nat \ {0}, NEW n \in Nat, n + 1 \in DOMAIN f
  PROVE  Value(f, Known(f, n + 1), "epoll") =
           IF Has(f[n + 1], "connection_processor", 2) /\ f[n + 1][2] \in Processors
           THEN f[n + 1][2] ELSE Value(f, Known(f, n), "epoll")
<1> DEFINE U == Upto(f, "connection_processor", 2, n)
           has == Has(f[n + 1], "connection_processor", 2)
           good(k) == f[k][2] \in Processors
<1>1. /\ U \in SUBSET (1..n)
      /\ Upto(f, "connection_processor", 2, n + 1) = IF has THEN U \cup {n + 1} ELSE U
  BY UptoNext
<1>2. Known(f, n) = {k \in U : good(k)}
  BY DEF Known
<1>3. Known(f, n + 1) = {k \in Upto(f, "connection_processor", 2, n + 1) : good(k)}
  BY DEF Known
<1> HIDE DEF U, has, good
<1>4. Known(f, n) \in SUBSET (1..n)
  BY <1>1, <1>2
<1>5. Known(f, n + 1) = IF has /\ good(n + 1) THEN Known(f, n) \cup {n + 1} ELSE Known(f, n)
  BY <1>1, <1>2, <1>3
<1>6. Value(f, Known(f, n) \cup {n + 1}, "epoll") = f[n + 1][2]
  BY <1>4, ValueNext
<1> QED
  BY <1>5, <1>6 DEF has, good

\* What a certificate or key line finds.
LEMMA FoundFromLine ==
  ASSUME NEW f, NEW k, AtLine(f, k, cwd, listed), cwd \in Places, \A name \in listed : Somewhere(name)
  PROVE  FromLine(f, k, IfExists(f[k][2], NULL))
<1> DEFINE name == f[k][2]
           file == IfExists(name, NULL)
<1>1. file = IF FileExists(name) THEN name ELSE NULL
  BY DEF IfExists
<1>2. FileExists(name) => Somewhere(name)
  BY DEF FileExists, Somewhere
<1>3. FileExists(name) => name # NULL
  BY <1>2, NullAssumption DEF Somewhere
<1>4. ASSUME Home(f, k), Fresh(f, k)
      PROVE  FileExists(name) <=> <<app_path, name>> \in Existing
  <2>1. cwd = app_path
    BY <1>4 DEF AtLine
  <2>2. name \notin listed
    BY <1>4 DEF AtLine, Fresh
  <2> QED
    BY <2>1, <2>2 DEF FileExists
<1>5. ASSUME Absolute(name)
      PROVE  FileExists(name) <=> <<app_path, name>> \in Existing
  <2>1. \A p \in Places : <<p, name>> \in Existing <=> <<app_path, name>> \in Existing
    BY <1>5, Zenon DEF Absolute
  <2> QED
    BY <1>2, <2>1, PlacesAssumption DEF FileExists, Somewhere
<1> HIDE DEF name, file
<1>6. file # NULL <=> FileExists(name)
  BY <1>1, <1>3
<1>7. file \in {name, NULL} /\ (file # NULL => Somewhere(name))
  BY <1>1, <1>2, <1>6
<1>8. (Home(f, k) /\ Fresh(f, k)) \/ Absolute(name)
        => (file # NULL <=> <<app_path, name>> \in Existing)
  BY <1>4, <1>5, <1>6
<1> QED
  BY <1>7, <1>8, Zenon DEF FromLine, name, file

\* One line more: a line of the option decides, any other line does not.
LEMMA FromLastStep ==
  ASSUME NEW f, DOMAIN f \subseteq Nat \ {0}, NEW n \in Nat, n + 1 \in DOMAIN f, NEW option,
         NEW file, FromLast(f, Upto(f, option, 2, n), file),
         NEW new, IF Has(f[n + 1], option, 2) THEN FromLine(f, n + 1, new) ELSE new = file
  PROVE  FromLast(f, Upto(f, option, 2, n + 1), new)
<1> DEFINE U == Upto(f, option, 2, n)
           has == Has(f[n + 1], option, 2)
<1>1. /\ U \in SUBSET (1..n)
      /\ Upto(f, option, 2, n + 1) = IF has THEN U \cup {n + 1} ELSE U
  BY UptoNext
<1>2. FromLast(f, U, file) /\ IF has THEN FromLine(f, n + 1, new) ELSE new = file
  OBVIOUS
<1> HIDE DEF U, has
<1>3. Last(U \cup {n + 1}) = n + 1 /\ U \cup {n + 1} # {}
  BY <1>1, LastIs
<1>4. CASE has
  <2>1. FromLast(f, U \cup {n + 1}, new)
    BY <1>2, <1>3, <1>4, Zenon DEF FromLast
  <2> QED
    BY <1>1, <1>4, <2>1
<1>5. CASE ~has
  BY <1>1, <1>2, <1>5
<1> QED
  BY <1>4, <1>5

\* CORE_load_configuration: one line more.
LEMMA SettingsNext ==
  ASSUME NEW f, DOMAIN f \subseteq Nat \ {0}, NEW n \in Nat, n + 1 \in DOMAIN f,
         NEW c, SettingsType(c, listed), Settings(c, f, n),
         AtLine(f, n + 1, cwd, listed), cwd \in Places, \A name \in listed : Somewhere(name),
         NEW d, d = IF Len(f[n + 1]) >= 2 THEN Assigned(c, f[n + 1][1], f[n + 1][2]) ELSE c,
         NEW found, listed \subseteq found,
         \A option \in SslOptions :
           Has(f[n + 1], option, 2) /\ FileExists(f[n + 1][2]) => f[n + 1][2] \in found
  PROVE  SettingsType(d, found) /\ Settings(d, f, n + 1)
<1> DEFINE l == f[n + 1]
           has(option) == Has(l, option, 2)
           v == l[2]
<1>1. \A option : has(option) <=> Len(l) >= 2 /\ l[1] = option
  BY DEF Has
<1>2. /\ DOMAIN d = Options
      /\ d.active_port = IF has("port_number") THEN v ELSE c.active_port
      /\ d.document_root = IF has("document_root") THEN v ELSE c.document_root
      /\ d.connection_processor = IF has("connection_processor") /\ v \in Processors
                                  THEN v ELSE c.connection_processor
      /\ d.ssl_cert_file = IF has("ssl_certificate_file") THEN IfExists(v, NULL) ELSE c.ssl_cert_file
      /\ d.ssl_key_file = IF has("ssl_key_file") THEN IfExists(v, NULL) ELSE c.ssl_key_file
      /\ d.use_sendfile = IF has("use_sendfile") THEN v = "true" ELSE c.use_sendfile
      /\ d.ssl_on = c.ssl_on
  <2>1. IfExists(v, c.ssl_cert_file) = IfExists(v, NULL) /\ IfExists(v, c.ssl_key_file) = IfExists(v, NULL)
    BY DEF IfExists
  <2>2. CASE Len(l) >= 2
    <3>1. d = Assigned(c, l[1], l[2]) /\ DOMAIN c = Options
      BY <2>2 DEF SettingsType
    <3> HIDE DEF has
    <3>2. \A option : has(option) <=> l[1] = option
      BY <1>1, <2>2
    <3> HIDE DEF l
    <3>3. /\ DOMAIN d = Options
          /\ d.active_port = IF l[1] = "port_number" THEN v ELSE c.active_port
          /\ d.document_root = IF l[1] = "document_root" THEN v ELSE c.document_root
          /\ d.connection_processor =
               IF l[1] = "connection_processor" /\ v \in Processors
               THEN v ELSE c.connection_processor
          /\ d.ssl_cert_file = IF l[1] = "ssl_certificate_file" THEN IfExists(v, c.ssl_cert_file)
                               ELSE c.ssl_cert_file
          /\ d.ssl_key_file = IF l[1] = "ssl_key_file" THEN IfExists(v, c.ssl_key_file)
                              ELSE c.ssl_key_file
          /\ d.use_sendfile = IF l[1] = "use_sendfile" THEN v = "true" ELSE c.use_sendfile
          /\ d.ssl_on = c.ssl_on
      BY <3>1, AssignedIs
    <3> HIDE DEF v
    <3> QED
      BY <2>1, <3>2, <3>3
  <2>3. CASE ~(Len(l) >= 2)
    <3>1. d = c /\ \A option : ~has(option)
      BY <1>1, <2>3
    <3> HIDE DEF has
    <3> QED
      BY <3>1 DEF SettingsType
  <2> QED
    BY <2>2, <2>3
<1>3. /\ Value(f, Upto(f, "port_number", 2, n + 1), -1) =
           IF has("port_number") THEN v ELSE Value(f, Upto(f, "port_number", 2, n), -1)
      /\ Value(f, Upto(f, "document_root", 2, n + 1), NULL) =
           IF has("document_root") THEN v ELSE Value(f, Upto(f, "document_root", 2, n), NULL)
      /\ Value(f, Upto(f, "use_sendfile", 2, n + 1), "true") =
           IF has("use_sendfile") THEN v ELSE Value(f, Upto(f, "use_sendfile", 2, n), "true")
  <2> HIDE DEF has, v, l
  <2>1. \A option, default :
          Value(f, Upto(f, option, 2, n + 1), default) =
            IF has(option) THEN v ELSE Value(f, Upto(f, option, 2, n), default)
    BY ValueStep, Zenon DEF has, v, l
  <2> QED
    BY <2>1
<1>4. Value(f, Known(f, n + 1), "epoll") =
        IF has("connection_processor") /\ v \in Processors THEN v
        ELSE Value(f, Known(f, n), "epoll")
  BY KnownStep, Zenon
<1>11. FromLine(f, n + 1, IfExists(v, NULL))
  BY FoundFromLine
<1>12. \A option \in SslOptions : has(option) => IfExists(v, NULL) \in found \cup {NULL}
  BY DEF IfExists
<1> HIDE DEF has, v
<1>5. SettingsType(d, found)
  <2>1. /\ has("ssl_certificate_file") => IfExists(v, NULL) \in found \cup {NULL}
        /\ has("ssl_key_file") => IfExists(v, NULL) \in found \cup {NULL}
    BY <1>12 DEF SslOptions
  <2>2. (v = "true") \in BOOLEAN
    OBVIOUS
  <2>3. /\ c.ssl_cert_file \in found \cup {NULL} /\ c.ssl_key_file \in found \cup {NULL}
        /\ c.connection_processor \in Processors /\ c.ssl_on \in BOOLEAN
        /\ c.use_sendfile \in BOOLEAN
    BY DEF SettingsType
  <2>4. d.ssl_cert_file \in found \cup {NULL} /\ d.ssl_key_file \in found \cup {NULL}
    BY <1>2, <2>1, <2>3
  <2> QED
    BY <1>2, <2>2, <2>3, <2>4 DEF SettingsType
<1>6. /\ d.active_port = Value(f, Upto(f, "port_number", 2, n + 1), -1)
      /\ d.document_root = Value(f, Upto(f, "document_root", 2, n + 1), NULL)
  BY <1>2, <1>3 DEF Settings
<1>7. d.connection_processor = Value(f, Known(f, n + 1), "epoll")
  BY <1>2, <1>4 DEF Settings
<1>8. FromLast(f, Upto(f, "ssl_certificate_file", 2, n + 1), d.ssl_cert_file)
  <2>1. FromLast(f, Upto(f, "ssl_certificate_file", 2, n), c.ssl_cert_file)
    BY DEF Settings
  <2>2. IF has("ssl_certificate_file") THEN FromLine(f, n + 1, d.ssl_cert_file)
        ELSE d.ssl_cert_file = c.ssl_cert_file
    BY <1>2, <1>11
  <2> QED
    BY <2>1, <2>2, FromLastStep DEF has
<1>9. FromLast(f, Upto(f, "ssl_key_file", 2, n + 1), d.ssl_key_file)
  <2>1. FromLast(f, Upto(f, "ssl_key_file", 2, n), c.ssl_key_file)
    BY DEF Settings
  <2>2. IF has("ssl_key_file") THEN FromLine(f, n + 1, d.ssl_key_file)
        ELSE d.ssl_key_file = c.ssl_key_file
    BY <1>2, <1>11
  <2> QED
    BY <2>1, <2>2, FromLastStep DEF has
<1>10. d.use_sendfile <=> Value(f, Upto(f, "use_sendfile", 2, n + 1), "true") = "true"
  <2>1. c.use_sendfile <=> Value(f, Upto(f, "use_sendfile", 2, n), "true") = "true"
    BY DEF Settings
  <2>2. CASE has("use_sendfile")
    BY <1>2, <1>3, <2>2
  <2>3. CASE ~has("use_sendfile")
    BY <1>2, <1>3, <2>1, <2>3
  <2> QED
    BY <2>2, <2>3
<1> QED
  BY <1>5, <1>6, <1>7, <1>8, <1>9, <1>10 DEF Settings

-----------------------------------------------------------------------------
(* The settings while the loaders run. *)

Passes == {"open", "core", "htaccess", "index", "mime", "start"} \cup Ended
Later == {"htaccess", "index", "mime", "start"}
Gone == {"exit", "crashed", "overrun"}

LoadType ==
  /\ cfg_file \in ConfigFiles
  /\ pass \in Passes
  /\ line \in 1 .. Len(cfg_file) + 1
  /\ SettingsType(config, listed)
  /\ cwd \in Places
  /\ \A name \in listed : Somewhere(name)

Tls(c) == c.active_port = 443 /\ c.ssl_cert_file # NULL /\ c.ssl_key_file # NULL

SettingsInv ==
  /\ LoadType
  /\ pass = "open" =>
       /\ line = 1 /\ listed = {}
       /\ config.document_root = NULL /\ config.connection_processor = "epoll"
  /\ pass = "core" => Settings(config, cfg_file, line - 1) /\ AtLine(cfg_file, line, cwd, listed)
  /\ pass \in Later => /\ Settings(config, cfg_file, Len(cfg_file))
                       /\ config.ssl_on <=> Tls(config)
  /\ LastSettingWins

\* The lines of a file are numbered from 1.
LEMMA FileIs ==
  ASSUME NEW f \in ConfigFiles
  PROVE  Len(f) \in Nat /\ DOMAIN f = 1..Len(f) /\ DOMAIN f \subseteq Nat \ {0}
BY ConfigFilesAssumption

\* Before the first line nothing is read.
LEMMA UptoNone ==
  ASSUME NEW f \in ConfigFiles, NEW option, NEW words
  PROVE  Upto(f, option, words, 0) = {}
<1>1. \A k \in DOMAIN f : ~(k <= 0)
  BY FileIs
<1> QED
  BY <1>1 DEF Upto, LinesOf

\* Behind the last line everything is read.
LEMMA UptoAll ==
  ASSUME NEW f \in ConfigFiles, NEW option, NEW words
  PROVE  Upto(f, option, words, Len(f)) = LinesOf(f, option, words)
<1>1. \A k \in DOMAIN f : k <= Len(f)
  BY FileIs
<1> QED
  BY <1>1 DEF Upto, LinesOf

\* Nothing is set before the first line.
LEMMA SettingsNone ==
  ASSUME NEW f \in ConfigFiles, NEW c,
         c.active_port = -1, c.document_root = NULL, c.connection_processor = "epoll",
         c.ssl_cert_file = NULL, c.ssl_key_file = NULL, c.use_sendfile = TRUE
  PROVE  Settings(c, f, 0)
<1>1. \A default, option : Value(f, Upto(f, option, 2, 0), default) = default
  BY UptoNone DEF Value
<1>2. Value(f, Known(f, 0), "epoll") = "epoll"
  <2>1. Known(f, 0) = {}
    BY UptoNone DEF Known
  <2> QED
    BY <2>1 DEF Value
<1>3. \A option : FromLast(f, Upto(f, option, 2, 0), NULL)
  BY UptoNone DEF FromLast
<1>4. c.use_sendfile <=> Value(f, Upto(f, "use_sendfile", 2, 0), "true") = "true"
  BY <1>1
<1> QED
  BY <1>1, <1>2, <1>3, <1>4 DEF Settings

\* The invariant of the settings holds before the file is open.
LEMMA SettingsInit == Init => SettingsInv
<1> SUFFICES ASSUME Init
             PROVE  SettingsInv
  OBVIOUS
<1>1. cfg_file \in ConfigFiles /\ pass = "open" /\ line = 1
  BY DEF Init
<1>2. line \in 1 .. Len(cfg_file) + 1
  BY <1>1, FileIs
<1>3. config = [ip_proto_ver |-> -1, active_port |-> 0, document_root |-> NULL,
                ssl_cert_file |-> NULL, ssl_key_file |-> NULL, ssl_on |-> FALSE,
                connection_processor |-> "epoll", use_sendfile |-> FALSE]
  BY DEF Init
<1>4. SettingsType(config, listed)
  BY <1>3 DEF SettingsType, Options, Processors
<1>5. listed = {} /\ cwd \in Places
  BY PlacesAssumption DEF Init
<1> QED
  BY <1>1, <1>2, <1>3, <1>4, <1>5 DEF SettingsInv, LoadType, Passes, Later, LastSettingWins

\* Nothing is said of the settings before the server is ready.
LEMMA NotReady ==
  ASSUME pass' # "ready"
  PROVE  LastSettingWins'
BY Zenon DEF LastSettingWins

\* The loaders after the first leave the settings alone.
LEMMA SettingsStay ==
  ASSUME SettingsInv, pass \in Later, pass' \in Later, line' \in 1 .. Len(cfg_file) + 1,
         UNCHANGED <<cfg_file, config, places>>
  PROVE  SettingsInv'
<1>1. pass' \in Passes /\ pass' # "open" /\ pass' # "core" /\ pass' # "ready"
  BY DEF Passes, Later
<1>2. LoadType'
  BY <1>1 DEF SettingsInv, LoadType, places
<1>3. /\ Settings(config', cfg_file', Len(cfg_file'))
      /\ config'.ssl_on <=> Tls(config')
  BY DEF SettingsInv
<1>4. LastSettingWins'
  BY <1>1, NotReady
<1> QED
  BY <1>1, <1>2, <1>3, <1>4 DEF SettingsInv

\* The file is open, and the settings are reset.
LEMMA SettingsOpen ==
  ASSUME SettingsInv, Open
  PROVE  SettingsInv'
<1>1. /\ pass = "open" /\ line = 1 /\ config.document_root = NULL
      /\ config.connection_processor = "epoll" /\ cfg_file \in ConfigFiles
      /\ DOMAIN config = Options /\ SettingsType(config, listed)
      /\ listed = {} /\ cwd \in Places
  BY DEF Open, SettingsInv, LoadType, SettingsType
<1>2. /\ cfg_file' = cfg_file /\ line' = 1 /\ line' \in 1 .. Len(cfg_file') + 1
      /\ listed' = {} /\ cwd' \in Places
  BY <1>1 DEF Open, SettingsInv, LoadType, places
<1>3. LastSettingWins'
  <2>1. pass' # "ready"
    BY DEF Open
  <2> QED
    BY <2>1, NotReady
<1>4. CASE pass' = "core"
  <2>1. config' = [config EXCEPT !.ip_proto_ver = -1, !.active_port = -1,
                                 !.ssl_cert_file = NULL, !.ssl_key_file = NULL,
                                 !.use_sendfile = TRUE]
    BY <1>4 DEF Open
  <2> DEFINE c1 == [config EXCEPT !.ip_proto_ver = -1]
             c2 == [c1 EXCEPT !.active_port = -1]
             c3 == [c2 EXCEPT !.ssl_cert_file = NULL]
             c4 == [c3 EXCEPT !.ssl_key_file = NULL]
             c5 == [c4 EXCEPT !.use_sendfile = TRUE]
  <2>2. config' = c5
    BY <2>1
  <2>3. /\ DOMAIN c2 = Options /\ c2.active_port = -1 /\ c2.document_root = NULL
        /\ c2.connection_processor = "epoll" /\ c2.ssl_on = config.ssl_on
    BY <1>1 DEF Options
  <2> HIDE DEF c2
  <2>4. /\ DOMAIN c4 = Options /\ c4.active_port = -1 /\ c4.document_root = NULL
        /\ c4.connection_processor = "epoll" /\ c4.ssl_on = config.ssl_on
        /\ c4.ssl_cert_file = NULL /\ c4.ssl_key_file = NULL
    BY <2>3 DEF Options
  <2> HIDE DEF c4
  <2>5. /\ DOMAIN c5 = Options /\ c5.active_port = -1 /\ c5.document_root = NULL
        /\ c5.connection_processor = "epoll" /\ c5.ssl_on = config.ssl_on
        /\ c5.ssl_cert_file = NULL /\ c5.ssl_key_file = NULL /\ c5.use_sendfile = TRUE
    BY <2>4 DEF Options
  <2> HIDE DEF c5
  <2>6. SettingsType(config', listed')
    BY <1>1, <2>2, <2>5 DEF SettingsType
  <2>7. Settings(config', cfg_file, 0)
    BY <1>1, <2>2, <2>5, SettingsNone
  <2>8. LoadType'
    BY <1>1, <1>2, <1>4, <2>6 DEF LoadType, Passes
  <2>9. line' - 1 = 0
    BY <1>2
  <2>10. Settings(config', cfg_file', line' - 1)
    BY <1>2, <2>7, <2>9
  <2>11. AtLine(cfg_file, 1, cwd', listed')
    <3>1. \A m \in SslOf(cfg_file) : ~(m < 1)
      BY <1>1, FileIs DEF SslOf, LinesOf
    <3>2. ~Home(cfg_file, 1)
      BY <3>1 DEF Home
    <3> QED
      BY <1>2, <3>2 DEF AtLine
  <2>12. AtLine(cfg_file', line', cwd', listed')
    BY <1>2, <2>11
  <2> QED
    BY <1>3, <1>4, <2>8, <2>10, <2>12 DEF SettingsInv, Later
<1>5. CASE pass' = "exit" /\ config' = config
  <2>1. LoadType'
    BY <1>1, <1>2, <1>5 DEF LoadType, Passes, Ended
  <2> QED
    BY <1>3, <1>5, <2>1 DEF SettingsInv, Later
<1> QED
  BY <1>4, <1>5 DEF Open

\* Where the process is, and what is open, behind one line.
LEMMA CoreLinePlace ==
  ASSUME cfg_file \in ConfigFiles, line \in DOMAIN cfg_file, AtLine(cfg_file, line, cwd, listed),
         cwd \in Places, \A name \in listed : Somewhere(name), CoreLine
  PROVE  /\ cwd' \in Places
         /\ \A name \in listed' : Somewhere(name)
         /\ pass' = "core" => AtLine(cfg_file, line + 1, cwd', listed')
<1> DEFINE f == cfg_file
           l == f[line]
           ssl == line \in SslOf(f)
           root == line \in LinesOf(f, "document_root", 2)
<1>1. f' = f /\ line \in Nat \ {0} /\ \A k \in DOMAIN f : k \in Nat \ {0}
  BY FileIs DEF CoreLine
<1>2. /\ ssl <=> Len(l) >= 2 /\ l[1] \in SslOptions
      /\ root <=> Len(l) >= 2 /\ l[1] = "document_root"
  BY DEF SslOf, LinesOf, Has, SslOptions
<1>3. /\ cwd' \in Places
      /\ pass' = "core" /\ ~root => cwd' \in {cwd, app_path}
      /\ pass' = "core" /\ ssl => cwd' = app_path /\ ~root
  <2>1. CASE ~(Len(l) >= 2)
    BY <1>2, <2>1 DEF CoreLine
  <2>2. CASE Len(l) >= 2 /\ l[1] = "document_root"
    <3>1. DocumentRoot(l[2]) /\ root /\ ~ssl
      BY <1>2, <2>2 DEF CoreLine, SslOptions
    <3> QED
      BY <3>1, PlacesAssumption DEF DocumentRoot, LogPrints
  <2>3. CASE Len(l) >= 2 /\ l[1] = "connection_processor"
    <3>1. Processor(l[2]) /\ ~root /\ ~ssl
      BY <1>2, <2>3 DEF CoreLine, SslOptions
    <3> QED
      BY <3>1, PlacesAssumption DEF Processor, LogPrints
  <2>4. CASE Len(l) >= 2 /\ l[1] \in SslOptions
    <3>1. cwd' = app_path /\ ~root
      BY <1>2, <2>4 DEF CoreLine, SslOptions
    <3> QED
      BY <3>1, PlacesAssumption
  <2>5. CASE Len(l) >= 2 /\ l[1] \in {"ip_ver", "port_number", "use_sendfile"}
    <3>1. cwd' \in {cwd, app_path} /\ ~root /\ ~ssl
      BY <1>2, <2>5 DEF CoreLine, SslOptions, LogPrints
    <3> QED
      BY <3>1, PlacesAssumption
  <2>6. CASE /\ Len(l) >= 2
             /\ l[1] \notin SslOptions \cup {"document_root", "connection_processor", "ip_ver",
                                            "port_number", "use_sendfile"}
    <3>1. cwd' = cwd /\ ~root /\ ~ssl
      BY <1>2, <2>6 DEF CoreLine
    <3> QED
      BY <3>1
  <2> QED
    BY <2>1, <2>2, <2>3, <2>4, <2>5, <2>6
<1>4. \A name \in listed' : name \in listed \/ (ssl /\ name = l[2] /\ FileExists(name))
  <2>1. CASE ~(Len(l) >= 2)
    BY <2>1 DEF CoreLine
  <2>2. CASE Len(l) >= 2
    <3>1. listed' = listed \cup {name \in {l[2]} : l[1] \in SslOptions /\ FileExists(name)}
      BY <2>2 DEF CoreLine
    <3> HIDE DEF l, ssl
    <3> QED
      BY <1>2, <2>2, <3>1
  <2> QED
    BY <2>1, <2>2
<1>5. \A name \in listed' : Somewhere(name)
  BY <1>4 DEF FileExists, Somewhere
<1> HIDE DEF ssl, root, l
<1>6. ASSUME pass' = "core"
      PROVE  AtLine(f, line + 1, cwd', listed')
  <2>1. ASSUME NEW name \in listed'
        PROVE  \E m \in SslOf(f) : m < line + 1 /\ f[m][2] = name
    <3>1. CASE name \in listed
      <4>1. PICK m \in SslOf(f) : m < line /\ f[m][2] = name
        BY <3>1 DEF AtLine
      <4>2. m \in Nat
        BY <1>1 DEF SslOf, LinesOf
      <4>3. m < line + 1
        BY <1>1, <4>1, <4>2
      <4> QED
        BY <4>1, <4>3
    <3>2. CASE ssl /\ name = l[2]
      <4>1. line < line + 1
        BY <1>1
      <4> QED
        BY <3>2, <4>1 DEF ssl, l
    <3> QED
      BY <1>4, <2>1, <3>1, <3>2
  <2>2. ASSUME Home(f, line + 1)
        PROVE  cwd' = app_path
    <3>1. PICK m \in SslOf(f) :
            /\ m < line + 1
            /\ \A r \in LinesOf(f, "document_root", 2) : ~(m < r /\ r < line + 1)
      BY <2>2 DEF Home
    <3>2. m \in Nat /\ \A r \in LinesOf(f, "document_root", 2) : r \in Nat
      BY <1>1 DEF SslOf, LinesOf
    <3>3. CASE m = line
      BY <1>3, <2>2, <3>3, <1>6 DEF ssl
    <3>4. CASE m # line
      <4>1. m < line /\ line < line + 1
        BY <1>1, <3>1, <3>2, <3>4
      <4>2. ~root
        BY <3>1, <4>1 DEF root
      <4>3. \A r \in LinesOf(f, "document_root", 2) : ~(m < r /\ r < line)
        BY <1>1, <3>1, <3>2
      <4>4. Home(f, line)
        BY <4>1, <4>3 DEF Home
      <4>5. cwd = app_path
        BY <4>4 DEF AtLine
      <4> QED
        BY <1>3, <1>6, <4>2, <4>5
    <3> QED
      BY <3>3, <3>4
  <2> QED
    BY <2>1, <2>2 DEF AtLine
<1> QED
  BY <1>3, <1>5, <1>6

\* One line of CORE_load_configuration, and its end.
LEMMA SettingsCoreLine ==
  ASSUME SettingsInv, CoreLine
  PROVE  SettingsInv'
<1> DEFINE n == line - 1
           l == cfg_file[line]
<1>1. /\ pass = "core" /\ cfg_file \in ConfigFiles /\ cfg_file' = cfg_file
      /\ line \in 1 .. Len(cfg_file) + 1 /\ line <= Len(cfg_file)
      /\ SettingsType(config, listed) /\ Settings(config, cfg_file, n)
      /\ AtLine(cfg_file, line, cwd, listed) /\ cwd \in Places /\ \A name \in listed : Somewhere(name)
  BY DEF CoreLine, SettingsInv, LoadType
<1>2. n \in Nat /\ n + 1 = line /\ line \in DOMAIN cfg_file /\ line + 1 \in 1 .. Len(cfg_file) + 1
  BY <1>1, FileIs
<1>3. config' = IF Len(l) >= 2 THEN Assigned(config, l[1], l[2]) ELSE config
  BY DEF CoreLine
<1>4. SettingsType(config', listed') /\ Settings(config', cfg_file, line)
  <2>1. DOMAIN cfg_file \subseteq Nat \ {0}
    BY <1>1, FileIs
  <2>2. /\ listed \subseteq listed'
        /\ \A option \in SslOptions : Has(l, option, 2) /\ FileExists(l[2]) => l[2] \in listed'
    <3>1. CASE ~(Len(l) >= 2)
      BY <3>1 DEF CoreLine, Has
    <3>2. CASE Len(l) >= 2
      <4>1. listed' = listed \cup {name \in {l[2]} : l[1] \in SslOptions /\ FileExists(name)}
        BY <3>2 DEF CoreLine
      <4> QED
        BY <4>1 DEF Has
    <3> QED
      BY <3>1, <3>2
  <2> HIDE DEF n
  <2>3. cfg_file[n + 1] = l /\ n + 1 \in DOMAIN cfg_file
    BY <1>2
  <2> HIDE DEF l
  <2> QED
    BY <1>1, <1>2, <1>3, <2>1, <2>2, <2>3, SettingsNext
<1>5. \/ pass' \in {"exit", "crashed"} /\ line' = line
      \/ pass' = pass /\ line' = line + 1
  BY DEF CoreLine, ReadLine, DocumentRoot, Processor
<1>6. /\ cwd' \in Places /\ \A name \in listed' : Somewhere(name)
      /\ pass' = "core" => AtLine(cfg_file, line + 1, cwd', listed')
  BY <1>1, <1>2, CoreLinePlace
<1>7. LoadType'
  BY <1>1, <1>2, <1>4, <1>5, <1>6 DEF LoadType, Passes, Ended
<1>8. LastSettingWins'
  <2>1. pass' # "ready"
    BY <1>1, <1>5
  <2> QED
    BY <2>1, NotReady
<1>9. pass' = "core" => Settings(config', cfg_file', line' - 1) /\ AtLine(cfg_file', line', cwd', listed')
  <2>1. pass' = "core" => line' - 1 = line /\ line' = line + 1
    BY <1>1, <1>2, <1>5
  <2> QED
    BY <1>1, <1>4, <1>6, <2>1
<1> HIDE DEF n
<1> QED
  BY <1>1, <1>5, <1>7, <1>8, <1>9 DEF SettingsInv, Later

\* The end of CORE_load_configuration: TLS is on if port, certificate and key ask for it.
LEMMA SettingsCoreEnd ==
  ASSUME SettingsInv, CoreEnd
  PROVE  SettingsInv'
<1> DEFINE c == config
<1>1. /\ pass = "core" /\ cfg_file \in ConfigFiles /\ cfg_file' = cfg_file
      /\ line \in 1 .. Len(cfg_file) + 1 /\ line > Len(cfg_file)
      /\ SettingsType(config, listed) /\ Settings(config, cfg_file, line - 1)
      /\ pass' = "htaccess" /\ line' = 1
      /\ cwd' \in Places /\ listed' = listed /\ \A name \in listed' : Somewhere(name)
  BY DEF CoreEnd, NextLoader, SettingsInv, LoadType, places
<1>2. line - 1 = Len(cfg_file) /\ 1 \in 1 .. Len(cfg_file) + 1
  BY <1>1, FileIs
<1>3. Settings(config, cfg_file, Len(cfg_file))
  BY <1>1, <1>2
<1> DEFINE tls == c.active_port = 443 /\ c.ssl_cert_file # NULL /\ c.ssl_key_file # NULL
<1>4. config' = [c EXCEPT !.ssl_on = tls]
  BY DEF CoreEnd
<1>5. /\ DOMAIN c = Options /\ "ssl_on" \in Options
      /\ tls \in BOOLEAN
  BY <1>1 DEF SettingsType, Options
<1>6. /\ DOMAIN config' = Options /\ config'.ssl_on = tls
      /\ config'.active_port = c.active_port /\ config'.document_root = c.document_root
      /\ config'.connection_processor = c.connection_processor
      /\ config'.ssl_cert_file = c.ssl_cert_file /\ config'.ssl_key_file = c.ssl_key_file
      /\ config'.use_sendfile = c.use_sendfile
  <2> HIDE DEF tls, c
  <2> QED
    BY <1>4, <1>5 DEF Options
<1>7. SettingsType(config', listed')
  <2> HIDE DEF tls
  <2> QED
    BY <1>1, <1>5, <1>6 DEF SettingsType
<1>8. Settings(config', cfg_file', Len(cfg_file'))
  <2> HIDE DEF tls
  <2> QED
    BY <1>1, <1>3, <1>6 DEF Settings
<1>9. config'.ssl_on <=> Tls(config')
  BY <1>6, ZenonT(40) DEF Tls
<1>10. LoadType'
  BY <1>1, <1>2, <1>7 DEF LoadType, Passes
<1>11. LastSettingWins'
  <2>1. pass' # "ready"
    BY <1>1
  <2> QED
    BY <2>1, NotReady
<1> QED
  BY <1>1, <1>8, <1>9, <1>10, <1>11 DEF SettingsInv

\* What came of the last line is what LastSettings says of it.
LEMMA LastIsNamed ==
  ASSUME NEW option, NEW file, FromLast(cfg_file, LinesOf(cfg_file, option, 2), file)
  PROVE  NamedByLast(option, file)
<1> DEFINE f == cfg_file
           K == LinesOf(f, option, 2)
           k == Last(K)
<1>1. SslLines = SslOf(f)
  BY DEF SslLines, SslOf, Lines
<1>2. AtHome(k) <=> Home(f, k) /\ Fresh(f, k)
  BY <1>1, Zenon DEF AtHome, Home, Fresh, Lines
<1>3. CASE K = {}
  BY <1>3 DEF FromLast, NamedByLast, Lines
<1>4. CASE K # {}
  <2>1. FromLine(f, k, file)
    BY <1>4 DEF FromLast
  <2>2. /\ file \in {f[k][2], NULL}
        /\ file # NULL => \E p \in Places : <<p, f[k][2]>> \in Existing
        /\ AtHome(k) \/ Absolute(f[k][2]) => (file # NULL <=> <<app_path, f[k][2]>> \in Existing)
    BY <1>2, <2>1, Zenon DEF FromLine, Somewhere
  <2> QED
    BY <1>4, <2>2, Zenon DEF NamedByLast, Lines
<1> QED
  BY <1>3, <1>4

\* When all is read, the settings are those the lines ask for.
LEMMA SettingsStart ==
  ASSUME SettingsInv, Start
  PROVE  SettingsInv'
<1> DEFINE f == cfg_file
           L(option) == LinesOf(f, option, 2)
           port == Value(f, L("port_number"), -1)
           root == L("document_root")
           known == {k \in L("connection_processor") : f[k][2] \in Processors}
<1>1. /\ pass = "start" /\ f \in ConfigFiles /\ line \in 1 .. Len(f) + 1
      /\ SettingsType(config, listed) /\ Settings(config, f, Len(f))
      /\ config.ssl_on <=> Tls(config)
      /\ cfg_file' = f /\ line' = line /\ cwd' = cwd /\ listed' = listed
      /\ cwd \in Places /\ \A name \in listed : Somewhere(name)
  <2>1. pass = "start" /\ cfg_file' = f /\ line' = line /\ cwd' = cwd /\ listed' = listed
    BY Zenon DEF Start, places
  <2>2. pass \in Later
    BY <2>1 DEF Later
  <2> QED
    BY <2>1, <2>2, Zenon DEF SettingsInv, LoadType
<1>2. CASE config.document_root = NULL
  <2>1. pass' = "crashed" /\ config' = config
    BY <1>2, Zenon DEF Start
  <2>2. LastSettingWins'
    BY <2>1, NotReady
  <2>3. LoadType'
    BY <1>1, <2>1 DEF LoadType, Passes, Ended
  <2> QED
    BY <2>1, <2>2, <2>3 DEF SettingsInv, Later
<1>3. CASE config.document_root # NULL
  <2> DEFINE p == Port(config.active_port)
  <2>1. pass' = "ready" /\ config' = [config EXCEPT !.active_port = p]
    BY <1>3, Zenon DEF Start
  <2>2. DOMAIN config = Options
    BY <1>1 DEF SettingsType
  <2>3. /\ DOMAIN config' = Options
        /\ config'.active_port = p
        /\ config'.document_root = config.document_root
        /\ config'.connection_processor = config.connection_processor
        /\ config'.ssl_cert_file = config.ssl_cert_file /\ config'.ssl_key_file = config.ssl_key_file
        /\ config'.use_sendfile = config.use_sendfile /\ config'.ssl_on = config.ssl_on
    <3> HIDE DEF p
    <3> QED
      BY <2>1, <2>2 DEF Options
  <2>4. SettingsType(config', listed')
    BY <1>1, <2>3 DEF SettingsType
  <2>5. \A option : Upto(f, option, 2, Len(f)) = L(option)
    BY <1>1, UptoAll
  <2>6. Known(f, Len(f)) = known
    BY <2>5 DEF Known
  <2> HIDE DEF L, known
  <2>7. /\ config.active_port = port
        /\ config.document_root = Value(f, root, NULL)
        /\ config.connection_processor = Value(f, known, "epoll")
        /\ FromLast(f, L("ssl_certificate_file"), config.ssl_cert_file)
        /\ FromLast(f, L("ssl_key_file"), config.ssl_key_file)
        /\ config.use_sendfile <=> Value(f, L("use_sendfile"), "true") = "true"
    BY <1>1, <2>5, <2>6 DEF Settings
  <2>8. root # {}
    BY <1>3, <2>7 DEF Value
  <2>9. config.ssl_on <=> port = 443 /\ NULL \notin {config.ssl_cert_file, config.ssl_key_file}
    <3> HIDE DEF port, f
    <3> QED
      BY <1>1, <2>7 DEF Tls
  <2>10. LastSettings'
    <3>1. /\ config'.active_port = Port(port)
          /\ config'.connection_processor = Value(f, known, "epoll")
          /\ config'.ssl_on <=>
               port = 443 /\ NULL \notin {config'.ssl_cert_file, config'.ssl_key_file}
          /\ config'.use_sendfile <=> Value(f, L("use_sendfile"), "true") = "true"
          /\ root # {} /\ config'.document_root = Value(f, root, NULL)
      <4> HIDE DEF port, root
      <4> QED
        BY <2>3, <2>7, <2>8, <2>9
    <3>2. cfg_file' = cfg_file
      BY <1>1
    <3>3. /\ NamedByLast("ssl_certificate_file", config.ssl_cert_file)
          /\ NamedByLast("ssl_key_file", config.ssl_key_file)
      BY <2>7, LastIsNamed DEF L
    <3>4. /\ NamedByLast("ssl_certificate_file", config.ssl_cert_file)'
          /\ NamedByLast("ssl_key_file", config.ssl_key_file)'
      BY <2>3, <3>2, <3>3 DEF NamedByLast, AtHome, SslLines, Lines
    <3>5. /\ port = Value(cfg_file', Lines("port_number", 2)', -1)
          /\ known = {k \in Lines("connection_processor", 2)' : cfg_file'[k][2] \in Processors}
          /\ root = Lines("document_root", 2)' /\ f = cfg_file'
          /\ L("use_sendfile") = Lines("use_sendfile", 2)'
      BY <3>2 DEF Lines, known, L
    <3> HIDE DEF port, root, f
    <3> QED
      BY <3>1, <3>4, <3>5 DEF LastSettings
  <2>11. LastSettingWins'
    BY <2>10, Zenon DEF LastSettingWins
  <2>12. LoadType'
    BY <1>1, <2>1, <2>4 DEF LoadType, Passes, Ended
  <2> QED
    BY <2>1, <2>11, <2>12 DEF SettingsInv, Later
<1> QED
  BY <1>2, <1>3

\* A step that leaves settings and line alone keeps what is known of them.
LEMMA SettingsSame ==
  ASSUME SettingsInv, UNCHANGED <<cfg_file, config, places>>, line' = line,
         pass' = pass \/ pass' \in Gone
  PROVE  SettingsInv'
<1>1. /\ cfg_file' = cfg_file /\ config' = config /\ cwd' = cwd /\ listed' = listed
      /\ pass' # "ready" \/ pass' = pass
  BY DEF places, Gone
<1>2. LastSettingWins'
  <2>1. CASE pass' = "ready"
    <3>1. LastSettings
      BY <1>1, <2>1 DEF SettingsInv, LastSettingWins
    <3>2. LastSettings'
      BY <1>1, <3>1 DEF LastSettings, NamedByLast, AtHome, SslLines, Lines
    <3> QED
      BY <3>2, Zenon DEF LastSettingWins
  <2>2. CASE pass' # "ready"
    BY <2>2, NotReady
  <2> QED
    BY <2>1, <2>2
<1>3. LoadType'
  BY <1>1 DEF SettingsInv, LoadType, Passes, Ended, Gone
<1> QED
  BY <1>1, <1>2, <1>3 DEF SettingsInv, Later, Gone

\* Every step keeps the invariant of the settings.
LEMMA SettingsNextInv == SettingsInv /\ [Next]_vars => SettingsInv'
<1> SUFFICES ASSUME SettingsInv, [Next]_vars
             PROVE  SettingsInv'
  OBVIOUS
<1>0. Len(cfg_file) \in Nat /\ line \in 1 .. Len(cfg_file) + 1
  BY FileIs DEF SettingsInv, LoadType
<1>1. CASE Open
  BY <1>1, SettingsOpen
<1>2. CASE CoreLine
  BY <1>2, SettingsCoreLine
<1>3. CASE CoreEnd
  BY <1>3, SettingsCoreEnd
<1>4. CASE HtaccessLine
  <2>1. /\ pass \in Later /\ UNCHANGED <<cfg_file, config, places>>
        /\ line <= Len(cfg_file)
        /\ \/ pass' \in Later /\ line' = line + 1
           \/ pass' \in Gone /\ line' = line
    BY <1>4 DEF HtaccessLine, ReadLine, Later, Gone
  <2>2. line + 1 \in 1 .. Len(cfg_file) + 1
    BY <1>0, <2>1
  <2> QED
    BY <2>1, <2>2, SettingsStay, SettingsSame
<1>5. CASE HtaccessEnd
  <2>1. /\ pass \in Later /\ pass' \in Later /\ UNCHANGED <<cfg_file, config, places>> /\ line' = 1
    BY <1>5 DEF HtaccessEnd, NextLoader, Later
  <2>2. line' \in 1 .. Len(cfg_file) + 1
    BY <1>0, <2>1
  <2> QED
    BY <2>1, <2>2, SettingsStay
<1>6. CASE IndexLine
  <2>1. /\ pass \in Later /\ pass' \in Later /\ UNCHANGED <<cfg_file, config, places>>
        /\ line <= Len(cfg_file) /\ (line' = line + 1 \/ line' = 1)
    BY <1>6 DEF IndexLine, IndexLineWith, ReadLine, Later
  <2>2. line' \in 1 .. Len(cfg_file) + 1
    BY <1>0, <2>1
  <2> QED
    BY <2>1, <2>2, SettingsStay
<1>7. CASE IndexEnd
  <2>1. /\ pass \in Later /\ pass' \in Later /\ UNCHANGED <<cfg_file, config, places>> /\ line' = 1
    BY <1>7 DEF IndexEnd, NextLoader, Later
  <2>2. line' \in 1 .. Len(cfg_file) + 1
    BY <1>0, <2>1
  <2> QED
    BY <2>1, <2>2, SettingsStay
<1>8. CASE MimeLine
  <2>1. /\ pass \in Later /\ pass' \in Later /\ UNCHANGED <<cfg_file, config, places>>
        /\ line <= Len(cfg_file) /\ line' = line + 1
    BY <1>8 DEF MimeLine, MimeLineWith, ReadLine, Later
  <2>2. line' \in 1 .. Len(cfg_file) + 1
    BY <1>0, <2>1
  <2> QED
    BY <2>1, <2>2, SettingsStay
<1>9. CASE MimeEnd
  <2>1. /\ pass \in Later /\ pass' \in Later /\ UNCHANGED <<cfg_file, config, places>> /\ line' = 1
    BY <1>9 DEF MimeEnd, NextLoader, Later
  <2>2. line' \in 1 .. Len(cfg_file) + 1
    BY <1>0, <2>1
  <2> QED
    BY <2>1, <2>2, SettingsStay
<1>10. CASE Start
  BY <1>10, SettingsStart
<1>11. ASSUME NEW resource \in Resources, NEW text \in Texts \cup {NULL}, Request(resource, text)
       PROVE  SettingsInv'
  <2>1. /\ UNCHANGED <<cfg_file, config, places>> /\ line' = line /\ pass = "ready"
        /\ pass' = pass \/ pass' \in Gone
    BY <1>11 DEF Request, Gone
  <2> QED
    BY <2>1, SettingsSame
<1>12. CASE UNCHANGED vars
  <2>1. UNCHANGED <<cfg_file, config, places>> /\ line' = line /\ pass' = pass
    BY <1>12 DEF vars, places
  <2> QED
    BY <2>1, SettingsSame
<1>13. CASE CannotSave
  <2>1. UNCHANGED <<cfg_file, config, places>> /\ line' = line /\ pass' \in Gone
    BY <1>13, Zenon DEF CannotSave, Gone
  <2> QED
    BY <2>1, SettingsSame
<1> QED
  BY <1>1, <1>2, <1>3, <1>4, <1>5, <1>6, <1>7, <1>8, <1>9, <1>10, <1>11, <1>12, <1>13
     DEF Next, Load

-----------------------------------------------------------------------------
(* The tables as functions of the lines read so far. *)

\* What a line stands for in each table.
AccessEntries(f) == [k \in DOMAIN f |-> Entry(f[k])]
NameEntries(f) == [k \in DOMAIN f |-> f[k][2]]
TypeEntries(f) == [k \in DOMAIN f |-> [ext |-> f[k][2], mime_type |-> f[k][3]]]

\* How many lines each loader is done with; the break of the second counts as reading on.
AccessRead == IF pass \in {"open", "core"} THEN 0
              ELSE IF pass = "htaccess" THEN line - 1 ELSE Len(cfg_file)
NamesRead == IF pass \in {"open", "core", "htaccess"} THEN 0
             ELSE IF pass = "index" THEN line - 1 ELSE Len(cfg_file)
TypesRead == IF pass \in {"open", "core", "htaccess", "index"} THEN 0
             ELSE IF pass = "mime" THEN line - 1 ELSE Len(cfg_file)

AccessLines == Upto(cfg_file, "global_ht_access", 4, AccessRead)

AccessInv == /\ Holds(ht_access, AccessEntries(cfg_file), AccessLines, MaxHtAccess)
             /\ Cardinality(AccessLines) <= MaxHtAccess
NamesInv == Holds(index_file_list, NameEntries(cfg_file),
                  Upto(cfg_file, "site_index", 2, NamesRead), MaxIndexNames)
TypesInv == Holds(mime_types, TypeEntries(cfg_file),
                  Upto(cfg_file, "mime_type", 3, TypesRead), MaxMimeTypes)

Filled == AccessInv /\ NamesInv /\ TypesInv

Bounded == /\ Len(ht_access) <= MaxHtAccess
           /\ Len(index_file_list) <= MaxIndexNames
           /\ Len(mime_types) <= MaxMimeTypes

\* When the program is gone the tables are what they were.
TablesInv ==
  /\ Bounded
  /\ pass \notin Gone => Filled
  /\ pass = "overrun" => Cardinality(Lines("global_ht_access", 4)) > MaxHtAccess

\* One line more.
LEMMA EntryRead ==
  ASSUME NEW f \in ConfigFiles, NEW n \in Nat, n + 1 \in DOMAIN f, NEW option, NEW words,
         NEW entries, DOMAIN entries = DOMAIN f, NEW limit \in Nat, NEW table,
         Holds(table, entries, Upto(f, option, words, n), limit)
  PROVE  Holds(IF Has(f[n + 1], option, words) /\ Len(table) < limit
               THEN Append(table, entries[n + 1]) ELSE table,
               entries, Upto(f, option, words, n + 1), limit)
<1> DEFINE U == Upto(f, option, words, n)
           has == Has(f[n + 1], option, words)
           V == Upto(f, option, words, n + 1)
<1>1. /\ U \in SUBSET (1..n)
      /\ V = IF has THEN U \cup {n + 1} ELSE U
  BY FileIs, UptoNext
<1>2. U \subseteq DOMAIN entries
  BY DEF Upto, LinesOf
<1> HIDE DEF U, has, V
<1>3. CASE ~has
  BY <1>1, <1>3 DEF U, has, V
<1>4. CASE has /\ Len(table) < limit
  <2>1. Holds(table, entries, U, limit)
    BY DEF U
  <2>2. Holds(Append(table, entries[n + 1]), entries, U \cup {n + 1}, limit)
    BY <1>1, <1>2, <1>4, <2>1, HoldsMore
  <2>3. Holds(Append(table, entries[n + 1]), entries, V, limit)
    BY <1>1, <1>4, <2>2
  <2> QED
    BY <1>4, <2>3 DEF has, V
<1>5. CASE has /\ ~(Len(table) < limit)
  <2>1. U \in SUBSET V /\ \A k \in V : k \in U <=> k <= n
    <3>1. \A k \in U : k <= n
      BY <1>1
    <3>2. ~(n + 1 <= n)
      OBVIOUS
    <3> QED
      BY <1>1, <1>5, <3>1, <3>2
  <2>2. V \in SUBSET (1..n+1) /\ n + 1 \in Nat
    BY <1>1
  <2>3. Holds(table, entries, U, limit)
    BY DEF U
  <2>4. Holds(table, entries, V, limit)
    BY <1>5, <2>1, <2>2, <2>3, HoldsFull
  <2> QED
    BY <1>5, <2>4 DEF has, V
<1> QED
  BY <1>3, <1>4, <1>5

\* The other lines need not be read when the table is full.
LEMMA RestRead ==
  ASSUME NEW f \in ConfigFiles, NEW n \in Nat, n <= Len(f), NEW option, NEW words,
         NEW entries, NEW limit \in Nat, NEW table,
         Holds(table, entries, Upto(f, option, words, n), limit), ~(Len(table) < limit)
  PROVE  Holds(table, entries, Upto(f, option, words, Len(f)), limit)
<1> DEFINE U == Upto(f, option, words, n)
           V == Upto(f, option, words, Len(f))
<1>1. \A k \in LinesOf(f, option, words) : k \in 1..Len(f)
  BY FileIs DEF LinesOf
<1>2. V \in SUBSET (1..Len(f)) /\ Len(f) \in Nat
  BY <1>1, FileIs DEF Upto
<1>3. U \in SUBSET V /\ \A k \in V : k \in U <=> k <= n
  <2>1. Len(f) \in Nat /\ \A k \in LinesOf(f, option, words) : k <= n => k <= Len(f)
    BY <1>1, FileIs
  <2> QED
    BY <2>1 DEF Upto
<1>4. Holds(table, entries, U, limit)
  OBVIOUS
<1> HIDE DEF U
<1> HIDE DEF V
<1>5. Holds(table, entries, V, limit)
  BY <1>2, <1>3, <1>4, HoldsFull
<1> QED
  BY <1>5 DEF V

\* The tables are empty before the file is open.
LEMMA TablesInit == Init => TablesInv
<1> SUFFICES ASSUME Init
             PROVE  TablesInv
  OBVIOUS
<1>1. cfg_file \in ConfigFiles /\ pass = "open"
  BY DEF Init
<1>2. ht_access = <<>> /\ index_file_list = <<>> /\ mime_types = <<>>
  BY DEF Init
<1>3. AccessRead = 0 /\ NamesRead = 0 /\ TypesRead = 0
  BY <1>1 DEF AccessRead, NamesRead, TypesRead
<1>4. \A option, words : Upto(cfg_file, option, words, 0) = {}
  BY <1>1, UptoNone
<1>5. AccessInv
  <2>1. AccessLines = {} /\ Cardinality({}) = 0
    BY <1>3, <1>4, FS_EmptySet DEF AccessLines
  <2>2. Holds(ht_access, AccessEntries(cfg_file), AccessLines, MaxHtAccess)
    BY <1>2, <2>1, LimitsAssumption, HoldsNone
  <2> QED
    BY <2>1, <2>2, LimitsAssumption DEF AccessInv
<1>6. NamesInv
  BY <1>2, <1>3, <1>4, LimitsAssumption, HoldsNone DEF NamesInv
<1>7. TypesInv
  BY <1>2, <1>3, <1>4, LimitsAssumption, HoldsNone DEF TypesInv
<1>8. Bounded
  BY <1>2, LimitsAssumption DEF Bounded
<1> QED
  BY <1>1, <1>5, <1>6, <1>7, <1>8 DEF TablesInv, Filled

\* A table that holds lines has no more entries than there is room for.
LEMMA FilledBounded == cfg_file \in ConfigFiles /\ Filled => Bounded
<1> SUFFICES ASSUME cfg_file \in ConfigFiles, Filled
             PROVE  Bounded
  OBVIOUS
<1>1. ASSUME NEW option, NEW words, NEW n
      PROVE  Cardinality(Upto(cfg_file, option, words, n)) \in Nat
  <2>1. Upto(cfg_file, option, words, n) \in SUBSET (1..Len(cfg_file)) /\ Len(cfg_file) \in Nat
    BY FileIs DEF Upto, LinesOf
  <2> QED
    BY <2>1, Countable
<1>2. ASSUME NEW table, NEW entries, NEW option, NEW words, NEW n, NEW limit \in Nat,
             Holds(table, entries, Upto(cfg_file, option, words, n), limit)
      PROVE  Len(table) <= limit
  BY <1>1, <1>2 DEF Holds
<1> QED
  BY <1>2, LimitsAssumption DEF Filled, AccessInv, AccessLines, NamesInv, TypesInv, Bounded

\* A table is left alone, and its loader has not read on.
LEMMA AccessSame ==
  ASSUME AccessInv, cfg_file' = cfg_file, ht_access' = ht_access, AccessRead' = AccessRead
  PROVE  AccessInv'
BY Zenon DEF AccessInv, AccessLines

\* A step of another loader leaves the index names alone.
LEMMA NamesSame ==
  ASSUME NamesInv, cfg_file' = cfg_file, index_file_list' = index_file_list,
         NamesRead' = NamesRead
  PROVE  NamesInv'
BY Zenon DEF NamesInv

\* A step of another loader leaves the content types alone.
LEMMA TypesSame ==
  ASSUME TypesInv, cfg_file' = cfg_file, mime_types' = mime_types, TypesRead' = TypesRead
  PROVE  TypesInv'
BY Zenon DEF TypesInv

\* The access lines read so far and one more are one more.
LEMMA AccessMore ==
  ASSUME NEW f \in ConfigFiles, NEW n \in Nat, n + 1 \in DOMAIN f,
         Has(f[n + 1], "global_ht_access", 4)
  PROVE  /\ Cardinality(Upto(f, "global_ht_access", 4, n)) \in Nat
         /\ Cardinality(Upto(f, "global_ht_access", 4, n + 1)) =
              Cardinality(Upto(f, "global_ht_access", 4, n)) + 1
         /\ Cardinality(LinesOf(f, "global_ht_access", 4))
              >= Cardinality(Upto(f, "global_ht_access", 4, n)) + 1
<1> DEFINE L == LinesOf(f, "global_ht_access", 4)
           U == Upto(f, "global_ht_access", 4, n)
           V == Upto(f, "global_ht_access", 4, n + 1)
<1>1. U \in SUBSET (1..n) /\ V = U \cup {n + 1}
  BY FileIs, UptoNext
<1>2. n + 1 \in L /\ U \subseteq L /\ L \in SUBSET (1..Len(f)) /\ Len(f) \in Nat
  BY FileIs DEF LinesOf, Upto
<1> HIDE DEF L, U, V
<1>3. /\ IsFiniteSet(L) /\ Cardinality(L) \in Nat /\ IsFiniteSet(U) /\ Cardinality(U) \in Nat
  BY <1>1, <1>2, Countable
<1>4. Cardinality(U \cup {n + 1}) = Cardinality(U) + 1
  BY <1>1, PlaceAdded
<1>5. Cardinality(U \cup {n + 1}) <= Cardinality(L)
  <2>1. U \cup {n + 1} \in SUBSET L
    BY <1>2
  <2> QED
    BY <1>3, <2>1, FS_Subset
<1>6. Cardinality(V) = Cardinality(U) + 1 /\ Cardinality(L) >= Cardinality(U) + 1
  BY <1>1, <1>3, <1>4, <1>5
<1> QED
  BY <1>3, <1>6 DEF L, U, V

\* One line of HTACCESS_load_configuration: it is read, or there is no room.
LEMMA AccessNext ==
  ASSUME LoadType, AccessInv, HtaccessLine
  PROVE  /\ pass' = "htaccess" => AccessInv'
         /\ pass' # "htaccess" =>
              /\ pass' = "overrun" /\ ht_access' = ht_access
              /\ Cardinality(Lines("global_ht_access", 4)) > MaxHtAccess
<1> DEFINE f == cfg_file
           n == line - 1
           e == AccessEntries(f)
           has == Has(f[line], "global_ht_access", 4)
           U == Upto(f, "global_ht_access", 4, n)
           c == Cardinality(U)
<1>1. /\ f \in ConfigFiles /\ pass = "htaccess" /\ cfg_file' = f
      /\ line <= Len(f) /\ line \in 1 .. Len(f) + 1
  BY DEF HtaccessLine, LoadType
<1>2. n \in Nat /\ n + 1 = line /\ line \in DOMAIN f /\ (line + 1) - 1 = line
  BY <1>1, FileIs
<1>3. AccessRead = n
  BY <1>1 DEF AccessRead
<1>4. Holds(ht_access, e, U, MaxHtAccess) /\ c <= MaxHtAccess
  BY <1>3 DEF AccessInv, AccessLines
<1>5. e[line] = Entry(f[line]) /\ DOMAIN e = DOMAIN f
  BY <1>2 DEF AccessEntries
<1>6. has =>
        /\ c \in Nat
        /\ Cardinality(Upto(f, "global_ht_access", 4, line)) = c + 1
        /\ Cardinality(LinesOf(f, "global_ht_access", 4)) >= c + 1
  <2> HIDE DEF f, n
  <2> QED
    BY <1>1, <1>2, AccessMore
<1>7. c \in Nat => Len(ht_access) = c
  BY <1>4, LimitsAssumption DEF Holds
<1>8. CASE has /\ Len(ht_access) = MaxHtAccess
  <2>1. pass' = "overrun" /\ ht_access' = ht_access
    BY <1>8 DEF HtaccessLine
  <2>2. Cardinality(LinesOf(f, "global_ht_access", 4)) > MaxHtAccess
    <3>1. IsFiniteSet(LinesOf(f, "global_ht_access", 4))
          /\ Cardinality(LinesOf(f, "global_ht_access", 4)) \in Nat
      <4>1. LinesOf(f, "global_ht_access", 4) \in SUBSET (1..Len(f)) /\ Len(f) \in Nat
        BY <1>1, FileIs DEF LinesOf
      <4> QED
        BY <4>1, Countable
    <3> HIDE DEF c
    <3> QED
      BY <1>6, <1>7, <1>8, <3>1, LimitsAssumption
  <2> QED
    BY <2>1, <2>2 DEF Lines
<1>9. CASE ~(has /\ Len(ht_access) = MaxHtAccess)
  <2>1. /\ pass' = "htaccess" /\ line' = line + 1
        /\ ht_access' = IF has THEN Append(ht_access, Entry(f[line])) ELSE ht_access
    BY <1>1, <1>9 DEF HtaccessLine, ReadLine
  <2>2. AccessRead' = line /\ AccessLines' = Upto(f, "global_ht_access", 4, line)
    BY <1>1, <1>2, <2>1 DEF AccessRead, AccessLines
  <2>3. has => Len(ht_access) < MaxHtAccess /\ c + 1 <= MaxHtAccess
    <3> HIDE DEF c
    <3> QED
      BY <1>4, <1>6, <1>7, <1>9, LimitsAssumption
  <2>4. Cardinality(Upto(f, "global_ht_access", 4, line)) <= MaxHtAccess
    <3>1. CASE has
      BY <1>6, <2>3, <3>1
    <3>2. CASE ~has
      <4>1. Upto(f, "global_ht_access", 4, n + 1) = U
        BY <1>1, <1>2, <3>2, FileIs, UptoNext
      <4> QED
        BY <1>2, <1>4, <4>1
    <3> QED
      BY <3>1, <3>2
  <2> HIDE DEF n, e, has, f, U, c
  <2>5. Holds(IF Has(f[n + 1], "global_ht_access", 4) /\ Len(ht_access) < MaxHtAccess
              THEN Append(ht_access, e[n + 1]) ELSE ht_access,
              e, Upto(f, "global_ht_access", 4, n + 1), MaxHtAccess)
    <3>1. n + 1 \in DOMAIN f /\ DOMAIN e = DOMAIN f
      BY <1>2, <1>5
    <3>2. Holds(ht_access, e, Upto(f, "global_ht_access", 4, n), MaxHtAccess)
      BY <1>4 DEF U
    <3> QED
      BY <1>1, <1>2, <3>1, <3>2, LimitsAssumption, EntryRead
  <2>6. Holds(IF has /\ Len(ht_access) < MaxHtAccess THEN Append(ht_access, e[line])
              ELSE ht_access,
              e, Upto(f, "global_ht_access", 4, line), MaxHtAccess)
    BY <1>2, <2>5, Zenon DEF has
  <2>7. Holds(ht_access', e, Upto(f, "global_ht_access", 4, line), MaxHtAccess)
    <3>1. CASE has
      BY <1>5, <2>1, <2>3, <2>6, <3>1
    <3>2. CASE ~has
      BY <2>1, <2>6, <3>2
    <3> QED
      BY <3>1, <3>2
  <2>8. AccessInv'
    BY <1>1, <2>2, <2>4, <2>7, Zenon DEF AccessInv, e, f
  <2> QED
    BY <2>1, <2>8
<1> QED
  BY <1>8, <1>9

\* One line of CORE_load_index_names, the line that ends the loop included: the
\* table is full then, and the lines that are not read would not matter.
LEMMA NamesNext ==
  ASSUME LoadType, NamesInv, IndexLine
  PROVE  NamesInv'
<1> DEFINE f == cfg_file
           n == line - 1
           e == NameEntries(f)
           has == Has(f[line], "site_index", 2)
<1>1. /\ f \in ConfigFiles /\ pass = "index" /\ cfg_file' = f /\ line <= Len(f)
      /\ line \in 1 .. Len(f) + 1
  BY DEF IndexLine, IndexLineWith, LoadType
<1>2. n \in Nat /\ n + 1 = line /\ line \in DOMAIN f /\ (line + 1) - 1 = line
  BY <1>1, FileIs
<1>3. NamesRead = n
  BY <1>1 DEF NamesRead
<1>4. Holds(index_file_list, e, Upto(f, "site_index", 2, n), MaxIndexNames)
  BY <1>3 DEF NamesInv
<1>5. e[line] = f[line][2] /\ DOMAIN e = DOMAIN f
  BY <1>2 DEF NameEntries
<1>6. Len(index_file_list) \in Nat /\ Len(index_file_list) <= MaxIndexNames
  <2>1. \A k \in Upto(f, "site_index", 2, n) : k \in 1..Len(f)
    BY <1>1, FileIs DEF Upto, LinesOf
  <2>2. Cardinality(Upto(f, "site_index", 2, n)) \in Nat
    BY <1>1, <2>1, FileIs, Countable
  <2> QED
    BY <1>4, <2>2, LimitsAssumption DEF Holds
<1> HIDE DEF n, e
<1>7. CASE has /\ Len(index_file_list) = MaxIndexNames
  <2>1. pass' = "mime" /\ index_file_list' = index_file_list
    BY <1>7 DEF IndexLine, IndexLineWith
  <2>2. ~(Len(index_file_list) < MaxIndexNames) /\ n <= Len(f)
    BY <1>1, <1>2, <1>6, <1>7, LimitsAssumption, FileIs
  <2>3. Holds(index_file_list, e, Upto(f, "site_index", 2, Len(f)), MaxIndexNames)
    BY <1>1, <1>2, <1>4, <2>2, LimitsAssumption, RestRead
  <2>4. NamesRead' = Len(f)
    BY <1>1, <2>1 DEF NamesRead
  <2> QED
    BY <1>1, <2>1, <2>3, <2>4, Zenon DEF NamesInv, e
<1>8. CASE ~(has /\ Len(index_file_list) = MaxIndexNames)
  <2>1. /\ pass' = "index" /\ line' = line + 1
        /\ index_file_list' = IF has /\ Len(index_file_list) < MaxIndexNames
                              THEN Append(index_file_list, e[line]) ELSE index_file_list
    <3>1. Len(index_file_list) # MaxIndexNames => Len(index_file_list) < MaxIndexNames
      BY <1>6, LimitsAssumption
    <3>2. CASE ~has
      BY <1>1, <3>2 DEF IndexLine, IndexLineWith, ReadLine
    <3>3. CASE has /\ Len(index_file_list) # MaxIndexNames
      BY <1>1, <1>5, <3>1, <3>3 DEF IndexLine, IndexLineWith, ReadLine
    <3> QED
      BY <1>8, <3>2, <3>3
  <2>2. Holds(IF Has(f[n + 1], "site_index", 2) /\ Len(index_file_list) < MaxIndexNames
              THEN Append(index_file_list, e[n + 1]) ELSE index_file_list,
              e, Upto(f, "site_index", 2, n + 1), MaxIndexNames)
    BY <1>1, <1>2, <1>4, <1>5, LimitsAssumption, EntryRead
  <2>3. NamesRead' = line
    BY <1>1, <1>2, <2>1 DEF NamesRead
  <2> HIDE DEF has
  <2>4. Holds(index_file_list', e, Upto(f, "site_index", 2, line), MaxIndexNames)
    BY <1>2, <2>1, <2>2, Zenon DEF has
  <2> QED
    BY <1>1, <2>3, <2>4, Zenon DEF NamesInv, e
<1> QED
  BY <1>7, <1>8

\* One line of MIME_load_configuration, which reads over what there is no room for.
LEMMA TypesNext ==
  ASSUME LoadType, TypesInv, MimeLine
  PROVE  TypesInv'
<1> DEFINE f == cfg_file
           n == line - 1
           e == TypeEntries(f)
           has == Has(f[line], "mime_type", 3)
<1>1. /\ f \in ConfigFiles /\ pass = "mime" /\ pass' = "mime" /\ cfg_file' = f
      /\ line <= Len(f) /\ line' = line + 1 /\ line \in 1 .. Len(f) + 1
  BY DEF MimeLine, MimeLineWith, ReadLine, LoadType
<1>2. n \in Nat /\ n + 1 = line /\ line \in DOMAIN f /\ (line + 1) - 1 = line
  BY <1>1, FileIs
<1>3. TypesRead = n /\ TypesRead' = line
  BY <1>1, <1>2 DEF TypesRead
<1>4. Holds(mime_types, e, Upto(f, "mime_type", 3, n), MaxMimeTypes)
  BY <1>3 DEF TypesInv
<1>5. e[line] = [ext |-> f[line][2], mime_type |-> f[line][3]] /\ DOMAIN e = DOMAIN f
  BY <1>2 DEF TypeEntries
<1>6. mime_types' = IF has /\ Len(mime_types) < MaxMimeTypes
                    THEN Append(mime_types, e[line]) ELSE mime_types
  BY <1>5 DEF MimeLine, MimeLineWith
<1> HIDE DEF n, e, has
<1>7. Holds(IF Has(f[n + 1], "mime_type", 3) /\ Len(mime_types) < MaxMimeTypes
            THEN Append(mime_types, e[n + 1]) ELSE mime_types,
            e, Upto(f, "mime_type", 3, n + 1), MaxMimeTypes)
  BY <1>1, <1>2, <1>4, <1>5, LimitsAssumption, EntryRead
<1>8. Holds(mime_types', e, Upto(f, "mime_type", 3, line), MaxMimeTypes)
  BY <1>2, <1>6, <1>7, Zenon DEF has
<1> QED
  BY <1>1, <1>3, <1>8, Zenon DEF TypesInv, e

\* An action of a pass fills that loader's table only.
LEMMA FilledNext ==
  ASSUME LoadType, Filled, [Next]_vars, pass' \notin Gone
  PROVE  Filled'
<1> DEFINE a == ht_access' = ht_access /\ AccessRead' = AccessRead
           b == index_file_list' = index_file_list /\ NamesRead' = NamesRead
           c == mime_types' = mime_types /\ TypesRead' = TypesRead
<1>1. Len(cfg_file) \in Nat /\ line \in 1 .. Len(cfg_file) + 1
  BY FileIs DEF LoadType
<1>2. AccessInv /\ NamesInv /\ TypesInv
  BY DEF Filled
<1>3. ASSUME cfg_file' = cfg_file, a, b, c
      PROVE  Filled'
  BY <1>2, <1>3, AccessSame, NamesSame, TypesSame DEF Filled
<1>4. CASE Open
  <2>1. cfg_file' = cfg_file /\ UNCHANGED tables /\ pass = "open" /\ pass' = "core"
    BY <1>4 DEF Open, Gone
  <2>2. a /\ b /\ c
    BY <2>1 DEF tables, AccessRead, NamesRead, TypesRead
  <2> QED
    BY <1>3, <2>1, <2>2
<1>5. CASE CoreLine
  <2>1. cfg_file' = cfg_file /\ UNCHANGED tables /\ pass = "core" /\ pass' = "core"
    BY <1>5 DEF CoreLine, ReadLine, DocumentRoot, Processor, Gone
  <2>2. a /\ b /\ c
    BY <2>1 DEF tables, AccessRead, NamesRead, TypesRead
  <2> QED
    BY <1>3, <2>1, <2>2
<1>6. CASE CoreEnd
  <2>1. /\ cfg_file' = cfg_file /\ UNCHANGED tables /\ pass = "core" /\ pass' = "htaccess"
        /\ line' = 1
    BY <1>6 DEF CoreEnd, NextLoader
  <2>2. a /\ b /\ c
    BY <2>1 DEF tables, AccessRead, NamesRead, TypesRead
  <2> QED
    BY <1>3, <2>1, <2>2
<1>7. CASE HtaccessLine
  <2>1. /\ cfg_file' = cfg_file /\ index_file_list' = index_file_list /\ mime_types' = mime_types
        /\ pass = "htaccess" /\ pass' = "htaccess"
    BY <1>7 DEF HtaccessLine, ReadLine, Gone
  <2>2. b /\ c
    BY <2>1 DEF NamesRead, TypesRead
  <2> QED
    BY <1>2, <1>7, <2>1, <2>2, AccessNext, NamesSame, TypesSame DEF Filled
<1>8. CASE HtaccessEnd
  <2>1. /\ cfg_file' = cfg_file /\ UNCHANGED tables /\ pass = "htaccess" /\ pass' = "index"
        /\ line' = 1 /\ line > Len(cfg_file)
    BY <1>8 DEF HtaccessEnd, NextLoader
  <2>2. line - 1 = Len(cfg_file)
    BY <1>1, <2>1
  <2>3. a /\ b /\ c
    BY <2>1, <2>2 DEF tables, AccessRead, NamesRead, TypesRead
  <2> QED
    BY <1>3, <2>1, <2>3
<1>9. CASE IndexLine
  <2>1. /\ cfg_file' = cfg_file /\ ht_access' = ht_access /\ mime_types' = mime_types
        /\ pass = "index" /\ (pass' = "index" \/ (pass' = "mime" /\ line' = 1))
    BY <1>9 DEF IndexLine, IndexLineWith, ReadLine
  <2>2. a /\ c
    BY <2>1 DEF AccessRead, TypesRead
  <2> QED
    BY <1>2, <1>9, <2>1, <2>2, NamesNext, AccessSame, TypesSame DEF Filled
<1>10. CASE IndexEnd
  <2>1. /\ cfg_file' = cfg_file /\ UNCHANGED tables /\ pass = "index" /\ pass' = "mime"
        /\ line' = 1 /\ line > Len(cfg_file)
    BY <1>10 DEF IndexEnd, NextLoader
  <2>2. line - 1 = Len(cfg_file)
    BY <1>1, <2>1
  <2>3. a /\ b /\ c
    BY <2>1, <2>2 DEF tables, AccessRead, NamesRead, TypesRead
  <2> QED
    BY <1>3, <2>1, <2>3
<1>11. CASE MimeLine
  <2>1. /\ cfg_file' = cfg_file /\ ht_access' = ht_access /\ index_file_list' = index_file_list
        /\ pass = "mime" /\ pass' = "mime"
    BY <1>11 DEF MimeLine, MimeLineWith, ReadLine
  <2>2. a /\ b
    BY <2>1 DEF AccessRead, NamesRead
  <2> QED
    BY <1>2, <1>11, <2>1, <2>2, TypesNext, AccessSame, NamesSame DEF Filled
<1>12. CASE MimeEnd
  <2>1. /\ cfg_file' = cfg_file /\ UNCHANGED tables /\ pass = "mime" /\ pass' = "start"
        /\ line' = 1 /\ line > Len(cfg_file)
    BY <1>12 DEF MimeEnd, NextLoader
  <2>2. line - 1 = Len(cfg_file)
    BY <1>1, <2>1
  <2>3. a /\ b /\ c
    BY <2>1, <2>2 DEF tables, AccessRead, NamesRead, TypesRead
  <2> QED
    BY <1>3, <2>1, <2>3
<1>13. CASE Start
  <2>1. /\ cfg_file' = cfg_file /\ UNCHANGED tables
        /\ pass = "start" /\ pass' = "ready"
    BY <1>13 DEF Start, Gone
  <2>2. a /\ b /\ c
    BY <2>1 DEF tables, AccessRead, NamesRead, TypesRead
  <2> QED
    BY <1>3, <2>1, <2>2
<1>14. ASSUME NEW resource \in Resources, NEW text \in Texts \cup {NULL}, Request(resource, text)
       PROVE  Filled'
  <2>1. /\ cfg_file' = cfg_file /\ UNCHANGED tables /\ pass = "ready"
        /\ pass' = "ready"
    BY <1>14 DEF Request, Gone
  <2>2. a /\ b /\ c
    BY <2>1 DEF tables, AccessRead, NamesRead, TypesRead
  <2> QED
    BY <1>3, <2>1, <2>2
<1>15. CASE UNCHANGED vars
  <2>1. cfg_file' = cfg_file /\ UNCHANGED tables /\ pass' = pass /\ line' = line
    BY <1>15 DEF vars, tables
  <2>2. a /\ b /\ c
    BY <2>1 DEF tables, AccessRead, NamesRead, TypesRead
  <2> QED
    BY <1>3, <2>1, <2>2
<1>16. CASE CannotSave
  BY <1>16 DEF CannotSave, Gone
<1> QED
  BY <1>4, <1>5, <1>6, <1>7, <1>8, <1>9, <1>10, <1>11, <1>12, <1>13, <1>14, <1>15, <1>16
     DEF Next, Load

\* What ends the program leaves the tables alone, and only one access line more than
\* there is room for overruns them.
LEMMA GoneNext ==
  ASSUME LoadType, pass \notin Gone => AccessInv, [Next]_vars, pass' \in Gone
  PROVE  /\ UNCHANGED tables
         /\ pass' = "overrun" /\ pass # "overrun" =>
              Cardinality(Lines("global_ht_access", 4)) > MaxHtAccess
         /\ cfg_file' = cfg_file
<1>1. CASE HtaccessLine
  <2>1. /\ pass = "htaccess" /\ pass' # "htaccess" /\ cfg_file' = cfg_file
        /\ index_file_list' = index_file_list /\ mime_types' = mime_types
    BY <1>1 DEF HtaccessLine, Gone
  <2>2. AccessInv
    BY <2>1 DEF Gone
  <2> QED
    BY <1>1, <2>1, <2>2, AccessNext DEF tables
<1>2. CASE Open \/ CoreLine \/ CannotSave \/ Start
  BY <1>2 DEF Open, CoreLine, DocumentRoot, Processor, ReadLine, CannotSave, Start, tables, Gone
<1>3. CASE CoreEnd \/ HtaccessEnd \/ IndexEnd \/ MimeEnd
  BY <1>3 DEF CoreEnd, HtaccessEnd, IndexEnd, MimeEnd, NextLoader, Gone
<1>4. CASE IndexLine \/ MimeLine
  BY <1>4 DEF IndexLine, IndexLineWith, MimeLine, MimeLineWith, ReadLine, Gone
<1>5. ASSUME NEW resource \in Resources, NEW text \in Texts \cup {NULL}, Request(resource, text)
      PROVE  UNCHANGED <<cfg_file, tables>> /\ pass' # "overrun"
  BY <1>5 DEF Request, tables
<1>6. CASE UNCHANGED vars
  BY <1>6 DEF vars, tables
<1> QED
  BY <1>1, <1>2, <1>3, <1>4, <1>5, <1>6 DEF Next, Load

\* Once the program is gone it stays gone.
LEMMA GoneStays ==
  ASSUME pass \in Gone, [Next]_vars
  PROVE  pass' = pass
<1>1. ~Next
  BY DEF Next, Load, Open, CoreLine, CannotSave, CoreEnd, HtaccessLine, HtaccessEnd, IndexLine,
         IndexLineWith, IndexEnd, MimeLine, MimeLineWith, MimeEnd, Start, Request, Gone
<1> QED
  BY <1>1 DEF vars

\* Every step keeps what is known of the tables.
LEMMA TablesNext == LoadType /\ LoadType' /\ TablesInv /\ [Next]_vars => TablesInv'
<1> SUFFICES ASSUME LoadType, LoadType', TablesInv, [Next]_vars
             PROVE  TablesInv'
  OBVIOUS
<1>1. CASE pass' \notin Gone
  <2>1. pass \notin Gone
    BY <1>1, GoneStays
  <2>2. Filled'
    BY <1>1, <2>1, FilledNext DEF TablesInv
  <2>3. Bounded'
    <3>1. (cfg_file \in ConfigFiles /\ Filled => Bounded)'
      BY FilledBounded, PTL
    <3> QED
      BY <2>2, <3>1 DEF LoadType
  <2> QED
    BY <1>1, <2>2, <2>3 DEF TablesInv, Gone
<1>2. CASE pass' \in Gone
  <2>1. /\ UNCHANGED tables /\ cfg_file' = cfg_file
        /\ pass' = "overrun" /\ pass # "overrun" =>
             Cardinality(Lines("global_ht_access", 4)) > MaxHtAccess
    BY <1>2, GoneNext DEF TablesInv, Filled
  <2>2. Bounded'
    BY <2>1 DEF TablesInv, Bounded, tables
  <2>3. (pass = "overrun" => Cardinality(Lines("global_ht_access", 4)) > MaxHtAccess)'
    BY <2>1 DEF TablesInv, Lines
  <2> QED
    BY <1>2, <2>2, <2>3 DEF TablesInv
<1> QED
  BY <1>1, <1>2

-----------------------------------------------------------------------------
(* The request. *)

\* The characters of "login:password".
LEMMA CredentialsAre ==
  ASSUME NEW login \in Seq(Byte), NEW password \in Seq(Byte)
  PROVE  /\ Credentials(login, password) \in Seq(Byte)
         /\ Len(Credentials(login, password)) = Len(login) + 1 + Len(password)
         /\ \A k \in 1..Len(login) : Credentials(login, password)[k] = login[k]
         /\ Credentials(login, password)[Len(login) + 1] = 58
         /\ \A k \in 1..Len(password) :
              Credentials(login, password)[Len(login) + 1 + k] = password[k]
<1> DEFINE colon == <<58>>
           a == login \o colon
           b == a \o password
           n == Len(login)
           m == Len(password)
<1>1. colon \in Seq(Byte) /\ Len(colon) = 1 /\ colon[1] = 58
  BY DEF Byte
<1> HIDE DEF colon
<1>2. n \in Nat /\ m \in Nat
  OBVIOUS
<1>3. /\ a \in Seq(Byte) /\ Len(a) = n + 1
      /\ \A i \in 1 .. n + 1 : a[i] = IF i <= n THEN login[i] ELSE colon[i - n]
  BY <1>1, ConcatProperties
<1> HIDE DEF a
<1>4. /\ b \in Seq(Byte) /\ Len(b) = n + 1 + m
      /\ \A i \in 1 .. n + 1 + m : b[i] = IF i <= n + 1 THEN a[i] ELSE password[i - (n + 1)]
  <2>1. a \in Seq(Byte)
    BY <1>3
  <2>2. /\ b \in Seq(Byte) /\ Len(b) = Len(a) + m
        /\ \A i \in 1 .. Len(a) + m : b[i] = IF i <= Len(a) THEN a[i] ELSE password[i - Len(a)]
    BY <2>1, ConcatProperties
  <2> HIDE DEF b, m, n
  <2> QED
    BY <1>3, <2>2
<1>5. b = Credentials(login, password)
  BY DEF a, b, colon, Credentials
<1> HIDE DEF b
<1>6. \A k \in 1..n : b[k] = login[k]
  <2>1. \A k \in 1..n : k \in 1 .. n + 1 + m /\ k \in 1 .. n + 1 /\ k <= n /\ k <= n + 1
    BY <1>2
  <2> QED
    BY <1>3, <1>4, <2>1
<1>7. b[n + 1] = 58
  <2>1. n + 1 \in 1 .. n + 1 + m /\ n + 1 \in 1 .. n + 1 /\ ~(n + 1 <= n) /\ n + 1 <= n + 1
        /\ (n + 1) - n = 1
    BY <1>2
  <2> QED
    BY <1>1, <1>3, <1>4, <2>1
<1>8. \A k \in 1..m : b[n + 1 + k] = password[k]
  <2>1. \A k \in 1..m : /\ n + 1 + k \in 1 .. n + 1 + m /\ ~(n + 1 + k <= n + 1)
                        /\ (n + 1 + k) - (n + 1) = k
    BY <1>2
  <2> QED
    BY <1>4, <2>1
<1> HIDE DEF n, m
<1> QED
  BY <1>4, <1>5, <1>6, <1>7, <1>8 DEF n, m

\* What file_params requires is the text of the first access line for the file.
LEMMA RequiredIs ==
  ASSUME cfg_file \in ConfigFiles, NEW resource,
         Holds(ht_access, AccessEntries(cfg_file), Lines("global_ht_access", 4), MaxHtAccess),
         Cardinality(Lines("global_ht_access", 4)) <= MaxHtAccess
  PROVE  LET mine == {k \in Lines("global_ht_access", 4) : cfg_file[k][2] = resource}
             entry == cfg_file[First(mine)]
         IN /\ mine = {} => Required(resource) = NULL
            /\ mine # {} => /\ First(mine) \in Lines("global_ht_access", 4)
                            /\ Required(resource) = base64_encode(Credentials(entry[3], entry[4]))
<1> DEFINE L == Lines("global_ht_access", 4)
           mine == {k \in L : cfg_file[k][2] = resource}
           e == AccessEntries(cfg_file)
           hits == {j \in DOMAIN ht_access : ht_access[j].res_filename = resource}
           c == Cardinality(L)
           p(k) == Place(k, L)
<1>1. L \in SUBSET (1..Len(cfg_file)) /\ Len(cfg_file) \in Nat /\ L \subseteq DOMAIN cfg_file
  BY FileIs DEF Lines, LinesOf
<1>2. c \in Nat /\ c <= MaxHtAccess
  <2>1. c <= MaxHtAccess
    OBVIOUS
  <2> HIDE DEF L
  <2> QED
    BY <1>1, <2>1, Countable
<1>3. ASSUME NEW k \in L
      PROVE  /\ e[k].res_filename = cfg_file[k][2]
             /\ e[k].res_auth = base64_encode(Credentials(cfg_file[k][3], cfg_file[k][4]))
  <2>1. k \in DOMAIN cfg_file
    BY <1>1
  <2> QED
    BY <2>1 DEF AccessEntries, Entry
<1>4. Holds(ht_access, e, L, MaxHtAccess)
  OBVIOUS
<1> HIDE DEF L, e
<1>5. /\ Len(ht_access) = c /\ DOMAIN ht_access = 1..c
      /\ \A j \in 1..c : \E k \in L : p(k) = j
  <2>1. Len(ht_access) = IF c < MaxHtAccess THEN c ELSE MaxHtAccess
    BY <1>4 DEF Holds
  <2>2. ht_access \in Seq({e[k] : k \in DOMAIN e})
    BY <1>4 DEF Holds
  <2>3. Len(ht_access) = c
    BY <1>2, <2>1, LimitsAssumption
  <2>4. DOMAIN ht_access = 1..Len(ht_access)
    BY <2>2
  <2> QED
    BY <1>4, <2>3, <2>4 DEF Holds
<1>6. \A k \in L : p(k) \in 1..c /\ \A m \in L : m <= k => p(m) <= p(k)
  BY <1>1, PlaceIs
<1>7. \A k \in L : ht_access[p(k)] = e[k]
  <2>1. \A k \in L : p(k) <= MaxHtAccess
    BY <1>2, <1>6, LimitsAssumption
  <2> QED
    BY <1>4, <2>1 DEF Holds
<1> HIDE DEF p
<1>8. \A k \in L : p(k) \in hits <=> k \in mine
  BY <1>3, <1>5, <1>6, <1>7
<1>9. \A j \in hits : \E k \in mine : p(k) = j
  <2> SUFFICES ASSUME NEW j \in hits
               PROVE  \E k \in mine : p(k) = j
    OBVIOUS
  <2>1. PICK k \in L : p(k) = j
    BY <1>5
  <2> QED
    BY <1>8, <2>1
<1>10. CASE mine = {}
  <2>1. hits = {}
    BY <1>9, <1>10
  <2>2. Required(resource) = NULL
    BY <2>1 DEF Required
  <2> QED
    BY <1>10, <2>2 DEF L
<1>11. CASE mine # {}
  <2>1. mine \in SUBSET Nat
    BY <1>1
  <2> DEFINE first == First(mine)
  <2>2. first \in mine /\ \A m \in mine : first <= m
    <3> HIDE DEF mine
    <3> QED
      BY <1>11, <2>1, FirstIs
  <2> HIDE DEF first
  <2>3. p(first) \in hits
    BY <1>8, <2>2
  <2>4. \A j \in hits : p(first) <= j
    <3> SUFFICES ASSUME NEW j \in hits
                 PROVE  p(first) <= j
      OBVIOUS
    <3>1. PICK k \in mine : p(k) = j
      BY <1>9
    <3> QED
      BY <1>6, <2>2, <3>1
  <2>5. First(hits) = p(first)
    <3>1. hits \in SUBSET Nat
      BY <1>5
    <3> HIDE DEF hits
    <3> QED
      BY <2>3, <2>4, <3>1, FirstUnique
  <2>6. Required(resource) = ht_access[First(hits)].res_auth
    BY <2>3 DEF Required
  <2>7. Required(resource) =
          base64_encode(Credentials(cfg_file[first][3], cfg_file[first][4]))
    BY <1>3, <1>7, <2>2, <2>5, <2>6
  <2> QED
    BY <1>11, <2>2, <2>7 DEF L, first
<1> QED
  BY <1>10, <1>11

\* A login or password has a character, and none is a colon.
LEMMA ColonFree ==
  ASSUME NEW s \in Seq(Byte \ {58}) \ {<<>>}
  PROVE  /\ s \in Seq(Byte) /\ Len(s) \in Nat \ {0}
         /\ \A k \in 1..Len(s) : s[k] \in Byte \ {58}
<1>1. Len(s) \in Nat /\ s \in [1..Len(s) -> Byte \ {58}]
  OBVIOUS
<1>2. Len(s) # 0
  BY EmptySeq
<1>3. s \in [1..Len(s) -> Byte]
  BY <1>1
<1>4. s \in Seq(Byte)
  BY <1>1, <1>3
<1> QED
  BY <1>1, <1>2, <1>4

\* strtok finds login and password, for neither is empty or has a colon.
LEMMA WordsAre ==
  ASSUME NEW login \in Seq(Byte \ {58}) \ {<<>>}, NEW password \in Seq(Byte \ {58}) \ {<<>>}
  PROVE  /\ Words(Credentials(login, password))[1] = login
         /\ Words(Credentials(login, password))[2] = password
<1>a. /\ login \in Seq(Byte) /\ Len(login) \in Nat \ {0}
      /\ \A k \in 1..Len(login) : login[k] \in Byte \ {58}
      /\ password \in Seq(Byte) /\ Len(password) \in Nat \ {0}
      /\ \A k \in 1..Len(password) : password[k] \in Byte \ {58}
  BY ColonFree
<1>b. /\ Credentials(login, password) \in Seq(Byte)
      /\ Len(Credentials(login, password)) = Len(login) + 1 + Len(password)
  BY <1>a, CredentialsAre
<1>c. \A k \in 1..Len(login) : Credentials(login, password)[k] = login[k]
  BY <1>a, CredentialsAre
<1>d. /\ Credentials(login, password)[Len(login) + 1] = 58
      /\ \A k \in 1..Len(password) :
           Credentials(login, password)[Len(login) + 1 + k] = password[k]
  BY <1>a, CredentialsAre
<1> DEFINE text == Credentials(login, password)
           n == Len(login)
           m == Len(password)
           starts == {k \in DOMAIN text : text[k] # 58 /\ (k = 1 \/ text[k - 1] = 58)}
           before(k) == {x \in starts : x < k}
           from(i) == CHOOSE k \in starts : Cardinality(before(k)) = i - 1
           Ends(i, k) == /\ k = Len(text) \/ text[k + 1] = 58
                         /\ \A x \in from(i)..k : text[x] # 58
           upto(i) == CHOOSE k \in from(i)..Len(text) : Ends(i, k)
<1>1. /\ login \in Seq(Byte) /\ password \in Seq(Byte) /\ n \in Nat \ {0} /\ m \in Nat \ {0}
      /\ \A k \in 1..n : login[k] \in Byte \ {58}
      /\ \A k \in 1..m : password[k] \in Byte \ {58}
  BY <1>a
<1>2. /\ text \in Seq(Byte) /\ Len(text) = n + 1 + m
      /\ \A k \in 1..n : text[k] = login[k]
      /\ text[n + 1] = 58
      /\ \A k \in 1..m : text[n + 1 + k] = password[k]
  BY <1>b, <1>c, <1>d
<1>3. DOMAIN text = 1 .. n + 1 + m
  BY <1>2
<1> HIDE DEF text, n, m
<1>4. \A k \in 1 .. n + 1 + m : text[k] = 58 <=> k = n + 1
  <2> SUFFICES ASSUME NEW k \in 1 .. n + 1 + m, k # n + 1
               PROVE  text[k] # 58
    BY <1>2
  <2>1. CASE k \in 1..n
    BY <1>1, <1>2, <2>1
  <2>2. CASE k \notin 1..n
    <3>1. k - (n + 1) \in 1..m /\ n + 1 + (k - (n + 1)) = k
      BY <1>1, <2>2
    <3>2. text[n + 1 + (k - (n + 1))] = password[k - (n + 1)]
      BY <1>2, <3>1
    <3> QED
      BY <1>1, <3>1, <3>2
  <2> QED
    BY <2>1, <2>2
<1>5. starts = {1, n + 2}
  <2>1. 1 \in DOMAIN text /\ n + 2 \in DOMAIN text /\ 1 # n + 1 /\ n + 2 # n + 1 /\ (n + 2) - 1 = n + 1
    BY <1>1, <1>3
  <2>2. 1 \in starts /\ n + 2 \in starts
    BY <1>2, <1>3, <1>4, <2>1
  <2>3. ASSUME NEW k \in starts
        PROVE  k \in {1, n + 2}
    <3>1. k \in 1 .. n + 1 + m /\ (k = 1 \/ text[k - 1] = 58)
      BY <1>3
    <3>2. CASE k # 1
      <4>1. k - 1 \in 1 .. n + 1 + m /\ text[k - 1] = 58
        BY <1>1, <3>1, <3>2
      <4>2. k - 1 = n + 1
        BY <1>4, <4>1
      <4> QED
        BY <1>1, <3>1, <4>2
    <3> QED
      BY <3>2
  <2> HIDE DEF starts
  <2> QED
    BY <2>2, <2>3
<1> HIDE DEF starts
<1>6. before(1) = {} /\ before(n + 2) = {1}
  <2>1. ~(1 < 1) /\ ~(n + 2 < 1) /\ 1 < n + 2 /\ ~(n + 2 < n + 2)
    BY <1>1
  <2> QED
    BY <1>5, <2>1
<1>7. Cardinality({}) = 0 /\ Cardinality({1}) = 1 /\ Cardinality(starts) = 2
  <2>1. Cardinality({}) = 0 /\ Cardinality({1}) = 1
    BY FS_EmptySet, FS_Singleton
  <2>2. IsFiniteSet({1}) /\ n + 2 \notin {1}
    <3>1. n + 2 \notin {1}
      BY <1>1
    <3> QED
      BY <3>1, FS_Singleton
  <2>3. Cardinality({1} \cup {n + 2}) = Cardinality({1}) + 1
    BY <2>2, FS_AddElement
  <2>4. starts = {1} \cup {n + 2}
    BY <1>5
  <2>5. Cardinality(starts) = Cardinality({1}) + 1
    BY <2>3, <2>4, Zenon
  <2>6. Cardinality(starts) = 2
    BY <2>1, <2>5
  <2> QED
    BY <2>1, <2>6, Zenon
<1> HIDE DEF before
<1>8. from(1) = 1 /\ from(2) = n + 2
  <2>1. Cardinality(before(1)) = 0 /\ Cardinality(before(n + 2)) = 1
    BY <1>6, <1>7
  <2>2. 1 - 1 = 0 /\ 2 - 1 = 1
    OBVIOUS
  <2>3. \A k \in starts : Cardinality(before(k)) = 1 - 1 <=> k = 1
    BY <1>5, <2>1, <2>2
  <2>4. \A k \in starts : Cardinality(before(k)) = 2 - 1 <=> k = n + 2
    BY <1>5, <2>1, <2>2
  <2> QED
    BY <1>5, <2>3, <2>4
<1> HIDE DEF from
<1>9. upto(1) = n
  <2>1. n \in from(1)..Len(text) /\ Ends(1, n)
    <3>1. \A x \in 1..n : x \in 1 .. n + 1 + m /\ x # n + 1
      BY <1>1
    <3> QED
      BY <1>1, <1>2, <1>4, <1>8, <3>1
  <2>2. ASSUME NEW k \in from(1)..Len(text), Ends(1, k)
        PROVE  k = n
    <3>1. k \in 1 .. n + 1 + m
      BY <1>2, <1>8
    <3>2. ~(n + 1 <= k)
      <4>1. n + 1 <= k => n + 1 \in from(1)..k
        BY <1>1, <1>8, <3>1
      <4> QED
        BY <1>2, <2>2, <4>1
    <3>3. k + 1 \in 1 .. n + 1 + m /\ k # Len(text)
      BY <1>1, <1>2, <3>1, <3>2
    <3>4. k + 1 = n + 1
      BY <1>4, <2>2, <3>3
    <3> QED
      BY <1>1, <3>1, <3>4
  <2> HIDE DEF Ends
  <2> QED
    BY <2>1, <2>2
<1>10. upto(2) = n + 1 + m
  <2>1. n + 1 + m \in from(2)..Len(text) /\ Ends(2, n + 1 + m)
    <3>1. \A x \in n+2 .. n+1+m : x \in 1 .. n + 1 + m /\ x # n + 1
      BY <1>1
    <3>2. n + 1 + m \in n+2 .. n+1+m
      BY <1>1
    <3> QED
      BY <1>2, <1>4, <1>8, <3>1, <3>2
  <2>2. ASSUME NEW k \in from(2)..Len(text), Ends(2, k)
        PROVE  k = n + 1 + m
    <3>1. k \in n+2 .. n+1+m
      BY <1>2, <1>8
    <3>2. CASE k # Len(text)
      <4>1. k + 1 \in 1 .. n + 1 + m /\ k + 1 # n + 1
        BY <1>1, <1>2, <3>1, <3>2
      <4> QED
        BY <1>4, <2>2, <3>2, <4>1
    <3> QED
      BY <1>2, <3>2
  <2> HIDE DEF Ends
  <2> QED
    BY <2>1, <2>2
<1>11. SubSeq(text, 1, n) = login
  <2>1. /\ SubSeq(text, 1, n) \in Seq(Byte) /\ Len(SubSeq(text, 1, n)) = n
        /\ \A i \in 1..n : SubSeq(text, 1, n)[i] = text[i]
    BY <1>1, <1>2
  <2> QED
    BY <1>1, <1>2, <2>1, SeqEqual DEF n
<1>12. SubSeq(text, n + 2, n + 1 + m) = password
  <2> DEFINE s == SubSeq(text, n + 2, n + 1 + m)
  <2>1. /\ s \in Seq(Byte) /\ Len(s) = m
        /\ \A i \in 1..m : s[i] = text[n + 1 + i]
    <3>1. \A i \in n+2 .. n+1+m : text[i] \in Byte
      BY <1>1, <1>2
    <3>2. /\ s \in Seq(Byte)
          /\ Len(s) = IF n + 2 <= n + 1 + m THEN (n + 1 + m) - (n + 2) + 1 ELSE 0
          /\ \A i \in 1 .. (n + 1 + m) - (n + 2) + 1 : s[i] = text[(n + 2) + i - 1]
      <4>1. n + 2 \in Int /\ n + 1 + m \in Int
        BY <1>1
      <4> QED
        BY <3>1, <4>1, SubSeqProperties
    <3>3. n + 2 <= n + 1 + m /\ (n + 1 + m) - (n + 2) + 1 = m
      BY <1>1
    <3>4. \A i \in 1..m : (n + 2) + i - 1 = n + 1 + i
      BY <1>1
    <3> HIDE DEF s
    <3> QED
      BY <3>2, <3>3, <3>4
  <2> HIDE DEF s
  <2>2. s = password
    BY <1>1, <1>2, <2>1, SeqEqual DEF m
  <2> QED
    BY <2>2 DEF s
<1>13. Words(text) = [i \in 1..Cardinality(starts) |-> SubSeq(text, from(i), upto(i))]
  BY Zenon DEF Words, starts, from, upto, before, Ends
<1> HIDE DEF upto
<1>14. 1 \in 1..Cardinality(starts) /\ 2 \in 1..Cardinality(starts)
  BY <1>7
<1>15. Words(text)[1] = SubSeq(text, 1, n) /\ Words(text)[2] = SubSeq(text, n + 2, n + 1 + m)
  BY <1>8, <1>9, <1>10, <1>13, <1>14
<1> QED
  BY <1>11, <1>12, <1>15 DEF text

\* What is known of a request: it is admitted if nothing is required for the file
\* or just what it carries.
SessionInv ==
  session # NULL =>
    /\ pass = "ready"
    /\ session.authorization \in Texts \cup {NULL}
    /\ session.admitted <=> Required(session.resource) \in {NULL, session.authorization}
    /\ session.authorization # NULL =>
         LET words == Words(base64_decode(session.authorization))
         IN session.user_login = words[1] /\ session.user_pwd = words[2]

\* A request is answered as its file and its text demand.
LEMMA SessionRequest ==
  ASSUME NEW resource \in Resources, NEW text \in Texts \cup {NULL}, SessionInv,
         Request(resource, text)
  PROVE  SessionInv'
<1> DEFINE words == IF text = NULL THEN <<>> ELSE Words(base64_decode(text))
           admitted == Required(resource) \in {NULL, text}
           type == ContentType(Extension[resource])
<1>1. /\ pass = "ready" /\ session = NULL
      /\ IF text # NULL /\ Len(words) < 2
         THEN pass' = "crashed" /\ UNCHANGED session
         ELSE /\ session' = [resource |-> resource, authorization |-> text,
                             user_login |-> IF text = NULL THEN NULL ELSE words[1],
                             user_pwd |-> IF text = NULL THEN NULL ELSE words[2],
                             admitted |-> admitted, type |-> type]
              /\ UNCHANGED pass
      /\ ht_access' = ht_access
  BY Zenon DEF Request, tables
<1>2. CASE session' = NULL
  BY <1>2 DEF SessionInv
<1>3. CASE session' # NULL
  <2> HIDE DEF admitted, type
  <2>1. /\ session'.resource = resource /\ session'.authorization = text
        /\ session'.admitted = admitted
        /\ session'.user_login = IF text = NULL THEN NULL ELSE words[1]
        /\ session'.user_pwd = IF text = NULL THEN NULL ELSE words[2]
        /\ pass' = "ready"
    <3> HIDE DEF words
    <3> QED
      BY <1>1, <1>3
  <2>2. admitted = (Required(resource) \in {NULL, text})'
    BY <1>1 DEF admitted, Required
  <2>3. session'.admitted <=> (Required(session.resource) \in {NULL, session.authorization})'
    BY <1>1, <2>1 DEF admitted, Required
  <2>4. text # NULL => words = Words(base64_decode(text))
    OBVIOUS
  <2> HIDE DEF words
  <2>5. session'.authorization # NULL =>
          /\ session'.user_login = Words(base64_decode(session'.authorization))[1]
          /\ session'.user_pwd = Words(base64_decode(session'.authorization))[2]
    BY <2>1, <2>4
  <2>6. session'.authorization \in Texts \cup {NULL}
    BY <2>1
  <2> QED
    BY <2>1, <2>3, <2>5, <2>6, Zenon DEF SessionInv
<1> QED
  BY <1>2, <1>3

\* The server is ready: nothing but a request can happen.
LEMMA ReadyStays ==
  ASSUME pass = "ready"
  PROVE  ~Load
BY DEF Load, Open, CoreLine, CannotSave, CoreEnd, HtaccessLine, HtaccessEnd, IndexLine, IndexLineWith,
       IndexEnd, MimeLine, MimeLineWith, MimeEnd, Start

\* The loaders have no session.
LEMMA LoadKeepsSession == Load => session' = session
<1> SUFFICES ASSUME Load
             PROVE  session' = session
  OBVIOUS
<1>1. CASE Open
  BY <1>1, Zenon DEF Open
<1>2. CASE CoreLine
  BY <1>2, Zenon DEF CoreLine
<1>3. CASE CoreEnd
  BY <1>3, Zenon DEF CoreEnd
<1>4. CASE HtaccessLine
  BY <1>4, Zenon DEF HtaccessLine
<1>5. CASE HtaccessEnd
  BY <1>5, Zenon DEF HtaccessEnd
<1>6. CASE IndexLine
  BY <1>6, Zenon DEF IndexLine, IndexLineWith
<1>7. CASE IndexEnd
  BY <1>7, Zenon DEF IndexEnd
<1>8. CASE MimeLine
  BY <1>8, Zenon DEF MimeLine, MimeLineWith
<1>9. CASE MimeEnd
  BY <1>9, Zenon DEF MimeEnd
<1>10. CASE Start
  BY <1>10, Zenon DEF Start
<1>11. CASE CannotSave
  BY <1>11, Zenon DEF CannotSave
<1> QED
  BY <1>1, <1>2, <1>3, <1>4, <1>5, <1>6, <1>7, <1>8, <1>9, <1>10, <1>11, Zenon DEF Load

\* Every step keeps what is known of the request.
LEMMA SessionNext == SessionInv /\ [Next]_vars => SessionInv'
<1> SUFFICES ASSUME SessionInv, [Next]_vars
             PROVE  SessionInv'
  OBVIOUS
<1>1. CASE Load
  <2>1. session' = session /\ pass # "ready"
    BY <1>1, LoadKeepsSession, ReadyStays
  <2>2. session' = NULL
    BY <2>1 DEF SessionInv
  <2> QED
    BY <2>2 DEF SessionInv
<1>2. ASSUME NEW resource \in Resources, NEW text \in Texts \cup {NULL}, Request(resource, text)
      PROVE  SessionInv'
  BY <1>2, SessionRequest
<1>3. CASE UNCHANGED vars
  <2>1. pass' = pass /\ session' = session /\ ht_access' = ht_access
    BY <1>3 DEF vars
  <2> QED
    BY <2>1 DEF SessionInv, Required
<1> QED
  BY <1>1, <1>2, <1>3 DEF Next

-----------------------------------------------------------------------------
(* The invariant and what follows from it. *)

ConfigInv == SettingsInv /\ TablesInv /\ SessionInv

\* The inductive invariant: settings and tables follow the lines read so far, and
\* the request follows the tables.
LEMMA ConfigAlways == Spec => []ConfigInv
<1>1. Init => ConfigInv
  <2>1. Init => SessionInv
    BY DEF Init, SessionInv
  <2> QED
    BY <2>1, SettingsInit, TablesInit DEF ConfigInv
<1>2. ConfigInv /\ [Next]_vars => ConfigInv'
  <2> SUFFICES ASSUME ConfigInv, [Next]_vars
               PROVE  ConfigInv'
    OBVIOUS
  <2>1. SettingsInv' /\ SessionInv'
    BY SettingsNextInv, SessionNext DEF ConfigInv
  <2>2. LoadType /\ LoadType'
    BY <2>1 DEF ConfigInv, SettingsInv
  <2> QED
    BY <2>1, <2>2, TablesNext DEF ConfigInv
<1> QED
  BY <1>1, <1>2, PTL DEF Spec

\* The loaders stay within the file, and what is filled of a table is within its
\* limit; certificate and key are files that were found somewhere
\* (core.c, htaccess_manager.c, mime_types.c).
THEOREM ConfigTypeCorrect == Spec => []TypeOK
<1>1. ConfigInv => TypeOK
  <2> SUFFICES ASSUME ConfigInv
               PROVE  TypeOK
    OBVIOUS
  <2>1. LoadType /\ SettingsType(config, listed)
    BY DEF ConfigInv, SettingsInv, LoadType
  <2>2. Bounded
    BY DEF ConfigInv, TablesInv
  <2> QED
    BY <2>1, <2>2 DEF TypeOK, LoadType, SettingsType, Passes, Bounded, Somewhere
<1> QED
  BY <1>1, ConfigAlways, PTL

\* The settings are those of the last lines for them; for a certificate and a key
\* that are relative paths as far as the place their line is read in is known
\* (CORE_load_configuration, directory_exists, LOG_save, SOCKET_initialization).
THEOREM SettingsFromLastLines == Spec => []LastSettingWins
<1>1. ConfigInv => LastSettingWins
  BY DEF ConfigInv, SettingsInv
<1> QED
  BY <1>1, ConfigAlways, PTL

\* A table that holds the entries holds the first of them.
LEMMA HoldsTheFirst ==
  ASSUME NEW table, NEW entries, NEW lines, NEW limit, Holds(table, entries, lines, limit),
         NEW e, DOMAIN e = lines, \A k \in lines : e[k] = entries[k]
  PROVE  HoldsFirst(table, e, limit)
<1>1. /\ Len(table) = IF Cardinality(lines) < limit THEN Cardinality(lines) ELSE limit
      /\ \A k \in lines : Place(k, lines) <= limit => table[Place(k, lines)] = entries[k]
  BY Zenon DEF Holds
<1>2. \A k \in DOMAIN e : Place(k, DOMAIN e) <= limit => table[Place(k, DOMAIN e)] = e[k]
  BY <1>1
<1> QED
  BY <1>1, <1>2, Zenon DEF HoldsFirst

\* All access lines are kept, or there are more than the table has room for; of the
\* index names and content types the first ones are kept, up to the limits
\* (HTACCESS_load_configuration, CORE_load_index_names, MIME_load_configuration).
THEOREM TablesFromFirstLines == Spec => []FirstEntriesKept
<1>1. ASSUME ConfigInv, pass = "ready"
      PROVE  /\ Cardinality(Lines("global_ht_access", 4)) <= MaxHtAccess
             /\ Holds(ht_access, AccessEntries(cfg_file), Lines("global_ht_access", 4),
                      MaxHtAccess)
  <2>1. AccessRead = Len(cfg_file) /\ cfg_file \in ConfigFiles
    BY <1>1 DEF AccessRead, ConfigInv, SettingsInv, LoadType
  <2>2. AccessLines = Lines("global_ht_access", 4)
    BY <2>1, UptoAll DEF AccessLines, Lines
  <2>3. AccessInv
    BY <1>1 DEF ConfigInv, TablesInv, Filled, Gone
  <2> QED
    BY <2>2, <2>3 DEF AccessInv
<1>2. ConfigInv /\ pass = "ready" =>
        /\ Cardinality(Lines("global_ht_access", 4)) <= MaxHtAccess
        /\ HoldsFirst(ht_access, [k \in Lines("global_ht_access", 4) |-> Entry(cfg_file[k])],
                      MaxHtAccess)
        /\ HoldsFirst(index_file_list, [k \in Lines("site_index", 2) |-> cfg_file[k][2]],
                      MaxIndexNames)
        /\ HoldsFirst(mime_types,
                      [k \in Lines("mime_type", 3) |->
                         [ext |-> cfg_file[k][2], mime_type |-> cfg_file[k][3]]],
                      MaxMimeTypes)
  <2> SUFFICES ASSUME ConfigInv, pass = "ready"
               PROVE  /\ Cardinality(Lines("global_ht_access", 4)) <= MaxHtAccess
                      /\ HoldsFirst(ht_access,
                                    [k \in Lines("global_ht_access", 4) |-> Entry(cfg_file[k])],
                                    MaxHtAccess)
                      /\ HoldsFirst(index_file_list,
                                    [k \in Lines("site_index", 2) |-> cfg_file[k][2]],
                                    MaxIndexNames)
                      /\ HoldsFirst(mime_types,
                                    [k \in Lines("mime_type", 3) |->
                                       [ext |-> cfg_file[k][2], mime_type |-> cfg_file[k][3]]],
                                    MaxMimeTypes)
    OBVIOUS
  <2> DEFINE f == cfg_file
             access == [k \in Lines("global_ht_access", 4) |-> Entry(f[k])]
             names == [k \in Lines("site_index", 2) |-> f[k][2]]
             types == [k \in Lines("mime_type", 3) |-> [ext |-> f[k][2], mime_type |-> f[k][3]]]
  <2>1. f \in ConfigFiles
    BY DEF ConfigInv, SettingsInv, LoadType
  <2>2. NamesRead = Len(f) /\ TypesRead = Len(f)
    BY DEF NamesRead, TypesRead
  <2>3. \A option, words : Upto(f, option, words, Len(f)) = Lines(option, words)
    BY <2>1, UptoAll DEF Lines
  <2>4. /\ Holds(index_file_list, NameEntries(f), Lines("site_index", 2), MaxIndexNames)
        /\ Holds(mime_types, TypeEntries(f), Lines("mime_type", 3), MaxMimeTypes)
    BY <2>2, <2>3 DEF ConfigInv, TablesInv, Filled, Gone, NamesInv, TypesInv
  <2>5. \A option, words : Lines(option, words) \subseteq DOMAIN f
    BY DEF Lines, LinesOf
  <2>6. /\ DOMAIN names = Lines("site_index", 2)
        /\ \A k \in Lines("site_index", 2) : names[k] = NameEntries(f)[k]
    BY <2>5 DEF NameEntries
  <2>7. /\ DOMAIN types = Lines("mime_type", 3)
        /\ \A k \in Lines("mime_type", 3) : types[k] = TypeEntries(f)[k]
    BY <2>5 DEF TypeEntries
  <2>8. /\ DOMAIN access = Lines("global_ht_access", 4)
        /\ \A k \in Lines("global_ht_access", 4) : access[k] = AccessEntries(f)[k]
    BY <2>5 DEF AccessEntries
  <2> HIDE DEF names, types, access
  <2>9. HoldsFirst(index_file_list, names, MaxIndexNames)
    BY <2>4, <2>6, HoldsTheFirst
  <2>10. HoldsFirst(mime_types, types, MaxMimeTypes)
    BY <2>4, <2>7, HoldsTheFirst
  <2>11. HoldsFirst(ht_access, access, MaxHtAccess)
    BY <1>1, <2>8, HoldsTheFirst
  <2> QED
    BY <1>1, <2>9, <2>10, <2>11, Zenon DEF names, types, access
<1>3. ConfigInv /\ pass = "overrun" => Cardinality(Lines("global_ht_access", 4)) > MaxHtAccess
  BY DEF ConfigInv, TablesInv
<1>4. ConfigInv => FirstEntriesKept
  BY <1>2, <1>3, Zenon DEF FirstEntriesKept
<1> QED
  BY <1>4, ConfigAlways, PTL

\* A request is admitted by the first access line for the file or, if there is
\* none, always (HTACCESS_load_configuration, file_params, REQUEST_process).
THEOREM AdmittedByFirstLine == Spec => []AdmittedAsConfigured
<1>1. ConfigInv => AdmittedAsConfigured
  <2> SUFFICES ASSUME ConfigInv, session # NULL
               PROVE  AdmittedAsConfigured
    BY Zenon DEF AdmittedAsConfigured
  <2> DEFINE r == session.resource
             text == session.authorization
             mine == {k \in Lines("global_ht_access", 4) : cfg_file[k][2] = r}
             first == First(mine)
             required == Rfc3548(Credentials(cfg_file[first][3], cfg_file[first][4]))
  <2>1. cfg_file \in ConfigFiles /\ pass = "ready"
    BY DEF ConfigInv, SettingsInv, LoadType, SessionInv
  <2>2. /\ Holds(ht_access, AccessEntries(cfg_file), Lines("global_ht_access", 4), MaxHtAccess)
        /\ Cardinality(Lines("global_ht_access", 4)) <= MaxHtAccess
    <3>1. AccessRead = Len(cfg_file)
      BY <2>1 DEF AccessRead
    <3>2. AccessLines = Lines("global_ht_access", 4)
      BY <2>1, <3>1, UptoAll DEF AccessLines, Lines
    <3> QED
      BY <2>1, <3>2 DEF ConfigInv, TablesInv, Filled, Gone, AccessInv
  <2>3. session.admitted <=> Required(r) \in {NULL, text}
    BY DEF ConfigInv, SessionInv
  <2>4. /\ mine = {} => Required(r) = NULL
        /\ mine # {} => /\ first \in Lines("global_ht_access", 4)
                        /\ Required(r) =
                             base64_encode(Credentials(cfg_file[first][3], cfg_file[first][4]))
    BY <2>1, <2>2, RequiredIs, Zenon
  <2> HIDE DEF mine, first
  <2>5. ASSUME mine # {}
        PROVE  Required(r) = required /\ required # NULL
    <3> DEFINE c == Credentials(cfg_file[first][3], cfg_file[first][4])
    <3>1. cfg_file[first][3] \in Seq(Byte) /\ cfg_file[first][4] \in Seq(Byte)
      BY <2>1, <2>4, <2>5, HtAccessAssumption DEF Lines
    <3>2. c \in Seq(Byte)
      BY <3>1, CredentialsAre
    <3> HIDE DEF c
    <3>3. base64_encode(c) = Rfc3548(c) /\ base64_encode(c) \in Seq(Byte)
      BY <3>2, EncodesAsRfc, EncodedIs
    <3> QED
      BY <2>4, <2>5, <3>3, NullAssumption DEF c
  <2> HIDE DEF required
  <2>6. session.admitted <=> mine = {} \/ text = required
    <3>1. CASE mine = {}
      BY <2>3, <2>4, <3>1
    <3>2. CASE mine # {}
      BY <2>3, <2>5, <3>2
    <3> QED
      BY <3>1, <3>2
  <2> QED
    BY <2>6, Zenon DEF AdmittedAsConfigured, mine, first, required
<1> QED
  BY <1>1, ConfigAlways, PTL

\* SESSION_check_auth: whatever a client sends, the decoder stays inside its copy,
\* and login and password in the encoding of RFC 3548 are found.
THEOREM LoginFound == Spec => []LoginIsDecoded
<1>1. ConfigInv => LoginIsDecoded
  <2> SUFFICES ASSUME ConfigInv, session # NULL, session.authorization # NULL
               PROVE  LoginIsDecoded
    BY Zenon DEF LoginIsDecoded
  <2> DEFINE text == session.authorization
  <2>1. /\ text \in Texts
        /\ session.user_login = Words(base64_decode(text))[1]
        /\ session.user_pwd = Words(base64_decode(text))[2]
    BY DEF ConfigInv, SessionInv
  <2>2. ASSUME NEW a \in Accounts
        PROVE  /\ a.login \in Seq(Byte \ {58}) \ {<<>>} /\ a.password \in Seq(Byte \ {58}) \ {<<>>}
               /\ Credentials(a.login, a.password) \in Seq(Byte)
    <3>1. a.login \in Seq(Byte \ {58}) \ {<<>>} /\ a.password \in Seq(Byte \ {58}) \ {<<>>}
      BY AccountsAssumption
    <3>2. a.login \in Seq(Byte) /\ a.password \in Seq(Byte)
      BY <3>1, ColonFree
    <3> QED
      BY <3>1, <3>2, CredentialsAre
  <2>3. text \in Seq(Byte)
    <3>1. ASSUME NEW a \in Accounts
          PROVE  Rfc3548(Credentials(a.login, a.password)) \in Seq(Byte)
      BY <2>2, EncodesAsRfc, EncodedIs
    <3> QED
      BY <2>1, <3>1, OtherTextsAssumption DEF Texts
  <2>4. StaysInside(Kept(text))
    BY <2>3, DecodesInside
  <2>5. ASSUME NEW a \in Accounts, text = Rfc3548(Credentials(a.login, a.password))
        PROVE  session.user_login = a.login /\ session.user_pwd = a.password
    <3>1. base64_decode(text) = Credentials(a.login, a.password)
      BY <2>2, <2>5, DecodesRfc
    <3>2. /\ Words(Credentials(a.login, a.password))[1] = a.login
          /\ Words(Credentials(a.login, a.password))[2] = a.password
      BY <2>2, WordsAre
    <3> QED
      BY <2>1, <3>1, <3>2
  <2> QED
    BY <2>4, <2>5, Zenon DEF LoginIsDecoded
<1> QED
  BY <1>1, ConfigAlways, PTL
=============================================================================
