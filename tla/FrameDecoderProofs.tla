------------------------- MODULE FrameDecoderProofs -------------------------
(***************************************************************************)
(* The decoder, fed piece by piece, reads a stream as one who has it all   *)
(* before him: for every stream of bytes, every cut, every alignment and   *)
(* every change of the configuration.  Where the stream is frames, those   *)
(* are what it yields.                                                     *)
(***************************************************************************)
EXTENDS FrameDecoderProperties, SequenceFacts

-----------------------------------------------------------------------------
(* Masks.                                                                  *)

(* A whole number of words fits, and is a multiple of four.                *)
LEMMA Words ==
  ASSUME NEW n \in Nat
  PROVE  4 * (n \div 4) \in Nat /\ 4 * (n \div 4) <= n /\ (4 * (n \div 4)) % 4 = 0
OBVIOUS

(* Cutting the buffer at word boundaries and rotating the mask gives every *)
(* byte the mask byte of its offset, wherever the buffer lies.             *)
THEOREM MaskMeetsOffset ==
  ASSUME NEW len \in Nat, NEW align \in 0 .. 3, NEW k \in Nat, k < len
  PROVE  MaskIndex(k, len, align) = k % 4
<1> DEFINE prefix == Prefix(len, align)
           words == 4 * ((len - prefix) \div 4)
<1>1. prefix \in 0 .. 3 /\ prefix <= len
  BY DEF Prefix
<1>2. words \in Nat /\ words % 4 = 0
  <2>1. len - prefix \in Nat
    BY <1>1
  <2> HIDE DEF prefix
  <2> QED BY <2>1, Words
<1>3. MaskIndex(k, len, align) =
        IF k < prefix THEN k % 4
        ELSE IF k < prefix + words THEN (((k - prefix) % 4) + prefix) % 4
        ELSE (((k - prefix - words) % 4) + prefix) % 4
  BY DEF MaskIndex
<1> HIDE DEF prefix, words
<1>4. ASSUME k >= prefix
      PROVE  (((k - prefix) % 4) + prefix) % 4 = k % 4
  BY <1>1, <1>4
<1>5. ASSUME k >= prefix + words
      PROVE  (k - prefix - words) % 4 = (k - prefix) % 4
  BY <1>1, <1>2, <1>5
<1> QED BY <1>1, <1>2, <1>3, <1>4, <1>5

(* Every offset meets a byte of the mask.                                  *)
LEMMA MaskRange ==
  ASSUME NEW k \in Nat
  PROVE  (k % 4) + 1 \in 1 .. 4
OBVIOUS

(* ApplyMask without its cut at word boundaries.                           *)
LEMMA ApplyMaskIs ==
  ASSUME NEW buf \in Seq(Byte), NEW mask, NEW align \in 0 .. 3
  PROVE  ApplyMask(buf, mask, align)
           = [k \in 1 .. Len(buf) |-> ByteXor(buf[k], mask[((k - 1) % 4) + 1])]
<1>1. \A k \in 1 .. Len(buf) : MaskIndex(k - 1, Len(buf), align) = (k - 1) % 4
  BY MaskMeetsOffset
<1> QED BY <1>1 DEF ApplyMask

(* The decoder takes off what the encoder put on, the two buffers aligned  *)
(* as they may be.                                                         *)
THEOREM MaskTwice ==
  ASSUME NEW buf \in Seq(Byte), NEW mask \in Mask,
         NEW a \in 0 .. 3, NEW b \in 0 .. 3
  PROVE  /\ ApplyMask(buf, mask, a) \in Seq(Byte)
         /\ ApplyMask(ApplyMask(buf, mask, a), mask, b) = buf
<1> DEFINE once == ApplyMask(buf, mask, a)
           m(k) == mask[((k - 1) % 4) + 1]
<1>1. \A k \in 1 .. Len(buf) : m(k) \in Byte /\ buf[k] \in Byte
  BY MaskRange DEF Mask
<1>2. once = [k \in 1 .. Len(buf) |-> ByteXor(buf[k], m(k))]
  BY ApplyMaskIs
<1>3. \A k \in 1 .. Len(buf) : ByteXor(buf[k], m(k)) \in Byte
  BY <1>1, XorAssumption
<1> HIDE DEF once, m
<1>4. once \in Seq(Byte) /\ Len(once) = Len(buf)
  BY <1>2, <1>3
<1>5. ApplyMask(once, mask, b) = [k \in 1 .. Len(once) |-> ByteXor(once[k], m(k))]
  BY <1>4, ApplyMaskIs DEF m
<1>6. \A k \in 1 .. Len(buf) : ByteXor(once[k], m(k)) = buf[k]
  BY <1>1, <1>2, XorAssumption
<1>7. ApplyMask(once, mask, b) = [k \in 1 .. Len(buf) |-> buf[k]]
  BY <1>4, <1>5, <1>6
<1> QED BY <1>4, <1>7 DEF once

-----------------------------------------------------------------------------
(* Headers, written and parsed.                                            *)

(* The flags and the opcode are read from the first byte.                  *)
LEMMA FirstByte ==
  ASSUME NEW op \in 0 .. 15, NEW f \in BOOLEAN, NEW r1 \in BOOLEAN,
         NEW r2 \in BOOLEAN, NEW r3 \in BOOLEAN
  PROVE  LET byte == op + Bit(f, 128) + Bit(r1, 64) + Bit(r2, 32) + Bit(r3, 16) IN
         /\ byte \in Byte /\ byte % 16 = op
         /\ HasBit(byte, 128) = f /\ HasBit(byte, 64) = r1
         /\ HasBit(byte, 32) = r2 /\ HasBit(byte, 16) = r3
<1> DEFINE x(flag, n) == Bit(flag, n)
           byte == op + Bit(f, 128) + Bit(r1, 64) + Bit(r2, 32) + Bit(r3, 16)
<1>1. \E i, j, k, l \in 0 .. 1 :
        /\ byte = op + 128 * i + 64 * j + 32 * k + 16 * l
        /\ f = (i = 1) /\ r1 = (j = 1) /\ r2 = (k = 1) /\ r3 = (l = 1)
  <2> DEFINE one(flag) == IF flag THEN 1 ELSE 0
  <2>1. /\ one(f) \in 0 .. 1 /\ one(r1) \in 0 .. 1 /\ one(r2) \in 0 .. 1 /\ one(r3) \in 0 .. 1
        /\ f = (one(f) = 1) /\ r1 = (one(r1) = 1) /\ r2 = (one(r2) = 1) /\ r3 = (one(r3) = 1)
    OBVIOUS
  <2>2. byte = op + 128 * one(f) + 64 * one(r1) + 32 * one(r2) + 16 * one(r3)
    BY DEF Bit
  <2> QED BY <2>1, <2>2
<1> HIDE DEF byte
<1>2. PICK i, j, k, l \in 0 .. 1 :
        /\ byte = op + 128 * i + 64 * j + 32 * k + 16 * l
        /\ f = (i = 1) /\ r1 = (j = 1) /\ r2 = (k = 1) /\ r3 = (l = 1)
  BY <1>1
<1>3. byte \in Byte /\ byte % 16 = op
  BY <1>2 DEF Byte
<1>4. /\ byte \div 128 = i /\ byte \div 64 = 2 * i + j
      /\ byte \div 32 = 4 * i + 2 * j + k /\ byte \div 16 = 8 * i + 4 * j + 2 * k + l
  BY <1>2
<1>5. HasBit(byte, 128) = f
  BY <1>2, <1>4 DEF HasBit
<1>6. HasBit(byte, 64) = r1
  BY <1>2, <1>4 DEF HasBit
<1>7. HasBit(byte, 32) = r2
  BY <1>2, <1>4 DEF HasBit
<1>8. HasBit(byte, 16) = r3
  BY <1>2, <1>4 DEF HasBit
<1> QED BY <1>3, <1>5, <1>6, <1>7, <1>8 DEF byte

(* The length byte and the mask flag are read from the second.             *)
LEMMA SecondByte ==
  ASSUME NEW n \in Nat, NEW m \in BOOLEAN
  PROVE  LET byte == LengthByte(n) + Bit(m, 128) IN
         /\ byte \in Byte /\ byte % 128 = LengthByte(n) /\ HasBit(byte, 128) = m
<1>1. LengthByte(n) \in 0 .. 127
  BY DEF LengthByte
<1>2. PICK l \in 0 .. 127 : l = LengthByte(n)
  BY <1>1
<1>3. PICK i \in 0 .. 1 : m = (i = 1) /\ Bit(m, 128) = 128 * i
  <2> DEFINE one == IF m THEN 1 ELSE 0
  <2>1. one \in 0 .. 1 /\ m = (one = 1)
    OBVIOUS
  <2>2. Bit(m, 128) = 128 * one
    BY DEF Bit
  <2> QED BY <2>1, <2>2
<1>4. l + 128 * i \in 0 .. 255 /\ (l + 128 * i) % 128 = l /\ (l + 128 * i) \div 128 = i
  OBVIOUS
<1>5. HasBit(l + 128 * i, 128) = m
  BY <1>3, <1>4 DEF HasBit
<1> QED BY <1>2, <1>3, <1>4, <1>5 DEF Byte

(* What a concatenation is, in the forms the steps below need.             *)
LEMMA CatSeq ==
  ASSUME NEW s \in Seq(Byte), NEW t \in Seq(Byte)
  PROVE  s \o t \in Seq(Byte) /\ Len(s \o t) = Len(s) + Len(t)
OBVIOUS

LEMMA CatLeft ==
  ASSUME NEW s \in Seq(Byte), NEW t \in Seq(Byte), NEW i \in 1 .. Len(s)
  PROVE  (s \o t)[i] = s[i]
OBVIOUS

LEMMA CatRight ==
  ASSUME NEW s \in Seq(Byte), NEW t \in Seq(Byte), NEW i \in 1 .. Len(t)
  PROVE  (s \o t)[Len(s) + i] = t[i]
OBVIOUS

(* Two bytes appended, and four pairs one after the other.                 *)
LEMMA AppendPair ==
  ASSUME NEW a \in Seq(Byte), NEW b \in Seq(Byte), Len(b) = 2
  PROVE  LET e == a \o b  n == Len(a) IN
         /\ e \in Seq(Byte) /\ Len(e) = n + 2
         /\ \A i \in 1 .. n : e[i] = a[i]
         /\ e[n + 1] = b[1] /\ e[n + 2] = b[2]
<1>1. a \o b \in Seq(Byte) /\ Len(a \o b) = Len(a) + Len(b)
  BY CatSeq
<1>2. \A i \in 1 .. Len(a) : (a \o b)[i] = a[i]
  BY CatLeft
<1>3. 1 \in 1 .. Len(b) /\ 2 \in 1 .. Len(b)
  OBVIOUS
<1>4. (a \o b)[Len(a) + 1] = b[1] /\ (a \o b)[Len(a) + 2] = b[2]
  BY <1>3, CatRight
<1>5. Len(a \o b) = Len(a) + 2
  BY <1>1
<1> QED BY <1>1, <1>2, <1>4, <1>5

LEMMA FourPairs ==
  ASSUME NEW a \in Seq(Byte), NEW b \in Seq(Byte), NEW c \in Seq(Byte),
         NEW d \in Seq(Byte), Len(a) = 2, Len(b) = 2, Len(c) = 2, Len(d) = 2
  PROVE  LET e == a \o b \o c \o d IN
         /\ e \in Seq(Byte) /\ Len(e) = 8
         /\ e[1] = a[1] /\ e[2] = a[2] /\ e[3] = b[1] /\ e[4] = b[2]
         /\ e[5] = c[1] /\ e[6] = c[2] /\ e[7] = d[1] /\ e[8] = d[2]
<1> DEFINE ab == a \o b
           abc == ab \o c
           abcd == abc \o d
<1>1. /\ ab \in Seq(Byte) /\ Len(ab) = Len(a) + 2
      /\ \A i \in 1 .. Len(a) : ab[i] = a[i]
      /\ ab[Len(a) + 1] = b[1] /\ ab[Len(a) + 2] = b[2]
  BY AppendPair
<1> HIDE DEF ab
<1>2. /\ abc \in Seq(Byte) /\ Len(abc) = Len(ab) + 2
      /\ \A i \in 1 .. Len(ab) : abc[i] = ab[i]
      /\ abc[Len(ab) + 1] = c[1] /\ abc[Len(ab) + 2] = c[2]
  BY <1>1, AppendPair
<1> HIDE DEF abc
<1>3. /\ abcd \in Seq(Byte) /\ Len(abcd) = Len(abc) + 2
      /\ \A i \in 1 .. Len(abc) : abcd[i] = abc[i]
      /\ abcd[Len(abc) + 1] = d[1] /\ abcd[Len(abc) + 2] = d[2]
  BY <1>2, AppendPair
<1> HIDE DEF abcd
<1>4. Len(ab) = 4 /\ Len(abc) = 6 /\ Len(abcd) = 8
  BY <1>1, <1>2, <1>3
<1> QED BY <1>1, <1>2, <1>3, <1>4 DEF abcd, abc, ab

(* A number is its last two bytes and what is above them.                  *)
LEMMA PairFacts ==
  ASSUME NEW n \in Nat
  PROVE  /\ Pairs(n) \in Nat
         /\ Pair(n) \in Seq(Byte) /\ Len(Pair(n)) = 2
         /\ 256 * Pair(n)[1] + Pair(n)[2] = n % 65536
         /\ n = 65536 * Pairs(n) + (n % 65536)
<1>1. (n \div 256) % 256 \in Byte /\ n % 256 \in Byte
  BY DEF Byte
<1>2. 256 * ((n \div 256) % 256) + (n % 256) = n % 65536
  OBVIOUS
<1>3. n \div 65536 \in Nat /\ n = 65536 * (n \div 65536) + (n % 65536)
  OBVIOUS
<1> QED BY <1>1, <1>2, <1>3 DEF Pair, Pairs

(* The extra bytes of a length are as many as announced.                   *)
LEMMA BigEndianSize ==
  ASSUME NEW n \in Nat, NEW width \in {0, 2, 8}
  PROVE  BigEndian(n, width) \in Seq(Byte) /\ Len(BigEndian(n, width)) = width
<1>1. CASE width = 0
  BY <1>1 DEF BigEndian
<1>2. CASE width = 2
  BY <1>2, PairFacts DEF BigEndian
<1>3. CASE width = 8
  <2> DEFINE p == Pairs(n)  q == Pairs(p)  r == Pairs(q)
  <2> HIDE DEF p, q, r
  <2>1. p \in Nat
    BY PairFacts DEF p
  <2>2. q \in Nat
    BY <2>1, PairFacts DEF q
  <2>3. r \in Nat
    BY <2>2, PairFacts DEF r
  <2>4. /\ Pair(r) \in Seq(Byte) /\ Pair(q) \in Seq(Byte)
        /\ Pair(p) \in Seq(Byte) /\ Pair(n) \in Seq(Byte)
        /\ Len(Pair(r)) = 2 /\ Len(Pair(q)) = 2 /\ Len(Pair(p)) = 2 /\ Len(Pair(n)) = 2
    BY <2>1, <2>2, <2>3, PairFacts
  <2>5. BigEndian(n, width) = Pair(r) \o Pair(q) \o Pair(p) \o Pair(n)
    BY <1>3 DEF BigEndian, p, q, r
  <2> DEFINE e == Pair(r) \o Pair(q) \o Pair(p) \o Pair(n)
  <2>6. e \in Seq(Byte) /\ Len(e) = 8
    BY <2>4, FourPairs
  <2> HIDE DEF e
  <2>7. BigEndian(n, width) = e
    BY <2>5 DEF e
  <2> QED BY <1>3, <2>6, <2>7
<1> QED BY <1>1, <1>2, <1>3

(* Lengths are read as they were written.                                  *)
LEMMA BigEndianIsRead ==
  ASSUME NEW n \in Nat, NEW width \in {2, 8}, NEW b \in Seq(Byte),
         \A i \in 1 .. width : b[2 + i] = BigEndian(n, width)[i],
         n < 65536 * 65536 * 65536 * 65536, width = 2 => n < 65536
  PROVE  FromBigEndian(b, 3, width) = n
<1> DEFINE e == BigEndian(n, width)
<1> HIDE DEF e
<1>1. CASE width = 2
  <2>1. e = Pair(n)
    BY <1>1 DEF BigEndian, e
  <2>2. b[3] = e[1] /\ b[4] = e[2]
    BY <1>1 DEF e
  <2>3. PairAt(b, 3) = 256 * Pair(n)[1] + Pair(n)[2]
    BY <2>1, <2>2 DEF PairAt
  <2>4. PairAt(b, 3) = n
    BY <1>1, <2>3, PairFacts
  <2> QED BY <1>1, <2>4 DEF FromBigEndian
<1>2. CASE width = 8
  <2> DEFINE p == Pairs(n)  q == Pairs(p)  r == Pairs(q)
             v(x) == 256 * Pair(x)[1] + Pair(x)[2]
  <2> HIDE DEF p, q, r
  <2>1. /\ p \in Nat /\ q \in Nat /\ r \in Nat
        /\ v(n) = n % 65536 /\ v(p) = p % 65536 /\ v(q) = q % 65536 /\ v(r) = r % 65536
        /\ n = 65536 * p + v(n) /\ p = 65536 * q + v(p) /\ q = 65536 * r + v(q)
    <3>1. p \in Nat /\ v(n) = n % 65536 /\ n = 65536 * p + v(n)
      BY PairFacts DEF p
    <3>2. q \in Nat /\ v(p) = p % 65536 /\ p = 65536 * q + v(p)
      BY <3>1, PairFacts DEF q
    <3>3. r \in Nat /\ v(q) = q % 65536 /\ q = 65536 * r + v(q)
      BY <3>2, PairFacts DEF r
    <3>4. v(r) = r % 65536
      BY <3>3, PairFacts
    <3> QED BY <3>1, <3>2, <3>3, <3>4
  <2>2. e = Pair(r) \o Pair(q) \o Pair(p) \o Pair(n)
    BY <1>2 DEF BigEndian, e, p, q, r
  <2>3. /\ Pair(r) \in Seq(Byte) /\ Pair(q) \in Seq(Byte)
        /\ Pair(p) \in Seq(Byte) /\ Pair(n) \in Seq(Byte)
        /\ Len(Pair(r)) = 2 /\ Len(Pair(q)) = 2 /\ Len(Pair(p)) = 2 /\ Len(Pair(n)) = 2
    BY <2>1, PairFacts
  <2>4. /\ e[1] = Pair(r)[1] /\ e[2] = Pair(r)[2] /\ e[3] = Pair(q)[1] /\ e[4] = Pair(q)[2]
        /\ e[5] = Pair(p)[1] /\ e[6] = Pair(p)[2] /\ e[7] = Pair(n)[1] /\ e[8] = Pair(n)[2]
    BY <2>2, <2>3, FourPairs
  <2>5. /\ b[3] = e[1] /\ b[4] = e[2] /\ b[5] = e[3] /\ b[6] = e[4]
        /\ b[7] = e[5] /\ b[8] = e[6] /\ b[9] = e[7] /\ b[10] = e[8]
    BY <1>2 DEF e
  <2>6. PairAt(b, 3) = v(r) /\ PairAt(b, 5) = v(q)
    BY <2>4, <2>5 DEF PairAt
  <2>7. PairAt(b, 7) = v(p) /\ PairAt(b, 9) = v(n)
    BY <2>4, <2>5 DEF PairAt
  <2> HIDE DEF v
  <2>8. r < 65536
    BY <2>1
  <2>9. v(r) = r
    BY <2>1, <2>8
  <2>10. FromBigEndian(b, 3, 8) = 65536 * (65536 * (65536 * v(r) + v(q)) + v(p)) + v(n)
    BY <2>6, <2>7 DEF FromBigEndian
  <2>11. 65536 * (65536 * (65536 * r + v(q)) + v(p)) + v(n) = n
    BY <2>1
  <2> QED BY <1>2, <2>9, <2>10, <2>11
<1> QED BY <1>1, <1>2

(* Every header the encoder writes is the one that is parsed from it, with *)
(* the length of the payload, in each of the three forms, whatever bytes   *)
(* follow: what the encoder sends, a decoder reads.                        *)
THEOREM HeaderRoundTrip ==
  ASSUME NEW h \in Header, NEW n \in Nat, n < Word,
         n < 65536 * 65536 * 65536 * 65536, NEW rest \in Seq(Byte)
  PROVE  LET b == WriteHeader(h, n) \o rest IN
         /\ Complete(b) /\ HeaderIn(b) = h /\ LengthIn(b) = n
         /\ HeaderSize(b) = Len(WriteHeader(h, n))
<1> DEFINE x == h.op + Bit(h.fin, 128) + Bit(h.rsv1, 64) + Bit(h.rsv2, 32) + Bit(h.rsv3, 16)
           y == LengthByte(n) + Bit(h.mask # NoMask, 128)
           head == <<x, y>>
           width == ExtraBytes(LengthByte(n))
           e == BigEndian(n, width)
           m == h.mask
           he == head \o e
           w == he \o m
           b == w \o rest
<1>1. /\ x \in Byte /\ x % 16 = h.op
      /\ HasBit(x, 128) = h.fin /\ HasBit(x, 64) = h.rsv1
      /\ HasBit(x, 32) = h.rsv2 /\ HasBit(x, 16) = h.rsv3
  BY FirstByte DEF Header
<1>2. y \in Byte /\ y % 128 = LengthByte(n) /\ HasBit(y, 128) = (m # NoMask)
  BY SecondByte
<1> HIDE DEF x, y
<1>3. head \in Seq(Byte) /\ Len(head) = 2 /\ head[1] = x /\ head[2] = y
  BY <1>1, <1>2
<1>4. width \in {0, 2, 8}
  BY DEF ExtraBytes
<1>5. e \in Seq(Byte) /\ Len(e) = width
  BY <1>4, BigEndianSize
<1>6. m \in Seq(Byte) /\ Len(m) = (IF m # NoMask THEN 4 ELSE 0)
  <2>1. CASE m = NoMask
    BY <2>1 DEF NoMask
  <2>2. CASE m # NoMask
    <3>1. m \in [1 .. 4 -> Byte]
      BY <2>2 DEF Header, Mask
    <3> QED BY <2>2, <3>1
  <2> QED BY <2>1, <2>2
<1>7. WriteHeader(h, n) = w
  BY DEF WriteHeader, x, y
<1> HIDE DEF head, width, e, m, he, w, b
<1>8. he \in Seq(Byte) /\ Len(he) = Len(head) + Len(e)
  BY <1>3, <1>5, CatSeq DEF he
<1>9. w \in Seq(Byte) /\ Len(w) = Len(he) + Len(m)
  BY <1>6, <1>8, CatSeq DEF w
<1>10. b \in Seq(Byte) /\ Len(b) = Len(w) + Len(rest)
  BY <1>9, CatSeq DEF b
<1>11. Len(he) = 2 + width /\ Len(w) = 2 + width + Len(m) /\ Len(b) >= Len(w)
  BY <1>3, <1>4, <1>5, <1>8, <1>9, <1>10
<1>12. ASSUME NEW i \in 1 .. Len(he)
       PROVE  b[i] = he[i]
  <2>1. i \in 1 .. Len(w)
    BY <1>4, <1>6, <1>11
  <2>2. b[i] = w[i]
    BY <1>9, <2>1, CatLeft DEF b
  <2>3. w[i] = he[i]
    BY <1>6, <1>8, CatLeft DEF w
  <2> QED BY <2>2, <2>3
<1>13. ASSUME NEW i \in 1 .. Len(m)
       PROVE  b[2 + width + i] = m[i]
  <2>1. Len(he) + i \in 1 .. Len(w)
    BY <1>4, <1>6, <1>11
  <2>2. b[Len(he) + i] = w[Len(he) + i]
    BY <1>9, <2>1, CatLeft DEF b
  <2>3. w[Len(he) + i] = m[i]
    BY <1>6, <1>8, CatRight DEF w
  <2> QED BY <1>11, <2>2, <2>3
<1>14. ASSUME NEW i \in 1 .. width
       PROVE  b[2 + i] = e[i]
  <2>1. 2 + i \in 1 .. Len(he) /\ i \in 1 .. Len(e)
    BY <1>4, <1>5, <1>11
  <2>2. he[Len(head) + i] = e[i]
    BY <1>3, <1>5, <2>1, CatRight DEF he
  <2> QED BY <1>3, <1>12, <2>1, <2>2
<1>15. b[1] = x /\ b[2] = y
  <2>1. /\ 1 \in 1 .. Len(head) /\ 2 \in 1 .. Len(head)
        /\ 1 \in 1 .. Len(he) /\ 2 \in 1 .. Len(he)
    BY <1>3, <1>4, <1>11
  <2>2. he[1] = head[1] /\ he[2] = head[2]
    BY <1>3, <1>5, <2>1, CatLeft DEF he
  <2> QED BY <1>3, <1>12, <2>1, <2>2
<1>16. Extra(b) = width /\ IsMasked(b) = (m # NoMask)
  BY <1>2, <1>15 DEF Extra, IsMasked, width
<1>17. HeaderSize(b) = 2 + width + Len(m)
  BY <1>4, <1>6, <1>16 DEF HeaderSize
<1>18. Complete(b)
  BY <1>4, <1>6, <1>10, <1>11, <1>17 DEF Complete
<1>19. LengthIn(b) = n
  <2>1. n % Word = n
    BY WordAssumption
  <2>2. CASE width = 0
    <3>1. LengthByte(n) = n
      BY <2>2 DEF width, ExtraBytes, LengthByte
    <3> QED BY <1>2, <1>15, <1>16, <2>1, <2>2, <3>1 DEF LengthIn
  <2>3. CASE width # 0
    <3>1. width \in {2, 8} /\ (width = 2 => n < 65536)
      BY <1>4, <2>3 DEF width, ExtraBytes, LengthByte
    <3>2. \A i \in 1 .. width : b[2 + i] = BigEndian(n, width)[i]
      BY <1>14 DEF e
    <3>3. FromBigEndian(b, 3, width) = n
      BY <1>10, <3>1, <3>2, BigEndianIsRead
    <3> QED BY <1>16, <2>1, <2>3, <3>3 DEF LengthIn
  <2> QED BY <2>2, <2>3
<1>20. m # NoMask => SubSeq(b, 3 + width, 6 + width) = m
  <2> SUFFICES ASSUME m # NoMask
               PROVE  SubSeq(b, 3 + width, 6 + width) = m
    OBVIOUS
  <2>1. m \in [1 .. 4 -> Byte]
    BY DEF Header, Mask, m
  <2>2. SubSeq(b, 3 + width, 6 + width) = [i \in 1 .. 4 |-> b[i + (3 + width) - 1]]
    BY <1>4
  <2>3. \A i \in 1 .. 4 : b[i + (3 + width) - 1] = m[i]
    BY <1>4, <1>6, <1>13
  <2>4. SubSeq(b, 3 + width, 6 + width) = [i \in 1 .. 4 |-> m[i]]
    BY <2>2, <2>3
  <2> QED BY <2>1, <2>4
<1>21. HeaderIn(b) = h
  <2>1. h = [fin |-> h.fin, rsv1 |-> h.rsv1, rsv2 |-> h.rsv2, rsv3 |-> h.rsv3,
             op |-> h.op, mask |-> h.mask]
    BY DEF Header
  <2>2. (IF IsMasked(b) THEN SubSeq(b, 3 + Extra(b), 6 + Extra(b)) ELSE NoMask) = h.mask
    BY <1>16, <1>20 DEF m
  <2> QED BY <1>1, <1>15, <2>1, <2>2 DEF HeaderIn
<1> QED BY <1>7, <1>11, <1>17, <1>18, <1>19, <1>21 DEF b
-----------------------------------------------------------------------------
(* Headers.                                                                *)

(* The bytes between two positions of the stream.                          *)
LEMMA BytesHere ==
  ASSUME NEW w \in Seq(Byte), NEW p \in Nat, NEW a \in Nat, p <= a, a <= Len(w)
  PROVE  /\ SubSeq(w, p + 1, a) \in Seq(Byte)
         /\ Len(SubSeq(w, p + 1, a)) = a - p
         /\ \A i \in 1 .. a - p : SubSeq(w, p + 1, a)[i] = w[p + i]
OBVIOUS

(* How long a header is, from its second byte.                             *)
LEMMA SizeFacts ==
  ASSUME NEW b \in Seq(Byte), Len(b) >= 2
  PROVE  /\ Extra(b) \in {0, 2, 8}
         /\ HeaderSize(b) \in Nat /\ HeaderSize(b) >= 2 + Extra(b)
         /\ IsMasked(b) => HeaderSize(b) = 6 + Extra(b)
BY DEF Extra, ExtraBytes, HeaderSize

(* Bytes, and the numbers of two bytes, are natural numbers.               *)
LEMMA ByteIsNat ==
  ASSUME NEW x \in Byte
  PROVE  x \in Nat
BY DEF Byte

LEMMA PairIsNat ==
  ASSUME NEW b \in Seq(Byte), NEW i \in Nat \ {0}, i < Len(b)
  PROVE  PairAt(b, i) \in Nat
<1>1. i \in 1 .. Len(b) /\ i + 1 \in 1 .. Len(b)
  OBVIOUS
<1>2. b[i] \in Byte /\ b[i + 1] \in Byte
  BY <1>1
<1>3. b[i] \in Nat /\ b[i + 1] \in Nat
  BY <1>2, ByteIsNat
<1> QED BY <1>3 DEF PairAt

(* The length in a complete header is a natural number.                    *)
LEMMA LengthIsNat ==
  ASSUME NEW b \in Seq(Byte), Complete(b)
  PROVE  LengthIn(b) \in Nat
<1>1. Len(b) >= 2 /\ b[2] \in Nat
  <2>1. Len(b) >= 2
    BY DEF Complete
  <2>2. b[2] \in Byte
    BY <2>1
  <2> QED BY <2>1, <2>2, ByteIsNat
<1>2. Extra(b) \in {0, 2, 8} /\ Len(b) >= 2 + Extra(b)
  BY <1>1, SizeFacts DEF Complete
<1>3. \A n \in Nat : n % Word \in Nat
  BY WordAssumption
<1>4. Extra(b) # 0 => FromBigEndian(b, 3, Extra(b)) \in Nat
  <2>1. CASE Extra(b) = 2
    <3>1. PairAt(b, 3) \in Nat
      BY <1>1, <1>2, <2>1, PairIsNat
    <3> QED BY <2>1, <3>1 DEF FromBigEndian
  <2>2. CASE Extra(b) = 8
    <3>1. PairAt(b, 3) \in Nat /\ PairAt(b, 5) \in Nat
      BY <1>1, <1>2, <2>2, PairIsNat
    <3>2. PairAt(b, 7) \in Nat /\ PairAt(b, 9) \in Nat
      BY <1>1, <1>2, <2>2, PairIsNat
    <3>3. FromBigEndian(b, 3, 8) =
            65536 * (65536 * (65536 * PairAt(b, 3) + PairAt(b, 5)) + PairAt(b, 7))
              + PairAt(b, 9)
      BY DEF FromBigEndian
    <3> QED BY <2>2, <3>1, <3>2, <3>3
  <2> QED BY <1>2, <2>1, <2>2
<1>5. b[2] % 128 \in Nat
  BY <1>1
<1> QED BY <1>3, <1>4, <1>5 DEF LengthIn

(* A header that is complete is the same when more bytes follow.           *)
LEMMA LongerIsSame ==
  ASSUME NEW b \in Seq(Byte), NEW r \in Seq(Byte), Complete(b),
         Len(b) <= Len(r), \A i \in 1 .. Len(b) : r[i] = b[i]
  PROVE  /\ Complete(r) /\ HeaderSize(r) = HeaderSize(b)
         /\ HeaderIn(r) = HeaderIn(b) /\ LengthIn(r) = LengthIn(b)
<1>1. Len(b) >= 2 /\ r[1] = b[1] /\ r[2] = b[2]
  BY DEF Complete
<1>2. Extra(r) = Extra(b) /\ IsMasked(r) = IsMasked(b) /\ HeaderSize(r) = HeaderSize(b)
  BY <1>1 DEF Extra, IsMasked, HeaderSize
<1>3. /\ Extra(b) \in {0, 2, 8} /\ Len(b) >= 2 + Extra(b)
      /\ IsMasked(b) => Len(b) >= 6 + Extra(b)
  BY <1>1, SizeFacts DEF Complete
<1>4. Complete(r)
  BY <1>1, <1>2, SizeFacts DEF Complete
<1>5. LengthIn(r) = LengthIn(b)
  <2>1. CASE Extra(b) = 0
    BY <1>1, <1>2, <2>1 DEF LengthIn
  <2>2. CASE Extra(b) = 2
    <3>1. r[3] = b[3] /\ r[4] = b[4]
      BY <1>3, <2>2
    <3> QED BY <1>1, <1>2, <2>2, <3>1 DEF LengthIn, FromBigEndian, PairAt
  <2>3. CASE Extra(b) = 8
    <3>1. /\ r[3] = b[3] /\ r[4] = b[4] /\ r[5] = b[5] /\ r[6] = b[6]
          /\ r[7] = b[7] /\ r[8] = b[8] /\ r[9] = b[9] /\ r[10] = b[10]
      BY <1>3, <2>3
    <3>2. /\ PairAt(r, 3) = PairAt(b, 3) /\ PairAt(r, 5) = PairAt(b, 5)
          /\ PairAt(r, 7) = PairAt(b, 7) /\ PairAt(r, 9) = PairAt(b, 9)
      BY <3>1 DEF PairAt
    <3>3. FromBigEndian(r, 3, 8) = FromBigEndian(b, 3, 8)
      BY <3>2 DEF FromBigEndian
    <3> QED BY <1>1, <1>2, <2>3, <3>3 DEF LengthIn
  <2> QED BY <1>3, <2>1, <2>2, <2>3
<1>6. IsMasked(b) => SubSeq(r, 3 + Extra(r), 6 + Extra(r))
                       = SubSeq(b, 3 + Extra(b), 6 + Extra(b))
  <2> DEFINE e == Extra(b)
  <2>1. ASSUME IsMasked(b), NEW i \in 1 .. 4
        PROVE  r[i + (3 + e) - 1] = b[i + (3 + e) - 1]
    <3>1. i + (3 + e) - 1 \in 1 .. Len(b)
      BY <1>3, <2>1
    <3> QED BY <3>1
  <2>2. e \in Nat
    BY <1>3
  <2> HIDE DEF e
  <2>3. /\ SubSeq(r, 3 + e, 6 + e) = [i \in 1 .. 4 |-> r[i + (3 + e) - 1]]
        /\ SubSeq(b, 3 + e, 6 + e) = [i \in 1 .. 4 |-> b[i + (3 + e) - 1]]
    BY <2>2
  <2> QED BY <1>2, <2>1, <2>3 DEF e
<1>7. HeaderIn(r) = HeaderIn(b)
  BY <1>1, <1>2, <1>6 DEF HeaderIn
<1> QED BY <1>2, <1>4, <1>5, <1>7

(* The abstract specification parses headers by the same definitions.      *)
LEMMA ParsesAlike ==
  ASSUME NEW b
  PROVE  /\ Whole!Complete(b) = Complete(b) /\ Whole!HeaderSize(b) = HeaderSize(b)
         /\ Whole!HeaderIn(b) = HeaderIn(b) /\ Whole!LengthIn(b) = LengthIn(b)
<1>1. \A byte : Whole!ExtraBytes(byte) = ExtraBytes(byte)
  BY DEF ExtraBytes, Whole!ExtraBytes
<1>2. Whole!Extra(b) = Extra(b)
  BY <1>1 DEF Extra, Whole!Extra
<1>3. \A byte, n : Whole!HasBit(byte, n) = HasBit(byte, n)
  BY DEF HasBit, Whole!HasBit
<1>4. Whole!IsMasked(b) = IsMasked(b)
  BY <1>3 DEF IsMasked, Whole!IsMasked
<1>5. Whole!HeaderSize(b) = HeaderSize(b)
  BY <1>2, <1>4 DEF HeaderSize, Whole!HeaderSize
<1>6. Whole!Complete(b) = Complete(b)
  BY <1>5 DEF Complete, Whole!Complete
<1>7. Whole!HeaderIn(b) = HeaderIn(b)
  BY <1>2, <1>3, <1>4 DEF HeaderIn, Whole!HeaderIn, NoMask, Whole!NoMask
<1>8. Whole!FromBigEndian(b, 3, Extra(b)) = FromBigEndian(b, 3, Extra(b))
  <2>1. \A i : Whole!PairAt(b, i) = PairAt(b, i)
    BY DEF PairAt, Whole!PairAt
  <2> QED BY <2>1 DEF FromBigEndian, Whole!FromBigEndian
<1>9. Whole!LengthIn(b) = LengthIn(b)
  BY <1>2, <1>8 DEF LengthIn, Whole!LengthIn
<1> QED BY <1>5, <1>6, <1>7, <1>9

LEMMA ReservedAlike ==
  ASSUME NEW op
  PROVE  Whole!IsReserved(op) = IsReserved(op)
BY DEF IsReserved, Whole!IsReserved

-----------------------------------------------------------------------------
(* The inductive invariant: a header that is kept is that of the frame at  *)
(* `begin', out of the buffer and accepted; and the decoder asks for more  *)
(* only where something of this frame is missing.                          *)

KeptHeader ==
  verdict = "Ok" /\ header.here =>
    /\ Complete(Whole!Rest)
    /\ pos = begin + HeaderSize(Whole!Rest)
    /\ header = [header |-> HeaderIn(Whole!Rest), len |-> LengthIn(Whole!Rest), here |-> TRUE]
    /\ ~IsReserved(HeaderIn(Whole!Rest).op)
    /\ \E c \in Configs : LengthIn(Whole!Rest) <= c.maxFrame
AtBegin == verdict = "Ok" /\ ~header.here => pos = begin
AsksForMore ==
  verdict = "Ok" /\ hungry =>
    IF header.here THEN arrived - pos < header.len ELSE ~Complete(src)

ReadInv == TypeOK /\ KeptHeader /\ AtBegin /\ AsksForMore

(* The buffer is the beginning of what is left, between two frames.        *)
LEMMA SrcFacts ==
  ASSUME TypeOK
  PROVE  /\ src \in Seq(Byte) /\ Len(src) = arrived - pos
         /\ Whole!Rest \in Seq(Byte) /\ Len(Whole!Rest) = Len(wire) - begin
         /\ pos = begin => \A i \in 1 .. Len(src) : Whole!Rest[i] = src[i]
<1>1. /\ wire \in Seq(Byte) /\ pos \in Nat /\ arrived \in Nat /\ begin \in Nat
      /\ pos <= arrived /\ arrived <= Len(wire) /\ begin <= pos /\ Len(wire) \in Nat
  BY DEF TypeOK
<1>2. /\ src \in Seq(Byte) /\ Len(src) = arrived - pos
      /\ \A i \in 1 .. arrived - pos : src[i] = wire[pos + i]
  BY <1>1, BytesHere DEF src
<1>3. /\ Whole!Rest \in Seq(Byte) /\ Len(Whole!Rest) = Len(wire) - begin
      /\ \A i \in 1 .. Len(wire) - begin : Whole!Rest[i] = wire[begin + i]
  BY <1>1, BytesHere DEF Whole!Rest
<1> QED BY <1>1, <1>2, <1>3

(* The header that decode() works with is that of the frame at `begin'.    *)
LEMMA CurrentFacts ==
  ASSUME ReadInv, verdict = "Ok", HasHeader
  PROVE  /\ Complete(Whole!Rest)
         /\ Current = [header |-> HeaderIn(Whole!Rest), len |-> LengthIn(Whole!Rest),
                       here |-> TRUE]
         /\ PayloadAt = begin + HeaderSize(Whole!Rest)
         /\ PayloadAt \in pos .. arrived
         /\ Current.len \in Nat
<1>1. /\ pos \in Nat /\ arrived \in Nat /\ begin \in Nat
      /\ pos <= arrived /\ begin <= pos
  BY DEF ReadInv, TypeOK
<1>2. /\ src \in Seq(Byte) /\ Len(src) = arrived - pos
      /\ Whole!Rest \in Seq(Byte) /\ Len(Whole!Rest) = Len(wire) - begin
      /\ pos = begin => \A i \in 1 .. Len(src) : Whole!Rest[i] = src[i]
  BY SrcFacts DEF ReadInv
<1>3. CASE header.here
  <2>1. LengthIn(Whole!Rest) \in Nat
    BY <1>2, <1>3, LengthIsNat DEF ReadInv, KeptHeader
  <2> QED BY <1>1, <1>3, <2>1 DEF ReadInv, KeptHeader, Current, PayloadAt
<1>4. CASE ~header.here
  <2>1. Complete(src) /\ pos = begin
    BY <1>4 DEF HasHeader, ReadInv, AtBegin
  <2>2. Len(src) <= Len(Whole!Rest)
    BY <1>1, <1>2, <2>1 DEF ReadInv, TypeOK
  <2>3. /\ Complete(Whole!Rest) /\ HeaderSize(Whole!Rest) = HeaderSize(src)
        /\ HeaderIn(Whole!Rest) = HeaderIn(src) /\ LengthIn(Whole!Rest) = LengthIn(src)
    BY <1>2, <2>1, <2>2, LongerIsSame
  <2>4. HeaderSize(src) \in Nat /\ HeaderSize(src) <= arrived - pos
    BY <1>2, <2>1, SizeFacts DEF Complete
  <2>5. LengthIn(src) \in Nat
    BY <1>2, <2>1, LengthIsNat
  <2> QED BY <1>1, <1>4, <2>1, <2>3, <2>4, <2>5 DEF Current, PayloadAt
<1> QED BY <1>3, <1>4

(* What passed its checks is neither reserved nor over a limit.            *)
LEMMA AcceptedFacts ==
  ASSUME ReadInv, verdict = "Ok", HasHeader, HeaderError = "Ok"
  PROVE  /\ ~IsReserved(HeaderIn(Whole!Rest).op)
         /\ \E c \in Configs : LengthIn(Whole!Rest) <= c.maxFrame
<1>1. CASE header.here
  BY <1>1 DEF ReadInv, KeptHeader
<1>2. CASE ~header.here
  <2>1. /\ Current.header = HeaderIn(Whole!Rest) /\ Current.len = LengthIn(Whole!Rest)
        /\ Current.len \in Nat
    BY CurrentFacts
  <2>2. ~IsReserved(Current.header.op) /\ ~(Current.len > cfg.maxFrame)
    BY <1>2 DEF HeaderError
  <2>3. cfg \in Configs /\ cfg.maxFrame \in Nat
    BY DecoderConfigsAssumption DEF ReadInv, TypeOK, DecoderConfig
  <2> QED BY <2>1, <2>2, <2>3
<1> QED BY <1>1, <1>2

(* A payload that is there ends where the whole frame does.                *)
LEMMA ReadyFacts ==
  ASSUME ReadInv, verdict = "Ok", Ready
  PROVE  /\ PayloadAt + Current.len = Whole!FrameEnd
         /\ PayloadAt + Current.len \in pos .. arrived
         /\ Whole!FrameEnd <= Len(wire)
         /\ Payload = Whole!Body /\ Payload \in Seq(Byte)
         /\ \E c \in Configs : Whole!WholeFrame(c)
<1>0. HasHeader /\ HeaderError = "Ok" /\ arrived - PayloadAt >= Current.len
  BY DEF Ready, Fits
<1>1. /\ Complete(Whole!Rest)
      /\ Current = [header |-> HeaderIn(Whole!Rest), len |-> LengthIn(Whole!Rest),
                    here |-> TRUE]
      /\ PayloadAt = begin + HeaderSize(Whole!Rest)
      /\ PayloadAt \in pos .. arrived
      /\ Current.len \in Nat
  BY <1>0, CurrentFacts
<1>2. /\ ~IsReserved(HeaderIn(Whole!Rest).op)
      /\ \E c \in Configs : LengthIn(Whole!Rest) <= c.maxFrame
  BY <1>0, AcceptedFacts
<1>3. /\ pos \in Nat /\ arrived \in Nat /\ arrived <= Len(wire) /\ Len(wire) \in Nat
      /\ wire \in Seq(Byte) /\ begin \in Nat
  BY DEF ReadInv, TypeOK
<1>4. HeaderSize(Whole!Rest) \in Nat /\ LengthIn(Whole!Rest) \in Nat
  BY <1>1, SrcFacts, SizeFacts, LengthIsNat DEF ReadInv, Complete
<1>5. PayloadAt + Current.len = Whole!FrameEnd
  BY <1>1, <1>3, <1>4, ParsesAlike DEF Whole!FrameEnd
<1>6. /\ PayloadAt + Current.len \in pos .. arrived /\ Whole!FrameEnd <= Len(wire)
  BY <1>0, <1>1, <1>3, <1>5
<1>7. Payload = Whole!Body
  BY <1>1, <1>3, <1>4, <1>5, ParsesAlike DEF Payload, Whole!Body
<1>8. Payload \in Seq(Byte)
  <2> DEFINE end == PayloadAt + Current.len
  <2>1. PayloadAt \in Nat /\ end \in Nat /\ PayloadAt <= end /\ end <= Len(wire)
    BY <1>1, <1>3, <1>5, <1>6
  <2> QED BY <1>3, <2>1, BytesHere DEF Payload
<1>9. \E c \in Configs : Whole!WholeFrame(c)
  BY <1>1, <1>2, <1>6, ParsesAlike, ReservedAlike DEF Whole!WholeFrame
<1> QED BY <1>5, <1>6, <1>7, <1>8, <1>9

(* The invariant holds at first, and every step preserves it.              *)
LEMMA ReadInvInit == Init => ReadInv
<1> SUFFICES ASSUME Init PROVE ReadInv
  OBVIOUS
<1>1. wire \in Seq(Byte)
  BY StreamsAssumption DEF Init
<1>2. TypeOK
  <2>1. header.here = FALSE
    BY DEF Init, NoHeader
  <2>2. arrived \in Nat /\ arrived <= Len(wire) /\ pos = 0 /\ begin = 0
    BY <1>1 DEF Init
  <2>3. arrived \in 0 .. Len(wire) /\ pos \in 0 .. arrived /\ begin \in 0 .. pos
    BY <1>1, <2>2
  <2>4. /\ unmask \in BOOLEAN /\ cfg \in Configs /\ hungry = FALSE
        /\ verdict = "Ok" /\ changes = 0
    BY DEF Init
  <2> QED BY <1>1, <2>1, <2>3, <2>4 DEF TypeOK
<1> QED BY <1>2 DEF Init, ReadInv, KeptHeader, AtBegin, AsksForMore, NoHeader

LEMMA ReadInvStep == ReadInv /\ [Next]_vars => ReadInv'
<1> SUFFICES ASSUME ReadInv, [Next]_vars PROVE ReadInv'
  OBVIOUS
<1> USE DEF ReadInv
<1>1. /\ wire \in Seq(Byte) /\ Len(wire) \in Nat /\ arrived \in Nat /\ pos \in Nat
      /\ begin \in Nat /\ arrived <= Len(wire) /\ pos <= arrived /\ begin <= pos
      /\ changes \in Nat
  BY DEF TypeOK
<1>2. wire' = wire /\ begin' = begin => Whole!Rest' = Whole!Rest
  BY DEF Whole!Rest
<1>3. CASE NeedHeader
  <2>1. /\ UNCHANGED <<stream, arrived, pos, header, cfg, yielded, verdict, begin, changes>>
        /\ hungry' = TRUE /\ ~header.here /\ ~Complete(src)
    BY <1>3 DEF NeedHeader, HasHeader
  <2>2. TypeOK'
    BY <2>1 DEF TypeOK, stream
  <2>3. KeptHeader' /\ AtBegin'
    BY <2>1 DEF KeptHeader, AtBegin
  <2>4. AsksForMore'
    BY <2>1 DEF AsksForMore, src, stream
  <2> QED BY <2>2, <2>3, <2>4
<1>4. CASE NeedPayload
  <2>1. /\ verdict = "Ok" /\ HasHeader /\ HeaderError = "Ok"
        /\ ~(arrived - PayloadAt >= Current.len)
        /\ hungry' = TRUE /\ header' = Current /\ pos' = PayloadAt
        /\ UNCHANGED <<stream, arrived, cfg, yielded, verdict, begin, changes>>
    BY <1>4 DEF NeedPayload, Called, Ready, Kept, Fits
  <2>2. /\ Complete(Whole!Rest)
        /\ Current = [header |-> HeaderIn(Whole!Rest), len |-> LengthIn(Whole!Rest),
                      here |-> TRUE]
        /\ PayloadAt = begin + HeaderSize(Whole!Rest)
        /\ PayloadAt \in pos .. arrived
        /\ Current.len \in Nat
    BY <2>1, CurrentFacts
  <2>3. /\ ~IsReserved(HeaderIn(Whole!Rest).op)
        /\ \E c \in Configs : LengthIn(Whole!Rest) <= c.maxFrame
    BY <2>1, AcceptedFacts
  <2>4. TypeOK'
    BY <1>1, <2>1, <2>2 DEF TypeOK, stream
  <2>5. Whole!Rest' = Whole!Rest
    BY <1>2, <2>1 DEF stream
  <2>6. KeptHeader'
    BY <2>1, <2>2, <2>3, <2>5 DEF KeptHeader
  <2>7. AtBegin'
    BY <2>1, <2>2 DEF AtBegin
  <2>8. AsksForMore'
    BY <1>1, <2>1, <2>2 DEF AsksForMore
  <2> QED BY <2>4, <2>6, <2>7, <2>8
<1>5. CASE RefuseHeader
  <2>1. /\ verdict = "Ok" /\ HasHeader /\ verdict' # "Ok"
        /\ verdict' \in {"InvalidOpcode", "Capacity"}
        /\ pos' \in {pos, PayloadAt}
        /\ UNCHANGED <<stream, arrived, header, cfg, hungry, yielded, begin, changes>>
    BY <1>5 DEF RefuseHeader, Called, HeaderError
  <2>2. PayloadAt \in pos .. arrived
    BY <2>1, CurrentFacts
  <2>3. TypeOK'
    BY <1>1, <2>1, <2>2 DEF TypeOK, stream
  <2> QED BY <2>1, <2>3 DEF KeptHeader, AtBegin, AsksForMore
<1>6. CASE RefuseUnmasked
  <2>1. /\ verdict = "Ok" /\ Ready /\ verdict' = "UnmaskedFrameFromClient"
        /\ pos' = PayloadAt + Current.len /\ header' = NoHeader
        /\ UNCHANGED <<stream, arrived, cfg, hungry, yielded, begin, changes>>
    BY <1>6 DEF RefuseUnmasked, Called, Split
  <2>2. PayloadAt + Current.len \in pos .. arrived
    BY <2>1, ReadyFacts
  <2>3. TypeOK'
    BY <1>1, <2>1, <2>2 DEF TypeOK, stream, NoHeader
  <2> QED BY <2>1, <2>3 DEF KeptHeader, AtBegin, AsksForMore
<1>7. CASE YieldFrame
  <2>1. /\ verdict = "Ok" /\ Ready /\ ~hungry
        /\ pos' = PayloadAt + Current.len /\ begin' = pos' /\ header' = NoHeader
        /\ UNCHANGED <<stream, arrived, cfg, hungry, verdict, changes>>
    BY <1>7 DEF YieldFrame, Called, Split
  <2>2. PayloadAt + Current.len \in pos .. arrived
    BY <2>1, ReadyFacts
  <2>3. TypeOK'
    BY <1>1, <2>1, <2>2 DEF TypeOK, stream, NoHeader
  <2> QED BY <2>1, <2>3 DEF KeptHeader, AtBegin, AsksForMore, NoHeader
<1>8. CASE Arrive
  <2>1. /\ arrived' \in arrived + 1 .. Len(wire) /\ hungry' = FALSE
        /\ UNCHANGED <<stream, pos, header, cfg, yielded, verdict, begin, changes>>
    BY <1>8 DEF Arrive
  <2>2. TypeOK'
    <3>1. /\ arrived' \in 0 .. Len(wire) /\ arrived <= arrived'
          /\ pos \in 0 .. arrived' /\ begin \in 0 .. pos
      BY <1>1, <2>1
    <3> QED BY <2>1, <3>1 DEF TypeOK, stream
  <2>3. Whole!Rest' = Whole!Rest
    BY <1>2, <2>1 DEF stream
  <2>4. KeptHeader' /\ AtBegin' /\ AsksForMore'
    BY <2>1, <2>3 DEF KeptHeader, AtBegin, AsksForMore
  <2> QED BY <2>2, <2>4
<1>9. CASE AtEnd
  <2>1. /\ verdict' \in {"End", "Io"}
        /\ UNCHANGED <<stream, arrived, pos, header, cfg, hungry, yielded, begin, changes>>
    BY <1>9 DEF AtEnd
  <2>2. TypeOK'
    BY <2>1 DEF TypeOK, stream
  <2> QED BY <2>1, <2>2 DEF KeptHeader, AtBegin, AsksForMore
<1>10. CASE SetConfig
  <2>1. /\ cfg' \in Configs /\ changes' = changes + 1
        /\ UNCHANGED <<stream, arrived, pos, header, hungry, yielded, verdict, begin>>
    BY <1>10 DEF SetConfig
  <2>2. TypeOK'
    BY <1>1, <2>1 DEF TypeOK, stream
  <2>3. Whole!Rest' = Whole!Rest
    BY <1>2, <2>1 DEF stream
  <2>4. KeptHeader' /\ AtBegin' /\ AsksForMore'
    BY <2>1, <2>3 DEF KeptHeader, AtBegin, AsksForMore, src, stream
  <2> QED BY <2>2, <2>4
<1>11. CASE UNCHANGED vars
  <2>1. Whole!Rest' = Whole!Rest
    BY <1>2, <1>11 DEF vars, stream
  <2>2. TypeOK' /\ KeptHeader' /\ AtBegin' /\ AsksForMore'
    BY <1>11, <2>1 DEF vars, stream, TypeOK, KeptHeader, AtBegin, AsksForMore, src
  <2> QED BY <2>2
<1> QED BY <1>3, <1>4, <1>5, <1>6, <1>7, <1>8, <1>9, <1>10, <1>11
        DEF Next, Decode, Read, Over

LEMMA ReadInvHolds == Spec => []ReadInv
BY ReadInvInit, ReadInvStep, PTL DEF Spec

(* No decoded length, no prefix of a header takes decode() past the bytes  *)
(* that were read: split_to() cannot panic.                                *)
THEOREM DecoderTypeCorrect == Spec => []TypeOK
<1>1. ReadInv => TypeOK
  BY DEF ReadInv
<1> QED BY <1>1, ReadInvHolds, PTL

-----------------------------------------------------------------------------
(* The refinement.                                                         *)

(* The refinement, at first.                                               *)
LEMMA InitRefines == Init => Whole!Init
<1> SUFFICES ASSUME Init PROVE Whole!Init
  OBVIOUS
<1>1. wire \in Seq(Byte)
  BY StreamsAssumption DEF Init
<1>2. wire \in Seq(Whole!Byte)
  BY <1>1 DEF Byte, Whole!Byte
<1> QED BY <1>2 DEF Init, Whole!Init

(* What is decoded is what the whole stream has there: the mask meets each *)
(* byte at its offset, however the payload lies in the buffer.             *)
LEMMA DecodedIsFrameHere ==
  ASSUME ReadInv, verdict = "Ok", Ready, NEW align \in 0 .. 3
  PROVE  Decoded(align) = Whole!FrameHere
<1>1. HasHeader
  BY DEF Ready
<1>2. /\ Current.header = HeaderIn(Whole!Rest)
      /\ Whole!HeaderIn(Whole!Rest) = HeaderIn(Whole!Rest)
  BY <1>1, CurrentFacts, ParsesAlike
<1>3. Payload = Whole!Body /\ Payload \in Seq(Byte)
  BY ReadyFacts
<1>4. ASSUME NEW mask
      PROVE  ApplyMask(Payload, mask, align) = Whole!Unmasked(Whole!Body, mask)
  BY <1>3, ApplyMaskIs DEF Whole!Unmasked
<1> QED BY <1>2, <1>3, <1>4 DEF Decoded, Whole!FrameHere, NoMask, Whole!NoMask

(* A frame that is yielded is one Yield of the specification, a refusal or *)
(* the end of the stream one Stop, and every other step is invisible to it.*)
LEMMA StepRefines == ReadInv /\ [Next]_vars => [Whole!Next]_Whole!vars
<1> SUFFICES ASSUME ReadInv, [Next]_vars PROVE [Whole!Next]_Whole!vars
  OBVIOUS
<1>1. /\ wire \in Seq(Byte) /\ Len(wire) \in Nat /\ arrived \in Nat /\ pos \in Nat
      /\ begin \in Nat /\ arrived <= Len(wire) /\ pos <= arrived /\ begin <= pos
  BY DEF ReadInv, TypeOK
<1>2. CASE NeedHeader \/ NeedPayload \/ Arrive \/ SetConfig \/ UNCHANGED vars
  BY <1>2 DEF NeedHeader, NeedPayload, Arrive, SetConfig, vars, stream, Whole!vars
<1>3. CASE YieldFrame
  <2>1. /\ verdict = "Ok" /\ Ready /\ ~LacksMask
        /\ \E align \in 0 .. 3 : yielded' = Append(yielded, Decoded(align))
        /\ begin' = PayloadAt + Current.len
        /\ UNCHANGED <<wire, unmask, verdict>>
    BY <1>3 DEF YieldFrame, Called, Split, stream
  <2>2. /\ PayloadAt + Current.len = Whole!FrameEnd
        /\ \E c \in Configs : Whole!WholeFrame(c)
    BY <2>1, ReadyFacts
  <2>3. yielded' = Append(yielded, Whole!FrameHere)
    BY <2>1, DecodedIsFrameHere
  <2>4. HasHeader
    BY <2>1 DEF Ready
  <2>5. Current.header = Whole!HeaderIn(Whole!Rest)
    BY <2>1, <2>4, CurrentFacts, ParsesAlike
  <2>6. cfg \in Configs /\ cfg.acceptUnmasked \in BOOLEAN
    BY DecoderConfigsAssumption DEF ReadInv, TypeOK, DecoderConfig
  <2>7. \/ ~unmask \/ Whole!HeaderIn(Whole!Rest).mask # Whole!NoMask
        \/ \E c \in Configs : c.acceptUnmasked
    BY <2>1, <2>5, <2>6 DEF LacksMask, NoMask, Whole!NoMask
  <2>8. Whole!Yield
    BY <2>1, <2>2, <2>3, <2>7 DEF Whole!Yield
  <2> QED BY <2>8 DEF Whole!Next
<1>4. CASE RefuseHeader
  <2>1. /\ verdict = "Ok" /\ HasHeader /\ HeaderError # "Ok" /\ verdict' = HeaderError
        /\ UNCHANGED <<wire, unmask, begin, yielded>>
    BY <1>4 DEF RefuseHeader, Called, stream
  <2>2. /\ Complete(Whole!Rest)
        /\ Current.header = HeaderIn(Whole!Rest) /\ Current.len = LengthIn(Whole!Rest)
    BY <2>1, CurrentFacts
  <2>3. \/ HeaderError = "InvalidOpcode" /\ IsReserved(Current.header.op)
        \/ /\ HeaderError = "Capacity" /\ ~IsReserved(Current.header.op)
           /\ Current.len > cfg.maxFrame
    BY <2>1 DEF HeaderError
  <2>4. cfg \in Configs
    BY DEF ReadInv, TypeOK
  <2>5. Whole!Refused(HeaderError)
    <3>1. CASE HeaderError = "InvalidOpcode"
      BY <2>2, <2>3, <3>1, ParsesAlike, ReservedAlike DEF Whole!Refused
    <3>2. CASE HeaderError = "Capacity"
      <4>1. \E c \in Configs : Whole!LengthIn(Whole!Rest) > c.maxFrame
        BY <2>2, <2>3, <2>4, <3>2, ParsesAlike
      <4>2. /\ Whole!Complete(Whole!Rest)
            /\ ~Whole!IsReserved(Whole!HeaderIn(Whole!Rest).op)
        BY <2>2, <2>3, <3>2, ParsesAlike, ReservedAlike
      <4> QED BY <3>2, <4>1, <4>2 DEF Whole!Refused
    <3> QED BY <2>3, <3>1, <3>2
  <2>6. Whole!Stop
    BY <2>1, <2>3, <2>5 DEF Whole!Stop
  <2> QED BY <2>6 DEF Whole!Next
<1>5. CASE RefuseUnmasked
  <2>1. /\ verdict = "Ok" /\ Ready /\ LacksMask /\ verdict' = "UnmaskedFrameFromClient"
        /\ UNCHANGED <<wire, unmask, begin, yielded>>
    BY <1>5 DEF RefuseUnmasked, Called, stream
  <2>2. \E c \in Configs : Whole!WholeFrame(c)
    BY <2>1, ReadyFacts
  <2>3. HasHeader
    BY <2>1 DEF Ready
  <2>4. Current.header = Whole!HeaderIn(Whole!Rest)
    BY <2>1, <2>3, CurrentFacts, ParsesAlike
  <2>5. cfg \in Configs
    BY DEF ReadInv, TypeOK
  <2>6. Whole!Refused("UnmaskedFrameFromClient")
    BY <2>1, <2>2, <2>4, <2>5 DEF Whole!Refused, LacksMask, NoMask, Whole!NoMask
  <2>7. Whole!Stop
    BY <2>1, <2>6 DEF Whole!Stop
  <2> QED BY <2>7 DEF Whole!Next
<1>6. CASE AtEnd
  <2>1. /\ verdict = "Ok" /\ hungry /\ arrived = Len(wire)
        /\ verdict' = IF pos = arrived THEN "End" ELSE "Io"
        /\ UNCHANGED <<wire, unmask, begin, yielded>>
    BY <1>6 DEF AtEnd, stream
  <2>2. ~Whole!Complete(Whole!Rest) \/ Whole!FrameEnd > Len(wire)
    <3>1. CASE header.here
      <4>1. /\ Complete(Whole!Rest) /\ pos = begin + HeaderSize(Whole!Rest)
            /\ header.len = LengthIn(Whole!Rest)
            /\ arrived - pos < header.len
        BY <2>1, <3>1 DEF ReadInv, KeptHeader, AsksForMore
      <4>2. HeaderSize(Whole!Rest) \in Nat /\ LengthIn(Whole!Rest) \in Nat
        BY <4>1, SrcFacts, SizeFacts, LengthIsNat DEF ReadInv, Complete
      <4>3. Whole!FrameEnd = pos + header.len
        BY <1>1, <4>1, <4>2, ParsesAlike DEF Whole!FrameEnd
      <4> QED BY <1>1, <2>1, <4>1, <4>2, <4>3
    <3>2. CASE ~header.here
      <4>1. ~Complete(src) /\ pos = begin
        BY <2>1, <3>2 DEF ReadInv, AtBegin, AsksForMore
      <4>2. Whole!Rest = src
        BY <2>1, <4>1 DEF Whole!Rest, src
      <4> QED BY <4>1, <4>2, ParsesAlike
    <3> QED BY <3>1, <3>2
  <2>3. pos # arrived => Whole!Rest # <<>>
    <3>1. Len(Whole!Rest) = Len(wire) - begin
      BY SrcFacts DEF ReadInv
    <3>2. pos # arrived => Len(Whole!Rest) # 0
      BY <1>1, <2>1, <3>1
    <3> QED BY <3>2
  <2>4. Whole!Ended(verdict')
    BY <2>1, <2>2, <2>3 DEF Whole!Ended
  <2>5. verdict' \in {"End", "Io"}
    BY <2>1
  <2>6. Whole!Stop
    BY <2>1, <2>4, <2>5 DEF Whole!Stop
  <2> QED BY <2>6 DEF Whole!Next
<1> QED BY <1>2, <1>3, <1>4, <1>5, <1>6 DEF Next, Decode, Read, Over

(* However the stream is cut into reads, wherever its payloads lie in the  *)
(* buffer and whenever set_config() is called, decode() yields the frames  *)
(* that one who has the whole stream before him reads, and stops where he  *)
(* would.                                                                  *)
THEOREM CutsDoNotMatter == Spec => ReadsAsAWhole
BY InitRefines, ReadInvHolds, StepRefines, PTL DEF Spec, ReadsAsAWhole, Whole!Spec

-----------------------------------------------------------------------------
(* The frames of a stream, one behind the other.                           *)

BytesOf(items) == [i \in 1 .. Len(items) |-> items[i].bytes]
Before(items, n) == Joined(SubSeq(items, 1, n))

LEMMA ItemFacts ==
  ASSUME NEW item \in Item
  PROVE  /\ item.bytes \in Seq(Byte) /\ item.len \in Nat
         /\ item.frame \in Frame /\ item.frame.header \in Header
         /\ item.frame.payload \in Seq(Byte)
BY DEF Item, Frame

LEMMA FirstItems ==
  ASSUME NEW items \in Seq(Item), NEW n \in 0 .. Len(items)
  PROVE  /\ SubSeq(items, 1, n) \in Seq(Item) /\ Len(SubSeq(items, 1, n)) = n
         /\ \A i \in 1 .. n : SubSeq(items, 1, n)[i] = items[i]
OBVIOUS

LEMMA BytesOfType ==
  ASSUME NEW items \in Seq(Item)
  PROVE  /\ BytesOf(items) \in Seq(Seq(Byte)) /\ Len(BytesOf(items)) = Len(items)
         /\ \A i \in 1 .. Len(items) : BytesOf(items)[i] = items[i].bytes
         /\ Joined(items) = FlattenSeq(BytesOf(items))
<1>1. \A i \in 1 .. Len(items) : items[i].bytes \in Seq(Byte)
  BY ItemFacts
<1> QED BY <1>1 DEF BytesOf, Joined

LEMMA BeforeType ==
  ASSUME NEW items \in Seq(Item), NEW n \in 0 .. Len(items)
  PROVE  Before(items, n) \in Seq(Byte)
<1>1. SubSeq(items, 1, n) \in Seq(Item)
  BY FirstItems
<1> QED BY <1>1, BytesOfType, FlattenType DEF Before

LEMMA BeforeNone ==
  ASSUME NEW items \in Seq(Item)
  PROVE  Before(items, 0) = <<>>
<1>1. SubSeq(items, 1, 0) \in Seq(Item) /\ Len(SubSeq(items, 1, 0)) = 0
  BY FirstItems
<1>2. BytesOf(SubSeq(items, 1, 0)) \in Seq(Seq(Byte)) /\ Len(BytesOf(SubSeq(items, 1, 0))) = 0
  BY <1>1, BytesOfType
<1>3. \A s \in Seq(Seq(Byte)) : Len(s) = 0 => s = <<>>
  OBVIOUS
<1> QED BY <1>1, <1>2, <1>3, BytesOfType, FlattenEmpty DEF Before

LEMMA BeforeAll ==
  ASSUME NEW items \in Seq(Item)
  PROVE  Before(items, Len(items)) = Joined(items)
<1>1. SubSeq(items, 1, Len(items)) = items
  OBVIOUS
<1> QED BY <1>1 DEF Before

(* One more frame.                                                         *)
LEMMA BeforeNext ==
  ASSUME NEW items \in Seq(Item), NEW n \in Nat, n < Len(items)
  PROVE  Before(items, n + 1) = Before(items, n) \o items[n + 1].bytes
<1> DEFINE s == SubSeq(items, 1, n)
           t == SubSeq(items, 1, n + 1)
           x == items[n + 1].bytes
<1>1. s \in Seq(Item) /\ Len(s) = n /\ \A i \in 1 .. n : s[i] = items[i]
  BY FirstItems
<1>2. n + 1 \in 0 .. Len(items) /\ n + 1 \in 1 .. Len(items)
  OBVIOUS
<1>3. t \in Seq(Item) /\ Len(t) = n + 1 /\ \A i \in 1 .. n + 1 : t[i] = items[i]
  BY <1>2, FirstItems
<1>4. x \in Seq(Byte)
  BY <1>2, ItemFacts
<1> HIDE DEF s, t, x
<1>5. /\ BytesOf(s) \in Seq(Seq(Byte)) /\ Len(BytesOf(s)) = n
      /\ \A i \in 1 .. n : BytesOf(s)[i] = s[i].bytes
  BY <1>1, BytesOfType
<1>6. /\ BytesOf(t) \in Seq(Seq(Byte)) /\ Len(BytesOf(t)) = n + 1
      /\ \A i \in 1 .. n + 1 : BytesOf(t)[i] = t[i].bytes
  BY <1>3, BytesOfType
<1>7. BytesOf(t) = Append(BytesOf(s), x)
  <2>1. ASSUME NEW i \in 1 .. n + 1
        PROVE  BytesOf(t)[i] = IF i = n + 1 THEN x ELSE BytesOf(s)[i]
    <3>1. CASE i = n + 1
      BY <1>3, <1>6, <3>1 DEF x
    <3>2. CASE i # n + 1
      <4>1. i \in 1 .. n
        BY <3>2
      <4> QED BY <1>1, <1>3, <1>5, <1>6, <3>2, <4>1
    <3> QED BY <3>1, <3>2
  <2> QED BY <1>4, <1>5, <1>6, <2>1
<1>8. FlattenSeq(BytesOf(t)) = FlattenSeq(BytesOf(s)) \o x
  BY <1>4, <1>5, <1>7, FlattenAppend
<1>9. Joined(t) = FlattenSeq(BytesOf(t)) /\ Joined(s) = FlattenSeq(BytesOf(s))
  BY <1>1, <1>3, BytesOfType
<1> QED BY <1>8, <1>9 DEF Before, s, t, x

(* The frames before another are where they are in the whole stream.       *)
LEMMA BeforeStays ==
  ASSUME NEW items \in Seq(Item), NEW k \in 0 .. Len(items)
  PROVE  /\ Len(Before(items, k)) <= Len(Joined(items))
         /\ \A i \in 1 .. Len(Before(items, k)) : Joined(items)[i] = Before(items, k)[i]
<1> DEFINE b == Before(items, k)
           Stays(n) == /\ Len(b) <= Len(Before(items, n))
                       /\ \A i \in 1 .. Len(b) : Before(items, n)[i] = b[i]
           Kept_ == {n \in Nat : k <= n /\ n <= Len(items) => Stays(n)}
<1>1. b \in Seq(Byte) /\ Len(b) \in Nat /\ k \in Nat /\ Len(items) \in Nat
  BY BeforeType
<1>2. Stays(k)
  BY <1>1
<1>3. 0 \in Kept_
  <2>1. k <= 0 => k = 0
    BY <1>1
  <2> QED BY <1>2, <2>1
<1>4. ASSUME NEW n \in Nat, n \in Kept_ PROVE n + 1 \in Kept_
  <2> SUFFICES ASSUME k <= n + 1, n + 1 <= Len(items) PROVE Stays(n + 1)
    OBVIOUS
  <2>1. CASE k = n + 1
    BY <1>2, <2>1
  <2>2. CASE k # n + 1
    <3>1. Stays(n) /\ n < Len(items) /\ n \in 0 .. Len(items) /\ n + 1 \in 1 .. Len(items)
      BY <1>1, <1>4, <2>2
    <3>2. Before(items, n + 1) = Before(items, n) \o items[n + 1].bytes
      BY <3>1, BeforeNext
    <3>3. Before(items, n) \in Seq(Byte) /\ items[n + 1].bytes \in Seq(Byte)
      BY <3>1, BeforeType, ItemFacts
    <3> HIDE DEF b
    <3>4. /\ Len(Before(items, n + 1)) >= Len(Before(items, n))
          /\ \A i \in 1 .. Len(Before(items, n)) :
               Before(items, n + 1)[i] = Before(items, n)[i]
      BY <3>2, <3>3, CatLeft, CatSeq
    <3>5. Len(Before(items, n)) \in Nat /\ Len(Before(items, n + 1)) \in Nat
      BY <3>1, <3>3, BeforeType
    <3> QED BY <1>1, <3>1, <3>4, <3>5
  <2> QED BY <2>1, <2>2
<1> HIDE DEF Kept_
<1>5. \A n \in Nat : n \in Kept_
  BY <1>3, <1>4, Induction
<1>6. Stays(Len(items))
  BY <1>1, <1>5 DEF Kept_
<1> QED BY <1>6, BeforeAll

(* What a stream holds, up to where it is cut off, where a frame is.        *)
LEMMA ItemInWire ==
  ASSUME NEW items \in Seq(Item), NEW w \in Seq(Byte), IsPrefix(w, Joined(items)),
         NEW n \in Nat, n < Len(items)
  PROVE  LET p == Len(Before(items, n))
             b == items[n + 1].bytes
         IN /\ p \in Nat /\ b \in Seq(Byte)
            /\ Len(Before(items, n + 1)) = p + Len(b)
            /\ p + Len(b) <= Len(Joined(items))
            /\ \A i \in 1 .. Len(b) : p + i <= Len(w) => w[p + i] = b[i]
<1> DEFINE a == Before(items, n)
           b == items[n + 1].bytes
           j == Joined(items)
<1>1. n \in 0 .. Len(items) /\ n + 1 \in 0 .. Len(items) /\ n + 1 \in 1 .. Len(items)
  OBVIOUS
<1>2. a \in Seq(Byte) /\ b \in Seq(Byte)
  BY <1>1, BeforeType, ItemFacts
<1>3. Before(items, n + 1) = a \o b
  BY BeforeNext
<1>4. j \in Seq(Byte)
  BY BytesOfType, FlattenType
<1> DEFINE c == Before(items, n + 1)
<1>5. Len(c) <= Len(j) /\ \A i \in 1 .. Len(c) : j[i] = c[i]
  BY <1>1, BeforeStays
<1>6. Len(w) <= Len(j) /\ \A i \in 1 .. Len(w) : w[i] = j[i]
  <2> HIDE DEF j
  <2>1. Len(w) <= Len(j) /\ SubSeq(w, 1, Len(w)) = SubSeq(j, 1, Len(w))
    BY DEF IsPrefix, j
  <2>2. \A i \in 1 .. Len(w) : SubSeq(w, 1, Len(w))[i] = w[i] /\ SubSeq(j, 1, Len(w))[i] = j[i]
    BY <1>4, <2>1
  <2> QED BY <2>1, <2>2
<1> HIDE DEF a, b, c, j
<1>7. c = a \o b
  BY <1>3 DEF c
<1>8. /\ Len(c) = Len(a) + Len(b)
      /\ \A i \in 1 .. Len(b) : c[Len(a) + i] = b[i]
  BY <1>2, <1>7, CatSeq, CatRight
<1>9. ASSUME NEW i \in 1 .. Len(b), Len(a) + i <= Len(w)
      PROVE  w[Len(a) + i] = b[i]
  <2>1. Len(a) + i \in 1 .. Len(c) /\ Len(a) + i \in 1 .. Len(w)
    BY <1>2, <1>8, <1>9
  <2> QED BY <1>5, <1>6, <1>8, <2>1
<1>10. Len(a) \in Nat
  BY <1>2
<1> QED BY <1>2, <1>5, <1>8, <1>9, <1>10 DEF a, b, c, j

(* What is read of a header, of which more or less may be there than of    *)
(* the frame it belongs to.                                                *)
Agree(r, b) == \A i \in 1 .. Len(b) : i <= Len(r) => r[i] = b[i]

LEMMA HeaderHere ==
  ASSUME NEW r \in Seq(Byte), NEW b \in Seq(Byte), Agree(r, b), Complete(b)
  PROVE  /\ Len(b) <= Len(r) => Complete(r)
         /\ Complete(r) => /\ HeaderSize(r) = HeaderSize(b)
                           /\ HeaderIn(r) = HeaderIn(b) /\ LengthIn(r) = LengthIn(b)
<1>1. Len(r) \in Nat /\ Len(b) \in Nat
  OBVIOUS
<1>2. CASE Len(b) <= Len(r)
  <2>1. \A i \in 1 .. Len(b) : r[i] = b[i]
    BY <1>1, <1>2 DEF Agree
  <2> QED BY <1>2, <2>1, LongerIsSame
<1>3. CASE Len(r) < Len(b)
  <2>1. \A i \in 1 .. Len(r) : b[i] = r[i]
    BY <1>1, <1>3 DEF Agree
  <2>2. Len(r) <= Len(b) /\ ~(Len(b) <= Len(r))
    BY <1>1, <1>3
  <2>3. Complete(r) => /\ HeaderSize(b) = HeaderSize(r)
                       /\ HeaderIn(b) = HeaderIn(r) /\ LengthIn(b) = LengthIn(r)
    BY <2>1, <2>2, LongerIsSame
  <2> QED BY <2>2, <2>3
<1> QED BY <1>1, <1>2, <1>3

(* The mask, put on and taken off.                                         *)
LEMMA MaskedType ==
  ASSUME NEW payload \in Seq(Byte), NEW mask \in Mask \cup {NoMask}
  PROVE  /\ Masked(payload, mask) \in Seq(Byte)
         /\ Len(Masked(payload, mask)) = Len(payload)
         /\ mask # NoMask => Whole!Unmasked(Masked(payload, mask), mask) = payload
<1>1. CASE mask = NoMask
  BY <1>1 DEF Masked
<1>2. CASE mask # NoMask
  <2>1. \A k \in 1 .. Len(payload) : ((k - 1) % 4) + 1 \in 1 .. 4 /\ payload[k] \in Byte
    OBVIOUS
  <2>2. mask \in [1 .. 4 -> Byte]
    BY <1>2 DEF Mask
  <2>3. \A k \in 1 .. Len(payload) : mask[((k - 1) % 4) + 1] \in Byte
    BY <2>1, <2>2
  <2> DEFINE met(k) == mask[((k - 1) % 4) + 1]
             m == Masked(payload, mask)
  <2>4. m = [k \in 1 .. Len(payload) |-> ByteXor(payload[k], met(k))]
    BY <1>2 DEF Masked
  <2>5. \A k \in 1 .. Len(payload) : met(k) \in Byte
    BY <2>3
  <2> HIDE DEF m, met
  <2>6. \A k \in 1 .. Len(payload) :
          /\ ByteXor(payload[k], met(k)) \in Byte
          /\ ByteXor(ByteXor(payload[k], met(k)), met(k)) = payload[k]
    BY <2>1, <2>5, XorAssumption
  <2>7. m \in Seq(Byte) /\ Len(m) = Len(payload)
        /\ \A k \in 1 .. Len(payload) : m[k] = ByteXor(payload[k], met(k))
    BY <2>4, <2>6
  <2>8. Whole!Unmasked(m, mask) = [k \in 1 .. Len(m) |-> ByteXor(m[k], met(k))]
    BY DEF Whole!Unmasked, met
  <2>9. Whole!Unmasked(m, mask) = payload
    <3>1. \A k \in 1 .. Len(payload) : ByteXor(m[k], met(k)) = payload[k]
      BY <2>6, <2>7
    <3>2. payload = [k \in 1 .. Len(payload) |-> payload[k]]
      OBVIOUS
    <3> QED BY <2>7, <2>8, <3>1, <3>2
  <2> QED BY <2>7, <2>9 DEF m
<1> QED BY <1>1, <1>2

(* A frame and its bytes.                                                  *)
LEMMA CarriesFacts ==
  ASSUME NEW item \in Item, Carries(item)
  PROVE  LET b == item.bytes IN
         /\ Complete(b) /\ HeaderIn(b) = item.frame.header /\ LengthIn(b) = item.len
         /\ HeaderSize(b) \in Nat
         /\ Len(b) = HeaderSize(b) + Len(item.frame.payload)
         /\ SubSeq(b, HeaderSize(b) + 1, Len(b)) =
              Masked(item.frame.payload, item.frame.header.mask)
<1> DEFINE b == item.bytes
           p == item.frame.payload
           h == HeaderSize(b)
<1>1. b \in Seq(Byte) /\ p \in Seq(Byte) /\ item.frame.header.mask \in Mask \cup {NoMask}
  BY ItemFacts DEF Header
<1>2. /\ Len(b) >= 2 /\ Len(b) >= h /\ HeaderIn(b) = item.frame.header
      /\ LengthIn(b) = item.len
      /\ SubSeq(b, h + 1, Len(b)) = Masked(p, item.frame.header.mask)
  BY DEF Carries
<1>3. h \in Nat
  BY <1>1, <1>2, SizeFacts
<1>4. Len(SubSeq(b, h + 1, Len(b))) = Len(b) - h
  <2>1. Len(b) \in Nat
    BY <1>1
  <2> HIDE DEF b, h
  <2> QED BY <1>1, <1>2, <1>3, <2>1, BytesHere
<1>5. Len(SubSeq(b, h + 1, Len(b))) = Len(p)
  BY <1>1, <1>2, MaskedType
<1>6. Len(b) = h + Len(p)
  <2>1. Len(b) \in Nat /\ Len(p) \in Nat
    BY <1>1
  <2> HIDE DEF b, p, h
  <2> QED BY <1>3, <1>4, <1>5, <2>1
<1>7. Complete(b)
  BY <1>2 DEF Complete
<1> QED BY <1>2, <1>3, <1>6, <1>7

LEMMA SameBytes ==
  ASSUME NEW w \in Seq(Byte), NEW b \in Seq(Byte), NEW p \in Nat, NEW h \in Nat,
         NEW l \in Nat, Len(b) = h + l, p + h + l <= Len(w),
         \A i \in 1 .. Len(b) : p + i <= Len(w) => w[p + i] = b[i]
  PROVE  SubSeq(w, p + h + 1, p + h + l) = SubSeq(b, h + 1, Len(b))
<1>1. /\ SubSeq(w, p + h + 1, p + h + l) \in Seq(Byte)
      /\ Len(SubSeq(w, p + h + 1, p + h + l)) = l
      /\ \A i \in 1 .. l : SubSeq(w, p + h + 1, p + h + l)[i] = w[p + h + i]
  <2>1. p + h \in Nat /\ p + h + l \in Nat /\ p + h <= p + h + l /\ (p + h + l) - (p + h) = l
    OBVIOUS
  <2> QED BY <2>1, BytesHere
<1>2. /\ SubSeq(b, h + 1, Len(b)) \in Seq(Byte) /\ Len(SubSeq(b, h + 1, Len(b))) = l
      /\ \A i \in 1 .. l : SubSeq(b, h + 1, Len(b))[i] = b[h + i]
  <2>1. Len(b) \in Nat /\ h <= Len(b) /\ Len(b) - h = l
    OBVIOUS
  <2> QED BY <2>1, BytesHere
<1>3. ASSUME NEW i \in 1 .. l PROVE w[p + h + i] = b[h + i]
  <2>1. h + i \in 1 .. Len(b) /\ p + (h + i) <= Len(w) /\ p + (h + i) = p + h + i
    OBVIOUS
  <2> QED BY <2>1
<1> DEFINE s == SubSeq(w, p + h + 1, p + h + l)
           t == SubSeq(b, h + 1, Len(b))
<1>4. \A i \in 1 .. l : s[i] = t[i]
  BY <1>1, <1>2, <1>3
<1>5. s \in Seq(Byte) /\ t \in Seq(Byte) /\ Len(s) = l /\ Len(t) = l
  BY <1>1, <1>2
<1> HIDE DEF s, t
<1>6. s = t
  BY <1>4, <1>5
<1> QED BY <1>6 DEF s, t

(* The inductive invariant of a stream of frames: between two of them, and *)
(* before the next, whose header is kept and which is not held back.       *)
FromStreams == (\E s \in Streams : sent = s.items /\ wire = s.wire) /\ OfFrames
ReadSoFar(n) ==
  /\ n \in 0 .. Len(sent)
  /\ yielded = [i \in 1 .. n |-> Seen(sent[i])]
  /\ begin = Len(Before(sent, n))
NextIsKept(n) ==
  header.here => /\ n < Len(sent)
                 /\ header.header = sent[n + 1].frame.header
                 /\ header.len = sent[n + 1].len
NextIsDue(n) ==
  hungry /\ n < Len(sent) =>
    arrived < Len(Before(sent, n + 1)) \/ ~WholeItem(sent[n + 1])
StreamInv ==
  FromStreams /\ \E n \in Nat : ReadSoFar(n) /\ NextIsKept(n) /\ NextIsDue(n)

LEMMA StreamFacts ==
  ASSUME FromStreams
  PROVE  /\ sent \in Seq(Item) /\ wire \in Seq(Byte) /\ Len(sent) \in Nat
         /\ IsPrefix(wire, Joined(sent))
         /\ \A i \in 1 .. Len(sent) :
              /\ sent[i] \in Item /\ Carries(sent[i])
              /\ i < Len(sent) => WholeItem(sent[i])
<1>1. PICK s \in Streams : sent = s.items /\ wire = s.wire
  BY DEF FromStreams
<1>2. s.items \in Seq(Item) /\ s.wire \in Seq(Byte)
  BY StreamsAssumption
<1>3. /\ IsPrefix(wire, Joined(sent))
      /\ \A i \in 1 .. Len(sent) :
           Carries(sent[i]) /\ (i < Len(sent) => WholeItem(sent[i]))
  BY DEF FromStreams, OfFrames
<1> QED BY <1>1, <1>2, <1>3

(* What decode() finds at `begin' is the next frame that was sent.         *)
LEMMA NextHeader ==
  ASSUME TypeOK, FromStreams, NEW n \in Nat, ReadSoFar(n)
  PROVE  /\ Complete(Whole!Rest) => n < Len(sent)
         /\ n < Len(sent) =>
              LET b == sent[n + 1].bytes IN
              /\ b \in Seq(Byte) /\ Complete(b)
              /\ Agree(Whole!Rest, b)
              /\ \A i \in 1 .. Len(b) : begin + i <= Len(wire) => wire[begin + i] = b[i]
              /\ Len(Before(sent, n + 1)) = begin + Len(b)
              /\ begin + Len(b) <= Len(Joined(sent))
              /\ Complete(Whole!Rest) =>
                   /\ HeaderSize(Whole!Rest) = HeaderSize(b)
                   /\ HeaderIn(Whole!Rest) = sent[n + 1].frame.header
                   /\ LengthIn(Whole!Rest) = sent[n + 1].len
<1> DEFINE rest == Whole!Rest
<1>1. /\ sent \in Seq(Item) /\ wire \in Seq(Byte) /\ IsPrefix(wire, Joined(sent))
      /\ Len(sent) \in Nat
  BY StreamFacts
<1>2. begin \in Nat /\ begin <= Len(wire) /\ Len(wire) \in Nat
  BY DEF TypeOK
<1>3. rest \in Seq(Byte) /\ Len(rest) = Len(wire) - begin
      /\ \A i \in 1 .. Len(wire) - begin : rest[i] = wire[begin + i]
  BY <1>1, <1>2, BytesHere DEF Whole!Rest
<1> HIDE DEF rest
<1>4. begin = Len(Before(sent, n)) /\ n <= Len(sent)
  BY DEF ReadSoFar
<1>5. Complete(rest) => n < Len(sent)
  <2> SUFFICES ASSUME n = Len(sent) PROVE ~Complete(rest)
    BY <1>1, <1>4
  <2>1. begin = Len(Joined(sent))
    BY <1>1, <1>4, BeforeAll
  <2>2. Len(wire) <= Len(Joined(sent))
    BY <1>1 DEF IsPrefix
  <2>3. Len(rest) <= 0
    BY <1>2, <1>3, <2>1, <2>2
  <2> QED BY <1>3, <2>3 DEF Complete
<1>6. ASSUME n < Len(sent)
      PROVE  LET b == sent[n + 1].bytes IN
              /\ b \in Seq(Byte) /\ Complete(b)
              /\ Agree(rest, b)
              /\ \A i \in 1 .. Len(b) : begin + i <= Len(wire) => wire[begin + i] = b[i]
              /\ Len(Before(sent, n + 1)) = begin + Len(b)
              /\ begin + Len(b) <= Len(Joined(sent))
              /\ Complete(rest) =>
                   /\ HeaderSize(rest) = HeaderSize(b)
                   /\ HeaderIn(rest) = sent[n + 1].frame.header
                   /\ LengthIn(rest) = sent[n + 1].len
  <2> DEFINE item == sent[n + 1]
             b == item.bytes
  <2>1. n + 1 \in 1 .. Len(sent)
    BY <1>1, <1>6
  <2>2. item \in Item /\ Carries(item)
    BY <2>1, StreamFacts
  <2>3. b \in Seq(Byte) /\ Complete(b) /\ HeaderIn(b) = item.frame.header
        /\ LengthIn(b) = item.len
    BY <2>2, ItemFacts, CarriesFacts
  <2>4. /\ Len(Before(sent, n + 1)) = begin + Len(b)
        /\ begin + Len(b) <= Len(Joined(sent))
        /\ \A i \in 1 .. Len(b) : begin + i <= Len(wire) => wire[begin + i] = b[i]
    BY <1>1, <1>4, <1>6, ItemInWire
  <2> HIDE DEF item, b
  <2>5. Agree(rest, b)
    <3> SUFFICES ASSUME NEW i \in 1 .. Len(b), i <= Len(rest) PROVE rest[i] = b[i]
      BY DEF Agree
    <3>1. i \in 1 .. Len(wire) - begin /\ begin + i <= Len(wire)
      BY <1>2, <1>3, <2>3
    <3> QED BY <1>3, <2>4, <3>1
  <2>6. Complete(rest) => /\ HeaderSize(rest) = HeaderSize(b)
                          /\ HeaderIn(rest) = HeaderIn(b) /\ LengthIn(rest) = LengthIn(b)
    BY <1>3, <2>3, <2>5, HeaderHere
  <2> QED BY <2>3, <2>4, <2>5, <2>6 DEF item, b
<1> QED BY <1>5, <1>6 DEF rest

(* A frame that ends where the stream still has bytes is the one sent.     *)
LEMMA NextFrame ==
  ASSUME TypeOK, FromStreams, NEW n \in Nat, ReadSoFar(n), Complete(Whole!Rest),
         Whole!FrameEnd <= Len(wire)
  PROVE  /\ n < Len(sent)
         /\ Whole!FrameHere = Seen(sent[n + 1])
         /\ Whole!FrameEnd = Len(Before(sent, n + 1))
<1> DEFINE rest == Whole!Rest
           item == sent[n + 1]
           b == item.bytes
           h == HeaderSize(b)
           payload == item.frame.payload
           mask == item.frame.header.mask
<1>1. n < Len(sent) /\ Len(sent) \in Nat
  BY NextHeader, StreamFacts
<1>2. /\ b \in Seq(Byte) /\ HeaderSize(rest) = h
      /\ HeaderIn(rest) = item.frame.header /\ LengthIn(rest) = item.len
      /\ Len(Before(sent, n + 1)) = begin + Len(b)
      /\ begin + Len(b) <= Len(Joined(sent))
      /\ \A i \in 1 .. Len(b) : begin + i <= Len(wire) => wire[begin + i] = b[i]
  BY <1>1, NextHeader
<1>3. n + 1 \in 1 .. Len(sent)
  BY <1>1
<1>4. item \in Item /\ Carries(item) /\ (n + 1 < Len(sent) => WholeItem(item))
  BY <1>3, StreamFacts
<1>5. /\ item.len \in Nat /\ item.frame.header \in Header
      /\ payload \in Seq(Byte) /\ item.frame \in Frame
  BY <1>4, ItemFacts
<1>6. /\ h \in Nat /\ Len(b) = h + Len(payload)
      /\ SubSeq(b, h + 1, Len(b)) = Masked(payload, mask)
  BY <1>4, CarriesFacts
<1>7. Len(payload) <= item.len
  BY <1>4 DEF Carries
<1>8. /\ wire \in Seq(Byte) /\ begin \in Nat /\ Len(wire) \in Nat
      /\ Len(wire) <= Len(Joined(sent))
  BY StreamFacts DEF TypeOK, IsPrefix
<1>9. Whole!FrameEnd = begin + h + item.len
  BY <1>2, ParsesAlike DEF Whole!FrameEnd
<1>10. Whole!Body = SubSeq(wire, begin + h + 1, begin + h + item.len)
  BY <1>2, <1>9, ParsesAlike DEF Whole!Body
<1>11. Whole!HeaderIn(rest) = item.frame.header
  BY <1>2, ParsesAlike
<1> HIDE DEF b, h, payload, mask, rest
<1>12. Len(payload) \in Nat
  BY <1>5
<1>13. Len(payload) = item.len
  <2>1. CASE n + 1 < Len(sent)
    BY <1>4, <2>1 DEF WholeItem, payload
  <2>2. CASE ~(n + 1 < Len(sent))
    <3>1. n + 1 = Len(sent) /\ sent \in Seq(Item)
      BY <1>1, <2>2, StreamFacts
    <3>2. Len(Joined(sent)) = begin + Len(b)
      BY <1>2, <3>1, BeforeAll
    <3> HIDE DEF item
    <3> QED BY <1>5, <1>6, <1>7, <1>8, <1>9, <1>12, <3>2
  <2> QED BY <2>1, <2>2
<1>14. Whole!FrameEnd = Len(Before(sent, n + 1))
  <2> DEFINE l == item.len
             lb == Len(b)
  <2>1. lb = h + l
    BY <1>6, <1>13
  <2>2. Whole!FrameEnd = begin + h + l /\ Len(Before(sent, n + 1)) = begin + lb
    BY <1>2, <1>9
  <2>3. l \in Nat /\ h \in Nat /\ begin \in Nat
    BY <1>5, <1>6, <1>8
  <2> HIDE DEF l, lb, item
  <2>4. begin + h + l = begin + lb
    BY <2>1, <2>3
  <2> QED BY <2>2, <2>4
<1>15. Whole!Body = SubSeq(b, h + 1, Len(b))
  <2> DEFINE l == item.len
  <2>1. /\ l \in Nat /\ Len(b) = h + l /\ begin + h + l <= Len(wire)
    BY <1>5, <1>6, <1>9, <1>13
  <2>2. Whole!Body = SubSeq(wire, begin + h + 1, begin + h + l)
    BY <1>10
  <2> HIDE DEF l
  <2>3. /\ b \in Seq(Byte)
        /\ \A i \in 1 .. Len(b) : begin + i <= Len(wire) => wire[begin + i] = b[i]
    BY <1>2
  <2>4. wire \in Seq(Byte) /\ begin \in Nat /\ h \in Nat
    BY <1>6, <1>8
  <2>5. SubSeq(wire, begin + h + 1, begin + h + l) = SubSeq(b, h + 1, Len(b))
    BY <2>1, <2>3, <2>4, SameBytes
  <2> QED BY <2>2, <2>5
<1>16. Whole!Body = Masked(payload, mask)
  BY <1>6, <1>15
<1>17. mask \in Mask \cup {NoMask}
  BY <1>5 DEF Header, mask
<1>18. item.frame = [header |-> item.frame.header, payload |-> payload]
  BY <1>5 DEF Frame, payload
<1>19. NoMask = Whole!NoMask
  BY DEF NoMask, Whole!NoMask
<1>20. CASE unmask /\ mask # NoMask
  <2>1. Whole!Unmasked(Whole!Body, mask) = payload
    BY <1>5, <1>16, <1>17, <1>20, MaskedType DEF payload
  <2>2. Whole!FrameHere = [header |-> [item.frame.header EXCEPT !.mask = NoMask],
                           payload |-> payload]
    BY <1>11, <1>19, <1>20, <2>1 DEF Whole!FrameHere, rest, mask
  <2>3. Seen(item) = [item.frame EXCEPT !.header.mask = NoMask]
    BY <1>20 DEF Seen
  <2> QED BY <1>1, <1>14, <1>18, <2>2, <2>3
<1>21. CASE unmask /\ mask = NoMask
  <2>1. Whole!FrameHere = [header |-> item.frame.header, payload |-> payload]
    BY <1>11, <1>16, <1>19, <1>21 DEF Whole!FrameHere, Masked, rest, mask
  <2>2. [item.frame EXCEPT !.header.mask = NoMask] = item.frame
    <3>1. [item.frame.header EXCEPT !.mask = NoMask] = item.frame.header
      BY <1>5, <1>21 DEF Header, mask
    <3> QED BY <1>18, <3>1
  <2> QED BY <1>1, <1>14, <1>18, <1>21, <2>1, <2>2 DEF Seen
<1>22. CASE ~unmask
  <2>1. Whole!FrameHere = [header |-> item.frame.header, payload |-> Whole!Body]
    BY <1>11, <1>22 DEF Whole!FrameHere, rest
  <2>2. Len(b) - item.len = h
    BY <1>5, <1>6, <1>12, <1>13
  <2>3. Seen(item) = [header |-> item.frame.header, payload |-> SubSeq(b, h + 1, Len(b))]
    BY <1>22, <2>2 DEF Seen, b
  <2> QED BY <1>1, <1>14, <1>15, <2>1, <2>3
<1>23. unmask \in BOOLEAN
  BY DEF TypeOK
<1> QED BY <1>20, <1>21, <1>22, <1>23

(* One frame more.                                                         *)
LEMMA OneMore ==
  ASSUME NEW n \in Nat, NEW m \in Nat, n < m, NEW e, NEW y,
         y = [i \in 1 .. n |-> e[i]], DOMAIN e = 1 .. m
  PROVE  Append(y, e[n + 1]) = [i \in 1 .. n + 1 |-> e[i]]
<1> DEFINE T == {e[i] : i \in 1 .. m}
<1>1. \A i \in 1 .. n + 1 : e[i] \in T
  BY DEF T
<1>2. \A i \in 1 .. n : y[i] = e[i]
  OBVIOUS
<1>3. y \in Seq(T) /\ Len(y) = n
  <2> HIDE DEF T
  <2>1. y \in [1 .. n -> T]
    BY <1>1
  <2> QED BY <2>1
<1>4. e[n + 1] \in T
  BY <1>1
<1> HIDE DEF T
<1>5. /\ Append(y, e[n + 1]) \in Seq(T) /\ Len(Append(y, e[n + 1])) = n + 1
      /\ \A i \in 1 .. n + 1 : Append(y, e[n + 1])[i] = IF i = n + 1 THEN e[n + 1] ELSE y[i]
  BY <1>3, <1>4
<1>6. \A i \in 1 .. n + 1 : Append(y, e[n + 1])[i] = e[i]
  BY <1>2, <1>5
<1>7. Append(y, e[n + 1]) = [i \in 1 .. n + 1 |-> Append(y, e[n + 1])[i]]
  BY <1>5
<1> QED BY <1>6, <1>7

LEMMA StreamInvInit == Init => (OfFrames => StreamInv)
<1> SUFFICES ASSUME Init, OfFrames PROVE StreamInv
  OBVIOUS
<1>1. FromStreams
  BY DEF Init, FromStreams
<1>2. sent \in Seq(Item) /\ Len(sent) \in Nat
  BY <1>1, StreamFacts
<1>3. yielded = <<>> /\ begin = 0 /\ hungry = FALSE /\ header.here = FALSE
  BY DEF Init, NoHeader
<1>4. ReadSoFar(0)
  <2>1. Before(sent, 0) = <<>>
    BY <1>2, BeforeNone
  <2>2. begin = Len(Before(sent, 0))
    BY <1>3, <2>1
  <2>3. yielded = [i \in 1 .. 0 |-> Seen(sent[i])]
    BY <1>3
  <2>4. 0 \in 0 .. Len(sent)
    BY <1>2
  <2> QED BY <2>2, <2>3, <2>4 DEF ReadSoFar
<1>5. NextIsKept(0) /\ NextIsDue(0)
  BY <1>3 DEF NextIsKept, NextIsDue
<1> QED BY <1>1, <1>4, <1>5 DEF StreamInv

(* decode() asks for more bytes only while the next frame is not all there.*)
LEMMA AskedInTime ==
  ASSUME ReadInv, FromStreams, NEW n \in Nat, ReadSoFar(n), verdict = "Ok",
         n < Len(sent), NeedHeader \/ NeedPayload
  PROVE  arrived < Len(Before(sent, n + 1)) \/ ~WholeItem(sent[n + 1])
<1> DEFINE item == sent[n + 1]
           b == item.bytes
<1>0. TypeOK /\ n + 1 \in 1 .. Len(sent)
  <2>1. Len(sent) \in Nat
    BY StreamFacts
  <2> QED BY <2>1 DEF ReadInv
<1>1. /\ b \in Seq(Byte) /\ Complete(b) /\ Agree(Whole!Rest, b)
      /\ Len(Before(sent, n + 1)) = begin + Len(b)
      /\ Complete(Whole!Rest) =>
           /\ HeaderSize(Whole!Rest) = HeaderSize(b)
           /\ LengthIn(Whole!Rest) = item.len
  BY <1>0, NextHeader
<1>2. item \in Item /\ Carries(item)
  BY <1>0, StreamFacts
<1>3. /\ HeaderSize(b) \in Nat /\ Len(b) = HeaderSize(b) + Len(item.frame.payload)
      /\ item.len \in Nat
  BY <1>2, CarriesFacts, ItemFacts
<1>4. /\ arrived \in Nat /\ begin \in Nat /\ Len(b) \in Nat /\ pos \in Nat
      /\ pos <= arrived /\ begin <= pos /\ arrived <= Len(wire) /\ Len(wire) \in Nat
  BY <1>0, <1>1 DEF TypeOK
<1>5. /\ src \in Seq(Byte) /\ Len(src) = arrived - pos
      /\ Len(Whole!Rest) = Len(wire) - begin
      /\ pos = begin => \A i \in 1 .. Len(src) : Whole!Rest[i] = src[i]
  BY <1>0, SrcFacts
<1>6. CASE NeedHeader
  <2>1. ~Complete(src) /\ pos = begin
    BY <1>6 DEF NeedHeader, HasHeader, ReadInv, AtBegin
  <2> SUFFICES ASSUME ~(arrived < begin + Len(b)) PROVE FALSE
    BY <1>1
  <2> HIDE DEF b
  <2>2. Len(b) <= Len(src) /\ Len(src) <= Len(Whole!Rest)
    BY <1>4, <1>5, <2>1
  <2>3. Len(src) \in Nat /\ Len(Whole!Rest) \in Nat
    BY <1>4, <1>5
  <2>4. \A i \in 1 .. Len(b) : src[i] = b[i]
    <3> SUFFICES ASSUME NEW i \in 1 .. Len(b) PROVE src[i] = b[i]
      OBVIOUS
    <3>1. i \in 1 .. Len(src) /\ i <= Len(Whole!Rest)
      BY <1>4, <2>2, <2>3
    <3> QED BY <1>1, <1>5, <2>1, <3>1 DEF Agree
  <2>5. Complete(src)
    BY <1>1, <1>5, <2>2, <2>4, LongerIsSame
  <2> QED BY <2>1, <2>5
<1>7. CASE NeedPayload
  <2>1. HasHeader /\ ~(arrived - PayloadAt >= Current.len)
    BY <1>7 DEF NeedPayload, Ready, Fits
  <2>2. /\ Complete(Whole!Rest) /\ Current.len = LengthIn(Whole!Rest)
        /\ PayloadAt = begin + HeaderSize(Whole!Rest)
    BY <2>1, CurrentFacts
  <2>3. PayloadAt = begin + HeaderSize(b) /\ Current.len = item.len
    BY <1>1, <2>2
  <2>4. WholeItem(item) => Len(b) = HeaderSize(b) + item.len
    BY <1>3 DEF WholeItem
  <2> DEFINE l == item.len
             h == HeaderSize(b)
             lb == Len(b)
  <2>5. /\ ~(arrived - (begin + h) >= l) /\ l \in Nat /\ h \in Nat /\ lb \in Nat
        /\ WholeItem(item) => lb = h + l
    BY <1>3, <1>4, <2>1, <2>3, <2>4
  <2>6. Len(Before(sent, n + 1)) = begin + lb
    BY <1>1
  <2> HIDE DEF l, h, lb, item
  <2>7. WholeItem(item) => arrived < begin + lb
    BY <1>4, <2>5
  <2> QED BY <2>6, <2>7 DEF item
<1> QED BY <1>6, <1>7

LEMMA StreamInvStep == ReadInv /\ StreamInv /\ [Next]_vars => StreamInv'
<1> SUFFICES ASSUME ReadInv, StreamInv, [Next]_vars PROVE StreamInv'
  OBVIOUS
<1>1. PICK n \in Nat : FromStreams /\ ReadSoFar(n) /\ NextIsKept(n) /\ NextIsDue(n)
  BY DEF StreamInv
<1>2. TypeOK /\ Len(sent) \in Nat
  BY <1>1, StreamFacts DEF ReadInv
<1>3. UNCHANGED stream => FromStreams'
  BY <1>1 DEF FromStreams, OfFrames, stream
<1>4. UNCHANGED <<stream, yielded, begin>> => ReadSoFar(n)'
  BY <1>1 DEF ReadSoFar, stream, Seen, Before
<1>5. UNCHANGED <<sent, header>> => NextIsKept(n)'
  BY <1>1 DEF NextIsKept
<1>6. UNCHANGED <<sent, arrived>> /\ hungry' = hungry => NextIsDue(n)'
  BY <1>1 DEF NextIsDue, Before
<1>7. CASE NeedHeader
  <2>1. /\ UNCHANGED <<stream, arrived, header, yielded, begin>> /\ verdict = "Ok"
        /\ UNCHANGED <<sent, header>>
    BY <1>7 DEF NeedHeader, Called, stream
  <2>2. NextIsDue(n)'
    <3>1. n < Len(sent) =>
            arrived < Len(Before(sent, n + 1)) \/ ~WholeItem(sent[n + 1])
      BY <1>1, <1>7, <2>1, AskedInTime
    <3> QED BY <2>1, <3>1 DEF NextIsDue, stream, Before
  <2> QED BY <1>3, <1>4, <1>5, <2>1, <2>2 DEF StreamInv
<1>8. CASE NeedPayload
  <2>1. /\ UNCHANGED <<stream, arrived, yielded, begin>> /\ verdict = "Ok"
        /\ HasHeader /\ header' = Current
    BY <1>8 DEF NeedPayload, Called, Kept
  <2>2. /\ Complete(Whole!Rest)
        /\ Current.header = HeaderIn(Whole!Rest) /\ Current.len = LengthIn(Whole!Rest)
    BY <2>1, CurrentFacts
  <2>3. /\ n < Len(sent)
        /\ HeaderIn(Whole!Rest) = sent[n + 1].frame.header
        /\ LengthIn(Whole!Rest) = sent[n + 1].len
    BY <1>1, <1>2, <2>2, NextHeader
  <2>4. NextIsKept(n)'
    BY <2>1, <2>2, <2>3 DEF NextIsKept, stream
  <2>5. NextIsDue(n)'
    <3>1. arrived < Len(Before(sent, n + 1)) \/ ~WholeItem(sent[n + 1])
      BY <1>1, <1>8, <2>1, <2>3, AskedInTime
    <3> QED BY <2>1, <3>1 DEF NextIsDue, stream, Before
  <2> QED BY <1>3, <1>4, <2>1, <2>4, <2>5 DEF StreamInv
<1>9. CASE YieldFrame
  <2>1. /\ verdict = "Ok" /\ Ready /\ ~hungry
        /\ \E align \in 0 .. 3 : yielded' = Append(yielded, Decoded(align))
        /\ begin' = PayloadAt + Current.len /\ header' = NoHeader
        /\ UNCHANGED <<stream, arrived, hungry>>
    BY <1>9 DEF YieldFrame, Called, Split
  <2>2. begin' = Whole!FrameEnd /\ Whole!FrameEnd <= Len(wire)
    BY <2>1, ReadyFacts
  <2>3. yielded' = Append(yielded, Whole!FrameHere)
    BY <2>1, DecodedIsFrameHere
  <2>4. Complete(Whole!Rest)
    BY <2>1, CurrentFacts DEF Ready
  <2>5. /\ n < Len(sent) /\ Whole!FrameHere = Seen(sent[n + 1])
        /\ Whole!FrameEnd = Len(Before(sent, n + 1))
    BY <1>1, <1>2, <2>2, <2>4, NextFrame
  <2>6. yielded' = [i \in 1 .. n + 1 |-> Seen(sent[i])]
    <3> DEFINE e == [i \in 1 .. Len(sent) |-> Seen(sent[i])]
    <3>1. DOMAIN e = 1 .. Len(sent) /\ \A i \in 1 .. Len(sent) : e[i] = Seen(sent[i])
      OBVIOUS
    <3> HIDE DEF e
    <3>2. yielded = [i \in 1 .. n |-> e[i]]
      <4>1. yielded = [i \in 1 .. n |-> Seen(sent[i])]
        BY <1>1 DEF ReadSoFar
      <4>2. \A i \in 1 .. n : i \in 1 .. Len(sent)
        BY <1>2, <2>5
      <4> QED BY <3>1, <4>1, <4>2
    <3>3. Append(yielded, e[n + 1]) = [i \in 1 .. n + 1 |-> e[i]]
      BY <1>2, <2>5, <3>1, <3>2, OneMore
    <3>4. \A i \in 1 .. n + 1 : i \in 1 .. Len(sent)
      BY <1>2, <2>5
    <3>5. n + 1 \in 1 .. n + 1
      OBVIOUS
    <3>6. e[n + 1] = Seen(sent[n + 1])
      BY <3>1, <3>4, <3>5
    <3> QED BY <2>3, <2>5, <3>1, <3>3, <3>4, <3>6
  <2>7. ReadSoFar(n + 1)'
    <3>1. n + 1 \in 0 .. Len(sent)
      BY <1>2, <2>5
    <3>2. begin' = Len(Before(sent, n + 1))
      BY <2>2, <2>5
    <3> QED BY <2>1, <2>6, <3>1, <3>2 DEF ReadSoFar, stream, Before, Seen
  <2>8. NextIsKept(n + 1)' /\ NextIsDue(n + 1)'
    BY <2>1 DEF NextIsKept, NextIsDue, NoHeader
  <2>9. n + 1 \in Nat
    OBVIOUS
  <2> QED BY <1>3, <2>1, <2>7, <2>8, <2>9 DEF StreamInv
<1>10. CASE RefuseHeader \/ AtEnd \/ SetConfig \/ UNCHANGED vars
  <2>1. UNCHANGED <<stream, yielded, begin>> /\ UNCHANGED <<sent, header>>
        /\ UNCHANGED <<sent, arrived>> /\ hungry' = hungry
    BY <1>10 DEF RefuseHeader, AtEnd, SetConfig, vars, stream
  <2> QED BY <1>3, <1>4, <1>5, <1>6, <2>1 DEF StreamInv
<1>11. CASE RefuseUnmasked
  <2>1. UNCHANGED <<stream, yielded, begin>> /\ UNCHANGED <<sent, arrived>>
        /\ hungry' = hungry /\ header' = NoHeader
    BY <1>11 DEF RefuseUnmasked, Split, stream
  <2>2. NextIsKept(n)'
    BY <2>1 DEF NextIsKept, NoHeader
  <2> QED BY <1>3, <1>4, <1>6, <2>1, <2>2 DEF StreamInv
<1>12. CASE Arrive
  <2>1. UNCHANGED <<stream, yielded, begin>> /\ UNCHANGED <<sent, header>>
        /\ hungry' = FALSE
    BY <1>12 DEF Arrive, stream
  <2>2. NextIsDue(n)'
    BY <2>1 DEF NextIsDue
  <2> QED BY <1>3, <1>4, <1>5, <2>1, <2>2 DEF StreamInv
<1> QED BY <1>7, <1>8, <1>9, <1>10, <1>11, <1>12 DEF Next, Decode, Read, Over

LEMMA StreamInvHolds == Spec => [](OfFrames => StreamInv)
<1>1. [Next]_vars => (OfFrames' => OfFrames)
  <2>1. [Next]_vars => UNCHANGED stream
    BY DEF Next, Decode, Read, Over, NeedHeader, NeedPayload, RefuseHeader,
       RefuseUnmasked, YieldFrame, Arrive, AtEnd, SetConfig, vars
  <2> QED BY <2>1 DEF OfFrames, stream
<1> QED BY <1>1, StreamInvInit, ReadInvHolds, StreamInvStep, PTL DEF Spec

LEMMA LenYielded ==
  ASSUME StreamInv
  PROVE  /\ FromStreams /\ Len(yielded) \in 0 .. Len(sent)
         /\ ReadSoFar(Len(yielded)) /\ NextIsKept(Len(yielded)) /\ NextIsDue(Len(yielded))
<1>1. PICK n \in Nat : FromStreams /\ ReadSoFar(n) /\ NextIsKept(n) /\ NextIsDue(n)
  BY DEF StreamInv
<1>2. Len(yielded) = n
  BY <1>1 DEF ReadSoFar
<1> QED BY <1>1, <1>2 DEF ReadSoFar

(* Whoever encoded it, with whatever form of a length and wherever it is   *)
(* masked, decode() yields a frame as it was sent, one after the other,    *)
(* and keeps the header of the next, through any cut and any set_config(). *)
THEOREM FramesSurviveHolds == Spec => []FramesSurvive
<1>1. (OfFrames => StreamInv) => FramesSurvive
  <2> SUFFICES ASSUME OfFrames, StreamInv PROVE FramesSurvive
    BY DEF FramesSurvive
  <2>1. /\ Len(yielded) \in 0 .. Len(sent) /\ Len(sent) \in Nat
        /\ ReadSoFar(Len(yielded)) /\ NextIsKept(Len(yielded))
    BY LenYielded, StreamFacts
  <2>2. \A i \in 1 .. Len(yielded) : yielded[i] = Seen(sent[i])
    BY <2>1 DEF ReadSoFar
  <2>3. Len(yielded) < Len(sent) => Len(yielded) + 1 <= Len(sent)
    BY <2>1
  <2> QED BY <2>1, <2>2, <2>3 DEF FramesSurvive, NextIsKept
<1> QED BY <1>1, StreamInvHolds, PTL

(* decode() never asks for bytes that may not come while a whole frame is  *)
(* in its buffer.                                                          *)
THEOREM NothingHeldBackHolds == Spec => []NothingHeldBack
<1>1. (OfFrames => StreamInv) => NothingHeldBack
  BY LenYielded DEF NothingHeldBack, NextIsDue, Before
<1> QED BY <1>1, StreamInvHolds, PTL

(* A sequence after the one it is joined to.                               *)
LEMMA TailIs ==
  ASSUME NEW s \in Seq(Byte), NEW t \in Seq(Byte)
  PROVE  SubSeq(s \o t, Len(s) + 1, Len(s \o t)) = t
<1> DEFINE c == s \o t
           u == SubSeq(c, Len(s) + 1, Len(c))
<1>1. c \in Seq(Byte) /\ Len(c) = Len(s) + Len(t)
      /\ \A i \in 1 .. Len(t) : c[Len(s) + i] = t[i]
  BY CatSeq, CatRight
<1> HIDE DEF c
<1>2. /\ Len(s) \in Nat /\ Len(t) \in Nat /\ Len(c) \in Nat /\ Len(s) <= Len(c)
      /\ Len(c) - Len(s) = Len(t)
  BY <1>1
<1>3. u \in Seq(Byte) /\ Len(u) = Len(t) /\ \A i \in 1 .. Len(t) : u[i] = c[Len(s) + i]
  BY <1>1, <1>2, BytesHere
<1> HIDE DEF u
<1>4. \A i \in 1 .. Len(t) : u[i] = t[i]
  BY <1>1, <1>3
<1>5. u = t
  BY <1>3, <1>4
<1> QED BY <1>5 DEF u, c

LEMMA MaskIsSeq ==
  ASSUME NEW m \in [1 .. 4 -> Byte]
  PROVE  m \in Seq(Byte)
<1>1. m = <<m[1], m[2], m[3], m[4]>>
  OBVIOUS
<1>2. m[1] \in Byte /\ m[2] \in Byte /\ m[3] \in Byte /\ m[4] \in Byte
  OBVIOUS
<1>3. \A p, q, r, s \in Byte : <<p, q, r, s>> \in Seq(Byte)
  OBVIOUS
<1> QED BY <1>1, <1>2, <1>3

LEMMA HeaderType ==
  ASSUME NEW h \in Header, NEW n \in Nat
  PROVE  WriteHeader(h, n) \in Seq(Byte)
<1> DEFINE x == h.op + Bit(h.fin, 128) + Bit(h.rsv1, 64) + Bit(h.rsv2, 32) + Bit(h.rsv3, 16)
           y == LengthByte(n) + Bit(h.mask # NoMask, 128)
           head == <<x, y>>
           e == BigEndian(n, ExtraBytes(LengthByte(n)))
<1>1. x \in Byte
  BY FirstByte DEF Header
<1>2. y \in Byte
  BY SecondByte
<1>3. ExtraBytes(LengthByte(n)) \in {0, 2, 8}
  BY DEF ExtraBytes
<1>4. e \in Seq(Byte)
  BY <1>3, BigEndianSize
<1>5. h.mask \in Seq(Byte)
  <2>1. CASE h.mask = NoMask
    BY <2>1 DEF NoMask
  <2>2. CASE h.mask # NoMask
    <3>1. h.mask \in [1 .. 4 -> Byte]
      BY <2>2 DEF Header, Mask
    <3> QED BY <3>1, MaskIsSeq
  <2> QED BY <2>1, <2>2
<1>6. WriteHeader(h, n) = (head \o e) \o h.mask
  BY DEF WriteHeader
<1> HIDE DEF x, y
<1>7. head \in Seq(Byte)
  BY <1>1, <1>2
<1> HIDE DEF head, e
<1>8. head \o e \in Seq(Byte)
  BY <1>4, <1>7, CatSeq
<1>9. (head \o e) \o h.mask \in Seq(Byte)
  BY <1>5, <1>8, CatSeq
<1> QED BY <1>6, <1>9

(* What the encoder writes of a frame, its buffer wherever it lies, is     *)
(* bytes that carry it, and all of it: a payload is no longer than a usize *)
(* or the 64 bits of a length can say.                                     *)
THEOREM EncodedCarries ==
  ASSUME NEW h \in Header, NEW payload \in Seq(Byte), NEW align \in 0 .. 3,
         Len(payload) < Word, Len(payload) < 65536 * 65536 * 65536 * 65536
  PROVE  LET item == [frame |-> [header |-> h, payload |-> payload],
                      len |-> Len(payload), bytes |-> Encode(h, payload, align)]
         IN item \in Item /\ Carries(item) /\ WholeItem(item)
<1> DEFINE n == Len(payload)
           head == WriteHeader(h, n)
           body == Masked(payload, h.mask)
           b == head \o body
           item == [frame |-> [header |-> h, payload |-> payload],
                    len |-> n, bytes |-> Encode(h, payload, align)]
<1>1. n \in Nat /\ h.mask \in Mask \cup {NoMask}
  BY DEF Header
<1>2. body \in Seq(Byte)
  BY <1>1, MaskedType
<1>3. head \in Seq(Byte)
  BY <1>1, HeaderType
<1>4. Encode(h, payload, align) = b
  <2>1. CASE h.mask = NoMask
    BY <2>1 DEF Encode, Masked
  <2>2. CASE h.mask # NoMask
    <3>1. ApplyMask(payload, h.mask, align) = body
      BY <2>2, ApplyMaskIs DEF Masked
    <3> QED BY <2>2, <3>1 DEF Encode
  <2> QED BY <2>1, <2>2
<1>5. b \in Seq(Byte) /\ Len(b) = Len(head) + Len(body)
  BY <1>2, <1>3, CatSeq
<1>6. Complete(b) /\ HeaderIn(b) = h /\ LengthIn(b) = n /\ HeaderSize(b) = Len(head)
  BY <1>1, <1>2, HeaderRoundTrip
<1>7. SubSeq(b, Len(head) + 1, Len(b)) = body
  BY <1>2, <1>3, TailIs
<1> HIDE DEF head, body, b
<1>8. item \in Item
  BY <1>1, <1>4, <1>5 DEF Item, Frame
<1>9. Carries(item)
  <2>1. Len(b) >= 2 /\ Len(b) >= HeaderSize(b)
    BY <1>6 DEF Complete
  <2>2. SubSeq(b, HeaderSize(b) + 1, Len(b)) = Masked(payload, h.mask)
    BY <1>6, <1>7 DEF body
  <2>3. /\ item.bytes = b /\ item.frame.header = h /\ item.frame.payload = payload
        /\ item.len = n /\ n <= n
    BY <1>1, <1>4
  <2> HIDE DEF item, n
  <2> QED BY <1>6, <2>1, <2>2, <2>3 DEF Carries, n
<1>10. WholeItem(item)
  BY DEF WholeItem
<1> QED BY <1>8, <1>9, <1>10
=============================================================================
