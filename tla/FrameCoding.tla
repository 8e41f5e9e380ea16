---------------------------- MODULE FrameCoding ----------------------------
(***************************************************************************)
(* The bytes of a frame: the header's two fixed bytes, the three forms of  *)
(* the length, the mask (frame.rs, coding.rs, codec/encode.rs, mask.rs).   *)
(***************************************************************************)
EXTENDS Naturals, Sequences

CONSTANTS
  ByteXor(_, _),      \* bitwise exclusive or of two bytes
  Word                \* 2^w for a usize of w bits

Byte == 0 .. 255

ASSUME XorAssumption ==
  \A a, b \in Byte : ByteXor(a, b) \in Byte /\ ByteXor(ByteXor(a, b), b) = a
ASSUME WordAssumption == Word \in Nat \ {0}

Mask == [1 .. 4 -> Byte]
NoMask == <<>>

(* FrameHeader, its opcode as the number that OpCode converts to and from. *)
Header == [fin : BOOLEAN, rsv1 : BOOLEAN, rsv2 : BOOLEAN, rsv3 : BOOLEAN,
           op : 0 .. 15, mask : Mask \cup {NoMask}]
IsReserved(op) == op \in (3 .. 7) \cup (11 .. 15)

-----------------------------------------------------------------------------
(* LengthFormat: one byte below 126, else 126 and two bytes, or 127 and    *)
(* eight, most significant first.                                          *)
LengthByte(n) == IF n < 126 THEN n ELSE IF n < 65536 THEN 126 ELSE 127
ExtraBytes(byte) == CASE byte = 126 -> 2 [] byte = 127 -> 8 [] OTHER -> 0

Pair(n) == <<(n \div 256) % 256, n % 256>>
Pairs(n) == n \div 65536
BigEndian(n, width) ==
  CASE width = 2 -> Pair(n)
    [] width = 8 -> Pair(Pairs(Pairs(Pairs(n)))) \o Pair(Pairs(Pairs(n)))
                    \o Pair(Pairs(n)) \o Pair(n)
    [] OTHER -> <<>>

PairAt(b, i) == 256 * b[i] + b[i + 1]
FromBigEndian(b, i, width) ==
  IF width = 2 THEN PairAt(b, i)
  ELSE 65536 * (65536 * (65536 * PairAt(b, i) + PairAt(b, i + 2))
                + PairAt(b, i + 4)) + PairAt(b, i + 6)

-----------------------------------------------------------------------------
(* FrameEncoder::write_header.                                             *)
Bit(flag, n) == IF flag THEN n ELSE 0

WriteHeader(h, n) ==
  <<h.op + Bit(h.fin, 128) + Bit(h.rsv1, 64) + Bit(h.rsv2, 32) + Bit(h.rsv3, 16),
    LengthByte(n) + Bit(h.mask # NoMask, 128)>>
  \o BigEndian(n, ExtraBytes(LengthByte(n))) \o h.mask

(* FrameHeader::parse on the bytes there are: None until the header is     *)
(* complete, and then the header, the payload's length as a usize and the  *)
(* number of bytes it took.                                                *)
HasBit(byte, n) == (byte \div n) % 2 = 1
Extra(b) == ExtraBytes(b[2] % 128)
IsMasked(b) == HasBit(b[2], 128)

HeaderSize(b) == 2 + Extra(b) + (IF IsMasked(b) THEN 4 ELSE 0)
Complete_AtMaxSize(b) == Len(b) >= 14
Complete(b) == Len(b) >= 2 /\ Len(b) >= HeaderSize(b)

HeaderIn(b) ==
  [fin |-> HasBit(b[1], 128), rsv1 |-> HasBit(b[1], 64),
   rsv2 |-> HasBit(b[1], 32), rsv3 |-> HasBit(b[1], 16), op |-> b[1] % 16,
   mask |-> IF IsMasked(b) THEN SubSeq(b, 3 + Extra(b), 6 + Extra(b)) ELSE NoMask]

LengthIn(b) ==
  (IF Extra(b) = 0 THEN b[2] % 128
                   ELSE FromBigEndian(b, 3, Extra(b))) % Word

-----------------------------------------------------------------------------
(* apply_mask_fast32: the buffer is cut at the word boundaries of its      *)
(* address, `align' bytes past one.  The bytes before the first boundary   *)
(* are masked one by one; then whole words, with the mask rotated by the   *)
(* bytes that went before; then the rest, with the rotated mask.           *)
Prefix(len, align) ==
  LET ahead == (4 - align) % 4 IN IF ahead < len THEN ahead ELSE len

(* Which byte of the mask the k-th byte of the buffer meets, from 0.       *)
MaskIndex_Unrotated(k, len, align) ==
  LET prefix == Prefix(len, align) IN
  IF k < prefix THEN k % 4 ELSE (k - prefix) % 4
MaskIndex(k, len, align) ==
  LET prefix == Prefix(len, align)
      words == 4 * ((len - prefix) \div 4)
      rotated(j) == (j + prefix) % 4
  IN IF k < prefix THEN k % 4
     ELSE IF k < prefix + words THEN rotated((k - prefix) % 4)
     ELSE rotated((k - prefix - words) % 4)

ApplyMask(buf, mask, align) ==
  [k \in 1 .. Len(buf) |->
     ByteXor(buf[k], mask[MaskIndex(k - 1, Len(buf), align) + 1])]

(* FrameEncoder::encode, into a buffer at this alignment.                  *)
Encode(h, payload, align) ==
  WriteHeader(h, Len(payload)) \o
  (IF h.mask = NoMask THEN payload ELSE ApplyMask(payload, h.mask, align))
=============================================================================
