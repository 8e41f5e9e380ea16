-------------------------------- MODULE Utf8 --------------------------------
(***************************************************************************)
(* UTF-8 as the standard library and simdutf8 know it: which bytes make a  *)
(* character (RFC 3629, section 4), and what from_utf8 says of the rest.   *)
(***************************************************************************)
EXTENDS Integers, Sequences, FiniteSetsExt

Byte == 0 .. 255
Continuation == 128 .. 191

Prefix(s, n) == SubSeq(s, 1, n)
After(s, n) == SubSeq(s, n + 1, Len(s))

-----------------------------------------------------------------------------
(* The length of the character that a lead byte announces, 0 for a byte    *)
(* that is none; what may stand second excludes longer forms than needed,  *)
(* surrogates and what lies beyond U+10FFFF.                               *)
Width(lead) == IF lead < 128 THEN 1
               ELSE IF lead < 194 THEN 0
               ELSE IF lead < 224 THEN 2
               ELSE IF lead < 240 THEN 3
               ELSE IF lead < 245 THEN 4 ELSE 0

Second(lead) == CASE lead = 224 -> 160 .. 191
                  [] lead = 237 -> 128 .. 159
                  [] lead = 240 -> 144 .. 191
                  [] lead = 244 -> 128 .. 143
                  [] OTHER -> Continuation

WellFollowed(p) ==
  \A i \in 2 .. Len(p) : p[i] \in IF i = 2 THEN Second(p[1]) ELSE Continuation

(* A character, and the beginning of one that is cut.                      *)
IsChar(p) == Len(p) > 0 /\ Len(p) = Width(p[1]) /\ WellFollowed(p)
Opens(p) == Len(p) > 0 /\ Len(p) < Width(p[1]) /\ WellFollowed(p)

(* Every byte of a text belongs to a character.  No two characters         *)
(* overlap, as only their first bytes are lead bytes.                      *)
IsText(s) ==
  \A i \in 1 .. Len(s) : \E a \in 1 .. i, b \in i .. Len(s) : IsChar(SubSeq(s, a, b))

(* What may still become a text when more bytes follow.                    *)
Promising(s) ==
  \E n \in 0 .. Len(s) : IsText(Prefix(s, n)) /\ (n < Len(s) => Opens(After(s, n)))

-----------------------------------------------------------------------------
(* from_utf8: how far the text goes (Utf8Error::valid_up_to), and the      *)
(* length of what is no UTF-8 there (error_len, 0 for its None).           *)
ValidUpTo(s) == Max({n \in 0 .. Len(s) : IsText(Prefix(s, n))})

ErrorLen(rest) ==
  IF Opens(rest) THEN 0
  ELSE Max({n \in 1 .. Len(rest) : n = 1 \/ Opens(Prefix(rest, n))})
=============================================================================
