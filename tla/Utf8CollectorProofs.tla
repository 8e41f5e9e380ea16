------------------------- MODULE Utf8CollectorProofs -------------------------
(***************************************************************************)
(* A text that arrives in fragments is accepted, refused and kept as if it *)
(* had come in one piece, for every stream and every way to cut it.        *)
(***************************************************************************)
EXTENDS Utf8Collector, SequenceTheorems, NaturalsInduction, WellFoundedInduction, TLAPS

(* A character of s, by its first and its last index.                      *)
CharAt(s, a, b) ==
  /\ b - a + 1 = Width(s[a])
  /\ \A i \in a + 1 .. b : s[i] \in IF i = a + 1 THEN Second(s[a]) ELSE Continuation

-----------------------------------------------------------------------------
(* Bytes and sequences of them.                                            *)

LEMMA LeadBytes ==
  ASSUME NEW lead \in Byte
  PROVE  /\ Width(lead) \in 0 .. 4
         /\ lead \in Continuation => Width(lead) = 0
         /\ Second(lead) \subseteq Continuation
<1>1. lead \in Int
  BY DEF Byte
<1>2. Width(lead) \in 0 .. 4
  BY DEF Width
<1>3. lead \in Continuation => Width(lead) = 0
  BY DEF Width, Continuation
<1>4. Second(lead) \subseteq Continuation
  BY <1>1 DEF Second, Continuation
<1> QED BY <1>2, <1>3, <1>4

LEMMA Concat ==
  ASSUME NEW s \in Seq(Byte), NEW t \in Seq(Byte)
  PROVE  /\ s \o t \in Seq(Byte) /\ Len(s \o t) = Len(s) + Len(t)
         /\ \A i \in 1 .. Len(s) : (s \o t)[i] = s[i]
         /\ \A i \in 1 .. Len(t) : (s \o t)[Len(s) + i] = t[i]
OBVIOUS

LEMMA Slice ==
  ASSUME NEW s \in Seq(Byte), NEW a \in 1 .. Len(s) + 1, NEW b \in a - 1 .. Len(s)
  PROVE  /\ SubSeq(s, a, b) \in Seq(Byte) /\ Len(SubSeq(s, a, b)) = b - a + 1
         /\ \A i \in 1 .. b - a + 1 : SubSeq(s, a, b)[i] = s[a + i - 1]
<1>1. \A i \in a .. b : s[i] \in Byte
  OBVIOUS
<1>2. a \in Int /\ b \in Int
  OBVIOUS
<1> QED BY <1>1, <1>2, SubSeqProperties

LEMMA Halves ==
  ASSUME NEW s \in Seq(Byte), NEW n \in 0 .. Len(s)
  PROVE  /\ Prefix(s, n) \in Seq(Byte) /\ Len(Prefix(s, n)) = n
         /\ \A i \in 1 .. n : Prefix(s, n)[i] = s[i]
         /\ After(s, n) \in Seq(Byte) /\ Len(After(s, n)) = Len(s) - n
         /\ \A i \in 1 .. Len(s) - n : After(s, n)[i] = s[n + i]
<1>1. /\ Prefix(s, n) \in Seq(Byte) /\ Len(Prefix(s, n)) = n
      /\ \A i \in 1 .. n : Prefix(s, n)[i] = s[i]
  BY Slice, 1 \in 1 .. Len(s) + 1, n \in 1 - 1 .. Len(s) DEF Prefix
<1>2. n + 1 \in 1 .. Len(s) + 1 /\ Len(s) \in (n + 1) - 1 .. Len(s)
  OBVIOUS
<1>3. /\ After(s, n) \in Seq(Byte) /\ Len(After(s, n)) = Len(s) - (n + 1) + 1
      /\ \A i \in 1 .. Len(s) - (n + 1) + 1 : After(s, n)[i] = s[n + 1 + i - 1]
  BY <1>2, Slice DEF After
<1> QED BY <1>1, <1>3

(* Sequences that agree are the same.                                      *)
LEMMA SameBytes ==
  ASSUME NEW s \in Seq(Byte), NEW t \in Seq(Byte), Len(s) = Len(t),
         \A i \in 1 .. Len(s) : s[i] = t[i]
  PROVE  s = t
OBVIOUS

(* A sequence is its two halves, and a concatenation halves at its seam.   *)
LEMMA Rejoin ==
  ASSUME NEW s \in Seq(Byte), NEW n \in 0 .. Len(s)
  PROVE  Prefix(s, n) \o After(s, n) = s
<1> DEFINE p == Prefix(s, n)
           q == After(s, n)
<1>1. /\ p \in Seq(Byte) /\ Len(p) = n /\ q \in Seq(Byte) /\ Len(q) = Len(s) - n
      /\ \A i \in 1 .. n : p[i] = s[i]
      /\ \A i \in 1 .. Len(s) - n : q[i] = s[n + i]
  BY Halves
<1> HIDE DEF p, q
<1>2. p \o q \in Seq(Byte) /\ Len(p \o q) = Len(s)
  BY <1>1, Concat
<1>3. ASSUME NEW i \in 1 .. Len(s)
      PROVE  (p \o q)[i] = s[i]
  <2>1. CASE i <= n
    BY <2>1, <1>1, Concat
  <2>2. CASE i > n
    <3>1. i - n \in 1 .. Len(q) /\ i = Len(p) + (i - n)
      BY <2>2, <1>1
    <3>2. (p \o q)[Len(p) + (i - n)] = q[i - n]
      BY <1>1, <3>1, Concat
    <3>3. q[i - n] = s[n + (i - n)]
      BY <1>1, <3>1
    <3> QED BY <3>1, <3>2, <3>3, <1>1
  <2>3. i <= n \/ i > n
    OBVIOUS
  <2> QED BY <2>1, <2>2, <2>3
<1>4. p \o q = s
  BY <1>2, <1>3, SameBytes
<1> QED BY <1>4 DEF p, q

LEMMA Seam ==
  ASSUME NEW s \in Seq(Byte), NEW t \in Seq(Byte)
  PROVE  Prefix(s \o t, Len(s)) = s /\ After(s \o t, Len(s)) = t
<1> DEFINE u == s \o t
<1>1. /\ u \in Seq(Byte) /\ Len(u) = Len(s) + Len(t)
      /\ \A i \in 1 .. Len(s) : u[i] = s[i]
      /\ \A i \in 1 .. Len(t) : u[Len(s) + i] = t[i]
  BY Concat
<1> HIDE DEF u
<1>2. Len(s) \in 0 .. Len(u)
  BY <1>1
<1>3. Prefix(u, Len(s)) = s
  <2> DEFINE v == Prefix(u, Len(s))
  <2>1. v \in Seq(Byte) /\ Len(v) = Len(s) /\ \A i \in 1 .. Len(s) : v[i] = u[i]
    BY <1>1, <1>2, Halves
  <2> HIDE DEF v
  <2>2. v = s
    BY <2>1, <1>1, SameBytes
  <2> QED BY <2>2 DEF v
<1>4. After(u, Len(s)) = t
  <2> DEFINE w == After(u, Len(s))
  <2>1. /\ w \in Seq(Byte) /\ Len(w) = Len(u) - Len(s)
        /\ \A i \in 1 .. Len(u) - Len(s) : w[i] = u[Len(s) + i]
    BY <1>1, <1>2, Halves
  <2>3. Len(u) - Len(s) = Len(t)
    BY <1>1
  <2> HIDE DEF w
  <2>2. w = t
    BY <2>1, <2>3, <1>1, SameBytes
  <2> QED BY <2>2 DEF w
<1> QED BY <1>3, <1>4 DEF u

-----------------------------------------------------------------------------
(* Characters and texts by index.                                          *)

LEMMA CharIs ==
  ASSUME NEW s \in Seq(Byte), NEW a \in 1 .. Len(s), NEW b \in a .. Len(s)
  PROVE  IsChar(SubSeq(s, a, b)) <=> CharAt(s, a, b)
<1> DEFINE p == SubSeq(s, a, b)
<1>1. /\ Len(p) = b - a + 1
      /\ \A i \in 1 .. b - a + 1 : p[i] = s[a + i - 1]
  BY Slice
<1> HIDE DEF p
<1>2. p[1] = s[a]
  BY <1>1
<1> DEFINE after(j) == IF j = 2 THEN Second(s[a]) ELSE Continuation
           follows(i) == IF i = a + 1 THEN Second(s[a]) ELSE Continuation
<1>3. WellFollowed(p) <=> \A j \in 2 .. b - a + 1 : p[j] \in after(j)
  BY <1>1, <1>2 DEF WellFollowed
<1>4. (\A j \in 2 .. b - a + 1 : p[j] \in after(j)) <=> (\A i \in a + 1 .. b : s[i] \in follows(i))
  <2>1. ASSUME \A j \in 2 .. b - a + 1 : p[j] \in after(j), NEW i \in a + 1 .. b
        PROVE  s[i] \in follows(i)
    <3>1. i - a + 1 \in 2 .. b - a + 1 /\ a + (i - a + 1) - 1 = i
      OBVIOUS
    <3>2. p[i - a + 1] = s[i] /\ p[i - a + 1] \in after(i - a + 1)
      BY <3>1, <2>1, <1>1
    <3> QED BY <3>2
  <2>2. ASSUME \A i \in a + 1 .. b : s[i] \in follows(i), NEW j \in 2 .. b - a + 1
        PROVE  p[j] \in after(j)
    <3>1. a + j - 1 \in a + 1 .. b /\ p[j] = s[a + j - 1]
      BY <1>1
    <3>2. s[a + j - 1] \in follows(a + j - 1)
      BY <3>1, <2>2
    <3> QED BY <3>1, <3>2
  <2> QED BY <2>1, <2>2
<1>5. IsChar(p) <=> CharAt(s, a, b)
  BY <1>1, <1>2, <1>3, <1>4 DEF IsChar, CharAt
<1> QED BY <1>5 DEF p

LEMMA TextIs ==
  ASSUME NEW s \in Seq(Byte)
  PROVE  IsText(s) <=>
           \A i \in 1 .. Len(s) : \E a \in 1 .. i, b \in i .. Len(s) : CharAt(s, a, b)
<1>1. ASSUME NEW i \in 1 .. Len(s), NEW a \in 1 .. i, NEW b \in i .. Len(s)
      PROVE  IsChar(SubSeq(s, a, b)) <=> CharAt(s, a, b)
  BY CharIs, a \in 1 .. Len(s), b \in a .. Len(s)
<1> QED BY <1>1 DEF IsText

(* The same bytes elsewhere are the same character.                        *)
LEMMA SameChar ==
  ASSUME NEW s \in Seq(Byte), NEW t \in Seq(Byte), NEW k \in Int,
         NEW a \in 1 .. Len(s), NEW b \in a .. Len(s), CharAt(s, a, b),
         \A i \in a .. b : t[i + k] = s[i]
  PROVE  CharAt(t, a + k, b + k)
<1>1. t[a + k] = s[a]
  OBVIOUS
<1>2. (b + k) - (a + k) + 1 = Width(t[a + k])
  BY <1>1 DEF CharAt
<1>3. ASSUME NEW i \in a + k + 1 .. b + k
      PROVE  t[i] \in IF i = a + k + 1 THEN Second(t[a + k]) ELSE Continuation
  <2>1. i - k \in a + 1 .. b /\ (i - k) + k = i
    OBVIOUS
  <2>2. t[i] = s[i - k]
    BY <2>1
  <2>3. s[i - k] \in IF i - k = a + 1 THEN Second(s[a]) ELSE Continuation
    BY <2>1 DEF CharAt
  <2>4. i \in Int /\ a \in Int
    OBVIOUS
  <2>5. i - k = a + 1 <=> i = a + k + 1
    BY <2>4
  <2> QED BY <2>2, <2>3, <2>5, <1>1
<1> QED BY <1>2, <1>3 DEF CharAt

(* Characters do not overlap: only the first byte of one is a lead byte.   *)
LEMMA Disjoint ==
  ASSUME NEW s \in Seq(Byte), NEW i \in 1 .. Len(s),
         NEW a \in 1 .. i, NEW b \in i .. Len(s), CharAt(s, a, b),
         NEW c \in 1 .. i, NEW d \in i .. Len(s), CharAt(s, c, d)
  PROVE  a = c /\ b = d
<1>1. ASSUME NEW x \in 1 .. i, NEW y \in i .. Len(s), CharAt(s, x, y),
             NEW v \in 1 .. i, NEW w \in i .. Len(s), CharAt(s, v, w)
      PROVE  ~(x < v)
  <2> SUFFICES ASSUME x < v PROVE FALSE
    OBVIOUS
  <2>1. s[x] \in Byte /\ s[v] \in Byte
    OBVIOUS
  <2>2. v \in x + 1 .. y
    OBVIOUS
  <2>3. s[v] \in Continuation
    BY <1>1, <2>1, <2>2, LeadBytes DEF CharAt
  <2>4. Width(s[v]) = 0
    BY <2>1, <2>3, LeadBytes
  <2> QED BY <1>1, <2>4 DEF CharAt
<1>2. a = c
  BY <1>1
<1> QED BY <1>2 DEF CharAt

-----------------------------------------------------------------------------
(* A text, and the beginning of a character, after the first m bytes of s  *)
(* and up to the n-th.                                                     *)
TextIn(s, m, n) ==
  \A i \in m + 1 .. n : \E a \in m + 1 .. i, b \in i .. n : CharAt(s, a, b)

OpenIn(s, m, n) ==
  /\ m < n /\ n - m < Width(s[m + 1])
  /\ \A i \in m + 2 .. n : s[i] \in IF i = m + 2 THEN Second(s[m + 1]) ELSE Continuation

LEMMA Moved ==
  ASSUME NEW s \in Seq(Byte), NEW t \in Seq(Byte), NEW k \in Int,
         NEW m \in 0 .. Len(s), NEW n \in m .. Len(s), TextIn(s, m, n),
         m + k >= 0, n + k <= Len(t),
         \A i \in m + 1 .. n : t[i + k] = s[i]
  PROVE  TextIn(t, m + k, n + k)
<1> SUFFICES ASSUME NEW j \in m + k + 1 .. n + k
             PROVE  \E a \in m + k + 1 .. j, b \in j .. n + k : CharAt(t, a, b)
  BY DEF TextIn
<1>1. j - k \in m + 1 .. n
  OBVIOUS
<1>2. PICK a \in m + 1 .. j - k : \E b \in j - k .. n : CharAt(s, a, b)
  BY <1>1 DEF TextIn
<1>3. PICK b \in j - k .. n : CharAt(s, a, b)
  BY <1>2
<1>4. a \in 1 .. Len(s) /\ b \in a .. Len(s)
  BY <1>1
<1>5. \A i \in a .. b : t[i + k] = s[i]
  BY <1>1
<1>6. CharAt(t, a + k, b + k)
  BY <1>3, <1>4, <1>5, SameChar
<1>7. a + k \in m + k + 1 .. j /\ b + k \in j .. n + k
  BY <1>1
<1> QED BY <1>6, <1>7

LEMMA TextAll ==
  ASSUME NEW s \in Seq(Byte)
  PROVE  IsText(s) <=> TextIn(s, 0, Len(s))
BY TextIs DEF TextIn

LEMMA TextOfSlice ==
  ASSUME NEW s \in Seq(Byte), NEW m \in 0 .. Len(s), NEW n \in m .. Len(s)
  PROVE  IsText(SubSeq(s, m + 1, n)) <=> TextIn(s, m, n)
<1> DEFINE p == SubSeq(s, m + 1, n)
<1>1. m + 1 \in 1 .. Len(s) + 1 /\ n \in (m + 1) - 1 .. Len(s)
  OBVIOUS
<1>2. /\ p \in Seq(Byte) /\ Len(p) = n - (m + 1) + 1
      /\ \A i \in 1 .. n - (m + 1) + 1 : p[i] = s[(m + 1) + i - 1]
  BY <1>1, Slice
<1> HIDE DEF p
<1>3. Len(p) = n - m /\ \A i \in 1 .. n - m : p[i] = s[i + m]
  BY <1>2
<1>4. ASSUME TextIn(p, 0, n - m) PROVE TextIn(s, m, n)
  <2>1. TextIn(s, 0 + m, (n - m) + m)
    <3>1. /\ 0 \in 0 .. Len(p) /\ n - m \in 0 .. Len(p) /\ m \in Int
          /\ 0 + m >= 0 /\ (n - m) + m <= Len(s)
      BY <1>3
    <3>2. \A i \in 0 + 1 .. n - m : s[i + m] = p[i]
      BY <1>3
    <3> QED BY <3>1, <3>2, <1>2, <1>4, Moved
  <2> QED BY <2>1
<1>5. ASSUME TextIn(s, m, n) PROVE TextIn(p, 0, n - m)
  <2>1. TextIn(p, m + (0 - m), n + (0 - m))
    <3>1. 0 - m \in Int /\ m + (0 - m) >= 0 /\ n + (0 - m) <= Len(p)
      BY <1>3
    <3>2. \A i \in m + 1 .. n : p[i + (0 - m)] = s[i]
      <4> SUFFICES ASSUME NEW i \in m + 1 .. n PROVE p[i + (0 - m)] = s[i]
        OBVIOUS
      <4>1. i + (0 - m) \in 1 .. n - m /\ (i + (0 - m)) + m = i
        OBVIOUS
      <4> QED BY <4>1, <1>3
    <3> QED BY <3>1, <3>2, <1>2, <1>5, Moved
  <2>2. m + (0 - m) = 0 /\ n + (0 - m) = n - m
    OBVIOUS
  <2> QED BY <2>1, <2>2
<1>6. IsText(p) <=> TextIn(p, 0, n - m)
  BY <1>2, <1>3, TextAll
<1> QED BY <1>4, <1>5, <1>6 DEF p

LEMMA OpensSlice ==
  ASSUME NEW s \in Seq(Byte), NEW m \in 0 .. Len(s), NEW n \in m .. Len(s)
  PROVE  Opens(SubSeq(s, m + 1, n)) <=> OpenIn(s, m, n)
<1> DEFINE p == SubSeq(s, m + 1, n)
<1>1. m + 1 \in 1 .. Len(s) + 1 /\ n \in (m + 1) - 1 .. Len(s)
  OBVIOUS
<1>2. /\ p \in Seq(Byte) /\ Len(p) = n - (m + 1) + 1
      /\ \A i \in 1 .. n - (m + 1) + 1 : p[i] = s[(m + 1) + i - 1]
  BY <1>1, Slice
<1> HIDE DEF p
<1>3. Len(p) = n - m /\ \A i \in 1 .. n - m : p[i] = s[i + m]
  BY <1>2
<1>4. CASE m = n
  BY <1>3, <1>4 DEF Opens, OpenIn
<1>5. CASE m < n
  <2>1. p[1] = s[m + 1]
    BY <1>3, <1>5
  <2> DEFINE after(j) == IF j = 2 THEN Second(s[m + 1]) ELSE Continuation
             follows(i) == IF i = m + 2 THEN Second(s[m + 1]) ELSE Continuation
  <2>2. ASSUME \A j \in 2 .. n - m : p[j] \in after(j), NEW i \in m + 2 .. n
        PROVE  s[i] \in follows(i)
    <3>1. i - m \in 2 .. n - m /\ (i - m) + m = i
      OBVIOUS
    <3>2. p[i - m] = s[i] /\ p[i - m] \in after(i - m)
      BY <3>1, <2>2, <1>3
    <3>3. i \in Int /\ m \in Int
      OBVIOUS
    <3>4. i - m = 2 <=> i = m + 2
      BY <3>3
    <3> QED BY <3>2, <3>4
  <2>3. ASSUME \A i \in m + 2 .. n : s[i] \in follows(i), NEW j \in 2 .. n - m
        PROVE  p[j] \in after(j)
    <3>1. j + m \in m + 2 .. n /\ p[j] = s[j + m]
      BY <1>3
    <3>2. s[j + m] \in follows(j + m)
      BY <3>1, <2>3
    <3>3. j \in Int /\ m \in Int
      OBVIOUS
    <3>4. j = 2 <=> j + m = m + 2
      BY <3>3
    <3> QED BY <3>1, <3>2, <3>4
  <2>4. WellFollowed(p) <=> \A i \in m + 2 .. n : s[i] \in follows(i)
    BY <2>1, <2>2, <2>3, <1>3 DEF WellFollowed
  <2>5. Len(p) = n - m /\ n - m > 0
    BY <1>3, <1>5
  <2>6. Opens(p) <=> n - m < Width(s[m + 1]) /\ WellFollowed(p)
    BY <2>1, <2>5 DEF Opens
  <2>7. OpenIn(s, m, n) <=> n - m < Width(s[m + 1]) /\ \A i \in m + 2 .. n : s[i] \in follows(i)
    BY <1>5 DEF OpenIn
  <2> QED BY <2>4, <2>6, <2>7 DEF p
<1> QED BY <1>4, <1>5 DEF p

LEMMA PrefixText ==
  ASSUME NEW s \in Seq(Byte), NEW n \in 0 .. Len(s)
  PROVE  /\ IsText(Prefix(s, n)) <=> TextIn(s, 0, n)
         /\ n > 0 => (Opens(Prefix(s, n)) <=> OpenIn(s, 0, n))
<1>1. 0 \in 0 .. Len(s) /\ n \in 0 .. Len(s) /\ 0 + 1 = 1
  OBVIOUS
<1>2. /\ IsText(SubSeq(s, 0 + 1, n)) <=> TextIn(s, 0, n)
      /\ Opens(SubSeq(s, 0 + 1, n)) <=> OpenIn(s, 0, n)
  BY <1>1, TextOfSlice, OpensSlice
<1> QED BY <1>1, <1>2 DEF Prefix

LEMMA AfterText ==
  ASSUME NEW s \in Seq(Byte), NEW n \in 0 .. Len(s)
  PROVE  /\ IsText(After(s, n)) <=> TextIn(s, n, Len(s))
         /\ Opens(After(s, n)) <=> OpenIn(s, n, Len(s))
<1>1. Len(s) \in n .. Len(s)
  OBVIOUS
<1> QED BY <1>1, TextOfSlice, OpensSlice DEF After

-----------------------------------------------------------------------------
(* Texts join, and a text is cut by a text.                                *)

LEMMA Joins ==
  ASSUME NEW s \in Seq(Byte), NEW l \in 0 .. Len(s), NEW m \in l .. Len(s),
         NEW n \in m .. Len(s), TextIn(s, l, m), TextIn(s, m, n)
  PROVE  TextIn(s, l, n)
<1> SUFFICES ASSUME NEW i \in l + 1 .. n
             PROVE  \E a \in l + 1 .. i, b \in i .. n : CharAt(s, a, b)
  BY DEF TextIn
<1>1. CASE i <= m
  <2> i \in l + 1 .. m
    BY <1>1
  <2>1. PICK a \in l + 1 .. i : \E b \in i .. m : CharAt(s, a, b)
    BY DEF TextIn
  <2>2. PICK b \in i .. m : CharAt(s, a, b)
    BY <2>1
  <2>3. b \in i .. n
    OBVIOUS
  <2> QED BY <2>2, <2>3
<1>2. CASE i > m
  <2> i \in m + 1 .. n
    BY <1>2
  <2>1. PICK a \in m + 1 .. i : \E b \in i .. n : CharAt(s, a, b)
    BY DEF TextIn
  <2>2. a \in l + 1 .. i
    OBVIOUS
  <2> QED BY <2>1, <2>2
<1>3. i <= m \/ i > m
  OBVIOUS
<1> QED BY <1>1, <1>2, <1>3

LEMMA Cuts ==
  ASSUME NEW s \in Seq(Byte), NEW l \in 0 .. Len(s), NEW m \in l .. Len(s),
         NEW n \in m .. Len(s), TextIn(s, l, m), TextIn(s, l, n)
  PROVE  TextIn(s, m, n)
<1> SUFFICES ASSUME NEW i \in m + 1 .. n
             PROVE  \E a \in m + 1 .. i, b \in i .. n : CharAt(s, a, b)
  BY DEF TextIn
<1> i \in l + 1 .. n
  OBVIOUS
<1>1. PICK a \in l + 1 .. i : \E b \in i .. n : CharAt(s, a, b)
  BY DEF TextIn
<1>2. PICK b \in i .. n : CharAt(s, a, b)
  BY <1>1
<1>3. ASSUME a <= m PROVE FALSE
  <2>1. a \in l + 1 .. m
    BY <1>3
  <2>2. PICK c \in l + 1 .. a : \E d \in a .. m : CharAt(s, c, d)
    BY <2>1 DEF TextIn
  <2>3. PICK d \in a .. m : CharAt(s, c, d)
    BY <2>2
  <2>4. a \in 1 .. Len(s) /\ a \in 1 .. a /\ b \in a .. Len(s) /\ c \in 1 .. a /\ d \in a .. Len(s)
    OBVIOUS
  <2>5. b = d
    BY <1>2, <2>3, <2>4, Disjoint
  <2> QED BY <2>5
<1>4. a \in m + 1 .. i
  BY <1>3
<1> QED BY <1>2, <1>4

(* The beginning of a character has no text at its start.                  *)
LEMMA OpenIsNoText ==
  ASSUME NEW s \in Seq(Byte), NEW m \in 0 .. Len(s), NEW l \in m .. Len(s),
         NEW n \in m + 1 .. l, OpenIn(s, m, l)
  PROVE  ~TextIn(s, m, n)
<1> SUFFICES ASSUME TextIn(s, m, n) PROVE FALSE
  OBVIOUS
<1>1. m + 1 \in m + 1 .. n
  OBVIOUS
<1>2. PICK a \in m + 1 .. m + 1 : \E b \in m + 1 .. n : CharAt(s, a, b)
  BY <1>1 DEF TextIn
<1>3. PICK b \in m + 1 .. n : CharAt(s, m + 1, b)
  BY <1>2
<1>4. b - (m + 1) + 1 = Width(s[m + 1])
  BY <1>3 DEF CharAt
<1> QED BY <1>3, <1>4 DEF OpenIn

(* It is at most three bytes long, and so is its every beginning one.      *)
LEMMA OpenIsShort ==
  ASSUME NEW s \in Seq(Byte), NEW m \in 0 .. Len(s), NEW l \in m .. Len(s),
         OpenIn(s, m, l)
  PROVE  /\ m < l /\ l - m <= 3
         /\ \A n \in m + 1 .. l : OpenIn(s, m, n)
<1>1. s[m + 1] \in Byte /\ m < l
  BY DEF OpenIn
<1>2. Width(s[m + 1]) \in 0 .. 4 /\ l - m < Width(s[m + 1])
  BY <1>1, LeadBytes DEF OpenIn
<1>3. l - m <= 3
  BY <1>2
<1>4. ASSUME NEW n \in m + 1 .. l PROVE OpenIn(s, m, n)
  <2>1. m < n /\ n - m < Width(s[m + 1])
    BY <1>2
  <2>2. \A i \in m + 2 .. n : i \in m + 2 .. l
    OBVIOUS
  <2> QED BY <2>1, <2>2 DEF OpenIn
<1> QED BY <1>1, <1>3, <1>4

(* A text that is not empty starts with a character.                       *)
LEMMA TextStarts ==
  ASSUME NEW s \in Seq(Byte), NEW m \in 0 .. Len(s), NEW n \in m + 1 .. Len(s),
         TextIn(s, m, n)
  PROVE  \E k \in m + 1 .. n : k - m <= 4 /\ TextIn(s, m, k)
<1>1. m + 1 \in m + 1 .. n
  OBVIOUS
<1>2. PICK a \in m + 1 .. m + 1 : \E b \in m + 1 .. n : CharAt(s, a, b)
  BY <1>1 DEF TextIn
<1>3. PICK b \in m + 1 .. n : CharAt(s, m + 1, b)
  BY <1>2
<1>4. s[m + 1] \in Byte
  OBVIOUS
<1>5. b - (m + 1) + 1 = Width(s[m + 1])
  BY <1>3 DEF CharAt
<1>6. b - m <= 4
  BY <1>4, <1>5, LeadBytes
<1>7. TextIn(s, m, b)
  <2> SUFFICES ASSUME NEW i \in m + 1 .. b
               PROVE  \E a2 \in m + 1 .. i, b2 \in i .. b : CharAt(s, a2, b2)
    BY DEF TextIn
  <2>1. m + 1 \in m + 1 .. i /\ b \in i .. b
    OBVIOUS
  <2> QED BY <2>1, <1>3
<1> QED BY <1>6, <1>7

(* After a text, what is neither a text at its start nor the beginning of  *)
(* a character makes the whole hopeless.                                   *)
LEMMA Hopeless ==
  ASSUME NEW s \in Seq(Byte), NEW k \in 0 .. Len(s), TextIn(s, 0, k), k < Len(s),
         ~OpenIn(s, k, Len(s)),
         \A m \in k + 1 .. Len(s) : ~TextIn(s, k, m)
  PROVE  ~Promising(s)
<1> SUFFICES ASSUME NEW n \in 0 .. Len(s), IsText(Prefix(s, n)),
                    n < Len(s) => Opens(After(s, n))
             PROVE  FALSE
  BY DEF Promising
<1>1. TextIn(s, 0, n) /\ (n < Len(s) => OpenIn(s, n, Len(s)))
  BY PrefixText, AfterText
<1>2. CASE n > k
  <2>1. 0 \in 0 .. Len(s) /\ k \in 0 .. Len(s) /\ n \in k .. Len(s)
    BY <1>2
  <2>2. TextIn(s, k, n)
    BY <2>1, <1>1, Cuts
  <2>3. n \in k + 1 .. Len(s)
    BY <1>2
  <2> QED BY <2>2, <2>3
<1>3. CASE n = k
  BY <1>1, <1>3
<1>4. CASE n < k
  <2>1. 0 \in 0 .. Len(s) /\ n \in 0 .. Len(s) /\ k \in n .. Len(s)
    BY <1>4
  <2>2. TextIn(s, n, k)
    BY <2>1, <1>1, Cuts
  <2>3. OpenIn(s, n, Len(s))
    BY <1>1, <1>4
  <2>4. Len(s) \in n .. Len(s) /\ k \in n + 1 .. Len(s)
    BY <1>4
  <2> QED BY <2>2, <2>3, <2>4, OpenIsNoText
<1>5. n > k \/ n = k \/ n < k
  OBVIOUS
<1> QED BY <1>2, <1>3, <1>4, <1>5

(* What can still become a text could at every point before, so no later   *)
(* fragment repairs a text that extend() has refused.                      *)
THEOREM PromisingBefore ==
  ASSUME NEW s \in Seq(Byte), NEW l \in 0 .. Len(s), Promising(s)
  PROVE  Promising(Prefix(s, l))
<1> DEFINE p == Prefix(s, l)
<1>1. /\ p \in Seq(Byte) /\ Len(p) = l
      /\ \A i \in 1 .. l : p[i] = s[i]
  BY Halves
<1> SUFFICES Promising(p)
  OBVIOUS
<1> HIDE DEF p
<1>2. PICK n \in 0 .. Len(s) : IsText(Prefix(s, n)) /\ (n < Len(s) => Opens(After(s, n)))
  BY DEF Promising
<1>3. TextIn(s, 0, n) /\ (n < Len(s) => OpenIn(s, n, Len(s)))
  BY <1>2, PrefixText, AfterText
<1>4. ASSUME NEW m \in 0 .. l, TextIn(s, 0, m), m < l => OpenIn(s, m, l)
      PROVE  Promising(p)
  <2>1. TextIn(p, 0, m)
    <3>1. TextIn(p, 0 + 0, m + 0)
      <4>1. /\ 0 \in 0 .. Len(s) /\ m \in 0 .. Len(s) /\ 0 \in Int
            /\ 0 + 0 >= 0 /\ m + 0 <= Len(p)
            /\ \A i \in 0 + 1 .. m : p[i + 0] = s[i]
        BY <1>1
      <4> QED BY <4>1, <1>1, <1>4, Moved
    <3> QED BY <3>1
  <2>2. m < l => OpenIn(p, m, l)
    <3> SUFFICES ASSUME m < l PROVE OpenIn(p, m, l)
      OBVIOUS
    <3>1. p[m + 1] = s[m + 1]
      BY <1>1
    <3>2. \A i \in m + 2 .. l : p[i] = s[i]
      BY <1>1
    <3> QED BY <3>1, <3>2, <1>4 DEF OpenIn
  <2>3. m \in 0 .. Len(p)
    BY <1>1
  <2>4. IsText(Prefix(p, m)) /\ (m < Len(p) => Opens(After(p, m)))
    BY <2>1, <2>2, <2>3, <1>1, PrefixText, AfterText
  <2> QED BY <2>3, <2>4 DEF Promising
<1>5. CASE n <= l
  <2>1. n \in 0 .. l
    BY <1>5
  <2>2. n < l => OpenIn(s, n, l)
    <3> SUFFICES ASSUME n < l PROVE OpenIn(s, n, l)
      OBVIOUS
    <3>1. OpenIn(s, n, Len(s)) /\ Len(s) \in n .. Len(s) /\ l \in n + 1 .. Len(s)
      BY <1>3
    <3> QED BY <3>1, OpenIsShort
  <2> QED BY <2>1, <2>2, <1>3, <1>4
<1>6. CASE n > l
  <2>1. l + 1 \in 0 + 1 .. n
    BY <1>6
  <2>2. PICK a \in 0 + 1 .. l + 1 : \E b \in l + 1 .. n : CharAt(s, a, b)
    BY <2>1, <1>3 DEF TextIn
  <2>3. PICK b \in l + 1 .. n : CharAt(s, a, b)
    BY <2>2
  <2>4. TextIn(s, 0, a - 1)
    <3> SUFFICES ASSUME NEW i \in 0 + 1 .. a - 1
                 PROVE  \E c \in 0 + 1 .. i, d \in i .. a - 1 : CharAt(s, c, d)
      BY DEF TextIn
    <3>1. i \in 0 + 1 .. n
      OBVIOUS
    <3>2. PICK c \in 0 + 1 .. i : \E d \in i .. n : CharAt(s, c, d)
      BY <3>1, <1>3 DEF TextIn
    <3>3. PICK d \in i .. n : CharAt(s, c, d)
      BY <3>2
    <3>4. ASSUME d >= a PROVE FALSE
      <4>1. /\ a \in 1 .. Len(s) /\ a \in 1 .. a /\ b \in a .. Len(s)
            /\ c \in 1 .. a /\ d \in a .. Len(s)
        BY <3>4
      <4>2. a = c
        BY <4>1, <2>3, <3>3, Disjoint
      <4> QED BY <4>2
    <3>5. d \in i .. a - 1
      BY <3>4
    <3> QED BY <3>3, <3>5
  <2>5. a - 1 < l => OpenIn(s, a - 1, l)
    <3> SUFFICES ASSUME a - 1 < l PROVE OpenIn(s, a - 1, l)
      OBVIOUS
    <3>1. (a - 1) + 1 = a /\ (a - 1) + 2 = a + 1
      OBVIOUS
    <3>2. l - (a - 1) < Width(s[a])
      BY <2>3 DEF CharAt
    <3>3. \A i \in a + 1 .. l : s[i] \in IF i = a + 1 THEN Second(s[a]) ELSE Continuation
      BY <2>3 DEF CharAt
    <3> QED BY <3>1, <3>2, <3>3 DEF OpenIn
  <2>6. a - 1 \in 0 .. l
    OBVIOUS
  <2> QED BY <2>4, <2>5, <2>6, <1>4
<1>7. n <= l \/ n > l
  OBVIOUS
<1> QED BY <1>5, <1>6, <1>7

-----------------------------------------------------------------------------
(* What from_utf8 returns.                                                 *)

(* A set of numbers that is not empty and has a bound has a maximum.       *)
LEMMA Maximum ==
  ASSUME NEW n \in Nat, NEW S \in SUBSET (0 .. n), S # {}
  PROVE  Max(S) \in S /\ \A x \in S : x <= Max(S)
<1> DEFINE T == {d \in 0 .. n : n - d \in S}
<1>1. T \subseteq Nat /\ T # {}
  <2>1. PICK x \in S : TRUE
    OBVIOUS
  <2>2. n - x \in 0 .. n /\ n - (n - x) = x
    BY <2>1
  <2>3. n - x \in T
    BY <2>2
  <2>4. T \subseteq Nat
    OBVIOUS
  <2> HIDE DEF T
  <2> QED BY <2>3, <2>4
<1>2. PICK d \in T : \A e \in T : ~(<<e, d>> \in OpToRel(<, Nat))
  BY <1>1, NatLessThanWellFounded, WFMin
<1>3. \A e \in T : ~(e < d)
  BY <1>1, <1>2 DEF OpToRel
<1>4. ASSUME NEW x \in S PROVE x <= n - d
  <2>1. n - x \in 0 .. n /\ n - (n - x) = x
    OBVIOUS
  <2>2. n - x \in T
    BY <2>1
  <2> QED BY <2>2, <1>3
<1>5. n - d \in S
  BY <1>2
<1>6. \E x \in S : \A y \in S : x >= y
  BY <1>4, <1>5
<1>7. Max(S) \in S /\ \A y \in S : Max(S) >= y
  BY <1>6 DEF Max
<1> QED BY <1>7

LEMMA ValidUpToIs ==
  ASSUME NEW s \in Seq(Byte)
  PROVE  /\ ValidUpTo(s) \in 0 .. Len(s) /\ TextIn(s, 0, ValidUpTo(s))
         /\ \A n \in ValidUpTo(s) + 1 .. Len(s) : ~TextIn(s, 0, n)
<1> DEFINE S == {n \in 0 .. Len(s) : IsText(Prefix(s, n))}
           v == Max(S)
<1>1. \A n \in 0 .. Len(s) : n \in S <=> TextIn(s, 0, n)
  BY PrefixText
<1>2. TextIn(s, 0, 0)
  BY DEF TextIn
<1>3. S # {} /\ S \in SUBSET (0 .. Len(s)) /\ Len(s) \in Nat
  BY <1>1, <1>2
<1> HIDE DEF S
<1>4. v \in S /\ \A x \in S : x <= v
  BY <1>3, Maximum
<1>5. v \in 0 .. Len(s) /\ TextIn(s, 0, v)
  BY <1>1, <1>3, <1>4
<1>6. ASSUME NEW n \in v + 1 .. Len(s) PROVE ~TextIn(s, 0, n)
  <2>1. n \in 0 .. Len(s) /\ ~(n <= v)
    BY <1>5
  <2> QED BY <2>1, <1>1, <1>4
<1>7. v = ValidUpTo(s)
  BY DEF S, ValidUpTo
<1> QED BY <1>5, <1>6, <1>7

LEMMA ErrorLenIs ==
  ASSUME NEW s \in Seq(Byte), s # <<>>
  PROVE  /\ ErrorLen(s) \in 0 .. Len(s)
         /\ ErrorLen(s) = 0 <=> Opens(s)
         /\ ~Opens(s) => \A n \in 1 .. Len(s) : Opens(Prefix(s, n)) => n <= ErrorLen(s)
<1>1. CASE Opens(s)
  BY <1>1 DEF ErrorLen
<1>2. CASE ~Opens(s)
  <2> DEFINE S == {n \in 1 .. Len(s) : n = 1 \/ Opens(Prefix(s, n))}
  <2>1. 1 \in S /\ S \in SUBSET (0 .. Len(s)) /\ Len(s) \in Nat
    OBVIOUS
  <2>2. ErrorLen(s) = Max(S)
    BY <1>2 DEF ErrorLen
  <2>3. Max(S) \in S /\ \A x \in S : x <= Max(S)
    <3> HIDE DEF S
    <3> QED BY <2>1, Maximum
  <2>4. ErrorLen(s) \in 1 .. Len(s)
    BY <2>2, <2>3
  <2>5. \A n \in 1 .. Len(s) : Opens(Prefix(s, n)) => n \in S
    OBVIOUS
  <2> QED BY <2>2, <2>3, <2>4, <2>5, <1>2
<1> QED BY <1>1, <1>2

-----------------------------------------------------------------------------
(* The same for concatenations.                                            *)

LEMMA TextConcat ==
  ASSUME NEW s \in Seq(Byte), NEW t \in Seq(Byte), IsText(s), IsText(t)
  PROVE  IsText(s \o t)
<1> DEFINE u == s \o t
<1>1. /\ u \in Seq(Byte) /\ Len(u) = Len(s) + Len(t)
      /\ \A i \in 1 .. Len(s) : u[i] = s[i]
      /\ \A i \in 1 .. Len(t) : u[Len(s) + i] = t[i]
  BY Concat
<1> SUFFICES IsText(u)
  OBVIOUS
<1> HIDE DEF u
<1>2. Len(s) \in 0 .. Len(u) /\ Prefix(u, Len(s)) = s /\ After(u, Len(s)) = t
  BY <1>1, Seam DEF u
<1>3. TextIn(u, 0, Len(s)) /\ TextIn(u, Len(s), Len(u))
  BY <1>1, <1>2, PrefixText, AfterText
<1>4. /\ 0 \in 0 .. Len(u) /\ Len(s) \in 0 .. Len(u) /\ Len(u) \in Len(s) .. Len(u)
  BY <1>2
<1>5. TextIn(u, 0, Len(u))
  BY <1>1, <1>3, <1>4, Joins
<1> QED BY <1>1, <1>5, TextAll

(* What follows the valid part has no text at its start.                   *)
LEMMA RestHasNoText ==
  ASSUME NEW s \in Seq(Byte), NEW m \in 1 .. Len(s) - ValidUpTo(s)
  PROVE  ~TextIn(After(s, ValidUpTo(s)), 0, m)
<1> DEFINE v == ValidUpTo(s)
           r == After(s, v)
<1>1. /\ v \in 0 .. Len(s) /\ TextIn(s, 0, v)
      /\ \A n \in v + 1 .. Len(s) : ~TextIn(s, 0, n)
  BY ValidUpToIs
<1> SUFFICES ASSUME TextIn(r, 0, m) PROVE FALSE
  OBVIOUS
<1> m \in 1 .. Len(s) - v
  OBVIOUS
<1> HIDE DEF v
<1>2. /\ r \in Seq(Byte) /\ Len(r) = Len(s) - v
      /\ \A i \in 1 .. Len(s) - v : r[i] = s[v + i]
  BY <1>1, Halves
<1> HIDE DEF r
<1>3. TextIn(s, 0 + v, m + v)
  <2>1. /\ 0 \in 0 .. Len(r) /\ m \in 0 .. Len(r) /\ v \in Int /\ 0 + v >= 0 /\ m + v <= Len(s)
    BY <1>1, <1>2
  <2>2. \A i \in 0 + 1 .. m : s[i + v] = r[i]
    BY <1>1, <1>2
  <2> QED BY <2>1, <2>2, <1>2, Moved
<1>4. /\ 0 \in 0 .. Len(s) /\ v \in 0 .. Len(s) /\ m + v \in v .. Len(s)
      /\ 0 + v = v /\ m + v \in v + 1 .. Len(s)
  BY <1>1
<1>5. TextIn(s, 0, m + v)
  BY <1>1, <1>3, <1>4, Joins
<1> QED BY <1>1, <1>4, <1>5

LEMMA HopelessRest ==
  ASSUME NEW s \in Seq(Byte), NEW t \in Seq(Byte), IsText(s), t # <<>>, ~Opens(t),
         \A m \in 1 .. Len(t) : ~TextIn(t, 0, m)
  PROVE  ~Promising(s \o t)
<1> DEFINE u == s \o t
           k == Len(s)
<1>1. /\ u \in Seq(Byte) /\ Len(u) = k + Len(t)
      /\ \A i \in 1 .. Len(t) : u[k + i] = t[i]
  BY Concat
<1> SUFFICES ~Promising(u)
  OBVIOUS
<1> HIDE DEF u
<1>2. k \in 0 .. Len(u) /\ k < Len(u)
  BY <1>1
<1>3. Prefix(u, k) = s /\ After(u, k) = t
  BY Seam DEF u
<1>4. TextIn(u, 0, k) /\ ~OpenIn(u, k, Len(u))
  BY <1>1, <1>2, <1>3, PrefixText, AfterText
<1>5. ASSUME NEW m \in k + 1 .. Len(u), TextIn(u, k, m) PROVE FALSE
  <2>1. TextIn(t, k + (0 - k), m + (0 - k))
    <3>1. /\ m \in k .. Len(u) /\ 0 - k \in Int /\ k + (0 - k) >= 0 /\ m + (0 - k) <= Len(t)
      BY <1>1
    <3>2. \A i \in k + 1 .. m : t[i + (0 - k)] = u[i]
      <4> SUFFICES ASSUME NEW i \in k + 1 .. m PROVE t[i + (0 - k)] = u[i]
        OBVIOUS
      <4>1. i + (0 - k) \in 1 .. Len(t) /\ k + (i + (0 - k)) = i
        BY <1>1
      <4> QED BY <4>1, <1>1
    <3> QED BY <3>1, <3>2, <1>1, <1>2, <1>5, Moved
  <2>2. k + (0 - k) = 0 /\ m + (0 - k) \in 1 .. Len(t)
    BY <1>1
  <2> QED BY <2>1, <2>2
<1> HIDE DEF k
<1> QED BY <1>1, <1>2, <1>4, <1>5, Hopeless

-----------------------------------------------------------------------------
(* A collector that has accepted everything holds all of it, one that has  *)
(* not has seen what cannot become a text.                                 *)
CollectorInv ==
  /\ TypeOK
  /\ DataIsText
  /\ NothingLost
  /\ refused => ~Promising(Received)
  /\ res = "Message" => held = <<>>
  /\ res = "Incomplete" => held # <<>>

-----------------------------------------------------------------------------
(* Concatenation.                                                          *)

LEMMA Associative ==
  ASSUME NEW s \in Seq(Byte), NEW t \in Seq(Byte), NEW u \in Seq(Byte)
  PROVE  (s \o t) \o u = s \o (t \o u)
OBVIOUS

LEMMA AppendNothing ==
  ASSUME NEW s \in Seq(Byte)
  PROVE  s \o <<>> = s /\ <<>> \o s = s /\ <<>> \in Seq(Byte)
OBVIOUS

(* Arithmetic of lengths.                                                  *)
LEMMA AtMostThree ==
  ASSUME NEW n \in Nat
  PROVE  /\ n > 0 /\ n - 0 <= 3 => n \in 1 .. 3
         /\ n \in 1 .. 3 => ~(n > 4) /\ ~(n >= 4) /\ n < 4
OBVIOUS

LEMMA NothingIsText == IsText(<<>>)
BY DEF IsText

(* What a call of extend() owes to all the bytes since the last failure.   *)
GoodOutcome(e, bytes) ==
  /\ e.res \in {"Ok", "Utf8"}
  /\ e.data \in Seq(Byte) /\ IsText(e.data)
  /\ e.held \in Seq(Byte) /\ Len(e.held) < BufferSize
  /\ e.held # <<>> => Opens(e.held)
  /\ e.res = "Ok" => e.data \o e.held = bytes
  /\ e.res = "Utf8" => ~Promising(bytes)

LEMMA OpensIsShort ==
  ASSUME NEW s \in Seq(Byte), Opens(s)
  PROVE  /\ s # <<>> /\ Len(s) \in 1 .. 3
         /\ \A n \in 1 .. Len(s) : Opens(Prefix(s, n))
         /\ \A n \in 1 .. Len(s) : ~TextIn(s, 0, n)
<1>1. Len(s) > 0
  BY DEF Opens
<1>2. Prefix(s, Len(s)) = s
  BY SubSeqFull DEF Prefix
<1>3. OpenIn(s, 0, Len(s))
  BY <1>1, <1>2, PrefixText, Len(s) \in 0 .. Len(s)
<1>4. 0 \in 0 .. Len(s) /\ Len(s) \in 0 .. Len(s)
  OBVIOUS
<1>5. /\ Len(s) - 0 <= 3
      /\ \A n \in 0 + 1 .. Len(s) : OpenIn(s, 0, n)
  BY <1>3, <1>4, OpenIsShort
<1>6. \A n \in 1 .. Len(s) : Opens(Prefix(s, n))
  BY <1>5, PrefixText
<1>7. \A n \in 0 + 1 .. Len(s) : ~TextIn(s, 0, n)
  BY <1>3, <1>4, OpenIsNoText
<1>8. Len(s) \in Nat /\ s # <<>>
  BY <1>1
<1>9. Len(s) \in 1 .. 3
  <2>1. Len(s) - 0 <= 3
    BY <1>5
  <2> QED BY <2>1, <1>1, <1>8, AtMostThree
<1>10. \A n \in 1 .. Len(s) : ~TextIn(s, 0, n)
  BY <1>7
<1> QED BY <1>6, <1>8, <1>9, <1>10

LEMMA ShortOpening ==
  ASSUME NEW s \in Seq(Byte), Opens(s)
  PROVE  Len(s) \in 1 .. 3 /\ s # <<>>
BY OpensIsShort

LEMMA ScanIs ==
  ASSUME NEW text \in Seq(Byte), NEW input \in Seq(Byte), IsText(text)
  PROVE  GoodOutcome(Scan(text, input), text \o input)
<1> DEFINE v == ValidUpTo(input)
           p == Prefix(input, v)
           rest == After(input, v)
           longer == text \o p
           e == Scan(text, input)
<1>1. v \in 0 .. Len(input) /\ TextIn(input, 0, v)
  BY ValidUpToIs
<1>2. p \in Seq(Byte) /\ IsText(p) /\ rest \in Seq(Byte) /\ Len(rest) = Len(input) - v
  BY <1>1, Halves, PrefixText
<1>3. p \o rest = input
  BY <1>1, Rejoin
<1>4. longer \in Seq(Byte) /\ IsText(longer)
  BY <1>2, Concat, TextConcat
<1>5. longer \o rest = text \o input
  <2> HIDE DEF p, rest
  <2>1. (text \o p) \o rest = text \o (p \o rest)
    BY <1>2, Associative
  <2> QED BY <2>1, <1>3
<1>6. \A m \in 1 .. Len(rest) : ~TextIn(rest, 0, m)
  BY <1>2, RestHasNoText
<1>7. e = IF rest = <<>> THEN Outcome(longer, <<>>, "Ok")
          ELSE IF ErrorLen(rest) > 0 THEN Outcome(longer, <<>>, "Utf8")
          ELSE IF Len(rest) > BufferSize THEN Outcome(longer, <<>>, "Panic")
          ELSE Outcome(longer, rest, "Ok")
  BY DEF Scan
<1> HIDE DEF v, p, rest, longer, e
<1>8. CASE rest = <<>>
  <2>1. e.res = "Ok" /\ e.data = longer /\ e.held = <<>>
    BY <1>7, <1>8 DEF Outcome
  <2>2. e.data \o e.held = text \o input
    BY <1>5, <1>8, <2>1
  <2> QED BY <2>1, <2>2, <1>4, AppendNothing DEF GoodOutcome, BufferSize, e
<1>9. CASE rest # <<>> /\ Opens(rest)
  <2>1. ErrorLen(rest) = 0
    BY <1>2, <1>9, ErrorLenIs
  <2>3. Len(rest) \in 1 .. 3
    BY <1>2, <1>9, ShortOpening
  <2>2. e.res = "Ok" /\ e.data = longer /\ e.held = rest
    <3>1. ~(ErrorLen(rest) > 0)
      BY <2>1
    <3>2. Len(rest) \in Nat
      BY <1>2
    <3>3. ~(Len(rest) > BufferSize)
      BY <2>3, <3>2, AtMostThree DEF BufferSize
    <3>4. e = Outcome(longer, rest, "Ok")
      BY <3>1, <3>3, <1>7, <1>9
    <3> QED BY <3>4 DEF Outcome
  <2> QED BY <2>2, <2>3, <1>2, <1>4, <1>5, <1>9 DEF GoodOutcome, BufferSize, e
<1>10. CASE rest # <<>> /\ ~Opens(rest)
  <2>1. ErrorLen(rest) > 0
    BY <1>2, <1>10, ErrorLenIs
  <2>2. e.res = "Utf8" /\ e.data = longer /\ e.held = <<>>
    BY <1>7, <1>10, <2>1 DEF Outcome
  <2>3. ~Promising(text \o input)
    BY <1>2, <1>4, <1>5, <1>6, <1>10, HopelessRest
  <2> QED BY <2>2, <2>3, <1>4, AppendNothing DEF GoodOutcome, BufferSize, e
<1> QED BY <1>8, <1>9, <1>10

(* The buffer of four always decides: it fills up with a character or with *)
(* what is none, and nothing that waits is left out of it.                 *)
LEMMA TryCompleteIs ==
  ASSUME NEW buffer \in Seq(Byte), NEW input \in Seq(Byte), Opens(buffer)
  PROVE  LET done == TryComplete(buffer, input)
             s == buffer \o input
         IN  /\ ~Underflows(done, buffer)
             /\ done.is \in {"more", "error", "text"}
             /\ done.is = "more" => done.bytes = s /\ Opens(s)
             /\ done.is = "error" =>
                  /\ s # <<>> /\ ~Opens(s)
                  /\ \A m \in 1 .. Len(s) : ~TextIn(s, 0, m)
             /\ done.is = "text" =>
                  /\ done.bytes \in Seq(Byte) /\ IsText(done.bytes)
                  /\ Remaining(done, buffer, input) \in Seq(Byte)
                  /\ done.bytes \o Remaining(done, buffer, input) = s
<1> DEFINE s == buffer \o input
           h == Len(buffer)
           c == Min({Len(input), BufferSize - h})
           spliced == Spliced(buffer, input)
           upTo == ValidUpTo(spliced)
           badLen == ErrorLen(spliced)
           done == TryComplete(buffer, input)
<1>1. h \in 1 .. 3 /\ \A n \in 1 .. h : Opens(Prefix(buffer, n)) /\ ~TextIn(buffer, 0, n)
  BY OpensIsShort
<1>2. /\ s \in Seq(Byte) /\ Len(s) = h + Len(input)
      /\ \A i \in 1 .. h : s[i] = buffer[i]
      /\ \A i \in 1 .. Len(input) : s[h + i] = input[i]
  BY Concat
<1>3. c \in 0 .. Len(input) /\ c <= 4 - h /\ (c = Len(input) \/ c = 4 - h)
  <2> DEFINE S == {Len(input), 4 - h}
  <2>1. \E x \in S : \A y \in S : x <= y
    BY <1>1
  <2>2. Min(S) \in S /\ \A y \in S : Min(S) <= y
    BY <2>1 DEF Min
  <2>3. c = Min(S)
    BY DEF BufferSize
  <2>4. Len(input) \in Nat /\ h \in 1 .. 3
    BY <1>1
  <2>5. (c = Len(input) \/ c = 4 - h) /\ c <= Len(input) /\ c <= 4 - h
    BY <2>2, <2>3
  <2> HIDE DEF c, h
  <2> QED BY <2>4, <2>5
<1>4. h + c \in 0 .. Len(s) /\ h + c \in h .. 4 /\ (h + c = Len(s) \/ h + c = 4)
  BY <1>1, <1>2, <1>3
<1>5. spliced = Prefix(s, h + c)
  <2> DEFINE q == Prefix(input, c)
             t == Prefix(s, h + c)
  <2>1. q \in Seq(Byte) /\ Len(q) = c /\ \A i \in 1 .. c : q[i] = input[i]
    BY <1>3, Halves
  <2>2. t \in Seq(Byte) /\ Len(t) = h + c /\ \A i \in 1 .. h + c : t[i] = s[i]
    BY <1>2, <1>4, Halves
  <2>3. spliced = buffer \o q
    BY DEF Spliced
  <2> HIDE DEF q, t, s, c, spliced
  <2>4. /\ spliced \in Seq(Byte) /\ Len(spliced) = h + c
        /\ \A i \in 1 .. h : spliced[i] = buffer[i]
        /\ \A i \in 1 .. c : spliced[h + i] = q[i]
    BY <2>1, <2>3, Concat
  <2>5. ASSUME NEW i \in 1 .. h + c PROVE spliced[i] = t[i]
    <3>1. CASE i <= h
      BY <3>1, <1>2, <2>2, <2>4
    <3>2. CASE i > h
      <4>1. i - h \in 1 .. c /\ i - h \in 1 .. Len(input) /\ h + (i - h) = i
        BY <3>2, <1>3
      <4>2. spliced[i] = q[i - h] /\ q[i - h] = input[i - h] /\ input[i - h] = s[i]
        BY <4>1, <2>1, <2>4, <1>2
      <4> QED BY <4>2, <2>2
    <3>3. i <= h \/ i > h
      OBVIOUS
    <3> QED BY <3>1, <3>2, <3>3
  <2>6. spliced = t
    BY <2>2, <2>4, <2>5, SameBytes
  <2> QED BY <2>6 DEF t
<1>6. Len(input) \in Nat /\ h \in Nat
  OBVIOUS
<1> HIDE DEF s, c, spliced, h
<1>7. /\ spliced \in Seq(Byte) /\ Len(spliced) = h + c
      /\ \A i \in 1 .. h + c : spliced[i] = s[i]
  <2>1. s \in Seq(Byte) /\ h + c \in 0 .. Len(s)
    BY <1>2, <1>4
  <2>2. /\ Prefix(s, h + c) \in Seq(Byte) /\ Len(Prefix(s, h + c)) = h + c
        /\ \A i \in 1 .. h + c : Prefix(s, h + c)[i] = s[i]
    BY <2>1, Halves
  <2> QED BY <2>2, <1>5
<1>8. ASSUME NEW n \in 0 .. h + c
      PROVE  TextIn(spliced, 0, n) <=> TextIn(s, 0, n)
  <2>1. IsText(Prefix(spliced, n)) <=> TextIn(spliced, 0, n)
    BY <1>7, PrefixText
  <2>2. IsText(Prefix(s, n)) <=> TextIn(s, 0, n)
    BY <1>2, <1>4, PrefixText
  <2>3. Prefix(spliced, n) = Prefix(s, n)
    <3>1. n \in 0 .. Len(spliced) /\ n \in 0 .. Len(s)
      BY <1>4, <1>7
    <3> DEFINE x == Prefix(spliced, n)
               y == Prefix(s, n)
    <3>2. x \in Seq(Byte) /\ Len(x) = n /\ \A i \in 1 .. n : x[i] = spliced[i]
      BY <3>1, <1>7, Halves
    <3>3. y \in Seq(Byte) /\ Len(y) = n /\ \A i \in 1 .. n : y[i] = s[i]
      BY <3>1, <1>2, Halves
    <3>4. \A i \in 1 .. n : spliced[i] = s[i]
      BY <1>4, <1>7
    <3> HIDE DEF x, y
    <3>5. x = y
      BY <3>2, <3>3, <3>4, SameBytes
    <3> QED BY <3>5 DEF x, y
  <2> QED BY <2>1, <2>2, <2>3
<1>9. /\ upTo \in 0 .. h + c /\ TextIn(spliced, 0, upTo)
      /\ \A n \in upTo + 1 .. h + c : ~TextIn(spliced, 0, n)
  BY <1>7, ValidUpToIs
<1>10. spliced # <<>>
  BY <1>1, <1>4, <1>7
<1>11. done = [is |-> IF upTo > 0 THEN "text" ELSE IF badLen > 0 THEN "error" ELSE "more",
               bytes |-> Prefix(spliced, IF upTo > 0 THEN upTo
                                         ELSE IF badLen > 0 THEN badLen ELSE Len(spliced))]
  <2> SUFFICES done = IF upTo > 0 THEN [is |-> "text", bytes |-> Prefix(spliced, upTo)]
                      ELSE IF badLen > 0 THEN [is |-> "error", bytes |-> Prefix(spliced, badLen)]
                      ELSE [is |-> "more", bytes |-> Prefix(spliced, Len(spliced))]
    OBVIOUS
  <2> QED BY DEF TryComplete, spliced
<1>12. \A n \in 1 .. h : Prefix(spliced, n) = Prefix(buffer, n)
  <2> SUFFICES ASSUME NEW n \in 1 .. h PROVE Prefix(spliced, n) = Prefix(buffer, n)
    OBVIOUS
  <2>1. n \in 0 .. Len(spliced) /\ n \in 0 .. Len(buffer)
    BY <1>4, <1>7 DEF h
  <2> DEFINE x == Prefix(spliced, n)
             y == Prefix(buffer, n)
  <2>2. x \in Seq(Byte) /\ Len(x) = n /\ \A i \in 1 .. n : x[i] = spliced[i]
    BY <2>1, <1>7, Halves
  <2>3. y \in Seq(Byte) /\ Len(y) = n /\ \A i \in 1 .. n : y[i] = buffer[i]
    BY <2>1, Halves
  <2>4. \A i \in 1 .. n : i \in 1 .. h /\ i \in 1 .. h + c
    BY <1>3, <1>6
  <2>6. \A i \in 1 .. n : spliced[i] = buffer[i]
    BY <2>4, <1>2, <1>7
  <2> HIDE DEF x, y
  <2>5. x = y
    BY <2>2, <2>3, <2>6, SameBytes
  <2> QED BY <2>5 DEF x, y
<1>13. \A n \in 1 .. h : ~TextIn(s, 0, n) /\ Opens(Prefix(spliced, n))
  <2> SUFFICES ASSUME NEW n \in 1 .. h PROVE ~TextIn(s, 0, n) /\ Opens(Prefix(spliced, n))
    OBVIOUS
  <2>1. n \in 0 .. h + c /\ n \in 0 .. Len(spliced) /\ n \in 0 .. Len(buffer)
    BY <1>4, <1>7 DEF h
  <2>2. TextIn(spliced, 0, n) <=> TextIn(buffer, 0, n)
    BY <2>1, <1>7, <1>12, PrefixText
  <2> QED BY <2>1, <2>2, <1>1, <1>8, <1>12
<1> HIDE DEF upTo, badLen, done
<1>14. CASE upTo > 0
  <2>1. done.is = "text" /\ done.bytes = Prefix(spliced, upTo)
    BY <1>11, <1>14
  <2>2. upTo \in 1 .. h + c /\ TextIn(s, 0, upTo)
    BY <1>8, <1>9, <1>14
  <2>3. upTo > h
    BY <2>2, <1>13, <1>6
  <2>4. /\ done.bytes \in Seq(Byte) /\ Len(done.bytes) = upTo /\ IsText(done.bytes)
        /\ \A i \in 1 .. upTo : done.bytes[i] = spliced[i]
    <3>1. upTo \in 0 .. Len(spliced) /\ spliced \in Seq(Byte)
      BY <1>7, <1>9
    <3>2. IsText(Prefix(spliced, upTo))
      BY <3>1, <1>9, PrefixText
    <3>3. /\ Prefix(spliced, upTo) \in Seq(Byte) /\ Len(Prefix(spliced, upTo)) = upTo
          /\ \A i \in 1 .. upTo : Prefix(spliced, upTo)[i] = spliced[i]
      BY <3>1, Halves
    <3> HIDE DEF upTo, spliced
    <3> QED BY <2>1, <3>2, <3>3
  <2>5. ~Underflows(done, buffer)
    BY <2>3, <2>4, <1>6 DEF Underflows, h
  <2> DEFINE r == Remaining(done, buffer, input)
  <2>6. upTo - h \in 0 .. Len(input)
    <3>1. c \in 0 .. Len(input) /\ upTo \in 1 .. h + c
      BY <2>2, <1>3
    <3>2. upTo \in Nat /\ c \in Nat
      BY <3>1, <1>6
    <3> QED BY <3>1, <3>2, <2>3, <1>6
  <2>7. /\ r \in Seq(Byte) /\ Len(r) = Len(input) - (upTo - h)
        /\ \A i \in 1 .. Len(input) - (upTo - h) : r[i] = input[(upTo - h) + i]
    <3>1. r = After(input, upTo - h)
      BY <2>4 DEF Remaining, h
    <3>2. input \in Seq(Byte) /\ upTo - h \in 0 .. Len(input)
      BY <2>6
    <3>3. /\ After(input, upTo - h) \in Seq(Byte)
          /\ Len(After(input, upTo - h)) = Len(input) - (upTo - h)
          /\ \A i \in 1 .. Len(input) - (upTo - h) :
               After(input, upTo - h)[i] = input[(upTo - h) + i]
      BY <3>2, Halves
    <3> HIDE DEF r
    <3> QED BY <3>1, <3>3
  <2> HIDE DEF r
  <2>8. /\ done.bytes \o r \in Seq(Byte) /\ Len(done.bytes \o r) = upTo + Len(r)
        /\ \A i \in 1 .. upTo : (done.bytes \o r)[i] = done.bytes[i]
        /\ \A i \in 1 .. Len(r) : (done.bytes \o r)[upTo + i] = r[i]
    BY <2>4, <2>7, Concat
  <2>9. Len(done.bytes \o r) = Len(s)
    <3>1. Len(s) = h + Len(input) /\ Len(r) = Len(input) - (upTo - h)
          /\ Len(done.bytes \o r) = upTo + Len(r) /\ upTo \in Nat
      BY <2>2, <2>7, <2>8, <1>2
    <3> QED BY <3>1, <1>6
  <2>10. ASSUME NEW i \in 1 .. Len(s) PROVE (done.bytes \o r)[i] = s[i]
    <3>1. CASE i <= upTo
      BY <3>1, <2>2, <2>4, <2>8, <1>7
    <3>2. CASE i > upTo
      <4>1. i - upTo \in 1 .. Len(r) /\ upTo + (i - upTo) = i
        BY <3>2, <2>2, <2>7, <1>2, <1>6
      <4>2. (done.bytes \o r)[i] = input[(upTo - h) + (i - upTo)]
        BY <4>1, <2>7, <2>8
      <4>3. (upTo - h) + (i - upTo) = i - h /\ i - h \in 1 .. Len(input) /\ h + (i - h) = i
        BY <3>2, <2>2, <2>3, <1>2, <1>6
      <4>4. input[i - h] = s[i]
        BY <4>3, <1>2
      <4> QED BY <4>2, <4>3, <4>4
    <3>3. i <= upTo \/ i > upTo
      BY <2>2, <1>4
    <3> QED BY <3>1, <3>2, <3>3
  <2>11. done.bytes \o r = s
    BY <2>8, <2>9, <2>10, <1>2, SameBytes
  <2> QED BY <2>1, <2>4, <2>5, <2>7, <2>11 DEF r, s, done
<1>15. ASSUME ~(upTo > 0)
       PROVE  \A m \in 1 .. Len(s) : ~TextIn(s, 0, m)
  <2>1. upTo = 0 /\ \A n \in 1 .. h + c : ~TextIn(s, 0, n)
    BY <1>8, <1>9, <1>15
  <2> SUFFICES ASSUME NEW m \in 1 .. Len(s), TextIn(s, 0, m) PROVE FALSE
    OBVIOUS
  <2>2. 0 \in 0 .. Len(s) /\ m \in 0 + 1 .. Len(s)
    OBVIOUS
  <2>3. PICK k \in 0 + 1 .. m : k - 0 <= 4 /\ TextIn(s, 0, k)
    BY <2>2, <1>2, TextStarts
  <2>4. k \in 1 .. h + c
    BY <2>3, <1>4
  <2> QED BY <2>1, <2>3, <2>4
<1>16. Opens(spliced) <=> Opens(s)
  <2>1. CASE h + c = Len(s)
    <3>1. Prefix(s, Len(s)) = s
      BY <1>2, SubSeqFull DEF Prefix
    <3> QED BY <2>1, <3>1, <1>5
  <2>2. CASE h + c = 4
    <3>1. Len(spliced) = 4 /\ spliced \in Seq(Byte)
      BY <1>7, <2>2
    <3>2. Len(s) >= 4 /\ s \in Seq(Byte) /\ Len(s) \in Nat
      BY <1>2, <1>4, <2>2
    <3>3. Opens(spliced) => Len(spliced) \in 1 .. 3
      BY <3>1, ShortOpening
    <3>4. Opens(s) => Len(s) \in 1 .. 3
      BY <3>2, ShortOpening
    <3>5. ~Opens(spliced)
      BY <3>1, <3>3
    <3>6. ~Opens(s)
      BY <3>2, <3>4, AtMostThree
    <3> QED BY <3>5, <3>6
  <2> QED BY <2>1, <2>2, <1>4
<1>17. /\ badLen \in 0 .. h + c
       /\ badLen = 0 <=> Opens(spliced)
       /\ ~Opens(spliced) => \A n \in 1 .. h + c : Opens(Prefix(spliced, n)) => n <= badLen
  BY <1>7, <1>10, ErrorLenIs DEF badLen
<1>18. CASE ~(upTo > 0) /\ badLen > 0
  <2>1. done.is = "error" /\ done.bytes = Prefix(spliced, badLen)
    BY <1>11, <1>18
  <2>2. ~Opens(spliced) /\ ~Opens(s)
    BY <1>16, <1>17, <1>18
  <2>3. h \in 1 .. h + c /\ h \in 1 .. h
    <3>1. h \in 1 .. 3
      BY <1>1
    <3> QED BY <3>1, <1>3
  <2>4. h <= badLen
    BY <2>2, <2>3, <1>13, <1>17
  <2>5. Len(done.bytes) = badLen
    <3>1. badLen \in 0 .. Len(spliced)
      BY <1>7, <1>17
    <3> QED BY <2>1, <3>1, <1>7, Halves
  <2>6. ~Underflows(done, buffer)
    BY <2>4, <2>5, <1>6, <1>17 DEF Underflows, h
  <2>7. s # <<>>
    BY <1>1, <1>2, <1>6
  <2> QED BY <2>1, <2>2, <2>6, <2>7, <1>15, <1>18 DEF s, done
<1>19. CASE ~(upTo > 0) /\ ~(badLen > 0)
  <2>1. done.is = "more" /\ done.bytes = Prefix(spliced, Len(spliced))
    BY <1>11, <1>19
  <2>7. badLen = 0
    <3>1. badLen \in 0 .. h + c
      BY <1>17
    <3> QED BY <3>1, <1>19
  <2>2. Opens(spliced) /\ Opens(s)
    BY <2>7, <1>16, <1>17
  <2>3. Len(spliced) \in 1 .. 3
    BY <2>2, <1>7, ShortOpening
  <2>4. h + c = Len(s)
    BY <2>3, <1>4, <1>7
  <2>5. spliced = s /\ Prefix(spliced, Len(spliced)) = spliced
    BY <2>4, <1>2, <1>5, <1>7, SubSeqFull DEF Prefix
  <2>6. ~Underflows(done, buffer)
    BY <2>1 DEF Underflows
  <2> QED BY <2>1, <2>2, <2>5, <2>6 DEF s, done
<1> QED BY <1>14, <1>18, <1>19

LEMMA ExtendedIs ==
  ASSUME TypeOK, DataIsText, NEW tail \in Seq(Byte)
  PROVE  GoodOutcome(Extended(tail), (data \o held) \o tail)
<1> DEFINE s == held \o tail
           done == TryComplete(held, tail)
           rem == Remaining(done, held, tail)
           e == Extended(tail)
<1>1. data \in Seq(Byte) /\ held \in Seq(Byte) /\ IsText(data)
  BY DEF TypeOK, DataIsText
<1>2. s \in Seq(Byte) /\ (data \o held) \o tail = data \o s
  BY <1>1, Concat, Associative
<1>3. CASE held = <<>>
  <2>1. e = Scan(data, tail)
    BY <1>3 DEF Extended
  <2>2. (data \o held) \o tail = data \o tail
    BY <1>1, <1>3, AppendNothing
  <2> QED BY <2>1, <2>2, <1>1, ScanIs
<1>4. CASE held # <<>>
  <2>1. Opens(held)
    BY <1>4 DEF DataIsText
  <2>2. /\ ~Underflows(done, held)
        /\ done.is \in {"more", "error", "text"}
        /\ done.is = "more" => done.bytes = s /\ Opens(s)
        /\ done.is = "error" =>
             /\ s # <<>> /\ ~Opens(s)
             /\ \A m \in 1 .. Len(s) : ~TextIn(s, 0, m)
        /\ done.is = "text" =>
             /\ done.bytes \in Seq(Byte) /\ IsText(done.bytes)
             /\ rem \in Seq(Byte)
             /\ done.bytes \o rem = s
    BY <1>1, <2>1, TryCompleteIs
  <2>3. e = CASE done.is = "more" -> Outcome(data, done.bytes, "Ok")
              [] done.is = "error" -> Outcome(data, <<>>, "Utf8")
              [] done.is = "text" -> Scan(data \o done.bytes, rem)
    BY <1>4, <2>2 DEF Extended
  <2> HIDE DEF s, done, rem, e
  <2>4. CASE done.is = "more"
    <3>1. e.res = "Ok" /\ e.data = data /\ e.held = s
      BY <2>2, <2>3, <2>4 DEF Outcome
    <3>2. Opens(s) /\ Len(s) \in 1 .. 3 /\ Len(s) \in Nat
      BY <1>2, <2>2, <2>4, ShortOpening
    <3>3. Len(s) < BufferSize
      BY <3>2, AtMostThree DEF BufferSize
    <3> QED BY <3>1, <3>2, <3>3, <1>1, <1>2 DEF GoodOutcome, e
  <2>5. CASE done.is = "error"
    <3>1. e.res = "Utf8" /\ e.data = data /\ e.held = <<>>
      BY <2>3, <2>5 DEF Outcome
    <3>2. ~Promising(data \o s)
      BY <1>1, <1>2, <2>2, <2>5, HopelessRest
    <3> QED BY <3>1, <3>2, <1>1, <1>2, AppendNothing DEF GoodOutcome, BufferSize, e
  <2>6. CASE done.is = "text"
    <3> DEFINE text == data \o done.bytes
    <3>1. text \in Seq(Byte) /\ IsText(text)
      BY <1>1, <2>2, <2>6, Concat, TextConcat
    <3>2. text \o rem = data \o s
      <4>1. (data \o done.bytes) \o rem = data \o (done.bytes \o rem)
        BY <1>1, <2>2, <2>6, Associative
      <4> QED BY <4>1, <2>2, <2>6
    <3>3. e = Scan(text, rem)
      BY <2>3, <2>6
    <3> HIDE DEF text
    <3>4. GoodOutcome(e, text \o rem)
      BY <3>1, <3>3, <2>2, <2>6, ScanIs
    <3> QED BY <3>2, <3>4, <1>2 DEF e
  <2> QED BY <2>2, <2>4, <2>5, <2>6
<1> QED BY <1>3, <1>4

-----------------------------------------------------------------------------
(* The collector.                                                          *)

LEMMA CollectorInit == Init => CollectorInv
<1> SUFFICES ASSUME Init PROVE CollectorInv
  OBVIOUS
<1>1. wire \in Seq(Byte) /\ Len(wire) \in Nat
  BY StreamsAssumption DEF Init
<1>2. Received = <<>>
  BY SubSeqEmpty DEF Init, Received, Prefix
<1>3. TypeOK
  <2>1. <<>> \in Seq(Byte) /\ Len(<<>>) = 0 /\ 0 \in 0 .. Len(wire)
    BY <1>1, AppendNothing
  <2>2. Len(held) < BufferSize
    BY <2>1 DEF Init, BufferSize
  <2> QED BY <1>1, <2>1, <2>2 DEF Init, TypeOK, Results
<1>4. DataIsText /\ NothingLost
  BY <1>2, NothingIsText, AppendNothing DEF Init, DataIsText, NothingLost
<1> QED BY <1>3, <1>4 DEF Init, CollectorInv

LEMMA ExtendKeeps ==
  ASSUME CollectorInv, Extend
  PROVE  CollectorInv'
<1>1. /\ TypeOK /\ DataIsText /\ NothingLost
      /\ refused => ~Promising(Received)
  BY DEF CollectorInv
<1>2. PICK n \in at .. Len(wire) :
        /\ at' = n
        /\ data' = Extended(SubSeq(wire, at + 1, n)).data
        /\ held' = Extended(SubSeq(wire, at + 1, n)).held
        /\ res' = IF res = "none" /\ Extended(SubSeq(wire, at + 1, n)).res = "Utf8"
                  THEN "Discarded" ELSE Extended(SubSeq(wire, at + 1, n)).res
        /\ refused' = (refused \/ Extended(SubSeq(wire, at + 1, n)).res = "Utf8")
  BY DEF Extend
<1> DEFINE tail == SubSeq(wire, at + 1, n)
           e == Extended(tail)
<1>3. wire' = wire
  BY DEF Extend
<1>4. wire \in Seq(Byte) /\ at \in 0 .. Len(wire) /\ refused \in BOOLEAN
  BY <1>1 DEF TypeOK
<1>5. n \in 0 .. Len(wire) /\ at \in 0 .. n
  BY <1>4
<1>6. at + 1 \in 1 .. Len(wire) + 1 /\ n \in (at + 1) - 1 .. Len(wire)
  BY <1>4
<1>7. tail \in Seq(Byte)
  BY <1>4, <1>6, Slice
<1>8. GoodOutcome(e, (data \o held) \o tail)
  BY <1>1, <1>7, ExtendedIs
<1>9. data' = e.data /\ held' = e.held /\ refused' = (refused \/ e.res = "Utf8")
      /\ res' = IF res = "none" /\ e.res = "Utf8" THEN "Discarded" ELSE e.res
  BY <1>2
<1>10. Received \o tail = Received'
  <2>1. 1 \in 1 .. Len(wire) + 1 /\ at \in 1 - 1 .. Len(wire) /\ n \in at .. Len(wire)
    BY <1>4
  <2>2. SubSeq(wire, 1, at) \o SubSeq(wire, at + 1, n) = SubSeq(wire, 1, n)
    BY <1>4, <2>1, ConcatAdjacentSubSeq
  <2> QED BY <2>2, <1>2, <1>3 DEF Received, Prefix
<1> HIDE DEF tail, e
<1>11. e.res \in {"Ok", "Utf8"}
  BY <1>8 DEF GoodOutcome
<1>12. TypeOK'
  <2>1. at' \in 0 .. Len(wire')
    BY <1>2, <1>3, <1>5
  <2>2. res' \in Results /\ refused' \in BOOLEAN
    BY <1>4, <1>9, <1>11 DEF Results
  <2>3. data' \in Seq(Byte) /\ held' \in Seq(Byte) /\ Len(held') < BufferSize
    BY <1>8, <1>9 DEF GoodOutcome
  <2> QED BY <2>1, <2>2, <2>3, <1>3, <1>4 DEF TypeOK
<1>13. DataIsText'
  BY <1>8, <1>9 DEF DataIsText, GoodOutcome
<1>14. CASE refused
  <2>1. ~Promising(Received)
    BY <1>1, <1>14
  <2>2. /\ Received' \in Seq(Byte) /\ at \in 0 .. Len(Received')
        /\ Prefix(Received', at) = Received
    <3>1. Received' = Prefix(wire, n) /\ Received = Prefix(wire, at)
      BY <1>2, <1>3 DEF Received
    <3>2. Received \in Seq(Byte) /\ Len(Received) = at
      BY <3>1, <1>4, Halves
    <3>3. Received' \in Seq(Byte) /\ Len(Received') = n
      BY <3>1, <1>4, <1>5, Halves
    <3>4. Prefix(Received \o tail, Len(Received)) = Received
      BY <3>2, <1>7, Seam
    <3> QED BY <3>2, <3>3, <3>4, <1>5, <1>10
  <2>3. ~Promising(Received')
    BY <2>1, <2>2, PromisingBefore
  <2>4. refused' /\ NothingLost'
    BY <1>9, <1>14 DEF NothingLost
  <2> QED BY <2>3, <2>4, <1>9, <1>11, <1>12, <1>13 DEF CollectorInv
<1>15. CASE ~refused
  <2>1. (data \o held) \o tail = Received'
    BY <1>1, <1>10, <1>15 DEF NothingLost
  <2>2. NothingLost'
    BY <2>1, <1>8, <1>9, <1>11, <1>15 DEF NothingLost, GoodOutcome
  <2>3. refused' => ~Promising(Received')
    BY <2>1, <1>8, <1>9, <1>15 DEF GoodOutcome
  <2> QED BY <2>2, <2>3, <1>9, <1>11, <1>12, <1>13 DEF CollectorInv
<1> QED BY <1>14, <1>15

LEMMA CollectorStep == CollectorInv /\ [Next]_vars => CollectorInv'
<1> SUFFICES ASSUME CollectorInv, [Next]_vars PROVE CollectorInv'
  OBVIOUS
<1>1. CASE Extend
  BY <1>1, ExtendKeeps
<1>2. CASE Complete
  <2>1. /\ TypeOK' /\ DataIsText' /\ NothingLost' /\ Received' = Received
        /\ refused' = refused /\ held' = held
        /\ res' = IF held # <<>> THEN "Incomplete" ELSE "Message"
    BY <1>2 DEF Complete, Cut, CollectorInv, TypeOK, Results, DataIsText, NothingLost, Received
  <2> QED BY <2>1 DEF CollectorInv
<1>3. CASE UNCHANGED vars
  BY <1>3 DEF vars, CollectorInv, TypeOK, DataIsText, NothingLost, Received
<1>4. CASE Over
  BY <1>3, <1>4 DEF Over
<1> QED BY <1>1, <1>2, <1>3, <1>4 DEF Next

(* The invariant says more than the properties: what is not refused is     *)
(* promising, and a text that is cut is no text.                           *)
LEMMA CollectorSays ==
  ASSUME CollectorInv
  PROVE  TypeOK /\ DataIsText /\ NothingLost /\ RefusedIffBad /\ CompleteIsExact
<1>1. /\ TypeOK /\ DataIsText /\ NothingLost
      /\ refused => ~Promising(Received)
      /\ res = "Message" => held = <<>>
      /\ res = "Incomplete" => held # <<>>
  BY DEF CollectorInv
<1>2. data \in Seq(Byte) /\ held \in Seq(Byte) /\ IsText(data) /\ refused \in BOOLEAN
  BY <1>1 DEF TypeOK, DataIsText
<1> DEFINE s == data \o held
           k == Len(data)
<1>3. s \in Seq(Byte) /\ Len(s) = k + Len(held)
  BY <1>2, Concat
<1>4. Prefix(s, k) = data /\ After(s, k) = held /\ k \in 0 .. Len(s)
  BY <1>2, <1>3, Seam
<1>5. k < Len(s) => Opens(held)
  BY <1>1, <1>2, <1>3 DEF DataIsText
<1>6. Promising(s)
  BY <1>2, <1>4, <1>5 DEF Promising
<1>7. RefusedIffBad
  BY <1>1, <1>2, <1>6 DEF RefusedIffBad, NothingLost
<1>8. held = <<>> => IsText(s)
  BY <1>2, AppendNothing
<1>9. ASSUME IsText(s), held # <<>> PROVE FALSE
  <2>1. TextIn(s, 0, k) /\ TextIn(s, 0, Len(s))
    <3>1. TextIn(s, 0, k)
      BY <1>2, <1>3, <1>4, PrefixText
    <3>2. TextIn(s, 0, Len(s))
      BY <1>3, <1>9, TextAll
    <3> QED BY <3>1, <3>2
  <2>2. k < Len(s)
    BY <1>2, <1>3, <1>9
  <2>3. OpenIn(s, k, Len(s))
    BY <1>3, <1>4, <1>5, <2>2, AfterText
  <2>4. 0 \in 0 .. Len(s) /\ Len(s) \in k .. Len(s) /\ Len(s) \in k + 1 .. Len(s)
    BY <1>3, <1>4, <2>2
  <2>5. TextIn(s, k, Len(s))
    BY <1>3, <1>4, <2>1, <2>4, Cuts
  <2> QED BY <1>3, <1>4, <2>3, <2>4, <2>5, OpenIsNoText
<1>10. CompleteIsExact
  BY <1>1, <1>8, <1>9 DEF CompleteIsExact, NothingLost
<1> QED BY <1>1, <1>7, <1>10

LEMMA CollectorAlways == Spec => []CollectorInv
BY CollectorInit, CollectorStep, PTL DEF Spec

(* No call of extend() or into_string() panics, and the buffer never holds *)
(* four bytes: decode.rs, try_complete_offsets and from_bytes.             *)
THEOREM CollectorTypeCorrect == Spec => []TypeOK
<1>1. CollectorInv => TypeOK
  BY CollectorSays
<1> QED BY <1>1, CollectorAlways, PTL

(* Both uses of from_utf8_unchecked are sound, also after a failure.       *)
THEOREM DataIsTextHolds == Spec => []DataIsText
<1>1. CollectorInv => DataIsText
  BY CollectorSays
<1> QED BY <1>1, CollectorAlways, PTL

(* extend() neither loses nor doubles a byte on its way through Incomplete.*)
THEOREM NothingLostHolds == Spec => []NothingLost
<1>1. CollectorInv => NothingLost
  BY CollectorSays
<1> QED BY <1>1, CollectorAlways, PTL

(* extend() fails at the first fragment after which no text is possible.   *)
THEOREM RefusedIffBadHolds == Spec => []RefusedIffBad
<1>1. CollectorInv => RefusedIffBad
  BY CollectorSays
<1> QED BY <1>1, CollectorAlways, PTL

(* into_string() succeeds on the texts and on nothing else.                *)
THEOREM CompleteIsExactHolds == Spec => []CompleteIsExact
<1>1. CollectorInv => CompleteIsExact
  BY CollectorSays
<1> QED BY <1>1, CollectorAlways, PTL
=============================================================================
