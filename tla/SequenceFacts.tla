---------------------------- MODULE SequenceFacts ----------------------------
(***************************************************************************)
(* Induction over the natural numbers, and what it shows of sequences that *)
(* are joined, of prefixes and of subsequences.  Induction is the least    *)
(* element of the set of counterexamples, so that a set and no operator    *)
(* stands for what is to be proved.                                        *)
(***************************************************************************)
EXTENDS SequencesExt, Integers, TLAPS, WellFoundedInduction

Below == OpToRel(<, Nat)

(* A set of natural numbers has a least one.                               *)
LEMMA Least ==
  ASSUME NEW S \in SUBSET Nat, S # {}
  PROVE  \E x \in S : \A y \in S : x <= y
<1>1. IsWellFoundedOn(Below, Nat)
  BY NatLessThanWellFounded DEF Below
<1>2. PICK x \in S : \A y \in S : <<y, x>> \notin Below
  BY <1>1, WFMin
<1>3. \A m, n \in Nat : m < n => <<m, n>> \in Below
  BY DEF OpToRel, Below
<1>4. ASSUME NEW y \in S PROVE x <= y
  <2>1. ~(y < x)
    BY <1>2, <1>3
  <2> QED BY <2>1
<1> QED BY <1>4

(* What holds of 0, and of n + 1 when it holds of n, holds of all.         *)
LEMMA Induction ==
  ASSUME NEW S, 0 \in S, \A n \in Nat : n \in S => n + 1 \in S
  PROVE  \A n \in Nat : n \in S
<1> SUFFICES ASSUME Nat \ S # {} PROVE FALSE
  OBVIOUS
<1>1. PICK n \in Nat \ S : \A m \in Nat \ S : n <= m
  BY Least
<1>2. n # 0 /\ n - 1 \in Nat
  BY <1>1
<1>3. n - 1 \in S
  BY <1>1, <1>2
<1> QED BY <1>1, <1>2, <1>3

-----------------------------------------------------------------------------
(* Joining.                                                                *)

(* f[i] is the first i sequences of s joined, for the first n of them.     *)
Link(s, f, i) == IF i = 1 THEN s[i] ELSE f[i - 1] \o s[i]
Joins(n, s, f) == f = [i \in 1 .. n |-> Link(s, f, i)]

LEMMA JoinsAt ==
  ASSUME NEW n \in Nat, NEW s, NEW f, Joins(n, s, f), NEW i \in 1 .. n
  PROVE  f[i] = Link(s, f, i)
BY DEF Joins

LEMMA LinkFirst ==
  ASSUME NEW s, NEW f
  PROVE  Link(s, f, 1) = s[1]
BY DEF Link

LEMMA LinkNext ==
  ASSUME NEW s, NEW f, NEW n \in Nat \ {0}
  PROVE  Link(s, f, n + 1) = f[n] \o s[n + 1]
<1>1. n + 1 # 1 /\ (n + 1) - 1 = n
  OBVIOUS
<1> QED BY <1>1, Zenon DEF Link

(* The function FlattenSeq is defined by is there, and is the only one.     *)
LEMMA JoinsHere ==
  ASSUME NEW s
  PROVE  \A n \in Nat : \E f : Joins(n, s, f)
<1> DEFINE Built == {n \in Nat : \E f : Joins(n, s, f)}
<1>1. 0 \in Built
  <2> DEFINE f == [i \in 1 .. 0 |-> 0]
  <2>1. f = [i \in 1 .. 0 |-> Link(s, f, i)]
    OBVIOUS
  <2>2. Joins(0, s, f)
    BY <2>1 DEF Joins
  <2> QED BY <2>2
<1>2. ASSUME NEW n \in Nat, n \in Built PROVE n + 1 \in Built
  <2>1. PICK f : Joins(n, s, f)
    BY <1>2
  <2> DEFINE g == [i \in 1 .. n + 1 |-> IF i = n + 1 THEN Link(s, f, i) ELSE f[i]]
  <2>2. ASSUME NEW i \in 1 .. n + 1
        PROVE  g[i] = Link(s, g, i)
    <3>1. g[i] = Link(s, f, i)
      BY <2>1, JoinsAt
    <3>2. i # 1 => i - 1 \in 1 .. n /\ g[i - 1] = f[i - 1]
      OBVIOUS
    <3> HIDE DEF g
    <3>3. Link(s, f, i) = Link(s, g, i)
      BY <3>2, Zenon DEF Link
    <3> QED BY <3>1, <3>3
  <2>3. g = [i \in 1 .. n + 1 |-> g[i]]
    OBVIOUS
  <2> HIDE DEF g
  <2>4. Joins(n + 1, s, g)
    BY <2>2, <2>3 DEF Joins
  <2> QED BY <2>4
<1> HIDE DEF Built
<1>3. \A n \in Nat : n \in Built
  BY <1>1, <1>2, Induction
<1> QED BY <1>3 DEF Built

LEMMA JoinsAlike ==
  ASSUME NEW m \in Nat, NEW n \in Nat, NEW s, NEW t, NEW f, NEW g,
         m <= n, Joins(m, s, f), Joins(n, t, g), \A i \in 1 .. m : s[i] = t[i]
  PROVE  \A i \in 1 .. m : f[i] = g[i]
<1> DEFINE Same == {j \in Nat : j \in 1 .. m => f[j] = g[j]}
<1>1. 0 \in Same
  OBVIOUS
<1>2. ASSUME NEW j \in Nat, j \in Same PROVE j + 1 \in Same
  <2> SUFFICES ASSUME j + 1 \in 1 .. m PROVE f[j + 1] = g[j + 1]
    OBVIOUS
  <2>1. f[j + 1] = Link(s, f, j + 1) /\ g[j + 1] = Link(t, g, j + 1)
    BY JoinsAt
  <2>2. s[j + 1] = t[j + 1] /\ (j # 0 => f[j] = g[j])
    BY <1>2
  <2>3. CASE j = 0
    BY <2>1, <2>2, <2>3, LinkFirst
  <2>4. CASE j # 0
    <3>1. Link(s, f, j + 1) = f[j] \o s[j + 1] /\ Link(t, g, j + 1) = g[j] \o t[j + 1]
      BY <2>4, LinkNext
    <3> QED BY <2>1, <2>2, <2>4, <3>1
  <2> QED BY <2>3, <2>4
<1> HIDE DEF Same
<1>3. \A j \in Nat : j \in Same
  BY <1>1, <1>2, Induction
<1> QED BY <1>3 DEF Same

(* What FlattenSeq makes of nothing, and of one more sequence.             *)
LEMMA FlattenEmpty == FlattenSeq(<<>>) = <<>>
BY DEF FlattenSeq

LEMMA FlattenIs ==
  ASSUME NEW s, Len(s) \in Nat \ {0}
  PROVE  \E f : Joins(Len(s), s, f) /\ FlattenSeq(s) = f[Len(s)]
<1> DEFINE f == CHOOSE f : Joins(Len(s), s, f)
<1>1. Joins(Len(s), s, f)
  BY JoinsHere
<1>2. FlattenSeq(s) = f[Len(s)]
  BY DEF FlattenSeq, Joins, Link
<1> QED BY <1>1, <1>2

LEMMA FlattenLonger ==
  ASSUME NEW m \in Nat, NEW s, NEW t, Len(s) = m, Len(t) = m + 1,
         \A i \in 1 .. m : s[i] = t[i]
  PROVE  FlattenSeq(t) = IF m = 0 THEN t[1] ELSE FlattenSeq(s) \o t[m + 1]
<1>1. PICK g : Joins(m + 1, t, g) /\ FlattenSeq(t) = g[m + 1]
  BY FlattenIs
<1>2. g[m + 1] = Link(t, g, m + 1)
  BY <1>1, JoinsAt
<1>3. CASE m = 0
  BY <1>1, <1>2, <1>3, LinkFirst
<1>4. CASE m # 0
  <2>1. PICK f : Joins(m, s, f) /\ FlattenSeq(s) = f[m]
    BY <1>4, FlattenIs
  <2>2. \A i \in 1 .. m : f[i] = g[i]
    BY <1>1, <2>1, JoinsAlike
  <2>3. f[m] = g[m]
    BY <1>4, <2>2
  <2>4. FlattenSeq(t) = g[m] \o t[m + 1]
    BY <1>1, <1>2, <1>4, LinkNext
  <2> QED BY <1>4, <2>1, <2>3, <2>4
<1> QED BY <1>3, <1>4

LEMMA FlattenAppend ==
  ASSUME NEW T, NEW s \in Seq(Seq(T)), NEW x \in Seq(T)
  PROVE  FlattenSeq(Append(s, x)) = FlattenSeq(s) \o x
<1> DEFINE t == Append(s, x)
           m == Len(s)
<1>1. /\ m \in Nat /\ Len(t) = m + 1 /\ t[m + 1] = x
      /\ \A i \in 1 .. m : s[i] = t[i]
      /\ m = 0 => s = <<>> /\ <<>> \o x = x
  OBVIOUS
<1> HIDE DEF t, m
<1>2. FlattenSeq(t) = IF m = 0 THEN t[1] ELSE FlattenSeq(s) \o t[m + 1]
  BY <1>1, FlattenLonger DEF m
<1>3. CASE m = 0
  BY <1>1, <1>2, <1>3, FlattenEmpty DEF t
<1>4. CASE m # 0
  BY <1>1, <1>2, <1>4 DEF t
<1> QED BY <1>3, <1>4

(* Sequences joined are a sequence.                                        *)
LEMMA FlattenType ==
  ASSUME NEW T, NEW s \in Seq(Seq(T))
  PROVE  FlattenSeq(s) \in Seq(T)
<1>0. Len(s) \in Nat /\ \A i \in 1 .. Len(s) : s[i] \in Seq(T)
  OBVIOUS
<1>1. CASE Len(s) = 0
  <2>1. s = <<>> /\ <<>> \in Seq(T)
    BY <1>1
  <2> QED BY <2>1, FlattenEmpty
<1>2. CASE Len(s) # 0
  <2>1. PICK f : Joins(Len(s), s, f) /\ FlattenSeq(s) = f[Len(s)]
    BY <1>0, <1>2, FlattenIs
  <2> DEFINE Typed == {n \in Nat : n \in 1 .. Len(s) => f[n] \in Seq(T)}
  <2>2. 0 \in Typed
    OBVIOUS
  <2>3. ASSUME NEW n \in Nat, n \in Typed PROVE n + 1 \in Typed
    <3> SUFFICES ASSUME n + 1 \in 1 .. Len(s) PROVE f[n + 1] \in Seq(T)
      OBVIOUS
    <3>1. f[n + 1] = Link(s, f, n + 1)
      BY <1>0, <2>1, JoinsAt
    <3>2. s[n + 1] \in Seq(T) /\ (n # 0 => f[n] \in Seq(T))
      BY <1>0, <2>3
    <3>3. CASE n = 0
      BY <3>1, <3>2, <3>3, LinkFirst
    <3>4. CASE n # 0
      <4>1. f[n + 1] = f[n] \o s[n + 1]
        BY <3>1, <3>4, LinkNext
      <4> QED BY <3>2, <3>4, <4>1
    <3> QED BY <3>3, <3>4
  <2> HIDE DEF Typed
  <2>4. \A n \in Nat : n \in Typed
    BY <2>2, <2>3, Induction
  <2>5. f[Len(s)] \in Seq(T)
    BY <1>0, <1>2, <2>4 DEF Typed
  <2> QED BY <2>1, <2>5
<1> QED BY <1>1, <1>2
=============================================================================
