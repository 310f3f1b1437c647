---------------------------- MODULE DataLemmas ----------------------------
(***************************************************************************)
(* Facts about the natural numbers and about sequences that the proofs     *)
(* cite.                                                                   *)
(***************************************************************************)
EXTENDS Integers, FiniteSetsExt, Sequences, WellFoundedInduction, SequenceTheorems, TLAPS

(* The first match of a search from the left exists: Min is the least.     *)
LEMMA MinIsLeast ==
  ASSUME NEW S \in SUBSET Nat, S # {}
  PROVE  Min(S) \in S /\ \A y \in S : Min(S) <= y
<1>1. IsWellFoundedOn(OpToRel(<, Nat), Nat)
  BY NatLessThanWellFounded
<1>2. PICK x \in S : \A y \in S : ~(<<y, x>> \in OpToRel(<, Nat))
  BY <1>1, WFMin
<1>3. \A y \in S : x <= y
  <2> SUFFICES ASSUME NEW y \in S PROVE x <= y  OBVIOUS
  <2>1. <<y, x>> \in Nat \X Nat => ~(y < x)
    BY <1>2 DEF OpToRel
  <2> QED BY <2>1
<1> QED BY <1>3 DEF Min

(* A value below the width of its type does not wrap.                      *)
LEMMA ModOfSmall ==
  ASSUME NEW a \in Nat, NEW m \in Nat, a < m
  PROVE  a % m = a
OBVIOUS

(* A remainder is below the divisor.                                       *)
LEMMA ModBound ==
  ASSUME NEW a \in Nat, NEW m \in Nat \ {0}
  PROVE  a % m \in 0 .. m - 1
OBVIOUS

(* Division with remainder.                                                *)
LEMMA DivMod ==
  ASSUME NEW a \in Nat, NEW m \in Nat \ {0}
  PROVE  a \div m \in Nat /\ a = (a \div m) * m + (a % m)
OBVIOUS

(* Multiplication by a positive number keeps the order strict.             *)
LEMMA ProductGrows ==
  ASSUME NEW d \in Nat \ {0}, NEW m \in Nat \ {0}
  PROVE  d * m >= m
<1>1. d - 1 >= 0 /\ d - 1 \in Nat
  OBVIOUS
<1>2. (d - 1) * m >= 0
  BY <1>1
<1>3. (d - 1) * m = d * m - m
  OBVIOUS
<1> QED BY <1>2, <1>3

(* A multiple leaves no remainder.                                         *)
LEMMA MultipleMod ==
  ASSUME NEW k \in Nat, NEW m \in Nat \ {0}
  PROVE  (k * m) % m = 0
<1> DEFINE a == k * m
           d == a \div m
           r == a % m
<1>1. a \in Nat
  OBVIOUS
<1>2. d \in Nat /\ r \in 0 .. m - 1 /\ a = d * m + r
  BY <1>1, DivMod, ModBound
<1> HIDE DEF d, r
<1>3. CASE k = d
  BY <1>2, <1>3
<1>4. CASE k > d
  <2>1. (k - d) * m >= m
    BY <1>2, <1>4, ProductGrows
  <2>2. (k - d) * m = k * m - d * m
    BY <1>2
  <2> QED BY <1>2, <2>1, <2>2
<1>5. CASE k < d
  <2>1. (d - k) * m >= m
    BY <1>2, <1>5, ProductGrows
  <2>2. (d - k) * m = d * m - k * m
    BY <1>2
  <2> QED BY <1>2, <2>1, <2>2
<1>6. r = 0
  BY <1>2, <1>3, <1>4, <1>5
<1> QED BY <1>6 DEF r

(* A positive factor cancels from an inequality.                          *)
LEMMA ProductCancels ==
  ASSUME NEW m \in Nat \ {0}, NEW a \in Nat, NEW b \in Nat, a * m < b * m
  PROVE  a < b
<1> SUFFICES ASSUME a >= b PROVE FALSE
  OBVIOUS
<1>1. (a - b) * m >= 0 /\ (a - b) * m = a * m - b * m
  <2>1. a - b \in Nat
    OBVIOUS
  <2> QED BY <2>1
<1>2. a * m \in Nat /\ b * m \in Nat
  OBVIOUS
<1> QED BY <1>1, <1>2

(* Quotient and remainder are determined by what they make up.             *)
LEMMA DivModUnique ==
  ASSUME NEW m \in Nat \ {0}, NEW q \in Nat, NEW r \in 0 .. m - 1
  PROVE  (q * m + r) \div m = q /\ (q * m + r) % m = r
<1> DEFINE a == q * m + r
           d == a \div m
           e == a % m
<1>1. a \in Nat
  <2>1. q * m \in Nat
    OBVIOUS
  <2> QED BY <2>1
<1>2. d \in Nat /\ e \in 0 .. m - 1 /\ a = d * m + e
  BY <1>1, DivMod, ModBound
<1> HIDE DEF d, e
<1>3. CASE q = d
  BY <1>2, <1>3 DEF d, e
<1>4. CASE q > d
  <2>1. (q - d) * m >= m
    BY <1>2, <1>4, ProductGrows
  <2>2. (q - d) * m = q * m - d * m
    BY <1>2
  <2>3. q * m \in Nat /\ d * m \in Nat
    BY <1>2
  <2> QED BY <1>2, <2>1, <2>2, <2>3
<1>5. CASE q < d
  <2>1. (d - q) * m >= m
    BY <1>2, <1>5, ProductGrows
  <2>2. (d - q) * m = d * m - q * m
    BY <1>2
  <2>3. q * m \in Nat /\ d * m \in Nat
    BY <1>2
  <2> QED BY <1>2, <2>1, <2>2, <2>3
<1> QED BY <1>2, <1>3, <1>4, <1>5

-----------------------------------------------------------------------------
(* Sequences whose elements are of any kind: IsSeq says no more than that  *)
(* the value is a sequence.                                                *)
IsSeq(s) == s \in Seq({s[k] : k \in DOMAIN s})

LEMMA SeqLen ==
  ASSUME NEW s, IsSeq(s)
  PROVE  Len(s) \in Nat /\ DOMAIN s = 1 .. Len(s)
BY LenProperties DEF IsSeq

(* A sequence over some set is one over its elements.                      *)
LEMMA SeqOver ==
  ASSUME NEW S, NEW t \in Seq(S)
  PROVE  IsSeq(t)
<1> DEFINE R == {t[k] : k \in DOMAIN t}
<1>1. t \in [1 .. Len(t) -> S] /\ Len(t) \in Nat
  BY LenProperties
<1>2. t \in [1 .. Len(t) -> R]
  BY <1>1
<1> HIDE DEF R
<1>3. t \in Seq(R)
  BY <1>1, <1>2, SeqDef
<1> QED BY <1>3 DEF IsSeq, R

(* A concatenation has the elements of the one, then those of the other.   *)
LEMMA SeqConcat ==
  ASSUME NEW s, IsSeq(s), NEW t, IsSeq(t)
  PROVE  /\ IsSeq(s \o t) /\ Len(s \o t) = Len(s) + Len(t)
         /\ \A k \in 1 .. Len(s) + Len(t) : (s \o t)[k] = IF k <= Len(s) THEN s[k] ELSE t[k - Len(s)]
<1> DEFINE S == {s[k] : k \in DOMAIN s} \cup {t[k] : k \in DOMAIN t}
<1>1. s \in Seq(S) /\ t \in Seq(S)
  <2>1. {s[k] : k \in DOMAIN s} \subseteq S /\ {t[k] : k \in DOMAIN t} \subseteq S
    OBVIOUS
  <2> QED BY <2>1, SeqMonotonic DEF IsSeq
<1> HIDE DEF S
<1> QED BY <1>1, ConcatProperties, SeqOver

(* The elements of a tail are those after the first.                       *)
LEMMA SeqTail ==
  ASSUME NEW s, IsSeq(s), s # <<>>
  PROVE  /\ IsSeq(Tail(s)) /\ Len(Tail(s)) = Len(s) - 1 /\ Head(s) = s[1] /\ Len(s) >= 1
         /\ \A k \in 1 .. Len(s) - 1 : Tail(s)[k] = s[k + 1]
<1> DEFINE S == {s[k] : k \in DOMAIN s}
<1>1. s \in Seq(S)
  BY DEF IsSeq
<1> HIDE DEF S
<1>2. /\ Tail(s) \in Seq(S) /\ Len(Tail(s)) = Len(s) - 1
      /\ \A k \in 1 .. Len(Tail(s)) : Tail(s)[k] = s[k + 1]
  BY <1>1, HeadTailProperties
<1>3. Len(s) \in Nat /\ Len(s) # 0
  BY <1>1, EmptySeq, LenProperties
<1>4. Head(s) = s[1]
  BY <1>1, <1>3
<1>5. IsSeq(Tail(s))
  BY <1>2, SeqOver
<1>6. \A k \in 1 .. Len(s) - 1 : Tail(s)[k] = s[k + 1]
  BY <1>2
<1>7. Len(s) >= 1
  BY <1>3
<1> QED BY <1>2, <1>4, <1>5, <1>6, <1>7

(* A function on 1 .. n is a sequence.                                     *)
LEMMA SeqFun ==
  ASSUME NEW n \in Nat, NEW f, f = [k \in 1 .. n |-> f[k]]
  PROVE  IsSeq(f) /\ Len(f) = n
<1> DEFINE S == {f[k] : k \in 1 .. n}
<1>1. f \in [1 .. n -> S]
  <2>1. \A k \in 1 .. n : f[k] \in S
    OBVIOUS
  <2> HIDE DEF S
  <2> QED BY <2>1
<1> HIDE DEF S
<1>2. f \in Seq(S)
  BY <1>1, SeqDef
<1>3. Len(f) = n
  <2>1. Len(f) \in Nat /\ 1 .. Len(f) = 1 .. n
    BY <1>1, <1>2, LenProperties
  <2>2. \A k \in Nat : k \in 1 .. n <=> k \in 1 .. Len(f)
    BY <2>1
  <2> QED BY <2>1, <2>2
<1> QED BY <1>2, <1>3, SeqOver

(* Append adds one element and keeps the others.                           *)
LEMMA SeqAppend ==
  ASSUME NEW s, IsSeq(s), NEW x
  PROVE  /\ IsSeq(Append(s, x)) /\ Len(Append(s, x)) = Len(s) + 1
         /\ \A k \in 1 .. Len(s) : Append(s, x)[k] = s[k]
         /\ Append(s, x)[Len(s) + 1] = x
<1> DEFINE S == {s[k] : k \in DOMAIN s} \cup {x}
           t == Append(s, x)
<1>1. s \in Seq(S) /\ x \in S
  <2>1. {s[k] : k \in DOMAIN s} \subseteq S
    OBVIOUS
  <2> QED BY <2>1, SeqMonotonic DEF IsSeq
<1>2. Len(s) \in Nat
  BY SeqLen
<1> HIDE DEF S
<1>3. /\ t \in Seq(S) /\ Len(t) = Len(s) + 1
      /\ \A k \in 1 .. Len(s) : t[k] = s[k]
      /\ t[Len(s) + 1] = x
  BY <1>1, <1>2
<1>4. IsSeq(t)
  BY <1>3, SeqOver
<1> QED BY <1>3, <1>4
=============================================================================
