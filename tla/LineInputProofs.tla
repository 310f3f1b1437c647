--------------------------- MODULE LineInputProofs --------------------------
(***************************************************************************)
(* Proofs that memcpy moves overlapping areas whole, for areas of any size *)
(* anywhere, and that getstr, which is built on it, implements the typing  *)
(* of a line (Line), in arrays of any size.                                *)
(***************************************************************************)
EXTENDS LineInput, DataLemmas

(* memcpy moves its bytes as if all were read before one is written, also  *)
(* when the two areas overlap, and touches no others.                      *)
THEOREM MemcpyMoves ==
  ASSUME NEW m, m = [a \in DOMAIN m |-> m[a]],
         NEW dst \in Nat, NEW src \in Nat, NEW size \in Nat,
         dst .. dst + size - 1 \subseteq DOMAIN m, src .. src + size - 1 \subseteq DOMAIN m
  PROVE  memcpy(m, dst, src, size) =
           [a \in DOMAIN m |-> IF a \in dst .. dst + size - 1 THEN m[src + (a - dst)] ELSE m[a]]
(* The bytes in the order they are copied, a step of the loop, the loop's  *)
(* states by the number of bytes copied, and what those are.               *)
<1> DEFINE D == DOMAIN m
           S == [k \in 1 .. size |-> IF src > dst THEN k - 1 ELSE size - k]
           Step(mm, c) == [mm EXCEPT ![dst + c] = mm[src + c]]
           Value(f, k) == CHOOSE v \in {Step(s, S[k]) : s \in {f[k - 1]}} : TRUE
           Eq(f) == f = [k \in 0 .. Len(S) |-> IF k = 0 THEN m ELSE Value(f, k)]
           F == CHOOSE f : Eq(f)
           Moved(a, k) == IF src > dst THEN a \in dst .. dst + k - 1
                                       ELSE a \in dst + (size - k) .. dst + size - 1
           Closed(k) == [a \in D |-> IF Moved(a, k) THEN m[src + (a - dst)] ELSE m[a]]
           G == [k \in 0 .. size |-> Closed(k)]
<1>1. memcpy(m, dst, src, size) = F[Len(S)]
  BY DEF memcpy, Folded
<1>2. Len(S) = size /\ \A k \in 1 .. size : S[k] = IF src > dst THEN k - 1 ELSE size - k
  OBVIOUS
<1>3. G[0] = m
  <2>1. \A a \in D : ~Moved(a, 0)
    OBVIOUS
  <2> QED BY <2>1
<1>4. ASSUME NEW k \in 1 .. size PROVE Step(Closed(k - 1), S[k]) = Closed(k)
  <2> DEFINE c == IF src > dst THEN k - 1 ELSE size - k
  <2>1. S[k] = c /\ c \in 0 .. size - 1
    BY <1>2
  <2>2. dst + c \in D /\ src + c \in D
    BY <2>1
  <2>3. ~Moved(src + c, k - 1)
    OBVIOUS
  <2>4. Closed(k - 1)[src + c] = m[src + c]
    BY <2>2, <2>3
  <2>5. \A a \in D : a # dst + c => (Moved(a, k) <=> Moved(a, k - 1))
    OBVIOUS
  <2>6. Moved(dst + c, k) /\ src + ((dst + c) - dst) = src + c
    OBVIOUS
  <2>7. Step(Closed(k - 1), S[k]) = [Closed(k - 1) EXCEPT ![dst + c] = m[src + c]]
    BY <2>1, <2>4
  <2>8. \A a \in D : Closed(k - 1)[a] = IF Moved(a, k - 1) THEN m[src + (a - dst)] ELSE m[a]
    OBVIOUS
  <2>9. \A a \in D : Closed(k)[a] = IF a = dst + c THEN m[src + c] ELSE Closed(k - 1)[a]
    <3>1. \A a \in D : Closed(k)[a] = IF Moved(a, k) THEN m[src + (a - dst)] ELSE m[a]
      OBVIOUS
    <3> HIDE DEF Moved, Closed, S
    <3>2. Closed(k)[dst + c] = m[src + c]
      <4>1. c \in Nat
        BY <2>1
      <4> HIDE DEF c
      <4>2. src + ((dst + c) - dst) = src + c
        BY <4>1
      <4> QED BY <2>2, <2>6, <3>1, <4>2
    <3> HIDE DEF c
    <3>3. ASSUME NEW a \in D, a # dst + c PROVE Closed(k)[a] = Closed(k - 1)[a]
      BY <2>5, <2>8, <3>1, <3>3
    <3> QED BY <3>2, <3>3
  <2>10. [Closed(k - 1) EXCEPT ![dst + c] = m[src + c]]
           = [a \in D |-> IF a = dst + c THEN m[src + c] ELSE Closed(k - 1)[a]]
    BY <2>2
  <2>11. Closed(k) = [a \in D |-> Closed(k)[a]]
    OBVIOUS
  <2> HIDE DEF Closed, Step, S
  <2> QED
    BY <2>7, <2>9, <2>10, <2>11
<1>5. Eq(G)
  <2> HIDE DEF Step, Closed, S
  <2>1. \A k \in 0 .. size : G[k] = Closed(k)
    OBVIOUS
  <2>2. G = [k \in 0 .. size |-> G[k]]
    OBVIOUS
  <2> HIDE DEF G
  <2>3. ASSUME NEW k \in 1 .. size PROVE G[k] = Value(G, k)
    <3>1. G[k - 1] = Closed(k - 1)
      BY <2>1
    <3>2. {Step(s, S[k]) : s \in {G[k - 1]}} = {Closed(k)}
      BY <3>1, <1>4
    <3> QED BY <2>1, <3>2
  <2> HIDE DEF Value
  <2> QED BY <1>2, <1>3, <2>2, <2>3
<1>6. Eq(F)
  <2> HIDE DEF Eq, G
  <2> QED BY <1>5
<1>7. \A k \in 0 .. size : F[k] = Closed(k)
  <2> HIDE DEF Step, Closed, S, F
  <2> DEFINE Wrong == {k \in 0 .. size : F[k] # Closed(k)}
  <2> SUFFICES ASSUME Wrong # {} PROVE FALSE
    OBVIOUS
  <2>1. Wrong \subseteq Nat
    OBVIOUS
  <2> DEFINE k == Min(Wrong)
  <2>2. k \in Wrong /\ \A y \in Wrong : k <= y
    BY <2>1, MinIsLeast
  <2> HIDE DEF k
  <2>3. F[0] = m
    BY <1>2, <1>6
  <2>4. k \in 1 .. size
    BY <1>3, <2>2, <2>3
  <2>5. k - 1 \in 0 .. size /\ k - 1 \notin Wrong
    BY <2>2, <2>4
  <2>6. F[k - 1] = Closed(k - 1)
    BY <2>5
  <2>7. F[k] = CHOOSE v \in {Step(s, S[k]) : s \in {F[k - 1]}} : TRUE
    BY <1>2, <1>6, <2>4
  <2>8. {Step(s, S[k]) : s \in {F[k - 1]}} = {Closed(k)}
    BY <1>4, <2>4, <2>6
  <2> QED BY <2>2, <2>7, <2>8
<1>8. \A a \in D : Moved(a, size) <=> a \in dst .. dst + size - 1
  OBVIOUS
<1>9. memcpy(m, dst, src, size) = Closed(size)
  <2> HIDE DEF F, Closed, S
  <2> QED BY <1>1, <1>2, <1>7
<1> QED
  BY <1>8, <1>9

-----------------------------------------------------------------------------
(* Part of an array as a sequence.                                         *)
Part(m, lo, hi) == [p \in 1 .. hi - lo |-> m[lo + p - 1]]

(* Sequences of a length are equal when their elements are.                *)
LEMMA SeqSame ==
  ASSUME NEW s, IsSeq(s), NEW t, IsSeq(t), Len(s) = Len(t),
         \A k \in 1 .. Len(s) : s[k] = t[k]
  PROVE  s = t
<1> DEFINE S == {s[k] : k \in DOMAIN s} \cup {t[k] : k \in DOMAIN t}
<1>1. s \in Seq(S) /\ t \in Seq(S)
  BY SeqLen DEF IsSeq
<1> QED BY <1>1, SeqEqual

(* What SubSeq takes out of a sequence.                                    *)
LEMMA SeqSub ==
  ASSUME NEW s, IsSeq(s), NEW lo \in 1 .. Len(s) + 1, NEW hi \in lo - 1 .. Len(s)
  PROVE  /\ IsSeq(SubSeq(s, lo, hi)) /\ Len(SubSeq(s, lo, hi)) = hi - lo + 1
         /\ \A k \in 1 .. hi - lo + 1 : SubSeq(s, lo, hi)[k] = s[lo + k - 1]
<1> DEFINE S == {s[k] : k \in DOMAIN s}
<1>1. s \in Seq(S) /\ Len(s) \in Nat
  BY SeqLen DEF IsSeq
<1>2. \A k \in lo .. hi : s[k] \in S
  BY SeqLen
<1> HIDE DEF S
<1>3. /\ SubSeq(s, lo, hi) \in Seq(S) /\ Len(SubSeq(s, lo, hi)) = hi - lo + 1
      /\ \A k \in 1 .. hi - lo + 1 : SubSeq(s, lo, hi)[k] = s[lo + k - 1]
  BY <1>1, <1>2, SubSeqProperties
<1> QED BY <1>3, SeqOver

(* It is one, as long as it should be.                                     *)
LEMMA PartSeq ==
  ASSUME NEW m, NEW lo \in Nat, NEW hi \in Nat, lo <= hi
  PROVE  /\ IsSeq(Part(m, lo, hi)) /\ Len(Part(m, lo, hi)) = hi - lo
         /\ \A k \in 1 .. hi - lo : Part(m, lo, hi)[k] = m[lo + k - 1]
<1>1. hi - lo \in Nat
  OBVIOUS
<1>2. Part(m, lo, hi) = [p \in 1 .. hi - lo |-> Part(m, lo, hi)[p]]
  BY DEF Part
<1>3. IsSeq(Part(m, lo, hi)) /\ Len(Part(m, lo, hi)) = hi - lo
  <2> DEFINE f == Part(m, lo, hi)
  <2> HIDE DEF f
  <2> QED BY <1>1, <1>2, SeqFun DEF f
<1> QED BY <1>3 DEF Part

(* Neighbouring parts make one.                                            *)
LEMMA PartJoin ==
  ASSUME NEW m, NEW lo \in Nat, NEW mid \in Nat, NEW hi \in Nat, lo <= mid, mid <= hi
  PROVE  Part(m, lo, mid) \o Part(m, mid, hi) = Part(m, lo, hi)
<1> DEFINE a == Part(m, lo, mid)
           b == Part(m, mid, hi)
           c == Part(m, lo, hi)
<1>1. IsSeq(a) /\ Len(a) = mid - lo /\ \A k \in 1 .. mid - lo : a[k] = m[lo + k - 1]
  BY PartSeq
<1>2. IsSeq(b) /\ Len(b) = hi - mid /\ \A k \in 1 .. hi - mid : b[k] = m[mid + k - 1]
  BY PartSeq
<1>3. IsSeq(c) /\ Len(c) = hi - lo /\ \A k \in 1 .. hi - lo : c[k] = m[lo + k - 1]
  <2>1. lo <= hi
    OBVIOUS
  <2> QED BY <2>1, PartSeq
<1> HIDE DEF a, b, c
<1>4. Len(a) + Len(b) = hi - lo
  BY <1>1, <1>2
<1>5. /\ IsSeq(a \o b) /\ Len(a \o b) = hi - lo
      /\ \A k \in 1 .. hi - lo : (a \o b)[k] = IF k <= Len(a) THEN a[k] ELSE b[k - Len(a)]
  BY <1>1, <1>2, <1>4, SeqConcat, ZenonT(30)
<1>6. ASSUME NEW k \in 1 .. hi - lo PROVE (a \o b)[k] = c[k]
  <2> DEFINE j == k - (mid - lo)
  <2>1. Len(a) = mid - lo
    BY <1>1
  <2>2. CASE k <= mid - lo
    <3>1. k \in 1 .. mid - lo
      BY <2>2
    <3> QED BY <1>1, <1>3, <1>5, <2>1, <2>2, <3>1
  <2>3. CASE ~(k <= mid - lo)
    <3>1. j \in 1 .. hi - mid /\ mid + j - 1 = lo + k - 1
      BY <2>3
    <3>2. (a \o b)[k] = b[j]
      BY <1>5, <2>1, <2>3
    <3> HIDE DEF j
    <3> QED BY <1>2, <1>3, <3>1, <3>2
  <2> QED BY <2>2, <2>3
<1> QED BY <1>1, <1>2, <1>3, <1>5, <1>6, SeqSame DEF a, b, c

-----------------------------------------------------------------------------
(* A line of n characters in the array: zeros are behind it and nowhere    *)
(* else.                                                                   *)
IsLine(m, n) ==
  /\ m = [p \in 0 .. MAX_COUNT - 1 |-> m[p]]
  /\ n \in 0 .. MAX_COUNT - 1
  /\ \A p \in 0 .. n - 1 : m[p] # 0
  /\ \A p \in n .. MAX_COUNT - 1 : m[p] = 0

(* The inductive invariant: a line with the cursor in it or at its end,    *)
(* and the screen shows them.                                              *)
LInv == /\ \E n \in 0 .. MAX_COUNT - 1 : IsLine(str, n) /\ i \in 0 .. n
        /\ row = [cells |-> str, at |-> i]

(* What the functions that look for a final 0 make of it.                  *)
LEMMA LineViewed ==
  ASSUME NEW m, NEW n, IsLine(m, n)
  PROVE  Length(m) = n /\ strlen(m) = n /\ Visible(m) = Part(m, 0, n) /\ StringAt(m) = Part(m, 0, n)
<1>0. MAX_COUNT \in Nat /\ MAX_COUNT >= 2
  BY LineAssumption
<1>21. /\ n \in 0 .. MAX_COUNT - 1
       /\ \A p \in 0 .. n - 1 : m[p] # 0
       /\ \A p \in n .. MAX_COUNT - 1 : m[p] = 0
  BY DEF IsLine
<1>22. n \in Nat /\ n <= MAX_COUNT - 1 /\ m[n] = 0
  <2>1. n \in Nat /\ n <= MAX_COUNT - 1 /\ n \in n .. MAX_COUNT - 1
    BY <1>0, <1>21
  <2> QED BY <1>21, <2>1
<1>1. Length(m) = n
  <2> DEFINE P(l) == (l = MAX_COUNT \/ m[l] = 0) /\ \A k \in 0 .. l - 1 : m[k] # 0
  <2>1. n \in 0 .. MAX_COUNT /\ P(n)
    BY <1>0, <1>21, <1>22
  <2>2. ASSUME NEW l \in 0 .. MAX_COUNT, P(l) PROVE l = n
    <3>1. CASE l < n
      <4>1. l \in 0 .. n - 1 /\ l # MAX_COUNT
        BY <1>0, <1>22, <3>1
      <4> QED BY <1>21, <2>2, <4>1
    <3>2. CASE n < l
      <4>1. n \in 0 .. l - 1
        BY <1>22, <3>2
      <4> QED BY <1>22, <2>2, <4>1
    <3> QED BY <1>22, <3>1, <3>2
  <2> HIDE DEF P
  <2>3. (CHOOSE l \in 0 .. MAX_COUNT : P(l)) = n
    BY <2>1, <2>2
  <2> QED BY <2>3 DEF Length, P
<1>2. strlen(m) = n
  <2> DEFINE P(l) == m[l] = 0 /\ \A k \in 0 .. l - 1 : m[k] # 0
  <2>0. DOMAIN m = 0 .. MAX_COUNT - 1
    BY DEF IsLine
  <2>1. n \in DOMAIN m /\ P(n)
    BY <1>21, <1>22, <2>0
  <2>2. ASSUME NEW l \in DOMAIN m, P(l) PROVE l = n
    <3>0. l \in 0 .. MAX_COUNT - 1
      BY <2>0
    <3>1. CASE l < n
      <4>1. l \in 0 .. n - 1
        BY <1>22, <3>0, <3>1
      <4> QED BY <1>21, <2>2, <4>1
    <3>2. CASE n < l
      <4>1. n \in 0 .. l - 1
        BY <1>22, <3>0, <3>2
      <4> QED BY <1>22, <2>2, <4>1
    <3> QED BY <1>0, <1>22, <3>0, <3>1, <3>2
  <2> HIDE DEF P
  <2>3. (CHOOSE l \in DOMAIN m : P(l)) = n
    BY <2>1, <2>2
  <2> QED BY <2>3 DEF strlen, P
<1>3. Part(m, 0, n) = [p \in 1 .. n |-> m[p - 1]]
  <2>1. n \in Nat /\ n - 0 = n /\ \A p \in 1 .. n : 0 + p - 1 = p - 1
    BY <1>0 DEF IsLine
  <2> QED BY <2>1 DEF Part
<1>4. \A p \in Length(m) .. MAX_COUNT - 1 : m[p] = 0
  BY <1>1 DEF IsLine
<1> QED BY <1>1, <1>2, <1>3, <1>4 DEF Visible, StringAt

(* The characters before place j of a line, and those after it.            *)
LEMMA LineParts ==
  ASSUME NEW m, NEW n, IsLine(m, n), NEW j \in 0 .. n
  PROVE  /\ [p \in 1 .. j |-> m[p - 1]] = Part(m, 0, j)
         /\ SubSeq(Visible(m), j + 1, Len(Visible(m))) = Part(m, j, n)
<1>1. n \in Nat /\ j \in Nat /\ j <= n
  BY LineAssumption DEF IsLine
<1>2. [p \in 1 .. j |-> m[p - 1]] = Part(m, 0, j)
  <2>1. j - 0 = j /\ \A p \in 1 .. j : 0 + p - 1 = p - 1
    BY <1>1
  <2> QED BY <2>1 DEF Part
<1> DEFINE v == Part(m, 0, n)
           t == Part(m, j, n)
           u == SubSeq(v, j + 1, n)
<1>3. IsSeq(v) /\ Len(v) = n /\ \A k \in 1 .. n : v[k] = m[0 + k - 1]
  <2>1. 0 \in Nat /\ 0 <= n /\ n - 0 = n
    BY <1>1
  <2>2. IsSeq(v) /\ Len(v) = n - 0 /\ \A k \in 1 .. n - 0 : v[k] = m[0 + k - 1]
    BY <1>1, <2>1, PartSeq
  <2> QED BY <2>1, <2>2
<1>4. IsSeq(t) /\ Len(t) = n - j /\ \A k \in 1 .. n - j : t[k] = m[j + k - 1]
  BY <1>1, PartSeq
<1> HIDE DEF v, t
<1>5. /\ IsSeq(u) /\ Len(u) = n - (j + 1) + 1
      /\ \A k \in 1 .. n - (j + 1) + 1 : u[k] = v[j + 1 + k - 1]
  BY <1>1, <1>3, SeqSub
<1> HIDE DEF u
<1>6. ASSUME NEW k \in 1 .. n - j PROVE u[k] = t[k]
  <2>1. k \in 1 .. n - (j + 1) + 1 /\ j + 1 + k - 1 = j + k /\ j + k \in 1 .. n /\ 0 + (j + k) - 1 = j + k - 1
    BY <1>1
  <2>2. u[k] = v[j + k]
    BY <1>5, <2>1
  <2> QED BY <1>3, <1>4, <2>1, <2>2
<1>7. n - (j + 1) + 1 = n - j
  BY <1>1
<1>8. u = t
  BY <1>4, <1>5, <1>6, <1>7, SeqSame
<1> QED BY <1>2, <1>3, <1>8, LineViewed DEF u, t, v

(* What the refinement shows of a line.                                    *)
LEMMA LineNow ==
  ASSUME NEW n, IsLine(str, n), i \in 0 .. n
  PROVE  /\ L!Before = Part(str, 0, i) /\ L!After = Part(str, i, n)
         /\ L!Before \o L!After = Part(str, 0, n)
<1>1. L!Before = Part(str, 0, i) /\ L!After = Part(str, i, n)
  BY LineParts DEF L!Before, L!After
<1>2. i \in Nat /\ n \in Nat /\ 0 <= i /\ i <= n
  BY LineAssumption DEF IsLine
<1> QED BY <1>1, <1>2, PartJoin

(* The line as one that is typed, and its sight.                           *)
TypedNow == <<[p \in 1 .. i |-> str[p - 1]], SubSeq(Visible(str), i + 1, Len(Visible(str)))>>
SightNow == [text |-> Visible(row.cells), at |-> row.at]

(* Whatever is drawn again is what is typed.                               *)
LEMMA Redraws ==
  ASSUME NEW n, IsLine(str', n), i' \in 0 .. n,
         row' = [cells |-> str', at |-> i'], entered' = entered
  PROVE  /\ LInv' /\ TypedNow' = <<Part(str', 0, i'), Part(str', i', n)>>
         /\ SightNow' = [text |-> Part(str', 0, i') \o Part(str', i', n),
                         at   |-> Len(Part(str', 0, i'))]
<1> DEFINE b == Part(str', 0, i')
           a == Part(str', i', n)
<1>1. i' \in Nat /\ n \in Nat /\ 0 <= i' /\ i' <= n
  BY LineAssumption DEF IsLine
<1>2. IsSeq(b) /\ Len(b) = i' - 0
  BY <1>1, PartSeq
<1>3. b \o a = Part(str', 0, n)
  BY <1>1, PartJoin
<1>4. /\ [p \in 1 .. i' |-> str'[p - 1]] = b
      /\ SubSeq(Visible(str'), i' + 1, Len(Visible(str'))) = a
      /\ Visible(str') = Part(str', 0, n)
  BY LineParts, LineViewed
<1>5. Len(b) = i' /\ row'.cells = str' /\ row'.at = i'
  BY <1>1, <1>2
<1>6. LInv'
  BY DEF LInv, IsLine
<1> HIDE DEF b, a
<1>7. TypedNow' = <<b, a>> /\ SightNow' = [text |-> b \o a, at |-> Len(b)]
  BY <1>3, <1>4, <1>5 DEF TypedNow, SightNow, Visible, Length
<1> QED BY <1>6, <1>7 DEF b, a

(* An array that is drawn again as it was changes nothing.                 *)
LEMMA Unmoved ==
  ASSUME LInv, Redrawn(str, i)
  PROVE  LInv' /\ UNCHANGED L!lvars
<1>1. str' = str /\ i' = i /\ row' = row /\ entered' = entered
  BY DEF LInv, Redrawn
<1>2. LInv'
  BY <1>1 DEF LInv, IsLine
<1>3. UNCHANGED L!lvars
  BY <1>1 DEF L!lvars, Visible, Length
<1> QED BY <1>2, <1>3

(* Keys have their effect until the line is returned.                      *)
LEMMA Running ==
  ASSUME Stroke
  PROVE  entered = L!NoLine
BY DEF Stroke, Typing, L!NoLine

(* The characters of a line without the one at p.                          *)
Without(m, p) == [a \in 0 .. MAX_COUNT - 1 |-> IF a \in p .. MAX_COUNT - 2 THEN m[a + 1] ELSE m[a]]

(* It is a line, of one character less; behind the last nothing goes.      *)
LEMMA WithoutLine ==
  ASSUME NEW m, NEW n, IsLine(m, n), NEW p \in 0 .. n
  PROVE  /\ p < n => IsLine(Without(m, p), n - 1)
         /\ p = n => Without(m, p) = m
<1>0. MAX_COUNT \in Nat /\ MAX_COUNT >= 2 /\ n \in 0 .. MAX_COUNT - 1 /\ n \in Nat /\ p \in Nat /\ p <= n
  BY LineAssumption DEF IsLine
<1>1. (\A a \in 0 .. n - 1 : m[a] # 0) /\ (\A a \in n .. MAX_COUNT - 1 : m[a] = 0)
  BY DEF IsLine
<1> DEFINE w == Without(m, p)
<1>2. \A a \in 0 .. MAX_COUNT - 1 : w[a] = IF a \in p .. MAX_COUNT - 2 THEN m[a + 1] ELSE m[a]
  BY DEF Without
<1>3. ASSUME p < n PROVE IsLine(w, n - 1)
  <2>1. ASSUME NEW a \in 0 .. (n - 1) - 1 PROVE w[a] # 0
    <3>1. a + 1 \in 0 .. n - 1 /\ a \in 0 .. n - 1 /\ a \in 0 .. MAX_COUNT - 1
      BY <1>0
    <3> QED BY <1>1, <1>2, <3>1
  <2>2. ASSUME NEW a \in n - 1 .. MAX_COUNT - 1 PROVE w[a] = 0
    <3>1. a \in 0 .. MAX_COUNT - 1 /\ a >= p
      BY <1>0, <1>3
    <3>2. CASE a <= MAX_COUNT - 2
      <4>1. a \in p .. MAX_COUNT - 2 /\ a + 1 \in n .. MAX_COUNT - 1
        BY <1>0, <3>1, <3>2
      <4> QED BY <1>1, <1>2, <3>1, <4>1
    <3>3. CASE ~(a <= MAX_COUNT - 2)
      <4>1. a \notin p .. MAX_COUNT - 2 /\ a \in n .. MAX_COUNT - 1
        BY <1>0, <3>1, <3>3
      <4> QED BY <1>1, <1>2, <3>1, <4>1
    <3> QED BY <3>2, <3>3
  <2>3. n - 1 \in 0 .. MAX_COUNT - 1
    BY <1>0, <1>3
  <2>4. w = [a \in 0 .. MAX_COUNT - 1 |-> w[a]]
    BY DEF Without
  <2> HIDE DEF w
  <2> QED BY <2>1, <2>2, <2>3, <2>4 DEF IsLine
<1>4. ASSUME p = n PROVE w = m
  <2>1. ASSUME NEW a \in 0 .. MAX_COUNT - 1 PROVE w[a] = m[a]
    <3>1. CASE a \in p .. MAX_COUNT - 2
      <4>1. a \in n .. MAX_COUNT - 1 /\ a + 1 \in n .. MAX_COUNT - 1
        BY <1>0, <1>4, <3>1
      <4> QED BY <1>1, <1>2, <3>1, <4>1
    <3> QED BY <1>2, <3>1
  <2>2. m = [a \in 0 .. MAX_COUNT - 1 |-> m[a]] /\ w = [a \in 0 .. MAX_COUNT - 1 |-> w[a]]
    BY DEF IsLine, Without
  <2> HIDE DEF w
  <2> QED BY <2>1, <2>2
<1> QED BY <1>3, <1>4

(* A copy one place down takes a character out.                            *)
LEMMA CopyDown ==
  ASSUME NEW m, NEW n, IsLine(m, n), NEW p \in 0 .. MAX_COUNT - 2
  PROVE  memcpy(m, p, p + 1, MAX_COUNT - p - 1) = Without(m, p)
<1> DEFINE D == 0 .. MAX_COUNT - 1
           size == MAX_COUNT - p - 1
<1>1. MAX_COUNT \in Nat /\ MAX_COUNT >= 2 /\ p \in Nat /\ p + 1 \in Nat /\ size \in Nat
  BY LineAssumption
<1>2. p .. p + size - 1 = p .. MAX_COUNT - 2 /\ (p + 1) .. (p + 1) + size - 1 = p + 1 .. MAX_COUNT - 1
  BY <1>1
<1>3. m = [a \in D |-> m[a]]
  BY DEF IsLine
<1>4. p .. p + size - 1 \subseteq D /\ (p + 1) .. (p + 1) + size - 1 \subseteq D
  BY <1>1, <1>2
<1> HIDE DEF size
<1>5. memcpy(m, p, p + 1, size) =
        [a \in D |-> IF a \in p .. p + size - 1 THEN m[(p + 1) + (a - p)] ELSE m[a]]
  <2> DEFINE q == p + 1
  <2>1. q \in Nat /\ p .. p + size - 1 \subseteq D /\ q .. q + size - 1 \subseteq D
    BY <1>1, <1>4
  <2>3. DOMAIN m = D
    BY <1>3
  <2> HIDE DEF D, q
  <2>4. m = [a \in DOMAIN m |-> m[a]]
    BY <1>3, <2>3
  <2>2. memcpy(m, p, q, size)
          = [a \in DOMAIN m |-> IF a \in p .. p + size - 1 THEN m[q + (a - p)] ELSE m[a]]
    BY <1>1, <2>1, <2>3, <2>4, MemcpyMoves, SMTT(30)
  <2> QED BY <2>2, <2>3 DEF q
<1>6. \A a \in p .. MAX_COUNT - 2 : (p + 1) + (a - p) = a + 1
  BY <1>1
<1>7. memcpy(m, p, p + 1, size) =
        [a \in D |-> IF a \in p .. MAX_COUNT - 2 THEN m[(p + 1) + (a - p)] ELSE m[a]]
  BY <1>2, <1>5
<1> QED BY <1>6, <1>7 DEF size, Without

(* The characters of a line with c at p.                                   *)
With(m, p, c) ==
  [a \in 0 .. MAX_COUNT - 1 |->
     IF a = p THEN c ELSE IF a \in p + 1 .. MAX_COUNT - 2 THEN m[a - 1] ELSE m[a]]

(* It is a line too, of one character more.                                *)
LEMMA WithLine ==
  ASSUME NEW m, NEW n, IsLine(m, n), NEW p \in 0 .. n, n < MAX_COUNT - 1, NEW c, c # 0
  PROVE  IsLine(With(m, p, c), n + 1)
<1>0. /\ MAX_COUNT \in Nat /\ MAX_COUNT >= 2 /\ n \in 0 .. MAX_COUNT - 1 /\ n \in Nat
      /\ p \in Nat /\ p <= n
  BY LineAssumption DEF IsLine
<1>1. (\A a \in 0 .. n - 1 : m[a] # 0) /\ (\A a \in n .. MAX_COUNT - 1 : m[a] = 0)
  BY DEF IsLine
<1> DEFINE w == With(m, p, c)
<1>2. \A a \in 0 .. MAX_COUNT - 1 :
         w[a] = IF a = p THEN c ELSE IF a \in p + 1 .. MAX_COUNT - 2 THEN m[a - 1] ELSE m[a]
  BY DEF With
<1>3. w = [a \in 0 .. MAX_COUNT - 1 |-> w[a]]
  BY DEF With
<1> HIDE DEF w
<1>4. ASSUME NEW a \in 0 .. (n + 1) - 1 PROVE w[a] # 0
  <2>1. a \in 0 .. MAX_COUNT - 1
    BY <1>0
  <2>2. CASE a < p
    <3>1. a \in 0 .. n - 1 /\ a # p /\ a \notin p + 1 .. MAX_COUNT - 2
      BY <1>0, <2>2
    <3> QED BY <1>1, <1>2, <2>1, <3>1
  <2>3. CASE a = p
    BY <1>2, <2>1, <2>3
  <2>4. CASE a > p
    <3>1. a - 1 \in 0 .. n - 1 /\ a # p /\ a \in p + 1 .. MAX_COUNT - 2
      BY <1>0, <2>4
    <3> QED BY <1>1, <1>2, <2>1, <3>1
  <2> QED BY <1>0, <2>2, <2>3, <2>4
<1>5. ASSUME NEW a \in n + 1 .. MAX_COUNT - 1 PROVE w[a] = 0
  <2>1. a \in 0 .. MAX_COUNT - 1 /\ a # p /\ a \in n .. MAX_COUNT - 1 /\ a - 1 \in n .. MAX_COUNT - 1
    BY <1>0
  <2> QED BY <1>1, <1>2, <2>1
<1>6. n + 1 \in 0 .. MAX_COUNT - 1
  BY <1>0
<1> QED BY <1>3, <1>4, <1>5, <1>6 DEF IsLine, w

(* A copy one place up makes room for a character.                         *)
LEMMA CopyUp ==
  ASSUME NEW m, NEW n, IsLine(m, n), NEW p \in 0 .. MAX_COUNT - 2, NEW c
  PROVE  [memcpy(m, p + 1, p, MAX_COUNT - p - 2) EXCEPT ![p] = c] = With(m, p, c)
<1> DEFINE D == 0 .. MAX_COUNT - 1
           size == MAX_COUNT - p - 2
           q == p + 1
<1>1. /\ MAX_COUNT \in Nat /\ MAX_COUNT >= 2 /\ p \in Nat /\ q \in Nat /\ size \in Nat
      /\ p \in D
  BY LineAssumption
<1>2. q .. q + size - 1 = p + 1 .. MAX_COUNT - 2
  BY <1>1
<1>3. DOMAIN m = D /\ m = [a \in DOMAIN m |-> m[a]]
  BY DEF IsLine
<1>4. p .. p + size - 1 \subseteq D /\ q .. q + size - 1 \subseteq D
  BY <1>1
<1>5. memcpy(m, q, p, size) =
        [a \in DOMAIN m |-> IF a \in q .. q + size - 1 THEN m[p + (a - q)] ELSE m[a]]
  <2> HIDE DEF D, q, size
  <2> QED BY <1>1, <1>3, <1>4, MemcpyMoves
<1>6. \A a \in p + 1 .. MAX_COUNT - 2 : p + (a - q) = a - 1
  BY <1>1
<1>7. memcpy(m, q, p, size) =
        [a \in D |-> IF a \in p + 1 .. MAX_COUNT - 2 THEN m[p + (a - q)] ELSE m[a]]
  <2> HIDE DEF D, q, size
  <2> QED BY <1>2, <1>3, <1>5
<1>8. memcpy(m, q, p, size) = [a \in D |-> IF a \in p + 1 .. MAX_COUNT - 2 THEN m[a - 1] ELSE m[a]]
  <2> HIDE DEF D, q, size
  <2> QED BY <1>6, <1>7
<1> QED BY <1>1, <1>8 DEF With

(* Parts of two arrays that hold the same are the same.                    *)
LEMMA PartSame ==
  ASSUME NEW w, NEW lo, NEW hi, NEW m, NEW lo2, NEW hi2, hi - lo = hi2 - lo2,
         \A p \in 1 .. hi - lo : w[lo + p - 1] = m[lo2 + p - 1]
  PROVE  Part(w, lo, hi) = Part(m, lo2, hi2)
BY DEF Part

(* A part of one element, of none, and a sequence with one more.           *)
LEMMA PartOne ==
  ASSUME NEW m, NEW lo \in Nat
  PROVE  Part(m, lo, lo + 1) = <<m[lo]>>
<1> DEFINE t == Part(m, lo, lo + 1)
<1>1. lo + 1 \in Nat /\ lo <= lo + 1 /\ lo + 1 - lo = 1 /\ lo + 1 - 1 = lo /\ (lo + 1) - lo = 1
  OBVIOUS
<1>2. IsSeq(t) /\ Len(t) = 1 /\ \A k \in 1 .. 1 : t[k] = m[lo + k - 1]
  <2> DEFINE h == lo + 1
  <2>1. h \in Nat /\ lo <= h /\ h - lo = 1
    BY <1>1
  <2> HIDE DEF h
  <2>2. /\ IsSeq(Part(m, lo, h)) /\ Len(Part(m, lo, h)) = h - lo
        /\ \A k \in 1 .. h - lo : Part(m, lo, h)[k] = m[lo + k - 1]
    BY <2>1, PartSeq
  <2> QED BY <2>1, <2>2 DEF h
<1> HIDE DEF t
<1>3. t[1] = m[lo]
  BY <1>1, <1>2
<1> DEFINE u == <<m[lo]>>
<1>4. u \in Seq({m[lo]}) /\ Len(u) = 1 /\ u[1] = m[lo]
  OBVIOUS
<1> HIDE DEF u
<1>5. IsSeq(u)
  BY <1>4, SeqOver
<1> QED BY <1>2, <1>3, <1>4, <1>5, SeqSame DEF t, u

(* A part without its last element, and without its first; and one longer. *)
LEMMA PartEnds ==
  ASSUME NEW m, NEW lo \in Nat, NEW hi \in Nat, lo < hi
  PROVE  /\ Part(m, lo, hi) # <<>> /\ Part(m, lo, hi)[Len(Part(m, lo, hi))] = m[hi - 1]
         /\ SubSeq(Part(m, lo, hi), 1, Len(Part(m, lo, hi)) - 1) = Part(m, lo, hi - 1)
         /\ Head(Part(m, lo, hi)) = m[lo] /\ Tail(Part(m, lo, hi)) = Part(m, lo + 1, hi)
<1> DEFINE t == Part(m, lo, hi)
           f == Part(m, lo, hi - 1)
           r == Part(m, lo + 1, hi)
<1>1. /\ hi - 1 \in Nat /\ lo + 1 \in Nat /\ lo <= hi /\ lo <= hi - 1 /\ lo + 1 <= hi
      /\ hi - lo \in Nat /\ hi - lo >= 1 /\ (hi - 1) - lo = hi - lo - 1 /\ hi - (lo + 1) = hi - lo - 1
  OBVIOUS
<1>2. IsSeq(t) /\ Len(t) = hi - lo /\ \A k \in 1 .. hi - lo : t[k] = m[lo + k - 1]
  <2>1. lo <= hi
    OBVIOUS
  <2> QED BY <2>1, PartSeq
<1>3. IsSeq(f) /\ Len(f) = (hi - 1) - lo /\ \A k \in 1 .. (hi - 1) - lo : f[k] = m[lo + k - 1]
  <2> DEFINE h == hi - 1
  <2>1. h \in Nat /\ lo <= h
    BY <1>1
  <2> HIDE DEF h
  <2>2. /\ IsSeq(Part(m, lo, h)) /\ Len(Part(m, lo, h)) = h - lo
        /\ \A k \in 1 .. h - lo : Part(m, lo, h)[k] = m[lo + k - 1]
    BY <2>1, PartSeq
  <2> QED BY <2>2 DEF h
<1>4. IsSeq(r) /\ Len(r) = hi - (lo + 1) /\ \A k \in 1 .. hi - (lo + 1) : r[k] = m[lo + 1 + k - 1]
  BY <1>1, PartSeq, ZenonT(30)
<1> HIDE DEF t, f, r
<1>5. t # <<>> /\ t[Len(t)] = m[hi - 1]
  <2>1. hi - lo \in 1 .. hi - lo /\ lo + (hi - lo) - 1 = hi - 1
    BY <1>1
  <2> QED BY <1>1, <1>2, <2>1
<1>6. SubSeq(t, 1, Len(t) - 1) = f
  <2> DEFINE u == SubSeq(t, 1, Len(t) - 1)
  <2>1. 1 \in 1 .. Len(t) + 1 /\ Len(t) - 1 \in 1 - 1 .. Len(t) /\ Len(t) - 1 - 1 + 1 = Len(t) - 1
    BY <1>1, <1>2
  <2>2. IsSeq(u) /\ Len(u) = Len(t) - 1 /\ \A k \in 1 .. Len(t) - 1 : u[k] = t[1 + k - 1]
    BY <1>2, <2>1, SeqSub
  <2> HIDE DEF u
  <2>3. ASSUME NEW k \in 1 .. Len(u) PROVE u[k] = f[k]
    <3>1. k \in 1 .. Len(t) - 1 /\ k \in 1 .. hi - lo /\ k \in 1 .. (hi - 1) - lo /\ 1 + k - 1 = k
      BY <1>1, <1>2, <2>2
    <3> QED BY <1>2, <1>3, <2>2, <3>1
  <2> QED BY <1>1, <1>2, <1>3, <2>2, <2>3, SeqSame DEF u
<1>7. Head(t) = m[lo] /\ Tail(t) = r
  <2> DEFINE u == Tail(t)
  <2>1. IsSeq(u) /\ Len(u) = Len(t) - 1 /\ Head(t) = t[1] /\ \A k \in 1 .. Len(t) - 1 : u[k] = t[k + 1]
    BY <1>2, <1>5, SeqTail
  <2> HIDE DEF u
  <2>2. t[1] = m[lo]
    BY <1>1, <1>2
  <2>3. ASSUME NEW k \in 1 .. Len(u) PROVE u[k] = r[k]
    <3>1. /\ k \in 1 .. Len(t) - 1 /\ k + 1 \in 1 .. hi - lo /\ k \in 1 .. hi - (lo + 1)
          /\ lo + (k + 1) - 1 = lo + 1 + k - 1
      BY <1>1, <1>2, <2>1
    <3> QED BY <1>2, <1>4, <2>1, <3>1
  <2> QED BY <1>1, <1>2, <1>4, <2>1, <2>2, <2>3, SeqSame DEF u
<1> QED BY <1>5, <1>6, <1>7 DEF t, f, r

LEMMA PartNone ==
  ASSUME NEW m, NEW lo \in Nat
  PROVE  Part(m, lo, lo) = <<>>
<1> DEFINE t == Part(m, lo, lo)
<1>1. lo <= lo /\ lo - lo = 0
  OBVIOUS
<1>2. IsSeq(t) /\ Len(t) = 0
  BY <1>1, PartSeq
<1> HIDE DEF t
<1> QED BY <1>2, EmptySeq DEF IsSeq, t

LEMMA OneMore ==
  ASSUME NEW s, IsSeq(s), NEW x
  PROVE  s \o <<x>> = Append(s, x)
<1> DEFINE S == {s[k] : k \in DOMAIN s} \cup {x}
<1>1. {s[k] : k \in DOMAIN s} \subseteq S /\ x \in S
  OBVIOUS
<1> HIDE DEF S
<1>2. s \in Seq(S)
  BY <1>1, SeqLen DEF IsSeq
<1> QED BY <1>1, <1>2, AppendIsConcat

-----------------------------------------------------------------------------
(* Each key keeps the invariant and is a step of typing a line.            *)
Bounds(n) == /\ MAX_COUNT \in Nat /\ MAX_COUNT >= 2
             /\ n \in Nat /\ n <= MAX_COUNT - 1 /\ i \in Nat /\ i <= n

LEMMA LineBounds ==
  ASSUME NEW n \in 0 .. MAX_COUNT - 1, IsLine(str, n), i \in 0 .. n
  PROVE  Bounds(n)
BY LineAssumption DEF Bounds

LEMMA BackspaceStep ==
  ASSUME LInv, KeyBackspace
  PROVE  LInv' /\ (L!Erase \/ UNCHANGED L!lvars)
<1>1. PICK n \in 0 .. MAX_COUNT - 1 : IsLine(str, n) /\ i \in 0 .. n
  BY DEF LInv
<1>2. Bounds(n)
  BY <1>1, LineBounds
<1>3. CASE i > 0
  <2> DEFINE p == i - 1
  <2>1. /\ p \in Nat /\ p \in 0 .. n /\ p < n /\ p \in 0 .. MAX_COUNT - 2 /\ p + 1 = i
        /\ MAX_COUNT - p - 1 = MAX_COUNT - i /\ n - 1 \in Nat /\ p \in 0 .. n - 1 /\ 0 < i
    BY <1>2, <1>3 DEF Bounds
  <2>2. Redrawn(memcpy(str, p, i, MAX_COUNT - i), p)
    BY <1>3 DEF KeyBackspace
  <2> HIDE DEF p
  <2>3. memcpy(str, p, p + 1, MAX_COUNT - p - 1) = Without(str, p)
    BY <1>1, <2>1, CopyDown
  <2>4. str' = Without(str, p) /\ i' = p /\ row' = [cells |-> str', at |-> i'] /\ entered' = entered
    BY <2>1, <2>2, <2>3 DEF Redrawn
  <2>5. IsLine(str', n - 1)
    BY <1>1, <2>1, <2>4, WithoutLine
  <2>6. /\ LInv' /\ TypedNow' = <<Part(str', 0, i'), Part(str', i', n - 1)>>
        /\ SightNow' = [text |-> Part(str', 0, i') \o Part(str', i', n - 1), at |-> Len(Part(str', 0, i'))]
    <3> DEFINE k == n - 1
    <3>1. IsLine(str', k) /\ i' \in 0 .. k
      BY <2>1, <2>4, <2>5
    <3> HIDE DEF k
    <3>2. /\ LInv' /\ TypedNow' = <<Part(str', 0, i'), Part(str', i', k)>>
          /\ SightNow' = [text |-> Part(str', 0, i') \o Part(str', i', k), at |-> Len(Part(str', 0, i'))]
      BY <2>4, <3>1, Redraws
    <3> QED BY <3>2 DEF k
  <2>7. Part(str', 0, i') = Part(str, 0, p)
    <3>1. \A k \in 1 .. p - 0 : Without(str, p)[0 + k - 1] = str[0 + k - 1]
      BY <1>2, <2>1 DEF Without, Bounds
    <3>2. Part(Without(str, p), 0, p) = Part(str, 0, p)
      BY <3>1, PartSame
    <3> QED BY <2>4, <3>2
  <2>8. Part(str', i', n - 1) = Part(str, i, n)
    <3>1. n - 1 - p = n - i
      BY <1>2, <2>1 DEF Bounds
    <3>2. ASSUME NEW k \in 1 .. n - 1 - p PROVE Without(str, p)[p + k - 1] = str[i + k - 1]
      <4>1. /\ p + k - 1 \in 0 .. MAX_COUNT - 1 /\ p + k - 1 \in p .. MAX_COUNT - 2
            /\ p + k - 1 + 1 = i + k - 1 /\ (p + k - 1) + 1 = i + k - 1
        BY <1>2, <2>1 DEF Bounds
      <4> QED BY <4>1 DEF Without
    <3>3. Part(Without(str, p), p, n - 1) = Part(str, i, n)
      BY <3>1, <3>2 DEF Part
    <3> QED BY <2>4, <3>3
  <2>9. L!Before = Part(str, 0, i) /\ L!After = Part(str, i, n)
    BY <1>1, LineNow
  <2>10. Part(str, 0, i) # <<>> /\ SubSeq(Part(str, 0, i), 1, Len(Part(str, 0, i)) - 1) = Part(str, 0, p)
    <3>1. 0 \in Nat /\ i \in Nat /\ 0 < i /\ p = i - 1
      BY <1>2, <2>1 DEF Bounds, p
    <3> QED BY <3>1, PartEnds
  <2>11. L!Erase
    BY <2>6, <2>7, <2>8, <2>9, <2>10, <2>4 DEF L!Erase, L!Goes, TypedNow, SightNow
  <2> QED BY <2>6, <2>11
<1>4. CASE ~(i > 0)
  BY <1>4, Unmoved DEF KeyBackspace
<1> QED BY <1>3, <1>4

LEMMA DeleteStep ==
  ASSUME LInv, KeyDelete
  PROVE  LInv' /\ (L!Erase \/ UNCHANGED L!lvars)
<1>1. PICK n \in 0 .. MAX_COUNT - 1 : IsLine(str, n) /\ i \in 0 .. n
  BY DEF LInv
<1>2. Bounds(n)
  BY <1>1, LineBounds
<1>3. CASE i < MAX_COUNT - 1
  <2>1. i \in 0 .. MAX_COUNT - 2
    BY <1>2, <1>3 DEF Bounds
  <2>2. memcpy(str, i, i + 1, MAX_COUNT - i - 1) = Without(str, i)
    BY <1>1, <2>1, CopyDown
  <2>3. Redrawn(Without(str, i), i)
    BY <1>3, <2>2 DEF KeyDelete
  <2>4. str' = Without(str, i) /\ i' = i /\ row' = [cells |-> str', at |-> i'] /\ entered' = entered
    BY <2>3 DEF Redrawn
  <2>5. CASE i = n
    <3>1. Without(str, i) = str
      BY <1>1, <2>5, WithoutLine
    <3> QED BY <2>3, <3>1, Unmoved
  <2>6. CASE i # n
    <3> DEFINE k == n - 1
    <3>1. i < n /\ k \in Nat /\ i \in 0 .. k
      BY <1>2, <2>6 DEF Bounds
    <3>2. IsLine(str', k)
      BY <1>1, <2>4, <3>1, WithoutLine
    <3> HIDE DEF k
    <3>3. /\ LInv' /\ TypedNow' = <<Part(str', 0, i'), Part(str', i', k)>>
          /\ SightNow' = [text |-> Part(str', 0, i') \o Part(str', i', k), at |-> Len(Part(str', 0, i'))]
      BY <2>4, <3>1, <3>2, Redraws
    <3>4. Part(str', 0, i') = Part(str, 0, i)
      <4>1. \A j \in 1 .. i - 0 : Without(str, i)[0 + j - 1] = str[0 + j - 1]
        BY <1>2 DEF Without, Bounds
      <4>2. Part(Without(str, i), 0, i) = Part(str, 0, i)
        BY <4>1, PartSame
      <4> QED BY <2>4, <4>2
    <3>5. Part(str', i', k) = Part(str, i + 1, n)
      <4>1. k - i = n - (i + 1)
        BY <1>2 DEF Bounds, k
      <4>2. ASSUME NEW j \in 1 .. k - i PROVE Without(str, i)[i + j - 1] = str[i + 1 + j - 1]
        <5>1. /\ i + j - 1 \in 0 .. MAX_COUNT - 1 /\ i + j - 1 \in i .. MAX_COUNT - 2
              /\ (i + j - 1) + 1 = i + 1 + j - 1
          BY <1>2, <3>1 DEF Bounds, k
        <5> QED BY <5>1 DEF Without
      <4>3. Part(Without(str, i), i, k) = Part(str, i + 1, n)
        BY <4>1, <4>2 DEF Part
      <4> QED BY <2>4, <4>3
    <3>6. L!Before = Part(str, 0, i) /\ L!After = Part(str, i, n)
      BY <1>1, LineNow
    <3>7. Part(str, i, n) # <<>> /\ Tail(Part(str, i, n)) = Part(str, i + 1, n)
      BY <1>2, <3>1, PartEnds, SMTT(30) DEF Bounds
    <3>8. L!Erase
      BY <3>3, <3>4, <3>5, <3>6, <3>7, <2>4 DEF L!Erase, L!Goes, TypedNow, SightNow
    <3> QED BY <3>3, <3>8
  <2> QED BY <2>5, <2>6
<1>4. CASE ~(i < MAX_COUNT - 1)
  BY <1>4, Unmoved DEF KeyDelete
<1> QED BY <1>3, <1>4

LEMMA MoveStep ==
  ASSUME LInv, KeyMove
  PROVE  LInv' /\ (L!Move \/ UNCHANGED L!lvars)
<1>1. PICK n \in 0 .. MAX_COUNT - 1 : IsLine(str, n) /\ i \in 0 .. n
  BY DEF LInv
<1>2. Bounds(n)
  BY <1>1, LineBounds
<1>3. L!Before = Part(str, 0, i) /\ L!After = Part(str, i, n) /\ L!Before \o L!After = Part(str, 0, n)
  BY <1>1, LineNow
(* Whatever place in the line the cursor goes to.                          *)
<1>4. ASSUME Redrawn(str, i'), i' \in 0 .. n
      PROVE  /\ LInv' /\ TypedNow' = <<Part(str, 0, i'), Part(str, i', n)>>
             /\ SightNow' = [text |-> Part(str, 0, i') \o Part(str, i', n), at |-> Len(Part(str, 0, i'))]
             /\ entered' = entered
  <2>1. str' = str /\ row' = [cells |-> str', at |-> i'] /\ entered' = entered
    BY <1>4 DEF Redrawn
  <2>2. IsLine(str', n)
    BY <1>1, <2>1
  <2>3. /\ LInv' /\ TypedNow' = <<Part(str', 0, i'), Part(str', i', n)>>
        /\ SightNow' = [text |-> Part(str', 0, i') \o Part(str', i', n), at |-> Len(Part(str', 0, i'))]
    BY <1>4, <2>1, <2>2, Redraws
  <2> QED BY <2>1, <2>3
<1>5. CASE i > 0 /\ Redrawn(str, i - 1)
  <2>1. i' = i - 1 /\ i' \in 0 .. n /\ i' \in Nat /\ 0 < i /\ i' + 1 = i /\ i - 1 = i'
    BY <1>2, <1>5 DEF Redrawn, Bounds
  <2>2. /\ LInv' /\ TypedNow' = <<Part(str, 0, i'), Part(str, i', n)>>
        /\ SightNow' = [text |-> Part(str, 0, i') \o Part(str, i', n), at |-> Len(Part(str, 0, i'))]
        /\ entered' = entered
    BY <1>4, <1>5, <2>1
  <2>3. /\ Part(str, 0, i) # <<>> /\ Part(str, 0, i)[Len(Part(str, 0, i))] = str[i - 1]
        /\ SubSeq(Part(str, 0, i), 1, Len(Part(str, 0, i)) - 1) = Part(str, 0, i - 1)
    <3>1. 0 \in Nat /\ i \in Nat
      BY <1>2 DEF Bounds
    <3> QED BY <2>1, <3>1, PartEnds, ZenonT(30)
  <2>4. Part(str, i', n) = <<str[i - 1]>> \o Part(str, i, n)
    <3> DEFINE p == i - 1
    <3>1. p \in Nat /\ i \in Nat /\ n \in Nat /\ p <= i /\ i <= n /\ p + 1 = i
      BY <1>2, <2>1 DEF Bounds
    <3>2. i' = p
      BY <2>1
    <3> HIDE DEF p
    <3>3. Part(str, p, i) = <<str[p]>>
      BY <3>1, PartOne
    <3>4. Part(str, p, i) \o Part(str, i, n) = Part(str, p, n)
      BY <3>1, PartJoin
    <3> QED BY <3>2, <3>3, <3>4 DEF p
  <2>5. L!Move
    BY <1>3, <2>1, <2>2, <2>3, <2>4 DEF L!Move, L!Goes, TypedNow, SightNow
  <2> QED BY <2>2, <2>5
<1>6. CASE i < strlen(str) /\ Redrawn(str, i + 1)
  <2>0. strlen(str) = n
    BY <1>1, LineViewed
  <2>1. i' = i + 1 /\ i' \in 0 .. n /\ i' \in Nat /\ i < n /\ i \in Nat /\ n \in Nat
    BY <1>2, <1>6, <2>0 DEF Redrawn, Bounds
  <2>2. /\ LInv' /\ TypedNow' = <<Part(str, 0, i'), Part(str, i', n)>>
        /\ SightNow' = [text |-> Part(str, 0, i') \o Part(str, i', n), at |-> Len(Part(str, 0, i'))]
        /\ entered' = entered
    BY <1>4, <1>6, <2>1
  <2>3. /\ Part(str, i, n) # <<>> /\ Head(Part(str, i, n)) = str[i]
        /\ Tail(Part(str, i, n)) = Part(str, i + 1, n)
    BY <2>1, PartEnds, ZenonT(30)
  <2>4. Part(str, 0, i') = Append(Part(str, 0, i), str[i])
    <3>1. Part(str, i, i + 1) = <<str[i]>>
      BY <2>1, PartOne
    <3>0. 0 \in Nat /\ i \in Nat /\ i' \in Nat /\ 0 <= i /\ i <= i'
      BY <2>1
    <3>2. Part(str, 0, i) \o Part(str, i, i') = Part(str, 0, i')
      BY <3>0, PartJoin
    <3>3. IsSeq(Part(str, 0, i))
      BY <3>0, PartSeq
    <3>4. Part(str, 0, i) \o <<str[i]>> = Append(Part(str, 0, i), str[i])
      <4> DEFINE t == Part(str, 0, i)
      <4> HIDE DEF t
      <4>1. IsSeq(t)
        BY <3>3 DEF t
      <4> QED BY <4>1, OneMore DEF t
    <3> QED BY <2>1, <3>1, <3>2, <3>4
  <2>5. L!Move
    BY <1>3, <2>1, <2>2, <2>3, <2>4 DEF L!Move, L!Goes, TypedNow, SightNow
  <2> QED BY <2>2, <2>5
<1>7. CASE Redrawn(str, 0)
  <2>1. i' = 0 /\ i' \in 0 .. n
    BY <1>2, <1>7 DEF Redrawn, Bounds
  <2>2. /\ LInv' /\ TypedNow' = <<Part(str, 0, i'), Part(str, i', n)>>
        /\ SightNow' = [text |-> Part(str, 0, i') \o Part(str, i', n), at |-> Len(Part(str, 0, i'))]
        /\ entered' = entered
    BY <1>4, <1>7, <2>1
  <2>3. Part(str, 0, 0) = <<>>
    BY PartNone
  <2>4. L!Move
    BY <1>3, <2>1, <2>2, <2>3 DEF L!Move, L!Goes, TypedNow, SightNow
  <2> QED BY <2>2, <2>4
<1>8. CASE Redrawn(str, strlen(str))
  <2>0. strlen(str) = n
    BY <1>1, LineViewed
  <2>1. i' = n /\ i' \in 0 .. n /\ n \in Nat
    BY <1>2, <1>8, <2>0 DEF Redrawn, Bounds
  <2>2. /\ LInv' /\ TypedNow' = <<Part(str, 0, i'), Part(str, i', n)>>
        /\ SightNow' = [text |-> Part(str, 0, i') \o Part(str, i', n), at |-> Len(Part(str, 0, i'))]
        /\ entered' = entered
    BY <1>4, <1>8, <2>0, <2>1
  <2>3. Part(str, n, n) = <<>>
    BY <2>1, PartNone
  <2>4. L!Move
    BY <1>3, <2>1, <2>2, <2>3 DEF L!Move, L!Goes, TypedNow, SightNow
  <2> QED BY <2>2, <2>4
<1> QED BY <1>5, <1>6, <1>7, <1>8 DEF KeyMove

LEMMA CharStep ==
  ASSUME LInv, KeyChar
  PROVE  LInv' /\ (L!Type \/ UNCHANGED L!lvars)
<1>1. PICK n \in 0 .. MAX_COUNT - 1 : IsLine(str, n) /\ i \in 0 .. n
  BY DEF LInv
<1>2. Bounds(n)
  BY <1>1, LineBounds
<1>3. L!Before = Part(str, 0, i) /\ L!After = Part(str, i, n) /\ L!Before \o L!After = Part(str, 0, n)
  BY <1>1, LineNow
<1>4. strlen(str) = n
  BY <1>1, LineViewed
<1>5. PICK c \in Typable :
        IF n < MAX_COUNT - 1
        THEN Redrawn([memcpy(str, i + 1, i, MAX_COUNT - i - 2) EXCEPT ![i] = c], i + 1)
        ELSE Redrawn(str, i)
  BY <1>4 DEF KeyChar
<1>6. CASE n < MAX_COUNT - 1
  <2> DEFINE k == n + 1
  <2>1. /\ i \in 0 .. MAX_COUNT - 2 /\ i + 1 \in 0 .. k /\ i \in Nat /\ n \in Nat /\ i <= n
        /\ i + 1 \in Nat /\ k \in Nat
    BY <1>2, <1>6 DEF Bounds
  <2>2. c # 0
    BY LineAssumption
  <2>3. [memcpy(str, i + 1, i, MAX_COUNT - i - 2) EXCEPT ![i] = c] = With(str, i, c)
    BY <1>1, <2>1, CopyUp
  <2>4. str' = With(str, i, c) /\ i' = i + 1 /\ row' = [cells |-> str', at |-> i'] /\ entered' = entered
    BY <1>5, <1>6, <2>3 DEF Redrawn
  <2>5. IsLine(str', k)
    BY <1>1, <1>6, <2>2, <2>4, WithLine
  <2> HIDE DEF k
  <2>6. /\ LInv' /\ TypedNow' = <<Part(str', 0, i'), Part(str', i', k)>>
        /\ SightNow' = [text |-> Part(str', 0, i') \o Part(str', i', k), at |-> Len(Part(str', 0, i'))]
    BY <2>1, <2>4, <2>5, Redraws
  <2>7. Part(str', 0, i') = Append(Part(str, 0, i), c)
    <3> DEFINE w == With(str, i, c)
    <3>0. 0 \in Nat /\ 0 <= i /\ i \in 0 .. MAX_COUNT - 1
      BY <1>2, <2>1 DEF Bounds
    <3>1. w[i] = c
      BY <3>0 DEF With
    <3>2. \A j \in 1 .. i - 0 : w[0 + j - 1] = str[0 + j - 1]
      BY <1>2, <2>1 DEF With, Bounds
    <3> HIDE DEF w
    <3>3. Part(w, 0, i) = Part(str, 0, i)
      BY <3>2, PartSame
    <3>4. Part(w, i, i + 1) = <<c>>
      BY <2>1, <3>1, PartOne
    <3>5. Part(w, 0, i) \o Part(w, i, i + 1) = Part(w, 0, i + 1)
      <4> DEFINE h == i + 1
      <4>1. h \in Nat /\ i <= h /\ 0 <= i
        BY <2>1
      <4> HIDE DEF h
      <4>2. Part(w, 0, i) \o Part(w, i, h) = Part(w, 0, h)
        BY <2>1, <4>1, PartJoin
      <4> QED BY <4>2 DEF h
    <3> DEFINE t == Part(str, 0, i)
    <3>6. IsSeq(t)
      BY <2>1, <3>0, PartSeq
    <3> HIDE DEF t
    <3>7. t \o <<c>> = Append(t, c)
      BY <3>6, OneMore
    <3> QED BY <2>4, <3>3, <3>4, <3>5, <3>7 DEF w, t
  <2>8. Part(str', i', k) = Part(str, i, n)
    <3> DEFINE w == With(str, i, c)
               h == i + 1
    <3>1. k - h = n - i
      BY <2>1 DEF k
    <3>2. ASSUME NEW j \in 1 .. k - h PROVE w[h + j - 1] = str[i + j - 1]
      <4>1. /\ h + j - 1 \in 0 .. MAX_COUNT - 1 /\ h + j - 1 # i /\ h + j - 1 \in i + 1 .. MAX_COUNT - 2
            /\ (h + j - 1) - 1 = i + j - 1
        BY <1>2, <1>6, <2>1 DEF Bounds, k
      <4> QED BY <4>1 DEF With
    <3> HIDE DEF w, h
    <3>3. Part(w, h, k) = Part(str, i, n)
      BY <3>1, <3>2 DEF Part
    <3> QED BY <2>4, <3>3 DEF w, h
  <2>9. Len(L!Before \o L!After) < MAX_COUNT - 1
    <3>1. Len(Part(str, 0, n)) = n
      <4>1. 0 \in Nat /\ 0 <= n /\ n - 0 = n
        BY <2>1
      <4>2. Len(Part(str, 0, n)) = n - 0
        BY <2>1, <4>1, PartSeq
      <4> QED BY <4>1, <4>2
    <3> QED BY <1>3, <1>6, <3>1
  <2>10. L!Type
    BY <1>3, <2>4, <2>6, <2>7, <2>8, <2>9 DEF L!Type, L!Goes, TypedNow, SightNow
  <2> QED BY <2>6, <2>10
<1>7. CASE ~(n < MAX_COUNT - 1)
  BY <1>5, <1>7, Unmoved
<1> QED BY <1>6, <1>7

LEMMA ReturnStep ==
  ASSUME LInv, KeyReturn
  PROVE  LInv' /\ L!Enter
<1>1. PICK n \in 0 .. MAX_COUNT - 1 : IsLine(str, n) /\ i \in 0 .. n
  BY DEF LInv
<1>2. Bounds(n)
  BY <1>1, LineBounds
<1>3. str' = str
  <2>0. MAX_COUNT - 1 \in n .. MAX_COUNT - 1
    BY <1>2 DEF Bounds
  <2>1. str[MAX_COUNT - 1] = 0 /\ str = [p \in 0 .. MAX_COUNT - 1 |-> str[p]]
    BY <1>1, <2>0 DEF IsLine
  <2> QED BY <2>1 DEF KeyReturn
<1>4. i' = i /\ row' = row /\ entered' = StringAt(str)
  BY <1>3 DEF KeyReturn
<1>5. StringAt(str) = Part(str, 0, n)
  BY <1>1, LineViewed
<1>6. L!Before \o L!After = Part(str, 0, n)
  BY <1>1, LineNow
<1>7. entered = L!NoLine
  BY Running DEF KeyReturn
<1>8. LInv'
  BY <1>3, <1>4 DEF LInv, IsLine
<1>9. TypedNow' = TypedNow /\ SightNow' = SightNow
  BY <1>3, <1>4 DEF TypedNow, SightNow, Visible, Length
<1>10. L!Enter
  BY <1>4, <1>5, <1>6, <1>7, <1>9 DEF L!Enter, TypedNow, SightNow
<1> QED BY <1>8, <1>10

LEMMA LineStarts ==
  ASSUME LineInit
  PROVE  LInv /\ L!Init
<1>1. MAX_COUNT \in Nat /\ MAX_COUNT >= 2
  BY LineAssumption
<1>2. IsLine(str, 0)
  <2>1. 0 \in 0 .. MAX_COUNT - 1 /\ \A p \in 0 .. 0 - 1 : FALSE
    BY <1>1
  <2>2. str = [p \in 0 .. MAX_COUNT - 1 |-> str[p]] /\ \A p \in 0 .. MAX_COUNT - 1 : str[p] = 0
    BY DEF LineInit, Blank
  <2> QED BY <2>1, <2>2 DEF IsLine
<1>3. 0 \in 0 .. 0 /\ 0 \in 0 .. MAX_COUNT - 1
  BY <1>1
<1>4. i = 0 /\ row = [cells |-> str, at |-> 0] /\ entered = Typing
  BY DEF LineInit
<1>5. LInv
  BY <1>2, <1>3, <1>4 DEF LInv
<1>6. Part(str, 0, 0) = <<>>
  BY PartNone
<1>7. TypedNow = <<<<>>, <<>>>>
  <2>1. TypedNow = <<Part(str, 0, 0), Part(str, 0, 0)>>
    BY <1>2, <1>3, <1>4, LineParts DEF TypedNow
  <2> QED BY <1>6, <2>1
<1>8. Visible(row.cells) = <<>>
  BY <1>2, <1>4, <1>6, LineViewed
<1>9. L!Init
  BY <1>4, <1>7, <1>8 DEF L!Init, L!NoLine, Typing, TypedNow
<1> QED BY <1>5, <1>9

LEMMA LineStep ==
  ASSUME LInv, [LineNext]_livars
  PROVE  LInv' /\ [L!Next]_L!lvars
<1>1. CASE LineNext
  <2>1. entered = L!NoLine
    BY <1>1, Running DEF LineNext, KeyBackspace, KeyDelete, KeyMove, KeyChar, KeyReturn
  <2>2. LInv' /\ (L!Erase \/ L!Move \/ L!Type \/ L!Enter \/ UNCHANGED L!lvars)
    BY <1>1, BackspaceStep, DeleteStep, MoveStep, CharStep, ReturnStep DEF LineNext
  <2> QED BY <2>1, <2>2 DEF L!Next
<1>2. CASE UNCHANGED livars
  <2>1. str' = str /\ i' = i /\ row' = row /\ entered' = entered
    BY <1>2 DEF livars
  <2>2. LInv'
    BY <2>1 DEF LInv, IsLine
  <2>3. UNCHANGED L!lvars
    BY <2>1 DEF L!lvars, Visible, Length
  <2> QED BY <2>2, <2>3
<1> QED BY <1>1, <1>2

(* getstr edits a line: in an array of any size every key has its effect   *)
(* on the characters before and after the cursor and on no others, the     *)
(* screen shows the line and nothing left of longer ones, and what return  *)
(* hands on is the line shown.                                             *)
THEOREM LineImplemented == LineSpec => ImplementsLine
<1>1. LineInit => LInv /\ L!Init
  BY LineStarts
<1>2. LInv /\ [LineNext]_livars => LInv' /\ [L!Next]_L!lvars
  BY LineStep
<1> QED BY <1>1, <1>2, PTL DEF LineSpec, ImplementsLine, L!Spec
=============================================================================
