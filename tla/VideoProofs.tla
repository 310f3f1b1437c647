---------------------------- MODULE VideoProofs -----------------------------
(***************************************************************************)
(* Proofs about the console.  An access to video memory reaches the bank   *)
(* of its pixel, though the interrupt selects banks of its own (Banked,    *)
(* AccessInBankAlways).  And between calls the picture is what the last    *)
(* one has left, though the cursor blinks over it: what a call has still   *)
(* to do has a certain form (Form), and the pixels saved under the cursor  *)
(* are those below it, or what is still to be done will make them so       *)
(* (Content, CursorLeavesNoTraceAlways).                                   *)
(*                                                                         *)
(* An operation of the call in progress gives way to others, or to none,   *)
(* and those behind it stay (Spliced).  Each step keeps each part of the   *)
(* invariant for the operations that stay; what is particular to a step    *)
(* is what it puts in their place and the pixels and variables it          *)
(* changes.                                                                *)
(***************************************************************************)
EXTENDS Video, DataLemmas

-----------------------------------------------------------------------------
(* What a call has still to do: an access that has been compared with      *)
(* current_bank, behind the selection of its bank if that is needed, and   *)
(* operations that are no accesses.                                        *)
PlainOps == {"set", "put", "paste", "save", "copy", "hide", "hidden", "show", "shown", "window",
             "scroll", "goto", "place", "fast", "glyph", "after", "clear", "draw", "serve", "mode"}
Accesses == {"store", "load", "fetch"}
IsOp(o)   == o = Op(o.op, o.x, o.y, o.c)
Plain(o)  == IsOp(o) /\ o.op \in PlainOps
Plains(s) == IsSeq(s) /\ \A k \in 1 .. Len(s) : Plain(s[k])

Reaches(o, b, w) == o.op \in Accesses /\ BankOf(Addr(o.x, o.y, w)) = b
Led(op, n) == CASE op = "select" -> n = 3
                [] op = "record" -> n = 2
                [] op \in Accesses -> n = 1
                [] OTHER -> n = 0

(* The operations of t, with bank b selected and the window at w: the      *)
(* first n lead to an access.                                              *)
Leads(t, n, b, w) ==
  /\ Led(t[1].op, n) /\ n <= Len(t)
  /\ \A k \in n + 1 .. Len(t) : Plain(t[k])
  /\ n = 3 => t[2].op = "record" /\ t[2].c = t[1].c /\ Reaches(t[3], t[1].c, w)
  /\ n = 2 => Reaches(t[2], t[1].c, w) /\ b = t[1].c
  /\ n = 1 => Reaches(t[1], b, w)
Order(t, b, w) ==
  /\ IsSeq(t) /\ \A k \in 1 .. Len(t) : IsOp(t[k])
  /\ t # <<>> => \E n \in 0 .. 3 : Leads(t, n, b, w)

(* The BIOS has selected bank 0, which current_bank has not learnt, and    *)
(* the first access that follows is one to bank 0.                         *)
Fresh ==
  /\ bank = 0 /\ cursor.x = 0 /\ cursor.y = 0 /\ video_window_y = 0
  /\ todo # <<>>
  /\ \/ todo[1].op = "save" /\ todo[1].x = 0
     \/ todo[1].op = "select" /\ todo[1].c = 0

Known  == todo # <<>> /\ todo[1].op = "record"
Shaped == DOMAIN cursor = {"col", "row", "shown", "x", "y", "blink", "buff"}
Banked ==
  /\ Order(todo, bank, video_window_y)
  /\ Shaped
  /\ bank = current_bank \/ Known \/ Fresh

LEMMA PlainsConcat ==
  ASSUME NEW s, Plains(s), NEW t, Plains(t)
  PROVE  Plains(s \o t)
<1>1. /\ IsSeq(s \o t) /\ Len(s \o t) = Len(s) + Len(t)
      /\ \A k \in 1 .. Len(s) + Len(t) : (s \o t)[k] = IF k <= Len(s) THEN s[k] ELSE t[k - Len(s)]
  BY SeqConcat DEF Plains
<1>2. Len(s) \in Nat /\ Len(t) \in Nat
  BY SeqLen DEF Plains
<1>3. ASSUME NEW k \in 1 .. Len(s \o t)
      PROVE  Plain((s \o t)[k])
  <2>1. CASE k <= Len(s)
    BY <1>1, <1>2, <2>1 DEF Plains
  <2>2. CASE ~(k <= Len(s))
    <3>1. k - Len(s) \in 1 .. Len(t)
      BY <1>1, <1>2, <2>2
    <3> QED BY <1>1, <1>2, <2>2, <3>1 DEF Plains
  <2> QED BY <2>1, <2>2
<1> QED BY <1>1, <1>3 DEF Plains

LEMMA PlainsOne ==
  ASSUME NEW o, Plain(o)
  PROVE  Plains(<<o>>) /\ Plains(<<>>)
<1>1. <<o>> \in Seq({o}) /\ <<>> \in Seq({o}) /\ Len(<<>>) = 0 /\ Len(<<o>>) = 1 /\ <<o>>[1] = o
  OBVIOUS
<1>2. IsSeq(<<o>>) /\ IsSeq(<<>>)
  BY <1>1, SeqOver
<1> QED BY <1>1, <1>2 DEF Plains

LEMMA PlainsTwo ==
  ASSUME NEW a, Plain(a), NEW b, Plain(b)
  PROVE  Plains(<<a, b>>)
<1>1. <<a, b>> \in Seq({a, b}) /\ Len(<<a, b>>) = 2 /\ <<a, b>>[1] = a /\ <<a, b>>[2] = b
  OBVIOUS
<1>2. IsSeq(<<a, b>>)
  BY <1>1, SeqOver
<1> QED BY <1>1, <1>2 DEF Plains

(* A run of accesses, or of pixels, to be made.                            *)
LEMMA PlainsFun ==
  ASSUME NEW n \in Nat, NEW f, f = [k \in 1 .. n |-> f[k]], \A k \in 1 .. n : Plain(f[k])
  PROVE  Plains(f)
BY SeqFun DEF Plains

LEMMA Sizes ==
  /\ WIDTH \in Nat \ {0} /\ HEIGHT \in Nat \ {0} /\ BAR \in Nat \ {0}
  /\ FNT_W \in Nat \ {0} /\ FONT_H \in Nat \ {0} /\ HEIGHT - FONT_H \in Nat
  /\ FNT_W * FONT_H \in Nat /\ WIDTH * HEIGHT \in Nat /\ FONT_H * WIDTH \in Nat
  /\ (2 * WIDTH) * (HEIGHT - FONT_H) \in Nat
<1>1. COLS \in Nat \ {0} /\ ROWS \in Nat \ {0} /\ FONT_H \in Nat \ {0} /\ FNT_W \in Nat \ {0} /\ FNT_W >= 3
  BY ScreenAssumption
<1>2. COLS * FNT_W \in Nat \ {0} /\ ROWS * FONT_H \in Nat \ {0}
  BY <1>1
<1>3. ROWS * FONT_H >= FONT_H
  BY <1>1
<1>4. WIDTH \in Nat \ {0} /\ HEIGHT \in Nat \ {0} /\ HEIGHT - FONT_H \in Nat /\ BAR \in Nat \ {0}
  BY <1>1, <1>2, <1>3 DEF WIDTH, HEIGHT, BAR
<1> QED BY <1>1, <1>4

LEMMA PlainOp ==
  ASSUME NEW op \in PlainOps, NEW x, NEW y, NEW c
  PROVE  Plain(Op(op, x, y, c))
BY DEF Plain, IsOp, Op

LEMMA PlainPut ==
  ASSUME NEW x, NEW y, NEW c
  PROVE  Plain(Put(x, y, c))
BY PlainOp DEF Put, PlainOps

LEMMA PlainDo ==
  ASSUME NEW op \in PlainOps
  PROVE  Plain(Do(op))
BY PlainOp DEF Do

LEMMA PlainBar ==
  ASSUME NEW op \in {"save", "put"}
  PROVE  Plains(Bar(op)) /\ Len(Bar(op)) = BAR /\ Bar(op)[1] = Op(op, 0, 0, 0)
<1> DEFINE f == [i \in 1 .. BAR |-> Op(op, i - 1, 0, 0)]
<1>1. \A k \in 1 .. BAR : Plain(f[k])
  BY PlainOp DEF PlainOps
<1>2. f = [k \in 1 .. BAR |-> f[k]] /\ f[1] = Op(op, 1 - 1, 0, 0)
  BY Sizes
<1> HIDE DEF f
<1>3. Plains(f) /\ Len(f) = BAR
  BY <1>1, <1>2, Sizes, PlainsFun, SeqFun
<1>4. Bar(op) = f /\ 1 - 1 = 0
  BY DEF f, Bar
<1> QED BY <1>2, <1>3, <1>4

LEMMA PlainChar ==
  ASSUME NEW x, NEW y, NEW c
  PROVE  Plains(video_draw_char(x, y, c))
<1> DEFINE f == video_draw_char(x, y, c)
           n == FNT_W * FONT_H
<1>1. f = [k \in 1 .. n |-> f[k]] /\ \A k \in 1 .. n : Plain(f[k])
  BY PlainPut DEF video_draw_char, Area
<1> HIDE DEF f
<1> QED BY <1>1, Sizes, PlainsFun DEF f

LEMMA PlainReset ==
  ASSUME NEW v
  PROVE  Plains(ResetWindow(v))
<1> DEFINE n == (2 * WIDTH) * (HEIGHT - FONT_H)
           w == 2 * WIDTH
           f == [k \in 1 .. n |-> CopyLine((k - 1) % w, FONT_H + ((k - 1) \div w), v)]
<1>1. f = [k \in 1 .. n |-> f[k]] /\ \A k \in 1 .. n : Plain(f[k])
  BY PlainOp DEF CopyLine, PlainOps
<1>2. ResetWindow(v) = <<Op("window", 0, 0, 0)>> \o f
  BY DEF ResetWindow, Area
<1> HIDE DEF f
<1>3. Plains(f)
  BY <1>1, Sizes, PlainsFun
<1>4. Plains(<<Op("window", 0, 0, 0)>>)
  BY PlainOp, PlainsOne DEF PlainOps
<1> QED BY <1>2, <1>3, <1>4, PlainsConcat

LEMMA PlainAfter ==
  ASSUME NEW c
  PROVE  Plains(update_cursor_after_char(c))
<1> DEFINE n == FONT_H * WIDTH
           f == [k \in 1 .. n |-> Put((k - 1) \div FONT_H, HEIGHT + ((k - 1) % FONT_H), BACK)]
           next == NextPlace(c)
           reset == IF video_window_y > 2 * HEIGHT THEN ResetWindow(video_window_y) ELSE <<>>
           fast == <<Op("fast", next[1], next[2], 0)>>
           last == <<Do("scroll"), Op("fast", 0, ROWS - 1, 0)>>
<1>1. f = [k \in 1 .. n |-> f[k]] /\ \A k \in 1 .. n : Plain(f[k])
  BY PlainPut
<1>2. update_cursor_after_char(c) = IF next[2] <= ROWS - 1 THEN fast ELSE reset \o f \o last
  BY DEF update_cursor_after_char, Area
<1> HIDE DEF f
<1>3. Plains(f)
  BY <1>1, Sizes, PlainsFun
<1>4. Plains(fast) /\ Plains(<<>>)
  BY PlainOp, PlainsOne DEF PlainOps
<1>5. Plains(reset)
  BY <1>4, PlainReset
<1>6. Plains(last)
  <2> DEFINE a == Do("scroll")
             b == Op("fast", 0, ROWS - 1, 0)
  <2>1. Plain(a) /\ Plain(b)
    BY PlainOp, PlainDo DEF PlainOps
  <2> QED BY <2>1, PlainsTwo
<1> HIDE DEF reset, last, fast
<1>7. Plains(reset \o f) /\ Plains((reset \o f) \o last)
  BY <1>3, <1>5, <1>6, PlainsConcat
<1> QED BY <1>2, <1>4, <1>7

LEMMA PlainClear == Plains(video_clear_screen)
<1> DEFINE n == WIDTH * HEIGHT
           f == [k \in 1 .. n |-> Put((k - 1) % WIDTH, (k - 1) \div WIDTH, BACK)]
           a == Do("hide")
           b == Op("window", 0, 0, 0)
           goto == <<Op("goto", 0, 0, 0)>>
           show == IF cursor.shown THEN <<Do("show")>> ELSE <<>>
<1>1. f = [k \in 1 .. n |-> f[k]] /\ \A k \in 1 .. n : Plain(f[k])
  BY PlainPut
<1>2. video_clear_screen = <<a, b>> \o f \o goto \o show
  BY DEF video_clear_screen, Area
<1> HIDE DEF f
<1>3. Plains(f)
  BY <1>1, Sizes, PlainsFun
<1>4. Plains(goto) /\ Plains(show)
  BY PlainOp, PlainDo, PlainsOne DEF PlainOps
<1>5. Plain(a) /\ Plain(b)
  BY PlainOp, PlainDo DEF PlainOps
<1> HIDE DEF a, b, goto, show
<1>7. Plains(<<a, b>>)
  BY <1>5, PlainsTwo
<1>8. Plains(<<a, b>> \o f) /\ Plains(<<a, b>> \o f \o goto)
  BY <1>3, <1>4, <1>7, PlainsConcat
<1> QED BY <1>2, <1>4, <1>8, PlainsConcat

-----------------------------------------------------------------------------
(* Sequences of operations.                                                *)
LEMMA OrderPlain ==
  ASSUME NEW t, Plains(t), NEW b, NEW w
  PROVE  Order(t, b, w)
<1>1. IsSeq(t) /\ \A k \in 1 .. Len(t) : IsOp(t[k])
  BY DEF Plains, Plain
<1>2. ASSUME t # <<>>
      PROVE  \E n \in 0 .. 3 : Leads(t, n, b, w)
  <2>1. Len(t) \in Nat /\ Len(t) >= 1
    BY <1>2, SeqLen, SeqTail DEF Plains
  <2>2. t[1].op \in PlainOps
    BY <2>1 DEF Plains, Plain
  <2>3. Led(t[1].op, 0)
    BY <2>2 DEF PlainOps, Accesses, Led
  <2>4. 0 <= Len(t) /\ \A k \in 0 + 1 .. Len(t) : Plain(t[k])
    BY <2>1 DEF Plains
  <2>5. Leads(t, 0, b, w)
    BY <2>3, <2>4 DEF Leads
  <2> QED BY <2>5
<1> QED BY <1>1, <1>2 DEF Order

LEMMA OrderOne ==
  ASSUME NEW w, NEW r, Plains(r), NEW op \in Accesses, NEW x, NEW y, NEW c
  PROVE  LET t == <<Op(op, x, y, c)>> \o r
         IN  /\ Order(t, BankOf(Addr(x, y, w)), w)
             /\ t # <<>> /\ t[1].op = op
<1> DEFINE o == Op(op, x, y, c)
           b == BankOf(Addr(x, y, w))
           l == <<o>>
           t == l \o r
<1>1. IsOp(o) /\ o.op = op /\ Reaches(o, b, w)
  BY DEF IsOp, Op, Reaches
<1>2. l \in Seq({o}) /\ Len(l) = 1 /\ l[1] = o
  OBVIOUS
<1> HIDE DEF o, b, l
<1>3. IsSeq(l)
  BY <1>2, SeqOver
<1>4. IsSeq(r) /\ Len(r) \in Nat
  BY SeqLen DEF Plains
<1>5. /\ IsSeq(t) /\ Len(t) = 1 + Len(r)
      /\ \A k \in 1 .. 1 + Len(r) : t[k] = IF k <= 1 THEN l[k] ELSE r[k - 1]
  BY <1>2, <1>3, <1>4, SeqConcat, ZenonT(30)
<1> HIDE DEF t
<1>6. t[1] = o /\ t # <<>>
  <2>1. t[1] = o
    BY <1>2, <1>4, <1>5
  <2> QED BY <1>4, <1>5, <2>1
<1>7. \A k \in 1 + 1 .. Len(t) : Plain(t[k])
  <2> TAKE k \in 1 + 1 .. Len(t)
  <2>1. k - 1 \in 1 .. Len(r) /\ t[k] = r[k - 1]
    BY <1>4, <1>5
  <2> QED BY <2>1 DEF Plains
<1>8. \A k \in 1 .. Len(t) : IsOp(t[k])
  <2> TAKE k \in 1 .. Len(t)
  <2>1. k = 1 \/ k \in 1 + 1 .. Len(t)
    BY <1>4, <1>5
  <2> QED BY <1>1, <1>6, <1>7, <2>1 DEF Plain
<1>9. Leads(t, 1, b, w)
  <2>1. 1 <= Len(t)
    BY <1>4, <1>5
  <2>2. Led(t[1].op, 1)
    BY <1>1, <1>6 DEF Led, Accesses
  <2> QED BY <1>1, <1>6, <1>7, <2>1, <2>2 DEF Leads
<1>10. Order(t, b, w)
  BY <1>5, <1>8, <1>9 DEF Order
<1> QED BY <1>1, <1>6, <1>10 DEF t, o, b, l

LEMMA OrderThree ==
  ASSUME NEW w, NEW z, NEW r, Plains(r), NEW op \in Accesses, NEW x, NEW y, NEW c
  PROVE  LET b == BankOf(Addr(x, y, w))
             t == <<Op("select", 0, 0, b), Op("record", 0, 0, b), Op(op, x, y, c)>> \o r
         IN  /\ Order(t, z, w)
             /\ t # <<>> /\ t[1].op = "select" /\ t[1].c = b
<1> DEFINE o == Op(op, x, y, c)
           b == BankOf(Addr(x, y, w))
           s == Op("select", 0, 0, b)
           m == Op("record", 0, 0, b)
           l == <<s, m, o>>
           t == l \o r
<1>1. /\ IsOp(o) /\ o.op = op /\ Reaches(o, b, w)
      /\ IsOp(s) /\ s.op = "select" /\ s.c = b
      /\ IsOp(m) /\ m.op = "record" /\ m.c = b
  BY DEF IsOp, Op, Reaches
<1> HIDE DEF o, b, s, m
<1>2. l \in Seq({s, m, o}) /\ Len(l) = 3 /\ l[1] = s /\ l[2] = m /\ l[3] = o
  OBVIOUS
<1> HIDE DEF l
<1>3. IsSeq(l)
  BY <1>2, SeqOver
<1>4. IsSeq(r) /\ Len(r) \in Nat
  BY SeqLen DEF Plains
<1>5. /\ IsSeq(t) /\ Len(t) = 3 + Len(r)
      /\ \A k \in 1 .. 3 + Len(r) : t[k] = IF k <= 3 THEN l[k] ELSE r[k - 3]
  <2>1. /\ IsSeq(t) /\ Len(t) = Len(l) + Len(r)
        /\ \A k \in 1 .. Len(l) + Len(r) : t[k] = IF k <= Len(l) THEN l[k] ELSE r[k - Len(l)]
    BY <1>3, <1>4, SeqConcat
  <2> QED BY <1>2, <2>1
<1> HIDE DEF t
<1>6. t[1] = s /\ t[2] = m /\ t[3] = o /\ t # <<>>
  <2>1. t[1] = s /\ t[2] = m /\ t[3] = o
    BY <1>2, <1>4, <1>5
  <2> QED BY <1>4, <1>5, <2>1
<1>7. \A k \in 3 + 1 .. Len(t) : Plain(t[k])
  <2> TAKE k \in 3 + 1 .. Len(t)
  <2>1. k - 3 \in 1 .. Len(r) /\ t[k] = r[k - 3]
    BY <1>4, <1>5
  <2> QED BY <2>1 DEF Plains
<1>8. \A k \in 1 .. Len(t) : IsOp(t[k])
  <2> TAKE k \in 1 .. Len(t)
  <2>1. k = 1 \/ k = 2 \/ k = 3 \/ k \in 3 + 1 .. Len(t)
    BY <1>4, <1>5
  <2> QED BY <1>1, <1>6, <1>7, <2>1 DEF Plain
<1>9. Leads(t, 3, z, w)
  <2>1. 3 <= Len(t)
    BY <1>4, <1>5
  <2>2. Led(t[1].op, 3)
    BY <1>1, <1>6 DEF Led, Accesses
  <2> QED BY <1>1, <1>6, <1>7, <2>1, <2>2 DEF Leads
<1>10. Order(t, z, w)
  BY <1>5, <1>8, <1>9 DEF Order
<1> QED BY <1>1, <1>6, <1>10 DEF t, o, b, l, s, m

LEMMA OrderTail ==
  ASSUME NEW t, NEW b, NEW w, Order(t, b, w), t # <<>>
  PROVE  /\ t[1].op \in PlainOps \cup Accesses => Plains(Tail(t))
         /\ t[1].op \in Accesses => Reaches(t[1], b, w)
         /\ t[1].op = "select" =>
              /\ Order(Tail(t), t[1].c, w) /\ Tail(t) # <<>>
              /\ Tail(t)[1].op = "record"
         /\ t[1].op = "record" => Order(Tail(t), b, w) /\ b = t[1].c
         /\ Head(t) = t[1] /\ IsOp(t[1])
         /\ t[1].op \in PlainOps \cup Accesses \cup {"select", "record"}
<1> DEFINE r == Tail(t)
<1>1. PICK n \in 0 .. 3 : Leads(t, n, b, w)
  BY DEF Order
<1>2. IsSeq(t) /\ \A k \in 1 .. Len(t) : IsOp(t[k])
  BY DEF Order
<1>3. Len(t) \in Nat
  BY <1>2, SeqLen
<1>4. /\ IsSeq(r) /\ Len(r) = Len(t) - 1 /\ Head(t) = t[1] /\ Len(t) >= 1
      /\ \A k \in 1 .. Len(t) - 1 : r[k] = t[k + 1]
  BY <1>2, SeqTail
<1> HIDE DEF r
<1>5. \A k \in 1 .. Len(r) : IsOp(r[k])
  <2> TAKE k \in 1 .. Len(r)
  <2>1. k + 1 \in 1 .. Len(t) /\ k \in 1 .. Len(t) - 1
    BY <1>3, <1>4
  <2> QED BY <1>2, <1>4, <2>1
<1>6. ASSUME NEW k \in 1 .. Len(r), k >= n
      PROVE  Plain(r[k])
  <2>1. k + 1 \in n + 1 .. Len(t) /\ k \in 1 .. Len(t) - 1
    BY <1>3, <1>4, <1>6
  <2> QED BY <1>1, <1>4, <2>1 DEF Leads
<1>7. ASSUME t[1].op \in PlainOps \cup Accesses
      PROVE  Plains(r)
  <2>1. n <= 1
    BY <1>1, <1>7 DEF Leads, Led, PlainOps, Accesses
  <2>2. \A k \in 1 .. Len(r) : Plain(r[k])
    BY <1>6, <2>1
  <2> QED BY <1>4, <2>2 DEF Plains
<1>8. ASSUME t[1].op \in Accesses
      PROVE  Reaches(t[1], b, w)
  <2>1. n = 1
    BY <1>1, <1>8 DEF Leads, Led, Accesses
  <2> QED BY <1>1, <2>1 DEF Leads
<1>9. ASSUME t[1].op = "select"
      PROVE  Order(r, t[1].c, w) /\ r # <<>> /\ r[1].op = "record"
  <2>1. n = 3
    BY <1>1, <1>9 DEF Leads, Led, Accesses
  <2>2. Len(t) >= 3 /\ t[2].op = "record" /\ t[2].c = t[1].c /\ Reaches(t[3], t[1].c, w)
    BY <1>1, <2>1 DEF Leads
  <2>3. r[1] = t[2] /\ r[2] = t[3] /\ Len(r) >= 2
    BY <1>3, <1>4, <2>2
  <2>4. r # <<>>
    BY <1>4, <2>3
  <2>5. \A k \in 2 + 1 .. Len(r) : Plain(r[k])
    BY <1>6, <2>1
  <2>6. Led(r[1].op, 2)
    BY <2>2, <2>3 DEF Led, Accesses
  <2>7. Leads(r, 2, t[1].c, w)
    BY <2>2, <2>3, <2>5, <2>6 DEF Leads
  <2> QED BY <1>4, <1>5, <2>2, <2>3, <2>4, <2>7 DEF Order
<1>10. ASSUME t[1].op = "record"
       PROVE  Order(r, b, w) /\ b = t[1].c
  <2>1. n = 2
    BY <1>1, <1>10 DEF Leads, Led, Accesses
  <2>2. Len(t) >= 2 /\ Reaches(t[2], t[1].c, w) /\ b = t[1].c
    BY <1>1, <2>1 DEF Leads
  <2>3. r[1] = t[2] /\ Len(r) >= 1
    BY <1>3, <1>4, <2>2
  <2>4. \A k \in 1 + 1 .. Len(r) : Plain(r[k])
    BY <1>6, <2>1
  <2>5. Led(r[1].op, 1)
    BY <2>2, <2>3 DEF Led, Reaches, Accesses
  <2>6. Leads(r, 1, b, w)
    BY <2>2, <2>3, <2>4, <2>5 DEF Leads
  <2> QED BY <1>4, <1>5, <2>2, <2>6 DEF Order
<1>11. t[1].op \in PlainOps \cup Accesses \cup {"select", "record"}
  <2>1. CASE n = 0
    <3>1. Plain(t[1])
      BY <1>1, <1>3, <1>4, <2>1 DEF Leads
    <3> QED BY <3>1 DEF Plain
  <2>2. CASE n # 0
    BY <1>1, <2>2 DEF Leads, Led
  <2> QED BY <2>1, <2>2
<1>12. IsOp(t[1])
  BY <1>2, <1>3, <1>4
<1> QED BY <1>4, <1>7, <1>8, <1>9, <1>10, <1>11, <1>12 DEF r

-----------------------------------------------------------------------------
(* The steps of a call.                                                    *)

(* What is known of an operation that is no access.                        *)
LEMMA AtPlain ==
  ASSUME Banked, NEW op \in PlainOps, Now(op)
  PROVE  /\ Plains(Rest) /\ IsOp(Arg) /\ Arg.op = op
         /\ bank = current_bank \/ Fresh
         /\ Fresh => op = "save" /\ Arg.x = 0
<1>1. Order(todo, bank, video_window_y) /\ todo # <<>>
  BY DEF Banked, Now
<1>2. Head(todo) = todo[1] /\ IsOp(todo[1])
  BY <1>1, OrderTail
<1>3. todo[1].op = op
  BY <1>2 DEF Now
<1>4. Plains(Tail(todo))
  BY <1>1, <1>3, OrderTail
<1>5. op # "record" /\ op # "select"
  BY DEF PlainOps
<1> QED BY <1>2, <1>3, <1>4, <1>5 DEF Banked, Known, Fresh, Rest, Arg

LEMMA PlainNext ==
  ASSUME Plains(todo'), Shaped', bank' = current_bank' \/ Fresh'
  PROVE  Banked'
BY OrderPlain DEF Banked

(* An access is compared with current_bank, and its bank selected.         *)
LEMMA SelectNext ==
  ASSUME Banked, NEW now \in PlainOps, Now(now),
         NEW op \in Accesses, NEW x, NEW y, NEW c,
         todo' = Selected(Addr(x, y, video_window_y), Op(op, x, y, c)) \o Rest,
         UNCHANGED <<bank, current_bank, video_window_y>>, Shaped',
         cursor'.x = cursor.x, cursor'.y = cursor.y,
         Fresh => BankOf(Addr(x, y, video_window_y)) = 0
  PROVE  Banked'
<1> DEFINE o == Op(op, x, y, c)
           b == BankOf(Addr(x, y, video_window_y))
           s == Op("select", 0, 0, b)
           r == Op("record", 0, 0, b)
<1>1. Plains(Rest) /\ (bank = current_bank \/ Fresh)
  BY AtPlain
<1>2. CASE b # current_bank
  <2>1. todo' = <<s, r, o>> \o Rest
    BY <1>2 DEF Selected
  <2>2. Order(todo', bank', video_window_y) /\ todo' # <<>> /\ todo'[1].op = "select" /\ todo'[1].c = b
    BY <1>1, <2>1, OrderThree
  <2>3. Fresh => Fresh'
    BY <2>2 DEF Fresh
  <2> QED BY <1>1, <2>2, <2>3 DEF Banked
<1>3. CASE b = current_bank
  <2>1. todo' = <<o>> \o Rest
    BY <1>3 DEF Selected
  <2>2. Order(todo', b, video_window_y)
    BY <1>1, <2>1, OrderOne
  <2>3. bank' = b /\ bank' = current_bank'
    BY <1>1, <1>3 DEF Fresh
  <2> QED BY <2>2, <2>3 DEF Banked
<1> QED BY <1>2, <1>3

LEMMA SetPixelBanked ==
  ASSUME Banked, SetPixel
  PROVE  Banked'
<1>1. ASSUME NEW now \in {"set", "put", "paste"}, Now(now), NEW x, NEW y, NEW c, SetTo(x, y, c)
      PROVE  Banked'
  <2>1. now \in PlainOps /\ now # "save"
    BY DEF PlainOps
  <2>2. ~Fresh
    BY <1>1, <2>1, AtPlain
  <2>3. todo' = Selected(Addr(x, y, video_window_y), Op("store", x, y, c)) \o Rest
    BY <1>1 DEF SetTo, Continue
  <2>4. /\ UNCHANGED <<bank, current_bank, video_window_y>>
        /\ cursor' = [cursor EXCEPT !.buff = Saved(x, y, c)]
    BY <1>1 DEF SetTo
  <2>5. Shaped' /\ cursor'.x = cursor.x /\ cursor'.y = cursor.y
    BY <2>4 DEF Banked, Shaped
  <2>6. "store" \in Accesses
    BY DEF Accesses
  <2> QED BY <1>1, <2>1, <2>2, <2>3, <2>4, <2>5, <2>6, SelectNext
<1> QED BY <1>1 DEF SetPixel

LEMMA FirstBank == BankOf(Addr(0, 0, 0)) = 0
<1>1. WIDTH * (0 + 0) = 0 /\ BANK \in Nat \ {0}
  BY Sizes, BankAssumption
<1>2. 0 \div BANK = 0
  BY <1>1
<1> QED BY <1>1, <1>2 DEF BankOf, Addr

LEMMA GetPixelBanked ==
  ASSUME Banked, GetPixel
  PROVE  Banked'
<1>1. UNCHANGED <<bank, current_bank, video_window_y, cursor>> /\ Shaped'
  BY DEF GetPixel, Banked, Shaped
<1>2. "load" \in Accesses /\ "fetch" \in Accesses /\ "save" \in PlainOps /\ "copy" \in PlainOps
  BY DEF Accesses, PlainOps
<1>3. CASE Now("save")
  <2>1. ~Now("copy")
    BY <1>3 DEF Now
  <2>2. todo' = Fetch("load", cursor.x + Arg.x, cursor.y, Arg.x) \o Rest
    BY <2>1 DEF GetPixel, Continue
  <2>3. Fresh => BankOf(Addr(cursor.x + Arg.x, cursor.y, video_window_y)) = 0
    <3> SUFFICES ASSUME Fresh
                 PROVE  BankOf(Addr(cursor.x + Arg.x, cursor.y, video_window_y)) = 0
      OBVIOUS
    <3>1. Arg.x = 0 /\ cursor.x = 0 /\ cursor.y = 0 /\ video_window_y = 0
      BY <1>2, <1>3, AtPlain DEF Fresh
    <3>2. cursor.x + Arg.x = 0
      BY <3>1
    <3> QED BY <3>1, <3>2, FirstBank
  <2> QED BY <1>1, <1>2, <1>3, <2>2, <2>3, SelectNext DEF Fetch
<1>4. CASE Now("copy")
  <2>1. ~Now("save")
    BY <1>4 DEF Now
  <2>2. Plains(Rest) /\ bank = current_bank /\ ~Fresh
    BY <1>2, <1>4, AtPlain
  <2>3. CASE todo' = Rest
    BY <1>1, <2>2, <2>3, PlainNext
  <2>4. CASE todo' = Fetch("fetch", Arg.x, Arg.y, Arg.x) \o Rest
    BY <1>1, <1>2, <1>4, <2>2, <2>4, SelectNext DEF Fetch
  <2> QED BY <2>1, <2>3, <2>4 DEF GetPixel, Continue
<1> QED BY <1>3, <1>4 DEF GetPixel

LEMMA SelectBankBanked ==
  ASSUME Banked, SelectBank
  PROVE  Banked'
<1>1. /\ Order(todo, bank, video_window_y) /\ todo # <<>> /\ Arg = todo[1]
      /\ todo' = Tail(todo) /\ UNCHANGED <<video_window_y, cursor>> /\ Shaped'
  <2>1. Order(todo, bank, video_window_y) /\ todo # <<>>
    BY DEF Banked, SelectBank, Now
  <2> QED BY <2>1, OrderTail DEF Banked, Shaped, SelectBank, Continue, Rest, Arg
<1>2. CASE Now("select")
  <2>1. todo[1].op = "select" /\ bank' = todo[1].c
    BY <1>1, <1>2 DEF Now, SelectBank, Arg
  <2>2. Order(todo', bank', video_window_y) /\ todo' # <<>> /\ todo'[1].op = "record"
    BY <1>1, <2>1, OrderTail
  <2> QED BY <1>1, <2>2 DEF Banked, Known
<1>3. CASE Now("record")
  <2>1. todo[1].op = "record" /\ bank' = bank /\ current_bank' = todo[1].c
    BY <1>1, <1>3 DEF Now, SelectBank, Arg
  <2>2. Order(todo', bank', video_window_y) /\ bank' = current_bank'
    BY <1>1, <2>1, OrderTail
  <2> QED BY <1>1, <2>2 DEF Banked
<1> QED BY <1>2, <1>3 DEF SelectBank

LEMMA AccessBanked ==
  ASSUME Banked, Access
  PROVE  Banked'
<1>1. /\ UNCHANGED <<bank, current_bank, video_window_y>> /\ Shaped' /\ todo' = Tail(todo)
  BY DEF Access, Continue, Rest, Banked, Shaped
<1>2. todo # <<>> /\ Head(todo).op \in Accesses
  BY DEF Access, Now, Accesses
<1>3. Order(todo, bank, video_window_y)
  BY DEF Banked
<1>4. todo[1].op \in Accesses
  BY <1>2, <1>3, OrderTail
<1>5. Plains(todo')
  BY <1>1, <1>2, <1>3, <1>4, OrderTail
<1>6. ~Known /\ ~Fresh
  BY <1>4 DEF Known, Fresh, Accesses
<1> QED BY <1>1, <1>5, <1>6, PlainNext DEF Banked

(* A step that is no access, and leaves banks and cursor as they are or    *)
(* moves the cursor.                                                       *)
LEMMA OtherNext ==
  ASSUME Banked, NEW now \in PlainOps \ {"save"}, Now(now), NEW ops, Plains(ops),
         todo' = ops \o Rest, Shaped', UNCHANGED <<bank, current_bank>>
  PROVE  Banked'
<1>1. Plains(Rest) /\ bank = current_bank
  BY AtPlain
<1>2. Plains(todo')
  BY <1>1, PlainsConcat
<1> QED BY <1>1, <1>2, PlainNext

LEMMA RestNext ==
  ASSUME Banked, NEW now \in PlainOps \ {"save"}, Now(now),
         todo' = Rest, Shaped', UNCHANGED <<bank, current_bank>>
  PROVE  Banked'
BY AtPlain, PlainNext

LEMMA MoveWindowBanked ==
  ASSUME Banked, MoveWindow
  PROVE  Banked'
<1>1. UNCHANGED <<bank, current_bank, cursor>> /\ Shaped' /\ todo' = Rest
  BY DEF MoveWindow, Continue, Banked, Shaped
<1>2. PICK now \in {"window", "scroll"} : Now(now)
  BY DEF MoveWindow
<1>3. now \in PlainOps \ {"save"}
  BY DEF PlainOps
<1> QED BY <1>1, <1>2, <1>3, RestNext

LEMMA ExpandBanked ==
  ASSUME Banked, Expand
  PROVE  Banked'
<1>1. UNCHANGED <<bank, current_bank, cursor>> /\ Shaped'
  BY DEF Expand, Banked, Shaped
<1>2. PICK now \in {"glyph", "after", "clear"} : Now(now)
  BY DEF Expand
<1>3. now \in PlainOps \ {"save"}
  BY DEF PlainOps
<1>4. PICK ops : Plains(ops) /\ todo' = ops \o Rest
  <2> DEFINE g == video_draw_char(cursor.col * FNT_W, cursor.row * FONT_H, Arg.c)
             a == update_cursor_after_char(Arg.c)
             c == video_clear_screen
  <2>1. todo' = g \o Rest \/ todo' = a \o Rest \/ todo' = c \o Rest
    BY DEF Expand, Continue
  <2>2. Plains(g) /\ Plains(a) /\ Plains(c)
    BY PlainChar, PlainAfter, PlainClear
  <2> HIDE DEF g, a, c
  <2> QED BY <2>1, <2>2
<1> QED BY <1>1, <1>2, <1>3, <1>4, OtherNext

LEMMA DrawCharBanked ==
  ASSUME Banked, draw_char
  PROVE  Banked'
<1>1. UNCHANGED <<bank, current_bank, cursor>> /\ Shaped'
  BY DEF draw_char, Banked, Shaped
<1>2. PICK now \in {"draw", "serve"} : Now(now)
  BY DEF draw_char
<1>3. now \in PlainOps \ {"save"} /\ "draw" \in PlainOps /\ "serve" \in PlainOps
  BY DEF PlainOps
<1>4. PICK op \in {"draw", "serve"} : todo' = <<[Arg EXCEPT !.op = op]>> \o Rest
  BY DEF draw_char, Continue
<1> DEFINE o == [Arg EXCEPT !.op = op]
<1>5. IsOp(Arg)
  BY <1>2, <1>3, AtPlain
<1>6. o = Op(op, Arg.x, Arg.y, Arg.c)
  BY <1>5 DEF IsOp, Op
<1>7. Plain(o)
  BY <1>3, <1>6, PlainOp
<1>8. Plains(<<o>>)
  BY <1>7, PlainsOne
<1> QED BY <1>1, <1>2, <1>3, <1>4, <1>8, OtherNext

LEMMA MoveCursorBanked ==
  ASSUME Banked, MoveCursor
  PROVE  Banked'
<1>1. UNCHANGED <<bank, current_bank>>
  BY DEF MoveCursor
<1>2. PICK now \in {"place", "fast", "goto"} : Now(now)
  BY DEF MoveCursor
<1>3. now \in PlainOps \ {"save"} /\ "place" \in PlainOps
  BY DEF PlainOps
<1>4. Shaped'
  BY DEF MoveCursor, Placed, Banked, Shaped
<1> DEFINE place == <<Op("place", Arg.x, Arg.y, 0)>>
<1>5. Plains(Shown(Bar("save"))) /\ Plains(Shown(Bar("put"))) /\ Plains(place)
  BY <1>3, PlainBar, PlainOp, PlainsOne DEF Shown
<1> HIDE DEF place
<1>6. Plains(Shown(Bar("put")) \o place)
  BY <1>5, PlainsConcat
<1>7. \/ todo' = Shown(Bar("save")) \o Rest
      \/ todo' = (Shown(Bar("put")) \o place) \o Rest
      \/ todo' = Rest
  BY DEF MoveCursor, Continue, place
<1>8. CASE todo' = Shown(Bar("save")) \o Rest
  BY <1>1, <1>2, <1>3, <1>4, <1>5, <1>8, OtherNext
<1>9. CASE todo' = (Shown(Bar("put")) \o place) \o Rest
  BY <1>1, <1>2, <1>3, <1>4, <1>6, <1>9, OtherNext
<1>10. CASE todo' = Rest
  BY <1>1, <1>2, <1>3, <1>4, <1>10, RestNext
<1> QED BY <1>7, <1>8, <1>9, <1>10

LEMMA ShowCursorBanked ==
  ASSUME Banked, ShowCursor
  PROVE  Banked'
<1>1. UNCHANGED <<bank, current_bank>>
  BY DEF ShowCursor
<1>2. PICK now \in {"shown", "hidden", "show", "hide"} : Now(now)
  BY DEF ShowCursor
<1>3. now \in PlainOps \ {"save"} /\ "shown" \in PlainOps /\ "hidden" \in PlainOps
  BY DEF PlainOps
<1>4. Shaped'
  BY DEF ShowCursor, Banked, Shaped
<1> DEFINE show == Saves \o <<Do("shown")>>
           hide == Restores \o <<Do("hidden")>>
           none == <<>>
<1>5. Plains(Saves) /\ Plains(Restores) /\ Plains(<<Do("shown")>>) /\ Plains(<<Do("hidden")>>) /\ Plains(none)
  BY <1>3, PlainBar, PlainDo, PlainsOne DEF Saves, Restores
<1>6. Plains(show) /\ Plains(hide)
  BY <1>5, PlainsConcat
<1> HIDE DEF show, hide, none
<1>7. PICK ops \in {show, hide, none} : todo' = ops \o Rest
  <2>1. todo' = (CASE Now("show") -> show [] Now("hide") -> hide [] OTHER -> none) \o Rest
    BY DEF ShowCursor, Continue, show, hide, none
  <2>2. ~(Now("show") /\ Now("hide"))
    BY DEF Now
  <2>3. (CASE Now("show") -> show [] Now("hide") -> hide [] OTHER -> none) \in {show, hide, none}
    BY <2>2
  <2> QED BY <2>1, <2>3
<1> QED BY <1>1, <1>2, <1>3, <1>4, <1>5, <1>6, <1>7, OtherNext

LEMMA SetModeBanked ==
  ASSUME Banked, SetMode
  PROVE  Banked'
<1>1. Now("mode") /\ "mode" \in PlainOps /\ "clear" \in PlainOps
  BY DEF SetMode, PlainOps
<1> DEFINE clear == <<Do("clear")>>
<1>2. Plains(Rest) /\ Plains(clear) /\ Plains(Bar("save")) /\ Len(Bar("save")) = BAR
      /\ Bar("save")[1] = Op("save", 0, 0, 0)
  BY <1>1, AtPlain, PlainDo, PlainsOne, PlainBar
<1> HIDE DEF clear
<1>3. todo' = Bar("save") \o (clear \o Rest)
  <2>1. todo' = Bar("save") \o clear \o Rest
    BY DEF SetMode, Continue, clear
  <2> QED BY <2>1
<1>4. Plains(clear \o Rest)
  BY <1>2, PlainsConcat
<1>5. Plains(todo')
  BY <1>2, <1>3, <1>4, PlainsConcat
<1>6. Len(todo') >= 1 /\ todo'[1] = Op("save", 0, 0, 0)
  <2> DEFINE s == Bar("save")
             r == clear \o Rest
  <2>1. IsSeq(s) /\ IsSeq(r) /\ Len(s) = BAR
    BY <1>2, <1>4 DEF Plains
  <2> HIDE DEF s, r
  <2>2. Len(r) \in Nat /\ BAR \in Nat \ {0}
    BY <2>1, SeqLen, Sizes
  <2>3. Len(s \o r) = BAR + Len(r) /\ (s \o r)[1] = s[1]
    <3>1. /\ Len(s \o r) = Len(s) + Len(r)
          /\ \A k \in 1 .. Len(s) + Len(r) : (s \o r)[k] = IF k <= Len(s) THEN s[k] ELSE r[k - Len(s)]
      BY <2>1, SeqConcat
    <3>2. 1 \in 1 .. BAR + Len(r) /\ 1 <= BAR
      BY <2>2
    <3> QED BY <2>1, <3>1, <3>2
  <2> QED BY <1>2, <1>3, <2>2, <2>3 DEF s, r
<1>7. todo' # <<>>
  BY <1>6
<1>8. /\ bank' = 0 /\ cursor'.x = 0 /\ cursor'.y = 0 /\ video_window_y' = 0 /\ Shaped'
  BY DEF SetMode, Banked, Shaped
<1>9. Fresh'
  BY <1>6, <1>7, <1>8 DEF Fresh, Op
<1> QED BY <1>5, <1>8, <1>9, PlainNext

-----------------------------------------------------------------------------
(* The calls of programs and the interrupt.                                *)
LEMMA CallBanked ==
  ASSUME Banked, VideoCall
  PROVE  Banked'
<1>1. ASSUME NEW ops, Plains(ops), Call(ops)
      PROVE  Banked'
  <2>1. todo = <<>> /\ todo' = ops /\ UNCHANGED <<bank, current_bank, cursor>>
    BY <1>1 DEF Call
  <2>2. bank = current_bank /\ Shaped'
    BY <2>1 DEF Banked, Known, Fresh, Shaped
  <2> QED BY <1>1, <2>1, <2>2, PlainNext
<1>2. ASSUME NEW o, Plain(o), Call(<<o>>)
      PROVE  Banked'
  BY <1>1, <1>2, PlainsOne
<1>3. {"glyph", "after", "goto", "set", "draw", "show", "hide", "mode"} \subseteq PlainOps
  BY DEF PlainOps
<1>4. CASE CallOutChar
  <2>1. PICK c : Call(<<Op("glyph", 0, 0, c), Op("after", 0, 0, c)>>)
    BY <1>4 DEF CallOutChar
  <2>2. Plain(Op("glyph", 0, 0, c)) /\ Plain(Op("after", 0, 0, c))
    BY <1>3, PlainOp
  <2>3. Plains(<<Op("glyph", 0, 0, c), Op("after", 0, 0, c)>>)
    BY <2>2, PlainsTwo
  <2> QED BY <1>1, <2>1, <2>3
<1>5. CASE CallOutCharAttr
  <2>1. PICK c, at : Call(<<Op("goto", at[1], at[2], 0), Op("glyph", 0, 0, c), Op("after", 0, 0, c)>>)
    BY <1>5 DEF CallOutCharAttr
  <2> DEFINE o == Op("goto", at[1], at[2], 0)
             g == Op("glyph", 0, 0, c)
             a == Op("after", 0, 0, c)
  <2>2. Plain(o) /\ Plain(g) /\ Plain(a)
    BY <1>3, PlainOp
  <2>3. Call(<<o, g, a>>)
    BY <2>1
  <2> HIDE DEF o, g, a
  <2>4. Plains(<<o, g, a>>)
    <3>1. /\ <<o, g, a>> \in Seq({o, g, a}) /\ Len(<<o, g, a>>) = 3
          /\ <<o, g, a>>[1] = o /\ <<o, g, a>>[2] = g /\ <<o, g, a>>[3] = a
      OBVIOUS
    <3>2. IsSeq(<<o, g, a>>)
      BY <3>1, SeqOver
    <3> QED BY <2>2, <3>1, <3>2 DEF Plains
  <2> QED BY <1>1, <2>3, <2>4
<1>6. CASE CallSetPixel
  BY <1>2, <1>6, PlainPut DEF CallSetPixel
<1>7. CASE CallDrawChar
  <2>1. PICK p, c : Call(<<Op("draw", p[1], p[2], c)>>)
    BY <1>7 DEF CallDrawChar
  <2> QED BY <1>2, <1>3, <2>1, PlainOp
<1>8. CASE CallClear
  BY <1>1, <1>8, PlainClear DEF CallClear
<1>9. CASE CallSetCursor
  <2>1. PICK at : Call(<<Op("goto", at[1], at[2], 0)>>)
    BY <1>9 DEF CallSetCursor
  <2> QED BY <1>2, <1>3, <2>1, PlainOp
<1>10. CASE CallShow
  BY <1>2, <1>3, <1>10, PlainDo DEF CallShow
<1>11. CASE CallSetMode
  BY <1>2, <1>3, <1>11, PlainDo DEF CallSetMode
<1> QED BY <1>4, <1>5, <1>6, <1>7, <1>8, <1>9, <1>10, <1>11 DEF VideoCall

(* With no blink between the selection of another bank and the access, the *)
(* handler leaves the bank of the bar, which is the one that was selected  *)
(* or the one current_bank is to name.                                     *)
LEMMA BlinkBanked ==
  ASSUME "bank" \in VideoCalm, Banked, Blink
  PROVE  Banked'
<1> DEFINE first == Addr(cursor.x, cursor.y, video_window_y)
<1>1. /\ UNCHANGED <<video_window_y, todo>> /\ Shaped'
      /\ cursor'.x = cursor.x /\ cursor'.y = cursor.y
      /\ bank' = BankFor(first) /\ current_bank' = BankOf(first)
  BY DEF Blink, DrawBar, Banked, Shaped
<1>2. (Now("record") \/ Now("store") \/ Now("load") \/ Now("fetch")) => BankOf(first) = bank
  BY DEF Blink, InWindow, BlinkWindows
<1> HIDE DEF first
<1>3. bank' = bank \/ bank' = BankOf(first)
  BY <1>1 DEF BankFor
<1>4. Order(todo, bank, video_window_y)
  BY DEF Banked
<1>5. CASE todo = <<>>
  <2>1. bank' = current_bank'
    BY <1>1, <1>5 DEF Banked, Known, Fresh, BankFor
  <2>2. Order(todo', bank', video_window_y')
    BY <1>1, <1>4, <1>5 DEF Order
  <2> QED BY <1>1, <2>1, <2>2 DEF Banked
<1>6. CASE todo # <<>> /\ todo[1].op \in {"record"} \cup Accesses
  <2>1. Head(todo) = todo[1]
    BY <1>4, <1>6, OrderTail
  <2>2. BankOf(first) = bank
    BY <1>2, <1>6, <2>1 DEF Now, Accesses
  <2>3. bank' = bank /\ current_bank' = bank
    BY <1>1, <1>3, <2>2
  <2> QED BY <1>1, <1>4, <2>3 DEF Banked
<1>7. CASE todo # <<>> /\ todo[1].op \notin {"record"} \cup Accesses
  <2>1. PICK n \in 0 .. 3 : Leads(todo, n, bank, video_window_y)
    BY <1>4, <1>7 DEF Order
  <2>2. n # 1 /\ n # 2
    BY <1>7, <2>1 DEF Leads, Led
  <2>3. Leads(todo, n, bank', video_window_y)
    BY <2>1, <2>2 DEF Leads
  <2>4. Order(todo', bank', video_window_y')
    BY <1>1, <1>4, <2>3 DEF Order
  <2>5. CASE bank = current_bank
    BY <1>1, <2>4, <2>5 DEF Banked, BankFor
  <2>6. CASE Fresh
    <3>1. BankOf(first) = 0
      BY <2>6, FirstBank DEF Fresh, first
    <3>2. bank' = 0
      BY <1>3, <2>6, <3>1 DEF Fresh
    <3>3. Fresh'
      BY <1>1, <2>6, <3>2 DEF Fresh
    <3> QED BY <1>1, <2>4, <3>3 DEF Banked
  <2> QED BY <1>7, <2>5, <2>6 DEF Banked, Known
<1> QED BY <1>5, <1>6, <1>7

LEMMA InitBanked == VideoInit => Banked
<1> SUFFICES ASSUME NEW w, ConsoleAt(w)
             PROVE  Banked
  BY DEF VideoInit
<1>1. bank = current_bank /\ todo = <<>> /\ Shaped
  BY DEF ConsoleAt, Shaped
<1>2. Plains(<<>>)
  BY PlainOp, PlainsOne DEF PlainOps
<1> QED BY <1>1, <1>2, OrderPlain DEF Banked

(* The invariant: the operations of a call lead to each access through the *)
(* selection of its bank, and current_bank names the bank selected, but    *)
(* between that selection and its note, and before the first access of a   *)
(* graphics mode just set.                                                 *)
THEOREM BankedAlways ==
  ASSUME "bank" \in VideoCalm
  PROVE  VideoSpec => []Banked
<1>1. ASSUME Banked, [VideoNext]_vvars
      PROVE  Banked'
  <2>1. CASE VideoStep
    BY <1>1, <2>1, SetPixelBanked, GetPixelBanked, SelectBankBanked, AccessBanked, MoveWindowBanked,
       ExpandBanked, DrawCharBanked, MoveCursorBanked, ShowCursorBanked, SetModeBanked DEF VideoStep
  <2>2. CASE UNCHANGED vvars
    BY <1>1, <2>2 DEF vvars, Banked, Known, Fresh, Shaped
  <2> QED BY <1>1, <2>1, <2>2, CallBanked, BlinkBanked DEF VideoNext
<1> QED BY <1>1, InitBanked, PTL DEF VideoSpec

(* An access reaches the bank of its pixel, whatever the interrupt selects *)
(* in between, as long as it does not come between the comparison and the  *)
(* access with a bar in another bank (AccessInBank, video.c:27 and 98).    *)
THEOREM AccessInBankAlways ==
  ASSUME "bank" \in VideoCalm
  PROVE  VideoSpec => []AccessInBank
<1>1. Banked => AccessInBank
  <2> SUFFICES ASSUME Banked, Now("store") \/ Now("load") \/ Now("fetch")
               PROVE  bank = BankOf(Addr(Arg.x, Arg.y, video_window_y))
    BY DEF AccessInBank
  <2>1. Order(todo, bank, video_window_y) /\ todo # <<>> /\ Head(todo).op \in Accesses
    BY DEF Banked, Now, Accesses
  <2> QED BY <2>1, OrderTail DEF Reaches, Arg
<1> QED BY <1>1, BankedAlways, PTL

-----------------------------------------------------------------------------
(* The form of what a call has still to do.  An operation of one of the    *)
(* kinds comes before the k-th; one is left; the lines are being moved     *)
(* on.                                                                     *)
Behind(t, k, kinds) == \E j \in 1 .. k - 1 : t[j].op \in kinds
Has(t, kinds)       == \E k \in 1 .. Len(t) : t[k].op \in kinds
Scrolling(t)        == Has(t, {"scroll"})
(* Operations that select a bank; those that end a call; one on a pixel    *)
(* whose memory is not the bar's; the places of pixels in a line and of    *)
(* those of the bar.                                                       *)
Banking  == {"select", "record"}
Final    == {"after", "fast", "show", "shown", "clear", "mode"}
Off(o)   == \A i \in 0 .. BAR - 1 : Addr(o.x, o.y, video_window_y) # Addr(cursor.x, cursor.y, video_window_y) + i
Columns  == 0 .. WIDTH - 1
Bars     == 0 .. BAR - 1

(* The arguments of an operation.                                          *)
Suited(o) ==
  /\ o.op \in {"set", "paste", "copy", "store", "fetch"} => o.y \in Nat
  /\ o.op \in {"set", "paste", "copy", "fetch"} => o.x \in Columns
  /\ o.op \in {"put", "save"} => o.x \in Bars
  /\ o.op = "load" => o.c \in Bars /\ o.x = cursor.x + o.c /\ o.y = cursor.y
  /\ o.op = "store" => o.x \in Nat
  /\ o.op = "fetch" => o.c = o.x
  /\ o.op \in {"goto", "place"} => <<o.x, o.y>> \in Places
  /\ o.op = "fast" => o.x \in 0 .. COLS /\ o.y \in 0 .. ROWS - 1
  /\ o.op = "window" => o.y = 0
  /\ o.op \in {"glyph", "after"} => o.c \in DOMAIN Glyph

(* The place of an operation among the others.  With the bar behind a      *)
(* full line, no character is printed before the cursor has moved, and no  *)
(* pixel drawn unless the bar is hidden or elsewhere.  A visible bar is    *)
(* there as the window moves only while the lines are moved on.            *)
Ordered(t, k) ==
  LET o == t[k]
      n == Len(t)
  IN  /\ o.op \in Final => k = n
      /\ o.op = "glyph" => k = n - 1 /\ t[n].op = "after" /\ t[n].c = o.c
      /\ o.op = "scroll" => k = n - 1 /\ t[n] = Op("fast", 0, ROWS - 1, 0)
      /\ o.op \in {"glyph", "after"} => ~Full \/ Behind(t, k, {"goto", "place"})
      /\ o.op \in {"set", "paste"} => ~cursor.shown \/ ~Full \/ Behind(t, k, {"hide", "hidden"})
                                        \/ (k = 1 /\ Off(o))
      /\ o.op = "window" => ~cursor.shown \/ Behind(t, k, {"hide", "hidden"})
                              \/ (k = 1 /\ Scrolling(t))
      /\ o.op \in {"paste", "copy", "fetch"} => Scrolling(t)

(* What comes before the end of a call: the pixels below a cursor that is  *)
(* to appear are saved; a character is drawn, and a line feed as blanks;   *)
(* a line is cleared for the window to move to, behind the lines that are  *)
(* copied when it is reset.                                                *)
Alone(t)  == Len(t) >= 1 /\ t[Len(t)].op = "shown" =>
               \A k \in 1 .. Len(t) - 1 : t[k].op \in {"save", "load"} \cup Banking
Emitting(t) == Len(t) >= 1 /\ t[Len(t)].op = "after" /\ ~Has(t, {"glyph"})
Drawn(t)  == Emitting(t) =>
               \A k \in 1 .. Len(t) - 1 :
                 /\ t[k].op \in {"set", "store"} \cup Banking
                 /\ t[Len(t)].c = NL /\ t[k].op \in {"set", "store"} => t[k].c = BACK
Scrolled(t) == Scrolling(t) =>
  /\ ~Full /\ cursor.row = ROWS - 1
  /\ t[1].op # "window" => video_window_y <= 2 * HEIGHT
  /\ Has(t, {"window", "copy", "paste", "fetch"}) => t[1].op = "window" \/ video_window_y = 0
  /\ \A k \in 1 .. Len(t) - 2 :
       /\ t[k].op \in {"window", "copy", "fetch", "paste", "set", "store"} \cup Banking
       /\ t[k].op = "window" => k = 1
       /\ t[k].op = "paste" => t[k].y < HEIGHT
       /\ t[k].op = "set" => t[k].y \in HEIGHT .. HEIGHT + FONT_H - 1
       /\ t[k].op = "store" => t[k].y < HEIGHT + FONT_H /\ t[k].x \in Columns
       /\ t[k].op \in {"set", "store"} /\ t[k].y >= HEIGHT => t[k].c = BACK

(* The bar belongs to the cursor's position, or lies in the corner after   *)
(* a graphics mode has been set.                                           *)
Moved  == /\ cursor.x = cursor.col * FNT_W + 1 /\ cursor.y = (cursor.row + 1) * FONT_H - 1
InCorner == cursor.col = 0 /\ cursor.row = 0 /\ cursor.x = 0 /\ cursor.y = 0
VTypes ==
  /\ DOMAIN mem = 0 .. BANK * BANKS - 1 /\ DOMAIN scline = Columns /\ DOMAIN cursor.buff = Bars
  /\ cursor.col \in 0 .. COLS /\ cursor.row \in 0 .. ROWS - 1 /\ (Moved \/ InCorner)
  /\ cursor.shown \in BOOLEAN /\ cursor.blink \in {0, 1}
  /\ video_window_y \in 0 .. 2 * HEIGHT + FONT_H

(* The form of the state.                                                  *)
Fits == \A k \in 1 .. Len(todo) : Suited(todo[k]) /\ Ordered(todo, k)
Form == VTypes /\ Fits /\ Alone(todo) /\ Drawn(todo) /\ Scrolled(todo)

(* The contents of the memory.  The cells of the bar, and those a line     *)
(* below; a pixel of the bar is saved as it is below it, or is still to    *)
(* be; a pixel is still to be set.                                         *)
BarAt(i)   == Addr(cursor.x, cursor.y, video_window_y) + i
Below(i)   == Addr(cursor.x, cursor.y + FONT_H, video_window_y) + i
Held(i)    == cursor.buff[i] = mem[BarAt(i)]
At(o)      == Addr(o.x, o.y, video_window_y)
Awaited(i) == \E k \in 1 .. Len(todo) : \/ todo[k].op = "save" /\ todo[k].x = i
                                        \/ todo[k].op = "load" /\ todo[k].c = i
                                        \/ todo[k].op = "store" /\ At(todo[k]) = BarAt(i)
Due(t, kinds, x, y) == \E k \in 1 .. Len(t) : t[k].op \in kinds /\ t[k].x = x /\ t[k].y = y

(* A pixel about to be written below a visible bar has been set in what    *)
(* is saved too.                                                           *)
Agreed == cursor.shown => \A k \in 1 .. Len(todo), i \in Bars :
            todo[k].op = "store" /\ At(todo[k]) = BarAt(i) => todo[k].c = cursor.buff[i]
(* While the bar is not drawn, what is saved is what is below it; while    *)
(* lines are moved on, it need not be.                                     *)
Kept ==
  ~Scrolling(todo) /\ (cursor.shown \/ Has(todo, {"shown"})) /\ cursor.blink = 0 =>
    \A i \in Bars : Held(i) \/ Awaited(i)
(* A line feed is drawn as blanks, over the bar and what is saved alike.   *)
Blanked ==
  Emitting(todo) /\ todo[Len(todo)].c = NL /\ cursor.shown =>
    \A i \in Bars :
      /\ cursor.buff[i] = BACK \/ Due(todo, {"set"}, cursor.x + i, cursor.y)
      /\ mem[BarAt(i)] = BACK \/ Due(todo, {"set", "store"}, cursor.x + i, cursor.y)
(* So what is saved is blank as lines are moved on, and what the bar will  *)
(* lie over is blank or is to be cleared.                                  *)
Cleared ==
  Scrolling(todo) /\ cursor.shown =>
    \A i \in Bars :
      /\ cursor.buff[i] = BACK
      /\ \/ Due(todo, {"set", "store"}, cursor.x + i, cursor.y + FONT_H)
         \/ todo[1].op # "window" /\ mem[Below(i)] = BACK

(* The lines of the window at v are being copied to the start: what a bar  *)
(* is to be set to is read last where the bar was, or has been.            *)
Reads(o, x) == o.op \in {"copy", "fetch"} /\ o.x = x
Unread(t, j, k, x) == \A m \in j + 1 .. k - 1 : ~Reads(t[m], x)
ReadLast(t, line, k, x, row) ==
  \/ \E j \in 1 .. k - 1 : Reads(t[j], x) /\ t[j].y = row /\ Unread(t, j, k, x)
  \/ line[x] = BACK /\ Unread(t, 0, k, x)
Copying(v) ==
  /\ v > 2 * HEIGHT
  /\ todo[1].op = "window" => video_window_y = v
  /\ \A k \in 1 .. Len(todo) : todo[k].op \in {"copy", "fetch"} => todo[k].y >= v
  /\ \A i \in Bars :
       /\ mem[cursor.x + i + WIDTH * (cursor.y + v)] = BACK
       /\ \A k \in 1 .. Len(todo) :
            todo[k].op = "paste" /\ todo[k].x = cursor.x + i /\ todo[k].y = cursor.y =>
              ReadLast(todo, scline, k, cursor.x + i, cursor.y + v)
Copied == Scrolling(todo) /\ cursor.shown /\ Has(todo, {"window", "paste"}) =>
            \E v \in 0 .. 2 * HEIGHT + FONT_H : Copying(v)
(* The invariant about the memory.                                         *)
Content == Agreed /\ Kept /\ Blanked /\ Cleared /\ Copied

-----------------------------------------------------------------------------
(* What is put in the place of the first operation, and the others behind. *)
Spliced(t, s, u) ==
  /\ IsSeq(t) /\ IsSeq(s) /\ IsSeq(u) /\ Len(t) >= 1 /\ Len(u) = Len(s) + Len(t) - 1
  /\ \A k \in 1 .. Len(s) : u[k] = s[k]
  /\ \A k \in 2 .. Len(t) : u[Len(s) + k - 1] = t[k]

LEMMA SplicedConcat ==
  ASSUME NEW t, IsSeq(t), t # <<>>, NEW s, IsSeq(s)
  PROVE  Spliced(t, s, s \o Tail(t))
<1> DEFINE r == Tail(t)
           u == s \o r
<1>1. /\ IsSeq(r) /\ Len(r) = Len(t) - 1 /\ Len(t) >= 1
      /\ \A k \in 1 .. Len(t) - 1 : r[k] = t[k + 1]
  BY SeqTail
<1>2. Len(t) \in Nat /\ Len(s) \in Nat
  BY SeqLen
<1> HIDE DEF r
<1>3. /\ IsSeq(u) /\ Len(u) = Len(s) + Len(r)
      /\ \A k \in 1 .. Len(s) + Len(r) : u[k] = IF k <= Len(s) THEN s[k] ELSE r[k - Len(s)]
  BY <1>1, SeqConcat
<1> HIDE DEF u
<1>4. \A k \in 1 .. Len(s) : u[k] = s[k]
  BY <1>1, <1>2, <1>3
<1>5. ASSUME NEW k \in 2 .. Len(t)
      PROVE  u[Len(s) + k - 1] = t[k]
  <2> DEFINE q == Len(s) + k - 1
  <2>1. q \in 1 .. Len(s) + Len(r) /\ ~(q <= Len(s)) /\ q - Len(s) = k - 1
    BY <1>1, <1>2
  <2> HIDE DEF q
  <2>2. u[q] = r[k - 1]
    BY <1>3, <2>1
  <2>3. k - 1 \in 1 .. Len(t) - 1 /\ (k - 1) + 1 = k
    BY <1>2
  <2>4. r[k - 1] = t[(k - 1) + 1]
    BY <1>1, <2>3
  <2> QED BY <2>2, <2>3, <2>4 DEF q
<1>6. Len(u) = Len(s) + Len(t) - 1
  BY <1>1, <1>2, <1>3
<1>7. IsSeq(u) /\ Len(t) >= 1
  BY <1>1, <1>3
<1>8. Spliced(t, s, u)
  BY <1>4, <1>5, <1>6, <1>7 DEF Spliced
<1> QED BY <1>8 DEF u, r

LEMMA SplicedTail ==
  ASSUME NEW t, IsSeq(t), t # <<>>
  PROVE  Spliced(t, <<>>, Tail(t))
<1> DEFINE r == Tail(t)
           s == <<>>
<1>1. /\ IsSeq(r) /\ Len(r) = Len(t) - 1 /\ Len(t) >= 1
      /\ \A k \in 1 .. Len(t) - 1 : r[k] = t[k + 1]
  BY SeqTail
<1>2. Len(t) \in Nat /\ Len(s) = 0 /\ IsSeq(s)
  <2>1. s \in Seq({}) /\ Len(s) = 0
    OBVIOUS
  <2> QED BY <2>1, SeqLen, SeqOver
<1> HIDE DEF r, s
<1>3. ASSUME NEW k \in 2 .. Len(t)
      PROVE  r[Len(s) + k - 1] = t[k]
  <2>1. k - 1 \in 1 .. Len(t) - 1 /\ (k - 1) + 1 = k /\ Len(s) + k - 1 = k - 1
    BY <1>2
  <2>2. r[k - 1] = t[(k - 1) + 1]
    BY <1>1, <2>1
  <2> QED BY <2>1, <2>2
<1>4. Spliced(t, s, r)
  BY <1>1, <1>2, <1>3 DEF Spliced
<1> QED BY <1>4 DEF r, s

(* Each operation is a new one or one of those behind.                     *)
LEMMA SplicedCases ==
  ASSUME NEW t, NEW s, NEW u, Spliced(t, s, u)
  PROVE  /\ Len(t) \in Nat \ {0} /\ Len(s) \in Nat /\ Len(u) \in Nat /\ Len(u) = Len(s) + Len(t) - 1
         /\ \A k \in 1 .. Len(u) :
              \/ k \in 1 .. Len(s) /\ u[k] = s[k]
              \/ \E q \in 2 .. Len(t) : k = Len(s) + q - 1 /\ u[k] = t[q]
         /\ \A k \in 1 .. Len(s) : k \in 1 .. Len(u) /\ u[k] = s[k]
         /\ \A q \in 2 .. Len(t) : Len(s) + q - 1 \in 1 .. Len(u) /\ u[Len(s) + q - 1] = t[q]
<1>1. Len(t) \in Nat /\ Len(s) \in Nat /\ Len(t) >= 1 /\ Len(u) = Len(s) + Len(t) - 1
  BY SeqLen DEF Spliced
<1>2. Len(u) \in Nat
  BY <1>1
<1>3. /\ \A k \in 1 .. Len(s) : u[k] = s[k]
      /\ \A k \in 2 .. Len(t) : u[Len(s) + k - 1] = t[k]
  BY DEF Spliced
<1>4. ASSUME NEW k \in 1 .. Len(u), k \notin 1 .. Len(s)
      PROVE  \E q \in 2 .. Len(t) : k = Len(s) + q - 1 /\ u[k] = t[q]
  <2> DEFINE q == k - Len(s) + 1
  <2>1. q \in 2 .. Len(t) /\ k = Len(s) + q - 1
    BY <1>1, <1>4
  <2> HIDE DEF q
  <2> QED BY <1>3, <2>1
<1>5. \A k \in 1 .. Len(s) : k \in 1 .. Len(u)
  BY <1>1
<1>6. \A q \in 2 .. Len(t) : Len(s) + q - 1 \in 1 .. Len(u)
  BY <1>1
<1> QED BY <1>1, <1>2, <1>3, <1>4, <1>5, <1>6

(* What the head and the others are when the next step is no access.       *)
LEMMA PlainTodo ==
  ASSUME Banked, NEW op \in PlainOps, Now(op)
  PROVE  /\ IsSeq(todo) /\ todo # <<>> /\ Arg = todo[1] /\ todo[1].op = op /\ Len(todo) \in Nat \ {0}
         /\ \A k \in 1 .. Len(todo) : Plain(todo[k])
<1>1. IsSeq(todo) /\ todo # <<>> /\ Order(todo, bank, video_window_y)
  BY DEF Banked, Now, Order
<1>2. PICK n \in 0 .. 3 : Leads(todo, n, bank, video_window_y)
  BY <1>1 DEF Order
<1>3. Head(todo) = todo[1] /\ Len(todo) \in Nat /\ Len(todo) >= 1
  BY <1>1, SeqTail, SeqLen
<1>4. Led(op, n) /\ todo[1].op = op
  BY <1>2, <1>3 DEF Leads, Now
<1>5. n = 0
  BY <1>4 DEF Led, PlainOps, Accesses
<1>6. \A k \in 0 + 1 .. Len(todo) : Plain(todo[k])
  BY <1>2, <1>5 DEF Leads
<1> QED BY <1>1, <1>3, <1>4, <1>6 DEF Arg

LEMMA SplicedHas ==
  ASSUME NEW t, NEW s, NEW u, Spliced(t, s, u), NEW kinds
  PROVE  /\ Has(u, kinds) => (\E k \in 1 .. Len(s) : s[k].op \in kinds) \/ Has(t, kinds)
         /\ Has(t, kinds) /\ t[1].op \notin kinds => Has(u, kinds)
<1>1. /\ Len(t) \in Nat \ {0} /\ Len(s) \in Nat /\ Len(u) \in Nat
      /\ \A k \in 1 .. Len(u) :
           \/ k \in 1 .. Len(s) /\ u[k] = s[k]
           \/ \E q \in 2 .. Len(t) : k = Len(s) + q - 1 /\ u[k] = t[q]
      /\ \A q \in 2 .. Len(t) : Len(s) + q - 1 \in 1 .. Len(u) /\ u[Len(s) + q - 1] = t[q]
  BY SplicedCases
<1>2. ASSUME NEW k \in 1 .. Len(u), u[k].op \in kinds
      PROVE  (\E m \in 1 .. Len(s) : s[m].op \in kinds) \/ Has(t, kinds)
  <2>1. CASE k \in 1 .. Len(s) /\ u[k] = s[k]
    BY <1>2, <2>1
  <2>2. CASE \E q \in 2 .. Len(t) : k = Len(s) + q - 1 /\ u[k] = t[q]
    <3>1. PICK q \in 2 .. Len(t) : u[k] = t[q]
      BY <2>2
    <3>2. q \in 1 .. Len(t)
      BY <1>1
    <3> QED BY <1>2, <3>1, <3>2 DEF Has
  <2> QED BY <1>1, <2>1, <2>2
<1>3. ASSUME NEW q \in 1 .. Len(t), t[q].op \in kinds, t[1].op \notin kinds
      PROVE  Has(u, kinds)
  <2>1. q \in 2 .. Len(t)
    BY <1>1, <1>3
  <2> QED BY <1>1, <1>3, <2>1 DEF Has
<1> QED BY <1>2, <1>3 DEF Has

LEMMA SplicedBehind ==
  ASSUME NEW t, NEW s, NEW u, Spliced(t, s, u), NEW kinds, NEW q \in 2 .. Len(t), Behind(t, q, kinds),
         t[1].op \notin kinds \/ \E j \in 1 .. Len(s) : s[j].op \in kinds
  PROVE  Behind(u, Len(s) + q - 1, kinds)
<1>1. /\ Len(t) \in Nat \ {0} /\ Len(s) \in Nat /\ Len(u) \in Nat
      /\ \A k \in 1 .. Len(s) : k \in 1 .. Len(u) /\ u[k] = s[k]
      /\ \A p \in 2 .. Len(t) : Len(s) + p - 1 \in 1 .. Len(u) /\ u[Len(s) + p - 1] = t[p]
  BY SplicedCases
<1>2. PICK j \in 1 .. q - 1 : t[j].op \in kinds
  BY DEF Behind
<1>3. CASE j \in 2 .. Len(t)
  <2>1. u[Len(s) + j - 1] = t[j] /\ Len(s) + j - 1 \in 1 .. (Len(s) + q - 1) - 1
    BY <1>1, <1>2, <1>3
  <2> QED BY <1>2, <2>1 DEF Behind
<1>4. CASE j = 1
  <2>1. PICK m \in 1 .. Len(s) : s[m].op \in kinds
    BY <1>2, <1>4
  <2>2. u[m] = s[m] /\ m \in 1 .. (Len(s) + q - 1) - 1
    BY <1>1
  <2> QED BY <2>1, <2>2 DEF Behind
<1> QED BY <1>1, <1>3, <1>4

(* The last of what is left is the last there was, or the last of the new. *)
LEMMA SplicedLast ==
  ASSUME NEW t, NEW s, NEW u, Spliced(t, s, u)
  PROVE  /\ Len(t) \in Nat \ {0} /\ Len(s) \in Nat /\ Len(u) = Len(s) + Len(t) - 1
         /\ Len(t) >= 2 => u[Len(u)] = t[Len(t)]
         /\ Len(t) = 1 /\ Len(u) >= 1 => u[Len(u)] = s[Len(s)]
<1>1. /\ Len(t) \in Nat \ {0} /\ Len(s) \in Nat /\ Len(u) = Len(s) + Len(t) - 1
      /\ \A k \in 1 .. Len(s) : k \in 1 .. Len(u) /\ u[k] = s[k]
      /\ \A p \in 2 .. Len(t) : Len(s) + p - 1 \in 1 .. Len(u) /\ u[Len(s) + p - 1] = t[p]
  BY SplicedCases
<1>2. Len(t) >= 2 => u[Len(u)] = t[Len(t)]
  BY <1>1
<1>3. Len(t) = 1 /\ Len(u) >= 1 => u[Len(u)] = s[Len(s)]
  BY <1>1
<1> QED BY <1>1, <1>2, <1>3

(* The next step of a call.                                                *)
LEMMA TodoHead ==
  ASSUME Banked, NEW op, Now(op)
  PROVE  /\ IsSeq(todo) /\ todo # <<>> /\ Arg = todo[1] /\ todo[1].op = op /\ Len(todo) \in Nat \ {0}
         /\ todo' = Rest => Spliced(todo, <<>>, todo')
         /\ \A s : IsSeq(s) /\ todo' = s \o Rest => Spliced(todo, s, todo')
<1>1. IsSeq(todo) /\ todo # <<>>
  BY DEF Banked, Now, Order
<1>2. Head(todo) = todo[1] /\ Len(todo) \in Nat /\ Len(todo) >= 1
  BY <1>1, SeqTail, SeqLen
<1>3. todo[1].op = op /\ Arg = todo[1]
  BY <1>2 DEF Now, Arg
<1>4. todo' = Rest => Spliced(todo, <<>>, todo')
  BY <1>1, SplicedTail DEF Rest
<1>5. \A s : IsSeq(s) /\ todo' = s \o Rest => Spliced(todo, s, todo')
  BY <1>1, SplicedConcat DEF Rest
<1> QED BY <1>1, <1>2, <1>3, <1>4, <1>5

(* An access is compared with current_bank first.                          *)
Ends(s, o) == /\ IsSeq(s) /\ Len(s) \in Nat \ {0} /\ s[Len(s)] = o
              /\ \A k \in 1 .. Len(s) - 1 : s[k].op \in Banking
LEMMA SelectedEnds ==
  ASSUME NEW a, NEW o
  PROVE  Ends(Selected(a, o), o)
<1> DEFINE s == Op("select", 0, 0, BankOf(a))
           r == Op("record", 0, 0, BankOf(a))
<1>1. s.op \in Banking /\ r.op \in Banking
  BY DEF Op, Banking
<1>2. Selected(a, o) = <<s, r, o>> \/ Selected(a, o) = <<o>>
  BY DEF Selected
<1> HIDE DEF s, r
<1>3. ASSUME Selected(a, o) = <<s, r, o>>
      PROVE  Ends(Selected(a, o), o)
  <2>1. <<s, r, o>> \in Seq({s, r, o}) /\ Len(<<s, r, o>>) = 3
        /\ <<s, r, o>>[1] = s /\ <<s, r, o>>[2] = r /\ <<s, r, o>>[3] = o
    OBVIOUS
  <2>2. IsSeq(<<s, r, o>>)
    BY <2>1, SeqOver
  <2> DEFINE t == <<s, r, o>>
  <2> HIDE DEF t
  <2>3. IsSeq(t) /\ Len(t) = 3 /\ t[1] = s /\ t[2] = r /\ t[3] = o
    BY <2>1, <2>2 DEF t
  <2>4. Ends(t, o)
    BY <1>1, <2>3 DEF Ends
  <2> QED BY <1>3, <2>4 DEF t
<1>4. ASSUME Selected(a, o) = <<o>>
      PROVE  Ends(Selected(a, o), o)
  <2>1. <<o>> \in Seq({o}) /\ Len(<<o>>) = 1 /\ <<o>>[1] = o
    OBVIOUS
  <2>2. IsSeq(<<o>>)
    BY <2>1, SeqOver
  <2> DEFINE t == <<o>>
  <2> HIDE DEF t
  <2>3. IsSeq(t) /\ Len(t) = 1 /\ t[1] = o
    BY <2>1, <2>2 DEF t
  <2>4. Ends(t, o)
    BY <2>3 DEF Ends
  <2> QED BY <1>4, <2>4 DEF t
<1> QED BY <1>2, <1>3, <1>4

-----------------------------------------------------------------------------
(* The form of what a call has still to do.                                *)

(* The new operations in the place of the first have their form; so have   *)
(* the others, as long as the first takes nothing with it.                 *)
LEMMA FitsNext ==
  ASSUME Fits, NEW s, Spliced(todo, s, todo'),
         \A k \in 1 .. Len(s) : (Suited(todo[k]) /\ Ordered(todo, k))',
         todo[1].op # "scroll",
         Len(todo) >= 2 => /\ Full' => Full
                           /\ cursor'.shown => cursor.shown
                           /\ \/ cursor'.x = cursor.x /\ cursor'.y = cursor.y
                              \/ \A q \in 1 .. Len(todo) : todo[q].op # "load",
         todo[1].op \in {"goto", "place"} => ~Full' \/ \E j \in 1 .. Len(s) : s[j].op \in {"goto", "place"},
         todo[1].op \in {"hide", "hidden"} =>
           ~cursor'.shown \/ \E j \in 1 .. Len(s) : s[j].op \in {"hide", "hidden"}
  PROVE  Fits'
<1> DEFINE t == todo
           u == todo'
           n == Len(t)
<1>1. /\ n \in Nat \ {0} /\ Len(s) \in Nat /\ Len(u) = Len(s) + n - 1
      /\ \A k \in 1 .. Len(u) :
           \/ k \in 1 .. Len(s) /\ u[k] = s[k]
           \/ \E q \in 2 .. n : k = Len(s) + q - 1 /\ u[k] = t[q]
  BY SplicedCases
<1>2. n >= 2 => u[Len(u)] = t[n]
  BY SplicedLast
<1>3. ASSUME NEW q \in 2 .. n, NEW k \in 1 .. Len(u), k = Len(s) + q - 1, u[k] = t[q]
      PROVE  (Suited(todo[k]) /\ Ordered(todo, k))'
  <2>1. q \in 1 .. n /\ n >= 2 /\ (q = n => k = Len(u)) /\ (q = n - 1 => k = Len(u) - 1)
    <3>1. n \in Nat \ {0} /\ Len(s) \in Nat /\ Len(u) = Len(s) + n - 1
      BY <1>1
    <3> DEFINE l == Len(s)
               m == Len(u)
    <3> HIDE DEF t, u, n, l, m
    <3>2. q \in Nat /\ q >= 2 /\ q <= n /\ n \in Nat /\ l \in Nat /\ m = l + n - 1 /\ k = l + q - 1
      BY <1>3, <3>1 DEF l, m
    <3>3. q \in 1 .. n /\ n >= 2
      BY <3>2
    <3>4. (q = n => k = m) /\ (q = n - 1 => k = m - 1)
      BY <3>2
    <3> QED BY <3>3, <3>4 DEF m
  <2>2. Suited(t[q]) /\ Ordered(t, q)
    BY <2>1 DEF Fits
  <2>3. Behind(t, q, {"goto", "place"}) => ~Full' \/ Behind(u, k, {"goto", "place"})
    BY <1>3, SplicedBehind
  <2>4. Behind(t, q, {"hide", "hidden"}) => ~cursor'.shown \/ Behind(u, k, {"hide", "hidden"})
    BY <1>3, SplicedBehind
  <2>5. Scrolling(t) => Scrolling(u)
    BY SplicedHas DEF Scrolling
  <2>6. /\ Full' => Full
        /\ cursor'.shown => cursor.shown
        /\ (cursor'.x = cursor.x /\ cursor'.y = cursor.y) \/ t[q].op # "load"
    BY <2>1
  <2>7. Suited(todo[k])'
    BY <1>3, <2>2, <2>6 DEF Suited
  <2>8. n - 1 = Len(t) - 1 /\ q # 1 /\ u[Len(u)] = t[n]
    BY <1>2, <2>1
  <2>9. Ordered(todo, k)'
    BY <1>3, <2>1, <2>2, <2>3, <2>4, <2>5, <2>6, <2>8 DEF Ordered
  <2> QED BY <2>7, <2>9
<1>4. ASSUME NEW k \in 1 .. Len(u)
      PROVE  (Suited(todo[k]) /\ Ordered(todo, k))'
  BY <1>1, <1>3
<1> QED BY <1>4 DEF Fits

(* What an operation leads to that comes before others.                    *)
Leading(o, p) ==
  \/ p.op \in Banking
  \/ o.op \in {"set", "paste"} /\ p.op = "store" /\ p.x = o.x /\ p.y = o.y /\ (o.op = "set" => p.c = o.c)
  \/ o.op = "save" /\ p.op = "load"
  \/ o.op = "copy" /\ p.op = "fetch" /\ p.x = o.x /\ p.y = o.y
  \/ o.op \in {"put", "draw", "serve", "goto", "place", "hide"}
       /\ p.op \in {"store", "draw", "serve", "put", "place", "save", "hidden"}

LEMMA EndNext ==
  ASSUME Form, NEW s, Spliced(todo, s, todo'),
         todo[1].op \notin Final \cup {"glyph", "scroll"},
         \A k \in 1 .. Len(s) : Leading(todo[1], s[k]),
         Scrolling(todo) => /\ cursor'.col = cursor.col /\ cursor'.row = cursor.row
                            /\ \/ video_window_y' = video_window_y /\ todo[1].op # "window"
                               \/ video_window_y' = 0
  PROVE  (Alone(todo) /\ Drawn(todo) /\ Scrolled(todo))'
<1> DEFINE t == todo
           u == todo'
           n == Len(t)
<1>1. /\ n \in Nat \ {0} /\ Len(s) \in Nat /\ Len(u) = Len(s) + n - 1
      /\ \A k \in 1 .. Len(u) :
           \/ k \in 1 .. Len(s) /\ u[k] = s[k]
           \/ \E q \in 2 .. n : k = Len(s) + q - 1 /\ u[k] = t[q]
  BY SplicedCases
<1>2. /\ n >= 2 => u[Len(u)] = t[n]
      /\ n = 1 /\ Len(u) >= 1 => u[Len(u)] = s[Len(s)]
  BY SplicedLast
<1>3. \A k \in 1 .. Len(s) : s[k].op \in Banking \cup {"store", "load", "fetch", "draw", "serve", "put", "place", "save", "hidden"}
  BY DEF Leading
<1>4. ASSUME Len(u) >= 1, u[Len(u)].op \in {"shown", "after"}
      PROVE  n >= 2 /\ u[Len(u)] = t[n]
  <2>1. CASE n = 1
    <3>1. u[Len(u)] = s[Len(s)] /\ Len(s) \in 1 .. Len(s)
      BY <1>1, <1>2, <1>4, <2>1
    <3> QED BY <1>3, <1>4, <3>1 DEF Banking
  <2>2. n >= 2
    <3>1. n \in Nat \ {0}
      BY <1>1
    <3> HIDE DEF n
    <3> QED BY <2>1, <3>1
  <2> QED BY <1>2, <2>2
<1>5. Alone(todo)'
  <2> SUFFICES ASSUME Len(u) >= 1, u[Len(u)].op = "shown", NEW k \in 1 .. Len(u) - 1
               PROVE  u[k].op \in {"save", "load"} \cup Banking
    BY DEF Alone
  <2>1. n >= 2 /\ t[n].op = "shown"
    BY <1>4
  <2>2. \A q \in 1 .. n - 1 : t[q].op \in {"save", "load"} \cup Banking
    BY <2>1 DEF Form, Alone
  <2>3. t[1].op \in {"save", "load"} \cup Banking
    BY <1>1, <2>1, <2>2
  <2>4. CASE k \in 1 .. Len(s) /\ u[k] = s[k]
    BY <2>3, <2>4 DEF Leading, Banking
  <2>5. CASE \E q \in 2 .. n : k = Len(s) + q - 1 /\ u[k] = t[q]
    <3>1. PICK q \in 2 .. n : k = Len(s) + q - 1 /\ u[k] = t[q]
      BY <2>5
    <3>2. q \in 1 .. n - 1
      BY <1>1, <3>1
    <3> QED BY <2>2, <3>1, <3>2
  <2>6. k \in 1 .. Len(u)
    BY <1>1
  <2> QED BY <1>1, <2>4, <2>5, <2>6
<1>6. Drawn(todo)'
  <2> SUFFICES ASSUME Emitting(u), NEW k \in 1 .. Len(u) - 1
               PROVE  /\ u[k].op \in {"set", "store"} \cup Banking
                      /\ u[Len(u)].c = NL /\ u[k].op \in {"set", "store"} => u[k].c = BACK
    BY DEF Drawn
  <2>1. n >= 2 /\ t[n].op = "after" /\ u[Len(u)] = t[n]
    BY <1>4 DEF Emitting
  <2>2. Emitting(t)
    BY <2>1, SplicedHas DEF Emitting
  <2>3. \A q \in 1 .. n - 1 : /\ t[q].op \in {"set", "store"} \cup Banking
                              /\ t[n].c = NL /\ t[q].op \in {"set", "store"} => t[q].c = BACK
    BY <2>2 DEF Form, Drawn
  <2>4. t[1].op \in {"set", "store"} \cup Banking /\ (t[n].c = NL /\ t[1].op \in {"set", "store"} => t[1].c = BACK)
    BY <1>1, <2>1, <2>3
  <2>5. CASE k \in 1 .. Len(s) /\ u[k] = s[k]
    BY <2>1, <2>4, <2>5 DEF Leading, Banking
  <2>6. CASE \E q \in 2 .. n : k = Len(s) + q - 1 /\ u[k] = t[q]
    <3>1. PICK q \in 2 .. n : k = Len(s) + q - 1 /\ u[k] = t[q]
      BY <2>6
    <3>2. q \in 1 .. n - 1
      BY <1>1, <3>1
    <3> QED BY <2>1, <2>3, <3>1, <3>2
  <2>7. k \in 1 .. Len(u)
    BY <1>1
  <2> QED BY <1>1, <2>5, <2>6, <2>7
<1>7. Scrolled(todo)'
  <2> SUFFICES ASSUME Scrolling(u)
               PROVE  Scrolled(todo)'
    BY DEF Scrolled
  <2>1. Scrolling(t)
    BY <1>3, SplicedHas DEF Scrolling, Banking
  <2>2. PICK j \in 1 .. n : t[j].op = "scroll"
    BY <2>1 DEF Scrolling, Has
  <2>3. Ordered(t, j)
    BY DEF Form, Fits
  <2>4. j = n - 1 /\ j # 1 /\ n >= 3
    <3>1. j = n - 1
      BY <2>2, <2>3 DEF Ordered
    <3>2. j # 1
      BY <2>2
    <3> QED BY <1>1, <3>1, <3>2
  <2>5. Scrolled(t) /\ Suited(t[1])
    BY <1>1 DEF Form, Fits
  <2> DEFINE G(o, k) == /\ o.op \in {"window", "copy", "fetch", "paste", "set", "store"} \cup Banking
                        /\ o.op = "window" => k = 1
                        /\ o.op = "paste" => o.y < HEIGHT
                        /\ o.op = "set" => o.y \in HEIGHT .. HEIGHT + FONT_H - 1
                        /\ o.op = "store" => o.y < HEIGHT + FONT_H /\ o.x \in Columns
                        /\ o.op \in {"set", "store"} /\ o.y >= HEIGHT => o.c = BACK
  <2>6. /\ ~Full /\ cursor.row = ROWS - 1
        /\ t[1].op # "window" => video_window_y <= 2 * HEIGHT
        /\ Has(t, {"window", "copy", "paste", "fetch"}) => t[1].op = "window" \/ video_window_y = 0
        /\ \A k \in 1 .. n - 2 : G(t[k], k)
    BY <2>1, <2>5 DEF Scrolled
  <2>7. G(t[1], 1)
    BY <1>1, <2>4, <2>6
  <2>8. \A k \in 1 .. Len(s) : G(s[k], k)
    <3> SUFFICES ASSUME NEW k \in 1 .. Len(s)
                 PROVE  G(s[k], k)
      OBVIOUS
    <3>1. Leading(t[1], s[k])
      OBVIOUS
    <3>2. HEIGHT \in Nat /\ FONT_H \in Nat
      BY Sizes
    <3>3. t[1].op \in {"set", "paste"} => t[1].x \in Columns /\ t[1].y \in Nat
      BY <2>5 DEF Suited
    <3> QED BY <2>7, <3>1, <3>2, <3>3 DEF Leading, Banking
  <2>9. ASSUME NEW k \in 1 .. Len(u) - 2
        PROVE  G(u[k], k)
    <3>1. CASE k \in 1 .. Len(s) /\ u[k] = s[k]
      BY <2>8, <3>1
    <3>2. CASE \E q \in 2 .. n : k = Len(s) + q - 1 /\ u[k] = t[q]
      <4>1. PICK q \in 2 .. n : k = Len(s) + q - 1 /\ u[k] = t[q]
        BY <3>2
      <4>2. q \in 1 .. n - 2 /\ q # 1
        BY <1>1, <4>1
      <4>3. G(t[q], q)
        BY <2>6, <4>2
      <4> HIDE DEF t
      <4> QED BY <4>1, <4>2, <4>3
    <3>3. k \in 1 .. Len(u)
      BY <1>1
    <3> QED BY <1>1, <3>1, <3>2, <3>3
  <2>10. cursor'.col = cursor.col /\ cursor'.row = cursor.row /\ ~Full'
    BY <2>1, <2>6 DEF Full
  <2>11. (video_window_y' = video_window_y /\ t[1].op # "window") \/ video_window_y' = 0
    BY <2>1
  <2>12. 0 <= 2 * HEIGHT
    BY Sizes
  <2>13. video_window_y' <= 2 * HEIGHT
    BY <2>6, <2>11, <2>12
  <2>14. Has(u, {"window", "copy", "paste", "fetch"}) => video_window_y' = 0
    <3> SUFFICES ASSUME Has(u, {"window", "copy", "paste", "fetch"}), video_window_y' # 0
                 PROVE  FALSE
      OBVIOUS
    <3>1. t[1].op # "window" /\ ~Has(t, {"window", "copy", "paste", "fetch"})
      BY <2>6, <2>11
    <3>2. PICK k \in 1 .. Len(s) : s[k].op \in {"window", "copy", "paste", "fetch"}
      BY <3>1, SplicedHas
    <3>3. t[1].op = "copy"
      BY <3>2 DEF Leading, Banking
    <3> QED BY <1>1, <3>1, <3>3 DEF Has
  <2> HIDE DEF G
  <2>15. \A k \in 1 .. Len(u) - 2 : G(u[k], k)
    BY <2>9
  <2> QED BY <2>6, <2>10, <2>13, <2>14, <2>15 DEF Scrolled, G
<1> QED BY <1>5, <1>6, <1>7

-----------------------------------------------------------------------------
(* Steps that keep the form.                                               *)

(* A step that leaves the cursor and the window where they are.            *)
LEMMA FormKeep ==
  ASSUME Form, NEW s, Spliced(todo, s, todo'),
         todo[1].op \notin Final \cup {"glyph", "scroll", "goto", "place", "hide", "hidden", "window"},
         \A k \in 1 .. Len(s) : /\ Leading(todo[1], s[k]) /\ Suited(s[k])
                                /\ s[k].op \in Banking \cup {"store", "load", "fetch", "draw", "serve"},
         cursor'.col = cursor.col, cursor'.row = cursor.row, cursor'.x = cursor.x, cursor'.y = cursor.y,
         cursor'.shown = cursor.shown, cursor'.blink = cursor.blink, DOMAIN cursor'.buff = DOMAIN cursor.buff,
         video_window_y' = video_window_y, DOMAIN mem' = DOMAIN mem, DOMAIN scline' = DOMAIN scline
  PROVE  Form'
<1>1. VTypes'
  BY DEF Form, VTypes, Moved, InCorner
<1>2. (Full' <=> Full) /\ Fits
  BY DEF Full, Form
<1>3. ASSUME NEW k \in 1 .. Len(s)
      PROVE  (Suited(todo[k]) /\ Ordered(todo, k))'
  <2>1. k \in 1 .. Len(todo') /\ todo'[k] = s[k]
    BY SplicedCases
  <2>2. Suited(todo[k])'
    BY <2>1 DEF Suited
  <2>3. s[k].op = "fetch" => Scrolling(todo')
    <3> SUFFICES ASSUME s[k].op = "fetch"
                 PROVE  Scrolling(todo')
      OBVIOUS
    <3>1. todo[1].op = "copy"
      BY DEF Leading, Banking
    <3>2. 1 \in 1 .. Len(todo)
      BY SplicedCases
    <3>3. Ordered(todo, 1)
      BY <1>2, <3>2 DEF Fits
    <3>4. Scrolling(todo)
      BY <3>1, <3>3 DEF Ordered
    <3> QED BY <3>1, <3>4, SplicedHas DEF Scrolling
  <2>4. s[k].op \in Banking \cup {"store", "load", "fetch", "draw", "serve"}
    OBVIOUS
  <2>5. Ordered(todo, k)'
    BY <2>1, <2>3, <2>4 DEF Ordered, Banking, Final
  <2> QED BY <2>2, <2>5
<1>4. Fits'
  BY <1>2, <1>3, FitsNext
<1>5. (Alone(todo) /\ Drawn(todo) /\ Scrolled(todo))'
  BY EndNext
<1> QED BY <1>1, <1>4, <1>5 DEF Form

(* An access takes the place of what it is for.                            *)
LEMMA FormEnds ==
  ASSUME Form, NEW o, NEW s, Ends(s, o), Spliced(todo, s, todo'),
         todo[1].op \notin Final \cup {"glyph", "scroll", "goto", "place", "hide", "hidden", "window"},
         Leading(todo[1], o), Suited(o), o.op \in {"store", "load", "fetch"},
         cursor'.col = cursor.col, cursor'.row = cursor.row, cursor'.x = cursor.x, cursor'.y = cursor.y,
         cursor'.shown = cursor.shown, cursor'.blink = cursor.blink, DOMAIN cursor'.buff = DOMAIN cursor.buff,
         video_window_y' = video_window_y, DOMAIN mem' = DOMAIN mem, DOMAIN scline' = DOMAIN scline
  PROVE  Form'
<1>1. ASSUME NEW k \in 1 .. Len(s)
      PROVE  /\ Leading(todo[1], s[k]) /\ Suited(s[k])
             /\ s[k].op \in Banking \cup {"store", "load", "fetch", "draw", "serve"}
  <2>1. CASE k = Len(s)
    BY <2>1 DEF Ends
  <2>2. CASE k # Len(s)
    <3>1. k \in 1 .. Len(s) - 1
      BY <2>2 DEF Ends
    <3>2. s[k].op \in Banking
      BY <3>1 DEF Ends
    <3> QED BY <3>2 DEF Leading, Suited, Banking
  <2> QED BY <2>1, <2>2
<1> QED BY <1>1, FormKeep

LEMMA PlaceTypes ==
  ASSUME Form
  PROVE  /\ cursor.x \in Nat /\ cursor.y \in Nat /\ video_window_y \in Nat
         /\ cursor.col \in Nat /\ cursor.row \in Nat /\ cursor.row <= ROWS - 1 /\ cursor.col <= COLS
         /\ cursor.shown \in BOOLEAN /\ cursor.blink \in {0, 1}
         /\ (cursor.row + 1) * FONT_H <= HEIGHT /\ cursor.y < HEIGHT
<1>1. VTypes /\ FNT_W \in Nat \ {0} /\ FONT_H \in Nat \ {0} /\ ROWS \in Nat \ {0} /\ COLS \in Nat \ {0}
      /\ HEIGHT \in Nat \ {0}
  BY Sizes, ScreenAssumption DEF Form
<1>2. cursor.col \in Nat /\ cursor.row \in Nat /\ cursor.row <= ROWS - 1 /\ cursor.col <= COLS
  BY <1>1 DEF VTypes
<1>3. video_window_y \in Nat
  BY <1>1 DEF VTypes
<1>4. cursor.col * FNT_W \in Nat /\ (cursor.row + 1) * FONT_H \in Nat /\ (cursor.row + 1) * FONT_H >= FONT_H
  <2>1. cursor.row + 1 \in Nat \ {0}
    BY <1>2
  <2> QED BY <1>1, <1>2, <2>1, ProductGrows
<1>5. (cursor.row + 1) * FONT_H <= ROWS * FONT_H
  <2>1. (ROWS - 1) - cursor.row \in Nat
    BY <1>1, <1>2
  <2>2. ((ROWS - 1) - cursor.row) * FONT_H >= 0
    BY <1>1, <2>1
  <2>3. ((ROWS - 1) - cursor.row) * FONT_H = ROWS * FONT_H - (cursor.row + 1) * FONT_H
    BY <1>1, <1>2
  <2>4. ROWS * FONT_H \in Nat
    BY <1>1
  <2> QED BY <1>4, <2>2, <2>3, <2>4
<1>6. Moved \/ InCorner
  BY <1>1 DEF VTypes
<1>7. CASE Moved
  <2> DEFINE a == cursor.col * FNT_W
             b == (cursor.row + 1) * FONT_H
  <2>1. cursor.x = a + 1 /\ cursor.y = b - 1
    BY <1>7 DEF Moved
  <2>2. a \in Nat /\ b \in Nat /\ b >= FONT_H /\ b <= HEIGHT
    BY <1>4, <1>5 DEF HEIGHT
  <2> HIDE DEF a, b
  <2>3. cursor.x \in Nat /\ cursor.y \in Nat /\ cursor.y < HEIGHT
    BY <1>1, <2>1, <2>2
  <2> QED BY <1>1, <1>2, <1>3, <2>2, <2>3 DEF VTypes, b
<1>8. CASE InCorner
  BY <1>1, <1>2, <1>3, <1>5, <1>8 DEF InCorner, HEIGHT, VTypes
<1> QED BY <1>6, <1>7, <1>8

LEMMA HeadFits ==
  ASSUME Banked, Form, NEW op, Now(op)
  PROVE  /\ Suited(todo[1]) /\ Ordered(todo, 1) /\ Arg = todo[1] /\ todo[1].op = op
         /\ Len(todo) \in Nat \ {0} /\ todo # <<>> /\ IsSeq(todo)
BY TodoHead DEF Form, Fits

LEMMA SetPixelForm ==
  ASSUME Banked, Form, SetPixel
  PROVE  Form'
<1>1. ASSUME NEW op \in {"set", "put", "paste"}, Now(op), NEW x \in Nat, NEW y \in Nat, NEW c, SetTo(x, y, c),
             op = "put" \/ (x = Arg.x /\ y = Arg.y), op = "set" => c = Arg.c
      PROVE  Form'
  <2> DEFINE o == Op("store", x, y, c)
             s == Selected(Addr(x, y, video_window_y), o)
  <2>1. Ends(s, o)
    BY SelectedEnds
  <2>2. Suited(o) /\ Leading(todo[1], o) /\ o.op = "store"
    <3>1. Arg = todo[1] /\ todo[1].op = op
      BY <1>1, HeadFits
    <3> QED BY <1>1, <3>1 DEF Suited, Leading, Op
  <2>3. todo' = s \o Rest
    BY <1>1 DEF SetTo, Continue
  <2>4. /\ UNCHANGED <<mem, video_window_y, scline>>
        /\ cursor' = [cursor EXCEPT !.buff = Saved(x, y, c)]
        /\ DOMAIN Saved(x, y, c) = DOMAIN cursor.buff
    BY <1>1 DEF SetTo, Saved
  <2>5. Shaped
    BY DEF Banked
  <2>6. cursor'.col = cursor.col /\ cursor'.row = cursor.row /\ cursor'.x = cursor.x /\ cursor'.y = cursor.y
        /\ cursor'.shown = cursor.shown /\ cursor'.blink = cursor.blink /\ DOMAIN cursor'.buff = DOMAIN cursor.buff
    BY <2>4, <2>5 DEF Shaped
  <2> HIDE DEF s, o
  <2>7. Spliced(todo, s, todo')
    BY <1>1, <2>1, <2>3, TodoHead DEF Ends
  <2>8. todo[1].op \notin Final \cup {"glyph", "scroll", "goto", "place", "hide", "hidden", "window"}
    BY <1>1, HeadFits DEF Final
  <2> QED BY <2>1, <2>2, <2>4, <2>6, <2>7, <2>8, FormEnds
<1>2. cursor.x \in Nat /\ cursor.y \in Nat /\ Columns \subseteq Nat /\ Bars \subseteq Nat
  BY PlaceTypes DEF Columns, Bars
<1>3. CASE Now("set") /\ SetTo(Arg.x, Arg.y, Arg.c)
  <2>1. Arg.x \in Nat /\ Arg.y \in Nat
    BY <1>2, <1>3, HeadFits DEF Suited
  <2> QED BY <1>1, <1>3, <2>1
<1>4. CASE Now("put") /\ SetTo(cursor.x + Arg.x, cursor.y, cursor.buff[Arg.x])
  <2>1. Arg.x \in Nat
    BY <1>2, <1>4, HeadFits DEF Suited
  <2>2. cursor.x + Arg.x \in Nat
    BY <1>2, <2>1
  <2> QED BY <1>1, <1>2, <1>4, <2>2
<1>5. CASE Now("paste") /\ SetTo(Arg.x, Arg.y, scline[Arg.x])
  <2>1. Arg.x \in Nat /\ Arg.y \in Nat
    BY <1>2, <1>5, HeadFits DEF Suited
  <2> QED BY <1>1, <1>5, <2>1
<1> QED BY <1>3, <1>4, <1>5 DEF SetPixel

LEMMA GetPixelForm ==
  ASSUME Banked, Form, GetPixel
  PROVE  Form'
<1>1. UNCHANGED <<mem, video_window_y, cursor>> /\ DOMAIN scline' = DOMAIN scline
  BY DEF GetPixel
<1>2. ASSUME NEW op \in {"save", "copy"}, Now(op), NEW new \in {"load", "fetch"}, NEW x, NEW y, NEW c,
             Suited(Op(new, x, y, c)), Leading(todo[1], Op(new, x, y, c)),
             todo' = Fetch(new, x, y, c) \o Rest
      PROVE  Form'
  <2> DEFINE o == Op(new, x, y, c)
             s == Selected(Addr(x, y, video_window_y), o)
  <2>1. Ends(s, o) /\ o.op \in {"store", "load", "fetch"} /\ Suited(o) /\ Leading(todo[1], o)
    BY <1>2, SelectedEnds DEF Op
  <2>3. todo' = s \o Rest
    BY <1>2 DEF Fetch
  <2> HIDE DEF s, o
  <2>7. Spliced(todo, s, todo')
    BY <1>2, <2>1, <2>3, TodoHead DEF Ends
  <2>8. todo[1].op \notin Final \cup {"glyph", "scroll", "goto", "place", "hide", "hidden", "window"}
    BY <1>2, HeadFits DEF Final
  <2> QED BY <1>1, <2>1, <2>7, <2>8, FormEnds
<1>3. CASE Now("save")
  <2>1. todo[1].op = "save" /\ Arg = todo[1] /\ Suited(todo[1])
    BY <1>3, HeadFits
  <2>2. todo' = Fetch("load", cursor.x + Arg.x, cursor.y, Arg.x) \o Rest
    BY <1>3 DEF GetPixel, Continue, Now
  <2>3. /\ Suited(Op("load", cursor.x + Arg.x, cursor.y, Arg.x))
        /\ Leading(todo[1], Op("load", cursor.x + Arg.x, cursor.y, Arg.x))
    BY <2>1 DEF Suited, Leading, Op
  <2> QED BY <1>2, <1>3, <2>2, <2>3
<1>4. CASE Now("copy")
  <2>1. todo[1].op = "copy" /\ Arg = todo[1] /\ Suited(todo[1])
    BY <1>4, HeadFits
  <2>2. todo' = Fetch("fetch", Arg.x, Arg.y, Arg.x) \o Rest \/ todo' = Rest
    BY <1>4 DEF GetPixel, Continue, Now
  <2>3. /\ Suited(Op("fetch", Arg.x, Arg.y, Arg.x))
        /\ Leading(todo[1], Op("fetch", Arg.x, Arg.y, Arg.x))
    BY <2>1 DEF Suited, Leading, Op
  <2>4. CASE todo' = Rest
    <3>1. Spliced(todo, <<>>, todo')
      BY <1>4, <2>4, TodoHead
    <3>2. todo[1].op \notin Final \cup {"glyph", "scroll", "goto", "place", "hide", "hidden", "window"}
      BY <2>1 DEF Final
    <3>3. Len(<<>>) = 0
      OBVIOUS
    <3> QED BY <1>1, <3>1, <3>2, <3>3, FormKeep
  <2> QED BY <1>2, <1>4, <2>2, <2>3, <2>4
<1> QED BY <1>3, <1>4 DEF GetPixel

LEMMA SelectBankForm ==
  ASSUME Banked, Form, SelectBank
  PROVE  Form'
<1>1. UNCHANGED <<mem, video_window_y, cursor, scline>> /\ todo' = Rest
  BY DEF SelectBank, Continue
<1>2. PICK op \in {"select", "record"} : Now(op)
  BY DEF SelectBank
<1>3. Spliced(todo, <<>>, todo') /\ todo[1].op = op /\ Len(<<>>) = 0
  BY <1>1, <1>2, TodoHead
<1>4. todo[1].op \notin Final \cup {"glyph", "scroll", "goto", "place", "hide", "hidden", "window"}
  BY <1>3 DEF Final
<1> QED BY <1>1, <1>3, <1>4, FormKeep

LEMMA AccessForm ==
  ASSUME Banked, Form, Access
  PROVE  Form'
<1>1. PICK op \in {"store", "load", "fetch"} : Now(op)
  BY DEF Access
<1>2. Spliced(todo, <<>>, todo') /\ todo[1].op = op /\ Len(<<>>) = 0
  BY <1>1, TodoHead DEF Access, Continue
<1>3. Suited(todo[1]) /\ Arg = todo[1] /\ Shaped /\ VTypes
  BY <1>1, HeadFits DEF Banked, Form
<1>4. video_window_y' = video_window_y /\ DOMAIN mem' = DOMAIN mem
  BY DEF Access
<1>5. DOMAIN scline' = DOMAIN scline
  BY DEF Access
<1>6. cursor' = cursor \/ \E v : cursor' = [cursor EXCEPT !.buff = v] /\ DOMAIN v = DOMAIN cursor.buff
  BY DEF Access
<1>7. cursor'.col = cursor.col /\ cursor'.row = cursor.row /\ cursor'.x = cursor.x /\ cursor'.y = cursor.y
      /\ cursor'.shown = cursor.shown /\ cursor'.blink = cursor.blink /\ DOMAIN cursor'.buff = DOMAIN cursor.buff
  BY <1>3, <1>6 DEF Shaped
<1>8. todo[1].op \notin Final \cup {"glyph", "scroll", "goto", "place", "hide", "hidden", "window"}
  BY <1>2 DEF Final
<1> QED BY <1>2, <1>4, <1>5, <1>7, <1>8, FormKeep

-----------------------------------------------------------------------------
(* What the operations of a call are made of.                              *)
LEMMA Grid ==
  ASSUME NEW xs \in Nat \ {0}, NEW ys \in Nat
  PROVE  /\ \A k \in 1 .. xs * ys : (k - 1) % xs \in 0 .. xs - 1 /\ (k - 1) \div xs \in 0 .. ys - 1
         /\ \A i \in 0 .. xs - 1, j \in 0 .. ys - 1 :
              /\ j * xs + i + 1 \in 1 .. xs * ys
              /\ (j * xs + i) % xs = i /\ (j * xs + i) \div xs = j
<1>1. ASSUME NEW k \in 1 .. xs * ys
      PROVE  (k - 1) % xs \in 0 .. xs - 1 /\ (k - 1) \div xs \in 0 .. ys - 1
  <2> DEFINE a == k - 1
             d == a \div xs
             r == a % xs
  <2>1. a \in Nat /\ a < xs * ys
    OBVIOUS
  <2>2. d \in Nat /\ a = d * xs + r /\ r \in 0 .. xs - 1
    BY <2>1, DivMod, ModBound
  <2> HIDE DEF d, r
  <2>3. d * xs < ys * xs
    <3>1. ys * xs = xs * ys /\ d * xs \in Nat /\ xs * ys \in Nat
      BY <2>2
    <3> QED BY <2>1, <2>2, <3>1
  <2>4. d < ys
    BY <2>2, <2>3, ProductCancels
  <2> QED BY <2>2, <2>4 DEF d, r
<1>2. ASSUME NEW i \in 0 .. xs - 1, NEW j \in 0 .. ys - 1
      PROVE  /\ j * xs + i + 1 \in 1 .. xs * ys
             /\ (j * xs + i) % xs = i /\ (j * xs + i) \div xs = j
  <2>1. j \in Nat /\ ys - 1 - j \in Nat /\ ys - j \in Nat \ {0}
    OBVIOUS
  <2>2. (j * xs + i) % xs = i /\ (j * xs + i) \div xs = j
    BY <2>1, DivModUnique
  <2>3. (ys - j) * xs >= xs
    BY <2>1, ProductGrows
  <2>4. (ys - j) * xs = ys * xs - j * xs /\ ys * xs = xs * ys /\ j * xs \in Nat
    BY <2>1
  <2>5. j * xs + xs <= xs * ys
    BY <2>3, <2>4
  <2> QED BY <2>2, <2>4, <2>5
<1> QED BY <1>1, <1>2

LEMMA BarOps ==
  ASSUME NEW op
  PROVE  /\ IsSeq(Bar(op)) /\ Len(Bar(op)) = BAR /\ IsSeq(<<>>) /\ Len(<<>>) = 0
         /\ \A k \in 1 .. BAR : Bar(op)[k] = Op(op, k - 1, 0, 0) /\ k - 1 \in Bars
         /\ \A i \in Bars : i + 1 \in 1 .. BAR /\ Bar(op)[i + 1] = Op(op, i, 0, 0)
<1> DEFINE f == [i \in 1 .. BAR |-> Op(op, i - 1, 0, 0)]
<1>1. /\ f = [k \in 1 .. BAR |-> f[k]]
      /\ \A k \in 1 .. BAR : f[k] = Op(op, k - 1, 0, 0)
  OBVIOUS
<1>2. BAR \in Nat \ {0}
  BY Sizes
<1> HIDE DEF f
<1>3. IsSeq(f) /\ Len(f) = BAR
  BY <1>1, <1>2, SeqFun
<1>4. \A i \in Bars : i + 1 \in 1 .. BAR /\ f[i + 1] = Op(op, i, 0, 0)
  <2> SUFFICES ASSUME NEW i \in Bars
               PROVE  i + 1 \in 1 .. BAR /\ f[i + 1] = Op(op, i, 0, 0)
    OBVIOUS
  <2>1. i + 1 \in 1 .. BAR /\ (i + 1) - 1 = i
    BY <1>2 DEF Bars
  <2> QED BY <1>1, <2>1
<1>5. \A k \in 1 .. BAR : k - 1 \in Bars
  BY <1>2 DEF Bars
<1>6. IsSeq(<<>>) /\ Len(<<>>) = 0
  BY PlainOp, PlainsOne DEF PlainOps, Plains
<1>7. Bar(op) = f
  BY DEF Bar, f
<1> QED BY <1>1, <1>3, <1>4, <1>5, <1>6, <1>7

(* The pixels of a character.                                              *)
LEMMA CharOps ==
  ASSUME NEW x, NEW y, NEW c
  PROVE  LET s == video_draw_char(x, y, c)
         IN  /\ IsSeq(s) /\ Len(s) \in Nat
             /\ \A k \in 1 .. Len(s) :
                  \E i \in 0 .. FNT_W - 1, j \in 0 .. FONT_H - 1 :
                    s[k] = Put(x + i, y + j, IF <<i, j>> \in Glyph[c] THEN TEXT ELSE BACK)
             /\ \A i \in 0 .. FNT_W - 1, j \in 0 .. FONT_H - 1 :
                  \E k \in 1 .. Len(s) :
                    s[k] = Put(x + i, y + j, IF <<i, j>> \in Glyph[c] THEN TEXT ELSE BACK)
<1> DEFINE s == video_draw_char(x, y, c)
           n == FNT_W * FONT_H
           P(i, j) == Put(x + i, y + j, IF <<i, j>> \in Glyph[c] THEN TEXT ELSE BACK)
<1>1. s = [k \in 1 .. n |-> P((k - 1) % FNT_W, (k - 1) \div FNT_W)]
  BY DEF video_draw_char, Area
<1> HIDE DEF s, P
<1>2. /\ s = [k \in 1 .. n |-> s[k]]
      /\ \A k \in 1 .. n : s[k] = P((k - 1) % FNT_W, (k - 1) \div FNT_W)
  BY <1>1
<1>3. IsSeq(s) /\ Len(s) = n
  BY <1>2, Sizes, SeqFun
<1>4. \A k \in 1 .. n : \E i \in 0 .. FNT_W - 1, j \in 0 .. FONT_H - 1 : s[k] = P(i, j)
  <2> SUFFICES ASSUME NEW k \in 1 .. n
               PROVE  \E i \in 0 .. FNT_W - 1, j \in 0 .. FONT_H - 1 : s[k] = P(i, j)
    OBVIOUS
  <2>1. (k - 1) % FNT_W \in 0 .. FNT_W - 1 /\ (k - 1) \div FNT_W \in 0 .. FONT_H - 1
    BY Sizes, Grid
  <2> QED BY <1>2, <2>1
<1>5. ASSUME NEW i \in 0 .. FNT_W - 1, NEW j \in 0 .. FONT_H - 1
      PROVE  \E k \in 1 .. n : s[k] = P(i, j)
  <2> DEFINE k == j * FNT_W + i + 1
  <2>1. k \in 1 .. n /\ (j * FNT_W + i) % FNT_W = i /\ (j * FNT_W + i) \div FNT_W = j
    BY Sizes, Grid
  <2>2. k - 1 = j * FNT_W + i
    BY Sizes
  <2> HIDE DEF k
  <2>3. s[k] = P((k - 1) % FNT_W, (k - 1) \div FNT_W)
    BY <1>2, <2>1
  <2>4. s[k] = P(i, j)
    BY <2>1, <2>2, <2>3
  <2> QED BY <2>1, <2>4
<1>6. Len(s) \in Nat /\ 1 .. Len(s) = 1 .. n
  BY <1>3, Sizes
<1> QED BY <1>3, <1>4, <1>5, <1>6 DEF s, P

(* u is s and r behind each other.                                         *)
Joined(s, r, u) ==
  /\ IsSeq(u) /\ Len(s) \in Nat /\ Len(r) \in Nat /\ Len(u) = Len(s) + Len(r)
  /\ \A k \in 1 .. Len(s) : u[k] = s[k]
  /\ \A k \in 1 .. Len(r) : u[Len(s) + k] = r[k]
  /\ \A k \in 1 .. Len(u) : \/ k \in 1 .. Len(s) /\ u[k] = s[k]
                            \/ k - Len(s) \in 1 .. Len(r) /\ u[k] = r[k - Len(s)]
LEMMA ConcatOps ==
  ASSUME NEW s, IsSeq(s), NEW r, IsSeq(r)
  PROVE  Joined(s, r, s \o r)
<1> DEFINE u == s \o r
<1>1. /\ IsSeq(u) /\ Len(u) = Len(s) + Len(r)
      /\ \A k \in 1 .. Len(s) + Len(r) : u[k] = IF k <= Len(s) THEN s[k] ELSE r[k - Len(s)]
  BY SeqConcat
<1>2. Len(s) \in Nat /\ Len(r) \in Nat
  BY SeqLen
<1> HIDE DEF u
<1>3. \A k \in 1 .. Len(s) : u[k] = s[k]
  BY <1>1, <1>2
<1>4. ASSUME NEW k \in 1 .. Len(r)
      PROVE  u[Len(s) + k] = r[k]
  <2> DEFINE q == Len(s) + k
  <2>1. q \in 1 .. Len(s) + Len(r) /\ ~(q <= Len(s)) /\ q - Len(s) = k
    BY <1>2
  <2> HIDE DEF q
  <2>2. u[q] = r[q - Len(s)]
    BY <1>1, <2>1
  <2> QED BY <2>1, <2>2 DEF q
<1>5. ASSUME NEW k \in 1 .. Len(u)
      PROVE  \/ k \in 1 .. Len(s) /\ u[k] = s[k]
             \/ k - Len(s) \in 1 .. Len(r) /\ u[k] = r[k - Len(s)]
  BY <1>1, <1>2
<1>6. Joined(s, r, u)
  BY <1>1, <1>2, <1>3, <1>4, <1>5 DEF Joined
<1> QED BY <1>6 DEF u

(* The lines that become free.                                             *)
Blanks == [k \in 1 .. FONT_H * WIDTH |-> Put((k - 1) \div FONT_H, HEIGHT + ((k - 1) % FONT_H), BACK)]
LEMMA BlankOps ==
  /\ IsSeq(Blanks) /\ Len(Blanks) \in Nat
  /\ \A k \in 1 .. Len(Blanks) :
       \E i \in Columns, j \in 0 .. FONT_H - 1 : Blanks[k] = Put(i, HEIGHT + j, BACK)
  /\ \A i \in Columns, j \in 0 .. FONT_H - 1 :
       \E k \in 1 .. Len(Blanks) : Blanks[k] = Put(i, HEIGHT + j, BACK)
<1> DEFINE n == FONT_H * WIDTH
<1>1. /\ Blanks = [k \in 1 .. n |-> Blanks[k]]
      /\ \A k \in 1 .. n : Blanks[k] = Put((k - 1) \div FONT_H, HEIGHT + ((k - 1) % FONT_H), BACK)
  BY DEF Blanks
<1>2. IsSeq(Blanks) /\ Len(Blanks) = n
  BY <1>1, Sizes, SeqFun
<1>3. \A k \in 1 .. n : \E i \in Columns, j \in 0 .. FONT_H - 1 : Blanks[k] = Put(i, HEIGHT + j, BACK)
  <2> SUFFICES ASSUME NEW k \in 1 .. n
               PROVE  \E i \in Columns, j \in 0 .. FONT_H - 1 : Blanks[k] = Put(i, HEIGHT + j, BACK)
    OBVIOUS
  <2>1. (k - 1) % FONT_H \in 0 .. FONT_H - 1 /\ (k - 1) \div FONT_H \in Columns
    BY Sizes, Grid DEF Columns
  <2> QED BY <1>1, <2>1
<1>4. ASSUME NEW i \in Columns, NEW j \in 0 .. FONT_H - 1
      PROVE  \E k \in 1 .. n : Blanks[k] = Put(i, HEIGHT + j, BACK)
  <2> DEFINE k == i * FONT_H + j + 1
  <2>1. k \in 1 .. n /\ (i * FONT_H + j) % FONT_H = j /\ (i * FONT_H + j) \div FONT_H = i
    BY Sizes, Grid DEF Columns
  <2>2. k - 1 = i * FONT_H + j
    BY Sizes DEF Columns
  <2> HIDE DEF k
  <2>3. Blanks[k] = Put((k - 1) \div FONT_H, HEIGHT + ((k - 1) % FONT_H), BACK)
    BY <1>1, <2>1
  <2> QED BY <2>1, <2>2, <2>3
<1>5. Len(Blanks) \in Nat /\ 1 .. Len(Blanks) = 1 .. n
  BY <1>2, Sizes
<1> QED BY <1>2, <1>3, <1>4, <1>5

(* The lines that are copied: line j of the window at v, pixel by pixel    *)
(* to the line, and from there to the start of the memory.                 *)
LEMMA ResetOps ==
  ASSUME NEW v
  PROVE  LET s == ResetWindow(v)
             w == 2 * WIDTH
             h == HEIGHT - FONT_H
         IN  /\ IsSeq(s) /\ Len(s) = 1 + w * h /\ w \in Nat \ {0} /\ h \in Nat
             /\ s[1] = Op("window", 0, 0, 0)
             /\ \A k \in 2 .. Len(s) : /\ (k - 2) % w \in 0 .. w - 1 /\ (k - 2) \div w \in 0 .. h - 1
                                       /\ s[k] = CopyLine((k - 2) % w, FONT_H + ((k - 2) \div w), v)
<1> DEFINE w == 2 * WIDTH
           h == HEIGHT - FONT_H
           n == w * h
           f == [k \in 1 .. n |-> CopyLine((k - 1) % w, FONT_H + ((k - 1) \div w), v)]
           o == Op("window", 0, 0, 0)
<1>1. /\ f = [k \in 1 .. n |-> f[k]]
      /\ \A k \in 1 .. n : f[k] = CopyLine((k - 1) % w, FONT_H + ((k - 1) \div w), v)
  OBVIOUS
<1>2. ResetWindow(v) = <<o>> \o f
  BY DEF ResetWindow, Area
<1>3. w \in Nat \ {0} /\ h \in Nat /\ n \in Nat
  BY Sizes
<1> HIDE DEF f, o
<1>4. IsSeq(f) /\ Len(f) = n
  BY <1>1, <1>3, SeqFun
<1>5. <<o>> \in Seq({o}) /\ Len(<<o>>) = 1 /\ <<o>>[1] = o
  OBVIOUS
<1> DEFINE g == <<o>>
<1>6. IsSeq(g) /\ Len(g) = 1 /\ g[1] = o
  BY <1>5, SeqOver
<1> HIDE DEF g
<1> DEFINE s == g \o f
<1>7. /\ IsSeq(s) /\ Len(s) = 1 + n /\ s[1] = o
      /\ \A k \in 1 .. n : s[1 + k] = f[k]
  <2>1. Joined(g, f, s)
    BY <1>4, <1>6, ConcatOps
  <2> HIDE DEF s, n
  <2> QED BY <1>4, <1>6, <2>1 DEF Joined
<1> HIDE DEF s
<1>8. ASSUME NEW k \in 2 .. Len(s)
      PROVE  /\ (k - 2) % w \in 0 .. w - 1 /\ (k - 2) \div w \in 0 .. h - 1
             /\ s[k] = CopyLine((k - 2) % w, FONT_H + ((k - 2) \div w), v)
  <2> DEFINE m == k - 1
  <2>1. m \in 1 .. n /\ k = 1 + m /\ m - 1 = k - 2
    <3>1. n \in Nat /\ Len(s) = 1 + n
      BY <1>3, <1>7
    <3> HIDE DEF n
    <3> QED BY <3>1
  <2> HIDE DEF m
  <2>2. (m - 1) % w \in 0 .. w - 1 /\ (m - 1) \div w \in 0 .. h - 1
    BY <1>3, <2>1, Grid
  <2>3. s[k] = f[m] /\ f[m] = CopyLine((m - 1) % w, FONT_H + ((m - 1) \div w), v)
    BY <1>1, <1>7, <2>1
  <2> QED BY <2>1, <2>2, <2>3
<1>9. ResetWindow(v) = s
  BY <1>2 DEF s, g
<1> QED BY <1>3, <1>7, <1>8, <1>9 DEF o

(* A line feed on the last row.                                            *)
LineFeed(R) == R \o Blanks \o <<Do("scroll"), Op("fast", 0, ROWS - 1, 0)>>
LEMMA ScrollOps ==
  ASSUME NEW R, IsSeq(R)
  PROVE  LET S == LineFeed(R)
             m == Len(R)
             b == Len(Blanks)
         IN  /\ IsSeq(S) /\ m \in Nat /\ b \in Nat /\ Len(S) = m + b + 2
             /\ \A k \in 1 .. Len(S) : \/ k \in 1 .. m /\ S[k] = R[k]
                                       \/ k - m \in 1 .. b /\ S[k] = Blanks[k - m]
                                       \/ k = Len(S) - 1 /\ S[k] = Do("scroll")
                                       \/ k = Len(S) /\ S[k] = Op("fast", 0, ROWS - 1, 0)
             /\ \A k \in 1 .. m : S[k] = R[k]
             /\ \A k \in 1 .. b : S[m + k] = Blanks[k]
             /\ S[Len(S) - 1] = Do("scroll") /\ S[Len(S)] = Op("fast", 0, ROWS - 1, 0)
<1> DEFINE b == Len(Blanks)
           m == Len(R)
           p == Do("scroll")
           q == Op("fast", 0, ROWS - 1, 0)
           L == <<p, q>>
           Q == R \o Blanks
           S == Q \o L
<1>1. IsSeq(Blanks) /\ Len(Blanks) = b /\ b \in Nat
  BY BlankOps
<1> HIDE DEF p, q, b
<1>2. L \in Seq({p, q}) /\ Len(L) = 2 /\ L[1] = p /\ L[2] = q
  OBVIOUS
<1> HIDE DEF L
<1>3. IsSeq(L) /\ Len(L) = 2 /\ L[1] = p /\ L[2] = q
  BY <1>2, SeqOver
<1>4. Joined(R, Blanks, Q)
  BY <1>1, ConcatOps
<1>5. Joined(Q, L, S)
  <2>1. IsSeq(Q)
    BY <1>4 DEF Joined
  <2> QED BY <1>3, <2>1, ConcatOps
<1> HIDE DEF Q, S
<1>6. m \in Nat /\ Len(Q) = m + b /\ Len(S) = m + b + 2
  BY <1>1, <1>3, <1>4, <1>5 DEF Joined
<1>7. S[Len(S) - 1] = p /\ S[Len(S)] = q
  <2>1. S[Len(Q) + 1] = L[1] /\ S[Len(Q) + 2] = L[2]
    BY <1>3, <1>5 DEF Joined
  <2>2. Len(S) - 1 = Len(Q) + 1 /\ Len(S) = Len(Q) + 2
    BY <1>1, <1>6
  <2> QED BY <1>3, <2>1, <2>2
<1>8. ASSUME NEW k \in 1 .. m
      PROVE  S[k] = R[k]
  <2>1. k \in 1 .. Len(Q)
    BY <1>1, <1>6
  <2> QED BY <1>4, <1>5, <2>1 DEF Joined
<1>9. ASSUME NEW k \in 1 .. b
      PROVE  S[m + k] = Blanks[k]
  <2>1. m + k \in 1 .. Len(Q) /\ k \in 1 .. Len(Blanks)
    BY <1>1, <1>6
  <2> QED BY <1>4, <1>5, <2>1 DEF Joined
<1>10. ASSUME NEW k \in 1 .. Len(S)
       PROVE  \/ k \in 1 .. m /\ S[k] = R[k]
              \/ k - m \in 1 .. b /\ S[k] = Blanks[k - m]
              \/ k = Len(S) - 1 /\ S[k] = p
              \/ k = Len(S) /\ S[k] = q
  <2>1. CASE k \in 1 .. Len(Q) /\ S[k] = Q[k]
    BY <1>1, <1>4, <2>1 DEF Joined
  <2>2. CASE k - Len(Q) \in 1 .. Len(L) /\ S[k] = L[k - Len(Q)]
    <3>1. k = Len(S) - 1 \/ k = Len(S)
      BY <1>1, <1>3, <1>6, <2>2
    <3> QED BY <1>7, <3>1
  <2> QED BY <1>5, <2>1, <2>2 DEF Joined
<1>11. IsSeq(S)
  BY <1>5 DEF Joined
<1> QED BY <1>1, <1>6, <1>7, <1>8, <1>9, <1>10, <1>11 DEF S, Q, L, p, q, b, LineFeed

(* Where update_cursor_after_char leads.                                   *)
Reset == IF video_window_y > 2 * HEIGHT THEN ResetWindow(video_window_y) ELSE <<>>
LEMMA AfterLeads ==
  ASSUME Form, ~Full, NEW c
  PROVE  \/ \E x \in 0 .. COLS, y \in 0 .. ROWS - 1 :
              update_cursor_after_char(c) = <<Op("fast", x, y, 0)>>
         \/ /\ c = NL /\ cursor.row = ROWS - 1
            /\ update_cursor_after_char(c) = LineFeed(Reset)
<1> DEFINE n == NextPlace(c)
           f == [k \in 1 .. FONT_H * WIDTH |-> Put((k - 1) \div FONT_H, HEIGHT + ((k - 1) % FONT_H), BACK)]
<1>1. /\ cursor.col \in Nat /\ cursor.row \in Nat /\ cursor.row <= ROWS - 1 /\ cursor.col <= COLS - 1
      /\ COLS \in Nat \ {0} /\ ROWS \in Nat \ {0}
  <2>1. COLS \in Nat \ {0} /\ ROWS \in Nat \ {0} /\ cursor.col # COLS
    BY ScreenAssumption DEF Full
  <2> QED BY <2>1, PlaceTypes
<1>2. /\ c = NL => n = <<cursor.col, cursor.row + 1>>
      /\ c = CR => n = <<0, cursor.row>>
      /\ c # NL /\ c # CR => n = <<cursor.col + 1, cursor.row>>
  <2>1. CASE c = NL
    BY <1>1, <2>1 DEF NextPlace, NL, CR
  <2>2. CASE c = CR
    BY <1>1, <2>2 DEF NextPlace, NL, CR
  <2>3. CASE c # NL /\ c # CR
    BY <1>1, <2>3 DEF NextPlace, NL, CR
  <2> QED BY <2>1, <2>2, <2>3
<1>3. update_cursor_after_char(c) =
        IF n[2] <= ROWS - 1 THEN <<Op("fast", n[1], n[2], 0)>>
        ELSE Reset \o f \o <<Do("scroll"), Op("fast", 0, ROWS - 1, 0)>>
  BY DEF update_cursor_after_char, Area, Reset
<1>4. f = Blanks
  BY DEF Blanks
<1> HIDE DEF f, n
<1>5. CASE n[2] <= ROWS - 1
  <2>1. n[1] \in 0 .. COLS /\ n[2] \in 0 .. ROWS - 1
    BY <1>1, <1>2, <1>5
  <2> QED BY <1>3, <1>5, <2>1
<1>6. CASE ~(n[2] <= ROWS - 1)
  <2>1. c = NL /\ cursor.row = ROWS - 1
    BY <1>1, <1>2, <1>6
  <2> QED BY <1>3, <1>4, <1>6, <2>1 DEF LineFeed
<1> QED BY <1>5, <1>6

(* The whole screen is cleared with the cursor hidden.                     *)
LEMMA ClearOps ==
  LET u == video_clear_screen
  IN  /\ IsSeq(u) /\ Len(u) \in Nat /\ Len(u) >= 3 /\ u[1] = Do("hide")
      /\ \A k \in 1 .. Len(u) :
           \/ k = 1 /\ u[k] = Do("hide")
           \/ k = 2 /\ u[k] = Op("window", 0, 0, 0)
           \/ k > 2 /\ \E i \in Columns, j \in 0 .. HEIGHT - 1 : u[k] = Put(i, j, BACK)
           \/ k > 2 /\ u[k] = Op("goto", 0, 0, 0)
           \/ k = Len(u) /\ u[k] = Do("show")
      /\ u[Len(u)] = Op("goto", 0, 0, 0) \/ u[Len(u)] = Do("show")
<1> DEFINE n == WIDTH * HEIGHT
           f == [k \in 1 .. n |-> Put((k - 1) % WIDTH, (k - 1) \div WIDTH, BACK)]
           a == Do("hide")
           b == Op("window", 0, 0, 0)
           g == Op("goto", 0, 0, 0)
           o == Do("show")
           goto == <<g>>
           show == IF cursor.shown THEN <<o>> ELSE <<>>
           first == <<a, b>>
<1>1. /\ f = [k \in 1 .. n |-> f[k]]
      /\ \A k \in 1 .. n : f[k] = Put((k - 1) % WIDTH, (k - 1) \div WIDTH, BACK)
  OBVIOUS
<1>2. video_clear_screen = first \o f \o goto \o show
  BY DEF video_clear_screen, Area
<1> HIDE DEF f, a, b, g, o
<1>3. IsSeq(f) /\ Len(f) = n /\ n \in Nat
  BY <1>1, Sizes, SeqFun
<1>4. \A k \in 1 .. n : \E i \in Columns, j \in 0 .. HEIGHT - 1 : f[k] = Put(i, j, BACK)
  <2> SUFFICES ASSUME NEW k \in 1 .. n
               PROVE  \E i \in Columns, j \in 0 .. HEIGHT - 1 : f[k] = Put(i, j, BACK)
    OBVIOUS
  <2>1. (k - 1) % WIDTH \in Columns /\ (k - 1) \div WIDTH \in 0 .. HEIGHT - 1
    BY Sizes, Grid DEF Columns
  <2> QED BY <1>1, <2>1
<1>5. first \in Seq({a, b}) /\ Len(first) = 2 /\ first[1] = a /\ first[2] = b
  OBVIOUS
<1>6. goto \in Seq({g}) /\ Len(goto) = 1 /\ goto[1] = g
  OBVIOUS
<1>7. <<o>> \in Seq({o}) /\ Len(<<o>>) = 1 /\ <<o>>[1] = o
  OBVIOUS
<1>8. IsSeq(<<>>) /\ Len(<<>>) = 0
  BY BarOps
<1> HIDE DEF first, goto
<1>9. IsSeq(first) /\ IsSeq(goto) /\ IsSeq(<<o>>)
  BY <1>5, <1>6, <1>7, SeqOver
<1>10. IsSeq(show) /\ (Len(show) = 0 \/ (Len(show) = 1 /\ show[1] = o))
  BY <1>7, <1>8, <1>9
<1> HIDE DEF show
<1> DEFINE s == first \o f
           t == s \o goto
           u == t \o show
<1>11. /\ IsSeq(s) /\ Len(s) = 2 + n /\ s[1] = a
       /\ \A k \in 1 .. Len(s) : (k = 1 /\ s[k] = a) \/ (k = 2 /\ s[k] = b)
                                  \/ (k > 2 /\ \E i \in Columns, j \in 0 .. HEIGHT - 1 : s[k] = Put(i, j, BACK))
  <2>0. Joined(first, f, s)
    BY <1>3, <1>9, ConcatOps
  <2> HIDE DEF s, n
  <2>1. /\ IsSeq(s) /\ Len(s) = Len(first) + Len(f)
        /\ \A k \in 1 .. Len(first) : s[k] = first[k]
        /\ \A k \in 1 .. Len(s) : \/ k \in 1 .. Len(first) /\ s[k] = first[k]
                                  \/ k - Len(first) \in 1 .. Len(f) /\ s[k] = f[k - Len(first)]
    BY <2>0 DEF Joined
  <2>2. s[1] = a
    BY <1>5, <2>1
  <2>3. ASSUME NEW k \in 1 .. Len(s)
        PROVE  (k = 1 /\ s[k] = a) \/ (k = 2 /\ s[k] = b)
                 \/ (k > 2 /\ \E i \in Columns, j \in 0 .. HEIGHT - 1 : s[k] = Put(i, j, BACK))
    <3>1. CASE k \in 1 .. Len(first) /\ s[k] = first[k]
      BY <1>5, <3>1
    <3>2. CASE k - Len(first) \in 1 .. Len(f) /\ s[k] = f[k - Len(first)]
      <4>1. k - 2 \in 1 .. n /\ s[k] = f[k - 2] /\ k > 2
        BY <1>3, <1>5, <3>2
      <4> QED BY <1>4, <4>1
    <3> QED BY <2>1, <3>1, <3>2
  <2> QED BY <1>3, <1>5, <2>1, <2>2, <2>3
<1> HIDE DEF s, n
<1>12. /\ IsSeq(t) /\ Len(t) = 3 + n /\ t[1] = a /\ t[Len(t)] = g
       /\ \A k \in 1 .. Len(t) : (k \in 1 .. Len(s) /\ t[k] = s[k]) \/ (k > 2 /\ t[k] = g)
  <2>0. Joined(s, goto, t)
    BY <1>9, <1>11, ConcatOps
  <2> HIDE DEF t
  <2>1. /\ IsSeq(t) /\ Len(t) = Len(s) + Len(goto)
        /\ \A k \in 1 .. Len(s) : t[k] = s[k]
        /\ \A k \in 1 .. Len(goto) : t[Len(s) + k] = goto[k]
        /\ \A k \in 1 .. Len(t) : \/ k \in 1 .. Len(s) /\ t[k] = s[k]
                                  \/ k - Len(s) \in 1 .. Len(goto) /\ t[k] = goto[k - Len(s)]
    BY <2>0 DEF Joined
  <2>2. Len(t) = 3 + n /\ t[Len(t)] = g /\ t[1] = a
    BY <1>3, <1>6, <1>11, <2>1
  <2>3. ASSUME NEW k \in 1 .. Len(t)
        PROVE  (k \in 1 .. Len(s) /\ t[k] = s[k]) \/ (k > 2 /\ t[k] = g)
    <3>1. CASE k - Len(s) \in 1 .. Len(goto) /\ t[k] = goto[k - Len(s)]
      <4>1. k - Len(s) = 1 /\ k > 2
        BY <1>3, <1>6, <1>11, <3>1
      <4> QED BY <1>6, <3>1, <4>1
    <3> QED BY <2>1, <3>1
  <2> QED BY <2>1, <2>2, <2>3
<1> HIDE DEF t
<1>13. /\ IsSeq(u) /\ Len(u) = Len(t) + Len(show) /\ u[1] = a
       /\ u[Len(u)] = g \/ u[Len(u)] = o
       /\ \A k \in 1 .. Len(u) : (k \in 1 .. Len(t) /\ u[k] = t[k]) \/ (k = Len(u) /\ u[k] = o)
  <2>0. Joined(t, show, u)
    BY <1>10, <1>12, ConcatOps
  <2> HIDE DEF u
  <2>1. /\ IsSeq(u) /\ Len(u) = Len(t) + Len(show)
        /\ \A k \in 1 .. Len(t) : u[k] = t[k]
        /\ \A k \in 1 .. Len(show) : u[Len(t) + k] = show[k]
        /\ \A k \in 1 .. Len(u) : \/ k \in 1 .. Len(t) /\ u[k] = t[k]
                                  \/ k - Len(t) \in 1 .. Len(show) /\ u[k] = show[k - Len(t)]
    BY <2>0 DEF Joined
  <2>2. u[1] = a
    BY <1>3, <1>12, <2>1
  <2>3. u[Len(u)] = g \/ u[Len(u)] = o
    <3>1. CASE Len(show) = 0
      BY <1>3, <1>12, <2>1, <3>1
    <3>2. CASE Len(show) = 1 /\ show[1] = o
      BY <1>3, <1>12, <2>1, <3>2
    <3> QED BY <1>10, <3>1, <3>2
  <2>4. ASSUME NEW k \in 1 .. Len(u)
        PROVE  (k \in 1 .. Len(t) /\ u[k] = t[k]) \/ (k = Len(u) /\ u[k] = o)
    <3>1. CASE k - Len(t) \in 1 .. Len(show) /\ u[k] = show[k - Len(t)]
      <4>1. Len(show) # 0
        BY <3>1
      <4>2. Len(show) = 1 /\ show[1] = o
        BY <1>10, <4>1
      <4>3. k - Len(t) = 1 /\ k = Len(t) + 1
        BY <1>3, <1>12, <3>1, <4>2
      <4> QED BY <2>1, <3>1, <4>2, <4>3
    <3> QED BY <2>1, <3>1
  <2> QED BY <2>1, <2>2, <2>3, <2>4
<1> HIDE DEF u
<1>14. Len(u) \in Nat /\ Len(u) >= 3
  BY <1>3, <1>10, <1>12, <1>13
<1>15. ASSUME NEW k \in 1 .. Len(u)
       PROVE  \/ k = 1 /\ u[k] = a
              \/ k = 2 /\ u[k] = b
              \/ k > 2 /\ \E i \in Columns, j \in 0 .. HEIGHT - 1 : u[k] = Put(i, j, BACK)
              \/ k > 2 /\ u[k] = g
              \/ k = Len(u) /\ u[k] = o
  <2>1. CASE k = Len(u) /\ u[k] = o
    BY <2>1
  <2>2. CASE k \in 1 .. Len(t) /\ u[k] = t[k]
    <3>1. CASE k \in 1 .. Len(s) /\ t[k] = s[k]
      BY <1>11, <2>2, <3>1
    <3>2. CASE k > 2 /\ t[k] = g
      BY <2>2, <3>2
    <3> QED BY <1>12, <2>2, <3>1, <3>2
  <2> QED BY <1>13, <2>1, <2>2
<1>16. video_clear_screen = u
  BY <1>2 DEF u, t, s
<1> QED BY <1>13, <1>14, <1>15, <1>16 DEF a, b, g, o

-----------------------------------------------------------------------------
(* A call that begins or comes to its last operation.                      *)
LEMMA FormFresh ==
  ASSUME VTypes', Fits', ~Scrolling(todo'),
         Len(todo') >= 1 => todo'[Len(todo')].op # "shown",
         Len(todo') >= 1 => (todo'[Len(todo')].op = "after" => Has(todo', {"glyph"}))
  PROVE  Form'
<1>1. Alone(todo)' /\ Drawn(todo)' /\ Scrolled(todo)'
  BY DEF Alone, Drawn, Scrolled, Emitting
<1> QED BY <1>1 DEF Form

LEMMA FormNone ==
  ASSUME VTypes', todo' = <<>>
  PROVE  Form'
<1>1. Len(<<>>) = 0
  OBVIOUS
<1>2. Fits'
  <2>1. \A k \in 1 .. Len(todo') : FALSE
    BY <1>1
  <2> QED BY <2>1 DEF Fits
<1>3. ~Scrolling(todo')
  BY <1>1 DEF Scrolling, Has
<1>4. ~(Len(todo') >= 1)
  BY <1>1
<1> QED BY <1>2, <1>3, <1>4, FormFresh

(* Steps that lead to others.                                              *)
LEMMA DrawCharForm ==
  ASSUME Banked, Form, draw_char
  PROVE  Form'
<1>1. UNCHANGED <<mem, video_window_y, cursor, scline>>
  BY DEF draw_char
<1>2. PICK now \in {"draw", "serve"} : Now(now)
  BY DEF draw_char
<1>3. PICK op \in {"draw", "serve"} : todo' = <<[Arg EXCEPT !.op = op]>> \o Rest
  BY DEF draw_char, Continue
<1>4. Arg = todo[1] /\ todo[1].op = now /\ IsOp(Arg)
  <2>1. now \in PlainOps
    BY DEF PlainOps
  <2> QED BY <1>2, <2>1, HeadFits, AtPlain
<1> DEFINE o == [Arg EXCEPT !.op = op]
<1>5. o.op = op
  BY <1>4 DEF IsOp, Op
<1> HIDE DEF o
<1>6. <<o>> \in Seq({o}) /\ Len(<<o>>) = 1 /\ <<o>>[1] = o
  OBVIOUS
<1> DEFINE s == <<o>>
<1>7. IsSeq(s) /\ Len(s) = 1 /\ s[1] = o
  BY <1>6, SeqOver
<1>8. todo' = s \o Rest
  BY <1>3 DEF o
<1> HIDE DEF s
<1>9. Spliced(todo, s, todo')
  BY <1>2, <1>7, <1>8, TodoHead
<1>10. todo[1].op \notin Final \cup {"glyph", "scroll", "goto", "place", "hide", "hidden", "window"}
  BY <1>4 DEF Final
<1>11. \A k \in 1 .. Len(s) : /\ Leading(todo[1], s[k]) /\ Suited(s[k])
                              /\ s[k].op \in Banking \cup {"store", "load", "fetch", "draw", "serve"}
  BY <1>4, <1>5, <1>7 DEF Leading, Suited
<1> QED BY <1>1, <1>9, <1>10, <1>11, FormKeep

LEMMA MoveWindowForm ==
  ASSUME Banked, Form, MoveWindow
  PROVE  Form'
<1>1. UNCHANGED <<mem, cursor, scline>> /\ todo' = Rest
  BY DEF MoveWindow, Continue
<1>2. HEIGHT \in Nat /\ FONT_H \in Nat /\ video_window_y \in Nat
  BY Sizes, PlaceTypes
<1>3. Len(<<>>) = 0
  OBVIOUS
<1>4. CASE Now("window")
  <2>1. todo[1].op = "window" /\ Suited(todo[1]) /\ Arg = todo[1] /\ Spliced(todo, <<>>, todo')
    BY <1>1, <1>4, HeadFits, TodoHead
  <2>2. video_window_y' = 0
    BY <1>4, <2>1 DEF MoveWindow, Now, Suited
  <2>3. VTypes'
    BY <1>1, <1>2, <2>2 DEF Form, VTypes, Moved, InCorner
  <2>4. Full' <=> Full
    BY <1>1 DEF Full
  <2>5. Fits'
    BY <1>1, <1>3, <2>1, <2>4, FitsNext DEF Form
  <2>6. (Alone(todo) /\ Drawn(todo) /\ Scrolled(todo))'
    <3>1. todo[1].op \notin Final \cup {"glyph", "scroll"}
      BY <2>1 DEF Final
    <3> QED BY <1>1, <1>3, <2>1, <2>2, <3>1, EndNext
  <2> QED BY <2>3, <2>5, <2>6 DEF Form
<1>5. CASE Now("scroll")
  <2> DEFINE f == Op("fast", 0, ROWS - 1, 0)
             n == Len(todo)
  <2>1. todo[1].op = "scroll" /\ Ordered(todo, 1) /\ Spliced(todo, <<>>, todo')
    BY <1>1, <1>5, HeadFits, TodoHead
  <2>2. n \in Nat \ {0}
    BY <1>5, TodoHead
  <2>3. 1 = n - 1 /\ todo[n] = f
    BY <2>1 DEF Ordered
  <2> HIDE DEF f, n
  <2>4. n = 2 /\ todo[2] = f
    BY <2>2, <2>3
  <2>5. 2 \in 1 .. n /\ n >= 2
    BY <2>4
  <2>6. Len(todo') = 1 /\ todo'[1] = f
    <3>1. Len(todo') = 0 + n - 1
      BY <1>3, <2>1 DEF Spliced, n
    <3>2. todo'[Len(todo')] = todo[n]
      BY <2>1, <2>5, SplicedLast DEF n
    <3> QED BY <2>4, <3>1, <3>2
  <2>7. Suited(todo[2])
    BY <2>5 DEF Form, Fits, n
  <2>8. video_window_y <= 2 * HEIGHT
    <3>1. Scrolling(todo)
      BY <2>1, <2>2 DEF Scrolling, Has, n
    <3> QED BY <2>1, <3>1 DEF Form, Scrolled
  <2>9. VTypes'
    <3>1. video_window_y' = video_window_y + FONT_H
      BY <1>5 DEF MoveWindow, Now
    <3>2. video_window_y' \in 0 .. 2 * HEIGHT + FONT_H
      BY <1>2, <2>8, <3>1
    <3> QED BY <1>1, <3>2 DEF Form, VTypes, Moved, InCorner
  <2>10. f.op = "fast"
    BY DEF f, Op
  <2>11. Fits'
    <3>1. (Suited(todo[1]) /\ Ordered(todo, 1))'
      <4>1. Suited(todo[1])'
        BY <2>4, <2>6, <2>7, <2>10 DEF Suited
      <4>2. Ordered(todo, 1)'
        BY <2>6, <2>10 DEF Ordered
      <4> QED BY <4>1, <4>2
    <3>2. \A k \in 1 .. Len(todo') : k = 1
      BY <2>6
    <3> QED BY <3>1, <3>2 DEF Fits
  <2>12. ~Scrolling(todo')
    BY <2>6, <2>10 DEF Scrolling, Has
  <2> QED BY <2>6, <2>9, <2>10, <2>11, <2>12, FormFresh
<1> QED BY <1>4, <1>5 DEF MoveWindow

(* A screen to be cleared.                                                 *)
LEMMA ClearForm ==
  ASSUME VTypes', todo' = video_clear_screen
  PROVE  Form'
<1> DEFINE u == todo'
<1>1. /\ IsSeq(u) /\ Len(u) \in Nat /\ Len(u) >= 3 /\ u[1] = Do("hide")
      /\ \A k \in 1 .. Len(u) :
           \/ k = 1 /\ u[k] = Do("hide")
           \/ k = 2 /\ u[k] = Op("window", 0, 0, 0)
           \/ k > 2 /\ \E i \in Columns, j \in 0 .. HEIGHT - 1 : u[k] = Put(i, j, BACK)
           \/ k > 2 /\ u[k] = Op("goto", 0, 0, 0)
           \/ k = Len(u) /\ u[k] = Do("show")
      /\ u[Len(u)] = Op("goto", 0, 0, 0) \/ u[Len(u)] = Do("show")
  BY ClearOps
<1>2. Do("hide").op = "hide" /\ Do("show").op = "show" /\ Op("goto", 0, 0, 0).op = "goto"
      /\ Op("window", 0, 0, 0).op = "window" /\ \A i, j : Put(i, j, BACK).op = "set"
  BY DEF Do, Op, Put
<1>3. COLS \in Nat \ {0} /\ ROWS \in Nat \ {0} /\ HEIGHT \in Nat
  BY ScreenAssumption, Sizes
<1>4. ASSUME NEW k \in 1 .. Len(u)
      PROVE  (Suited(todo[k]) /\ Ordered(todo, k))'
  <2>1. CASE k = 1 /\ u[k] = Do("hide")
    BY <1>2, <2>1 DEF Suited, Ordered, Final
  <2>2. k > 1 => Behind(u, k, {"hide", "hidden"})
    <3>1. k > 1 => 1 \in 1 .. k - 1
      OBVIOUS
    <3> QED BY <1>1, <1>2, <3>1 DEF Behind
  <2>3. CASE k = 2 /\ u[k] = Op("window", 0, 0, 0)
    <3>1. u[k].op = "window" /\ u[k].y = 0
      BY <2>3 DEF Op
    <3> QED BY <2>2, <2>3, <3>1 DEF Suited, Ordered, Final
  <2>4. CASE k > 2 /\ \E i \in Columns, j \in 0 .. HEIGHT - 1 : u[k] = Put(i, j, BACK)
    <3>1. PICK i \in Columns, j \in 0 .. HEIGHT - 1 : u[k] = Put(i, j, BACK)
      BY <2>4
    <3>2. u[k].op = "set" /\ u[k].x \in Columns /\ u[k].y \in Nat
      BY <1>3, <3>1 DEF Put, Op
    <3> QED BY <2>2, <2>4, <3>2 DEF Suited, Ordered, Final
  <2>5. CASE k > 2 /\ u[k] = Op("goto", 0, 0, 0)
    <3>1. u[k].op = "goto" /\ u[k].x = 0 /\ u[k].y = 0
      BY <2>5 DEF Op
    <3>2. <<0, 0>> \in Places
      BY <1>3 DEF Places
    <3> QED BY <3>1, <3>2 DEF Suited, Ordered, Final
  <2>6. CASE k = Len(u) /\ u[k] = Do("show")
    BY <1>2, <2>6 DEF Suited, Ordered, Final
  <2> QED BY <1>1, <2>1, <2>3, <2>4, <2>5, <2>6
<1>5. Fits'
  BY <1>4 DEF Fits
<1>6. \A k \in 1 .. Len(u) : u[k].op \in {"hide", "window", "set", "goto", "show"}
  <2> SUFFICES ASSUME NEW k \in 1 .. Len(u)
               PROVE  u[k].op \in {"hide", "window", "set", "goto", "show"}
    OBVIOUS
  <2> QED BY <1>1, <1>2
<1>7. ~Scrolling(todo')
  BY <1>6 DEF Scrolling, Has
<1>8. Len(u) \in 1 .. Len(u)
  BY <1>1
<1>9. u[Len(u)].op # "shown" /\ u[Len(u)].op # "after"
  BY <1>6, <1>8
<1> QED BY <1>5, <1>7, <1>8, <1>9, FormFresh

-----------------------------------------------------------------------------
(* Characters and line feeds.                                              *)

(* The last operation of a call is alone.                                  *)
LEMMA FinalHead ==
  ASSUME Banked, Form, NEW op \in Final, Now(op)
  PROVE  /\ Len(todo) = 1 /\ todo[1].op = op /\ Arg = todo[1] /\ Suited(todo[1])
         /\ todo' = Rest => todo' = <<>>
         /\ \A s : IsSeq(s) /\ todo' = s \o Rest => todo' = s
<1>1. Ordered(todo, 1) /\ todo[1].op = op /\ Len(todo) \in Nat \ {0} /\ Arg = todo[1] /\ Suited(todo[1])
      /\ IsSeq(todo) /\ todo # <<>>
  BY HeadFits
<1>2. 1 = Len(todo)
  BY <1>1 DEF Ordered
<1>3. IsSeq(Rest) /\ Len(Rest) = 0
  <2>1. IsSeq(Rest) /\ Len(Rest) = Len(todo) - 1
    BY <1>1, SeqTail DEF Rest
  <2> QED BY <1>2, <2>1
<1>4. Rest = <<>>
  BY <1>3, EmptySeq DEF IsSeq
<1>5. ASSUME NEW s, IsSeq(s), todo' = s \o Rest
      PROVE  todo' = s
  <2>1. s \o <<>> = s
    BY <1>5, ConcatEmptySeq DEF IsSeq
  <2> QED BY <1>4, <1>5, <2>1
<1> QED BY <1>1, <1>2, <1>4, <1>5

(* A character is drawn where the cursor is, which is not behind a line.   *)
LEMMA GlyphHead ==
  ASSUME Banked, Form, Now("glyph")
  PROVE  /\ Len(todo) = 2 /\ todo[2].op = "after" /\ todo[2].c = todo[1].c /\ todo[1].c \in DOMAIN Glyph
         /\ ~Full /\ Arg = todo[1] /\ todo[1].op = "glyph" /\ Suited(todo[2])
<1>1. Ordered(todo, 1) /\ Suited(todo[1]) /\ Arg = todo[1] /\ todo[1].op = "glyph" /\ Len(todo) \in Nat \ {0}
  BY HeadFits
<1> DEFINE n == Len(todo)
<1>2. 1 = n - 1 /\ todo[n].op = "after" /\ todo[n].c = todo[1].c /\ (~Full \/ Behind(todo, 1, {"goto", "place"}))
  BY <1>1 DEF Ordered
<1>3. n = 2
  <2>1. n \in Nat
    BY <1>1
  <2> HIDE DEF n
  <2> QED BY <1>2, <2>1
<1>4. ~Full
  BY <1>2 DEF Behind
<1>5. 2 \in 1 .. n
  BY <1>3
<1> QED BY <1>1, <1>2, <1>3, <1>4, <1>5 DEF Form, Fits, Suited

(* A pixel of the cursor's place.                                          *)
LEMMA CellPixel ==
  ASSUME Form, ~Full, NEW i \in 0 .. FNT_W - 1, NEW j \in 0 .. FONT_H - 1
  PROVE  /\ cursor.col * FNT_W + i \in Columns
         /\ cursor.row * FONT_H + j \in Nat /\ cursor.row * FONT_H + j < HEIGHT
<1>1. /\ cursor.col \in 0 .. COLS - 1 /\ cursor.row \in 0 .. ROWS - 1 /\ COLS \in Nat /\ ROWS \in Nat
      /\ FNT_W \in Nat \ {0} /\ FONT_H \in Nat \ {0}
  <2>1. COLS \in Nat \ {0} /\ ROWS \in Nat \ {0} /\ cursor.col # COLS
    BY ScreenAssumption DEF Full
  <2> QED BY <2>1, PlaceTypes, Sizes
<1>2. cursor.col * FNT_W + i + 1 \in 1 .. FNT_W * COLS
  BY <1>1, Grid
<1>3. cursor.row * FONT_H + j + 1 \in 1 .. FONT_H * ROWS
  BY <1>1, Grid
<1>4. FNT_W * COLS = WIDTH /\ FONT_H * ROWS = HEIGHT /\ WIDTH \in Nat /\ HEIGHT \in Nat
  BY <1>1, Sizes DEF WIDTH, HEIGHT
<1>5. cursor.col * FNT_W \in Nat /\ cursor.row * FONT_H \in Nat
  BY <1>1
<1> DEFINE a == cursor.col * FNT_W
           b == cursor.row * FONT_H
<1> HIDE DEF a, b
<1>6. a + i + 1 \in 1 .. WIDTH /\ b + j + 1 \in 1 .. HEIGHT /\ a \in Nat /\ b \in Nat
  BY <1>2, <1>3, <1>4, <1>5 DEF a, b
<1>7. a + i \in 0 .. WIDTH - 1 /\ b + j \in Nat /\ b + j < HEIGHT
  BY <1>4, <1>6
<1> QED BY <1>7 DEF a, b, Columns

LEMMA GlyphForm ==
  ASSUME Banked, Form, Expand, Now("glyph")
  PROVE  Form'
<1> DEFINE x == cursor.col * FNT_W
           y == cursor.row * FONT_H
           c == todo[1].c
           s == video_draw_char(x, y, c)
           n == Len(s)
           u == todo'
<1>1. /\ Len(todo) = 2 /\ todo[2].op = "after" /\ todo[2].c = todo[1].c /\ todo[1].c \in DOMAIN Glyph
      /\ ~Full /\ Arg = todo[1] /\ todo[1].op = "glyph"
  BY GlyphHead
<1>2. UNCHANGED <<mem, video_window_y, cursor, scline>> /\ todo' = s \o Rest
  BY <1>1 DEF Expand, Continue, Now
<1>3. VTypes' /\ ~Full'
  BY <1>1, <1>2 DEF Form, VTypes, Moved, InCorner, Full
<1> HIDE DEF x, y, c
<1>4. /\ IsSeq(s) /\ Len(s) = n /\ n \in Nat
      /\ \A k \in 1 .. n :
           \E i \in 0 .. FNT_W - 1, j \in 0 .. FONT_H - 1 :
             s[k] = Put(x + i, y + j, IF <<i, j>> \in Glyph[c] THEN TEXT ELSE BACK)
  BY CharOps
<1>5. ASSUME NEW k \in 1 .. n
      PROVE  s[k].op = "set" /\ s[k].x \in Columns /\ s[k].y \in Nat /\ (c = NL => s[k].c = BACK)
  <2>1. PICK i \in 0 .. FNT_W - 1, j \in 0 .. FONT_H - 1 :
               s[k] = Put(x + i, y + j, IF <<i, j>> \in Glyph[c] THEN TEXT ELSE BACK)
    BY <1>4
  <2>2. x + i \in Columns /\ y + j \in Nat
    BY <1>1, CellPixel DEF x, y
  <2>3. c = NL => <<i, j>> \notin Glyph[c]
    BY <1>1, GlyphAssumption DEF c
  <2> HIDE DEF s
  <2> QED BY <2>1, <2>2, <2>3 DEF Put, Op
<1> HIDE DEF s, n
<1>6. Spliced(todo, s, u)
  BY <1>2, <1>4, TodoHead
<1>7. Len(u) = n + 1 /\ u[Len(u)] = todo[2] /\ n \in Nat
  <2>1. Len(u) = Len(s) + Len(todo) - 1 /\ n \in Nat
    BY <1>4, <1>6, SplicedLast DEF n
  <2>2. Len(u) = n + 1
    BY <1>1, <1>4, <2>1
  <2> QED BY <1>1, <1>6, <2>1, <2>2, SplicedLast
<1>8. \A k \in 1 .. n : u[k] = s[k] /\ k \in 1 .. Len(u)
  BY <1>4, <1>6, <1>7 DEF Spliced
<1>9. ASSUME NEW k \in 1 .. Len(s)
      PROVE  (Suited(todo[k]) /\ Ordered(todo, k))'
  <2>1. u[k].op = "set" /\ u[k].x \in Columns /\ u[k].y \in Nat
    BY <1>4, <1>5, <1>8, <1>9
  <2>2. Suited(todo[k])'
    BY <2>1 DEF Suited
  <2>3. Ordered(todo, k)'
    BY <1>3, <2>1 DEF Ordered, Final
  <2> QED BY <2>2, <2>3
<1>10. Fits'
  <2>1. cursor'.x = cursor.x /\ cursor'.y = cursor.y /\ cursor'.shown = cursor.shown
    BY <1>2
  <2> QED BY <1>1, <1>3, <1>6, <1>9, <2>1, FitsNext DEF Form
<1>11. Len(u) >= 1 /\ u[Len(u)].op = "after"
  BY <1>1, <1>7
<1>12. Alone(todo)'
  BY <1>11 DEF Alone
<1>13. Drawn(todo)'
  <2> SUFFICES ASSUME NEW k \in 1 .. Len(u) - 1
               PROVE  u[k].op = "set" /\ (u[Len(u)].c = NL => u[k].c = BACK)
    BY DEF Drawn
  <2>1. k \in 1 .. n
    BY <1>7
  <2> QED BY <1>1, <1>5, <1>7, <1>8, <2>1 DEF c
<1>14. ~Scrolling(u)
  <2>1. ASSUME NEW k \in 1 .. Len(u)
        PROVE  u[k].op # "scroll"
    <3>1. k \in 1 .. n \/ k = Len(u)
      BY <1>7
    <3> QED BY <1>5, <1>8, <1>11, <3>1
  <2> QED BY <2>1 DEF Scrolling, Has
<1> QED BY <1>3, <1>10, <1>12, <1>13, <1>14 DEF Form, Scrolled

LEMMA AfterForm ==
  ASSUME Banked, Form, Expand, Now("after")
  PROVE  Form'
<1> DEFINE c == todo[1].c
           s == update_cursor_after_char(c)
           u == todo'
<1>1. /\ Len(todo) = 1 /\ todo[1].op = "after" /\ Arg = todo[1]
      /\ \A r : IsSeq(r) /\ todo' = r \o Rest => todo' = r
  BY FinalHead DEF Final
<1>2. UNCHANGED <<mem, video_window_y, cursor, scline>> /\ todo' = s \o Rest
  BY <1>1 DEF Expand, Continue, Now
<1>3. ~Full
  <2>1. Ordered(todo, 1)
    BY HeadFits
  <2> QED BY <1>1, <2>1 DEF Ordered, Behind
<1>4. VTypes' /\ ~Full'
  BY <1>2, <1>3 DEF Form, VTypes, Moved, InCorner, Full
<1>5. Plains(s)
  BY PlainAfter
<1>6. u = s
  BY <1>1, <1>2, <1>5 DEF Plains
<1>7. CASE \E x \in 0 .. COLS, y \in 0 .. ROWS - 1 : s = <<Op("fast", x, y, 0)>>
  <2>1. PICK x \in 0 .. COLS, y \in 0 .. ROWS - 1 : s = <<Op("fast", x, y, 0)>>
    BY <1>7
  <2> DEFINE f == Op("fast", x, y, 0)
  <2>2. f.op = "fast" /\ f.x = x /\ f.y = y
    BY DEF Op
  <2> HIDE DEF f, s
  <2>3. Len(u) = 1 /\ u[1] = f
    <3>1. Len(<<f>>) = 1 /\ <<f>>[1] = f
      OBVIOUS
    <3> QED BY <1>6, <2>1, <3>1 DEF f
  <2>4. Fits'
    <3>1. (Suited(todo[1]) /\ Ordered(todo, 1))'
      BY <2>2, <2>3 DEF Suited, Ordered
    <3>2. \A k \in 1 .. Len(u) : k = 1
      BY <2>3
    <3> QED BY <3>1, <3>2 DEF Fits
  <2>5. ~Scrolling(u)
    BY <2>2, <2>3 DEF Scrolling, Has
  <2> QED BY <1>4, <2>2, <2>3, <2>4, <2>5, FormFresh
<1>8. CASE c = NL /\ cursor.row = ROWS - 1 /\ s = LineFeed(Reset)
  <2> DEFINE m == Len(Reset)
             b == Len(Blanks)
             v == video_window_y
             w == 2 * WIDTH
             f == Op("fast", 0, ROWS - 1, 0)
  <2>1. HEIGHT \in Nat /\ FONT_H \in Nat /\ v \in Nat /\ ROWS - 1 \in 0 .. ROWS - 1 /\ 0 \in 0 .. COLS /\ WIDTH \in Nat
    <3>1. COLS \in Nat \ {0} /\ ROWS \in Nat \ {0}
      BY ScreenAssumption
    <3> QED BY <3>1, Sizes, PlaceTypes
  <2>2. /\ IsSeq(Reset)
        /\ ~(v > 2 * HEIGHT) => m = 0
        /\ v > 2 * HEIGHT => Reset = ResetWindow(v)
    BY BarOps, PlainReset DEF Reset, Plains
  <2>3. /\ IsSeq(u) /\ m \in Nat /\ b \in Nat /\ Len(u) = m + b + 2
        /\ \A k \in 1 .. Len(u) : \/ k \in 1 .. m /\ u[k] = Reset[k]
                                  \/ k - m \in 1 .. b /\ u[k] = Blanks[k - m]
                                  \/ k = Len(u) - 1 /\ u[k] = Do("scroll")
                                  \/ k = Len(u) /\ u[k] = f
        /\ u[Len(u) - 1] = Do("scroll") /\ u[Len(u)] = f
        /\ \A k \in 1 .. m : u[k] = Reset[k]
    <3>1. u = LineFeed(Reset) /\ IsSeq(Reset)
      BY <1>6, <1>8, <2>2
    <3> HIDE DEF u
    <3> QED BY <3>1, ScrollOps
  <2>4. f.op = "fast" /\ f.x = 0 /\ f.y = ROWS - 1 /\ Do("scroll").op = "scroll"
    BY DEF Do, Op
  <2>5. ASSUME NEW k \in 1 .. b
        PROVE  LET o == Blanks[k] IN
               o.op = "set" /\ o.x \in Columns /\ o.y \in Nat /\ o.y \in HEIGHT .. HEIGHT + FONT_H - 1 /\ o.c = BACK
    <3>1. PICK i \in Columns, j \in 0 .. FONT_H - 1 : Blanks[k] = Put(i, HEIGHT + j, BACK)
      BY BlankOps
    <3> QED BY <2>1, <3>1 DEF Put, Op
  <2>6. ASSUME NEW k \in 1 .. m
        PROVE  LET o == Reset[k] IN
               /\ k = 1 => o.op = "window" /\ o.y = 0
               /\ k # 1 => \/ o.op = "copy" /\ o.x \in Columns /\ o.y \in Nat
                           \/ o.op = "paste" /\ o.x \in Columns /\ o.y \in Nat /\ o.y < HEIGHT
    <3>1. v > 2 * HEIGHT /\ Reset = ResetWindow(v)
      BY <2>2, <2>6
    <3>2. /\ Reset[1] = Op("window", 0, 0, 0)
          /\ k \in 2 .. m => /\ (k - 2) % w \in 0 .. w - 1 /\ (k - 2) \div w \in 0 .. (HEIGHT - FONT_H) - 1
                             /\ Reset[k] = CopyLine((k - 2) % w, FONT_H + ((k - 2) \div w), v)
      BY <3>1, ResetOps
    <3>3. CASE k = 1
      BY <3>2, <3>3 DEF Op
    <3>4. CASE k # 1
      <4>1. k \in 2 .. m
        BY <2>3, <3>4
      <4>2. PICK i \in 0 .. w - 1, j \in 0 .. (HEIGHT - FONT_H) - 1 : Reset[k] = CopyLine(i, FONT_H + j, v)
        BY <3>2, <4>1
      <4>3. CASE i < WIDTH
        BY <2>1, <3>4, <4>2, <4>3 DEF CopyLine, Op, Columns
      <4>4. CASE ~(i < WIDTH)
        BY <2>1, <3>4, <4>2, <4>4 DEF CopyLine, Op, Columns
      <4> QED BY <4>3, <4>4
    <3> QED BY <3>3, <3>4
  <2> HIDE DEF s, c, m, b, f, v
  <2>7. Scrolling(u)
    <3>1. Len(u) - 1 \in 1 .. Len(u)
      BY <2>3
    <3> QED BY <2>3, <2>4, <3>1 DEF Scrolling, Has
  <2>8. ASSUME NEW k \in 1 .. Len(u)
        PROVE  \/ /\ k = 1 /\ k \in 1 .. m /\ u[k].op = "window" /\ u[k].y = 0
               \/ /\ k # 1 /\ u[k].op \in {"copy", "paste"} /\ u[k].x \in Columns /\ u[k].y \in Nat
                  /\ u[k].op = "paste" => u[k].y < HEIGHT
               \/ /\ u[k].op = "set" /\ u[k].x \in Columns /\ u[k].y \in Nat /\ u[k].c = BACK
                  /\ u[k].y \in HEIGHT .. HEIGHT + FONT_H - 1
               \/ k = Len(u) - 1 /\ u[k].op = "scroll"
               \/ k = Len(u) /\ u[k] = f
    <3>1. CASE k \in 1 .. m /\ u[k] = Reset[k]
      BY <2>6, <3>1
    <3>2. CASE k - m \in 1 .. b /\ u[k] = Blanks[k - m]
      BY <2>5, <3>2
    <3> QED BY <2>3, <2>4, <3>1, <3>2
  <2>9. ASSUME NEW k \in 1 .. Len(u)
        PROVE  (Suited(todo[k]) /\ Ordered(todo, k))'
    <3>1. CASE k = 1 /\ u[k].op = "window" /\ u[k].y = 0
      BY <2>7, <3>1 DEF Suited, Ordered, Final
    <3>2. CASE u[k].op \in {"copy", "paste"} /\ u[k].x \in Columns /\ u[k].y \in Nat
      BY <1>4, <2>7, <3>2 DEF Suited, Ordered, Final
    <3>3. CASE u[k].op = "set" /\ u[k].x \in Columns /\ u[k].y \in Nat
      BY <1>4, <3>3 DEF Suited, Ordered, Final
    <3>4. CASE k = Len(u) - 1 /\ u[k].op = "scroll"
      BY <2>3, <3>4 DEF Suited, Ordered, Final, f
    <3>5. CASE k = Len(u) /\ u[k] = f
      BY <2>1, <2>4, <3>5 DEF Suited, Ordered, Final
    <3> QED BY <2>8, <3>1, <3>2, <3>3, <3>4, <3>5
  <2>10. Fits'
    BY <2>9 DEF Fits
  <2>11. Alone(todo)' /\ Drawn(todo)'
    BY <2>3, <2>4 DEF Alone, Drawn, Emitting
  <2>12. v > 2 * HEIGHT => u[1].op = "window"
    <3> SUFFICES ASSUME v > 2 * HEIGHT
                 PROVE  u[1].op = "window"
      OBVIOUS
    <3>1. m >= 1
      BY <2>2, ResetOps, Sizes DEF m
    <3>2. 1 \in 1 .. m
      BY <2>3, <3>1
    <3> QED BY <2>3, <2>6, <3>2
  <2>13. Has(u, {"window", "copy", "paste", "fetch"}) => v > 2 * HEIGHT
    <3> SUFFICES ASSUME NEW k \in 1 .. Len(u), u[k].op \in {"window", "copy", "paste", "fetch"}, ~(v > 2 * HEIGHT)
                 PROVE  FALSE
      BY DEF Has
    <3>1. m = 0
      BY <2>2 DEF m, v
    <3>2. CASE k - m \in 1 .. b /\ u[k] = Blanks[k - m]
      BY <2>5, <3>2
    <3>3. k \notin 1 .. m
      BY <3>1
    <3> QED BY <2>3, <2>4, <3>2, <3>3
  <2>14. ASSUME NEW k \in 1 .. Len(u) - 2
         PROVE  /\ u[k].op \in {"window", "copy", "fetch", "paste", "set", "store"} \cup Banking
                /\ u[k].op = "window" => k = 1
                /\ u[k].op = "paste" => u[k].y < HEIGHT
                /\ u[k].op = "set" => u[k].y \in HEIGHT .. HEIGHT + FONT_H - 1
                /\ u[k].op = "store" => u[k].y < HEIGHT + FONT_H /\ u[k].x \in Columns
                /\ u[k].op \in {"set", "store"} /\ u[k].y >= HEIGHT => u[k].c = BACK
    <3>1. k \in 1 .. Len(u) /\ k # Len(u) - 1 /\ k # Len(u)
      BY <2>3
    <3> QED BY <2>8, <3>1
  <2>15. cursor'.row = ROWS - 1 /\ video_window_y' = v
    BY <1>2, <1>8 DEF v
  <2>16. v \in Nat /\ 2 * HEIGHT \in Nat
    BY <2>1
  <2>17. Scrolled(todo)'
    BY <1>4, <2>12, <2>13, <2>14, <2>15, <2>16 DEF Scrolled
  <2> QED BY <1>4, <2>10, <2>11, <2>17 DEF Form
<1> QED BY <1>3, <1>7, <1>8, AfterLeads

LEMMA ExpandForm ==
  ASSUME Banked, Form, Expand
  PROVE  Form'
<1>1. CASE Now("clear")
  <2>1. UNCHANGED <<mem, video_window_y, cursor, scline>> /\ todo' = video_clear_screen \o Rest
    BY <1>1 DEF Expand, Continue, Now
  <2>2. todo' = video_clear_screen
    <3>1. IsSeq(video_clear_screen)
      BY ClearOps
    <3>2. "clear" \in Final
      BY DEF Final
    <3> QED BY <1>1, <2>1, <3>1, <3>2, FinalHead
  <2>3. VTypes'
    BY <2>1 DEF Form, VTypes, Moved, InCorner
  <2> QED BY <2>2, <2>3, ClearForm
<1> QED BY <1>1, GlyphForm, AfterForm DEF Expand

-----------------------------------------------------------------------------
(* The cursor moves, appears and disappears.                               *)

(* What a call that scrolls, shows the cursor or has drawn begins with.    *)
LEMMA HeadKinds ==
  ASSUME Form, Len(todo) \in Nat \ {0}
  PROVE  /\ Scrolling(todo) =>
              /\ todo[1].op \in {"window", "copy", "fetch", "paste", "set", "store", "scroll"} \cup Banking
              /\ todo[1].op # "scroll" => Len(todo) >= 3
         /\ Has(todo, {"shown"}) =>
              todo[Len(todo)].op = "shown" /\ todo[1].op \in {"save", "load", "shown"} \cup Banking
         /\ Emitting(todo) => todo[1].op \in {"set", "store", "after"} \cup Banking
<1> DEFINE n == Len(todo)
<1>1. n \in Nat \ {0} /\ \A k \in 1 .. n : Ordered(todo, k)
  BY DEF Form, Fits
<1>2. ASSUME Scrolling(todo)
      PROVE  /\ todo[1].op \in {"window", "copy", "fetch", "paste", "set", "store", "scroll"} \cup Banking
             /\ todo[1].op # "scroll" => n >= 3
  <2>1. PICK k \in 1 .. n : todo[k].op = "scroll"
    BY <1>2 DEF Scrolling, Has
  <2>2. k = n - 1
    BY <1>1, <2>1 DEF Ordered
  <2>3. CASE k = 1
    BY <2>1, <2>3
  <2>4. CASE k # 1
    <3>1. n >= 3 /\ 1 \in 1 .. n - 2
      BY <1>1, <2>2, <2>4
    <3>2. todo[1].op \in {"window", "copy", "fetch", "paste", "set", "store"} \cup Banking
      BY <1>2, <3>1 DEF Form, Scrolled
    <3> QED BY <3>1, <3>2
  <2> QED BY <2>3, <2>4
<1>3. ASSUME Has(todo, {"shown"})
      PROVE  todo[n].op = "shown" /\ todo[1].op \in {"save", "load", "shown"} \cup Banking
  <2>1. PICK k \in 1 .. n : todo[k].op = "shown"
    BY <1>3 DEF Has
  <2>2. k = n
    BY <1>1, <2>1 DEF Ordered, Final
  <2>3. CASE n = 1
    BY <2>1, <2>2, <2>3
  <2>4. CASE n # 1
    <3>1. 1 \in 1 .. n - 1 /\ n >= 1
      <4>1. n \in Nat \ {0}
        BY <1>1
      <4> HIDE DEF n
      <4> QED BY <2>4, <4>1
    <3> QED BY <2>1, <2>2, <3>1 DEF Form, Alone
  <2> QED BY <2>3, <2>4
<1>4. ASSUME Emitting(todo)
      PROVE  todo[1].op \in {"set", "store", "after"} \cup Banking
  <2>1. CASE n = 1
    BY <1>4, <2>1 DEF Emitting
  <2>2. CASE n # 1
    <3>1. 1 \in 1 .. n - 1
      <4>1. n \in Nat \ {0}
        BY <1>1
      <4> HIDE DEF n
      <4> QED BY <2>2, <4>1
    <3> QED BY <1>4, <3>1 DEF Form, Drawn
  <2> QED BY <2>1, <2>2
<1> QED BY <1>2, <1>3, <1>4

(* The pixels of the bar, each in one operation, and one more.             *)
BarOnly(s, op)    == /\ IsSeq(s) /\ Len(s) \in Nat
                     /\ \A k \in 1 .. Len(s) : s[k].op = op /\ s[k].x \in Bars
BarThen(s, op, o) == /\ IsSeq(s) /\ Len(s) \in Nat \ {0} /\ s[Len(s)] = o
                     /\ \A k \in 1 .. Len(s) : (s[k].op = op /\ s[k].x \in Bars) \/ (k = Len(s) /\ s[k] = o)
LEMMA BarAndOne ==
  ASSUME NEW op, NEW s \in {Bar(op), <<>>}, NEW o
  PROVE  BarOnly(s, op) /\ BarThen(s \o <<o>>, op, o)
<1>1. /\ IsSeq(Bar(op)) /\ Len(Bar(op)) = BAR /\ IsSeq(<<>>) /\ Len(<<>>) = 0 /\ BAR \in Nat
      /\ \A k \in 1 .. BAR : Bar(op)[k] = Op(op, k - 1, 0, 0) /\ k - 1 \in Bars
  BY BarOps, Sizes
<1>2. IsSeq(s) /\ Len(s) \in Nat /\ \A k \in 1 .. Len(s) : s[k].op = op /\ s[k].x \in Bars
  <2>1. CASE s = Bar(op)
    <3>1. \A k \in 1 .. BAR : Op(op, k - 1, 0, 0).op = op /\ Op(op, k - 1, 0, 0).x = k - 1
      BY DEF Op
    <3> QED BY <1>1, <2>1, <3>1
  <2>2. CASE s = <<>>
    BY <1>1, <2>2
  <2> QED BY <2>1, <2>2
<1>3. <<o>> \in Seq({o}) /\ Len(<<o>>) = 1 /\ <<o>>[1] = o
  OBVIOUS
<1> DEFINE r == <<o>>
           u == s \o r
<1>4. IsSeq(r) /\ Len(r) = 1 /\ r[1] = o
  BY <1>3, SeqOver
<1> HIDE DEF r
<1>5. Joined(s, r, u)
  BY <1>2, <1>4, ConcatOps
<1> HIDE DEF u
<1>6. IsSeq(u) /\ Len(u) = Len(s) + 1 /\ u[Len(s) + 1] = o
  BY <1>4, <1>5 DEF Joined
<1>7. ASSUME NEW k \in 1 .. Len(u)
      PROVE  (k \in 1 .. Len(s) /\ u[k] = s[k]) \/ (k = Len(s) + 1 /\ u[k] = o)
  <2>1. CASE k - Len(s) \in 1 .. Len(r) /\ u[k] = r[k - Len(s)]
    <3>1. k - Len(s) = 1
      BY <1>4, <2>1
    <3>2. k = Len(s) + 1
      BY <1>2, <3>1
    <3> QED BY <1>6, <3>2
  <2> QED BY <1>5, <2>1 DEF Joined
<1>8. Len(u) \in Nat \ {0} /\ u[Len(u)] = o
  BY <1>2, <1>6
<1>9. BarThen(u, op, o)
  BY <1>2, <1>6, <1>7, <1>8 DEF BarThen
<1> QED BY <1>2, <1>9 DEF u, r, BarOnly

LEMMA MoveCursorForm ==
  ASSUME Banked, Form, MoveCursor
  PROVE  Form'
<1>1. UNCHANGED <<mem, video_window_y, scline>> /\ Shaped
  BY DEF MoveCursor, Banked
<1>2. PICK now \in {"place", "fast", "goto"} : Now(now)
  BY DEF MoveCursor
<1>3. /\ Arg = todo[1] /\ todo[1].op = now /\ Suited(todo[1]) /\ Len(todo) \in Nat \ {0}
      /\ \A k \in 1 .. Len(todo) : todo[k].op \in PlainOps
      /\ \A s : IsSeq(s) /\ todo' = s \o Rest => Spliced(todo, s, todo')
      /\ todo' = Rest => Spliced(todo, <<>>, todo')
  <2>1. now \in PlainOps
    BY DEF PlainOps
  <2> QED BY <1>2, <2>1, HeadFits, TodoHead, PlainTodo DEF Plain
<1>4. /\ now \in {"goto", "place"} => <<Arg.x, Arg.y>> \in Places
      /\ now = "fast" => Arg.x \in 0 .. COLS /\ Arg.y \in 0 .. ROWS - 1
  BY <1>3 DEF Suited
<1>5. COLS \in Nat \ {0} /\ ROWS \in Nat \ {0} /\ Len(<<>>) = 0
  BY ScreenAssumption
<1>6. ~Scrolling(todo)
  BY <1>3, HeadKinds DEF Banking
<1>7. \A k \in 1 .. Len(todo) : todo[k].op # "load"
  BY <1>3 DEF PlainOps
<1>8. Arg.x \in 0 .. COLS /\ Arg.y \in 0 .. ROWS - 1 /\ (now # "fast" => Arg.x # COLS)
  BY <1>2, <1>4, <1>5 DEF Places
<1> DEFINE save == Shown(Bar("save"))
           put  == Shown(Bar("put"))
           o    == Op("place", Arg.x, Arg.y, 0)
           both == put \o <<o>>
<1>9. o.op = "place" /\ o.x = Arg.x /\ o.y = Arg.y
  BY DEF Op
<1>10. save \in {Bar("save"), <<>>} /\ put \in {Bar("put"), <<>>}
  BY DEF Shown
<1> HIDE DEF save, put, o
<1>11. CASE cursor' = Placed(Arg.x, Arg.y) /\ todo' = save \o Rest /\ now \in {"place", "fast"}
  <2>1. /\ cursor'.col = Arg.x /\ cursor'.row = Arg.y /\ cursor'.shown = cursor.shown /\ cursor'.blink = cursor.blink
        /\ cursor'.x = Arg.x * FNT_W + 1 /\ cursor'.y = (Arg.y + 1) * FONT_H - 1 /\ cursor'.buff = cursor.buff
    BY <1>1, <1>11 DEF Placed, Shaped
  <2>2. VTypes'
    BY <1>1, <1>8, <2>1 DEF Form, VTypes, Moved
  <2>3. IsSeq(save) /\ Len(save) \in Nat /\ \A k \in 1 .. Len(save) : save[k].op = "save" /\ save[k].x \in Bars
    BY <1>10, BarAndOne DEF BarOnly
  <2>4. Spliced(todo, save, todo')
    BY <1>3, <1>11, <2>3
  <2>5. ASSUME NEW k \in 1 .. Len(save)
        PROVE  (Suited(todo[k]) /\ Ordered(todo, k))'
    <3>1. k \in 1 .. Len(todo') /\ todo'[k] = save[k]
      BY <2>4, SplicedCases
    <3> QED BY <2>3, <3>1 DEF Suited, Ordered, Final
  <2>6. CASE now = "place"
    <3>1. ~Full'
      BY <1>8, <2>1, <2>6 DEF Full
    <3>2. Fits'
      BY <1>3, <1>7, <2>1, <2>4, <2>5, <2>6, <3>1, FitsNext DEF Form
    <3>3. \A k \in 1 .. Len(save) : Leading(todo[1], save[k])
      BY <1>3, <2>3, <2>6 DEF Leading
    <3>4. todo[1].op \notin Final \cup {"glyph", "scroll"}
      BY <1>3, <2>6 DEF Final
    <3>5. (Alone(todo) /\ Drawn(todo) /\ Scrolled(todo))'
      BY <1>6, <2>4, <3>3, <3>4, EndNext
    <3> QED BY <2>2, <3>2, <3>5 DEF Form
  <2>7. CASE now = "fast"
    <3>1. "fast" \in Final /\ Now("fast")
      BY <1>2, <2>7 DEF Final
    <3>2. todo' = save
      BY <1>11, <2>3, <3>1, FinalHead
    <3>3. Fits'
      BY <2>5, <3>2 DEF Fits
    <3>4. ~Scrolling(todo')
      BY <2>3, <3>2 DEF Scrolling, Has
    <3>5. Len(todo') >= 1 => todo'[Len(todo')].op = "save"
      <4>1. Len(save) >= 1 => Len(save) \in 1 .. Len(save)
        BY <2>3
      <4> QED BY <2>3, <3>2, <4>1
    <3> QED BY <2>2, <3>3, <3>4, <3>5, FormFresh
  <2> QED BY <1>11, <2>6, <2>7
<1>12. CASE cursor' = cursor /\ todo' = both \o Rest /\ now = "goto"
  <2>1. VTypes' /\ (Full' <=> Full)
    BY <1>1, <1>12 DEF Form, VTypes, Moved, InCorner, Full
  <2>2. BarThen(both, "put", o)
    BY <1>10, BarAndOne
  <2> HIDE DEF both
  <2>3. Spliced(todo, both, todo')
    BY <1>3, <1>12, <2>2 DEF BarThen
  <2>4. ASSUME NEW k \in 1 .. Len(both)
        PROVE  (Suited(todo[k]) /\ Ordered(todo, k))'
    <3>1. k \in 1 .. Len(todo') /\ todo'[k] = both[k]
      BY <2>3, SplicedCases
    <3>2. <<o.x, o.y>> \in Places
      BY <1>4, <1>9, <1>12
    <3>3. CASE both[k].op = "put" /\ both[k].x \in Bars
      BY <3>1, <3>3 DEF Suited, Ordered, Final
    <3>4. CASE both[k] = o
      BY <1>9, <3>1, <3>2, <3>4 DEF Suited, Ordered, Final
    <3> QED BY <2>2, <3>3, <3>4 DEF BarThen
  <2>5. \E j \in 1 .. Len(both) : both[j].op \in {"goto", "place"}
    <3>1. Len(both) \in 1 .. Len(both) /\ both[Len(both)] = o
      BY <2>2 DEF BarThen
    <3> QED BY <1>9, <3>1
  <2>6. Fits'
    BY <1>3, <1>12, <2>1, <2>3, <2>4, <2>5, FitsNext DEF Form
  <2>7. \A k \in 1 .. Len(both) : Leading(todo[1], both[k])
    BY <1>3, <1>9, <1>12, <2>2 DEF Leading, BarThen
  <2>8. todo[1].op \notin Final \cup {"glyph", "scroll"}
    BY <1>3, <1>12 DEF Final
  <2>9. (Alone(todo) /\ Drawn(todo) /\ Scrolled(todo))'
    BY <1>6, <2>3, <2>7, <2>8, EndNext
  <2> QED BY <2>1, <2>6, <2>9 DEF Form
<1>13. CASE cursor' = cursor /\ todo' = Rest /\ now \in {"goto", "fast"} /\ ~Elsewhere
  <2>1. VTypes' /\ (Full' <=> Full)
    BY <1>1, <1>13 DEF Form, VTypes, Moved, InCorner, Full
  <2>2. CASE now = "fast"
    <3>1. "fast" \in Final /\ Now("fast")
      BY <1>2, <2>2 DEF Final
    <3>2. todo' = <<>>
      BY <1>13, <3>1, FinalHead
    <3> QED BY <2>1, <3>2, FormNone
  <2>3. CASE now = "goto"
    <3>1. cursor.col = Arg.x
      BY <1>13 DEF Elsewhere
    <3>2. ~Full'
      BY <1>8, <2>1, <2>3, <3>1 DEF Full
    <3>3. Spliced(todo, <<>>, todo')
      BY <1>3, <1>13
    <3>4. Fits'
      BY <1>3, <1>5, <1>13, <2>3, <3>2, <3>3, FitsNext DEF Form
    <3>5. todo[1].op \notin Final \cup {"glyph", "scroll"}
      BY <1>3, <2>3 DEF Final
    <3>6. (Alone(todo) /\ Drawn(todo) /\ Scrolled(todo))'
      BY <1>5, <1>6, <3>3, <3>5, EndNext
    <3> QED BY <2>1, <3>4, <3>6 DEF Form
  <2> QED BY <1>13, <2>2, <2>3
<1>14. \/ cursor' = Placed(Arg.x, Arg.y) /\ todo' = save \o Rest /\ now \in {"place", "fast"}
       \/ cursor' = cursor /\ todo' = both \o Rest /\ now = "goto"
       \/ cursor' = cursor /\ todo' = Rest /\ now \in {"goto", "fast"} /\ ~Elsewhere
  BY <1>2 DEF MoveCursor, Continue, Now, save, put, o
<1> QED BY <1>11, <1>12, <1>13, <1>14

LEMMA ShowCursorForm ==
  ASSUME Banked, Form, ShowCursor
  PROVE  Form'
<1>1. UNCHANGED <<mem, video_window_y, scline>> /\ Shaped
  BY DEF ShowCursor, Banked
<1>2. PICK now \in {"shown", "hidden", "show", "hide"} : Now(now)
  BY DEF ShowCursor
<1>3. /\ Arg = todo[1] /\ todo[1].op = now /\ Len(todo) \in Nat \ {0}
      /\ \A s : IsSeq(s) /\ todo' = s \o Rest => Spliced(todo, s, todo')
      /\ \A k \in 1 .. Len(todo) : todo[k].op \in PlainOps
  <2>1. now \in PlainOps
    BY DEF PlainOps
  <2> QED BY <1>2, <2>1, TodoHead, PlainTodo DEF Plain
<1>4. \A k \in 1 .. Len(todo) : todo[k].op # "load"
  BY <1>3 DEF PlainOps
<1> DEFINE o == Do("shown")
           h == Do("hidden")
           saves == Saves \o <<o>>
           restores == Restores \o <<h>>
<1>5. o.op = "shown" /\ h.op = "hidden"
  BY DEF Do, Op
<1>6. Saves \in {Bar("save"), <<>>} /\ Restores \in {Bar("put"), <<>>}
  BY DEF Saves, Restores
<1> HIDE DEF o, h
<1>7. BarThen(saves, "save", o) /\ BarThen(restores, "put", h)
  BY <1>6, BarAndOne
<1> HIDE DEF saves, restores
<1>8. IsSeq(<<>>) /\ Len(<<>>) = 0
  BY BarOps
<1>9. /\ now = "shown"  => cursor' = [cursor EXCEPT !.shown = TRUE] /\ todo' = <<>> \o Rest
      /\ now = "hidden" => cursor' = [cursor EXCEPT !.shown = FALSE] /\ todo' = <<>> \o Rest
      /\ now = "show" => cursor' = cursor /\ todo' = saves \o Rest
      /\ now = "hide" => cursor' = cursor /\ todo' = restores \o Rest
  BY <1>2 DEF ShowCursor, Continue, Now, saves, restores, o, h
<1>10. /\ cursor'.col = cursor.col /\ cursor'.row = cursor.row /\ cursor'.x = cursor.x /\ cursor'.y = cursor.y
       /\ cursor'.blink = cursor.blink /\ cursor'.buff = cursor.buff
       /\ cursor'.shown = IF now = "shown" THEN TRUE ELSE IF now = "hidden" THEN FALSE ELSE cursor.shown
  BY <1>1, <1>9 DEF Shaped
<1>11. VTypes' /\ (Full' <=> Full)
  BY <1>1, <1>10 DEF Form, VTypes, Moved, InCorner, Full
<1>12. CASE now = "shown"
  <2>1. "shown" \in Final /\ Now("shown")
    BY <1>2, <1>12 DEF Final
  <2>2. todo' = <<>>
    BY <1>8, <1>9, <1>12, <2>1, FinalHead
  <2> QED BY <1>11, <2>2, FormNone
<1>13. CASE now = "show"
  <2>1. "show" \in Final /\ Now("show")
    BY <1>2, <1>13 DEF Final
  <2>2. todo' = saves
    BY <1>7, <1>9, <1>13, <2>1, FinalHead DEF BarThen
  <2>3. ASSUME NEW k \in 1 .. Len(saves)
        PROVE  (Suited(todo[k]) /\ Ordered(todo, k))'
    <3>1. CASE saves[k].op = "save" /\ saves[k].x \in Bars
      BY <2>2, <3>1 DEF Suited, Ordered, Final
    <3>2. CASE k = Len(saves) /\ saves[k] = o
      BY <1>5, <2>2, <3>2 DEF Suited, Ordered, Final
    <3> QED BY <1>7, <3>1, <3>2 DEF BarThen
  <2>4. Fits'
    BY <2>2, <2>3 DEF Fits
  <2>5. \A k \in 1 .. Len(saves) : saves[k].op = "save" \/ (k = Len(saves) /\ saves[k].op = "shown")
    BY <1>5, <1>7 DEF BarThen
  <2>6. Len(saves) \in Nat \ {0} /\ saves[Len(saves)].op = "shown"
    BY <1>5, <1>7 DEF BarThen
  <2>7. (Alone(todo) /\ Drawn(todo) /\ Scrolled(todo))'
    <3>1. Alone(todo)'
      <4>1. \A k \in 1 .. Len(saves) - 1 : saves[k].op = "save"
        BY <2>5, <2>6
      <4> QED BY <2>2, <4>1 DEF Alone
    <3>2. Drawn(todo)'
      BY <2>2, <2>6 DEF Drawn, Emitting
    <3>3. Scrolled(todo)'
      BY <2>2, <2>5 DEF Scrolled, Scrolling, Has
    <3> QED BY <3>1, <3>2, <3>3
  <2> QED BY <1>11, <2>4, <2>7 DEF Form
<1>14. ASSUME NEW s, IsSeq(s), Spliced(todo, s, todo'), now \in {"hide", "hidden"},
              \A k \in 1 .. Len(s) : s[k].op \in {"put", "hidden"} /\ (s[k].op = "put" => s[k].x \in Bars /\ now = "hide"),
              now = "hide" => \E k \in 1 .. Len(s) : s[k].op = "hidden",
              now = "hidden" => Len(s) = 0
       PROVE  Form'
  <2>1. ASSUME NEW k \in 1 .. Len(s)
        PROVE  (Suited(todo[k]) /\ Ordered(todo, k))'
    <3>1. k \in 1 .. Len(todo') /\ todo'[k] = s[k]
      BY <1>14, SplicedCases
    <3> QED BY <1>14, <3>1 DEF Suited, Ordered, Final
  <2>2. cursor'.shown => cursor.shown
    BY <1>10, <1>14
  <2>3. now = "hidden" => ~cursor'.shown
    BY <1>10
  <2>4. Fits'
    BY <1>3, <1>4, <1>11, <1>14, <2>1, <2>2, <2>3, FitsNext DEF Form
  <2>5. ~Scrolling(todo)
    BY <1>3, <1>14, HeadKinds DEF Banking
  <2>6. \A k \in 1 .. Len(s) : Leading(todo[1], s[k])
    BY <1>3, <1>14 DEF Leading
  <2>7. todo[1].op \notin Final \cup {"glyph", "scroll"}
    BY <1>3, <1>14 DEF Final
  <2>8. (Alone(todo) /\ Drawn(todo) /\ Scrolled(todo))'
    BY <1>14, <2>5, <2>6, <2>7, EndNext
  <2> QED BY <1>11, <2>4, <2>8 DEF Form
<1>15. CASE now = "hide"
  <2>1. IsSeq(restores) /\ Len(restores) \in 1 .. Len(restores) /\ restores[Len(restores)].op = "hidden"
        /\ \A k \in 1 .. Len(restores) : restores[k].op \in {"put", "hidden"}
                                         /\ (restores[k].op = "put" => restores[k].x \in Bars)
    BY <1>5, <1>7 DEF BarThen
  <2>2. Spliced(todo, restores, todo')
    BY <1>3, <1>9, <1>15, <2>1
  <2> QED BY <1>14, <1>15, <2>1, <2>2
<1>16. CASE now = "hidden"
  <2>1. Spliced(todo, <<>>, todo')
    BY <1>3, <1>8, <1>9, <1>16
  <2> QED BY <1>8, <1>14, <1>16, <2>1
<1> QED BY <1>12, <1>13, <1>15, <1>16

LEMMA SetModeForm ==
  ASSUME Banked, Form, SetMode
  PROVE  Form'
<1> DEFINE o == Do("clear")
           s == Bar("save") \o <<o>>
           u == todo'
<1>1. Now("mode") /\ "mode" \in Final /\ Shaped
  BY DEF SetMode, Final, Banked
<1>2. todo' = s \o Rest
  BY DEF SetMode, Continue
<1>3. o.op = "clear"
  BY DEF Do, Op
<1> HIDE DEF o
<1>4. BarThen(s, "save", o)
  BY BarAndOne
<1> HIDE DEF s
<1>5. u = s
  BY <1>1, <1>2, <1>4, FinalHead DEF BarThen
<1>6. /\ cursor'.col = 0 /\ cursor'.row = 0 /\ cursor'.x = 0 /\ cursor'.y = 0
      /\ cursor'.blink = 0 /\ cursor'.buff = cursor.buff /\ cursor'.shown = TRUE
      /\ DOMAIN mem' = DOMAIN mem /\ scline' = scline /\ video_window_y' = 0
  BY <1>1 DEF SetMode, Shaped
<1>7. VTypes'
  <2>1. COLS \in Nat \ {0} /\ ROWS \in Nat \ {0} /\ HEIGHT \in Nat /\ FONT_H \in Nat
    BY ScreenAssumption, Sizes
  <2>2. 0 \in 0 .. COLS /\ 0 \in 0 .. ROWS - 1 /\ 0 \in 0 .. 2 * HEIGHT + FONT_H
    BY <2>1
  <2> QED BY <1>6, <2>2 DEF Form, VTypes, InCorner
<1>8. Fits'
  <2>1. ASSUME NEW k \in 1 .. Len(u)
        PROVE  (Suited(todo[k]) /\ Ordered(todo, k))'
    <3>1. CASE u[k].op = "save" /\ u[k].x \in Bars
      BY <3>1 DEF Suited, Ordered, Final
    <3>2. CASE k = Len(u) /\ u[k] = o
      BY <1>3, <3>2 DEF Suited, Ordered, Final
    <3> QED BY <1>4, <1>5, <3>1, <3>2 DEF BarThen
  <2> QED BY <2>1 DEF Fits
<1>9. \A k \in 1 .. Len(u) : u[k].op \in {"save", "clear"}
  BY <1>3, <1>4, <1>5 DEF BarThen
<1>10. Len(u) \in 1 .. Len(u)
  BY <1>4, <1>5 DEF BarThen
<1>11. ~Scrolling(u)
  BY <1>9 DEF Scrolling, Has
<1>12. u[Len(u)].op # "shown" /\ u[Len(u)].op # "after"
  BY <1>9, <1>10
<1> QED BY <1>7, <1>8, <1>11, <1>12, FormFresh

-----------------------------------------------------------------------------
(* The calls of programs, the interrupt and the first state.               *)

(* A call begins with one operation.                                       *)
LEMMA OneForm ==
  ASSUME Form, UNCHANGED <<mem, video_window_y, cursor, scline>>, NEW op, NEW x, NEW y, NEW c, NEW o, o = Op(op, x, y, c),
         Len(todo') = 1, todo'[1] = o,
         op \in {"draw", "show", "hide", "mode"}
           \/ (op = "goto" /\ <<x, y>> \in Places)
           \/ (op = "set" /\ x \in Columns /\ y \in Nat /\ (~Full \/ Off(o)))
  PROVE  Form'
<1>1. o.op = op /\ o.x = x /\ o.y = y /\ o.c = c
  BY DEF Op
<1>2. VTypes'
  BY DEF Form, VTypes, Moved, InCorner
<1>3. (Suited(todo[1]) /\ Ordered(todo, 1))'
  <2>1. CASE op \in {"draw", "show", "hide", "mode"}
    BY <1>1, <2>1 DEF Suited, Ordered, Final
  <2>2. CASE op = "goto" /\ <<x, y>> \in Places
    BY <1>1, <2>2 DEF Suited, Ordered, Final
  <2>3. CASE op = "set" /\ x \in Columns /\ y \in Nat /\ (~Full \/ Off(o))
    <3>1. ~Full' \/ (Off(todo[1]))'
      BY <1>1, <2>3 DEF Full, Off
    <3> QED BY <1>1, <2>3, <3>1 DEF Suited, Ordered, Final
  <2> QED BY <2>1, <2>2, <2>3
<1>4. Fits'
  <2>1. \A k \in 1 .. Len(todo') : k = 1
    OBVIOUS
  <2> QED BY <1>3, <2>1 DEF Fits
<1>5. ~Scrolling(todo')
  BY <1>1 DEF Scrolling, Has
<1>6. todo'[Len(todo')].op # "shown" /\ todo'[Len(todo')].op # "after"
  BY <1>1
<1> QED BY <1>2, <1>4, <1>5, <1>6, FormFresh

(* A character to be drawn where the cursor is, or is taken first.         *)
LEMMA CharForm ==
  ASSUME Form, UNCHANGED <<mem, video_window_y, cursor, scline>>, NEW c \in DOMAIN Glyph, NEW n \in {2, 3},
         Len(todo') = n, todo'[n - 1] = Op("glyph", 0, 0, c), todo'[n] = Op("after", 0, 0, c),
         n = 2 => ~Full,
         n = 3 => \E at \in Places : todo'[1] = Op("goto", at[1], at[2], 0)
  PROVE  Form'
<1> DEFINE g == Op("glyph", 0, 0, c)
           a == Op("after", 0, 0, c)
           u == todo'
<1>1. g.op = "glyph" /\ g.c = c /\ a.op = "after" /\ a.c = c
  BY DEF Op
<1> HIDE DEF g, a
<1>2. Len(u) = n /\ u[n - 1] = g /\ u[n] = a
  BY DEF g, a
<1>3. VTypes' /\ (Full' <=> Full)
  BY DEF Form, VTypes, Moved, InCorner, Full
<1>4. n = 3 => u[1].op = "goto" /\ <<u[1].x, u[1].y>> \in Places
  <2> SUFFICES ASSUME n = 3
               PROVE  u[1].op = "goto" /\ <<u[1].x, u[1].y>> \in Places
    OBVIOUS
  <2>1. PICK at \in Places : u[1] = Op("goto", at[1], at[2], 0)
    OBVIOUS
  <2> QED BY <2>1 DEF Op, Places
<1>5. \A k \in {n - 1, n} : ~Full' \/ Behind(u, k, {"goto", "place"})
  <2>1. CASE n = 2
    BY <1>3, <2>1
  <2>2. CASE n = 3
    <3>1. 1 \in 1 .. 2 - 1 /\ 1 \in 1 .. 3 - 1 /\ \A k \in {n - 1, n} : k = 2 \/ k = 3
      BY <2>2
    <3> QED BY <1>4, <2>2, <3>1 DEF Behind
  <2> QED BY <2>1, <2>2
<1>6. ASSUME NEW k \in 1 .. Len(u)
      PROVE  (Suited(todo[k]) /\ Ordered(todo, k))'
  <2>1. k = n \/ k = n - 1 \/ (n = 3 /\ k = 1)
    BY <1>2
  <2>2. CASE k = n
    BY <1>1, <1>2, <1>5, <2>2 DEF Suited, Ordered, Final
  <2>3. CASE k = n - 1
    <3>1. k = Len(u) - 1
      BY <1>2, <2>3
    <3> QED BY <1>1, <1>2, <1>5, <2>3, <3>1 DEF Suited, Ordered, Final
  <2>4. CASE n = 3 /\ k = 1
    BY <1>4, <2>4 DEF Suited, Ordered, Final
  <2> QED BY <2>1, <2>2, <2>3, <2>4
<1>7. Fits'
  BY <1>6 DEF Fits
<1>8. ~Scrolling(u)
  <2>1. \A k \in 1 .. Len(u) : k = n \/ k = n - 1 \/ (n = 3 /\ k = 1)
    BY <1>2
  <2> QED BY <1>1, <1>2, <1>4, <2>1 DEF Scrolling, Has
<1>9. Has(u, {"glyph"})
  <2>1. n - 1 \in 1 .. Len(u)
    BY <1>2
  <2> QED BY <1>1, <1>2, <2>1 DEF Has
<1>10. u[Len(u)].op # "shown"
  BY <1>1, <1>2
<1> QED BY <1>3, <1>7, <1>8, <1>9, <1>10, FormFresh

(* A pixel that the bar behind a full line does not cover.                 *)
LEMMA ClearOff ==
  ASSUME Form, NEW p \in Screen, NEW o, o.x = p[1], o.y = p[2],
         \A q \in {p} : BarIndex(cursor, q) \notin 0 .. BAR - 1
  PROVE  Off(o)
<1> DEFINE v == video_window_y
<1>1. /\ p[1] \in Nat /\ p[2] \in Nat /\ cursor.x \in Nat /\ cursor.y \in Nat /\ v \in Nat
      /\ WIDTH \in Nat /\ BAR \in Nat
  <2>1. WIDTH \in Nat \ {0} /\ HEIGHT \in Nat \ {0} /\ BAR \in Nat \ {0}
    BY Sizes
  <2>2. p[1] \in 0 .. WIDTH - 1 /\ p[2] \in 0 .. HEIGHT - 1
    BY DEF Screen
  <2> QED BY <2>1, <2>2, PlaceTypes
<1> DEFINE a == WIDTH * p[2]
           b == WIDTH * cursor.y
           w == WIDTH * v
<1>2. a \in Nat /\ b \in Nat /\ w \in Nat
  BY <1>1
<1>3. Addr(o.x, o.y, v) = p[1] + a + w /\ Addr(cursor.x, cursor.y, v) = cursor.x + b + w
  <2>1. WIDTH * (p[2] + v) = WIDTH * p[2] + WIDTH * v /\ WIDTH * (cursor.y + v) = WIDTH * cursor.y + WIDTH * v
    BY <1>1
  <2>2. Addr(o.x, o.y, v) = p[1] + (a + w) /\ Addr(cursor.x, cursor.y, v) = cursor.x + (b + w)
    BY <2>1 DEF Addr
  <2> HIDE DEF a, b, w
  <2> QED BY <1>1, <1>2, <2>2
<1>4. BarIndex(cursor, p) = p[1] + a - (cursor.x + b)
  BY DEF BarIndex
<1>5. p[1] + a - (cursor.x + b) \notin 0 .. BAR - 1
  BY <1>4
<1> HIDE DEF a, b, w, v
<1>6. \A i \in 0 .. BAR - 1 : p[1] + a + w # cursor.x + b + w + i
  BY <1>1, <1>2, <1>5
<1> QED BY <1>3, <1>6 DEF Off, v

LEMMA CallForm ==
  ASSUME "full" \in VideoCalm, Form, VideoCall
  PROVE  Form'
<1>1. ASSUME NEW ops, Call(ops)
      PROVE  todo' = ops /\ UNCHANGED <<mem, video_window_y, cursor, scline>>
  BY <1>1 DEF Call
<1>2. ASSUME NEW o, Call(<<o>>)
      PROVE  UNCHANGED <<mem, video_window_y, cursor, scline>> /\ Len(todo') = 1 /\ todo'[1] = o
  <2>1. Len(<<o>>) = 1 /\ <<o>>[1] = o
    OBVIOUS
  <2> QED BY <1>1, <1>2, <2>1
<1>3. CASE CallOutChar
  <2>1. PICK c \in DOMAIN Glyph : ~Full /\ Call(<<Op("glyph", 0, 0, c), Op("after", 0, 0, c)>>)
    BY <1>3 DEF CallOutChar
  <2> DEFINE g == Op("glyph", 0, 0, c)
             a == Op("after", 0, 0, c)
  <2>2. Len(<<g, a>>) = 2 /\ <<g, a>>[1] = g /\ <<g, a>>[2] = a
    <3> HIDE DEF g, a
    <3> QED OBVIOUS
  <2>3. todo' = <<g, a>> /\ UNCHANGED <<mem, video_window_y, cursor, scline>>
    BY <1>1, <2>1
  <2>4. Len(todo') = 2 /\ todo'[2 - 1] = g /\ todo'[2] = a
    BY <2>2, <2>3
  <2> QED BY <2>1, <2>3, <2>4, CharForm
<1>4. CASE CallOutCharAttr
  <2>1. PICK c \in DOMAIN Glyph, at \in Places :
               Call(<<Op("goto", at[1], at[2], 0), Op("glyph", 0, 0, c), Op("after", 0, 0, c)>>)
    BY <1>4 DEF CallOutCharAttr
  <2> DEFINE o == Op("goto", at[1], at[2], 0)
             g == Op("glyph", 0, 0, c)
             a == Op("after", 0, 0, c)
  <2>2. Len(<<o, g, a>>) = 3 /\ <<o, g, a>>[1] = o /\ <<o, g, a>>[2] = g /\ <<o, g, a>>[3] = a
    <3> HIDE DEF o, g, a
    <3> QED OBVIOUS
  <2>3. todo' = <<o, g, a>> /\ UNCHANGED <<mem, video_window_y, cursor, scline>>
    BY <1>1, <2>1
  <2>4. Len(todo') = 3 /\ todo'[1] = o /\ todo'[3 - 1] = g /\ todo'[3] = a
    BY <2>2, <2>3
  <2> QED BY <2>3, <2>4, CharForm
<1>5. CASE CallSetPixel
  <2>1. PICK p \in Screen, c \in Colors : Clear({p}) /\ Call(<<Put(p[1], p[2], c)>>)
    BY <1>5 DEF CallSetPixel
  <2> DEFINE o == Put(p[1], p[2], c)
  <2>2. o = Op("set", p[1], p[2], c) /\ o.x = p[1] /\ o.y = p[2]
    BY DEF Put, Op
  <2>3. p[1] \in Columns /\ p[2] \in Nat
    BY Sizes DEF Screen, Columns
  <2>4. Call(<<o>>)
    BY <2>1
  <2> HIDE DEF o
  <2>5. ~Full \/ Off(o)
    BY <2>1, <2>2, ClearOff DEF Clear
  <2>6. UNCHANGED <<mem, video_window_y, cursor, scline>> /\ Len(todo') = 1 /\ todo'[1] = o
    BY <1>2, <2>4
  <2> QED BY <2>2, <2>3, <2>5, <2>6, OneForm
<1>6. ASSUME NEW op, NEW x, NEW y, NEW c, Call(<<Op(op, x, y, c)>>),
             op \in {"draw", "show", "hide", "mode"} \/ (op = "goto" /\ <<x, y>> \in Places)
      PROVE  Form'
  <2> DEFINE o == Op(op, x, y, c)
  <2>1. Call(<<o>>)
    BY <1>6
  <2> HIDE DEF o
  <2>2. UNCHANGED <<mem, video_window_y, cursor, scline>> /\ Len(todo') = 1 /\ todo'[1] = o
    BY <1>2, <2>1
  <2>3. o = Op(op, x, y, c)
    BY DEF o
  <2> QED BY <1>6, <2>2, <2>3, OneForm
<1>7. CASE CallDrawChar
  <2>1. PICK p, c : Call(<<Op("draw", p[1], p[2], c)>>)
    BY <1>7 DEF CallDrawChar
  <2> QED BY <1>6, <2>1
<1>8. CASE CallClear
  <2>1. todo' = video_clear_screen /\ UNCHANGED <<mem, video_window_y, cursor, scline>>
    BY <1>1, <1>8 DEF CallClear
  <2>2. VTypes'
    BY <2>1 DEF Form, VTypes, Moved, InCorner
  <2> QED BY <2>1, <2>2, ClearForm
<1>9. CASE CallSetCursor
  <2>1. PICK at \in Places : Call(<<Op("goto", at[1], at[2], 0)>>)
    BY <1>9 DEF CallSetCursor
  <2>2. <<at[1], at[2]>> \in Places
    BY DEF Places
  <2> QED BY <1>6, <2>1, <2>2
<1>10. CASE CallShow
  BY <1>6, <1>10 DEF CallShow, Do
<1>11. CASE CallSetMode
  BY <1>6, <1>11 DEF CallSetMode, Do
<1> QED BY <1>3, <1>4, <1>5, <1>7, <1>8, <1>9, <1>10, <1>11 DEF VideoCall

(* The handler changes the phase, and pixels.                              *)
LEMMA BlinkForm ==
  ASSUME Banked, Form, Blink
  PROVE  Form'
<1>1. /\ UNCHANGED <<video_window_y, scline, todo>> /\ Shaped
      /\ cursor' = [cursor EXCEPT !.blink = 1 - cursor.blink] /\ DOMAIN mem' = DOMAIN mem
  BY DEF Blink, DrawBar, Banked
<1>2. /\ cursor'.col = cursor.col /\ cursor'.row = cursor.row /\ cursor'.x = cursor.x /\ cursor'.y = cursor.y
      /\ cursor'.blink = 1 - cursor.blink /\ cursor'.buff = cursor.buff /\ cursor'.shown = cursor.shown
  BY <1>1 DEF Shaped
<1>3. cursor'.blink \in {0, 1}
  BY <1>2, PlaceTypes
<1>4. VTypes'
  BY <1>1, <1>2, <1>3 DEF Form, VTypes, Moved, InCorner
<1>5. Fits'
  <2>1. ASSUME NEW k \in 1 .. Len(todo)
        PROVE  (Suited(todo[k]) /\ Ordered(todo, k))'
    <3>1. Suited(todo[k]) /\ Ordered(todo, k)
      BY DEF Form, Fits
    <3>2. Suited(todo[k])'
      BY <1>1, <1>2, <3>1 DEF Suited
    <3>3. Ordered(todo, k)'
      BY <1>1, <1>2, <3>1 DEF Ordered, Off, Full
    <3> QED BY <3>2, <3>3
  <2> QED BY <1>1, <2>1 DEF Fits
<1>6. (Alone(todo) /\ Drawn(todo) /\ Scrolled(todo))'
  BY <1>1, <1>2 DEF Form, Alone, Drawn, Scrolled, Full
<1> QED BY <1>4, <1>5, <1>6 DEF Form

LEMMA InitForm == VideoInit => Form
<1> SUFFICES ASSUME NEW w \in Windows0, ConsoleAt(w)
             PROVE  Form
  BY DEF VideoInit
<1>1. /\ COLS \in Nat \ {0} /\ ROWS \in Nat \ {0} /\ HEIGHT \in Nat \ {0} /\ FONT_H \in Nat \ {0} /\ FNT_W \in Nat \ {0}
      /\ w \in 0 .. 2 * HEIGHT + FONT_H
  BY ScreenAssumption, MemoryAssumption, Sizes
<1>2. /\ cursor.col = 0 /\ cursor.shown = TRUE /\ cursor.blink = 0
      /\ cursor.row = IF w = 0 THEN 0 ELSE ROWS - 1
      /\ cursor.x = IF w = 0 THEN 0 ELSE 1
      /\ cursor.y = IF w = 0 THEN 0 ELSE HEIGHT - 1
      /\ cursor.buff = [i \in 0 .. BAR - 1 |-> BACK]
      /\ DOMAIN mem = 0 .. BANK * BANKS - 1 /\ DOMAIN scline = Columns /\ video_window_y = w
      /\ todo = <<>>
  BY DEF ConsoleAt, Columns
<1>3. Moved \/ InCorner
  <2>1. 0 * FNT_W = 0 /\ (ROWS - 1 + 1) * FONT_H = HEIGHT
    <3>1. ROWS - 1 + 1 = ROWS
      BY <1>1
    <3> QED BY <1>1, <3>1 DEF HEIGHT
  <2>2. CASE w = 0
    BY <1>2, <2>2 DEF InCorner
  <2>3. CASE w # 0
    <3>1. cursor.row + 1 = ROWS /\ cursor.x = 0 + 1 /\ cursor.y = HEIGHT - 1
      BY <1>1, <1>2, <2>3
    <3>2. cursor.col * FNT_W = 0 /\ (cursor.row + 1) * FONT_H = HEIGHT
      BY <1>1, <1>2, <3>1 DEF HEIGHT
    <3> QED BY <3>1, <3>2 DEF Moved
  <2> QED BY <2>2, <2>3
<1>4. 0 \in 0 .. COLS /\ 0 \in 0 .. ROWS - 1 /\ ROWS - 1 \in 0 .. ROWS - 1
  BY <1>1
<1>5. cursor.col \in 0 .. COLS /\ cursor.row \in 0 .. ROWS - 1 /\ DOMAIN cursor.buff = Bars
  BY <1>2, <1>4 DEF Bars
<1>6. VTypes
  BY <1>1, <1>2, <1>3, <1>5 DEF VTypes
<1>7. Len(todo) = 0
  BY <1>2
<1>8. Fits /\ Alone(todo) /\ Drawn(todo) /\ Scrolled(todo)
  BY <1>7 DEF Fits, Alone, Drawn, Emitting, Scrolled, Scrolling, Has
<1> QED BY <1>6, <1>8 DEF Form

(* The form is kept.                                                       *)
LEMMA FormNext ==
  ASSUME "full" \in VideoCalm, Banked, Form, [VideoNext]_vvars
  PROVE  Form'
<1>1. CASE VideoStep
  BY <1>1, SetPixelForm, GetPixelForm, SelectBankForm, AccessForm, MoveWindowForm, ExpandForm,
     DrawCharForm, MoveCursorForm, ShowCursorForm, SetModeForm DEF VideoStep
<1>2. CASE UNCHANGED vvars
  BY <1>2 DEF vvars, Form, VTypes, Moved, InCorner, Fits, Suited, Ordered, Off, Full, Alone, Drawn, Scrolled
<1> QED BY <1>1, <1>2, CallForm, BlinkForm DEF VideoNext

-----------------------------------------------------------------------------
(* Cells of the video memory.                                              *)
LEMMA SameRow ==
  ASSUME NEW a \in Columns, NEW b \in Columns, NEW r \in Nat, NEW q \in Nat, a + WIDTH * r = b + WIDTH * q
  PROVE  a = b /\ r = q
<1>1. WIDTH \in Nat \ {0} /\ a \in 0 .. WIDTH - 1 /\ b \in 0 .. WIDTH - 1
  BY Sizes DEF Columns
<1> DEFINE m == WIDTH
<1>2. r * m + a = q * m + b
  <2>1. r * m = WIDTH * r /\ q * m = WIDTH * q /\ r * m \in Nat /\ q * m \in Nat /\ a \in Nat /\ b \in Nat
    BY <1>1
  <2> QED BY <2>1
<1> HIDE DEF m
<1>3. m \in Nat \ {0} /\ a \in 0 .. m - 1 /\ b \in 0 .. m - 1
  BY <1>1 DEF m
<1>4. (r * m + a) \div m = r /\ (r * m + a) % m = a
  BY <1>3, DivModUnique
<1>5. (q * m + b) \div m = q /\ (q * m + b) % m = b
  BY <1>3, DivModUnique
<1> QED BY <1>2, <1>4, <1>5

LEMMA CellIn ==
  ASSUME NEW a \in Nat, a < 2 * WIDTH, NEW r \in Nat, r <= 3 * HEIGHT + FONT_H - 1
  PROVE  a + WIDTH * r \in 0 .. BANK * BANKS - 1
<1>1. WIDTH \in Nat \ {0} /\ HEIGHT \in Nat \ {0} /\ FONT_H \in Nat \ {0} /\ BANK * BANKS \in Nat
  BY Sizes, BankAssumption
<1> DEFINE n == 3 * HEIGHT + FONT_H + 1
<1>2. n \in Nat /\ r + 2 <= n /\ n - (r + 2) \in Nat
  BY <1>1
<1>3. WIDTH * n <= BANK * BANKS
  BY MemoryAssumption
<1> HIDE DEF n
<1>4. WIDTH * (n - (r + 2)) >= 0 /\ WIDTH * (n - (r + 2)) = WIDTH * n - (WIDTH * r + 2 * WIDTH)
  BY <1>1, <1>2
<1>5. WIDTH * n \in Nat /\ WIDTH * r \in Nat
  BY <1>1, <1>2
<1> QED BY <1>1, <1>3, <1>4, <1>5

(* The bar of the cursor lies in the memory, and on the screen unless the  *)
(* cursor is behind a full line.                                           *)
LEMMA BarCell ==
  ASSUME Form, NEW i \in Bars
  PROVE  /\ i \in Nat /\ cursor.x + i \in Nat /\ cursor.x + i < 2 * WIDTH
         /\ ~Full => cursor.x + i \in Columns
         /\ BarAt(i) = cursor.x + i + WIDTH * (cursor.y + video_window_y)
         /\ BarAt(i) \in DOMAIN mem
         /\ \A j \in Bars : BarAt(i) = BarAt(j) <=> i = j
<1>1. /\ WIDTH \in Nat \ {0} /\ HEIGHT \in Nat \ {0} /\ FONT_H \in Nat \ {0} /\ FNT_W \in Nat /\ FNT_W >= 3
      /\ COLS \in Nat \ {0} /\ i \in 0 .. FNT_W - 3 /\ i \in Nat
  BY Sizes, ScreenAssumption DEF Bars, BAR
<1>2. cursor.x \in Nat /\ cursor.y \in Nat /\ video_window_y \in Nat /\ cursor.y < HEIGHT
  BY PlaceTypes
<1>3. Moved \/ InCorner
  BY DEF Form, VTypes
<1>4. ASSUME ~Full
      PROVE  cursor.x + i \in Columns
  <2>1. FONT_H - 1 \in 0 .. FONT_H - 1
    BY <1>1
  <2>2. CASE Moved
    <3>1. i + 1 \in 0 .. FNT_W - 1
      BY <1>1
    <3>2. cursor.col * FNT_W + (i + 1) \in Columns
      BY <1>4, <2>1, <3>1, CellPixel
    <3>3. cursor.x = cursor.col * FNT_W + 1 /\ cursor.col * FNT_W \in Nat
      BY <1>1, <2>2, PlaceTypes DEF Moved
    <3> DEFINE a == cursor.col * FNT_W
    <3> HIDE DEF a
    <3>4. a + 1 + i = a + (i + 1) /\ cursor.x = a + 1
      BY <1>1, <3>3 DEF a
    <3> QED BY <3>2, <3>4 DEF a
  <2>3. CASE InCorner
    <3>1. i \in 0 .. FNT_W - 1
      BY <1>1
    <3>2. cursor.col * FNT_W + i \in Columns
      BY <1>4, <2>1, <3>1, CellPixel
    <3>3. cursor.col * FNT_W = 0 /\ cursor.x = 0
      BY <1>1, <2>3 DEF InCorner
    <3> QED BY <3>2, <3>3
  <2> QED BY <1>3, <2>2, <2>3
<1>5. cursor.x + i < 2 * WIDTH
  <2>1. CASE ~Full
    BY <1>1, <1>4, <2>1 DEF Columns
  <2>2. CASE Full
    <3>1. Moved
      BY <1>1, <1>3, <2>2 DEF Full, InCorner
    <3>2. cursor.x = WIDTH + 1
      BY <2>2, <3>1 DEF Full, Moved, WIDTH
    <3>3. WIDTH >= FNT_W
      BY <1>1, ProductGrows DEF WIDTH
    <3> QED BY <1>1, <3>2, <3>3
  <2> QED BY <2>1, <2>2
<1>6. cursor.x + i \in Nat
  BY <1>1, <1>2
<1> DEFINE r == cursor.y + video_window_y
<1>7. r \in Nat /\ r <= 3 * HEIGHT + FONT_H - 1 /\ WIDTH * r \in Nat
  <2>1. video_window_y <= 2 * HEIGHT + FONT_H
    BY DEF Form, VTypes
  <2>2. r \in Nat /\ r <= 3 * HEIGHT + FONT_H - 1
    BY <1>1, <1>2, <2>1
  <2> HIDE DEF r
  <2> QED BY <1>1, <2>2
<1>8. BarAt(i) = cursor.x + i + WIDTH * r
  <2>1. BarAt(i) = (cursor.x + WIDTH * r) + i
    BY DEF BarAt, Addr
  <2> HIDE DEF r
  <2> QED BY <1>1, <1>2, <1>7, <2>1
<1>9. \A j \in Bars : BarAt(i) = BarAt(j) <=> i = j
  <2>1. BarAt(i) = (cursor.x + WIDTH * r) + i /\ \A j \in Bars : BarAt(j) = (cursor.x + WIDTH * r) + j
    BY DEF BarAt, Addr
  <2>2. Bars \subseteq Nat
    BY DEF Bars
  <2> HIDE DEF r
  <2> QED BY <1>1, <1>2, <1>7, <2>1, <2>2
<1> HIDE DEF r
<1>10. BarAt(i) \in DOMAIN mem
  <2>1. DOMAIN mem = 0 .. BANK * BANKS - 1
    BY DEF Form, VTypes
  <2> QED BY <1>5, <1>6, <1>7, <1>8, <2>1, CellIn
<1> QED BY <1>1, <1>4, <1>5, <1>6, <1>8, <1>9, <1>10 DEF r

(* A pixel of a column that is one of the bar's.                           *)
LEMMA SameCell ==
  ASSUME Form, ~Full, NEW x \in Columns, NEW y \in Nat, NEW i \in Bars,
         Addr(x, y, video_window_y) = BarAt(i)
  PROVE  x = cursor.x + i /\ y = cursor.y
<1>1. cursor.x + i \in Columns /\ BarAt(i) = cursor.x + i + WIDTH * (cursor.y + video_window_y)
  BY BarCell
<1>2. cursor.y \in Nat /\ video_window_y \in Nat /\ y + video_window_y \in Nat /\ cursor.y + video_window_y \in Nat
  BY PlaceTypes
<1> DEFINE b == cursor.x + i
           q == cursor.y + video_window_y
           r == y + video_window_y
<1>3. b \in Columns /\ q \in Nat /\ r \in Nat /\ x + WIDTH * r = b + WIDTH * q
  BY <1>1, <1>2 DEF Addr
<1> HIDE DEF b, q, r
<1>4. x = b /\ r = q
  BY <1>3, SameRow
<1> QED BY <1>2, <1>4 DEF b, q, r

(* An access reaches the cell of its pixel.                                *)
LEMMA AccessCell ==
  ASSUME Banked, Form, NEW op \in Accesses, Now(op)
  PROVE  CellOf(Arg) = At(todo[1]) /\ Arg = todo[1]
<1>1. Arg = todo[1] /\ todo[1].op = op /\ Suited(todo[1])
  BY HeadFits
<1>2. Reaches(todo[1], bank, video_window_y)
  BY <1>1, OrderTail DEF Banked, Now
<1> DEFINE o == todo[1]
           a == Addr(o.x, o.y, video_window_y)
<1>3. o.x \in Nat /\ o.y \in Nat
  <2>1. cursor.x \in Nat /\ cursor.y \in Nat /\ Columns \subseteq Nat /\ Bars \subseteq Nat
    BY PlaceTypes DEF Columns, Bars
  <2>2. op \in {"store", "load", "fetch"}
    BY DEF Accesses
  <2>3. CASE op = "load"
    <3>1. o.c \in Nat /\ o.x = cursor.x + o.c /\ o.y = cursor.y
      BY <1>1, <2>1, <2>3 DEF Suited
    <3> HIDE DEF o
    <3> QED BY <2>1, <3>1
  <2>4. CASE op # "load"
    BY <1>1, <2>1, <2>2, <2>4 DEF Suited
  <2> QED BY <2>3, <2>4
<1>4. a \in Nat
  <2>1. video_window_y \in Nat /\ WIDTH \in Nat
    BY PlaceTypes, Sizes
  <2>2. o.y + video_window_y \in Nat
    BY <1>3, <2>1
  <2> QED BY <1>3, <2>1, <2>2 DEF Addr
<1>5. bank = a \div BANK
  BY <1>2 DEF Reaches, BankOf
<1> HIDE DEF a, o
<1>6. a = (a \div BANK) * BANK + (a % BANK)
  BY <1>4, BankAssumption, DivMod
<1>7. CellOf(o) = bank * BANK + (a % BANK) /\ At(o) = a
  BY DEF CellOf, At, a
<1> QED BY <1>1, <1>5, <1>6, <1>7 DEF o

-----------------------------------------------------------------------------
(* What the steps do, in the terms of the content.                         *)
Stays == /\ cursor'.col = cursor.col /\ cursor'.row = cursor.row /\ cursor'.x = cursor.x /\ cursor'.y = cursor.y
         /\ cursor'.shown = cursor.shown /\ cursor'.blink = cursor.blink
         /\ video_window_y' = video_window_y

(* No access is compared with current_bank but the next.                   *)
LEMMA RestPlain ==
  ASSUME Banked, todo # <<>>, todo[1].op \notin Banking
  PROVE  \A k \in 2 .. Len(todo) : Plain(todo[k]) /\ todo[k].op \notin Accesses \cup Banking
<1>1. PICK n \in 0 .. 3 : Leads(todo, n, bank, video_window_y)
  BY DEF Banked, Order
<1>2. n # 3 /\ n # 2
  BY <1>1 DEF Leads, Led, Banking
<1>3. n = 0 \/ n = 1
  BY <1>2
<1>4. ASSUME NEW k \in 2 .. Len(todo)
      PROVE  Plain(todo[k]) /\ todo[k].op \notin Accesses \cup Banking
  <2>1. k \in n + 1 .. Len(todo)
    BY <1>3
  <2>2. Plain(todo[k])
    BY <1>1, <2>1 DEF Leads
  <2> QED BY <2>2 DEF Plain, PlainOps, Accesses, Banking
<1> QED BY <1>4

(* A pixel x, y is set to c.                                               *)
SetStep(op, x, y, c, s) ==
  /\ op \in {"set", "put", "paste"} /\ x \in Nat /\ y \in Nat
  /\ Now(op) /\ todo[1].op = op /\ Spliced(todo, s, todo') /\ Ends(s, Op("store", x, y, c))
  /\ UNCHANGED <<mem, scline>> /\ Stays
  /\ \A i \in Bars : cursor'.buff[i] = IF cursor.shown /\ x = cursor.x + i /\ y = cursor.y
                                       THEN c ELSE cursor.buff[i]
  /\ \A i \in Bars : cursor.shown /\ At(Op("store", x, y, c)) = BarAt(i) => x = cursor.x + i /\ y = cursor.y
  /\ op = "set" => x \in Columns /\ x = todo[1].x /\ y = todo[1].y /\ c = todo[1].c
  /\ op = "paste" => x \in Columns /\ x = todo[1].x /\ y = todo[1].y /\ c = scline[x]

LEMMA SetPixelStep ==
  ASSUME Banked, Form, SetPixel
  PROVE  \E op, x, y, c, s : SetStep(op, x, y, c, s)
<1>1. cursor.x \in Nat /\ cursor.y \in Nat /\ Columns \subseteq Nat /\ Bars \subseteq Nat /\ video_window_y \in Nat
  BY PlaceTypes DEF Columns, Bars
<1>2. Shaped /\ DOMAIN cursor.buff = Bars /\ BAR \in Nat
  BY Sizes DEF Banked, Form, VTypes
<1>3. ASSUME NEW op \in {"set", "put", "paste"}, Now(op), NEW x \in Nat, NEW y \in Nat, NEW c, SetTo(x, y, c),
             \/ op = "put" /\ x = cursor.x + todo[1].x /\ y = cursor.y /\ todo[1].x \in Bars
             \/ op \in {"set", "paste"} /\ x = todo[1].x /\ y = todo[1].y,
             op = "set" => c = todo[1].c, op = "paste" => c = scline[x]
      PROVE  \E s : SetStep(op, x, y, c, s)
  <2> DEFINE o == Op("store", x, y, c)
             s == Selected(Addr(x, y, video_window_y), o)
  <2>1. Ends(s, o)
    BY SelectedEnds
  <2>2. todo' = s \o Rest
    BY <1>3 DEF SetTo, Continue
  <2>3. UNCHANGED <<mem, video_window_y, scline>> /\ cursor' = [cursor EXCEPT !.buff = Saved(x, y, c)]
    BY <1>3 DEF SetTo
  <2>4. Stays /\ cursor'.buff = Saved(x, y, c)
    BY <1>2, <2>3 DEF Shaped, Stays
  <2>5. ASSUME NEW i \in Bars
        PROVE  cursor'.buff[i] = IF cursor.shown /\ x = cursor.x + i /\ y = cursor.y THEN c ELSE cursor.buff[i]
    <3>1. i \in Nat /\ i \in 0 .. BAR - 1
      BY <1>1 DEF Bars
    <3>2. CASE cursor.shown /\ x = cursor.x + i /\ y = cursor.y
      <4>1. x - cursor.x = i /\ x \in cursor.x .. cursor.x + BAR - 1
        BY <1>1, <1>2, <3>1, <3>2
      <4>2. OnBar(cursor, x, y)
        BY <3>2, <4>1 DEF OnBar
      <4>3. cursor'.buff = [cursor.buff EXCEPT ![i] = c]
        BY <2>4, <3>2, <4>1, <4>2 DEF Saved
      <4> QED BY <1>2, <3>2, <4>3
    <3>3. CASE ~(cursor.shown /\ x = cursor.x + i /\ y = cursor.y)
      <4>1. CASE cursor.shown /\ OnBar(cursor, x, y)
        <5>1. y = cursor.y /\ x \in cursor.x .. cursor.x + BAR - 1
          BY <4>1 DEF OnBar
        <5>2. x - cursor.x # i
          BY <1>1, <3>1, <3>3, <4>1, <5>1
        <5>3. cursor'.buff = [cursor.buff EXCEPT ![x - cursor.x] = c]
          BY <2>4, <4>1 DEF Saved
        <5> QED BY <1>2, <3>3, <5>2, <5>3
      <4>2. CASE ~(cursor.shown /\ OnBar(cursor, x, y))
        BY <2>4, <3>3, <4>2 DEF Saved
      <4> QED BY <4>1, <4>2
    <3> QED BY <3>2, <3>3
  <2>6. Suited(todo[1]) /\ Ordered(todo, 1) /\ todo[1].op = op
    BY <1>3, HeadFits
  <2>7. op \in {"set", "paste"} => x \in Columns
    BY <1>3, <2>6 DEF Suited
  <2>8. ASSUME NEW i \in Bars, cursor.shown, At(o) = BarAt(i)
        PROVE  x = cursor.x + i /\ y = cursor.y
    <3>1. At(o) = Addr(x, y, video_window_y)
      BY DEF At, Op
    <3>2. CASE op = "put"
      <4>1. x = cursor.x + todo[1].x /\ y = cursor.y /\ todo[1].x \in Bars
        BY <1>3, <3>2
      <4> DEFINE j == todo[1].x
      <4>2. At(o) = cursor.x + j + WIDTH * (cursor.y + video_window_y)
        BY <3>1, <4>1 DEF Addr
      <4>3. BarAt(j) = cursor.x + j + WIDTH * (cursor.y + video_window_y) /\ (BarAt(i) = BarAt(j) <=> i = j)
        BY <4>1, BarCell
      <4>4. i = j
        BY <2>8, <4>2, <4>3
      <4> QED BY <4>1, <4>4
    <3>3. CASE op \in {"set", "paste"}
      <4>1. ~Full \/ Off(todo[1])
        BY <2>6, <2>8, <3>3 DEF Ordered, Behind
      <4>2. ~Off(todo[1])
        <5>1. At(o) = Addr(todo[1].x, todo[1].y, video_window_y)
          BY <1>3, <3>1, <3>3
        <5> QED BY <2>8, <5>1 DEF Off, BarAt, Bars
      <4> QED BY <2>7, <2>8, <3>1, <3>3, <4>1, <4>2, SameCell
    <3> QED BY <3>2, <3>3
  <2> HIDE DEF s, o
  <2>9. Spliced(todo, s, todo')
    BY <1>3, <2>1, <2>2, TodoHead DEF Ends
  <2>10. SetStep(op, x, y, c, s)
    BY <1>3, <2>1, <2>3, <2>4, <2>5, <2>6, <2>7, <2>8, <2>9 DEF SetStep, o
  <2> QED BY <2>10
<1>4. CASE Now("set") /\ SetTo(Arg.x, Arg.y, Arg.c)
  <2>1. Arg.x \in Nat /\ Arg.y \in Nat /\ Arg = todo[1]
    BY <1>1, <1>4, HeadFits DEF Suited
  <2> QED BY <1>3, <1>4, <2>1
<1>5. CASE Now("put") /\ SetTo(cursor.x + Arg.x, cursor.y, cursor.buff[Arg.x])
  <2>1. Arg.x \in Nat /\ Arg = todo[1] /\ Arg.x \in Bars
    BY <1>1, <1>5, HeadFits DEF Suited
  <2>2. cursor.x + Arg.x \in Nat
    BY <1>1, <2>1
  <2> QED BY <1>1, <1>3, <1>5, <2>1, <2>2
<1>6. CASE Now("paste") /\ SetTo(Arg.x, Arg.y, scline[Arg.x])
  <2>1. Arg.x \in Nat /\ Arg.y \in Nat /\ Arg = todo[1]
    BY <1>1, <1>6, HeadFits DEF Suited
  <2> QED BY <1>3, <1>6, <2>1
<1> QED BY <1>4, <1>5, <1>6 DEF SetPixel

(* An access.                                                              *)
StoreStep == /\ UNCHANGED <<cursor, scline>> /\ Stays /\ todo[1].op = "store" /\ DOMAIN mem' = DOMAIN mem
             /\ \A a \in DOMAIN mem : mem'[a] = IF a = At(todo[1]) THEN todo[1].c ELSE mem[a]
LoadStep  == /\ UNCHANGED <<mem, scline>> /\ Stays /\ todo[1].op = "load"
             /\ \A i \in Bars : cursor'.buff[i] = IF i = todo[1].c THEN mem[BarAt(i)] ELSE cursor.buff[i]
FetchStep == /\ UNCHANGED <<mem, cursor>> /\ Stays /\ todo[1].op = "fetch"
             /\ \A x \in Columns : scline'[x] = IF x = todo[1].x THEN mem[At(todo[1])] ELSE scline[x]

LEMMA AccessStep ==
  ASSUME Banked, Form, Access
  PROVE  Spliced(todo, <<>>, todo') /\ todo # <<>> /\ Suited(todo[1]) /\ (StoreStep \/ LoadStep \/ FetchStep)
<1>1. PICK op \in {"store", "load", "fetch"} : Now(op)
  BY DEF Access
<1>2. Spliced(todo, <<>>, todo') /\ todo[1].op = op /\ todo # <<>>
  BY <1>1, TodoHead DEF Access, Continue
<1>3. Suited(todo[1]) /\ Arg = todo[1] /\ Shaped /\ VTypes /\ CellOf(Arg) = At(todo[1])
  BY <1>1, HeadFits, AccessCell DEF Banked, Form, Accesses
<1>4. video_window_y' = video_window_y
  BY DEF Access
<1>5. CASE op = "store"
  <2>1. mem' = [mem EXCEPT ![At(todo[1])] = todo[1].c] /\ UNCHANGED <<cursor, scline>>
    BY <1>1, <1>3, <1>5 DEF Access, Now
  <2> QED BY <1>2, <1>3, <1>4, <1>5, <2>1 DEF StoreStep, Stays
<1>6. CASE op = "load"
  <2>1. cursor' = [cursor EXCEPT !.buff[todo[1].c] = mem[At(todo[1])]] /\ UNCHANGED <<mem, scline>>
    BY <1>1, <1>3, <1>6 DEF Access, Now
  <2>2. Stays /\ cursor'.buff = [cursor.buff EXCEPT ![todo[1].c] = mem[At(todo[1])]]
    BY <1>3, <1>4, <2>1 DEF Shaped, Stays
  <2>3. todo[1].c \in Bars /\ DOMAIN cursor.buff = Bars
    BY <1>2, <1>3, <1>6 DEF Suited, VTypes
  <2>4. At(todo[1]) = BarAt(todo[1].c)
    <3>1. todo[1].x = cursor.x + todo[1].c /\ todo[1].y = cursor.y
      BY <1>2, <1>3, <1>6 DEF Suited
    <3> QED BY <2>3, <3>1, BarCell DEF At, Addr
  <2> QED BY <1>2, <1>6, <2>1, <2>2, <2>3, <2>4, <1>3 DEF LoadStep
<1>7. CASE op = "fetch"
  <2>1. scline' = [scline EXCEPT ![todo[1].c] = mem[At(todo[1])]] /\ UNCHANGED <<mem, cursor>>
    BY <1>1, <1>3, <1>7 DEF Access, Now
  <2>2. todo[1].c = todo[1].x /\ DOMAIN scline = Columns
    BY <1>2, <1>3, <1>7 DEF Suited, VTypes
  <2> QED BY <1>2, <1>3, <1>4, <1>7, <2>1, <2>2 DEF FetchStep, Stays
<1> QED BY <1>1, <1>2, <1>3, <1>5, <1>6, <1>7

(* A blink: pixels of the bar only.                                        *)
BlinkStep ==
  /\ UNCHANGED <<video_window_y, scline, todo, seen>> /\ cursor.shown
  /\ cursor'.col = cursor.col /\ cursor'.row = cursor.row /\ cursor'.x = cursor.x /\ cursor'.y = cursor.y
  /\ cursor'.shown = cursor.shown /\ cursor'.buff = cursor.buff /\ cursor'.blink = 1 - cursor.blink
  /\ \A a \in DOMAIN mem : (\A i \in Bars : a # BarAt(i)) => mem'[a] = mem[a]
  /\ cursor.blink = 1 => \A i \in Bars : mem'[BarAt(i)] = cursor.buff[i]

LEMMA BlinkPixels ==
  ASSUME "bank" \in VideoCalm, Banked, Form, Blink
  PROVE  BlinkStep
<1> DEFINE first == Addr(cursor.x, cursor.y, video_window_y)
           b == BankFor(first)
           cell == b * BANK + (first % BANK)
           colors == IF 1 - cursor.blink = 0 THEN cursor.buff ELSE [i \in 0 .. BAR - 1 |-> TEXT]
<1>1. /\ UNCHANGED <<video_window_y, scline, todo, seen>> /\ cursor.shown
      /\ cursor' = [cursor EXCEPT !.blink = 1 - cursor.blink]
      /\ mem' = [a \in DOMAIN mem |-> IF a \in cell .. cell + BAR - 1 THEN colors[a - cell] ELSE mem[a]]
  BY DEF Blink, DrawBar
<1>2. /\ cursor'.col = cursor.col /\ cursor'.row = cursor.row /\ cursor'.x = cursor.x /\ cursor'.y = cursor.y
      /\ cursor'.shown = cursor.shown /\ cursor'.buff = cursor.buff /\ cursor'.blink = 1 - cursor.blink
  BY <1>1 DEF Banked, Shaped
<1>3. (Now("record") \/ Now("store") \/ Now("load") \/ Now("fetch")) => BankOf(first) = bank
  BY DEF Blink, InWindow, BlinkWindows
<1>4. BankOf(first) = b
  <2>1. CASE BankOf(first) # current_bank
    BY <2>1 DEF BankFor
  <2>2. CASE BankOf(first) = current_bank
    <3>1. CASE bank = current_bank
      BY <2>2, <3>1 DEF BankFor
    <3>2. CASE Known
      <4>1. todo # <<>> /\ Head(todo) = todo[1]
        BY <3>2, OrderTail DEF Known, Banked
      <4>2. Now("record")
        BY <3>2, <4>1 DEF Known, Now
      <4> QED BY <1>3, <2>2, <4>2 DEF BankFor
    <3>3. CASE Fresh
      BY <2>2, <3>3, FirstBank DEF Fresh, BankFor
    <3> QED BY <3>1, <3>2, <3>3 DEF Banked
  <2> QED BY <2>1, <2>2
<1>5. 0 \in Bars /\ BAR \in Nat /\ Bars \subseteq Nat
  BY Sizes DEF Bars
<1>6. first \in Nat /\ first = BarAt(0)
  <2>1. cursor.x \in Nat /\ cursor.y \in Nat /\ video_window_y \in Nat /\ WIDTH \in Nat
    BY PlaceTypes, Sizes
  <2>2. cursor.y + video_window_y \in Nat
    BY <2>1
  <2>3. first \in Nat
    BY <2>1, <2>2 DEF Addr
  <2>4. BarAt(0) = first + 0
    BY DEF BarAt
  <2> QED BY <2>3, <2>4
<1>7. \A i \in Bars : BarAt(i) = first + i
  BY DEF BarAt
<1>8. cell = first
  <2> HIDE DEF first, b
  <2>1. first = (first \div BANK) * BANK + (first % BANK)
    BY <1>6, BankAssumption, DivMod
  <2> QED BY <1>4, <2>1 DEF BankOf
<1> HIDE DEF first, cell, b, colors
<1>9. ASSUME NEW a \in DOMAIN mem, \A i \in Bars : a # BarAt(i)
      PROVE  mem'[a] = mem[a]
  <2>1. a \notin first .. first + BAR - 1
    <3> SUFFICES ASSUME a \in first .. first + BAR - 1
                 PROVE  FALSE
      OBVIOUS
    <3>1. a - first \in Bars /\ first + (a - first) = a
      BY <1>5, <1>6 DEF Bars
    <3> QED BY <1>7, <1>9, <3>1
  <2> QED BY <1>1, <1>8, <2>1
<1>10. ASSUME cursor.blink = 1, NEW i \in Bars
       PROVE  mem'[BarAt(i)] = cursor.buff[i]
  <2>1. colors = cursor.buff
    BY <1>10 DEF colors
  <2>2. BarAt(i) \in DOMAIN mem /\ BarAt(i) = first + i
    BY <1>7, BarCell
  <2>3. first + i \in first .. first + BAR - 1 /\ (first + i) - first = i
    BY <1>5, <1>6 DEF Bars
  <2> QED BY <1>1, <1>8, <2>1, <2>2, <2>3
<1> QED BY <1>1, <1>2, <1>9, <1>10 DEF BlinkStep

-----------------------------------------------------------------------------
(* The content, as the operations before others take their place.          *)
LEMMA AgreedRest ==
  ASSUME Banked, NEW s, Spliced(todo, s, todo'), todo # <<>>, todo[1].op \notin Banking,
         \A k \in 1 .. Len(s) : s[k].op # "store"
  PROVE  Agreed'
<1>1. ASSUME NEW k \in 1 .. Len(todo')
      PROVE  todo'[k].op # "store"
  <2>1. CASE k \in 1 .. Len(s) /\ todo'[k] = s[k]
    BY <2>1
  <2>2. CASE \E q \in 2 .. Len(todo) : todo'[k] = todo[q]
    BY <2>2, RestPlain DEF Accesses
  <2> QED BY <2>1, <2>2, SplicedCases
<1> QED BY <1>1 DEF Agreed

(* The same, as an operation that is no store or the one due is done.      *)
LEMMA AgreedTail ==
  ASSUME Agreed, Spliced(todo, <<>>, todo'), Stays, cursor'.buff = cursor.buff
  PROVE  Agreed'
<1>1. Len(todo) \in Nat \ {0} /\ \A k \in 1 .. Len(todo') : \E q \in 2 .. Len(todo) : todo'[k] = todo[q]
  <2>1. Len(<<>>) = 0
    OBVIOUS
  <2>2. \A k \in 1 .. 0 : FALSE
    OBVIOUS
  <2> DEFINE s == <<>>
  <2>3. Spliced(todo, s, todo') /\ Len(s) = 0
    BY <2>1
  <2> HIDE DEF s
  <2>4. /\ Len(todo) \in Nat \ {0}
        /\ \A k \in 1 .. Len(todo') :
             \/ k \in 1 .. Len(s) /\ todo'[k] = s[k]
             \/ \E q \in 2 .. Len(todo) : k = Len(s) + q - 1 /\ todo'[k] = todo[q]
    BY <2>3, SplicedCases
  <2> QED BY <2>2, <2>3, <2>4
<1>2. SUFFICES ASSUME cursor'.shown, NEW k \in 1 .. Len(todo'), NEW i \in Bars,
                      todo'[k].op = "store", (At(todo[k]) = BarAt(i))'
               PROVE  todo'[k].c = cursor'.buff[i]
  BY DEF Agreed
<1>3. PICK q \in 2 .. Len(todo) : todo'[k] = todo[q]
  BY <1>1
<1>4. q \in 1 .. Len(todo) /\ cursor.shown
  BY <1>1, <1>2 DEF Stays
<1>5. At(todo[q]) = BarAt(i)
  BY <1>2, <1>3 DEF Stays, At, BarAt
<1> QED BY <1>2, <1>3, <1>4, <1>5 DEF Agreed, Stays

(* A call that neither scrolls nor has drawn a character.                  *)
QuietOps == {"put", "save", "load", "draw", "serve", "clear", "goto", "place", "fast",
             "show", "shown", "hide", "hidden", "mode"}
LEMMA QuietNext ==
  ASSUME Form, NEW s, Spliced(todo, s, todo'), todo[1].op \in QuietOps,
         \A k \in 1 .. Len(s) : s[k].op \notin {"scroll", "after"}
  PROVE  ~Scrolling(todo') /\ ~Emitting(todo')
<1>1. /\ Len(todo) \in Nat \ {0} /\ Len(s) \in Nat /\ Len(todo') = Len(s) + Len(todo) - 1
      /\ Len(todo) >= 2 => todo'[Len(todo')] = todo[Len(todo)]
      /\ Len(todo) = 1 /\ Len(todo') >= 1 => todo'[Len(todo')] = s[Len(s)]
  BY SplicedLast
<1>2. ~Scrolling(todo) /\ ~Emitting(todo)
  BY <1>1, HeadKinds DEF QuietOps, Banking
<1>3. ~Scrolling(todo')
  BY <1>2, SplicedHas DEF Scrolling
<1>4. ~Emitting(todo')
  <2> SUFFICES ASSUME Emitting(todo')
               PROVE  FALSE
    OBVIOUS
  <2>1. Len(todo') >= 1 /\ todo'[Len(todo')].op = "after" /\ ~Has(todo', {"glyph"})
    BY DEF Emitting
  <2>2. CASE Len(todo) >= 2
    <3>1. ~Has(todo, {"glyph"})
      BY <2>1, SplicedHas DEF QuietOps
    <3> QED BY <1>1, <1>2, <2>1, <2>2, <3>1 DEF Emitting
  <2>3. CASE Len(todo) = 1
    <3>1. Len(s) = Len(todo') /\ todo'[Len(todo')] = s[Len(s)]
      BY <1>1, <2>1, <2>3
    <3>2. Len(s) \in 1 .. Len(s)
      BY <1>1, <2>1, <3>1
    <3> QED BY <2>1, <3>1, <3>2
  <2>4. Len(todo) >= 2 \/ Len(todo) = 1
    <3> DEFINE n == Len(todo)
    <3>1. n \in Nat \ {0}
      BY <1>1
    <3> HIDE DEF n
    <3>2. n >= 2 \/ n = 1
      BY <3>1
    <3> QED BY <3>2 DEF n
  <2> QED BY <2>2, <2>3, <2>4
<1> QED BY <1>3, <1>4

(* What is awaited still is.                                               *)
LEMMA AwaitedNext ==
  ASSUME NEW s, Spliced(todo, s, todo'), NEW i, Awaited(i), todo[1].op \notin {"save", "load", "store"},
         cursor'.x = cursor.x, cursor'.y = cursor.y, video_window_y' = video_window_y
  PROVE  Awaited(i)'
<1>1. /\ Len(todo) \in Nat \ {0} /\ Len(s) \in Nat
      /\ \A q \in 2 .. Len(todo) : Len(s) + q - 1 \in 1 .. Len(todo') /\ todo'[Len(s) + q - 1] = todo[q]
  BY SplicedCases
<1>2. PICK q \in 1 .. Len(todo) : \/ todo[q].op = "save" /\ todo[q].x = i
                                  \/ todo[q].op = "load" /\ todo[q].c = i
                                  \/ todo[q].op = "store" /\ At(todo[q]) = BarAt(i)
  BY DEF Awaited
<1>3. q \in 2 .. Len(todo)
  BY <1>1, <1>2
<1>4. PICK k \in 1 .. Len(todo') : todo'[k] = todo[q]
  BY <1>1, <1>3
<1>6. At(todo[k])' = At(todo[q]) /\ BarAt(i)' = BarAt(i)
  BY <1>4 DEF At, BarAt
<1> QED BY <1>2, <1>4, <1>6 DEF Awaited

(* What the bar holds and what is below it agree, or are still to agree.   *)
LEMMA KeptNext ==
  ASSUME Kept, NEW s, Spliced(todo, s, todo'), todo[1].op \notin {"save", "load", "store", "scroll"},
         mem' = mem, cursor'.x = cursor.x, cursor'.y = cursor.y, video_window_y' = video_window_y,
         cursor'.buff = cursor.buff, cursor'.blink = cursor.blink,
         cursor'.shown \/ Has(todo', {"shown"}) => cursor.shown \/ Has(todo, {"shown"})
  PROVE  Kept'
<1>1. Scrolling(todo) => Scrolling(todo')
  BY SplicedHas DEF Scrolling
<1>2. SUFFICES ASSUME ~Scrolling(todo'), cursor'.shown \/ Has(todo', {"shown"}), cursor'.blink = 0, NEW i \in Bars
               PROVE  Held(i)' \/ Awaited(i)'
  BY DEF Kept
<1>3. Held(i) \/ Awaited(i)
  BY <1>1, <1>2 DEF Kept
<1>4. Held(i) => Held(i)'
  BY DEF Held, BarAt
<1> QED BY <1>3, <1>4, AwaitedNext

(* Every pixel below the bar is to be saved.                               *)
Covers(s) == \A i \in Bars : \E k \in 1 .. Len(s) : s[k].op = "save" /\ s[k].x = i
LEMMA BarCovers ==
  ASSUME NEW o
  PROVE  Covers(Bar("save")) /\ Covers(Bar("save") \o <<o>>)
<1> DEFINE s == Bar("save")
           r == <<o>>
           u == s \o r
<1>1. IsSeq(s) /\ Len(s) = BAR /\ \A i \in Bars : i + 1 \in 1 .. BAR /\ s[i + 1] = Op("save", i, 0, 0)
  BY BarOps
<1>2. \A i : Op("save", i, 0, 0).op = "save" /\ Op("save", i, 0, 0).x = i
  BY DEF Op
<1>3. r \in Seq({o}) /\ Len(r) = 1
  OBVIOUS
<1> HIDE DEF r, s
<1>4. IsSeq(r)
  <2>1. r[1] = o
    BY DEF r
  <2> QED BY <1>3, SeqOver
<1>5. Joined(s, r, u)
  BY <1>1, <1>4, ConcatOps
<1> HIDE DEF u
<1>6. BAR \in Nat /\ Len(u) = BAR + 1 /\ \A k \in 1 .. BAR : u[k] = s[k]
  BY <1>1, <1>3, <1>5, Sizes DEF Joined
<1>7. ASSUME NEW i \in Bars
      PROVE  /\ \E k \in 1 .. Len(s) : s[k].op = "save" /\ s[k].x = i
             /\ \E k \in 1 .. Len(u) : u[k].op = "save" /\ u[k].x = i
  <2> DEFINE k == i + 1
  <2>1. k \in 1 .. BAR /\ s[k].op = "save" /\ s[k].x = i
    BY <1>1, <1>2
  <2> HIDE DEF k
  <2>2. k \in 1 .. Len(s) /\ k \in 1 .. Len(u) /\ u[k] = s[k]
    BY <1>1, <1>6, <2>1
  <2> QED BY <2>1, <2>2
<1> QED BY <1>7 DEF Covers, s, u, r

(* A step of a call that neither scrolls nor draws.                        *)
QuietBy(s) ==
  /\ todo # <<>> /\ todo[1].op \in QuietOps \ {"put", "save", "load"} /\ Spliced(todo, s, todo')
  /\ \A k \in 1 .. Len(s) : s[k].op \notin {"scroll", "after", "store"}
  /\ \/ /\ UNCHANGED <<mem, video_window_y>>
        /\ cursor'.x = cursor.x /\ cursor'.y = cursor.y
        /\ cursor'.buff = cursor.buff /\ cursor'.blink = cursor.blink
        /\ cursor'.shown \/ Has(todo', {"shown"}) => cursor.shown \/ Has(todo, {"shown"})
     \/ ~cursor'.shown /\ ~Has(todo', {"shown"})
     \/ Covers(s)
     \/ cursor'.blink # 0

LEMMA QuietContent ==
  ASSUME Banked, Form, Content, NEW s, QuietBy(s)
  PROVE  Content'
<1>1. Agreed'
  BY AgreedRest DEF QuietBy, QuietOps, Banking
<1>2. ~Scrolling(todo') /\ ~Emitting(todo')
  BY QuietNext DEF QuietBy
<1>3. Kept'
  <2>1. CASE /\ UNCHANGED <<mem, video_window_y>>
             /\ cursor'.x = cursor.x /\ cursor'.y = cursor.y
             /\ cursor'.buff = cursor.buff /\ cursor'.blink = cursor.blink
             /\ cursor'.shown \/ Has(todo', {"shown"}) => cursor.shown \/ Has(todo, {"shown"})
    BY <2>1, KeptNext DEF QuietBy, QuietOps, Content
  <2>2. CASE ~cursor'.shown /\ ~Has(todo', {"shown"})
    BY <2>2 DEF Kept
  <2>3. CASE Covers(s)
    <3>1. ASSUME NEW i \in Bars
          PROVE  Awaited(i)'
      <4>1. PICK k \in 1 .. Len(s) : s[k].op = "save" /\ s[k].x = i
        BY <2>3 DEF Covers
      <4>2. k \in 1 .. Len(todo') /\ todo'[k] = s[k]
        BY SplicedCases DEF QuietBy
      <4> QED BY <4>1, <4>2 DEF Awaited
    <3> QED BY <3>1 DEF Kept
  <2>4. CASE cursor'.blink # 0
    BY <2>4 DEF Kept
  <2> QED BY <2>1, <2>2, <2>3, <2>4 DEF QuietBy
<1>4. Blanked' /\ Cleared' /\ Copied'
  BY <1>2 DEF Blanked, Cleared, Copied
<1> QED BY <1>1, <1>3, <1>4 DEF Content

LEMMA QuietSame ==
  ASSUME Banked, Form, Content, NEW s, Spliced(todo, s, todo'), todo # <<>>,
         todo[1].op \in QuietOps \ {"put", "save", "load"},
         \A k \in 1 .. Len(s) : s[k].op \notin {"scroll", "after", "store", "shown"},
         UNCHANGED <<mem, video_window_y>>, cursor'.x = cursor.x, cursor'.y = cursor.y,
         cursor'.buff = cursor.buff, cursor'.blink = cursor.blink,
         cursor'.shown => cursor.shown \/ Has(todo, {"shown"})
  PROVE  Content'
<1>1. Has(todo', {"shown"}) => Has(todo, {"shown"})
  BY SplicedHas
<1>2. QuietBy(s)
  BY <1>1 DEF QuietBy
<1> QED BY <1>2, QuietContent

LEMMA DrawCharContent ==
  ASSUME Banked, Form, Content, draw_char
  PROVE  Content'
<1>1. UNCHANGED <<mem, video_window_y, cursor>>
  BY DEF draw_char
<1>2. PICK now \in {"draw", "serve"} : Now(now)
  BY DEF draw_char
<1>3. PICK op \in {"draw", "serve"} : todo' = <<[Arg EXCEPT !.op = op]>> \o Rest
  BY DEF draw_char, Continue
<1>4. Arg = todo[1] /\ todo[1].op = now /\ IsOp(Arg) /\ todo # <<>>
  <2>1. now \in PlainOps
    BY DEF PlainOps
  <2> QED BY <1>2, <2>1, HeadFits, AtPlain
<1> DEFINE o == [Arg EXCEPT !.op = op]
<1>5. o.op = op
  BY <1>4 DEF IsOp, Op
<1> HIDE DEF o
<1>6. <<o>> \in Seq({o}) /\ Len(<<o>>) = 1 /\ <<o>>[1] = o
  OBVIOUS
<1> DEFINE s == <<o>>
<1>7. IsSeq(s) /\ Len(s) = 1 /\ s[1] = o
  BY <1>6, SeqOver
<1>8. todo' = s \o Rest
  BY <1>3 DEF o
<1> HIDE DEF s
<1>9. Spliced(todo, s, todo')
  BY <1>2, <1>7, <1>8, TodoHead
<1>10. \A k \in 1 .. Len(s) : s[k].op \notin {"scroll", "after", "store", "shown"}
  BY <1>5, <1>7
<1> QED BY <1>1, <1>4, <1>9, <1>10, QuietSame DEF QuietOps

LEMMA ClearContent ==
  ASSUME Banked, Form, Content, Expand, Now("clear")
  PROVE  Content'
<1> DEFINE s == video_clear_screen
<1>1. UNCHANGED <<mem, video_window_y, cursor>> /\ todo' = s \o Rest
  BY DEF Expand, Continue, Now
<1>2. /\ IsSeq(s)
      /\ \A k \in 1 .. Len(s) :
           \/ k = 1 /\ s[k] = Do("hide")
           \/ k = 2 /\ s[k] = Op("window", 0, 0, 0)
           \/ k > 2 /\ \E i \in Columns, j \in 0 .. HEIGHT - 1 : s[k] = Put(i, j, BACK)
           \/ k > 2 /\ s[k] = Op("goto", 0, 0, 0)
           \/ k = Len(s) /\ s[k] = Do("show")
  BY ClearOps
<1> HIDE DEF s
<1>3. todo # <<>> /\ todo[1].op = "clear" /\ Spliced(todo, s, todo')
  BY <1>1, <1>2, TodoHead
<1>4. Do("hide").op = "hide" /\ Do("show").op = "show" /\ Op("goto", 0, 0, 0).op = "goto"
      /\ Op("window", 0, 0, 0).op = "window" /\ \A i, j : Put(i, j, BACK).op = "set"
  BY DEF Do, Op, Put
<1>5. \A k \in 1 .. Len(s) : s[k].op \notin {"scroll", "after", "store", "shown"}
  <2> SUFFICES ASSUME NEW k \in 1 .. Len(s)
               PROVE  s[k].op \in {"hide", "window", "set", "goto", "show"}
    OBVIOUS
  <2> QED BY <1>2, <1>4
<1> QED BY <1>1, <1>3, <1>5, QuietSame DEF QuietOps

LEMMA MoveCursorContent ==
  ASSUME Banked, Form, Content, MoveCursor
  PROVE  Content'
<1>1. UNCHANGED <<mem, video_window_y>> /\ Shaped
  BY DEF MoveCursor, Banked
<1>2. PICK now \in {"place", "fast", "goto"} : Now(now)
  BY DEF MoveCursor
<1>3. /\ Arg = todo[1] /\ todo[1].op = now /\ todo # <<>> /\ Len(todo) \in Nat \ {0}
      /\ \A s : IsSeq(s) /\ todo' = s \o Rest => Spliced(todo, s, todo')
      /\ todo' = Rest => Spliced(todo, <<>>, todo')
  BY <1>2, HeadFits, TodoHead
<1>4. todo[1].op \in QuietOps \ {"put", "save", "load"}
  BY <1>3 DEF QuietOps
<1> DEFINE save == Shown(Bar("save"))
           put  == Shown(Bar("put"))
           o    == Op("place", Arg.x, Arg.y, 0)
           both == put \o <<o>>
<1>5. o.op = "place"
  BY DEF Op
<1>6. save \in {Bar("save"), <<>>} /\ put \in {Bar("put"), <<>>} /\ (cursor.shown => save = Bar("save"))
  BY DEF Shown
<1> HIDE DEF save, put, o
<1>7. CASE cursor' = Placed(Arg.x, Arg.y) /\ todo' = save \o Rest /\ now \in {"place", "fast"}
  <2>1. cursor'.shown = cursor.shown
    BY <1>1, <1>7 DEF Placed, Shaped
  <2>2. IsSeq(save) /\ \A k \in 1 .. Len(save) : save[k].op = "save"
    BY <1>6, BarAndOne DEF BarOnly
  <2>3. Spliced(todo, save, todo')
    BY <1>3, <1>7, <2>2
  <2>4. ~Has(todo', {"shown"})
    <3>1. ~Has(todo, {"shown"})
      BY <1>3, HeadKinds DEF Banking
    <3> QED BY <2>2, <2>3, <3>1, SplicedHas
  <2>5. cursor.shown => Covers(save)
    BY <1>6, BarCovers
  <2>6. cursor.shown \in BOOLEAN
    BY PlaceTypes
  <2>7. \A k \in 1 .. Len(save) : save[k].op \notin {"scroll", "after", "store"}
    BY <2>2
  <2>8. QuietBy(save)
    BY <1>3, <1>4, <2>1, <2>3, <2>4, <2>5, <2>6, <2>7 DEF QuietBy
  <2> QED BY <2>8, QuietContent
<1>8. CASE cursor' = cursor /\ todo' = both \o Rest /\ now = "goto"
  <2>1. BarThen(both, "put", o)
    BY <1>6, BarAndOne
  <2> HIDE DEF both
  <2>2. Spliced(todo, both, todo')
    BY <1>3, <1>8, <2>1 DEF BarThen
  <2>3. \A k \in 1 .. Len(both) : both[k].op \notin {"scroll", "after", "store", "shown"}
    BY <1>5, <2>1 DEF BarThen
  <2> QED BY <1>1, <1>3, <1>4, <1>8, <2>2, <2>3, QuietSame
<1>9. CASE cursor' = cursor /\ todo' = Rest
  <2>1. \A k \in 1 .. Len(<<>>) : <<>>[k].op \notin {"scroll", "after", "store", "shown"}
    <3>1. Len(<<>>) = 0
      OBVIOUS
    <3> QED BY <3>1
  <2> DEFINE s == <<>>
  <2>2. Spliced(todo, s, todo') /\ \A k \in 1 .. Len(s) : s[k].op \notin {"scroll", "after", "store", "shown"}
    BY <1>3, <1>9, <2>1
  <2> HIDE DEF s
  <2> QED BY <1>1, <1>3, <1>4, <1>9, <2>2, QuietSame
<1>10. \/ cursor' = Placed(Arg.x, Arg.y) /\ todo' = save \o Rest /\ now \in {"place", "fast"}
       \/ cursor' = cursor /\ todo' = both \o Rest /\ now = "goto"
       \/ cursor' = cursor /\ todo' = Rest
  BY <1>2 DEF MoveCursor, Continue, Now, save, put, o
<1> QED BY <1>7, <1>8, <1>9, <1>10

LEMMA ShowCursorContent ==
  ASSUME Banked, Form, Content, ShowCursor
  PROVE  Content'
<1>1. UNCHANGED <<mem, video_window_y>> /\ Shaped
  BY DEF ShowCursor, Banked
<1>2. PICK now \in {"shown", "hidden", "show", "hide"} : Now(now)
  BY DEF ShowCursor
<1>3. /\ todo[1].op = now /\ todo # <<>> /\ Len(todo) \in Nat \ {0}
      /\ \A s : IsSeq(s) /\ todo' = s \o Rest => Spliced(todo, s, todo')
  BY <1>2, TodoHead
<1>4. todo[1].op \in QuietOps \ {"put", "save", "load"}
  BY <1>3 DEF QuietOps
<1> DEFINE o == Do("shown")
           h == Do("hidden")
           saves == Saves \o <<o>>
           restores == Restores \o <<h>>
<1>5. o.op = "shown" /\ h.op = "hidden"
  BY DEF Do, Op
<1>6. Saves \in {Bar("save"), <<>>} /\ Restores \in {Bar("put"), <<>>} /\ (cursor.blink = 0 => Saves = Bar("save"))
  BY DEF Saves, Restores
<1> HIDE DEF o, h
<1>7. BarThen(saves, "save", o) /\ BarThen(restores, "put", h) /\ (cursor.blink = 0 => Covers(saves))
  BY <1>6, BarAndOne, BarCovers
<1> HIDE DEF saves, restores
<1>8. IsSeq(<<>>) /\ Len(<<>>) = 0
  BY BarOps
<1>9. /\ now = "shown"  => cursor' = [cursor EXCEPT !.shown = TRUE] /\ todo' = <<>> \o Rest
      /\ now = "hidden" => cursor' = [cursor EXCEPT !.shown = FALSE] /\ todo' = <<>> \o Rest
      /\ now = "show" => cursor' = cursor /\ todo' = saves \o Rest
      /\ now = "hide" => cursor' = cursor /\ todo' = restores \o Rest
  BY <1>2 DEF ShowCursor, Continue, Now, saves, restores, o, h
<1>10. /\ cursor'.x = cursor.x /\ cursor'.y = cursor.y
       /\ cursor'.blink = cursor.blink /\ cursor'.buff = cursor.buff
       /\ cursor'.shown = IF now = "shown" THEN TRUE ELSE IF now = "hidden" THEN FALSE ELSE cursor.shown
  BY <1>1, <1>9 DEF Shaped
<1>11. CASE now = "show"
  <2>1. Spliced(todo, saves, todo')
    BY <1>3, <1>7, <1>9, <1>11 DEF BarThen
  <2>2. \A k \in 1 .. Len(saves) : saves[k].op \notin {"scroll", "after", "store"}
    BY <1>5, <1>7 DEF BarThen
  <2>3. Covers(saves) \/ cursor'.blink # 0
    BY <1>7, <1>10
  <2>4. QuietBy(saves)
    BY <1>3, <1>4, <2>1, <2>2, <2>3 DEF QuietBy
  <2> QED BY <2>4, QuietContent
<1>12. CASE now = "hide"
  <2>1. Spliced(todo, restores, todo')
    BY <1>3, <1>7, <1>9, <1>12 DEF BarThen
  <2>2. \A k \in 1 .. Len(restores) : restores[k].op \notin {"scroll", "after", "store", "shown"}
    BY <1>5, <1>7 DEF BarThen
  <2> QED BY <1>1, <1>3, <1>4, <1>10, <1>12, <2>1, <2>2, QuietSame
<1>13. CASE now \in {"shown", "hidden"}
  <2> DEFINE s == <<>>
  <2>1. Spliced(todo, s, todo') /\ \A k \in 1 .. Len(s) : s[k].op \notin {"scroll", "after", "store", "shown"}
    <3>1. todo' = s \o Rest /\ IsSeq(s) /\ Len(s) = 0
      BY <1>8, <1>9, <1>13
    <3> HIDE DEF s
    <3>2. Spliced(todo, s, todo')
      BY <1>3, <3>1
    <3> QED BY <3>1, <3>2
  <2> HIDE DEF s
  <2>2. cursor'.shown => Has(todo, {"shown"})
    <3>1. 1 \in 1 .. Len(todo)
      BY <1>3
    <3> QED BY <1>3, <1>10, <1>13, <3>1 DEF Has
  <2> QED BY <1>1, <1>3, <1>4, <1>10, <2>1, <2>2, QuietSame
<1> QED BY <1>11, <1>12, <1>13

LEMMA SetModeContent ==
  ASSUME Banked, Form, Content, SetMode
  PROVE  Content'
<1> DEFINE o == Do("clear")
           s == Bar("save") \o <<o>>
<1>1. Now("mode") /\ todo' = s \o Rest
  BY DEF SetMode, Continue
<1>2. o.op = "clear"
  BY DEF Do, Op
<1> HIDE DEF o
<1>3. BarThen(s, "save", o) /\ Covers(s)
  BY BarAndOne, BarCovers
<1> HIDE DEF s
<1>4. Spliced(todo, s, todo') /\ todo # <<>> /\ todo[1].op = "mode"
  BY <1>1, <1>3, TodoHead DEF BarThen
<1>5. \A k \in 1 .. Len(s) : s[k].op \notin {"scroll", "after", "store"}
  BY <1>2, <1>3 DEF BarThen
<1>6. QuietBy(s)
  BY <1>3, <1>4, <1>5 DEF QuietBy, QuietOps
<1> QED BY <1>6, QuietContent

-----------------------------------------------------------------------------
(* What has been said of the operations that stay.                         *)
LEMMA SplicedDue ==
  ASSUME NEW t, NEW s, NEW u, Spliced(t, s, u), NEW kinds, NEW x, NEW y, Due(t, kinds, x, y),
         \/ t[1].op \notin kinds \/ ~(t[1].x = x /\ t[1].y = y)
         \/ \E k \in 1 .. Len(s) : s[k].op \in kinds /\ s[k].x = x /\ s[k].y = y
  PROVE  Due(u, kinds, x, y)
<1>1. /\ Len(t) \in Nat \ {0}
      /\ \A k \in 1 .. Len(s) : k \in 1 .. Len(u) /\ u[k] = s[k]
      /\ \A q \in 2 .. Len(t) : Len(s) + q - 1 \in 1 .. Len(u) /\ u[Len(s) + q - 1] = t[q]
  BY SplicedCases
<1>2. CASE \E k \in 1 .. Len(s) : s[k].op \in kinds /\ s[k].x = x /\ s[k].y = y
  BY <1>1, <1>2 DEF Due
<1>3. CASE t[1].op \notin kinds \/ ~(t[1].x = x /\ t[1].y = y)
  <2>1. PICK k \in 1 .. Len(t) : t[k].op \in kinds /\ t[k].x = x /\ t[k].y = y
    BY DEF Due
  <2>2. k \in 2 .. Len(t)
    BY <1>1, <1>3, <2>1
  <2> QED BY <1>1, <2>1, <2>2 DEF Due
<1> QED BY <1>2, <1>3

(* The last to read column x before a pixel of it is set.                  *)
SameRead(t, s, x) ==
  /\ \A k \in 1 .. Len(s) - 1 : ~Reads(s[k], x)
  /\ \/ Len(s) >= 1 /\ (Reads(s[Len(s)], x) <=> Reads(t[1], x)) /\ (Reads(t[1], x) => s[Len(s)].y = t[1].y)
     \/ Len(s) = 0 /\ ~Reads(t[1], x)
LEMMA SplicedRead ==
  ASSUME NEW t, NEW s, NEW u, Spliced(t, s, u), NEW x, NEW line, NEW row, NEW q \in 2 .. Len(t),
         ReadLast(t, line, q, x, row), SameRead(t, s, x)
  PROVE  ReadLast(u, line, Len(s) + q - 1, x, row)
<1> DEFINE n == Len(s)
           l == n + q - 1
<1>1. /\ Len(t) \in Nat \ {0} /\ n \in Nat /\ q \in Nat /\ q >= 2
      /\ \A k \in 1 .. n : u[k] = s[k]
      /\ \A p \in 2 .. Len(t) : u[n + p - 1] = t[p]
  BY SplicedCases
<1>2. l - 1 = n + q - 2 /\ l \in Nat /\ l > n
  BY <1>1
<1> HIDE DEF n, l
<1>4. CASE \E j \in 1 .. q - 1 : Reads(t[j], x) /\ t[j].y = row /\ Unread(t, j, q, x)
  <2>1. PICK j \in 1 .. q - 1 : Reads(t[j], x) /\ t[j].y = row /\ Unread(t, j, q, x)
    BY <1>4
  <2>2. \A p \in j + 1 .. q - 1 : ~Reads(t[p], x)
    BY <2>1 DEF Unread
  <2> DEFINE k == n + j - 1
  <2>3. k \in 1 .. l - 1 /\ Reads(u[k], x) /\ u[k].y = row
    <3>1. CASE j = 1
      <4>1. n >= 1 /\ Reads(s[n], x) /\ s[n].y = row
        BY <2>1, <3>1 DEF SameRead, n
      <4>2. k = n /\ n \in 1 .. n /\ n \in 1 .. l - 1
        BY <1>1, <1>2, <3>1, <4>1
      <4> HIDE DEF k
      <4> QED BY <1>1, <4>1, <4>2
    <3>2. CASE j # 1
      <4>1. j \in 2 .. Len(t) /\ k \in 1 .. l - 1
        BY <1>1, <1>2, <3>2
      <4>2. u[k] = t[j]
        BY <1>1, <4>1
      <4> HIDE DEF k
      <4> QED BY <2>1, <4>1, <4>2
    <3> QED BY <3>1, <3>2
  <2>4. Unread(u, k, l, x)
    <3>1. ASSUME NEW m \in k + 1 .. l - 1
          PROVE  ~Reads(u[m], x)
      <4> DEFINE p == m - n + 1
      <4>1. p \in j + 1 .. q - 1 /\ p \in 2 .. Len(t) /\ n + p - 1 = m
        BY <1>1, <1>2
      <4> HIDE DEF p, k
      <4>2. u[m] = t[p]
        BY <1>1, <4>1
      <4> QED BY <2>2, <4>1, <4>2
    <3> HIDE DEF k
    <3> QED BY <3>1 DEF Unread
  <2> HIDE DEF k
  <2> QED BY <2>3, <2>4 DEF ReadLast, l, n
<1>5. CASE line[x] = BACK /\ Unread(t, 0, q, x)
  <2>1. \A p \in 1 .. q - 1 : ~Reads(t[p], x)
    BY <1>5 DEF Unread
  <2>2. ~Reads(t[1], x)
    <3>1. 1 \in 1 .. q - 1
      BY <1>1
    <3> QED BY <2>1, <3>1
  <2>3. ASSUME NEW m \in 1 .. l - 1
        PROVE  ~Reads(u[m], x)
    <3>1. CASE m < n
      <4>1. m \in 1 .. n - 1 /\ m \in 1 .. n
        BY <1>1, <3>1
      <4> QED BY <1>1, <4>1 DEF SameRead, n
    <3>2. CASE m = n
      <4>1. n >= 1 /\ n \in 1 .. n
        BY <1>1, <3>2
      <4>2. ~Reads(s[n], x)
        BY <2>2, <4>1 DEF SameRead, n
      <4> QED BY <1>1, <3>2, <4>1, <4>2
    <3>3. CASE m > n
      <4> DEFINE p == m - n + 1
      <4>1. p \in 1 .. q - 1 /\ p \in 2 .. Len(t) /\ n + p - 1 = m
        BY <1>1, <1>2, <3>3
      <4> HIDE DEF p
      <4>2. u[m] = t[p]
        BY <1>1, <4>1
      <4> QED BY <2>1, <4>1, <4>2
    <3> QED BY <1>1, <1>2, <3>1, <3>2, <3>3
  <2>4. Unread(u, 0, l, x)
    BY <2>3 DEF Unread
  <2> QED BY <1>5, <2>4 DEF ReadLast, l, n
<1> QED BY <1>4, <1>5 DEF ReadLast

LEMMA EmittingNext ==
  ASSUME NEW t, NEW s, NEW u, Spliced(t, s, u), t[1].op # "glyph", \A k \in 1 .. Len(s) : s[k].op # "after", Emitting(u)
  PROVE  Emitting(t) /\ u[Len(u)] = t[Len(t)]
<1> DEFINE n == Len(t)
           m == Len(s)
           l == Len(u)
<1>1. /\ n \in Nat \ {0} /\ m \in Nat /\ l = m + n - 1
      /\ n >= 2 => u[l] = t[n]
      /\ n = 1 /\ l >= 1 => u[l] = s[m]
  BY SplicedLast
<1>2. l >= 1 /\ u[l].op = "after" /\ ~Has(u, {"glyph"})
  BY DEF Emitting
<1>3. ~Has(t, {"glyph"})
  BY <1>2, SplicedHas
<1>4. \A k \in 1 .. m : s[k].op # "after"
  OBVIOUS
<1> HIDE DEF n, m, l
<1>5. n # 1
  <2> SUFFICES ASSUME n = 1
               PROVE  FALSE
    OBVIOUS
  <2>1. m \in 1 .. m
    BY <1>1, <1>2
  <2> QED BY <1>1, <1>2, <1>4, <2>1
<1>6. n >= 2
  BY <1>1, <1>5
<1> QED BY <1>1, <1>2, <1>3, <1>6 DEF Emitting, n, l

LEMMA BlankedNext ==
  ASSUME Blanked, NEW s, Spliced(todo, s, todo'), todo[1].op \notin {"glyph", "set", "store"},
         \A k \in 1 .. Len(s) : s[k].op # "after", mem' = mem, Stays, cursor'.buff = cursor.buff
  PROVE  Blanked'
<1>1. SUFFICES ASSUME Emitting(todo'), todo'[Len(todo')].c = NL, cursor'.shown, NEW i \in Bars
               PROVE  (/\ cursor.buff[i] = BACK \/ Due(todo, {"set"}, cursor.x + i, cursor.y)
                       /\ mem[BarAt(i)] = BACK \/ Due(todo, {"set", "store"}, cursor.x + i, cursor.y))'
  BY DEF Blanked
<1>2. Emitting(todo) /\ todo[Len(todo)].c = NL
  BY <1>1, EmittingNext
<1> DEFINE x == cursor.x + i
<1>3. /\ cursor.buff[i] = BACK \/ Due(todo, {"set"}, x, cursor.y)
      /\ mem[BarAt(i)] = BACK \/ Due(todo, {"set", "store"}, x, cursor.y)
  BY <1>1, <1>2 DEF Blanked, Stays
<1>4. x' = x /\ BarAt(i)' = BarAt(i) /\ cursor'.y = cursor.y
  BY DEF Stays, BarAt
<1> HIDE DEF x
<1>5. \A kinds \in {{"set"}, {"set", "store"}} : Due(todo, kinds, x, cursor.y) => Due(todo', kinds, x, cursor.y)
  BY SplicedDue
<1>6. /\ cursor'.buff[i] = BACK \/ Due(todo', {"set"}, x', cursor'.y)
      /\ mem'[BarAt(i)'] = BACK \/ Due(todo', {"set", "store"}, x', cursor'.y)
  BY <1>3, <1>4, <1>5
<1> QED BY <1>6 DEF x

(* A line feed on the last row.                                            *)
LEMMA ScrollFacts ==
  ASSUME Form, Len(todo) \in Nat \ {0}, Scrolling(todo)
  PROVE  /\ ~Full /\ cursor.y + FONT_H >= HEIGHT
         /\ Len(todo) >= 2 /\ todo[Len(todo)].op = "fast" /\ todo[Len(todo) - 1].op = "scroll"
         /\ \A k \in 2 .. Len(todo) : todo[k].op # "window"
<1> DEFINE n == Len(todo)
<1>1. n \in Nat \ {0} /\ ~Full /\ cursor.row = ROWS - 1
      /\ \A k \in 1 .. n - 2 : todo[k].op = "window" => k = 1
  BY DEF Form, Scrolled
<1>2. PICK k \in 1 .. n : todo[k].op = "scroll"
  BY DEF Scrolling, Has
<1>3. Ordered(todo, k)
  BY DEF Form, Fits
<1>4. k = n - 1 /\ todo[n] = Op("fast", 0, ROWS - 1, 0)
  BY <1>2, <1>3 DEF Ordered
<1>5. todo[n].op = "fast" /\ todo[n - 1].op = "scroll"
  BY <1>2, <1>4 DEF Op
<1> HIDE DEF n
<1>6. n >= 2
  BY <1>1, <1>4
<1>7. ASSUME NEW q \in 2 .. n
      PROVE  todo[q].op # "window"
  <2>1. q \in 1 .. n - 2 \/ q = n - 1 \/ q = n
    BY <1>1
  <2> QED BY <1>1, <1>5, <2>1
<1>8. cursor.y + FONT_H >= HEIGHT
  <2>1. ROWS \in Nat /\ FONT_H \in Nat \ {0} /\ HEIGHT \in Nat /\ cursor.row + 1 = ROWS
    BY <1>1, ScreenAssumption, Sizes
  <2>2. (cursor.row + 1) * FONT_H = HEIGHT
    BY <2>1 DEF HEIGHT
  <2>3. CASE Moved
    BY <2>1, <2>2, <2>3 DEF Moved
  <2>4. CASE InCorner
    <3>1. ROWS = 1 /\ cursor.y = 0
      BY <2>1, <2>4 DEF InCorner
    <3> QED BY <2>1, <3>1 DEF HEIGHT
  <2> QED BY <2>3, <2>4 DEF Form, VTypes
<1> QED BY <1>1, <1>5, <1>6, <1>7, <1>8 DEF n

LEMMA NotWindow ==
  ASSUME Form, NEW s, Spliced(todo, s, todo'), Scrolling(todo), \A k \in 1 .. Len(s) : s[k].op # "window",
         Scrolling(todo')
  PROVE  todo'[1].op # "window"
<1>1. /\ Len(todo) \in Nat \ {0} /\ Len(todo') \in Nat
      /\ \A k \in 1 .. Len(todo') :
           \/ k \in 1 .. Len(s) /\ todo'[k] = s[k]
           \/ \E q \in 2 .. Len(todo) : k = Len(s) + q - 1 /\ todo'[k] = todo[q]
  BY SplicedCases
<1>2. 1 \in 1 .. Len(todo')
  BY <1>1 DEF Scrolling, Has
<1> QED BY <1>1, <1>2, ScrollFacts

LEMMA ClearedNext ==
  ASSUME Form, Cleared, NEW s, Spliced(todo, s, todo'), todo[1].op \notin {"set", "store", "window", "scroll"},
         \A k \in 1 .. Len(s) : s[k].op \notin {"scroll", "window"}, mem' = mem, Stays, cursor'.buff = cursor.buff
  PROVE  Cleared'
<1>1. SUFFICES ASSUME Scrolling(todo'), cursor'.shown, NEW i \in Bars
               PROVE  (/\ cursor.buff[i] = BACK
                       /\ \/ Due(todo, {"set", "store"}, cursor.x + i, cursor.y + FONT_H)
                          \/ todo[1].op # "window" /\ mem[Below(i)] = BACK)'
  BY DEF Cleared
<1>2. Scrolling(todo)
  BY <1>1, SplicedHas DEF Scrolling
<1>3. todo'[1].op # "window"
  BY <1>1, <1>2, NotWindow
<1> DEFINE x == cursor.x + i
           y == cursor.y + FONT_H
<1>4. cursor.buff[i] = BACK /\ (Due(todo, {"set", "store"}, x, y) \/ mem[Below(i)] = BACK)
  BY <1>1, <1>2 DEF Cleared, Stays
<1>5. x' = x /\ y' = y /\ Below(i)' = Below(i)
  BY DEF Stays, Below
<1> HIDE DEF x, y
<1>6. Due(todo, {"set", "store"}, x, y) => Due(todo', {"set", "store"}, x, y)
  BY SplicedDue
<1>7. cursor'.buff[i] = BACK /\ (Due(todo', {"set", "store"}, x', y') \/ (todo'[1].op # "window" /\ mem'[Below(i)'] = BACK))
  BY <1>3, <1>4, <1>5, <1>6
<1> QED BY <1>7 DEF x, y

LEMMA CopiedNext ==
  ASSUME Form, Copied, NEW s, Spliced(todo, s, todo'), todo[1].op # "scroll",
         \A k \in 1 .. Len(s) : /\ s[k].op \notin {"scroll", "window", "paste"}
                                /\ s[k].op \in {"copy", "fetch"} =>
                                     todo[1].op \in {"copy", "fetch"} /\ s[k].y = todo[1].y,
         cursor'.x = cursor.x, cursor'.y = cursor.y, cursor'.shown = cursor.shown,
         \A v \in 0 .. 2 * HEIGHT + FONT_H, i \in Bars :
           Copying(v) /\ Scrolling(todo) =>
             mem'[cursor.x + i + WIDTH * (cursor.y + v)] = mem[cursor.x + i + WIDTH * (cursor.y + v)],
         \A v \in 0 .. 2 * HEIGHT + FONT_H, i \in Bars, q \in 2 .. Len(todo) :
           Copying(v) /\ Scrolling(todo) /\ ReadLast(todo, scline, q, cursor.x + i, cursor.y + v) =>
             ReadLast(todo', scline', Len(s) + q - 1, cursor.x + i, cursor.y + v)
  PROVE  Copied'
<1>1. SUFFICES ASSUME Scrolling(todo'), cursor'.shown, Has(todo', {"window", "paste"})
               PROVE  \E v \in 0 .. 2 * HEIGHT + FONT_H : Copying(v)'
  BY DEF Copied
<1>2. Scrolling(todo) /\ Has(todo, {"window", "paste"}) /\ todo'[1].op # "window"
  <2>1. Scrolling(todo)
    BY <1>1, SplicedHas DEF Scrolling
  <2>2. Has(todo, {"window", "paste"})
    BY <1>1, SplicedHas
  <2> QED BY <1>1, <2>1, <2>2, NotWindow
<1>3. PICK v \in 0 .. 2 * HEIGHT + FONT_H : Copying(v)
  BY <1>1, <1>2 DEF Copied
<1>4. /\ Len(todo) \in Nat \ {0}
      /\ \A k \in 1 .. Len(todo') :
           \/ k \in 1 .. Len(s) /\ todo'[k] = s[k]
           \/ \E q \in 2 .. Len(todo) : k = Len(s) + q - 1 /\ todo'[k] = todo[q]
  BY SplicedCases
<1>5. v > 2 * HEIGHT
  BY <1>3 DEF Copying
<1>6. ASSUME NEW k \in 1 .. Len(todo'), todo'[k].op \in {"copy", "fetch"}
      PROVE  todo'[k].y >= v
  <2>1. \A q \in 1 .. Len(todo) : todo[q].op \in {"copy", "fetch"} => todo[q].y >= v
    BY <1>3 DEF Copying
  <2>2. 1 \in 1 .. Len(todo) /\ 2 .. Len(todo) \subseteq 1 .. Len(todo)
    BY <1>4
  <2>3. CASE k \in 1 .. Len(s) /\ todo'[k] = s[k]
    BY <1>6, <2>1, <2>2, <2>3
  <2>4. CASE \E q \in 2 .. Len(todo) : todo'[k] = todo[q]
    BY <1>6, <2>1, <2>2, <2>4
  <2> QED BY <1>4, <2>3, <2>4
<1>7. ASSUME NEW i \in Bars
      PROVE  mem'[cursor.x + i + WIDTH * (cursor.y + v)] = BACK
  BY <1>2, <1>3 DEF Copying
<1>8. ASSUME NEW i \in Bars, NEW k \in 1 .. Len(todo'),
             todo'[k].op = "paste", todo'[k].x = cursor.x + i, todo'[k].y = cursor.y
      PROVE  ReadLast(todo', scline', k, cursor.x + i, cursor.y + v)
  <2>1. PICK q \in 2 .. Len(todo) : k = Len(s) + q - 1 /\ todo'[k] = todo[q]
    BY <1>4, <1>8
  <2>2. q \in 1 .. Len(todo)
    BY <1>4
  <2>3. ReadLast(todo, scline, q, cursor.x + i, cursor.y + v)
    BY <1>3, <1>8, <2>1, <2>2 DEF Copying
  <2> QED BY <1>2, <1>3, <2>1, <2>3
<1>9. Copying(v)'
  BY <1>2, <1>5, <1>6, <1>7, <1>8 DEF Copying
<1> QED BY <1>9

(* A step that reads what the first operation was to read, or nothing.     *)
LEMMA CopiedSame ==
  ASSUME Form, Copied, NEW s, Spliced(todo, s, todo'), todo[1].op # "scroll",
         \A k \in 1 .. Len(s) : /\ s[k].op \notin {"scroll", "window", "paste"}
                                /\ s[k].op \in {"copy", "fetch"} =>
                                     todo[1].op \in {"copy", "fetch"} /\ s[k].y = todo[1].y,
         cursor'.x = cursor.x, cursor'.y = cursor.y, cursor'.shown = cursor.shown,
         mem' = mem, scline' = scline,
         \A x : SameRead(todo, s, x)
  PROVE  Copied'
<1>1. ASSUME NEW v, NEW i, NEW q \in 2 .. Len(todo), ReadLast(todo, scline, q, cursor.x + i, cursor.y + v)
      PROVE  ReadLast(todo', scline', Len(s) + q - 1, cursor.x + i, cursor.y + v)
  <2> DEFINE x == cursor.x + i
             row == cursor.y + v
  <2>1. SameRead(todo, s, x) /\ ReadLast(todo, scline, q, x, row)
    BY <1>1
  <2> HIDE DEF x, row
  <2>2. ReadLast(todo', scline, Len(s) + q - 1, x, row)
    BY <2>1, SplicedRead
  <2> QED BY <2>2 DEF x, row
<1> QED BY <1>1, CopiedNext

(* Nothing is read by an access selected, or before it is.                 *)
LEMMA NoReads ==
  ASSUME NEW t, NEW s, NEW x, Len(s) \in Nat, t[1].op \notin {"copy", "fetch"},
         \A k \in 1 .. Len(s) : s[k].op \notin {"copy", "fetch"}
  PROVE  SameRead(t, s, x)
<1>1. ~Reads(t[1], x) /\ \A k \in 1 .. Len(s) : ~Reads(s[k], x)
  BY DEF Reads
<1>2. Len(s) = 0 \/ Len(s) \in 1 .. Len(s)
  OBVIOUS
<1>3. \A k \in 1 .. Len(s) - 1 : k \in 1 .. Len(s)
  OBVIOUS
<1> QED BY <1>1, <1>2, <1>3 DEF SameRead

-----------------------------------------------------------------------------
(* Each kind of step keeps the contents of the memory.                     *)
LEMMA SelectBankContent ==
  ASSUME Banked, Form, Content, SelectBank
  PROVE  Content'
<1>1. UNCHANGED <<mem, video_window_y, cursor, scline>> /\ todo' = Rest /\ Stays
  BY DEF SelectBank, Continue, Stays
<1>2. PICK op \in {"select", "record"} : Now(op)
  BY DEF SelectBank
<1> DEFINE s == <<>>
<1>3. Spliced(todo, s, todo') /\ todo[1].op = op /\ Len(s) = 0
  BY <1>1, <1>2, TodoHead
<1> HIDE DEF s
<1>4. \A k \in 1 .. Len(s) : FALSE
  BY <1>3
<1>5. Agreed'
  BY <1>1, <1>3, AgreedTail DEF Content, s
<1>6. Kept'
  <2>1. Has(todo', {"shown"}) => Has(todo, {"shown"})
    BY <1>3, <1>4, SplicedHas
  <2> QED BY <1>1, <1>2, <1>3, <2>1, KeptNext DEF Content
<1>7. Blanked'
  BY <1>1, <1>2, <1>3, <1>4, BlankedNext DEF Content
<1>8. Cleared'
  BY <1>1, <1>2, <1>3, <1>4, ClearedNext DEF Content
<1>9. Copied'
  <2>1. \A x : SameRead(todo, s, x)
    BY <1>2, <1>3, <1>4, NoReads
  <2> QED BY <1>1, <1>2, <1>3, <1>4, <2>1, CopiedSame DEF Content
<1> QED BY <1>5, <1>6, <1>7, <1>8, <1>9 DEF Content

LEMMA SetPixelContent ==
  ASSUME Banked, Form, Content, SetPixel
  PROVE  Content'
<1>1. PICK op, x, y, c, s : SetStep(op, x, y, c, s)
  BY SetPixelStep
<1> DEFINE o == Op("store", x, y, c)
<1>2. /\ op \in {"set", "put", "paste"} /\ x \in Nat /\ y \in Nat
      /\ Now(op) /\ todo[1].op = op /\ Spliced(todo, s, todo') /\ Ends(s, o)
      /\ UNCHANGED <<mem, scline>> /\ Stays
      /\ op = "set" => x \in Columns /\ x = todo[1].x /\ y = todo[1].y /\ c = todo[1].c
      /\ op = "paste" => x \in Columns /\ x = todo[1].x /\ y = todo[1].y /\ c = scline[x]
  BY <1>1 DEF SetStep
<1>3. \A i \in Bars : cursor'.buff[i] = IF cursor.shown /\ x = cursor.x + i /\ y = cursor.y
                                        THEN c ELSE cursor.buff[i]
  BY <1>1 DEF SetStep
<1>4. \A i \in Bars : cursor.shown /\ At(o) = BarAt(i) => x = cursor.x + i /\ y = cursor.y
  BY <1>1 DEF SetStep
<1>5. o.op = "store" /\ o.x = x /\ o.y = y /\ o.c = c /\ At(o) = Addr(x, y, video_window_y)
  BY DEF Op, At
<1> HIDE DEF o
<1>6. /\ Len(s) \in Nat \ {0} /\ Len(s) \in 1 .. Len(s) /\ s[Len(s)] = o
      /\ \A k \in 1 .. Len(s) : s[k].op \in Banking \/ (k = Len(s) /\ s[k] = o)
  <2>1. Len(s) \in Nat \ {0} /\ s[Len(s)] = o /\ \A k \in 1 .. Len(s) - 1 : s[k].op \in Banking
    BY <1>2 DEF Ends
  <2>2. \A k \in 1 .. Len(s) : k \in 1 .. Len(s) - 1 \/ k = Len(s)
    BY <2>1
  <2> QED BY <2>1, <2>2
<1>7. \A k \in 1 .. Len(s) : s[k].op \in Banking \cup {"store"}
  BY <1>5, <1>6
<1>8. /\ Len(todo) \in Nat \ {0} /\ todo # <<>>
      /\ \A k \in 1 .. Len(todo') :
           \/ k \in 1 .. Len(s) /\ todo'[k] = s[k]
           \/ \E q \in 2 .. Len(todo) : todo'[k] = todo[q]
      /\ Len(s) \in 1 .. Len(todo') /\ todo'[Len(s)] = o
  BY <1>2, <1>6, SplicedCases DEF Now
<1>9. todo[1].op \notin Banking
  BY <1>2 DEF Banking
<1>10. Agreed'
  <2>1. SUFFICES ASSUME cursor'.shown, NEW k \in 1 .. Len(todo'), NEW i \in Bars,
                        todo'[k].op = "store", (At(todo[k]) = BarAt(i))'
                 PROVE  todo'[k].c = cursor'.buff[i]
    BY DEF Agreed
  <2>2. todo'[k] = o
    <3>1. CASE \E q \in 2 .. Len(todo) : todo'[k] = todo[q]
      BY <1>8, <1>9, <2>1, <3>1, RestPlain DEF Accesses
    <3>2. "store" \notin Banking
      BY DEF Banking
    <3> QED BY <1>6, <1>8, <2>1, <3>1, <3>2
  <2>3. At(o) = BarAt(i)
    BY <1>2, <2>1, <2>2 DEF Stays, At, BarAt
  <2>4. x = cursor.x + i /\ y = cursor.y /\ cursor.shown
    BY <1>2, <1>4, <2>1, <2>3 DEF Stays
  <2> QED BY <1>3, <1>5, <2>2, <2>4
<1>11. Kept'
  <2>1. SUFFICES ASSUME ~Scrolling(todo'), cursor'.shown \/ Has(todo', {"shown"}), cursor'.blink = 0, NEW i \in Bars
                 PROVE  Held(i)' \/ Awaited(i)'
    BY DEF Kept
  <2>2. ~Scrolling(todo)
    BY <1>2, <2>1, SplicedHas DEF Scrolling
  <2>3. ~Has(todo', {"shown"})
    <3>1. ~Has(todo, {"shown"})
      BY <1>2, <1>8, HeadKinds DEF Banking
    <3>2. \A k \in 1 .. Len(s) : s[k].op # "shown"
      BY <1>7 DEF Banking
    <3> QED BY <1>2, <3>1, <3>2, SplicedHas
  <2>4. cursor.shown /\ (Held(i) \/ Awaited(i))
    BY <1>2, <2>1, <2>2, <2>3 DEF Stays, Content, Kept
  <2>5. CASE x = cursor.x + i /\ y = cursor.y
    <3>1. At(o) = BarAt(i)
      BY <1>5, <2>5, BarCell DEF Addr
    <3>2. At(o)' = At(o) /\ BarAt(i)' = BarAt(i)
      BY <1>2 DEF Stays, At, BarAt
    <3>3. PICK k \in 1 .. Len(todo') : todo'[k] = o
      BY <1>8
    <3>4. (At(todo[k]) = BarAt(i))'
      BY <3>1, <3>2, <3>3
    <3> QED BY <1>5, <3>3, <3>4 DEF Awaited
  <2>6. CASE ~(x = cursor.x + i /\ y = cursor.y)
    <3>1. Held(i) => Held(i)'
      BY <1>2, <1>3, <2>6 DEF Held, BarAt, Stays
    <3> QED BY <1>2, <2>4, <3>1, AwaitedNext DEF Stays
  <2> QED BY <2>5, <2>6
<1>12. Blanked'
  <2>1. SUFFICES ASSUME Emitting(todo'), todo'[Len(todo')].c = NL, cursor'.shown, NEW i \in Bars
                 PROVE  (/\ cursor.buff[i] = BACK \/ Due(todo, {"set"}, cursor.x + i, cursor.y)
                         /\ mem[BarAt(i)] = BACK \/ Due(todo, {"set", "store"}, cursor.x + i, cursor.y))'
    BY DEF Blanked
  <2>2. Emitting(todo) /\ todo[Len(todo)].c = NL
    <3>1. todo[1].op # "glyph" /\ \A k \in 1 .. Len(s) : s[k].op # "after"
      BY <1>2, <1>7 DEF Banking
    <3> QED BY <1>2, <2>1, <3>1, EmittingNext
  <2>3. op = "set" /\ c = BACK
    <3>1. op = "set"
      BY <1>2, <1>8, <2>2, HeadKinds DEF Banking
    <3> DEFINE n == Len(todo)
    <3>2. 1 \in 1 .. n - 1
      <4>1. n # 1
        BY <1>2, <2>2 DEF Emitting
      <4>2. n \in Nat \ {0}
        BY <1>8
      <4> HIDE DEF n
      <4> QED BY <4>1, <4>2
    <3>3. todo[1].c = BACK
      BY <1>2, <2>2, <3>1, <3>2 DEF Form, Drawn
    <3> QED BY <1>2, <3>1, <3>3
  <2> DEFINE a == cursor.x + i
             b == cursor.y
  <2>4. /\ cursor.buff[i] = BACK \/ Due(todo, {"set"}, a, b)
        /\ mem[BarAt(i)] = BACK \/ Due(todo, {"set", "store"}, a, b)
    BY <1>2, <2>1, <2>2 DEF Content, Blanked, Stays
  <2>5. a' = a /\ b' = b /\ BarAt(i)' = BarAt(i) /\ cursor.shown
    BY <1>2, <2>1 DEF Stays, BarAt
  <2>6. cursor'.buff[i] = IF x = a /\ y = b THEN BACK ELSE cursor.buff[i]
    BY <1>3, <2>3, <2>5
  <2> HIDE DEF a, b
  <2>7. ~(x = a /\ y = b) /\ Due(todo, {"set"}, a, b) => Due(todo', {"set"}, a, b)
    BY <1>2, <2>3, SplicedDue
  <2>8. Due(todo, {"set", "store"}, a, b) => Due(todo', {"set", "store"}, a, b)
    <3>1. x = a /\ y = b => \E k \in 1 .. Len(s) : s[k].op \in {"set", "store"} /\ s[k].x = a /\ s[k].y = b
      BY <1>5, <1>6
    <3> QED BY <1>2, <2>3, <3>1, SplicedDue
  <2>9. /\ cursor'.buff[i] = BACK \/ Due(todo', {"set"}, a', b')
        /\ mem'[BarAt(i)'] = BACK \/ Due(todo', {"set", "store"}, a', b')
    BY <1>2, <2>4, <2>5, <2>6, <2>7, <2>8
  <2> QED BY <2>9 DEF a, b
<1>13. \A k \in 1 .. Len(s) : s[k].op \notin {"scroll", "window", "paste", "copy", "fetch"}
  BY <1>7 DEF Banking
<1>14. Cleared'
  <2>1. SUFFICES ASSUME Scrolling(todo'), cursor'.shown, NEW i \in Bars
                 PROVE  (/\ cursor.buff[i] = BACK
                         /\ \/ Due(todo, {"set", "store"}, cursor.x + i, cursor.y + FONT_H)
                            \/ todo[1].op # "window" /\ mem[Below(i)] = BACK)'
    BY DEF Cleared
  <2>2. Scrolling(todo)
    BY <1>2, <1>13, <2>1, SplicedHas DEF Scrolling
  <2>3. todo'[1].op # "window"
    BY <1>2, <1>13, <2>1, <2>2, NotWindow
  <2>4. op \in {"set", "paste"} /\ Len(todo) >= 3
    BY <1>2, <1>8, <2>2, HeadKinds DEF Banking
  <2>5. 1 \in 1 .. Len(todo) - 2 /\ 1 \in 1 .. Len(todo)
    <3> DEFINE n == Len(todo)
    <3>1. n \in Nat /\ n >= 3
      BY <1>8, <2>4
    <3> HIDE DEF n
    <3>2. 1 \in 1 .. n - 2 /\ 1 \in 1 .. n
      BY <3>1
    <3> QED BY <3>2 DEF n
  <2>6. cursor.shown
    BY <1>2, <2>1 DEF Stays
  <2> DEFINE a == cursor.x + i
             b == cursor.y + FONT_H
  <2>7. cursor.buff[i] = BACK /\ (Due(todo, {"set", "store"}, a, b) \/ mem[Below(i)] = BACK)
    BY <2>2, <2>6 DEF Content, Cleared
  <2>8. ASSUME x = cursor.x + i, y = cursor.y
        PROVE  c = BACK
    <3>1. CASE op = "set"
      <4>1. todo[1].y \in HEIGHT .. HEIGHT + FONT_H - 1
        BY <1>2, <2>2, <2>5, <3>1 DEF Form, Scrolled
      <4>2. cursor.y < HEIGHT /\ HEIGHT \in Nat /\ FONT_H \in Nat
        BY PlaceTypes, Sizes
      <4> QED BY <1>2, <2>8, <3>1, <4>1, <4>2
    <3>2. CASE op = "paste"
      <4>1. Has(todo, {"window", "paste"})
        BY <1>2, <2>5, <3>2 DEF Has
      <4>2. PICK v \in 0 .. 2 * HEIGHT + FONT_H : Copying(v)
        BY <2>2, <2>6, <4>1 DEF Content, Copied
      <4>3. ReadLast(todo, scline, 1, cursor.x + i, cursor.y + v)
        BY <1>2, <2>5, <2>8, <3>2, <4>2 DEF Copying
      <4>4. \A j \in 1 .. 1 - 1 : FALSE
        OBVIOUS
      <4>5. scline[cursor.x + i] = BACK
        BY <4>3, <4>4 DEF ReadLast
      <4> QED BY <1>2, <2>8, <3>2, <4>5
    <3> QED BY <2>4, <3>1, <3>2
  <2>9. cursor'.buff[i] = BACK
    BY <1>3, <2>7, <2>8
  <2>10. a' = a /\ b' = b /\ Below(i)' = Below(i)
    BY <1>2 DEF Stays, Below
  <2> HIDE DEF a, b
  <2>11. Due(todo, {"set", "store"}, a, b) => Due(todo', {"set", "store"}, a, b)
    <3>1. x = a /\ y = b => \E k \in 1 .. Len(s) : s[k].op \in {"set", "store"} /\ s[k].x = a /\ s[k].y = b
      BY <1>5, <1>6
    <3> QED BY <1>2, <2>4, <3>1, SplicedDue
  <2>12. cursor'.buff[i] = BACK /\ (Due(todo', {"set", "store"}, a', b') \/ (todo'[1].op # "window" /\ mem'[Below(i)'] = BACK))
    BY <1>2, <2>3, <2>7, <2>9, <2>10, <2>11
  <2> QED BY <2>12 DEF a, b
<1>15. Copied'
  <2>1. \A z : SameRead(todo, s, z)
    BY <1>2, <1>6, <1>13, NoReads
  <2>2. cursor'.x = cursor.x /\ cursor'.y = cursor.y /\ cursor'.shown = cursor.shown
    BY <1>2 DEF Stays
  <2> QED BY <1>2, <1>13, <2>1, <2>2, CopiedSame DEF Content
<1> QED BY <1>10, <1>11, <1>12, <1>14, <1>15 DEF Content

(* What precedes an access are selections of its bank.                     *)
LEMMA EndsKinds ==
  ASSUME NEW s, NEW o, Ends(s, o)
  PROVE  /\ Len(s) \in Nat \ {0} /\ Len(s) \in 1 .. Len(s) /\ s[Len(s)] = o
         /\ \A k \in 1 .. Len(s) : s[k].op \in Banking \/ (k = Len(s) /\ s[k] = o)
<1>1. Len(s) \in Nat \ {0} /\ s[Len(s)] = o /\ \A k \in 1 .. Len(s) - 1 : s[k].op \in Banking
  BY DEF Ends
<1>2. \A k \in 1 .. Len(s) : k \in 1 .. Len(s) - 1 \/ k = Len(s)
  BY <1>1
<1> QED BY <1>1, <1>2

LEMMA SaveContent ==
  ASSUME Banked, Form, Content, GetPixel, Now("save")
  PROVE  Content'
<1> DEFINE o == Op("load", cursor.x + Arg.x, cursor.y, Arg.x)
           s == Selected(Addr(cursor.x + Arg.x, cursor.y, video_window_y), o)
<1>1. UNCHANGED <<mem, video_window_y, cursor>> /\ todo' = s \o Rest
  BY DEF GetPixel, Continue, Now, Fetch
<1>2. Ends(s, o) /\ o.op = "load" /\ o.c = Arg.x
  BY SelectedEnds DEF Op
<1> HIDE DEF s, o
<1>3. Spliced(todo, s, todo') /\ todo # <<>> /\ todo[1].op = "save" /\ Arg = todo[1]
  BY <1>1, <1>2, TodoHead DEF Ends
<1>4. Len(s) \in 1 .. Len(s) /\ s[Len(s)] = o /\ \A k \in 1 .. Len(s) : s[k].op \in Banking \cup {"load"}
  BY <1>2, EndsKinds
<1>5. \A k \in 1 .. Len(s) : s[k].op \notin {"scroll", "after", "store", "shown"}
  BY <1>4 DEF Banking
<1>6. Agreed'
  BY <1>3, <1>5, AgreedRest DEF Banking
<1>7. ~Scrolling(todo') /\ ~Emitting(todo')
  BY <1>3, <1>5, QuietNext DEF QuietOps
<1>8. /\ Len(todo) \in Nat \ {0} /\ Len(s) \in 1 .. Len(todo') /\ todo'[Len(s)] = o
      /\ \A q \in 2 .. Len(todo) : \E k \in 1 .. Len(todo') : todo'[k] = todo[q]
  BY <1>3, <1>4, SplicedCases
<1>9. ASSUME NEW i, Awaited(i)
      PROVE  Awaited(i)'
  <2>1. PICK q \in 1 .. Len(todo) : \/ todo[q].op = "save" /\ todo[q].x = i
                                    \/ todo[q].op = "load" /\ todo[q].c = i
                                    \/ todo[q].op = "store" /\ At(todo[q]) = BarAt(i)
    BY <1>9 DEF Awaited
  <2>2. CASE q = 1
    BY <1>2, <1>3, <1>8, <2>1, <2>2 DEF Awaited
  <2>3. CASE q # 1
    <3>1. PICK k \in 1 .. Len(todo') : todo'[k] = todo[q]
      BY <1>8, <2>3
    <3>2. At(todo[k])' = At(todo[q]) /\ BarAt(i)' = BarAt(i)
      BY <1>1, <3>1 DEF At, BarAt
    <3> QED BY <2>1, <3>1, <3>2 DEF Awaited
  <2> QED BY <2>2, <2>3
<1>10. Kept'
  <2>1. SUFFICES ASSUME cursor'.shown \/ Has(todo', {"shown"}), cursor'.blink = 0, NEW i \in Bars
                 PROVE  Held(i)' \/ Awaited(i)'
    BY DEF Kept
  <2>2. ~Scrolling(todo)
    BY <1>3, <1>8, HeadKinds DEF Banking
  <2>3. cursor.shown \/ Has(todo, {"shown"})
    BY <1>1, <1>3, <1>5, <2>1, SplicedHas
  <2>4. Held(i) \/ Awaited(i)
    BY <1>1, <2>1, <2>2, <2>3 DEF Content, Kept
  <2>5. Held(i) => Held(i)'
    BY <1>1 DEF Held, BarAt
  <2> QED BY <1>9, <2>4, <2>5
<1>11. Blanked' /\ Cleared' /\ Copied'
  BY <1>7 DEF Blanked, Cleared, Copied
<1> QED BY <1>6, <1>10, <1>11 DEF Content

LEMMA CopyContent ==
  ASSUME Banked, Form, Content, GetPixel, Now("copy")
  PROVE  Content'
<1> DEFINE o == Op("fetch", Arg.x, Arg.y, Arg.x)
           s == Selected(Addr(Arg.x, Arg.y, video_window_y), o)
           onBar == cursor.shown /\ OnBar(cursor, Arg.x, Arg.y)
<1>1. UNCHANGED <<mem, video_window_y, cursor>> /\ Stays
  BY DEF GetPixel, Stays
<1>2. /\ onBar => todo' = Rest
      /\ ~onBar => todo' = s \o Rest /\ UNCHANGED scline
  BY DEF GetPixel, Continue, Now, Fetch
<1>3. todo # <<>> /\ todo[1].op = "copy" /\ Arg = todo[1] /\ Len(todo) \in Nat \ {0} /\ Ordered(todo, 1) /\ Suited(todo[1])
  BY HeadFits
<1>4. Scrolling(todo) /\ 1 \in 1 .. Len(todo)
  BY <1>3 DEF Ordered
<1>5. ASSUME NEW r, Spliced(todo, r, todo'), \A k \in 1 .. Len(r) : r[k].op \in Banking \cup {"fetch"}
      PROVE  Agreed' /\ Kept' /\ Blanked' /\ Cleared'
  <2>1. \A k \in 1 .. Len(r) : r[k].op \notin {"store", "shown", "after", "scroll", "window"}
    BY <1>5 DEF Banking
  <2>2. Agreed'
    BY <1>3, <1>5, <2>1, AgreedRest DEF Banking
  <2>3. Has(todo', {"shown"}) => Has(todo, {"shown"})
    BY <1>5, <2>1, SplicedHas
  <2>4. Kept'
    BY <1>1, <1>3, <1>5, <2>3, KeptNext DEF Content
  <2>5. Blanked'
    BY <1>1, <1>3, <1>5, <2>1, BlankedNext DEF Content
  <2>6. Cleared'
    BY <1>1, <1>3, <1>5, <2>1, ClearedNext DEF Content
  <2> QED BY <2>2, <2>4, <2>5, <2>6
<1>6. CASE onBar
  <2> DEFINE e == <<>>
  <2>1. Spliced(todo, e, todo') /\ Len(e) = 0
    BY <1>2, <1>6, TodoHead
  <2> HIDE DEF e
  <2>2. \A k \in 1 .. Len(e) : FALSE
    BY <2>1
  <2>3. ~Has(todo, {"window", "paste"})
    <3> SUFFICES ASSUME Has(todo, {"window", "paste"})
                 PROVE  FALSE
      OBVIOUS
    <3>1. PICK v \in 0 .. 2 * HEIGHT + FONT_H : Copying(v)
      BY <1>4, <1>6 DEF Content, Copied
    <3>2. v > 2 * HEIGHT /\ todo[1].y >= v
      BY <1>3, <1>4, <3>1 DEF Copying
    <3>3. todo[1].y = cursor.y /\ cursor.y < HEIGHT /\ cursor.y \in Nat /\ HEIGHT \in Nat /\ FONT_H \in Nat
      BY <1>3, <1>6, PlaceTypes, Sizes DEF OnBar
    <3> QED BY <3>2, <3>3
  <2>4. ~Has(todo', {"window", "paste"})
    BY <2>1, <2>2, <2>3, SplicedHas
  <2>5. Copied'
    BY <2>4 DEF Copied
  <2> QED BY <1>5, <2>1, <2>2, <2>5 DEF Content
<1>7. CASE ~onBar
  <2>1. Ends(s, o) /\ o.op = "fetch" /\ o.x = todo[1].x /\ o.y = todo[1].y
    BY <1>3, SelectedEnds DEF Op
  <2>2. todo' = s \o Rest
    BY <1>2, <1>7
  <2> HIDE DEF s, o
  <2>3. Spliced(todo, s, todo')
    BY <2>1, <2>2, TodoHead DEF Ends
  <2>4. /\ Len(s) \in Nat \ {0} /\ Len(s) \in 1 .. Len(s) /\ s[Len(s)] = o
        /\ \A k \in 1 .. Len(s) : s[k].op \in Banking \/ (k = Len(s) /\ s[k] = o)
    BY <2>1, EndsKinds
  <2>5. \A k \in 1 .. Len(s) - 1 : s[k].op \in Banking
    BY <2>1 DEF Ends
  <2>6. \A x : SameRead(todo, s, x)
    <3>1. \A x, k : s[k].op \in Banking => ~Reads(s[k], x)
      BY DEF Reads, Banking
    <3>2. \A x : Reads(s[Len(s)], x) <=> Reads(todo[1], x)
      BY <1>3, <2>1, <2>4 DEF Reads
    <3>3. s[Len(s)].y = todo[1].y /\ Len(s) >= 1
      BY <2>1, <2>4
    <3> QED BY <2>5, <3>1, <3>2, <3>3 DEF SameRead
  <2>7. \A k \in 1 .. Len(s) : /\ s[k].op \notin {"scroll", "window", "paste"}
                               /\ s[k].op \in {"copy", "fetch"} => s[k].y = todo[1].y
    BY <2>1, <2>4 DEF Banking
  <2>8. Copied'
    BY <1>1, <1>2, <1>3, <1>7, <2>3, <2>6, <2>7, CopiedSame DEF Content
  <2> QED BY <1>5, <2>1, <2>3, <2>4, <2>8 DEF Content
<1> QED BY <1>6, <1>7

LEMMA GetPixelContent ==
  ASSUME Banked, Form, Content, GetPixel
  PROVE  Content'
BY SaveContent, CopyContent DEF GetPixel

(* What is left when the first operation is done.                          *)
LEMMA Done ==
  ASSUME Spliced(todo, <<>>, todo')
  PROVE  /\ Len(todo) \in Nat \ {0} /\ Len(todo') = Len(todo) - 1
         /\ \A q \in 2 .. Len(todo) : q - 1 \in 1 .. Len(todo') /\ todo'[q - 1] = todo[q]
         /\ \A k \in 1 .. Len(todo') : todo'[k] = todo[k + 1] /\ k + 1 \in 2 .. Len(todo)
         /\ \A kinds : Has(todo', kinds) => Has(todo, kinds)
<1> DEFINE s == <<>>
<1>1. Spliced(todo, s, todo') /\ Len(s) = 0
  OBVIOUS
<1> HIDE DEF s
<1>2. /\ Len(todo) \in Nat \ {0} /\ Len(todo') = Len(s) + Len(todo) - 1
      /\ \A q \in 2 .. Len(todo) : Len(s) + q - 1 \in 1 .. Len(todo') /\ todo'[Len(s) + q - 1] = todo[q]
  BY <1>1, SplicedCases
<1>3. Len(todo') = Len(todo) - 1
  BY <1>1, <1>2
<1>4. ASSUME NEW q \in 2 .. Len(todo)
      PROVE  q - 1 \in 1 .. Len(todo') /\ todo'[q - 1] = todo[q]
  <2>1. Len(s) + q - 1 = q - 1
    BY <1>1
  <2> QED BY <1>2, <2>1
<1>5. ASSUME NEW k \in 1 .. Len(todo')
      PROVE  todo'[k] = todo[k + 1] /\ k + 1 \in 2 .. Len(todo)
  <2>1. k + 1 \in 2 .. Len(todo) /\ (k + 1) - 1 = k
    BY <1>2, <1>3
  <2> QED BY <1>4, <2>1
<1>6. \A kinds : Has(todo', kinds) => Has(todo, kinds)
  <2>1. \A k \in 1 .. Len(todo') : \E q \in 1 .. Len(todo) : todo'[k] = todo[q]
    BY <1>2, <1>5
  <2> QED BY <2>1 DEF Has
<1> QED BY <1>2, <1>3, <1>4, <1>5, <1>6

LEMMA LoadContent ==
  ASSUME Banked, Form, Content, Spliced(todo, <<>>, todo'), todo # <<>>, Suited(todo[1]), LoadStep
  PROVE  Content'
<1>1. mem' = mem /\ Stays /\ todo[1].op = "load"
  BY DEF LoadStep
<1> DEFINE s == <<>>
<1>2. Spliced(todo, s, todo') /\ Len(s) = 0
  OBVIOUS
<1> HIDE DEF s
<1>3. \A k \in 1 .. Len(s) : FALSE
  BY <1>2
<1>4. Agreed'
  BY <1>1, <1>2, <1>3, AgreedRest DEF Banking
<1>5. ~Scrolling(todo') /\ ~Emitting(todo')
  BY <1>1, <1>2, <1>3, QuietNext DEF QuietOps
<1>6. Len(todo) \in Nat \ {0} /\ \A q \in 2 .. Len(todo) : q - 1 \in 1 .. Len(todo') /\ todo'[q - 1] = todo[q]
  BY Done
<1>7. Kept'
  <2>1. SUFFICES ASSUME cursor'.shown \/ Has(todo', {"shown"}), cursor'.blink = 0, NEW i \in Bars
                 PROVE  Held(i)' \/ Awaited(i)'
    BY DEF Kept
  <2>2. ~Scrolling(todo)
    BY <1>1, <1>6, HeadKinds DEF Banking
  <2>3. cursor.shown \/ Has(todo, {"shown"})
    BY <1>1, <2>1, Done DEF Stays
  <2>4. Held(i) \/ Awaited(i)
    BY <1>1, <2>1, <2>2, <2>3 DEF Content, Kept, Stays
  <2>5. BarAt(i)' = BarAt(i)
    BY <1>1 DEF BarAt, Stays
  <2>6. CASE i = todo[1].c
    BY <1>1, <2>5, <2>6 DEF LoadStep, Held
  <2>7. CASE i # todo[1].c
    <3>1. Held(i) => Held(i)'
      BY <1>1, <2>5, <2>7 DEF LoadStep, Held
    <3>2. ASSUME Awaited(i)
          PROVE  Awaited(i)'
      <4>1. PICK q \in 1 .. Len(todo) : \/ todo[q].op = "save" /\ todo[q].x = i
                                        \/ todo[q].op = "load" /\ todo[q].c = i
                                        \/ todo[q].op = "store" /\ At(todo[q]) = BarAt(i)
        BY <3>2 DEF Awaited
      <4>2. q \in 2 .. Len(todo)
        BY <1>1, <1>6, <2>7, <4>1
      <4>3. PICK k \in 1 .. Len(todo') : todo'[k] = todo[q]
        BY <1>6, <4>2
      <4>4. At(todo[k])' = At(todo[q])
        BY <1>1, <4>3 DEF At, Stays
      <4> QED BY <2>5, <4>1, <4>3, <4>4 DEF Awaited
    <3> QED BY <2>4, <3>1, <3>2
  <2> QED BY <2>6, <2>7
<1>8. Blanked' /\ Cleared' /\ Copied'
  BY <1>5 DEF Blanked, Cleared, Copied
<1> QED BY <1>4, <1>7, <1>8 DEF Content

LEMMA FetchContent ==
  ASSUME Banked, Form, Content, Spliced(todo, <<>>, todo'), todo # <<>>, Suited(todo[1]), FetchStep
  PROVE  Content'
<1>1. UNCHANGED <<mem, cursor>> /\ Stays /\ todo[1].op = "fetch"
  BY DEF FetchStep
<1> DEFINE s == <<>>
<1>2. Spliced(todo, s, todo') /\ Len(s) = 0
  OBVIOUS
<1> HIDE DEF s
<1>3. \A k \in 1 .. Len(s) : FALSE
  BY <1>2
<1>4. Agreed'
  BY <1>1, <1>2, <1>3, AgreedRest DEF Banking
<1>5. Kept'
  <2>1. Has(todo', {"shown"}) => Has(todo, {"shown"})
    BY Done
  <2> QED BY <1>1, <1>2, <2>1, KeptNext DEF Content, Stays
<1>6. Blanked' /\ Cleared'
  BY <1>1, <1>2, <1>3, BlankedNext, ClearedNext DEF Content
<1>7. /\ Len(todo) \in Nat \ {0}
      /\ \A q \in 2 .. Len(todo) : q - 1 \in 1 .. Len(todo') /\ todo'[q - 1] = todo[q]
      /\ \A k \in 1 .. Len(todo') : todo'[k] = todo[k + 1]
  BY Done
<1>8. ASSUME NEW v \in 0 .. 2 * HEIGHT + FONT_H, NEW i \in Bars, NEW q \in 2 .. Len(todo), Copying(v),
             Scrolling(todo), ReadLast(todo, scline, q, cursor.x + i, cursor.y + v)
      PROVE  ReadLast(todo', scline', Len(s) + q - 1, cursor.x + i, cursor.y + v)
  <2> DEFINE x == cursor.x + i
             row == cursor.y + v
  <2>1. x \in Columns
    <3>1. ~Full
      BY <1>7, <1>8, ScrollFacts
    <3> QED BY <3>1, BarCell
  <2>2. mem[x + WIDTH * row] = BACK
    BY <1>8 DEF Copying
  <2>3. video_window_y = 0
    <3>1. Has(todo, {"window", "copy", "paste", "fetch"})
      <4>1. 1 \in 1 .. Len(todo)
        BY <1>7
      <4> QED BY <1>1, <4>1 DEF Has
    <3> QED BY <1>1, <1>8, <3>1 DEF Form, Scrolled
  <2>4. row + 0 = row
    BY <1>8, PlaceTypes
  <2>5. ReadLast(todo, scline, q, x, row) /\ Len(s) + q - 1 = q - 1
    BY <1>2, <1>8
  <2> HIDE DEF x, row
  <2>6. CASE ~Reads(todo[1], x)
    <3>1. todo[1].x # x
      BY <1>1, <2>6 DEF Reads
    <3>2. scline'[x] = scline[x]
      BY <2>1, <3>1 DEF FetchStep
    <3>3. SameRead(todo, s, x)
      BY <1>2, <2>6 DEF SameRead
    <3>4. ReadLast(todo', scline, Len(s) + q - 1, x, row)
      BY <1>2, <2>5, <3>3, SplicedRead
    <3> QED BY <3>2, <3>4 DEF ReadLast, x, row
  <2>7. CASE Reads(todo[1], x)
    <3>1. ~Unread(todo, 0, q, x)
      <4>1. 1 \in 0 + 1 .. q - 1
        OBVIOUS
      <4> QED BY <2>7, <4>1 DEF Unread
    <3>2. PICK j \in 1 .. q - 1 : Reads(todo[j], x) /\ todo[j].y = row /\ Unread(todo, j, q, x)
      BY <2>5, <3>1 DEF ReadLast
    <3>3. Unread(todo', j - 1, q - 1, x)
      <4>1. ASSUME NEW m \in (j - 1) + 1 .. (q - 1) - 1
            PROVE  ~Reads(todo'[m], x)
        <5>1. m \in 1 .. Len(todo') /\ m + 1 \in j + 1 .. q - 1
          <6>1. Len(todo') = Len(todo) - 1
            BY Done
          <6> QED BY <1>7, <6>1
        <5> QED BY <1>7, <3>2, <5>1 DEF Unread
      <4> QED BY <4>1 DEF Unread
    <3>4. CASE j = 1
      <4>1. scline'[x] = mem[At(todo[1])]
        BY <2>1, <2>7 DEF FetchStep, Reads
      <4>2. At(todo[1]) = x + WIDTH * row
        BY <2>3, <2>4, <2>7, <3>2, <3>4 DEF At, Addr, Reads
      <4>3. scline'[x] = BACK
        BY <2>2, <4>1, <4>2
      <4>4. Unread(todo', 0, q - 1, x)
        <5>1. j - 1 = 0
          BY <3>4
        <5> QED BY <3>3, <5>1
      <4>5. ReadLast(todo', scline', q - 1, x, row)
        BY <4>3, <4>4 DEF ReadLast
      <4> QED BY <2>5, <4>5 DEF x, row
    <3>5. CASE j # 1
      <4> DEFINE k == j - 1
      <4>1. k \in 1 .. (q - 1) - 1 /\ todo'[k] = todo[j]
        <5>1. j \in 2 .. Len(todo)
          BY <1>7, <3>5
        <5> QED BY <1>7, <5>1
      <4>2. Unread(todo', k, q - 1, x)
        BY <3>3
      <4> HIDE DEF k
      <4>3. ReadLast(todo', scline', q - 1, x, row)
        BY <3>2, <4>1, <4>2 DEF ReadLast
      <4> QED BY <2>5, <4>3 DEF x, row
    <3> QED BY <3>4, <3>5
  <2> QED BY <2>6, <2>7
<1>9. Copied'
  BY <1>1, <1>2, <1>3, <1>8, CopiedNext DEF Content
<1> QED BY <1>4, <1>5, <1>6, <1>9 DEF Content

(* The pixels below the bar, a line further on.                            *)
LEMMA BelowCell ==
  ASSUME Form, ~Full, NEW i \in Bars, video_window_y <= 2 * HEIGHT
  PROVE  /\ Below(i) = cursor.x + i + WIDTH * (cursor.y + FONT_H + video_window_y)
         /\ Below(i) \in DOMAIN mem /\ cursor.y + FONT_H + video_window_y \in Nat /\ cursor.y + FONT_H \in Nat
<1>1. /\ cursor.x \in Nat /\ cursor.y \in Nat /\ video_window_y \in Nat /\ cursor.y < HEIGHT
      /\ WIDTH \in Nat /\ HEIGHT \in Nat /\ FONT_H \in Nat /\ i \in Nat
  BY PlaceTypes, Sizes, BarCell
<1> DEFINE r == cursor.y + FONT_H + video_window_y
<1>2. r \in Nat /\ r <= 3 * HEIGHT + FONT_H - 1 /\ WIDTH * r \in Nat /\ cursor.y + FONT_H \in Nat
  <2>1. r \in Nat /\ r <= 3 * HEIGHT + FONT_H - 1 /\ cursor.y + FONT_H \in Nat
    BY <1>1
  <2> HIDE DEF r
  <2> QED BY <1>1, <2>1
<1>3. Below(i) = cursor.x + i + WIDTH * r
  <2>1. Below(i) = (cursor.x + WIDTH * r) + i
    BY DEF Below, Addr
  <2> HIDE DEF r
  <2> QED BY <1>1, <1>2, <2>1
<1> HIDE DEF r
<1>4. cursor.x + i \in Nat /\ cursor.x + i < 2 * WIDTH /\ DOMAIN mem = 0 .. BANK * BANKS - 1
  BY BarCell DEF Form, VTypes
<1>5. cursor.x + i + WIDTH * r \in 0 .. BANK * BANKS - 1
  BY <1>2, <1>4, CellIn
<1> QED BY <1>2, <1>3, <1>4, <1>5 DEF r

LEMMA StoreContent ==
  ASSUME Banked, Form, Content, Spliced(todo, <<>>, todo'), todo # <<>>, Suited(todo[1]), StoreStep
  PROVE  Content'
<1> DEFINE s == <<>>
           o == todo[1]
<1>1. /\ UNCHANGED <<cursor, scline>> /\ Stays /\ todo[1].op = "store" /\ video_window_y' = video_window_y
      /\ \A a \in DOMAIN mem : mem'[a] = IF a = At(o) THEN o.c ELSE mem[a]
  BY DEF StoreStep, Stays
<1>2. Spliced(todo, s, todo') /\ Len(s) = 0 /\ \A k \in 1 .. Len(s) : FALSE
  <2>1. \A k \in 1 .. 0 : FALSE
    OBVIOUS
  <2> QED BY <2>1
<1>3. Agreed'
  BY <1>1, AgreedTail DEF Content
<1>4. /\ Len(todo) \in Nat \ {0} /\ 1 \in 1 .. Len(todo)
      /\ \A q \in 2 .. Len(todo) : q - 1 \in 1 .. Len(todo') /\ todo'[q - 1] = todo[q]
  BY Done
<1> HIDE DEF s
<1>5. \A i \in Bars : BarAt(i) \in DOMAIN mem /\ BarAt(i)' = BarAt(i)
  BY <1>1, BarCell DEF BarAt
<1>6. Kept'
  <2>1. SUFFICES ASSUME ~Scrolling(todo'), cursor'.shown \/ Has(todo', {"shown"}), cursor'.blink = 0, NEW i \in Bars
                 PROVE  Held(i)' \/ Awaited(i)'
    BY DEF Kept
  <2>2. ~Scrolling(todo)
    BY <1>1, <1>2, <2>1, SplicedHas DEF Scrolling
  <2>3. cursor.shown
    <3>1. ~Has(todo, {"shown"})
      BY <1>1, <1>4, HeadKinds DEF Banking
    <3> QED BY <1>1, <2>1, <3>1, Done
  <2>4. Held(i) \/ Awaited(i)
    BY <1>1, <2>1, <2>2, <2>3 DEF Content, Kept
  <2>5. CASE At(o) = BarAt(i)
    <3>1. o.c = cursor.buff[i]
      BY <1>1, <1>4, <2>3, <2>5 DEF Content, Agreed
    <3>2. mem'[BarAt(i)] = o.c
      BY <1>1, <1>5, <2>5
    <3> QED BY <1>1, <1>5, <3>1, <3>2 DEF Held
  <2>6. CASE At(o) # BarAt(i)
    <3>1. mem'[BarAt(i)] = mem[BarAt(i)]
      BY <1>1, <1>5, <2>6
    <3>2. Held(i) => Held(i)'
      BY <1>1, <1>5, <3>1 DEF Held
    <3>3. ASSUME Awaited(i)
          PROVE  Awaited(i)'
      <4>1. PICK q \in 1 .. Len(todo) : \/ todo[q].op = "save" /\ todo[q].x = i
                                        \/ todo[q].op = "load" /\ todo[q].c = i
                                        \/ todo[q].op = "store" /\ At(todo[q]) = BarAt(i)
        BY <3>3 DEF Awaited
      <4>2. q \in 2 .. Len(todo)
        BY <1>1, <1>4, <2>6, <4>1
      <4>3. PICK k \in 1 .. Len(todo') : todo'[k] = todo[q]
        BY <1>4, <4>2
      <4>4. At(todo[k])' = At(todo[q])
        BY <1>1, <4>3 DEF At
      <4> QED BY <1>5, <4>1, <4>3, <4>4 DEF Awaited
    <3> QED BY <2>4, <3>2, <3>3
  <2> QED BY <2>5, <2>6
<1>7. Blanked'
  <2>1. SUFFICES ASSUME Emitting(todo'), todo'[Len(todo')].c = NL, cursor'.shown, NEW i \in Bars
                 PROVE  (/\ cursor.buff[i] = BACK \/ Due(todo, {"set"}, cursor.x + i, cursor.y)
                         /\ mem[BarAt(i)] = BACK \/ Due(todo, {"set", "store"}, cursor.x + i, cursor.y))'
    BY DEF Blanked
  <2>2. Emitting(todo) /\ todo[Len(todo)].c = NL
    <3>1. todo[1].op # "glyph" /\ \A k \in 1 .. Len(s) : s[k].op # "after"
      BY <1>1, <1>2
    <3> QED BY <1>2, <2>1, <3>1, EmittingNext
  <2>3. o.c = BACK
    <3> DEFINE n == Len(todo)
    <3>1. 1 \in 1 .. n - 1
      <4>1. n # 1
        BY <1>1, <2>2 DEF Emitting
      <4>2. n \in Nat \ {0}
        BY <1>4
      <4> HIDE DEF n
      <4> QED BY <4>1, <4>2
    <3> QED BY <1>1, <2>2, <3>1 DEF Form, Drawn
  <2> DEFINE a == cursor.x + i
             b == cursor.y
  <2>4. /\ cursor.buff[i] = BACK \/ Due(todo, {"set"}, a, b)
        /\ mem[BarAt(i)] = BACK \/ Due(todo, {"set", "store"}, a, b)
    BY <1>1, <2>1, <2>2 DEF Content, Blanked
  <2>5. a' = a /\ b' = b
    BY <1>1
  <2>6. o.x = a /\ o.y = b => At(o) = BarAt(i)
    BY BarCell DEF At, Addr
  <2> HIDE DEF a, b
  <2>7. Due(todo, {"set"}, a, b) => Due(todo', {"set"}, a, b)
    BY <1>1, <1>2, SplicedDue
  <2>8. mem'[BarAt(i)] = BACK \/ Due(todo', {"set", "store"}, a, b)
    <3>1. CASE At(o) = BarAt(i)
      BY <1>1, <1>5, <2>3, <3>1
    <3>2. CASE At(o) # BarAt(i)
      <4>1. mem'[BarAt(i)] = mem[BarAt(i)]
        BY <1>1, <1>5, <3>2
      <4>2. Due(todo, {"set", "store"}, a, b) => Due(todo', {"set", "store"}, a, b)
        BY <1>2, <2>6, <3>2, SplicedDue
      <4> QED BY <2>4, <4>1, <4>2
    <3> QED BY <3>1, <3>2
  <2>9. /\ cursor'.buff[i] = BACK \/ Due(todo', {"set"}, a', b')
        /\ mem'[BarAt(i)'] = BACK \/ Due(todo', {"set", "store"}, a', b')
    BY <1>1, <1>5, <2>4, <2>5, <2>7, <2>8
  <2> QED BY <2>9 DEF a, b
<1>8. ASSUME Scrolling(todo)
      PROVE  /\ ~Full /\ cursor.y + FONT_H >= HEIGHT /\ video_window_y <= 2 * HEIGHT
             /\ o.x \in Columns /\ o.y \in Nat /\ o.y < HEIGHT + FONT_H /\ (o.y >= HEIGHT => o.c = BACK)
             /\ Has(todo, {"window", "paste"}) => video_window_y = 0
  <2>1. ~Full /\ cursor.y + FONT_H >= HEIGHT /\ Len(todo) >= 3
    BY <1>1, <1>4, <1>8, ScrollFacts, HeadKinds
  <2>2. 1 \in 1 .. Len(todo) - 2
    <3> DEFINE n == Len(todo)
    <3>1. n \in Nat /\ n >= 3
      BY <1>4, <2>1
    <3> HIDE DEF n
    <3>2. 1 \in 1 .. n - 2
      BY <3>1
    <3> QED BY <3>2 DEF n
  <2>3. video_window_y <= 2 * HEIGHT /\ (Has(todo, {"window", "copy", "paste", "fetch"}) => video_window_y = 0)
    BY <1>1, <1>8 DEF Form, Scrolled
  <2>4. Has(todo, {"window", "paste"}) => Has(todo, {"window", "copy", "paste", "fetch"})
    BY DEF Has
  <2>5. o.y < HEIGHT + FONT_H /\ o.x \in Columns /\ (o.y >= HEIGHT => o.c = BACK)
    BY <1>1, <1>8, <2>2 DEF Form, Scrolled
  <2>6. o.y \in Nat
    BY <1>1 DEF Suited
  <2> QED BY <2>1, <2>3, <2>4, <2>5, <2>6
<1>9. Cleared'
  <2>1. SUFFICES ASSUME Scrolling(todo'), cursor'.shown, NEW i \in Bars
                 PROVE  (/\ cursor.buff[i] = BACK
                         /\ \/ Due(todo, {"set", "store"}, cursor.x + i, cursor.y + FONT_H)
                            \/ todo[1].op # "window" /\ mem[Below(i)] = BACK)'
    BY DEF Cleared
  <2>2. Scrolling(todo)
    BY <2>1, Done DEF Scrolling
  <2>3. todo'[1].op # "window"
    BY <1>2, <2>1, <2>2, NotWindow
  <2> DEFINE a == cursor.x + i
             b == cursor.y + FONT_H
  <2>4. cursor.buff[i] = BACK /\ (Due(todo, {"set", "store"}, a, b) \/ mem[Below(i)] = BACK)
    BY <1>1, <2>1, <2>2 DEF Content, Cleared
  <2>5. a' = a /\ b' = b /\ Below(i)' = Below(i)
    BY <1>1 DEF Below
  <2>6. Below(i) \in DOMAIN mem /\ (o.x = a /\ o.y = b => At(o) = Below(i))
    BY <1>8, <2>2, BelowCell DEF At, Addr
  <2>7. At(o) = Below(i) => o.c = BACK
    <3> SUFFICES ASSUME At(o) = Below(i)
                 PROVE  o.c = BACK
      OBVIOUS
    <3> DEFINE r == o.y + video_window_y
               q == cursor.y + FONT_H + video_window_y
    <3>1. At(o) = o.x + WIDTH * r /\ Below(i) = a + WIDTH * q /\ q \in Nat /\ b \in Nat
      BY <1>8, <2>2, BelowCell DEF At, Addr
    <3>2. r \in Nat /\ o.x \in Columns /\ a \in Columns
      BY <1>8, <2>2, PlaceTypes, BarCell
    <3>3. r = q
      <4> DEFINE z == o.x
      <4>1. z + WIDTH * r = a + WIDTH * q /\ z \in Columns /\ a \in Columns /\ r \in Nat /\ q \in Nat
        BY <3>1, <3>2
      <4> HIDE DEF r, q, a, b, o, z
      <4> QED BY <4>1, SameRow
    <3>4. o.y = cursor.y + FONT_H
      BY <1>8, <2>2, <3>1, <3>3, PlaceTypes
    <3> QED BY <1>8, <2>2, <3>4
  <2> HIDE DEF a, b
  <2>8. mem'[Below(i)] = BACK \/ Due(todo', {"set", "store"}, a, b)
    <3>1. CASE At(o) = Below(i)
      BY <1>1, <2>6, <2>7, <3>1
    <3>2. CASE At(o) # Below(i)
      <4>1. mem'[Below(i)] = mem[Below(i)]
        BY <1>1, <2>6, <3>2
      <4>2. Due(todo, {"set", "store"}, a, b) => Due(todo', {"set", "store"}, a, b)
        BY <1>2, <2>6, <3>2, SplicedDue
      <4> QED BY <2>4, <4>1, <4>2
    <3> QED BY <3>1, <3>2
  <2>9. cursor'.buff[i] = BACK /\ (Due(todo', {"set", "store"}, a', b') \/ (todo'[1].op # "window" /\ mem'[Below(i)'] = BACK))
    BY <1>1, <2>3, <2>4, <2>5, <2>8
  <2> QED BY <2>9 DEF a, b
<1>10. Copied'
  <2>1. CASE ~Has(todo, {"window", "paste"})
    BY <2>1, Done DEF Copied
  <2>2. CASE Has(todo, {"window", "paste"})
    <3>1. ASSUME NEW v \in 0 .. 2 * HEIGHT + FONT_H, NEW i \in Bars, Copying(v), Scrolling(todo)
          PROVE  mem'[cursor.x + i + WIDTH * (cursor.y + v)] = mem[cursor.x + i + WIDTH * (cursor.y + v)]
      <4> DEFINE a == cursor.x + i
                 q == cursor.y + v
                 r == o.y + video_window_y
      <4>1. /\ HEIGHT \in Nat /\ FONT_H \in Nat /\ HEIGHT - FONT_H \in Nat
            /\ cursor.y \in Nat /\ cursor.y < HEIGHT /\ v > 2 * HEIGHT /\ video_window_y = 0
            /\ o.x \in Columns /\ o.y \in Nat /\ o.y < HEIGHT + FONT_H
        BY <1>8, <2>2, <3>1, Sizes, PlaceTypes DEF Copying
      <4>2. a \in Columns /\ a \in Nat /\ a < 2 * WIDTH /\ DOMAIN mem = 0 .. BANK * BANKS - 1
        BY <1>8, <3>1, BarCell DEF Form, VTypes
      <4>3. q \in Nat /\ q <= 3 * HEIGHT + FONT_H - 1 /\ r \in Nat /\ r # q
        BY <4>1
      <4>4. At(o) = o.x + WIDTH * r
        BY DEF At, Addr
      <4>5. a + WIDTH * q \in DOMAIN mem
        <5> HIDE DEF a, q
        <5> QED BY <4>2, <4>3, CellIn
      <4>6. At(o) # a + WIDTH * q
        <5>1. o.x \in Columns
          BY <4>1
        <5> HIDE DEF a, q, r, o
        <5> QED BY <4>2, <4>3, <4>4, <5>1, SameRow
      <4>7. mem'[a + WIDTH * q] = mem[a + WIDTH * q]
        <5> HIDE DEF a, q, r
        <5> QED BY <1>1, <4>5, <4>6
      <4> QED BY <4>7
    <3>2. \A x : SameRead(todo, s, x)
      BY <1>1, <1>2, NoReads
    <3>3. ASSUME NEW v, NEW i, NEW q \in 2 .. Len(todo), ReadLast(todo, scline, q, cursor.x + i, cursor.y + v)
          PROVE  ReadLast(todo', scline', Len(s) + q - 1, cursor.x + i, cursor.y + v)
      <4> DEFINE x == cursor.x + i
                 row == cursor.y + v
      <4>1. SameRead(todo, s, x) /\ ReadLast(todo, scline, q, x, row)
        BY <3>2, <3>3
      <4> HIDE DEF x, row
      <4>2. ReadLast(todo', scline, Len(s) + q - 1, x, row)
        BY <1>2, <4>1, SplicedRead
      <4> QED BY <1>1, <4>2 DEF x, row
    <3> QED BY <1>1, <1>2, <3>1, <3>3, CopiedNext DEF Content
  <2> QED BY <2>1, <2>2
<1> QED BY <1>3, <1>6, <1>7, <1>9, <1>10 DEF Content

LEMMA AccessContent ==
  ASSUME Banked, Form, Content, Access
  PROVE  Content'
BY AccessStep, StoreContent, LoadContent, FetchContent

LEMMA WindowContent ==
  ASSUME Banked, Form, Content, MoveWindow, Now("window")
  PROVE  Content'
<1>1. UNCHANGED <<mem, cursor, scline>> /\ todo' = Rest
  BY DEF MoveWindow, Continue
<1> DEFINE s == <<>>
<1>2. Spliced(todo, s, todo') /\ Len(s) = 0 /\ todo # <<>> /\ todo[1].op = "window" /\ Ordered(todo, 1)
      /\ Len(todo) \in Nat \ {0}
  BY <1>1, TodoHead, HeadFits
<1> HIDE DEF s
<1>3. \A k \in 1 .. Len(s) : FALSE
  BY <1>2
<1>4. Agreed'
  BY <1>2, <1>3, AgreedRest DEF Banking
<1>5. Kept'
  <2> SUFFICES ASSUME ~Scrolling(todo'), cursor'.shown \/ Has(todo', {"shown"})
               PROVE  FALSE
    BY DEF Kept
  <2>1. ~Scrolling(todo)
    BY <1>2, SplicedHas DEF Scrolling
  <2>2. ~cursor.shown
    BY <1>2, <2>1 DEF Ordered, Behind
  <2>3. ~Has(todo, {"shown"})
    BY <1>2, HeadKinds DEF Banking
  <2> QED BY <1>1, <1>2, <1>3, <2>2, <2>3, SplicedHas
<1>6. Blanked'
  <2>1. ~Emitting(todo)
    BY <1>2, HeadKinds DEF Banking
  <2>2. ~Emitting(todo')
    BY <1>2, <1>3, <2>1, EmittingNext
  <2> QED BY <2>2 DEF Blanked
<1>7. Cleared'
  <2>1. SUFFICES ASSUME Scrolling(todo'), cursor'.shown, NEW i \in Bars
                 PROVE  (/\ cursor.buff[i] = BACK
                         /\ \/ Due(todo, {"set", "store"}, cursor.x + i, cursor.y + FONT_H)
                            \/ todo[1].op # "window" /\ mem[Below(i)] = BACK)'
    BY DEF Cleared
  <2>2. Scrolling(todo)
    BY <1>2, <1>3, <2>1, SplicedHas DEF Scrolling
  <2> DEFINE a == cursor.x + i
             b == cursor.y + FONT_H
  <2>3. cursor.buff[i] = BACK /\ Due(todo, {"set", "store"}, a, b)
    BY <1>1, <1>2, <2>1, <2>2 DEF Content, Cleared
  <2>4. a' = a /\ b' = b
    BY <1>1
  <2> HIDE DEF a, b
  <2>5. Due(todo', {"set", "store"}, a, b)
    BY <1>2, <2>3, SplicedDue
  <2>6. cursor'.buff[i] = BACK /\ Due(todo', {"set", "store"}, a', b')
    BY <1>1, <2>3, <2>4, <2>5
  <2> QED BY <2>6 DEF a, b
<1>8. Copied'
  <2>1. \A x : SameRead(todo, s, x)
    BY <1>2, <1>3, NoReads
  <2> QED BY <1>1, <1>2, <1>3, <2>1, CopiedSame DEF Content
<1> QED BY <1>4, <1>5, <1>6, <1>7, <1>8 DEF Content

(* The window moves on by a line: the pixels below the bar are now those   *)
(* a line further on.                                                      *)
LEMMA ScrollContent ==
  ASSUME Banked, Form, Content, MoveWindow, Now("scroll")
  PROVE  Content'
<1>1. UNCHANGED <<mem, cursor, scline>> /\ todo' = Rest /\ video_window_y' = video_window_y + FONT_H
  BY DEF MoveWindow, Continue, Now
<1> DEFINE s == <<>>
<1>2. Spliced(todo, s, todo') /\ todo # <<>> /\ todo[1].op = "scroll" /\ Ordered(todo, 1)
      /\ Len(todo) \in Nat \ {0} /\ Len(s) = 0
  BY <1>1, TodoHead, HeadFits
<1> HIDE DEF s
<1>3. Len(todo) = 2 /\ todo[2] = Op("fast", 0, ROWS - 1, 0)
  <2> DEFINE n == Len(todo)
  <2>1. n \in Nat /\ 1 = n - 1 /\ todo[n] = Op("fast", 0, ROWS - 1, 0)
    BY <1>2 DEF Ordered
  <2> HIDE DEF n
  <2>2. n = 2
    BY <2>1
  <2> QED BY <2>1, <2>2 DEF n
<1>4. Len(todo') = 1 /\ todo'[1].op = "fast" /\ todo[2].op = "fast"
  <2>1. Len(todo') = Len(todo) - 1 /\ \A k \in 1 .. Len(todo') : todo'[k] = todo[k + 1]
    BY <1>2, Done DEF s
  <2> QED BY <1>3, <2>1 DEF Op
<1>5. \A kinds : "fast" \notin kinds => ~Has(todo', kinds)
  BY <1>4 DEF Has
<1>6. ~Scrolling(todo') /\ ~Emitting(todo')
  BY <1>4, <1>5 DEF Scrolling, Emitting
<1>7. Agreed'
  BY <1>2, AgreedRest DEF Banking, s
<1>8. Kept'
  <2>1. SUFFICES ASSUME cursor'.shown \/ Has(todo', {"shown"}), NEW i \in Bars
                 PROVE  Held(i)'
    BY DEF Kept
  <2>2. cursor.shown
    BY <1>1, <1>5, <2>1
  <2>3. Scrolling(todo)
    BY <1>2, <1>3 DEF Scrolling, Has
  <2>4. cursor.buff[i] = BACK /\ mem[Below(i)] = BACK
    <3>1. \A k \in 1 .. Len(todo) : todo[k].op \notin {"set", "store"}
      BY <1>2, <1>3, <1>4
    <3>2. ~Due(todo, {"set", "store"}, cursor.x + i, cursor.y + FONT_H)
      BY <3>1 DEF Due
    <3> QED BY <2>2, <2>3, <3>2 DEF Content, Cleared
  <2>5. BarAt(i)' = Below(i)
    <3>1. cursor.y + (video_window_y + FONT_H) = cursor.y + FONT_H + video_window_y
      BY PlaceTypes, Sizes
    <3> QED BY <1>1, <3>1 DEF BarAt, Below, Addr
  <2> QED BY <1>1, <2>4, <2>5 DEF Held
<1>9. Blanked' /\ Cleared' /\ Copied'
  BY <1>6 DEF Blanked, Cleared, Copied
<1> QED BY <1>7, <1>8, <1>9 DEF Content

LEMMA MoveWindowContent ==
  ASSUME Banked, Form, Content, MoveWindow
  PROVE  Content'
BY WindowContent, ScrollContent DEF MoveWindow

(* A character is drawn over all of the bar.                               *)
LEMMA GlyphContent ==
  ASSUME Banked, Form, Content, Expand, Now("glyph")
  PROVE  Content'
<1> DEFINE x == cursor.col * FNT_W
           y == cursor.row * FONT_H
           c == todo[1].c
           s == video_draw_char(x, y, c)
<1>1. /\ Len(todo) = 2 /\ todo[2].op = "after" /\ todo[1].op = "glyph" /\ Arg = todo[1] /\ todo # <<>>
  BY GlyphHead, HeadFits
<1>2. UNCHANGED <<mem, video_window_y, cursor>> /\ todo' = s \o Rest
  BY <1>1 DEF Expand, Continue, Now
<1> HIDE DEF x, y, c
<1>3. /\ IsSeq(s)
      /\ \A k \in 1 .. Len(s) :
           \E i \in 0 .. FNT_W - 1, j \in 0 .. FONT_H - 1 :
             s[k] = Put(x + i, y + j, IF <<i, j>> \in Glyph[c] THEN TEXT ELSE BACK)
      /\ \A i \in 0 .. FNT_W - 1, j \in 0 .. FONT_H - 1 :
           \E k \in 1 .. Len(s) :
             s[k] = Put(x + i, y + j, IF <<i, j>> \in Glyph[c] THEN TEXT ELSE BACK)
  BY CharOps
<1>4. \A i, j, p : Put(x + i, y + j, p).op = "set" /\ Put(x + i, y + j, p).x = x + i /\ Put(x + i, y + j, p).y = y + j
  BY DEF Put, Op
<1> HIDE DEF s
<1>5. Spliced(todo, s, todo')
  BY <1>2, <1>3, TodoHead
<1>6. ASSUME NEW k \in 1 .. Len(s)
      PROVE  s[k].op = "set"
  <2>1. PICK i, j : s[k] = Put(x + i, y + j, IF <<i, j>> \in Glyph[c] THEN TEXT ELSE BACK)
    BY <1>3
  <2> QED BY <1>4, <2>1
<1>7. Agreed'
  BY <1>1, <1>5, <1>6, AgreedRest DEF Banking
<1>8. \A kinds : {"glyph", "after", "set"} \cap kinds = {} => ~Has(todo', kinds) /\ ~Has(todo, kinds)
  <2>1. \A k \in 1 .. Len(todo) : todo[k].op \in {"glyph", "after"}
    BY <1>1
  <2>2. \A kinds : {"glyph", "after", "set"} \cap kinds = {} => ~Has(todo, kinds)
    BY <2>1 DEF Has
  <2> QED BY <1>5, <1>6, <2>2, SplicedHas
<1>9. ~Scrolling(todo') /\ ~Has(todo', {"shown"})
  BY <1>8 DEF Scrolling
<1>10. Kept'
  BY <1>1, <1>2, <1>5, <1>9, KeptNext DEF Content
<1>11. ASSUME NEW i \in Bars
       PROVE  Due(todo', {"set"}, cursor.x + i, cursor.y)
  <2>1. /\ FNT_W \in Nat /\ FNT_W >= 3 /\ FONT_H \in Nat \ {0} /\ i \in 0 .. FNT_W - 3
        /\ cursor.col \in Nat /\ cursor.row \in Nat /\ x \in Nat /\ y \in Nat
    <3>1. FNT_W \in Nat /\ FNT_W >= 3 /\ FONT_H \in Nat \ {0} /\ i \in 0 .. FNT_W - 3
      BY ScreenAssumption, Sizes DEF Bars, BAR
    <3> QED BY <3>1, PlaceTypes DEF x, y
  <2>2. \E p \in 0 .. FNT_W - 1, q \in 0 .. FONT_H - 1 : x + p = cursor.x + i /\ y + q = cursor.y
    <3>1. CASE Moved
      <4>1. cursor.x = x + 1 /\ cursor.y = y + FONT_H - 1
        <5>1. (cursor.row + 1) * FONT_H = y + FONT_H
          BY <2>1 DEF y
        <5> QED BY <2>1, <3>1, <5>1 DEF Moved, x
      <4>2. i + 1 \in 0 .. FNT_W - 1 /\ FONT_H - 1 \in 0 .. FONT_H - 1
        BY <2>1
      <4>3. x + (i + 1) = cursor.x + i /\ y + (FONT_H - 1) = cursor.y
        BY <2>1, <4>1
      <4> QED BY <4>2, <4>3
    <3>2. CASE InCorner
      <4>1. cursor.x = 0 /\ cursor.y = 0 /\ x = 0 /\ y = 0
        BY <2>1, <3>2 DEF InCorner, x, y
      <4>2. i \in 0 .. FNT_W - 1 /\ 0 \in 0 .. FONT_H - 1
        BY <2>1
      <4> QED BY <2>1, <4>1, <4>2
    <3> QED BY <3>1, <3>2 DEF Form, VTypes
  <2>3. PICK p \in 0 .. FNT_W - 1, q \in 0 .. FONT_H - 1 : x + p = cursor.x + i /\ y + q = cursor.y
    BY <2>2
  <2>4. PICK k \in 1 .. Len(s) : s[k] = Put(x + p, y + q, IF <<p, q>> \in Glyph[c] THEN TEXT ELSE BACK)
    BY <1>3
  <2>5. s[k].op = "set" /\ s[k].x = cursor.x + i /\ s[k].y = cursor.y
    BY <1>4, <2>3, <2>4
  <2>6. k \in 1 .. Len(todo') /\ todo'[k] = s[k]
    BY <1>5, SplicedCases
  <2> QED BY <2>5, <2>6 DEF Due
<1>12. Blanked'
  <2>1. \A i \in Bars : Due(todo', {"set", "store"}, cursor.x + i, cursor.y)
    BY <1>11 DEF Due
  <2> QED BY <1>2, <1>11, <2>1 DEF Blanked
<1>13. Cleared' /\ Copied'
  BY <1>9 DEF Cleared, Copied
<1> QED BY <1>7, <1>10, <1>12, <1>13 DEF Content

(* A pixel that is set to the line's is read last in the line of its own,  *)
(* at the window that is left.                                             *)
LEMMA PasteRead ==
  ASSUME NEW v \in Nat, NEW line, NEW k \in 2 .. Len(ResetWindow(v)), ResetWindow(v)[k].op = "paste"
  PROVE  LET s == ResetWindow(v) IN ReadLast(s, line, k, s[k].x, s[k].y + v)
<1> DEFINE s == ResetWindow(v)
           w == 2 * WIDTH
           h == HEIGHT - FONT_H
           r == (k - 2) % w
           d == (k - 2) \div w
           y == FONT_H + d
           j == k - WIDTH
<1>1. /\ Len(s) \in Nat /\ w \in Nat \ {0} /\ h \in Nat /\ WIDTH \in Nat \ {0} /\ FONT_H \in Nat
      /\ \A q \in 2 .. Len(s) : /\ (q - 2) % w \in 0 .. w - 1 /\ (q - 2) \div w \in 0 .. h - 1
                                /\ s[q] = CopyLine((q - 2) % w, FONT_H + ((q - 2) \div w), v)
  <2>1. IsSeq(s)
    BY ResetOps
  <2> QED BY <2>1, ResetOps, Sizes, SeqLen
<1> DEFINE n == WIDTH
<1>0. w = 2 * n /\ n \in Nat \ {0} /\ w \in Nat \ {0} /\ h \in Nat /\ WIDTH = n /\ j = k - n
  BY <1>1
<1> HIDE DEF n, w, h, j
<1>2. k \in Nat /\ k >= 2 /\ k - 2 \in Nat
  BY <1>1
<1>3. /\ r \in 0 .. w - 1 /\ d \in 0 .. h - 1 /\ d \in Nat /\ k - 2 = d * w + r /\ s[k] = CopyLine(r, y, v)
      /\ y \in Nat /\ d * w \in Nat /\ r \in Nat
  <2>1. r \in 0 .. w - 1 /\ d \in 0 .. h - 1 /\ s[k] = CopyLine(r, y, v)
    BY <1>1
  <2>2. k - 2 = d * w + r
    BY <1>0, <1>2, DivMod
  <2> HIDE DEF r, d
  <2>3. d \in Nat /\ r \in Nat /\ y \in Nat
    BY <1>0, <1>1, <2>1
  <2>4. d * w \in Nat
    BY <1>0, <2>3
  <2> QED BY <2>1, <2>2, <2>3, <2>4
<1> HIDE DEF r, d
<1>4. ~(r < WIDTH) /\ s[k].x = r - WIDTH /\ s[k].y = y
  <2>1. s[k].op = "paste"
    OBVIOUS
  <2> HIDE DEF s, r, y
  <2>2. CASE r < WIDTH
    BY <1>3, <2>1, <2>2 DEF CopyLine, Op
  <2> QED BY <1>3, <2>2 DEF CopyLine, Op
<1> DEFINE x == r - WIDTH
<1>5. x \in 0 .. WIDTH - 1 /\ x \in 0 .. n - 1 /\ x = r - n /\ k - 2 = d * w + r
  <2> HIDE DEF x
  <2>1. x = r - n /\ ~(r < n)
    BY <1>0, <1>4 DEF x
  <2>2. x \in 0 .. n - 1
    BY <1>0, <1>3, <2>1
  <2> QED BY <1>0, <1>3, <2>1, <2>2
<1>6. j \in 2 .. k - 1 /\ j - 2 = d * w + x
  <2> DEFINE e == d * w
  <2>1. k - 2 = e + r /\ e \in Nat /\ r \in Nat /\ ~(r < n) /\ x = r - n
    BY <1>0, <1>3, <1>4
  <2> HIDE DEF e, x
  <2>2. j \in 2 .. k - 1 /\ j - 2 = e + x
    BY <1>0, <1>2, <2>1
  <2> QED BY <2>2 DEF e
<1> HIDE DEF s, y, x
(* The operations of line d from the copy of column x on.                  *)
<1>7. ASSUME NEW m \in j .. k - 1
      PROVE  m \in 2 .. Len(s) /\ s[m] = CopyLine(x + (m - j), y, v)
  <2> DEFINE p == x + (m - j)
  <2>1. m \in 2 .. Len(s) /\ p \in 0 .. w - 1
    <3>1. k = j + n /\ x \in 0 .. n - 1 /\ j \in Int /\ j >= 2
      BY <1>0, <1>2, <1>5, <1>6
    <3>2. m \in Int /\ m >= j /\ m <= k - 1
      BY <1>0, <1>2, <3>1
    <3>3. m \in 2 .. Len(s)
      <4>1. k \in Int /\ k <= Len(s) /\ Len(s) \in Nat
        BY <1>1 DEF s
      <4> QED BY <3>1, <3>2, <4>1
    <3>4. m - j \in 0 .. n - 1 /\ x \in 0 .. n - 1
      BY <1>0, <3>1, <3>2
    <3>5. p \in 0 .. w - 1
      BY <1>0, <3>4
    <3> QED BY <3>3, <3>5
  <2> DEFINE e == d * w
  <2>2. m - 2 = e + p
    <3>1. e \in Nat
      BY <1>1, <1>3
    <3> HIDE DEF e
    <3>2. j - 2 = e + x
      BY <1>6 DEF e
    <3> QED BY <1>5, <1>6, <3>1, <3>2
  <2> HIDE DEF p
  <2>3. (m - 2) % w = p /\ (m - 2) \div w = d
    <3>1. (d * w + p) % w = p /\ (d * w + p) \div w = d
      BY <1>0, <1>3, <2>1, DivModUnique
    <3>2. m - 2 = d * w + p
      BY <2>2
    <3> HIDE DEF e
    <3> QED BY <3>1, <3>2
  <2>4. s[m] = CopyLine(p, FONT_H + d, v)
    BY <1>1, <2>1, <2>3
  <2> QED BY <2>1, <2>4 DEF p, y
<1>8. Reads(s[j], x) /\ s[j].y = y + v /\ j \in 1 .. k - 1
  <2>1. j \in j .. k - 1 /\ x + (j - j) = x /\ j \in 1 .. k - 1
    BY <1>5, <1>6
  <2>2. s[j] = CopyLine(x, y, v)
    BY <1>7, <2>1
  <2>3. s[j] = Op("copy", x, y + v, 0)
    BY <1>1, <1>5, <2>2 DEF CopyLine
  <2> QED BY <2>1, <2>3 DEF Reads, Op
<1>9. Unread(s, j, k, x)
  <2>1. ASSUME NEW m \in j + 1 .. k - 1
        PROVE  ~Reads(s[m], x)
    <3> DEFINE p == x + (m - j)
    <3>1. m \in j .. k - 1 /\ p # x
      BY <1>5, <1>6
    <3>2. s[m] = CopyLine(p, y, v)
      BY <1>7, <3>1
    <3> HIDE DEF p
    <3>3. s[m] = Op("copy", p, y + v, 0) \/ s[m] = Op("paste", p - WIDTH, y, 0)
      BY <3>2 DEF CopyLine
    <3> QED BY <3>1, <3>3 DEF Reads, Op
  <2> QED BY <2>1 DEF Unread
<1>10. ReadLast(s, line, k, x, y + v)
  BY <1>8, <1>9 DEF ReadLast
<1>11. s[k].x = x /\ s[k].y = y
  BY <1>4 DEF x
<1> QED BY <1>10, <1>11 DEF s

(* On the last row the bar is in the last line, or nearly so.              *)
LEMMA LastRow ==
  ASSUME Form, cursor.row = ROWS - 1
  PROVE  cursor.y + FONT_H >= HEIGHT /\ cursor.y + FONT_H <= HEIGHT + FONT_H - 1
<1>1. ROWS \in Nat /\ FONT_H \in Nat \ {0} /\ HEIGHT \in Nat /\ cursor.row + 1 = ROWS
      /\ cursor.y \in Nat /\ cursor.y < HEIGHT
  BY ScreenAssumption, Sizes, PlaceTypes
<1>2. (cursor.row + 1) * FONT_H = HEIGHT
  BY <1>1 DEF HEIGHT
<1>3. CASE Moved
  BY <1>1, <1>2, <1>3 DEF Moved
<1>4. CASE InCorner
  <2>1. ROWS = 1 /\ cursor.y = 0
    BY <1>1, <1>4 DEF InCorner
  <2> QED BY <1>1, <2>1 DEF HEIGHT
<1> QED BY <1>3, <1>4 DEF Form, VTypes

(* The line that scrolls in is blank, and so is what is left of the bar:   *)
(* the character before has been drawn over it.                            *)
LEMMA FeedContent ==
  ASSUME Banked, Form, Content, Len(todo) = 1, todo[1].op = "after", todo[1].c = NL, ~Full, cursor.row = ROWS - 1,
         UNCHANGED <<mem, video_window_y, cursor, scline>>, todo' = LineFeed(Reset)
  PROVE  Content'
<1> DEFINE u == todo'
           R == Reset
           m == Len(R)
           b == Len(Blanks)
           v == video_window_y
           w == 2 * WIDTH
           f == Op("fast", 0, ROWS - 1, 0)
<1>1. HEIGHT \in Nat /\ FONT_H \in Nat /\ v \in Nat /\ v \in 0 .. 2 * HEIGHT + FONT_H /\ WIDTH \in Nat
      /\ cursor.y \in Nat /\ cursor.shown \in BOOLEAN
  BY Sizes, PlaceTypes DEF Form, VTypes
<1>2. /\ IsSeq(R) /\ m \in Nat /\ (~(v > 2 * HEIGHT) => m = 0)
      /\ v > 2 * HEIGHT => R = ResetWindow(v)
  <2>1. IsSeq(R) /\ (v > 2 * HEIGHT => R = ResetWindow(v)) /\ (~(v > 2 * HEIGHT) => R = <<>>)
    BY BarOps, PlainReset DEF Reset, Plains
  <2> HIDE DEF R
  <2>2. Len(<<>>) = 0 /\ m \in Nat
    BY <2>1, SeqLen
  <2> QED BY <2>1, <2>2
<1>3. /\ IsSeq(u) /\ b \in Nat /\ Len(u) = m + b + 2
      /\ \A k \in 1 .. Len(u) : \/ k \in 1 .. m /\ u[k] = R[k]
                                \/ k - m \in 1 .. b /\ u[k] = Blanks[k - m]
                                \/ k = Len(u) - 1 /\ u[k] = Do("scroll")
                                \/ k = Len(u) /\ u[k] = f
      /\ u[Len(u) - 1] = Do("scroll") /\ u[Len(u)] = f
      /\ \A k \in 1 .. m : u[k] = R[k]
      /\ \A k \in 1 .. b : u[m + k] = Blanks[k]
  <2>1. u = LineFeed(R) /\ IsSeq(R)
    BY <1>2
  <2> HIDE DEF u, R
  <2> QED BY <2>1, ScrollOps
<1>4. f.op = "fast" /\ Do("scroll").op = "scroll"
  BY DEF Do, Op
<1>5. ASSUME NEW k \in 1 .. b
      PROVE  Blanks[k].op = "set"
  <2>1. PICK i \in Columns, j \in 0 .. FONT_H - 1 : Blanks[k] = Put(i, HEIGHT + j, BACK)
    BY BlankOps
  <2> QED BY <2>1 DEF Put, Op
<1>6. ASSUME NEW k \in 1 .. m
      PROVE  /\ k = 1 => R[k].op = "window"
             /\ k # 1 => R[k].op = "paste" \/ (R[k].op = "copy" /\ R[k].y >= v)
  <2>1. R = ResetWindow(v)
    BY <1>2
  <2>2. /\ R[1] = Op("window", 0, 0, 0)
        /\ k \in 2 .. m => /\ (k - 2) % w \in 0 .. w - 1 /\ (k - 2) \div w \in 0 .. (HEIGHT - FONT_H) - 1
                           /\ R[k] = CopyLine((k - 2) % w, FONT_H + ((k - 2) \div w), v)
    BY <2>1, ResetOps
  <2> HIDE DEF R, v, m
  <2>3. CASE k = 1
    BY <2>2, <2>3 DEF Op
  <2>4. CASE k # 1
    <3>1. k \in 2 .. m
      BY <1>2, <2>4
    <3>2. PICK i \in 0 .. w - 1, j \in 0 .. (HEIGHT - FONT_H) - 1 : R[k] = CopyLine(i, FONT_H + j, v)
      BY <2>2, <3>1
    <3> DEFINE y == FONT_H + j + v
    <3>3. y >= v
      BY <1>1, <3>2
    <3> HIDE DEF y
    <3>4. R[k] = Op("copy", i, y, 0) \/ R[k] = Op("paste", i - WIDTH, FONT_H + j, 0)
      BY <3>2 DEF CopyLine, y
    <3>5. Op("copy", i, y, 0).op = "copy" /\ Op("copy", i, y, 0).y = y /\ Op("paste", i - WIDTH, FONT_H + j, 0).op = "paste"
      BY DEF Op
    <3> QED BY <2>4, <3>3, <3>4, <3>5
  <2> QED BY <2>3, <2>4
<1>7. ASSUME NEW i \in Bars, cursor.shown
      PROVE  cursor.buff[i] = BACK /\ mem[BarAt(i)] = BACK
  <2>1. Emitting(todo)
    BY DEF Emitting, Has
  <2>2. \A kinds \in SUBSET {"set", "store"} : ~Due(todo, kinds, cursor.x + i, cursor.y)
    BY DEF Due
  <2>3. {"set"} \in SUBSET {"set", "store"} /\ {"set", "store"} \in SUBSET {"set", "store"}
    OBVIOUS
  <2>4. todo[Len(todo)].c = NL
    OBVIOUS
  <2> QED BY <1>7, <2>1, <2>2, <2>3, <2>4 DEF Content, Blanked
<1> HIDE DEF m, b, v, w, f, R
<1>8. \A k \in 1 .. Len(u) : \/ k \in 1 .. m /\ u[k] = R[k] /\ u[k].op \in {"window", "copy", "paste"}
                                /\ (u[k].op = "copy" => u[k].y >= v) /\ (u[k].op = "paste" => k # 1)
                             \/ u[k].op \in {"set", "scroll", "fast"}
  BY <1>3, <1>4, <1>5, <1>6
<1>9. Agreed'
  BY <1>8 DEF Agreed
<1>10. Kept'
  <2>1. Len(u) - 1 \in 1 .. Len(u)
    BY <1>2, <1>3
  <2>2. Scrolling(todo')
    BY <1>3, <1>4, <2>1 DEF Scrolling, Has
  <2> QED BY <2>2 DEF Kept
<1>11. Blanked'
  <2>1. ~Emitting(todo')
    BY <1>3, <1>4 DEF Emitting
  <2> QED BY <2>1 DEF Blanked
<1>12. Cleared'
  <2>1. SUFFICES ASSUME cursor'.shown, NEW i \in Bars
                 PROVE  (/\ cursor.buff[i] = BACK
                         /\ \/ Due(todo, {"set", "store"}, cursor.x + i, cursor.y + FONT_H)
                            \/ todo[1].op # "window" /\ mem[Below(i)] = BACK)'
    BY DEF Cleared
  <2> DEFINE a == cursor.x + i
             e == cursor.y + FONT_H
  <2>2. cursor'.buff[i] = BACK
    BY <1>7, <2>1
  <2>3. a' = a /\ e' = e
    OBVIOUS
  <2>4. a \in Columns
    BY BarCell
  <2>5. e - HEIGHT \in 0 .. FONT_H - 1 /\ HEIGHT + (e - HEIGHT) = e
    <3>1. e >= HEIGHT /\ e <= HEIGHT + FONT_H - 1
      BY LastRow
    <3>2. e \in Int
      BY <1>1
    <3> HIDE DEF e
    <3> QED BY <1>1, <3>1, <3>2
  <2> HIDE DEF a, e
  <2>6. PICK k \in 1 .. b : Blanks[k] = Put(a, e, BACK)
    BY <2>4, <2>5, BlankOps DEF b
  <2>7. m + k \in 1 .. Len(u) /\ u[m + k] = Put(a, e, BACK)
    BY <1>2, <1>3, <2>6
  <2>8. Due(u, {"set", "store"}, a, e)
    BY <2>7 DEF Due, Put, Op
  <2>9. cursor'.buff[i] = BACK /\ Due(u, {"set", "store"}, a', e')
    BY <2>2, <2>3, <2>8
  <2> QED BY <2>9 DEF a, e
<1>13. Copied'
  <2> SUFFICES ASSUME cursor'.shown, Has(todo', {"window", "paste"})
               PROVE  Copying(v)'
    BY <1>1 DEF Copied, v
  <2>1. v > 2 * HEIGHT
    <3>1. PICK k \in 1 .. Len(u) : u[k].op \in {"window", "paste"}
      BY DEF Has
    <3>2. k \in 1 .. m
      BY <1>8, <3>1
    <3> QED BY <1>2, <3>2 DEF v
  <2>2. R = ResetWindow(v) /\ v \in Nat /\ v = video_window_y
    BY <1>1, <1>2, <2>1 DEF v
  <2>3. ASSUME NEW i \in Bars
        PROVE  mem[cursor.x + i + WIDTH * (cursor.y + v)] = BACK
    <3>1. mem[BarAt(i)] = BACK
      BY <1>7
    <3>2. BarAt(i) = cursor.x + i + WIDTH * (cursor.y + v)
      BY <2>2, BarCell
    <3> QED BY <3>1, <3>2
  <2>4. ASSUME NEW k \in 1 .. Len(u), u[k].op = "paste", NEW line
        PROVE  ReadLast(u, line, k, u[k].x, u[k].y + v)
    <3>1. k \in 1 .. m /\ u[k] = R[k] /\ k # 1
      BY <1>8, <2>4
    <3>2. k \in 2 .. Len(R) /\ R[k].op = "paste"
      BY <1>2, <2>4, <3>1 DEF m
    <3> DEFINE x == R[k].x
               y == R[k].y + v
    <3>3. ReadLast(R, line, k, x, y)
      BY <2>2, <3>2, PasteRead
    <3> HIDE DEF x, y
    <3>4. \A q \in 1 .. k - 1 : u[q] = R[q]
      BY <1>2, <1>3, <3>1
    <3>5. \A j \in 0 .. k - 1 : Unread(R, j, k, x) => Unread(u, j, k, x)
      BY <3>1, <3>4 DEF Unread
    <3>6. ReadLast(u, line, k, x, y)
      BY <3>1, <3>3, <3>4, <3>5 DEF ReadLast
    <3> QED BY <3>1, <3>6 DEF x, y
  <2>5. ASSUME NEW i \in Bars, NEW k \in 1 .. Len(u), u[k].op = "paste", u[k].x = cursor.x + i, u[k].y = cursor.y
        PROVE  ReadLast(u, scline, k, cursor.x + i, cursor.y + v)
    BY <2>4, <2>5
  <2>6. v' = v /\ video_window_y' = v
    BY <2>2 DEF v
  <2>7. \A k \in 1 .. Len(u) : u[k].op \in {"copy", "fetch"} => u[k].y >= v
    BY <1>8
  <2> HIDE DEF u
  <2> QED BY <2>1, <2>3, <2>5, <2>6, <2>7 DEF Copying, u
<1> QED BY <1>9, <1>10, <1>11, <1>12, <1>13 DEF Content

LEMMA AfterContent ==
  ASSUME Banked, Form, Content, Expand, Now("after")
  PROVE  Content'
<1> DEFINE c == todo[1].c
           s == update_cursor_after_char(c)
<1>1. /\ Len(todo) = 1 /\ todo[1].op = "after" /\ Arg = todo[1]
      /\ \A r : IsSeq(r) /\ todo' = r \o Rest => todo' = r
  BY FinalHead DEF Final
<1>2. UNCHANGED <<mem, video_window_y, cursor, scline>> /\ todo' = s \o Rest
  BY <1>1 DEF Expand, Continue, Now
<1>3. ~Full
  <2>1. Ordered(todo, 1)
    BY HeadFits
  <2> QED BY <1>1, <2>1 DEF Ordered, Behind
<1>4. todo' = s /\ Spliced(todo, s, todo')
  <2>1. IsSeq(s)
    BY PlainAfter DEF Plains
  <2> QED BY <1>1, <1>2, <2>1, TodoHead
<1>5. CASE c = NL /\ cursor.row = ROWS - 1 /\ s = LineFeed(Reset)
  <2> HIDE DEF s
  <2> QED BY <1>1, <1>2, <1>3, <1>4, <1>5, FeedContent
<1>6. CASE \E x \in 0 .. COLS, y \in 0 .. ROWS - 1 : s = <<Op("fast", x, y, 0)>>
  <2>1. PICK x \in 0 .. COLS, y \in 0 .. ROWS - 1 : s = <<Op("fast", x, y, 0)>>
    BY <1>6
  <2> HIDE DEF s
  <2>2. Len(s) = 1 /\ s[1].op = "fast"
    <3> DEFINE f == Op("fast", x, y, 0)
    <3>1. f.op = "fast"
      BY DEF Op
    <3> HIDE DEF f
    <3>2. s = <<f>>
      BY <2>1 DEF f
    <3> QED BY <3>1, <3>2
  <2>3. Len(todo') = 1 /\ todo'[1].op = "fast"
    BY <1>4, <2>2
  <2>4. \A kinds : "fast" \notin kinds => ~Has(todo', kinds)
    BY <2>3 DEF Has
  <2>5. ~Scrolling(todo') /\ ~Emitting(todo')
    BY <2>3, <2>4 DEF Scrolling, Emitting
  <2>6. Agreed'
    BY <2>3 DEF Agreed
  <2>7. Kept'
    BY <1>1, <1>2, <1>4, <2>4, KeptNext DEF Content
  <2> QED BY <2>5, <2>6, <2>7 DEF Content, Blanked, Cleared, Copied
<1> QED BY <1>3, <1>5, <1>6, AfterLeads

LEMMA ExpandContent ==
  ASSUME Banked, Form, Content, Expand
  PROVE  Content'
BY GlyphContent, AfterContent, ClearContent DEF Expand

-----------------------------------------------------------------------------
(* The calls, the interrupt and the first state.                           *)

(* A call begins with what is below the bar as the last one has left it.   *)
LEMMA FreshContent ==
  ASSUME Content, todo = <<>>, UNCHANGED <<mem, video_window_y, cursor, scline>>,
         \A k \in 1 .. Len(todo') : todo'[k].op \notin {"scroll", "store", "shown"}, ~Emitting(todo')
  PROVE  Content'
<1>1. Len(todo) = 0
  OBVIOUS
<1>2. \A kinds : ~Has(todo, kinds)
  BY <1>1 DEF Has
<1>3. ~Scrolling(todo') /\ ~Scrolling(todo) /\ ~Has(todo', {"shown"})
  BY <1>2 DEF Scrolling, Has
<1>4. Agreed'
  BY DEF Agreed
<1>5. Kept'
  <2> SUFFICES ASSUME cursor.shown, cursor.blink = 0, NEW i \in Bars
               PROVE  Held(i)'
    BY <1>3 DEF Kept
  <2>1. ~Awaited(i)
    BY <1>1 DEF Awaited
  <2>2. Held(i)
    BY <1>3, <2>1 DEF Content, Kept
  <2> QED BY <2>2 DEF Held, BarAt
<1> QED BY <1>3, <1>4, <1>5 DEF Content, Blanked, Cleared, Copied

LEMMA CallContent ==
  ASSUME Content, VideoCall
  PROVE  Content'
<1>1. ASSUME NEW ops, Call(ops)
      PROVE  todo' = ops /\ todo = <<>> /\ UNCHANGED <<mem, video_window_y, cursor, scline>>
  BY <1>1 DEF Call
<1>2. ASSUME NEW o, Call(<<o>>), o.op \notin {"scroll", "store", "shown", "after"}
      PROVE  Content'
  <2>1. Len(<<o>>) = 1 /\ <<o>>[1] = o
    OBVIOUS
  <2>2. todo' = <<o>> /\ todo = <<>> /\ UNCHANGED <<mem, video_window_y, cursor, scline>>
    BY <1>1, <1>2
  <2>3. Len(todo') = 1 /\ todo'[1] = o
    BY <2>1, <2>2
  <2>4. ~Emitting(todo')
    BY <1>2, <2>3 DEF Emitting
  <2> QED BY <1>2, <2>2, <2>3, <2>4, FreshContent
<1>3. CASE CallOutChar
  <2>1. PICK c : Call(<<Op("glyph", 0, 0, c), Op("after", 0, 0, c)>>)
    BY <1>3 DEF CallOutChar
  <2> DEFINE g == Op("glyph", 0, 0, c)
             a == Op("after", 0, 0, c)
  <2>2. g.op = "glyph" /\ a.op = "after"
    BY DEF Op
  <2>3. Call(<<g, a>>)
    BY <2>1
  <2> HIDE DEF g, a
  <2>4. Len(<<g, a>>) = 2 /\ <<g, a>>[1] = g /\ <<g, a>>[2] = a
    OBVIOUS
  <2>5. todo' = <<g, a>> /\ todo = <<>> /\ UNCHANGED <<mem, video_window_y, cursor, scline>>
    BY <1>1, <2>3
  <2>6. Len(todo') = 2 /\ todo'[1].op = "glyph" /\ todo'[2].op = "after"
    BY <2>2, <2>4, <2>5
  <2>7. ~Emitting(todo')
    BY <2>6 DEF Emitting, Has
  <2> QED BY <2>5, <2>6, <2>7, FreshContent
<1>4. CASE CallOutCharAttr
  <2>1. PICK c, at : Call(<<Op("goto", at[1], at[2], 0), Op("glyph", 0, 0, c), Op("after", 0, 0, c)>>)
    BY <1>4 DEF CallOutCharAttr
  <2> DEFINE o == Op("goto", at[1], at[2], 0)
             g == Op("glyph", 0, 0, c)
             a == Op("after", 0, 0, c)
  <2>2. o.op = "goto" /\ g.op = "glyph" /\ a.op = "after"
    BY DEF Op
  <2>3. Call(<<o, g, a>>)
    BY <2>1
  <2> HIDE DEF o, g, a
  <2>4. Len(<<o, g, a>>) = 3 /\ <<o, g, a>>[1] = o /\ <<o, g, a>>[2] = g /\ <<o, g, a>>[3] = a
    OBVIOUS
  <2>5. todo' = <<o, g, a>> /\ todo = <<>> /\ UNCHANGED <<mem, video_window_y, cursor, scline>>
    BY <1>1, <2>3
  <2>6. Len(todo') = 3 /\ todo'[1].op = "goto" /\ todo'[2].op = "glyph" /\ todo'[3].op = "after"
    BY <2>2, <2>4, <2>5
  <2>7. ~Emitting(todo')
    BY <2>6 DEF Emitting, Has
  <2> QED BY <2>5, <2>6, <2>7, FreshContent
<1>5. ASSUME NEW op \in {"set", "draw", "goto", "show", "hide", "mode"}, NEW x, NEW y, NEW c, Call(<<Op(op, x, y, c)>>)
      PROVE  Content'
  <2> DEFINE o == Op(op, x, y, c)
  <2>1. o.op = op
    BY DEF Op
  <2>2. Call(<<o>>)
    BY <1>5
  <2> HIDE DEF o
  <2> QED BY <1>2, <2>1, <2>2
<1>6. CASE CallSetPixel
  BY <1>5, <1>6 DEF CallSetPixel, Put
<1>7. CASE CallDrawChar
  BY <1>5, <1>7 DEF CallDrawChar
<1>8. CASE CallClear
  <2> DEFINE s == video_clear_screen
  <2>1. todo' = s /\ todo = <<>> /\ UNCHANGED <<mem, video_window_y, cursor, scline>>
    BY <1>1, <1>8 DEF CallClear
  <2>2. /\ Len(s) \in Nat /\ Len(s) >= 3
        /\ \A k \in 1 .. Len(s) :
             \/ k = 1 /\ s[k] = Do("hide")
             \/ k = 2 /\ s[k] = Op("window", 0, 0, 0)
             \/ k > 2 /\ \E i \in Columns, j \in 0 .. HEIGHT - 1 : s[k] = Put(i, j, BACK)
             \/ k > 2 /\ s[k] = Op("goto", 0, 0, 0)
             \/ k = Len(s) /\ s[k] = Do("show")
    BY ClearOps
  <2> HIDE DEF s
  <2>3. \A k \in 1 .. Len(s) : s[k].op \in {"hide", "window", "set", "goto", "show"}
    <3>1. /\ Do("hide").op = "hide" /\ Op("window", 0, 0, 0).op = "window" /\ Op("goto", 0, 0, 0).op = "goto"
          /\ Do("show").op = "show" /\ \A i, j : Put(i, j, BACK).op = "set"
      BY DEF Do, Op, Put
    <3> QED BY <2>2, <3>1
  <2>4. ~Emitting(todo')
    BY <2>1, <2>2, <2>3 DEF Emitting
  <2> QED BY <2>1, <2>3, <2>4, FreshContent
<1>9. CASE CallSetCursor
  BY <1>5, <1>9 DEF CallSetCursor
<1>10. CASE CallShow
  BY <1>5, <1>10 DEF CallShow, Do
<1>11. CASE CallSetMode
  BY <1>5, <1>11 DEF CallSetMode, Do
<1> QED BY <1>3, <1>4, <1>6, <1>7, <1>8, <1>9, <1>10, <1>11 DEF VideoCall

(* The handler changes the pixels of the bar only.  The bar does not       *)
(* appear behind the character that has been drawn, and what is below it   *)
(* is restored as it disappears.                                           *)
LEMMA BlinkContent ==
  ASSUME {"bank", "trail"} \subseteq VideoCalm, Banked, Form, Content, Blink
  PROVE  Content'
<1>1. BlinkStep
  BY BlinkPixels
<1>2. /\ \A i : BarAt(i)' = BarAt(i) /\ Below(i)' = Below(i) /\ cursor'.buff[i] = cursor.buff[i]
      /\ todo' = todo /\ scline' = scline /\ cursor'.x = cursor.x /\ cursor'.y = cursor.y
      /\ cursor.shown /\ cursor'.shown /\ video_window_y' = video_window_y
      /\ cursor.blink \in {0, 1} /\ cursor'.blink = 1 - cursor.blink
      /\ IsSeq(todo)
  <2>1. cursor.blink \in {0, 1} /\ IsSeq(todo)
    BY PlaceTypes DEF Banked, Order
  <2> QED BY <1>1, <2>1 DEF BlinkStep, BarAt, Below
<1>3. cursor.blink = 1 => \A i \in Bars : mem'[BarAt(i)] = cursor.buff[i]
  BY <1>1 DEF BlinkStep
<1>4. ASSUME cursor.blink = 0, Len(todo) \in Nat \ {0}, todo[Len(todo)].op \in {"after", "fast"}, ~Has(todo, {"glyph"}),
             NEW i \in Bars
      PROVE  Due(todo, {"set", "store"}, cursor.x + i, cursor.y)
  <2>1. DOMAIN todo = 1 .. Len(todo) /\ Len(todo) \in DOMAIN todo
    BY <1>2, <1>4 DEF IsSeq
  <2>2. Pending({"after", "fast"}) /\ ~Pending({"glyph"})
    BY <1>4, <2>1 DEF Pending, Has
  <2>3. ~InWindow("trail")
    BY DEF Blink, BlinkWindows
  <2>4. BarPending
    BY <1>2, <1>4, <2>2, <2>3 DEF InWindow
  <2>5. Drawing(cursor.x + i, cursor.y)
    BY <2>2, <2>4 DEF BarPending, Bars
  <2> DEFINE a == cursor.x + i
  <2>6. PICK k \in 1 .. Len(todo) : todo[k].op \in {"set", "store"} /\ <<todo[k].x, todo[k].y>> = <<a, cursor.y>>
    BY <2>1, <2>5 DEF Drawing
  <2> HIDE DEF a
  <2>7. todo[k].x = a /\ todo[k].y = cursor.y
    BY <2>6
  <2>8. Due(todo, {"set", "store"}, a, cursor.y)
    BY <2>6, <2>7 DEF Due
  <2> QED BY <2>8 DEF a
<1>5. Agreed'
  <2>1. \A k : At(todo[k])' = At(todo[k])
    BY <1>2 DEF At
  <2> QED BY <1>2, <2>1 DEF Content, Agreed
<1>6. Kept'
  BY <1>2, <1>3 DEF Kept, Held
<1>7. Blanked'
  <2> SUFFICES ASSUME Emitting(todo), todo[Len(todo)].c = NL, NEW i \in Bars
               PROVE  (/\ cursor.buff[i] = BACK \/ Due(todo, {"set"}, cursor.x + i, cursor.y)
                       /\ mem[BarAt(i)] = BACK \/ Due(todo, {"set", "store"}, cursor.x + i, cursor.y))'
    BY <1>2 DEF Blanked
  <2> DEFINE a == cursor.x + i
             d == Due(todo, {"set"}, a, cursor.y)
             e == Due(todo, {"set", "store"}, a, cursor.y)
  <2>1. cursor.buff[i] = BACK \/ d
    BY <1>2 DEF Content, Blanked
  <2>2. d => e
    BY DEF Due
  <2>3. a' = a /\ d' = d /\ e' = e
    BY <1>2 DEF Due
  <2>4. cursor.blink = 0 => e
    <3>1. Len(todo) \in Nat \ {0}
      BY <1>2, SeqLen DEF Emitting
    <3> QED BY <1>4, <3>1 DEF Emitting
  <2> HIDE DEF a, d, e
  <2>5. mem'[BarAt(i)] = BACK \/ e
    BY <1>2, <1>3, <2>1, <2>2, <2>4
  <2>6. (cursor.buff[i] = BACK)' \/ d'
    BY <1>2, <2>1, <2>3
  <2>7. (mem[BarAt(i)] = BACK)' \/ e'
    BY <1>2, <2>3, <2>5
  <2> QED BY <2>6, <2>7 DEF a, d, e
<1>8. ASSUME Scrolling(todo)
      PROVE  ~Full /\ Len(todo) \in Nat \ {0} /\ todo[Len(todo)].op = "fast" /\ ~Has(todo, {"glyph"})
  <2>1. Len(todo) \in Nat \ {0}
    BY <1>2, <1>8, SeqLen DEF Scrolling, Has
  <2>2. ~Full /\ Len(todo) >= 2 /\ todo[Len(todo)].op = "fast" /\ todo[Len(todo) - 1].op = "scroll"
    BY <1>8, <2>1, ScrollFacts
  <2>3. ASSUME NEW k \in 1 .. Len(todo)
        PROVE  todo[k].op # "glyph"
    <3>1. k = Len(todo) \/ k = Len(todo) - 1 \/ k \in 1 .. Len(todo) - 2
      BY <2>1
    <3>2. k \in 1 .. Len(todo) - 2 => todo[k].op # "glyph"
      BY <1>8 DEF Form, Scrolled, Banking
    <3> QED BY <2>2, <3>1, <3>2
  <2> QED BY <2>1, <2>2, <2>3 DEF Has
<1>9. WIDTH \in Nat \ {0} /\ HEIGHT \in Nat /\ FONT_H \in Nat \ {0} /\ cursor.y \in Nat /\ cursor.y < HEIGHT
      /\ video_window_y \in Nat /\ 0 \in Bars
  BY Sizes, PlaceTypes DEF Bars
(* A pixel of another row is not the bar's.                                *)
<1>10. ASSUME ~Full, NEW i \in Bars, NEW r \in Nat, r # cursor.y + video_window_y, r <= 3 * HEIGHT + FONT_H - 1
       PROVE  mem'[cursor.x + i + WIDTH * r] = mem[cursor.x + i + WIDTH * r]
  <2> DEFINE a == cursor.x + i
             z == a + WIDTH * r
             q == cursor.y + video_window_y
  <2>1. a \in Columns /\ a \in Nat /\ a < 2 * WIDTH
    BY <1>10, BarCell
  <2>2. q \in Nat
    BY <1>9
  <2> HIDE DEF a
  <2>3. z \in DOMAIN mem
    <3>1. z \in 0 .. BANK * BANKS - 1
      BY <1>10, <2>1, CellIn
    <3> QED BY <3>1 DEF Form, VTypes
  <2>4. ASSUME NEW j \in Bars
        PROVE  z # BarAt(j)
    <3> DEFINE e == cursor.x + j
    <3>1. e \in Columns /\ BarAt(j) = e + WIDTH * q
      BY <1>10, BarCell
    <3> HIDE DEF e, q
    <3> QED BY <1>10, <2>1, <2>2, <3>1, SameRow DEF q
  <2> HIDE DEF z
  <2>5. mem'[z] = mem[z]
    BY <1>1, <2>3, <2>4 DEF BlinkStep
  <2> QED BY <2>5 DEF z, a
<1>11. Cleared'
  <2> SUFFICES ASSUME Scrolling(todo), NEW i \in Bars
               PROVE  (/\ cursor.buff[i] = BACK
                       /\ \/ Due(todo, {"set", "store"}, cursor.x + i, cursor.y + FONT_H)
                          \/ todo[1].op # "window" /\ mem[Below(i)] = BACK)'
    BY <1>2 DEF Cleared
  <2> DEFINE a == cursor.x + i
             b == cursor.y + FONT_H
             e == Due(todo, {"set", "store"}, a, b)
  <2>1. cursor.buff[i] = BACK /\ (e \/ (todo[1].op # "window" /\ mem[Below(i)] = BACK))
    BY <1>2 DEF Content, Cleared
  <2>2. e' = e
    BY <1>2 DEF Due
  <2>3. todo[1].op # "window" => mem'[Below(i)] = mem[Below(i)]
    <3> SUFFICES ASSUME todo[1].op # "window"
                 PROVE  mem'[Below(i)] = mem[Below(i)]
      OBVIOUS
    <3> DEFINE r == cursor.y + FONT_H + video_window_y
    <3>1. video_window_y <= 2 * HEIGHT
      BY DEF Form, Scrolled
    <3>2. Below(i) = cursor.x + i + WIDTH * r /\ r \in Nat
      BY <1>8, <3>1, BelowCell
    <3>3. r # cursor.y + video_window_y /\ r <= 3 * HEIGHT + FONT_H - 1
      BY <1>9, <3>1
    <3> HIDE DEF r
    <3> QED BY <1>8, <1>10, <3>2, <3>3
  <2> HIDE DEF a, b, e
  <2>4. cursor'.buff[i] = BACK /\ (e' \/ (todo'[1].op # "window" /\ mem'[Below(i)'] = BACK))
    BY <1>2, <2>1, <2>2, <2>3
  <2> QED BY <2>4 DEF a, b, e
<1>12. Copied'
  <2> SUFFICES ASSUME Scrolling(todo), Has(todo, {"window", "paste"})
               PROVE  (\E v \in 0 .. 2 * HEIGHT + FONT_H : Copying(v))'
    BY <1>2 DEF Copied
  <2>1. PICK v \in 0 .. 2 * HEIGHT + FONT_H : Copying(v)
    BY <1>2 DEF Content, Copied
  <2>2. ASSUME NEW i \in Bars
        PROVE  mem'[cursor.x + i + WIDTH * (cursor.y + v)] = BACK
    <3>1. mem[cursor.x + i + WIDTH * (cursor.y + v)] = BACK
      BY <2>1 DEF Copying
    <3>2. CASE v # video_window_y
      <4> DEFINE r == cursor.y + v
      <4>1. r \in Nat /\ r # cursor.y + video_window_y /\ r <= 3 * HEIGHT + FONT_H - 1
        BY <1>9, <3>2
      <4> HIDE DEF r
      <4>2. mem'[cursor.x + i + WIDTH * r] = mem[cursor.x + i + WIDTH * r]
        BY <1>8, <1>10, <4>1
      <4> QED BY <3>1, <4>2 DEF r
    <3>3. CASE v = video_window_y
      <4>1. cursor.blink = 1
        <5> SUFFICES ASSUME cursor.blink = 0
                     PROVE  FALSE
          BY <1>2
        <5>1. Due(todo, {"set", "store"}, cursor.x + i, cursor.y)
          BY <1>4, <1>8
        <5>2. PICK k \in 1 .. Len(todo) : todo[k].op \in {"set", "store"} /\ todo[k].y = cursor.y
          BY <5>1 DEF Due
        <5>3. todo[1].op = "window"
          BY <1>9, <2>1, <3>3 DEF Copying, Form, Scrolled
        <5>4. todo # <<>> /\ k \in 2 .. Len(todo)
          BY <1>8, <5>2, <5>3
        <5>5. todo[k].op = "set"
          BY <5>2, <5>3, <5>4, RestPlain DEF Accesses, Banking
        <5>6. k \in 1 .. Len(todo) - 2
          <6>1. todo[Len(todo)].op = "fast" /\ todo[Len(todo) - 1].op = "scroll"
            BY <1>8, ScrollFacts
          <6> QED BY <1>8, <5>5, <6>1
        <5>7. todo[k].y >= HEIGHT
          BY <1>9, <5>5, <5>6 DEF Form, Scrolled
        <5> QED BY <1>9, <5>2, <5>7
      <4>2. cursor.buff[i] = BACK
        BY <1>2 DEF Content, Cleared
      <4>3. BarAt(i) = cursor.x + i + WIDTH * (cursor.y + v)
        BY <3>3, BarCell
      <4> QED BY <1>3, <4>1, <4>2, <4>3
    <3> QED BY <3>2, <3>3
  <2>3. Copying(v)'
    BY <1>2, <2>1, <2>2 DEF Copying
  <2> QED BY <2>3
<1> QED BY <1>5, <1>6, <1>7, <1>11, <1>12 DEF Content

LEMMA InitContent == VideoInit => Content
<1> SUFFICES ASSUME NEW w \in Windows0, ConsoleAt(w), Form
             PROVE  Content
  BY InitForm DEF VideoInit
<1>1. todo = <<>> /\ cursor.buff = [i \in Bars |-> BACK] /\ mem = [a \in 0 .. BANK * BANKS - 1 |-> BACK]
  BY DEF ConsoleAt, Bars
<1>2. Len(todo) = 0
  BY <1>1
<1>3. ~Scrolling(todo) /\ ~Emitting(todo)
  BY <1>2 DEF Scrolling, Has, Emitting
<1>4. ASSUME NEW i \in Bars
      PROVE  Held(i)
  <2>1. BarAt(i) \in DOMAIN mem
    BY BarCell
  <2> QED BY <1>1, <2>1 DEF Held
<1> QED BY <1>2, <1>3, <1>4 DEF Content, Agreed, Kept, Blanked, Cleared, Copied

(* The contents are kept.                                                  *)
LEMMA ContentNext ==
  ASSUME {"bank", "trail"} \subseteq VideoCalm, Banked, Form, Content, [VideoNext]_vvars
  PROVE  Content'
<1>1. CASE VideoStep
  BY <1>1, SetPixelContent, GetPixelContent, SelectBankContent, AccessContent, MoveWindowContent, ExpandContent,
     DrawCharContent, MoveCursorContent, ShowCursorContent, SetModeContent DEF VideoStep
<1>2. CASE UNCHANGED vvars
  <2>1. UNCHANGED <<mem, video_window_y, cursor, scline, todo>>
    BY <1>2 DEF vvars
  <2>2. /\ \A i : BarAt(i)' = BarAt(i) /\ Below(i)' = Below(i)
        /\ \A o : At(o)' = At(o)
    BY <2>1 DEF BarAt, Below, At
  <2>3. Agreed'
    BY <2>1, <2>2 DEF Content, Agreed
  <2>4. Kept'
    BY <2>1, <2>2 DEF Content, Kept, Held, Awaited
  <2>5. Blanked' /\ Cleared'
    BY <2>1, <2>2 DEF Content, Blanked, Cleared
  <2>6. Copied'
    BY <2>1 DEF Content, Copied, Copying
  <2> QED BY <2>3, <2>4, <2>5, <2>6 DEF Content
<1> QED BY <1>1, <1>2, CallContent, BlinkContent DEF VideoNext

-----------------------------------------------------------------------------
(* The picture between calls.                                              *)

(* Between calls the pixels saved are those below the bar.                 *)
LEMMA HeldBetween ==
  ASSUME Form, Content, todo = <<>>, cursor.shown, cursor.blink = 0, NEW i \in Bars
  PROVE  Held(i)
<1>1. Len(todo) = 0
  OBVIOUS
<1>2. ~Scrolling(todo) /\ ~Awaited(i)
  BY <1>1 DEF Scrolling, Has, Awaited
<1> QED BY <1>2 DEF Content, Kept

(* A pixel of the screen is that of the bar it is said to be.              *)
LEMMA ScreenCell ==
  ASSUME Form, NEW p \in Screen
  PROVE  /\ Addr(p[1], p[2], video_window_y) \in DOMAIN mem
         /\ \A i \in Bars : BarIndex(cursor, p) = i <=> Addr(p[1], p[2], video_window_y) = BarAt(i)
<1> DEFINE x == p[1]
           y == p[2]
           v == video_window_y
           cx == cursor.x
           cy == cursor.y
<1>1. /\ x \in Nat /\ y \in Nat /\ x < WIDTH /\ y < HEIGHT /\ v \in Nat /\ v <= 2 * HEIGHT + FONT_H
      /\ cx \in Nat /\ cy \in Nat /\ WIDTH \in Nat \ {0} /\ HEIGHT \in Nat \ {0} /\ FONT_H \in Nat \ {0} /\ Bars \subseteq Nat
  <2>1. x \in 0 .. WIDTH - 1 /\ y \in 0 .. HEIGHT - 1
    BY DEF Screen
  <2>2. WIDTH \in Nat \ {0} /\ HEIGHT \in Nat \ {0} /\ BAR \in Nat \ {0} /\ FONT_H \in Nat \ {0}
    BY Sizes
  <2>3. v \in 0 .. 2 * HEIGHT + FONT_H
    BY DEF Form, VTypes
  <2> QED BY <2>1, <2>2, <2>3, PlaceTypes DEF Bars
<1>2. Addr(x, y, v) = x + WIDTH * (y + v) /\ \A i : BarAt(i) = (cx + WIDTH * (cy + v)) + i
      /\ BarIndex(cursor, p) = x + WIDTH * y - (cx + WIDTH * cy)
  BY DEF Addr, BarAt, BarIndex
<1> HIDE DEF x, y, v, cx, cy
<1>3. Addr(x, y, v) \in DOMAIN mem
  <2> DEFINE r == y + v
  <2>1. x < 2 * WIDTH /\ r \in Nat /\ r <= 3 * HEIGHT + FONT_H - 1
    BY <1>1
  <2> HIDE DEF r
  <2>2. x + WIDTH * r \in 0 .. BANK * BANKS - 1
    BY <1>1, <2>1, CellIn
  <2> QED BY <1>2, <2>2 DEF r, Form, VTypes
<1>4. ASSUME NEW i \in Bars
      PROVE  x + WIDTH * y - (cx + WIDTH * cy) = i <=> x + WIDTH * (y + v) = (cx + WIDTH * (cy + v)) + i
  <2> DEFINE a == WIDTH * y
             b == WIDTH * cy
             c == WIDTH * v
             d == WIDTH * (y + v)
             e == WIDTH * (cy + v)
  <2>1. d = a + c /\ e = b + c /\ a \in Nat /\ b \in Nat /\ c \in Nat /\ i \in Nat
    BY <1>1
  <2> HIDE DEF a, b, c, d, e
  <2>2. x + a - (cx + b) = i <=> x + d = (cx + e) + i
    BY <1>1, <2>1
  <2> QED BY <2>2 DEF a, b, d, e
<1>5. /\ Addr(x, y, v) \in DOMAIN mem
      /\ \A i \in Bars : BarIndex(cursor, p) = i <=> Addr(x, y, v) = BarAt(i)
  BY <1>2, <1>3, <1>4
<1> QED BY <1>5 DEF x, y, v

(* The picture is the same in both phases of the bar.                      *)
LEMMA BlinkPicture ==
  ASSUME "bank" \in VideoCalm, Banked, Form, Content, Blink, todo = <<>>
  PROVE  PictureOf(mem, video_window_y, cursor)' = PictureOf(mem, video_window_y, cursor)
<1>1. BlinkStep
  BY BlinkPixels
<1>2. /\ video_window_y' = video_window_y /\ cursor.shown /\ cursor'.shown
      /\ cursor'.x = cursor.x /\ cursor'.y = cursor.y /\ cursor'.buff = cursor.buff /\ cursor'.blink = 1 - cursor.blink
      /\ cursor.blink \in {0, 1}
  BY <1>1, PlaceTypes DEF BlinkStep
<1> DEFINE old(p) == IF cursor.shown /\ cursor.blink = 1 /\ BarIndex(cursor, p) \in 0 .. BAR - 1
                     THEN cursor.buff[BarIndex(cursor, p)]
                     ELSE mem[Addr(p[1], p[2], video_window_y)]
           new(p) == IF cursor.shown /\ cursor'.blink = 1 /\ BarIndex(cursor, p) \in 0 .. BAR - 1
                     THEN cursor.buff[BarIndex(cursor, p)]
                     ELSE mem'[Addr(p[1], p[2], video_window_y)]
<1>3. ASSUME NEW p \in Screen
      PROVE  new(p) = old(p)
  <2> DEFINE n == BarIndex(cursor, p)
             a == Addr(p[1], p[2], video_window_y)
  <2>1. a \in DOMAIN mem /\ \A i \in Bars : n = i <=> a = BarAt(i)
    BY ScreenCell
  <2> HIDE DEF n, a
  <2>2. CASE n \in Bars
    <3>1. a = BarAt(n)
      BY <2>1, <2>2
    <3>2. CASE cursor.blink = 1
      <4>1. mem'[a] = cursor.buff[n]
        BY <1>1, <2>2, <3>1, <3>2 DEF BlinkStep
      <4>2. cursor'.blink = 0
        BY <1>2, <3>2
      <4> QED BY <1>2, <2>2, <3>2, <4>1, <4>2 DEF n, a, Bars
    <3>3. CASE cursor.blink = 0
      <4>1. cursor.buff[n] = mem[a]
        BY <1>2, <2>2, <3>1, <3>3, HeldBetween DEF Held
      <4>2. cursor'.blink = 1
        BY <1>2, <3>3
      <4> QED BY <1>2, <2>2, <3>3, <4>1, <4>2 DEF n, a, Bars
    <3> QED BY <1>2, <3>2, <3>3
  <2>3. CASE n \notin Bars
    <3>1. \A i \in Bars : a # BarAt(i)
      BY <2>1, <2>3
    <3>2. mem'[a] = mem[a]
      BY <1>1, <2>1, <3>1 DEF BlinkStep
    <3> QED BY <2>3, <3>2 DEF n, a, Bars
  <2> QED BY <2>2, <2>3
<1>4. PictureOf(mem, video_window_y, cursor) = [p \in Screen |-> old(p)]
  BY DEF PictureOf
<1>5. PictureOf(mem, video_window_y, cursor)' = [p \in Screen |-> new(p)]
  <2>1. \A p : BarIndex(cursor, p)' = BarIndex(cursor, p)
    BY <1>2 DEF BarIndex
  <2> QED BY <1>2, <2>1 DEF PictureOf
<1> HIDE DEF old, new
<1> QED BY <1>3, <1>4, <1>5

LEMMA CallBegins ==
  ASSUME VideoCall
  PROVE  todo' # <<>>
<1>1. \A ops : Call(ops) => todo' = ops
  BY DEF Call
<1>2. \A a, b, c : <<a>> # <<>> /\ <<a, b>> # <<>> /\ <<a, b, c>> # <<>>
  OBVIOUS
<1>3. video_clear_screen # <<>>
  <2> DEFINE s == video_clear_screen
  <2>1. Len(s) >= 3
    BY ClearOps
  <2> HIDE DEF s
  <2>2. s # <<>>
    BY <2>1
  <2> QED BY <2>2 DEF s
<1> QED BY <1>1, <1>2, <1>3 DEF VideoCall, CallOutChar, CallOutCharAttr, CallSetPixel, CallDrawChar, CallClear,
                               CallSetCursor, CallShow, CallSetMode

(* The invariant: what a call has still to do has its form, and the pixels *)
(* saved are those below the bar unless what is still to do will save      *)
(* them, or moves the lines on and clears the one the bar will lie over.   *)
THEOREM ContentAlways ==
  ASSUME {"bank", "trail", "full"} \subseteq VideoCalm
  PROVE  VideoSpec => [](Form /\ Content)
<1> DEFINE Good == Form /\ Content
<1>1. VideoInit => Good
  BY InitForm, InitContent
<1>2. ASSUME Banked, Good, [VideoNext]_vvars
      PROVE  Good'
  BY <1>2, FormNext, ContentNext
<1>3. VideoSpec => []Banked
  BY BankedAlways
<1> HIDE DEF Good
<1>4. VideoSpec => []Good
  BY <1>1, <1>2, <1>3, PTL DEF VideoSpec
<1> QED BY <1>4 DEF Good

(* Between calls the picture stays what the last one has left, whatever    *)
(* the cursor does: it blinks over the picture, and the pixels it has      *)
(* saved are those below it (CursorLeavesNoTrace, video.c:27 to 305), as   *)
(* long as the bar does not appear behind a character that has been drawn  *)
(* over it, nor between the comparison of a bank and the access, and       *)
(* nothing is drawn on the pixels of a bar out of the screen.              *)
THEOREM CursorLeavesNoTraceAlways ==
  ASSUME {"bank", "trail", "full"} \subseteq VideoCalm
  PROVE  VideoSpec => []CursorLeavesNoTrace
<1> DEFINE Good == Form /\ Content
<1>1. VideoInit => CursorLeavesNoTrace
  BY DEF VideoInit, ConsoleAt, CursorLeavesNoTrace, Sight
<1>2. ASSUME Banked, Good, CursorLeavesNoTrace, [VideoNext]_vvars
      PROVE  CursorLeavesNoTrace'
  <2>1. CASE VideoStep
    <3>1. PICK ops : Continue(ops)
      BY <2>1 DEF VideoStep, SetPixel, SetTo, GetPixel, SelectBank, Access, MoveWindow, Expand, draw_char,
                  MoveCursor, ShowCursor, SetMode
    <3> QED BY <3>1 DEF Continue, Sight, CursorLeavesNoTrace
  <2>2. CASE VideoCall
    <3>1. todo' # <<>>
      BY <2>2, CallBegins
    <3> QED BY <3>1 DEF CursorLeavesNoTrace
  <2>3. CASE Blink
    <3>1. UNCHANGED <<todo, seen>>
      BY <2>3 DEF Blink
    <3>2. todo = <<>> => PictureOf(mem, video_window_y, cursor)' = PictureOf(mem, video_window_y, cursor)
      BY <1>2, <2>3, BlinkPicture
    <3> QED BY <1>2, <3>1, <3>2 DEF CursorLeavesNoTrace
  <2>4. CASE UNCHANGED vvars
    BY <1>2, <2>4 DEF vvars, CursorLeavesNoTrace, PictureOf, BarIndex
  <2> QED BY <1>2, <2>1, <2>2, <2>3, <2>4 DEF VideoNext
<1>3. VideoSpec => []Banked
  BY BankedAlways
<1>4. VideoSpec => []Good
  BY ContentAlways
<1> HIDE DEF Good
<1> QED BY <1>1, <1>2, <1>3, <1>4, PTL DEF VideoSpec
=============================================================================
