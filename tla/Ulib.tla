-------------------------------- MODULE Ulib --------------------------------
(***************************************************************************)
(* The functions of the user library (source/ulib/ulib.c) that the editor, *)
(* the line input and the command line are built from.  Memory is a        *)
(* function from addresses to bytes, a string the sequence of the bytes    *)
(* before its final 0.                                                     *)
(***************************************************************************)
EXTENDS Naturals, Sequences, SequencesExt

(* FoldLeft, with what has been folded so far bound to a value: TLC would  *)
(* work it out again wherever op names it, when the whole is primed.       *)
Folded(op(_, _), base, seq) ==
  LET fold[q \in {seq}] ==
        LET f[k \in 0 .. Len(q)] ==
              IF k = 0 THEN base ELSE CHOOSE v \in {op(s, q[k]) : s \in {f[k - 1]}} : TRUE
        IN  f[Len(q)]
  IN  fold[seq]

Least(a, b) == IF a < b THEN a ELSE b

(* lmemcpy and memcpy, byte by byte: downwards when the source does not    *)
(* lie above the destination.                                              *)
memcpy(m, dst, src, size) ==
  Folded(LAMBDA mm, c : [mm EXCEPT ![dst + c] = mm[src + c]], m,
           [k \in 1 .. size |-> IF src > dst THEN k - 1 ELSE size - k])

strlen(m) == CHOOSE n \in DOMAIN m : m[n] = 0 /\ \A k \in 0 .. n - 1 : m[k] # 0
StringAt(m) == [k \in 1 .. strlen(m) |-> m[k - 1]]

(* What the loops around strtok make of a string: at most max tokens, and  *)
(* no empty ones.                                                          *)
Tokens(str, delim, max) ==
  LET toks == Folded(LAMBDA s, c :
                       IF c = delim THEN [s EXCEPT !.inside = FALSE]
                       ELSE IF s.inside THEN [s EXCEPT !.toks[Len(s.toks)] = Append(@, c)]
                       ELSE [inside |-> TRUE, toks |-> Append(s.toks, <<c>>)],
                     [inside |-> FALSE, toks |-> <<>>], str).toks
  IN  SubSeq(toks, 1, Least(Len(toks), max))
=============================================================================
