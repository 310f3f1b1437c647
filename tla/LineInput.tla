----------------------------- MODULE LineInput ------------------------------
(***************************************************************************)
(* getstr of the user library: a line typed into an array of max_count     *)
(* bytes that is full of zeros behind the line, and drawn whole after      *)
(* every key.  A step is a key.  The keyboard is external.                 *)
(***************************************************************************)
EXTENDS Naturals, Sequences, Ulib

CONSTANTS
  MAX_COUNT,        (* Size of the array, its final 0 included.            *)
  Typable,          (* Characters typed.                                   *)
  STROKES           (* Bound: keys.                                        *)

ASSUME LineAssumption == MAX_COUNT \in Nat /\ MAX_COUNT >= 2 /\ STROKES \in Nat /\ 0 \notin Typable

VARIABLES
  str, i,        (* the array, and the offset of the cursor in it          *)
  row,           (* what the screen shows from where the line begins, a 0  *)
                 (* being blank, and the column of the cursor there        *)
  entered,       (* what getstr has returned                               *)
  strokes        (* number of keys                                         *)

livars == <<str, i, row, entered, strokes>>

Blank == [p \in 0 .. MAX_COUNT - 1 |-> 0]
Typing == <<0>>

LineInit == /\ str = Blank /\ i = 0 /\ row = [cells |-> Blank, at |-> 0]
            /\ entered = Typing /\ strokes = 0

(* The end of the loop's body: all of the array is drawn again.            *)
Redrawn(s, n) == str' = s /\ i' = n /\ row' = [cells |-> s, at |-> n] /\ UNCHANGED entered
Stroke == entered = Typing /\ strokes < STROKES /\ strokes' = strokes + 1

KeyBackspace ==
  /\ Stroke
  /\ IF i > 0 THEN Redrawn(memcpy(str, i - 1, i, MAX_COUNT - i), i - 1) ELSE Redrawn(str, i)
KeyDelete ==
  /\ Stroke
  /\ Redrawn(IF i < MAX_COUNT - 1 THEN memcpy(str, i, i + 1, MAX_COUNT - i - 1) ELSE str, i)

(* Left at the beginning, and right at the end, are not useful keys.       *)
KeyMove ==
  /\ Stroke
  /\ \/ i > 0 /\ Redrawn(str, i - 1)
     \/ i < strlen(str) /\ Redrawn(str, i + 1)
     \/ \E n \in {0, strlen(str)} : Redrawn(str, n)

KeyChar_full == \E k \in Typable :
  /\ Stroke
  /\ IF strlen(str) < MAX_COUNT
     THEN Redrawn([memcpy(str, i + 1, i, MAX_COUNT - i - 1) EXCEPT ![i] = k], i + 1)
     ELSE Redrawn(str, i)
KeyChar == \E k \in Typable :
  /\ Stroke
  /\ IF strlen(str) < MAX_COUNT - 1
     THEN Redrawn([memcpy(str, i + 1, i, MAX_COUNT - i - 2) EXCEPT ![i] = k], i + 1)
     ELSE Redrawn(str, i)

KeyReturn ==
  /\ Stroke
  /\ str' = [str EXCEPT ![MAX_COUNT - 1] = 0]
  /\ entered' = StringAt(str')
  /\ UNCHANGED <<i, row>>

LineNext == KeyBackspace \/ KeyDelete \/ KeyMove \/ KeyChar \/ KeyReturn
LineSpec == LineInit /\ [][LineNext]_livars

-----------------------------------------------------------------------------
(* The array is a line that is edited: no key disturbs the characters      *)
(* around the one it is about, the line never outgrows the array with its  *)
(* final 0, and the screen shows it, and nothing left of longer ones.      *)
Length(m) == CHOOSE n \in 0 .. MAX_COUNT : (n = MAX_COUNT \/ m[n] = 0) /\ \A k \in 0 .. n - 1 : m[k] # 0
Visible(m) == IF \A p \in Length(m) .. MAX_COUNT - 1 : m[p] = 0 THEN [p \in 1 .. Length(m) |-> m[p - 1]]
            ELSE [p \in 1 .. MAX_COUNT |-> m[p - 1]]
L == INSTANCE Line WITH
       LIMIT  <- MAX_COUNT, CHARS <- Typable,
       typed  <- <<[p \in 1 .. i |-> str[p - 1]], SubSeq(Visible(str), i + 1, Len(Visible(str)))>>,
       sight  <- [text |-> Visible(row.cells), at |-> row.at],
       result <- entered
ImplementsLine == L!Spec
=============================================================================
