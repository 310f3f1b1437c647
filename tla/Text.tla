-------------------------------- MODULE Text --------------------------------
(***************************************************************************)
(* What editing promises: lines of characters, a place in them where keys  *)
(* have their effect, and a page of them on the screen that the place is   *)
(* in.  It knows no buffer, no offset and no final 0.  Editor implements   *)
(* it.                                                                     *)
(***************************************************************************)
EXTENDS Naturals, Sequences

CONSTANTS
  PAGE, COLUMNS,    (* Lines of the screen, and its columns.               *)
  CHARS             (* What can be typed.                                  *)

VARIABLES
  doc,           (* lines[r + 1]: the characters of line r; and the place: *)
                 (* before character col of line row                       *)
  page,          (* the first line on the screen, what its lines show, and *)
                 (* the column and row of the cursor there                 *)
  file,          (* the lines saved                                        *)
  mark           (* what the screen says of them: "saved", "modified" or   *)
                 (* "failed"                                               *)

tvars == <<doc, page, file, mark>>

Size(d, r)      == Len(d.lines[r + 1])
Last(d)         == Len(d.lines) - 1
First(d, r)     == SubSeq(d.lines, 1, r)
Behind(d, r)    == SubSeq(d.lines, r + 2, Len(d.lines))
Before(d, r, c) == SubSeq(d.lines[r + 1], 1, c)
After(d, r, c)  == SubSeq(d.lines[r + 1], c + 1, Size(d, r))
At(d, place)    == [d EXCEPT !.row = place[1], !.col = place[2]]

(* The text without the character at (r, c); that at the end of a line is  *)
(* the break, and the last has none.                                       *)
Without(d, r, c) ==
  [d EXCEPT !.lines =
     IF c < Size(d, r) THEN First(d, r) \o <<Before(d, r, c) \o After(d, r, c + 1)>> \o Behind(d, r)
     ELSE IF r < Last(d) THEN First(d, r) \o <<d.lines[r + 1] \o d.lines[r + 2]>> \o Behind(d, r + 1)
     ELSE d.lines]

Left(d) == IF d.col > 0 THEN <<d.row, d.col - 1>>
           ELSE IF d.row > 0 THEN <<d.row - 1, Size(d, d.row - 1)>> ELSE <<d.row, d.col>>
Right(d) == IF d.col < Size(d, d.row) THEN <<d.row, d.col + 1>>
            ELSE IF d.row < Last(d) THEN <<d.row + 1, 0>> ELSE <<d.row, d.col>>

(* Column c of line r, or what is next to it.                              *)
Near(d, r, c) == IF r > Last(d) THEN <<Last(d), Size(d, Last(d))>>
                 ELSE <<r, IF c < Size(d, r) THEN c ELSE Size(d, r)>>

(* The screen shows a page of lines that has the place in it, and there    *)
(* the cursor.                                                             *)
Shows(d) ==
  LET p == page'
  IN  /\ d.row \in p.top .. p.top + PAGE - 1
      /\ p.spot = <<d.col, d.row - p.top>>
      /\ p.view = [l \in 1 .. PAGE |-> IF p.top + l <= Len(d.lines) THEN d.lines[p.top + l] ELSE <<>>]

Edit(d) == mark' = "modified" /\ UNCHANGED file /\ doc' = d /\ Shows(d)
Go(d)   == UNCHANGED <<mark, file>> /\ doc' = d /\ Shows(d)

Type(d, c) ==
  LET line == Before(d, d.row, d.col) \o <<c>> \o After(d, d.row, d.col)
  IN  Edit([d EXCEPT !.lines = First(d, d.row) \o <<line>> \o Behind(d, d.row), !.col = @ + 1])
Break(d) ==
  LET lines == <<Before(d, d.row, d.col), After(d, d.row, d.col)>>
  IN  Edit([d EXCEPT !.lines = First(d, d.row) \o lines \o Behind(d, d.row), !.row = @ + 1, !.col = 0])
Backspace(d) == Left(d) # <<d.row, d.col>> /\ Edit(At(Without(d, Left(d)[1], Left(d)[2]), Left(d)))
Delete(d)  == Right(d) # <<d.row, d.col>> /\ Edit(Without(d, d.row, d.col))

Move(d) ==
  \/ Go(At(d, Left(d))) \/ Go(At(d, Right(d)))
  \/ Go(At(d, <<d.row, 0>>)) \/ Go(At(d, <<d.row, Size(d, d.row)>>))
  \/ \E n \in {1, PAGE} : \/ Go(At(d, Near(d, d.row + n, d.col)))
                          \/ Go(At(d, Near(d, IF d.row > n THEN d.row - n ELSE 0, d.col)))

(* A click takes the place to a column of a line shown, by its row there.  *)
Click(d) ==
  /\ UNCHANGED <<mark, page, file>>
  /\ \E c \in 0 .. COLUMNS - 1, l \in 0 .. PAGE - 1 : doc' = At(d, Near(d, page.top + l, c))

(* A save that fails may have saved the beginning.                         *)
Save(d) ==
  /\ \/ mark' = "saved" /\ file' = d.lines
     \/ /\ mark' = "failed"
        /\ \/ UNCHANGED file
           \/ \E r \in 0 .. Last(d) : \E c \in 0 .. Size(d, r) :
                file' = First(d, r) \o <<Before(d, r, c)>>
  /\ doc' = d
  /\ Shows(d)

Init == file = doc.lines /\ mark = "saved" /\ doc.row = 0 /\ doc.col = 0 /\ page.top = 0
Next == LET d == doc
        IN  (\E c \in CHARS : Type(d, c)) \/ Break(d) \/ Backspace(d) \/ Delete(d)
              \/ Move(d) \/ Click(d) \/ Save(d)
Spec == Init /\ [][Next]_tvars
=============================================================================
