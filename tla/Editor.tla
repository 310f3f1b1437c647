------------------------------- MODULE Editor -------------------------------
(***************************************************************************)
(* The text editor (source/programs/edit.c): a buffer of fixed size in far *)
(* memory with a final 0, an offset in it for the cursor, and functions    *)
(* that walk the buffer from its start to find lines, which a line of the  *)
(* screen may also end.  A step is a round of the main loop.               *)
(*                                                                         *)
(* The file is external but for what the code does with it: read whole at  *)
(* the start, and written in pieces that each truncate it.                 *)
(***************************************************************************)
EXTENDS Naturals, Sequences, Ulib

CONSTANTS
  SCREEN_WIDTH, SCREEN_HEIGHT,
  Letters,          (* Characters typed.                                   *)
  CAPACITY,         (* Size of the buffer, 0xFFFF in the code.  Bound: no  *)
                    (* text is longer, which the code does not look at.    *)
  PIECE,            (* Size of cbuff.                                      *)
  Files,            (* What the file may be at first.                      *)
  KEYS,             (* Bound: keys pressed.                                *)
  EditorCalm        (* Windows that do not occur.                          *)

NEWLINE == 10       (* A character, or the end of a line.                  *)

(* A line is as long as the screen is wide, or longer; a key without a     *)
(* character is inserted as a 0; the mouse is clicked with the first lines *)
(* out of the screen, or in the title.                                     *)
EditorWindows == {"wrap", "zero", "scrolled", "title"}

ASSUME EditorAssumption ==
  /\ {SCREEN_WIDTH, SCREEN_HEIGHT, CAPACITY, PIECE, KEYS} \subseteq Nat /\ PIECE > 0
  /\ SCREEN_HEIGHT >= 2
  /\ 0 \notin Letters /\ NEWLINE \notin Letters
  /\ EditorCalm \subseteq EditorWindows
ASSUME FileAssumption == \A f \in Files : Len(f) < CAPACITY

VARIABLES
  buff,          (* far memory from the buffer on                          *)
  buff_size, buff_cursor_offset, current_line,
  display,       (* the characters of the lines below the title            *)
  cursor_at,     (* column and row of the cursor, the title's row being 0  *)
  indicator,     (* behind the name in the title                           *)
  disk_file,     (* the file                                               *)
  keys           (* number of keys pressed                                 *)

edvars == <<buff, buff_size, buff_cursor_offset, current_line, display, cursor_at,
            indicator, disk_file, keys>>
text == <<buff, buff_size, buff_cursor_offset>>

-----------------------------------------------------------------------------
(* The functions that walk the buffer, on the string in it.                *)

buffer_offset_to_linecol(s, offset) ==
  Folded(LAMBDA at, c : CASE c = NEWLINE -> [line |-> at.line + 1, col |-> 0]
                            [] at.col + 1 >= SCREEN_WIDTH -> [line |-> at.line + 1, col |-> 0]
                            [] OTHER -> [at EXCEPT !.col = @ + 1],
           [line |-> 0, col |-> 0], SubSeq(s, 1, Least(offset, Len(s))))

(* Characters from position p of s to the end of its line.                 *)
Run(s, p) == CHOOSE n \in 0 .. Len(s) - p :
               /\ p + n = Len(s) \/ s[p + n + 1] = NEWLINE
               /\ \A k \in 1 .. n : s[p + k] # NEWLINE

(* It counts a column too many after each line.                            *)
linecol_to_buffer_offset(s, col, line) ==
  LET LineStart ==
        Folded(LAMBDA at, c : CASE at.line = 0 -> at
                                  [] c = NEWLINE \/ at.c >= SCREEN_WIDTH ->
                                       [line |-> at.line - 1, c |-> 1, offset |-> at.offset + 1]
                                  [] OTHER -> [at EXCEPT !.c = @ + 1, !.offset = @ + 1],
                 [line |-> line, c |-> 0, offset |-> 0], s).offset
  IN  LineStart + Least(col, Run(s, LineStart))

(* next_line: what it shows of a line, and where the next one begins.      *)
Width(s, p) == Least(SCREEN_WIDTH, Run(s, p))
next_line(s, p) ==
  LET q == p + Width(s, p) IN IF q < Len(s) /\ s[q + 1] = NEWLINE THEN q + 1 ELSE q
LineAt(s, n) == Folded(LAMBDA p, k : next_line(s, p), 0, [k \in 1 .. n |-> k])

show_buffer_at_line(s, n) ==
  [l \in 1 .. SCREEN_HEIGHT - 1 |->
     LET p == LineAt(s, n + l - 1) IN SubSeq(s, p + 1, p + Width(s, p))]

-----------------------------------------------------------------------------
(* The start of the program: a file that does not end with a 0 gets one.   *)
Terminated(f) == IF f # <<>> /\ f[Len(f)] = 0 THEN f ELSE Append(f, 0)

(* What lies behind the text, in the buffer and beyond.                    *)
REST == 255

EditorInit == \E f \in Files :
  LET s == Terminated(f)
  IN  /\ buff = [a \in 0 .. CAPACITY + 1 |-> IF a < Len(s) THEN s[a + 1] ELSE REST]
      /\ buff_size = Len(s) /\ buff_cursor_offset = 0 /\ current_line = 0
      /\ display = show_buffer_at_line(StringAt(buff), 0)
      /\ cursor_at = <<0, 1>>
      /\ indicator = "saved" /\ disk_file = f /\ keys = 0

(* The end of the loop: scroll as far as the cursor needs, and draw.  The  *)
(* pointer of the mouse over the text is left out.                         *)
Scrolled1(line) ==
  IF line < current_line THEN line
  ELSE IF line > current_line + SCREEN_HEIGHT - 2 THEN line - SCREEN_HEIGHT + 2
  ELSE current_line
Update(m, offset) ==
  LET s  == StringAt(m)
      at == buffer_offset_to_linecol(s, offset)
      n  == Scrolled1(at.line)
  IN  /\ current_line' = n
      /\ display' = show_buffer_at_line(s, n)
      /\ cursor_at' = <<at.col, at.line - n + 1>>

(* Is a text one whose lines fit on the screen?                            *)
Fits(s) == \A p \in 0 .. Len(s) : p = 0 \/ s[p] = NEWLINE => Run(s, p) < SCREEN_WIDTH

Changes(m, size, offset) ==
  /\ "wrap" \in EditorCalm => Fits(StringAt(m))
  /\ buff' = m /\ buff_size' = size /\ buff_cursor_offset' = offset
  /\ indicator' = "modified"
  /\ Update(m, offset)
  /\ UNCHANGED disk_file

Press == keys < KEYS /\ keys' = keys + 1

(* Any other key: its low byte is inserted, a return as a newline.         *)
Insert == \E k \in Letters \cup {NEWLINE, 0} :
  /\ Press
  /\ "zero" \in EditorCalm => k # 0
  /\ buff_size < CAPACITY
  /\ LET moved == memcpy(buff, buff_cursor_offset + 1, buff_cursor_offset,
                         buff_size - buff_cursor_offset)
     IN  Changes([moved EXCEPT ![buff_cursor_offset] = k], buff_size + 1, buff_cursor_offset + 1)

BackspaceKey ==
  /\ Press
  /\ buff_cursor_offset > 0
  /\ Changes(memcpy(buff, buff_cursor_offset - 1, buff_cursor_offset,
                    buff_size - buff_cursor_offset),
             buff_size - 1, buff_cursor_offset - 1)

DelKey ==
  /\ Press
  /\ buff_cursor_offset < buff_size - 1
  /\ Changes(memcpy(buff, buff_cursor_offset, buff_cursor_offset + 1,
                    buff_size - buff_cursor_offset - 1),
             buff_size - 1, buff_cursor_offset)

(* The keys that move the cursor.                                          *)
Target(k) ==
  LET s  == StringAt(buff)
      at == buffer_offset_to_linecol(s, buff_cursor_offset)
      To(col, line) == linecol_to_buffer_offset(s, col, line)
      page == SCREEN_HEIGHT - 1
  IN  CASE k = "up"    -> IF at.line > 0 THEN To(at.col, at.line - 1) ELSE buff_cursor_offset
        [] k = "down"  -> To(at.col, at.line + 1)
        [] k = "left"  -> IF buff_cursor_offset > 0 THEN buff_cursor_offset - 1 ELSE 0
        [] k = "right" -> IF buff_cursor_offset < buff_size - 1 THEN buff_cursor_offset + 1
                          ELSE buff_cursor_offset
        [] k = "home"  -> To(0, at.line)
        [] k = "end"   -> To(CAPACITY, at.line)
        [] k = "pgdn"  -> To(at.col, at.line + page)
        [] k = "pgup"  -> To(at.col, at.line - Least(at.line, page))

MoveKey == \E k \in {"up", "down", "left", "right", "home", "end", "pgdn", "pgup"} :
  /\ Press
  /\ buff_cursor_offset' = Target(k)
  /\ Update(buff, buff_cursor_offset')
  /\ UNCHANGED <<buff, buff_size, indicator, disk_file>>

(* A button held down moves the cursor, but nothing is drawn until a key   *)
(* is pressed; the first line of the screen is taken for that of the text, *)
(* and the row above that of the title for a line far behind the text.     *)
ClickAt == \E x \in 0 .. SCREEN_WIDTH - 1, y \in 0 .. SCREEN_HEIGHT - 1 :
  /\ Press
  /\ "scrolled" \in EditorCalm => current_line = 0
  /\ "title" \in EditorCalm => y > 0
  /\ buff_cursor_offset' =
       linecol_to_buffer_offset(StringAt(buff), x, IF y = 0 THEN CAPACITY ELSE y - 1)
  /\ UNCHANGED <<buff, buff_size, current_line, display, cursor_at, indicator, disk_file>>

(* F1: one piece after the other until one fails, which leaves the file as *)
(* the pieces before have made it.                                         *)
Pieces == (buff_size + PIECE - 1) \div PIECE
Contents(n) == [k \in 1 .. Least(n * PIECE, buff_size) |-> buff[k - 1]]
SaveKey_appends == \E n \in 0 .. Pieces :
  /\ Press
  /\ disk_file' = Contents(n) \o SubSeq(disk_file, Len(Contents(n)) + 1, Len(disk_file))
  /\ indicator' = IF n = Pieces THEN "saved" ELSE "failed"
  /\ Update(buff, buff_cursor_offset)
  /\ UNCHANGED text
SaveKey == \E n \in 0 .. Pieces :
  /\ Press
  /\ disk_file' = IF n = 0 THEN disk_file ELSE Contents(n)
  /\ indicator' = IF n = Pieces THEN "saved" ELSE "failed"
  /\ Update(buff, buff_cursor_offset)
  /\ UNCHANGED text

EditorNext == Insert \/ BackspaceKey \/ DelKey \/ MoveKey \/ ClickAt \/ SaveKey
EditorSpec == EditorInit /\ [][EditorNext]_edvars

-----------------------------------------------------------------------------
(* The lines of a text, a final 0 left out.                                *)
Unterminated(f) == IF f # <<>> /\ f[Len(f)] = 0 THEN SubSeq(f, 1, Len(f) - 1) ELSE f
SplitLines(f) ==
  Folded(LAMBDA ls, c : IF c = NEWLINE THEN Append(ls, <<>>)
                          ELSE [ls EXCEPT ![Len(ls)] = Append(@, c)], <<<<>>>>, f)
Document ==
  LET t  == [k \in 1 .. buff_size |-> buff[k - 1]]
      ls == SplitLines(SubSeq(t, 1, buff_cursor_offset))
  IN  [lines |-> SplitLines(Unterminated(t)), row |-> Len(ls) - 1, col |-> Len(ls[Len(ls)])]

(* Every key has the effect on the text that a user expects, where the     *)
(* screen shows the cursor; what the screen shows is the text; and when it *)
(* says that the text is saved the file holds all of it and nothing else.  *)
E == INSTANCE Text WITH
       PAGE <- SCREEN_HEIGHT - 1, COLUMNS <- SCREEN_WIDTH, CHARS <- Letters,
       doc  <- Document,
       page <- [top |-> current_line, view |-> display, spot |-> <<cursor_at[1], cursor_at[2] - 1>>],
       file <- SplitLines(Unterminated(disk_file)),
       mark <- indicator
ImplementsText == E!Spec
=============================================================================
