------------------------------ MODULE Terminal ------------------------------
(***************************************************************************)
(* What the graphics console promises: a picture, which the calls of       *)
(* programs change and nothing else does, and a position for the next      *)
(* character.  It knows no video memory, no banks, no window into memory   *)
(* and no cursor bar: the bar is laid over the picture and leaves no trace *)
(* in it.  Video implements it.                                            *)
(***************************************************************************)
EXTENDS Integers

CONSTANTS
  COLS, ROWS,       (* screen_width_c, screen_height_c.                    *)
  FNT_W, FONT_H,    (* Size of a character in pixels.                      *)
  Glyph,            (* Glyph[c]: the pixels <<i, j>> that c sets.          *)
  Colors,           (* Of pixels drawn by programs.                        *)
  Corners           (* Where programs draw characters pixel by pixel.      *)

VARIABLES
  picture,          (* picture[<<x, y>>]: the colour of a pixel.           *)
  pos               (* <<col, row>> of the next character.                 *)

tvars == <<picture, pos>>

WIDTH  == COLS * FNT_W
HEIGHT == ROWS * FONT_H
Screen == (0 .. WIDTH - 1) \X (0 .. HEIGHT - 1)
Blank  == [p \in Screen |-> 0]
TEXT   == 1
NL     == 10
CR     == 13
Places == (0 .. COLS - 1) \X (0 .. ROWS - 1)

(* The pixels of c with its corner at (x, y), and with a background the    *)
(* others of its cell; the rest of the picture stays.                      *)
Drawn(x, y, c, background) ==
  [p \in Screen |->
     LET i == p[1] - x
         j == p[2] - y
     IN  CASE <<i, j>> \in Glyph[c] -> TEXT
           [] background /\ i \in 0 .. FNT_W - 1 /\ j \in 0 .. FONT_H - 1 -> 0
           [] OTHER -> picture[p]]

(* The lines move up by one character, and blank ones come from below.     *)
Scrolled(pic) ==
  [p \in Screen |-> IF p[2] + FONT_H < HEIGHT THEN pic[<<p[1], p[2] + FONT_H>>] ELSE 0]

(* Where the position goes after c; the column behind the last one is a    *)
(* place to rest, and a new line keeps the column.                         *)
Behind(c, at) ==
  CASE c = NL   -> <<at[1], at[2] + 1>>
    [] c = CR   -> <<0, at[2]>>
    [] OTHER    -> <<at[1] + 1, at[2]>>

(* A character is drawn in its cell, and the screen scrolls behind it when *)
(* the position leaves the last row.                                       *)
Emit(c, at) ==
  LET drawn == Drawn(at[1] * FNT_W, at[2] * FONT_H, c, TRUE)
      next  == Behind(c, at)
  IN  IF next[2] < ROWS
      THEN picture' = drawn /\ pos' = next
      ELSE picture' = Scrolled(drawn) /\ pos' = <<0, ROWS - 1>>

SetPixel(p, c) == picture' = [picture EXCEPT ![p] = c] /\ UNCHANGED pos
DrawChar(p, c) == picture' = Drawn(p[1], p[2], c, FALSE) /\ UNCHANGED pos
Clear          == picture' = Blank /\ pos' = <<0, 0>>
MoveTo(at)     == pos' = at /\ UNCHANGED picture

Init == picture = Blank /\ pos \in Places

Next ==
  \/ \E c \in DOMAIN Glyph : \/ pos[1] < COLS /\ Emit(c, pos)
                             \/ \E at \in Places : Emit(c, at)
                             \/ \E p \in Corners : DrawChar(p, c)
  \/ \E p \in Screen, c \in Colors : SetPixel(p, c)
  \/ Clear
  \/ \E at \in Places : MoveTo(at)

Spec == Init /\ [][Next]_tvars
=============================================================================
