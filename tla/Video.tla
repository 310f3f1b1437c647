------------------------------- MODULE Video -------------------------------
(***************************************************************************)
(* The graphics console (source/video.c): drawing calls of the running     *)
(* program against video_blink_cursor, which the timer interrupt runs      *)
(* between any two of their steps.                                         *)
(*                                                                         *)
(* A call is the sequence of what it has still to do.  A step takes its    *)
(* first element and puts what that leads to in its place.  An access to a *)
(* pixel is a step that compares its bank with current_bank, one that      *)
(* selects the bank and one that records it when they differ, and the      *)
(* access itself.  The handler runs whole: the interrupt controller holds  *)
(* every other interrupt back until it has finished.                       *)
(*                                                                         *)
(* Video memory and its bank register are external.  An operator named f_x *)
(* is f with a plausible bug x, for checking that a property would notice  *)
(* it; nothing uses it.                                                    *)
(***************************************************************************)
EXTENDS Integers, Sequences, SequencesExt

CONSTANTS
  COLS, ROWS,       (* screen_width_c, screen_height_c.                    *)
  FNT_W, FONT_H,    (* Size of a character in pixels.                      *)
  Glyph,            (* Glyph[c]: the pixels <<i, j>> that c sets.          *)
  Colors, Corners,  (* What programs draw, and where.                      *)
  BANK,             (* Pixels of a bank: VESA_BANK_SIZE.                   *)
  BANKS,            (* Banks of the video memory.                          *)
  Windows0,         (* video_window_y when the console is first used.      *)
  DRAWS,            (* Bound: drawing calls.                               *)
  VideoCalm         (* Windows in which the console is left alone.         *)

(* The cursor blinks between the comparison of a bank and the access; or   *)
(* appears between the drawing of a character over it and the move to the  *)
(* next; or appears while video_set_cursor_pos moves it away; or blinks    *)
(* while the pixels below it are saved; or appears while it is hidden; or  *)
(* rests behind a full line, where its bar is out of the screen and in the *)
(* memory of the pixels below, and a program prints or draws on those.     *)
BlinkWindows == {"bank", "trail", "move", "save", "hide"}
VideoWindows == BlinkWindows \cup {"full"}

ASSUME ScreenAssumption == /\ {COLS, ROWS, FONT_H} \subseteq Nat \ {0}
                           /\ FNT_W \in Nat /\ FNT_W >= 3
(* No bar lies in two banks.                                               *)
ASSUME BankAssumption   == {BANK, BANKS} \subseteq Nat \ {0} /\ BANK % FNT_W = 0
ASSUME CallAssumption   == DRAWS \in Nat
ASSUME BlinkAssumption  == VideoCalm \subseteq VideoWindows

VARIABLES
  mem,           (* video memory, pixel by pixel                           *)
  bank,          (* the bank its register selects                          *)
  current_bank,
  video_window_y,
  cursor,        (* col, row, shown, x and y of the bar, blink, buff       *)
  scline,        (* the line being copied                                  *)
  todo,          (* what the call in progress has still to do              *)
  draws,         (* number of calls so far                                 *)
  seen           (* history: the picture and the position when the last    *)
                 (* call ended                                             *)

vvars == <<mem, bank, current_bank, video_window_y, cursor, scline, todo, draws, seen>>

WIDTH  == COLS * FNT_W
HEIGHT == ROWS * FONT_H
BAR    == FNT_W - 2
BACK   == 0
TEXT   == 1
NL     == 10
CR     == 13
Screen == (0 .. WIDTH - 1) \X (0 .. HEIGHT - 1)
Places == (0 .. COLS - 1) \X (0 .. ROWS - 1)

(* The memory holds the lines the window passes before it is reset, and    *)
(* one for the bar behind a full last line.  A line feed and a carriage    *)
(* return are drawn as spaces.                                             *)
ASSUME MemoryAssumption == /\ Windows0 \subseteq 0 .. 2 * HEIGHT + FONT_H
                           /\ WIDTH * (3 * HEIGHT + FONT_H + 1) <= BANK * BANKS
ASSUME GlyphAssumption  == \A c \in DOMAIN Glyph \cap {NL, CR} : Glyph[c] = {}

Addr(x, y, window) == x + WIDTH * (y + window)
BankOf(a)   == a \div BANK

(* Is (x, y) a pixel of the bar of cursor cur, and which of them is it?    *)
OnBar(cur, x, y) == x \in cur.x .. cur.x + BAR - 1 /\ y = cur.y
BarIndex(cur, p) == p[1] + WIDTH * p[2] - (cur.x + WIDTH * cur.y)

(* The picture on the screen below the bar.                                *)
PictureOf(m, window, cur) ==
  [p \in Screen |-> IF cur.shown /\ cur.blink = 1 /\ BarIndex(cur, p) \in 0 .. BAR - 1
                    THEN cur.buff[BarIndex(cur, p)]
                    ELSE m[Addr(p[1], p[2], window)]]

Sight(m, window, cur) == [picture |-> PictureOf(m, window, cur), pos |-> <<cur.col, cur.row>>]

-----------------------------------------------------------------------------
(* What a call has to do.                                                  *)

Op(op, x, y, c)  == [op |-> op, x |-> x, y |-> y, c |-> c]
Do(op)           == Op(op, 0, 0, 0)
Put(x, y, c)     == Op("set", x, y, c)
Bar(op)          == [i \in 1 .. BAR |-> Op(op, i - 1, 0, 0)]
Area(xs, ys, Each(_, _)) == [k \in 1 .. xs * ys |-> Each((k - 1) % xs, (k - 1) \div xs)]

video_draw_char(x, y, c) ==
  LET Pixel(i, j) == Put(x + i, y + j, IF <<i, j>> \in Glyph[c] THEN TEXT ELSE BACK)
  IN  Area(FNT_W, FONT_H, Pixel)

video_clear_screen ==
  LET Pixel(i, j) == Put(i, j, BACK)
  IN  <<Do("hide"), Op("window", 0, 0, 0)>> \o Area(WIDTH, HEIGHT, Pixel)
        \o <<Op("goto", 0, 0, 0)>> \o (IF cursor.shown THEN <<Do("show")>> ELSE <<>>)

(* Window reset after two screens: the lines of the window at v, but for   *)
(* those that scroll out, are copied to the start of the memory.           *)
CopyLine(i, j, v) == IF i < WIDTH THEN Op("copy", i, j + v, 0) ELSE Op("paste", i - WIDTH, j, 0)
ResetWindow(v) ==
  LET Copy(i, j) == CopyLine(i, FONT_H + j, v)
  IN  <<Op("window", 0, 0, 0)>> \o Area(2 * WIDTH, HEIGHT - FONT_H, Copy)

(* Where update_cursor_after_char takes the cursor.                        *)
NextPlace(c) ==
  LET step == CASE c = NL   -> <<cursor.col, cursor.row + 1>>
                [] c = CR   -> <<0, cursor.row>>
                [] OTHER    -> <<cursor.col + 1, cursor.row>>
  IN  IF step[1] > COLS THEN <<0, step[2] + 1>> ELSE step

update_cursor_after_char(c) ==
  LET next         == NextPlace(c)
      Blank(j, i)  == Put(i, HEIGHT + j, BACK)
  IN  IF next[2] <= ROWS - 1
      THEN <<Op("fast", next[1], next[2], 0)>>
      ELSE (IF video_window_y > 2 * HEIGHT THEN ResetWindow(video_window_y) ELSE <<>>)
             \o Area(FONT_H, WIDTH, Blank)
             \o <<Do("scroll"), Op("fast", 0, ROWS - 1, 0)>>

(* The comparison of a bank, and what comes before the access o.           *)
Selected_unrecorded(a, o) ==
  IF BankOf(a) # current_bank THEN <<Op("select", 0, 0, BankOf(a)), o>> ELSE <<o>>
Selected(a, o) ==
  IF BankOf(a) # current_bank
  THEN <<Op("select", 0, 0, BankOf(a)), Op("record", 0, 0, BankOf(a)), o>>
  ELSE <<o>>

-----------------------------------------------------------------------------
(* The calls of programs.                                                  *)

(* The call goes on with ops; when nothing is left it has ended.           *)
Continue(ops) ==
  /\ todo' = ops
  /\ seen' = IF ops = <<>> THEN Sight(mem', video_window_y', cursor') ELSE seen

Call(ops) ==
  /\ todo = <<>> /\ draws < DRAWS
  /\ draws' = draws + 1
  /\ todo' = ops
  /\ UNCHANGED <<mem, bank, current_bank, video_window_y, cursor, scline, seen>>

(* Is the memory of the bar that of pixels elsewhere?                      *)
Full        == cursor.col = COLS
Clear(ps)   == "full" \notin VideoCalm \/ ~Full \/ \A p \in ps : BarIndex(cursor, p) \notin 0 .. BAR - 1

CallOutChar == \E c \in DOMAIN Glyph :
  /\ "full" \in VideoCalm => ~Full
  /\ Call(<<Op("glyph", 0, 0, c), Op("after", 0, 0, c)>>)
CallOutCharAttr == \E c \in DOMAIN Glyph, at \in Places :
  Call(<<Op("goto", at[1], at[2], 0), Op("glyph", 0, 0, c), Op("after", 0, 0, c)>>)
CallSetPixel == \E p \in Screen, c \in Colors :
  Clear({p}) /\ Call(<<Put(p[1], p[2], c)>>)
CallDrawChar == \E p \in Corners, c \in DOMAIN Glyph : Call(<<Op("draw", p[1], p[2], c)>>)
CallClear     == Call(video_clear_screen)
CallSetCursor == \E at \in Places : Call(<<Op("goto", at[1], at[2], 0)>>)
CallShow      == \E op \in {"show", "hide"} : Call(<<Do(op)>>)
CallSetMode   == Call(<<Do("mode")>>)

-----------------------------------------------------------------------------
(* The steps of a call.                                                    *)

Now(op) == todo # <<>> /\ Head(todo).op = op
Arg     == Head(todo)
Rest    == Tail(todo)

(* video_set_pixel up to the access: the pixel saved under the cursor is   *)
(* set too.  draw_cursor_buffer ("put") sets the pixels it has saved.      *)
Saved_bare(x, y, c) == cursor.buff
Saved(x, y, c) ==
  IF cursor.shown /\ OnBar(cursor, x, y)
  THEN [cursor.buff EXCEPT ![x - cursor.x] = c] ELSE cursor.buff
SetTo(x, y, c) ==
  /\ cursor' = [cursor EXCEPT !.buff = Saved(x, y, c)]
  /\ UNCHANGED <<mem, bank, current_bank, video_window_y, scline, draws>>
  /\ Continue(Selected(Addr(x, y, video_window_y), Op("store", x, y, c)) \o Rest)

SetPixel ==
  \/ Now("set") /\ SetTo(Arg.x, Arg.y, Arg.c)
  \/ Now("put") /\ SetTo(cursor.x + Arg.x, cursor.y, cursor.buff[Arg.x])
  \/ Now("paste") /\ SetTo(Arg.x, Arg.y, scline[Arg.x])

(* get_pixel up to the access: a copy would take the saved pixel where the *)
(* line it reads is the cursor's, but counts lines from the start of the   *)
(* memory and the cursor from the start of the window.                     *)
Fetch(op, x, y, i) == Selected(Addr(x, y, video_window_y), Op(op, x, y, i))
GetPixel ==
  /\ UNCHANGED <<mem, bank, current_bank, video_window_y, cursor, draws>>
  /\ \/ /\ Now("save")
        /\ UNCHANGED scline
        /\ Continue(Fetch("load", cursor.x + Arg.x, cursor.y, Arg.x) \o Rest)
     \/ /\ Now("copy")
        /\ IF cursor.shown /\ OnBar(cursor, Arg.x, Arg.y)
           THEN /\ scline' = [scline EXCEPT ![Arg.x] = cursor.buff[Arg.x - cursor.x]]
                /\ Continue(Rest)
           ELSE /\ UNCHANGED scline
                /\ Continue(Fetch("fetch", Arg.x, Arg.y, Arg.x) \o Rest)

(* io_set_vesa_bank, with interrupts disabled, and the note of it.         *)
SelectBank ==
  /\ \/ Now("select") /\ bank' = Arg.c /\ UNCHANGED current_bank
     \/ Now("record") /\ current_bank' = Arg.c /\ UNCHANGED bank
  /\ UNCHANGED <<mem, video_window_y, cursor, scline, draws>>
  /\ Continue(Rest)

(* The access, in the bank selected.                                       *)
CellOf(o) == bank * BANK + (Addr(o.x, o.y, video_window_y) % BANK)
Access ==
  /\ \/ /\ Now("store")
        /\ mem' = [mem EXCEPT ![CellOf(Arg)] = Arg.c]
        /\ UNCHANGED <<cursor, scline>>
     \/ /\ Now("load")
        /\ cursor' = [cursor EXCEPT !.buff[Arg.c] = mem[CellOf(Arg)]]
        /\ UNCHANGED <<mem, scline>>
     \/ /\ Now("fetch")
        /\ scline' = [scline EXCEPT ![Arg.c] = mem[CellOf(Arg)]]
        /\ UNCHANGED <<mem, cursor>>
  /\ UNCHANGED <<bank, current_bank, video_window_y, draws>>
  /\ Continue(Rest)

(* io_scroll_screen shows the memory from one character further on.        *)
MoveWindow ==
  /\ \/ Now("window") /\ video_window_y' = Arg.y
     \/ Now("scroll") /\ video_window_y' = video_window_y + FONT_H
  /\ UNCHANGED <<mem, bank, current_bank, cursor, scline, draws>>
  /\ Continue(Rest)

(* Steps that only lead to others.                                         *)
Expand ==
  /\ UNCHANGED <<mem, bank, current_bank, video_window_y, cursor, scline, draws>>
  /\ \/ /\ Now("glyph")
        /\ LET x == cursor.col * FNT_W
               y == cursor.row * FONT_H
           IN  Continue(video_draw_char(x, y, Arg.c) \o Rest)
     \/ Now("after") /\ Continue(update_cursor_after_char(Arg.c) \o Rest)
     \/ Now("clear") /\ Continue(video_clear_screen \o Rest)

(* kernel_service serves SYSCALL_IO_DRAW_CHAR with draw_char: that is not  *)
(* video_draw_char but the user library's, which makes the same call.  The *)
(* frames this leaves on the kernel stack are not counted.                 *)
draw_char ==
  /\ UNCHANGED <<mem, bank, current_bank, video_window_y, cursor, scline, draws>>
  /\ \/ Now("draw")  /\ Continue(<<[Arg EXCEPT !.op = "serve"]>> \o Rest)
     \/ Now("serve") /\ Continue(<<[Arg EXCEPT !.op = "draw"]>> \o Rest)

(* The position and the bar move together.  video_set_cursor_pos restores  *)
(* the pixels below the bar first, set_cursor_pos_fast does not.           *)
Placed(col, row) ==
  [cursor EXCEPT !.col = col, !.row = row,
                 !.x = col * FNT_W + 1, !.y = (row + 1) * FONT_H - 1]
Shown(ops) == IF cursor.shown THEN ops ELSE <<>>
Elsewhere  == <<Arg.x, Arg.y>> # <<cursor.col, cursor.row>>

MoveCursor ==
  /\ \/ /\ Now("place") \/ (Now("fast") /\ Elsewhere)
        /\ cursor' = Placed(Arg.x, Arg.y)
        /\ UNCHANGED <<mem, bank, current_bank, video_window_y, scline, draws>>
        /\ Continue(Shown(Bar("save")) \o Rest)
     \/ /\ Now("goto") /\ Elsewhere
        /\ UNCHANGED <<mem, bank, current_bank, video_window_y, cursor, scline, draws>>
        /\ Continue(Shown(Bar("put")) \o <<Op("place", Arg.x, Arg.y, 0)>> \o Rest)
     \/ /\ Now("goto") \/ Now("fast")
        /\ ~Elsewhere
        /\ UNCHANGED <<mem, bank, current_bank, video_window_y, cursor, scline, draws>>
        /\ Continue(Rest)

(* The comparison in video_show_cursor and video_hide_cursor, and the      *)
(* assignment of cursor_shown at their end.                                *)
Saves_always == Bar("save")
Saves == IF ~cursor.shown \/ cursor.blink = 0 THEN Bar("save") ELSE <<>>
Restores == IF cursor.shown /\ cursor.blink = 1 THEN Bar("put") ELSE <<>>
ShowCursor ==
  /\ \/ Now("shown")  /\ cursor' = [cursor EXCEPT !.shown = TRUE]
     \/ Now("hidden") /\ cursor' = [cursor EXCEPT !.shown = FALSE]
     \/ (Now("show") \/ Now("hide")) /\ UNCHANGED cursor
  /\ UNCHANGED <<mem, bank, current_bank, video_window_y, scline, draws>>
  /\ Continue((CASE Now("show") -> Saves \o <<Do("shown")>>
                 [] Now("hide") -> Restores \o <<Do("hidden")>>
                 [] OTHER       -> <<>>) \o Rest)

(* io_set_graphics_mode: the BIOS clears the memory and selects bank 0,    *)
(* which current_bank does not learn; video_enable puts the cursor at the  *)
(* first place with its bar in the corner.                                 *)
SetMode ==
  /\ Now("mode")
  /\ mem' = [a \in DOMAIN mem |-> BACK] /\ bank' = 0 /\ video_window_y' = 0
  /\ cursor' = [cursor EXCEPT !.col = 0, !.row = 0, !.shown = TRUE,
                              !.x = 0, !.y = 0, !.blink = 0]
  /\ UNCHANGED <<current_bank, scline, draws>>
  /\ Continue(Bar("save") \o <<Do("clear")>> \o Rest)

VideoStep ==
  \/ SetPixel \/ GetPixel \/ SelectBank \/ Access \/ MoveWindow
  \/ Expand \/ draw_char \/ MoveCursor \/ ShowCursor \/ SetMode

VideoCall ==
  \/ CallOutChar \/ CallOutCharAttr \/ CallSetPixel \/ CallDrawChar \/ CallClear
  \/ CallSetCursor \/ CallShow \/ CallSetMode

-----------------------------------------------------------------------------
(* The interrupt.                                                          *)

Pending(ops) == \E k \in DOMAIN todo : todo[k].op \in ops

(* Will the character in progress still be drawn over the whole bar?       *)
Drawing(x, y) == \E k \in DOMAIN todo : todo[k].op \in {"set", "store"} /\ <<todo[k].x, todo[k].y>> = <<x, y>>
BarPending == \/ Pending({"glyph"})
              \/ \A i \in 0 .. BAR - 1 : Drawing(cursor.x + i, cursor.y)

(* Is the call in window w, as far as the next blink is concerned?         *)
InWindow(w) ==
  /\ cursor.shown
  /\ CASE w = "bank"  -> /\ Now("record") \/ Now("store") \/ Now("load") \/ Now("fetch")
                         /\ BankOf(Addr(cursor.x, cursor.y, video_window_y)) # bank
       [] w = "trail" -> Pending({"after", "fast"}) /\ ~BarPending /\ cursor.blink = 0
       [] w = "move"  -> Pending({"place"}) /\ cursor.blink = 0
       [] w = "save"  -> Pending({"save", "load"})
       [] w = "hide"  -> Pending({"hidden"}) /\ cursor.blink = 0

(* The handler's accesses to the pixels of the bar, which lie in one bank. *)
BankFor(a) == IF BankOf(a) # current_bank THEN BankOf(a) ELSE bank
DrawBar(colors) ==
  LET first == Addr(cursor.x, cursor.y, video_window_y)
      b     == BankFor(first)
      cell  == b * BANK + (first % BANK)
  IN  [mem |-> [a \in DOMAIN mem |-> IF a \in cell .. cell + BAR - 1 THEN colors[a - cell] ELSE mem[a]],
       bank |-> b, current |-> BankOf(first)]

(* video_blink_cursor.  That it sets saved pixels to themselves as it      *)
(* restores them is not written out.                                       *)
Blink ==
  /\ cursor.shown
  /\ \A w \in VideoCalm \cap BlinkWindows : ~InWindow(w)
  /\ LET on == 1 - cursor.blink
         s  == DrawBar(IF on = 0 THEN cursor.buff ELSE [i \in 0 .. BAR - 1 |-> TEXT])
     IN  /\ cursor' = [cursor EXCEPT !.blink = on]
         /\ mem' = s.mem /\ bank' = s.bank /\ current_bank' = s.current
  /\ UNCHANGED <<video_window_y, scline, todo, draws, seen>>

-----------------------------------------------------------------------------
(* The console after the start of the system, whose last call was to clear *)
(* the screen, or after as many lines as moved the window to w.            *)
ConsoleAt(w) ==
  /\ mem = [a \in 0 .. BANK * BANKS - 1 |-> BACK]
  /\ bank = 0 /\ current_bank = 0
  /\ video_window_y = w
  /\ cursor = LET row == IF w = 0 THEN 0 ELSE ROWS - 1
              IN  [col |-> 0, row |-> row, shown |-> TRUE, blink |-> 0,
                   x |-> IF w = 0 THEN 0 ELSE 1,
                   y |-> IF w = 0 THEN 0 ELSE HEIGHT - 1,
                   buff |-> [i \in 0 .. BAR - 1 |-> BACK]]
  /\ scline = [i \in 0 .. WIDTH - 1 |-> BACK]
  /\ todo = <<>> /\ draws = 0
  /\ seen = Sight(mem, video_window_y, cursor)
VideoInit == \E w \in Windows0 : ConsoleAt(w)

VideoNext == VideoCall \/ VideoStep \/ Blink
(* A call goes on as long as it has something to do.                       *)
VideoSpec == VideoInit /\ [][VideoNext]_vvars /\ WF_vvars(VideoStep)

-----------------------------------------------------------------------------
(* What programs see and where they print implements the terminal: each    *)
(* call has its effect on the picture and no other, whatever the cursor    *)
(* does meanwhile, and wherever in the video memory the screen begins.     *)
T == INSTANCE Terminal WITH picture <- seen.picture, pos <- seen.pos
ImplementsTerminal == T!Spec

(* Between calls the picture stays what the last one has left: the cursor  *)
(* blinks over it, and the pixels it has saved are those below it.         *)
CursorLeavesNoTrace == todo = <<>> => PictureOf(mem, video_window_y, cursor) = seen.picture

(* draw_char comes to an end, as ulib.h:158 has it: a character is drawn.  *)
DrawCharEnds == Pending({"draw", "serve"}) ~> todo = <<>>

(* An access reaches the pixel it is for: the bank selected is its own,    *)
(* though it has been compared with current_bank only, and the interrupt   *)
(* selects banks too.                                                      *)
AccessInBank ==
  (Now("store") \/ Now("load") \/ Now("fetch")) =>
    bank = BankOf(Addr(Arg.x, Arg.y, video_window_y))
=============================================================================
