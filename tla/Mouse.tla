------------------------------- MODULE Mouse -------------------------------
(***************************************************************************)
(* The PS/2 mouse: mouse_init, and mouse_handler, which puts three bytes   *)
(* of three interrupts together to one packet.                             *)
(*                                                                         *)
(* The mouse and its controller are external: a packet is three bytes, and *)
(* the answer to a command is one, which may come late.                    *)
(***************************************************************************)
EXTENDS Integers, Sequences

CONSTANTS
  XMAX, YMAX,       (* Limits of mouse_x and mouse_y: screen_width_px and  *)
                    (* screen_height_px.                                   *)
  Moves,            (* How far the mouse moves in a direction.             *)
  Buttons,          (* Values of the first byte.                           *)
  PACKETS,          (* Bound: packets.                                     *)
  MouseCalm         (* Windows that do not occur.                          *)

ACK == 250          (* 0xFA: the answer to a command.                      *)

(* The mouse answers a command of mouse_init after mouse_read has given up *)
(* waiting: the answer then is the first byte that mouse_handler sees.     *)
MouseWindows == {"late"}

ASSUME LimitAssumption == {XMAX, YMAX, PACKETS} \subseteq Nat
ASSUME ByteAssumption  == Moves \subseteq -128 .. 127 /\ Buttons \subseteq 0 .. 255
ASSUME MouseAssumption == MouseCalm \subseteq MouseWindows

VARIABLES
  phase,         (* number of steps mouse_init has still to do             *)
  owed,          (* answers the mouse has still to send                    *)
  line,          (* bytes the mouse has sent and nothing has read          *)
  mouse_cycle, mouse_byte, mouse_x, mouse_y, mouse_b,
  packets,       (* number of packets sent                                 *)
  pointer        (* history: where the packets sent have moved the pointer *)

mvars == <<phase, owed, line, mouse_cycle, mouse_byte, mouse_x, mouse_y, mouse_b,
           packets, pointer>>
screen == <<mouse_x, mouse_y, mouse_b>>

Abs(n) == IF n < 0 THEN -n ELSE n
Signed(byte) == IF byte >= 128 THEN byte - 256 ELSE byte
Clamp(v, limit) == IF v < 0 THEN 0 ELSE IF v > limit THEN limit ELSE v

(* The place on the screen next to v: what the clamping is for.            *)
Nearest(v, limit) == CHOOSE n \in 0 .. limit : \A m \in 0 .. limit : Abs(n - v) <= Abs(m - v)

MouseInit ==
  /\ phase = 4 /\ owed = 0 /\ line = <<>>
  /\ mouse_cycle = 0 /\ mouse_byte = <<0, 0, 0>>
  /\ mouse_x = 0 /\ mouse_y = 0 /\ mouse_b = 0
  /\ packets = 0 /\ pointer = [x |-> 0, y |-> 0, b |-> 0]

-----------------------------------------------------------------------------
(* mouse_init: a command, and mouse_read, which waits a number of polls    *)
(* and then reads what there is.  Interrupts reach the handler after both. *)
Command ==
  /\ phase \in {2, 4}
  /\ phase' = phase - 1
  /\ owed' = owed + 1
  /\ UNCHANGED <<line, screen, mouse_cycle, mouse_byte, packets, pointer>>

Answer ==
  /\ owed > 0 /\ line = <<>>
  /\ owed' = owed - 1
  /\ line' = <<ACK>>
  /\ UNCHANGED <<phase, screen, mouse_cycle, mouse_byte, packets, pointer>>

mouse_read ==
  /\ phase \in {1, 3}
  /\ "late" \in MouseCalm => line # <<>>
  /\ phase' = phase - 1
  /\ line' = <<>>
  /\ UNCHANGED <<owed, screen, mouse_cycle, mouse_byte, packets, pointer>>

(* The mouse moves, or a button changes, once data are enabled.            *)
Send == \E b \in Buttons, dx \in Moves, dy \in Moves :
  /\ phase = 0 /\ owed = 0 /\ line = <<>> /\ packets < PACKETS
  /\ line' = <<b, dx % 256, dy % 256>>
  /\ packets' = packets + 1
  /\ pointer' = [x |-> Nearest(pointer.x + dx, XMAX), y |-> Nearest(pointer.y - dy, YMAX), b |-> b]
  /\ UNCHANGED <<phase, owed, screen, mouse_cycle, mouse_byte>>

(* mouse_handler.                                                          *)
Cycle_kept(n) == IF n = 2 THEN 2 ELSE n + 1
Cycle(n) == IF n = 2 THEN 0 ELSE n + 1
IRQ12 ==
  /\ phase = 0 /\ line # <<>>
  /\ LET bytes == [mouse_byte EXCEPT ![mouse_cycle + 1] = Head(line)]
     IN  /\ mouse_byte' = bytes
         /\ IF mouse_cycle = 2
            THEN /\ mouse_x' = Clamp(mouse_x + Signed(bytes[2]), XMAX)
                 /\ mouse_y' = Clamp(mouse_y - Signed(bytes[3]), YMAX)
                 /\ mouse_b' = bytes[1]
            ELSE UNCHANGED screen
  /\ mouse_cycle' = Cycle(mouse_cycle)
  /\ line' = Tail(line)
  /\ UNCHANGED <<phase, owed, packets, pointer>>

MouseNext == Command \/ Answer \/ mouse_read \/ Send \/ IRQ12
MouseSpec == MouseInit /\ [][MouseNext]_mvars

-----------------------------------------------------------------------------
MouseTypeOK ==
  /\ phase \in 0 .. 4 /\ owed \in 0 .. 2 /\ packets \in 0 .. PACKETS
  /\ mouse_cycle \in 0 .. 2
  /\ mouse_x \in 0 .. XMAX /\ mouse_y \in 0 .. YMAX

(* When the mouse has nothing more to say, the pointer is where its        *)
(* packets have moved it, and the buttons are those of the last one:       *)
(* mouse_handler has cut the bytes into packets where the mouse did.       *)
PointerFollows ==
  (phase = 0 /\ owed = 0 /\ line = <<>>) => screen = <<pointer.x, pointer.y, pointer.b>>
=============================================================================
