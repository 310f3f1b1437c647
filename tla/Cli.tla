-------------------------------- MODULE Cli ---------------------------------
(***************************************************************************)
(* The command line (source/cli.c): how a line is cut into arguments, the  *)
(* config command, and the script config.ini, which the kernel runs when   *)
(* it starts, a line at a time, through a buffer that a line has to fit    *)
(* in.  The commands about files are those of module Nsfs.                 *)
(*                                                                         *)
(* A word of a command is a character.  The file is external: it is read   *)
(* from any offset and written whole, or not, which the command does not   *)
(* look at.                                                                *)
(***************************************************************************)
EXTENDS Naturals, Sequences, Ulib

CONSTANTS
  LINE,             (* Size of the buffer for a line of the script.        *)
  PARTS,            (* Numbers of an address.                              *)
  BYTE,             (* Values of a uint8_t.                                *)
  TokStr,           (* Size of the buffer for an address.                  *)
  Typed,            (* Lines typed at the prompt.                          *)
  Scripts,          (* What the file may be at first.                      *)
  DefaultSettings,  (* The values the variables have in the kernel's image *)
  COMMANDS,         (* Bound: lines typed.                                 *)
  CliCalm           (* Windows that do not occur.                          *)

CONFIG   == 67
SAVE     == 83
DEBUG    == 68
GRAPHICS == 71
NET_IP   == 73
NET_GATE == 87
ON       == 69
OFF      == 88
SPACE    == 32
DOT      == 46
LF       == 10
ZERO     == 48
MAX_ARG  == 4

(* A line of the file does not fit in the buffer; the last has no newline; *)
(* the script saves the configuration, over itself; the file cannot be     *)
(* written, or not be read.                                                *)
CliWindows == {"long", "unended", "self", "unsaved", "unread"}

ASSUME CliAssumption ==
  /\ {LINE, PARTS, BYTE, TokStr, COMMANDS} \subseteq Nat \ {0}
  /\ CliCalm \subseteq CliWindows

VARIABLES
  settings,      (* serial_debug, graphics_mode, local_ip and local_gate   *)
  config_ini,    (* the file, a sequence of bytes                          *)
  running, at,   (* is the script being run, and from which offset         *)
  commands       (* number of lines typed                                  *)

clivars == <<settings, config_ini, running, at, commands>>

-----------------------------------------------------------------------------
(* stou of a string of decimal digits, kept in a byte, and %u.             *)
stou(str) == Folded(LAMBDA v, c : (v * 10 + c - ZERO) % BYTE, 0, str)
Decimal(n) == (IF n >= 100 THEN <<ZERO + n \div 100>> ELSE <<>>)
              \o (IF n >= 10 THEN <<ZERO + ((n \div 10) % 10)>> ELSE <<>>) \o <<ZERO + (n % 10)>>

(* An address that is given too few numbers keeps the others.              *)
str_to_ip(ip, str) ==
  LET toks == Tokens(SubSeq(str, 1, Least(Len(str), TokStr - 1)), DOT, PARTS)
  IN  [k \in 1 .. PARTS |-> IF k <= Len(toks) THEN stou(toks[k]) ELSE ip[k]]
ip_to_str(ip) == Folded(LAMBDA s, n : IF s = <<>> THEN Decimal(n) ELSE s \o <<DOT>> \o Decimal(n), <<>>, ip)

(* What execute and cli_config make of the settings.                       *)
Words(str) == Tokens(str, SPACE, MAX_ARG)
Switch(old, word) == CASE word = <<ON>> -> TRUE [] word = <<OFF>> -> FALSE [] OTHER -> old
cli_config(s, argv) ==
  IF Len(argv) # 3 \/ argv[1] # <<CONFIG>> THEN s
  ELSE CASE argv[2] = <<DEBUG>>    -> [s EXCEPT !.debug = Switch(@, argv[3])]
         [] argv[2] = <<GRAPHICS>> -> [s EXCEPT !.graphics = Switch(@, argv[3])]
         [] argv[2] = <<NET_IP>>   -> [s EXCEPT !.net_IP = str_to_ip(@, argv[3])]
         [] argv[2] = <<NET_GATE>> -> [s EXCEPT !.net_gate = str_to_ip(@, argv[3])]
         [] OTHER -> s
IsSave(argv) == argv = <<<<CONFIG>>, <<SAVE>>>>

(* The file that config save writes, its final 0 included.                 *)
Assignment(name, value) == <<CONFIG, SPACE, name, SPACE>> \o value \o <<LF>>
config_file(s) ==
  Assignment(DEBUG, IF s.debug THEN <<ON>> ELSE <<OFF>>)
  \o Assignment(GRAPHICS, IF s.graphics THEN <<ON>> ELSE <<OFF>>)
  \o Assignment(NET_IP, ip_to_str(s.net_IP))
  \o Assignment(NET_GATE, ip_to_str(s.net_gate)) \o <<0>>

execute(str) ==
  LET argv == Words(str)
  IN  /\ settings' = cli_config(settings, argv)
      /\ \E n \in 0 .. Len(config_file(settings)) :
           /\ config_ini' = IF IsSave(argv) THEN SubSeq(config_file(settings), 1, n) ELSE config_ini
           /\ n = Len(config_file(settings)) \/ (IsSave(argv) /\ "unsaved" \notin CliCalm)

-----------------------------------------------------------------------------
(* Lines as one sees them, and what they say together.                     *)
LinesOf(f) == Folded(LAMBDA ls, c : CASE c = LF -> Append(ls, <<>>)
                                        [] c = 0  -> ls
                                        [] OTHER  -> [ls EXCEPT ![Len(ls)] = Append(@, c)], <<<<>>>>, f)
AllEnded(f) == LinesOf(f)[Len(LinesOf(f))] = <<>>
CommandsOf(f) == Folded(LAMBDA cs, l : Append(cs, Words(l)), <<>>, LinesOf(f))
Said(s, f) == Folded(cli_config, s, CommandsOf(f))

Usual(f) ==
  /\ "long" \in CliCalm => \A k \in DOMAIN LinesOf(f) : Len(LinesOf(f)[k]) < LINE
  /\ "unended" \in CliCalm => AllEnded(f)
  /\ "self" \in CliCalm => \A k \in DOMAIN CommandsOf(f) : ~IsSave(CommandsOf(f)[k])

CliInit == /\ config_ini \in {f \in Scripts : Usual(f)}
           /\ settings = DefaultSettings /\ running = TRUE /\ at = 0 /\ commands = 0

(* A line typed at the prompt.                                             *)
TypeCommand == \E str \in Typed :
  /\ ~running /\ commands < COMMANDS
  /\ execute(str)
  /\ commands' = commands + 1
  /\ UNCHANGED <<running, at>>

(* Reboot, or power off and on: at the prompt, or in the middle of the     *)
(* script.                                                                 *)
Reboot ==
  /\ commands < COMMANDS /\ commands' = commands + 1
  /\ settings' = DefaultSettings /\ running' = TRUE /\ at' = 0
  /\ UNCHANGED config_ini

(* A round of cli_exec_file: the buffer, and the line it begins with.      *)
Buffer == SubSeq(config_ini, at + 1, at + Least(LINE, Len(config_ini) - at))
FirstLine == SelectInSeq(Buffer, LAMBDA c : c = LF)
NextLine_buffer(n) == at + Len(Buffer)
NextLine(n) == at + n
ScriptLine ==
  /\ running
  /\ \E readed \in BOOLEAN :
       /\ "unread" \in CliCalm => readed
       /\ IF readed /\ FirstLine > 0
          THEN execute(SubSeq(Buffer, 1, FirstLine - 1)) /\ at' = NextLine(FirstLine) /\ UNCHANGED running
          ELSE running' = FALSE /\ UNCHANGED <<settings, config_ini, at>>
  /\ UNCHANGED commands

CliNext == TypeCommand \/ Reboot \/ ScriptLine
CliSpec == CliInit /\ [][CliNext]_clivars

-----------------------------------------------------------------------------
(* The settings are those saved, after any restart: the script, run line   *)
(* by line through its buffer, says what the file says, and the file that  *)
(* config save writes says what the settings are.                          *)
G == INSTANCE Settings WITH
       set   <- IF running THEN Said(settings, SubSeq(config_ini, at + 1, Len(config_ini))) ELSE settings,
       saved <- Said(DefaultSettings, config_ini),
       asked <- commands
ConfigSurvives == G!Spec
=============================================================================
