------------------------------ MODULE MCSystem ------------------------------
(***************************************************************************)
(* The parts of the kernel that a program meets, and the programs: the     *)
(* console, the clock, the mouse and the way into the kernel, each against *)
(* its interrupt; the disk driver, the editor, the line input and the      *)
(* command line, each against what it promises.  A behaviour exercises one *)
(* part, the others rest.                                                  *)
(***************************************************************************)
EXTENDS Video, Clock, Mouse, KernelEntry, DiskDriver, Editor, LineInput, Cli

VARIABLE part

mcvars == <<vvars, cvars, mvars, evars, dvars, edvars, livars, clivars, part>>

X       == 120
Shapes  == [c \in {X, NL, CR} |-> IF c = X THEN {<<0, 0>>, <<2, 0>>} ELSE {}]
Corner  == {<<1, 0>>}
Signeds == {-2, 0, 3}

(* Files with lines of different lengths, the last one ended or not.       *)
A == 97
B == 98
FirstFiles == {<<>>, <<A, NEWLINE, B, A, NEWLINE, A>>, <<A, B, NEWLINE, 0>>}

(* Commands that set, with an address too short, one out of a byte, spaces *)
(* too many; and scripts with empty lines and one that just fits.          *)
Config(words) == <<CONFIG, SPACE>> \o words
Lines == {Config(<<DEBUG, SPACE, ON>>), Config(<<DEBUG, SPACE, OFF>>), Config(<<GRAPHICS, SPACE, OFF>>),
          Config(<<NET_IP, SPACE, 49, DOT, 50>>), Config(<<NET_IP, SPACE, SPACE, 50, 53, 54, DOT, 51, 49>>),
          Config(<<NET_GATE, SPACE, 55>>), Config(<<SAVE>>)}
FirstScripts == {<<>>,
  Config(<<DEBUG, SPACE, OFF, LF, LF>>) \o Config(<<SPACE, NET_IP, SPACE, 49, 48, DOT, 50, 48, 48, LF, 0>>)}
Image == [debug |-> TRUE, graphics |-> TRUE, net_IP |-> <<19, 4>>, net_gate |-> <<19, 1>>]

ClockRests == /\ system_timer_ms = 1 /\ motors = {} /\ last_access = [d \in Floppies |-> 0]
              /\ access = NoAccess /\ reading = NoReading /\ accesses = 0 /\ waits = 0

MCInit ==
  /\ part \in {"console", "clock", "mouse", "entry", "driver", "editor", "line", "cli"}
  /\ IF part = "console" THEN VideoInit ELSE ConsoleAt(0)
  /\ IF part = "clock" THEN ClockInit ELSE ClockRests
  /\ EditorInit /\ (part # "editor" => disk_file = <<>>)
  /\ CliInit /\ (part # "cli" => config_ini = <<>>)
  /\ MouseInit /\ EntryInit /\ DiskInit /\ LineInit

(* What is left alone when one of the parts steps.                         *)
Concurrent == <<vvars, cvars, mvars, evars>>
Sequential == <<dvars, edvars, livars, clivars>>

Console(Act) == part = "console" /\ Act /\ UNCHANGED <<cvars, mvars, evars, Sequential, part>>
Clocked(Act) == part = "clock" /\ Act /\ UNCHANGED <<vvars, mvars, evars, Sequential, part>>

MCNext ==
  \/ Console(VideoNext)
  \/ Clocked(ClockNext)
  \/ part = "mouse" /\ MouseNext /\ UNCHANGED <<vvars, cvars, evars, Sequential, part>>
  \/ part = "entry" /\ EntryNext /\ UNCHANGED <<vvars, cvars, mvars, Sequential, part>>
  \/ part = "driver" /\ DiskNext /\ UNCHANGED <<Concurrent, edvars, livars, clivars, part>>
  \/ part = "editor" /\ EditorNext /\ UNCHANGED <<Concurrent, dvars, livars, clivars, part>>
  \/ part = "line" /\ LineNext /\ UNCHANGED <<Concurrent, dvars, edvars, clivars, part>>
  \/ part = "cli" /\ CliNext /\ UNCHANGED <<Concurrent, dvars, edvars, livars, part>>

MCSpec == /\ MCInit /\ [][MCNext]_mcvars
          /\ SF_mcvars(Clocked(Tick)) /\ WF_mcvars(Clocked(Program))

(* The console alone, where a call goes on.                                *)
DrawSpec == MCInit /\ part = "console" /\ [][MCNext]_mcvars /\ WF_mcvars(Console(VideoStep))
=============================================================================
