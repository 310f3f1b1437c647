------------------------------- MODULE Clock -------------------------------
(***************************************************************************)
(* The clock: the timer interrupt counts milliseconds and turns the motors *)
(* of floppy disks off (kernel_time_tick), against the program, which      *)
(* accesses disks and reads the clock byte by byte, to wait for a time.    *)
(*                                                                         *)
(* The counter is a pair of digits, as the ul_t of the code is four bytes: *)
(* a reading takes one digit at a time, and what follows the largest value *)
(* is 0.  Motors and the controller are external.                          *)
(***************************************************************************)
EXTENDS Integers

CONSTANTS
  DIGIT,            (* Values of a digit, 256 in the code.                 *)
  TIMEOUT,          (* Idle time after which motors are turned off.        *)
  SLOWEST,          (* Longest time an access to a disk takes.             *)
  Starts,           (* What system_timer_ms may be at first.               *)
  WAIT,             (* What programs wait for.                             *)
  ACCESSES, WAITS,  (* Bounds: accesses to disks, and calls of wait.       *)
  ClockCalm         (* Windows that do not occur.                          *)

(* The other disk times out during an access; an access is stamped in the  *)
(* millisecond 0, which means never; the clock ticks between the digits of *)
(* a reading and carries; a wait would end behind the largest time.        *)
ClockWindows == {"other", "zero", "carry", "wrap"}

ASSUME DigitAssumption   == DIGIT \in Nat \ {0, 1}
ASSUME TimeOutAssumption == /\ {TIMEOUT, SLOWEST, WAIT, ACCESSES, WAITS} \subseteq Nat
                            /\ SLOWEST <= TIMEOUT /\ TIMEOUT + 1 < DIGIT * DIGIT
                            /\ WAIT < DIGIT * DIGIT
ASSUME StartAssumption   == Starts \subseteq 1 .. DIGIT * DIGIT - 1
ASSUME ClockAssumption   == ClockCalm \subseteq ClockWindows

VARIABLES
  system_timer_ms,
  last_access,   (* of disk_info[0] and [1], 0 for never                   *)
  motors,        (* the disks whose motor turns                            *)
  access,        (* the access in progress: its step, disk and time so far *)
  reading,       (* the call of get_timer or wait in progress              *)
  accesses, waits

cvars == <<system_timer_ms, last_access, motors, access, reading, accesses, waits>>

MODULUS == DIGIT * DIGIT
Floppies == {0, 1}
Digits(t) == [high |-> t \div DIGIT, low |-> t % DIGIT]

(* The difference of two times, as the unsigned subtraction has it.        *)
Since(now, then) == (now - then) % MODULUS

ClockTypeOK ==
  /\ system_timer_ms \in 0 .. MODULUS - 1
  /\ last_access \in [Floppies -> 0 .. MODULUS - 1]
  /\ motors \subseteq Floppies
  /\ access \in [step : {"idle", "stamp", "transfer"}, disk : Floppies,
                 time : 0 .. SLOWEST, tries : 0 .. 3]
  /\ reading \in [step : {"idle", "first", "second", "compare"}, up : BOOLEAN,
                  initial : -1 .. MODULUS - 1, high : 0 .. DIGIT - 1, low : 0 .. DIGIT - 1,
                  since : 0 .. WAIT]
  /\ accesses \in 0 .. ACCESSES /\ waits \in 0 .. WAITS

NoAccess  == [step |-> "idle", disk |-> 0, time |-> 0, tries |-> 0]
NoReading == [step |-> "idle", up |-> FALSE, initial |-> -1, high |-> 0, low |-> 0, since |-> 0]

ClockInit ==
  /\ system_timer_ms \in Starts
  /\ motors \in SUBSET Floppies
  /\ last_access = [d \in Floppies |-> IF d \in motors THEN system_timer_ms ELSE 0]
  /\ access = NoAccess
  /\ reading = NoReading
  /\ accesses = 0 /\ waits = 0

-----------------------------------------------------------------------------
(* kernel_time_tick: at most one disk is found idle in a tick, since the   *)
(* loop skips the next one then, and all motors stop.                      *)
Idle_early(d, now) == last_access[d] # 0 /\ Since(now, last_access[d]) >= TIMEOUT
Idle(d, now) == last_access[d] # 0 /\ Since(now, last_access[d]) > TIMEOUT
FirstIdle_zero(now) == {d \in {0} : Idle(d, now)}
FirstIdle(now) == {d \in Floppies : Idle(d, now) /\ \A e \in Floppies : Idle(e, now) => d <= e}

kernel_time_tick(now) ==
  /\ last_access' = [d \in Floppies |-> IF d \in FirstIdle(now) THEN 0 ELSE last_access[d]]
  /\ motors' = IF FirstIdle(now) = {} THEN motors ELSE {}

Elapsed(n, bound) == IF n < bound THEN n + 1 ELSE n
Tick ==
  LET now == (system_timer_ms + 1) % MODULUS
  IN  /\ access.step # "idle" => access.time < SLOWEST
      /\ ~("other" \in ClockCalm /\ access.step # "idle" /\ FirstIdle(now) \ {access.disk} # {})
      /\ ~("carry" \in ClockCalm /\ reading.step = "second" /\ now % DIGIT = 0)
      /\ ~("wrap" \in ClockCalm /\ reading.initial = -1 /\ reading.step # "idle" /\ now + WAIT >= MODULUS)
      /\ system_timer_ms' = now
      /\ kernel_time_tick(now)
      /\ access' = [access EXCEPT !.time = IF access.step # "idle" THEN @ + 1 ELSE @]
      /\ reading' = [reading EXCEPT !.since = IF reading.step = "idle" THEN @ ELSE Elapsed(@, WAIT)]
      /\ UNCHANGED <<accesses, waits>>

-----------------------------------------------------------------------------
(* read_disk_sector and write_disk_sector: set_disk_params stamps the      *)
(* access, the BIOS turns the motor on and transfers the data, and when a  *)
(* read fails, disk_reset and the same again, twice at most.               *)
Calls == access.step = "idle" /\ reading.step = "idle"

AccessDisk(d) ==
  /\ Calls /\ accesses < ACCESSES
  /\ "zero" \in ClockCalm => system_timer_ms # 0
  /\ last_access' = [last_access EXCEPT ![d] = system_timer_ms]
  /\ access' = [step |-> "stamp", disk |-> d, time |-> 0, tries |-> 0]
  /\ accesses' = accesses + 1
  /\ UNCHANGED <<system_timer_ms, motors, reading, waits>>

StartTransfer ==
  /\ access.step = "stamp"
  /\ motors' = motors \cup {access.disk}
  /\ access' = [access EXCEPT !.step = "transfer"]
  /\ UNCHANGED <<system_timer_ms, last_access, reading, accesses, waits>>

(* A try that fails takes part of the time the access may take.            *)
EndTransfer ==
  /\ access.step = "transfer"
  /\ \/ access' = NoAccess
     \/ /\ access.tries < 2
        /\ access' = [access EXCEPT !.step = "stamp", !.tries = @ + 1]
  /\ UNCHANGED <<system_timer_ms, last_access, motors, reading, accesses, waits>>

-----------------------------------------------------------------------------
(* wait(WAIT): get_timer copies the digits from the highest address down   *)
(* when the destination lies above the kernel's data, as it does for user  *)
(* programs, and up otherwise.  A sum too large for a ul_t loses its carry.*)
Timer == reading.high * DIGIT + reading.low

Wait ==
  /\ Calls /\ waits < WAITS
  /\ "wrap" \in ClockCalm => system_timer_ms + WAIT < MODULUS
  /\ \E up \in BOOLEAN :
       reading' = [NoReading EXCEPT !.step = "first", !.up = up]
  /\ waits' = waits + 1
  /\ UNCHANGED <<system_timer_ms, last_access, motors, access, accesses>>

ReadDigit ==
  /\ reading.step \in {"first", "second"}
  /\ LET now  == Digits(system_timer_ms)
         next == IF reading.step = "first" THEN "second" ELSE "compare"
     IN  reading' = IF (reading.step = "first") = reading.up
                    THEN [reading EXCEPT !.step = next, !.low = now.low]
                    ELSE [reading EXCEPT !.step = next, !.high = now.high]
  /\ UNCHANGED <<system_timer_ms, last_access, motors, access, accesses, waits>>

(* Does the loop of wait end at time t?                                    *)
Ends_early(t, initial) == t + 1 >= (initial + WAIT) % MODULUS
Ends(t, initial) == t >= (initial + WAIT) % MODULUS
Compare ==
  /\ reading.step = "compare"
  /\ LET initial == IF reading.initial = -1 THEN Timer ELSE reading.initial
     IN  reading' = IF Ends(Timer, initial)
                    THEN [NoReading EXCEPT !.since = reading.since]
                    ELSE [reading EXCEPT !.step = "first", !.initial = initial, !.high = 0, !.low = 0]
  /\ UNCHANGED <<system_timer_ms, last_access, motors, access, accesses, waits>>

Program ==
  StartTransfer \/ EndTransfer \/ ReadDigit \/ Compare

ClockNext == Tick \/ (\E d \in Floppies : AccessDisk(d)) \/ Wait \/ Program

(* The timer interrupts for ever, whatever windows it has to leave out,    *)
(* and a call that has begun goes on.                                      *)
ClockSpec == ClockInit /\ [][ClockNext]_cvars /\ SF_cvars(Tick) /\ WF_cvars(Program)

-----------------------------------------------------------------------------
(* While the BIOS transfers data the motor of the disk turns.  It may lose *)
(* it to the time-out of its own earlier accesses, to a stamp made too     *)
(* late, or to the other disk.                                             *)
MotorOnDuringTransfer == access.step = "transfer" => access.disk \in motors

(* wait does not return before its time is over, however its readings of   *)
(* the clock interleave with the ticks.                                    *)
WaitsLongEnough ==
  (reading.step = "idle" /\ waits > 0) => reading.since >= WAIT

(* A motor does not turn for ever: once no more accesses come, each is     *)
(* turned off.                                                             *)
MotorsStop == \A d \in Floppies : d \in motors ~> d \notin motors
=============================================================================
