---------------------------- MODULE KernelProofs -----------------------------
(***************************************************************************)
(* Proofs about the handlers of the timer and of the mouse, about the ways *)
(* into the kernel and about the disk driver, for every width of the       *)
(* counter, every time-out, every screen, every move a byte can hold,      *)
(* stacks of any depth and disks of every geometry whose tracks fit into a *)
(* byte: the time-out of the floppy motors leaves a transfer alone when    *)
(* the other disk does not time out meanwhile; wait does not return early  *)
(* when no reading is torn by a carry and no sum wraps around;             *)
(* mouse_handler cuts the bytes of the mouse into the packets it sent,     *)
(* when the mouse answers mouse_init in time; whatever is suspended finds  *)
(* its stack as it left it, and no interrupt stays in service, however     *)
(* deep system calls and interrupts nest; and the disk driver addresses    *)
(* the sector it means and implements the store of bytes its callers take  *)
(* it for (ByteStore).                                                     *)
(***************************************************************************)
EXTENDS Clock, Mouse, KernelEntry, DiskDriver, DataLemmas

-----------------------------------------------------------------------------
(* The timer: the motors.                                                  *)

(* The counter has advanced by the time the access has taken, even when    *)
(* it has wrapped around; the stamp 0 stands for no access at all.         *)
Stamped ==
  access.step # "idle" /\ last_access[access.disk] # 0 =>
    Since(system_timer_ms, last_access[access.disk]) = access.time

Times ==
  /\ system_timer_ms \in 0 .. MODULUS - 1
  /\ last_access \in [Floppies -> 0 .. MODULUS - 1]
  /\ access \in [step : {"idle", "stamp", "transfer"}, disk : Floppies,
                 time : 0 .. SLOWEST, tries : 0 .. 3]

Turning == Times /\ Stamped /\ MotorOnDuringTransfer

-----------------------------------------------------------------------------
(* Differences of a counter that wraps around.                             *)
LEMMA SinceItself ==
  ASSUME NEW m \in Nat \ {0}, NEW t \in 0 .. m - 1
  PROVE  (t - t) % m = 0
<1>1. t - t = 0
  OBVIOUS
<1> QED BY <1>1, ModOfSmall

LEMMA RemainderUnique ==
  ASSUME NEW m \in Nat \ {0}, NEW q \in Int, NEW r \in 0 .. m - 1
  PROVE  (q * m + r) % m = r
<1> DEFINE a == q * m + r
           d == a \div m
           s == a % m
<1>1. a \in Int
  OBVIOUS
<1>2. d \in Int /\ s \in 0 .. m - 1 /\ a = d * m + s
  BY <1>1
<1> HIDE DEF d, s
<1>3. CASE q = d
  BY <1>2, <1>3
<1>4. CASE q > d
  <2>1. (q - d) * m >= m
    BY <1>2, <1>4, ProductGrows
  <2>2. (q - d) * m = q * m - d * m
    BY <1>2
  <2> QED BY <1>2, <2>1, <2>2
<1>5. CASE q < d
  <2>1. (d - q) * m >= m
    BY <1>2, <1>5, ProductGrows
  <2>2. (d - q) * m = d * m - q * m
    BY <1>2
  <2> QED BY <1>2, <2>1, <2>2
<1>6. s = r
  BY <1>2, <1>3, <1>4, <1>5
<1> QED BY <1>6 DEF s

LEMMA IntDivMod ==
  ASSUME NEW a \in Int, NEW m \in Nat \ {0}
  PROVE  a \div m \in Int /\ a % m \in 0 .. m - 1 /\ a = (a \div m) * m + (a % m)
OBVIOUS

LEMMA SinceTick ==
  ASSUME NEW m \in Nat \ {0}, NEW t \in 0 .. m - 1, NEW l \in 0 .. m - 1,
         ((t - l) % m) + 1 < m
  PROVE  (((t + 1) % m) - l) % m = ((t - l) % m) + 1
<1>1. t - l \in Int /\ t + 1 \in Int
  OBVIOUS
<1>2. PICK q \in Int, k \in 0 .. m - 1 : k = (t - l) % m /\ t - l = q * m + k
  BY <1>1, IntDivMod
<1>3. PICK e \in Int, n \in 0 .. m - 1 : n = (t + 1) % m /\ t + 1 = e * m + n
  BY <1>1, IntDivMod
<1>4. k + 1 \in 0 .. m - 1
  BY <1>2
<1>5. n - l = (q - e) * m + (k + 1)
  <2>1. q * m \in Int /\ e * m \in Int /\ (q - e) * m = q * m - e * m
    OBVIOUS
  <2>2. n = t + 1 - e * m
    BY <1>3, <2>1
  <2>3. t = l + q * m + k
    BY <1>2, <2>1
  <2> QED BY <2>1, <2>2, <2>3
<1>6. q - e \in Int
  OBVIOUS
<1>7. (n - l) % m = k + 1
  BY <1>4, <1>5, <1>6, RemainderUnique
<1> QED BY <1>2, <1>3, <1>7

-----------------------------------------------------------------------------
LEMMA ModulusPositive == MODULUS \in Nat \ {0} /\ TIMEOUT + 1 < MODULUS
<1>1. MODULUS \in Nat /\ TIMEOUT \in Nat
  BY DigitAssumption, TimeOutAssumption DEF MODULUS
<1>2. TIMEOUT + 1 < MODULUS
  BY TimeOutAssumption DEF MODULUS
<1> QED BY <1>1, <1>2

LEMMA TurningInit == ClockInit => Turning
<1> SUFFICES ASSUME ClockInit PROVE Turning
  OBVIOUS
<1>1. Starts \subseteq 1 .. MODULUS - 1
  BY StartAssumption DEF MODULUS
<1>2. SLOWEST \in Nat
  BY TimeOutAssumption
<1> QED BY <1>1, <1>2, ModulusPositive
      DEF ClockInit, Turning, Times, Stamped, MotorOnDuringTransfer, NoAccess, Floppies

LEMMA TurningStep ==
  ASSUME "other" \in ClockCalm
  PROVE  Turning /\ [ClockNext]_cvars => Turning'
<1> SUFFICES ASSUME Turning, [ClockNext]_cvars PROVE Turning'
  OBVIOUS
<1> USE DEF Turning, Times, Stamped, MotorOnDuringTransfer
<1>1. CASE Tick
  <2> DEFINE now == (system_timer_ms + 1) % MODULUS
             d   == access.disk
  <2>1. /\ access.step # "idle" => access.time < SLOWEST
        /\ access.step # "idle" => FirstIdle(now) \subseteq {d}
        /\ system_timer_ms' = now
        /\ kernel_time_tick(now)
        /\ access' = [access EXCEPT !.time = IF access.step # "idle" THEN @ + 1 ELSE @]
    BY <1>1 DEF Tick
  <2>2. now \in 0 .. MODULUS - 1
    <3>1. system_timer_ms + 1 \in Nat
      BY ModulusPositive
    <3> QED BY <3>1, ModulusPositive, ModBound
  <2>3. last_access' \in [Floppies -> 0 .. MODULUS - 1]
    BY <2>1, ModulusPositive DEF kernel_time_tick
  <2>4. CASE access.step = "idle"
    <3>1. access' = access
      <4>1. access' = [access EXCEPT !.time = @]
        BY <2>1, <2>4
      <4> QED BY <4>1
    <3> QED BY ONLY Turning, <2>1, <2>2, <2>3, <2>4, <3>1 DEF Turning, Times, Stamped, MotorOnDuringTransfer
  <2>5. CASE access.step # "idle"
    <3>1. /\ access.time \in 0 .. SLOWEST - 1 /\ d \in Floppies
          /\ access'.step = access.step /\ access'.disk = d /\ access'.time = access.time + 1
          /\ access' \in [step : {"idle", "stamp", "transfer"}, disk : Floppies,
                          time : 0 .. SLOWEST, tries : 0 .. 3]
      BY <2>1, <2>5, TimeOutAssumption
    <3>2. last_access[d] # 0 => Since(now, last_access[d]) = access.time + 1
      <4> SUFFICES ASSUME last_access[d] # 0 PROVE Since(now, last_access[d]) = access.time + 1
        OBVIOUS
      <4>1. (system_timer_ms - last_access[d]) % MODULUS = access.time
        BY <2>5 DEF Since
      <4>2. access.time + 1 < MODULUS
        BY <3>1, ModulusPositive, TimeOutAssumption
      <4> QED BY <3>1, <4>1, <4>2, SinceTick, ModulusPositive DEF Since
    <3>3. ~Idle(d, now)
      BY <3>1, <3>2, TimeOutAssumption DEF Idle
    <3>4. FirstIdle(now) = {}
      BY <2>1, <2>5, <3>3 DEF FirstIdle
    <3>5. last_access'[d] = last_access[d] /\ motors' = motors
      BY <2>1, <3>1, <3>4 DEF kernel_time_tick
    <3> QED BY <2>1, <2>2, <2>3, <3>1, <3>2, <3>5
  <2> QED BY <2>4, <2>5
<1>2. ASSUME NEW f \in Floppies, AccessDisk(f)
      PROVE  Turning'
  <2>1. /\ last_access' = [last_access EXCEPT ![f] = system_timer_ms]
        /\ access' = [step |-> "stamp", disk |-> f, time |-> 0, tries |-> 0]
        /\ UNCHANGED <<system_timer_ms, motors>>
    BY <1>2 DEF AccessDisk
  <2>2. Since(system_timer_ms, system_timer_ms) = 0
    BY ModulusPositive, SinceItself DEF Since
  <2> QED BY <2>1, <2>2, TimeOutAssumption
<1>3. CASE Wait
  BY <1>3 DEF Wait
<1>4. CASE StartTransfer
  BY <1>4 DEF StartTransfer
<1>5. CASE EndTransfer
  <2>1. UNCHANGED <<system_timer_ms, last_access, motors>> /\ access.step = "transfer"
    BY <1>5 DEF EndTransfer
  <2>2. CASE access' = NoAccess
    BY <2>1, <2>2, TimeOutAssumption DEF NoAccess, Floppies
  <2>3. CASE access.tries < 2 /\ access' = [access EXCEPT !.step = "stamp", !.tries = @ + 1]
    <3>1. /\ access'.step = "stamp" /\ access'.disk = access.disk /\ access'.time = access.time
          /\ access' \in [step : {"idle", "stamp", "transfer"}, disk : Floppies,
                          time : 0 .. SLOWEST, tries : 0 .. 3]
      <4> DEFINE t == access.tries + 1
      <4>1. t \in 0 .. 3 /\ access' = [[access EXCEPT !.step = "stamp"] EXCEPT !.tries = t]
        BY <2>3
      <4> HIDE DEF t
      <4> QED BY <4>1
    <3> QED BY <2>1, <3>1
  <2> QED BY <1>5, <2>2, <2>3 DEF EndTransfer
<1>6. CASE ReadDigit \/ Compare
  BY <1>6 DEF ReadDigit, Compare
<1>7. CASE UNCHANGED cvars
  BY <1>7 DEF cvars
<1> QED BY <1>1, <1>2, <1>3, <1>4, <1>5, <1>6, <1>7 DEF ClockNext, Program

(* A disk whose access lasts no longer than the time-out keeps its motor:  *)
(* kernel_time_tick finds neither this disk idle nor the other one.        *)
THEOREM MotorOnAlways ==
  ASSUME "other" \in ClockCalm
  PROVE  ClockSpec => []MotorOnDuringTransfer
<1>1. Turning /\ [ClockNext]_cvars => Turning'
  BY TurningStep
<1>2. Turning => MotorOnDuringTransfer
  BY DEF Turning
<1> QED BY <1>1, <1>2, TurningInit, PTL DEF ClockSpec

-----------------------------------------------------------------------------
(* What a wait that has lasted less than WAIT knows: it began at           *)
(* system_timer_ms - since, and each reading lies between then and now, as *)
(* does one whose first digit has been read when the second is read next.  *)
Carried(t) == t - (t % DIGIT)
Began == system_timer_ms - reading.since

Underway ==
  reading.step # "idle" /\ reading.since < WAIT =>
    /\ Began >= 0 /\ Began + WAIT < MODULUS
    /\ reading.initial # -1 => reading.initial >= Began /\ reading.initial + WAIT < MODULUS
    /\ reading.step = "second" /\ reading.up =>
         reading.low <= system_timer_ms % DIGIT /\ Carried(system_timer_ms) + reading.low >= Began
    /\ reading.step = "second" /\ ~reading.up => reading.high * DIGIT = Carried(system_timer_ms)
    /\ reading.step = "compare" => Began <= Timer /\ Timer <= system_timer_ms

Waiting ==
  /\ system_timer_ms \in 0 .. MODULUS - 1
  /\ reading \in [step : {"idle", "first", "second", "compare"}, up : BOOLEAN,
                  initial : Int, high : Nat, low : Nat, since : 0 .. WAIT]
  /\ reading.step # "idle" /\ reading.initial = -1 => system_timer_ms + WAIT < MODULUS
  /\ Underway
  /\ WaitsLongEnough

(* A tick without carry changes the low digit only.                        *)
LEMMA NoCarry ==
  ASSUME NEW m \in Nat \ {0}, NEW t \in Nat, (t + 1) % m # 0
  PROVE  (t + 1) % m = (t % m) + 1
<1>1. PICK q \in Nat, r \in 0 .. m - 1 : r = t % m /\ t = q * m + r
  BY DivMod, ModBound
<1>2. CASE r = m - 1
  <2>1. t + 1 = (q + 1) * m
    BY <1>1, <1>2
  <2>2. q + 1 \in Nat
    OBVIOUS
  <2> QED BY <2>1, <2>2, MultipleMod
<1>3. CASE r # m - 1
  <2>1. PICK s \in 0 .. m - 1 : s = r + 1
    BY <1>1, <1>3
  <2>2. t + 1 = q * m + s
    BY <1>1, <2>1
  <2>3. (q * m + s) % m = s
    BY RemainderUnique
  <2> QED BY <1>1, <2>1, <2>2, <2>3
<1> QED BY <1>2, <1>3

LEMMA DigitsOf ==
  ASSUME NEW t \in Nat
  PROVE  /\ Digits(t).high \in Nat /\ Digits(t).high * DIGIT = Carried(t)
         /\ Digits(t).low = t % DIGIT /\ t % DIGIT \in 0 .. DIGIT - 1
         /\ Carried(t) \in Int
<1> DEFINE h == t \div DIGIT
           l == t % DIGIT
<1>1. DIGIT \in Nat \ {0}
  BY DigitAssumption
<1>2. h \in Nat /\ l \in 0 .. DIGIT - 1 /\ t = h * DIGIT + l
  BY <1>1, DivMod, ModBound
<1>3. Digits(t) = [high |-> h, low |-> l]
  BY DEF Digits
<1>4. Carried(t) = t - l
  BY DEF Carried
<1> HIDE DEF h, l
<1>5. h * DIGIT \in Nat
  BY <1>1, <1>2
<1>6. t - l = h * DIGIT
  BY <1>1, <1>2, <1>5
<1> QED BY <1>2, <1>3, <1>4, <1>5, <1>6 DEF l

LEMMA WaitingInit == ClockInit => Waiting
<1> SUFFICES ASSUME ClockInit PROVE Waiting
  OBVIOUS
<1>1. Starts \subseteq 1 .. MODULUS - 1
  BY StartAssumption DEF MODULUS
<1> QED BY <1>1, ModulusPositive, TimeOutAssumption
      DEF ClockInit, Waiting, Underway, WaitsLongEnough, NoReading

(* Time passes during a wait.                                              *)
LEMMA WaitingTick ==
  ASSUME {"carry", "wrap"} \subseteq ClockCalm
  PROVE  Waiting /\ Tick => Waiting'
<1> SUFFICES ASSUME Waiting, Tick PROVE Waiting'
  OBVIOUS
<1> DEFINE now == (system_timer_ms + 1) % MODULUS
<1>1. /\ reading.step = "second" => now % DIGIT # 0
      /\ reading.initial = -1 /\ reading.step # "idle" => now + WAIT < MODULUS
      /\ system_timer_ms' = now /\ waits' = waits
      /\ reading' = [reading EXCEPT !.since = IF reading.step = "idle" THEN @ ELSE Elapsed(@, WAIT)]
  <2>1. system_timer_ms + 1 \in Nat
    BY DEF Waiting
  <2>2. now \in 0 .. MODULUS - 1
    BY <2>1, ModulusPositive, ModBound
  <2> QED BY <2>2, ModulusPositive, TimeOutAssumption DEF Tick
<1>2. now \in 0 .. MODULUS - 1
  <2>1. system_timer_ms + 1 \in Nat
    BY DEF Waiting
  <2> QED BY <2>1, ModulusPositive, ModBound
<1>3. CASE reading.step = "idle"
  <2>1. reading' = [reading EXCEPT !.since = @]
    BY <1>1, <1>3
  <2>2. reading' = reading
    BY <2>1 DEF Waiting
  <2> QED BY <1>1, <1>2, <1>3, <2>2 DEF Waiting, Underway, WaitsLongEnough
<1>4. CASE reading.step # "idle"
  <2> DEFINE n == Elapsed(reading.since, WAIT)
  <2>1. n \in 0 .. WAIT /\ (n < WAIT => n = reading.since + 1)
    BY TimeOutAssumption DEF Waiting, Elapsed
  <2>2. reading' = [reading EXCEPT !.since = n]
    BY <1>1, <1>4
  <2> HIDE DEF n
  <2>3. /\ reading' \in [step : {"idle", "first", "second", "compare"}, up : BOOLEAN,
                         initial : Int, high : Nat, low : Nat, since : 0 .. WAIT]
        /\ reading'.step = reading.step /\ reading'.up = reading.up
        /\ reading'.initial = reading.initial /\ reading'.since = n
        /\ reading'.high = reading.high /\ reading'.low = reading.low
    BY <2>1, <2>2 DEF Waiting
  <2>4. Underway'
    <3> SUFFICES ASSUME n < WAIT
                 PROVE  Underway'
      BY <2>3 DEF Underway
    <3>1. reading.since < WAIT /\ n = reading.since + 1 /\ reading.since \in Nat
      BY <2>1, TimeOutAssumption DEF Waiting
    <3>2. Began + WAIT < MODULUS /\ system_timer_ms \in Nat
      BY <1>4, <3>1 DEF Waiting, Underway
    <3>3. system_timer_ms' = system_timer_ms + 1
      <4>1. system_timer_ms + 1 < MODULUS
        BY <2>1, <3>1, <3>2, ModulusPositive, TimeOutAssumption DEF Began
      <4> QED BY <1>1, <3>2, <4>1, ModulusPositive, ModOfSmall
    <3>4. Began' = Began
      BY <2>3, <3>1, <3>2, <3>3 DEF Began
    <3>5. Timer' = Timer
      BY <2>3 DEF Timer
    <3>6. reading.step = "second" => /\ system_timer_ms' % DIGIT = (system_timer_ms % DIGIT) + 1
                                     /\ Carried(system_timer_ms)' = Carried(system_timer_ms)
      <4> SUFFICES ASSUME reading.step = "second"
                   PROVE  /\ system_timer_ms' % DIGIT = (system_timer_ms % DIGIT) + 1
                          /\ Carried(system_timer_ms)' = Carried(system_timer_ms)
        OBVIOUS
      <4>1. (system_timer_ms + 1) % DIGIT # 0
        BY <1>1, <3>3
      <4>2. (system_timer_ms + 1) % DIGIT = (system_timer_ms % DIGIT) + 1
        BY <3>2, <4>1, NoCarry, DigitAssumption
      <4> QED BY <3>2, <3>3, <4>2, DigitsOf DEF Carried
    <3>7. system_timer_ms % DIGIT \in Int
      BY <3>2, DigitsOf
    <3>8. Timer \in Int
      BY DigitAssumption DEF Timer, Waiting
    <3> QED BY <1>4, <2>3, <3>1, <3>2, <3>3, <3>4, <3>5, <3>6, <3>7, <3>8 DEF Waiting, Underway
  <2> QED BY <1>1, <1>2, <1>4, <2>3, <2>4 DEF Waiting, WaitsLongEnough
<1> QED BY <1>3, <1>4

(* A digit is read: with the first one the other is not yet out of date.   *)
LEMMA WaitingRead == Waiting /\ ReadDigit => Waiting'
<1> SUFFICES ASSUME Waiting, ReadDigit PROVE Waiting'
  OBVIOUS
<1>1. /\ system_timer_ms \in Nat /\ reading.since \in 0 .. WAIT
      /\ reading.high \in Nat /\ reading.low \in Nat
  BY DEF Waiting
<1> DEFINE high == Digits(system_timer_ms).high
           low  == Digits(system_timer_ms).low
<1>2. /\ high \in Nat /\ high * DIGIT = Carried(system_timer_ms)
      /\ low \in Nat /\ low = system_timer_ms % DIGIT /\ Carried(system_timer_ms) \in Int
      /\ Carried(system_timer_ms) + low = system_timer_ms
  <2>1. /\ high \in Nat /\ high * DIGIT = Carried(system_timer_ms)
        /\ low = system_timer_ms % DIGIT /\ low \in 0 .. DIGIT - 1 /\ DIGIT \in Nat
        /\ Carried(system_timer_ms) \in Int
    BY <1>1, DigitsOf, DigitAssumption
  <2> HIDE DEF high, low
  <2>2. Carried(system_timer_ms) = system_timer_ms - low
    BY <2>1 DEF Carried
  <2>3. Carried(system_timer_ms) + low = system_timer_ms
    BY <1>1, <2>1, <2>2
  <2> QED BY <2>1, <2>3
<1>3. /\ UNCHANGED <<system_timer_ms, waits>>
      /\ \/ reading.step = "first" /\ reading.up /\ reading' = [reading EXCEPT !.step = "second", !.low = low]
         \/ reading.step = "first" /\ ~reading.up /\ reading' = [reading EXCEPT !.step = "second", !.high = high]
         \/ reading.step = "second" /\ reading.up /\ reading' = [reading EXCEPT !.step = "compare", !.high = high]
         \/ reading.step = "second" /\ ~reading.up /\ reading' = [reading EXCEPT !.step = "compare", !.low = low]
  <2>1. reading.up \in BOOLEAN
    BY DEF Waiting
  <2> QED BY <2>1 DEF ReadDigit
<1> HIDE DEF high, low
<1>4. /\ reading' \in [step : {"idle", "first", "second", "compare"}, up : BOOLEAN,
                       initial : Int, high : Nat, low : Nat, since : 0 .. WAIT]
      /\ reading'.step # "idle" /\ reading'.up = reading.up
      /\ reading'.initial = reading.initial /\ reading'.since = reading.since
  BY <1>2, <1>3 DEF Waiting
<1>5. Underway'
  <2> SUFFICES ASSUME reading.since < WAIT
               PROVE  Underway'
    BY <1>4 DEF Underway
  <2>1. reading.step # "idle"
    BY <1>3
  <2>2. /\ Began >= 0 /\ Began + WAIT < MODULUS /\ Began <= system_timer_ms
        /\ reading.initial # -1 => reading.initial >= Began /\ reading.initial + WAIT < MODULUS
    BY <1>1, <2>1 DEF Waiting, Underway, Began
  <2>3. Began' = Began
    BY <1>3, <1>4 DEF Began
  <2>4. CASE reading.step = "first" /\ reading.up
    <3>1. reading'.step = "second" /\ reading'.up /\ reading'.low = low
      BY <1>3, <1>4, <2>4
    <3> QED BY <1>2, <1>3, <1>4, <2>2, <2>3, <3>1 DEF Underway, Carried
  <2>5. CASE reading.step = "first" /\ ~reading.up
    <3>1. reading'.step = "second" /\ ~reading'.up /\ reading'.high = high
      BY <1>3, <1>4, <2>5
    <3> QED BY <1>2, <1>3, <1>4, <2>2, <2>3, <3>1 DEF Underway, Carried
  <2>6. CASE reading.step = "second" /\ reading.up
    <3>1. reading'.step = "compare" /\ reading'.high = high /\ reading'.low = reading.low
      BY <1>3, <1>4, <2>6
    <3>2. reading.low <= system_timer_ms % DIGIT /\ Carried(system_timer_ms) + reading.low >= Began
      BY <2>1, <2>6 DEF Waiting, Underway
    <3>3. Timer' = Carried(system_timer_ms) + reading.low
      BY <1>2, <3>1 DEF Timer
    <3>4. Began <= Timer' /\ Timer' <= system_timer_ms
      BY <1>1, <1>2, <3>2, <3>3
    <3> QED BY <1>3, <1>4, <2>2, <2>3, <3>1, <3>4 DEF Underway
  <2>7. CASE reading.step = "second" /\ ~reading.up
    <3>1. reading'.step = "compare" /\ reading'.low = low /\ reading'.high = reading.high
      BY <1>3, <1>4, <2>7
    <3>2. reading.high * DIGIT = Carried(system_timer_ms)
      BY <2>1, <2>7 DEF Waiting, Underway
    <3>3. Timer' = system_timer_ms
      BY <1>2, <3>1, <3>2 DEF Timer
    <3>4. Began' <= Timer' /\ Timer' <= system_timer_ms'
      BY <1>1, <1>3, <2>2, <2>3, <3>3 DEF Began
    <3> QED BY <1>3, <1>4, <2>2, <2>3, <3>1, <3>4 DEF Underway
  <2> QED BY <1>3, <2>4, <2>5, <2>6, <2>7
<1> QED BY <1>3, <1>4, <1>5 DEF Waiting, WaitsLongEnough

(* The comparison ends no wait that has lasted less than WAIT.             *)
LEMMA WaitingCompare == Waiting /\ Compare => Waiting'
<1> SUFFICES ASSUME Waiting, Compare PROVE Waiting'
  OBVIOUS
<1> DEFINE initial == IF reading.initial = -1 THEN Timer ELSE reading.initial
<1>1. Timer \in Nat /\ initial \in Int /\ reading.since \in 0 .. WAIT /\ system_timer_ms \in Nat
  BY DigitAssumption DEF Waiting, Timer
<1>2. /\ reading.step = "compare" /\ UNCHANGED <<system_timer_ms, waits>>
      /\ reading' = IF Ends(Timer, initial)
                    THEN [NoReading EXCEPT !.since = reading.since]
                    ELSE [reading EXCEPT !.step = "first", !.initial = initial, !.high = 0, !.low = 0]
  BY DEF Compare
<1>3. CASE reading.since = WAIT
  <2>1. CASE Ends(Timer, initial)
    <3>1. /\ reading' \in [step : {"idle", "first", "second", "compare"}, up : BOOLEAN,
                           initial : Int, high : Nat, low : Nat, since : 0 .. WAIT]
          /\ reading'.step = "idle" /\ reading'.since = WAIT
      <4>1. reading' = [step |-> "idle", up |-> FALSE, initial |-> -1, high |-> 0, low |-> 0,
                        since |-> reading.since]
        BY <1>2, <2>1 DEF NoReading
      <4> QED BY <1>1, <1>3, <4>1
    <3> QED BY <1>1, <1>2, <3>1, TimeOutAssumption DEF Waiting, Underway, WaitsLongEnough
  <2>2. CASE ~Ends(Timer, initial)
    <3>1. /\ reading' \in [step : {"idle", "first", "second", "compare"}, up : BOOLEAN,
                           initial : Int, high : Nat, low : Nat, since : 0 .. WAIT]
          /\ reading'.step = "first" /\ reading'.since = WAIT /\ reading'.initial = initial
      BY <1>1, <1>2, <1>3, <2>2 DEF Waiting
    <3>2. initial # -1 \/ reading.initial = -1
      OBVIOUS
    <3> QED BY <1>1, <1>2, <3>1, TimeOutAssumption DEF Waiting, Underway, WaitsLongEnough
  <2> QED BY <2>1, <2>2
<1>4. CASE reading.since # WAIT
  <2>1. reading.since < WAIT /\ WAIT \in Nat
    BY <1>1, <1>4, TimeOutAssumption
  <2>2. /\ Began >= 0 /\ Began + WAIT < MODULUS /\ Began <= Timer /\ Timer <= system_timer_ms
        /\ reading.initial # -1 => reading.initial >= Began /\ reading.initial + WAIT < MODULUS
        /\ reading.initial = -1 => system_timer_ms + WAIT < MODULUS
    BY <1>2, <2>1 DEF Waiting, Underway
  <2>3. initial >= Began /\ initial + WAIT < MODULUS /\ initial # -1
    BY <1>1, <2>1, <2>2, ModulusPositive DEF Began
  <2>4. (initial + WAIT) % MODULUS = initial + WAIT
    <3>1. initial + WAIT \in Nat
      BY <1>1, <2>1, <2>2, <2>3 DEF Began
    <3> QED BY <2>3, <3>1, ModulusPositive, ModOfSmall
  <2>5. ~Ends(Timer, initial)
    BY <1>1, <2>1, <2>2, <2>3, <2>4 DEF Ends, Began
  <2>6. /\ reading' \in [step : {"idle", "first", "second", "compare"}, up : BOOLEAN,
                         initial : Int, high : Nat, low : Nat, since : 0 .. WAIT]
        /\ reading'.step = "first" /\ reading'.initial = initial /\ reading'.since = reading.since
    BY <1>1, <1>2, <2>5 DEF Waiting
  <2>7. Began' = Began
    BY <1>2, <2>6 DEF Began
  <2>8. Underway'
    BY <1>2, <2>2, <2>3, <2>6, <2>7 DEF Underway
  <2> QED BY <1>2, <2>3, <2>6, <2>8 DEF Waiting, WaitsLongEnough
<1> QED BY <1>3, <1>4

LEMMA WaitingStep ==
  ASSUME {"carry", "wrap"} \subseteq ClockCalm
  PROVE  Waiting /\ [ClockNext]_cvars => Waiting'
<1> SUFFICES ASSUME Waiting, [ClockNext]_cvars PROVE Waiting'
  OBVIOUS
<1>1. CASE Tick
  BY <1>1, WaitingTick
<1>2. CASE Wait
  <2>1. PICK up \in BOOLEAN : reading' = [NoReading EXCEPT !.step = "first", !.up = up]
    BY <1>2 DEF Wait
  <2>2. system_timer_ms + WAIT < MODULUS /\ system_timer_ms' = system_timer_ms
    BY <1>2 DEF Wait
  <2>3. /\ reading' \in [step : {"idle", "first", "second", "compare"}, up : BOOLEAN,
                         initial : Int, high : Nat, low : Nat, since : 0 .. WAIT]
        /\ reading'.step = "first" /\ reading'.initial = -1 /\ reading'.since = 0
    <3>1. reading' = [step |-> "first", up |-> up, initial |-> -1, high |-> 0, low |-> 0, since |-> 0]
      BY <2>1 DEF NoReading
    <3>2. WAIT \in Nat
      BY TimeOutAssumption
    <3> QED BY <3>1, <3>2
  <2>4. Began' = system_timer_ms /\ system_timer_ms \in Nat
    BY <2>2, <2>3 DEF Began, Waiting
  <2>5. Underway'
    BY <2>2, <2>3, <2>4 DEF Underway
  <2> QED BY <2>2, <2>3, <2>5 DEF Waiting, WaitsLongEnough
<1>3. CASE ReadDigit
  BY <1>3, WaitingRead
<1>4. CASE Compare
  BY <1>4, WaitingCompare
<1>5. CASE (\E d \in Floppies : AccessDisk(d)) \/ StartTransfer \/ EndTransfer \/ UNCHANGED cvars
  <2>1. UNCHANGED <<system_timer_ms, reading, waits>>
    BY <1>5 DEF AccessDisk, StartTransfer, EndTransfer, cvars
  <2> QED BY <2>1 DEF Waiting, Underway, Began, Carried, Timer, WaitsLongEnough
<1> QED BY <1>1, <1>2, <1>3, <1>4, <1>5 DEF ClockNext, Program

(* A program that waits waits long enough, although system_timer_ms is     *)
(* read in digits between which the timer interrupts.                      *)
THEOREM WaitsLongEnoughAlways ==
  ASSUME {"carry", "wrap"} \subseteq ClockCalm
  PROVE  ClockSpec => []WaitsLongEnough
<1>1. Waiting /\ [ClockNext]_cvars => Waiting'
  BY WaitingStep
<1>2. Waiting => WaitsLongEnough
  BY DEF Waiting
<1> QED BY <1>1, <1>2, WaitingInit, PTL DEF ClockSpec

-----------------------------------------------------------------------------
(* The mouse.                                                              *)

(* What is still on the line: the rest of the packet that has moved the    *)
(* pointer, of which the handler has the bytes before.                     *)
PacketLeft(b, dx, dy) ==
  /\ pointer = [x |-> Clamp(mouse_x + dx, XMAX), y |-> Clamp(mouse_y - dy, YMAX), b |-> b]
  /\ \/ mouse_cycle = 0 /\ line = <<b, dx % 256, dy % 256>>
     \/ mouse_cycle = 1 /\ line = <<dx % 256, dy % 256>> /\ mouse_byte[1] = b
     \/ mouse_cycle = 2 /\ line = <<dy % 256>> /\ mouse_byte[1] = b /\ mouse_byte[2] = dx % 256

AtRest == mouse_cycle = 0 /\ pointer = [x |-> mouse_x, y |-> mouse_y, b |-> mouse_b]

(* Each command of mouse_init is answered before the next, and the answers *)
(* are read; what follows is whole packets.                                *)
Handshake ==
  /\ phase \in {2, 4} => (owed = 0 /\ line = <<>> /\ AtRest)
  /\ phase \in {1, 3} => /\ AtRest
                       /\ \/ owed = 1 /\ line = <<>>
                          \/ owed = 0 /\ line = <<ACK>>
  /\ phase = 0 => /\ owed = 0
                  /\ \/ line = <<>> /\ AtRest
                     \/ \E b \in Buttons, dx \in Moves, dy \in Moves : PacketLeft(b, dx, dy)

MouseTypes ==
  /\ phase \in 0 .. 4
  /\ mouse_x \in 0 .. XMAX /\ mouse_y \in 0 .. YMAX
  /\ mouse_byte \in [1 .. 3 -> 0 .. 255]

Packets == MouseTypes /\ Handshake

-----------------------------------------------------------------------------
(* The comparisons of mouse_handler find the nearest place on the screen.  *)
LEMMA ClampIsNearest ==
  ASSUME NEW v \in Int, NEW limit \in Nat
  PROVE  Nearest(v, limit) = Clamp(v, limit) /\ Clamp(v, limit) \in 0 .. limit
<1>1. Clamp(v, limit) \in 0 .. limit
  BY DEF Clamp
<1>2. \A m \in 0 .. limit : Abs(Clamp(v, limit) - v) <= Abs(m - v)
  BY DEF Clamp, Abs
<1>3. ASSUME NEW n \in 0 .. limit, \A m \in 0 .. limit : Abs(n - v) <= Abs(m - v)
      PROVE  n = Clamp(v, limit)
  <2>1. Abs(n - v) <= Abs(Clamp(v, limit) - v)
    BY <1>1, <1>3
  <2> QED BY <2>1, <1>3 DEF Clamp, Abs
<1> QED BY <1>1, <1>2, <1>3 DEF Nearest

(* A move survives its conversion to a byte and back.                      *)
LEMMA SignedOfByte ==
  ASSUME NEW d \in -128 .. 127
  PROVE  Signed(d % 256) = d /\ d % 256 \in 0 .. 255
BY DEF Signed

-----------------------------------------------------------------------------
LEMMA PacketsInit == MouseInit => Packets
BY LimitAssumption DEF MouseInit, Packets, MouseTypes, Handshake, AtRest

(* Lines of one, two and three bytes.                                      *)
LEMMA HeadTail ==
  ASSUME NEW x, NEW y, NEW z
  PROVE  /\ Head(<<x>>) = x /\ Tail(<<x>>) = <<>>
         /\ Head(<<x, y>>) = x /\ Tail(<<x, y>>) = <<y>>
         /\ Head(<<x, y, z>>) = x /\ Tail(<<x, y, z>>) = <<y, z>>
OBVIOUS

(* mouse_handler takes a byte of a packet, and with the third one moves    *)
(* the pointer where the packet has moved it.                              *)
LEMMA HandlerStep == Packets /\ IRQ12 => Packets'
<1> SUFFICES ASSUME Packets, IRQ12 PROVE Packets'
  OBVIOUS
<1>1. phase = 0 /\ owed = 0 /\ line # <<>> /\ MouseTypes
  BY DEF Packets, Handshake, IRQ12
<1>2. PICK b \in Buttons, dx \in Moves, dy \in Moves : PacketLeft(b, dx, dy)
  BY <1>1 DEF Packets, Handshake
<1>3. /\ Signed(dx % 256) = dx /\ dx % 256 \in 0 .. 255 /\ dx \in Int
      /\ Signed(dy % 256) = dy /\ dy % 256 \in 0 .. 255 /\ dy \in Int
      /\ b \in 0 .. 255
  BY SignedOfByte, ByteAssumption
<1>4. /\ UNCHANGED <<phase, owed, pointer>>
      /\ mouse_cycle # 2 => UNCHANGED <<mouse_x, mouse_y, mouse_b>>
  BY DEF IRQ12, screen
<1>5. SUFFICES MouseTypes' /\ ((AtRest' /\ line' = <<>>) \/ PacketLeft(b, dx, dy)')
  BY <1>1, <1>4 DEF Packets, Handshake
<1> DEFINE X == dx % 256
           Y == dy % 256
<1> HIDE DEF X, Y
<1>6. /\ pointer = [x |-> Clamp(mouse_x + dx, XMAX), y |-> Clamp(mouse_y - dy, YMAX), b |-> b]
      /\ \/ mouse_cycle = 0 /\ line = <<b, X, Y>>
         \/ mouse_cycle = 1 /\ line = <<X, Y>> /\ mouse_byte[1] = b
         \/ mouse_cycle = 2 /\ line = <<Y>> /\ mouse_byte[1] = b /\ mouse_byte[2] = X
  BY <1>2 DEF PacketLeft, X, Y
<1>7. X \in 0 .. 255 /\ Y \in 0 .. 255 /\ Signed(X) = dx /\ Signed(Y) = dy
  BY <1>3 DEF X, Y
<1>8. ASSUME NEW byte \in 0 .. 255, Head(line) = byte
      PROVE  /\ mouse_byte' \in [1 .. 3 -> 0 .. 255]
             /\ mouse_byte'[mouse_cycle + 1] = byte
             /\ \A i \in 1 .. 3 : i # mouse_cycle + 1 => mouse_byte'[i] = mouse_byte[i]
             /\ mouse_cycle' = Cycle(mouse_cycle) /\ line' = Tail(line)
  <2>1. /\ mouse_byte' = [mouse_byte EXCEPT ![mouse_cycle + 1] = byte]
        /\ mouse_cycle' = Cycle(mouse_cycle) /\ line' = Tail(line)
    BY <1>8 DEF IRQ12
  <2>2. mouse_byte \in [1 .. 3 -> 0 .. 255] /\ mouse_cycle + 1 \in 1 .. 3
    BY <1>1, <1>6 DEF MouseTypes
  <2> QED BY <1>8, <2>1, <2>2
<1>9. CASE mouse_cycle = 0
  <2>1. line = <<b, X, Y>>
    BY <1>6, <1>9
  <2>2. /\ mouse_byte' \in [1 .. 3 -> 0 .. 255] /\ mouse_byte'[1] = b
        /\ mouse_cycle' = 1 /\ line' = <<X, Y>>
    <3>1. Head(line) = b /\ Tail(line) = <<X, Y>>
      BY <2>1, HeadTail
    <3>2. mouse_cycle + 1 = 1 /\ Cycle(mouse_cycle) = 1
      BY <1>9 DEF Cycle
    <3> QED BY <1>3, <1>8, <3>1, <3>2
  <2>3. PacketLeft(b, dx, dy)'
    <3>1. pointer' = [x |-> Clamp(mouse_x' + dx, XMAX), y |-> Clamp(mouse_y' - dy, YMAX), b |-> b]
      BY <1>4, <1>6, <1>9
    <3> QED BY <2>2, <3>1 DEF PacketLeft, X, Y
  <2> QED BY <1>1, <1>4, <1>9, <2>2, <2>3 DEF MouseTypes
<1>10. CASE mouse_cycle = 1
  <2>1. line = <<X, Y>> /\ mouse_byte[1] = b
    BY <1>6, <1>10
  <2>2. /\ mouse_byte' \in [1 .. 3 -> 0 .. 255] /\ mouse_byte'[1] = b /\ mouse_byte'[2] = X
        /\ mouse_cycle' = 2 /\ line' = <<Y>>
    <3>1. Head(line) = X /\ Tail(line) = <<Y>>
      BY <2>1, HeadTail
    <3>2. mouse_cycle + 1 = 2 /\ Cycle(mouse_cycle) = 2
      BY <1>10 DEF Cycle
    <3>3. \A i \in 1 .. 3 : i # 2 => mouse_byte'[i] = mouse_byte[i]
      BY <1>7, <1>8, <3>1, <3>2
    <3>4. mouse_byte'[1] = b
      BY <2>1, <3>3
    <3> QED BY <1>7, <1>8, <3>1, <3>2, <3>4
  <2>3. PacketLeft(b, dx, dy)'
    <3>1. pointer' = [x |-> Clamp(mouse_x' + dx, XMAX), y |-> Clamp(mouse_y' - dy, YMAX), b |-> b]
      BY <1>4, <1>6, <1>10
    <3> QED BY <2>2, <3>1 DEF PacketLeft, X, Y
  <2> QED BY <1>1, <1>4, <1>10, <2>2, <2>3 DEF MouseTypes
<1>11. CASE mouse_cycle = 2
  <2>1. line = <<Y>> /\ mouse_byte[1] = b /\ mouse_byte[2] = X
    BY <1>6, <1>11
  <2>2. /\ mouse_byte' \in [1 .. 3 -> 0 .. 255]
        /\ mouse_byte'[1] = b /\ mouse_byte'[2] = X /\ mouse_byte'[3] = Y
        /\ mouse_cycle' = 0 /\ line' = <<>>
    <3>1. Head(line) = Y /\ Tail(line) = <<>>
      BY <2>1, HeadTail
    <3>2. mouse_cycle + 1 = 3 /\ Cycle(mouse_cycle) = 0
      BY <1>11 DEF Cycle
    <3>3. \A i \in 1 .. 3 : i # 3 => mouse_byte'[i] = mouse_byte[i]
      BY <1>7, <1>8, <3>1, <3>2
    <3>4. mouse_byte'[1] = b /\ mouse_byte'[2] = X
      BY <2>1, <3>3
    <3> QED BY <1>7, <1>8, <3>1, <3>2, <3>4, ZenonT(30)
  <2>3. /\ mouse_x' = Clamp(mouse_x + Signed(mouse_byte'[2]), XMAX)
        /\ mouse_y' = Clamp(mouse_y - Signed(mouse_byte'[3]), YMAX)
        /\ mouse_b' = mouse_byte'[1]
    BY <1>11 DEF IRQ12
  <2>4. mouse_x' = Clamp(mouse_x + dx, XMAX) /\ mouse_y' = Clamp(mouse_y - dy, YMAX) /\ mouse_b' = b
    BY <1>7, <2>2, <2>3
  <2>5. mouse_x' \in 0 .. XMAX /\ mouse_y' \in 0 .. YMAX
    <3>1. mouse_x + dx \in Int /\ mouse_y - dy \in Int
      BY <1>1, <1>3, LimitAssumption DEF MouseTypes
    <3> QED BY <2>4, <3>1, ClampIsNearest, LimitAssumption
  <2>6. AtRest'
    BY <1>4, <1>6, <1>11, <2>2, <2>4 DEF AtRest
  <2> QED BY <1>1, <1>4, <2>2, <2>5, <2>6 DEF MouseTypes
<1> QED BY <1>6, <1>9, <1>10, <1>11

LEMMA PacketsStep ==
  ASSUME "late" \in MouseCalm
  PROVE  Packets /\ [MouseNext]_mvars => Packets'
<1> SUFFICES ASSUME Packets, [MouseNext]_mvars PROVE Packets'
  OBVIOUS
<1> USE DEF Packets, MouseTypes, Handshake, AtRest, PacketLeft, screen
<1>1. CASE Command
  BY <1>1 DEF Command
<1>2. CASE Answer
  BY <1>2 DEF Answer
<1>3. CASE mouse_read
  BY <1>3 DEF mouse_read
<1>4. CASE Send
  <2>1. PICK b \in Buttons, dx \in Moves, dy \in Moves :
          /\ line' = <<b, dx % 256, dy % 256>>
          /\ pointer' = [x |-> Nearest(pointer.x + dx, XMAX), y |-> Nearest(pointer.y - dy, YMAX), b |-> b]
    BY <1>4 DEF Send
  <2>2. /\ phase = 0 /\ owed = 0 /\ line = <<>>
        /\ UNCHANGED <<phase, owed, mouse_x, mouse_y, mouse_b, mouse_cycle, mouse_byte>>
    BY <1>4 DEF Send
  <2>3. AtRest
    BY <2>2
  <2>4. dx \in Int /\ dy \in Int
    BY ByteAssumption
  <2>5. /\ Nearest(mouse_x + dx, XMAX) = Clamp(mouse_x + dx, XMAX)
        /\ Nearest(mouse_y - dy, YMAX) = Clamp(mouse_y - dy, YMAX)
    <3>1. mouse_x + dx \in Int /\ mouse_y - dy \in Int
      BY <2>4
    <3> QED BY <3>1, ClampIsNearest, LimitAssumption
  <2>6. PacketLeft(b, dx, dy)'
    BY <2>1, <2>2, <2>3, <2>5
  <2> QED BY <2>2, <2>6
<1>5. CASE IRQ12
  BY <1>5, HandlerStep
<1>6. CASE UNCHANGED mvars
  BY <1>6 DEF mvars
<1> QED BY <1>1, <1>2, <1>3, <1>4, <1>5, <1>6 DEF MouseNext

(* Every byte is taken for what the mouse meant it to be: at each moment   *)
(* the line holds whole packets but for the bytes already stored.          *)
THEOREM PacketsAlways ==
  ASSUME "late" \in MouseCalm
  PROVE  MouseSpec => []Packets
<1>1. Packets /\ [MouseNext]_mvars => Packets'
  BY PacketsStep
<1> QED BY <1>1, PacketsInit, PTL DEF MouseSpec

(* When the mouse has nothing more to say, mouse_x, mouse_y and mouse_b    *)
(* are what its packets have made of them.                                 *)
THEOREM PointerFollowsAlways ==
  ASSUME "late" \in MouseCalm
  PROVE  MouseSpec => []PointerFollows
<1>1. Packets => PointerFollows
  <2> SUFFICES ASSUME Packets, phase = 0, line = <<>> PROVE AtRest
    BY DEF PointerFollows, AtRest, screen
  <2> QED BY DEF Packets, Handshake, PacketLeft
<1> QED BY <1>1, PacketsAlways, PTL

-----------------------------------------------------------------------------
(* The ways into the kernel.                                               *)

(* What runs is the innermost of the contexts; the others are suspended.   *)
Level   == Len(suspended)
Ctx(k)  == IF k = Level + 1 THEN cpu ELSE suspended[k].cpu
Base(c) == c.sp - c.pc.locals

Segments == {"kernel", "user"}
Contexts == [pc : [who : Handlers \cup {"cli", "user", "service"},
                   at : {"body", "master", "leave", "stored"}, locals : {0, 1}],
             ss : Segments, sp : 0 .. DEPTH]

Shape(s) == s = [ss \in Segments |-> [i \in Slots |-> s[ss][i]]]
Types    == Shape(stack) /\ IsSeq(suspended) /\ kstack \in 0 .. DEPTH

(* The command line is the outermost context, a program the one above it,  *)
(* and everything else runs on the kernel stack.                           *)
Ordinary(c, k) ==
  /\ c \in Contexts /\ Base(c) \in 0 .. DEPTH
  /\ c.pc.who = "cli" <=> k = 1
  /\ c.pc.who = "user" <=> c.ss = "user"
  /\ c.ss = "user" => k = 2
  /\ c.pc.at # "body" => c.pc.locals = 0
Placed == \A k \in 1 .. Level + 1 : Ordinary(Ctx(k), k)

(* A suspended context has its slots, and its place above them.            *)
Resumable(s, c, held) ==
  /\ c.sp + 2 <= DEPTH
  /\ \A i \in 1 .. c.sp : s[c.ss][i] = held[i]
  /\ s[c.ss][c.sp + 1] \in {<<"iret", c.pc>>, <<"ret", c.pc>>}
Saved == \A k \in 1 .. Level : Resumable(stack, Ctx(k), suspended[k].held)

(* At the base of each context is the way back to the one it suspended.    *)
Leads(s, start, c, up) ==
  /\ up.ss = "user" => /\ Base(up) = 2 /\ start = c.sp + 2
                       /\ s["user"][1] = <<"old", "kernel", c.sp + 2>>
  /\ up.ss = "kernel" => s["kernel"][Base(up)] = <<"old", c.ss, c.sp + 2>>
Linked == \A k \in 1 .. Level : Leads(stack, kstack, Ctx(k), Ctx(k + 1))

(* On a stack the contexts follow one another, with room between them for  *)
(* what suspended the lower one.                                           *)
Apart == \A j, k \in 1 .. Level + 1 :
  (j < k /\ Ctx(j).ss = Ctx(k).ss) => Base(Ctx(k)) >= Ctx(j).sp + 3

Nested == Types /\ Placed /\ Saved /\ Linked /\ Apart

-----------------------------------------------------------------------------
(* Front leaves the last element out.                                      *)
LEMMA SeqFront ==
  ASSUME NEW s, IsSeq(s), Len(s) > 0
  PROVE  /\ IsSeq(Front(s)) /\ Len(Front(s)) = Len(s) - 1
         /\ \A k \in 1 .. Len(s) - 1 : Front(s)[k] = s[k]
<1> DEFINE Elems == {s[k] : k \in DOMAIN s}
           t == SubSeq(s, 1, Len(s) - 1)
<1>1. Len(s) \in Nat /\ DOMAIN s = 1 .. Len(s)
  BY SeqLen
<1>2. \A i \in 1 .. Len(s) - 1 : s[i] \in Elems
  BY <1>1
<1> HIDE DEF Elems
<1>3. /\ t \in Seq(Elems) /\ Len(t) = Len(s) - 1
      /\ \A k \in 1 .. Len(s) - 1 : t[k] = s[k]
  BY <1>1, <1>2, SubSeqProperties
<1>4. IsSeq(t)
  BY <1>3, SeqOver
<1> QED BY <1>3, <1>4 DEF Front

-----------------------------------------------------------------------------
(* Stacks: pushing and popping changes the slots from sp on, of one stack. *)
LEMMA PushedAt ==
  ASSUME NEW s, Shape(s), NEW ss \in Segments, NEW sp, NEW frames
  PROVE  /\ Shape(Pushed(s, ss, sp, frames))
         /\ \A q \in Segments, i \in Slots :
              Pushed(s, ss, sp, frames)[q][i] =
                IF q = ss /\ i \in sp + 1 .. sp + Len(frames) THEN frames[i - sp] ELSE s[q][i]
BY DEF Shape, Pushed, Segments

LEMMA PoppedAt ==
  ASSUME NEW s, Shape(s), NEW ss \in Segments, NEW sp
  PROVE  /\ Shape(Popped(s, ss, sp))
         /\ \A q \in Segments, i \in Slots :
              Popped(s, ss, sp)[q][i] = IF q = ss /\ ~(i <= sp) THEN FREE ELSE s[q][i]
BY DEF Shape, Popped, Segments

-----------------------------------------------------------------------------
(* Steps of a context, into a new one and back.                            *)

(* The first n slots of stack ss are the same in s and t.                  *)
Same(s, t, ss, n) == \A i \in 1 .. n : t[ss][i] = s[ss][i]
Below(n) == \A k \in 1 .. n : Same(stack, stack', Ctx(k).ss, Ctx(k).sp + 2)

LEMMA Levels ==
  ASSUME Nested
  PROVE  /\ Level \in Nat
         /\ \A k \in 1 .. Level + 1 :
              /\ Ctx(k).ss \in Segments /\ Ctx(k).sp \in 0 .. DEPTH
              /\ Ctx(k).pc.locals \in {0, 1} /\ Base(Ctx(k)) \in 0 .. Ctx(k).sp
         /\ Ctx(1).ss = "kernel"
         /\ \A k \in 2 .. Level + 1 : Ctx(k).ss = "kernel" => Base(Ctx(k)) >= 3
<1>1. Level \in Nat
  BY SeqLen DEF Nested, Types, Level
<1>2. \A k \in 1 .. Level + 1 : Ordinary(Ctx(k), k)
  BY DEF Nested, Placed
<1>3. \A k \in 1 .. Level + 1 :
        /\ Ctx(k).ss \in Segments /\ Ctx(k).sp \in 0 .. DEPTH
        /\ Ctx(k).pc.locals \in {0, 1} /\ Base(Ctx(k)) \in 0 .. Ctx(k).sp
  <2> SUFFICES ASSUME NEW k \in 1 .. Level + 1
               PROVE  /\ Ctx(k).ss \in Segments /\ Ctx(k).sp \in 0 .. DEPTH
                      /\ Ctx(k).pc.locals \in {0, 1} /\ Base(Ctx(k)) \in 0 .. Ctx(k).sp
    OBVIOUS
  <2>1. Ctx(k) \in Contexts /\ Base(Ctx(k)) \in 0 .. DEPTH
    BY <1>2 DEF Ordinary
  <2> QED BY <2>1, DepthAssumption DEF Contexts, Base
<1>4. Ctx(1).ss = "kernel"
  <2>1. 1 \in 1 .. Level + 1
    BY <1>1
  <2>2. Ordinary(Ctx(1), 1)
    BY <1>2, <2>1
  <2> QED BY <2>2 DEF Ordinary, Contexts, Segments
<1>5. ASSUME NEW k \in 2 .. Level + 1, Ctx(k).ss = "kernel"
      PROVE  Base(Ctx(k)) >= 3
  <2>1. 1 \in 1 .. Level + 1 /\ k \in 1 .. Level + 1 /\ 1 < k
    BY <1>1
  <2>2. Base(Ctx(k)) >= Ctx(1).sp + 3
    BY <1>4, <1>5, <2>1 DEF Nested, Apart
  <2>3. Ctx(1).sp \in Nat /\ Base(Ctx(k)) \in Int
    BY <1>3, <2>1, DepthAssumption
  <2> QED BY <2>2, <2>3
<1> QED BY <1>1, <1>3, <1>4, <1>5

(* What a context rests on is the same if its slots are.                   *)
LEMMA LeadsSame ==
  ASSUME NEW s, NEW t, NEW start, NEW c, NEW up, Leads(s, start, c, up),
         Base(up) \in Nat, up.ss \in Segments, up.ss = "kernel" => Base(up) >= 3,
         Same(s, t, up.ss, Base(up))
  PROVE  Leads(t, start, c, up)
BY DEF Leads, Same, Segments

LEMMA ResumableSame ==
  ASSUME NEW s, NEW t, NEW c, NEW held, Resumable(s, c, held), c.sp \in Nat,
         Same(s, t, c.ss, c.sp + 2)
  PROVE  Resumable(t, c, held)
BY DEF Resumable, Same

(* The context that runs goes on.                                          *)
LEMMA StepWithin ==
  ASSUME Nested, UNCHANGED <<suspended, kstack>>, Shape(stack'), Below(Level),
         Same(stack, stack', cpu.ss, Base(cpu)),
         Ordinary(cpu', Level + 1), cpu'.ss = cpu.ss, Base(cpu') = Base(cpu)
  PROVE  Nested'
<1>1. /\ Level \in Nat /\ Level' = Level
      /\ \A k \in 1 .. Level : Ctx(k)' = Ctx(k) /\ suspended'[k].held = suspended[k].held
      /\ Ctx(Level + 1)' = cpu' /\ Ctx(Level + 1) = cpu
  BY Levels DEF Level, Ctx
<1>2. Types'
  BY DEF Types, Nested
<1>3. Placed'
  BY <1>1 DEF Placed, Nested
<1>4. Saved'
  <2> SUFFICES ASSUME NEW k \in 1 .. Level
               PROVE  Resumable(stack', Ctx(k), suspended[k].held)
    BY <1>1 DEF Saved
  <2>1. Resumable(stack, Ctx(k), suspended[k].held) /\ Same(stack, stack', Ctx(k).ss, Ctx(k).sp + 2)
    BY DEF Nested, Saved, Below
  <2>2. Ctx(k).sp \in Nat
    BY <1>1, Levels, DepthAssumption
  <2> QED BY <2>1, <2>2, ResumableSame
<1>5. Linked'
  <2> SUFFICES ASSUME NEW k \in 1 .. Level
               PROVE  Leads(stack', kstack, Ctx(k), Ctx(k + 1)')
    BY <1>1 DEF Linked
  <2>1. /\ Leads(stack, kstack, Ctx(k), Ctx(k + 1))
        /\ Base(Ctx(k + 1)) \in Nat /\ Ctx(k + 1).sp \in Nat /\ Base(Ctx(k + 1)) <= Ctx(k + 1).sp
        /\ Ctx(k + 1).ss \in Segments
        /\ Ctx(k + 1).ss = "kernel" => Base(Ctx(k + 1)) >= 3
    BY <1>1, Levels, DepthAssumption DEF Nested, Linked
  <2>2. Same(stack, stack', Ctx(k + 1).ss, Base(Ctx(k + 1)))
    <3>1. CASE k = Level
      BY <1>1, <3>1
    <3>2. CASE k # Level
      <4>1. Same(stack, stack', Ctx(k + 1).ss, Ctx(k + 1).sp + 2)
        BY <1>1, <3>2 DEF Below
      <4> QED BY <2>1, <4>1 DEF Same
    <3> QED BY <3>1, <3>2
  <2>3. Leads(stack', kstack, Ctx(k), Ctx(k + 1))
    BY <2>1, <2>2, LeadsSame
  <2>4. Base(Ctx(k + 1)') = Base(Ctx(k + 1)) /\ Ctx(k + 1)'.ss = Ctx(k + 1).ss
    BY <1>1
  <2> QED BY <2>3, <2>4 DEF Leads
<1>6. Apart'
  <2> SUFFICES ASSUME NEW j \in 1 .. Level + 1, NEW k \in 1 .. Level + 1, j < k,
                      Ctx(j)'.ss = Ctx(k)'.ss
               PROVE  Base(Ctx(k)') >= Ctx(j)'.sp + 3
    BY <1>1 DEF Apart, Base
  <2>1. Ctx(j)' = Ctx(j)
    BY <1>1
  <2>2. Base(Ctx(k)') = Base(Ctx(k)) /\ Ctx(k)'.ss = Ctx(k).ss
    BY <1>1
  <2> QED BY <2>1, <2>2 DEF Nested, Apart
<1> QED BY <1>2, <1>3, <1>4, <1>5, <1>6 DEF Nested

(* The context that runs is suspended and another one starts above it.     *)
Suspends == suspended' = Append(suspended, [cpu |-> cpu, held |-> Held(cpu)])

LEMMA StepInto ==
  ASSUME Nested, Suspends, Shape(stack'),
         kstack' \in 0 .. DEPTH, Level >= 1 => kstack' = kstack,
         Below(Level), Same(stack, stack', cpu.ss, cpu.sp), cpu.sp + 2 <= DEPTH,
         stack'[cpu.ss][cpu.sp + 1] \in {<<"iret", cpu.pc>>, <<"ret", cpu.pc>>},
         Ordinary(cpu', Level + 2), Leads(stack', kstack', cpu, cpu'),
         \A j \in 1 .. Level + 1 : Ctx(j).ss = cpu'.ss => Base(cpu') >= Ctx(j).sp + 3
  PROVE  Nested'
<1>1. PICK n \in Nat : n = Level
  BY Levels
<1>2. /\ IsSeq(suspended') /\ Level' = n + 1
      /\ \A k \in 1 .. n : suspended'[k] = suspended[k]
      /\ suspended'[n + 1].cpu = cpu /\ suspended'[n + 1].held = Held(cpu)
  <2>1. IsSeq(suspended)
    BY DEF Nested, Types
  <2>2. /\ IsSeq(suspended') /\ Len(suspended') = n + 1
        /\ \A k \in 1 .. n : suspended'[k] = suspended[k]
        /\ suspended'[n + 1] = [cpu |-> cpu, held |-> Held(cpu)]
    BY <1>1, <2>1, SeqAppend DEF Level, Suspends
  <2> QED BY <2>2 DEF Level
<1>3. /\ \A k \in 1 .. n + 1 : Ctx(k)' = Ctx(k)
      /\ Ctx(n + 1) = cpu /\ Ctx(n + 2)' = cpu'
  <2>1. \A k \in 1 .. n : Ctx(k) = suspended[k].cpu /\ Ctx(k)' = suspended'[k].cpu
    BY <1>1, <1>2 DEF Ctx
  <2>2. Ctx(n + 1) = cpu /\ Ctx(n + 1)' = suspended'[n + 1].cpu /\ Ctx(n + 2)' = cpu'
    BY <1>1, <1>2 DEF Ctx
  <2> QED BY <1>2, <2>1, <2>2
<1>4. \A k \in 1 .. n + 1 :
        /\ Ctx(k).ss \in Segments /\ Ctx(k).sp \in Nat
        /\ Base(Ctx(k)) \in Nat /\ Base(Ctx(k)) <= Ctx(k).sp
        /\ k >= 2 /\ Ctx(k).ss = "kernel" => Base(Ctx(k)) >= 3
  BY <1>1, Levels, DepthAssumption
<1>5. Types'
  BY <1>2 DEF Types, Nested
<1>6. Placed'
  <2> SUFFICES ASSUME NEW k \in 1 .. n + 2
               PROVE  Ordinary(Ctx(k)', k)
    BY <1>1, <1>2 DEF Placed, Ordinary, Base
  <2>1. CASE k = n + 2
    BY <1>1, <1>3, <2>1
  <2>2. CASE k # n + 2
    BY <1>1, <1>3, <2>2 DEF Nested, Placed
  <2> QED BY <2>1, <2>2
<1>7. Saved'
  <2> SUFFICES ASSUME NEW k \in 1 .. n + 1
               PROVE  Resumable(stack', Ctx(k), suspended'[k].held)
    BY <1>2, <1>3 DEF Saved
  <2>1. CASE k = n + 1
    <3>1. Ctx(k) = cpu /\ suspended'[k].held = Held(cpu) /\ cpu.ss \in Segments /\ cpu.sp \in Nat
      BY <1>2, <1>3, <1>4, <2>1
    <3>2. \A i \in 1 .. cpu.sp : stack'[cpu.ss][i] = Held(cpu)[i]
      BY <3>1 DEF Same, Held
    <3> QED BY <3>1, <3>2 DEF Resumable
  <2>2. CASE k # n + 1
    <3>1. /\ k \in 1 .. Level
          /\ Resumable(stack, Ctx(k), suspended[k].held) /\ Same(stack, stack', Ctx(k).ss, Ctx(k).sp + 2)
      BY <1>1, <2>2 DEF Nested, Saved, Below
    <3> QED BY <1>1, <1>2, <1>4, <3>1, ResumableSame
  <2> QED BY <2>1, <2>2
<1>8. Linked'
  <2> SUFFICES ASSUME NEW k \in 1 .. n + 1
               PROVE  Leads(stack', kstack', Ctx(k)', Ctx(k + 1)')
    BY <1>2 DEF Linked, Leads, Base
  <2>1. CASE k = n + 1
    BY <1>3, <2>1
  <2>2. CASE k # n + 1
    <3>1. Leads(stack, kstack, Ctx(k), Ctx(k + 1)) /\ k \in 1 .. n /\ kstack' = kstack
      BY <1>1, <2>2 DEF Nested, Linked
    <3>2. Ctx(k)' = Ctx(k) /\ Ctx(k + 1)' = Ctx(k + 1)
      BY <1>3, <3>1
    <3>3. /\ Ctx(k + 1).ss \in Segments /\ Ctx(k + 1).sp \in Nat
          /\ Base(Ctx(k + 1)) \in Nat /\ Base(Ctx(k + 1)) <= Ctx(k + 1).sp
          /\ Ctx(k + 1).ss = "kernel" => Base(Ctx(k + 1)) >= 3
      BY <1>4, <3>1
    <3>4. Same(stack, stack', Ctx(k + 1).ss, Base(Ctx(k + 1)))
      <4>1. CASE k = n
        BY <1>3, <3>3, <4>1 DEF Same
      <4>2. CASE k # n
        <5>1. Same(stack, stack', Ctx(k + 1).ss, Ctx(k + 1).sp + 2)
          BY <1>1, <2>2, <4>2 DEF Below
        <5> QED BY <3>3, <5>1 DEF Same
      <4> QED BY <4>1, <4>2
    <3>5. Leads(stack', kstack, Ctx(k), Ctx(k + 1))
      BY <3>1, <3>3, <3>4, LeadsSame
    <3> QED BY <3>1, <3>2, <3>5
  <2> QED BY <2>1, <2>2
<1>9. Apart'
  <2> SUFFICES ASSUME NEW j \in 1 .. n + 2, NEW k \in 1 .. n + 2, j < k,
                      Ctx(j)'.ss = Ctx(k)'.ss
               PROVE  Base(Ctx(k)') >= Ctx(j)'.sp + 3
    BY <1>1, <1>2 DEF Apart, Base
  <2>1. j \in 1 .. n + 1 /\ Ctx(j)' = Ctx(j)
    BY <1>3
  <2>2. CASE k = n + 2
    BY <1>1, <1>3, <2>1, <2>2
  <2>3. CASE k # n + 2
    BY <1>1, <1>3, <2>1, <2>3 DEF Nested, Apart
  <2> QED BY <2>2, <2>3
<1> QED BY <1>5, <1>6, <1>7, <1>8, <1>9 DEF Nested

(* The context that runs ends and the one below it goes on.                *)
LEMMA StepBack ==
  ASSUME Nested, Level >= 1, suspended' = Front(suspended), kstack' = kstack,
         cpu' = Ctx(Level), Shape(stack'), Below(Level - 1),
         Same(stack, stack', Ctx(Level).ss, Ctx(Level).sp)
  PROVE  Nested'
<1>1. PICK n \in Nat : n = Level
  BY Levels
<1>2. /\ IsSeq(suspended') /\ Level' = n - 1 /\ n \in Nat \ {0}
      /\ \A k \in 1 .. n - 1 : suspended'[k] = suspended[k]
  BY <1>1, SeqFront DEF Level, Nested, Types
<1>3. \A k \in 1 .. n : Ctx(k)' = Ctx(k)
  BY <1>1, <1>2 DEF Ctx
<1>4. \A k \in 1 .. n :
        /\ Ctx(k).ss \in Segments /\ Ctx(k).sp \in Nat
        /\ Base(Ctx(k)) \in Nat /\ Base(Ctx(k)) <= Ctx(k).sp
        /\ k >= 2 /\ Ctx(k).ss = "kernel" => Base(Ctx(k)) >= 3
  BY <1>1, Levels, DepthAssumption
<1>5. Types'
  BY <1>2 DEF Types, Nested
<1>6. Placed'
  <2> SUFFICES ASSUME NEW k \in 1 .. n
               PROVE  Ordinary(Ctx(k)', k)
    BY <1>1, <1>2 DEF Placed, Ordinary, Base
  <2> QED BY <1>1, <1>3 DEF Nested, Placed
<1>7. Saved'
  <2> SUFFICES ASSUME NEW k \in 1 .. n - 1
               PROVE  Resumable(stack', Ctx(k), suspended[k].held)
    BY <1>2, <1>3 DEF Saved, Resumable
  <2>1. /\ k \in 1 .. Level
        /\ Resumable(stack, Ctx(k), suspended[k].held) /\ Same(stack, stack', Ctx(k).ss, Ctx(k).sp + 2)
    BY <1>1 DEF Nested, Saved, Below
  <2> QED BY <1>1, <1>4, <2>1, ResumableSame
<1>8. Linked'
  <2> SUFFICES ASSUME NEW k \in 1 .. n - 1
               PROVE  Leads(stack', kstack, Ctx(k)', Ctx(k + 1)')
    BY <1>2 DEF Linked, Leads, Base
  <2>1. /\ Leads(stack, kstack, Ctx(k), Ctx(k + 1)) /\ k + 1 \in 2 .. n
        /\ Ctx(k)' = Ctx(k) /\ Ctx(k + 1)' = Ctx(k + 1)
    BY <1>1, <1>3 DEF Nested, Linked
  <2>2. Same(stack, stack', Ctx(k + 1).ss, Base(Ctx(k + 1)))
    <3>1. CASE k = n - 1
      BY <1>1, <1>4, <3>1 DEF Same
    <3>2. CASE k # n - 1
      <4>1. Same(stack, stack', Ctx(k + 1).ss, Ctx(k + 1).sp + 2)
        BY <1>1, <3>2 DEF Below
      <4> QED BY <1>4, <2>1, <4>1 DEF Same
    <3> QED BY <3>1, <3>2
  <2> QED BY <1>4, <2>1, <2>2, LeadsSame
<1>9. Apart'
  <2> SUFFICES ASSUME NEW j \in 1 .. n, NEW k \in 1 .. n, j < k,
                      Ctx(j)'.ss = Ctx(k)'.ss
               PROVE  Base(Ctx(k)') >= Ctx(j)'.sp + 3
    BY <1>1, <1>2 DEF Apart, Base
  <2> QED BY <1>1, <1>3 DEF Nested, Apart
<1> QED BY <1>5, <1>6, <1>7, <1>8, <1>9 DEF Nested

-----------------------------------------------------------------------------
(* The actions.                                                            *)
LEMMA Running ==
  ASSUME Nested
  PROVE  /\ Level \in Nat /\ Shape(stack) /\ kstack \in 0 .. DEPTH
         /\ Ordinary(cpu, Level + 1)
         /\ cpu \in Contexts /\ cpu.ss \in Segments /\ cpu.sp \in 0 .. DEPTH
         /\ Base(cpu) \in 0 .. cpu.sp
         /\ \A k \in 1 .. Level :
              /\ Ctx(k) \in Contexts /\ Ctx(k).ss \in Segments
              /\ Ctx(k).sp \in Nat /\ Ctx(k).sp + 2 <= DEPTH
              /\ Ctx(k).ss = cpu.ss => Ctx(k).sp + 3 <= Base(cpu)
<1>1. Level \in Nat /\ Ctx(Level + 1) = cpu
  BY Levels DEF Ctx
<1>2. Ordinary(cpu, Level + 1)
  <2>1. Level + 1 \in 1 .. Level + 1
    BY <1>1
  <2> QED BY <1>1, <2>1 DEF Nested, Placed
<1>3. cpu.ss \in Segments /\ cpu.sp \in 0 .. DEPTH /\ Base(cpu) \in 0 .. cpu.sp
  <2>1. Level + 1 \in 1 .. Level + 1
    BY <1>1
  <2> QED BY <1>1, <2>1, Levels
<1>4. ASSUME NEW k \in 1 .. Level
      PROVE  /\ Ctx(k) \in Contexts /\ Ctx(k).ss \in Segments
             /\ Ctx(k).sp \in Nat /\ Ctx(k).sp + 2 <= DEPTH
             /\ Ctx(k).ss = cpu.ss => Ctx(k).sp + 3 <= Base(cpu)
  <2>1. k \in 1 .. Level + 1 /\ Level + 1 \in 1 .. Level + 1 /\ k < Level + 1
    BY <1>1
  <2>2. Ordinary(Ctx(k), k) /\ Resumable(stack, Ctx(k), suspended[k].held)
    BY <2>1 DEF Nested, Placed, Saved
  <2>3. Ctx(k).ss = cpu.ss => Base(cpu) >= Ctx(k).sp + 3
    BY <1>1, <2>1 DEF Nested, Apart
  <2>4. Ctx(k).ss \in Segments /\ Ctx(k).sp \in Nat
    BY <2>1, Levels, DepthAssumption
  <2> QED BY <1>3, <2>2, <2>3, <2>4, DepthAssumption DEF Ordinary, Resumable
<1> QED BY <1>1, <1>2, <1>3, <1>4 DEF Nested, Types, Ordinary

(* Slots that nothing below rests on may change.                           *)
LEMMA Untouched ==
  ASSUME Nested,
         \A q \in Segments, i \in Slots :
           (q # cpu.ss \/ i <= Base(cpu)) => stack'[q][i] = stack[q][i]
  PROVE  Below(Level) /\ Same(stack, stack', cpu.ss, Base(cpu))
<1>1. ASSUME NEW k \in 1 .. Level
      PROVE  Same(stack, stack', Ctx(k).ss, Ctx(k).sp + 2)
  <2>1. /\ Ctx(k).ss \in Segments /\ Ctx(k).sp \in Nat /\ Ctx(k).sp + 2 <= DEPTH
        /\ Ctx(k).ss = cpu.ss => Ctx(k).sp + 3 <= Base(cpu)
        /\ Base(cpu) \in Int
    BY Running, DepthAssumption
  <2> QED BY <2>1, DepthAssumption DEF Same, Slots
<1>2. cpu.ss \in Segments /\ cpu.sp \in 0 .. DEPTH /\ Base(cpu) \in 0 .. cpu.sp
  BY Running
<1> QED BY <1>1, <1>2, DepthAssumption DEF Below, Same, Slots

(* The record of a context, field by field.                                *)
LEMMA Fields ==
  ASSUME NEW c \in Contexts
  PROVE  /\ c = [pc |-> c.pc, ss |-> c.ss, sp |-> c.sp]
         /\ c.pc = [who |-> c.pc.who, at |-> c.pc.at, locals |-> c.pc.locals]
<1>1. c = [pc |-> c.pc, ss |-> c.ss, sp |-> c.sp]
  BY DEF Contexts
<1>2. c.pc \in [who : Handlers \cup {"cli", "user", "service"},
                at : {"body", "master", "leave", "stored"}, locals : {0, 1}]
  BY DEF Contexts
<1>3. c.pc = [who |-> c.pc.who, at |-> c.pc.at, locals |-> c.pc.locals]
  BY <1>2
<1> QED BY <1>1, <1>3

LEMMA NestedUseStack ==
  ASSUME Nested, UseStack
  PROVE  Nested'
<1>1. /\ UNCHANGED <<suspended, kstack>> /\ cpu.pc.at = "body"
      /\ Shape(stack) /\ Ordinary(cpu, Level + 1) /\ cpu \in Contexts
      /\ cpu.ss \in Segments /\ cpu.sp \in 0 .. DEPTH /\ Base(cpu) \in 0 .. cpu.sp
  BY Running DEF UseStack
<1>2. CASE cpu.pc.locals = 0 /\ cpu.sp < DEPTH /\ stack' = Pushed(stack, cpu.ss, cpu.sp, <<<<"data", Len(suspended)>>>>)
           /\ cpu' = [cpu EXCEPT !.pc.locals = 1, !.sp = @ + 1]
  <2>1. /\ cpu' = [pc |-> [who |-> cpu.pc.who, at |-> "body", locals |-> 1],
                  ss |-> cpu.ss, sp |-> cpu.sp + 1]
        /\ Base(cpu) = cpu.sp /\ Base(cpu') = cpu.sp
    <3>1. /\ cpu = [pc |-> cpu.pc, ss |-> cpu.ss, sp |-> cpu.sp]
          /\ cpu.pc = [who |-> cpu.pc.who, at |-> "body", locals |-> 0]
      BY <1>1, <1>2, Fields
    <3>2. PICK who, ss, sp : cpu = [pc |-> [who |-> who, at |-> "body", locals |-> 0], ss |-> ss, sp |-> sp]
      BY <3>1
    <3>3. cpu' = [cpu EXCEPT !.pc.locals = 1, !.sp = @ + 1] /\ cpu.sp \in Int
      BY <1>1, <1>2, DepthAssumption
    <3>4. cpu' = [pc |-> [who |-> who, at |-> "body", locals |-> 1], ss |-> ss, sp |-> sp + 1]
      BY <3>2, <3>3
    <3>5. cpu.pc.who = who /\ cpu.ss = ss /\ cpu.sp = sp /\ cpu.pc.locals = 0 /\ sp \in Int
      BY <3>2, <3>3
    <3>6. cpu'.sp = sp + 1 /\ cpu'.pc.locals = 1
      BY <3>4
    <3>7. Base(cpu) = sp /\ Base(cpu') = sp
      BY <3>5, <3>6 DEF Base
    <3> QED BY <3>4, <3>5, <3>7
  <2>2. Ordinary(cpu', Level + 1)
    BY <1>1, <1>2, <2>1, DepthAssumption DEF Ordinary, Contexts
  <2>3. /\ Shape(stack')
        /\ \A q \in Segments, i \in Slots :
             (q # cpu.ss \/ i <= Base(cpu)) => stack'[q][i] = stack[q][i]
    <3> DEFINE frames == <<<<"data", Len(suspended)>>>>
    <3>0. stack' = Pushed(stack, cpu.ss, cpu.sp, frames)
      BY <1>2
    <3> HIDE DEF frames
    <3>1. /\ Shape(stack')
          /\ \A q \in Segments, i \in Slots :
               stack'[q][i] = IF q = cpu.ss /\ i \in cpu.sp + 1 .. cpu.sp + Len(frames)
                              THEN frames[i - cpu.sp] ELSE stack[q][i]
      BY <1>1, <3>0, PushedAt
    <3> QED BY <1>1, <2>1, <3>1 DEF Slots
  <2> QED BY <1>1, <2>1, <2>2, <2>3, Untouched, StepWithin
<1>3. CASE cpu.pc.locals = 1 /\ stack' = Popped(stack, cpu.ss, cpu.sp - 1)
           /\ cpu' = [cpu EXCEPT !.pc.locals = 0, !.sp = @ - 1]
  <2>1. /\ cpu' = [pc |-> [who |-> cpu.pc.who, at |-> "body", locals |-> 0],
                  ss |-> cpu.ss, sp |-> cpu.sp - 1]
        /\ Base(cpu) = cpu.sp - 1 /\ Base(cpu') = cpu.sp - 1
    <3>1. /\ cpu = [pc |-> cpu.pc, ss |-> cpu.ss, sp |-> cpu.sp]
          /\ cpu.pc = [who |-> cpu.pc.who, at |-> "body", locals |-> 1]
      BY <1>1, <1>3, Fields
    <3>2. PICK who, ss, sp : cpu = [pc |-> [who |-> who, at |-> "body", locals |-> 1], ss |-> ss, sp |-> sp]
      BY <3>1
    <3>3. cpu' = [cpu EXCEPT !.pc.locals = 0, !.sp = @ - 1] /\ cpu.sp \in Int
      BY <1>1, <1>3, DepthAssumption
    <3>4. cpu' = [pc |-> [who |-> who, at |-> "body", locals |-> 0], ss |-> ss, sp |-> sp - 1]
      BY <3>2, <3>3
    <3>5. cpu.pc.who = who /\ cpu.ss = ss /\ cpu.sp = sp /\ cpu.pc.locals = 1 /\ sp \in Int
      BY <3>2, <3>3
    <3>6. cpu'.sp = sp - 1 /\ cpu'.pc.locals = 0
      BY <3>4
    <3>7. Base(cpu) = sp - 1 /\ Base(cpu') = sp - 1
      BY <3>5, <3>6 DEF Base
    <3> QED BY <3>4, <3>5, <3>7
  <2>2. Ordinary(cpu', Level + 1)
    BY <1>1, <1>3, <2>1, DepthAssumption DEF Ordinary, Contexts
  <2>3. /\ Shape(stack')
        /\ \A q \in Segments, i \in Slots :
             (q # cpu.ss \/ i <= Base(cpu)) => stack'[q][i] = stack[q][i]
    <3>1. /\ Shape(stack')
          /\ \A q \in Segments, i \in Slots :
               stack'[q][i] = IF q = cpu.ss /\ ~(i <= cpu.sp - 1) THEN FREE ELSE stack[q][i]
      BY <1>1, <1>3, PoppedAt
    <3> QED BY <1>1, <2>1, <3>1 DEF Slots
  <2> QED BY <1>1, <2>1, <2>2, <2>3, Untouched, StepWithin
<1> QED BY <1>2, <1>3 DEF UseStack

LEMMA NestedHandling ==
  ASSUME Nested, Acknowledge \/ StoreReturn
  PROVE  Nested'
<1>1. /\ Shape(stack) /\ Ordinary(cpu, Level + 1) /\ cpu \in Contexts
      /\ cpu.ss \in Segments /\ cpu.sp \in 0 .. DEPTH /\ Base(cpu) \in 0 .. cpu.sp
  BY Running
<1>2. PICK at \in {"master", "leave", "stored"} : cpu' = [cpu EXCEPT !.pc.at = at]
  BY DEF Acknowledge, StoreReturn
<1>3. UNCHANGED <<stack, suspended, kstack>> /\ cpu.pc.locals = 0
  BY <1>1 DEF Acknowledge, StoreReturn, Handling, Ordinary
<1>4. /\ cpu' = [pc |-> [cpu.pc EXCEPT !.at = at], ss |-> cpu.ss, sp |-> cpu.sp]
      /\ cpu'.pc = [who |-> cpu.pc.who, at |-> at, locals |-> 0]
      /\ Base(cpu') = Base(cpu)
  BY <1>1, <1>2, <1>3 DEF Contexts, Base
<1>5. Ordinary(cpu', Level + 1)
  BY <1>1, <1>3, <1>4 DEF Ordinary, Contexts
<1> QED BY <1>1, <1>3, <1>4, <1>5, Untouched, StepWithin

(* One frame pushed, or two at once.                                       *)
Push1(s, ss, sp, a)    == Pushed(s, ss, sp, <<a>>)
Push2(s, ss, sp, a, b) == Pushed(s, ss, sp, <<a, b>>)

LEMMA PushedOne ==
  ASSUME NEW s, Shape(s), NEW ss \in Segments, NEW sp \in Nat, NEW a
  PROVE  /\ Shape(Push1(s, ss, sp, a))
         /\ \A q \in Segments, i \in Slots :
              (q # ss \/ i # sp + 1) => Push1(s, ss, sp, a)[q][i] = s[q][i]
         /\ sp + 1 \in Slots => Push1(s, ss, sp, a)[ss][sp + 1] = a
<1> DEFINE frames == <<a>>
           t == Pushed(s, ss, sp, frames)
<1>1. Len(frames) = 1 /\ frames[1] = a
  OBVIOUS
<1> HIDE DEF frames
<1>2. /\ Shape(t)
      /\ \A q \in Segments, i \in Slots :
           t[q][i] = IF q = ss /\ i \in sp + 1 .. sp + Len(frames) THEN frames[i - sp] ELSE s[q][i]
  BY PushedAt
<1> HIDE DEF t
<1>3. \A q \in Segments, i \in Slots : (q # ss \/ i # sp + 1) => t[q][i] = s[q][i]
  BY <1>1, <1>2 DEF Slots
<1>4. ASSUME sp + 1 \in Slots
      PROVE  t[ss][sp + 1] = a
  <2>1. t[ss][sp + 1] = frames[(sp + 1) - sp] /\ (sp + 1) - sp = 1
    BY <1>1, <1>2, <1>4
  <2> QED BY <1>1, <2>1
<1> QED BY <1>2, <1>3, <1>4 DEF t, frames, Push1

LEMMA PushedTwo ==
  ASSUME NEW s, Shape(s), NEW ss \in Segments, NEW sp \in Nat, NEW a, NEW b
  PROVE  /\ Shape(Push2(s, ss, sp, a, b))
         /\ \A q \in Segments, i \in Slots :
              (q # ss \/ i <= sp) => Push2(s, ss, sp, a, b)[q][i] = s[q][i]
         /\ sp + 1 \in Slots => Push2(s, ss, sp, a, b)[ss][sp + 1] = a
<1> DEFINE frames == <<a, b>>
           t == Pushed(s, ss, sp, frames)
<1>1. Len(frames) = 2 /\ frames[1] = a
  OBVIOUS
<1> HIDE DEF frames
<1>2. /\ Shape(t)
      /\ \A q \in Segments, i \in Slots :
           t[q][i] = IF q = ss /\ i \in sp + 1 .. sp + Len(frames) THEN frames[i - sp] ELSE s[q][i]
  BY PushedAt
<1> HIDE DEF t
<1>3. \A q \in Segments, i \in Slots : (q # ss \/ i <= sp) => t[q][i] = s[q][i]
  BY <1>1, <1>2 DEF Slots
<1>4. ASSUME sp + 1 \in Slots
      PROVE  t[ss][sp + 1] = a
  <2>1. t[ss][sp + 1] = frames[(sp + 1) - sp] /\ (sp + 1) - sp = 1
    BY <1>1, <1>2, <1>4
  <2> QED BY <1>1, <2>1
<1> QED BY <1>2, <1>3, <1>4 DEF t, frames, Push2

(* A program is entered from the command line only, so the level of what   *)
(* runs is known by the stack it runs on.                                  *)
LEMMA OnUserStack ==
  ASSUME Nested, cpu.ss = "user"
  PROVE  /\ Level = 1 /\ Ctx(1).ss = "kernel" /\ cpu.pc.who = "user"
         /\ Leads(stack, kstack, Ctx(1), cpu) /\ kstack = Ctx(1).sp + 2 /\ Base(cpu) = 2
<1>1. Level = 1 /\ cpu.pc.who = "user"
  BY Running DEF Ordinary
<1>2. Ctx(1).ss = "kernel"
  BY Levels
<1>3. Leads(stack, kstack, Ctx(1), Ctx(1 + 1))
  <2>1. 1 \in 1 .. Level
    BY <1>1
  <2> QED BY <2>1 DEF Nested, Linked
<1>4. Ctx(1 + 1) = cpu
  BY <1>1 DEF Ctx
<1> QED BY <1>1, <1>2, <1>3, <1>4 DEF Leads

LEMMA NestedEnter ==
  ASSUME Nested, NEW who \in Handlers \cup {"service"}, Enter(Body(who))
  PROVE  Nested'
<1> DEFINE ksp == KernelSp(cpu.sp + 2)
           mid == Push2(stack, cpu.ss, cpu.sp, <<"iret", cpu.pc>>, <<"regs">>)
<1>1. /\ cpu.sp + 2 <= DEPTH /\ ksp < DEPTH
      /\ stack' = Push1(mid, "kernel", ksp, <<"old", cpu.ss, cpu.sp + 2>>)
      /\ cpu' = [pc |-> Body(who), ss |-> "kernel", sp |-> ksp + 1]
      /\ Suspends /\ kstack' = kstack
  BY DEF Enter, Suspends, Push1, Push2
<1>2. /\ Level \in Nat /\ Shape(stack) /\ kstack \in 0 .. DEPTH
      /\ cpu \in Contexts /\ cpu.ss \in Segments /\ cpu.sp \in 0 .. DEPTH
      /\ Base(cpu) \in 0 .. cpu.sp /\ DEPTH \in Nat
  BY Running, DepthAssumption
<1> HIDE DEF ksp, mid
<1>3. /\ ksp \in Nat
      /\ cpu.ss = "kernel" => ksp = cpu.sp + 2
      /\ \A j \in 1 .. Level + 1 : Ctx(j).ss = "kernel" => ksp >= Ctx(j).sp + 2
  <2>0. Ctx(Level + 1) = cpu
    BY <1>2 DEF Ctx
  <2>1. CASE cpu.ss = "kernel"
    <3>1. ksp = cpu.sp + 2
      BY <2>1 DEF ksp, KernelSp
    <3>2. ASSUME NEW j \in 1 .. Level + 1, Ctx(j).ss = "kernel"
          PROVE  ksp >= Ctx(j).sp + 2
      <4>1. CASE j = Level + 1
        BY <1>2, <2>0, <3>1, <4>1
      <4>2. CASE j # Level + 1
        <5>1. j \in 1 .. Level
          BY <1>2, <4>2
        <5>2. Ctx(j).sp \in Nat /\ Ctx(j).sp + 3 <= Base(cpu)
          BY <2>1, <3>2, <5>1, Running
        <5> QED BY <1>2, <3>1, <5>2
      <4> QED BY <4>1, <4>2
    <3> QED BY <1>2, <3>1, <3>2
  <2>2. CASE cpu.ss # "kernel"
    <3>1. cpu.ss = "user" /\ ksp = kstack
      BY <1>2, <2>2 DEF ksp, KernelSp, Segments
    <3>2. Level = 1 /\ kstack = Ctx(1).sp + 2
      BY <3>1, OnUserStack
    <3>3. ASSUME NEW j \in 1 .. Level + 1, Ctx(j).ss = "kernel"
          PROVE  ksp >= Ctx(j).sp + 2
      <4>1. j # 2
        BY <2>0, <2>2, <3>2, <3>3
      <4>2. j = 1
        BY <3>2, <4>1
      <4> QED BY <1>2, <3>1, <3>2, <4>2
    <3> QED BY <1>2, <2>2, <3>1, <3>3
  <2> QED BY <2>1, <2>2
<1>4. /\ Shape(mid)
      /\ \A q \in Segments, i \in Slots : (q # cpu.ss \/ i <= cpu.sp) => mid[q][i] = stack[q][i]
      /\ mid[cpu.ss][cpu.sp + 1] = <<"iret", cpu.pc>>
  BY <1>1, <1>2, PushedTwo DEF mid, Slots
<1>5. /\ Shape(stack')
      /\ \A q \in Segments, i \in Slots : (q # "kernel" \/ i # ksp + 1) => stack'[q][i] = mid[q][i]
      /\ stack'["kernel"][ksp + 1] = <<"old", cpu.ss, cpu.sp + 2>>
  BY <1>1, <1>2, <1>3, <1>4, PushedOne DEF Slots, Segments
<1>6. \A q \in Segments, i \in Slots :
        ((q # cpu.ss \/ i <= cpu.sp) /\ (q # "kernel" \/ i <= ksp)) => stack'[q][i] = stack[q][i]
  BY <1>3, <1>4, <1>5 DEF Slots
<1>7. Below(Level)
  <2> SUFFICES ASSUME NEW k \in 1 .. Level
               PROVE  Same(stack, stack', Ctx(k).ss, Ctx(k).sp + 2)
    BY DEF Below
  <2>1. /\ Ctx(k).ss \in Segments /\ Ctx(k).sp \in Nat /\ Ctx(k).sp + 2 <= DEPTH
        /\ Ctx(k).ss = cpu.ss => Ctx(k).sp + 3 <= Base(cpu)
        /\ Ctx(k).ss = "kernel" => ksp >= Ctx(k).sp + 2
    BY <1>2, <1>3, Running
  <2> QED BY <1>2, <1>3, <1>6, <2>1 DEF Same, Slots
<1>8. Same(stack, stack', cpu.ss, cpu.sp)
  BY <1>2, <1>3, <1>6 DEF Same, Slots
<1>9. stack'[cpu.ss][cpu.sp + 1] = <<"iret", cpu.pc>>
  <2>1. cpu.sp + 1 \in Slots
    BY <1>1, <1>2 DEF Slots
  <2>2. cpu.ss # "kernel" \/ cpu.sp + 1 # ksp + 1
    BY <1>2, <1>3
  <2> QED BY <1>2, <1>4, <1>5, <2>1, <2>2
<1>10. /\ cpu'.ss = "kernel" /\ cpu'.sp = ksp + 1 /\ Base(cpu') = ksp + 1
       /\ cpu'.pc = [who |-> who, at |-> "body", locals |-> 0]
  BY <1>1, <1>3 DEF Body, Pc, Base
<1>11. Ordinary(cpu', Level + 2)
  <2>1. cpu' \in Contexts
    <3>1. /\ cpu' = [pc |-> [who |-> who, at |-> "body", locals |-> 0], ss |-> "kernel", sp |-> ksp + 1]
          /\ ksp + 1 \in 0 .. DEPTH
      BY <1>1, <1>2, <1>3 DEF Body, Pc
    <3> QED BY <3>1 DEF Contexts, Segments
  <2>2. who # "cli" /\ who # "user"
    BY DEF Handlers
  <2>3. Base(cpu') \in 0 .. DEPTH /\ Level + 2 # 1
    BY <1>1, <1>2, <1>3, <1>10
  <2> QED BY <1>10, <2>1, <2>2, <2>3 DEF Ordinary
<1>12. Leads(stack', kstack', cpu, cpu')
  <2>1. stack'["kernel"][Base(cpu')] = <<"old", cpu.ss, cpu.sp + 2>> /\ cpu'.ss # "user"
    BY <1>5, <1>10
  <2> QED BY <2>1 DEF Leads
<1>13. \A j \in 1 .. Level + 1 : Ctx(j).ss = cpu'.ss => Base(cpu') >= Ctx(j).sp + 3
  <2> SUFFICES ASSUME NEW j \in 1 .. Level + 1, Ctx(j).ss = "kernel"
               PROVE  ksp + 1 >= Ctx(j).sp + 3
    BY <1>10
  <2>1. ksp >= Ctx(j).sp + 2 /\ Ctx(j).sp \in Nat
    BY <1>2, <1>3, Levels
  <2> QED BY <1>3, <2>1
<1> QED BY <1>1, <1>2, <1>5, <1>7, <1>8, <1>9, <1>11, <1>12, <1>13, StepInto

LEMMA NestedProgramCall ==
  ASSUME Nested, uprog_call
  PROVE  Nested'
<1> DEFINE mid == Push2(stack, "kernel", cpu.sp, <<"ret", cpu.pc>>, <<"regs">>)
<1>1. /\ cpu.pc.who = "cli" /\ cpu.sp + 2 <= DEPTH
      /\ stack' = Push2(mid, "user", 0, <<"old", "kernel", cpu.sp + 2>>, <<"args">>)
      /\ cpu' = [pc |-> USER, ss |-> "user", sp |-> 2]
      /\ Suspends /\ kstack' = cpu.sp + 2
  BY DEF uprog_call, Suspends, Push2
<1>2. /\ Shape(stack) /\ cpu \in Contexts /\ cpu.sp \in 0 .. DEPTH
      /\ Level = 0 /\ cpu.ss = "kernel" /\ DEPTH \in Nat /\ DEPTH >= 5
  BY <1>1, Running, DepthAssumption DEF Ordinary, Segments
<1> HIDE DEF mid
<1>3. /\ Shape(mid)
      /\ \A q \in Segments, i \in Slots : (q # "kernel" \/ i <= cpu.sp) => mid[q][i] = stack[q][i]
      /\ mid["kernel"][cpu.sp + 1] = <<"ret", cpu.pc>>
  BY <1>1, <1>2, PushedTwo DEF mid, Slots, Segments
<1>4. /\ Shape(stack')
      /\ \A q \in Segments, i \in Slots : q # "user" => stack'[q][i] = mid[q][i]
      /\ stack'["user"][1] = <<"old", "kernel", cpu.sp + 2>>
  <2>1. 0 \in Nat /\ 0 + 1 = 1 /\ 1 \in Slots /\ "user" \in Segments
    BY <1>2 DEF Slots, Segments
  <2> QED BY <1>1, <1>3, <2>1, PushedTwo
<1>5. Below(Level)
  BY <1>2 DEF Below
<1>6. Same(stack, stack', cpu.ss, cpu.sp)
  BY <1>2, <1>3, <1>4 DEF Same, Slots, Segments
<1>7. stack'[cpu.ss][cpu.sp + 1] = <<"ret", cpu.pc>>
  <2>1. cpu.sp + 1 \in Slots /\ "kernel" \in Segments
    BY <1>1, <1>2 DEF Slots, Segments
  <2> QED BY <1>2, <1>3, <1>4, <2>1
<1>8. /\ cpu'.ss = "user" /\ cpu'.sp = 2 /\ Base(cpu') = 2
      /\ cpu'.pc = [who |-> "user", at |-> "body", locals |-> 0]
  BY <1>1 DEF USER, Body, Pc, Base
<1>9. Ordinary(cpu', Level + 2)
  <2>1. cpu' \in Contexts
    <3>1. /\ cpu' = [pc |-> [who |-> "user", at |-> "body", locals |-> 0], ss |-> "user", sp |-> 2]
          /\ 2 \in 0 .. DEPTH
      BY <1>1, <1>2 DEF USER, Body, Pc
    <3> QED BY <3>1 DEF Contexts, Segments
  <2> QED BY <1>2, <1>8, <2>1 DEF Ordinary
<1>10. Leads(stack', kstack', cpu, cpu')
  BY <1>1, <1>2, <1>4, <1>8 DEF Leads
<1>11. \A j \in 1 .. Level + 1 : Ctx(j).ss = cpu'.ss => Base(cpu') >= Ctx(j).sp + 3
  BY <1>2, <1>8 DEF Ctx
<1>12. kstack' \in 0 .. DEPTH
  BY <1>1, <1>2
<1>13. Suspends /\ cpu.sp + 2 <= DEPTH /\ (Level >= 1 => kstack' = kstack)
  BY <1>1, <1>2
<1>14. stack'[cpu.ss][cpu.sp + 1] \in {<<"iret", cpu.pc>>, <<"ret", cpu.pc>>}
  BY <1>7
<1> QED BY <1>4, <1>5, <1>6, <1>9, <1>10, <1>11, <1>12, <1>13, <1>14, StepInto

(* The context that is gone back to, as its own stack and the one above    *)
(* its own tell it.                                                        *)
LEMMA WayBack ==
  ASSUME Nested, Level >= 1
  PROVE  LET c == Ctx(Level)
         IN  /\ Leads(stack, kstack, c, cpu)
             /\ stack[c.ss][c.sp + 1] \in {<<"iret", c.pc>>, <<"ret", c.pc>>}
             /\ c = [pc |-> c.pc, ss |-> c.ss, sp |-> c.sp]
             /\ c.ss \in Segments /\ c.sp \in Nat /\ c.sp + 2 <= DEPTH
             /\ c.ss = cpu.ss => c.sp + 3 <= Base(cpu)
             /\ \A k \in 1 .. Level - 1 :
                  /\ Ctx(k).ss \in Segments /\ Ctx(k).sp \in Nat /\ Ctx(k).sp + 2 <= DEPTH
                  /\ Ctx(k).ss = c.ss => Ctx(k).sp + 3 <= c.sp
                  /\ Ctx(k).ss = cpu.ss => Ctx(k).sp + 3 <= Base(cpu)
<1>1. PICK n \in Nat \ {0} : n = Level
  BY Levels
<1>2. n \in 1 .. Level /\ n \in 1 .. Level + 1 /\ Ctx(n + 1) = cpu
  BY <1>1 DEF Ctx
<1>3. Leads(stack, kstack, Ctx(n), cpu) /\ Resumable(stack, Ctx(n), suspended[n].held)
  BY <1>2 DEF Nested, Linked, Saved
<1>4. /\ Ctx(n) \in Contexts /\ Ctx(n).ss \in Segments
      /\ Ctx(n).sp \in Nat /\ Ctx(n).sp + 2 <= DEPTH
      /\ Ctx(n).ss = cpu.ss => Ctx(n).sp + 3 <= Base(cpu)
  BY <1>2, Running
<1>5. Base(Ctx(n)) \in 0 .. Ctx(n).sp
  BY <1>2, Levels
<1>6. ASSUME NEW k \in 1 .. n - 1
      PROVE  /\ Ctx(k).ss \in Segments /\ Ctx(k).sp \in Nat /\ Ctx(k).sp + 2 <= DEPTH
             /\ Ctx(k).ss = Ctx(n).ss => Ctx(k).sp + 3 <= Ctx(n).sp
             /\ Ctx(k).ss = cpu.ss => Ctx(k).sp + 3 <= Base(cpu)
  <2>1. k \in 1 .. Level /\ k \in 1 .. Level + 1 /\ k < n
    BY <1>1
  <2>2. Ctx(k).ss = Ctx(n).ss => Base(Ctx(n)) >= Ctx(k).sp + 3
    BY <1>2, <2>1 DEF Nested, Apart
  <2>3. /\ Ctx(k).ss \in Segments /\ Ctx(k).sp \in Nat /\ Ctx(k).sp + 2 <= DEPTH
        /\ Ctx(k).ss = cpu.ss => Ctx(k).sp + 3 <= Base(cpu)
    BY <2>1, Running
  <2> QED BY <1>4, <1>5, <2>2, <2>3
<1>7. Ctx(n) = [pc |-> Ctx(n).pc, ss |-> Ctx(n).ss, sp |-> Ctx(n).sp]
  BY <1>4, Fields
<1>8. stack[Ctx(n).ss][Ctx(n).sp + 1] \in {<<"iret", Ctx(n).pc>>, <<"ret", Ctx(n).pc>>}
  BY <1>3 DEF Resumable
<1> DEFINE c == Ctx(n)
<1>9. /\ Leads(stack, kstack, c, cpu)
      /\ stack[c.ss][c.sp + 1] \in {<<"iret", c.pc>>, <<"ret", c.pc>>}
      /\ c = [pc |-> c.pc, ss |-> c.ss, sp |-> c.sp]
      /\ c.ss \in Segments /\ c.sp \in Nat /\ c.sp + 2 <= DEPTH
      /\ c.ss = cpu.ss => c.sp + 3 <= Base(cpu)
      /\ \A k \in 1 .. n - 1 :
           /\ Ctx(k).ss \in Segments /\ Ctx(k).sp \in Nat /\ Ctx(k).sp + 2 <= DEPTH
           /\ Ctx(k).ss = c.ss => Ctx(k).sp + 3 <= c.sp
           /\ Ctx(k).ss = cpu.ss => Ctx(k).sp + 3 <= Base(cpu)
  BY <1>3, <1>4, <1>6, <1>7, <1>8, Zenon
<1>10. Ctx(Level) = c /\ 1 .. Level - 1 = 1 .. n - 1
  BY <1>1
<1> HIDE DEF c
<1> QED BY <1>9, <1>10, Zenon

(* The context that runs ends, and the one it suspended goes on.           *)
Resumes == Level >= 1 /\ cpu' = Ctx(Level) /\ suspended' = Front(suspended)

LEMMA NestedResume ==
  ASSUME Nested, cpu.pc.who \notin {"cli", "user"}, cpu.pc.locals = 0, Resume
  PROVE  Nested' /\ Resumes
<1> DEFINE c   == Ctx(Level)
           mid == Popped(stack, "kernel", cpu.sp - 1)
<1>1. /\ Shape(stack) /\ cpu.sp \in 0 .. DEPTH /\ DEPTH \in Nat
      /\ cpu.ss = "kernel" /\ Level >= 1 /\ Level \in Nat /\ Base(cpu) = cpu.sp
  BY Running, DepthAssumption DEF Ordinary, Segments, Base
<1>2. /\ Leads(stack, kstack, c, cpu)
      /\ stack[c.ss][c.sp + 1] \in {<<"iret", c.pc>>, <<"ret", c.pc>>}
      /\ c = [pc |-> c.pc, ss |-> c.ss, sp |-> c.sp]
      /\ c.ss \in Segments /\ c.sp \in Nat /\ c.sp + 2 <= DEPTH
      /\ c.ss = "kernel" => c.sp + 3 <= cpu.sp
      /\ \A k \in 1 .. Level - 1 :
           /\ Ctx(k).ss \in Segments /\ Ctx(k).sp \in Nat /\ Ctx(k).sp + 2 <= DEPTH
           /\ Ctx(k).ss = c.ss => Ctx(k).sp + 3 <= c.sp
           /\ Ctx(k).ss = "kernel" => Ctx(k).sp + 3 <= cpu.sp
  BY <1>1, WayBack
<1> HIDE DEF c
<1>3. stack["kernel"][cpu.sp] = <<"old", c.ss, c.sp + 2>>
  BY <1>1, <1>2 DEF Leads
<1>4. /\ cpu' = [pc |-> stack[c.ss][(c.sp + 2) - 1][2], ss |-> c.ss, sp |-> (c.sp + 2) - 2]
      /\ stack' = Popped(mid, c.ss, (c.sp + 2) - 2)
      /\ suspended' = Front(suspended) /\ kstack' = kstack
  BY <1>3 DEF Resume
<1>5. (c.sp + 2) - 1 = c.sp + 1 /\ (c.sp + 2) - 2 = c.sp
  BY <1>2
<1>6. cpu' = c
  <2>1. stack[c.ss][c.sp + 1][2] = c.pc
    BY <1>2
  <2> QED BY <1>2, <1>4, <1>5, <2>1
<1>7. /\ Shape(mid)
      /\ \A q \in Segments, i \in Slots : (q # "kernel" \/ i <= cpu.sp - 1) => mid[q][i] = stack[q][i]
  BY <1>1, PoppedAt DEF Segments
<1> HIDE DEF mid
<1>8. /\ Shape(stack')
      /\ \A q \in Segments, i \in Slots : (q # c.ss \/ i <= c.sp) => stack'[q][i] = mid[q][i]
  <2>1. stack' = Popped(mid, c.ss, c.sp)
    BY <1>4, <1>5
  <2> QED BY <1>2, <1>7, <2>1, PoppedAt
<1>9. \A q \in Segments, i \in Slots :
        ((q # c.ss \/ i <= c.sp) /\ (q # "kernel" \/ i <= cpu.sp - 1)) => stack'[q][i] = stack[q][i]
  BY <1>7, <1>8
<1>10. Same(stack, stack', c.ss, c.sp)
  BY <1>1, <1>2, <1>9 DEF Same, Slots
<1>11. Below(Level - 1)
  BY <1>1, <1>2, <1>9 DEF Below, Same, Slots
<1>12. suspended' = Front(suspended) /\ kstack' = kstack
  BY <1>4
<1> QED BY <1>1, <1>6, <1>8, <1>10, <1>11, <1>12, StepBack DEF c, Resumes

LEMMA NestedProgramReturn ==
  ASSUME Nested, ReturnFromProgram
  PROVE  Nested' /\ Resumes
<1> DEFINE c   == Ctx(Level)
           mid == Popped(stack, "user", 0)
<1>1. /\ Shape(stack) /\ cpu \in Contexts /\ cpu.sp \in 0 .. DEPTH /\ DEPTH \in Nat
      /\ cpu.pc.who = "user" /\ cpu.pc.locals = 0 /\ cpu.ss = "user"
  BY Running, DepthAssumption DEF Ordinary, ReturnFromProgram, USER, Body, Pc
<1>2. Level = 1 /\ c.ss = "kernel" /\ cpu.sp = 2
  BY <1>1, OnUserStack DEF Base
<1>3. /\ Leads(stack, kstack, c, cpu)
      /\ stack[c.ss][c.sp + 1] \in {<<"iret", c.pc>>, <<"ret", c.pc>>}
      /\ c = [pc |-> c.pc, ss |-> c.ss, sp |-> c.sp]
      /\ c.sp \in Nat /\ c.sp + 2 <= DEPTH
  BY <1>2, WayBack
<1> HIDE DEF c
<1>4. stack["user"][cpu.sp - 1] = <<"old", "kernel", c.sp + 2>>
  BY <1>1, <1>2, <1>3 DEF Leads
<1>5. /\ cpu' = [pc |-> stack["kernel"][(c.sp + 2) - 1][2], ss |-> "kernel", sp |-> (c.sp + 2) - 2]
      /\ stack' = Popped(mid, "kernel", (c.sp + 2) - 2)
      /\ suspended' = Front(suspended) /\ kstack' = kstack
  BY <1>4 DEF ReturnFromProgram
<1>6. (c.sp + 2) - 1 = c.sp + 1 /\ (c.sp + 2) - 2 = c.sp
  BY <1>3
<1>7. cpu' = c
  <2>1. stack["kernel"][c.sp + 1][2] = c.pc
    BY <1>2, <1>3
  <2> QED BY <1>2, <1>3, <1>5, <1>6, <2>1
<1>8. /\ Shape(mid)
      /\ \A q \in Segments, i \in Slots : q # "user" => mid[q][i] = stack[q][i]
  BY <1>1, PoppedAt DEF Segments
<1> HIDE DEF mid
<1>9. /\ Shape(stack')
      /\ \A q \in Segments, i \in Slots : (q # "kernel" \/ i <= c.sp) => stack'[q][i] = mid[q][i]
  <2>1. stack' = Popped(mid, "kernel", c.sp) /\ "kernel" \in Segments
    BY <1>5, <1>6 DEF Segments
  <2> QED BY <1>8, <2>1, PoppedAt
<1>10. Same(stack, stack', c.ss, c.sp)
  BY <1>1, <1>2, <1>3, <1>8, <1>9 DEF Same, Slots, Segments
<1>11. Below(Level - 1)
  BY <1>2 DEF Below
<1>12. suspended' = Front(suspended) /\ kstack' = kstack /\ Level >= 1
  BY <1>2, <1>5
<1> QED BY <1>7, <1>9, <1>10, <1>11, <1>12, StepBack DEF c, Resumes

LEMMA NestedInit == EntryInit => Nested
<1> SUFFICES ASSUME EntryInit
             PROVE  Nested
  OBVIOUS
<1>1. suspended = <<>> /\ kstack = 0 /\ stack = [ss \in Segments |-> [i \in Slots |-> FREE]]
  BY DEF EntryInit, Segments
<1>2. /\ cpu = [pc |-> [who |-> "cli", at |-> "body", locals |-> 0], ss |-> "kernel", sp |-> 0]
      /\ 0 \in 0 .. DEPTH
  BY DepthAssumption DEF EntryInit, CLI, Body, Pc
<1>3. Level = 0 /\ Ctx(1) = cpu
  BY <1>1 DEF Level, Ctx
<1>4. Types
  <2>1. IsSeq(suspended)
    BY <1>1 DEF IsSeq
  <2>2. Shape(stack)
    BY <1>1 DEF Shape
  <2> QED BY <1>1, <1>2, <2>1, <2>2 DEF Types
<1>5. Ordinary(cpu, 1)
  <2>1. cpu \in Contexts
    BY <1>2 DEF Contexts, Segments
  <2>2. Base(cpu) = 0
    BY <1>2 DEF Base
  <2> QED BY <1>2, <2>1, <2>2 DEF Ordinary
<1>6. Placed /\ Saved /\ Linked /\ Apart
  BY <1>3, <1>5 DEF Placed, Saved, Linked, Apart
<1> QED BY <1>4, <1>6 DEF Nested

(* For every depth of the stacks, whatever runs stands above all that it   *)
(* suspended, with the way back at its base: hw86.s puts the old ss and sp *)
(* where leave_kernel and uprog_call look for them.                        *)
THEOREM NestedAlways == EntrySpec => []Nested
<1>1. EntryInit => Nested
  BY NestedInit
<1>2. Nested /\ [EntryNext]_evars => Nested'
  <2> SUFFICES ASSUME Nested, [EntryNext]_evars
               PROVE  Nested'
    OBVIOUS
  <2>1. CASE UseStack
    BY <2>1, NestedUseStack
  <2>2. CASE uprog_call
    BY <2>2, NestedProgramCall
  <2>3. CASE ReturnFromProgram
    BY <2>3, NestedProgramReturn
  <2>4. CASE SystemCall
    BY <2>4, NestedEnter DEF SystemCall
  <2>5. CASE ReturnFromCall
    <3>1. cpu.pc.who = "service" /\ cpu.pc.locals = 0 /\ Resume
      BY <2>5 DEF ReturnFromCall, Body, Pc
    <3> QED BY <3>1, NestedResume
  <2>6. ASSUME NEW h \in Handlers, Interrupt(h)
        PROVE  Nested'
    BY <2>6, NestedEnter DEF Interrupt
  <2>7. CASE Acknowledge \/ StoreReturn
    BY <2>7, NestedHandling
  <2>8. CASE leave_kernel
    <3>1. cpu.pc.who \notin {"cli", "user"} /\ cpu.pc.at = "stored" /\ Resume
      BY <2>8 DEF leave_kernel, Handling, Handlers
    <3>2. cpu.pc.locals = 0
      BY <3>1, Running DEF Ordinary
    <3> QED BY <3>1, <3>2, NestedResume
  <2>9. CASE UNCHANGED evars
    <3>1. UNCHANGED <<cpu, stack, kstack, suspended>>
      BY <2>9 DEF evars
    <3>2. Shape(stack) /\ Ordinary(cpu, Level + 1)
      BY Running
    <3>3. Below(Level) /\ Same(stack, stack', cpu.ss, Base(cpu))
      BY <3>1 DEF Below, Same
    <3>4. Shape(stack') /\ Ordinary(cpu', Level + 1) /\ cpu'.ss = cpu.ss /\ Base(cpu') = Base(cpu)
      BY <3>1, <3>2 DEF Base
    <3> QED BY <3>1, <3>3, <3>4, StepWithin
  <2> QED BY <2>1, <2>2, <2>3, <2>4, <2>5, <2>6, <2>7, <2>8, <2>9 DEF EntryNext
<1> QED BY <1>1, <1>2, PTL DEF EntrySpec

(* Whatever is suspended finds what it had on its stack, and where it      *)
(* resumes, however calls and interrupts nest.                             *)
THEOREM StacksIntactAlways == EntrySpec => []StacksIntact
<1>1. Nested => StacksIntact
  <2> SUFFICES ASSUME Nested, NEW k \in DOMAIN suspended
               PROVE  LET s == suspended[k]
                      IN  /\ \A i \in 1 .. s.cpu.sp : stack[s.cpu.ss][i] = s.held[i]
                          /\ stack[s.cpu.ss][s.cpu.sp + 1] \in {<<"iret", s.cpu.pc>>, <<"ret", s.cpu.pc>>}
    BY DEF StacksIntact
  <2>1. k \in 1 .. Level /\ Ctx(k) = suspended[k].cpu
    <3>1. Level \in Nat /\ k \in 1 .. Level
      BY SeqLen DEF Nested, Types, Level
    <3>2. k # Level + 1
      BY <3>1
    <3> QED BY <3>1, <3>2 DEF Ctx
  <2> QED BY <2>1 DEF Nested, Saved, Resumable
<1> QED BY <1>1, NestedAlways, PTL

-----------------------------------------------------------------------------
(* The controllers.  An interrupt is in service for every handler that has *)
(* yet to end it, and for nothing else; inner ones have a higher priority, *)
(* so that an unspecific EOI is taken for the interrupt of whoever sends   *)
(* it.                                                                     *)
OwesMaster(c) == c.pc.who \in Handlers /\ c.pc.at \in {"body", "master"}
OwesSlave(c)  == c.pc.who \in {"mouse", "net"} /\ c.pc.at = "body"

InService ==
  /\ DOMAIN pics = {"master", "slave"} /\ pics = [c \in DOMAIN pics |-> pics[c]]
  /\ \A bit : bit \in pics.master <=>
       \E k \in 1 .. Level + 1 : OwesMaster(Ctx(k)) /\ bit = Line(Ctx(k).pc.who)
  /\ \A bit : bit \in pics.slave <=>
       \E k \in 1 .. Level + 1 : OwesSlave(Ctx(k)) /\ bit = Ctx(k).pc.who
  /\ \A j, k \in 1 .. Level + 1 :
       (j < k /\ OwesMaster(Ctx(j)) /\ OwesMaster(Ctx(k))) =>
         Rank(Line(Ctx(k).pc.who)) < Rank(Line(Ctx(j).pc.who))

(* The contexts after a step: one more, one fewer, or the same but for the *)
(* one that runs.                                                          *)
LEMMA ContextsInto ==
  ASSUME Nested, Suspends
  PROVE  /\ Level' = Level + 1 /\ Level \in Nat
         /\ \A k \in 1 .. Level + 1 : Ctx(k)' = Ctx(k)
         /\ \A k : k = Level + 2 => Ctx(k)' = cpu'
<1>1. PICK n \in Nat : n = Level
  BY Levels
<1>2. /\ Level' = n + 1 /\ \A k \in 1 .. n : suspended'[k] = suspended[k]
      /\ suspended'[n + 1].cpu = cpu
  BY <1>1, SeqAppend DEF Level, Nested, Types, Suspends
<1>3. ASSUME NEW k \in 1 .. n + 1
      PROVE  Ctx(k)' = Ctx(k)
  <2>1. k # Level' + 1
    BY <1>2
  <2>2. CASE k = n + 1
    BY <1>1, <1>2, <2>1, <2>2 DEF Ctx
  <2>3. CASE k # n + 1
    <3>1. k \in 1 .. n
      BY <2>3
    <3> QED BY <1>1, <1>2, <2>1, <2>3, <3>1 DEF Ctx
  <2> QED BY <2>2, <2>3
<1>4. ASSUME NEW k, k = n + 2
      PROVE  Ctx(k)' = cpu'
  BY <1>2, <1>4 DEF Ctx
<1> QED BY <1>1, <1>2, <1>3, <1>4

LEMMA ContextsBack ==
  ASSUME Nested, Resumes
  PROVE  /\ Level' = Level - 1 /\ Level \in Nat \ {0}
         /\ \A k \in 1 .. Level : Ctx(k)' = Ctx(k)
<1>1. PICK n \in Nat \ {0} : n = Level
  BY Levels DEF Resumes
<1>2. Level' = n - 1 /\ \A k \in 1 .. n - 1 : suspended'[k] = suspended[k]
  BY <1>1, SeqFront DEF Level, Nested, Types, Resumes
<1>3. ASSUME NEW k \in 1 .. n
      PROVE  Ctx(k)' = Ctx(k)
  <2>1. CASE k = n
    <3>1. k = Level' + 1
      BY <1>2, <2>1
    <3> QED BY <1>1, <2>1, <3>1 DEF Ctx, Resumes
  <2>2. CASE k # n
    <3>1. k \in 1 .. n - 1 /\ k # n + 1 /\ k # Level' + 1
      BY <1>2, <2>2
    <3> QED BY <1>1, <1>2, <3>1 DEF Ctx
  <2> QED BY <2>1, <2>2
<1> QED BY <1>1, <1>2, <1>3

LEMMA ContextsSame ==
  ASSUME Nested, UNCHANGED suspended
  PROVE  /\ Level' = Level /\ Level \in Nat
         /\ \A k \in 1 .. Level : Ctx(k)' = Ctx(k)
         /\ Ctx(Level + 1)' = cpu' /\ Ctx(Level + 1) = cpu
BY Levels DEF Level, Ctx

(* Nothing is sent, and whoever owes an EOI still does.                    *)
LEMMA NothingSent ==
  ASSUME Nested, InService, UNCHANGED pics, Level' \in Nat,
         \A k \in 1 .. Level + 1 : OwesMaster(Ctx(k)) =>
           k \in 1 .. Level' + 1 /\ Ctx(k)'.pc.who = Ctx(k).pc.who /\ Ctx(k)'.pc.at = Ctx(k).pc.at,
         \A k \in 1 .. Level' + 1 : OwesMaster(Ctx(k)') =>
           k \in 1 .. Level + 1 /\ Ctx(k)'.pc.who = Ctx(k).pc.who /\ Ctx(k)'.pc.at = Ctx(k).pc.at
  PROVE  InService'
<1>1. ASSUME NEW c, OwesSlave(c) PROVE OwesMaster(c)
  BY <1>1 DEF OwesSlave, OwesMaster, Handlers
<1>2. \A bit : bit \in pics.master <=>
        \E k \in 1 .. Level' + 1 : OwesMaster(Ctx(k)') /\ bit = Line(Ctx(k)'.pc.who)
  BY DEF InService, OwesMaster
<1>3. \A bit : bit \in pics.slave <=>
        \E k \in 1 .. Level' + 1 : OwesSlave(Ctx(k)') /\ bit = Ctx(k)'.pc.who
  BY <1>1 DEF InService, OwesSlave
<1>4. \A j, k \in 1 .. Level' + 1 :
        (j < k /\ OwesMaster(Ctx(j)') /\ OwesMaster(Ctx(k)')) =>
          Rank(Line(Ctx(k)'.pc.who)) < Rank(Line(Ctx(j)'.pc.who))
  BY DEF InService, OwesMaster
<1> QED BY <1>2, <1>3, <1>4 DEF InService, OwesMaster, OwesSlave

LEMMA ServiceInto ==
  ASSUME Nested, InService, Suspends, UNCHANGED pics, cpu'.pc.who \notin Handlers
  PROVE  InService'
<1>1. /\ Level' = Level + 1 /\ Level \in Nat
      /\ \A k \in 1 .. Level + 1 : Ctx(k)' = Ctx(k)
      /\ \A k : k = Level + 2 => Ctx(k)' = cpu'
  BY ContextsInto
<1>2. ASSUME NEW k \in 1 .. Level' + 1, OwesMaster(Ctx(k)')
      PROVE  k \in 1 .. Level + 1
  <2>1. k # Level + 2
    BY <1>1, <1>2 DEF OwesMaster
  <2> QED BY <1>1, <2>1
<1> QED BY <1>1, <1>2, NothingSent

LEMMA ServiceBack ==
  ASSUME Nested, InService, Resumes, UNCHANGED pics, ~OwesMaster(cpu)
  PROVE  InService'
<1>1. /\ Level' = Level - 1 /\ Level \in Nat \ {0}
      /\ \A k \in 1 .. Level : Ctx(k)' = Ctx(k)
  BY ContextsBack
<1>2. ASSUME NEW k \in 1 .. Level + 1, OwesMaster(Ctx(k))
      PROVE  k \in 1 .. Level
  <2>1. k # Level + 1
    BY <1>2 DEF Ctx
  <2> QED BY <1>1, <2>1
<1> QED BY <1>1, <1>2, NothingSent

LEMMA ServiceWithin ==
  ASSUME Nested, InService, UNCHANGED <<suspended, pics>>, cpu'.pc.who = cpu.pc.who,
         cpu'.pc.at = cpu.pc.at \/ {cpu.pc.at, cpu'.pc.at} \subseteq {"leave", "stored"}
  PROVE  InService'
<1>1. /\ Level' = Level /\ Level \in Nat
      /\ \A k \in 1 .. Level : Ctx(k)' = Ctx(k)
      /\ Ctx(Level + 1)' = cpu' /\ Ctx(Level + 1) = cpu
  BY ContextsSame
<1>2. ASSUME NEW k \in 1 .. Level + 1, OwesMaster(Ctx(k)) \/ OwesMaster(Ctx(k)')
      PROVE  Ctx(k)'.pc.who = Ctx(k).pc.who /\ Ctx(k)'.pc.at = Ctx(k).pc.at
  <2>1. CASE k = Level + 1
    BY <1>1, <1>2, <2>1 DEF OwesMaster
  <2>2. CASE k # Level + 1
    BY <1>1, <2>2
  <2> QED BY <2>1, <2>2
<1> QED BY <1>1, <1>2, NothingSent

(* An interrupt comes only if all that is in service has a lower priority. *)
LEMMA ServiceInterrupt ==
  ASSUME Nested, InService, NEW h \in Handlers, Interrupt(h)
  PROVE  InService'
<1>1. /\ Suspends /\ cpu'.pc.who = h /\ cpu'.pc.at = "body"
      /\ Unmasked(h)
      /\ pics' = [master |-> pics.master \cup {Line(h)},
                  slave  |-> IF h = "timer" THEN pics.slave ELSE pics.slave \cup {h}]
  BY DEF Interrupt, Enter, Suspends, Body, Pc
<1>2. PICK n \in Nat : n = Level
  BY Levels
<1>3. /\ Level' = n + 1
      /\ \A k \in 1 .. n + 1 : Ctx(k)' = Ctx(k)
      /\ \A k : k = n + 2 => Ctx(k)' = cpu'
      /\ Level' + 1 = n + 2 /\ n + 2 \in 1 .. n + 2
  BY <1>1, <1>2, ContextsInto
<1>4. \A k \in 1 .. n + 2 : k \in 1 .. n + 1 \/ k = n + 2
  OBVIOUS
<1>5. OwesMaster(cpu') /\ (OwesSlave(cpu') <=> h # "timer")
  BY <1>1 DEF OwesMaster, OwesSlave, Handlers
<1>6. /\ \A bit : bit \in pics.master <=>
           \E k \in 1 .. n + 1 : OwesMaster(Ctx(k)) /\ bit = Line(Ctx(k).pc.who)
      /\ \A bit : bit \in pics.slave <=>
           \E k \in 1 .. n + 1 : OwesSlave(Ctx(k)) /\ bit = Ctx(k).pc.who
  BY <1>2 DEF InService
<1>7. \A bit : bit \in pics'.master <=>
        \E k \in 1 .. n + 2 : OwesMaster(Ctx(k)') /\ bit = Line(Ctx(k)'.pc.who)
  <2>1. \A bit : bit \in pics'.master <=> (bit \in pics.master \/ bit = Line(h))
    BY <1>1
  <2> QED BY <1>1, <1>3, <1>4, <1>5, <1>6, <2>1
<1>8. \A bit : bit \in pics'.slave <=>
        \E k \in 1 .. n + 2 : OwesSlave(Ctx(k)') /\ bit = Ctx(k)'.pc.who
  <2>1. \A bit : bit \in pics'.slave <=> (bit \in pics.slave \/ (h # "timer" /\ bit = h))
    BY <1>1
  <2> QED BY <1>1, <1>3, <1>4, <1>5, <1>6, <2>1
<1>9. ASSUME NEW j \in 1 .. n + 2, NEW k \in 1 .. n + 2, j < k,
             OwesMaster(Ctx(j)'), OwesMaster(Ctx(k)')
      PROVE  Rank(Line(Ctx(k)'.pc.who)) < Rank(Line(Ctx(j)'.pc.who))
  <2>1. j \in 1 .. n + 1 /\ Ctx(j)' = Ctx(j)
    BY <1>3, <1>9
  <2>2. CASE k = n + 2
    <3>1. Line(Ctx(j).pc.who) \in pics.master
      BY <1>6, <1>9, <2>1
    <3> QED BY <1>1, <1>3, <2>1, <2>2, <3>1 DEF Unmasked
  <2>3. CASE k \in 1 .. n + 1
    BY <1>2, <1>3, <1>9, <2>1, <2>3 DEF InService
  <2> QED BY <1>4, <2>2, <2>3
<1>10. DOMAIN pics' = {"master", "slave"} /\ pics' = [c \in DOMAIN pics' |-> pics'[c]]
  BY <1>1
<1> QED BY <1>3, <1>7, <1>8, <1>9, <1>10 DEF InService

(* The handler that runs is the innermost, and owes the EOI of the highest *)
(* priority: that is the one taken away.                                   *)
LEMMA ServiceEnds ==
  ASSUME Nested, InService, Acknowledge
  PROVE  InService'
<1>1. PICK n \in Nat : n = Level /\ n = Level'
  BY Levels DEF Acknowledge, Level
<1>2. /\ \A k \in 1 .. n : Ctx(k)' = Ctx(k)
      /\ \A k : k = n + 1 => Ctx(k)' = cpu' /\ Ctx(k) = cpu
      /\ \A k \in 1 .. n + 1 : k \in 1 .. n \/ k = n + 1
      /\ n + 1 \in 1 .. n + 1 /\ \A k \in 1 .. n : k \in 1 .. n + 1 /\ k < n + 1
  BY <1>1, ContextsSame DEF Acknowledge
<1>3. /\ cpu.pc.who \in Handlers /\ cpu.pc.at \in {"body", "master"}
      /\ cpu \in Contexts
  BY Running DEF Acknowledge, Handling
<1>4. /\ DOMAIN pics = {"master", "slave"} /\ pics = [c \in DOMAIN pics |-> pics[c]]
      /\ \A bit : bit \in pics.master <=>
           \E k \in 1 .. n + 1 : OwesMaster(Ctx(k)) /\ bit = Line(Ctx(k).pc.who)
      /\ \A bit : bit \in pics.slave <=>
           \E k \in 1 .. n + 1 : OwesSlave(Ctx(k)) /\ bit = Ctx(k).pc.who
      /\ \A j, k \in 1 .. n + 1 :
           (j < k /\ OwesMaster(Ctx(j)) /\ OwesMaster(Ctx(k))) =>
             Rank(Line(Ctx(k).pc.who)) < Rank(Line(Ctx(j).pc.who))
  BY <1>1 DEF InService
<1>5. ASSUME NEW k \in 1 .. n, OwesMaster(Ctx(k))
      PROVE  Rank(Line(cpu.pc.who)) < Rank(Line(Ctx(k).pc.who))
  BY <1>2, <1>3, <1>4, <1>5 DEF OwesMaster
<1>6. \A who \in Handlers : Rank(Line(who)) \in {1, 2} /\ Line(who) \in {"timer", "slave"}
  BY DEF Handlers, Rank, Line
<1>7. ASSUME NEW k \in 1 .. n
      PROVE  ~(OwesSlave(Ctx(k)) /\ cpu.pc.who # "timer")
  <2>1. ASSUME OwesSlave(Ctx(k)), cpu.pc.who # "timer"
        PROVE  FALSE
    <3>1. OwesMaster(Ctx(k)) /\ Line(Ctx(k).pc.who) = "slave" /\ Line(cpu.pc.who) = "slave"
      BY <2>1 DEF OwesMaster, OwesSlave, Line, Handlers
    <3> QED BY <1>5, <3>1 DEF Rank
  <2> QED BY <2>1
<1>8. CASE Handling("body")
  <2>1. /\ cpu.pc.at = "body" /\ cpu'.pc.at = "master" /\ cpu'.pc.who = cpu.pc.who
        /\ pics' = Eoi(pics, Chips(cpu.pc.who) \cap {"slave"})
    BY <1>3, <1>8 DEF Acknowledge, Handling, AfterLeave, Contexts
  <2>2. /\ DOMAIN pics' = {"master", "slave"} /\ pics'.master = pics.master
        /\ pics'.slave = IF cpu.pc.who = "timer" THEN pics.slave ELSE Ended(pics.slave)
        /\ pics' = [c \in DOMAIN pics' |-> pics'[c]]
    BY <1>3, <1>4, <2>1 DEF Eoi, Chips
  <2>3. \A bit : bit \in pics'.master <=>
          \E k \in 1 .. n + 1 : OwesMaster(Ctx(k)') /\ bit = Line(Ctx(k)'.pc.who)
    BY <1>2, <1>3, <1>4, <2>1, <2>2 DEF OwesMaster
  <2>4. \A bit : bit \in pics'.slave <=>
          \E k \in 1 .. n + 1 : OwesSlave(Ctx(k)') /\ bit = Ctx(k)'.pc.who
    <3>1. ~OwesSlave(cpu')
      BY <2>1 DEF OwesSlave
    <3>2. CASE cpu.pc.who = "timer"
      <4>1. ~OwesSlave(cpu)
        BY <3>2 DEF OwesSlave
      <4> QED BY <1>2, <1>4, <2>2, <3>1, <3>2, <4>1
    <3>3. CASE cpu.pc.who # "timer"
      <4>1. \A k \in 1 .. n : ~OwesSlave(Ctx(k))
        BY <1>7, <3>3
      <4>2. pics.slave = {cpu.pc.who}
        <5>1. OwesSlave(cpu)
          BY <1>3, <2>1, <3>3 DEF OwesSlave, Handlers
        <5> QED BY <1>2, <1>4, <4>1, <5>1
      <4>3. pics'.slave = {}
        <5>1. Rank(cpu.pc.who) \in Int
          BY <1>3, <3>3 DEF Rank, Handlers
        <5> QED BY <2>2, <3>3, <4>2, <5>1 DEF Ended
      <4> QED BY <1>2, <3>1, <4>1, <4>3
    <3> QED BY <3>2, <3>3
  <2>5. ASSUME NEW j \in 1 .. n + 1, NEW k \in 1 .. n + 1, j < k,
               OwesMaster(Ctx(j)'), OwesMaster(Ctx(k)')
        PROVE  Rank(Line(Ctx(k)'.pc.who)) < Rank(Line(Ctx(j)'.pc.who))
    <3>1. \A i \in 1 .. n + 1 : Ctx(i)'.pc.who = Ctx(i).pc.who /\ (OwesMaster(Ctx(i)') <=> OwesMaster(Ctx(i)))
      BY <1>2, <1>3, <2>1 DEF OwesMaster
    <3> QED BY <1>4, <2>5, <3>1
  <2> QED BY <1>1, <2>2, <2>3, <2>4, <2>5 DEF InService
<1>9. CASE Handling("master")
  <2>1. /\ cpu.pc.at = "master" /\ cpu'.pc.at = "leave" /\ cpu'.pc.who = cpu.pc.who
        /\ pics' = Eoi(pics, {"master"})
    BY <1>3, <1>9 DEF Acknowledge, Handling, AfterLeave, Contexts, Chips
  <2>2. /\ DOMAIN pics' = {"master", "slave"} /\ pics'.master = Ended(pics.master)
        /\ pics'.slave = pics.slave /\ pics' = [c \in DOMAIN pics' |-> pics'[c]]
    BY <1>4, <2>1 DEF Eoi
  <2>3. ~OwesMaster(cpu') /\ ~OwesSlave(cpu') /\ ~OwesSlave(cpu) /\ OwesMaster(cpu)
    BY <1>3, <2>1 DEF OwesSlave, OwesMaster
  <2>4. \A bit : bit \in pics'.master <=>
          \E k \in 1 .. n + 1 : OwesMaster(Ctx(k)') /\ bit = Line(Ctx(k)'.pc.who)
    <3>1. \A bit : bit \in Ended(pics.master) <=>
            bit \in pics.master /\ \E b \in pics.master : Rank(b) < Rank(bit)
      BY DEF Ended
    <3>2. Line(cpu.pc.who) \in pics.master
      BY <1>2, <1>4, <2>3
    <3>3. ASSUME NEW b \in pics.master
          PROVE  \/ b = Line(cpu.pc.who)
                 \/ Rank(Line(cpu.pc.who)) < Rank(b) /\ \E k \in 1 .. n : OwesMaster(Ctx(k)) /\ b = Line(Ctx(k).pc.who)
      BY <1>2, <1>4, <1>5
    <3>4. \A b \in pics.master : Rank(b) \in {1, 2}
      BY <1>4, <1>6 DEF OwesMaster
    <3>5. ASSUME NEW bit
          PROVE  bit \in Ended(pics.master) <=> \E k \in 1 .. n : OwesMaster(Ctx(k)) /\ bit = Line(Ctx(k).pc.who)
      <4>1. ASSUME bit \in Ended(pics.master)
            PROVE  \E k \in 1 .. n : OwesMaster(Ctx(k)) /\ bit = Line(Ctx(k).pc.who)
        <5>1. PICK b \in pics.master : Rank(b) < Rank(bit)
          BY <3>1, <4>1
        <5>2. bit \in pics.master
          BY <3>1, <4>1
        <5>3. bit # Line(cpu.pc.who)
          BY <3>2, <3>3, <3>4, <5>1
        <5> QED BY <3>3, <5>2, <5>3
      <4>2. ASSUME NEW k \in 1 .. n, OwesMaster(Ctx(k)), bit = Line(Ctx(k).pc.who)
            PROVE  bit \in Ended(pics.master)
        <5>1. bit \in pics.master /\ Rank(Line(cpu.pc.who)) < Rank(bit)
          BY <1>2, <1>4, <1>5, <4>2
        <5> QED BY <3>1, <3>2, <5>1
      <4> QED BY <4>1, <4>2
    <3> QED BY <1>2, <2>2, <2>3, <3>5
  <2>5. \A bit : bit \in pics'.slave <=>
          \E k \in 1 .. n + 1 : OwesSlave(Ctx(k)') /\ bit = Ctx(k)'.pc.who
    BY <1>2, <1>4, <2>2, <2>3
  <2>6. ASSUME NEW j \in 1 .. n + 1, NEW k \in 1 .. n + 1, j < k,
               OwesMaster(Ctx(j)'), OwesMaster(Ctx(k)')
        PROVE  Rank(Line(Ctx(k)'.pc.who)) < Rank(Line(Ctx(j)'.pc.who))
    <3>1. Ctx(j)' = Ctx(j) /\ Ctx(k)' = Ctx(k)
      BY <1>2, <2>3, <2>6
    <3> QED BY <1>4, <2>6, <3>1
  <2> QED BY <1>1, <2>2, <2>4, <2>5, <2>6 DEF InService
<1> QED BY <1>8, <1>9 DEF Acknowledge

LEMMA ServiceInit == EntryInit => InService
<1> SUFFICES ASSUME EntryInit
             PROVE  InService
  OBVIOUS
<1>1. Level = 0 /\ cpu.pc.who = "cli" /\ pics = [master |-> {}, slave |-> {}]
  BY DEF EntryInit, CLI, Body, Pc, Level
<1>2. \A k \in 1 .. Level + 1 : Ctx(k) = cpu
  BY <1>1 DEF Ctx
<1>3. ~OwesMaster(cpu) /\ ~OwesSlave(cpu)
  BY <1>1 DEF OwesMaster, OwesSlave, Handlers
<1> QED BY <1>1, <1>2, <1>3 DEF InService

(* Every interrupt in service is that of a handler which has yet to end    *)
(* it, however handlers nest, and whichever return address leave_kernel    *)
(* finds in its global.                                                    *)
THEOREM InServiceAlways == EntrySpec => []InService
<1>1. EntryInit => InService
  BY ServiceInit
<1>2. Nested /\ InService /\ [EntryNext]_evars => InService'
  <2> SUFFICES ASSUME Nested, InService, [EntryNext]_evars
               PROVE  InService'
    OBVIOUS
  <2>0. cpu \in Contexts
    BY Running
  <2>1. CASE UseStack
    <3>1. UNCHANGED <<suspended, pics>> /\ cpu'.pc.who = cpu.pc.who /\ cpu'.pc.at = cpu.pc.at
      BY <2>0, <2>1, ZenonT(30) DEF UseStack, Contexts
    <3> QED BY <3>1, ServiceWithin
  <2>2. CASE uprog_call
    <3>1. Suspends /\ UNCHANGED pics /\ cpu'.pc.who = "user"
      BY <2>2 DEF uprog_call, Suspends, USER, Body, Pc
    <3> QED BY <3>1, ServiceInto DEF Handlers
  <2>3. CASE ReturnFromProgram
    <3>1. UNCHANGED pics /\ ~OwesMaster(cpu)
      BY <2>3 DEF ReturnFromProgram, USER, Body, Pc, OwesMaster, Handlers
    <3> QED BY <2>3, <3>1, NestedProgramReturn, ServiceBack
  <2>4. CASE SystemCall
    <3>1. Suspends /\ UNCHANGED pics /\ cpu'.pc.who = "service"
      BY <2>4 DEF SystemCall, Enter, Suspends, Body, Pc
    <3> QED BY <3>1, ServiceInto DEF Handlers
  <2>5. CASE ReturnFromCall
    <3>1. cpu.pc.who = "service" /\ cpu.pc.locals = 0 /\ Resume /\ UNCHANGED pics
      BY <2>5 DEF ReturnFromCall, Body, Pc
    <3> QED BY <3>1, NestedResume, ServiceBack DEF OwesMaster, Handlers
  <2>6. ASSUME NEW h \in Handlers, Interrupt(h)
        PROVE  InService'
    BY <2>6, ServiceInterrupt
  <2>7. CASE Acknowledge
    BY <2>7, ServiceEnds
  <2>8. CASE StoreReturn
    <3>1. /\ UNCHANGED <<suspended, pics>> /\ cpu'.pc.who = cpu.pc.who
          /\ {cpu.pc.at, cpu'.pc.at} \subseteq {"leave", "stored"}
      BY <2>0, <2>8 DEF StoreReturn, Handling, Contexts
    <3> QED BY <3>1, ServiceWithin
  <2>9. CASE leave_kernel
    <3>1. cpu.pc.who \notin {"cli", "user"} /\ cpu.pc.at = "stored" /\ Resume
      BY <2>9 DEF leave_kernel, Handling, Handlers
    <3>2. cpu.pc.locals = 0
      BY <3>1, Running DEF Ordinary
    <3>3. UNCHANGED pics
      BY <2>9 DEF leave_kernel, Eoi, AfterLeave, InService
    <3> QED BY <3>1, <3>2, <3>3, NestedResume, ServiceBack DEF OwesMaster
  <2>10. CASE UNCHANGED evars
    <3>1. UNCHANGED <<suspended, pics, cpu>>
      BY <2>10 DEF evars
    <3> QED BY <3>1, ServiceWithin
  <2> QED BY <2>1, <2>2, <2>3, <2>4, <2>5, <2>6, <2>7, <2>8, <2>9, <2>10 DEF EntryNext
<1> QED BY <1>1, <1>2, NestedAlways, PTL DEF EntrySpec

(* With no handler left on the stacks nothing is in service.               *)
THEOREM AcknowledgedAlways == EntrySpec => []Acknowledged
<1>1. Nested /\ InService => Acknowledged
  <2> SUFFICES ASSUME Nested, InService, ~Interrupted
               PROVE  pics = [master |-> {}, slave |-> {}]
    BY DEF Acknowledged
  <2>1. ASSUME NEW k \in 1 .. Level + 1
        PROVE  ~OwesMaster(Ctx(k)) /\ ~OwesSlave(Ctx(k))
    <3>1. Level \in Nat /\ DOMAIN suspended = 1 .. Level
      BY SeqLen DEF Nested, Types, Level
    <3>2. Ctx(k).pc.who \notin Handlers
      BY <3>1 DEF Interrupted, Ctx
    <3> QED BY <3>2 DEF OwesMaster, OwesSlave, Handlers
  <2>2. pics.master = {} /\ pics.slave = {}
    BY <2>1 DEF InService
  <2> QED BY <2>2 DEF InService
<1> QED BY <1>1, NestedAlways, InServiceAlways, PTL

-----------------------------------------------------------------------------
(* The disk driver.                                                        *)

(* A number below k groups of m lies in one of the groups.                 *)
LEMMA QuotientBound ==
  ASSUME NEW m \in Nat \ {0}, NEW k \in Nat, NEW a \in Nat, a < k * m
  PROVE  a \div m \in 0 .. k - 1
<1> DEFINE q == a \div m
           r == a % m
<1>1. q \in Nat /\ r \in 0 .. m - 1 /\ a = q * m + r
  BY DivMod, ModBound
<1> HIDE DEF q, r
<1>2. q < k
  <2> SUFFICES ASSUME q >= k PROVE FALSE
    BY <1>1
  <2>1. q - k \in Nat
    BY <1>1
  <2>2. (q - k) * m \in Nat /\ (q - k) * m = q * m - k * m
    BY <1>1, <2>1
  <2>3. q * m \in Nat /\ k * m \in Nat
    BY <1>1
  <2> QED BY <1>1, <2>2, <2>3
<1> QED BY <1>1, <1>2 DEF q

(* disk_lba_to_hts yields a place that the disk has, and the BIOS finds    *)
(* there the sector asked for: no two sectors share a place, whatever the  *)
(* numbers of sectors, sides and tracks.                                   *)
THEOREM SectorFound ==
  ASSUME NEW sector \in Sectors
  PROVE  /\ disk_lba_to_hts(sector).track \in 0 .. TRACKS - 1
         /\ disk_lba_to_hts(sector).side \in 0 .. DSIDES - 1
         /\ disk_lba_to_hts(sector).sector \in 1 .. DSECTS
         /\ Place(sector) = sector
<1> DEFINE q == sector \div DSECTS
           r == sector % DSECTS
           t == q \div DSIDES
           h == q % DSIDES
<1>1. /\ DSECTS \in Nat \ {0} /\ DSIDES \in Nat \ {0} /\ TRACKS \in Nat \ {0}
      /\ sector \in Nat
  BY DriveAssumption DEF Sectors
<1>2. q \in Nat /\ r \in 0 .. DSECTS - 1 /\ sector = q * DSECTS + r
  BY <1>1, DivMod, ModBound
<1>3. t \in Nat /\ h \in 0 .. DSIDES - 1 /\ q = t * DSIDES + h
  BY <1>1, <1>2, DivMod, ModBound
<1>4. t \in 0 .. TRACKS - 1
  <2>1. /\ DSIDES * TRACKS \in Nat /\ TRACKS * DSIDES = DSIDES * TRACKS
        /\ sector < (DSIDES * TRACKS) * DSECTS
    <3>1. DSECTS * DSIDES * TRACKS = (DSIDES * TRACKS) * DSECTS
      BY <1>1
    <3>2. DSECTS * DSIDES * TRACKS \in Nat /\ DSIDES * TRACKS \in Nat
      BY <1>1
    <3> QED BY <1>1, <3>1, <3>2 DEF Sectors
  <2>2. q \in 0 .. DSIDES * TRACKS - 1
    BY <1>1, <2>1, QuotientBound
  <2>3. q < TRACKS * DSIDES
    BY <1>2, <2>1, <2>2
  <2> QED BY <1>1, <1>2, <2>3, QuotientBound
<1>5. t % TRACKS = t
  BY <1>1, <1>3, <1>4, ModOfSmall, SMTT(30)
<1>6. disk_lba_to_hts(sector) = [track |-> t % TRACKS, side |-> h, sector |-> r + 1]
  BY DEF disk_lba_to_hts
<1> HIDE DEF q, r, t, h
<1>7. Place(sector) = ((t * DSIDES) + h) * DSECTS + (r + 1) - 1
  BY <1>5, <1>6 DEF Place, Located
<1>8. Place(sector) = sector
  <2>1. q * DSECTS \in Nat /\ r \in Int
    BY <1>1, <1>2
  <2>2. (t * DSIDES) + h = q
    BY <1>3
  <2>3. Place(sector) = q * DSECTS + (r + 1) - 1
    <3> DEFINE f(x) == x * DSECTS + (r + 1) - 1
    <3>1. f((t * DSIDES) + h) = f(q)
      BY <2>2, Zenon
    <3> QED BY <1>7, <3>1, Zenon
  <2> QED BY <1>2, <2>1, <2>3
<1>9. r + 1 \in 1 .. DSECTS
  BY <1>1, <1>2
<1>10. /\ disk_lba_to_hts(sector).track = t
       /\ disk_lba_to_hts(sector).side = h
       /\ disk_lba_to_hts(sector).sector = r + 1
  BY <1>5, <1>6
<1> QED BY <1>3, <1>4, <1>8, <1>9, <1>10, Zenon

-----------------------------------------------------------------------------
(* What holds between any two steps of a call.                             *)

Steps == {"idle", "head", "headback", "whole", "single", "rest", "tail", "tailback", "end"}
Transfers == [op : {"none", "read", "write"}, step : Steps, at : Nat, length : 0 .. LONGEST,
              sector : Nat, offset : Nat, size : Nat, i : Nat, n : Nat, result : Nat]
DTypes == /\ DOMAIN user_buff = 0 .. LONGEST - 1 /\ DOMAIN disk_buff = Bytes
          /\ requests \in Nat /\ xfer \in Transfers

Step(steps) == xfer.step \in steps
Started == {"head", "headback"}
Onward  == {"whole", "single", "rest", "tail", "tailback"}

(* Where the driver is: i bytes are behind it and size before it, and the  *)
(* next of them is the first of its sector, but for the stretch that       *)
(* begins within one.                                                      *)
Addressed ==
  /\ (xfer.op = "none" <=> xfer = NoTransfer) /\ (Step({"idle"}) <=> xfer = NoTransfer)
  /\ ~Step({"idle"}) => /\ xfer.length >= 1
                        /\ xfer.at + xfer.length <= BLOCKS * SECTOR_SIZE
  /\ Step({"headback", "tailback"}) => xfer.op = "write"
  /\ Step(Started) => /\ xfer.i = 0 /\ xfer.size = xfer.length
                      /\ xfer.offset \in 1 .. SECTOR_SIZE - 1
                      /\ xfer.sector * SECTOR_SIZE + xfer.offset = xfer.at
  /\ Step(Onward) => /\ xfer.i + xfer.size = xfer.length
                     /\ xfer.size > 0 => xfer.sector * SECTOR_SIZE = xfer.at + xfer.i
  /\ Step({"single"}) => xfer.size - (xfer.n * SECTOR_SIZE) \in 0 .. SECTOR_SIZE - 1
  /\ Step({"rest"}) /\ xfer.result = 0 => xfer.size < SECTOR_SIZE
  /\ Step({"tail", "tailback"}) => xfer.size \in 1 .. SECTOR_SIZE - 1
  /\ Step({"head", "single", "tail"}) => xfer.result = 0

(* While nothing has failed the bytes behind the driver are the caller's,  *)
(* and a sector about to be written back is the one on the disk but for    *)
(* them.                                                                   *)
Copied(k) == \A j \in 0 .. k - 1 : user_buff[j] = ByteAt(xfer.at + j)
Merged(to, from, n) ==
  \A b \in Bytes : disk_buff[b] = IF b \in to .. to + n - 1 THEN user_buff[from + b - to]
                                  ELSE ByteAt(xfer.sector * SECTOR_SIZE + b)
Brought ==
  /\ xfer.op = "write" => \A k \in 0 .. LONGEST - 1 : user_buff[k] = Fresh(requests, k)
  /\ xfer.result = 0 => /\ Step(Onward) => Copied(xfer.i)
                        /\ Step({"end"}) => Copied(xfer.length)
                        /\ Step({"headback"}) => Merged(xfer.offset, 0, HeadSize)
                        /\ Step({"tailback"}) => Merged(0, xfer.i, xfer.size)

IInv == DTypes /\ Addressed /\ Brought

(* A byte's sector and its place in it, from its address and back.         *)
LEMMA AddressParts ==
  ASSUME NEW a \in Nat, a < BLOCKS * SECTOR_SIZE
  PROVE  /\ a \div SECTOR_SIZE \in Sectors /\ a \div SECTOR_SIZE < BLOCKS
         /\ a % SECTOR_SIZE \in Bytes
         /\ a = (a \div SECTOR_SIZE) * SECTOR_SIZE + (a % SECTOR_SIZE)
<1>1. SECTOR_SIZE \in Nat \ {0} /\ BLOCKS \in Nat
  BY DriveAssumption
<1>2. /\ a \div SECTOR_SIZE \in 0 .. BLOCKS - 1 /\ a % SECTOR_SIZE \in 0 .. SECTOR_SIZE - 1
      /\ a = (a \div SECTOR_SIZE) * SECTOR_SIZE + (a % SECTOR_SIZE)
  BY <1>1, QuotientBound, DivMod, ModBound
<1>3. DSECTS * DSIDES * TRACKS \in Nat
  BY DriveAssumption
<1> QED BY <1>1, <1>2, <1>3, TrackAssumption DEF Sectors, Bytes

(* A byte of the disk is found in its sector, at its place in it.          *)
LEMMA ByteOfSector ==
  ASSUME NEW s \in Nat, NEW b \in Bytes
  PROVE  ByteAt(s * SECTOR_SIZE + b) = surface[s][b]
<1>1. (s * SECTOR_SIZE + b) \div SECTOR_SIZE = s /\ (s * SECTOR_SIZE + b) % SECTOR_SIZE = b
  BY DriveAssumption, DivModUnique DEF Bytes
<1> QED BY <1>1 DEF ByteAt

(* What whole sectors read and written are, byte by byte.                  *)
LEMMA PlaceIsSector ==
  ASSUME NEW s \in Nat, s < BLOCKS
  PROVE  Place(s) = s
<1>1. DSECTS * DSIDES * TRACKS \in Nat /\ BLOCKS \in Nat
  BY DriveAssumption
<1>2. s \in Sectors
  BY <1>1, TrackAssumption DEF Sectors
<1> QED BY <1>2, SectorFound

LEMMA ReadIs ==
  ASSUME NEW s \in Nat, NEW n \in Nat, s + n <= BLOCKS, NEW k \in 0 .. (n * SECTOR_SIZE) - 1
  PROVE  ReadSectors(s, n)[k] = ByteAt((s * SECTOR_SIZE) + k)
<1> DEFINE q == k \div SECTOR_SIZE
           r == k % SECTOR_SIZE
<1>1. SECTOR_SIZE \in Nat \ {0} /\ BLOCKS \in Nat
  BY DriveAssumption
<1>2. n * SECTOR_SIZE \in Nat /\ k \in Nat /\ k < n * SECTOR_SIZE
  BY <1>1
<1>3. q \in 0 .. n - 1 /\ r \in Bytes /\ k = (q * SECTOR_SIZE) + r
  BY <1>1, <1>2, QuotientBound, DivMod, ModBound DEF Bytes
<1>4. ReadSectors(s, n)[k] = surface[Place(s) + q][r]
  BY DEF ReadSectors
<1> HIDE DEF q, r
<1>5. s < BLOCKS
  BY <1>1, <1>3
<1>6. ((s + q) * SECTOR_SIZE) + r = (s * SECTOR_SIZE) + k
  <2>1. (s + q) * SECTOR_SIZE = (s * SECTOR_SIZE) + (q * SECTOR_SIZE)
    BY <1>1, <1>3
  <2>2. s * SECTOR_SIZE \in Nat /\ q * SECTOR_SIZE \in Nat /\ r \in Nat
    BY <1>1, <1>3 DEF Bytes
  <2> QED BY <1>3, <2>1, <2>2
<1>7. ByteAt(((s + q) * SECTOR_SIZE) + r) = surface[s + q][r]
  BY <1>3, ByteOfSector
<1> QED BY <1>4, <1>5, <1>6, <1>7, PlaceIsSector

LEMMA WrittenIs ==
  ASSUME NEW s \in Nat, NEW n \in Nat, s + n <= BLOCKS, s < BLOCKS, NEW src, NEW from \in Nat,
         surface' = Written(s, n, src, from), NEW a \in Nat, a < BLOCKS * SECTOR_SIZE
  PROVE  ByteAt(a)' = IF a \in s * SECTOR_SIZE .. (s * SECTOR_SIZE) + (n * SECTOR_SIZE) - 1
                      THEN src[from + (a - (s * SECTOR_SIZE))] ELSE ByteAt(a)
<1> DEFINE q == a \div SECTOR_SIZE
           r == a % SECTOR_SIZE
           P == s * SECTOR_SIZE
           L == n * SECTOR_SIZE
           Q == q * SECTOR_SIZE
<1>1. SECTOR_SIZE \in Nat \ {0} /\ BLOCKS \in Nat
  BY DriveAssumption
<1>2. q \in Sectors /\ q \in Nat /\ r \in Bytes /\ a = Q + r
  BY AddressParts DEF Sectors
<1>3. Place(s) = s
  BY PlaceIsSector
<1>4. surface'[q][r] = IF q \in s .. s + n - 1 THEN src[from + (q - s) * SECTOR_SIZE + r] ELSE surface[q][r]
  BY <1>2, <1>3 DEF Written
<1>5. ByteAt(a)' = surface'[q][r] /\ ByteAt(a) = surface[q][r]
  BY DEF ByteAt
<1>6. (q - s) * SECTOR_SIZE = Q - P /\ P \in Nat /\ L \in Nat /\ Q \in Nat /\ r \in 0 .. SECTOR_SIZE - 1
  BY <1>1, <1>2 DEF Bytes
<1>7. (s + n) * SECTOR_SIZE = P + L
  BY <1>1
<1>8. CASE q \in s .. s + n - 1
  <2>1. P <= Q
    <3>1. (q - s) * SECTOR_SIZE >= 0
      BY <1>1, <1>2, <1>8
    <3> QED BY <1>6, <3>1
  <2>2. Q + SECTOR_SIZE <= P + L
    <3>1. s + n - 1 - q \in Nat
      BY <1>2, <1>8
    <3>2. (s + n - 1 - q) * SECTOR_SIZE >= 0
      BY <1>1, <3>1
    <3>3. (s + n - 1 - q) * SECTOR_SIZE = P + L - SECTOR_SIZE - Q
      BY <1>1, <1>2
    <3> QED BY <1>1, <1>6, <3>2, <3>3
  <2>3. a \in P .. P + L - 1 /\ from + (q - s) * SECTOR_SIZE + r = from + (a - P)
    <3> HIDE DEF q, r, P, L, Q
    <3> QED BY <1>1, <1>2, <1>6, <2>1, <2>2
  <2> QED BY <1>4, <1>5, <1>8, <2>3
<1>9. CASE q \notin s .. s + n - 1
  <2>1. CASE q < s
    <3>1. Q + SECTOR_SIZE <= P
      <4>1. s - 1 - q \in Nat
        BY <1>2, <2>1
      <4>2. (s - 1 - q) * SECTOR_SIZE >= 0 /\ (s - 1 - q) * SECTOR_SIZE = P - SECTOR_SIZE - Q
        BY <1>1, <1>2, <4>1
      <4> QED BY <1>1, <1>6, <4>2
    <3>2. a \notin P .. P + L - 1
      <4> HIDE DEF q, r, P, L, Q
      <4> QED BY <1>1, <1>2, <1>6, <3>1
    <3> QED BY <1>4, <1>5, <1>9, <3>2
  <2>2. CASE q >= s + n
    <3>1. Q >= P + L
      <4>1. q - (s + n) \in Nat
        BY <1>2, <2>2
      <4>2. (q - (s + n)) * SECTOR_SIZE >= 0 /\ (q - (s + n)) * SECTOR_SIZE = Q - (P + L)
        BY <1>1, <1>2, <1>7, <4>1
      <4> QED BY <1>1, <1>6, <4>2
    <3>2. a \notin P .. P + L - 1
      <4> HIDE DEF q, r, P, L, Q
      <4> QED BY <1>1, <1>2, <1>6, <3>1
    <3> QED BY <1>4, <1>5, <1>9, <3>2
  <2> QED BY <1>2, <1>9, <2>1, <2>2
<1> QED BY <1>8, <1>9

(* A transfer that fails has a code other than 0, and is not complete.     *)
LEMMA OutcomeIs ==
  ASSUME NEW n \in Nat, NEW o \in Outcomes(n)
  PROVE  /\ o[1] \in 0 .. WORD - 1 /\ o[2] \in 0 .. n
         /\ o[1] = 0 => o[2] = n
         /\ o[1] # 0 => o[2] < n
<1>1. WORD \in Nat \ {0} /\ ErrorCodes \subseteq 1 .. WORD - 1
  BY CodeAssumption
<1>2. CASE o = <<0, n>>
  BY <1>1, <1>2
<1>3. CASE o \in ErrorCodes \X (0 .. n - 1)
  <2>1. o[1] \in ErrorCodes /\ o[2] \in 0 .. n - 1
    BY <1>3
  <2>2. \A c \in ErrorCodes : c \in 1 .. WORD - 1
    BY <1>1
  <2> DEFINE c == o[1]
             d == o[2]
  <2>3. c \in 1 .. WORD - 1 /\ d \in 0 .. n - 1
    BY <2>1, <2>2
  <2> HIDE DEF c, d
  <2>4. c \in 0 .. WORD - 1 /\ d \in 0 .. n /\ c # 0 /\ d < n
    BY <1>1, <2>3
  <2> QED BY <2>4 DEF c, d
<1>4. o = <<0, n>> \/ o \in ErrorCodes \X (0 .. n - 1)
  BY Zenon DEF Outcomes
<1> QED BY <1>2, <1>3, <1>4, Zenon

(* Error codes add up in a register of one word; 0 adds nothing.           *)
LEMMA SumIs ==
  /\ \A b \in 0 .. WORD - 1 : Sum(0, b) = b
  /\ \A a, b \in Nat : Sum(a, b) \in Nat
<1>1. WORD \in Nat \ {0}
  BY CodeAssumption
<1>2. ASSUME NEW b \in 0 .. WORD - 1 PROVE Sum(0, b) = b
  BY <1>1, <1>2, ModOfSmall DEF Sum
<1>3. ASSUME NEW a \in Nat, NEW b \in Nat PROVE Sum(a, b) \in Nat
  BY <1>1, ModBound DEF Sum
<1> QED BY <1>2, <1>3

(* What xfer is when no call is in progress.                               *)
LEMMA Rest == NoTransfer \in Transfers /\ NoTransfer.op = "none" /\ NoTransfer.step = "idle"
BY RequestAssumption DEF NoTransfer, Transfers, Steps

(* The driver counts in natural numbers.                                   *)
LEMMA Numbers ==
  ASSUME DTypes
  PROVE  /\ SECTOR_SIZE \in Nat \ {0} /\ BLOCKS \in Nat /\ LONGEST \in Nat
         /\ xfer.at \in Nat /\ xfer.length \in 0 .. LONGEST /\ xfer.sector \in Nat
         /\ xfer.offset \in Nat /\ xfer.size \in Nat /\ xfer.i \in Nat /\ xfer.n \in Nat
         /\ xfer.result \in Nat /\ xfer.step \in Steps /\ xfer.op \in {"none", "read", "write"}
         /\ xfer.sector * SECTOR_SIZE \in Nat /\ BLOCKS * SECTOR_SIZE \in Nat
         /\ xfer.n * SECTOR_SIZE \in Nat
<1>1. SECTOR_SIZE \in Nat \ {0} /\ BLOCKS \in Nat /\ LONGEST \in Nat
  BY DriveAssumption, RequestAssumption
<1>2. /\ xfer.at \in Nat /\ xfer.length \in 0 .. LONGEST /\ xfer.sector \in Nat
      /\ xfer.offset \in Nat /\ xfer.size \in Nat /\ xfer.i \in Nat /\ xfer.n \in Nat
      /\ xfer.result \in Nat /\ xfer.step \in Steps /\ xfer.op \in {"none", "read", "write"}
  BY DEF DTypes, Transfers
<1>3. \A a, b \in Nat : a * b \in Nat
  OBVIOUS
<1> QED BY <1>1, <1>2, <1>3

(* The sectors a call has still to do with are the disk's.                 *)
LEMMA SectorsFit ==
  ASSUME DTypes, Addressed, xfer.step \in Onward, NEW m \in Nat, m * SECTOR_SIZE <= xfer.size,
         xfer.size > 0
  PROVE  xfer.sector + m <= BLOCKS
<1>1. (xfer.sector + m) * SECTOR_SIZE = xfer.sector * SECTOR_SIZE + m * SECTOR_SIZE
  BY Numbers
<1>2. (BLOCKS + 1) * SECTOR_SIZE = BLOCKS * SECTOR_SIZE + SECTOR_SIZE
  BY Numbers
<1>3. /\ xfer.at + xfer.length <= BLOCKS * SECTOR_SIZE /\ xfer.i + xfer.size = xfer.length
      /\ xfer.sector * SECTOR_SIZE = xfer.at + xfer.i
  BY DEF Addressed, Onward, Step
<1>4. m * SECTOR_SIZE \in Nat
  BY Numbers
<1>5. (xfer.sector + m) * SECTOR_SIZE < (BLOCKS + 1) * SECTOR_SIZE
  BY <1>1, <1>2, <1>3, <1>4, Numbers
<1>6. xfer.sector + m < BLOCKS + 1
  <2>1. xfer.sector + m \in Nat /\ BLOCKS + 1 \in Nat /\ SECTOR_SIZE \in Nat \ {0}
    BY Numbers
  <2> QED BY <1>5, <2>1, ProductCancels
<1> QED BY <1>6, Numbers

(* And so is the next one.                                                 *)
LEMMA SectorFits ==
  ASSUME DTypes, Addressed, xfer.step \in Started \cup Onward, xfer.size > 0
  PROVE  xfer.sector < BLOCKS
<1>1. xfer.at < BLOCKS * SECTOR_SIZE
  BY Numbers DEF Addressed, Step, Started, Onward
<1>2. xfer.sector * SECTOR_SIZE < BLOCKS * SECTOR_SIZE
  BY <1>1, Numbers DEF Addressed, Step, Started, Onward
<1> QED BY <1>2, Numbers, ProductCancels

(* The stretch that begins within a sector ends with it, or before.        *)
LEMMA HeadIs ==
  ASSUME DTypes, Addressed, xfer.step \in Started
  PROVE  /\ HeadSize \in 1 .. xfer.size /\ xfer.offset + HeadSize <= SECTOR_SIZE
         /\ HeadSize < xfer.size => xfer.offset + HeadSize = SECTOR_SIZE
BY Numbers DEF Addressed, Step, Started, HeadSize, Least

(* The beginning of a call.                                                *)
LEMMA CallKeeps ==
  ASSUME IInv, NEW op \in {"read", "write"}, NEW block \in 0 .. BLOCKS - 1,
         NEW offset \in 0 .. SECTOR_SIZE, NEW size \in 1 .. LONGEST, NEW present \in BOOLEAN,
         block * SECTOR_SIZE + offset + size <= BLOCKS * SECTOR_SIZE,
         CallDisk(op, block, offset, size, present)
  PROVE  IInv'
<1> DEFINE q == offset \div SECTOR_SIZE
           r == offset % SECTOR_SIZE
           step == IF ~present THEN "end" ELSE IF r > 0 THEN "head" ELSE "whole"
<1>1. xfer' = [op |-> op, step |-> step, at |-> block * SECTOR_SIZE + offset, length |-> size,
               sector |-> block + q, offset |-> r, size |-> size, i |-> 0, n |-> 0,
               result |-> IF present THEN 0 ELSE 1]
  BY DEF CallDisk, NoTransfer
<1>2. /\ requests' = requests + 1
      /\ user_buff' = IF op = "write" THEN [k \in DOMAIN user_buff |-> Fresh(requests', k)] ELSE user_buff
      /\ UNCHANGED <<surface, disk_buff>>
  BY DEF CallDisk
<1>3. /\ SECTOR_SIZE \in Nat \ {0} /\ block \in Nat /\ offset \in Nat /\ BLOCKS \in Nat
      /\ LONGEST \in Nat /\ block * SECTOR_SIZE \in Nat
  BY Numbers DEF IInv
<1>4. q \in Nat /\ r \in 0 .. SECTOR_SIZE - 1 /\ offset = (q * SECTOR_SIZE) + r
  BY <1>3, DivMod, ModBound
<1> HIDE DEF q, r
<1>5. (block + q) * SECTOR_SIZE + r = block * SECTOR_SIZE + offset
  <2>1. (block + q) * SECTOR_SIZE = block * SECTOR_SIZE + q * SECTOR_SIZE
    BY <1>3, <1>4
  <2>2. q * SECTOR_SIZE \in Nat
    BY <1>3, <1>4
  <2> QED BY <1>3, <1>4, <2>1, <2>2
<1>6. DTypes'
  <2>1. xfer' \in Transfers
    BY <1>1, <1>3, <1>4 DEF Transfers, Steps
  <2> QED BY <1>2, <2>1 DEF IInv, DTypes
<1>7. xfer' # NoTransfer
  BY <1>1, Rest
<1>8. Addressed'
  BY <1>1, <1>3, <1>4, <1>5, <1>7, Rest DEF Addressed, Step, Started, Onward
<1>9. Brought'
  <2>1. op = "write" => \A k \in 0 .. LONGEST - 1 : user_buff'[k] = Fresh(requests', k)
    BY <1>2 DEF IInv, DTypes
  <2>2. Copied(0)'
    BY DEF Copied
  <2> QED BY <1>1, <2>1, <2>2 DEF Brought, Step, Onward
<1> QED BY <1>6, <1>8, <1>9 DEF IInv

(* The driver starts with no call in progress.                             *)
LEMMA InitKeeps == DiskInit => IInv
<1> SUFFICES ASSUME DiskInit PROVE IInv
  OBVIOUS
<1>1. DTypes
  BY Rest DEF DTypes, DiskInit
<1>2. Addressed
  BY Rest DEF Addressed, Step, Started, Onward, DiskInit
<1>3. Brought
  BY Rest DEF Brought, Step, Started, Onward, DiskInit
<1> QED BY <1>1, <1>2, <1>3 DEF IInv

-----------------------------------------------------------------------------
(* The steps, and what a caller of the store sees of them.                 *)

(* A step within a call leaves the request as it was asked.                *)
LEMMA RequestKept ==
  ASSUME IInv, ~Step({"idle"}), xfer' \in Transfers, xfer'.op = xfer.op, xfer'.at = xfer.at,
         xfer'.length = xfer.length, ~Step({"idle"})', UNCHANGED requests
  PROVE  UNCHANGED StoreRequest /\ xfer' # NoTransfer
<1>1. xfer # NoTransfer /\ xfer' # NoTransfer
  <2>1. xfer.op # "none" /\ xfer.op # NoTransfer.op
    BY Rest DEF IInv, Addressed, Step
  <2> QED BY <2>1
<1>2. \A k : Wanted(k)' = Wanted(k)
  BY DEF Wanted
<1> QED BY <1>1, <1>2 DEF StoreRequest

(* While the sectors are left alone so are the bytes.                      *)
LEMMA SurfaceSame == UNCHANGED surface => UNCHANGED StoreBytes /\ \A a : ByteAt(a)' = ByteAt(a)
BY DEF StoreBytes, ByteAt

(* Bytes of a request that reach the disk are a Store of the store.        *)
LEMMA Stores ==
  ASSUME IInv, xfer.op = "write", UNCHANGED <<StoreRequest, reply>>,
         NEW from \in Nat, NEW to \in Int, to < xfer.length,
         \A a \in 0 .. BLOCKS * SECTOR_SIZE - 1 :
           ByteAt(a)' = IF a \in xfer.at + from .. xfer.at + to THEN Fresh(requests, a - xfer.at)
                        ELSE ByteAt(a)
  PROVE  S!Store
<1> DEFINE some == xfer.at + from .. xfer.at + to
<1>1. /\ StoreRequest.op = "write" /\ StoreRequest.at = xfer.at
      /\ StoreRequest.data = [k \in 1 .. xfer.length |-> Wanted(k)]
  BY DEF StoreRequest, IInv, Addressed
<1>2. xfer.at \in Nat /\ xfer.length \in Nat
  BY Numbers DEF IInv
<1>3. Len(StoreRequest.data) = xfer.length
  BY <1>1, <1>2
<1>4. some \subseteq S!Stretch
  BY <1>1, <1>2, <1>3 DEF S!Stretch
<1>5. \A a \in some : S!Datum(a) = Fresh(requests, a - xfer.at)
  <2> TAKE a \in some
  <2>1. a - xfer.at + 1 \in 1 .. xfer.length /\ (a - xfer.at + 1) - 1 = a - xfer.at
    BY <1>2
  <2>2. S!Datum(a) = Wanted(a - xfer.at + 1)
    BY <1>1, <2>1 DEF S!Datum
  <2> QED BY <2>1, <2>2 DEF Wanted
<1>6. StoreBytes' = [a \in DOMAIN StoreBytes |-> IF a \in some THEN S!Datum(a) ELSE StoreBytes[a]]
  BY <1>5 DEF StoreBytes
<1> QED BY <1>1, <1>4, <1>6 DEF S!Store

(* The first or the last stretch of a read, by way of disk_buff.           *)
LEMMA ReadPartStep ==
  ASSUME IInv, ReadPart
  PROVE  IInv' /\ UNCHANGED <<StoreBytes, StoreRequest, reply>>
<1>1. PICK o \in Outcomes(1) :
        /\ At("read", "head") \/ At("read", "tail")
        /\ disk_buff' = IF o[1] = 0 THEN ReadSectors(xfer.sector, 1) ELSE disk_buff
        /\ IF xfer.step = "head"
           THEN /\ user_buff' = CopiedInto(user_buff, 0, disk_buff', xfer.offset, HeadSize)
                /\ xfer' = [xfer EXCEPT !.step = "whole", !.result = o[1], !.i = HeadSize,
                                        !.sector = @ + 1, !.size = @ - HeadSize]
           ELSE /\ user_buff' = CopiedInto(user_buff, xfer.i, disk_buff', 0, xfer.size)
                /\ xfer' = [xfer EXCEPT !.step = "end", !.result = o[1]]
        /\ UNCHANGED <<surface, reply, requests>>
  BY DEF ReadPart
<1> DEFINE code == o[1]
<1>2. code \in Nat
  BY OutcomeIs
<1>3. DTypes /\ Addressed /\ Brought
  BY DEF IInv
<1>4. \A a : ByteAt(a)' = ByteAt(a)
  BY <1>1, SurfaceSame
<1>5. xfer.sector < BLOCKS
  <2>1. xfer.step \in {"head", "tail"}
    BY <1>1 DEF At
  <2>2. xfer.size > 0
    BY <1>3, <2>1, Numbers DEF Addressed, Step, Started
  <2> QED BY <1>3, <2>1, <2>2, SectorFits DEF Started, Onward
<1>6. code = 0 => \A b \in Bytes : disk_buff'[b] = ByteAt((xfer.sector * SECTOR_SIZE) + b)
  <2> SUFFICES ASSUME code = 0, NEW b \in Bytes
               PROVE  disk_buff'[b] = ByteAt((xfer.sector * SECTOR_SIZE) + b)
    OBVIOUS
  <2>1. b \in 0 .. (1 * SECTOR_SIZE) - 1 /\ xfer.sector + 1 <= BLOCKS
    BY <1>3, <1>5, Numbers DEF Bytes
  <2> QED BY <1>1, <1>3, <2>1, Numbers, ReadIs
<1>7. DOMAIN disk_buff' = Bytes
  <2>1. 1 * SECTOR_SIZE = SECTOR_SIZE
    BY <1>3, Numbers
  <2> QED BY <1>1, <1>3, <2>1 DEF DTypes, ReadSectors, Bytes
<1>8. CASE At("read", "head")
  <2>1. /\ xfer' \in Transfers /\ xfer'.op = "read" /\ xfer'.at = xfer.at /\ xfer'.length = xfer.length
        /\ xfer'.step = "whole" /\ xfer'.result = code /\ xfer'.i = HeadSize
        /\ xfer'.sector = xfer.sector + 1 /\ xfer'.size = xfer.size - HeadSize
    <3>1. HeadSize \in 1 .. xfer.size
      BY <1>3, <1>8, HeadIs DEF At, Started
    <3>2. xfer' = [xfer EXCEPT !.step = "whole", !.result = code, !.i = HeadSize,
                               !.sector = @ + 1, !.size = @ - HeadSize]
      BY <1>1, <1>8 DEF At
    <3> HIDE DEF code
    <3>3. HeadSize \in Nat /\ xfer.size - HeadSize \in Nat /\ xfer.sector + 1 \in Nat
      BY <1>3, <3>1, Numbers
    <3> QED BY <1>2, <1>3, <1>8, <3>2, <3>3 DEF At, DTypes, Transfers, Steps
  <2>2. user_buff' = CopiedInto(user_buff, 0, disk_buff', xfer.offset, HeadSize)
    BY <1>1, <1>8 DEF At
  <2> HIDE DEF code
  <2>3. UNCHANGED StoreRequest /\ xfer' # NoTransfer
    BY <1>1, <1>8, <2>1, RequestKept DEF At, Step
  <2>4. DTypes'
    BY <1>1, <1>3, <1>7, <2>1, <2>2 DEF DTypes, CopiedInto
  <2>5. /\ HeadSize \in 1 .. xfer.size /\ xfer.offset + HeadSize <= SECTOR_SIZE
        /\ HeadSize < xfer.size => xfer.offset + HeadSize = SECTOR_SIZE
    BY <1>3, <1>8, HeadIs DEF At, Started
  <2>6. (xfer.sector + 1) * SECTOR_SIZE = (xfer.sector * SECTOR_SIZE) + SECTOR_SIZE
    BY <1>3, Numbers
  <2>7. /\ xfer.size = xfer.length /\ (xfer.sector * SECTOR_SIZE) + xfer.offset = xfer.at
        /\ xfer.length >= 1 /\ xfer.at + xfer.length <= BLOCKS * SECTOR_SIZE
    BY <1>3, <1>8 DEF Addressed, At, Step, Started
  <2>8. Addressed'
    BY <1>3, <2>1, <2>3, <2>5, <2>6, <2>7, Numbers DEF Addressed, Step, Started, Onward
  <2>9. code = 0 => Copied(xfer.i)'
    <3> SUFFICES ASSUME code = 0, NEW j \in 0 .. HeadSize - 1
                 PROVE  user_buff'[j] = ByteAt(xfer.at + j)
      BY <1>4, <2>1, <2>5 DEF Copied
    <3>1. xfer.offset + j \in Bytes /\ j \in 0 .. LONGEST - 1
      BY <1>3, <2>5, <2>7, Numbers DEF Bytes
    <3>2. user_buff'[j] = disk_buff'[xfer.offset + j]
      <4>1. user_buff'[j] = disk_buff'[xfer.offset + j - 0] /\ xfer.offset + j - 0 = xfer.offset + j
        BY <1>3, <2>2, <2>5, <3>1, Numbers DEF CopiedInto, DTypes
      <4> QED BY <4>1
    <3>3. (xfer.sector * SECTOR_SIZE) + (xfer.offset + j) = xfer.at + j
      BY <1>3, <2>7, Numbers
    <3> QED BY <1>6, <3>1, <3>2, <3>3
  <2>10. Brought'
    BY <2>1, <2>9 DEF Brought, Step, Onward
  <2> QED BY <1>1, <2>3, <2>4, <2>8, <2>10, SurfaceSame DEF IInv
<1>9. CASE At("read", "tail")
  <2>1. /\ xfer' \in Transfers /\ xfer'.op = "read" /\ xfer'.at = xfer.at /\ xfer'.length = xfer.length
        /\ xfer'.step = "end" /\ xfer'.result = code
    BY <1>1, <1>2, <1>3, <1>9 DEF At, DTypes, Transfers, Steps
  <2>2. user_buff' = CopiedInto(user_buff, xfer.i, disk_buff', 0, xfer.size)
    BY <1>1, <1>9 DEF At
  <2> HIDE DEF code
  <2>3. UNCHANGED StoreRequest /\ xfer' # NoTransfer
    BY <1>1, <1>9, <2>1, RequestKept DEF At, Step
  <2>4. DTypes'
    BY <1>1, <1>3, <1>7, <2>1, <2>2 DEF DTypes, CopiedInto
  <2>5. /\ xfer.i + xfer.size = xfer.length /\ xfer.sector * SECTOR_SIZE = xfer.at + xfer.i
        /\ xfer.length >= 1 /\ xfer.at + xfer.length <= BLOCKS * SECTOR_SIZE
        /\ xfer.size \in 1 .. SECTOR_SIZE - 1 /\ Copied(xfer.i)
    BY <1>3, <1>9, Numbers DEF Addressed, Brought, At, Step, Onward
  <2>6. Addressed'
    BY <2>1, <2>3, <2>5 DEF Addressed, Step, Started, Onward
  <2>7. code = 0 => Copied(xfer.length)'
    <3> SUFFICES ASSUME code = 0, NEW j \in 0 .. xfer.length - 1
                 PROVE  user_buff'[j] = ByteAt(xfer.at + j)
      BY <1>4, <2>1 DEF Copied
    <3>1. j \in 0 .. LONGEST - 1
      BY <1>3, Numbers
    <3>2. CASE j < xfer.i
      <4>1. user_buff'[j] = user_buff[j]
        BY <1>3, <2>2, <3>1, <3>2, Numbers DEF CopiedInto, DTypes
      <4> QED BY <1>3, <2>5, <3>2, <4>1, Numbers DEF Copied
    <3>3. CASE j >= xfer.i
      <4>1. j - xfer.i \in Bytes /\ j \in xfer.i .. xfer.i + xfer.size - 1
        BY <1>3, <2>5, <3>3, Numbers DEF Bytes
      <4>2. user_buff'[j] = disk_buff'[0 + j - xfer.i] /\ 0 + j - xfer.i = j - xfer.i
        BY <1>3, <2>2, <3>1, <4>1, Numbers DEF CopiedInto, DTypes
      <4>3. (xfer.sector * SECTOR_SIZE) + (j - xfer.i) = xfer.at + j
        BY <1>3, <2>5, Numbers
      <4> QED BY <1>6, <4>1, <4>2, <4>3
    <3> QED BY <1>3, <3>2, <3>3, Numbers
  <2>8. Brought'
    BY <2>1, <2>7 DEF Brought, Step, Onward
  <2> QED BY <1>1, <2>3, <2>4, <2>6, <2>8, SurfaceSame DEF IInv
<1> QED BY <1>1, <1>8, <1>9

(* A sector of which a write replaces a part is read into disk_buff.       *)
LEMMA FetchPartStep ==
  ASSUME IInv, FetchPart
  PROVE  IInv' /\ UNCHANGED <<StoreBytes, StoreRequest, reply>>
<1>1. PICK o \in Outcomes(1) :
        /\ At("write", "head") \/ At("write", "tail")
        /\ LET read == IF o[1] = 0 THEN ReadSectors(xfer.sector, 1) ELSE disk_buff
           IN  disk_buff' = IF xfer.step = "head" THEN CopiedInto(read, xfer.offset, user_buff, 0, HeadSize)
                                                  ELSE CopiedInto(read, 0, user_buff, xfer.i, xfer.size)
        /\ xfer' = [xfer EXCEPT !.step = IF xfer.step = "head" THEN "headback" ELSE "tailback",
                                !.result = Sum(@, o[1])]
        /\ UNCHANGED <<surface, user_buff, reply, requests>>
  BY DEF FetchPart
<1> DEFINE code == o[1]
           read == IF code = 0 THEN ReadSectors(xfer.sector, 1) ELSE disk_buff
           back == IF xfer.step = "head" THEN "headback" ELSE "tailback"
<1>2. code \in 0 .. WORD - 1
  BY OutcomeIs
<1>3. DTypes /\ Addressed /\ Brought
  BY DEF IInv
<1>4. \A a : ByteAt(a)' = ByteAt(a)
  BY <1>1, SurfaceSame
<1>5. /\ xfer.step \in {"head", "tail"} /\ xfer.op = "write" /\ xfer.result = 0
      /\ xfer.size >= 1
  BY <1>1, <1>3, Numbers DEF At, Addressed, Step, Started
<1>6. xfer.sector < BLOCKS
  BY <1>3, <1>5, Numbers, SectorFits DEF Started, Onward
<1>7. code = 0 => \A b \in Bytes : read[b] = ByteAt((xfer.sector * SECTOR_SIZE) + b)
  <2> SUFFICES ASSUME code = 0, NEW b \in Bytes
               PROVE  ReadSectors(xfer.sector, 1)[b] = ByteAt((xfer.sector * SECTOR_SIZE) + b)
    OBVIOUS
  <2>1. b \in 0 .. (1 * SECTOR_SIZE) - 1 /\ xfer.sector + 1 <= BLOCKS
    BY <1>3, <1>6, Numbers DEF Bytes
  <2> QED BY <1>3, <2>1, Numbers, ReadIs
<1>8. DOMAIN read = Bytes
  <2>1. 1 * SECTOR_SIZE = SECTOR_SIZE
    BY <1>3, Numbers
  <2> QED BY <1>3, <2>1 DEF DTypes, ReadSectors, Bytes
<1>9. disk_buff' = IF xfer.step = "head" THEN CopiedInto(read, xfer.offset, user_buff, 0, HeadSize)
                                         ELSE CopiedInto(read, 0, user_buff, xfer.i, xfer.size)
  BY <1>1
<1>10. /\ xfer' \in Transfers /\ xfer'.op = "write" /\ xfer'.at = xfer.at
       /\ xfer'.length = xfer.length /\ xfer'.step = back /\ xfer'.result = code
       /\ xfer'.offset = xfer.offset /\ xfer'.size = xfer.size /\ xfer'.i = xfer.i
       /\ xfer'.sector = xfer.sector
  <2>1. xfer' = [xfer EXCEPT !.step = back, !.result = code]
    BY <1>1, <1>2, <1>5, SumIs
  <2>2. back \in Steps /\ code \in Nat
    BY <1>2, CodeAssumption DEF Steps
  <2> HIDE DEF code, back
  <2> QED BY <1>3, <1>5, <2>1, <2>2 DEF DTypes, Transfers
<1> HIDE DEF code, read
<1>11. UNCHANGED StoreRequest /\ xfer' # NoTransfer
  BY <1>1, <1>5, <1>10, RequestKept DEF Step
<1>12. DTypes'
  BY <1>1, <1>3, <1>8, <1>9, <1>10 DEF DTypes, CopiedInto
<1>13. Addressed'
  BY <1>3, <1>5, <1>10, <1>11, Numbers DEF Addressed, Step, Started, Onward
<1>14. CASE xfer.step = "head"
  <2>1. HeadSize \in 1 .. xfer.size /\ HeadSize' = HeadSize
    BY <1>3, <1>10, <1>14, HeadIs DEF Started, HeadSize
  <2>2. code = 0 => Merged(xfer.offset, 0, HeadSize)'
    <3> SUFFICES ASSUME code = 0, NEW b \in Bytes
                 PROVE  disk_buff'[b] = IF b \in xfer.offset .. xfer.offset + HeadSize - 1
                                        THEN user_buff[0 + b - xfer.offset]
                                        ELSE ByteAt((xfer.sector * SECTOR_SIZE) + b)
      BY <1>1, <1>4, <1>10, <2>1 DEF Merged
    <3> QED BY <1>7, <1>8, <1>9, <1>14 DEF CopiedInto
  <2>3. Brought'
    BY <1>1, <1>3, <1>10, <1>14, <2>2 DEF Brought, Step, Onward
  <2> QED BY <1>1, <1>11, <1>12, <1>13, <2>3, SurfaceSame DEF IInv
<1>15. CASE xfer.step = "tail"
  <2>1. code = 0 => Merged(0, xfer.i, xfer.size)'
    <3> SUFFICES ASSUME code = 0, NEW b \in Bytes
                 PROVE  disk_buff'[b] = IF b \in 0 .. 0 + xfer.size - 1
                                        THEN user_buff[xfer.i + b - 0]
                                        ELSE ByteAt((xfer.sector * SECTOR_SIZE) + b)
      BY <1>1, <1>4, <1>10 DEF Merged
    <3> QED BY <1>7, <1>8, <1>9, <1>15 DEF CopiedInto
  <2>2. Copied(xfer.i) /\ Copied(xfer.i)'
    <3>1. Copied(xfer.i)
      BY <1>3, <1>5, <1>15 DEF Brought, Step, Onward
    <3> QED BY <1>1, <1>4, <1>10, <3>1 DEF Copied
  <2>3. Brought'
    BY <1>1, <1>3, <1>10, <1>15, <2>1, <2>2 DEF Brought, Step, Onward
  <2> QED BY <1>1, <1>11, <1>12, <1>13, <2>3, SurfaceSame DEF IInv
<1> QED BY <1>5, <1>14, <1>15

(* A part of a sector goes back with the rest of it as it was: where the   *)
(* sector could not be read, "stale" being calm, it cannot be written.     *)
LEMMA StorePartStep ==
  ASSUME IInv, {"stale", "twice"} \subseteq DriverCalm, StorePart
  PROVE  IInv' /\ S!Store
<1>1. PICK o \in Outcomes(1) :
        /\ At("write", "headback") \/ At("write", "tailback")
        /\ "stale" \in DriverCalm => ~(xfer.result # 0 /\ o[1] = 0)
        /\ "twice" \in DriverCalm => ~(xfer.result # 0 /\ Sum(xfer.result, o[1]) = 0)
        /\ surface' = Written(xfer.sector, o[2], disk_buff, 0)
        /\ xfer' = IF xfer.step = "headback"
                   THEN [xfer EXCEPT !.step = "whole", !.result = Sum(@, o[1]), !.i = HeadSize,
                                     !.sector = @ + 1, !.size = @ - HeadSize]
                   ELSE [xfer EXCEPT !.step = "end", !.result = Sum(@, o[1])]
        /\ UNCHANGED <<disk_buff, user_buff, reply, requests>>
  BY DEF StorePart
<1> DEFINE code == o[1]
           done == o[2]
           total == Sum(xfer.result, code)
           to    == IF xfer.step = "headback" THEN xfer.offset ELSE 0
           n     == IF xfer.step = "headback" THEN HeadSize ELSE xfer.size
           from  == xfer.i
           P     == xfer.sector * SECTOR_SIZE
<1>2. code \in 0 .. WORD - 1 /\ done \in {0, 1} /\ (code = 0 <=> done = 1)
  BY OutcomeIs
<1>3. DTypes /\ Addressed /\ Brought
  BY DEF IInv
<1>4. xfer.step \in {"headback", "tailback"} /\ xfer.op = "write"
  BY <1>1 DEF At
<1>5. total \in Nat /\ (total = 0 => code = 0) /\ (code = 0 => xfer.result = 0)
  <2>1. code \in Nat
    BY <1>2, CodeAssumption
  <2>2. xfer.result = 0 => total = code
    BY <1>2, SumIs
  <2> QED BY <1>1, <1>3, <2>1, <2>2, Numbers, SumIs
<1>6. xfer.sector < BLOCKS
  <2>1. xfer.size > 0
    BY <1>3, <1>4, Numbers DEF Addressed, Step, Started
  <2> QED BY <1>3, <1>4, <2>1, SectorFits DEF Started, Onward
<1> HIDE DEF code, done
<1>7. /\ to \in Nat /\ n \in 1 .. xfer.size /\ from \in Nat /\ to + n <= SECTOR_SIZE
      /\ P + to = xfer.at + from /\ from + n <= xfer.length /\ P \in Nat
  <2>1. xfer.step = "headback" => HeadSize \in 1 .. xfer.size /\ xfer.offset + HeadSize <= SECTOR_SIZE
    BY <1>3, HeadIs DEF Started
  <2> QED BY <1>3, <1>4, <2>1, Numbers DEF Addressed, Step, Started, Onward
<1>8. code = 0 => Merged(to, from, n)
  <2>1. CASE xfer.step = "headback"
    BY <1>3, <1>5, <2>1 DEF Brought, Addressed, Step, Started
  <2>2. CASE xfer.step = "tailback"
    BY <1>3, <1>5, <2>2 DEF Brought, Step
  <2> QED BY <1>4, <2>1, <2>2
<1> DEFINE last == IF code = 0 THEN from + n - 1 ELSE from - 1
<1>9. \A a \in 0 .. BLOCKS * SECTOR_SIZE - 1 :
        ByteAt(a)' = IF a \in xfer.at + from .. xfer.at + last THEN Fresh(requests, a - xfer.at)
                     ELSE ByteAt(a)
  <2> SUFFICES ASSUME NEW a \in 0 .. BLOCKS * SECTOR_SIZE - 1
               PROVE  ByteAt(a)' = IF a \in xfer.at + from .. xfer.at + last
                                   THEN Fresh(requests, a - xfer.at) ELSE ByteAt(a)
    OBVIOUS
  <2>1. a \in Nat /\ a < BLOCKS * SECTOR_SIZE /\ xfer.at \in Nat
    BY <1>3, Numbers
  <2>2. surface' = Written(xfer.sector, done, disk_buff, 0)
    BY <1>1 DEF done
  <2>3. ByteAt(a)' = IF a \in P .. P + (done * SECTOR_SIZE) - 1 THEN disk_buff[0 + (a - P)] ELSE ByteAt(a)
    <3>1. xfer.sector \in Nat /\ done \in Nat /\ xfer.sector + done <= BLOCKS
      BY <1>2, <1>3, <1>6, Numbers
    <3> QED BY <1>6, <2>1, <2>2, <3>1, WrittenIs
  <2>4. CASE code # 0
    <3>1. done = 0 /\ 0 * SECTOR_SIZE = 0
      BY <1>2, <1>3, <2>4, Numbers
    <3>2. a \notin P .. P + (done * SECTOR_SIZE) - 1 /\ a \notin xfer.at + from .. xfer.at + last
      BY <1>7, <2>1, <2>4, <3>1
    <3> QED BY <2>3, <3>2
  <2>5. CASE code = 0
    <3>1. done = 1 /\ 1 * SECTOR_SIZE = SECTOR_SIZE /\ last = from + n - 1
      BY <1>2, <1>3, <2>5, Numbers
    <3> HIDE DEF to, n, from, P, last
    <3>2. CASE a \in P .. P + SECTOR_SIZE - 1
      <4>1. a - P \in Bytes /\ 0 + (a - P) = a - P /\ P + (a - P) = a
        BY <1>3, <1>7, <2>1, <3>2, Numbers DEF Bytes
      <4>2. disk_buff[a - P] = IF a - P \in to .. to + n - 1 THEN user_buff[from + (a - P) - to] ELSE ByteAt(a)
        <5>1. disk_buff[a - P] = IF a - P \in to .. to + n - 1 THEN user_buff[from + (a - P) - to]
                                 ELSE ByteAt(P + (a - P))
          BY <1>8, <2>5, <4>1 DEF Merged, P
        <5> QED BY <4>1, <5>1
      <4>3. a - P \in to .. to + n - 1 <=> a \in xfer.at + from .. xfer.at + last
        BY <1>3, <1>7, <2>1, <3>1, Numbers
      <4>4. ASSUME a \in xfer.at + from .. xfer.at + last
            PROVE  user_buff[from + (a - P) - to] = Fresh(requests, a - xfer.at)
        <5>1. from + (a - P) - to = a - xfer.at /\ a - xfer.at \in 0 .. LONGEST - 1
          <6>1. a >= xfer.at + from /\ a <= xfer.at + (from + n - 1) /\ xfer.length <= LONGEST
            BY <1>3, <1>7, <2>1, <3>1, <4>4, Numbers
          <6>2. P \in Int /\ to \in Int /\ from \in Nat /\ n \in Int /\ P + to = xfer.at + from
            BY <1>7
          <6>3. xfer.at \in Nat /\ xfer.length \in Nat /\ LONGEST \in Nat
            BY <1>3, Numbers
          <6>4. a - xfer.at >= from /\ a - xfer.at <= from + n - 1 /\ from + n <= LONGEST
            BY <1>7, <2>1, <6>1, <6>2, <6>3
          <6> QED BY <2>1, <6>2, <6>3, <6>4
        <5> QED BY <1>3, <1>4, <5>1 DEF Brought
      <4> QED BY <2>3, <3>1, <3>2, <4>1, <4>2, <4>3, <4>4
    <3>3. CASE a \notin P .. P + SECTOR_SIZE - 1
      <4>1. a \notin xfer.at + from .. xfer.at + last
        BY <1>3, <1>7, <2>1, <3>1, <3>3, Numbers
      <4> QED BY <2>3, <3>1, <3>3, <4>1
    <3> QED BY <3>2, <3>3
  <2> QED BY <2>4, <2>5
<1>10. /\ xfer' \in Transfers /\ xfer'.op = "write" /\ xfer'.at = xfer.at
       /\ xfer'.length = xfer.length /\ xfer'.result = total
       /\ IF xfer.step = "headback"
          THEN /\ xfer'.step = "whole" /\ xfer'.i = n /\ xfer'.sector = xfer.sector + 1
               /\ xfer'.size = xfer.size - n
          ELSE xfer'.step = "end"
  <2>1. CASE xfer.step = "headback"
    <3>1. xfer' = [xfer EXCEPT !.step = "whole", !.result = total, !.i = n,
                               !.sector = @ + 1, !.size = @ - n]
      BY <1>1, <2>1 DEF code
    <3>2. n \in Nat /\ xfer.size - n \in Nat /\ xfer.sector + 1 \in Nat
      BY <1>3, <1>7, Numbers
    <3> HIDE DEF total, n
    <3> QED BY <1>3, <1>4, <1>5, <2>1, <3>1, <3>2 DEF DTypes, Transfers, Steps
  <2>2. CASE xfer.step = "tailback"
    <3>1. xfer' = [xfer EXCEPT !.step = "end", !.result = total]
      BY <1>1, <2>2 DEF code
    <3> HIDE DEF total, n
    <3> QED BY <1>3, <1>4, <1>5, <2>2, <3>1 DEF DTypes, Transfers, Steps
  <2> QED BY <1>4, <2>1, <2>2
<1> HIDE DEF total
<1>11. UNCHANGED StoreRequest /\ xfer' # NoTransfer
  BY <1>1, <1>4, <1>10, RequestKept DEF Step
<1>12. S!Store
  <2>1. last \in Int /\ last < xfer.length
    BY <1>3, <1>7, Numbers
  <2> HIDE DEF last, from
  <2> QED BY <1>1, <1>4, <1>7, <1>9, <1>11, <2>1, Stores
<1>13. DTypes'
  BY <1>1, <1>3, <1>10 DEF DTypes
<1>14. \A j \in 0 .. from + n - 1 : total = 0 /\ Copied(from) => user_buff[j] = ByteAt(xfer.at + j)'
  <2> SUFFICES ASSUME NEW j \in 0 .. from + n - 1, total = 0, Copied(from)
               PROVE  user_buff[j] = ByteAt(xfer.at + j)'
    OBVIOUS
  <2>1. last = from + n - 1
    BY <1>5, <1>7
  <2>2. /\ xfer.at + j \in 0 .. BLOCKS * SECTOR_SIZE - 1 /\ j \in 0 .. LONGEST - 1
        /\ xfer.at + j - xfer.at = j /\ j < xfer.length
    BY <1>3, <1>4, <1>7, Numbers DEF Addressed, Step
  <2>3. user_buff[j] = Fresh(requests, j)
    BY <1>3, <1>4, <2>2 DEF Brought
  <2>4. ByteAt(xfer.at + j)' = IF xfer.at + j \in xfer.at + from .. xfer.at + last
                               THEN Fresh(requests, (xfer.at + j) - xfer.at) ELSE ByteAt(xfer.at + j)
    <3>1. ByteAt(xfer.at + j)' = (surface'[(xfer.at + j)' \div SECTOR_SIZE])[(xfer.at + j)' % SECTOR_SIZE]
      BY DEF ByteAt
    <3>2. PICK a \in 0 .. BLOCKS * SECTOR_SIZE - 1 : a = xfer.at + j
      BY <2>2
    <3>3. ByteAt(a)' = ByteAt(xfer.at + j)'
      BY <1>10, <3>2 DEF ByteAt
    <3> HIDE DEF last, from
    <3> QED BY <1>9, <3>2, <3>3
  <2>5. CASE j >= from
    BY <1>3, <1>7, <2>1, <2>2, <2>3, <2>4, <2>5, Numbers
  <2>6. CASE j < from
    <3>1. user_buff[j] = ByteAt(xfer.at + j)
      BY <1>7, <2>6 DEF Copied
    <3> QED BY <1>3, <1>7, <2>2, <2>4, <2>6, <3>1, Numbers
  <2> QED BY <1>7, <2>5, <2>6
<1>15. CASE xfer.step = "headback"
  <2>1. /\ n < xfer.size => xfer.offset + n = SECTOR_SIZE
        /\ from = 0 /\ to = xfer.offset /\ xfer.size = xfer.length
    BY <1>3, <1>15, HeadIs DEF Started, Addressed, Step
  <2>2. (xfer.sector + 1) * SECTOR_SIZE = P + SECTOR_SIZE
    BY <1>3, Numbers
  <2> HIDE DEF n, from, to
  <2>3. Addressed'
    BY <1>3, <1>7, <1>10, <1>11, <1>15, <2>1, <2>2, Numbers DEF Addressed, Step, Started, Onward
  <2>4. Copied(from)
    BY <2>1 DEF Copied
  <2>5. total = 0 => Copied(xfer.i)'
    <3> SUFFICES ASSUME total = 0, NEW j \in 0 .. n - 1 PROVE user_buff'[j] = ByteAt(xfer.at + j)'
      BY <1>10, <1>15 DEF Copied, ByteAt
    <3> QED BY <1>1, <1>7, <1>14, <2>1, <2>4
  <2>6. Brought'
    BY <1>1, <1>3, <1>4, <1>10, <1>15, <2>5 DEF Brought, Step, Onward
  <2> QED BY <1>12, <1>13, <2>3, <2>6 DEF IInv
<1>16. CASE xfer.step = "tailback"
  <2>1. from + n = xfer.length /\ (code = 0 => Copied(from))
    BY <1>3, <1>5, <1>16, Numbers DEF Addressed, Brought, Step, Onward
  <2>2. Addressed'
    BY <1>3, <1>10, <1>11, <1>16, Numbers DEF Addressed, Step, Started, Onward
  <2>3. total = 0 => Copied(xfer.length)'
    <3> SUFFICES ASSUME total = 0, NEW j \in 0 .. xfer.length - 1
                 PROVE  user_buff'[j] = ByteAt(xfer.at + j)'
      BY <1>10 DEF Copied, ByteAt
    <3> HIDE DEF n, from
    <3>1. user_buff' = user_buff
      BY <1>1
    <3>2. j \in 0 .. from + n - 1 /\ Copied(from)
      BY <1>3, <1>5, <1>7, <2>1, Numbers
    <3> QED BY <1>14, <3>1, <3>2
  <2>4. Brought'
    BY <1>1, <1>3, <1>4, <1>10, <1>16, <2>3 DEF Brought, Step, Onward
  <2> QED BY <1>12, <1>13, <2>2, <2>4 DEF IInv
<1> QED BY <1>4, <1>15, <1>16

(* A run of whole sectors, as far as it gets.                              *)
LEMMA RunRead ==
  ASSUME DTypes, Addressed, xfer.step \in Onward, NEW m \in Nat, m * SECTOR_SIZE <= xfer.size, m > 0,
         UNCHANGED surface, xfer'.at = xfer.at, xfer'.i = xfer.i + (m * SECTOR_SIZE), Copied(xfer.i),
         \A k \in 0 .. LONGEST - 1 :
           user_buff'[k] = IF k \in xfer.i .. xfer.i + (m * SECTOR_SIZE) - 1
                           THEN ByteAt((xfer.sector * SECTOR_SIZE) + (k - xfer.i)) ELSE user_buff[k]
  PROVE  Copied(xfer.i)'
<1> DEFINE L == m * SECTOR_SIZE
<1>1. L \in Nat /\ L >= SECTOR_SIZE
  BY Numbers, ProductGrows
<1> HIDE DEF L
<1>2. L = m * SECTOR_SIZE
  BY DEF L
<1>3. xfer.i + xfer.size = xfer.length /\ xfer.sector * SECTOR_SIZE = xfer.at + xfer.i
  BY <1>1, <1>2, Numbers DEF Addressed, Step, Onward
<1>4. SUFFICES ASSUME NEW j \in 0 .. xfer.i + L - 1 PROVE user_buff'[j] = ByteAt(xfer.at + j)
  BY <1>1, <1>2, Numbers DEF Copied, ByteAt
<1>5. j \in 0 .. LONGEST - 1
  BY <1>1, <1>2, <1>3, Numbers
<1>6. CASE j < xfer.i
  <2>1. user_buff'[j] = user_buff[j]
    BY <1>5, <1>6, Numbers
  <2> QED BY <1>6, <2>1, Numbers DEF Copied
<1>7. CASE j >= xfer.i
  <2>1. (xfer.sector * SECTOR_SIZE) + (j - xfer.i) = xfer.at + j
    BY <1>3, Numbers
  <2>2. j \in xfer.i .. xfer.i + L - 1
    BY <1>1, <1>7, Numbers
  <2> QED BY <1>2, <1>5, <2>1, <2>2
<1> QED BY <1>1, <1>6, <1>7, Numbers

LEMMA RunWritten ==
  ASSUME IInv, xfer.op = "write", xfer.step \in Onward, NEW m \in Nat, m * SECTOR_SIZE <= xfer.size,
         xfer.size > 0, NEW src, NEW from \in Nat, surface' = Written(xfer.sector, m, src, from),
         \A k \in 0 .. (m * SECTOR_SIZE) - 1 : src[from + k] = user_buff[xfer.i + k],
         UNCHANGED <<StoreRequest, reply>>
  PROVE  /\ S!Store
         /\ \A a \in 0 .. BLOCKS * SECTOR_SIZE - 1 :
              ByteAt(a)' = IF a \in xfer.at + xfer.i .. xfer.at + xfer.i + (m * SECTOR_SIZE) - 1
                           THEN Fresh(requests, a - xfer.at) ELSE ByteAt(a)
<1> DEFINE L == m * SECTOR_SIZE
           P == xfer.sector * SECTOR_SIZE
<1>1. DTypes /\ Addressed /\ Brought
  BY DEF IInv
<1>2. L \in Nat /\ P \in Nat
  BY <1>1, Numbers
<1>3. /\ xfer.i + xfer.size = xfer.length /\ P = xfer.at + xfer.i
      /\ xfer.at + xfer.length <= BLOCKS * SECTOR_SIZE
  BY <1>1, Numbers DEF Addressed, Step, Onward
<1>4. xfer.sector + m <= BLOCKS /\ xfer.sector < BLOCKS
  BY <1>1, SectorsFit, SectorFits
<1>5. \A a \in 0 .. BLOCKS * SECTOR_SIZE - 1 :
        ByteAt(a)' = IF a \in P .. P + L - 1 THEN src[from + (a - P)] ELSE ByteAt(a)
  <2> TAKE a \in 0 .. BLOCKS * SECTOR_SIZE - 1
  <2>1. a \in Nat /\ a < BLOCKS * SECTOR_SIZE /\ xfer.sector \in Nat
    BY <1>1, Numbers
  <2> QED BY <1>4, <2>1, WrittenIs
<1>6. \A a \in 0 .. BLOCKS * SECTOR_SIZE - 1 :
        ByteAt(a)' = IF a \in xfer.at + xfer.i .. xfer.at + xfer.i + L - 1
                     THEN Fresh(requests, a - xfer.at) ELSE ByteAt(a)
  <2> TAKE a \in 0 .. BLOCKS * SECTOR_SIZE - 1
  <2>1. ASSUME a \in P .. P + L - 1 PROVE src[from + (a - P)] = Fresh(requests, a - xfer.at)
    <3>1. a - P \in 0 .. L - 1
      BY <1>1, <1>2, <2>1, Numbers
    <3>2. src[from + (a - P)] = user_buff[xfer.i + (a - P)]
      BY <3>1
    <3> HIDE DEF L, P
    <3>3. L <= xfer.size
      BY DEF L
    <3>4. xfer.at \in Nat /\ xfer.length \in Nat /\ xfer.length <= LONGEST /\ LONGEST \in Nat /\ xfer.i \in Nat
          /\ xfer.size \in Nat
      BY <1>1, Numbers
    <3>5. xfer.i + (a - P) = a - xfer.at /\ a - xfer.at \in 0 .. LONGEST - 1
      BY <1>2, <1>3, <2>1, <3>3, <3>4
    <3> QED BY <1>1, <3>2, <3>5 DEF Brought
  <2> QED BY <1>3, <1>5, <2>1
<1> DEFINE last == xfer.i + L - 1
<1>7. /\ last \in Int /\ last < xfer.length /\ xfer.at + last = xfer.at + xfer.i + L - 1
      /\ xfer.i \in Nat
  <2>1. xfer.at \in Nat /\ xfer.i \in Nat /\ xfer.length \in Nat /\ xfer.size \in Nat
    BY <1>1, Numbers
  <2>2. L <= xfer.size
    OBVIOUS
  <2> HIDE DEF L
  <2> QED BY <1>2, <1>3, <2>1, <2>2
<1>8. S!Store
  <2> HIDE DEF last
  <2> QED BY <1>6, <1>7, Stores DEF L
<1> QED BY <1>6, <1>8

(* What has been written reads back as written.                            *)
LEMMA SameWritten ==
  ASSUME DTypes, Addressed, Brought, xfer.op = "write", xfer.step \in Onward,
         NEW n \in Nat, n <= xfer.length, Copied(xfer.i), xfer.i <= n,
         UNCHANGED user_buff, xfer'.at = xfer.at, xfer'.i = n,
         \A a \in 0 .. BLOCKS * SECTOR_SIZE - 1 :
           ByteAt(a)' = IF a \in xfer.at + xfer.i .. xfer.at + n - 1
                        THEN Fresh(requests, a - xfer.at) ELSE ByteAt(a)
  PROVE  Copied(xfer.i)'
<1>1. SUFFICES ASSUME NEW j \in 0 .. n - 1 PROVE user_buff[j] = ByteAt(xfer.at + j)'
  BY DEF Copied, ByteAt
<1>2. /\ xfer.at + j \in 0 .. BLOCKS * SECTOR_SIZE - 1 /\ j \in 0 .. LONGEST - 1
      /\ (xfer.at + j) - xfer.at = j
  BY Numbers DEF Addressed, Step, Onward
<1>3. user_buff[j] = Fresh(requests, j)
  BY <1>2 DEF Brought
<1>4. ByteAt(xfer.at + j)' = IF xfer.at + j \in xfer.at + xfer.i .. xfer.at + n - 1
                             THEN Fresh(requests, (xfer.at + j) - xfer.at) ELSE ByteAt(xfer.at + j)
  <2>1. PICK a \in 0 .. BLOCKS * SECTOR_SIZE - 1 : a = xfer.at + j
    BY <1>2
  <2>2. ByteAt(a)' = ByteAt(xfer.at + j)'
    BY <2>1 DEF ByteAt
  <2> QED BY <2>1, <2>2
<1>5. CASE j >= xfer.i
  BY <1>2, <1>3, <1>4, <1>5, Numbers
<1>6. CASE j < xfer.i
  <2>1. user_buff[j] = ByteAt(xfer.at + j)
    BY <1>6, Numbers DEF Copied
  <2> QED BY <1>2, <1>4, <1>6, <2>1, Numbers
<1> QED BY <1>5, <1>6, Numbers

(* The whole sectors of what is left: what is over is less than one.       *)
LEMMA WholeIs ==
  ASSUME DTypes
  PROVE  /\ Whole \in Nat /\ Whole * SECTOR_SIZE \in Nat
         /\ xfer.size - (Whole * SECTOR_SIZE) \in 0 .. SECTOR_SIZE - 1
         /\ \A m \in 0 .. Whole : m * SECTOR_SIZE <= xfer.size /\ m * SECTOR_SIZE \in Nat
<1> DEFINE r == xfer.size % SECTOR_SIZE
<1>1. Whole \in Nat /\ r \in 0 .. SECTOR_SIZE - 1 /\ xfer.size = (Whole * SECTOR_SIZE) + r
  BY Numbers, DivMod, ModBound DEF Whole
<1> HIDE DEF r
<1>2. Whole * SECTOR_SIZE \in Nat
  BY <1>1, Numbers
<1>3. ASSUME NEW m \in 0 .. Whole PROVE m * SECTOR_SIZE <= xfer.size /\ m * SECTOR_SIZE \in Nat
  <2>1. (Whole - m) * SECTOR_SIZE >= 0
    BY <1>1, Numbers
  <2>2. (Whole - m) * SECTOR_SIZE = (Whole * SECTOR_SIZE) - (m * SECTOR_SIZE)
    BY <1>1, Numbers
  <2>3. m * SECTOR_SIZE \in Nat
    BY <1>1, Numbers
  <2> QED BY <1>1, <1>2, <2>1, <2>2, <2>3, Numbers
<1> QED BY <1>1, <1>2, <1>3, Numbers

(* Whole sectors in one go, between the disk and user_buff.                *)
LEMMA TransferWholeStep ==
  ASSUME IInv, TransferWhole
  PROVE  IInv' /\ (S!Store \/ UNCHANGED <<StoreBytes, StoreRequest, reply>>)
<1>1. PICK o \in Outcomes(Whole) :
        /\ xfer.step = "whole" /\ xfer.result = 0 /\ Whole > 0
        /\ IF xfer.op = "read"
           THEN /\ user_buff' = CopiedInto(user_buff, xfer.i, ReadSectors(xfer.sector, o[2]), 0,
                                           o[2] * SECTOR_SIZE)
                /\ UNCHANGED surface
           ELSE /\ surface' = Written(xfer.sector, o[2], user_buff, xfer.i)
                /\ UNCHANGED user_buff
        /\ xfer' = IF o[1] = DMA_ERROR THEN [xfer EXCEPT !.step = "single", !.n = Whole]
                                       ELSE SectorsDone(xfer, Whole, o[1])
        /\ UNCHANGED <<disk_buff, reply, requests>>
  BY DEF TransferWhole
<1> DEFINE code == o[1]
           done == o[2]
           L    == Whole * SECTOR_SIZE
           D    == done * SECTOR_SIZE
           again == code = DMA_ERROR
<1>2. DTypes /\ Addressed /\ Brought
  BY DEF IInv
<1>3. /\ code \in Nat /\ done \in 0 .. Whole /\ (code = 0 => done = Whole)
      /\ (again => code # 0)
  <2>1. Whole \in Nat /\ \A c \in 0 .. WORD - 1 : c \in Nat
    BY <1>2, WholeIs, CodeAssumption
  <2> QED BY <2>1, OutcomeIs DEF DMA_ERROR
<1>4. /\ Whole \in Nat /\ Whole > 0 /\ L \in Nat /\ L >= SECTOR_SIZE
      /\ xfer.size - L \in 0 .. SECTOR_SIZE - 1 /\ D \in Nat /\ D <= xfer.size /\ xfer.size > 0
  <2>1. Whole \in Nat /\ Whole > 0 /\ L \in Nat /\ xfer.size - L \in 0 .. SECTOR_SIZE - 1
    BY <1>1, <1>2, WholeIs
  <2>2. L >= SECTOR_SIZE
    BY <1>2, <2>1, Numbers, ProductGrows
  <2>3. D \in Nat /\ D <= xfer.size
    BY <1>2, <1>3, WholeIs
  <2> HIDE DEF L, D
  <2> QED BY <1>2, <2>1, <2>2, <2>3, Numbers
<1> HIDE DEF code, done
<1>5. /\ xfer' \in Transfers /\ xfer'.op = xfer.op /\ xfer'.at = xfer.at
      /\ xfer'.length = xfer.length
      /\ IF again
         THEN /\ xfer'.step = "single" /\ xfer'.n = Whole /\ xfer'.i = xfer.i /\ xfer'.size = xfer.size
              /\ xfer'.sector = xfer.sector /\ xfer'.result = 0
         ELSE /\ xfer'.step = "rest" /\ xfer'.i = xfer.i + L /\ xfer'.size = xfer.size - L
              /\ xfer'.sector = xfer.sector + Whole /\ xfer'.result = code
  <2>1. CASE again
    <3>1. xfer' = [xfer EXCEPT !.step = "single", !.n = Whole]
      BY <1>1, <2>1 DEF code
    <3> QED BY <1>1, <1>2, <1>4, <2>1, <3>1 DEF DTypes, Transfers, Steps
  <2>2. CASE ~again
    <3>1. xfer' = [xfer EXCEPT !.step = "rest", !.result = code, !.sector = @ + Whole,
                               !.i = @ + L, !.size = @ - L]
      BY <1>1, <2>2 DEF code, SectorsDone
    <3>2. xfer.sector + Whole \in Nat /\ xfer.i + L \in Nat /\ xfer.size - L \in Nat
      BY <1>2, <1>4, Numbers
    <3> HIDE DEF L, again
    <3> QED BY <1>2, <1>3, <2>2, <3>1, <3>2 DEF DTypes, Transfers, Steps
  <2> QED BY <2>1, <2>2
<1>6. UNCHANGED StoreRequest /\ xfer' # NoTransfer
  <2>1. ~Step({"idle"}) /\ ~Step({"idle"})'
    BY <1>1, <1>5 DEF Step
  <2> QED BY <1>1, <1>5, <2>1, RequestKept
<1>7. DTypes'
  BY <1>1, <1>2, <1>5 DEF DTypes, CopiedInto
<1>8. Addressed'
  <2>1. /\ xfer.i + xfer.size = xfer.length /\ xfer.sector * SECTOR_SIZE = xfer.at + xfer.i
        /\ xfer.length >= 1 /\ xfer.at + xfer.length <= BLOCKS * SECTOR_SIZE /\ xfer.op # "none"
    BY <1>1, <1>2, <1>4, Rest DEF Addressed, Step, Onward
  <2>2. (xfer.sector + Whole) * SECTOR_SIZE = (xfer.sector * SECTOR_SIZE) + L
    BY <1>2, <1>4, Numbers
  <2>3. L = Whole * SECTOR_SIZE
    OBVIOUS
  <2> HIDE DEF L, D, again
  <2> QED BY <1>2, <1>4, <1>5, <1>6, <2>1, <2>2, <2>3, Numbers DEF Addressed, Step, Started, Onward
<1>9. xfer.step \in Onward /\ Copied(xfer.i) /\ xfer.op \in {"read", "write"}
  BY <1>1, <1>2, Numbers, Rest DEF Onward, Brought, Addressed, Step
<1>10. CASE xfer.op = "read"
  <2>1. \A a : ByteAt(a)' = ByteAt(a)
    BY <1>1, <1>10, SurfaceSame
  <2>2. ASSUME NEW k \in 0 .. LONGEST - 1
        PROVE  user_buff'[k] = IF k \in xfer.i .. xfer.i + D - 1
                               THEN ByteAt((xfer.sector * SECTOR_SIZE) + (k - xfer.i)) ELSE user_buff[k]
    <3>1. user_buff'[k] = IF k \in xfer.i .. xfer.i + D - 1
                          THEN ReadSectors(xfer.sector, done)[0 + k - xfer.i] ELSE user_buff[k]
      BY <1>1, <1>2, <1>10, Numbers DEF CopiedInto, DTypes, done
    <3>2. ASSUME k \in xfer.i .. xfer.i + D - 1
          PROVE  ReadSectors(xfer.sector, done)[0 + k - xfer.i] = ByteAt((xfer.sector * SECTOR_SIZE) + (k - xfer.i))
      <4>1. 0 + k - xfer.i = k - xfer.i /\ k - xfer.i \in 0 .. D - 1
        BY <1>2, <1>4, <3>2, Numbers
      <4>2. xfer.sector \in Nat /\ done \in Nat /\ xfer.sector + done <= BLOCKS
        BY <1>2, <1>3, <1>4, <1>9, Numbers, SectorsFit
      <4> QED BY <4>1, <4>2, ReadIs
    <3> QED BY <3>1, <3>2
  <2>3. xfer'.result = 0 => Copied(xfer.i)'
    <3>1. CASE again
      <4> SUFFICES ASSUME NEW j \in 0 .. xfer.i - 1 PROVE user_buff'[j] = ByteAt(xfer.at + j)
        BY <1>5, <2>1, <3>1 DEF Copied
      <4>1. j \in 0 .. LONGEST - 1 /\ j \notin xfer.i .. xfer.i + D - 1
        <5>1. xfer.i + xfer.size = xfer.length
          BY <1>2, <1>9 DEF Addressed, Step
        <5> QED BY <1>2, <1>4, <5>1, Numbers
      <4> QED BY <1>9, <2>2, <4>1 DEF Copied
    <3>2. CASE ~again /\ code = 0
      <4>1. D = L
        BY <1>3, <3>2
      <4>2. xfer'.i = xfer.i + L /\ L <= xfer.size
        BY <1>2, <1>4, <1>5, <3>2, WholeIs
      <4> QED BY <1>1, <1>2, <1>4, <1>5, <1>9, <1>10, <2>2, <4>1, <4>2, RunRead
    <3> QED BY <1>5, <3>1, <3>2
  <2>4. Brought'
    BY <1>5, <1>10, <2>3 DEF Brought, Step, Onward
  <2> QED BY <1>1, <1>6, <1>7, <1>8, <1>10, <2>4, SurfaceSame DEF IInv
<1>11. CASE xfer.op = "write"
  <2>1. surface' = Written(xfer.sector, done, user_buff, xfer.i) /\ UNCHANGED user_buff
    BY <1>1, <1>11 DEF done
  <2>2. /\ S!Store
        /\ \A a \in 0 .. BLOCKS * SECTOR_SIZE - 1 :
             ByteAt(a)' = IF a \in xfer.at + xfer.i .. xfer.at + xfer.i + D - 1
                          THEN Fresh(requests, a - xfer.at) ELSE ByteAt(a)
    <3>1. done \in Nat /\ xfer.i \in Nat
      BY <1>2, <1>3, Numbers
    <3>2. UNCHANGED <<StoreRequest, reply>>
      BY <1>1, <1>6
    <3> QED BY <1>4, <1>9, <1>11, <2>1, <3>1, <3>2, RunWritten
  <2>3. xfer'.result = 0 => Copied(xfer.i)'
    <3> DEFINE n == IF again THEN xfer.i ELSE xfer.i + L
    <3>1. CASE again
      <4> SUFFICES ASSUME NEW j \in 0 .. xfer.i - 1 PROVE user_buff[j] = ByteAt(xfer.at + j)'
        BY <1>5, <2>1, <3>1 DEF Copied, ByteAt
      <4>1. j \in 0 .. LONGEST - 1 /\ xfer.at + j \in 0 .. BLOCKS * SECTOR_SIZE - 1
        <5>1. xfer.i + xfer.size = xfer.length /\ xfer.at + xfer.length <= BLOCKS * SECTOR_SIZE
          BY <1>1, <1>2, <1>9 DEF Addressed, Step
        <5> QED BY <1>2, <1>4, <5>1, Numbers
      <4>2. PICK a \in 0 .. BLOCKS * SECTOR_SIZE - 1 : a = xfer.at + j
        BY <4>1
      <4>3. a \notin xfer.at + xfer.i .. xfer.at + xfer.i + D - 1
        BY <1>2, <4>2, Numbers
      <4>4. ByteAt(a)' = ByteAt(xfer.at + j)'
        BY <1>5, <4>2 DEF ByteAt
      <4>5. ByteAt(a)' = ByteAt(a)
        BY <2>2, <4>3
      <4> QED BY <1>9, <4>2, <4>4, <4>5 DEF Copied
    <3>2. CASE ~again /\ code = 0
      <4>1. D = L
        BY <1>3, <3>2
      <4>2. xfer'.i = xfer.i + L /\ L <= xfer.size
        BY <1>2, <1>4, <1>5, <3>2, WholeIs
      <4>3. xfer.i + L \in Nat /\ xfer.i + L <= xfer.length /\ xfer.i <= xfer.i + L
            /\ xfer.at + xfer.i + L - 1 = xfer.at + (xfer.i + L) - 1
        <5>1. xfer.i + xfer.size = xfer.length
          BY <1>2, <1>9 DEF Addressed, Step
        <5> QED BY <1>2, <1>4, <4>2, <5>1, Numbers
      <4> HIDE DEF D, L, again
      <4> QED BY <1>2, <1>5, <1>9, <1>11, <2>1, <2>2, <4>1, <4>2, <4>3, SameWritten
    <3> QED BY <1>5, <3>1, <3>2
  <2>4. Brought'
    BY <1>1, <1>2, <1>5, <1>11, <2>1, <2>3 DEF Brought, Step, Onward
  <2> QED BY <1>7, <1>8, <2>2, <2>4 DEF IInv
<1> QED BY <1>9, <1>10, <1>11

(* One sector through disk_buff.                                           *)
LEMMA TransferSingleStep ==
  ASSUME IInv, TransferSingle
  PROVE  IInv' /\ (S!Store \/ UNCHANGED <<StoreBytes, StoreRequest, reply>>)
<1>1. /\ xfer.step = "single" /\ UNCHANGED <<reply, requests>> /\ xfer.result = 0
      /\ DTypes /\ Addressed /\ Brought
  BY DEF TransferSingle, IInv, Addressed, Step
<1>2. /\ xfer.i + xfer.size = xfer.length
      /\ xfer.size > 0 => xfer.sector * SECTOR_SIZE = xfer.at + xfer.i
      /\ xfer.length >= 1 /\ xfer.at + xfer.length <= BLOCKS * SECTOR_SIZE
      /\ xfer.size - (xfer.n * SECTOR_SIZE) \in 0 .. SECTOR_SIZE - 1
      /\ Copied(xfer.i) /\ xfer.op \in {"read", "write"} /\ xfer.step \in Onward
  BY <1>1, Numbers, Rest DEF Addressed, Brought, Step, Onward
<1>3. CASE xfer.n = 0
  <2>1. xfer' = [xfer EXCEPT !.step = "rest"] /\ UNCHANGED <<surface, user_buff, disk_buff>>
    BY <1>3 DEF TransferSingle
  <2>2. /\ xfer' \in Transfers /\ xfer'.op = xfer.op /\ xfer'.at = xfer.at
        /\ xfer'.length = xfer.length /\ xfer'.step = "rest" /\ xfer'.i = xfer.i
        /\ xfer'.size = xfer.size /\ xfer'.sector = xfer.sector /\ xfer'.result = 0
    BY <1>1, <2>1 DEF DTypes, Transfers, Steps
  <2>3. UNCHANGED StoreRequest /\ xfer' # NoTransfer
    BY <1>1, <2>2, RequestKept DEF Step
  <2>4. xfer.size < SECTOR_SIZE
    <3>1. 0 * SECTOR_SIZE = 0
      BY <1>1, Numbers
    <3> QED BY <1>1, <1>2, <1>3, <3>1, Numbers
  <2>5. DTypes' /\ Addressed'
    BY <1>1, <1>2, <2>1, <2>2, <2>3, <2>4, Rest DEF DTypes, Addressed, Step, Started, Onward
  <2>6. Copied(xfer.i)'
    BY <1>2, <2>1, <2>2 DEF Copied, ByteAt
  <2>7. Brought'
    BY <1>1, <2>1, <2>2, <2>6 DEF Brought, Step, Onward
  <2> QED BY <1>1, <2>1, <2>3, <2>5, <2>7, SurfaceSame DEF IInv
<1>4. CASE xfer.n # 0
  <2>1. PICK o \in Outcomes(1) :
          /\ IF xfer.op = "read"
             THEN /\ disk_buff' = IF o[1] = 0 THEN ReadSectors(xfer.sector, 1) ELSE disk_buff
                  /\ user_buff' = IF o[1] = 0 THEN CopiedInto(user_buff, xfer.i, disk_buff', 0, SECTOR_SIZE)
                                  ELSE user_buff
                  /\ UNCHANGED surface
             ELSE /\ disk_buff' = CopiedInto(disk_buff, 0, user_buff, xfer.i, SECTOR_SIZE)
                  /\ surface' = Written(xfer.sector, o[2], disk_buff', 0)
                  /\ UNCHANGED user_buff
          /\ xfer' = IF o[1] # 0 THEN [xfer EXCEPT !.step = "rest", !.result = o[1]]
                                 ELSE Single(xfer, 0)
    BY <1>4 DEF TransferSingle
  <2> DEFINE code == o[1]
             done == o[2]
             more == code = 0
  <2>2. code \in Nat /\ done \in {0, 1} /\ (more <=> done = 1)
    <3>1. \A c \in 0 .. WORD - 1 : c \in Nat
      BY CodeAssumption
    <3> QED BY <3>1, OutcomeIs
  <2>3. /\ 1 * SECTOR_SIZE = SECTOR_SIZE /\ 0 * SECTOR_SIZE = 0 /\ xfer.n - 1 \in Nat
        /\ (xfer.n - 1) * SECTOR_SIZE = (xfer.n * SECTOR_SIZE) - SECTOR_SIZE
        /\ (xfer.sector + 1) * SECTOR_SIZE = (xfer.sector * SECTOR_SIZE) + SECTOR_SIZE
        /\ xfer.size >= SECTOR_SIZE /\ xfer.size > 0
    <3>1. xfer.n \in Nat \ {0}
      BY <1>1, <1>4, Numbers
    <3>2. xfer.n * SECTOR_SIZE >= SECTOR_SIZE
      BY <1>1, <3>1, Numbers, ProductGrows
    <3>3. /\ (xfer.n - 1) * SECTOR_SIZE = (xfer.n * SECTOR_SIZE) - SECTOR_SIZE
          /\ (xfer.sector + 1) * SECTOR_SIZE = (xfer.sector * SECTOR_SIZE) + SECTOR_SIZE
          /\ 1 * SECTOR_SIZE = SECTOR_SIZE /\ 0 * SECTOR_SIZE = 0
      BY <1>1, <3>1, Numbers
    <3> QED BY <1>1, <1>2, <3>1, <3>2, <3>3, Numbers
  <2>4. /\ xfer' \in Transfers /\ xfer'.op = xfer.op /\ xfer'.at = xfer.at
        /\ xfer'.length = xfer.length /\ xfer'.result = code
        /\ IF more
           THEN /\ xfer'.step = "single" /\ xfer'.n = xfer.n - 1 /\ xfer'.i = xfer.i + SECTOR_SIZE
                /\ xfer'.size = xfer.size - SECTOR_SIZE /\ xfer'.sector = xfer.sector + 1
           ELSE /\ xfer'.step = "rest" /\ xfer'.i = xfer.i /\ xfer'.size = xfer.size
                /\ xfer'.sector = xfer.sector
    <3>1. CASE more
      <4>1. xfer' = [xfer EXCEPT !.step = "single", !.result = 0, !.sector = @ + 1,
                                 !.i = @ + (1 * SECTOR_SIZE), !.size = @ - (1 * SECTOR_SIZE), !.n = xfer.n - 1]
        BY <1>1, <2>1, <3>1 DEF Single, SectorsDone, DTypes, Transfers
      <4>2. xfer.i + SECTOR_SIZE \in Nat /\ xfer.size - SECTOR_SIZE \in Nat /\ xfer.sector + 1 \in Nat
        BY <1>1, <2>3, Numbers
      <4> QED BY <1>1, <2>3, <3>1, <4>1, <4>2 DEF DTypes, Transfers, Steps
    <3>2. CASE ~more
      <4>1. xfer' = [xfer EXCEPT !.step = "rest", !.result = code]
        BY <2>1, <3>2
      <4> HIDE DEF code, more
      <4> QED BY <1>1, <2>2, <3>2, <4>1 DEF DTypes, Transfers, Steps
    <3> QED BY <3>1, <3>2
  <2> HIDE DEF code, done
  <2>5. UNCHANGED StoreRequest /\ xfer' # NoTransfer
    BY <1>1, <2>4, RequestKept DEF Step
  <2>6. Addressed'
    <3> DEFINE left == xfer.n * SECTOR_SIZE
               from == xfer.sector * SECTOR_SIZE
    <3>1. CASE more
      <4>2. xfer'.result = 0
        BY <2>4, <3>1 DEF more
      <4> HIDE DEF more
      <4>1. /\ xfer'.i + xfer'.size = xfer'.length
            /\ xfer'.sector * SECTOR_SIZE = xfer'.at + xfer'.i
            /\ xfer'.size - (xfer'.n * SECTOR_SIZE) \in 0 .. SECTOR_SIZE - 1
        <5>1. /\ xfer'.sector * SECTOR_SIZE = from + SECTOR_SIZE
              /\ xfer'.n * SECTOR_SIZE = left - SECTOR_SIZE
              /\ from = xfer.at + xfer.i /\ xfer.size - left \in 0 .. SECTOR_SIZE - 1
              /\ left \in Nat /\ from \in Nat
          BY <1>1, <1>2, <2>3, <2>4, <3>1, Numbers
        <5> HIDE DEF left, from
        <5> QED BY <1>1, <1>2, <2>3, <2>4, <3>1, <5>1, Numbers
      <4> QED BY <1>1, <1>2, <2>3, <2>4, <2>5, <3>1, <4>1, <4>2 DEF Addressed, Step, Started, Onward
    <3>2. CASE ~more
      <4>1. xfer'.result # 0
        BY <2>4, <3>2 DEF more
      <4> HIDE DEF more
      <4> QED BY <1>1, <1>2, <2>3, <2>4, <2>5, <3>2, <4>1, Numbers DEF Addressed, Step, Started, Onward
    <3> QED BY <3>1, <3>2
  <2>7. xfer.sector < BLOCKS /\ xfer.sector + 1 <= BLOCKS
    BY <1>1, <1>2, <2>3, Numbers, SectorFits
  <2>8. CASE xfer.op = "read"
    <3>1. UNCHANGED surface
      BY <2>1, <2>8
    <3>2. DTypes'
      BY <1>1, <2>1, <2>3, <2>4, <2>8 DEF DTypes, CopiedInto, ReadSectors, Bytes, code
    <3>3. more => Copied(xfer.i)'
      <4> SUFFICES ASSUME more PROVE Copied(xfer.i)'
        OBVIOUS
      <4>1. disk_buff' = ReadSectors(xfer.sector, 1)
            /\ user_buff' = CopiedInto(user_buff, xfer.i, disk_buff', 0, SECTOR_SIZE)
        BY <2>1, <2>8 DEF code
      <4>2. ASSUME NEW k \in 0 .. LONGEST - 1
            PROVE  user_buff'[k] = IF k \in xfer.i .. xfer.i + (1 * SECTOR_SIZE) - 1
                                   THEN ByteAt((xfer.sector * SECTOR_SIZE) + (k - xfer.i)) ELSE user_buff[k]
        <5>1. user_buff'[k] = IF k \in xfer.i .. xfer.i + SECTOR_SIZE - 1
                              THEN disk_buff'[0 + k - xfer.i] ELSE user_buff[k]
          BY <1>1, <4>1, Numbers DEF CopiedInto, DTypes
        <5>2. ASSUME k \in xfer.i .. xfer.i + SECTOR_SIZE - 1
              PROVE  disk_buff'[0 + k - xfer.i] = ByteAt((xfer.sector * SECTOR_SIZE) + (k - xfer.i))
          <6>1. 0 + k - xfer.i = k - xfer.i /\ k - xfer.i \in 0 .. (1 * SECTOR_SIZE) - 1
            BY <1>1, <2>3, <5>2, Numbers
          <6> QED BY <1>1, <2>7, <4>1, <6>1, Numbers, ReadIs
        <5> QED BY <2>3, <5>1, <5>2
      <4>3. xfer'.i = xfer.i + (1 * SECTOR_SIZE) /\ 1 * SECTOR_SIZE <= xfer.size
        BY <2>3, <2>4
      <4> QED BY <1>1, <1>2, <2>4, <3>1, <4>2, <4>3, RunRead
    <3>4. Brought'
      BY <2>4, <2>8, <3>3 DEF Brought, Step, Onward
    <3> QED BY <1>1, <2>5, <2>6, <3>1, <3>2, <3>4, SurfaceSame DEF IInv
  <2>9. CASE xfer.op = "write"
    <3>1. /\ disk_buff' = CopiedInto(disk_buff, 0, user_buff, xfer.i, SECTOR_SIZE)
          /\ surface' = Written(xfer.sector, done, disk_buff', 0) /\ UNCHANGED user_buff
      BY <2>1, <2>9 DEF done
    <3>2. DTypes'
      BY <1>1, <2>4, <3>1 DEF DTypes, CopiedInto
    <3>3. \A k \in 0 .. SECTOR_SIZE - 1 : disk_buff'[0 + k] = user_buff[xfer.i + k]
      <4> TAKE k \in 0 .. SECTOR_SIZE - 1
      <4>1. disk_buff'[k] = user_buff[xfer.i + k - 0] /\ 0 + k = k /\ xfer.i + k - 0 = xfer.i + k
        BY <1>1, <3>1, Numbers DEF CopiedInto, DTypes, Bytes
      <4> QED BY <4>1
    <3>4. done \in Nat /\ done * SECTOR_SIZE <= xfer.size
          /\ \A k \in 0 .. (done * SECTOR_SIZE) - 1 : k \in 0 .. SECTOR_SIZE - 1
      BY <1>1, <2>2, <2>3, Numbers
    <3>5. /\ S!Store
          /\ \A a \in 0 .. BLOCKS * SECTOR_SIZE - 1 :
               ByteAt(a)' = IF a \in xfer.at + xfer.i .. xfer.at + xfer.i + (done * SECTOR_SIZE) - 1
                            THEN Fresh(requests, a - xfer.at) ELSE ByteAt(a)
      <4>1. \A k \in 0 .. (done * SECTOR_SIZE) - 1 : disk_buff'[0 + k] = user_buff[xfer.i + k]
        BY <3>3, <3>4
      <4>2. UNCHANGED <<StoreRequest, reply>>
        BY <1>1, <2>5
      <4> HIDE <1>1
      <4> QED BY <1>2, <2>3, <2>9, <3>1, <3>4, <4>1, <4>2, RunWritten
    <3>6. more => Copied(xfer.i)'
      <4> SUFFICES ASSUME more PROVE Copied(xfer.i)'
        OBVIOUS
      <4>1. done * SECTOR_SIZE = SECTOR_SIZE /\ xfer'.i = xfer.i + SECTOR_SIZE
        BY <2>2, <2>3, <2>4
      <4>2. /\ xfer.i + SECTOR_SIZE \in Nat /\ xfer.i + SECTOR_SIZE <= xfer.length
            /\ xfer.i <= xfer.i + SECTOR_SIZE
            /\ xfer.at + xfer.i + SECTOR_SIZE - 1 = xfer.at + (xfer.i + SECTOR_SIZE) - 1
        BY <1>1, <1>2, <2>3, Numbers
      <4> QED BY <1>1, <1>2, <2>4, <2>9, <3>1, <3>5, <4>1, <4>2, SameWritten
    <3>7. Brought'
      BY <1>1, <2>4, <2>9, <3>1, <3>6 DEF Brought, Step, Onward, more
    <3> QED BY <2>6, <3>2, <3>5, <3>7 DEF IInv
  <2> QED BY <1>2, <2>8, <2>9
<1> QED BY <1>3, <1>4

(* From the whole sectors to the stretch that ends within one, if any.     *)
LEMMA GoOnStep ==
  ASSUME IInv, GoOn
  PROVE  IInv' /\ UNCHANGED <<StoreBytes, StoreRequest, reply>>
<1> DEFINE on == IF xfer.size > 0 /\ xfer.result = 0 THEN "tail" ELSE "end"
<1>1. /\ \/ xfer.step = "whole" /\ (xfer.result # 0 \/ Whole = 0)
         \/ xfer.step = "rest"
      /\ xfer' = [xfer EXCEPT !.step = on]
      /\ UNCHANGED <<surface, disk_buff, user_buff, reply, requests>>
  BY DEF GoOn
<1>2. DTypes /\ Addressed /\ Brought
  BY DEF IInv
<1>3. /\ xfer.i + xfer.size = xfer.length
      /\ xfer.size > 0 => xfer.sector * SECTOR_SIZE = xfer.at + xfer.i
      /\ xfer.length >= 1 /\ xfer.at + xfer.length <= BLOCKS * SECTOR_SIZE
      /\ xfer.op \in {"read", "write"} /\ (xfer.result = 0 => Copied(xfer.i))
  BY <1>1, <1>2, Numbers, Rest DEF Addressed, Brought, Step, Onward
<1>4. /\ xfer' \in Transfers /\ xfer'.op = xfer.op /\ xfer'.at = xfer.at
      /\ xfer'.length = xfer.length /\ xfer'.step = on /\ xfer'.i = xfer.i
      /\ xfer'.size = xfer.size /\ xfer'.sector = xfer.sector /\ xfer'.result = xfer.result
  BY <1>1, <1>2 DEF DTypes, Transfers, Steps
<1>5. UNCHANGED StoreRequest /\ xfer' # NoTransfer
  BY <1>1, <1>4, RequestKept DEF Step
<1>6. xfer.result = 0 => xfer.size < SECTOR_SIZE
  <2>1. 0 * SECTOR_SIZE = 0
    BY <1>2, Numbers
  <2> QED BY <1>1, <1>2, <2>1, Numbers, WholeIs DEF Addressed, Step
<1>7. Addressed'
  BY <1>2, <1>3, <1>4, <1>5, <1>6, Numbers DEF Addressed, Step, Started, Onward
<1>8. xfer.result = 0 => Copied(xfer.i)'
  BY <1>1, <1>3, <1>4 DEF Copied, ByteAt
<1>9. Brought'
  <2>1. on = "end" /\ xfer.result = 0 => xfer.i = xfer.length
    BY <1>2, <1>3, Numbers
  <2> QED BY <1>1, <1>2, <1>4, <1>8, <2>1 DEF Brought, Step, Onward
<1> QED BY <1>1, <1>2, <1>4, <1>5, <1>7, <1>9, SurfaceSame DEF IInv, DTypes

(* The end of a call: a success is reported of nothing that has failed.    *)
LEMMA ReturnStep ==
  ASSUME IInv, Return
  PROVE  IInv' /\ S!Answer
<1>1. /\ xfer.step = "end"
      /\ reply' = [ok |-> xfer.result = 0, data |-> [k \in 1 .. xfer.length |-> user_buff[k - 1]]]
      /\ xfer' = NoTransfer
      /\ UNCHANGED <<surface, disk_buff, user_buff, requests>>
  BY DEF Return
<1>2. DTypes /\ Addressed /\ Brought
  BY DEF IInv
<1>3. DTypes' /\ Addressed' /\ Brought'
  BY <1>1, <1>2, Rest DEF DTypes, Addressed, Brought, Step, Started, Onward
<1>4. xfer # NoTransfer /\ xfer.op # "none"
  BY <1>1, <1>2 DEF Addressed, Step
<1>5. /\ StoreRequest.op = xfer.op /\ StoreRequest.at = xfer.at
      /\ StoreRequest.data = [k \in 1 .. xfer.length |-> Wanted(k)]
  BY <1>4 DEF StoreRequest
<1>6. StoreRequest # S!NoRequest /\ StoreRequest' = S!NoRequest
  <2>1. StoreRequest.op # S!NoRequest.op
    BY <1>4, <1>5 DEF S!NoRequest
  <2> QED BY <1>1, <2>1 DEF StoreRequest, S!NoRequest
<1>7. ASSUME xfer.result = 0
      PROVE  reply'.ok /\ reply'.data = S!Stored /\ (StoreRequest.op = "write" => S!Stored = StoreRequest.data)
  <2>1. xfer.at \in Nat /\ xfer.length \in 0 .. LONGEST /\ LONGEST \in Nat
        /\ xfer.at + xfer.length <= BLOCKS * SECTOR_SIZE
    BY <1>1, <1>2, Numbers DEF Addressed, Step
  <2>2. Copied(xfer.length)
    BY <1>1, <1>2, <1>7 DEF Brought, Step
  <2>3. \A k \in 1 .. xfer.length : StoreBytes[xfer.at + k - 1] = user_buff[k - 1]
    <3> TAKE k \in 1 .. xfer.length
    <3>1. xfer.at + k - 1 = xfer.at + (k - 1) /\ k - 1 \in 0 .. xfer.length - 1
          /\ xfer.at + (k - 1) \in 0 .. BLOCKS * SECTOR_SIZE - 1
      BY <1>2, <2>1, Numbers
    <3> QED BY <2>2, <3>1 DEF Copied, StoreBytes
  <2>4. S!Stored = [k \in 1 .. xfer.length |-> user_buff[k - 1]]
    BY <1>5, <2>3 DEF S!Stored
  <2>5. xfer.op = "write" => \A k \in 1 .. xfer.length : user_buff[k - 1] = Wanted(k)
    <3>1. \A k \in 1 .. xfer.length : k - 1 \in 0 .. LONGEST - 1
      BY <2>1
    <3> QED BY <1>2, <3>1 DEF Brought, Wanted
  <2> QED BY <1>1, <1>5, <1>7, <2>4, <2>5
<1>8. reply'.ok = (xfer.result = 0)
  BY <1>1
<1>9. S!Answer
  BY <1>1, <1>6, <1>7, <1>8, SurfaceSame DEF S!Answer
<1> QED BY <1>3, <1>9 DEF IInv

(* And asks of the store what the caller asks of the driver.               *)
LEMMA CallAsks ==
  ASSUME IInv, NEW op \in {"read", "write"}, NEW block \in 0 .. BLOCKS - 1,
         NEW offset \in 0 .. SECTOR_SIZE, NEW size \in 1 .. LONGEST, NEW present \in BOOLEAN,
         CallDisk(op, block, offset, size, present)
  PROVE  S!Ask
<1>1. xfer = NoTransfer /\ xfer'.op = op /\ UNCHANGED surface /\ reply' = [ok |-> FALSE, data |-> <<>>]
  BY DEF CallDisk, NoTransfer
<1>2. StoreRequest = S!NoRequest
  BY <1>1 DEF StoreRequest, S!NoRequest
<1>3. StoreRequest'.op = op
  <2>1. xfer' # NoTransfer
    BY <1>1, Rest
  <2> QED BY <1>1, <2>1 DEF StoreRequest
<1>4. reply' = S!NoAnswer
  BY <1>1 DEF S!NoAnswer
<1> QED BY <1>1, <1>2, <1>3, <1>4, SurfaceSame DEF S!Ask

(* Every step of the driver is a step of the store, or stutters.           *)
LEMMA StepImplements ==
  ASSUME IInv, {"stale", "twice"} \subseteq DriverCalm, [DiskNext]_dvars
  PROVE  IInv' /\ [S!Next]_<<StoreBytes, StoreRequest, reply>>
<1>1. CASE \E op \in {"read", "write"}, block \in 0 .. BLOCKS - 1,
              offset \in 0 .. SECTOR_SIZE, size \in 1 .. LONGEST, present \in BOOLEAN :
             /\ block * SECTOR_SIZE + offset + size <= BLOCKS * SECTOR_SIZE
             /\ CallDisk(op, block, offset, size, present)
  BY <1>1, CallKeeps, CallAsks DEF S!Next
<1>2. CASE ReadPart
  BY <1>2, ReadPartStep
<1>3. CASE FetchPart
  BY <1>3, FetchPartStep
<1>4. CASE StorePart
  BY <1>4, StorePartStep DEF S!Next
<1>5. CASE TransferWhole
  BY <1>5, TransferWholeStep DEF S!Next
<1>6. CASE TransferSingle
  BY <1>6, TransferSingleStep DEF S!Next
<1>7. CASE GoOn
  BY <1>7, GoOnStep
<1>8. CASE Return
  BY <1>8, ReturnStep DEF S!Next
<1>9. CASE UNCHANGED dvars
  <2>1. UNCHANGED <<surface, disk_buff, user_buff, xfer, reply, requests>>
    BY <1>9 DEF dvars
  <2>2. UNCHANGED <<StoreBytes, StoreRequest, reply>>
    BY <2>1 DEF StoreBytes, ByteAt, StoreRequest, Wanted
  <2>3. DTypes' /\ Addressed' /\ Brought'
    BY <2>1 DEF IInv, DTypes, Addressed, Step, Brought, Copied, Merged, ByteAt, HeadSize
  <2> QED BY <2>2, <2>3 DEF IInv
<1> QED BY <1>1, <1>2, <1>3, <1>4, <1>5, <1>6, <1>7, <1>8, <1>9 DEF DiskNext

(* read_disk and write_disk are a store of bytes: whatever transfers fail, *)
(* success is reported only of a call that has read or written just its    *)
(* bytes, and a failed one has touched no others.  A sector that is        *)
(* written in part must not become readable again before it is written     *)
(* ("stale"), and two error codes must not add up to success ("twice").    *)
THEOREM StoreImplemented ==
  ASSUME {"stale", "twice"} \subseteq DriverCalm
  PROVE  DiskSpec => ImplementsStore
<1>1. DiskInit => IInv /\ S!Init
  <2>1. DiskInit => S!Init
    BY DEF DiskInit, S!Init, S!NoRequest, S!NoAnswer, StoreRequest
  <2> QED BY <2>1, InitKeeps
<1>2. IInv /\ [DiskNext]_dvars => IInv' /\ [S!Next]_<<StoreBytes, StoreRequest, reply>>
  BY StepImplements
<1> QED BY <1>1, <1>2, PTL DEF DiskSpec, ImplementsStore, S!Spec, S!svars
=============================================================================
