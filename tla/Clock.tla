-------------------------------- MODULE Clock --------------------------------
(***************************************************************************)
(* The clock of lib/src/time.c: time_init() converts the boot loader's     *)
(* Unix time, the timer interrupt counts milliseconds in `tick', and       *)
(* time_update(), which the shell calls, moves whole seconds from `tick'   *)
(* to the clock and carries them over.                                     *)
(*                                                                         *)
(* The timer interrupt comes between any two accesses of time_update() to  *)
(* `tick', which is volatile: line 48 reads it, line 49 reads it again     *)
(* and writes it.  Nothing else is shared with the handler.                *)
(***************************************************************************)
EXTENDS Integers, Sequences

CONSTANTS Millis,      \* milliseconds per second
          Seconds,     \* seconds per minute
          Minutes,     \* minutes per hour
          Hours,       \* hours per day
          Beyond,      \* what may stand behind days_in_month[] in memory
          BootTimes,   \* the Unix times of the boot
          MaxTicks,    \* bound: timer interrupts in a behaviour
          MaxUpdates   \* bound: calls of time_update() in a behaviour

ASSUME ClockAssumption ==
  /\ {Millis, Seconds, Minutes, Hours} \subseteq Nat \ {0}
  /\ Beyond \subseteq Nat /\ BootTimes \subseteq Nat
  /\ MaxTicks \in Nat /\ MaxUpdates \in Nat

VARIABLES tick,      \* milliseconds since the last update
          time,      \* timespec.time: hours, minutes, seconds
          date,      \* timespec.date: years, months, days
          pc,        \* time_update(): "idle", "read", "write", "carry", "months"
          reg,       \* the value `tick' had when line 49 read it
          beyond,    \* the number behind days_in_month[]
          boot,      \* history: timespec as time_init() left it
          elapsed,   \* history: timer interrupts so far
          whole,     \* history: seconds added to the clock
          updates,   \* history: calls of time_update()
          raced      \* history: an interrupt came between the accesses to tick

clock == <<time, date>>
history == <<boot, elapsed, whole, updates, raced>>
vars == <<tick, clock, pc, reg, beyond, history>>

-----------------------------------------------------------------------------
(* The calendar.                                                            *)

days_in_month == <<31, 28, 31, 30, 31, 30, 31, 31, 30, 31, 30, 31>>

is_leap_year(y) == y % 4 = 0 /\ (y % 100 # 0 \/ y % 400 = 0)

Bit(b) == IF b THEN 1 ELSE 0

DaysInYear(y) == 365 + Bit(is_leap_year(y))

\* days_in_month[m], where m counts from 0 and may be one too many.
Entry(m) == IF m < 12 THEN days_in_month[m + 1] ELSE beyond

\* The length both month loops compare with.
Length(m, y) == Entry(m) + Bit(m = 1 /\ is_leap_year(y))

\* The loops of time_init(): whole years, then whole months are taken off.
Year ==
  LET from[y \in Nat, days \in Nat] ==
        IF days >= DaysInYear(y) THEN from[y + 1, days - DaysInYear(y)]
                                 ELSE [years |-> y, days |-> days]
  IN [days \in Nat |-> from[1970, days]]

Month(y) ==
  LET from[m \in Nat, days \in Nat] ==
        IF days >= Length(m, y) THEN from[m + 1, days - Length(m, y)]
                                ELSE [years |-> y, months |-> m + 1, days |-> days]
  IN [days \in Nat |-> from[0, days]]

BootDate(day) == LET y == Year[day + 1] IN Month(y.years)[y.days]

\* time_init(): the hours are two more than the boot loader says.
BootTime(second) ==
  [hours   |-> second \div (Minutes * Seconds) + 2,
   minutes |-> (second % (Minutes * Seconds)) \div Seconds,
   seconds |-> second % Seconds]

SecondsPerDay == Hours * Minutes * Seconds

Init ==
  /\ tick = 0 /\ pc = "idle" /\ reg = 0
  /\ beyond \in Beyond
  /\ \E unixtime \in BootTimes :
       /\ date = BootDate(unixtime \div SecondsPerDay)
       /\ time = BootTime(unixtime % SecondsPerDay)
  /\ boot = clock
  /\ elapsed = 0 /\ whole = 0 /\ updates = 0 /\ raced = FALSE

-----------------------------------------------------------------------------
\* isr_int_timer_pit
TimerInterrupt ==
  /\ elapsed < MaxTicks
  /\ tick' = tick + 1
  /\ elapsed' = elapsed + 1
  /\ raced' = (raced \/ pc \in {"read", "write"})
  /\ UNCHANGED <<clock, pc, reg, beyond, boot, whole, updates>>

\* seconds += tick / 1000
AddSeconds ==
  /\ pc = "idle" /\ updates < MaxUpdates
  /\ time' = [time EXCEPT !.seconds = @ + tick \div Millis]
  /\ whole' = whole + tick \div Millis
  /\ updates' = updates + 1
  /\ pc' = "read"
  /\ UNCHANGED <<tick, date, reg, beyond, boot, elapsed, raced>>

\* tick %= 1000: the read
ReadTick ==
  /\ pc = "read"
  /\ reg' = tick
  /\ pc' = "write"
  /\ UNCHANGED <<tick, clock, beyond, history>>

\* Mutants of WriteTick: the tick is set to nothing, or not at all.
ResetTick ==
  /\ pc = "write"
  /\ tick' = 0
  /\ pc' = "carry"
  /\ UNCHANGED <<clock, reg, beyond, history>>
KeepTick ==
  /\ pc = "write"
  /\ tick' = reg
  /\ pc' = "carry"
  /\ UNCHANGED <<clock, reg, beyond, history>>

\* tick %= 1000: the write
WriteTick ==
  /\ pc = "write"
  /\ tick' = reg % Millis
  /\ pc' = "carry"
  /\ UNCHANGED <<clock, reg, beyond, history>>

\* Minutes, hours and days; only the seconds are reduced.
Carry ==
  LET minutes == time.minutes + time.seconds \div Seconds
      hours   == time.hours + minutes \div Minutes
  IN /\ pc = "carry"
     /\ time' = [hours |-> hours, minutes |-> minutes,
                 seconds |-> time.seconds % Seconds]
     /\ date' = [date EXCEPT !.days = @ + hours \div Hours]
     /\ pc' = "months"
     /\ UNCHANGED <<tick, reg, beyond, history>>

\* Mutant of NextMonth: the year does not change.
NextMonthSameYear ==
  LET m == date.months
      y == date.years
  IN [days   |-> date.days - Bit(Entry(m) + Bit(m = 1) # 0 /\ is_leap_year(y)),
      months |-> (IF m >= 12 THEN m - 12 ELSE m) + 1,
      years  |-> y]

\* The body of the month loop.  && binds less than +, so that at most one
\* day is taken off.
NextMonth ==
  LET m == date.months
      y == date.years
  IN [days   |-> date.days - Bit(Entry(m) + Bit(m = 1) # 0 /\ is_leap_year(y)),
      months |-> (IF m >= 12 THEN m - 12 ELSE m) + 1,
      years  |-> IF m >= 12 THEN y + 1 ELSE y]

\* The month loop: months counts from 1 and indexes the array from 0.
Months ==
  /\ pc = "months"
  /\ IF date.days >= Length(date.months, date.years)
     THEN date' = NextMonth /\ pc' = pc
     ELSE date' = date /\ pc' = "idle"
  /\ UNCHANGED <<tick, time, reg, beyond, history>>

time_update == AddSeconds \/ ReadTick \/ WriteTick \/ Carry \/ Months

\* The end of a behaviour within the bounds.
Bounded ==
  /\ pc = "idle" /\ elapsed = MaxTicks /\ updates = MaxUpdates
  /\ UNCHANGED vars

Next == TimerInterrupt \/ time_update \/ Bounded

\* The processor runs time_update() to its end between interrupts.
Fairness == WF_vars(ReadTick \/ WriteTick \/ Carry \/ Months)

Spec == Init /\ [][Next]_vars /\ Fairness

-----------------------------------------------------------------------------
(* Properties.                                                              *)

\* While line 49 has not been executed, the seconds line 48 took are still
\* in `tick' too.
TickIsLeft == pc \notin {"read", "write"}

\* The clock never runs ahead of the timer: a tick is never counted twice,
\* wherever in time_update() the interrupts fall.
NeverAhead == TickIsLeft => whole * Millis + tick <= elapsed

\* An update loses no tick unless an interrupt falls between its accesses to
\* `tick'.
CountsAll == TickIsLeft /\ ~raced => whole * Millis + tick = elapsed

\* time_update() returns: its month loop takes no day off outside of leap
\* years and may read behind the array, but ends in every case.
UpdateEnds == pc # "idle" ~> pc = "idle"

SinceMidnight(t) == (t.hours * Minutes + t.minutes) * Seconds + t.seconds

\* The help of the `time' command, builtin-shell.h: "display current time".
CurrentTime ==
  pc = "idle" => SinceMidnight(time) = SinceMidnight(boot[1]) + whole

\* The same of the date, which the default format shows too: before a whole
\* second has passed it is the date of the boot.
CurrentDate ==
  pc = "idle" /\ whole = 0 /\ boot[1].hours < Hours => date = boot[2]
=============================================================================
