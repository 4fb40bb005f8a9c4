------------------------------ MODULE CmdSchedule ------------------------------
(***************************************************************************)
(* When the energy meter of dev_type 3 is read: the loop of cmd_main.      *)
(*                                                                         *)
(* The loop compares times of a clock that the system sets (NTP).  A time  *)
(* is kept as its distance to the clock now, so that setting the clock     *)
(* moves all of them; distances saturate at Long.  time_t is a signed long *)
(* of 32 bits (mipsel): a difference compared with an uint16_t is signed,  *)
(* one compared with an uint32_t is not.  get_Tywifi_status changes        *)
(* nothing here: what it reads is constant while the SDK's service loop    *)
(* does not run.                                                           *)
(***************************************************************************)
EXTENDS Integers

CONSTANTS
  UploadTime,  \* upload_time of the configuration file
  Modulus,     \* 2^16, the width of DATA_FUNCTION_INTERVAL_S
  WindowTime,  \* g_energy_window_s
  MaxRound,    \* most seconds a round of the loop takes
  Sets,        \* by how much the clock may be set, in seconds
  MaxSets,     \* bound on how often it is set
  Long         \* more than any time the code waits for, and the clock set forward

ASSUME TimesAssumption == {UploadTime, WindowTime, MaxRound, Modulus, Long} \subseteq Nat \ {0}
ASSUME SetsAssumption == Sets \subseteq Int /\ MaxSets \in Nat
\* Times saturate only where the difference to the clock no longer matters.
ASSUME LongAssumption ==
  \E d \in 0..Long :
    /\ \A s \in Sets : s <= d
    /\ Long > (UploadTime % Modulus) + WindowTime + MaxRound + MaxSets * d

VARIABLES
  at,        \* cmd_main's place in its loop
  round,     \* seconds since now_time
  run,       \* seconds since s_cmd_last_run_time
  win,       \* seconds since s_window_last_time
  interval,  \* DATA_FUNCTION_INTERVAL_S
  started,   \* s_full_read_done
  lag,       \* real seconds since the round began
  read,      \* history: real seconds since the meter was last read
  cycle,     \* history: real seconds since the last window ended
  first,     \* history: this round did the first read
  again,     \* history: the first round read the meter again
  back,      \* history: seconds by which the clock was set back
  sets       \* how often the clock was set

clocks == <<round, run, win>>
vars == <<at, clocks, interval, started, lag, read, cycle, first, again, back, sets>>

TypeOK ==
  /\ at \in {"begin", "start", "window", "interval", "branch"}
  /\ \A x \in {round, run, win} : x \in Int /\ x <= Long
  /\ interval \in 0..(Modulus - 1)
  /\ {started, first, again} \subseteq BOOLEAN
  /\ lag \in 0..MaxRound /\ read \in 0..Long /\ cycle \in 0..Long
  /\ back \in Nat /\ sets \in 0..MaxSets

\* Both last times are 0 at first: long ago.
Init ==
  /\ at = "begin"
  /\ round = 0 /\ run = Long /\ win = Long
  /\ interval = UploadTime % Modulus
  /\ started = FALSE
  /\ lag = 0 /\ read = 0 /\ cycle = 0 /\ first = FALSE /\ again = FALSE /\ back = 0 /\ sets = 0

\* x - y >= n, signed and unsigned.
AtLeast(x, y, n) == x - y >= n
AtLeastUnsigned(x, y, n) == x - y < 0 \/ x - y >= n

Begin ==
  /\ at = "begin" /\ at' = "start"
  /\ round' = 0 /\ lag' = 0 /\ first' = FALSE
  /\ UNCHANGED <<run, win, interval, started, read, cycle, again, back, sets>>

\* Fault: the window's base is left at 0.
FirstReadNoBase ==
  /\ at = "start" /\ at' = "window"
  /\ \/ /\ ~started /\ started' = TRUE /\ first' = TRUE
        /\ read' = 0 /\ cycle' = 0 /\ win' = round /\ UNCHANGED run
     \/ started /\ UNCHANGED <<started, first, run, win, read, cycle>>
  /\ UNCHANGED <<round, interval, lag, again, back, sets>>

\* The first round reads the meter and sets both bases.
FirstRead ==
  /\ at = "start" /\ at' = "window"
  /\ \/ /\ ~started /\ started' = TRUE /\ first' = TRUE
        /\ read' = 0 /\ cycle' = 0 /\ run' = round /\ win' = round
     \/ started /\ UNCHANGED <<started, first, run, win, read, cycle>>
  /\ UNCHANGED <<round, interval, lag, again, back, sets>>

\* Fault: the comparison is signed.
WindowSigned ==
  /\ at = "window" /\ at' = "interval"
  /\ \/ /\ AtLeast(win, round, WindowTime)
        /\ read' = 0 /\ cycle' = 0 /\ win' = round
     \/ /\ ~AtLeast(win, round, WindowTime)
        /\ UNCHANGED <<read, cycle, win>>
  /\ UNCHANGED <<round, run, interval, started, lag, first, again, back, sets>>

\* haas_energy_type2_window_cycle reads the meter too.
Window ==
  /\ at = "window" /\ at' = "interval"
  /\ \/ /\ AtLeastUnsigned(win, round, WindowTime)
        /\ read' = 0 /\ cycle' = 0 /\ win' = round
     \/ /\ ~AtLeastUnsigned(win, round, WindowTime)
        /\ UNCHANGED <<read, cycle, win>>
  /\ UNCHANGED <<round, run, interval, started, lag, first, again, back, sets>>

\* upload_time is read again, without the default data_init has for it: 0 when
\* the key is not there, or the file is being rewritten (IniFile).
ReadInterval ==
  /\ at = "interval" /\ at' = "branch"
  /\ interval' \in {UploadTime % Modulus, 0}
  /\ UNCHANGED <<clocks, started, lag, read, cycle, first, again, back, sets>>

\* Fault: the values are printed, and not read before.
BranchNoRead ==
  /\ at = "branch" /\ at' = "begin"
  /\ IF AtLeast(run, round, interval) THEN run' = round ELSE run' = run
  /\ UNCHANGED <<read, again>>
  /\ UNCHANGED <<round, win, interval, started, lag, cycle, first, back, sets>>

Branch ==
  /\ at = "branch" /\ at' = "begin"
  /\ \/ /\ AtLeast(run, round, interval)
        /\ read' = 0 /\ run' = round
        /\ again' = (again \/ (first /\ interval > 0))
     \/ /\ ~AtLeast(run, round, interval)
        /\ UNCHANGED <<read, run, again>>
  /\ UNCHANGED <<round, win, interval, started, lag, cycle, first, back, sets>>

-----------------------------------------------------------------------------
(* The clock.                                                              *)

Capped(x) == IF x > Long THEN Long ELSE x

Tick ==
  /\ lag < MaxRound /\ lag' = lag + 1
  /\ round' = Capped(round + 1) /\ run' = Capped(run + 1) /\ win' = Capped(win + 1)
  /\ read' = Capped(read + 1) /\ cycle' = Capped(cycle + 1)
  /\ UNCHANGED <<at, interval, started, first, again, back, sets>>

ClockSet ==
  /\ sets < MaxSets /\ sets' = sets + 1
  /\ \E d \in Sets :
       /\ round' = Capped(round + d) /\ run' = Capped(run + d) /\ win' = Capped(win + d)
       /\ back' = IF d < 0 THEN back - d ELSE back
  /\ UNCHANGED <<at, interval, started, lag, read, cycle, first, again>>

Next == Begin \/ FirstRead \/ Window \/ ReadInterval \/ Branch \/ Tick \/ ClockSet
Spec == Init /\ [][Next]_vars

-----------------------------------------------------------------------------
(* Properties.                                                             *)

\* What the comment at the first read says: the round that does it does not read
\* the meter again, unless the interval it reads is 0.
FirstReadIsNotRepeated == ~again

\* The meter is read in every interval; setting the clock back costs as many
\* seconds as it goes back, since no read is due before the clock has caught up.
Interval == UploadTime % Modulus
ReadInTime == started => read <= Interval + 2 * MaxRound + back

\* A window ends in time too; setting the clock costs at most one more window and
\* the round it is noticed in, however far it goes back, because a negative
\* difference is large.
WindowInTime ==
  TypeOK /\ (started => cycle < (WindowTime + MaxRound) * (1 + sets) + MaxRound)
================================================================================
