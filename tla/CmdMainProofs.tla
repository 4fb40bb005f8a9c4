------------------------------ MODULE CmdMainProofs ------------------------------
(***************************************************************************)
(* What cmd_main keeps to: CmdSchedule, for every interval, window, length *)
(* of a round and setting of the clock, DeviceDecode, for every table of   *)
(* devices and any number of threads that drain the box, and IniFile, from *)
(* which it reads its interval, for every file and any number of readers.  *)
(***************************************************************************)
EXTENDS CmdSchedule, DeviceDecode, IniFile, SequenceTheorems, TLAPS

-----------------------------------------------------------------------------
(* CmdSchedule.                                                              *)

(* By how much the clock is set forward at most. *)
Forward == CHOOSE d \in 0..Long :
             /\ \A s \in Sets : s <= d
             /\ Long > (UploadTime % Modulus) + WindowTime + MaxRound + MaxSets * d

Ahead(n) == Forward * n

(* The round never saturates.  It has lasted as long as the clock says, but   *)
(* for what it was set.                                                       *)
RoundTold ==
  /\ round <= lag + Ahead(sets)
  /\ round + back >= lag
  /\ sets = 0 => round = lag
  /\ interval <= Interval
  /\ at \in {"window", "interval", "branch"} => started

(* The round of the first read asks for no other one. *)
FirstAlone == (first => run = round) /\ ~again

(* A read is due, or as long ago as the clock says, but for what it was set   *)
(* back; where the round ends it is not due.                                  *)
ReadTold ==
  /\ read <= run + back
  /\ run - round >= Interval \/ read - lag <= run - round + back
  /\ started => read <= Interval + back + lag + (IF at = "begin" THEN 0 ELSE MaxRound)

(* The end of a window is due, or the time since the last one is what the     *)
(* clock says and one window and one round for each time it was set; the      *)
(* setting of this round is not used up yet.                                  *)
Due == win < round \/ win - round >= WindowTime
Spent(n) == (WindowTime + MaxRound) * n
WindowTold ==
  started =>
    IF at \in {"start", "window"}
    THEN /\ cycle < Spent(sets) + WindowTime + MaxRound + lag
         /\ \/ Due
            \/ round = lag /\ cycle - lag <= win - round + Spent(sets)
            \/ sets > 0 /\ cycle - lag <= win - round + Spent(sets - 1)
    ELSE /\ ~Due
         /\ \/ round = lag /\ cycle - lag <= win - round + Spent(sets)
            \/ sets > 0 /\ cycle - lag <= win - round + Spent(sets - 1)

ScheduleInv == TypeOK /\ RoundTold /\ FirstAlone /\ ReadTold /\ WindowTold

LEMMA Times ==
  /\ UploadTime \in Nat \ {0} /\ WindowTime \in Nat \ {0} /\ MaxRound \in Nat \ {0}
  /\ Modulus \in Nat \ {0} /\ Long \in Nat \ {0} /\ MaxSets \in Nat /\ Sets \subseteq Int
  /\ Interval \in 0..(Modulus - 1)
<1>1. \A n \in Nat, m \in Nat \ {0} : n % m \in 0..(m - 1)
  OBVIOUS
<1> QED BY <1>1, TimesAssumption, SetsAssumption DEF Interval

LEMMA ForwardIs ==
  /\ Forward \in Nat /\ \A s \in Sets : s <= Forward
  /\ Long > Interval + WindowTime + MaxRound + Ahead(MaxSets)
<1> DEFINE P(d) == /\ \A s \in Sets : s <= d
                   /\ Long > (UploadTime % Modulus) + WindowTime + MaxRound + MaxSets * d
<1>1. \E d \in 0..Long : P(d)
  BY LongAssumption
<1>2. Forward = CHOOSE d \in 0..Long : P(d)
  BY DEF Forward
<1> HIDE DEF P
<1>3. Forward \in 0..Long /\ P(Forward)
  BY <1>1, <1>2
<1>4. Forward \in Nat
  BY <1>3, Times
<1>5. MaxSets * Forward = Forward * MaxSets
  BY <1>4, Times
<1> QED BY <1>3, <1>4, <1>5 DEF P, Ahead, Interval

LEMMA Multiples ==
  ASSUME NEW c \in Nat
  PROVE  /\ c * 0 = 0
         /\ \A n \in Nat : c * n \in Nat /\ c * (n + 1) = c * n + c
         /\ \A n, m \in Nat : n <= m => c * n <= c * m
<1>1. c * 0 = 0 /\ \A n \in Nat : c * n \in Nat /\ c * (n + 1) = c * n + c
  OBVIOUS
<1>2. ASSUME NEW n \in Nat, NEW m \in Nat, n <= m PROVE c * n <= c * m
  <2>1. m - n \in Nat /\ m = n + (m - n)
    BY <1>2
  <2>2. c * (m - n) \in Nat /\ c * m = c * n + c * (m - n)
    BY <2>1
  <2> QED BY <2>2
<1> QED BY <1>1, <1>2

LEMMA AheadIs ==
  /\ Ahead(0) = 0
  /\ \A n \in 0..MaxSets : Ahead(n) \in Nat /\ Ahead(n) <= Ahead(MaxSets)
  /\ \A n \in 0..MaxSets : Ahead(n + 1) = Ahead(n) + Forward
  /\ Ahead(MaxSets) \in Nat
  BY Multiples, ForwardIs, Times DEF Ahead

LEMMA SpentIs ==
  /\ Spent(0) = 0
  /\ \A n \in Nat : Spent(n) \in Nat /\ Spent(n + 1) = Spent(n) + WindowTime + MaxRound
<1> DEFINE c == WindowTime + MaxRound
<1>1. c \in Nat /\ WindowTime \in Nat /\ MaxRound \in Nat
  BY Times
<1>2. \A n : Spent(n) = c * n
  BY DEF Spent
<1>3. \A n \in Nat : n + c = n + WindowTime + MaxRound
  BY Times
<1> HIDE DEF c
<1>4. Spent(0) = 0 /\ \A n \in Nat : Spent(n) \in Nat /\ Spent(n + 1) = Spent(n) + c
  BY <1>1, <1>2, Multiples
<1> QED BY <1>3, <1>4

(* A round that has not saturated is far from it. *)
LEMMA RoundBelow ==
  ASSUME NEW r \in Int, NEW l \in 0..MaxRound, NEW n \in 0..MaxSets, r <= l + Ahead(n)
  PROVE  r < Long /\ Long - r > Interval + WindowTime
<1>1. Ahead(n) <= Ahead(MaxSets) /\ Ahead(n) \in Int /\ Ahead(MaxSets) \in Int
  BY AheadIs
<1>2. Long \in Int /\ Interval \in Nat /\ WindowTime \in Nat /\ MaxRound \in Int
  BY Times
<1>3. Long > Interval + WindowTime + MaxRound + Ahead(MaxSets)
  BY ForwardIs
<1>4. r <= MaxRound + Ahead(MaxSets)
  BY <1>1, <1>2
<1> QED BY <1>1, <1>2, <1>3, <1>4

LEMMA Numbers ==
  ASSUME TypeOK, RoundTold
  PROVE  /\ round \in Int /\ run \in Int /\ win \in Int /\ run <= Long /\ win <= Long
         /\ lag \in 0..MaxRound /\ read \in 0..Long /\ cycle \in 0..Long /\ back \in Nat
         /\ sets \in 0..MaxSets /\ interval \in 0..(Modulus - 1)
         /\ round < Long /\ Long - round > Interval + WindowTime
<1>1. /\ round \in Int /\ run \in Int /\ win \in Int /\ run <= Long /\ win <= Long
      /\ lag \in 0..MaxRound /\ read \in 0..Long /\ cycle \in 0..Long /\ back \in Nat
      /\ sets \in 0..MaxSets /\ interval \in 0..(Modulus - 1)
  BY DEF TypeOK
<1> QED BY <1>1, RoundBelow DEF RoundTold

-----------------------------------------------------------------------------
(* Its steps.                                                                *)

LEMMA ScheduleInit == Init => ScheduleInv
<1> SUFFICES ASSUME Init PROVE ScheduleInv
  OBVIOUS
<1>1. /\ at = "begin" /\ round = 0 /\ run = Long /\ win = Long /\ interval = Interval
      /\ started = FALSE /\ lag = 0 /\ read = 0 /\ cycle = 0 /\ first = FALSE
      /\ again = FALSE /\ back = 0 /\ sets = 0
  BY DEF Init, Interval
<1>2. TypeOK
  <2>1. {started, first, again} \subseteq BOOLEAN
    BY <1>1, Zenon
  <2> QED BY <1>1, <2>1, Times DEF TypeOK
<1>3. RoundTold
  BY <1>1, AheadIs, Times DEF RoundTold
<1>4. FirstAlone
  BY <1>1 DEF FirstAlone
<1>5. ReadTold
  BY <1>1, Times DEF ReadTold
<1>6. WindowTold
  BY <1>1 DEF WindowTold
<1> QED BY <1>2, <1>3, <1>4, <1>5, <1>6 DEF ScheduleInv

LEMMA BeginKeeps == ScheduleInv /\ Begin => ScheduleInv'
<1> SUFFICES ASSUME ScheduleInv, Begin PROVE ScheduleInv'
  OBVIOUS
<1>1. /\ at = "begin" /\ at' = "start" /\ round' = 0 /\ lag' = 0 /\ first' = FALSE
      /\ UNCHANGED <<run, win, interval, started, read, cycle, again, back, sets>>
  BY DEF Begin
<1>2. TypeOK'
  <2>1. {started, first, again} \subseteq BOOLEAN
    BY DEF ScheduleInv, TypeOK
  <2>2. {started', first', again'} \subseteq BOOLEAN
    BY <1>1, <2>1, Zenon
  <2>3. round' \in Int /\ round' <= Long /\ lag' \in 0..MaxRound
    BY <1>1, Times
  <2> QED BY <1>1, <2>2, <2>3 DEF ScheduleInv, TypeOK
<1>3. RoundTold'
  <2>1. Ahead(sets) \in Nat /\ back \in Nat
    BY AheadIs, Numbers DEF ScheduleInv
  <2> QED BY <1>1, <2>1 DEF ScheduleInv, RoundTold
<1>4. FirstAlone'
  BY <1>1 DEF ScheduleInv, FirstAlone
<1>5. ReadTold'
  <2>1. started => read <= Interval + back + MaxRound
    BY <1>1, Numbers, Times DEF ScheduleInv, ReadTold
  <2> QED BY <1>1, <2>1, Numbers, Times DEF ScheduleInv, ReadTold
<1>6. WindowTold'
  <2> SUFFICES ASSUME started PROVE WindowTold'
    BY <1>1 DEF WindowTold
  <2>1. sets \in Nat /\ Spent(sets) \in Nat
    BY Numbers, SpentIs, Times DEF ScheduleInv
  <2>2. /\ 0 <= win - round /\ win - round < WindowTime
        /\ \/ round = lag /\ cycle - lag <= win - round + Spent(sets)
           \/ sets > 0 /\ cycle - lag <= win - round + Spent(sets - 1)
    BY <1>1, Numbers, Times DEF ScheduleInv, WindowTold, Due
  <2>3. sets > 0 => Spent(sets - 1) \in Nat /\ Spent(sets) = Spent(sets - 1) + WindowTime + MaxRound
    <3>1. sets > 0 => sets - 1 \in Nat /\ sets = (sets - 1) + 1
      BY <2>1
    <3> QED BY <3>1, SpentIs
  <2>4. cycle < Spent(sets) + WindowTime + MaxRound
    BY <2>1, <2>2, <2>3, Numbers, Times DEF ScheduleInv
  <2>5. cycle <= win + Spent(sets) \/ win < 0
    BY <2>1, <2>2, <2>3, Numbers, Times DEF ScheduleInv
  <2> QED BY <1>1, <2>1, <2>4, <2>5, Numbers, Times DEF ScheduleInv, WindowTold, Due
<1> QED BY <1>2, <1>3, <1>4, <1>5, <1>6 DEF ScheduleInv

(* A window begins with the round. *)
LEMMA WindowBegun ==
  ASSUME ScheduleInv, cycle' = 0, win' = round, UNCHANGED <<round, lag, sets>>
  PROVE  /\ 0 <= win' - round'
         /\ ~Due'
         /\ cycle' < Spent(sets') + WindowTime + MaxRound + lag'
         /\ \/ round' = lag' /\ cycle' - lag' <= win' - round' + Spent(sets')
            \/ sets' > 0 /\ cycle' - lag' <= win' - round' + Spent(sets' - 1)
<1>1. round \in Int /\ lag \in Nat /\ sets \in Nat /\ WindowTime \in Nat \ {0} /\ MaxRound \in Nat
  BY Numbers, Times DEF ScheduleInv
<1>2. Spent(sets) \in Nat /\ (sets > 0 => Spent(sets - 1) \in Nat)
  BY <1>1, SpentIs
<1>3. round = lag \/ sets > 0
  BY <1>1 DEF ScheduleInv, RoundTold
<1> QED BY <1>1, <1>2, <1>3 DEF Due

LEMMA FirstReadKeeps == ScheduleInv /\ FirstRead => ScheduleInv'
<1> SUFFICES ASSUME ScheduleInv, FirstRead PROVE ScheduleInv'
  OBVIOUS
<1>1. at = "start" /\ at' = "window" /\ UNCHANGED <<round, interval, lag, again, back, sets>>
  BY DEF FirstRead
<1>2. CASE started /\ UNCHANGED <<started, first, run, win, read, cycle>>
  BY <1>1, <1>2 DEF ScheduleInv, TypeOK, RoundTold, FirstAlone, ReadTold, WindowTold, Due
<1>3. CASE ~started /\ started' = TRUE /\ first' = TRUE
           /\ read' = 0 /\ cycle' = 0 /\ run' = round /\ win' = round
  <2>1. TypeOK'
    BY <1>1, <1>3, Numbers, Times DEF ScheduleInv, TypeOK
  <2>2. RoundTold' /\ FirstAlone'
    BY <1>1, <1>3 DEF ScheduleInv, RoundTold, FirstAlone
  <2>3. ReadTold'
    BY <1>1, <1>3, Numbers, Times DEF ScheduleInv, RoundTold, ReadTold
  <2>4. WindowTold'
    BY <1>1, <1>3, WindowBegun DEF WindowTold
  <2> QED BY <2>1, <2>2, <2>3, <2>4 DEF ScheduleInv
<1> QED BY <1>2, <1>3 DEF FirstRead

LEMMA WindowKeeps == ScheduleInv /\ Window => ScheduleInv'
<1> SUFFICES ASSUME ScheduleInv, Window PROVE ScheduleInv'
  OBVIOUS
<1>1. /\ at = "window" /\ at' = "interval" /\ started
      /\ UNCHANGED <<round, run, interval, started, lag, first, again, back, sets>>
  BY DEF Window, ScheduleInv, RoundTold
<1>2. RoundTold' /\ FirstAlone'
  BY <1>1 DEF ScheduleInv, RoundTold, FirstAlone
<1>3. CASE read' = 0 /\ cycle' = 0 /\ win' = round
  <2>1. TypeOK'
    BY <1>1, <1>3, Numbers, Times DEF ScheduleInv, TypeOK
  <2>2. read >= read' /\ read' \in Int /\ read \in Int
    BY <1>3, Numbers DEF ScheduleInv
  <2>3. ReadTold'
    BY <1>1, <2>2, Numbers, Times DEF ScheduleInv, ReadTold
  <2>4. WindowTold'
    BY <1>1, <1>3, WindowBegun DEF WindowTold
  <2> QED BY <1>2, <2>1, <2>3, <2>4 DEF ScheduleInv
<1>4. CASE ~AtLeastUnsigned(win, round, WindowTime) /\ UNCHANGED <<read, cycle, win>>
  <2>1. ~Due
    BY <1>4, Numbers, Times DEF ScheduleInv, AtLeastUnsigned, Due
  <2>2. TypeOK' /\ ReadTold'
    BY <1>1, <1>4 DEF ScheduleInv, TypeOK, ReadTold
  <2>3. WindowTold'
    BY <1>1, <1>4, <2>1 DEF ScheduleInv, WindowTold, Due
  <2> QED BY <1>2, <2>2, <2>3 DEF ScheduleInv
<1> QED BY <1>3, <1>4 DEF Window

LEMMA ReadIntervalKeeps == ScheduleInv /\ ReadInterval => ScheduleInv'
<1> SUFFICES ASSUME ScheduleInv, ReadInterval PROVE ScheduleInv'
  OBVIOUS
<1>1. /\ at = "interval" /\ at' = "branch" /\ interval' \in {Interval, 0}
      /\ UNCHANGED <<round, run, win, started, lag, read, cycle, first, again, back, sets>>
  BY DEF ReadInterval, clocks, Interval
<1>2. interval' \in 0..(Modulus - 1) /\ interval' <= Interval
  BY <1>1, Times
<1> QED BY <1>1, <1>2 DEF ScheduleInv, TypeOK, RoundTold, FirstAlone, ReadTold, WindowTold, Due

LEMMA BranchKeeps == ScheduleInv /\ Branch => ScheduleInv'
<1> SUFFICES ASSUME ScheduleInv, Branch PROVE ScheduleInv'
  OBVIOUS
<1>1. /\ at = "branch" /\ at' = "begin" /\ started /\ interval <= Interval
      /\ UNCHANGED <<round, win, interval, started, lag, cycle, first, back, sets>>
  BY DEF Branch, ScheduleInv, RoundTold
<1>2. RoundTold'
  BY <1>1 DEF ScheduleInv, RoundTold
<1>3. WindowTold'
  BY <1>1 DEF ScheduleInv, WindowTold, Due
<1>4. CASE AtLeast(run, round, interval) /\ read' = 0 /\ run' = round
           /\ again' = (again \/ (first /\ interval > 0))
  <2>1. first => ~(interval > 0)
    BY <1>4, Numbers DEF ScheduleInv, FirstAlone, AtLeast
  <2>2. FirstAlone'
    BY <1>1, <1>4, <2>1 DEF ScheduleInv, FirstAlone
  <2>3. TypeOK'
    BY <1>1, <1>4, <2>2, Numbers, Times DEF ScheduleInv, TypeOK, FirstAlone
  <2>4. ReadTold'
    BY <1>1, <1>4, Numbers, Times DEF ScheduleInv, RoundTold, ReadTold
  <2> QED BY <1>2, <1>3, <2>2, <2>3, <2>4 DEF ScheduleInv
<1>5. CASE ~AtLeast(run, round, interval) /\ UNCHANGED <<read, run, again>>
  <2>1. TypeOK' /\ FirstAlone'
    BY <1>1, <1>5 DEF ScheduleInv, TypeOK, FirstAlone
  <2>2. run - round < Interval
    BY <1>1, <1>5, Numbers, Times DEF ScheduleInv, AtLeast
  <2>3. read - lag <= run - round + back
    BY <2>2, Numbers, Times DEF ScheduleInv, ReadTold
  <2>4. ReadTold'
    BY <1>1, <1>5, <2>2, <2>3, Numbers, Times DEF ScheduleInv, ReadTold
  <2> QED BY <1>2, <1>3, <2>1, <2>4 DEF ScheduleInv
<1> QED BY <1>4, <1>5 DEF Branch

(* A time that saturates or not. *)
LEMMA CappedIs ==
  ASSUME NEW x \in Int
  PROVE  /\ Capped(x) \in Int /\ Capped(x) <= Long
         /\ Capped(x) = x \/ (Capped(x) = Long /\ x > Long)
         /\ x \in Nat => Capped(x) \in 0..Long
<1>1. Long \in Nat
  BY Times
<1>2. CASE x > Long
  BY <1>1, <1>2 DEF Capped
<1>3. CASE ~(x > Long)
  <2>1. Capped(x) = x /\ x <= Long
    BY <1>1, <1>3 DEF Capped
  <2> QED BY <1>1, <2>1
<1> QED BY <1>2, <1>3

LEMMA TickKeeps == ScheduleInv /\ Tick => ScheduleInv'
<1> SUFFICES ASSUME ScheduleInv, Tick PROVE ScheduleInv'
  OBVIOUS
<1> USE DEF ScheduleInv
<1>1. /\ lag' = lag + 1 /\ lag < MaxRound /\ UNCHANGED <<at, interval, started, first, again, back, sets>>
      /\ run' = Capped(run + 1) /\ win' = Capped(win + 1)
      /\ read' = Capped(read + 1) /\ cycle' = Capped(cycle + 1)
  BY DEF Tick
<1>2. round' = round + 1 /\ lag' \in 0..MaxRound
  BY <1>1, Numbers, Times DEF Tick, Capped
<1>3. /\ run' \in Int /\ run' <= Long /\ (run' = run + 1 \/ run' = Long)
      /\ win' \in Int /\ win' <= Long /\ (win' = win + 1 \/ win' = Long)
      /\ read' \in 0..Long /\ read' <= read + 1
      /\ cycle' \in 0..Long /\ cycle' <= cycle + 1
  BY <1>1, CappedIs, Numbers, Times
<1>4. RoundTold'
  <2>1. Ahead(sets) \in Nat
    BY AheadIs, Numbers
  <2> QED BY <1>1, <1>2, <2>1, Numbers DEF RoundTold
<1>5. round' < Long /\ Long - round' > Interval + WindowTime
  <2>1. round' \in Int /\ lag' \in 0..MaxRound /\ sets' \in 0..MaxSets /\ round' <= lag' + Ahead(sets')
    BY <1>1, <1>2, <1>4, Numbers DEF RoundTold
  <2> QED BY <2>1, RoundBelow
<1>6. TypeOK'
  <2>1. round' \in Int /\ round' <= Long
    BY <1>2, <1>5, Numbers, Times
  <2> QED BY <1>1, <1>2, <1>3, <2>1 DEF TypeOK
<1>7. FirstAlone'
  BY <1>1, <1>2, Numbers DEF FirstAlone, Tick
<1>8. ReadTold'
  <2>1. read' <= run' + back'
    BY <1>1, <1>3, Numbers, Times DEF ReadTold
  <2>2. run' - round' >= Interval \/ read' - lag' <= run' - round' + back'
    BY <1>1, <1>2, <1>3, <1>5, Numbers, Times DEF ReadTold
  <2> QED BY <1>1, <1>2, <1>3, <2>1, <2>2, Numbers, Times DEF ReadTold
<1>9. WindowTold'
  <2> SUFFICES ASSUME started PROVE WindowTold'
    BY <1>1 DEF WindowTold
  <2>1. win' - round' = win - round \/ (win' = Long /\ win' - round' > WindowTime)
    BY <1>2, <1>3, <1>5, Numbers, Times
  <2>2. ~Due => win' - round' = win - round
    BY <1>1, <1>2, <1>5, Numbers, Times DEF Due, Capped
  <2>3. Due => Due'
    BY <1>2, <1>3, <1>5, <2>1, Numbers, Times DEF Due
  <2>4. cycle' - lag' <= cycle - lag /\ (round = lag => round' = lag')
    BY <1>1, <1>2, <1>3, Numbers
  <2>5. sets \in Nat /\ Spent(sets) \in Nat /\ (sets > 0 => Spent(sets - 1) \in Nat)
    BY Numbers, SpentIs, Times
  <2>6. ~Due => ~Due'
    BY <2>2, <1>2, <1>3, Numbers, Times DEF Due
  <2>7. \/ Due /\ Due'
        \/ /\ ~Due /\ ~Due'
           /\ (round = lag /\ cycle - lag <= win - round + Spent(sets)) =>
                (round' = lag' /\ cycle' - lag' <= win' - round' + Spent(sets'))
           /\ (sets > 0 /\ cycle - lag <= win - round + Spent(sets - 1)) =>
                (sets' > 0 /\ cycle' - lag' <= win' - round' + Spent(sets' - 1))
    BY <1>1, <1>2, <1>3, <2>2, <2>3, <2>4, <2>5, <2>6, Numbers, Times
  <2>8. cycle < Spent(sets) + WindowTime + MaxRound + lag =>
          cycle' < Spent(sets') + WindowTime + MaxRound + lag'
    BY <1>1, <1>3, <2>5, Numbers, Times
  <2> QED BY <1>1, <2>7, <2>8 DEF WindowTold
<1> QED BY <1>4, <1>6, <1>7, <1>8, <1>9

LEMMA ClockSetKeeps == ScheduleInv /\ ClockSet => ScheduleInv'
<1> SUFFICES ASSUME ScheduleInv, ClockSet PROVE ScheduleInv'
  OBVIOUS
<1> USE DEF ScheduleInv
<1>1. PICK d \in Sets :
        /\ round' = Capped(round + d) /\ run' = Capped(run + d) /\ win' = Capped(win + d)
        /\ back' = IF d < 0 THEN back - d ELSE back
  BY DEF ClockSet
<1>2. /\ sets' = sets + 1 /\ sets < MaxSets
      /\ UNCHANGED <<at, interval, started, lag, read, cycle, first, again>>
  BY DEF ClockSet
<1>3. d \in Int /\ d <= Forward /\ Forward \in Nat
  BY ForwardIs, Times
<1>4. round + d <= lag + Ahead(sets + 1) /\ Ahead(sets + 1) \in Nat /\ sets + 1 \in 0..MaxSets
  <2>1. Ahead(sets + 1) = Ahead(sets) + Forward /\ Ahead(sets) \in Nat
    BY AheadIs, Numbers
  <2> QED BY <1>2, <1>3, <2>1, Numbers, Times DEF RoundTold
<1>5. round + d < Long /\ Long - (round + d) > Interval + WindowTime
  <2>1. round + d \in Int
    BY <1>3, Numbers
  <2> QED BY <1>4, <2>1, Numbers, RoundBelow
<1>6. round' = round + d
  BY <1>1, <1>3, <1>5, Numbers, Times DEF Capped
<1>7. /\ run' \in Int /\ run' <= Long /\ (run' = run + d \/ run' = Long)
      /\ win' \in Int /\ win' <= Long /\ (win' = win + d \/ win' = Long)
  BY <1>1, <1>3, CappedIs, Numbers
<1>8. back' \in Nat /\ back' >= back /\ back' + d >= back
  BY <1>1, <1>3, Numbers
<1>9. RoundTold'
  BY <1>2, <1>3, <1>4, <1>6, <1>8, Numbers DEF RoundTold
<1>10. TypeOK'
  <2>1. round' \in Int /\ round' <= Long
    BY <1>3, <1>5, <1>6, Numbers, Times
  <2> QED BY <1>2, <1>4, <1>7, <1>8, <2>1 DEF TypeOK
<1>11. FirstAlone'
  BY <1>1, <1>2 DEF FirstAlone
<1>12. ReadTold'
  <2>1. read' <= run' + back'
    BY <1>2, <1>3, <1>7, <1>8, Numbers, Times DEF ReadTold
  <2>2. run' - round' >= Interval \/ read' - lag' <= run' - round' + back'
    BY <1>2, <1>3, <1>5, <1>6, <1>7, <1>8, Numbers, Times DEF ReadTold
  <2>3. started => read <= Interval + back' + lag + (IF at = "begin" THEN 0 ELSE MaxRound)
    BY <1>8, Numbers, Times DEF ReadTold
  <2> QED BY <1>2, <2>1, <2>2, <2>3 DEF ReadTold
<1>13. WindowTold'
  <2> SUFFICES ASSUME started PROVE WindowTold'
    BY <1>2 DEF WindowTold
  <2>1. Due => Due'
    BY <1>3, <1>5, <1>6, <1>7, Numbers, Times DEF Due
  <2>2. ~Due => win' - round' = win - round /\ ~Due'
    BY <1>1, <1>3, <1>5, <1>6, Numbers, Times DEF Due, Capped
  <2>3. /\ sets \in Nat /\ Spent(sets) \in Nat /\ sets' - 1 = sets /\ sets' > 0
        /\ Spent(sets') = Spent(sets) + WindowTime + MaxRound
        /\ sets > 0 => Spent(sets - 1) <= Spent(sets)
    <3>1. sets \in Nat /\ WindowTime \in Nat /\ MaxRound \in Nat
      BY Numbers, Times
    <3>2. sets > 0 => sets - 1 \in Nat /\ sets = (sets - 1) + 1
      BY <3>1
    <3>3. sets > 0 => Spent(sets - 1) \in Nat /\ Spent(sets) = Spent(sets - 1) + WindowTime + MaxRound
      BY <3>2, SpentIs
    <3> QED BY <1>2, <3>1, <3>3, SpentIs
  <2>4. (round = lag /\ cycle - lag <= win - round + Spent(sets))
          \/ (sets > 0 /\ cycle - lag <= win - round + Spent(sets - 1))
        => cycle - lag <= win - round + Spent(sets)
    <3>1. sets > 0 => Spent(sets - 1) \in Nat
      <4>1. sets > 0 => sets - 1 \in Nat
        BY <2>3
      <4> QED BY <4>1, SpentIs
    <3> QED BY <2>3, <3>1, Numbers
  <2>5. Due \/ cycle' - lag' <= win' - round' + Spent(sets' - 1)
    BY <1>2, <2>2, <2>3, <2>4 DEF WindowTold
  <2>6. cycle < Spent(sets) + WindowTime + MaxRound + lag => cycle' < Spent(sets') + WindowTime + MaxRound + lag'
    BY <1>2, <2>3, Numbers, Times
  <2> QED BY <1>2, <2>1, <2>2, <2>3, <2>5, <2>6 DEF WindowTold
<1> QED BY <1>9, <1>10, <1>11, <1>12, <1>13

LEMMA ScheduleNext == ScheduleInv /\ [Next]_vars => ScheduleInv'
<1> SUFFICES ASSUME ScheduleInv, [Next]_vars PROVE ScheduleInv'
  OBVIOUS
<1>1. CASE UNCHANGED vars
  BY <1>1 DEF vars, clocks, ScheduleInv, TypeOK, RoundTold, FirstAlone, ReadTold, WindowTold, Due
<1> QED
  BY <1>1, BeginKeeps, FirstReadKeeps, WindowKeeps, ReadIntervalKeeps, BranchKeeps, TickKeeps,
     ClockSetKeeps DEF Next

(* The round that reads the meter first does not read it again, whatever the  *)
(* clock does meanwhile, unless the interval it reads is 0 (cmd_main).        *)
THEOREM FirstReadIsAlone == Spec => []FirstReadIsNotRepeated
<1>1. ScheduleInv => FirstReadIsNotRepeated
  BY DEF ScheduleInv, FirstAlone, FirstReadIsNotRepeated
<1> QED BY <1>1, ScheduleInit, ScheduleNext, PTL DEF Spec

(* The meter is read in every interval of the length that fits the variable,  *)
(* and two rounds; setting the clock back by some seconds costs those.        *)
THEOREM AlwaysReadInTime == Spec => []ReadInTime
<1>1. ScheduleInv => ReadInTime
  BY Numbers, Times DEF ScheduleInv, ReadTold, ReadInTime
<1> QED BY <1>1, ScheduleInit, ScheduleNext, PTL DEF Spec

(* A window ends in time; however the clock is set, each setting costs one    *)
(* window and one round at most.                                              *)
THEOREM WindowAlwaysInTime == Spec => []WindowInTime
<1>1. ScheduleInv => WindowInTime
  <2> SUFFICES ASSUME ScheduleInv, started PROVE cycle < (WindowTime + MaxRound) * (1 + sets) + MaxRound
    BY DEF ScheduleInv, WindowInTime
  <2>1. sets \in Nat /\ Spent(sets) \in Nat /\ WindowTime \in Nat /\ MaxRound \in Nat
    BY Numbers, SpentIs, Times DEF ScheduleInv
  <2>2. sets > 0 => Spent(sets - 1) \in Nat /\ Spent(sets) = Spent(sets - 1) + WindowTime + MaxRound
    <3>1. sets > 0 => sets - 1 \in Nat /\ sets = (sets - 1) + 1
      BY <2>1
    <3> QED BY <3>1, SpentIs
  <2>3. cycle < Spent(sets) + WindowTime + MaxRound + lag
    BY <2>1, <2>2, Numbers DEF ScheduleInv, WindowTold, Due
  <2>4. (WindowTime + MaxRound) * (1 + sets) = Spent(sets) + WindowTime + MaxRound
    <3>1. 1 + sets = sets + 1
      BY <2>1
    <3> QED BY <2>1, <3>1, SpentIs DEF Spent
  <2> QED BY <2>1, <2>3, <2>4, Numbers DEF ScheduleInv
<1> QED BY <1>1, ScheduleInit, ScheduleNext, PTL DEF Spec

-----------------------------------------------------------------------------
(* DeviceDecode.                                                             *)

(* The thread has yet to end the wait of the poll. *)
Crediting(t) == job[t].at \in {"credit", "decode", "clear"}
Busy(t) == job[t].at # "idle"
Unfiled(t) == job[t].at \in {"credit", "decode", "clear", "file"}

(* Whatever happens. *)
DecodeTypes ==
  /\ PollTypeOK /\ table \in Tables
  /\ value2 \in [Devices -> [by : {"nobody", "store", "decode"}, of : Devices \cup {None}, num : Int]]
  /\ poll \in {"send", "add", "arm", "wait"} => no \in Devices
  /\ \A t \in Drainers : Busy(t) => job[t].of \in Devices
  /\ \A t \in Drainers : ~Busy(t) => job[t] = Idle
  /\ \A t \in Drainers : job[t].at = "decode" => job[t].to \in Devices
  /\ \A d \in Devices : valid[d] => value2[d].by # "nobody"

(* While the poll has waited for every answer, one is on its way to be        *)
(* credited at most, that of the device asked, and the poll waits for it.     *)
OneOnItsWay ==
  /\ line \in {<<>>, <<no>>}
  /\ \A t \in Drainers : Crediting(t) =>
       /\ line = <<>> /\ job[t].of = no
       /\ job[t].at = "decode" => job[t].to = no /\ value1[no] = FirstWord(no)
  /\ \A t, u \in Drainers : Crediting(t) /\ Crediting(u) => t = u
  /\ line # <<>> \/ (\E t \in Drainers : Crediting(t)) =>
       poll \in {"add", "arm", "wait"} /\ (poll = "wait" => waiting)

(* Those being filed are of other devices, all asked in this round.           *)
EachOnce ==
  /\ \A t \in Drainers : Busy(t) => job[t].of <= no /\ (poll = "send" \/ line # <<>> => job[t].of < no)
  /\ \A t, u \in Drainers : Busy(t) /\ Busy(u) /\ job[t].of = job[u].of => t = u

(* The request is noted before its answer is looked up. *)
Asked(d) == d \in asked \/ (poll = "add" /\ no = d)
AnswersAsked ==
  /\ line # <<>> => Asked(no)
  /\ \A t \in Drainers : Busy(t) => Asked(job[t].of)

Shows(d) ==
  \/ value2[d] \in {Nothing, Stored(d)}
  \/ /\ value2[d] = Decoded(d, Meaning(table[d].type, FirstWord(d)))
     /\ valid[d] => \E t \in Drainers : job[t].of = d /\ Unfiled(t)

Clean == given = 0 /\ ~early
Orderly == OneOnItsWay /\ EachOnce /\ AnswersAsked /\ \A d \in Devices : Shows(d)
DecodeInv == DecodeTypes /\ (Clean => Orderly)

LEMMA WordsAre == \A x : x \in Words <=> x \in Int /\ 0 <= x /\ x <= 65535
<1> DEFINE n == 65535
<1>1. n \in Int
  OBVIOUS
<1>2. Words = 0..n
  BY DEF Words
<1> HIDE DEF n
<1>3. \A x : x \in Words <=> x \in Int /\ 0 <= x /\ x <= n
  BY <1>1, <1>2
<1> QED BY <1>3 DEF n

(* Each branch of the decoding computes what its type means. *)
LEMMA MeaningIs ==
  ASSUME NEW type \in DeviceTypes \ {0, 6}, NEW w \in Words
  PROVE  /\ Hundredths(type, w) = Meaning(type, w) /\ Hundredths(type, w) \in Int
         /\ Remainder(type, w) \in Words
<1> DEFINE high == w \div 32768
           low == w % 32768
<1>1. \/ w < 32768 /\ high = 0 /\ low = w
      \/ w >= 32768 /\ high = 1 /\ low = w - 32768
  BY WordsAre
<1> HIDE DEF high, low
<1>2. CASE type = 1
  <2>1. Hundredths(type, w) = IF w > 4000 THEN w - 4000 ELSE -(4000 - w)
    BY <1>2 DEF Hundredths
  <2>2. Meaning(type, w) = w - 4000
    BY <1>2 DEF Meaning
  <2>3. Remainder(type, w) = IF w > 4000 THEN w - 4000 ELSE 4000 - w
    BY <1>2 DEF Remainder
  <2> QED BY <2>1, <2>2, <2>3, WordsAre
<1>6. CASE type = 2
  BY <1>6, WordsAre DEF Hundredths, Meaning, Remainder
<1>3. CASE type = 3
  BY <1>3, WordsAre DEF Hundredths, Meaning, Remainder
<1>4. CASE type = 4
  <2>1. Hundredths(type, w) = IF w > 32767 THEN -10 * (w - 32768)
                              ELSE IF 10 * w > 20000 THEN 19900 ELSE 10 * w
    BY <1>4 DEF Hundredths
  <2>2. Meaning(type, w) = IF high = 0 /\ low > 2000 THEN 19900 ELSE (1 - 2 * high) * low * 10
    BY <1>4 DEF Meaning, high, low
  <2>3. Remainder(type, w) = IF w > 32767 THEN w - 32768 ELSE w
    BY <1>4 DEF Remainder
  <2>4. CASE w < 32768 /\ high = 0 /\ low = w
    BY <2>1, <2>2, <2>3, <2>4, WordsAre
  <2>5. CASE w >= 32768 /\ high = 1 /\ low = w - 32768
    <3>1. (1 - 2 * high) * low * 10 = -10 * (w - 32768)
      BY <2>5
    <3> QED BY <2>1, <2>2, <2>3, <2>5, <3>1, WordsAre
  <2> QED BY <1>1, <2>4, <2>5
<1>5. CASE type = 5
  <2>1. Hundredths(type, w) = IF w = 63488 THEN 0
                              ELSE IF w > 32767 THEN -10 * (65536 - w) ELSE 10 * w
    BY <1>5 DEF Hundredths
  <2>2. Meaning(type, w) = IF high = 1 /\ low = 30720 THEN 0 ELSE (low - 32768 * high) * 10
    BY <1>5 DEF Meaning, high, low
  <2>3. Remainder(type, w) = IF w = 63488 THEN 0 ELSE IF w > 32767 THEN 65536 - w ELSE w
    BY <1>5 DEF Remainder
  <2>4. CASE w < 32768 /\ high = 0 /\ low = w
    BY <2>1, <2>2, <2>3, <2>4, WordsAre
  <2>5. CASE w >= 32768 /\ high = 1 /\ low = w - 32768
    BY <2>1, <2>2, <2>3, <2>5, WordsAre
  <2> QED BY <1>1, <2>4, <2>5
<1>7. DeviceTypes \ {0, 6} = {1, 2, 3, 4, 5}
  BY DEF DeviceTypes
<1> QED BY <1>2, <1>3, <1>4, <1>5, <1>6, <1>7

LEMMA TheDevices ==
  ASSUME table \in Tables
  PROVE  /\ Devices = 1..Len(table) /\ Len(table) \in Nat
         /\ \A d \in Devices : table[d].type \in DeviceTypes /\ FirstWord(d) \in Words
<1>1. /\ table \in Seq([type : DeviceTypes, words : Seq(Words)])
      /\ \A d \in Devices : Len(table[d].words) \in 1..MostWords
  BY TablesAssumption DEF Devices
<1>2. Devices = 1..Len(table) /\ Len(table) \in Nat
  BY <1>1, LenProperties DEF Devices
<1>3. \A d \in 1..Len(table) : table[d] \in [type : DeviceTypes, words : Seq(Words)]
  BY <1>1, ElementOfSeq
<1>4. ASSUME NEW d \in Devices PROVE FirstWord(d) \in Words
  <2>1. table[d].words \in Seq(Words) /\ Len(table[d].words) >= 1
    <3>1. table[d].words \in Seq(Words)
      BY <1>2, <1>3
    <3> DEFINE m == Len(table[d].words)
    <3>2. m \in 1..16
      BY <1>1 DEF MostWords
    <3> HIDE DEF m
    <3>3. m >= 1
      BY <3>2
    <3> QED BY <3>1, <3>3 DEF m
  <2>2. 1 \in 1..Len(table[d].words)
    BY <2>1, LenProperties
  <2> QED BY <2>1, <2>2, ElementOfSeq DEF FirstWord
<1> QED BY <1>2, <1>3, <1>4

LEMMA DecodeInit == PollInit => DecodeInv
<1> SUFFICES ASSUME PollInit PROVE DecodeInv
  OBVIOUS
<1>1. /\ no = 0 /\ poll = "rest" /\ waiting = FALSE /\ line = <<>> /\ asked = {} /\ given = 0 /\ early = FALSE
      /\ job = [t \in Drainers |-> Idle]
      /\ value1 = [d \in Devices |-> 0] /\ value2 = [d \in Devices |-> Nothing]
      /\ valid = [d \in Devices |-> FALSE] /\ there = [d \in Devices |-> 0]
  BY DEF PollInit
<1>2. table \in Tables
  BY DEF PollInit
<1>3. Idle.at = "idle" /\ Nothing.by = "nobody"
  BY DEF Idle, Nothing
<1>4. \A t \in Drainers : job[t] = Idle /\ ~Busy(t) /\ ~Crediting(t)
  BY <1>1, <1>3 DEF Busy, Crediting
<1>5. \A d \in Devices : value2[d] = Nothing /\ ~valid[d]
  BY <1>1
<1>6. job \in [Drainers -> [at : {"idle", "credit", "decode", "clear", "file", "more", "last"},
                            of : Devices \cup {None}, to : Devices \cup {None}, filed : Nat]]
  BY <1>1 DEF Idle
<1>7. PollTypeOK
  <2>1. /\ value1 \in [Devices -> Words] /\ valid \in [Devices -> BOOLEAN] /\ line \in Seq(Devices)
       /\ there \in [Devices -> Nat]
    BY <1>1 DEF Words
  <2>2. no \in 0..Len(table) /\ given \in 0..MaxGiven
    BY <1>1, <1>2, TheDevices, MaxGivenAssumption
  <2> QED BY <1>1, <1>3, <1>5, <1>6, <2>1, <2>2 DEF PollTypeOK
<1>8. DecodeTypes
  <2>1. value2 \in [Devices -> [by : {"nobody", "store", "decode"}, of : Devices \cup {None}, num : Int]]
    BY <1>1 DEF Nothing
  <2> QED BY <1>1, <1>2, <1>3, <1>4, <1>5, <1>7, <2>1 DEF DecodeTypes, Busy
<1>9. Orderly
  BY <1>1, <1>4, <1>5 DEF Orderly, OneOnItsWay, EachOnce, AnswersAsked, Shows
<1> QED BY <1>8, <1>9 DEF DecodeInv

-----------------------------------------------------------------------------
(* The poll.                                                                 *)

(* It leaves the entries and the answers in hand alone. *)
LEMMA PollAlone ==
  ASSUME DecodeInv, UNCHANGED <<table, job, value1, value2, valid, there>>,
         no' \in 0..Len(table), waiting' \in BOOLEAN, early' \in BOOLEAN, given' \in 0..MaxGiven,
         poll' \in {"rest", "next", "send", "add", "arm", "wait"},
         line' \in Seq(Devices), asked' \subseteq Devices,
         poll' \in {"send", "add", "arm", "wait"} => no' \in Devices
  PROVE  /\ DecodeTypes'
         /\ \A t \in Drainers : (Busy(t)' <=> Busy(t)) /\ (Crediting(t)' <=> Crediting(t))
         /\ (\A d \in Devices : Shows(d)) => (\A d \in Devices' : Shows(d)')
<1>1. Devices' = Devices
  BY DEF Devices
<1>2. \A t \in Drainers : (Busy(t)' <=> Busy(t)) /\ (Crediting(t)' <=> Crediting(t))
  BY DEF Busy, Crediting
<1>3. \A d : Shows(d) => Shows(d)'
  BY DEF Shows, Unfiled, FirstWord
<1>4. PollTypeOK'
  BY <1>1 DEF DecodeInv, DecodeTypes, PollTypeOK
<1>5. DecodeTypes'
  BY <1>1, <1>2, <1>4 DEF DecodeInv, DecodeTypes
<1> QED BY <1>1, <1>2, <1>3, <1>5

(* Where the poll goes on to the next device, nothing is on its way. *)
LEMMA NothingAwaited ==
  ASSUME OneOnItsWay, poll \in {"rest", "next", "send"} \/ (poll = "wait" /\ ~waiting)
  PROVE  line = <<>> /\ \A t \in Drainers : ~Crediting(t)
  BY DEF OneOnItsWay

(* If it went on with an answer outstanding, that is counted. *)
LEMMA NoneOutstanding ==
  ASSUME DecodeInv, GoOn, given' = 0, UNCHANGED <<line, job>>
  PROVE  given = 0 /\ line' = <<>> /\ \A t \in Drainers : ~Busy(t) /\ ~Crediting(t)
<1>1. given \in Nat /\ MaxGiven \in Nat
  BY MaxGivenAssumption DEF DecodeInv, DecodeTypes, PollTypeOK
<1>2. given = 0 /\ ~Outstanding
  BY <1>1 DEF GoOn
<1>3. Idle.at = "idle"
  BY DEF Idle
<1> QED BY <1>2, <1>3 DEF Outstanding, Busy, Crediting

LEMMA GoOnTypes == ASSUME DecodeInv, GoOn PROVE given' \in 0..MaxGiven
<1>1. given \in Nat /\ MaxGiven \in Nat
  BY MaxGivenAssumption DEF DecodeInv, DecodeTypes, PollTypeOK
<1> QED BY <1>1 DEF GoOn

LEMMA PollBeginKeeps == DecodeInv /\ PollBegin => DecodeInv'
<1> SUFFICES ASSUME DecodeInv, PollBegin PROVE DecodeInv'
  OBVIOUS
<1>1. /\ poll = "rest" /\ poll' = "next" /\ GoOn /\ no' = 0 /\ asked' \subseteq asked
      /\ UNCHANGED <<table, waiting, line, job, value1, value2, valid, there, early>>
  BY DEF PollBegin, entries
<1>2. no' \in 0..Len(table)
  BY <1>1, TheDevices DEF DecodeInv, DecodeTypes
<1>3. /\ DecodeTypes'
      /\ \A t \in Drainers : (Busy(t)' <=> Busy(t)) /\ (Crediting(t)' <=> Crediting(t))
      /\ (\A d \in Devices : Shows(d)) => (\A d \in Devices' : Shows(d)')
  BY <1>1, <1>2, PollAlone, GoOnTypes DEF DecodeInv, DecodeTypes, PollTypeOK
<1>4. ASSUME Clean' PROVE Orderly'
  <2>1. Clean /\ line' = <<>> /\ \A t \in Drainers : ~Busy(t)' /\ ~Crediting(t)'
    BY <1>1, <1>3, <1>4, NoneOutstanding DEF Clean
  <2> QED BY <1>3, <2>1 DEF DecodeInv, Orderly, OneOnItsWay, EachOnce, AnswersAsked
<1> QED BY <1>3, <1>4 DEF DecodeInv

LEMMA PollDeviceKeeps == DecodeInv /\ PollDevice => DecodeInv'
<1> SUFFICES ASSUME DecodeInv, PollDevice PROVE DecodeInv'
  OBVIOUS
<1>1. /\ poll = "next" /\ no < Len(table) /\ no' = no + 1 /\ poll' \in {"send", "next"}
      /\ UNCHANGED <<table, waiting, line, asked, job, value1, value2, valid, there, given, early>>
  BY DEF PollDevice, entries
<1>2. no' \in 0..Len(table) /\ no' \in Devices /\ no \in Int
  BY <1>1, TheDevices DEF DecodeInv, DecodeTypes, PollTypeOK
<1>3. /\ DecodeTypes'
      /\ \A t \in Drainers : (Busy(t)' <=> Busy(t)) /\ (Crediting(t)' <=> Crediting(t))
      /\ (\A d \in Devices : Shows(d)) => (\A d \in Devices' : Shows(d)')
  BY <1>1, <1>2, PollAlone DEF DecodeInv, DecodeTypes, PollTypeOK
<1>4. ASSUME Clean' PROVE Orderly'
  <2>1. Clean /\ Orderly
    BY <1>1, <1>4 DEF Clean, DecodeInv
  <2>2. line' = <<>> /\ \A t \in Drainers : ~Crediting(t)'
    BY <1>1, <1>3, <2>1, NothingAwaited DEF Orderly
  <2>3. \A t \in Drainers : Busy(t) => job[t].of \in Int
    BY TheDevices DEF DecodeInv, DecodeTypes
  <2>4. \A t \in Drainers : Busy(t)' => job'[t].of < no' /\ job'[t].of <= no'
    BY <1>1, <1>2, <1>3, <2>1, <2>3 DEF Orderly, EachOnce
  <2>5. EachOnce'
    BY <1>1, <1>3, <2>1, <2>4 DEF Orderly, EachOnce
  <2>6. AnswersAsked'
    BY <1>1, <1>3, <2>1, <2>2 DEF Orderly, AnswersAsked, Asked
  <2> QED BY <1>3, <2>1, <2>2, <2>5, <2>6 DEF Orderly, OneOnItsWay
<1> QED BY <1>3, <1>4 DEF DecodeInv

LEMMA PollEndKeeps == DecodeInv /\ PollEnd => DecodeInv'
<1> SUFFICES ASSUME DecodeInv, PollEnd PROVE DecodeInv'
  OBVIOUS
<1>1. /\ poll = "next" /\ poll' = "rest"
      /\ UNCHANGED <<table, no, waiting, line, asked, job, value1, value2, valid, there, given, early>>
  BY DEF PollEnd, entries
<1>2. /\ DecodeTypes'
      /\ \A t \in Drainers : (Busy(t)' <=> Busy(t)) /\ (Crediting(t)' <=> Crediting(t))
      /\ (\A d \in Devices : Shows(d)) => (\A d \in Devices' : Shows(d)')
  BY <1>1, PollAlone DEF DecodeInv, DecodeTypes, PollTypeOK
<1>3. ASSUME Clean' PROVE Orderly'
  <2>1. Clean /\ Orderly
    BY <1>1, <1>3 DEF Clean, DecodeInv
  <2> QED BY <1>1, <1>2, <2>1 DEF Orderly, OneOnItsWay, EachOnce, AnswersAsked, Asked
<1> QED BY <1>2, <1>3 DEF DecodeInv

LEMMA PollSendKeeps == DecodeInv /\ PollSend => DecodeInv'
<1> SUFFICES ASSUME DecodeInv, PollSend PROVE DecodeInv'
  OBVIOUS
<1>1. /\ poll = "send" /\ poll' = "add" /\ line' \in {Append(line, no), line}
      /\ UNCHANGED <<table, no, waiting, asked, job, value1, value2, valid, there, given, early>>
  BY DEF PollSend, entries
<1>2. no \in Devices /\ line \in Seq(Devices)
  BY <1>1 DEF DecodeInv, DecodeTypes, PollTypeOK
<1>3. line' \in Seq(Devices)
  BY <1>1, <1>2, AppendProperties
<1>4. /\ DecodeTypes'
      /\ \A t \in Drainers : (Busy(t)' <=> Busy(t)) /\ (Crediting(t)' <=> Crediting(t))
      /\ (\A d \in Devices : Shows(d)) => (\A d \in Devices' : Shows(d)')
  BY <1>1, <1>2, <1>3, PollAlone DEF DecodeInv, DecodeTypes, PollTypeOK
<1>5. ASSUME Clean' PROVE Orderly'
  <2>1. Clean /\ Orderly
    BY <1>1, <1>5 DEF Clean, DecodeInv
  <2>2. line = <<>> /\ \A t \in Drainers : ~Crediting(t)'
    BY <1>1, <1>4, <2>1, NothingAwaited DEF Orderly
  <2>3. line' \in {<<>>, <<no>>}
    BY <1>1, <2>2
  <2>4. \A t \in Drainers : Busy(t)' => job'[t].of < no /\ job'[t].of <= no
    BY <1>1, <1>4, <2>1 DEF Orderly, EachOnce
  <2>5. OneOnItsWay'
    BY <1>1, <2>2, <2>3 DEF OneOnItsWay
  <2>6. EachOnce'
    BY <1>1, <1>4, <2>1, <2>4 DEF Orderly, EachOnce
  <2>7. AnswersAsked'
    BY <1>1, <1>4, <2>1, <2>2 DEF Orderly, AnswersAsked, Asked
  <2> QED BY <1>4, <2>1, <2>5, <2>6, <2>7 DEF Orderly
<1> QED BY <1>4, <1>5 DEF DecodeInv

LEMMA PollAddKeeps == DecodeInv /\ PollAdd => DecodeInv'
<1> SUFFICES ASSUME DecodeInv, PollAdd PROVE DecodeInv'
  OBVIOUS
<1>1. /\ poll = "add" /\ poll' = "arm" /\ asked' = asked \cup {no}
      /\ UNCHANGED <<table, no, waiting, line, job, value1, value2, valid, there, given, early>>
  BY DEF PollAdd, entries
<1>2. no \in Devices /\ asked' \subseteq Devices
  BY <1>1 DEF DecodeInv, DecodeTypes, PollTypeOK
<1>3. /\ DecodeTypes'
      /\ \A t \in Drainers : (Busy(t)' <=> Busy(t)) /\ (Crediting(t)' <=> Crediting(t))
      /\ (\A d \in Devices : Shows(d)) => (\A d \in Devices' : Shows(d)')
  BY <1>1, <1>2, PollAlone DEF DecodeInv, DecodeTypes, PollTypeOK
<1>4. ASSUME Clean' PROVE Orderly'
  <2>1. Clean /\ Orderly
    BY <1>1, <1>4 DEF Clean, DecodeInv
  <2>2. \A d : Asked(d) => Asked(d)'
    BY <1>1 DEF Asked
  <2>3. OneOnItsWay' /\ EachOnce'
    BY <1>1, <1>3, <2>1 DEF Orderly, OneOnItsWay, EachOnce, FirstWord
  <2>4. AnswersAsked'
    BY <1>1, <1>3, <2>1, <2>2 DEF Orderly, AnswersAsked
  <2> QED BY <1>3, <2>1, <2>3, <2>4 DEF Orderly
<1> QED BY <1>3, <1>4 DEF DecodeInv

LEMMA PollArmKeeps == DecodeInv /\ PollArm => DecodeInv'
<1> SUFFICES ASSUME DecodeInv, PollArm PROVE DecodeInv'
  OBVIOUS
<1>1. /\ poll = "arm" /\ poll' = "wait" /\ waiting' = TRUE
      /\ UNCHANGED <<table, no, line, asked, job, value1, value2, valid, there, given, early>>
  BY DEF PollArm, entries
<1>2. /\ DecodeTypes'
      /\ \A t \in Drainers : (Busy(t)' <=> Busy(t)) /\ (Crediting(t)' <=> Crediting(t))
      /\ (\A d \in Devices : Shows(d)) => (\A d \in Devices' : Shows(d)')
  BY <1>1, PollAlone DEF DecodeInv, DecodeTypes, PollTypeOK
<1>3. ASSUME Clean' PROVE Orderly'
  <2>1. Clean /\ Orderly
    BY <1>1, <1>3 DEF Clean, DecodeInv
  <2> QED BY <1>1, <1>2, <2>1 DEF Orderly, OneOnItsWay, FirstWord, EachOnce, AnswersAsked, Asked
<1> QED BY <1>2, <1>3 DEF DecodeInv

LEMMA PollAnsweredKeeps == DecodeInv /\ PollAnswered => DecodeInv'
<1> SUFFICES ASSUME DecodeInv, PollAnswered PROVE DecodeInv'
  OBVIOUS
<1>1. /\ poll = "wait" /\ ~waiting /\ poll' = "next"
      /\ UNCHANGED <<table, no, waiting, line, asked, job, value1, value2, valid, there, given, early>>
  BY DEF PollAnswered, entries
<1>2. /\ DecodeTypes'
      /\ \A t \in Drainers : (Busy(t)' <=> Busy(t)) /\ (Crediting(t)' <=> Crediting(t))
      /\ (\A d \in Devices : Shows(d)) => (\A d \in Devices' : Shows(d)')
  BY <1>1, PollAlone DEF DecodeInv, DecodeTypes, PollTypeOK
<1>3. ASSUME Clean' PROVE Orderly'
  <2>1. Clean /\ Orderly
    BY <1>1, <1>3 DEF Clean, DecodeInv
  <2>2. line' = <<>> /\ \A t \in Drainers : ~Crediting(t)'
    BY <1>1, <1>2, <2>1, NothingAwaited DEF Orderly
  <2>3. EachOnce'
    BY <1>1, <1>2, <2>1, <2>2 DEF Orderly, EachOnce
  <2>4. AnswersAsked'
    BY <1>1, <1>2, <2>1, <2>2 DEF Orderly, AnswersAsked, Asked
  <2> QED BY <1>2, <2>1, <2>2, <2>3, <2>4 DEF Orderly, OneOnItsWay
<1> QED BY <1>2, <1>3 DEF DecodeInv

LEMMA PollGiveUpKeeps == DecodeInv /\ PollGiveUp => DecodeInv'
<1> SUFFICES ASSUME DecodeInv, PollGiveUp PROVE DecodeInv'
  OBVIOUS
<1>1. /\ poll = "wait" /\ poll' = "next" /\ waiting' = FALSE /\ GoOn
      /\ UNCHANGED <<table, no, line, asked, job, value1, value2, valid, there, early>>
  BY DEF PollGiveUp, entries
<1>2. /\ DecodeTypes'
      /\ \A t \in Drainers : (Busy(t)' <=> Busy(t)) /\ (Crediting(t)' <=> Crediting(t))
      /\ (\A d \in Devices : Shows(d)) => (\A d \in Devices' : Shows(d)')
  BY <1>1, PollAlone, GoOnTypes DEF DecodeInv, DecodeTypes, PollTypeOK
<1>3. ASSUME Clean' PROVE Orderly'
  <2>1. Clean /\ line' = <<>> /\ \A t \in Drainers : ~Busy(t)' /\ ~Crediting(t)'
    BY <1>1, <1>2, <1>3, NoneOutstanding DEF Clean
  <2> QED BY <1>2, <2>1 DEF DecodeInv, Orderly, OneOnItsWay, EachOnce, AnswersAsked
<1> QED BY <1>2, <1>3 DEF DecodeInv

-----------------------------------------------------------------------------
(* A thread.                                                                 *)

Jobs == [at : {"idle", "credit", "decode", "clear", "file", "more", "last"},
         of : Devices \cup {None}, to : Devices \cup {None}, filed : Nat]
Shown == [by : {"nobody", "store", "decode"}, of : Devices \cup {None}, num : Int]

(* It writes its own job. *)
LEMMA ThreadAlone ==
  ASSUME DecodeInv, NEW t \in Drainers, NEW j \in Jobs, job' = [job EXCEPT ![t] = j],
         j.at # "idle" => j.of \in Devices, j.at = "idle" => j = Idle,
         j.at = "decode" => j.to \in Devices,
         UNCHANGED <<table, no, poll, given>>, waiting' \in BOOLEAN, early' \in BOOLEAN,
         line' \in Seq(Devices), asked' \subseteq Devices,
         value1' \in [Devices -> Words], value2' \in [Devices -> Shown],
         valid' \in [Devices -> BOOLEAN], there' \in [Devices -> Nat],
         \A d \in Devices : valid'[d] => value2'[d].by # "nobody"
  PROVE  /\ DecodeTypes' /\ Devices' = Devices
         /\ job'[t] = j /\ \A u \in Drainers : u # t => job'[u] = job[u]
         /\ \A u \in Drainers : u # t => (Busy(u)' <=> Busy(u)) /\ (Crediting(u)' <=> Crediting(u))
                                       /\ (Unfiled(u)' <=> Unfiled(u))
<1>1. Devices' = Devices
  BY DEF Devices
<1>2. job \in [Drainers -> Jobs]
  BY DEF DecodeInv, DecodeTypes, PollTypeOK, Jobs
<1>3. /\ job' \in [Drainers -> Jobs] /\ job'[t] = j
      /\ \A u \in Drainers : u # t => job'[u] = job[u]
  BY <1>2
<1>4. \A u \in Drainers : u # t => (Busy(u)' <=> Busy(u)) /\ (Crediting(u)' <=> Crediting(u))
                                /\ (Unfiled(u)' <=> Unfiled(u))
  BY <1>3 DEF Busy, Crediting, Unfiled
<1>5. \A u \in Drainers : /\ Busy(u)' => job'[u].of \in Devices
                          /\ ~Busy(u)' => job'[u] = Idle
                          /\ job'[u].at = "decode" => job'[u].to \in Devices
  <2> TAKE u \in Drainers
  <2>1. CASE u = t
    BY <1>3, <2>1 DEF Busy
  <2>2. CASE u # t
    BY <1>3, <1>4, <2>2 DEF DecodeInv, DecodeTypes
  <2> QED BY <2>1, <2>2
<1>6. \A d \in Devices : value2'[d].by \in {"nobody", "store", "decode"}
  BY DEF Shown
<1>7. PollTypeOK'
  BY <1>1, <1>3, <1>6 DEF DecodeInv, DecodeTypes, PollTypeOK, Jobs
<1>8. DecodeTypes'
  BY <1>1, <1>5, <1>7 DEF DecodeInv, DecodeTypes, Shown
<1> QED BY <1>1, <1>3, <1>4, <1>8

(* An entry left alone goes on to show what it did, while the answers of its  *)
(* device that are yet to be filed are.                                       *)
LEMMA ShowsKept ==
  ASSUME NEW d, table' = table, value2'[d] = value2[d], valid'[d] = valid[d],
         \A u \in Drainers : Unfiled(u) /\ job[u].of = d => Unfiled(u)' /\ job'[u].of = d
  PROVE  Shows(d) => Shows(d)'
BY DEF Shows, FirstWord

LEMMA InHand ==
  ASSUME DecodeInv, NEW t \in Drainers, job[t].at # "idle"
  PROVE  /\ job[t].of \in Devices /\ job[t].of \in Int /\ job[t].of > 0 /\ no \in Int
         /\ job[t] = [at |-> job[t].at, of |-> job[t].of, to |-> job[t].to, filed |-> job[t].filed]
         /\ job[t].to \in Devices \cup {None} /\ job[t].filed \in Nat /\ job \in [Drainers -> Jobs]
         /\ FirstWord(job[t].of) \in Words
<1>1. job \in [Drainers -> Jobs]
  BY DEF DecodeInv, DecodeTypes, PollTypeOK, Jobs
<1>2. job[t].of \in Devices /\ no \in Int
  BY DEF DecodeInv, DecodeTypes, PollTypeOK, Busy
<1>3. job[t] \in Jobs
  BY <1>1
<1> QED BY <1>1, <1>2, <1>3, TheDevices DEF DecodeInv, DecodeTypes, Jobs

LEMMA NextJob ==
  ASSUME NEW j \in Jobs, NEW a
  PROVE  [j EXCEPT !.at = a] = [at |-> a, of |-> j.of, to |-> j.to, filed |-> j.filed]
BY DEF Jobs

LEMMA NextWord ==
  ASSUME NEW a, NEW x, NEW y, NEW m, NEW n
  PROVE  [[at |-> a, of |-> x, to |-> y, filed |-> m] EXCEPT !.filed = n]
           = [at |-> a, of |-> x, to |-> y, filed |-> n]
OBVIOUS

LEMMA Kept ==
  ASSUME DecodeInv
  PROVE  /\ waiting \in BOOLEAN /\ early \in BOOLEAN /\ line \in Seq(Devices) /\ asked \subseteq Devices
         /\ value1 \in [Devices -> Words] /\ value2 \in [Devices -> Shown]
         /\ valid \in [Devices -> BOOLEAN] /\ there \in [Devices -> Nat]
         /\ \A d \in Devices : valid[d] => value2[d].by # "nobody"
BY DEF DecodeInv, DecodeTypes, PollTypeOK, Shown

LEMMA TakeKeeps == ASSUME DecodeInv, NEW t \in Drainers, Take(t) PROVE DecodeInv'
<1> DEFINE j == [at |-> "credit", of |-> Head(line), to |-> None, filed |-> 0]
<1>1. /\ job[t] = Idle /\ line # <<>> /\ job' = [job EXCEPT ![t] = j] /\ line' = Tail(line)
      /\ UNCHANGED <<table, no, poll, waiting, asked, value1, value2, valid, there, given, early>>
  BY DEF Take, entries
<1>2. Head(line) \in Devices /\ Tail(line) \in Seq(Devices)
  BY <1>1, Kept, HeadTailProperties
<1>3. j \in Jobs /\ j.at = "credit" /\ j.of = Head(line)
  BY <1>2 DEF Jobs
<1> HIDE DEF j
<1>4. /\ DecodeTypes' /\ Devices' = Devices
      /\ job'[t] = j /\ \A u \in Drainers : u # t => job'[u] = job[u]
      /\ \A u \in Drainers : u # t => (Busy(u)' <=> Busy(u)) /\ (Crediting(u)' <=> Crediting(u))
                                    /\ (Unfiled(u)' <=> Unfiled(u))
  BY <1>1, <1>2, <1>3, Kept, ThreadAlone
<1>5. ~Busy(t) /\ Busy(t)' /\ Crediting(t)' /\ ~Unfiled(t)
  BY <1>1, <1>3, <1>4 DEF Busy, Crediting, Unfiled, Idle
<1>6. ASSUME Clean' PROVE Orderly'
  <2>1. Clean /\ Orderly
    BY <1>1, <1>6 DEF Clean, DecodeInv
  <2>2. line = <<no>> /\ Head(line) = no /\ Tail(line) = <<>>
    <3>1. line = <<no>>
      BY <1>1, <2>1 DEF Orderly, OneOnItsWay
    <3>2. Len(<<no>>) = 1 /\ <<no>> \in Seq({no}) /\ <<no>>[1] = no
      OBVIOUS
    <3>3. Tail(<<no>>) \in Seq({no}) /\ Len(Tail(<<no>>)) = 0
      BY <3>2, HeadTailProperties
    <3> QED BY <3>1, <3>2, <3>3, EmptySeq
  <2>3. \A u \in Drainers : ~Crediting(u)
    BY <1>1, <2>1 DEF Orderly, OneOnItsWay
  <2>4. OneOnItsWay'
    BY <1>1, <1>3, <1>4, <2>1, <2>2, <2>3 DEF Orderly, OneOnItsWay
  <2>5. \A u \in Drainers : Busy(u) => job[u].of < no /\ job[u].of \in Int
    BY <1>1, <2>1, TheDevices DEF Orderly, EachOnce, DecodeInv, DecodeTypes
  <2>6. poll # "send" /\ no \in Int
    BY <1>1, <2>1 DEF Orderly, OneOnItsWay, DecodeInv, DecodeTypes, PollTypeOK
  <2>7. EachOnce'
    <3>1. \A u \in Drainers : Busy(u)' => u = t \/ (Busy(u) /\ job'[u] = job[u])
      BY <1>4
    <3>2. job'[t].of = no /\ line' = <<>> /\ no' = no /\ poll' # "send"
      BY <1>1, <1>3, <1>4, <2>2, <2>6
    <3>3. \A u \in Drainers : Busy(u)' => u = t \/ (Busy(u) /\ job'[u] = job[u] /\ job'[u].of < no)
      BY <2>5, <3>1
    <3>4. \A u \in Drainers : Busy(u)' => job'[u].of <= no' /\ (u = t <=> job'[u].of = no)
      BY <2>5, <2>6, <3>1, <3>2
    <3>5. \A u, v \in Drainers : Busy(u)' /\ Busy(v)' /\ job'[u].of = job'[v].of => u = v
      BY <2>1, <3>1, <3>4 DEF Orderly, EachOnce
    <3> QED BY <3>2, <3>4, <3>5 DEF EachOnce
  <2>8. AnswersAsked'
    BY <1>1, <1>3, <1>4, <2>1, <2>2 DEF Orderly, AnswersAsked, Asked
  <2>9. \A d \in Devices' : Shows(d)'
    BY <1>1, <1>4, <1>5, <2>1, ShowsKept DEF Orderly
  <2> QED BY <2>4, <2>7, <2>8, <2>9 DEF Orderly
<1> QED BY <1>4, <1>6 DEF DecodeInv

(* A thread that goes on with its answer leaves the order of the others.     *)
LEMMA SameOrder ==
  ASSUME DecodeInv, NEW t \in Drainers, Busy(t), Busy(t)', job'[t].of = job[t].of,
         \A u \in Drainers : u # t => job'[u] = job[u] /\ (Busy(u)' <=> Busy(u)),
         UNCHANGED <<no, poll, line, asked>>, EachOnce, AnswersAsked
  PROVE  EachOnce' /\ AnswersAsked'
<1>1. \A u \in Drainers : job'[u].of = job[u].of /\ (Busy(u)' <=> Busy(u))
  <2> TAKE u \in Drainers
  <2>1. CASE u = t
    BY <2>1
  <2>2. CASE u # t
    BY <2>2
  <2> QED BY <2>1, <2>2
<1> QED BY <1>1 DEF EachOnce, AnswersAsked, Asked

LEMMA CreditKeeps == ASSUME DecodeInv, NEW t \in Drainers, Credit(t) PROVE DecodeInv'
<1> DEFINE j == IF no > 0 THEN [at |-> "decode", of |-> job[t].of, to |-> no, filed |-> job[t].filed]
                          ELSE [at |-> "file", of |-> job[t].of, to |-> job[t].to, filed |-> job[t].filed]
<1>1. /\ job[t].at = "credit"
      /\ UNCHANGED <<table, no, poll, waiting, line, asked, value2, valid, there, given, early>>
      /\ IF no > 0 THEN value1' = [value1 EXCEPT ![no] = FirstWord(job[t].of)] ELSE value1' = value1
  BY DEF Credit
<1>2. /\ job[t].of \in Devices /\ job[t].of \in Int /\ job[t].of > 0 /\ no \in Int
      /\ job[t] = [at |-> "credit", of |-> job[t].of, to |-> job[t].to, filed |-> job[t].filed]
      /\ job[t].to \in Devices \cup {None} /\ job[t].filed \in Nat /\ job \in [Drainers -> Jobs]
      /\ FirstWord(job[t].of) \in Words
  BY <1>1, InHand
<1>3. job' = [job EXCEPT ![t] = j]
  BY <1>2 DEF Credit
<1>4. no > 0 => no \in Devices
  BY TheDevices DEF DecodeInv, DecodeTypes, PollTypeOK
<1>5. /\ j \in Jobs /\ j.of = job[t].of /\ j.at \in {"decode", "file"}
      /\ j.at = "decode" <=> no > 0
      /\ j.at = "decode" => j.to = no
  BY <1>2, <1>4 DEF Jobs
<1> HIDE DEF j
<1>6. value1' \in [Devices -> Words]
  BY <1>1, <1>2, <1>4, Kept
<1>7. /\ DecodeTypes' /\ Devices' = Devices
      /\ job'[t] = j /\ \A u \in Drainers : u # t => job'[u] = job[u]
      /\ \A u \in Drainers : u # t => (Busy(u)' <=> Busy(u)) /\ (Crediting(u)' <=> Crediting(u))
                                    /\ (Unfiled(u)' <=> Unfiled(u))
  BY <1>1, <1>2, <1>3, <1>4, <1>5, <1>6, Kept, ThreadAlone
<1>8. Busy(t) /\ Crediting(t) /\ Busy(t)' /\ Unfiled(t)'
  BY <1>1, <1>5, <1>7 DEF Busy, Crediting, Unfiled
<1>9. ASSUME Clean' PROVE Orderly'
  <2>1. Clean /\ Orderly
    BY <1>1, <1>9 DEF Clean, DecodeInv
  <2>2. line = <<>> /\ job[t].of = no /\ \A u \in Drainers : Crediting(u) => u = t
    BY <1>8, <2>1 DEF Orderly, OneOnItsWay
  <2>3. no > 0 /\ no \in Devices /\ value1'[no] = FirstWord(no)
    BY <1>1, <1>2, <1>4, <2>2, Kept
  <2>4. OneOnItsWay'
    BY <1>1, <1>5, <1>7, <1>8, <2>1, <2>2, <2>3 DEF Orderly, OneOnItsWay, FirstWord
  <2>5. EachOnce' /\ AnswersAsked'
    BY <1>1, <1>5, <1>7, <1>8, <2>1, SameOrder DEF Orderly
  <2>6. \A d \in Devices' : Shows(d)'
    BY <1>1, <1>5, <1>7, <1>8, <2>1, ShowsKept DEF Orderly
  <2> QED BY <2>4, <2>5, <2>6 DEF Orderly
<1> QED BY <1>7, <1>9 DEF DecodeInv

LEMMA DecodeKeeps == ASSUME DecodeInv, NEW t \in Drainers, Decode(t) PROVE DecodeInv'
<1> DEFINE j == [at |-> "clear", of |-> job[t].of, to |-> job[t].to, filed |-> job[t].filed]
           d == job[t].to
           type == table[d].type
<1>1. /\ job[t].at = "decode"
      /\ UNCHANGED <<table, no, poll, waiting, line, asked, valid, there, given, early>>
      /\ type \in {0, 6} => UNCHANGED <<value1, value2>>
      /\ type \notin {0, 6} =>
           /\ value2' = [value2 EXCEPT ![d] = Decoded(job[t].of, Hundredths(type, value1[d]))]
           /\ value1' = [value1 EXCEPT ![d] = Remainder(type, value1[d])]
  BY DEF Decode
<1>2. /\ job[t].of \in Devices
      /\ job[t] = [at |-> "decode", of |-> job[t].of, to |-> job[t].to, filed |-> job[t].filed]
      /\ job[t].to \in Devices \cup {None} /\ job[t].filed \in Nat /\ job \in [Drainers -> Jobs]
  BY <1>1, InHand
<1>3. job' = [job EXCEPT ![t] = j] /\ j \in Jobs /\ j.of = job[t].of /\ j.at = "clear"
  <2>1. [job[t] EXCEPT !.at = "clear"] = j
    BY <1>2, NextJob
  <2>2. job' = [job EXCEPT ![t] = [job[t] EXCEPT !.at = "clear"]]
    BY <1>2 DEF Decode
  <2>3. j \in Jobs /\ j.of = job[t].of /\ j.at = "clear"
    BY <1>2 DEF Jobs
  <2> QED BY <2>1, <2>2, <2>3
<1>4. d \in Devices /\ type \in DeviceTypes /\ value1[d] \in Words
  BY <1>1, Kept, TheDevices DEF DecodeInv, DecodeTypes
<1>5. type \notin {0, 6} => /\ Hundredths(type, value1[d]) \in Int
                  /\ Hundredths(type, value1[d]) = Meaning(type, value1[d])
                  /\ Remainder(type, value1[d]) \in Words
  BY <1>4, MeaningIs
<1> DEFINE x == Decoded(job[t].of, Hundredths(type, value1[d]))
<1>6. x.by = "decode" /\ (type \notin {0, 6} => x \in Shown)
  BY <1>2, <1>5 DEF Decoded, Shown
<1>7. \A n \in Int : Decoded(job[t].of, n).by = "decode"
  BY DEF Decoded
<1> HIDE DEF j, type
<1>8. value1' \in [Devices -> Words]
  BY <1>1, <1>4, <1>5, Kept
<1>9. /\ value2' \in [Devices -> Shown]
      /\ \A e \in Devices : e # d => value2'[e] = value2[e]
      /\ type \notin {0, 6} => value2'[d] = x
      /\ type \in {0, 6} => value2'[d] = value2[d]
  BY <1>1, <1>4, <1>6, Kept
<1>10. \A e \in Devices : valid'[e] => value2'[e].by # "nobody"
  BY <1>1, <1>6, <1>9, Kept
<1>11. /\ DecodeTypes' /\ Devices' = Devices
       /\ job'[t] = j /\ \A u \in Drainers : u # t => job'[u] = job[u]
       /\ \A u \in Drainers : u # t => (Busy(u)' <=> Busy(u)) /\ (Crediting(u)' <=> Crediting(u))
                                    /\ (Unfiled(u)' <=> Unfiled(u))
  BY <1>1, <1>2, <1>3, <1>8, <1>9, <1>10, Kept, ThreadAlone
<1>12. Busy(t) /\ Crediting(t) /\ Busy(t)' /\ Unfiled(t)'
  BY <1>1, <1>3, <1>11 DEF Busy, Crediting, Unfiled
<1>13. ASSUME Clean' PROVE Orderly'
  <2>1. Clean /\ Orderly
    BY <1>1, <1>13 DEF Clean, DecodeInv
  <2>2. /\ line = <<>> /\ job[t].of = no /\ \A u \in Drainers : Crediting(u) => u = t
        /\ d = no /\ value1[no] = FirstWord(no)
    BY <1>1, <1>12, <2>1 DEF Orderly, OneOnItsWay
  <2>3. OneOnItsWay'
    BY <1>1, <1>3, <1>11, <1>12, <2>1, <2>2 DEF Orderly, OneOnItsWay
  <2>4. EachOnce' /\ AnswersAsked'
    BY <1>1, <1>3, <1>11, <1>12, <2>1, SameOrder DEF Orderly
  <2>5. ASSUME NEW e \in Devices PROVE Shows(e)'
    <3>1. CASE e # d \/ type \in {0, 6}
      BY <1>1, <1>3, <1>9, <1>11, <1>12, <2>1, <3>1, ShowsKept DEF Orderly
    <3>2. CASE e = d /\ type \notin {0, 6}
      <4>1. value2'[d] = Decoded(no, Meaning(type, FirstWord(no)))
        BY <1>5, <1>9, <2>2, <3>2
      <4>2. type = table'[e].type /\ FirstWord(e)' = FirstWord(no) /\ e = no
        BY <1>1, <2>2, <3>2 DEF type, FirstWord
      <4>3. value2'[e] = Decoded(e, Meaning(table'[e].type, FirstWord(e)'))
        BY <3>2, <4>1, <4>2
      <4>4. job'[t].of = e /\ Unfiled(t)'
        BY <1>3, <1>11, <1>12, <2>2, <3>2
      <4> QED BY <4>3, <4>4 DEF Shows
    <3> QED BY <3>1, <3>2
  <2> QED BY <1>11, <2>3, <2>4, <2>5 DEF Orderly
<1> QED BY <1>11, <1>13 DEF DecodeInv

LEMMA ClearKeeps == ASSUME DecodeInv, NEW t \in Drainers, Clear(t) PROVE DecodeInv'
<1> DEFINE j == [at |-> "file", of |-> job[t].of, to |-> job[t].to, filed |-> job[t].filed]
<1>1. /\ job[t].at = "clear" /\ waiting' = FALSE
      /\ UNCHANGED <<table, no, poll, line, asked, value1, value2, valid, there, given, early>>
  BY DEF Clear, entries
<1>2. /\ job[t].of \in Devices
      /\ job[t] = [at |-> "clear", of |-> job[t].of, to |-> job[t].to, filed |-> job[t].filed]
      /\ job[t].to \in Devices \cup {None} /\ job[t].filed \in Nat /\ job \in [Drainers -> Jobs]
  BY <1>1, InHand
<1>3. job' = [job EXCEPT ![t] = j] /\ j \in Jobs /\ j.of = job[t].of /\ j.at = "file"
  <2>1. [job[t] EXCEPT !.at = "file"] = j
    BY <1>2, NextJob
  <2>2. job' = [job EXCEPT ![t] = [job[t] EXCEPT !.at = "file"]]
    BY <1>2 DEF Clear
  <2>3. j \in Jobs /\ j.of = job[t].of /\ j.at = "file"
    BY <1>2 DEF Jobs
  <2> QED BY <2>1, <2>2, <2>3
<1> HIDE DEF j
<1>4. /\ DecodeTypes' /\ Devices' = Devices
      /\ job'[t] = j /\ \A u \in Drainers : u # t => job'[u] = job[u]
      /\ \A u \in Drainers : u # t => (Busy(u)' <=> Busy(u)) /\ (Crediting(u)' <=> Crediting(u))
                                    /\ (Unfiled(u)' <=> Unfiled(u))
  BY <1>1, <1>2, <1>3, Kept, ThreadAlone
<1>5. Busy(t) /\ Crediting(t) /\ Busy(t)' /\ ~Crediting(t)' /\ Unfiled(t)'
  BY <1>1, <1>3, <1>4 DEF Busy, Crediting, Unfiled
<1>6. ASSUME Clean' PROVE Orderly'
  <2>1. Clean /\ Orderly
    BY <1>1, <1>6 DEF Clean, DecodeInv
  <2>2. line = <<>> /\ \A u \in Drainers : Crediting(u) => u = t
    BY <1>5, <2>1 DEF Orderly, OneOnItsWay
  <2>3. \A u \in Drainers : ~Crediting(u)'
    BY <1>4, <1>5, <2>2
  <2>4. OneOnItsWay'
    BY <1>1, <2>2, <2>3 DEF OneOnItsWay
  <2>5. EachOnce' /\ AnswersAsked'
    BY <1>1, <1>3, <1>4, <1>5, <2>1, SameOrder DEF Orderly
  <2>6. \A d \in Devices' : Shows(d)'
    BY <1>1, <1>3, <1>4, <1>5, <2>1, ShowsKept DEF Orderly
  <2> QED BY <2>4, <2>5, <2>6 DEF Orderly
<1> QED BY <1>4, <1>6 DEF DecodeInv

LEMMA FileKeeps == ASSUME DecodeInv, NEW t \in Drainers, File(t) PROVE DecodeInv'
<1> DEFINE d == job[t].of
           e == table[d]
           n == job[t].filed + 1
           held == IF there[d] > n THEN there[d] ELSE n
           whole == MakesValue(e.type, e.words, held)
           place == IF n < Len(e.words) THEN "more" ELSE "last"
           j == [at |-> place, of |-> job[t].of, to |-> job[t].to, filed |-> n]
<1>1. /\ job[t].at \in {"file", "more"}
      /\ UNCHANGED <<table, no, poll, waiting, line, asked, given, early>>
      /\ there' = [there EXCEPT ![d] = held]
      /\ value1' = [value1 EXCEPT ![d] = FirstWord(d)]
      /\ value2' = IF whole \/ e.type = 2 THEN [value2 EXCEPT ![d] = Stored(d)] ELSE value2
      /\ valid' = [valid EXCEPT ![d] = whole]
  BY DEF File
<1>2. /\ d \in Devices /\ FirstWord(d) \in Words
      /\ job[t] = [at |-> job[t].at, of |-> job[t].of, to |-> job[t].to, filed |-> job[t].filed]
      /\ job[t].to \in Devices \cup {None} /\ job[t].filed \in Nat /\ job \in [Drainers -> Jobs]
  BY <1>1, InHand
<1>3. n \in Nat /\ held \in Nat /\ place \in {"more", "last"} /\ whole \in BOOLEAN
  <2>1. there[d] \in Nat
    BY <1>2, Kept
  <2>2. n \in Nat /\ held \in Nat /\ place \in {"more", "last"}
    BY <1>2, <2>1
  <2>3. whole \in BOOLEAN
    BY DEF MakesValue
  <2> QED BY <2>2, <2>3
<1>4. job' = [job EXCEPT ![t] = j]
  <2>1. [[job[t] EXCEPT !.at = place] EXCEPT !.filed = n] = j
    <3>1. job[t] \in Jobs
      BY <1>2
    <3> HIDE DEF place, n
    <3>2. [job[t] EXCEPT !.at = place]
            = [at |-> place, of |-> job[t].of, to |-> job[t].to, filed |-> job[t].filed]
      BY <3>1, NextJob
    <3>3. [[at |-> place, of |-> job[t].of, to |-> job[t].to, filed |-> job[t].filed] EXCEPT !.filed = n] = j
      BY NextWord
    <3> HIDE DEF j
    <3> QED BY <3>2, <3>3
  <2>2. job' = [job EXCEPT ![t].at = place, ![t].filed = n]
    BY DEF File
  <2> QED BY <1>2, <2>1, <2>2
<1>5. j \in Jobs /\ j.of = d /\ j.at = place
  BY <1>2, <1>3 DEF Jobs
<1>6. Stored(d) \in Shown /\ Stored(d).by = "store"
  BY <1>2 DEF Stored, Shown
<1> DEFINE kept == ~whole /\ e.type # 2
<1>7. /\ value2' = IF kept THEN value2 ELSE [value2 EXCEPT ![d] = Stored(d)]
      /\ kept => ~whole
  BY <1>1
<1> HIDE DEF j, e, n, held, whole, place, kept
<1>8. /\ value1' \in [Devices -> Words] /\ valid' \in [Devices -> BOOLEAN]
      /\ there' \in [Devices -> Nat]
  BY <1>1, <1>2, <1>3, Kept
<1>9. /\ value2' \in [Devices -> Shown]
      /\ value2'[d] = IF kept THEN value2[d] ELSE Stored(d)
      /\ \A x \in Devices : x # d => value2'[x] = value2[x] /\ valid'[x] = valid[x]
      /\ valid'[d] = whole
  BY <1>1, <1>2, <1>3, <1>6, <1>7, Kept
<1>10. \A x \in Devices : valid'[x] => value2'[x].by # "nobody"
  BY <1>6, <1>7, <1>9, Kept
<1>11. /\ DecodeTypes' /\ Devices' = Devices
       /\ job'[t] = j /\ \A u \in Drainers : u # t => job'[u] = job[u]
       /\ \A u \in Drainers : u # t => (Busy(u)' <=> Busy(u)) /\ (Crediting(u)' <=> Crediting(u))
                                     /\ (Unfiled(u)' <=> Unfiled(u))
  BY <1>1, <1>2, <1>3, <1>4, <1>5, <1>8, <1>9, <1>10, Kept, ThreadAlone
<1>12. Busy(t) /\ ~Crediting(t) /\ Busy(t)' /\ ~Crediting(t)'
  BY <1>1, <1>3, <1>5, <1>11 DEF Busy, Crediting
<1>13. ASSUME Clean' PROVE Orderly'
  <2>1. Clean /\ Orderly
    BY <1>1, <1>13 DEF Clean, DecodeInv
  <2>2. ASSUME NEW u \in Drainers, Crediting(u) PROVE value1'[no] = value1[no]
    <3>1. u # t /\ Busy(u) /\ job[u].of = no
      BY <1>12, <2>1, <2>2 DEF Orderly, OneOnItsWay, Crediting, Busy
    <3>2. no # d
      BY <1>12, <2>1, <3>1 DEF Orderly, EachOnce
    <3> QED BY <1>1, <3>2, Kept
  <2>3. OneOnItsWay'
    BY <1>1, <1>11, <1>12, <2>1, <2>2 DEF Orderly, OneOnItsWay, FirstWord
  <2>4. EachOnce' /\ AnswersAsked'
    BY <1>1, <1>5, <1>11, <1>12, <2>1, SameOrder DEF Orderly
  <2>5. ASSUME NEW x \in Devices PROVE Shows(x)'
    <3>1. CASE x # d
      BY <1>1, <1>9, <1>11, <2>1, <3>1, ShowsKept DEF Orderly
    <3>2. CASE x = d /\ kept
      <4>1. value2'[x] = value2[x] /\ ~valid'[x] /\ table' = table
        BY <1>1, <1>7, <1>9, <3>2
      <4> QED BY <2>1, <4>1 DEF Orderly, Shows, FirstWord
    <3>3. CASE x = d /\ ~kept
      BY <1>9, <3>3 DEF Shows
    <3> QED BY <3>1, <3>2, <3>3
  <2> QED BY <1>11, <2>3, <2>4, <2>5 DEF Orderly
<1> QED BY <1>11, <1>13 DEF DecodeInv

LEMMA ReleaseKeeps == ASSUME DecodeInv, NEW t \in Drainers, Release(t) PROVE DecodeInv'
<1> DEFINE d == job[t].of
<1>1. /\ job[t].at = "last" /\ job' = [job EXCEPT ![t] = Idle] /\ asked' = asked \ {d}
      /\ UNCHANGED <<table, no, poll, waiting, line, value1, value2, valid, there, given, early>>
  BY DEF Release, entries
<1>2. d \in Devices /\ Idle \in Jobs /\ Idle.at = "idle"
  BY <1>1, InHand DEF Idle, Jobs
<1>3. asked' \subseteq Devices
  BY <1>1, Kept
<1>4. /\ DecodeTypes' /\ Devices' = Devices
      /\ job'[t] = Idle /\ \A u \in Drainers : u # t => job'[u] = job[u]
      /\ \A u \in Drainers : u # t => (Busy(u)' <=> Busy(u)) /\ (Crediting(u)' <=> Crediting(u))
                                    /\ (Unfiled(u)' <=> Unfiled(u))
  BY <1>1, <1>2, <1>3, Kept, ThreadAlone
<1>5. Busy(t) /\ ~Crediting(t) /\ ~Unfiled(t) /\ ~Busy(t)' /\ ~Crediting(t)'
  BY <1>1, <1>2, <1>4 DEF Busy, Crediting, Unfiled
<1>6. ASSUME Clean' PROVE Orderly'
  <2>1. Clean /\ Orderly
    BY <1>1, <1>6 DEF Clean, DecodeInv
  <2>2. \A u \in Drainers : Busy(u)' => u # t /\ Busy(u) /\ job'[u] = job[u] /\ job[u].of # d
    BY <1>4, <1>5, <2>1 DEF Orderly, EachOnce
  <2>3. OneOnItsWay'
    BY <1>1, <1>4, <1>5, <2>1 DEF Orderly, OneOnItsWay, FirstWord
  <2>4. EachOnce'
    BY <1>1, <2>1, <2>2 DEF Orderly, EachOnce
  <2>5. \A x : x # d /\ Asked(x) => Asked(x)'
    BY <1>1 DEF Asked
  <2>6. line # <<>> => no # d
    <3>1. job[t].of \in Int /\ no \in Int
      BY <1>1, InHand
    <3>2. line # <<>> => job[t].of < no
      BY <1>5, <2>1 DEF Orderly, EachOnce
    <3> QED BY <3>1, <3>2
  <2>7. AnswersAsked'
    BY <1>1, <2>1, <2>2, <2>5, <2>6 DEF Orderly, AnswersAsked
  <2>8. \A x \in Devices' : Shows(x)'
    BY <1>1, <1>4, <1>5, <2>1, ShowsKept DEF Orderly
  <2> QED BY <2>3, <2>4, <2>7, <2>8 DEF Orderly
<1> QED BY <1>4, <1>6 DEF DecodeInv

(* An answer that nobody asked for, as far as the table knows, was early.     *)
LEMMA FileNowhereKeeps == ASSUME DecodeInv, NEW t \in Drainers, FileNowhere(t) PROVE DecodeInv'
<1>1. /\ job[t].at = "file" /\ job[t].of \notin asked /\ job' = [job EXCEPT ![t] = Idle]
      /\ early' = (early \/ (poll = "add" /\ no = job[t].of))
      /\ UNCHANGED <<table, no, poll, waiting, line, asked, value1, value2, valid, there, given>>
  BY DEF FileNowhere, entries
<1>2. Idle \in Jobs /\ Idle.at = "idle" /\ Busy(t)
  BY <1>1 DEF Idle, Jobs, Busy
<1>3. early' \in BOOLEAN
  BY <1>1, Kept
<1>4. DecodeTypes'
  BY <1>1, <1>2, <1>3, Kept, ThreadAlone
<1>5. ~Clean'
  <2> SUFFICES ASSUME Clean' PROVE FALSE
    OBVIOUS
  <2>1. Clean /\ ~(poll = "add" /\ no = job[t].of)
    BY <1>1 DEF Clean
  <2> QED BY <1>1, <1>2, <2>1 DEF DecodeInv, Orderly, AnswersAsked, Asked
<1> QED BY <1>4, <1>5 DEF DecodeInv

LEMMA DecodeNext == DecodeInv /\ [PollNext]_pollVars => DecodeInv'
<1> SUFFICES ASSUME DecodeInv, [PollNext]_pollVars PROVE DecodeInv'
  OBVIOUS
<1>1. CASE UNCHANGED pollVars
  <2>1. UNCHANGED <<table, no, poll, waiting, line, asked, job, value1, value2, valid, there, given, early>>
    BY <1>1 DEF pollVars, entries
  <2>2. /\ DecodeTypes'
        /\ \A t \in Drainers : (Busy(t)' <=> Busy(t)) /\ (Crediting(t)' <=> Crediting(t))
        /\ (\A d \in Devices : Shows(d)) => (\A d \in Devices' : Shows(d)')
    BY <2>1, PollAlone DEF DecodeInv, DecodeTypes, PollTypeOK
  <2> QED BY <2>1, <2>2 DEF DecodeInv, Clean, Orderly, OneOnItsWay, FirstWord, EachOnce, AnswersAsked, Asked
<1>2. CASE PollStep
  BY <1>2, PollBeginKeeps, PollDeviceKeeps, PollEndKeeps, PollSendKeeps, PollAddKeeps, PollArmKeeps,
     PollAnsweredKeeps, PollGiveUpKeeps DEF PollStep
<1>3. ASSUME NEW t \in Drainers, Handle(t) PROVE DecodeInv'
  BY <1>3, TakeKeeps, CreditKeeps, DecodeKeeps, ClearKeeps, FileKeeps, ReleaseKeeps,
     FileNowhereKeeps DEF Handle
<1> QED BY <1>1, <1>2, <1>3 DEF PollNext

(* While the poll has waited for every answer that came, an entry shows what  *)
(* its own device answered, and a valid one shows a number (on_uart_2_read):  *)
(* for every table of devices and any number of threads.                      *)
THEOREM OwnIsShown == PollSpec => []ShownIsOwn
<1>1. DecodeInv => ShownIsOwn
  BY DEF DecodeInv, DecodeTypes, Clean, Orderly, Shows, ShownIsOwn
<1> QED BY <1>1, DecodeInit, DecodeNext, PTL DEF PollSpec

-----------------------------------------------------------------------------
(* IniFile.                                                                  *)

Places == [at : {"idle", "line", "match", "use"}, key : Keys \cup {Nil},
           pos : 0..Len(Lines), name : Names \cup {Nil}, inside : BOOLEAN, crossed : BOOLEAN]
Writing == [at : {"idle", "lock", "open", "truncate", "write"}, buf : Seq(Line)]

(* The file at any moment, and the buffer it is written from: a beginning of  *)
(* what the user wrote, but for the values.                                   *)
Like(f) == f \in Seq(Line) /\ Len(f) <= Len(Lines) /\ \A i \in 1..Len(f) : f[i].key = Lines[i]
WrittenBy(f) ==
  f = AsWritten \/ \E i \in Found(AsWritten, Written), v \in 1..puts : f = Version(i, v)

DiskKept ==
  /\ put \in Writing /\ Like(disk) /\ Like(put.buf)
  /\ put.at # "idle" => puts > 0
  /\ put.at = "write" => Len(disk) <= Len(put.buf) /\ \A i \in 1..Len(disk) : disk[i] = put.buf[i]
  /\ ~damaged => /\ put.at # "write" => WrittenBy(disk)
                 /\ put.at \in {"truncate", "write"} => WrittenBy(put.buf)

(* The lines a read has passed: a title sets `inside', and a line that passes *)
(* for the key's had no title above it.                                       *)
Scanned(g, p) ==
  /\ \A i \in 1..p : /\ Titles(disk[i].key, g.key) => g.inside
                     /\ Matches(disk[i].key, g.key) => \A j \in 1..(i - 1) : ~Titles(disk[j].key, g.key)
  /\ g.inside => \E i \in 1..p : Titles(disk[i].key, g.key)

(* A read that nobody crossed has its own line in sLine.                      *)
Right(g) ==
  g.at # "idle" =>
    /\ g.key \in Keys
    /\ g.at # "line" => sLine \in Line
    /\ g.crossed \/ /\ g.pos <= Len(disk)
                    /\ g.at = "line" => Scanned(g, g.pos)
                    /\ g.at # "line" => g.pos > 0 /\ sLine = disk[g.pos]
                    /\ g.at # "line" => Scanned(g, g.pos - 1)
                    /\ g.at = "use" => g.inside /\ sLine.key = g.name /\ Matches(sLine.key, g.key)

Reads == \A t \in Threads : Right(get[t]) /\ (get[t].at # "idle" => todo[t] # <<>>)

FileInv == FileTypeOK /\ DiskKept /\ Reads

LEMMA TheLines ==
  /\ Len(Lines) \in Nat /\ DOMAIN Lines = 1..Len(Lines) /\ \A i \in 1..Len(Lines) : Lines[i] \in Names
  /\ Written \in Keys /\ Polled \in Keys /\ Writer \in Threads /\ Poller \in Threads
  /\ Wanted \in [Threads -> Seq(Keys)] /\ MaxPuts \in Nat /\ MaxCrashes \in Nat
  /\ Nil \notin Keys /\ Keys \subseteq Names
  /\ \A i, j \in 1..Len(Lines) : Lines[i] \in Keys /\ Lines[i] = Lines[j] => i = j
<1>1. Len(Lines) \in Nat /\ DOMAIN Lines = 1..Len(Lines)
  BY LinesAssumption, LenProperties
<1>2. \A i \in 1..Len(Lines) : Lines[i] \in Names
  BY LinesAssumption, ElementOfSeq
<1>3. Nil \notin Keys /\ Keys \subseteq Names
  BY LinesAssumption
<1>4. \A i, j \in 1..Len(Lines) : Lines[i] \in Keys /\ Lines[i] = Lines[j] => i = j
  BY <1>1, LinesAssumption
<1>5. Written \in Keys /\ Polled \in Keys /\ Wanted \in [Threads -> Seq(Keys)]
  BY WantedAssumption
<1>6. Writer \in Threads /\ Poller \in Threads
  BY ThreadsAssumption
<1>7. MaxPuts \in Nat /\ MaxCrashes \in Nat
  BY BoundsAssumption
<1> QED BY <1>1, <1>2, <1>3, <1>4, <1>5, <1>6, <1>7

LEMMA ValuesAre == /\ First \in Values /\ Missing \in Values /\ Junk \in Values
                   /\ \A n \in 1..MaxPuts : n \in Values
BY DEF Values

LEMMA AsWrittenIs ==
  /\ Like(AsWritten) /\ Len(AsWritten) = Len(Lines) /\ DOMAIN AsWritten = 1..Len(Lines)
  /\ \A n \in 1..Len(Lines) : AsWritten[n] = [key |-> Lines[n], val |-> First]
<1>1. \A n \in 1..Len(Lines) : [key |-> Lines[n], val |-> First] \in Line
  BY TheLines, ValuesAre DEF Line
<1>2. /\ AsWritten \in [1..Len(Lines) -> Line] /\ DOMAIN AsWritten = 1..Len(Lines)
      /\ \A n \in 1..Len(Lines) : AsWritten[n] = [key |-> Lines[n], val |-> First]
  BY <1>1, TheLines DEF AsWritten
<1> HIDE DEF AsWritten
<1>3. AsWritten \in Seq(Line) /\ Len(AsWritten) = Len(Lines)
  BY <1>2, TheLines, SeqDef, LenProperties
<1>4. \A n \in 1..Len(Lines) : AsWritten[n].key = Lines[n]
  BY <1>2
<1> QED BY <1>2, <1>3, <1>4, TheLines DEF Like

(* A value written into a line. *)
LEMMA ValueWritten ==
  ASSUME NEW f, Like(f), NEW h \in 1..Len(f), NEW v \in Values
  PROVE  LET r == [f EXCEPT ![h].val = v]
         IN  /\ Like(r) /\ Len(r) = Len(f)
             /\ \A n \in 1..Len(f) : r[n] = IF n = h THEN [key |-> Lines[n], val |-> v] ELSE f[n]
<1> DEFINE r == [f EXCEPT ![h].val = v]
           e == [key |-> Lines[h], val |-> v]
<1>1. f[h] \in Line /\ f[h].key = Lines[h] /\ f \in Seq(Line)
  BY ElementOfSeq DEF Like
<1>2. [f[h] EXCEPT !.val = v] = e /\ e \in Line
  BY <1>1 DEF Line
<1>3. r = [f EXCEPT ![h] = e]
  BY <1>2
<1>4. e.key = Lines[h]
  OBVIOUS
<1> HIDE DEF r, e
<1>5. /\ r \in Seq(Line) /\ Len(r) = Len(f)
      /\ \A n \in 1..Len(f) : r[n] = IF n = h THEN e ELSE f[n]
  BY <1>1, <1>2, <1>3, ExceptSeq
<1>6. Like(r)
  BY <1>4, <1>5 DEF Like
<1>7. \A n \in 1..Len(f) : r[n] = IF n = h THEN [key |-> Lines[n], val |-> v] ELSE f[n]
  BY <1>5 DEF e
<1> QED BY <1>5, <1>6, <1>7 DEF r

LEMMA VersionIs ==
  ASSUME NEW i \in 1..Len(Lines), NEW v \in Values
  PROVE  /\ Like(Version(i, v)) /\ Len(Version(i, v)) = Len(Lines)
         /\ \A n \in 1..Len(Lines) :
              Version(i, v)[n] = [key |-> Lines[n], val |-> IF n = i THEN v ELSE First]
<1>1. /\ Like(Version(i, v)) /\ Len(Version(i, v)) = Len(Lines)
      /\ \A n \in 1..Len(Lines) :
           Version(i, v)[n] = IF n = i THEN [key |-> Lines[n], val |-> v] ELSE AsWritten[n]
  BY AsWrittenIs, ValueWritten DEF Version
<1> QED BY <1>1, AsWrittenIs

(* Which line is rewritten is decided by the titles and keys alone. *)
LEMMA FoundSame ==
  ASSUME NEW f, Like(f), Len(f) = Len(Lines)
  PROVE  Found(f, Written) = Found(AsWritten, Written)
<1>1. Len(Lines) \in Nat /\ DOMAIN f = 1..Len(Lines) /\ DOMAIN AsWritten = 1..Len(Lines)
  BY LenProperties, TheLines, AsWrittenIs DEF Like
<1>2. \A n \in 1..Len(Lines) : f[n].key = AsWritten[n].key
  BY AsWrittenIs DEF Like
<1>3. ASSUME NEW n \in 1..Len(Lines) PROVE Taken(f, Written, n) <=> Taken(AsWritten, Written, n)
  <2>1. \A j \in 1..(n - 1) : j \in 1..Len(Lines)
    BY <1>1
  <2> QED BY <1>2, <2>1 DEF Taken
<1>4. ASSUME NEW n \in 1..Len(Lines) PROVE \A j \in 1..(n - 1) : j \in 1..Len(Lines)
  BY <1>1
<1> QED BY <1>1, <1>3, <1>4 DEF Found

LEMMA OneFound ==
  ASSUME NEW i \in Found(AsWritten, Written), NEW j \in Found(AsWritten, Written)
  PROVE  i = j /\ i \in 1..Len(Lines)
<1>1. i \in 1..Len(Lines) /\ j \in 1..Len(Lines) /\ Len(Lines) \in Nat
  BY AsWrittenIs, TheLines DEF Found
<1>2. ~(i < j) /\ ~(j < i)
  <2>1. i < j => i \in 1..(j - 1)
    BY <1>1
  <2>2. j < i => j \in 1..(i - 1)
    BY <1>1
  <2> QED BY <2>1, <2>2 DEF Found
<1> QED BY <1>1, <1>2

(* The rewriting of the file in memory replaces the value of that line.       *)
LEMMA ReplacedIs ==
  ASSUME NEW f, Like(f), NEW n \in 1..MaxPuts
  PROVE  /\ Like(Replaced(f, Written, n))
         /\ f = AsWritten \/ (\E i \in Found(AsWritten, Written), v \in Values : f = Version(i, v))
            => Replaced(f, Written, n) = f
               \/ \E i \in Found(AsWritten, Written) : Replaced(f, Written, n) = Version(i, n)
<1>1. Len(f) \in Nat /\ DOMAIN f = 1..Len(f) /\ n \in Values
  BY LenProperties, ValuesAre DEF Like
<1>2. CASE Found(f, Written) = {}
  BY <1>2 DEF Replaced
<1>3. CASE Found(f, Written) # {}
  <2> DEFINE h == CHOOSE i \in Found(f, Written) : TRUE
             r == [f EXCEPT ![h].val = n]
  <2>1. h \in Found(f, Written)
    BY <1>3
  <2>2. Replaced(f, Written, n) = r
    BY <1>3 DEF Replaced
  <2> HIDE DEF h
  <2>3. h \in 1..Len(f)
    BY <1>1, <2>1 DEF Found
  <2>4. /\ Like(r) /\ Len(r) = Len(f)
        /\ \A m \in 1..Len(f) : r[m] = IF m = h THEN [key |-> Lines[m], val |-> n] ELSE f[m]
    BY <1>1, <2>3, ValueWritten
  <2> HIDE DEF r
  <2>5. ASSUME f = AsWritten \/ (\E i \in Found(AsWritten, Written), v \in Values : f = Version(i, v))
        PROVE  h \in Found(AsWritten, Written) /\ r = Version(h, n)
    <3>1. /\ Len(f) = Len(Lines) /\ h \in Found(AsWritten, Written) /\ h \in 1..Len(Lines)
          /\ \A m \in 1..Len(Lines) : m # h => f[m] = [key |-> Lines[m], val |-> First]
      <4>1. CASE f = AsWritten
        BY <2>1, <2>3, <4>1, AsWrittenIs
      <4>2. ASSUME NEW i \in Found(AsWritten, Written), NEW v \in Values, f = Version(i, v)
            PROVE  /\ Len(f) = Len(Lines) /\ h \in Found(AsWritten, Written) /\ h \in 1..Len(Lines)
                   /\ \A m \in 1..Len(Lines) : m # h => f[m] = [key |-> Lines[m], val |-> First]
        <5>1. i \in 1..Len(Lines)
          BY OneFound
        <5>2. Len(f) = Len(Lines)
          BY <4>2, <5>1, VersionIs
        <5>3. h \in Found(AsWritten, Written)
          BY <2>1, <5>2, FoundSame
        <5>4. h = i
          BY <5>3, OneFound
        <5> QED BY <4>2, <5>1, <5>2, <5>3, <5>4, VersionIs
      <4> QED BY <2>5, <4>1, <4>2
    <3>2. Version(h, n) \in Seq(Line) /\ Len(Version(h, n)) = Len(Lines) /\ r \in Seq(Line)
      BY <1>1, <2>4, <3>1, VersionIs DEF Like
    <3>3. \A m \in 1..Len(Lines) : r[m] = Version(h, n)[m]
      <4> TAKE m \in 1..Len(Lines)
      <4>1. Version(h, n)[m] = [key |-> Lines[m], val |-> IF m = h THEN n ELSE First]
        BY <1>1, <3>1, VersionIs
      <4>2. r[m] = IF m = h THEN [key |-> Lines[m], val |-> n] ELSE f[m]
        BY <2>4, <3>1
      <4> QED BY <3>1, <4>1, <4>2
    <3> QED BY <2>4, <3>1, <3>2, <3>3, SeqEqual
  <2> QED BY <2>2, <2>4, <2>5
<1> QED BY <1>2, <1>3

LEMMA FileInitInv == FileInit => FileInv
<1> SUFFICES ASSUME FileInit PROVE FileInv
  OBVIOUS
<1>1. /\ disk = AsWritten /\ sLine = Nil /\ get = [t \in Threads |-> NotReading]
      /\ todo = Wanted /\ got = [t \in Threads |-> Nil] /\ mutex = FALSE /\ put = PutIdle
      /\ puts = 0 /\ failed = FALSE /\ crashes = 0 /\ damaged = FALSE
  BY DEF FileInit, NoneRead
<1>2. Like(disk) /\ WrittenBy(disk)
  BY <1>1, AsWrittenIs DEF WrittenBy
<1>3. NotReading \in Places /\ NotReading.at = "idle"
  BY TheLines DEF NotReading, Places
<1>4. put.at = "idle" /\ put.buf = <<>> /\ put \in Writing /\ Like(put.buf)
  <2>1. <<>> \in Seq(Line) /\ Len(<<>>) = 0
    BY EmptySeq
  <2> QED BY <1>1, <2>1, TheLines DEF PutIdle, Writing, Like
<1>5. FileTypeOK
  <2>1. disk \in Seq(Line) /\ Len(disk) <= Len(Lines)
    BY <1>2 DEF Like
  <2>2. get \in [Threads -> Places] /\ got \in [Threads -> Values \cup {Nil}]
    BY <1>1, <1>3
  <2>3. put.at \in {"idle", "lock", "open", "truncate", "write"} /\ put.buf \in Seq(Line)
    BY <1>4 DEF Like
  <2>4. puts \in 0..MaxPuts /\ crashes \in 0..MaxCrashes
    BY <1>1, TheLines
  <2>5. todo \in [Threads -> Seq(Keys)]
    BY <1>1, TheLines
  <2> QED BY <1>1, <2>1, <2>2, <2>3, <2>4, <2>5 DEF FileTypeOK, Places
<1>6. DiskKept
  BY <1>1, <1>2, <1>4 DEF DiskKept
<1>7. Reads
  BY <1>1, <1>3 DEF Reads, Right
<1> QED BY <1>5, <1>6, <1>7 DEF FileInv

-----------------------------------------------------------------------------
(* Reading.                                                                  *)

LEMMA FileSame ==
  ASSUME FileInv, UNCHANGED <<disk, put, puts, damaged>> PROVE DiskKept'
BY DEF FileInv, DiskKept, WrittenBy

(* One step of the reader t: each other read is as it was or crossed.         *)
LEMMA ReaderStep ==
  ASSUME FileInv, NEW t \in Threads,
         UNCHANGED <<disk, mutex, put, puts, failed, crashes, damaged>>,
         sLine' \in Line \/ sLine' = sLine,
         get' \in [Threads -> Places],
         \A u \in Threads : u # t =>
           \/ get'[u] = get[u] /\ (sLine' = sLine \/ get[u].at \in {"idle", "line"})
           \/ get'[u] = [get[u] EXCEPT !.crossed = TRUE],
         todo' \in [Threads -> Seq(Keys)], \A u \in Threads : u # t => todo'[u] = todo[u],
         got' \in [Threads -> Values \cup {Nil}],
         Right(get[t])', get'[t].at # "idle" => todo'[t] # <<>>
  PROVE  FileInv'
<1>1. FileTypeOK'
  BY DEF FileInv, FileTypeOK, Places
<1>2. ASSUME NEW u \in Threads PROVE Right(get[u])' /\ (get'[u].at # "idle" => todo'[u] # <<>>)
  <2>1. CASE u = t
    BY <2>1
  <2>2. ASSUME u # t, get'[u] = get[u], sLine' = sLine \/ get[u].at \in {"idle", "line"}
        PROVE Right(get[u])' /\ (get'[u].at # "idle" => todo'[u] # <<>>)
    BY <2>2 DEF FileInv, Reads, Right, Scanned
  <2>3. ASSUME u # t, get'[u] = [get[u] EXCEPT !.crossed = TRUE]
        PROVE Right(get[u])' /\ (get'[u].at # "idle" => todo'[u] # <<>>)
    <3>1. get[u] \in Places /\ Right(get[u])
      BY DEF FileInv, FileTypeOK, Places, Reads
    <3>2. get'[u].at = get[u].at /\ get'[u].key = get[u].key /\ get'[u].crossed = TRUE
      BY <2>3, <3>1 DEF Places
    <3>3. Right(get[u])'
      BY <3>1, <3>2 DEF Right
    <3> QED BY <2>3, <3>2, <3>3 DEF FileInv, Reads
  <2> QED BY <2>1, <2>2, <2>3
<1> QED BY <1>1, <1>2, FileSame DEF FileInv, Reads

LEMMA PutFacts ==
  ASSUME FileInv
  PROVE  /\ put \in Writing /\ put = [at |-> put.at, buf |-> put.buf] /\ put.buf \in Seq(Line)
         /\ Like(put.buf) /\ Like(disk) /\ puts \in Nat /\ puts <= MaxPuts
         /\ disk \in Seq(Line) /\ Len(disk) \in Nat /\ Len(put.buf) \in Nat
<1>1. put \in Writing /\ Like(put.buf) /\ Like(disk) /\ puts \in 0..MaxPuts
  BY DEF FileInv, DiskKept, FileTypeOK
<1>2. disk \in Seq(Line) /\ Len(disk) \in Nat /\ put.buf \in Seq(Line) /\ Len(put.buf) \in Nat
  BY <1>1, LenProperties DEF Like
<1> QED BY <1>1, <1>2, TheLines DEF Writing

LEMMA InPlace ==
  ASSUME FileInv, NEW t \in Threads
  PROVE  /\ get \in [Threads -> Places] /\ get[t] \in Places /\ Right(get[t])
         /\ get[t] = [at |-> get[t].at, key |-> get[t].key, pos |-> get[t].pos,
                      name |-> get[t].name, inside |-> get[t].inside, crossed |-> get[t].crossed]
         /\ get[t].pos \in 0..Len(Lines) /\ get[t].inside \in BOOLEAN
         /\ todo \in [Threads -> Seq(Keys)] /\ got \in [Threads -> Values \cup {Nil}]
         /\ (get[t].at # "idle" => todo[t] # <<>>)
         /\ disk \in Seq(Line) /\ Len(disk) \in 0..Len(Lines) /\ sLine \in Line \cup {Nil}
<1>1. get \in [Threads -> Places] /\ get[t] \in Places
  BY DEF FileInv, FileTypeOK, Places
<1>2. disk \in Seq(Line) /\ Len(disk) \in 0..Len(Lines)
  BY LenProperties, TheLines DEF FileInv, FileTypeOK
<1> QED BY <1>1, <1>2 DEF FileInv, FileTypeOK, Reads, Places

LEMMA GetOpenKeeps == ASSUME FileInv, NEW t \in Threads, GetOpen(t) PROVE FileInv'
<1> DEFINE g == [NotReading EXCEPT !.at = "line", !.key = Head(todo[t])]
<1>1. /\ todo[t] # <<>> /\ get' = [get EXCEPT ![t] = g] /\ got' = [got EXCEPT ![t] = Nil]
      /\ UNCHANGED <<disk, sLine, todo, mutex, put, puts, failed, crashes, damaged>>
  BY DEF GetOpen, writer
<1>2. Head(todo[t]) \in Keys
  BY <1>1, InPlace, HeadTailProperties
<1>3. /\ g \in Places /\ g.at = "line" /\ g.key = Head(todo[t]) /\ g.pos = 0 /\ g.inside = FALSE
  <2> DEFINE h == Head(todo[t])
  <2>1. h \in Keys /\ 0 \in 0..Len(Lines)
    BY <1>2, TheLines
  <2> HIDE DEF h
  <2>2. /\ NotReading \in Places /\ NotReading.pos = 0 /\ NotReading.inside = FALSE
    BY <2>1 DEF NotReading, Places
  <2>3. LET n == [NotReading EXCEPT !.at = "line", !.key = h]
        IN  n \in Places /\ n.at = "line" /\ n.key = h /\ n.pos = 0 /\ n.inside = FALSE
    BY <2>1, <2>2 DEF Places
  <2> QED BY <2>3 DEF h
<1> HIDE DEF g
<1>4. /\ get' \in [Threads -> Places] /\ get'[t] = g /\ \A u \in Threads : u # t => get'[u] = get[u]
      /\ got' \in [Threads -> Values \cup {Nil}]
  BY <1>1, <1>3, InPlace
<1>5. Right(get[t])'
  BY <1>1, <1>2, <1>3, <1>4, InPlace DEF Right, Scanned
<1> QED BY <1>1, <1>3, <1>4, <1>5, InPlace, ReaderStep

LEMMA GetLineKeeps == ASSUME FileInv, NEW t \in Threads, GetLine(t) PROVE FileInv'
<1> DEFINE p == get[t].pos
           g == [get[t] EXCEPT !.at = "match", !.pos = p + 1]
           moved == [get EXCEPT ![t].at = "match", ![t].pos = @ + 1]
<1>1. /\ get[t].at = "line" /\ p < Len(disk) /\ sLine' = disk[p + 1] /\ get' = Cross(moved, OnLine)
      /\ UNCHANGED <<disk, todo, got, mutex, put, puts, failed, crashes, damaged>>
  BY DEF GetLine, writer
<1>2. p \in Nat /\ p + 1 \in 1..Len(disk) /\ p + 1 \in 0..Len(Lines) /\ disk[p + 1] \in Line
  <2>1. p \in Nat /\ disk \in Seq(Line) /\ Len(disk) \in Nat /\ Len(disk) <= Len(Lines) /\ Len(Lines) \in Nat
    <3>1. p \in 0..Len(Lines) /\ disk \in Seq(Line) /\ Len(disk) \in 0..Len(Lines)
      BY InPlace
    <3> QED BY <3>1, TheLines
  <2>2. p + 1 \in 1..Len(disk) /\ p + 1 \in 0..Len(Lines)
    BY <1>1, <2>1
  <2> QED BY <2>1, <2>2, ElementOfSeq
<1>3. g \in Places
  BY <1>2, InPlace DEF Places
<1>4. moved[t] = g /\ \A u \in Threads : u # t => moved[u] = get[u]
  <2>1. get \in [Threads -> Places] /\ get[t] \in Places
    BY InPlace
  <2>2. moved = [get EXCEPT ![t] = [get[t] EXCEPT !.at = "match", !.pos = p + 1]]
    BY <2>1
  <2> HIDE DEF g, moved
  <2> QED BY <2>1, <2>2 DEF g
<1>5. t \notin OnLine /\ \A u \in Threads : u \in OnLine <=> get[u].at \in {"match", "use"}
  BY <1>1 DEF OnLine
<1>6. g.at = "match" /\ g.key = get[t].key /\ g.pos = p + 1 /\ g.inside = get[t].inside
      /\ g.crossed = get[t].crossed
  BY InPlace DEF Places
<1> HIDE DEF g, moved
<1>7. get'[t] = g
  BY <1>1, <1>4, <1>5 DEF Cross
<1>8. \A u \in Threads : u # t => get'[u] = IF get[u].at \in {"match", "use"}
                                           THEN [get[u] EXCEPT !.crossed = TRUE] ELSE get[u]
  BY <1>1, <1>4, <1>5 DEF Cross
<1>9. \A u \in Threads : get[u].at \in {"idle", "line", "match", "use"} /\ [get[u] EXCEPT !.crossed = TRUE] \in Places
  BY DEF FileInv, FileTypeOK, Places
<1>10. get' \in [Threads -> Places]
  <2>1. get' = [u \in Threads |-> get'[u]]
    BY <1>1 DEF Cross
  <2>2. \A u \in Threads : get'[u] \in Places
    BY <1>3, <1>7, <1>8, <1>9, InPlace
  <2> QED BY <2>1, <2>2
<1>11. get'[t].at = "match" /\ get'[t].key = get[t].key /\ get'[t].pos = p + 1
       /\ get'[t].inside = get[t].inside /\ get'[t].crossed = get[t].crossed
  BY <1>6, <1>7
<1>12. Right(get[t])'
  <2>1. get[t].crossed \/ Scanned(get[t], p)
    BY <1>1, InPlace DEF Right
  <2>2. (p + 1) - 1 = p
    BY <1>2
  <2>3. get[t].crossed \/ Scanned(get[t], get[t].pos - 1)'
    BY <1>1, <1>11, <2>1, <2>2 DEF Scanned
  <2>4. get[t].key \in Keys
    BY <1>1, InPlace DEF Right
  <2> QED BY <1>1, <1>2, <1>11, <2>3, <2>4 DEF Right
<1>13. sLine' \in Line
  BY <1>1, <1>2
<1>14. todo' \in [Threads -> Seq(Keys)] /\ got' \in [Threads -> Values \cup {Nil}]
       /\ \A u \in Threads : todo'[u] = todo[u]
  BY <1>1, InPlace
<1>15. todo'[t] # <<>>
  BY <1>1, InPlace
<1>16. \A u \in Threads : u # t =>
         \/ get'[u] = get[u] /\ (sLine' = sLine \/ get[u].at \in {"idle", "line"})
         \/ get'[u] = [get[u] EXCEPT !.crossed = TRUE]
  BY <1>8, <1>9
<1> QED BY <1>1, <1>10, <1>12, <1>13, <1>14, <1>15, <1>16, ReaderStep

(* Both ends of a read. *)
LEMMA ReturnKeeps ==
  ASSUME FileInv, NEW t \in Threads, NEW v \in Values, get[t].at # "idle",
         get' = [get EXCEPT ![t] = NotReading], Return(t, v), sLine' = sLine
  PROVE  FileInv'
<1>1. /\ got' = [got EXCEPT ![t] = v] /\ todo' = [todo EXCEPT ![t] = Tail(todo[t])]
      /\ UNCHANGED <<disk, mutex, put, puts, failed, crashes, damaged>>
  BY InPlace DEF Return, writer
<1>2. NotReading \in Places /\ NotReading.at = "idle"
  BY TheLines DEF NotReading, Places
<1>3. Tail(todo[t]) \in Seq(Keys)
  BY InPlace, HeadTailProperties
<1>4. /\ get' \in [Threads -> Places] /\ get'[t] = NotReading
      /\ \A u \in Threads : u # t => get'[u] = get[u] /\ todo'[u] = todo[u]
      /\ got' \in [Threads -> Values \cup {Nil}] /\ todo' \in [Threads -> Seq(Keys)]
  BY <1>1, <1>2, <1>3, InPlace
<1>5. Right(get[t])'
  BY <1>2, <1>4 DEF Right
<1> QED BY <1>1, <1>2, <1>4, <1>5, ReaderStep

LEMMA GetEndKeeps == ASSUME FileInv, NEW t \in Threads, GetEnd(t) PROVE FileInv'
BY ReturnKeeps, ValuesAre DEF GetEnd

(* A line that passes for a key's passes for no title. *)
LEMMA NoTitle ==
  ASSUME NEW k \in Keys, NEW name, Matches(name, k) PROVE ~Titles(name, k)
BY LinesAssumption, ShorterAssumption DEF Matches, Titles, Sections

LEMMA GetMatchKeeps == ASSUME FileInv, NEW t \in Threads, GetMatch(t) PROVE FileInv'
<1> DEFINE k == get[t].key
           p == get[t].pos
           hits == get[t].inside /\ Matches(sLine.key, k)
           a == IF hits THEN "use" ELSE "line"
           c == IF hits THEN sLine.key ELSE Nil
           b == get[t].inside \/ Titles(sLine.key, k)
           g == [get[t] EXCEPT !.at = a, !.name = c, !.inside = b]
<1>1. /\ get[t].at = "match"
      /\ get' = [get EXCEPT ![t].at = a, ![t].name = c, ![t].inside = b]
      /\ UNCHANGED <<disk, sLine, todo, got, mutex, put, puts, failed, crashes, damaged>>
  BY DEF GetMatch, writer
<1>2. a \in {"line", "use"} /\ b \in BOOLEAN /\ c \in Names \cup {Nil}
  <2>1. sLine \in Line
    BY <1>1, InPlace DEF Right
  <2> QED BY <2>1 DEF Titles, Line
<1>3. /\ get' = [get EXCEPT ![t] = g]
      /\ g \in Places /\ g.at = a /\ g.key = k /\ g.pos = p /\ g.crossed = get[t].crossed /\ g.inside = b
      /\ g.name = c
  <2> HIDE DEF a, b, c
  <2>1. get \in [Threads -> Places] /\ get[t] \in Places
    BY InPlace
  <2>2. get' = [get EXCEPT ![t] = g]
    BY <1>1, <2>1
  <2> QED BY <1>2, <2>1, <2>2 DEF Places
<1> HIDE DEF g
<1>4. get' \in [Threads -> Places] /\ get'[t] = g /\ \A u \in Threads : u # t => get'[u] = get[u]
  BY <1>3, InPlace
<1>5. /\ k \in Keys /\ sLine \in Line /\ p \in Nat
      /\ ~g.crossed => /\ p > 0 /\ p <= Len(disk) /\ sLine = disk[p] /\ Scanned(get[t], p - 1)
  <2>1. Right(get[t]) /\ p \in Nat
    <3>1. Right(get[t]) /\ p \in 0..Len(Lines)
      BY InPlace
    <3> QED BY <3>1, TheLines
  <2>2. k \in Keys /\ sLine \in Line
    BY <1>1, <2>1 DEF Right
  <2>3. ~get[t].crossed => /\ p > 0 /\ p <= Len(disk) /\ sLine = disk[p] /\ Scanned(get[t], p - 1)
    BY <1>1, <2>1 DEF Right
  <2> QED BY <1>3, <2>1, <2>2, <2>3
<1>6. ASSUME ~g.crossed, ~hits PROVE Scanned(g, p)
  <2>1. ASSUME NEW i \in 1..p
        PROVE  /\ Titles(disk[i].key, k) => g.inside
               /\ Matches(disk[i].key, k) => \A j \in 1..(i - 1) : ~Titles(disk[j].key, k)
    <3>1. CASE i # p
      <4>1. i \in 1..(p - 1)
        BY <1>5, <3>1
      <4> QED BY <1>3, <1>5, <1>6, <4>1 DEF Scanned
    <3>2. CASE i = p
      BY <1>3, <1>5, <1>6, <3>2 DEF Scanned
    <3> QED BY <3>1, <3>2
  <2>2. ASSUME g.inside PROVE \E i \in 1..p : Titles(disk[i].key, k)
    <3>1. CASE get[t].inside
      <4>1. PICK i \in 1..(p - 1) : Titles(disk[i].key, k)
        BY <1>5, <1>6, <3>1 DEF Scanned
      <4>2. i \in 1..p
        BY <1>5
      <4> QED BY <4>1, <4>2
    <3>2. CASE Titles(sLine.key, k)
      <4>1. p \in 1..p /\ Titles(disk[p].key, k)
        BY <1>5, <1>6, <3>2
      <4> QED BY <4>1
    <3> QED BY <1>3, <2>2, <3>1, <3>2
  <2> QED BY <1>3, <2>1, <2>2 DEF Scanned
<1>7. ASSUME ~g.crossed, hits PROVE g.inside = get[t].inside /\ g.inside /\ Scanned(g, p - 1)
  <2>1. g.inside = get[t].inside /\ g.inside
    BY <1>3, <1>5, <1>7, NoTitle
  <2> QED BY <1>3, <1>5, <1>7, <2>1 DEF Scanned
<1>8. Right(get[t])'
  <2>1. /\ get'[t].at = (IF hits THEN "use" ELSE "line")
        /\ get'[t].key = k /\ get'[t].pos = p /\ get'[t].crossed = g.crossed
        /\ get'[t].inside = g.inside /\ (hits => get'[t].name = sLine.key)
    BY <1>3, <1>4
  <2>2. ~hits => g.crossed \/ Scanned(get[t], get[t].pos)'
    BY <1>1, <1>3, <1>6, <2>1 DEF Scanned
  <2>3. hits => g.crossed \/ (g.inside /\ Scanned(get[t], get[t].pos - 1)')
    BY <1>1, <1>3, <1>7, <2>1 DEF Scanned
  <2> QED BY <1>1, <1>3, <1>5, <2>1, <2>2, <2>3 DEF Right
<1> QED BY <1>1, <1>2, <1>3, <1>4, <1>8, InPlace, ReaderStep

LEMMA GetUseKeeps == ASSUME FileInv, NEW t \in Threads, GetUse(t) PROVE FileInv'
<1>1. get[t].at = "use" /\ sLine \in Line
  BY InPlace DEF GetUse, Right
<1>2. (IF sLine.key = get[t].name THEN sLine.val ELSE Junk) \in Values
  BY <1>1, ValuesAre DEF Line
<1> QED BY <1>1, <1>2, ReturnKeeps DEF GetUse

LEMMA RoundKeeps == FileInv /\ Round => FileInv'
<1> SUFFICES ASSUME FileInv, Round PROVE FileInv'
  OBVIOUS
<1>1. /\ todo[Poller] = <<>> /\ todo' = [todo EXCEPT ![Poller] = <<Polled>>]
      /\ UNCHANGED <<disk, sLine, get, got, mutex, put, puts, failed, crashes, damaged>>
  BY DEF Round, writer
<1>2. Poller \in Threads /\ <<Polled>> \in Seq(Keys)
  BY TheLines
<1>3. todo' \in [Threads -> Seq(Keys)] /\ \A u \in Threads : u # Poller => todo'[u] = todo[u]
  BY <1>1, <1>2, InPlace
<1>4. get[Poller].at = "idle" /\ Right(get[Poller])'
  BY <1>1, <1>2, InPlace DEF Right
<1> QED BY <1>1, <1>2, <1>3, <1>4, InPlace, ReaderStep

-----------------------------------------------------------------------------
(* Writing.                                                                  *)

(* The file changes under the reads, which are all crossed then.             *)
LEMMA AllCrossed ==
  ASSUME FileInv, get' = Cross(get, Reading), UNCHANGED <<sLine, todo>>
  PROVE  get' \in [Threads -> Places] /\ Reads'
<1>1. \A u \in Threads : get'[u] = IF get[u].at # "idle" THEN [get[u] EXCEPT !.crossed = TRUE] ELSE get[u]
  BY DEF Cross, Reading
<1>2. \A u \in Threads : get[u] \in Places /\ Right(get[u]) /\ (get[u].at # "idle" => todo[u] # <<>>)
  BY InPlace
<1>3. ASSUME NEW u \in Threads
      PROVE  /\ get'[u] \in Places /\ Right(get[u])' /\ (get'[u].at # "idle" => todo'[u] # <<>>)
  <2>1. CASE get[u].at = "idle"
    BY <1>1, <1>2, <2>1 DEF Right
  <2>2. CASE get[u].at # "idle"
    <3>1. get'[u] = [get[u] EXCEPT !.crossed = TRUE]
      BY <1>1, <2>2
    <3>2. /\ get'[u] \in Places /\ get'[u].at = get[u].at /\ get'[u].key = get[u].key
          /\ get'[u].crossed = TRUE
      BY <1>2, <3>1 DEF Places
    <3> QED BY <1>2, <2>2, <3>2 DEF Right
  <2> QED BY <2>1, <2>2
<1>4. get' = [u \in Threads |-> get'[u]]
  BY DEF Cross
<1> QED BY <1>3, <1>4 DEF Reads

(* Where the file stays as it is, the reads do not notice.                    *)
LEMMA ReadsSame ==
  ASSUME FileInv, UNCHANGED <<disk, sLine, get, todo>> PROVE Reads'
BY DEF FileInv, Reads, Right, Scanned

LEMMA PutTo ==
  ASSUME FileInv, NEW a, NEW b \in {"idle", "lock", "open", "truncate", "write"}, Put(a, b)
  PROVE  /\ put.at = a /\ put' = [at |-> b, buf |-> put.buf] /\ put' \in Writing
         /\ put'.at = b /\ put'.buf = put.buf
<1>1. put.at = a /\ put' = [put EXCEPT !.at = b]
  BY DEF Put
<1> QED BY <1>1, PutFacts DEF Writing

LEMMA PutCallKeeps == FileInv /\ PutCall => FileInv'
<1> SUFFICES ASSUME FileInv, PutCall PROVE FileInv'
  OBVIOUS
<1>1. /\ puts < MaxPuts /\ Put("idle", "lock") /\ puts' = puts + 1
      /\ UNCHANGED <<disk, sLine, get, todo, got, mutex, failed, crashes, damaged>>
  BY DEF PutCall, readers
<1>2. put.at = "idle" /\ put' \in Writing /\ put'.at = "lock" /\ put'.buf = put.buf
  BY <1>1, PutTo
<1>3. puts' \in 0..MaxPuts /\ puts' > 0 /\ \A v \in 1..puts : v \in 1..puts'
  BY <1>1, PutFacts, TheLines
<1>4. FileTypeOK'
  BY <1>1, <1>2, <1>3 DEF FileInv, FileTypeOK, Writing
<1>5. WrittenBy(disk) => WrittenBy(disk)'
  BY <1>1, <1>3 DEF WrittenBy
<1>6. DiskKept'
  BY <1>1, <1>2, <1>3, <1>5 DEF FileInv, DiskKept
<1> QED BY <1>1, <1>4, <1>6, ReadsSame DEF FileInv

(* The mutex is taken, or the call fails. *)
LEMMA PutOnKeeps ==
  ASSUME FileInv, PutLock \/ PutFail PROVE FileInv'
<1>1. /\ put' \in Writing /\ put'.at \in {"open", "idle"} /\ put'.buf = put.buf
      /\ put.at \in {"lock", "open"}
  BY PutTo DEF PutLock, PutFail
<1>2. /\ UNCHANGED <<disk, sLine, get, todo, got, puts, crashes, damaged>>
      /\ mutex' \in BOOLEAN /\ failed' \in BOOLEAN
  BY DEF PutLock, PutFail, readers, FileInv, FileTypeOK
<1>3. FileTypeOK'
  BY <1>1, <1>2 DEF FileInv, FileTypeOK, Writing
<1>4. DiskKept'
  BY <1>1, <1>2 DEF FileInv, DiskKept, WrittenBy
<1> QED BY <1>2, <1>3, <1>4, ReadsSame DEF FileInv

LEMMA PutReadKeeps == FileInv /\ PutRead => FileInv'
<1> SUFFICES ASSUME FileInv, PutRead PROVE FileInv'
  OBVIOUS
<1> DEFINE f == Replaced(disk, Written, puts)
<1>1. /\ put.at = "open" /\ put' = [at |-> "truncate", buf |-> f]
      /\ UNCHANGED <<disk, sLine, get, todo, got, mutex, puts, failed, crashes, damaged>>
  BY DEF PutRead, readers
<1>2. puts \in 1..MaxPuts
  BY <1>1, PutFacts, TheLines DEF FileInv, DiskKept
<1>3. /\ Like(f)
      /\ disk = AsWritten \/ (\E i \in Found(AsWritten, Written), v \in Values : disk = Version(i, v))
         => f = disk \/ \E i \in Found(AsWritten, Written) : f = Version(i, puts)
  BY <1>2, PutFacts, ReplacedIs
<1>4. WrittenBy(disk) => WrittenBy(f)
  <2>1. \A v \in 1..puts : v \in Values
    BY <1>2, ValuesAre, TheLines
  <2>2. puts \in 1..puts
    BY <1>2
  <2> QED BY <1>3, <2>1, <2>2 DEF WrittenBy
<1> HIDE DEF f
<1>5. put'.at = "truncate" /\ put'.buf = f /\ put' \in Writing
  BY <1>1, <1>3 DEF Writing, Like
<1>6. FileTypeOK'
  BY <1>1, <1>5 DEF FileInv, FileTypeOK, Writing
<1>7. DiskKept'
  <2>1. ~damaged => WrittenBy(disk) /\ WrittenBy(f)
    BY <1>1, <1>4 DEF FileInv, DiskKept
  <2>2. Like(disk)' /\ Like(put.buf)'
    BY <1>1, <1>3, <1>5, PutFacts
  <2>3. ~damaged' => WrittenBy(disk)' /\ WrittenBy(put.buf)'
    BY <1>1, <1>5, <2>1 DEF WrittenBy
  <2> QED BY <1>1, <1>2, <1>5, <2>2, <2>3 DEF DiskKept
<1> QED BY <1>1, <1>6, <1>7, ReadsSame DEF FileInv

LEMMA PutTruncateKeeps == FileInv /\ PutTruncate => FileInv'
<1> SUFFICES ASSUME FileInv, PutTruncate PROVE FileInv'
  OBVIOUS
<1>1. /\ disk' = <<>> /\ get' = Cross(get, Reading)
      /\ UNCHANGED <<sLine, todo, got, mutex, puts, failed, crashes, damaged>>
  BY DEF PutTruncate
<1>2. put.at = "truncate" /\ put' \in Writing /\ put'.at = "write" /\ put'.buf = put.buf
  BY PutTo DEF PutTruncate
<1>3. disk' \in Seq(Line) /\ Len(disk') = 0 /\ Len(Lines) \in Nat
  BY <1>1, EmptySeq, TheLines
<1>4. get' \in [Threads -> Places] /\ Reads'
  BY <1>1, AllCrossed
<1>5. FileTypeOK'
  BY <1>1, <1>2, <1>3, <1>4 DEF FileInv, FileTypeOK, Writing, Places
<1>6. DiskKept'
  BY <1>1, <1>2, <1>3, PutFacts DEF FileInv, DiskKept, Like, WrittenBy
<1> QED BY <1>4, <1>5, <1>6 DEF FileInv

LEMMA PutLineKeeps == FileInv /\ PutLine => FileInv'
<1> SUFFICES ASSUME FileInv, PutLine PROVE FileInv'
  OBVIOUS
<1> DEFINE n == Len(disk) + 1
<1>1. /\ put.at = "write" /\ Len(disk) < Len(put.buf)
      /\ disk' = Append(disk, put.buf[n]) /\ get' = Cross(get, Reading)
      /\ UNCHANGED <<sLine, todo, got, mutex, put, puts, failed, crashes, damaged>>
  BY DEF PutLine, writer
<1>2. n \in 1..Len(put.buf) /\ put.buf[n] \in Line /\ n <= Len(Lines)
  BY <1>1, PutFacts, TheLines, ElementOfSeq DEF Like
<1>3. /\ disk' \in Seq(Line) /\ Len(disk') = n
      /\ (\A i \in 1..Len(disk) : disk'[i] = disk[i]) /\ disk'[n] = put.buf[n]
  BY <1>1, <1>2, PutFacts, AppendProperties
<1>4. \A i \in 1..n : i = n \/ i \in 1..Len(disk)
  BY PutFacts
<1>5. \A i \in 1..n : disk'[i] = put.buf[i]
  BY <1>1, <1>3, <1>4 DEF FileInv, DiskKept
<1> HIDE DEF n
<1>6. Like(disk)'
  <2>1. \A i \in 1..n : put.buf[i].key = Lines[i]
    BY <1>2, PutFacts DEF Like
  <2> QED BY <1>2, <1>3, <1>5, <2>1 DEF Like
<1>7. get' \in [Threads -> Places] /\ Reads'
  BY <1>1, AllCrossed
<1>8. FileTypeOK'
  BY <1>1, <1>6, <1>7 DEF FileInv, FileTypeOK, Places, Like
<1>9. DiskKept'
  <2>1. Like(put.buf)' /\ put' \in Writing /\ (put'.at # "idle" => puts' > 0)
    BY <1>1 DEF FileInv, DiskKept, Like
  <2>2. ~damaged' => WrittenBy(put.buf)'
    BY <1>1 DEF FileInv, DiskKept, WrittenBy
  <2> QED BY <1>1, <1>2, <1>3, <1>5, <1>6, <2>1, <2>2 DEF DiskKept
<1> QED BY <1>7, <1>8, <1>9 DEF FileInv

(* A file written to its end is the buffer. *)
LEMMA WrittenOut ==
  ASSUME FileInv, put.at = "write", Len(disk) = Len(put.buf) PROVE disk = put.buf
BY PutFacts, SeqEqual DEF FileInv, DiskKept

LEMMA IdleIs == PutIdle \in Writing /\ PutIdle.at = "idle" /\ Like(PutIdle.buf)
<1>1. <<>> \in Seq(Line) /\ Len(<<>>) = 0
  BY EmptySeq
<1> QED BY <1>1, TheLines DEF PutIdle, Writing, Like

LEMMA PutReturnKeeps == FileInv /\ PutReturn => FileInv'
<1> SUFFICES ASSUME FileInv, PutReturn PROVE FileInv'
  OBVIOUS
<1>1. /\ put.at = "write" /\ Len(disk) = Len(put.buf) /\ put' = PutIdle /\ mutex' = FALSE
      /\ UNCHANGED <<disk, sLine, get, todo, got, puts, failed, crashes, damaged>>
  BY DEF PutReturn, readers
<1>2. disk = put.buf
  BY <1>1, WrittenOut
<1>3. put' \in Writing /\ put'.at = "idle" /\ Like(put.buf)'
  BY <1>1, IdleIs DEF Like
<1>4. FileTypeOK'
  BY <1>1, <1>3 DEF FileInv, FileTypeOK, Writing
<1>5. ~damaged' => WrittenBy(disk)'
  BY <1>1, <1>2 DEF FileInv, DiskKept, WrittenBy
<1>6. Like(disk)'
  BY <1>1, PutFacts
<1>7. DiskKept'
  BY <1>3, <1>5, <1>6 DEF DiskKept
<1> QED BY <1>1, <1>4, <1>7, ReadsSame DEF FileInv

LEMMA CrashKeeps == FileInv /\ Crash => FileInv'
<1> SUFFICES ASSUME FileInv, Crash PROVE FileInv'
  OBVIOUS
<1>1. /\ crashes < MaxCrashes /\ crashes' = crashes + 1
      /\ damaged' = (damaged \/ (put.at = "write" /\ Len(disk) < Len(put.buf)))
      /\ sLine' = Nil /\ get' = [t \in Threads |-> NotReading] /\ todo' = Wanted
      /\ got' = [t \in Threads |-> Nil]
      /\ mutex' = FALSE /\ put' = PutIdle /\ failed' = FALSE
      /\ UNCHANGED <<disk, puts>>
  BY DEF Crash, NoneRead
<1>2. NotReading \in Places /\ NotReading.at = "idle"
  BY TheLines DEF NotReading, Places
<1>3. put' \in Writing /\ put'.at = "idle" /\ Like(put.buf)'
  BY <1>1, IdleIs DEF Like
<1>4. crashes' \in 0..MaxCrashes /\ damaged' \in BOOLEAN
  BY <1>1, TheLines DEF FileInv, FileTypeOK
<1>5. FileTypeOK'
  BY <1>1, <1>2, <1>3, <1>4, TheLines DEF FileInv, FileTypeOK, Writing, Places
<1>6. ~damaged' => WrittenBy(disk)'
  <2> SUFFICES ASSUME ~damaged' PROVE WrittenBy(disk)
    BY <1>1 DEF WrittenBy
  <2>1. CASE put.at # "write"
    BY <1>1, <2>1 DEF FileInv, DiskKept
  <2>2. CASE put.at = "write"
    <3>1. Len(disk) <= Len(put.buf)
      BY <2>2 DEF FileInv, DiskKept
    <3>2. ~damaged /\ ~(Len(disk) < Len(put.buf))
      BY <1>1, <2>2
    <3>3. Len(disk) = Len(put.buf)
      BY <3>1, <3>2, PutFacts
    <3> QED BY <2>2, <3>2, <3>3, WrittenOut DEF FileInv, DiskKept
  <2> QED BY <2>1, <2>2
<1>7. Like(disk)'
  BY <1>1, PutFacts
<1>8. DiskKept'
  BY <1>3, <1>6, <1>7 DEF DiskKept
<1>9. Reads'
  BY <1>1, <1>2 DEF Reads, Right
<1> QED BY <1>5, <1>8, <1>9 DEF FileInv

LEMMA FileNextInv == FileInv /\ [FileNext]_fileVars => FileInv'
<1> SUFFICES ASSUME FileInv, [FileNext]_fileVars PROVE FileInv'
  OBVIOUS
<1>1. CASE UNCHANGED fileVars
  <2>1. UNCHANGED <<disk, sLine, get, todo, got, mutex, put, puts, failed, crashes, damaged>>
    BY <1>1 DEF fileVars, readers, writer
  <2> QED BY <2>1, FileSame, ReadsSame DEF FileInv, FileTypeOK
<1>2. ASSUME NEW t \in Threads, Get(t) PROVE FileInv'
  BY <1>2, GetOpenKeeps, GetLineKeeps, GetEndKeeps, GetMatchKeeps, GetUseKeeps DEF Get
<1>3. CASE PutStep
  BY <1>3, PutOnKeeps, PutReadKeeps, PutTruncateKeeps, PutLineKeeps, PutReturnKeeps DEF PutStep
<1> QED BY <1>1, <1>2, <1>3, RoundKeeps, PutCallKeeps, CrashKeeps DEF FileNext

(* A key has its title above it, as the user wrote the file. *)
LEMMA TitleAbove ==
  ASSUME NEW q \in 1..Len(Lines), Lines[q] \in Keys
  PROVE  \E j \in 1..(q - 1) : Titles(Lines[j], Lines[q])
<1>1. PICK j \in 1..q : AsWritten[j].key = SectionOf[Lines[q]]
  BY TheLines, SectionsAssumption DEF InSection
<1>2. q \in Nat /\ j \in Nat /\ j <= q /\ j >= 1 /\ j \in 1..Len(Lines)
  BY TheLines
<1>3. Lines[j] = SectionOf[Lines[q]]
  BY <1>1, <1>2, AsWrittenIs
<1>4. SectionOf[Lines[q]] \in Sections
  BY DEF Sections
<1>5. j # q
  BY <1>3, <1>4, ShorterAssumption
<1>6. j \in 1..(q - 1)
  BY <1>2, <1>5
<1> QED BY <1>3, <1>6 DEF Titles

(* The line taken first is the key's own, unless one shadows it. *)
LEMMA TakenFirst ==
  ASSUME NEW k \in Keys, NEW p \in 1..Len(Lines), Matches(Lines[p], k),
         \E j \in 1..(p - 1) : Titles(Lines[j], k),
         \A q \in 1..(p - 1) : Matches(Lines[q], k) => \A j \in 1..(q - 1) : ~Titles(Lines[j], k)
  PROVE  IF Shadowed(k) THEN p \in Shadows(k) ELSE Lines[p] = k
<1>1. PICK q \in 1..Len(Lines) : Lines[q] = k
  BY TheLines DEF Names
<1>2. Len(Lines) \in Nat /\ DOMAIN Lines = 1..Len(Lines)
  BY TheLines
<1>3. ~(q < p)
  <2> SUFFICES ASSUME q < p PROVE FALSE
    OBVIOUS
  <2>1. q \in 1..(p - 1)
    BY <1>2
  <2>2. \E j \in 1..(q - 1) : Titles(Lines[j], k)
    BY <1>1, TitleAbove
  <2> QED BY <1>1, <2>1, <2>2 DEF Matches
<1>4. CASE Lines[p] \in Shorter[k]
  <2>1. k \notin Shorter[k]
    BY ShorterAssumption
  <2>2. q > p
    BY <1>1, <1>2, <1>3, <1>4, <2>1
  <2>3. p \in Shadows(k)
    BY <1>1, <1>2, <1>4, <2>2 DEF Shadows
  <2> QED BY <2>3 DEF Shadowed
<1>5. CASE Lines[p] = k
  <2>1. ~Shadowed(k)
    <3> SUFFICES ASSUME NEW s \in Shadows(k) PROVE FALSE
      BY DEF Shadowed
    <3>1. /\ s \in 1..Len(Lines) /\ Lines[s] \in Shorter[k] /\ \E j \in 1..(s - 1) : Titles(Lines[j], k)
      BY <1>2 DEF Shadows
    <3>2. PICK j \in 1..Len(Lines) : j > s /\ Lines[j] = k
      BY <1>2 DEF Shadows
    <3>3. j = p
      BY <1>5, <3>2, TheLines
    <3>4. s \in 1..(p - 1)
      BY <1>2, <3>1, <3>2, <3>3
    <3> QED BY <3>1, <3>4 DEF Matches
  <2> QED BY <1>5, <2>1
<1> QED BY <1>4, <1>5 DEF Matches

LEMMA ChangedIs ==
  /\ Changed # {} /\ Changed \subseteq 1..Len(Lines)
  /\ Found(AsWritten, Written) \subseteq Changed
<1>1. Changed # {} /\ Changed \subseteq 1..Len(Lines)
  <2>1. \E q \in 1..Len(Lines) : Lines[q] = Written
    BY TheLines DEF Names
  <2> QED BY <2>1, TheLines DEF Changed, Shadowed, Shadows
<1>2. ASSUME NEW p \in Found(AsWritten, Written) PROVE p \in Changed
  <2>1. /\ p \in 1..Len(Lines) /\ Taken(AsWritten, Written, p)
        /\ \A q \in 1..(p - 1) : ~Taken(AsWritten, Written, q)
    BY AsWrittenIs DEF Found
  <2>2. \A n \in 1..p : n \in 1..Len(Lines) /\ AsWritten[n].key = Lines[n]
    BY <2>1, TheLines, AsWrittenIs
  <2>3. \A n \in 1..p : \A j \in 1..(n - 1) : j \in 1..p
    BY <2>1, TheLines
  <2>4. \A n \in 1..p : Taken(AsWritten, Written, n) <=>
                          Matches(Lines[n], Written) /\ \E j \in 1..(n - 1) : Titles(Lines[j], Written)
    BY <2>2, <2>3 DEF Taken
  <2>5. p \in 1..p /\ \A q \in 1..(p - 1) : q \in 1..p
    BY <2>1, TheLines
  <2>6. IF Shadowed(Written) THEN p \in Shadows(Written) ELSE Lines[p] = Written
    BY <2>1, <2>4, <2>5, TheLines, TakenFirst
  <2> QED BY <2>1, <2>6, TheLines DEF Changed
<1> QED BY <1>1, <1>2

(* Unless a crash has caught it half written, the file is what the user wrote *)
(* with the value of one call of PutIniKeyString whenever nobody is writing:  *)
(* in the line of the key, or in one of a shorter key that shadows it.        *)
THEOREM FileStaysWhole == FileSpec => []FileWhole
<1>1. ASSUME FileInv, ~damaged, put.at # "write"
      PROVE  \E i \in Changed, v \in {First} \cup 1..puts : disk = Version(i, v)
  <2>1. WrittenBy(disk)
    BY <1>1 DEF FileInv, DiskKept
  <2>2. CASE disk = AsWritten
    <3>1. PICK i \in Changed : i \in 1..Len(Lines)
      BY ChangedIs
    <3>2. /\ Like(Version(i, First)) /\ Len(Version(i, First)) = Len(Lines)
          /\ \A n \in 1..Len(Lines) : Version(i, First)[n] = [key |-> Lines[n], val |-> First]
      BY <3>1, ValuesAre, VersionIs
    <3>3. disk = Version(i, First)
      BY <2>2, <3>2, AsWrittenIs, SeqEqual DEF Like
    <3> QED BY <3>1, <3>3
  <2>3. CASE \E i \in Found(AsWritten, Written), v \in 1..puts : disk = Version(i, v)
    BY <2>3, ChangedIs
  <2> QED BY <2>1, <2>2, <2>3 DEF WrittenBy
<1>2. FileInv => FileWhole
  BY <1>1 DEF FileInv, FileWhole
<1> QED BY <1>2, FileInitInv, FileNextInv, PTL DEF FileSpec

(* What the file has for a key is in the one line of that key, which is in    *)
(* its section in whatever has been written of the file.                      *)
LEMMA ValueFound ==
  ASSUME FileInv, NEW k \in Keys, NEW p \in 1..Len(disk), disk[p].key = k
  PROVE  Value(disk, k) = disk[p].val
<1> DEFINE lines == {i \in DOMAIN disk : disk[i].key = k /\ InSection(disk, i, SectionOf[k])}
<1>1. /\ DOMAIN disk = 1..Len(disk) /\ Len(disk) \in Nat /\ Len(disk) <= Len(Lines) /\ Len(Lines) \in Nat
      /\ \A i \in 1..Len(disk) : disk[i].key = Lines[i]
  BY PutFacts, LenProperties, TheLines DEF Like
<1>2. \A i \in 1..Len(disk) : disk[i].key = k => i = p
  <2> SUFFICES ASSUME NEW i \in 1..Len(disk), disk[i].key = k PROVE i = p
    OBVIOUS
  <2>1. i \in 1..Len(Lines) /\ p \in 1..Len(Lines) /\ Lines[i] = k /\ Lines[p] = k
    BY <1>1
  <2> QED BY <2>1, TheLines
<1>3. \A i \in 1..Len(Lines) : AsWritten[i].key = Lines[i]
  BY AsWrittenIs
<1>4. Lines[p] = k /\ p \in DOMAIN Lines
  BY <1>1, TheLines
<1>5. PICK j \in 1..p : AsWritten[j].key = SectionOf[k]
                        /\ \A n \in (j + 1)..p : AsWritten[n].key \notin Sections
  BY <1>4, SectionsAssumption DEF InSection
<1>6. \A i \in 1..p : disk[i].key = AsWritten[i].key
  BY <1>1, <1>3
<1>7. InSection(disk, p, SectionOf[k])
  BY <1>5, <1>6 DEF InSection
<1>8. lines = {p}
  BY <1>1, <1>2, <1>7
<1>9. Value(disk, k) = IF lines = {} THEN Missing ELSE disk[CHOOSE i \in lines : TRUE].val
  BY DEF Value
<1> QED BY <1>8, <1>9

LEMMA ValueMissing ==
  ASSUME FileInv, NEW k \in Keys,
         \A i \in 1..Len(disk) : Matches(disk[i].key, k) => \A j \in 1..(i - 1) : ~Titles(disk[j].key, k)
  PROVE  Value(disk, k) = Missing
<1>1. DOMAIN disk = 1..Len(disk) /\ Len(disk) \in Nat
  BY PutFacts, LenProperties
<1>2. SectionOf[k] \in Sections /\ k \notin Sections
  BY ShorterAssumption DEF Sections
<1>3. ASSUME NEW i \in 1..Len(disk), disk[i].key = k, InSection(disk, i, SectionOf[k]) PROVE FALSE
  <2>1. PICK j \in 1..i : disk[j].key = SectionOf[k]
    BY <1>3 DEF InSection
  <2>2. j # i
    BY <1>2, <1>3, <2>1
  <2>3. j \in 1..(i - 1)
    BY <1>1, <2>2
  <2> QED BY <1>3, <2>1, <2>3 DEF Titles, Matches
<1> QED BY <1>1, <1>3 DEF Value

(* A read that goes on has not returned. *)
LEMMA StillReading ==
  ASSUME FileInv, NEW t \in Threads, get[t].at # "idle", NEW u \in Threads,
         GetOpen(u) \/ GetLine(u) \/ GetMatch(u) \/ ((GetEnd(u) \/ GetUse(u)) /\ u # t)
  PROVE  get'[t].at # "idle"
<1>1. get \in [Threads -> Places] /\ get[t] \in Places /\ get[u] \in Places
  BY InPlace
<1>2. CASE GetLine(u)
  <2> DEFINE moved == [get EXCEPT ![u].at = "match", ![u].pos = @ + 1]
  <2>1. get' = Cross(moved, OnLine)
    BY <1>2 DEF GetLine
  <2>2. moved[t].at # "idle" /\ [moved[t] EXCEPT !.crossed = TRUE].at = moved[t].at
    <3>1. CASE u = t
      BY <1>1, <3>1 DEF Places
    <3>2. CASE u # t
      BY <1>1, <3>2 DEF Places
    <3> QED BY <3>1, <3>2
  <2> HIDE DEF moved
  <2> QED BY <2>1, <2>2 DEF Cross
<1>3. CASE GetMatch(u)
  <2>1. CASE u = t
    BY <1>1, <1>3, <2>1 DEF GetMatch, Places
  <2>2. CASE u # t
    BY <1>1, <1>3, <2>2 DEF GetMatch
  <2> QED BY <2>1, <2>2
<1>4. CASE GetOpen(u)
  <2>1. u # t
    BY <1>4 DEF GetOpen
  <2> QED BY <1>1, <1>4, <2>1 DEF GetOpen
<1>5. CASE (GetEnd(u) \/ GetUse(u)) /\ u # t
  BY <1>1, <1>5 DEF GetEnd, GetUse
<1> QED BY <1>2, <1>3, <1>4, <1>5

(* A read that no other thread crossed returns what the file has for its key  *)
(* in its section, unless a shorter key shadows it: for every file whose keys *)
(* are in their sections once, with any empty lines and keys that others      *)
(* begin with, every number of threads, and in whatever state a crash left    *)
(* the file.                                                                  *)
THEOREM UncrossedGetsRight == FileSpec => GetsRight
<1>1. ASSUME FileInv, [FileNext]_fileVars, NEW t \in Threads, get[t].at # "idle", get'[t].at = "idle",
             ~get[t].crossed, crashes' = crashes, ~Shadowed(get[t].key)
      PROVE  got'[t] = Value(disk, get[t].key)
  <2>1. /\ got \in [Threads -> Values \cup {Nil}] /\ Right(get[t]) /\ get[t].pos \in 0..Len(Lines)
        /\ get[t].key \in Keys /\ Len(disk) \in Nat /\ get[t].pos \in Nat
    <3>1. got \in [Threads -> Values \cup {Nil}] /\ Right(get[t]) /\ get[t].pos \in 0..Len(Lines)
      BY <1>1, InPlace
    <3>2. get[t].key \in Keys
      BY <1>1, <3>1 DEF Right
    <3> QED BY <1>1, <3>1, <3>2, PutFacts, TheLines
  <2>2. CASE GetEnd(t)
    <3>1. get[t].at = "line" /\ get[t].pos >= Len(disk) /\ got'[t] = Missing
      BY <2>1, <2>2 DEF GetEnd, Return
    <3>2. Scanned(get[t], get[t].pos)
      BY <1>1, <2>1, <3>1 DEF Right
    <3>3. \A i \in 1..Len(disk) : i \in 1..get[t].pos
      BY <2>1, <3>1
    <3> QED BY <1>1, <2>1, <3>1, <3>2, <3>3, ValueMissing DEF Scanned
  <2>3. CASE GetUse(t)
    <3> DEFINE k == get[t].key
               p == get[t].pos
    <3>1. /\ get[t].at = "use"
          /\ got'[t] = IF sLine.key = get[t].name THEN sLine.val ELSE Junk
      BY <2>1, <2>3 DEF GetUse, Return
    <3>2. /\ p \in 1..Len(disk) /\ sLine = disk[p] /\ sLine.key = get[t].name
          /\ Matches(disk[p].key, k) /\ get[t].inside /\ Scanned(get[t], p - 1)
      BY <1>1, <2>1, <3>1 DEF Right
    <3>3. /\ p \in 1..Len(Lines) /\ p \in Nat /\ \A i \in 1..Len(disk) : disk[i].key = Lines[i]
          /\ \A i \in 1..(p - 1) : i \in 1..Len(disk)
          /\ \A i \in 1..(p - 1) : \A j \in 1..(i - 1) : j \in 1..(p - 1)
      <4>1. Len(disk) <= Len(Lines) /\ \A i \in 1..Len(disk) : disk[i].key = Lines[i]
        BY <1>1, PutFacts DEF Like
      <4> QED BY <2>1, <3>2, <4>1, TheLines
    <3>4. \E j \in 1..(p - 1) : Titles(Lines[j], k)
      BY <3>2, <3>3 DEF Scanned
    <3>5. \A q \in 1..(p - 1) : Matches(Lines[q], k) => \A j \in 1..(q - 1) : ~Titles(Lines[j], k)
      BY <3>2, <3>3 DEF Scanned
    <3>6. Lines[p] = k
      BY <1>1, <2>1, <3>2, <3>3, <3>4, <3>5, TakenFirst
    <3> QED BY <1>1, <2>1, <3>1, <3>2, <3>3, <3>6, ValueFound
  <2>4. ASSUME NEW u \in Threads, Get(u), ~GetEnd(t), ~GetUse(t) PROVE FALSE
    BY <1>1, <2>4, StillReading DEF Get
  <2>5. CASE Crash
    BY <1>1, <2>5 DEF Crash, FileInv, FileTypeOK
  <2>6. CASE PutTruncate \/ PutLine
    <3>1. get[t] \in Places /\ get'[t] = [get[t] EXCEPT !.crossed = TRUE]
      BY <1>1, <2>6, InPlace DEF PutTruncate, PutLine, Cross, Reading
    <3> QED BY <1>1, <3>1 DEF Places
  <2>7. CASE Round \/ PutCall \/ PutLock \/ PutFail \/ PutRead \/ PutReturn \/ UNCHANGED fileVars
    BY <1>1, <2>7 DEF Round, PutCall, PutLock, PutFail, PutRead, PutReturn, readers, fileVars
  <2> QED BY <1>1, <2>2, <2>3, <2>4, <2>5, <2>6, <2>7 DEF FileNext, PutStep
<1>2. FileInv /\ [FileNext]_fileVars =>
        [\A t \in Threads :
           /\ get[t].at # "idle" /\ get'[t].at = "idle" /\ ~get[t].crossed /\ crashes' = crashes
           /\ ~Shadowed(get[t].key)
           => got'[t] = Value(disk, get[t].key)]_fileVars
  BY <1>1
<1> QED BY <1>2, FileInitInv, FileNextInv, PTL DEF FileSpec, GetsRight
==================================================================================
