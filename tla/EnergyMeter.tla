------------------------------ MODULE EnergyMeter ------------------------------
(***************************************************************************)
(* The energy meter behind register 0x110E (dev_type 3) and the accounting *)
(* of its energy: a window's value is read, then the meter is cleared.     *)
(*                                                                         *)
(* The threads that drain the receive box store an answer word by word.    *)
(* After each word update_energy_window may capture: it tests the request, *)
(* takes the value, takes the request back and sends the clear frame, each *)
(* a step of its own here, for another thread may capture in between and   *)
(* cmd_main may request the next window.  The frame is a broadcast: no     *)
(* slave acknowledges it.  One word and the value recomputed from it are   *)
(* one step; the flags the uploads look at are EnergyWindow's.             *)
(***************************************************************************)
EXTENDS RegisterSlots

CONSTANTS
  Drainers,    \* the threads that drain the receive box
  WordBase,    \* values of a word (2^16)
  MaxUsed,     \* bound on the energy used
  MaxWindows,  \* bound on the number of windows
  BoxDepth     \* bound on the answers waiting

ASSUME MeterAssumption == WordBase \in Nat \ {0} /\ MaxUsed \in Nat
                          /\ MaxWindows \in Nat /\ BoxDepth \in Nat \ {0}

VARIABLES
  used,       \* all the energy used so far
  meter,      \* what the meter shows
  clears,     \* how often it has been cleared
  box,        \* answers in the receive box: what the meter showed, and how
              \* often it had been cleared by then
  job,        \* per thread, the answer it stores, its next word and where the
              \* thread is in it, or None
  slot,       \* g_register_data of the entry of 0x110E
  since,      \* of the word stored last: how often the meter had been cleared
  requested,  \* s_window_capture_requested
  captured,   \* g_energy_window_value_wh
  windows,    \* number of windows ended
  booked,     \* history: the sum of all captures
  open,       \* history: the capture whose energy no clear frame has taken off
              \* the meter yet: which thread's and how much, or None
  excess,     \* history: what lost clear frames, stale answers and overlapping
              \* captures have booked again
  shown       \* history: the values the meter has shown when read

vars == <<used, meter, clears, box, job, slot, since, requested, captured, windows,
          booked, open, excess, shown>>
accounts == <<captured, booked, open, excess>>
site == <<used, meter, clears, shown>>

Energy == RegisterMap[1]
Width == IF Energy.kind = "pair" THEN 2 ELSE 1

\* High word first.
Word(e, k) == IF k = Width - 1 THEN e % WordBase ELSE (e \div WordBase) % WordBase
Number(v) == IF Width = 1 THEN v[0] ELSE v[0] * WordBase + v[1]

Answer == [shows : Nat, since : Nat]
Job == [answer : Answer, next : 0..(Width - 1),
        at : {"store", "test", "value", "reset", "clear"}]
Capture == [by : Drainers, wh : Nat]

ASSUME NoneAssumption ==
  None \notin Job /\ None \notin Capture /\ None \notin 0..(WordBase - 1)

Owed == IF open = None THEN 0 ELSE open.wh

TypeOK ==
  /\ used \in 0..MaxUsed /\ meter \in 0..used /\ clears \in Nat
  /\ box \in Seq(Answer) /\ Len(box) <= BoxDepth
  /\ job \in [Drainers -> Job \cup {None}]
  /\ slot \in [0..(MaxLen - 1) -> 0..(WordBase - 1) \cup {None}]
  /\ since \in Nat
  /\ requested \in BOOLEAN /\ captured \in Nat
  /\ windows \in 0..MaxWindows /\ booked \in Nat /\ excess \in Nat
  /\ open # None => open \in Capture
  /\ excess + Owed <= booked
  /\ shown \subseteq 0..MaxUsed

Init ==
  /\ used = 0 /\ meter = 0 /\ clears = 0 /\ box = <<>>
  /\ job = [t \in Drainers |-> None]
  /\ slot = EmptySlot /\ since = 0
  /\ requested = FALSE /\ captured = 0 /\ windows = 0
  /\ booked = 0 /\ open = None /\ excess = 0 /\ shown = {0}

Use ==
  /\ used < MaxUsed
  /\ used' = used + 1 /\ meter' = meter + 1
  /\ UNCHANGED <<clears, box, job, slot, since, requested, accounts, windows, shown>>

\* haas_energy_type2_full_read, when the meter answers.
FullRead ==
  /\ Len(box) < BoxDepth
  /\ box' = Append(box, [shows |-> meter, since |-> clears]) /\ shown' = shown \cup {meter}
  /\ UNCHANGED <<used, meter, clears, job, slot, since, requested, accounts, windows>>

\* haas_energy_type2_window_cycle: the request comes before its reading, so an
\* answer that is still in the box may serve it.
WindowCycle ==
  /\ windows < MaxWindows /\ windows' = windows + 1
  /\ requested' = TRUE
  /\ UNCHANGED <<site, box, job, slot, since, accounts>>

Take(t) ==
  /\ job[t] = None /\ box # <<>>
  /\ job' = [job EXCEPT ![t] = [answer |-> Head(box), next |-> 0, at |-> "store"]]
  /\ box' = Tail(box)
  /\ UNCHANGED <<site, slot, since, requested, accounts, windows>>

-----------------------------------------------------------------------------
(* One call of store_register_data for the entry, and update_energy_window *)
(* at its end.                                                             *)

At(t, place) == job[t] # None /\ job[t].at = place
Goto(t, place) == job' = [job EXCEPT ![t].at = place]

\* The call returns: on to the next word, if there is one.
Return(t) ==
  LET j == job[t]
  IN  job' = [job EXCEPT ![t] =
        IF j.next + 1 < Width THEN [answer |-> j.answer, next |-> j.next + 1, at |-> "store"]
        ELSE None]

HasValue == Aggregated(slot, Energy.len, Energy.kind)
Reading == Number(Value(slot, Energy.len, Energy.kind))

StoreWord(t) ==
  /\ At(t, "store")
  /\ slot' = PutWord(slot, job[t].next, Word(job[t].answer.shows, job[t].next))
  /\ since' = job[t].answer.since
  /\ IF HasValue' THEN Goto(t, "test") ELSE Return(t)
  /\ UNCHANGED <<site, box, requested, accounts, windows>>

Test(t) ==
  /\ At(t, "test")
  /\ IF requested THEN Goto(t, "value") ELSE Return(t)
  /\ UNCHANGED <<site, box, slot, since, requested, accounts, windows>>

\* The energy was read after the last clear, and no other thread has taken it
\* in between.
Fresh == since = clears /\ open = None

TakeValue(t) ==
  /\ At(t, "value") /\ Goto(t, "reset")
  /\ captured' = Reading /\ booked' = booked + Reading
  /\ IF Fresh THEN open' = [by |-> t, wh |-> Reading] /\ UNCHANGED excess
              ELSE excess' = excess + Reading /\ UNCHANGED open
  /\ UNCHANGED <<site, box, slot, since, requested, windows>>

ResetRequest(t) ==
  /\ At(t, "reset") /\ Goto(t, "clear")
  /\ requested' = FALSE
  /\ UNCHANGED <<site, box, slot, since, accounts, windows>>

\* Fault: the clear frame is forgotten.
ClearForgotten(t) ==
  /\ At(t, "clear") /\ Return(t)
  /\ open' = IF open # None /\ open.by = t THEN None ELSE open
  /\ UNCHANGED <<site, excess, box, slot, since, requested, captured, booked, windows>>

\* send_clear_frames; whether the meter hears the frame is open.
SendClear(t) ==
  /\ At(t, "clear") /\ Return(t)
  /\ \/ /\ meter' = 0 /\ clears' = clears + 1 /\ open' = None
        /\ UNCHANGED excess
     \/ /\ IF open # None /\ open.by = t
           THEN open' = None /\ excess' = excess + open.wh
           ELSE UNCHANGED <<open, excess>>
        /\ UNCHANGED <<meter, clears>>
  /\ UNCHANGED <<used, shown, box, slot, since, requested, captured, booked, windows>>

Next ==
  \/ Use \/ FullRead \/ WindowCycle
  \/ \E t \in Drainers :
       Take(t) \/ StoreWord(t) \/ Test(t) \/ TakeValue(t) \/ ResetRequest(t) \/ SendClear(t)

Spec == Init /\ [][Next]_vars

-----------------------------------------------------------------------------
(* Properties.                                                             *)

\* No energy enters two windows but by a clear frame that is lost, an answer
\* read before the last clear, or a capture that another thread makes before
\* the clear frame of the last one is out: without those, what the windows hold
\* and what the meter shows beyond the capture under way add up to no more than
\* was used.  A value of two words breaks this, see CapturedWhole.
NothingBookedTwice ==
  /\ TypeOK
  /\ open # None => At(open.by, "reset") \/ At(open.by, "clear")
  /\ Width = 1 => Owed <= meter /\ booked + (meter - Owed) <= used + excess

\* What recalc_register_outputs says of itself: a value is made of registers
\* that are completely written.  The captured value is one the meter showed.
CapturedWhole == captured \in shown
===============================================================================
