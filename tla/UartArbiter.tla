----------------------------- MODULE UartArbiter -----------------------------
(***************************************************************************)
(* Who may talk on one RS-485 channel.  Two threads want the line:         *)
(*                                                                         *)
(*   Poll   the cmd_main thread in haas_data_read: one request per device, *)
(*          the flag held while it waits for the answer;                   *)
(*   Ctrl   the haas_mqtt thread in out_messageArrived: a device control   *)
(*          goes through haas_device_control and the flag, a light control *)
(*          through device_control_cmd, which transmits without it.        *)
(*                                                                         *)
(* The flag is s_uart_busy, a plain volatile bool: uart_channel_try_lock   *)
(* reads the clock, tests the flag, sets it and stamps it in separate      *)
(* steps, takes over a flag older than StealAfter seconds, and             *)
(* uart_channel_unlock clears it whoever set it.  s_uart_control_pending   *)
(* asks the poll to give way.  Every access to a shared variable is one    *)
(* step of its thread; time passes, and the clock may be set, between any  *)
(* two steps.                                                              *)
(***************************************************************************)
EXTENDS Integers

CONSTANTS
  NumDevices,    \* devices one round of haas_data_read polls
  FanRead,       \* TRUE when dev_type is 1: the round ends with the fan coil
  PollRetries,   \* attempts of the poll to get the flag (10 in the code)
  CtrlRetries,   \* further attempts of a control (5 in the code)
  StealAfter,    \* age in seconds after which a flag is taken over (5)
  MaxTime,       \* bound on the clock
  MaxClockSets   \* bound on the number of times the clock is set

ASSUME NumDevicesAssumption == NumDevices \in Nat
ASSUME FanReadAssumption == FanRead \in BOOLEAN
ASSUME RetriesAssumption == PollRetries \in Nat \ {0} /\ CtrlRetries \in Nat
ASSUME TimeAssumption == StealAfter \in Nat /\ MaxTime \in Nat /\ MaxClockSets \in Nat

VARIABLES
  busy,      \* s_uart_busy[uart]
  since,     \* s_uart_busy_since[uart]
  pending,   \* s_uart_control_pending[uart]
  waiting,   \* s_waiting_haas_th
  sent,      \* s_haas_data_send_time
  dev,       \* the poll's loop index i + 1; NumDevices + 1 is the fan read
  pc,        \* where each thread is
  entry,     \* each thread's local `now` of uart_channel_try_lock
  tries,     \* each thread's retry counter
  now,       \* what time(NULL) returns
  clockSets, \* how often the clock was set so far
  raced      \* history: the flag was set or cleared over another's TRUE

channelVars == <<busy, since, pending, waiting, sent, dev, pc, entry, tries, now,
                 clockSets, raced>>

Poll == "poll"
Ctrl == "ctrl"
Threads == {Poll, Ctrl}
Other(t) == IF t = Poll THEN Ctrl ELSE Poll

TryLock == {"enter", "try", "steal", "set"}
Held == {"stamp", "send", "arm", "wait", "unlock"}

\* The thread has set the flag and not yet cleared it.
Holds(t) == pc[t] \in Held

Rounds == NumDevices + (IF FanRead THEN 1 ELSE 0)

ChannelTypeOK ==
  /\ busy \in BOOLEAN /\ pending \in BOOLEAN /\ waiting \in BOOLEAN
  /\ since \in Nat /\ sent \in Nat /\ now \in Nat
  /\ dev \in Nat
  /\ pc \in [Threads -> {"idle", "check", "light", "clear"} \cup TryLock \cup Held]
  /\ entry \in [Threads -> Nat]
  /\ tries \in [Threads -> Nat]
  /\ clockSets \in Nat
  /\ raced \in BOOLEAN

ChannelInit ==
  /\ busy = FALSE /\ pending = FALSE /\ waiting = FALSE
  /\ since = 0 /\ sent = 0 /\ now = 0 /\ clockSets = 0
  /\ dev = 1
  /\ pc = [t \in Threads |-> "idle"]
  /\ entry = [t \in Threads |-> 0]
  /\ tries = [t \in Threads |-> 0]
  /\ raced = FALSE

Goto(t, l) == pc' = [pc EXCEPT ![t] = l]

-----------------------------------------------------------------------------
(* uart_channel_try_lock, shared by both threads.                          *)

\* Fault: the test for a pending control moved into the shared routine.
EnterYieldsToControl(t) ==
  /\ pc[t] = "enter" /\ ~pending
  /\ entry' = [entry EXCEPT ![t] = now]
  /\ Goto(t, "try")
  /\ UNCHANGED <<busy, since, pending, waiting, sent, dev, tries, now, clockSets, raced>>

\* time(NULL) is read before the flag is looked at.
Enter(t) ==
  /\ pc[t] = "enter"
  /\ entry' = [entry EXCEPT ![t] = now]
  /\ Goto(t, "try")
  /\ UNCHANGED <<busy, since, pending, waiting, sent, dev, tries, now, clockSets, raced>>

\* Fault: the skipped control returns with its request still raised.
FailKeepsRequest(t) ==
  /\ IF t = Poll
     THEN /\ tries' = [tries EXCEPT ![t] = @ + 1]
          /\ IF tries[t] + 1 < PollRetries
             THEN Goto(t, "check") /\ dev' = dev
             ELSE Goto(t, "idle") /\ dev' = dev + 1
     ELSE /\ dev' = dev
          /\ IF tries[t] < CtrlRetries
             THEN Goto(t, "enter") /\ tries' = [tries EXCEPT ![t] = @ + 1]
             ELSE Goto(t, "idle") /\ tries' = tries

\* The poll counts a failed attempt and goes to its next device after the
\* last one; a control clears its request and returns.
Fail(t) ==
  /\ IF t = Poll
     THEN /\ tries' = [tries EXCEPT ![t] = @ + 1]
          /\ IF tries[t] + 1 < PollRetries
             THEN Goto(t, "check") /\ dev' = dev
             ELSE Goto(t, "idle") /\ dev' = dev + 1
     ELSE /\ dev' = dev
          /\ IF tries[t] < CtrlRetries
             THEN Goto(t, "enter") /\ tries' = [tries EXCEPT ![t] = @ + 1]
             ELSE Goto(t, "clear") /\ tries' = tries

\* The flag is tested; one that looks old enough is to be taken over.
Try(t) ==
  /\ pc[t] = "try"
  /\ \/ ~busy /\ Goto(t, "set") /\ UNCHANGED <<tries, dev>>
     \/ /\ busy /\ entry[t] - since > StealAfter
        /\ Goto(t, "steal") /\ UNCHANGED <<tries, dev>>
     \/ busy /\ entry[t] - since <= StealAfter /\ Fail(t)
  /\ UNCHANGED <<busy, since, pending, waiting, sent, entry, now, clockSets, raced>>

\* busy := false, whatever the flag is by now.
Steal(t) ==
  /\ pc[t] = "steal"
  /\ busy' = FALSE
  /\ raced' = (raced \/ busy)
  /\ Goto(t, "set")
  /\ UNCHANGED <<since, pending, waiting, sent, dev, entry, tries, now, clockSets>>

\* busy := true, whatever the flag is by now.
Set(t) ==
  /\ pc[t] = "set"
  /\ busy' = TRUE
  /\ raced' = (raced \/ busy)
  /\ Goto(t, "stamp")
  /\ UNCHANGED <<since, pending, waiting, sent, dev, entry, tries, now, clockSets>>

\* The stamp is the clock of the entry, not of this moment.  The locals are
\* dead from here on; they go back to 0.
Stamp(t) ==
  /\ pc[t] = "stamp"
  /\ since' = entry[t]
  /\ entry' = [entry EXCEPT ![t] = 0]
  /\ tries' = [tries EXCEPT ![t] = 0]
  /\ Goto(t, "send")
  /\ UNCHANGED <<busy, pending, waiting, sent, dev, now, clockSets, raced>>

\* uart_channel_unlock asks nobody whose flag it is.
Unlock(t) ==
  /\ pc[t] = "unlock"
  /\ busy' = FALSE
  /\ IF t = Poll
     THEN Goto(t, "idle") /\ dev' = dev + 1
     ELSE Goto(t, "clear") /\ dev' = dev
  /\ UNCHANGED <<since, pending, waiting, sent, entry, tries, now, clockSets, raced>>

LockStep(t) == Enter(t) \/ Try(t) \/ Steal(t) \/ Set(t) \/ Stamp(t) \/ Unlock(t)

-----------------------------------------------------------------------------
(* The poll: haas_data_read.                                               *)

\* The next device of the round; after the last one, the next round.
PollNext ==
  /\ pc[Poll] = "idle"
  /\ dev' = IF dev <= Rounds THEN dev ELSE 1
  /\ IF dev <= Rounds THEN Goto(Poll, "check") ELSE UNCHANGED pc
  /\ tries' = [tries EXCEPT ![Poll] = 0]
  /\ UNCHANGED <<busy, since, pending, waiting, sent, entry, now, clockSets, raced>>

\* A pending control costs the attempt; otherwise the flag is tried.
PollCheck ==
  /\ pc[Poll] = "check"
  /\ \/ pending /\ Fail(Poll)
     \/ ~pending /\ Goto(Poll, "enter") /\ UNCHANGED <<tries, dev>>
  /\ UNCHANGED <<busy, since, pending, waiting, sent, entry, now, clockSets, raced>>

\* uart_tx and add_pending_request.  The fan read does not wait.
PollSend ==
  /\ pc[Poll] = "send"
  /\ Goto(Poll, IF dev <= NumDevices THEN "arm" ELSE "unlock")
  /\ UNCHANGED <<busy, since, pending, waiting, sent, dev, entry, tries, now, clockSets, raced>>

\* Fault: the flag is given back before the wait.
PollArmReleases ==
  /\ pc[Poll] = "arm"
  /\ sent' = now
  /\ waiting' = TRUE
  /\ busy' = FALSE
  /\ Goto(Poll, "wait")
  /\ UNCHANGED <<since, pending, dev, entry, tries, now, clockSets, raced>>

\* Only now is the wait armed: an answer handled earlier is not noticed.
PollArm ==
  /\ pc[Poll] = "arm"
  /\ sent' = now
  /\ waiting' = TRUE
  /\ Goto(Poll, "wait")
  /\ UNCHANGED <<busy, since, pending, dev, entry, tries, now, clockSets, raced>>

\* Fault: the interrupted wait skips the unlock.
PollWaitLeaks ==
  /\ pc[Poll] = "wait"
  /\ ~waiting \/ pending \/ now - sent >= 1
  /\ waiting' = FALSE
  /\ Goto(Poll, IF pending THEN "idle" ELSE "unlock")
  /\ UNCHANGED <<busy, since, pending, sent, dev, entry, tries, now, clockSets, raced>>

\* Fault: the wait has no timeout.
PollWaitForever ==
  /\ pc[Poll] = "wait"
  /\ ~waiting \/ pending
  /\ waiting' = FALSE
  /\ Goto(Poll, "unlock")
  /\ UNCHANGED <<busy, since, pending, sent, dev, entry, tries, now, clockSets, raced>>

\* The wait ends on an answer, on a pending control, or after a second.
PollWait ==
  /\ pc[Poll] = "wait"
  /\ ~waiting \/ pending \/ now - sent >= 1
  /\ waiting' = FALSE
  /\ Goto(Poll, "unlock")
  /\ UNCHANGED <<busy, since, pending, sent, dev, entry, tries, now, clockSets, raced>>

PollStep == PollNext \/ PollCheck \/ PollSend \/ PollArm \/ PollWait \/ LockStep(Poll)

-----------------------------------------------------------------------------
(* The controls: haas_device_control and device_control_cmd.               *)

\* The request to give way is raised before the flag is tried.
CtrlCall ==
  /\ pc[Ctrl] = "idle"
  /\ pending' = TRUE
  /\ tries' = [tries EXCEPT ![Ctrl] = 0]
  /\ Goto(Ctrl, "enter")
  /\ UNCHANGED <<busy, since, waiting, sent, dev, entry, now, clockSets, raced>>

\* The frame is built and sent; invalid parameters send nothing.
CtrlSend ==
  /\ pc[Ctrl] = "send"
  /\ Goto(Ctrl, "unlock")
  /\ UNCHANGED <<busy, since, pending, waiting, sent, dev, entry, tries, now, clockSets, raced>>

\* After the unlock, or after the last failed attempt.
CtrlClear ==
  /\ pc[Ctrl] = "clear"
  /\ pending' = FALSE
  /\ Goto(Ctrl, "idle")
  /\ UNCHANGED <<busy, since, waiting, sent, dev, entry, tries, now, clockSets, raced>>

\* light_ctrl: uart_tx(1, ...) with neither the flag nor the request.
LightCall ==
  /\ pc[Ctrl] = "idle"
  /\ Goto(Ctrl, "light")
  /\ UNCHANGED <<busy, since, pending, waiting, sent, dev, entry, tries, now, clockSets, raced>>

LightDone ==
  /\ pc[Ctrl] = "light"
  /\ Goto(Ctrl, "idle")
  /\ UNCHANGED <<busy, since, pending, waiting, sent, dev, entry, tries, now, clockSets, raced>>

CtrlWork == CtrlSend \/ CtrlClear \/ LightDone \/ LockStep(Ctrl)
CtrlStep == CtrlCall \/ LightCall \/ CtrlWork

-----------------------------------------------------------------------------
(* The draining thread's haas_device_dataRead, and the clock.              *)

Answer ==
  /\ waiting
  /\ waiting' = FALSE
  /\ UNCHANGED <<busy, since, pending, sent, dev, pc, entry, tries, now, clockSets, raced>>

Tick ==
  /\ now < MaxTime
  /\ now' = now + 1
  /\ UNCHANGED <<busy, since, pending, waiting, sent, dev, pc, entry, tries, clockSets, raced>>

\* The clock is set, forwards or backwards, by the system (NTP).
ClockSet ==
  /\ clockSets < MaxClockSets
  /\ clockSets' = clockSets + 1
  /\ now' \in 0..MaxTime
  /\ UNCHANGED <<busy, since, pending, waiting, sent, dev, pc, entry, tries, raced>>

ChannelNext == PollStep \/ CtrlStep \/ Answer \/ Tick \/ ClockSet

\* Both threads keep running and the clock keeps ticking; nothing promises
\* that a control ever arrives, that a device answers or that the clock is set.
Fairness == WF_channelVars(PollStep) /\ WF_channelVars(CtrlWork) /\ WF_channelVars(Tick)

ChannelSpec == ChannelInit /\ [][ChannelNext]_channelVars /\ Fairness

-----------------------------------------------------------------------------
(* Properties.                                                             *)

\* The flag is never left set with nobody to clear it: every path through
\* haas_data_read and haas_device_control that set it still has its unlock
\* ahead, the interrupted wait and the skipped transmission included.
BusyHasHolder == busy => \E t \in Threads : Holds(t)

\* The request that keeps the poll off the line lives exactly as long as the
\* control that raised it, also when the control gives up: a request left
\* behind would stop polling for good.
Raised == pending <=> pc[Ctrl] \in TryLock \cup Held \cup {"clear"}
PendingIsControls == ChannelTypeOK /\ Raised

\* The only way two threads hold the channel at once, or one holds it with the
\* flag down, is that some try_lock overwrote a flag that was up at that
\* moment: the takeover of an old flag or the gap between test and set.
ExclusionUnlessRaced ==
  ~raced => /\ \A t \in Threads : Holds(t) => busy
            /\ ~(Holds(Poll) /\ Holds(Ctrl))

\* A control always comes back, sent or given up: no wait of it is unbounded
\* even when the poll never lets go.
ControlReturns == (pc[Ctrl] # "idle") ~> (pc[Ctrl] = "idle")

\* An answer that never comes costs the poll a second, not its thread: once
\* the clock has passed the second the wait is left, whatever the control
\* does and even if the clock is set back meanwhile.
PollWaitEnds == (pc[Poll] = "wait" /\ now > sent) ~> (pc[Poll] # "wait")
=============================================================================
