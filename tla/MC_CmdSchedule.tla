----------------------------- MODULE MC_CmdSchedule -----------------------------
(* What cmd_main does, by the type of the installation.  With an energy meter  *)
(* there is no table, and CmdSchedule runs: the clock goes back by more than a *)
(* window, back by less, and forward; upload_time does not fit the variable.   *)
(* With polled devices DeviceDecode runs: every type, its words at the bounds  *)
(* of its decoding, answers that make a value and such that make none, two     *)
(* devices at a time.                                                          *)
EXTENDS CmdSchedule, DeviceDecode

ClockSteps == {-10, -3, 4}

Shows(type, words) == [type |-> type, words |-> words]
NoDevices == <<>>
AB == 16706   \* two letters
CR == 3328    \* the end of a text
DeviceTables ==
  {NoDevices,
   <<Shows(1, <<3999, 1>>), Shows(4, <<40000>>)>>,
   <<Shows(2, <<CR, AB>>), Shows(3, <<20001, 1>>)>>,
   <<Shows(5, <<63488>>), Shows(4, <<2001, 1>>)>>,
   <<Shows(5, <<32768, 1>>), Shows(0, <<7>>)>>,
   <<Shows(2, <<AB, CR>>), Shows(6, <<1, 1>>)>>}

HasMeter == table = NoDevices
BothInit == Init /\ PollInit
BothNext ==
  \/ HasMeter /\ Next /\ UNCHANGED pollVars
  \/ ~HasMeter /\ PollNext /\ UNCHANGED vars
BothSpec == BothInit /\ [][BothNext]_<<vars, pollVars>> /\ PollFairness
=================================================================================
