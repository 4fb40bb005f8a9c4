------------------------------ MODULE MC_Sniffer ------------------------------
(* Installations for TLC: two polled lines whose slaves and frames fail, two  *)
(* quiet lines with writes of every kind, one line with every fault, and one  *)
(* line whose coils are read three bytes at a time.  Or, at no line at all,   *)
(* the calls that several threads make on the table with nothing between them.*)
EXTENDS ModbusSniffer, PendingRace

Started(chans, slaves, funcs, regs, counts, write) ==
  {x \in Transaction :
     /\ x.chan \in chans /\ x.slave \in slaves /\ x.func \in funcs
     /\ x.reg \in regs /\ x.count \in counts /\ x.write <= write}

SiteAsks ==
  [polled |-> Started({1, 2}, {1, 2}, {1, 6}, {0, 1}, 1..2, 1),
   quiet  |-> Started({1, 2}, {1, 2}, {3, 5, 6, 16}, {0, 1}, 1..2, 3),
   rough  |-> Started({1}, {1}, {1, 6, 16}, {0}, 1..3, 1),
   coils  |-> Started({1}, {1}, {1}, {0, 1}, 1..3, 0)]

SiteFaults ==
  [polled |-> {"silent", "slow", "unseenWrite", "unseenAnswer"},
   quiet  |-> {},
   rough  |-> FaultNames,
   coils  |-> {}]
PassingSites == {"polled", "quiet", "rough"}
AllAsks == [s \in PassingSites |-> SiteAsks[s]]
AllFaults == [s \in PassingSites |-> SiteFaults[s]]
CoilAsks == [s \in {"coils"} |-> SiteAsks[s]]
CoilFaults == [s \in {"coils"} |-> SiteFaults[s]]

-----------------------------------------------------------------------------
Does(t, kind, slave, func, reg) ==
  [thread |-> t, kind |-> kind, chan |-> 1, slave |-> slave, func |-> func, reg |-> reg]

\* polled: cmd_main polls two slaves and cleans up, one MQTT thread handles what
\* comes back.  sniffed: both MQTT threads handle frames.  three: one key, met by
\* two answers while it is added anew.  alone: nobody, at a line.
UserJobs ==
  [polled |-> {Does("cmd", "same", 1, 3, 0), Does("cmd", "same", 2, 3, 0), Does("cmd", "clean", 0, 0, 0),
               Does("mqtt", "match", 1, 3, 0), Does("mqtt", "write", 1, 6, 0)},
   sniffed |-> {Does("mqtt", "same", 1, 3, 0), Does("haas", "same", 1, 3, 1), Does("haas", "same", 1, 16, 0),
                Does("haas", "confirm", 1, 16, 0)},
   three |-> {Does("cmd", "same", 2, 3, 0), Does("cmd", "same", 1, 3, 0),
              Does("mqtt", "match", 2, 3, 0), Does("haas", "match", 2, 3, 0)},
   alone |-> {}]

AtLine == lineup = "alone"
BothInit == Init /\ RaceInit /\ (AtLine \/ site = CHOOSE s \in Sites : TRUE)
BothNext ==
  \/ AtLine /\ Next /\ UNCHANGED raceVars
  \/ ~AtLine /\ RaceNext /\ UNCHANGED vars
BothSpec == BothInit /\ [][BothNext]_<<vars, raceVars>>
===============================================================================
