----------------------------- MODULE MC_EnergyMeter -----------------------------
(* The entry of register 0x110E as a 16 bit and as a 32 bit value. *)
EXTENDS EnergyMeter

MeterWord == << [slave |-> 10, reg |-> 4366, len |-> 1, cmd |-> 3, kind |-> "word"] >>
MeterPair == << [slave |-> 10, reg |-> 4366, len |-> 2, cmd |-> 3, kind |-> "pair"] >>
=================================================================================
