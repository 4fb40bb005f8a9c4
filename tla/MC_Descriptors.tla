---------------------------- MODULE MC_Descriptors ----------------------------
(* Lineups for TLC.  The order in which many threads open their files makes   *)
(* many states that differ in the numbers alone, so that each lineup leaves   *)
(* some of the threads out.                                                   *)
EXTENDS Descriptors

Of(senders, receivers, clients, others) ==
  {<<"send", s>> : s \in senders} \cup {<<"receive", l>> : l \in receivers}
  \cup {<<"client", c>> : c \in clients} \cup {<<o, 0>> : o \in others}

Sender == CHOOSE s \in Senders : TRUE

FirstFrames == Of(Senders, {}, Named, {})
Publishing == Of({Sender}, {}, Clients, {"data"})
Reading == Of({Sender}, Receivers, Named, {"errand"})
Reusing == Of({}, Receivers, Clients, {"data", "errand"})

SmallLineups == {FirstFrames, Publishing, Reading, Reusing}
===============================================================================
