------------------------------- MODULE LossyFifo -------------------------------
(***************************************************************************)
(* What a message box of bfmsg.c promises: messages come out in the order  *)
(* they went in, each to one reader; one put into a box may push the       *)
(* oldest one out.                                                         *)
(***************************************************************************)
EXTENDS Integers, Sequences

CONSTANTS
  Messages,  \* the messages, numbered in the order they are written
  Depth      \* most messages in the box

VARIABLES
  queue,   \* the messages in the box, oldest first
  taken,   \* the messages handed to readers
  dropped  \* the messages pushed out

Init == queue = <<>> /\ taken = {} /\ dropped = {}

Put(m) ==
  /\ m \notin taken \cup dropped /\ \A i \in DOMAIN queue : queue[i] < m
  /\ Len(queue) < Depth
  /\ queue' = Append(queue, m)
  /\ UNCHANGED <<taken, dropped>>

Get ==
  /\ queue # <<>>
  /\ queue' = Tail(queue) /\ taken' = taken \cup {Head(queue)}
  /\ UNCHANGED dropped

Drop ==
  /\ queue # <<>>
  /\ queue' = Tail(queue) /\ dropped' = dropped \cup {Head(queue)}
  /\ UNCHANGED taken

Next == (\E m \in Messages : Put(m)) \/ Get \/ Drop

Spec == Init /\ [][Next]_<<queue, taken, dropped>>
================================================================================
