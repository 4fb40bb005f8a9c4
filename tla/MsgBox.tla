--------------------------------- MODULE MsgBox ---------------------------------
(***************************************************************************)
(* A receive box of uart.c, with bfmsg.c underneath: uart_rx_task writes   *)
(* what it read from the line, and both MQTT loops take it out and handle  *)
(* it.  The queue itself is lfds711's; each of its operations is a step.   *)
(* A write to a full box is three of them, and the readers do not wait.    *)
(*                                                                         *)
(* A message is the buffer malloc'ed for it in write_uart_msg; who must    *)
(* free it follows it around.                                              *)
(***************************************************************************)
EXTENDS Integers, Sequences, FiniteSets

CONSTANTS
  Readers,      \* the threads that drain the box
  Depth,        \* UART_MSG_BOX_DEEP (64)
  MaxMessages,  \* bound on the number of messages
  None

ASSUME DepthAssumption == Depth \in Nat \ {0} /\ MaxMessages \in Nat
ASSUME NoneAssumption == None \notin 0..MaxMessages
ASSUME ReadersAssumption == IsFiniteSet(Readers)

VARIABLES
  ready,    \* whether the box exists: g_uartN_rx_box_handle # NULL
  queue,    \* the lfds711 queue
  place,    \* uart_rx_task's place in bfmsg_box_write
  hand,     \* the message it writes
  pushed,   \* overwrite_msg_type
  held,     \* per reader, the message taken out, or None
  written,  \* number of messages so far
  freed,    \* history: how often each buffer was freed
  taken,    \* history: the messages readers took
  handled   \* history: the messages handled, in order

vars == <<ready, queue, place, hand, pushed, held, written, freed, taken, handled>>

Messages == 1..MaxMessages

TypeOK ==
  /\ ready \in BOOLEAN
  /\ queue \in Seq(Messages) /\ Len(queue) <= Depth
  /\ place \in {"read", "enqueue", "dequeue", "again", "free"}
  /\ hand \in Messages \cup {None} /\ pushed \in Messages \cup {None}
  /\ held \in [Readers -> Messages \cup {None}]
  /\ written \in 0..MaxMessages
  /\ freed \in [Messages -> 0..2]
  /\ taken \subseteq Messages /\ handled \in Seq(Messages)

Init ==
  /\ ready = FALSE /\ queue = <<>>
  /\ place = "read" /\ hand = None /\ pushed = None
  /\ held = [r \in Readers |-> None]
  /\ written = 0 /\ freed = [m \in Messages |-> 0] /\ taken = {} /\ handled = <<>>

Free(m) == freed' = [freed EXCEPT ![m] = IF @ < 2 THEN @ + 1 ELSE 2]

-----------------------------------------------------------------------------
(* uart_rx_task and write_uart_msg.                                        *)

BoxInit ==
  /\ ~ready /\ ready' = TRUE
  /\ UNCHANGED <<queue, place, hand, pushed, held, written, freed, taken, handled>>

\* A round in which the line was silent.
ReceiveNothing == place = "read" /\ UNCHANGED vars

Receive ==
  /\ ready /\ place = "read" /\ written < MaxMessages
  /\ written' = written + 1 /\ hand' = written + 1
  /\ place' = "enqueue"
  /\ UNCHANGED <<ready, queue, pushed, held, freed, taken, handled>>

\* lfds711_queue_bmm_enqueue fails when the queue is full.
Enqueue ==
  /\ place = "enqueue"
  /\ \/ /\ Len(queue) < Depth
        /\ queue' = Append(queue, hand) /\ hand' = None /\ place' = "read"
     \/ /\ Len(queue) = Depth
        /\ place' = "dequeue" /\ UNCHANGED <<queue, hand>>
  /\ UNCHANGED <<ready, pushed, held, written, freed, taken, handled>>

\* Fault: the newest message is pushed out.
PushOutNewest ==
  /\ place = "dequeue" /\ place' = "again"
  /\ IF queue = <<>> THEN UNCHANGED <<queue, pushed>>
     ELSE queue' = SubSeq(queue, 1, Len(queue) - 1) /\ pushed' = queue[Len(queue)]
  /\ UNCHANGED <<ready, hand, held, written, freed, taken, handled>>

\* By now the readers may have emptied the queue.
PushOut ==
  /\ place = "dequeue" /\ place' = "again"
  /\ \/ queue = <<>> /\ UNCHANGED <<queue, pushed>>
     \/ queue # <<>> /\ queue' = Tail(queue) /\ pushed' = Head(queue)
  /\ UNCHANGED <<ready, hand, held, written, freed, taken, handled>>

\* The result of the second enqueue is not looked at.
EnqueueAgain ==
  /\ place = "again" /\ place' = "free"
  /\ queue' = IF Len(queue) < Depth THEN Append(queue, hand) ELSE queue
  /\ hand' = None
  /\ UNCHANGED <<ready, pushed, held, written, freed, taken, handled>>

\* Fault: the buffer pushed out is not freed.
FreePushedNot ==
  /\ place = "free" /\ place' = "read"
  /\ pushed' = None /\ freed' = freed
  /\ UNCHANGED <<ready, queue, hand, held, written, taken, handled>>

FreePushed ==
  /\ place = "free" /\ place' = "read"
  /\ pushed' = None
  /\ IF pushed = None THEN freed' = freed ELSE Free(pushed)
  /\ UNCHANGED <<ready, queue, hand, held, written, taken, handled>>

-----------------------------------------------------------------------------
(* read_uart_msg and the loops around it.  The buffer is copied and freed   *)
(* before the copy is handled, so that only the copy is held.              *)

\* Fault: the newest message is taken.
DequeueNewest(r) ==
  /\ ready /\ queue # <<>> /\ held[r] = None
  /\ held' = [held EXCEPT ![r] = queue[Len(queue)]] /\ taken' = taken \cup {queue[Len(queue)]}
  /\ queue' = SubSeq(queue, 1, Len(queue) - 1)
  /\ Free(queue[Len(queue)])
  /\ UNCHANGED <<ready, place, hand, pushed, written, handled>>

\* Fault: the last message is left in the queue.
DequeueShort(r) ==
  /\ ready /\ Len(queue) > 1 /\ held[r] = None
  /\ held' = [held EXCEPT ![r] = Head(queue)] /\ taken' = taken \cup {Head(queue)}
  /\ queue' = Tail(queue)
  /\ Free(Head(queue))
  /\ UNCHANGED <<ready, place, hand, pushed, written, handled>>

Dequeue(r) ==
  /\ ready /\ queue # <<>> /\ held[r] = None
  /\ held' = [held EXCEPT ![r] = Head(queue)] /\ taken' = taken \cup {Head(queue)}
  /\ queue' = Tail(queue)
  /\ Free(Head(queue))
  /\ UNCHANGED <<ready, place, hand, pushed, written, handled>>

\* on_uart_1_read, on_uart_2_read.
Handle(r) ==
  /\ held[r] # None
  /\ handled' = Append(handled, held[r])
  /\ held' = [held EXCEPT ![r] = None]
  /\ UNCHANGED <<ready, queue, place, hand, pushed, written, freed, taken>>

Write == Enqueue \/ PushOut \/ EnqueueAgain \/ FreePushed
Next ==
  \/ BoxInit \/ ReceiveNothing \/ Receive \/ Write
  \/ \E r \in Readers : Dequeue(r) \/ Handle(r)

Spec == Init /\ [][Next]_vars

\* The loops keep running, in so far as their connection lets them.
FairSpec ==
  /\ Spec
  /\ WF_vars(Write)
  /\ WF_vars(\E r \in Readers : Dequeue(r)) /\ \A r \in Readers : WF_vars(Handle(r))

-----------------------------------------------------------------------------
(* Properties.                                                             *)

InQueue == {queue[i] : i \in DOMAIN queue}

\* Every buffer is in exactly one place until it is freed, and it is freed once:
\* no leak, no use after free.
Gone == {m \in Messages : freed[m] > 0}
BuffersAccounted ==
  /\ TypeOK
  /\ \A m \in Messages : freed[m] <= 1
  /\ 1..written = Gone \cup InQueue \cup ({hand, pushed} \ {None})
  /\ Gone \cap (InQueue \cup {hand, pushed}) = {} /\ Cardinality(InQueue) = Len(queue)
  /\ hand \notin InQueue /\ pushed \notin InQueue

\* With one reader messages are handled in the order of the line; with more, a
\* message overtakes at most one for each other reader.
Overtaken(i) == {j \in (i + 1)..Len(handled) : handled[j] < handled[i]}
OvertakingBounded ==
  \A i \in DOMAIN handled : Cardinality(Overtaken(i)) < Cardinality(Readers)

\* The box is a lossy FIFO, although a write to a full one takes three steps.
Dropped == 1..written \ (taken \cup InQueue \cup {hand})
Fifo == INSTANCE LossyFifo WITH dropped <- Dropped
IsLossyFifo == Fifo!Spec

\* A write returns, whatever the readers do, and a message in the queue leaves it.
QueueMoves ==
  /\ place # "read" ~> place = "read"
  /\ \A m \in Messages : m \in InQueue ~> m \notin InQueue
================================================================================
