------------------------------- MODULE UartProofs -------------------------------
(***************************************************************************)
(* Results about a UART, for every value of the constants.                 *)
(*                                                                         *)
(* Sending: what the lock of UartArbiter does guarantee, for any number of *)
(* devices, retries and seconds.  The three safety invariants are          *)
(* inductive together with the type invariant: an unlock needs "one        *)
(* holder" to keep the flag and its holder together, and "one holder"      *)
(* needs "a holder keeps the flag up" when the next thread sets it.        *)
(*                                                                         *)
(* Receiving: MsgBox, for any depth, any number of readers and messages.   *)
(* No buffer is lost or freed twice, the box is a lossy FIFO, and a        *)
(* message overtakes at most one for each other reader.                    *)
(***************************************************************************)
EXTENDS UartArbiter, MsgBox, FiniteSetTheorems, SequenceTheorems, TLAPS

-----------------------------------------------------------------------------
(* The channel.                                                              *)

ChannelInv == ChannelTypeOK /\ BusyHasHolder /\ Raised /\ ExclusionUnlessRaced

LEMMA ThreadsAre == Threads = {Poll, Ctrl} /\ Poll # Ctrl
BY DEF Threads, Poll, Ctrl

LEMMA ChannelInvInit == ChannelInit => ChannelInv
<1> SUFFICES ASSUME ChannelInit PROVE ChannelInv
  OBVIOUS
<1>1. ChannelTypeOK
  BY DEF ChannelInit, ChannelTypeOK, TryLock, Held
<1>2. \A t \in Threads : pc[t] = "idle"
  BY DEF ChannelInit
<1>3. ~busy /\ ~pending
  BY DEF ChannelInit
<1>4. BusyHasHolder
  BY <1>3 DEF BusyHasHolder
<1>5. Raised
  BY <1>2, <1>3, ThreadsAre DEF Raised, TryLock, Held
<1>6. ExclusionUnlessRaced
  BY <1>2, ThreadsAre DEF ExclusionUnlessRaced, Holds, Held
<1> QED BY <1>1, <1>4, <1>5, <1>6 DEF ChannelInv

\* What a failed attempt leaves alone.
LEMMA FailKeeps ==
  ASSUME NEW t \in Threads, ChannelTypeOK, Fail(t), pc[t] \in {"check", "try"},
         UNCHANGED <<busy, since, pending, waiting, sent, entry, now, clockSets, raced>>
  PROVE  /\ ChannelTypeOK'
         /\ \A u \in Threads : Holds(u)' <=> Holds(u)
         /\ t = Poll => pc'[Ctrl] = pc[Ctrl]
         /\ t = Ctrl => pc'[Ctrl] \in {"enter", "clear"}
BY DEF ChannelTypeOK, Fail, Goto, Holds, Held, TryLock, Threads, Poll, Ctrl

LEMMA LockStepKeeps ==
  ASSUME NEW t \in Threads, ChannelInv, LockStep(t)
  PROVE  ChannelInv'
<1> USE ThreadsAre DEF ChannelInv
<1>1. CASE Enter(t)
  BY <1>1 DEF Enter, Goto, ChannelTypeOK, BusyHasHolder, Raised,
     ExclusionUnlessRaced, Holds, Held, TryLock, Threads, Poll, Ctrl
<1>2. CASE Try(t)
  <2>1. CASE ~busy
    BY <1>2, <2>1 DEF Try, Goto, ChannelTypeOK, BusyHasHolder, Raised,
       ExclusionUnlessRaced, Holds, Held, TryLock, Threads, Poll, Ctrl
  <2>2. CASE busy /\ Goto(t, "steal") /\ UNCHANGED <<tries, dev>>
    BY <1>2, <2>2 DEF Try, Goto, ChannelTypeOK, BusyHasHolder, Raised,
       ExclusionUnlessRaced, Holds, Held, TryLock, Threads, Poll, Ctrl
  <2>3. CASE busy /\ Fail(t)
    <3>1. /\ ChannelTypeOK'
          /\ \A u \in Threads : Holds(u)' <=> Holds(u)
          /\ t = Poll => pc'[Ctrl] = pc[Ctrl]
          /\ t = Ctrl => pc'[Ctrl] \in {"enter", "clear"}
      BY <1>2, <2>3, FailKeeps DEF Try
    <3>2. UNCHANGED <<busy, pending, raced>> /\ pc[t] = "try"
      BY <1>2 DEF Try
    <3>3. BusyHasHolder' /\ ExclusionUnlessRaced'
      BY <3>1, <3>2 DEF BusyHasHolder, ExclusionUnlessRaced
    <3>4. Raised'
      BY <3>1, <3>2 DEF Raised, TryLock, Held
    <3> QED BY <3>1, <3>3, <3>4
  <2> QED BY <1>2, <2>1, <2>2, <2>3 DEF Try
<1>3. CASE Steal(t)
  BY <1>3 DEF Steal, Goto, ChannelTypeOK, BusyHasHolder, Raised,
     ExclusionUnlessRaced, Holds, Held, TryLock, Threads, Poll, Ctrl
<1>4. CASE Set(t)
  BY <1>4 DEF Set, Goto, ChannelTypeOK, BusyHasHolder, Raised,
     ExclusionUnlessRaced, Holds, Held, TryLock, Threads, Poll, Ctrl
<1>5. CASE Stamp(t)
  BY <1>5 DEF Stamp, Goto, ChannelTypeOK, BusyHasHolder, Raised,
     ExclusionUnlessRaced, Holds, Held, TryLock, Threads, Poll, Ctrl
<1>6. CASE Unlock(t)
  <2>1. ~busy' /\ UNCHANGED <<pending, raced>> /\ Holds(t)
    BY <1>6 DEF Unlock, Holds, Held
  <2>2. pc' = [pc EXCEPT ![t] = IF t = Poll THEN "idle" ELSE "clear"]
    BY <1>6 DEF Unlock, Goto
  <2>3. ChannelTypeOK'
    <3>1. dev' \in Nat
      <4>1. dev' = dev \/ dev' = dev + 1
        BY <1>6 DEF Unlock
      <4> QED BY <4>1 DEF ChannelTypeOK
    <3>2. pc' \in [Threads -> {"idle", "check", "light", "clear"} \cup TryLock \cup Held]
      BY <2>2 DEF ChannelTypeOK
    <3>3. UNCHANGED <<since, pending, waiting, sent, entry, tries, now, clockSets, raced>>
      BY <1>6 DEF Unlock
    <3>4. busy' \in BOOLEAN
      BY <2>1, <1>6 DEF Unlock
    <3> QED BY <3>1, <3>2, <3>3, <3>4, Zenon DEF ChannelTypeOK
  <2>4. \A u \in Threads : Holds(u)' => Holds(u) /\ u # t
    BY <2>2 DEF Holds, Held, ChannelTypeOK
  <2>5. BusyHasHolder'
    BY <2>1 DEF BusyHasHolder
  <2>6. Raised'
    BY <1>6, <2>1, <2>2 DEF Raised, Unlock, ChannelTypeOK, TryLock, Held
  <2>7. ExclusionUnlessRaced'
    BY <2>1, <2>4 DEF ExclusionUnlessRaced
  <2> QED BY <2>3, <2>5, <2>6, <2>7
<1> QED BY <1>1, <1>2, <1>3, <1>4, <1>5, <1>6 DEF LockStep

LEMMA PollStepKeeps ==
  ASSUME ChannelInv, PollStep
  PROVE  ChannelInv'
<1> USE ThreadsAre DEF ChannelInv
<1>1. CASE PollNext
  BY <1>1 DEF PollNext, Goto, ChannelTypeOK, BusyHasHolder, Raised,
     ExclusionUnlessRaced, Holds, Held, TryLock, Threads, Poll, Ctrl
<1>2. CASE PollCheck
  <2>1. CASE ~pending
    BY <1>2, <2>1 DEF PollCheck, Goto, ChannelTypeOK, BusyHasHolder, Raised,
       ExclusionUnlessRaced, Holds, Held, TryLock, Threads, Poll, Ctrl
  <2>2. CASE pending
    <3>1. /\ ChannelTypeOK'
          /\ \A u \in Threads : Holds(u)' <=> Holds(u)
          /\ pc'[Ctrl] = pc[Ctrl]
      BY <1>2, <2>2, FailKeeps DEF PollCheck
    <3>2. UNCHANGED <<busy, pending, raced>>
      BY <1>2 DEF PollCheck
    <3>3. BusyHasHolder' /\ ExclusionUnlessRaced' /\ Raised'
      BY <3>1, <3>2 DEF BusyHasHolder, ExclusionUnlessRaced, Raised
    <3> QED BY <3>1, <3>3
  <2> QED BY <2>1, <2>2
<1>3. CASE PollSend
  BY <1>3 DEF PollSend, Goto, ChannelTypeOK, BusyHasHolder, Raised,
     ExclusionUnlessRaced, Holds, Held, TryLock, Threads, Poll, Ctrl
<1>4. CASE PollArm
  BY <1>4 DEF PollArm, Goto, ChannelTypeOK, BusyHasHolder, Raised,
     ExclusionUnlessRaced, Holds, Held, TryLock, Threads, Poll, Ctrl
<1>5. CASE PollWait
  BY <1>5 DEF PollWait, Goto, ChannelTypeOK, BusyHasHolder, Raised,
     ExclusionUnlessRaced, Holds, Held, TryLock, Threads, Poll, Ctrl
<1>6. CASE LockStep(Poll)
  BY <1>6, LockStepKeeps
<1> QED BY <1>1, <1>2, <1>3, <1>4, <1>5, <1>6 DEF PollStep

LEMMA CtrlStepKeeps ==
  ASSUME ChannelInv, CtrlStep
  PROVE  ChannelInv'
<1> USE ThreadsAre DEF ChannelInv
<1>1. CASE CtrlCall
  BY <1>1 DEF CtrlCall, Goto, ChannelTypeOK, BusyHasHolder, Raised,
     ExclusionUnlessRaced, Holds, Held, TryLock, Threads, Poll, Ctrl
<1>2. CASE CtrlSend
  BY <1>2 DEF CtrlSend, Goto, ChannelTypeOK, BusyHasHolder, Raised,
     ExclusionUnlessRaced, Holds, Held, TryLock, Threads, Poll, Ctrl
<1>3. CASE CtrlClear
  BY <1>3 DEF CtrlClear, Goto, ChannelTypeOK, BusyHasHolder, Raised,
     ExclusionUnlessRaced, Holds, Held, TryLock, Threads, Poll, Ctrl
<1>4. CASE LightCall
  BY <1>4 DEF LightCall, Goto, ChannelTypeOK, BusyHasHolder, Raised,
     ExclusionUnlessRaced, Holds, Held, TryLock, Threads, Poll, Ctrl
<1>5. CASE LightDone
  BY <1>5 DEF LightDone, Goto, ChannelTypeOK, BusyHasHolder, Raised,
     ExclusionUnlessRaced, Holds, Held, TryLock, Threads, Poll, Ctrl
<1>6. CASE LockStep(Ctrl)
  BY <1>6, LockStepKeeps
<1> QED BY <1>1, <1>2, <1>3, <1>4, <1>5, <1>6 DEF CtrlStep, CtrlWork

LEMMA ChannelInvNext == ChannelInv /\ [ChannelNext]_channelVars => ChannelInv'
<1> SUFFICES ASSUME ChannelInv, [ChannelNext]_channelVars PROVE ChannelInv'
  OBVIOUS
<1>1. CASE PollStep
  BY <1>1, PollStepKeeps
<1>2. CASE CtrlStep
  BY <1>2, CtrlStepKeeps
<1>3. CASE Answer \/ Tick \/ ClockSet \/ UNCHANGED channelVars
  <2>1. UNCHANGED <<busy, pending, pc, raced>>
    BY <1>3 DEF Answer, Tick, ClockSet, channelVars
  <2>2. BusyHasHolder' /\ Raised' /\ ExclusionUnlessRaced'
    BY <2>1 DEF ChannelInv, BusyHasHolder, Raised, ExclusionUnlessRaced, Holds
  <2>3. ChannelTypeOK'
    <3>1. CASE Answer
      BY <3>1 DEF Answer, ChannelInv, ChannelTypeOK
    <3>2. CASE Tick
      BY <3>2 DEF Tick, ChannelInv, ChannelTypeOK
    <3>3. CASE ClockSet
      BY <3>3, TimeAssumption DEF ClockSet, ChannelInv, ChannelTypeOK
    <3>4. CASE UNCHANGED channelVars
      BY <3>4 DEF channelVars, ChannelInv, ChannelTypeOK
    <3> QED BY <1>3, <3>1, <3>2, <3>3, <3>4
  <2> QED BY <2>2, <2>3 DEF ChannelInv
<1> QED BY <1>1, <1>2, <1>3 DEF ChannelNext

\* s_uart_busy is never left set without a thread on its way to clear it.
THEOREM FlagNeverLeaks == ChannelSpec => []BusyHasHolder
<1>1. ChannelInv => BusyHasHolder
  BY DEF ChannelInv
<1> QED BY <1>1, ChannelInvInit, ChannelInvNext, PTL DEF ChannelSpec

\* s_uart_control_pending lives exactly as long as the control that raised it,
\* and the variables of uart_channel_try_lock, haas_data_read and
\* haas_device_control keep their types.
THEOREM PendingNeverLeaks == ChannelSpec => []PendingIsControls
<1>1. ChannelInv => PendingIsControls
  BY DEF ChannelInv, PendingIsControls
<1> QED BY <1>1, ChannelInvInit, ChannelInvNext, PTL DEF ChannelSpec

\* Two holders are possible only through a try_lock that overwrote a set flag.
THEOREM ExclusionHoldsUnlessRaced == ChannelSpec => []ExclusionUnlessRaced
<1>1. ChannelInv => ExclusionUnlessRaced
  BY DEF ChannelInv
<1> QED BY <1>1, ChannelInvInit, ChannelInvNext, PTL DEF ChannelSpec

-----------------------------------------------------------------------------
(* Queues of messages in the order of the line.                              *)

Elements(q) == {q[i] : i \in DOMAIN q}
Increasing(q) == \A i, j \in DOMAIN q : i < j => q[i] < q[j]

LEMMA Appended ==
  ASSUME NEW q \in Seq(Messages), NEW m \in Messages, Increasing(q), \A x \in Elements(q) : x < m
  PROVE  /\ Append(q, m) \in Seq(Messages) /\ Len(Append(q, m)) = Len(q) + 1
         /\ Increasing(Append(q, m)) /\ Elements(Append(q, m)) = Elements(q) \cup {m}
<1> DEFINE p == Append(q, m)
<1>1. /\ p \in Seq(Messages) /\ Len(p) = Len(q) + 1 /\ p[Len(q) + 1] = m
      /\ \A i \in 1..Len(q) : p[i] = q[i]
  BY AppendProperties
<1>2. DOMAIN p = 1..(Len(q) + 1) /\ DOMAIN q = 1..Len(q) /\ Len(q) \in Nat
  BY <1>1, LenProperties
<1> HIDE DEF p
<1>3. Increasing(p)
  <2> SUFFICES ASSUME NEW i \in DOMAIN p, NEW j \in DOMAIN p, i < j PROVE p[i] < p[j]
    BY DEF Increasing
  <2>1. i \in 1..Len(q)
    BY <1>2
  <2>2. CASE j = Len(q) + 1
    BY <1>1, <1>2, <2>1, <2>2 DEF Elements
  <2>3. CASE j # Len(q) + 1
    BY <1>1, <1>2, <2>1, <2>3 DEF Increasing
  <2> QED BY <2>2, <2>3
<1>4. Elements(p) = Elements(q) \cup {m}
  BY <1>1, <1>2 DEF Elements
<1> QED BY <1>1, <1>3, <1>4 DEF p

LEMMA Removed ==
  ASSUME NEW q \in Seq(Messages), q # <<>>, Increasing(q)
  PROVE  /\ Tail(q) \in Seq(Messages) /\ Len(Tail(q)) = Len(q) - 1 /\ Len(q) \in Nat
         /\ Increasing(Tail(q)) /\ Head(q) \in Messages
         /\ Elements(q) = Elements(Tail(q)) \cup {Head(q)}
         /\ \A x \in Elements(Tail(q)) : Head(q) < x
<1> DEFINE p == Tail(q)
<1>1. /\ p \in Seq(Messages) /\ Len(p) = Len(q) - 1 /\ Head(q) \in Messages
      /\ \A i \in 1..Len(p) : p[i] = q[i + 1]
  BY HeadTailProperties
<1>2. DOMAIN p = 1..(Len(q) - 1) /\ DOMAIN q = 1..Len(q) /\ Len(q) \in Nat \ {0}
  BY <1>1, LenProperties, EmptySeq
<1>3. Head(q) = q[1]
  OBVIOUS
<1> HIDE DEF p
<1>4. Increasing(p)
  BY <1>1, <1>2 DEF Increasing
<1>5. \A i \in DOMAIN q : i = 1 \/ (i - 1 \in DOMAIN p /\ p[i - 1] = q[i])
  BY <1>1, <1>2
<1>6. \A i \in DOMAIN p : i + 1 \in DOMAIN q /\ p[i] = q[i + 1] /\ 1 < i + 1
  BY <1>1, <1>2
<1>7. 1 \in DOMAIN q
  BY <1>2
<1>8. Elements(q) = Elements(p) \cup {q[1]}
  BY <1>5, <1>6, <1>7 DEF Elements
<1>9. \A x \in Elements(p) : q[1] < x
  BY <1>6, <1>7 DEF Elements, Increasing
<1> QED BY <1>1, <1>2, <1>3, <1>4, <1>8, <1>9 DEF p

(* They hold as many messages as they are long. *)
LEMMA ElementsCounted ==
  ASSUME NEW q \in Seq(Messages), Increasing(q) PROVE Cardinality(Elements(q)) = Len(q)
<1>1. q \in [1..Len(q) -> Messages] /\ DOMAIN q = 1..Len(q) /\ Len(q) \in Nat
  BY LenProperties
<1>2. IsFiniteSet(1..Len(q)) /\ Cardinality(1..Len(q)) = Len(q)
  <2>1. 1 \in Int /\ Len(q) \in Int /\ (IF 1 > Len(q) THEN 0 ELSE Len(q) - 1 + 1) = Len(q)
    BY <1>1
  <2> QED BY <2>1, FS_Interval
<1>3. \A i, j \in 1..Len(q) : q[i] = q[j] => i = j
  <2> SUFFICES ASSUME NEW i \in 1..Len(q), NEW j \in 1..Len(q), q[i] = q[j], i # j PROVE FALSE
    OBVIOUS
  <2>1. q[i] \in Int /\ q[j] \in Int
    BY <1>1 DEF Messages
  <2>2. i < j \/ j < i
    BY <1>1
  <2> QED BY <1>1, <2>1, <2>2 DEF Increasing
<1>4. q \in Bijection(1..Len(q), Elements(q))
  BY <1>1, <1>3 DEF Bijection, Injection, Surjection, IsInjective, Elements
<1>5. ExistsBijection(1..Len(q), Elements(q))
  BY <1>4 DEF ExistsBijection
<1> QED BY <1>2, <1>5, FS_Bijection

-----------------------------------------------------------------------------
(* The buffers.                                                              *)

(* The writer has a message in hand from reading it to its last attempt, and *)
(* one pushed out from there to freeing it.  The messages in the box lie     *)
(* between the two.                                                          *)
Writing ==
  /\ hand = IF place \in {"enqueue", "dequeue", "again"} THEN written ELSE None
  /\ pushed # None => place \in {"again", "free"}
  /\ place = "again" => Len(queue) < Depth

InOrder ==
  /\ Increasing(queue)
  /\ \A x \in InQueue : x <= written /\ (hand # None => x < hand) /\ (pushed # None => pushed < x)
  /\ pushed # None => pushed <= written /\ (hand # None => pushed < hand)

Accounted ==
  /\ \A m \in Messages : freed[m] <= 1
  /\ 1..written = Gone \cup InQueue \cup ({hand, pushed} \ {None})
  /\ Gone \cap (InQueue \cup {hand, pushed}) = {}
  /\ taken \subseteq Gone

BoxInv == TypeOK /\ Writing /\ InOrder /\ Accounted

(* A buffer that is freed for the first time. *)
LEMMA FreedOnce ==
  ASSUME TypeOK, \A m \in Messages : freed[m] <= 1, NEW m \in Messages, m \notin Gone, Free(m)
  PROVE  /\ freed' \in [Messages -> 0..2] /\ \A n \in Messages : freed'[n] <= 1
         /\ Gone' = Gone \cup {m}
<1>1. freed \in [Messages -> 0..2] /\ freed[m] = 0
  BY DEF TypeOK, Gone
<1>2. freed' = [freed EXCEPT ![m] = 1]
  BY <1>1 DEF Free
<1> QED BY <1>1, <1>2 DEF Gone

LEMMA InQueueIs == InQueue = Elements(queue) /\ InQueue' = Elements(queue')
  BY DEF InQueue, Elements

LEMMA QueuedAreMessages ==
  ASSUME TypeOK PROVE InQueue \subseteq Messages /\ None \notin Messages /\ Messages \subseteq Nat
<1>1. \A i \in DOMAIN queue : queue[i] \in Messages
  BY LenProperties, ElementOfSeq DEF TypeOK
<1> QED BY <1>1, NoneAssumption DEF InQueue, Messages

LEMMA BoxInit0 == Init => BoxInv
<1> SUFFICES ASSUME Init PROVE BoxInv
  OBVIOUS
<1>1. queue = <<>> /\ written = 0 /\ hand = None /\ pushed = None /\ taken = {} /\ place = "read"
  BY DEF Init
<1>2. DOMAIN <<>> = {} /\ Len(<<>>) = 0 /\ <<>> \in Seq(Messages)
  OBVIOUS
<1>3. InQueue = {} /\ Increasing(queue)
  BY <1>1, <1>2 DEF InQueue, Increasing
<1>4. \A m \in Messages : freed[m] = 0
  BY DEF Init
<1>5. Gone = {}
  BY <1>4 DEF Gone
<1>6. TypeOK
  <2>1. written \in 0..MaxMessages /\ Len(queue) <= Depth
    BY <1>1, <1>2, DepthAssumption
  <2>2. freed \in [Messages -> 0..2] /\ held \in [Readers -> Messages \cup {None}]
    BY DEF Init
  <2>3. queue \in Seq(Messages) /\ handled \in Seq(Messages)
    BY <1>1, <1>2 DEF Init
  <2> QED BY <1>1, <2>1, <2>2, <2>3 DEF Init, TypeOK
<1>7. 1..written = {}
  BY <1>1
<1> QED BY <1>1, <1>3, <1>4, <1>5, <1>6, <1>7 DEF BoxInv, Writing, InOrder, Accounted

LEMMA ReceiveBox == BoxInv /\ Receive => BoxInv'
<1> SUFFICES ASSUME BoxInv, Receive PROVE BoxInv'
  OBVIOUS
<1>1. /\ written' = written + 1 /\ hand' = written + 1 /\ place' = "enqueue" /\ place = "read"
      /\ UNCHANGED <<ready, queue, pushed, held, freed, taken, handled>>
      /\ written \in 0..MaxMessages /\ written < MaxMessages /\ MaxMessages \in Nat
  BY DepthAssumption DEF Receive, BoxInv, TypeOK
<1>2. hand = None /\ pushed = None /\ InQueue' = InQueue /\ Gone' = Gone
  BY <1>1 DEF BoxInv, Writing, InQueue, Gone
<1>3. written + 1 \in Messages /\ written + 1 # None
  BY <1>1, NoneAssumption DEF Messages
<1>4. TypeOK'
  BY <1>1, <1>3 DEF BoxInv, TypeOK
<1>5. Writing'
  BY <1>1, <1>2 DEF Writing
<1>6. InOrder'
  <2>1. \A x \in InQueue : x \in Nat /\ x <= written
    BY QueuedAreMessages DEF BoxInv, InOrder
  <2> QED BY <1>1, <1>2, <2>1 DEF BoxInv, InOrder
<1>7. Accounted'
  <2>1. 1..written = Gone \cup InQueue
    BY <1>2 DEF BoxInv, Accounted
  <2>2. 1..(written + 1) = 1..written \cup {written + 1} /\ written + 1 \notin 1..written
    BY <1>1
  <2>3. Gone \cap InQueue = {} /\ None \notin Gone
    BY <1>2 DEF BoxInv, Accounted
  <2> QED BY <1>1, <1>2, <1>3, <2>1, <2>2, <2>3 DEF BoxInv, Accounted
<1> QED BY <1>4, <1>5, <1>6, <1>7 DEF BoxInv

(* The message in hand enters the box. *)
LEMMA AppendBox ==
  ASSUME BoxInv, hand # None, Len(queue) < Depth, queue' = Append(queue, hand), hand' = None,
         place \in {"enqueue", "again"},
         place' = IF place = "again" THEN "free" ELSE "read",
         UNCHANGED <<ready, pushed, held, written, freed, taken, handled>>
  PROVE  BoxInv'
<1>1. hand \in Messages /\ hand = written /\ written \in Nat /\ queue \in Seq(Messages) /\ Depth \in Nat
  BY DepthAssumption DEF BoxInv, TypeOK, Writing
<1>2. /\ queue' \in Seq(Messages) /\ Len(queue') = Len(queue) + 1 /\ Len(queue) \in Nat
      /\ Increasing(queue') /\ InQueue' = InQueue \cup {hand}
  <2>1. \A x \in Elements(queue) : x < hand
    BY InQueueIs DEF BoxInv, InOrder
  <2> QED BY <1>1, <2>1, Appended, InQueueIs, LenProperties DEF BoxInv, InOrder
<1>3. Gone' = Gone
  BY DEF Gone
<1>4. TypeOK'
  BY <1>1, <1>2 DEF BoxInv, TypeOK
<1>5. Writing'
  BY DEF BoxInv, Writing
<1>6. InOrder'
  <2>1. \A x \in InQueue' : x <= written /\ (pushed # None => pushed < x)
    BY <1>1, <1>2 DEF BoxInv, InOrder
  <2> QED BY <1>2, <2>1 DEF BoxInv, InOrder
<1>7. Accounted'
  <2>1. /\ 1..written = Gone \cup InQueue' \cup ({pushed} \ {None})
        /\ Gone \cap (InQueue' \cup {pushed}) = {}
        /\ None \notin Gone
    <3>1. None \notin Messages
      BY NoneAssumption DEF Messages
    <3> QED BY <1>1, <1>2, <3>1 DEF BoxInv, Accounted, Gone
  <2> QED BY <1>3, <2>1 DEF BoxInv, Accounted
<1> QED BY <1>4, <1>5, <1>6, <1>7 DEF BoxInv

LEMMA EnqueueBox == BoxInv /\ Enqueue => BoxInv'
<1> SUFFICES ASSUME BoxInv, Enqueue PROVE BoxInv'
  OBVIOUS
<1>1. hand # None /\ place = "enqueue"
  BY NoneAssumption DEF BoxInv, Writing, Enqueue, TypeOK
<1>2. CASE Len(queue) < Depth
  BY <1>1, <1>2, AppendBox DEF Enqueue
<1>3. CASE Len(queue) = Depth /\ place' = "dequeue" /\ UNCHANGED <<queue, hand>>
  <2>1. UNCHANGED <<ready, queue, hand, pushed, held, written, freed, taken, handled>>
    BY <1>3 DEF Enqueue
  <2> QED BY <1>1, <1>3, <2>1 DEF BoxInv, TypeOK, Writing, InOrder, Accounted, InQueue, Gone
<1> QED BY <1>2, <1>3 DEF Enqueue

LEMMA EnqueueAgainBox == BoxInv /\ EnqueueAgain => BoxInv'
<1> SUFFICES ASSUME BoxInv, EnqueueAgain PROVE BoxInv'
  OBVIOUS
<1>1. hand # None /\ Len(queue) < Depth /\ place = "again"
  BY NoneAssumption DEF BoxInv, Writing, EnqueueAgain, TypeOK
<1> QED BY <1>1, AppendBox DEF EnqueueAgain

LEMMA PushOutBox == BoxInv /\ PushOut => BoxInv'
<1> SUFFICES ASSUME BoxInv, PushOut PROVE BoxInv'
  OBVIOUS
<1>1. /\ place = "dequeue" /\ place' = "again" /\ pushed = None /\ hand = written /\ hand # None
      /\ UNCHANGED <<ready, hand, held, written, freed, taken, handled>>
      /\ hand \in Messages /\ queue \in Seq(Messages) /\ Depth \in Nat \ {0} /\ None \notin Messages
  BY NoneAssumption, DepthAssumption DEF BoxInv, Writing, PushOut, TypeOK, Messages
<1>2. Gone' = Gone
  BY <1>1 DEF Gone
<1>3. CASE queue = <<>> /\ UNCHANGED <<queue, pushed>>
  <2>1. Len(queue) = 0 /\ InQueue' = InQueue
    BY <1>3 DEF InQueue
  <2> QED BY <1>1, <1>2, <1>3, <2>1 DEF BoxInv, TypeOK, Writing, InOrder, Accounted
<1>4. CASE queue # <<>> /\ queue' = Tail(queue) /\ pushed' = Head(queue)
  <2>1. /\ queue' \in Seq(Messages) /\ Len(queue') = Len(queue) - 1 /\ Len(queue) \in Nat
        /\ Increasing(queue') /\ pushed' \in Messages
        /\ InQueue = InQueue' \cup {pushed'} /\ \A x \in InQueue' : pushed' < x
    BY <1>1, <1>4, Removed, InQueueIs DEF BoxInv, InOrder
  <2>2. Len(queue) <= Depth
    BY DEF BoxInv, TypeOK
  <2>3. TypeOK'
    BY <1>1, <2>1, <2>2 DEF BoxInv, TypeOK
  <2>4. Writing'
    BY <1>1, <2>1, <2>2 DEF BoxInv, Writing
  <2>5. InOrder'
    BY <1>1, <2>1 DEF BoxInv, InOrder
  <2>6. Accounted'
    BY <1>1, <1>2, <2>1 DEF BoxInv, Accounted
  <2> QED BY <2>3, <2>4, <2>5, <2>6 DEF BoxInv
<1> QED BY <1>3, <1>4 DEF PushOut

LEMMA FreePushedBox == BoxInv /\ FreePushed => BoxInv'
<1> SUFFICES ASSUME BoxInv, FreePushed PROVE BoxInv'
  OBVIOUS
<1>1. /\ place = "free" /\ place' = "read" /\ pushed' = None /\ hand = None
      /\ UNCHANGED <<ready, queue, hand, held, written, taken, handled>>
      /\ InQueue' = InQueue /\ None \notin Messages
  BY NoneAssumption DEF BoxInv, Writing, FreePushed, InQueue, Messages
<1>2. InOrder' /\ Writing'
  BY <1>1 DEF BoxInv, InOrder, Writing
<1>3. CASE pushed = None /\ freed' = freed
  <2>1. Gone' = Gone
    BY <1>3 DEF Gone
  <2> QED BY <1>1, <1>2, <1>3, <2>1 DEF BoxInv, TypeOK, Accounted
<1>4. CASE pushed # None /\ Free(pushed)
  <2>1. pushed \in Messages /\ pushed \notin Gone
    BY <1>4 DEF BoxInv, TypeOK, Accounted
  <2>2. /\ freed' \in [Messages -> 0..2] /\ \A n \in Messages : freed'[n] <= 1
        /\ Gone' = Gone \cup {pushed}
    BY <1>4, <2>1, FreedOnce DEF BoxInv, Accounted
  <2>3. TypeOK'
    BY <1>1, <2>2 DEF BoxInv, TypeOK
  <2>4. pushed \notin InQueue
    <3>1. \A x \in InQueue : x \in Nat /\ pushed < x
      BY <1>4, QueuedAreMessages DEF BoxInv, InOrder
    <3> QED BY <2>1, <3>1 DEF Messages
  <2>5. Accounted'
    BY <1>1, <2>1, <2>2, <2>4 DEF BoxInv, Accounted
  <2> QED BY <1>2, <2>3, <2>5 DEF BoxInv
<1> QED BY <1>3, <1>4 DEF FreePushed

LEMMA DequeueBox == ASSUME BoxInv, NEW r \in Readers, Dequeue(r) PROVE BoxInv'
<1> DEFINE m == Head(queue)
<1>1. /\ queue # <<>> /\ queue' = Tail(queue) /\ Free(m) /\ taken' = taken \cup {m}
      /\ held' = [held EXCEPT ![r] = m]
      /\ UNCHANGED <<ready, place, hand, pushed, written, handled>>
      /\ queue \in Seq(Messages) /\ Len(queue) <= Depth /\ Depth \in Nat /\ None \notin Messages
  BY NoneAssumption, DepthAssumption DEF BoxInv, TypeOK, Dequeue, Messages
<1>2. /\ queue' \in Seq(Messages) /\ Len(queue') = Len(queue) - 1 /\ Len(queue) \in Nat
      /\ Increasing(queue') /\ m \in Messages
      /\ InQueue = InQueue' \cup {m} /\ \A x \in InQueue' : m < x
  BY <1>1, Removed, InQueueIs DEF BoxInv, InOrder
<1> HIDE DEF m
<1>3. m \notin Gone /\ m \in InQueue
  BY <1>2 DEF BoxInv, Accounted
<1>4. /\ freed' \in [Messages -> 0..2] /\ \A n \in Messages : freed'[n] <= 1
      /\ Gone' = Gone \cup {m}
  BY <1>1, <1>2, <1>3, FreedOnce DEF BoxInv, Accounted
<1>5. TypeOK'
  BY <1>1, <1>2, <1>4 DEF BoxInv, TypeOK
<1>6. Writing'
  BY <1>1, <1>2 DEF BoxInv, Writing
<1>7. InOrder'
  BY <1>1, <1>2 DEF BoxInv, InOrder
<1>8. m \notin InQueue' /\ m # hand /\ m # pushed
  <2>1. m \in Nat /\ hand \in Messages \cup {None} /\ pushed \in Messages \cup {None}
    BY <1>2 DEF BoxInv, TypeOK, Messages
  <2>2. ~(m < m)
    BY <2>1
  <2> QED BY <1>1, <1>2, <1>3, <2>2 DEF BoxInv, InOrder
<1>9. Accounted'
  BY <1>1, <1>2, <1>4, <1>8 DEF BoxInv, Accounted
<1> QED BY <1>5, <1>6, <1>7, <1>9 DEF BoxInv

(* Every step keeps the buffers accounted for.                               *)
LEMMA BoxNext == BoxInv /\ [Next]_vars => BoxInv'
<1> SUFFICES ASSUME BoxInv, [Next]_vars PROVE BoxInv'
  OBVIOUS
<1>1. CASE BoxInit
  BY <1>1 DEF BoxInit, BoxInv, TypeOK, Writing, InOrder, Accounted, InQueue, Gone
<1>2. CASE ReceiveNothing \/ UNCHANGED vars
  <2>1. UNCHANGED <<ready, queue, place, hand, pushed, held, written, freed, taken, handled>>
    BY <1>2 DEF ReceiveNothing, vars
  <2>2. InQueue' = InQueue /\ Gone' = Gone
    BY <2>1 DEF InQueue, Gone
  <2> QED BY <2>1, <2>2 DEF BoxInv, TypeOK, Writing, InOrder, Accounted
<1>3. ASSUME NEW r \in Readers, Handle(r) PROVE BoxInv'
  <2>1. held[r] \in Messages
    BY <1>3 DEF Handle, BoxInv, TypeOK
  <2>2. handled' \in Seq(Messages)
    BY <1>3, <2>1, AppendProperties DEF Handle, BoxInv, TypeOK
  <2> QED BY <1>3, <2>2 DEF Handle, BoxInv, TypeOK, Writing, InOrder, Accounted, InQueue, Gone
<1> QED
  BY <1>1, <1>2, <1>3, ReceiveBox, EnqueueBox, PushOutBox, EnqueueAgainBox, FreePushedBox, DequeueBox
     DEF Next, Write

(* Whatever the depth and the number of readers, a message's buffer is in one *)
(* place until it is freed, and freed once (write_uart_msg, read_uart_msg).   *)
THEOREM NoBufferLost == Spec => []BuffersAccounted
<1>1. BoxInv => BuffersAccounted
  <2> SUFFICES ASSUME BoxInv PROVE BuffersAccounted
    OBVIOUS
  <2>1. Cardinality(InQueue) = Len(queue)
    BY ElementsCounted, InQueueIs DEF BoxInv, TypeOK, InOrder
  <2>2. None \notin Messages /\ InQueue \subseteq Messages /\ \A x \in Messages : ~(x < x)
    BY QueuedAreMessages DEF BoxInv, Messages
  <2>3. hand \notin InQueue /\ pushed \notin InQueue
    BY <2>2 DEF BoxInv, InOrder
  <2> QED BY <2>1, <2>3 DEF BoxInv, Accounted, BuffersAccounted
<1> QED BY <1>1, BoxInit0, BoxNext, PTL DEF Spec

-----------------------------------------------------------------------------
(* The box as a lossy FIFO.                                                  *)

(* What the first message of the box is to the others. *)
LEMMA Headed ==
  ASSUME BoxInv, queue # <<>>, queue' = Tail(queue)
  PROVE  /\ Head(queue) \in 1..written \ (Gone \cup InQueue' \cup {hand})
         /\ InQueue = InQueue' \cup {Head(queue)} /\ \A x \in InQueue' : Head(queue) < x
<1> DEFINE m == Head(queue)
<1>1. m \in Messages /\ InQueue = InQueue' \cup {m} /\ \A x \in InQueue' : m < x
  BY Removed, InQueueIs DEF BoxInv, InOrder, TypeOK
<1> HIDE DEF m
<1>2. m \in 1..written /\ m \notin Gone
  BY <1>1, QueuedAreMessages DEF BoxInv, Accounted
<1>3. ~(m < m)
  BY <1>2
<1>4. hand # None => m < hand
  BY <1>1 DEF BoxInv, InOrder
<1>5. m # hand /\ m \notin InQueue'
  BY <1>1, <1>3, <1>4, QueuedAreMessages DEF BoxInv
<1> QED BY <1>1, <1>2, <1>5 DEF m

(* A message enters the box, at its end. *)
LEMMA PutInto ==
  ASSUME BoxInv, hand # None, Len(queue) < Depth, queue' = Append(queue, hand), hand' = None,
         UNCHANGED <<written, taken>>
  PROVE  Fifo!Put(hand) /\ InQueue' = InQueue \cup {hand}
<1>1. \A x \in Elements(queue) : x < hand
  BY InQueueIs DEF BoxInv, InOrder
<1>2. hand \in Messages /\ queue \in Seq(Messages)
  BY DEF BoxInv, TypeOK
<1>3. InQueue' = InQueue \cup {hand}
  BY <1>1, <1>2, Appended, InQueueIs DEF BoxInv, InOrder
<1>4. hand \notin taken \cup Dropped
  BY DEF BoxInv, Accounted, Dropped
<1>5. Dropped' = Dropped
  <2>1. None \notin 1..written
    BY NoneAssumption, DepthAssumption DEF BoxInv, TypeOK
  <2> QED BY <1>3, <2>1 DEF Dropped
<1>6. \A i \in DOMAIN queue : queue[i] < hand
  BY <1>1 DEF Elements
<1> QED BY <1>3, <1>4, <1>5, <1>6 DEF Fifo!Put

(* Every step of the program is one of the abstract box, or none.            *)
LEMMA FifoNext ==
  ASSUME BoxInv, [Next]_vars PROVE [Fifo!Next]_<<queue, taken, Dropped>>
<1>1. None \notin Messages /\ Messages \subseteq Nat /\ written \in 0..MaxMessages /\ MaxMessages \in Nat
  BY QueuedAreMessages, DepthAssumption DEF BoxInv, TypeOK
<1>2. CASE UNCHANGED <<queue, hand, written, taken>>
  <2>1. Dropped' = Dropped
    BY <1>2 DEF Dropped, InQueue
  <2> QED BY <1>2, <2>1
<1>3. CASE Receive
  <2>1. /\ written' = written + 1 /\ hand' = written + 1 /\ hand = None /\ UNCHANGED <<queue, taken>>
        /\ InQueue' = InQueue /\ None \notin 1..written
    BY <1>1, <1>3 DEF Receive, BoxInv, Writing, InQueue, Messages
  <2>2. 1..(written + 1) \ {written + 1} = 1..written \ {None}
    BY <1>1, <2>1
  <2> QED BY <2>1, <2>2 DEF Dropped
<1>4. hand # None /\ Fifo!Put(hand) => Fifo!Next
  BY DEF BoxInv, TypeOK, Fifo!Next
<1>5. CASE Enqueue
  <2>1. hand # None
    BY NoneAssumption, <1>5 DEF Enqueue, BoxInv, Writing, TypeOK
  <2>2. CASE Len(queue) < Depth /\ queue' = Append(queue, hand) /\ hand' = None
    <3>1. Fifo!Put(hand)
      BY <1>5, <2>1, <2>2, PutInto DEF Enqueue
    <3> QED BY <1>4, <2>1, <3>1
  <2> QED BY <1>2, <1>5, <2>2 DEF Enqueue
<1>6. CASE EnqueueAgain
  <2>1. hand # None /\ Len(queue) < Depth
    BY NoneAssumption, <1>6 DEF EnqueueAgain, BoxInv, Writing, TypeOK
  <2>2. Fifo!Put(hand)
    BY <1>6, <2>1, PutInto DEF EnqueueAgain
  <2> QED BY <1>4, <2>1, <2>2
<1>7. CASE PushOut
  <2>1. UNCHANGED <<hand, written, taken>>
    BY <1>7 DEF PushOut
  <2>2. CASE queue # <<>> /\ queue' = Tail(queue)
    <3>1. Head(queue) \notin taken
      BY <2>2, Headed DEF BoxInv, Accounted
    <3>2. Dropped' = Dropped \cup {Head(queue)}
      BY <2>1, <2>2, <3>1, Headed DEF Dropped
    <3> QED BY <2>1, <2>2, <3>2 DEF Fifo!Next, Fifo!Drop
  <2> QED BY <1>2, <1>7, <2>1, <2>2 DEF PushOut
<1>8. ASSUME NEW r \in Readers, Dequeue(r) PROVE Fifo!Get
  <2>1. /\ queue # <<>> /\ queue' = Tail(queue) /\ taken' = taken \cup {Head(queue)}
        /\ UNCHANGED <<hand, written>>
    BY <1>8 DEF Dequeue
  <2>2. Dropped' = Dropped
    BY <2>1, Headed DEF Dropped
  <2> QED BY <2>1, <2>2 DEF Fifo!Get
<1>9. CASE \E r \in Readers : Dequeue(r)
  BY <1>8, <1>9 DEF Fifo!Next
<1> QED
  BY <1>2, <1>3, <1>5, <1>6, <1>7, <1>9
     DEF Next, Write, BoxInit, ReceiveNothing, FreePushed, Handle, vars

LEMMA FifoInit == Init => Fifo!Init
<1> SUFFICES ASSUME Init PROVE Fifo!Init
  OBVIOUS
<1>1. 1..written = {}
  BY DEF Init
<1> QED BY <1>1 DEF Init, Fifo!Init, Dropped

(* For every depth and any number of readers, bfmsg_box_write and             *)
(* bfmsg_box_read over the queue implement a lossy FIFO, although a write to  *)
(* a full box takes three steps.                                              *)
THEOREM BoxIsLossyFifo == Spec => IsLossyFifo
<1>1. BoxInv /\ [Next]_vars => [Fifo!Next]_<<queue, taken, Dropped>>
  BY FifoNext
<1> QED BY <1>1, FifoInit, BoxInit0, BoxNext, PTL DEF Spec, IsLossyFifo, Fifo!Spec

-----------------------------------------------------------------------------
(* Handling.                                                                 *)

(* The messages taken before the i-th that was handled, and not handled by   *)
(* then: other readers still hold them.                                      *)
Late(i) == {m \in taken : m < handled[i] /\ \A j \in 1..i : handled[j] # m}

(* A message is taken before all that are still in the box, and each one     *)
(* taken is handled or held, by one reader.                                  *)
Shared ==
  /\ \A m \in taken : \A x \in InQueue : m < x
  /\ \A i, j \in DOMAIN handled : handled[i] = handled[j] => i = j
  /\ taken = Elements(handled) \cup ({held[r] : r \in Readers} \ {None})
  /\ \A r \in Readers : held[r] \notin Elements(handled)
  /\ \A r, s \in Readers : held[r] = held[s] /\ r # s => held[r] = None

FewLate == \A i \in DOMAIN handled : Cardinality(Late(i)) < Cardinality(Readers)

(* Elsewhere, the box gains the message in hand at most. *)
LEMMA WritingShared ==
  ASSUME BoxInv, Shared, InQueue' \subseteq InQueue \cup ({hand} \ {None}),
         UNCHANGED <<held, taken, handled>>
  PROVE  Shared'
<1>1. hand # None => \A m \in taken : m < hand
  BY DEF BoxInv, TypeOK, Writing, Accounted
<1>2. \A m \in taken : \A x \in InQueue' : m < x
  BY <1>1 DEF Shared
<1> QED BY <1>2 DEF Shared, Elements

LEMMA DequeueShared ==
  ASSUME BoxInv, Shared, NEW r \in Readers, Dequeue(r)
  PROVE  Shared' /\ \A i \in DOMAIN handled : Late(i)' = Late(i)
<1> DEFINE m == Head(queue)
<1>1. /\ held[r] = None /\ held' = [held EXCEPT ![r] = m] /\ taken' = taken \cup {m}
      /\ handled' = handled /\ held \in [Readers -> Messages \cup {None}]
  BY DEF Dequeue, BoxInv, TypeOK
<1>2. /\ m \in InQueue /\ m \in Messages /\ m \notin taken /\ None \notin Messages
      /\ \A x \in InQueue' : m < x /\ x \in InQueue
  BY Headed, QueuedAreMessages DEF Dequeue, BoxInv, Accounted
<1> HIDE DEF m
<1>3. \A x \in taken : x \in Nat /\ x < m
  BY <1>2 DEF Shared, BoxInv, TypeOK, Messages
<1>4. \A i \in DOMAIN handled : handled[i] \in taken
  BY DEF Shared, Elements
<1>5. \A n \in taken' : \A x \in InQueue' : n < x
  BY <1>1, <1>2 DEF Shared
<1>6. taken' = Elements(handled') \cup ({held'[s] : s \in Readers} \ {None})
  <2>1. {held'[s] : s \in Readers} \ {None} = ({held[s] : s \in Readers} \ {None}) \cup {m}
    BY <1>1, <1>2
  <2> QED BY <1>1, <2>1 DEF Shared
<1>7. \A s \in Readers : held'[s] \notin Elements(handled')
  BY <1>1, <1>2, <1>4 DEF Shared, Elements
<1>8. \A s \in Readers : held[s] # m
  BY <1>2 DEF Shared
<1>9. \A s, t \in Readers : held'[s] = held'[t] /\ s # t => held'[s] = None
  BY <1>1, <1>8 DEF Shared
<1>10. Shared'
  BY <1>1, <1>5, <1>6, <1>7, <1>9 DEF Shared
<1>11. \A i \in DOMAIN handled : ~(m < handled[i])
  BY <1>2, <1>3, <1>4 DEF Messages
<1> QED BY <1>1, <1>10, <1>11 DEF Late

LEMMA HandleShared ==
  ASSUME BoxInv, Shared, NEW r \in Readers, Handle(r)
  PROVE  /\ Shared'
         /\ \A i \in DOMAIN handled : Late(i)' = Late(i)
         /\ \A i \in DOMAIN handled' \ DOMAIN handled :
              Late(i)' \subseteq {held[s] : s \in Readers \ {r}}
<1> DEFINE n == Len(handled) + 1
           m == held[r]
<1>1. /\ m \in Messages /\ m # None /\ held' = [held EXCEPT ![r] = None] /\ UNCHANGED <<queue, taken>>
      /\ handled' = Append(handled, m) /\ handled \in Seq(Messages)
      /\ held \in [Readers -> Messages \cup {None}] /\ None \notin Messages
  BY QueuedAreMessages DEF Handle, BoxInv, TypeOK
<1>2. /\ DOMAIN handled = 1..Len(handled) /\ Len(handled) \in Nat /\ DOMAIN handled' = 1..n
      /\ handled'[n] = m /\ \A i \in 1..Len(handled) : handled'[i] = handled[i]
  BY <1>1, AppendProperties, LenProperties
<1> HIDE DEF m, n
<1>3. DOMAIN handled' = DOMAIN handled \cup {n} /\ n \notin DOMAIN handled
  BY <1>2 DEF n
<1>4. Elements(handled') = Elements(handled) \cup {m}
  <2>1. \A i \in DOMAIN handled : i \in DOMAIN handled' /\ handled'[i] = handled[i]
    BY <1>2, <1>3
  <2>2. n \in DOMAIN handled' /\ \A i \in DOMAIN handled' : i = n \/ i \in DOMAIN handled
    BY <1>3
  <2> QED BY <1>2, <2>1, <2>2 DEF Elements
<1>5. m \notin Elements(handled) /\ m \in taken
  BY <1>1 DEF Shared, m
<1>6. \A i, j \in DOMAIN handled' : handled'[i] = handled'[j] => i = j
  <2>1. \A i \in DOMAIN handled : handled'[i] = handled[i] /\ handled[i] # m
    BY <1>2, <1>5 DEF Elements
  <2> QED BY <1>2, <1>3, <2>1 DEF Shared
<1>7. taken' = Elements(handled') \cup ({held'[s] : s \in Readers} \ {None})
  <2>1. {held[s] : s \in Readers} \ {None} = ({held'[s] : s \in Readers} \ {None}) \cup {m}
    BY <1>1 DEF m
  <2> QED BY <1>1, <1>4, <2>1 DEF Shared
<1>8. None \notin Elements(handled')
  BY <1>1, <1>4 DEF Shared, BoxInv, TypeOK
<1>9. \A s \in Readers : held'[s] \notin Elements(handled')
  BY <1>1, <1>4, <1>8 DEF Shared, m
<1>10. \A s, t \in Readers : held'[s] = held'[t] /\ s # t => held'[s] = None
  BY <1>1 DEF Shared
<1>11. InQueue' = InQueue
  BY <1>1 DEF InQueue
<1>12. Shared'
  BY <1>1, <1>6, <1>7, <1>9, <1>10, <1>11 DEF Shared
<1>13. \A i \in DOMAIN handled : Late(i)' = Late(i)
  <2> SUFFICES ASSUME NEW i \in DOMAIN handled PROVE Late(i)' = Late(i)
    OBVIOUS
  <2>1. handled'[i] = handled[i] /\ \A j \in 1..i : handled'[j] = handled[j]
    BY <1>2
  <2> QED BY <1>1, <2>1 DEF Late
<1>14. ASSUME NEW i \in DOMAIN handled' \ DOMAIN handled
       PROVE  Late(i)' \subseteq {held[s] : s \in Readers \ {r}}
  <2>1. i = n
    BY <1>3
  <2> SUFFICES ASSUME NEW x \in taken, x < m, \A j \in 1..n : handled'[j] # x
               PROVE  \E s \in Readers \ {r} : x = held[s]
    BY <1>1, <1>2, <2>1 DEF Late
  <2>2. x \notin Elements(handled)
    BY <1>2, <1>3 DEF Elements
  <2>3. x # m
    <3>1. n \in 1..n
      BY <1>2 DEF n
    <3> QED BY <1>2, <3>1
  <2> QED BY <2>2, <2>3 DEF Shared, m
<1> QED BY <1>12, <1>13, <1>14

(* A message handled finds fewer late ones than there are readers: one each  *)
(* for the others.                                                           *)
LEMMA HeldByOthers ==
  ASSUME NEW r \in Readers, NEW S, S \subseteq {held[s] : s \in Readers \ {r}}
  PROVE  Cardinality(S) < Cardinality(Readers)
<1> DEFINE T == {held[s] : s \in Readers \ {r}}
           f == [s \in Readers \ {r} |-> held[s]]
<1>1. /\ IsFiniteSet(Readers \ {r}) /\ Cardinality(Readers \ {r}) = Cardinality(Readers) - 1
      /\ Cardinality(Readers) \in Nat
  BY ReadersAssumption, FS_RemoveElement, FS_CardinalityType
<1>2. IsFiniteSet(T) /\ Cardinality(T) <= Cardinality(Readers \ {r})
  <2>1. f \in Surjection(Readers \ {r}, T)
    BY DEF Surjection
  <2> HIDE DEF f, T
  <2> QED BY <1>1, <2>1, FS_Surjection
<1>3. S \in SUBSET T
  OBVIOUS
<1> HIDE DEF T
<1>4. IsFiniteSet(S) /\ Cardinality(S) <= Cardinality(T)
  BY <1>2, <1>3, FS_Subset
<1>5. Cardinality(S) \in Nat /\ Cardinality(T) \in Nat
  BY <1>2, <1>4, FS_CardinalityType
<1> QED BY <1>1, <1>2, <1>4, <1>5

LEMMA HandlingInit == Init => Shared /\ FewLate
<1> SUFFICES ASSUME Init PROVE Shared /\ FewLate
  OBVIOUS
<1>1. DOMAIN handled = {} /\ taken = {} /\ \A r \in Readers : held[r] = None
  BY DEF Init
<1> QED BY <1>1 DEF Shared, FewLate, Elements

LEMMA HandlingNext == BoxInv /\ Shared /\ FewLate /\ [Next]_vars => Shared' /\ FewLate'
<1> SUFFICES ASSUME BoxInv, Shared, FewLate, [Next]_vars PROVE Shared' /\ FewLate'
  OBVIOUS
<1>1. CASE InQueue' \subseteq InQueue \cup ({hand} \ {None}) /\ UNCHANGED <<held, taken, handled>>
  <2>1. \A i \in DOMAIN handled : Late(i)' = Late(i)
    BY <1>1 DEF Late
  <2> QED BY <1>1, <2>1, WritingShared DEF FewLate
<1>2. CASE queue' = queue /\ UNCHANGED <<held, taken, handled>>
  BY <1>1, <1>2 DEF InQueue
<1>3. CASE hand # None /\ Len(queue) < Depth /\ queue' = Append(queue, hand) /\ hand' = None
           /\ UNCHANGED <<written, held, taken, handled>>
  BY <1>1, <1>3, PutInto
<1>4. CASE Enqueue
  <2>1. hand # None
    BY NoneAssumption, <1>4 DEF Enqueue, BoxInv, Writing, TypeOK
  <2> QED BY <1>2, <1>3, <1>4, <2>1 DEF Enqueue
<1>5. CASE EnqueueAgain
  <2>1. hand # None /\ Len(queue) < Depth
    BY NoneAssumption, <1>5 DEF EnqueueAgain, BoxInv, Writing, TypeOK
  <2> QED BY <1>3, <1>5, <2>1 DEF EnqueueAgain
<1>6. CASE PushOut
  <2>1. CASE queue # <<>> /\ queue' = Tail(queue)
    <3>1. InQueue' \subseteq InQueue
      BY <2>1, Headed
    <3> QED BY <1>1, <1>6, <3>1 DEF PushOut
  <2> QED BY <1>2, <1>6, <2>1 DEF PushOut
<1>7. ASSUME NEW r \in Readers, Dequeue(r) PROVE Shared' /\ FewLate'
  <2>1. handled' = handled
    BY <1>7 DEF Dequeue
  <2> QED BY <1>7, <2>1, DequeueShared DEF FewLate
<1>8. ASSUME NEW r \in Readers, Handle(r) PROVE Shared' /\ FewLate'
  <2>1. ASSUME NEW i \in DOMAIN handled' PROVE Cardinality(Late(i)') < Cardinality(Readers)
    <3>1. CASE i \in DOMAIN handled
      BY <1>8, <3>1, HandleShared DEF FewLate
    <3>2. CASE i \notin DOMAIN handled
      BY <1>8, <3>2, HandleShared, HeldByOthers
    <3> QED BY <3>1, <3>2
  <2> QED BY <1>8, <2>1, HandleShared DEF FewLate
<1> QED
  BY <1>2, <1>4, <1>5, <1>6, <1>7, <1>8
     DEF Next, Write, BoxInit, ReceiveNothing, Receive, FreePushed, vars

(* Those that overtook a message were late for it.                           *)
LEMMA OvertakenAreLate ==
  ASSUME BoxInv, Shared, NEW i \in DOMAIN handled, NEW n \in Nat, Cardinality(Late(i)) < n
  PROVE  Cardinality(Overtaken(i)) < n
<1> DEFINE f == [j \in Overtaken(i) |-> handled[j]]
<1>1. DOMAIN handled = 1..Len(handled) /\ Len(handled) \in Nat /\ i \in Nat
  BY LenProperties DEF BoxInv, TypeOK
<1>2. \A j \in Overtaken(i) : j \in DOMAIN handled /\ j \notin 1..i /\ handled[j] < handled[i]
  BY <1>1 DEF Overtaken
<1>3. \A j \in 1..i : j \in DOMAIN handled
  BY <1>1
<1>4. \A j \in DOMAIN handled : handled[j] \in taken
  BY DEF Shared, Elements
<1>5. \A j \in Overtaken(i) : handled[j] \in Late(i)
  BY <1>2, <1>3, <1>4 DEF Late, Shared
<1>6. \A j, k \in Overtaken(i) : handled[j] = handled[k] => j = k
  BY <1>2 DEF Shared
<1>7. f \in Injection(Overtaken(i), Late(i))
  BY <1>5, <1>6 DEF Injection, IsInjective
<1>8. IsFiniteSet(Late(i))
  <2>1. IsFiniteSet(Messages) /\ Late(i) \in SUBSET Messages
    <3>1. MaxMessages \in Int /\ 1 \in Int
      BY DepthAssumption
    <3> QED BY <3>1, FS_Interval DEF Late, BoxInv, TypeOK, Messages
  <2> QED BY <2>1, FS_Subset
<1>9. IsFiniteSet(Overtaken(i)) /\ Cardinality(Overtaken(i)) <= Cardinality(Late(i))
  BY <1>7, <1>8, FS_Injection
<1>10. Cardinality(Overtaken(i)) \in Nat /\ Cardinality(Late(i)) \in Nat
  BY <1>8, <1>9, FS_CardinalityType
<1> QED BY <1>9, <1>10

(* However the readers interleave, a message overtakes at most one for each   *)
(* other reader on its way from the line to its handler; with one reader the  *)
(* order of the line is kept (the loops of mqtt.c and haas_mqtt.c).           *)
THEOREM OvertakingIsBounded == Spec => []OvertakingBounded
<1>1. Init => BoxInv /\ Shared /\ FewLate
  BY BoxInit0, HandlingInit
<1>2. BoxInv /\ Shared /\ FewLate /\ [Next]_vars => (BoxInv /\ Shared /\ FewLate)'
  BY BoxNext, HandlingNext
<1>3. BoxInv /\ Shared /\ FewLate => OvertakingBounded
  BY OvertakenAreLate, ReadersAssumption, FS_CardinalityType DEF FewLate, OvertakingBounded
<1> QED BY <1>1, <1>2, <1>3, PTL DEF Spec
================================================================================
