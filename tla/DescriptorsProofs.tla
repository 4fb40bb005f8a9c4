--------------------------- MODULE DescriptorsProofs ---------------------------
(***************************************************************************)
(* HandlesHold and StraysExplained of Descriptors, for any threads, lines, *)
(* clients, lineups and number of descriptors.                             *)
(***************************************************************************)
EXTENDS Descriptors, TLAPS

(* Who holds what: the parts of HandlesHold.                               *)
LinesHold == \A l \in Lines : fd[l] # 0 => file[fd[l]] = Tty(l)
InputsHold == \A l \in Receivers : rx[l].num # 0 => file[rx[l].num] = Input(l)
SocketsHold == \A c \in Clients : Connected(c) /\ sock[c] # 0 => file[sock[c]] = Socket(c)
ErrandHolds == errand \notin {None, 0} => file[errand] = Errand
SocketsReset == \A c \in Clients : client[c] = "connect" => sock[c] = 0
Holds == LinesHold /\ InputsHold /\ SocketsHold /\ SocketsReset /\ ErrandHolds

(* While every name has been resolved, 0 is standard input and nobody holds  *)
(* it, but for lines whose first sender has not opened them yet.             *)
Claimed(l) == \/ l \in bits
              \/ \E s \in Senders : l \in sender[s].seen
              \/ \E s \in Senders : sender[s].at = "write" /\ sender[s].line = l
LinesOpened == \A l \in Lines : Claimed(l) /\ fd[l] = 0 => Opening(l)
Configuring == \A s \in Senders : sender[s].at = "configure" => fd[sender[s].line] # 0
InputsOpened == \A l \in Receivers : rx[l].at # "open" => rx[l].num # 0
SocketsOpened == \A c \in Clients : Connected(c) => sock[c] # 0
Orderly ==
  /\ file[0] = Stdin /\ errand # 0 /\ ended \in {"no", "packet"}
  /\ LinesOpened /\ Configuring /\ InputsOpened /\ SocketsOpened

(* Unless its client was closed meanwhile, the data thread writes to it.     *)
DataFollows ==
  data.at # "idle" => /\ data.client \in Clients
                      /\ stale \/ client[data.client] \in {"up", "down"}
                      /\ data.at = "write" => stale \/ data.num = sock[data.client]

(* A sender that is not idle has a line.                                     *)
Busy == \A s \in Senders : sender[s].at # "idle" => sender[s].line \in Lines

DInv == TypeOK /\ Busy /\ Holds /\ (failed \/ Orderly) /\ DataFollows

USE FdsAssumption, NoneAssumption

(* Nothing is open but standard input, and nobody holds it.                  *)
LEMMA DInvInit == Init => DInv
<1> SUFFICES ASSUME Init PROVE DInv
  OBVIOUS
<1>1. file \in [Fds -> Files \cup {None}]
  BY DEF Init, Files
<1>2. sender \in [Senders -> [at : {"idle", "mark", "open", "configure", "write"},
                             line : Lines \cup {None}, seen : SUBSET Lines]]
  BY DEF Init, Quiet
<1>3. closed \in 0..MaxClosed
  BY NamedAssumption DEF Init
<1>4. TypeOK
  BY <1>1, <1>2, <1>3 DEF Init, TypeOK, Idle
<1>5. Busy /\ Holds /\ DataFollows
  BY DEF Init, Busy, Holds, LinesHold, InputsHold, SocketsHold, SocketsReset, ErrandHolds, DataFollows,
         Connected, Quiet, Idle
<1>6. LinesOpened
  BY DEF Init, LinesOpened, Claimed, Quiet
<1>7. Orderly
  BY <1>6 DEF Init, Orderly, Configuring, InputsOpened, SocketsOpened, Connected, Quiet
<1> QED BY <1>4, <1>5, <1>7 DEF DInv

LEMMA DInvImplies == DInv => HandlesHold /\ StraysExplained
<1> SUFFICES ASSUME DInv PROVE HandlesHold /\ StraysExplained
  OBVIOUS
<1>1. HandlesHold
  BY DEF DInv, Holds, LinesHold, InputsHold, SocketsHold, SocketsReset, ErrandHolds, HandlesHold
<1>2. ASSUME NEW s \in Senders, sender[s].at = "write", file[fd[sender[s].line]] # Tty(sender[s].line)
      PROVE  fd[sender[s].line] = 0 /\ (failed \/ Opening(sender[s].line))
  BY <1>2 DEF DInv, Busy, Holds, LinesHold, Orderly, LinesOpened, Claimed
<1>3. ASSUME NEW c \in Clients, Connected(c), file[sock[c]] # Socket(c)
      PROVE  sock[c] = 0 /\ failed
  BY <1>3 DEF DInv, Holds, SocketsHold, Orderly, SocketsOpened
<1>4. ASSUME data.at = "write", file[data.num] # Socket(data.client)
      PROVE  stale \/ (data.num = 0 /\ failed)
  BY <1>3, <1>4 DEF DInv, DataFollows, Connected
<1>5. ended \in {"no", "packet"} \/ failed
  BY DEF DInv, Orderly
<1> QED BY <1>1, <1>2, <1>3, <1>4, <1>5 DEF StraysExplained

(* Tags keep the files apart.                                              *)
LEMMA FilesApart ==
  /\ \A l, m : (Tty(l) = Tty(m) => l = m) /\ (Input(l) = Input(m) => l = m)
              /\ (Socket(l) = Socket(m) => l = m)
  /\ \A l, m : /\ Tty(l) # Input(m) /\ Tty(l) # Socket(m) /\ Tty(l) # Errand /\ Tty(l) # Stdin
              /\ Input(l) # Socket(m) /\ Input(l) # Errand /\ Input(l) # Stdin
              /\ Socket(l) # Errand /\ Socket(l) # Stdin /\ Errand # Stdin
  BY DEF Tty, Input, Socket, Errand, Stdin

(* Every named file is one of Files, and none of them is None.             *)
LEMMA FilesOpen ==
  /\ \A l \in Lines : Tty(l) \in Files /\ Tty(l) # None
  /\ \A l \in Receivers : Input(l) \in Files /\ Input(l) # None
  /\ \A c \in Clients : Socket(c) \in Files /\ Socket(c) # None
  /\ Errand \in Files /\ Errand # None /\ Stdin \in Files /\ Stdin # None
  BY DEF Files

(* A write leaves the process running, or ends it if the file is a socket.  *)
LEMMA WriteEnds ==
  ASSUME NEW n, NEW what \in {"packet", "frame"}, WriteTo(n, what)
  PROVE  ended' \in {"no", what} /\ (~IsSocket(file[n]) => ended' = "no")
  BY DEF WriteTo

(* A file opened under a free number is in nobody's way.                   *)
LEMMA OpenKeeps ==
  ASSUME TypeOK, Holds, NEW n \in Fds, NEW f \in Files, Open(n, f)
  PROVE  /\ file' \in [Fds -> Files \cup {None}] /\ file'[n] = f
         /\ \A l \in Lines : fd[l] # 0 => file'[fd[l]] = Tty(l)
         /\ \A l \in Receivers : rx[l].num # 0 => file'[rx[l].num] = Input(l)
         /\ \A c \in Clients : Connected(c) /\ sock[c] # 0 => file'[sock[c]] = Socket(c)
         /\ errand \notin {None, 0} => file'[errand] = Errand
         /\ Orderly => n # 0 /\ file'[0] = Stdin
<1>1. file[n] = None /\ file' = [file EXCEPT ![n] = f] /\ file \in [Fds -> Files \cup {None}]
  BY DEF Open, Lowest, TypeOK
<1>2. file'[n] = f /\ \A m \in Fds : m # n => file'[m] = file[m]
  BY <1>1
<1>3. /\ \A l \in Lines : fd[l] \in Fds
      /\ \A l \in Receivers : rx[l].num \in Fds
      /\ \A c \in Clients : sock[c] \in Fds
      /\ errand # None => errand \in Fds
  BY DEF TypeOK
<1>4. file' \in [Fds -> Files \cup {None}]
  BY <1>1
<1>5. Orderly => n # 0
  BY <1>1, FilesOpen DEF Orderly
<1> QED BY <1>1, <1>2, <1>3, <1>4, <1>5, FilesOpen DEF Holds, LinesHold, InputsHold, SocketsHold, SocketsReset, ErrandHolds, Orderly

-----------------------------------------------------------------------------
(* The senders.                                                            *)

LEMMA SendStep ==
  ASSUME DInv, NEW s \in Senders, NEW l \in Lines, Send(s, l) PROVE DInv'
<1> DEFINE q == [at |-> IF l \in bits THEN "write" ELSE "mark", line |-> l,
                 seen |-> IF l \in bits THEN {} ELSE bits]
<1>1. sender' = [sender EXCEPT ![s] = q]
  BY DEF Send
<1>2. UNCHANGED <<lineup, file, bits, fd, ended, rx, client, sock, closed, data, errand, stale, failed>>
  BY DEF Send, At, Runs, NotSending
<1>3. bits \subseteq Lines /\ sender[s].at = "idle"
  BY DEF DInv, TypeOK, Send, At
<1>4. q \in [at : {"idle", "mark", "open", "configure", "write"}, line : Lines \cup {None}, seen : SUBSET Lines]
  BY <1>3
<1>5. TypeOK'
  BY <1>1, <1>2, <1>4 DEF DInv, TypeOK
<1>6. sender'[s] = q /\ \A u \in Senders : u # s => sender'[u] = sender[u]
  BY <1>1 DEF DInv, TypeOK
<1> HIDE DEF q
<1>7. q.at \in {"write", "mark"} /\ q.line = l /\ (q.at = "write" => l \in bits) /\ q.seen \subseteq bits
  BY DEF q
<1>8. Configuring => Configuring'
  BY <1>2, <1>6, <1>7 DEF Configuring
<1>9. Busy'
  BY <1>2, <1>6, <1>7 DEF DInv, Busy
<1>10. Holds' /\ DataFollows'
  BY <1>2 DEF DInv, Holds, LinesHold, InputsHold, SocketsHold, SocketsReset, ErrandHolds, Connected, DataFollows
<1>11. ASSUME LinesOpened PROVE LinesOpened'
  <2>1. \A m \in Lines : Opening(m) => Opening(m)'
    BY <1>3, <1>6 DEF Opening
  <2>2. \A m \in Lines : Claimed(m)' => Claimed(m)
    BY <1>2, <1>6, <1>7 DEF Claimed
  <2> QED BY <1>2, <1>11, <2>1, <2>2 DEF LinesOpened
<1>12. (failed \/ Orderly)'
  BY <1>2, <1>8, <1>11 DEF DInv, Orderly, InputsOpened, SocketsOpened, Connected
<1> QED BY <1>5, <1>9, <1>10, <1>12 DEF DInv

LEMMA MarkStep ==
  ASSUME DInv, NEW s \in Senders, NEW l, l = sender[s].line, Mark(s) PROVE DInv'
<1>1. sender' = [sender EXCEPT ![s].at = "open", ![s].seen = {}] /\ bits' = sender[s].seen \cup {l}
  BY DEF Mark
<1>2. UNCHANGED <<lineup, file, fd, ended, rx, client, sock, closed, data, errand, stale, failed>>
  BY DEF Mark, At, Runs, NotSending
<1>3. l \in Lines /\ sender[s].seen \subseteq Lines /\ sender[s].at = "mark"
  BY DEF DInv, Busy, TypeOK, Mark, At
<1>4. TypeOK'
  <2>0. sender[s] \in [at : {"idle", "mark", "open", "configure", "write"},
                      line : Lines \cup {None}, seen : SUBSET Lines]
    BY DEF DInv, TypeOK
  <2>1. [sender[s] EXCEPT !.at = "open", !.seen = {}]
          \in [at : {"idle", "mark", "open", "configure", "write"}, line : Lines \cup {None}, seen : SUBSET Lines]
    BY <2>0
  <2>2. sender' \in [Senders -> [at : {"idle", "mark", "open", "configure", "write"},
                                 line : Lines \cup {None}, seen : SUBSET Lines]]
    BY <1>1, <2>1 DEF DInv, TypeOK
  <2> QED BY <1>1, <1>2, <1>3, <2>2 DEF DInv, TypeOK
<1>5. /\ sender'[s].at = "open" /\ sender'[s].line = l /\ sender'[s].seen = {}
      /\ \A u \in Senders : u # s => sender'[u] = sender[u]
  BY <1>1 DEF DInv, TypeOK
<1>6. Busy'
  BY <1>3, <1>5 DEF DInv, Busy
<1>7. Holds' /\ DataFollows'
  BY <1>2 DEF DInv, Holds, LinesHold, InputsHold, SocketsHold, SocketsReset, ErrandHolds, Connected, DataFollows
<1>8. ASSUME LinesOpened PROVE LinesOpened'
  <2>1. \A m \in Lines : Opening(m) => Opening(m)'
    BY <1>5 DEF Opening
  <2>2. \A m \in Lines : Claimed(m)' => Claimed(m) \/ m = l
    BY <1>1, <1>5 DEF Claimed
  <2>3. Opening(l)'
    BY <1>5 DEF Opening
  <2> QED BY <1>2, <1>8, <2>1, <2>2, <2>3 DEF LinesOpened
<1>9. (failed \/ Orderly)'
  BY <1>2, <1>5, <1>8 DEF DInv, Orderly, Configuring, InputsOpened, SocketsOpened, Connected
<1> QED BY <1>4, <1>6, <1>7, <1>9 DEF DInv

LEMMA OpenLineStep ==
  ASSUME DInv, NEW s \in Senders, NEW l, l = sender[s].line, OpenLine(s) PROVE DInv'
<1>1. PICK n \in Fds : /\ sender' = [sender EXCEPT ![s].at = "configure"]
                       /\ Open(n, Tty(l)) /\ fd' = [fd EXCEPT ![l] = n]
  BY DEF OpenLine, Goto
<1>2. UNCHANGED <<lineup, bits, ended, rx, client, sock, closed, data, errand, stale, failed>>
  BY DEF OpenLine, At, Runs, NotSending
<1>3. l \in Lines /\ sender[s].at = "open"
  BY DEF DInv, Busy, OpenLine, At
<1>4. /\ file' \in [Fds -> Files \cup {None}] /\ file'[n] = Tty(l)
      /\ \A m \in Lines : fd[m] # 0 => file'[fd[m]] = Tty(m)
      /\ \A m \in Receivers : rx[m].num # 0 => file'[rx[m].num] = Input(m)
      /\ \A c \in Clients : Connected(c) /\ sock[c] # 0 => file'[sock[c]] = Socket(c)
      /\ errand \notin {None, 0} => file'[errand] = Errand
      /\ Orderly => n # 0 /\ file'[0] = Stdin
  BY <1>1, <1>3, OpenKeeps, FilesOpen DEF DInv
<1>5. TypeOK'
  BY <1>1, <1>2, <1>3, <1>4 DEF DInv, TypeOK
<1>6. /\ sender'[s].at = "configure" /\ sender'[s].line = l /\ sender'[s].seen = sender[s].seen
      /\ \A u \in Senders : u # s => sender'[u] = sender[u]
      /\ fd'[l] = n /\ \A m \in Lines : m # l => fd'[m] = fd[m]
  BY <1>1, <1>3 DEF DInv, TypeOK
<1>7. Busy'
  BY <1>3, <1>6 DEF DInv, Busy
<1>8. Holds' /\ DataFollows'
  BY <1>2, <1>4, <1>6 DEF DInv, Holds, LinesHold, InputsHold, SocketsHold, SocketsReset, ErrandHolds, Connected, DataFollows
<1>9. ASSUME Orderly PROVE LinesOpened' /\ Configuring'
  <2>1. \A m \in Lines : m # l /\ Opening(m) => Opening(m)'
    BY <1>6 DEF Opening
  <2>2. \A m \in Lines : Claimed(m)' => Claimed(m)
    BY <1>2, <1>6 DEF Claimed
  <2>3. LinesOpened'
    BY <1>4, <1>6, <1>9, <2>1, <2>2 DEF Orderly, LinesOpened
  <2>4. Configuring'
    BY <1>4, <1>6, <1>9 DEF DInv, Busy, Orderly, Configuring
  <2> QED BY <2>3, <2>4
<1>10. (failed \/ Orderly)'
  BY <1>2, <1>4, <1>9 DEF DInv, Orderly, InputsOpened, SocketsOpened, Connected
<1> QED BY <1>5, <1>7, <1>8, <1>10 DEF DInv

LEMMA ConfigureStep ==
  ASSUME DInv, NEW s \in Senders, NEW l, l = sender[s].line, Configure(s) PROVE DInv'
<1>1. sender' = [sender EXCEPT ![s].at = "write"] /\ ended' = (IF ~IsTty(file[fd[l]]) THEN "exit" ELSE "no")
  BY DEF Configure, Goto, Exit
<1>2. UNCHANGED <<lineup, file, bits, fd, rx, client, sock, closed, data, errand, stale, failed>>
  BY DEF Configure, At, Runs, NotSending
<1>3. l \in Lines /\ sender[s].at = "configure"
  BY DEF DInv, Busy, Configure, At
<1>4. TypeOK'
  BY <1>1, <1>2 DEF DInv, TypeOK
<1>5. /\ sender'[s].at = "write" /\ sender'[s].line = l /\ sender'[s].seen = sender[s].seen
      /\ \A u \in Senders : u # s => sender'[u] = sender[u]
  BY <1>1 DEF DInv, TypeOK
<1>6. Busy'
  BY <1>3, <1>5 DEF DInv, Busy
<1>7. Holds' /\ DataFollows'
  BY <1>2 DEF DInv, Holds, LinesHold, InputsHold, SocketsHold, SocketsReset, ErrandHolds, Connected, DataFollows
<1>8. ASSUME Orderly PROVE LinesOpened' /\ Configuring' /\ ended' = "no"
  <2>1. fd[l] # 0
    BY <1>3, <1>8 DEF Orderly, Configuring
  <2>2. ended' = "no"
    BY <1>1, <1>3, <2>1 DEF DInv, Holds, LinesHold, IsTty
  <2>3. \A m \in Lines : Opening(m) => Opening(m)'
    BY <1>3, <1>5 DEF Opening
  <2>4. \A m \in Lines : Claimed(m)' => Claimed(m) \/ m = l
    BY <1>2, <1>5 DEF Claimed
  <2>5. LinesOpened'
    BY <1>2, <1>8, <2>1, <2>3, <2>4 DEF Orderly, LinesOpened
  <2>6. Configuring'
    BY <1>2, <1>5, <1>8 DEF Orderly, Configuring
  <2> QED BY <2>2, <2>5, <2>6
<1>9. (failed \/ Orderly)'
  BY <1>2, <1>8 DEF DInv, Orderly, InputsOpened, SocketsOpened, Connected
<1> QED BY <1>4, <1>6, <1>7, <1>9 DEF DInv

LEMMA WriteStep ==
  ASSUME DInv, NEW s \in Senders, Write(s) PROVE DInv'
<1>1. sender' = [sender EXCEPT ![s] = Quiet] /\ WriteTo(fd[sender[s].line], "frame")
  BY DEF Write
<1>0. ended' \in {"no", "frame"} /\ (~IsSocket(file[fd[sender[s].line]]) => ended' = "no")
  BY <1>1, WriteEnds
<1>2. UNCHANGED <<lineup, file, bits, fd, rx, client, sock, closed, data, errand, stale, failed>>
  BY DEF Write, At, Runs, NotSending
<1>3. sender[s].at = "write"
  BY DEF Write, At
<1>4. TypeOK'
  BY <1>0, <1>1, <1>2 DEF DInv, TypeOK, Quiet
<1>5. /\ sender'[s].at = "idle" /\ sender'[s].seen = {}
      /\ \A u \in Senders : u # s => sender'[u] = sender[u]
  BY <1>1 DEF DInv, TypeOK, Quiet
<1>6. Busy'
  BY <1>5 DEF DInv, Busy
<1>7. Holds' /\ DataFollows'
  BY <1>2 DEF DInv, Holds, LinesHold, InputsHold, SocketsHold, SocketsReset, ErrandHolds, Connected, DataFollows
<1>8. ASSUME LinesOpened PROVE LinesOpened'
  <2>1. \A m \in Lines : Opening(m) => Opening(m)'
    BY <1>3, <1>5 DEF Opening
  <2>2. \A m \in Lines : Claimed(m)' => Claimed(m)
    BY <1>2, <1>5 DEF Claimed
  <2> QED BY <1>2, <1>8, <2>1, <2>2 DEF LinesOpened
<1>10. Orderly => ended' = "no"
  <2>1. sender[s].line \in Lines
    BY <1>3 DEF DInv, Busy
  <2>2. ~IsSocket(Stdin) /\ ~IsSocket(Tty(sender[s].line))
    BY FilesApart DEF IsSocket
  <2> QED BY <1>0, <2>1, <2>2 DEF DInv, Holds, LinesHold, Orderly
<1>9. (failed \/ Orderly)'
  BY <1>2, <1>5, <1>8, <1>10 DEF DInv, Orderly, Configuring, InputsOpened, SocketsOpened, Connected
<1> QED BY <1>4, <1>6, <1>7, <1>9 DEF DInv

-----------------------------------------------------------------------------
(* The receivers.                                                          *)

LEMMA OpenInputStep ==
  ASSUME DInv, NEW l \in Receivers, OpenInput(l) PROVE DInv'
<1>1. PICK n \in Fds : rx' = [rx EXCEPT ![l] = [at |-> "configure", num |-> n]] /\ Open(n, Input(l))
  BY DEF OpenInput
<1>2. UNCHANGED <<lineup, bits, fd, sender, client, sock, closed, data, errand, stale, failed, ended>>
  BY DEF OpenInput, Runs
<1>3. /\ file' \in [Fds -> Files \cup {None}] /\ file'[n] = Input(l)
      /\ \A m \in Lines : fd[m] # 0 => file'[fd[m]] = Tty(m)
      /\ \A m \in Receivers : rx[m].num # 0 => file'[rx[m].num] = Input(m)
      /\ \A d \in Clients : Connected(d) /\ sock[d] # 0 => file'[sock[d]] = Socket(d)
      /\ errand \notin {None, 0} => file'[errand] = Errand
      /\ Orderly => n # 0 /\ file'[0] = Stdin
  BY <1>1, OpenKeeps, FilesOpen DEF DInv
<1>4. TypeOK'
  BY <1>1, <1>2, <1>3 DEF DInv, TypeOK
<1>5. /\ rx'[l].at = "configure" /\ rx'[l].num = n
      /\ \A m \in Receivers : m # l => rx'[m] = rx[m]
  BY <1>1 DEF DInv, TypeOK
<1>6. Busy' /\ Holds' /\ DataFollows'
  BY <1>2, <1>3, <1>5 DEF DInv, Busy, Holds, LinesHold, InputsHold, SocketsHold, SocketsReset, ErrandHolds, Connected, DataFollows
<1>7. (failed \/ Orderly)'
  BY <1>2, <1>3, <1>5 DEF DInv, Orderly, LinesOpened, Claimed, Opening, Configuring, InputsOpened, SocketsOpened, Connected
<1> QED BY <1>4, <1>6, <1>7 DEF DInv

LEMMA ConfigureInputStep ==
  ASSUME DInv, NEW l \in Receivers, ConfigureInput(l) PROVE DInv'
<1>1. rx' = [rx EXCEPT ![l].at = "read"] /\ rx[l].at = "configure" /\ ended' = (IF ~IsTty(file[rx[l].num]) THEN "exit" ELSE "no")
  BY DEF ConfigureInput, Receiving, Exit
<1>2. UNCHANGED <<lineup, file, bits, fd, sender, client, sock, closed, data, errand, stale, failed>>
  BY DEF ConfigureInput, Receiving, Runs
<1>3. TypeOK'
  BY <1>1, <1>2 DEF DInv, TypeOK
<1>4. /\ rx'[l].at = "read" /\ rx'[l].num = rx[l].num
      /\ \A m \in Receivers : m # l => rx'[m] = rx[m]
  BY <1>1 DEF DInv, TypeOK
<1>5. Busy' /\ Holds' /\ DataFollows'
  BY <1>2, <1>4 DEF DInv, Busy, Holds, LinesHold, InputsHold, SocketsHold, SocketsReset, ErrandHolds, Connected, DataFollows
<1>6. ASSUME Orderly PROVE InputsOpened' /\ ended' = "no"
  <2>1. rx[l].num # 0
    BY <1>1, <1>6 DEF Orderly, InputsOpened
  <2>2. ended' = "no"
    BY <1>1, <2>1 DEF DInv, Holds, InputsHold, IsTty
  <2> QED BY <1>4, <1>6, <2>1, <2>2 DEF Orderly, InputsOpened
<1>7. (failed \/ Orderly)'
  BY <1>2, <1>6 DEF DInv, Orderly, LinesOpened, Claimed, Opening, Configuring, InputsOpened, SocketsOpened, Connected
<1> QED BY <1>3, <1>5, <1>7 DEF DInv

LEMMA ReadFailsStep ==
  ASSUME DInv, NEW l \in Receivers, ReadFails(l) PROVE DInv'
<1>1. rx' = [rx EXCEPT ![l].at = "read"] /\ rx[l].at = "read" /\ file[rx[l].num] # Input(l) /\ ended' = "exit"
  BY DEF ReadFails, Receiving, Exit
<1>2. UNCHANGED <<lineup, file, bits, fd, sender, client, sock, closed, data, errand, stale, failed>>
  BY DEF ReadFails, Receiving, Runs
<1>3. rx' = rx
  BY <1>1 DEF DInv, TypeOK
<1>4. TypeOK'
  BY <1>1, <1>2, <1>3 DEF DInv, TypeOK
<1>5. Busy' /\ Holds' /\ DataFollows'
  BY <1>2, <1>3 DEF DInv, Busy, Holds, LinesHold, InputsHold, SocketsHold, SocketsReset, ErrandHolds, Connected, DataFollows
<1>6. failed
  <2>1. rx[l].num = 0
    BY <1>1 DEF DInv, Holds, InputsHold
  <2> QED BY <1>1, <2>1 DEF DInv, Orderly, InputsOpened
<1> QED BY <1>2, <1>4, <1>5, <1>6 DEF DInv

-----------------------------------------------------------------------------
(* The clients.                                                            *)

LEMMA NetworkInitStep ==
  ASSUME DInv, NEW c \in Clients, NetworkInit(c) PROVE DInv'
<1>1. /\ client[c] = "start" /\ client' = [client EXCEPT ![c] = "connect"]
      /\ sock' = [sock EXCEPT ![c] = 0]
  BY DEF NetworkInit, Moves
<1>2. UNCHANGED <<lineup, file, bits, fd, sender, rx, closed, data, errand, stale, failed, ended>>
  BY DEF NetworkInit, Moves, Runs, NoClient
<1>3. TypeOK'
  BY <1>1, <1>2 DEF DInv, TypeOK
<1>4. /\ client'[c] = "connect" /\ sock'[c] = 0
      /\ \A d \in Clients : d # c => client'[d] = client[d] /\ sock'[d] = sock[d]
  BY <1>1 DEF DInv, TypeOK
<1>5. Busy' /\ Holds'
  BY <1>2, <1>4 DEF DInv, Busy, Holds, LinesHold, InputsHold, SocketsHold, SocketsReset, ErrandHolds, Connected
<1>6. DataFollows'
  BY <1>1, <1>2, <1>4 DEF DInv, DataFollows
<1>7. (failed \/ Orderly)'
  BY <1>2, <1>4 DEF DInv, Orderly, LinesOpened, Claimed, Opening, Configuring, InputsOpened, SocketsOpened, Connected
<1> QED BY <1>3, <1>5, <1>6, <1>7 DEF DInv

LEMMA NetworkConnectStep ==
  ASSUME DInv, NEW c \in Clients, NetworkConnect(c) PROVE DInv'
<1>1. client[c] = "connect" /\ client' = [client EXCEPT ![c] = "greet"]
  BY DEF NetworkConnect, Moves
<1>2. UNCHANGED <<lineup, bits, fd, sender, rx, closed, data, errand, stale, ended>>
  BY DEF NetworkConnect, Moves, Runs, NoClient
<1>3. /\ client'[c] = "greet" /\ \A d \in Clients : d # c => client'[d] = client[d]
      /\ client' \in [Clients -> {"start", "connect", "greet", "up", "down"}]
  BY <1>1 DEF DInv, TypeOK
<1>4. CASE \E n \in Fds : Open(n, Socket(c)) /\ sock' = [sock EXCEPT ![c] = n] /\ UNCHANGED failed
  <2>1. PICK n \in Fds : Open(n, Socket(c)) /\ sock' = [sock EXCEPT ![c] = n] /\ UNCHANGED failed
    BY <1>4
  <2>2. /\ file' \in [Fds -> Files \cup {None}] /\ file'[n] = Socket(c)
        /\ \A m \in Lines : fd[m] # 0 => file'[fd[m]] = Tty(m)
        /\ \A m \in Receivers : rx[m].num # 0 => file'[rx[m].num] = Input(m)
        /\ \A d \in Clients : Connected(d) /\ sock[d] # 0 => file'[sock[d]] = Socket(d)
        /\ errand \notin {None, 0} => file'[errand] = Errand
        /\ Orderly => n # 0 /\ file'[0] = Stdin
    BY <2>1, OpenKeeps, FilesOpen DEF DInv
  <2>3. TypeOK'
    BY <1>2, <1>3, <2>1, <2>2 DEF DInv, TypeOK
  <2>4. sock'[c] = n /\ \A d \in Clients : d # c => sock'[d] = sock[d]
    BY <2>1 DEF DInv, TypeOK
  <2>5. Busy' /\ Holds'
    BY <1>2, <1>3, <2>2, <2>4 DEF DInv, Busy, Holds, LinesHold, InputsHold, SocketsHold, SocketsReset, ErrandHolds, Connected
  <2>6. DataFollows'
    BY <1>1, <1>2, <1>3, <2>4 DEF DInv, DataFollows
  <2>7. (failed \/ Orderly)'
    BY <1>2, <1>3, <2>1, <2>2, <2>4 DEF DInv, Orderly, LinesOpened, Claimed, Opening, Configuring, InputsOpened, SocketsOpened, Connected
  <2> QED BY <2>3, <2>5, <2>6, <2>7 DEF DInv
<1>5. CASE failed' = TRUE /\ UNCHANGED <<file, sock>>
  <2>1. TypeOK'
    BY <1>2, <1>3, <1>5 DEF DInv, TypeOK
  <2>2. sock[c] = 0
    BY <1>1 DEF DInv, Holds, SocketsReset
  <2>3. Busy' /\ Holds'
    BY <1>2, <1>3, <1>5, <2>2 DEF DInv, Busy, Holds, LinesHold, InputsHold, SocketsHold, SocketsReset, ErrandHolds, Connected
  <2>4. DataFollows'
    BY <1>1, <1>2, <1>3, <1>5 DEF DInv, DataFollows
  <2> QED BY <1>5, <2>1, <2>3, <2>4 DEF DInv
<1> QED BY <1>4, <1>5 DEF NetworkConnect

LEMMA GreetStep ==
  ASSUME DInv, NEW c \in Clients, Greet(c) \/ Down(c) PROVE DInv'
<1>1. PICK to \in {"up", "down"} : client' = [client EXCEPT ![c] = to] /\ client[c] \in {"greet", "up"}
  BY DEF Greet, Down, Moves
<1>2. UNCHANGED <<lineup, file, bits, fd, sender, rx, sock, closed, data, errand, stale, failed>>
  BY DEF Greet, Down, Moves, Runs, NoClient
<1>0. ended' \in {"no", "packet"}
  BY WriteEnds DEF Greet, Down
<1>3. TypeOK'
  BY <1>0, <1>1, <1>2 DEF DInv, TypeOK
<1>4. /\ client'[c] \in {"up", "down"} /\ client[c] \in {"greet", "up"}
      /\ \A d \in Clients : d # c => client'[d] = client[d]
  BY <1>1 DEF DInv, TypeOK
<1>5. Busy' /\ Holds' /\ DataFollows'
  BY <1>2, <1>4 DEF DInv, Busy, Holds, LinesHold, InputsHold, SocketsHold, SocketsReset, ErrandHolds, Connected, DataFollows
<1>6. (failed \/ Orderly)'
  BY <1>0, <1>2, <1>4 DEF DInv, Orderly, LinesOpened, Claimed, Opening, Configuring, InputsOpened, SocketsOpened, Connected
<1> QED BY <1>3, <1>5, <1>6 DEF DInv

(* Only the socket's own thread closes it, unless its number is 0.         *)
LEMMA HangupStep ==
  ASSUME DInv, NEW c \in Clients, Hangup(c) PROVE DInv'
<1> DEFINE n == sock[c]
<1>1. /\ client[c] = "down" /\ client' = [client EXCEPT ![c] = "start"]
      /\ file' = [file EXCEPT ![n] = None] /\ closed < MaxClosed /\ closed' = closed + 1
      /\ stale' = (stale \/ data.client = c)
  BY DEF Hangup, Moves, Close
<1>2. UNCHANGED <<lineup, bits, fd, sender, rx, sock, data, errand, failed>>
  BY DEF Hangup, Moves, Runs, NoClient
<1>0. ended' \in {"no", "packet"}
  BY WriteEnds DEF Hangup
<1>3. closed' \in 0..MaxClosed
  BY <1>1, NamedAssumption DEF DInv, TypeOK
<1>4. TypeOK'
  BY <1>0, <1>1, <1>2, <1>3 DEF DInv, TypeOK
<1>5. /\ client'[c] = "start" /\ \A d \in Clients : d # c => client'[d] = client[d]
      /\ \A m \in Fds : m # n => file'[m] = file[m]
      /\ n \in Fds /\ (n # 0 => file[n] = Socket(c))
  BY <1>1 DEF DInv, TypeOK, Holds, SocketsHold, Connected
<1>6. /\ \A l \in Lines : fd[l] # 0 => fd[l] # n /\ fd[l] \in Fds
      /\ \A l \in Receivers : rx[l].num # 0 => rx[l].num # n /\ rx[l].num \in Fds
      /\ \A d \in Clients : d # c /\ Connected(d) /\ sock[d] # 0 => sock[d] # n /\ sock[d] \in Fds
      /\ errand \notin {None, 0} => errand # n /\ errand \in Fds
  <2>1. \A l \in Lines : fd[l] # 0 => fd[l] # n /\ fd[l] \in Fds
    <3> SUFFICES ASSUME NEW l \in Lines, fd[l] # 0 PROVE fd[l] # n /\ fd[l] \in Fds
      OBVIOUS
    <3>1. file[fd[l]] = Tty(l) /\ fd[l] \in Fds
      BY DEF DInv, TypeOK, Holds, LinesHold
    <3>2. n # 0 => file[n] # Tty(l)
      BY <1>5, FilesApart
    <3> QED BY <3>1, <3>2
  <2>2. \A l \in Receivers : rx[l].num # 0 => rx[l].num # n /\ rx[l].num \in Fds
    <3> SUFFICES ASSUME NEW l \in Receivers, rx[l].num # 0 PROVE rx[l].num # n /\ rx[l].num \in Fds
      OBVIOUS
    <3>1. file[rx[l].num] = Input(l) /\ rx[l].num \in Fds
      BY DEF DInv, TypeOK, Holds, InputsHold
    <3>2. n # 0 => file[n] # Input(l)
      BY <1>5, FilesApart
    <3> QED BY <3>1, <3>2
  <2>3. \A d \in Clients : d # c /\ Connected(d) /\ sock[d] # 0 => sock[d] # n /\ sock[d] \in Fds
    BY <1>5, FilesApart DEF DInv, TypeOK, Holds, SocketsHold
  <2>4. errand \notin {None, 0} => errand # n /\ errand \in Fds
    BY <1>5, FilesApart DEF DInv, TypeOK, Holds, ErrandHolds
  <2> QED BY <2>1, <2>2, <2>3, <2>4
<1>7. Busy' /\ Holds'
  BY <1>2, <1>5, <1>6 DEF DInv, Busy, Holds, LinesHold, InputsHold, SocketsHold, SocketsReset, ErrandHolds, Connected
<1>8. DataFollows'
  BY <1>1, <1>2, <1>5 DEF DInv, DataFollows
<1>9. Orderly => n # 0
  BY <1>1 DEF Orderly, SocketsOpened, Connected
<1>10. (failed \/ Orderly)'
  BY <1>0, <1>2, <1>5, <1>9 DEF DInv, Orderly, LinesOpened, Claimed, Opening, Configuring, InputsOpened, SocketsOpened, Connected
<1> QED BY <1>4, <1>7, <1>8, <1>10 DEF DInv

-----------------------------------------------------------------------------
(* The data thread and the errands.                                        *)

LEMMA DataStep ==
  ASSUME DInv, (\E c \in Clients : DataCheck(c)) \/ DataLoad \/ DataWrite PROVE DInv'
<1>1. UNCHANGED <<lineup, file, bits, fd, sender, rx, client, sock, closed, errand, failed>>
  BY DEF DataCheck, DataLoad, DataWrite, NotPublishing, Runs
<1>0. ended' \in {"no", "packet"}
  BY WriteEnds DEF DataCheck, DataLoad, DataWrite, Runs
<1>2. /\ data' \in [at : {"idle", "checked", "write"}, client : Clients \cup {None}, num : Fds]
      /\ stale' \in BOOLEAN /\ DataFollows'
  <2>1. CASE \E c \in Clients : DataCheck(c)
    <3>1. PICK c \in Clients : DataCheck(c)
      BY <2>1
    <3>2. /\ data'.at = "checked" /\ data'.client = c /\ client[c] = "up"
          /\ data' \in [at : {"idle", "checked", "write"}, client : Clients \cup {None}, num : Fds]
          /\ stale' = FALSE
      BY <3>1 DEF DataCheck
    <3> QED BY <1>1, <3>2 DEF DataFollows
  <2>2. CASE DataLoad
    <3>1. data.client \in Clients /\ (stale \/ client[data.client] \in {"up", "down"})
      BY <2>2 DEF DataLoad, DInv, DataFollows
    <3>2. /\ data'.at = "write" /\ data'.client = data.client /\ data'.num = sock[data.client]
          /\ data' \in [at : {"idle", "checked", "write"}, client : Clients \cup {None}, num : Fds]
      BY <2>2, <3>1 DEF DataLoad, DInv, TypeOK
    <3> QED BY <1>1, <2>2, <3>1, <3>2 DEF DataLoad, DataFollows, DInv, TypeOK
  <2>3. CASE DataWrite
    BY <2>3 DEF DataWrite, DataFollows, DInv, TypeOK, Idle
  <2> QED BY <2>1, <2>2, <2>3
<1>3. TypeOK'
  BY <1>0, <1>1, <1>2 DEF DInv, TypeOK
<1>4. Busy' /\ Holds'
  BY <1>1 DEF DInv, Busy, Holds, LinesHold, InputsHold, SocketsHold, SocketsReset, ErrandHolds, Connected
<1>5. (failed \/ Orderly)'
  BY <1>0, <1>1 DEF DInv, Orderly, LinesOpened, Claimed, Opening, Configuring, InputsOpened, SocketsOpened, Connected
<1> QED BY <1>2, <1>3, <1>4, <1>5 DEF DInv

LEMMA OpenErrandStep ==
  ASSUME DInv, OpenErrand PROVE DInv'
<1>1. PICK n \in Fds : errand = None /\ errand' = n /\ Open(n, Errand)
  BY DEF OpenErrand
<1>2. UNCHANGED <<lineup, bits, fd, sender, rx, client, sock, closed, data, stale, failed, ended>>
  BY DEF OpenErrand, Runs
<1>3. /\ file' \in [Fds -> Files \cup {None}] /\ file'[n] = Errand
      /\ \A m \in Lines : fd[m] # 0 => file'[fd[m]] = Tty(m)
      /\ \A m \in Receivers : rx[m].num # 0 => file'[rx[m].num] = Input(m)
      /\ \A d \in Clients : Connected(d) /\ sock[d] # 0 => file'[sock[d]] = Socket(d)
      /\ errand \notin {None, 0} => file'[errand] = Errand
      /\ Orderly => n # 0 /\ file'[0] = Stdin
  BY <1>1, OpenKeeps, FilesOpen DEF DInv
<1>4. TypeOK'
  BY <1>1, <1>2, <1>3 DEF DInv, TypeOK
<1>5. Busy' /\ Holds' /\ DataFollows'
  BY <1>1, <1>2, <1>3 DEF DInv, Busy, Holds, LinesHold, InputsHold, SocketsHold, SocketsReset, ErrandHolds, Connected, DataFollows
<1>6. (failed \/ Orderly)'
  BY <1>1, <1>2, <1>3 DEF DInv, Orderly, LinesOpened, Claimed, Opening, Configuring, InputsOpened, SocketsOpened, Connected
<1> QED BY <1>4, <1>5, <1>6 DEF DInv

LEMMA CloseErrandStep ==
  ASSUME DInv, CloseErrand PROVE DInv'
<1> DEFINE n == errand
<1>1. /\ n # None /\ errand' = None /\ file' = [file EXCEPT ![n] = None]
      /\ closed < MaxClosed /\ closed' = closed + 1
  BY DEF CloseErrand, Close
<1>2. UNCHANGED <<lineup, bits, fd, sender, rx, client, sock, data, stale, failed, ended>>
  BY DEF CloseErrand, Runs
<1>3. closed' \in 0..MaxClosed
  BY <1>1, NamedAssumption DEF DInv, TypeOK
<1>4. TypeOK'
  BY <1>1, <1>2, <1>3 DEF DInv, TypeOK
<1>5. /\ \A m \in Fds : m # n => file'[m] = file[m]
      /\ n \in Fds /\ (n # 0 => file[n] = Errand)
  BY <1>1 DEF DInv, TypeOK, Holds, ErrandHolds
<1>6. /\ \A l \in Lines : fd[l] # 0 => fd[l] # n /\ fd[l] \in Fds
      /\ \A l \in Receivers : rx[l].num # 0 => rx[l].num # n /\ rx[l].num \in Fds
      /\ \A d \in Clients : Connected(d) /\ sock[d] # 0 => sock[d] # n /\ sock[d] \in Fds
  <2>1. \A l \in Lines : fd[l] # 0 => fd[l] # n /\ fd[l] \in Fds
    <3> SUFFICES ASSUME NEW l \in Lines, fd[l] # 0 PROVE fd[l] # n /\ fd[l] \in Fds
      OBVIOUS
    <3>1. file[fd[l]] = Tty(l) /\ fd[l] \in Fds
      BY DEF DInv, TypeOK, Holds, LinesHold
    <3>2. n # 0 => file[n] # Tty(l)
      BY <1>5, FilesApart
    <3> QED BY <3>1, <3>2
  <2>2. \A l \in Receivers : rx[l].num # 0 => rx[l].num # n /\ rx[l].num \in Fds
    <3> SUFFICES ASSUME NEW l \in Receivers, rx[l].num # 0 PROVE rx[l].num # n /\ rx[l].num \in Fds
      OBVIOUS
    <3>1. file[rx[l].num] = Input(l) /\ rx[l].num \in Fds
      BY DEF DInv, TypeOK, Holds, InputsHold
    <3>2. n # 0 => file[n] # Input(l)
      BY <1>5, FilesApart
    <3> QED BY <3>1, <3>2
  <2>3. \A d \in Clients : Connected(d) /\ sock[d] # 0 => sock[d] # n /\ sock[d] \in Fds
    <3> SUFFICES ASSUME NEW d \in Clients, Connected(d), sock[d] # 0 PROVE sock[d] # n /\ sock[d] \in Fds
      OBVIOUS
    <3>1. file[sock[d]] = Socket(d) /\ sock[d] \in Fds
      BY DEF DInv, TypeOK, Holds, SocketsHold
    <3>2. n # 0 => file[n] # Socket(d)
      BY <1>5, FilesApart
    <3> QED BY <3>1, <3>2
  <2> QED BY <2>1, <2>2, <2>3
<1>7. Busy' /\ Holds' /\ DataFollows'
  BY <1>1, <1>2, <1>5, <1>6 DEF DInv, Busy, Holds, LinesHold, InputsHold, SocketsHold, SocketsReset, ErrandHolds, Connected, DataFollows
<1>8. (failed \/ Orderly)'
  BY <1>1, <1>2, <1>5 DEF DInv, Orderly, LinesOpened, Claimed, Opening, Configuring, InputsOpened, SocketsOpened, Connected
<1> QED BY <1>4, <1>7, <1>8 DEF DInv

-----------------------------------------------------------------------------
(* Every step keeps the invariant.                                         *)
LEMMA DInvNext ==
  ASSUME DInv, [Next]_vars PROVE DInv'
<1>1. ASSUME NEW s \in Senders, NEW l \in Lines, Send(s, l) PROVE DInv'
  BY <1>1, SendStep
<1>2. ASSUME NEW s \in Senders, Mark(s) \/ OpenLine(s) \/ Configure(s) \/ Write(s) PROVE DInv'
  BY <1>2, MarkStep, OpenLineStep, ConfigureStep, WriteStep
<1>3. ASSUME NEW l \in Receivers, OpenInput(l) \/ ConfigureInput(l) \/ ReadFails(l) PROVE DInv'
  BY <1>3, OpenInputStep, ConfigureInputStep, ReadFailsStep
<1>4. ASSUME NEW c \in Clients,
             NetworkInit(c) \/ NetworkConnect(c) \/ Greet(c) \/ Down(c) \/ Hangup(c) \/ DataCheck(c)
      PROVE  DInv'
  BY <1>4, NetworkInitStep, NetworkConnectStep, GreetStep, HangupStep, DataStep
<1>5. CASE DataLoad \/ DataWrite
  BY <1>5, DataStep
<1>6. CASE OpenErrand \/ CloseErrand
  BY <1>6, OpenErrandStep, CloseErrandStep
<1>7. CASE UNCHANGED vars
  <2>1. TypeOK' /\ Busy'
    BY <1>7 DEF vars, DInv, TypeOK, Busy
  <2>2. Holds' /\ DataFollows'
    BY <1>7 DEF vars, DInv, Holds, LinesHold, InputsHold, SocketsHold, SocketsReset, ErrandHolds, Connected, DataFollows
  <2>3. (failed \/ Orderly)'
    BY <1>7 DEF vars, DInv, Orderly, LinesOpened, Claimed, Opening, Configuring, InputsOpened, SocketsOpened, Connected
  <2> QED BY <2>1, <2>2, <2>3 DEF DInv
<1> QED BY <1>1, <1>2, <1>3, <1>4, <1>5, <1>6, <1>7 DEF Next

(* Whatever names fail to resolve and in whatever order threads open their    *)
(* files, a number other than 0 leads its holder to its own file: uart_tx's   *)
(* descriptors, those of uart_rx_task, and my_socket while it is connected.   *)
THEOREM NumbersLeadHome == Spec => []HandlesHold
<1>1. Init => DInv
  BY DInvInit
<1>2. DInv /\ [Next]_vars => DInv'
  BY DInvNext
<1>3. DInv => HandlesHold
  BY DInvImplies
<1> QED BY <1>1, <1>2, <1>3, PTL DEF Spec

(* For any number of threads and lines, what is written to another file than  *)
(* meant is a frame that overtook the opening of its line (uart_tx), a        *)
(* message of the data thread to a client closed since, or what goes through  *)
(* number 0 after a failed lookup (NetworkConnect); and but for SIGPIPE under  *)
(* an MQTT packet (linux_write), only after one does the process end.         *)
THEOREM StraysHaveACause == Spec => []StraysExplained
<1>1. Init => DInv
  BY DInvInit
<1>2. DInv /\ [Next]_vars => DInv'
  BY DInvNext
<1>3. DInv => StraysExplained
  BY DInvImplies
<1> QED BY <1>1, <1>2, <1>3, PTL DEF Spec
===============================================================================
