----------------------------- MODULE Descriptors -----------------------------
(***************************************************************************)
(* File descriptors and the threads that keep their numbers: uart_tx,      *)
(* whose descriptors are opened at first use by whoever sends first, the   *)
(* receive threads, the sockets of the two MQTT clients, which the data    *)
(* thread writes to as well, and files that are opened for a moment (the   *)
(* configuration, what popen runs).  No number is protected: what a thread *)
(* writes goes where its number leads by then.                             *)
(*                                                                         *)
(* A new descriptor gets the lowest free number.  0 is standard input at   *)
(* first, and what s_fd and my_socket hold before anything was opened; 1   *)
(* and 2 stay open and are left out.  The limit on the numbers is not      *)
(* reached: Fds has room for what can be open at once.                     *)
(***************************************************************************)
EXTENDS Integers

CONSTANTS
  Fds,        \* descriptor numbers
  Lines,      \* UARTs that are sent to
  Receivers,  \* UARTs that are read
  Senders,    \* threads that call uart_tx
  Clients,    \* MQTT clients
  Named,      \* those whose broker is given by name, not by address
  Lineups,    \* the sets of threads that may take part
  MaxClosed,  \* bound on the descriptors closed
  None

ASSUME FdsAssumption == Fds \subseteq Nat /\ 0 \in Fds
Thread == {<<"send", s>> : s \in Senders} \cup {<<"receive", l>> : l \in Receivers}
          \cup {<<"client", c>> : c \in Clients} \cup {<<"data", 0>>, <<"errand", 0>>}

ASSUME LineupsAssumption == Lineups \subseteq SUBSET Thread
ASSUME NamedAssumption == Named \subseteq Clients /\ MaxClosed \in Nat

Stdin == <<"stdin", 0>>
Tty(l) == <<"tty", l>>      \* opened for writing
Input(l) == <<"input", l>>  \* opened for reading
Socket(c) == <<"socket", c>>
Errand == <<"file", 0>>
Files == {Stdin, Errand} \cup {Tty(l) : l \in Lines} \cup {Input(l) : l \in Receivers}
                         \cup {Socket(c) : c \in Clients}

ASSUME NoneAssumption == None \notin Fds /\ None \notin Files /\ None \notin Clients

VARIABLES
  lineup,  \* the threads that take part; the others never get to run
  file,    \* the process's descriptor table
  bits,    \* s_fd_inited_map, as a set of lines
  fd,      \* s_fd
  sender,  \* per sender, its place in uart_tx, its line, and the bits it has read
  rx,      \* per receiver, its place in uart_rx_task and its fd
  client,  \* per client, the place of its own thread
  sock,    \* my_socket
  data,    \* the data thread in MQTTPublish: its place, client and socket number
  closed, \* number of descriptors closed so far
  errand,  \* the number of the file open for a moment, or None
  stale,   \* history: the client was closed since the data thread found it connected
  failed,  \* history: a broker's name could not be resolved
  ended    \* what has ended the process: "exit" (or a copy of -1 bytes), or SIGPIPE
           \* under a "packet" of a client or a "frame" of uart_tx; "no" before

vars == <<lineup, file, bits, fd, sender, rx, client, sock, closed, data, errand, stale, failed, ended>>

Quiet == [at |-> "idle", line |-> None, seen |-> {}]
Idle == [at |-> "idle", client |-> None, num |-> 0]

Init ==
  /\ lineup \in Lineups
  /\ file = [n \in Fds |-> IF n = 0 THEN Stdin ELSE None]
  /\ bits = {} /\ fd = [l \in Lines |-> 0]
  /\ sender = [s \in Senders |-> Quiet]
  /\ rx = [l \in Receivers |-> [at |-> "open", num |-> 0]]
  /\ client = [c \in Clients |-> "start"] /\ sock = [c \in Clients |-> 0]
  /\ closed = 0 /\ data = Idle /\ errand = None
  /\ stale = FALSE /\ failed = FALSE /\ ended = "no"

Runs(kind, t) == ended = "no" /\ <<kind, t>> \in lineup /\ UNCHANGED lineup

(* The kernel.                                                             *)
Lowest(n) == file[n] = None /\ \A m \in Fds : m < n => file[m] # None
Open(n, f) == Lowest(n) /\ file' = [file EXCEPT ![n] = f]
Close(n) ==
  /\ closed < MaxClosed /\ closed' = closed + 1
  /\ file' = [file EXCEPT ![n] = None]

IsTty(f) == (\E l \in Lines : f = Tty(l)) \/ (\E l \in Receivers : f = Input(l))
IsSocket(f) == \E c \in Clients : f = Socket(c)
Exit(if) == ended' = IF if THEN "exit" ELSE "no"

\* SIGPIPE has its default action, and a socket may not be connected, or not be
\* any more, when it is written to: connect's result is dropped, and the broker
\* may reset the connection at any time.
WriteTo(n, what) == ended' = "no" \/ (IsSocket(file[n]) /\ ended' = what)

-----------------------------------------------------------------------------
(* uart_tx.  The test and the setting of the bit are two accesses, and the  *)
(* line is opened after that.                                               *)
At(s, place) == Runs("send", s) /\ sender[s].at = place
Goto(s, place) == sender' = [sender EXCEPT ![s].at = place]
NotSending == UNCHANGED <<rx, client, sock, closed, data, errand, stale, failed>>

Send(s, l) ==
  /\ At(s, "idle")
  /\ \/ /\ l \in bits
        /\ sender' = [sender EXCEPT ![s] = [at |-> "write", line |-> l, seen |-> {}]]
     \/ /\ l \notin bits
        /\ sender' = [sender EXCEPT ![s] = [at |-> "mark", line |-> l, seen |-> bits]]
  /\ UNCHANGED <<file, bits, fd, ended>> /\ NotSending

Mark(s) ==
  /\ At(s, "mark") /\ sender' = [sender EXCEPT ![s].at = "open", ![s].seen = {}]
  /\ bits' = sender[s].seen \cup {sender[s].line}
  /\ UNCHANGED <<file, fd, ended>> /\ NotSending

OpenLine(s) == \E n \in Fds :
  /\ At(s, "open") /\ Goto(s, "configure")
  /\ Open(n, Tty(sender[s].line)) /\ fd' = [fd EXCEPT ![sender[s].line] = n]
  /\ UNCHANGED <<bits, ended>> /\ NotSending

\* set_serial fails on what is not a tty, and the process exits.
Configure(s) ==
  /\ At(s, "configure") /\ Goto(s, "write")
  /\ Exit(~IsTty(file[fd[sender[s].line]]))
  /\ UNCHANGED <<file, bits, fd>> /\ NotSending

\* Fault: the line is closed after the write, and its number kept.
WriteCloses(s) ==
  /\ At(s, "write") /\ sender' = [sender EXCEPT ![s] = Quiet]
  /\ WriteTo(fd[sender[s].line], "frame")
  /\ file' = [file EXCEPT ![fd[sender[s].line]] = None]
  /\ UNCHANGED <<bits, fd>> /\ NotSending

Write(s) ==
  /\ At(s, "write") /\ sender' = [sender EXCEPT ![s] = Quiet]
  /\ WriteTo(fd[sender[s].line], "frame")
  /\ UNCHANGED <<file, bits, fd>> /\ NotSending

-----------------------------------------------------------------------------
(* uart_rx_task.                                                            *)
Receiving(l, from, to) ==
  /\ Runs("receive", l) /\ rx[l].at = from /\ rx' = [rx EXCEPT ![l].at = to]
  /\ UNCHANGED <<bits, fd, sender, client, sock, closed, data, errand, stale, failed>>

OpenInput(l) == \E n \in Fds :
  /\ Runs("receive", l) /\ rx[l].at = "open" /\ rx' = [rx EXCEPT ![l] = [at |-> "configure", num |-> n]]
  /\ Open(n, Input(l))
  /\ UNCHANGED <<bits, fd, sender, client, sock, closed, data, errand, stale, failed, ended>>

ConfigureInput(l) ==
  /\ Receiving(l, "configure", "read")
  /\ Exit(~IsTty(file[rx[l].num])) /\ UNCHANGED file

\* read() can fail on what is not this tty.  -1 is a length of more than 0, and
\* the copy of so many bytes ends the process.
ReadFails(l) ==
  /\ Receiving(l, "read", "read") /\ file[rx[l].num] # Input(l)
  /\ Exit(TRUE) /\ UNCHANGED file

-----------------------------------------------------------------------------
(* out_mqtt_init and out_mqtt_loop, as far as the socket goes.              *)
Moves(c, from, to) == Runs("client", c) /\ client[c] = from /\ client' = [client EXCEPT ![c] = to]
NoClient == UNCHANGED <<bits, fd, sender, rx, data, errand>>

\* Fault: my_socket keeps its number.
NetworkInitKeeps(c) ==
  /\ Moves(c, "start", "connect") /\ sock' = sock
  /\ UNCHANGED <<file, closed, stale, failed, ended>> /\ NoClient

NetworkInit(c) ==
  /\ Moves(c, "start", "connect") /\ sock' = [sock EXCEPT ![c] = 0]
  /\ UNCHANGED <<file, closed, stale, failed, ended>> /\ NoClient

\* The result is not looked at: without an address my_socket stays 0.  A socket
\* that does not connect is kept, written to, until NetworkDisconnect.
NetworkConnect(c) ==
  /\ Moves(c, "connect", "greet")
  /\ \/ /\ \E n \in Fds : Open(n, Socket(c)) /\ sock' = [sock EXCEPT ![c] = n]
        /\ UNCHANGED failed
     \/ c \in Named /\ failed' = TRUE /\ UNCHANGED <<file, sock>>
  /\ UNCHANGED <<closed, stale, ended>> /\ NoClient

\* MQTTConnect writes its packet; only a socket can bring an answer.
Greet(c) ==
  /\ \/ Moves(c, "greet", "up") /\ IsSocket(file[sock[c]])
     \/ Moves(c, "greet", "down")
  /\ WriteTo(sock[c], "packet")
  /\ UNCHANGED <<file, sock, closed, stale, failed>> /\ NoClient

\* While it is up, the thread writes its messages; then the session is closed.
Down(c) ==
  /\ Moves(c, "up", "down") /\ WriteTo(sock[c], "packet")
  /\ UNCHANGED <<file, sock, closed, stale, failed>> /\ NoClient

\* MQTTDisconnect writes its packet; NetworkDisconnect closes what my_socket holds.
Hangup(c) ==
  /\ Moves(c, "down", "start") /\ WriteTo(sock[c], "packet") /\ Close(sock[c])
  /\ stale' = (stale \/ data.client = c)
  /\ UNCHANGED <<sock, failed>> /\ NoClient

-----------------------------------------------------------------------------
(* The data thread publishes through both clients.  The number is read from *)
(* the client, and used, some time after isconnected.                       *)
NotPublishing == UNCHANGED <<file, bits, fd, sender, rx, client, sock, closed, errand, failed>>

DataCheck(c) ==
  /\ Runs("data", 0) /\ data = Idle /\ client[c] = "up"
  /\ data' = [at |-> "checked", client |-> c, num |-> 0]
  /\ stale' = FALSE /\ UNCHANGED ended /\ NotPublishing

DataLoad ==
  /\ Runs("data", 0) /\ data.at = "checked"
  /\ data' = [data EXCEPT !.at = "write", !.num = sock[data.client]]
  /\ UNCHANGED <<stale, ended>> /\ NotPublishing

DataWrite ==
  /\ Runs("data", 0) /\ data.at = "write" /\ data' = Idle
  /\ WriteTo(data.num, "packet")
  /\ stale' = FALSE /\ NotPublishing

-----------------------------------------------------------------------------
(* fopen and fclose of ini.c; popen and pclose.                             *)
OpenErrand == \E n \in Fds :
  /\ Runs("errand", 0) /\ errand = None /\ errand' = n /\ Open(n, Errand)
  /\ UNCHANGED <<bits, fd, sender, rx, client, sock, closed, data, stale, failed, ended>>

CloseErrand ==
  /\ Runs("errand", 0) /\ errand # None /\ errand' = None /\ Close(errand)
  /\ UNCHANGED <<bits, fd, sender, rx, client, sock, data, stale, failed, ended>>

Next ==
  \/ \E s \in Senders :
       (\E l \in Lines : Send(s, l)) \/ Mark(s) \/ OpenLine(s) \/ Configure(s) \/ Write(s)
  \/ \E l \in Receivers : OpenInput(l) \/ ConfigureInput(l) \/ ReadFails(l)
  \/ \E c \in Clients :
       NetworkInit(c) \/ NetworkConnect(c) \/ Greet(c) \/ Down(c) \/ Hangup(c) \/ DataCheck(c)
  \/ DataLoad \/ DataWrite \/ OpenErrand \/ CloseErrand

Spec == Init /\ [][Next]_vars

-----------------------------------------------------------------------------
(* Properties.                                                             *)

TypeOK ==
  /\ lineup \in Lineups
  /\ file \in [Fds -> Files \cup {None}]
  /\ bits \subseteq Lines /\ fd \in [Lines -> Fds]
  /\ sender \in [Senders -> [at : {"idle", "mark", "open", "configure", "write"},
                             line : Lines \cup {None}, seen : SUBSET Lines]]
  /\ rx \in [Receivers -> [at : {"open", "configure", "read"}, num : Fds]]
  /\ client \in [Clients -> {"start", "connect", "greet", "up", "down"}]
  /\ sock \in [Clients -> Fds] /\ closed \in 0..MaxClosed
  /\ data \in [at : {"idle", "checked", "write"}, client : Clients \cup {None}, num : Fds]
  /\ errand \in Fds \cup {None}
  /\ stale \in BOOLEAN /\ failed \in BOOLEAN
  /\ ended \in {"no", "exit", "packet", "frame"}

Connected(c) == client[c] \in {"greet", "up", "down"}

\* Who holds a number other than 0 holds its own file, whatever names fail to
\* resolve and however the first frames meet: uart_tx's line, a receiver's, a
\* client's socket from NetworkConnect to NetworkDisconnect, the open file.
HandlesHold ==
  /\ TypeOK
  /\ \A l \in Lines : fd[l] # 0 => file[fd[l]] = Tty(l)
  /\ \A l \in Receivers : rx[l].num # 0 => file[rx[l].num] = Input(l)
  /\ \A c \in Clients : Connected(c) /\ sock[c] # 0 => file[sock[c]] = Socket(c)
  /\ errand \notin {None, 0} => file[errand] = Errand

\* A thread about to write into something else than it means to write to is a
\* sender that another one, sending the line's first frame, has not opened it
\* for yet; or the data thread, whose client was closed since it looked; or it
\* holds 0, and a name has failed to resolve: every such failure closes whatever
\* 0 is by then.  Without one nothing ends the process but SIGPIPE under an MQTT
\* packet: no exit, no failed copy, and no frame that runs into a broken socket.
Opening(l) == \E s \in Senders : sender[s].at \in {"mark", "open"} /\ sender[s].line = l
StraysExplained ==
  /\ \A s \in Senders :
       LET l == sender[s].line
       IN  sender[s].at = "write" /\ file[fd[l]] # Tty(l) => fd[l] = 0 /\ (failed \/ Opening(l))
  /\ \A c \in Clients : Connected(c) /\ file[sock[c]] # Socket(c) => sock[c] = 0 /\ failed
  /\ data.at = "write" /\ file[data.num] # Socket(data.client) => stale \/ (data.num = 0 /\ failed)
  /\ ended \in {"no", "packet"} \/ failed
=============================================================================
