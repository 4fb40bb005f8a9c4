------------------------------ MODULE DeviceDecode ------------------------------
(***************************************************************************)
(* What becomes of an answer of a polled device (dev_type 0): cmd_main in  *)
(* haas_data_read, which names the device it asks in device_no, and the    *)
(* two MQTT threads in on_uart_2_read.  They handle an answer twice:       *)
(*                                                                         *)
(*   haas_device_dataRead decodes its first word and writes the number     *)
(*   into the entry device_no names by then;                               *)
(*   process_modbus_sniffer_data files its words under the request that    *)
(*   it answers, and writes the number they make into the entry of that    *)
(*   request.                                                              *)
(*                                                                         *)
(* An upload may read the entries at any moment: what it publishes is what *)
(* they hold in that state.  Each entry is a slave of its own and asks     *)
(* with function 3; which of a slave's entries an answer belongs to is     *)
(* ModbusSniffer's.  s_value2_filter_th is 0 and never set, which leaves   *)
(* filter_value2_by_delta without effect.                                  *)
(***************************************************************************)
EXTENDS Integers, Sequences

CONSTANTS
  Tables,    \* the device tables: sequences of [type, words], the words being
             \* those of the device's answers, as many as its data_len
  Drainers,  \* the threads that empty the receive box
  MaxGiven,  \* bound on the answers the poll does not wait for
  None

Words == 0..65535
MostWords == 16  \* REGISTER_VALUE_MAX_BYTES / 2
DeviceTypes == 0..6

ASSUME TablesAssumption ==
  \A x \in Tables : /\ x \in Seq([type : DeviceTypes, words : Seq(Words)])
                   /\ \A d \in DOMAIN x : Len(x[d].words) \in 1..MostWords
ASSUME MaxGivenAssumption == MaxGiven \in Nat

VARIABLES
  table,    \* the table of this installation
  no,       \* device_no
  poll,     \* where cmd_main is in haas_data_read
  waiting,  \* s_waiting_haas_th
  line,     \* devices asked, their answers still to come or in the box
  asked,    \* devices with a pending request
  job,      \* per thread, the answer it handles: of whom, credited to whom,
            \* and how many of its words are filed
  value1,   \* per device, value1
  value2,   \* per device, value2, and whose answer it is taken from
  valid,    \* per device, value_valid
  there,    \* per device, the words its slot holds, counted from the first:
            \* reg_ready_mask, of which no bit is ever taken back
  given,    \* history: how often the poll went on without an answer to come
  early     \* history: an answer was filed before its request was noted

entries == <<value1, value2, valid, there>>
pollVars == <<table, no, poll, waiting, line, asked, job, entries, given, early>>

Devices == DOMAIN table
FirstWord(d) == table[d].words[1]
Idle == [at |-> "idle", of |-> None, to |-> None, filed |-> 0]
Nothing == [by |-> "nobody", of |-> None, num |-> 0]
Stored(d) == [by |-> "store", of |-> d, num |-> 0]
Decoded(d, n) == [by |-> "decode", of |-> d, num |-> n]

PollTypeOK ==
  /\ no \in 0..Len(table) /\ waiting \in BOOLEAN /\ early \in BOOLEAN
  /\ poll \in {"rest", "next", "send", "add", "arm", "wait"}
  /\ line \in Seq(Devices) /\ asked \subseteq Devices
  /\ job \in [Drainers -> [at : {"idle", "credit", "decode", "clear", "file", "more", "last"},
                           of : Devices \cup {None}, to : Devices \cup {None}, filed : Nat]]
  /\ value1 \in [Devices -> Words] /\ valid \in [Devices -> BOOLEAN]
  /\ \A d \in Devices : value2[d].by \in {"nobody", "store", "decode"}
  /\ there \in [Devices -> Nat]
  /\ given \in 0..MaxGiven

PollInit ==
  /\ table \in Tables
  /\ no = 0 /\ poll = "rest" /\ waiting = FALSE /\ line = <<>> /\ asked = {}
  /\ job = [t \in Drainers |-> Idle]
  /\ value1 = [d \in Devices |-> 0] /\ value2 = [d \in Devices |-> Nothing]
  /\ valid = [d \in Devices |-> FALSE] /\ there = [d \in Devices |-> 0]
  /\ given = 0 /\ early = FALSE

\* An answer is on its way, or a thread has one in hand.
Outstanding == line # <<>> \/ \E t \in Drainers : job[t] # Idle

\* The poll goes on, its time being up: it does not know of what is outstanding.
GoOn == given' = given + (IF Outstanding THEN 1 ELSE 0) /\ given' <= MaxGiven

-----------------------------------------------------------------------------
(* cmd_main: haas_data_read, and the sleep between two calls of it.        *)

\* cleanup_timeout_requests: which requests are older than a second is the
\* clock's to say.
PollBegin ==
  /\ poll = "rest" /\ poll' = "next"
  /\ GoOn
  /\ no' = 0 /\ asked' \in SUBSET asked
  /\ UNCHANGED <<table, waiting, line, job, entries, early>>

\* device_no is set before the channel is tried; a busy channel costs the
\* device its turn.
PollDevice ==
  /\ poll = "next" /\ no < Len(table) /\ no' = no + 1
  /\ poll' \in {"send", "next"}
  /\ UNCHANGED <<table, waiting, line, asked, job, entries, given, early>>

PollEnd ==
  /\ poll = "next" /\ no = Len(table)
  /\ poll' = "rest"
  /\ UNCHANGED <<table, no, waiting, line, asked, job, entries, given, early>>

\* uart_tx; a slave that does not answer is asked all the same.
PollSend ==
  /\ poll = "send" /\ poll' = "add"
  /\ line' \in {Append(line, no), line}
  /\ UNCHANGED <<table, no, waiting, asked, job, entries, given, early>>

PollAdd ==
  /\ poll = "add" /\ poll' = "arm"
  /\ asked' = asked \cup {no}
  /\ UNCHANGED <<table, no, waiting, line, job, entries, given, early>>

\* Fault: the wait is not armed.
PollArmForgets ==
  /\ poll = "arm" /\ poll' = "wait"
  /\ UNCHANGED <<table, no, waiting, line, asked, job, entries, given, early>>

PollArm ==
  /\ poll = "arm" /\ poll' = "wait"
  /\ waiting' = TRUE
  /\ UNCHANGED <<table, no, line, asked, job, entries, given, early>>

\* Fault: an answer to another's request ends the waiting, but not the loop.
PollAnsweredOwnOnly ==
  /\ poll = "wait" /\ ~waiting
  /\ poll' = IF no \in asked THEN "wait" ELSE "next"
  /\ UNCHANGED <<table, no, waiting, line, asked, job, entries, given, early>>

\* An answer, whosever, has ended the wait.
PollAnswered ==
  /\ poll = "wait" /\ ~waiting
  /\ poll' = "next"
  /\ UNCHANGED <<table, no, waiting, line, asked, job, entries, given, early>>

\* The next second has begun, which may be a moment later, or a control is
\* pending.
PollGiveUp ==
  /\ poll = "wait" /\ waiting
  /\ poll' = "next" /\ waiting' = FALSE
  /\ GoOn
  /\ UNCHANGED <<table, no, line, asked, job, entries, early>>

PollStep ==
  PollBegin \/ PollDevice \/ PollEnd \/ PollSend \/ PollAdd \/ PollArm \/ PollAnswered \/ PollGiveUp

-----------------------------------------------------------------------------
(* The draining threads: on_uart_2_read.                                   *)

\* value2 in hundredths.
Hundredths(type, w) ==
  CASE type = 1 -> IF w > 4000 THEN w - 4000 ELSE -(4000 - w)
    [] type = 2 -> w
    [] type = 3 -> IF w > 20000 THEN 20000 ELSE w
    [] type = 4 -> IF w > 32767 THEN -10 * (w - 32768)
                   ELSE IF 10 * w > 20000 THEN 19900 ELSE 10 * w
    [] type = 5 -> IF w = 63488 THEN 0
                   ELSE IF w > 32767 THEN -10 * (65536 - w) ELSE 10 * w

\* What the calculation leaves in value1.
Remainder(type, w) ==
  CASE type = 1 -> IF w > 4000 THEN w - 4000 ELSE 4000 - w
    [] type \in {2, 3} -> w
    [] type = 4 -> IF w > 32767 THEN w - 32768 ELSE w
    [] type = 5 -> IF w = 63488 THEN 0 ELSE IF w > 32767 THEN 65536 - w ELSE w

Take(t) ==
  /\ job[t] = Idle /\ line # <<>>
  /\ job' = [job EXCEPT ![t] = [at |-> "credit", of |-> Head(line), to |-> None, filed |-> 0]]
  /\ line' = Tail(line)
  /\ UNCHANGED <<table, no, poll, waiting, asked, entries, given, early>>

\* addr is taken from device_no once; value1 is where the word waits.
Credit(t) ==
  /\ job[t].at = "credit"
  /\ IF no > 0
     THEN /\ job' = [job EXCEPT ![t].at = "decode", ![t].to = no]
          /\ value1' = [value1 EXCEPT ![no] = FirstWord(job[t].of)]
     ELSE /\ job' = [job EXCEPT ![t].at = "file"]
          /\ UNCHANGED value1
  /\ UNCHANGED <<table, no, poll, waiting, line, asked, value2, valid, there, given, early>>

\* The type is that of the entry written; a plain word (type 0) and a float
\* (type 6) have no branch.
Decode(t) ==
  /\ job[t].at = "decode" /\ job' = [job EXCEPT ![t].at = "clear"]
  /\ LET d == job[t].to
         type == table[d].type
     IN  IF type \in {0, 6}
         THEN UNCHANGED <<value1, value2>>
         ELSE /\ value2' = [value2 EXCEPT ![d] = Decoded(job[t].of, Hundredths(type, value1[d]))]
              /\ value1' = [value1 EXCEPT ![d] = Remainder(type, value1[d])]
  /\ UNCHANGED <<table, no, poll, waiting, line, asked, valid, there, given, early>>

Clear(t) ==
  /\ job[t].at = "clear" /\ job' = [job EXCEPT ![t].at = "file"]
  /\ waiting' = FALSE
  /\ UNCHANGED <<table, no, poll, line, asked, entries, given, early>>

\* Byte k of an answer's words, high byte first.
Byte(words, k) ==
  LET w == words[(k + 1) \div 2] IN IF k % 2 = 1 THEN w \div 256 ELSE w % 256

\* recalc_register_outputs: whether the first n words of an entry make a value.
\* A number of 32 bits needs two, though its entry may ask for one only; a text
\* needs a printable character before its end mark.
MakesValue(type, words, n) ==
  /\ type \in {1, 3, 4, 5, 6} => n >= 2
  /\ type = 2 => \E k \in 1..(2 * n) : /\ Byte(words, k) \in 32..126
                                       /\ \A i \in 1..k : Byte(words, i) \notin {0, 13}

\* One word is filed (store_register_data).  The number of a text is 0 with
\* every word, any other's is written when there is one.
File(t) ==
  /\ job[t].at = "more" \/ (job[t].at = "file" /\ job[t].of \in asked)
  /\ LET d == job[t].of
         e == table[d]
         n == job[t].filed + 1
         held == IF there[d] > n THEN there[d] ELSE n
         whole == MakesValue(e.type, e.words, held)
     IN  /\ there' = [there EXCEPT ![d] = held]
         /\ value1' = [value1 EXCEPT ![d] = FirstWord(d)]
         /\ value2' = IF whole \/ e.type = 2 THEN [value2 EXCEPT ![d] = Stored(d)] ELSE value2
         /\ valid' = [valid EXCEPT ![d] = whole]
         /\ job' = [job EXCEPT ![t].at = IF n < Len(e.words) THEN "more" ELSE "last", ![t].filed = n]
  /\ UNCHANGED <<table, no, poll, waiting, line, asked, given, early>>

\* The request is released.
Release(t) ==
  /\ job[t].at = "last" /\ job' = [job EXCEPT ![t] = Idle]
  /\ asked' = asked \ {job[t].of}
  /\ UNCHANGED <<table, no, poll, waiting, line, entries, given, early>>

\* Nobody asked, as far as the table of requests knows.
FileNowhere(t) ==
  /\ job[t].at = "file" /\ job[t].of \notin asked
  /\ job' = [job EXCEPT ![t] = Idle]
  /\ early' = (early \/ (poll = "add" /\ no = job[t].of))
  /\ UNCHANGED <<table, no, poll, waiting, line, asked, entries, given>>

Handle(t) ==
  Take(t) \/ Credit(t) \/ Decode(t) \/ Clear(t) \/ File(t) \/ Release(t) \/ FileNowhere(t)

PollNext == PollStep \/ \E t \in Drainers : Handle(t)
PollSpec == PollInit /\ [][PollNext]_pollVars

MostDevices == CHOOSE n \in {Len(x) : x \in Tables} : \A x \in Tables : Len(x) <= n

\* The threads go on.  A device that is asked again and again gets its turn at
\* the channel and answers again and again.
PollFairness ==
  /\ WF_pollVars(PollStep)
  /\ \A t \in Drainers : WF_pollVars(Handle(t))
  /\ \A d \in 1..MostDevices :
       /\ SF_pollVars(PollDevice /\ no' = d /\ poll' = "send")
       /\ SF_pollVars(PollSend /\ no = d /\ line' # line)

-----------------------------------------------------------------------------
(* Properties.                                                             *)

\* What the types mean: a temperature from -40.00 up, hundredths (of which a text
\* makes no use), a share of at most 200,
\* tenths with a sign bit, tenths in two's complement with a mark for "none".
Meaning(type, w) ==
  LET high == w \div 32768
      low == w % 32768
  IN  CASE type = 1 -> w - 4000
        [] type = 2 -> w
        [] type = 3 -> 20000 - (IF w < 20000 THEN 20000 - w ELSE 0)
        [] type = 4 -> IF high = 0 /\ low > 2000 THEN 19900 ELSE (1 - 2 * high) * low * 10
        [] type = 5 -> IF high = 1 /\ low = 30720 THEN 0 ELSE (low - 32768 * high) * 10

\* While the poll has waited for every answer that came, an entry holds what
\* its own device answered, whoever of the threads handled it and whether the
\* others were silent: the filed number, or the number its first word means.
\* The latter is published until the answer in hand is filed and no longer: it
\* stays only where the words filed make no value, so that null is published.
\* An entry that counts as valid has a number at all times.
ShownIsOwn ==
  /\ PollTypeOK
  /\ \A d \in Devices : valid[d] => value2[d].by # "nobody"
  /\ given = 0 /\ ~early =>
       \A d \in Devices :
         \/ value2[d] \in {Nothing, Stored(d)}
         \/ /\ value2[d] = Decoded(d, Meaning(table[d].type, FirstWord(d)))
            /\ valid[d] => \E t \in Drainers : job[t].of = d

\* An answer that the poll did not wait for is credited to the device asked
\* next, whose answer then goes to the one after it, and so on.  An entry that
\* got another's number does not keep it, if its device goes on answering.
Foreign(d) == d \in Devices /\ value2[d].of \notin {None, d}
OwnedAgain == \A d \in 1..MostDevices : Foreign(d) ~> ~Foreign(d)
=================================================================================
