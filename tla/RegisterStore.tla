----------------------------- MODULE RegisterStore -----------------------------
(***************************************************************************)
(* store_register_data and the table both uploads publish from.            *)
(*                                                                         *)
(* cmd_main polls the entries of g_haas_dev_rs485 in turn (haas_data_read). *)
(* An MQTT thread takes the answer from the receive box and gives its      *)
(* words to store_register_data one by one; each call updates the slot,    *)
(* recomputes the value and copies it into g_haas_dev_rs485, from where    *)
(* data_main may publish it at any moment.  One call is one step here.     *)
(*                                                                         *)
(* With polled devices (RS485_type 0, dev_type 0) the thread first gives   *)
(* the answer to haas_device_dataRead, the second writer of                *)
(* g_haas_dev_rs485: its first word goes to the entry asked last, whosever *)
(* the answer is.  Here that is one step too; DeviceDecode has it in parts, *)
(* with the numbers.                                                       *)
(*                                                                         *)
(* A word is kept by where it was read and by which reading it belongs to. *)
(* Which registers an answer belongs to is the subject of ModbusSniffer;   *)
(* here it is right.                                                       *)
(***************************************************************************)
EXTENDS RegisterSlots

CONSTANTS
  Drainers,  \* the threads that drain the receive box
  Decoded,   \* the entries whose number haas_device_dataRead writes: in an
             \* installation of polled devices those of types 1, 3, 4 and 5,
             \* in any other none
  BoxDepth,  \* bound on the answers waiting: the poll, which gives every
             \* answer seconds to be fetched, gets no further ahead
  Readings   \* readings are numbered modulo Readings

ASSUME DecodedAssumption == Decoded \subseteq {i \in Entries : Config[i].kind = "pair"}
ASSUME BoundsAssumption == BoxDepth \in Nat \ {0} /\ Readings \in Nat \ {0}

VARIABLES
  slots,    \* g_register_data, per entry of the map
  dev,      \* g_haas_dev_rs485
  pollAt,   \* device_no: the entry asked last, 0 when a round begins
  reading,  \* number of the next reading
  box,      \* answers in the receive box
  job,      \* per drainer, the answer it has, whether haas_device_dataRead is
            \* still to see it, and its next word to be stored; or None
  mixed,    \* history: the entries of which one answer was being stored when
            \* the last one was taken
  strayed   \* history: the entries that got another's answer from
            \* haas_device_dataRead and no value of their own since

vars == <<slots, dev, pollAt, reading, box, job, mixed, strayed>>

Word == [slave : Nat, cmd : Nat, reg : Nat, reading : 0..(Readings - 1)]
Answer == [slave : Nat, cmd : Nat, reg : Nat, len : Nat, reading : 0..(Readings - 1)]
Job == [answer : Answer, credit : BOOLEAN, next : Nat]

ASSUME NoneAssumption == None \notin Job

TypeOK ==
  /\ slots \in [Mapped -> [0..(MaxLen - 1) -> Word \cup {None}]]
  /\ DOMAIN dev = Entries
  /\ \A i \in Entries :
       /\ dev[i].slave \in Nat /\ dev[i].cmd \in Nat /\ dev[i].reg \in Nat /\ dev[i].len \in Nat
       /\ dev[i].valid \in BOOLEAN
       /\ \A k \in DOMAIN dev[i].value : dev[i].value[k] \in Word
  /\ pollAt \in Entries \cup {0}
  /\ reading \in 0..(Readings - 1)
  /\ box \in Seq(Answer) /\ Len(box) <= BoxDepth
  /\ \A t \in Drainers : job[t] = None \/ job[t] \in Job
  /\ mixed \subseteq Entries /\ strayed \subseteq Entries

Init ==
  /\ Entries # {}
  /\ slots = [j \in Mapped |-> EmptySlot]
  /\ dev = [i \in Entries |->
       [slave |-> Config[i].slave, cmd |-> Config[i].cmd, reg |-> Config[i].reg,
        len |-> Config[i].len, value |-> <<>>, valid |-> FALSE]]
  /\ pollAt = 0
  /\ reading = 0
  /\ box = <<>>
  /\ job = [t \in Drainers |-> None]
  /\ mixed = {} /\ strayed = {}

-----------------------------------------------------------------------------
(* haas_data_read asks for what g_haas_dev_rs485 says at that moment.      *)

Advance == pollAt' = IF pollAt + 1 \in Entries THEN pollAt + 1 ELSE 0

\* Nobody answers address 0 or a request for no registers, and
\* parse_modbus_response does not know function 2.
PollAnswered(i) ==
  /\ i = pollAt + 1 /\ Len(box) < BoxDepth
  /\ dev[i].slave # 0 /\ dev[i].len # 0 /\ dev[i].cmd # 2
  /\ box' = Append(box, [slave |-> dev[i].slave, cmd |-> dev[i].cmd, reg |-> dev[i].reg,
                         len |-> dev[i].len, reading |-> reading])
  /\ reading' = (reading + 1) % Readings
  /\ Advance
  /\ UNCHANGED <<slots, dev, job, mixed, strayed>>

\* Also the end of a round.
PollUnanswered ==
  /\ Len(box) < BoxDepth
  /\ Advance
  /\ UNCHANGED <<slots, dev, reading, box, job, mixed, strayed>>

-----------------------------------------------------------------------------
(* The draining threads.                                                   *)

\* The answer a is one to a request for entry i.
Touches(a, i) == a.slave = dev[i].slave /\ a.cmd = dev[i].cmd /\ a.reg = dev[i].reg
Storing(i) == \E t \in Drainers : job[t] # None /\ Touches(job[t].answer, i)

Take(t) ==
  /\ job[t] = None /\ box # <<>>
  /\ mixed' = {i \in Entries : IF Touches(Head(box), i) THEN Storing(i) ELSE i \in mixed}
  /\ job' = [job EXCEPT ![t] = [answer |-> Head(box), next |-> 0,
                                credit |-> Decoded # {} /\ Head(box).cmd = 3]]
  /\ box' = Tail(box)
  /\ UNCHANGED <<slots, dev, pollAt, reading, strayed>>

\* The thread's way through its answer.
Onward(t) ==
  LET j == job[t]
  IN  job' = [job EXCEPT ![t] =
        IF j.credit THEN [j EXCEPT !.credit = FALSE]
        ELSE IF j.next + 1 < j.answer.len THEN [j EXCEPT !.next = j.next + 1] ELSE None]

WordOf(a, k) == [slave |-> a.slave, cmd |-> a.cmd, reg |-> a.reg + k, reading |-> a.reading]

\* haas_device_dataRead: an answer to function 3 is credited to the entry asked
\* last, and value_valid stays as it is.
Credit(t) ==
  /\ job[t] # None /\ job[t].credit /\ Onward(t)
  /\ LET a == job[t].answer
     IN  IF pollAt \in Decoded
         THEN /\ dev' = [dev EXCEPT ![pollAt].value = [k \in {0} |-> WordOf(a, 0)]]
              /\ strayed' = IF Touches(a, pollAt) THEN strayed \ {pollAt} ELSE strayed \cup {pollAt}
         ELSE UNCHANGED <<dev, strayed>>
  /\ UNCHANGED <<slots, pollAt, reading, box, mixed>>

\* sync_register_to_rs485, at the index of the map.
Synced(d, e, slot) ==
  LET ok == Aggregated(slot, e.len, e.kind)
  IN  [slave |-> e.slave, cmd |-> e.cmd, reg |-> e.reg, len |-> e.len,
       value |-> IF ok THEN Value(slot, e.len, e.kind) ELSE d.value, valid |-> ok]

\* store_register_data.  A coil for an entry that is not a word clears it.
StoreWord(slave, cmd, reg, w) ==
  LET found == Found(slave, cmd, reg)
      j == FirstEntry(found)
      e == RegisterMap[j]
      slot == PutWord(slots[j], reg - e.reg, w)
  IN
  \/ found = {} /\ UNCHANGED <<slots, dev, strayed>>
  \/ /\ found # {} /\ cmd \in Coils /\ e.kind # "word"
     /\ dev' = [dev EXCEPT ![j].value = <<>>, ![j].valid = FALSE]
     /\ UNCHANGED <<slots, strayed>>
  \/ /\ found # {} /\ ~(cmd \in Coils /\ e.kind # "word")
     /\ slots' = [slots EXCEPT ![j] = slot]
     /\ dev' = [dev EXCEPT ![j] = Synced(@, e, slot)]
     /\ strayed' = IF Aggregated(slot, e.len, e.kind) THEN strayed \ {j} ELSE strayed

\* Fault: the loop of parse_modbus_response stops one register early.
StoreNextShort(t) ==
  /\ job[t] # None /\ ~job[t].credit
  /\ LET a == job[t].answer
         k == job[t].next
     IN  /\ StoreWord(a.slave, a.cmd, a.reg + k, WordOf(a, k))
         /\ job' = [job EXCEPT ![t] = IF k + 2 < a.len THEN [@ EXCEPT !.next = k + 1] ELSE None]
  /\ UNCHANGED <<pollAt, reading, box, mixed>>

\* One round of the loop of parse_modbus_response.
StoreNext(t) ==
  /\ job[t] # None /\ ~job[t].credit /\ Onward(t)
  /\ LET a == job[t].answer
         k == job[t].next
     IN  StoreWord(a.slave, a.cmd, a.reg + k, WordOf(a, k))
  /\ UNCHANGED <<pollAt, reading, box, mixed>>

Next ==
  \/ \E i \in Entries : PollAnswered(i)
  \/ PollUnanswered
  \/ \E t \in Drainers : Take(t) \/ Credit(t) \/ StoreNext(t)

Spec == Init /\ [][Next]_vars

\* The entries that can have a value.
Servable == {i \in Kept : Config[i].len # 0 /\ Config[i].cmd # 2
                          /\ (Config[i].cmd \in Coils => Config[i].kind = "word")}

\* The threads keep running, and a slave that is asked again and again for what
\* it has answers in the end.
FairSpec ==
  /\ Spec
  /\ WF_vars(PollUnanswered)
  /\ \A i \in Servable : SF_vars(PollAnswered(i))
  /\ WF_vars(\E t \in Drainers : Take(t))
  /\ \A t \in Drainers : WF_job(job[t] # None /\ Onward(t))

-----------------------------------------------------------------------------
(* Properties.                                                             *)

\* What is published as V_i was read from the registers of the i-th entry of
\* the configuration, or is a number haas_device_dataRead has credited to that
\* entry when the poll had gone on to it, and that no value of its own has
\* replaced yet.  (DeviceDecode says that the poll having gone on is the only
\* way to such a number, and that it does not stay.)
PublishedInPlace ==
  \A i \in Entries \ strayed : dev[i].valid =>
    \A k \in DOMAIN dev[i].value :
      LET w == dev[i].value[k]
      IN  w.slave = Config[i].slave /\ w.cmd = Config[i].cmd /\ w.reg = Config[i].reg + k

\* A value is made of words of several readings only while an answer for its
\* entry is being stored; or, where two threads stored answers for it at once,
\* until the next one is stored by one thread alone.
WholeWhenSettled ==
  TypeOK /\ \A i \in Entries \ mixed :
    dev[i].valid /\ ~Storing(i) =>
      \A k, l \in DOMAIN dev[i].value : dev[i].value[k].reading = dev[i].value[l].reading

\* Every entry that can have a value gets one in the end, and keeps it.
EntriesServed == \A i \in Servable : <>[](dev[i].valid)
===============================================================================
