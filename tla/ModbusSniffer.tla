---------------------------- MODULE ModbusSniffer ----------------------------
(***************************************************************************)
(* process_modbus_sniffer_data and the pending requests: how the gateway   *)
(* turns the frames of a Modbus line into register values.                 *)
(*                                                                         *)
(* A master (the gateway's own poll, or a foreign one it listens to) puts  *)
(* a request on the line and waits for the slave's answer.  Read answers   *)
(* do not say which registers they carry: the code takes that from the     *)
(* request it believes is being answered.  A single write is echoed by the *)
(* slave in the same form: the code takes a frame for the echo when it     *)
(* finds its twin pending.                                                 *)
(*                                                                         *)
(* A frame is handled in one step of the thread that drained it; frames    *)
(* are handled in the order of the line.  Frames that fail the CRC, that   *)
(* were cut, or that were read together with another one in one 200 ms     *)
(* read are dropped by the length and CRC tests: here they are not seen.   *)
(* Data is kept by its identity: where on which slave it was read, or      *)
(* which write it belongs to.                                              *)
(***************************************************************************)
EXTENDS PendingTable

CONSTANTS
  Channels,      \* UARTs
  Slaves,        \* slave addresses
  Registers,     \* register and coil addresses the masters use
  MaxCount,      \* most registers one request asks for
  Functions,     \* function codes in use, out of 1, 3, 5, 6 and 16
  Sites,         \* installations, which differ in Asks and Faults
  Asks,          \* per site, the transactions its masters may start
  Faults,        \* per site, what its lines can do, out of FaultNames
  CoilsPerByte,  \* coils packed into one byte (8)
  FanRead,       \* TRUE when dev_type is 1
  MaxWrites      \* bound on the number of writes

ASSUME FunctionsAssumption == Functions \subseteq {1, 3, 5, 6, 16}
ASSUME RegistersAssumption == Registers \subseteq Nat
ASSUME CountAssumption == MaxCount \in Nat \ {0} /\ CoilsPerByte \in Nat \ {0}
ASSUME MaxWritesAssumption == MaxWrites \in Nat

VARIABLES
  site,      \* the installation, chosen once
  table,     \* g_pending_requests
  owed,      \* per channel, the transaction whose master still waits, or None
  late,      \* per channel, transactions the master gave up on
  filed,     \* what the last frame handled gave to store_register_data
  fan,       \* s_fan_value
  writes,    \* number of writes so far
  echoed     \* history: the writes the slaves have carried out

vars == <<site, table, owed, late, filed, fan, writes, echoed>>

ReadCoils == 1
WriteOne == {5, 6}
WriteMany == 16

\* A coil answer with three data bytes has the eight bytes of a request.  Read
\* as one, byte count and first byte are its start register.
RequestSizedBytes == 3
JunkRegister == 768

Count == 1..MaxCount
Request == [chan : Channels, slave : Slaves, func : Functions,
            reg : Registers \cup {JunkRegister}, count : Count, age : 0..(Timeout + 1)]
Transaction == [chan : Channels, slave : Slaves, func : Functions,
                reg : Registers, count : Count, write : 0..MaxWrites]

FaultNames == {"silent", "slow", "late", "unseenRead", "unseenWrite", "unseenAnswer"}

ASSUME SitesAssumption == /\ Asks \in [Sites -> SUBSET Transaction]
                          /\ Faults \in [Sites -> SUBSET FaultNames]
ASSUME NoneAssumption == None \notin Request /\ None \notin Transaction

\* The i-th datum of a transaction: what the slave has there, or what is
\* written.  Junk is a byte behind the frame in the receive buffer.
ReadFrom(s, r) == [of |-> "register", slave |-> s, reg |-> r]
Junk == [of |-> "junk"]
Datum(x, i) == IF x.write = 0 THEN ReadFrom(x.slave, x.reg + i)
               ELSE [of |-> "write", write |-> x.write]
Data(x) == [i \in 0..(x.count - 1) |-> Datum(x, i)]

TypeOK ==
  /\ site \in Sites
  /\ table \in [Slots -> Request \cup {None}]
  /\ owed \in [Channels -> Transaction \cup {None}]
  /\ late \in [Channels -> SUBSET Transaction]
  /\ \A f \in filed : f.slave \in Slaves /\ f.func \in Functions /\ f.reg \in Nat
  /\ writes \in 0..MaxWrites
  /\ echoed \subseteq 1..MaxWrites

Init ==
  /\ site \in Sites
  /\ table = [i \in Slots |-> None]
  /\ owed = [c \in Channels |-> None]
  /\ late = [c \in Channels |-> {}]
  /\ filed = {}
  /\ fan = None
  /\ writes = 0
  /\ echoed = {}

-----------------------------------------------------------------------------
(* The handler.                                                            *)

NewRequest(x, r, n) == [chan |-> x.chan, slave |-> x.slave, func |-> x.func,
                        reg |-> r, count |-> n, age |-> 0]

\* Fault: the last register of an answer is left out.
FilingsShort(x, r, data) ==
  {[slave |-> x.slave, func |-> x.func, reg |-> r + i, value |-> data[i]] :
     i \in {j \in DOMAIN data : j + 1 \in DOMAIN data}}

\* The calls of store_register_data for consecutive registers from r on.
Filings(x, r, data) ==
  {[slave |-> x.slave, func |-> x.func, reg |-> r + i, value |-> data[i]] : i \in DOMAIN data}

\* Reads (0x01, 0x03, 0x04): an eight byte frame is a request.
OnReadRequest(x) ==
  /\ table' = Add(table, NewRequest(x, x.reg, x.count))
  /\ filed' = {} /\ fan' = fan

Bytes(x) == (x.count + CoilsPerByte - 1) \div CoilsPerByte
LooksLikeRequest(x) == x.func = ReadCoils /\ Bytes(x) = RequestSizedBytes

\* parse_modbus_response.  The registers come from the matched request.  As
\* many words are stored as the answer has; coils as the request asked for.
OnReadAnswer(x) ==
  LET k == Key(x)
      m == Match(table, k)
      n == IF x.func = ReadCoils THEN table[m].count ELSE x.count
      isFan == /\ FanRead /\ x.func = ReadCoils /\ x.slave = 1
               /\ table[m].reg = 0 /\ table[m].count = 1
      data == [i \in 0..(n - 1) |-> IF i < x.count THEN Datum(x, i) ELSE Junk]
  IN
  \/ /\ LooksLikeRequest(x)
     /\ table' = Add(table, NewRequest(x, JunkRegister, MaxCount))
     /\ filed' = {} /\ fan' = fan
  \/ /\ ~LooksLikeRequest(x) /\ SameKey(table, k) = {}
     /\ filed' = {} /\ UNCHANGED <<table, fan>>
  \/ /\ ~LooksLikeRequest(x) /\ SameKey(table, k) # {}
     /\ fan' = IF isFan THEN data[0] ELSE fan
     /\ filed' = IF isFan THEN {} ELSE Filings(x, table[m].reg, data)
     /\ table' = Release(table, m)

\* Single writes (0x05, 0x06): with a twin pending the frame is the echo and
\* its value is stored; otherwise it is a request.
OnWriteOne(x) ==
  LET twins == SameWrite(table, Key(x), x.reg) IN
  /\ fan' = fan
  /\ \/ /\ twins # {}
        /\ table' = Release(table, First(twins))
        /\ filed' = Filings(x, x.reg, Data(x))
     \/ /\ twins = {}
        /\ table' = Add(table, NewRequest(x, x.reg, 1))
        /\ filed' = {}

\* Block writes (0x10): the request stores its values at once, the answer only
\* retires the request.
OnWriteManyRequest(x) ==
  /\ filed' = Filings(x, x.reg, Data(x))
  /\ table' = Add(table, NewRequest(x, x.reg, x.count))
  /\ fan' = fan

OnWriteManyAnswer(x) ==
  LET twins == SameWrite(table, Key(x), x.reg)
  IN  /\ table' = IF twins # {} THEN Release(table, First(twins)) ELSE table
      /\ filed' = {} /\ fan' = fan

\* process_modbus_sniffer_data: the branch of the function code.
OnRequest(x) ==
  \/ x.func \notin WriteOne \cup {WriteMany} /\ OnReadRequest(x)
  \/ x.func \in WriteOne /\ OnWriteOne(x)
  \/ x.func = WriteMany /\ OnWriteManyRequest(x)

OnAnswer(x) ==
  \/ x.func \notin WriteOne \cup {WriteMany} /\ OnReadAnswer(x)
  \/ x.func \in WriteOne /\ OnWriteOne(x)
  \/ x.func = WriteMany /\ OnWriteManyAnswer(x)

-----------------------------------------------------------------------------
(* The line, the clock and cmd_main.                                       *)

IsWrite(f) == f \in WriteOne \cup {WriteMany}

\* A master may ask when nobody owes it an answer.  The gateway does not hear
\* itself: haas_data_read enters its request in the table (seen), while
\* haas_device_control does not (unseen).
Ask(x) ==
  /\ owed[x.chan] = None
  /\ x.write = IF IsWrite(x.func) THEN writes + 1 ELSE 0
  /\ x.func \in WriteOne => x.count = 1
  /\ writes' = IF IsWrite(x.func) THEN writes + 1 ELSE writes
  /\ owed' = [owed EXCEPT ![x.chan] = x]
  /\ UNCHANGED <<site, late, echoed>>

AskSeen(x) == Ask(x) /\ OnRequest(x)
AskUnseen(x) ==
  /\ (IF IsWrite(x.func) THEN "unseenWrite" ELSE "unseenRead") \in Faults[site]
  /\ Ask(x)
  /\ UNCHANGED <<table, filed, fan>>

\* The slave carries out the transaction and answers it.
Answer(c) ==
  /\ owed[c] # None
  /\ owed' = [owed EXCEPT ![c] = None]
  /\ echoed' = echoed \cup ({owed[c].write} \ {0})
  /\ UNCHANGED <<site, late, writes>>

AnswerSeen(c) == Answer(c) /\ OnAnswer(owed[c])
AnswerUnseen(c) == "unseenAnswer" \in Faults[site] /\ Answer(c) /\ UNCHANGED <<table, filed, fan>>

\* The slave never reacts, or only after the master has given up.
Silent(c) ==
  /\ "silent" \in Faults[site] /\ owed[c] # None
  /\ owed' = [owed EXCEPT ![c] = None]
  /\ UNCHANGED <<site, table, late, filed, fan, writes, echoed>>

GiveUp(c) ==
  /\ "late" \in Faults[site] /\ owed[c] # None
  /\ owed' = [owed EXCEPT ![c] = None]
  /\ late' = [late EXCEPT ![c] = @ \cup {owed[c]}]
  /\ UNCHANGED <<site, table, filed, fan, writes, echoed>>

LateAnswer(c, x) ==
  /\ late' = [late EXCEPT ![c] = @ \ {x}]
  /\ echoed' = echoed \cup ({x.write} \ {0})
  /\ OnAnswer(x)
  /\ UNCHANGED <<site, owed, writes>>

\* cmd_main calls cleanup_timeout_requests at the start of every round.
CleanupStep ==
  /\ table' = Cleanup(table)
  /\ UNCHANGED <<site, owed, late, filed, fan, writes, echoed>>

\* A second passes.  Without "slow", slaves answer while their request is
\* still young enough for cleanup.
Tick ==
  /\ "slow" \in Faults[site] \/ \A c \in Channels, i \in Slots :
       owed[c] # None /\ table[i] # None /\ Key(table[i]) = Key(owed[c]) => table[i].age < Timeout
  /\ table' = Older(table)
  /\ UNCHANGED <<site, owed, late, filed, fan, writes, echoed>>

Next ==
  \/ \E x \in Asks[site] : AskSeen(x) \/ AskUnseen(x)
  \/ \E c \in Channels : AnswerSeen(c) \/ AnswerUnseen(c) \/ Silent(c) \/ GiveUp(c)
  \/ \E c \in Channels : \E x \in late[c] : LateAnswer(c, x)
  \/ CleanupStep \/ Tick

Spec == Init /\ [][Next]_vars

-----------------------------------------------------------------------------
(* Properties.                                                             *)

\* The table never holds two requests an answer could belong to, and none that
\* is not well-formed.
PendingUnique == TypeOK /\ Unique(table)

\* Sites whose read requests are all heard and whose answers are never late,
\* and sites where nothing goes wrong at all.
HeardInTime == Faults[site] \cap {"late", "unseenRead"} = {}
FaultFree == Faults[site] = {} /\ \A x \in Asks[site] : ~LooksLikeRequest(x)

\* A value filed under a slave and register by a read was read from that slave
\* and register; the fan value was read from coil 0 of slave 1.
Attributed ==
  /\ \A f \in filed : ~IsWrite(f.func) => f.value = ReadFrom(f.slave, f.reg)
  /\ fan \in {None, ReadFrom(1, 0)}
ReadAttribution == HeardInTime => Attributed

\* A single write is filed only once the slave has carried it out.
Confirmed == \A f \in filed : f.func \in WriteOne => f.value.write \in echoed
WriteConfirmed == FaultFree => Confirmed

\* Why looking for a twin tells requests from echoes: the table holds what is
\* owed on the lines and nothing else.
Mirror ==
  /\ \A i \in Slots : table[i] # None =>
       LET x == owed[table[i].chan]
       IN  x # None /\ Key(x) = Key(table[i]) /\ x.reg = table[i].reg
  /\ \A c \in Channels : owed[c] # None => \E i \in SameKey(table, Key(owed[c])) : TRUE
TableMirrorsLines == FaultFree => Mirror

\* A read answer that is seen while its request is pending is filed in full.
AnswerIsStored ==
  [][\A c \in Channels :
       LET x == owed[c] IN
       /\ HeardInTime /\ AnswerSeen(c) /\ ~IsWrite(x.func)
       /\ \E i \in SameKey(table, Key(x)) : table[i].reg = x.reg
       => \/ FanRead /\ x.count = 1 /\ fan' = ReadFrom(x.slave, x.reg)
          \/ \A i \in 0..(x.count - 1) :
               \E f \in filed' : f.reg = x.reg + i /\ f.value = ReadFrom(x.slave, x.reg + i)]_vars
=============================================================================
