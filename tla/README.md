# haas_dtu: models and proofs of the RS-485 gateway

`haas_dtu` runs on an OpenWrt gateway. It polls (or eavesdrops on) Modbus
devices on two RS-485 lines, keeps the last value of every configured register,
and publishes the values to two MQTT brokers; commands from the brokers are
written back to the lines. It is one process with six threads that share plain
globals and use no lock but the one in `ini.c`. These modules model that shared
state and the steps the threads take on it.

All paths below are relative to the repository root.

## 1. Inventory

### Threads (`src/src/main.c`)

| thread | body | what it does |
|---|---|---|
| rx1, rx2 | `uart_rx_task` (`uart.c`) | every 200 ms reads what the tty has and puts it in that line's receive box |
| cmd | `cmd_main` (`bf_cmd.c`) | polls the devices, cleans up timed out requests, closes energy windows |
| data | `data_main` (`data.c`) | every upload interval publishes all values to both brokers; refreshes a display |
| mqtt | `mqtt_main` (`mqtt.c`) | (re)connects to broker 1, yields, drains all four message boxes |
| haas | `haas_mqtt_main` (`haas_mqtt.c`) | the same for broker 2, and drains the same four boxes; runs device controls |

### Components

| component | state | operations | hard behaviour |
|---|---|---|---|
| message boxes (`bfmsg.c`, `uart.c`) | four bounded lock-free queues, their global handles | `bfmsg_box_read/write`, `write_uart_msg` | full box overwrites; dequeue+enqueue not atomic; two consumers |
| UART transmission (`uart.c`) | `s_fd`, `s_fd_inited_map`, a transmit box per call | `uart_tx`, `uart_rx_task` | several first senders of one line; numbers kept after what they stood for was closed |
| channel arbitration (`data.c`) | `s_uart_busy`, `s_uart_busy_since`, `s_uart_control_pending` | `uart_channel_try_lock/unlock`, `haas_data_read`, `haas_device_control` | test and set apart, takeover of old flags, retries, senders that ignore it |
| pending requests (`data.c`) | `g_pending_requests[10]` | add, match, clean up | replacement, overflow, late answers, retries; two or three threads |
| Modbus sniffer (`data.c`) | none of its own | `process_modbus_sniffer_data` and the parsers | telling a request from a response by length or by a pending twin |
| register store (`data.c`) | `g_register_map`, `g_register_data`, `g_haas_dev_rs485` | `init_register_map`, `store_register_data`, `recalc_register_outputs`, `sync_register_to_rs485` | multi-word values arriving word by word; two index spaces |
| energy window (`data.c`, `mqtt.c`, `haas_mqtt.c`) | request flag, value, ready flag, publish mask | window cycle, capture, two uploads | three threads, one value to be published once by each of two clients |
| scheduling (`bf_cmd.c`, `data.c`) | last-run times | `cmd_main`, `data_main` loops | intervals read from a file that may lack them, clock jumps |
| device decoding (`data.c`) | `device_no`, `g_haas_dev_rs485` | `haas_device_dataRead` | the answer is credited to whichever device is being polled now |
| MQTT loops (`mqtt.c`, `haas_mqtt.c`) | clients, their sockets, topic and payload buffers | connect and subscribe, yield, publish, drain | two threads write one buffer pair; the data thread publishes through clients whose own threads reconnect them |
| configuration file (`ini.c`) | `ini_mutex`, file lock | `GetIniKey*`, `PutIniKey*` | early returns that keep the mutex; a read buffer shared by all threads |
| JSON helpers (`json.c`) | none | cJSON wrappers | - |
| Tuya serial SDK (`mcu_sdk/`) | receive ring, work state | `wifi_protocol_init`, `mcu_get_wifi_work_state` | its service loop is commented out in `data_main` |
| MQTT client library (`lib/paho...`) | connected flag, handlers, one send buffer per client | connect, subscribe, yield, publish, disconnect | vendored; compiled without its mutex, yet used by two threads |
| cJSON, mongoose (`lib/`) | - | vendored | - |
| `bf_uart.c`, `udp.c` | - | thread not started or function unused | - |
| `bfbr.c`, `haas_mqtt_new.c` | - | not in the Makefile's sources | - |

### What correct means

| component | correct when |
|---|---|
| channel arbitration | one thread has the line; nobody keeps it, or the request for it, after leaving; a control and a poll both come back |
| pending requests, sniffer | an answer is filed under the slave and registers it came from, in full; a write only after the slave confirmed it |
| register store | what is published as V_i belongs to entry i and is one reading; every entry gets a value |
| energy window and meter | one value per window, published once by each client, and no energy in two windows |
| message boxes | no buffer lost or freed twice, order kept but for what a second reader can do, a write never waits |
| scheduling | the meter is read and windows end in time, whatever happens to the clock |
| configuration file | a read returns what the file has; the file is never left half written |
| UART transmission | a frame goes to its line and to nothing else |
| device decoding | the value of an answer goes to the device that sent it |
| MQTT loops | a client that runs its loop has joined and hears what the broker grants it; a lost connection is noticed and made anew; what is published is what was drained |

Where the code is exposed, line by line, is in the hazard list of
`PROJECT.json`.

### Interactions

rx threads -> receive boxes -> (mqtt or haas thread, whichever dequeues first)
-> sniffer -> pending requests -> register store -> energy window. The cmd
thread sends requests (arbitration, transmit box) and adds pending requests, with nothing that keeps the MQTT threads out. The
data thread reads the store and the window and publishes through both clients.
The haas thread executes controls inside its yield and then contends with the
cmd thread for the line.

## 2. Plan

### Modules

Done, in this order (the most important behaviour first: who may use the line,
then what becomes of a frame, then the value that is published):

```
UartArbiter                             the channel flag, poll against control
MsgBox INSTANCE LossyFifo               the receive box and what it promises
PendingTable                            operators on g_pending_requests
ModbusSniffer EXTENDS PendingTable      the frames of the lines
PendingRace EXTENDS PendingTable        the table slot by slot, by threads
MC_Sniffer                              one line, or the threads at the table
RegisterSlots                           the register map, a slot, its value
RegisterStore EXTENDS RegisterSlots     <- MC_RegisterStore
EnergyMeter EXTENDS RegisterSlots       <- MC_EnergyMeter
EnergyWindow                            the window's value and its flags
IniFile <- MC_IniFile                   the configuration file
CmdSchedule                             when the meter is read
DeviceDecode                            what becomes of a polled device's answer
MC_CmdSchedule                          either of the two, by the type of the installation
MqttSession                             one client, its thread and the data thread
Descriptors <- MC_Descriptors           who holds which descriptor number
```

The proofs, each module extending those it is about:

```
UartProofs            UartArbiter, MsgBox
SnifferProofs         ModbusSniffer, PendingRace
RegisterStoreProofs   EnergyMeterProofs   EnergyWindowProofs
CmdMainProofs         CmdSchedule, DeviceDecode, IniFile
MqttSessionProofs     DescriptorsProofs
```

Left:

1. `g_topic_buf` and `g_payload`, which both MQTT loops fill: is a payload
   published under its own topic. It needs the loops' four boxes, composed with
   `MsgBox`.
2. The transmit boxes that `uart_tx` makes: each call leaves the one before
   behind with what is in it (`uart.c:225`).
3. `data_main`'s timer in `CmdSchedule`, so that the age of a *published* value
   is bounded.
4. Startup: the threads before the configuration is loaded.

### Theorems

Done: section 5. Every invariant and action property that a passing run checks is
a theorem. Next:

1. `PublishedInPlace` and `WholeWhenSettled` for entries that share registers:
   which slot the words go to then.
2. With the modules under "Left", their invariants.

## 3. The modules and the code

In every module a comment at the head says which threads take part and what one
step is. An operator whose comment begins with "Fault:" is a version of the next
definition with a bug put in; no specification uses it. It is there to show that
the property named in `PROJECT.json` depends on that definition.

### UartArbiter

One channel, two threads: `Poll` is `cmd_main` in `haas_data_read`, `Ctrl` the
haas thread in `out_messageArrived`. `busy`, `since` and `pending` are
`s_uart_busy`, `s_uart_busy_since` and `s_uart_control_pending` of that channel,
`waiting` and `sent` the poll's `s_waiting_haas_th` and
`s_haas_data_send_time`. `uart_channel_try_lock` is taken apart into `Enter`
(clock), `Try` (test), `Steal` (an old flag), `Set` and `Stamp`, because another
thread can act between any two. `PollNext` to `PollWait` are the loop of
`haas_data_read`, with the fan read at the end for dev_type 1; `CtrlCall`,
`CtrlSend`, `CtrlClear` are `haas_device_control`; `LightCall` and `LightDone` a
light control, which sends without taking the channel. `Answer` is the one
effect of `haas_device_dataRead` that matters here: it ends the wait.

What the model shows beyond its properties: the flag does *not* exclude (a
violation needs two threads between test and set, or a holder older than 5
seconds), and a light control sends whatever the flag says.

### PendingTable, ModbusSniffer, PendingRace

`PendingTable` has `add_pending_request` (`Add`: the slot of the same key, else
the first free one, else everything moves down by one and slot 1 is lost),
`cleanup_timeout_requests` (`Cleanup`), `match_response_with_request` (`Match`),
the twin search for writes (`SameWrite`) and `Release`. A key is channel, slave
and function.

`ModbusSniffer` has a line per channel with a master that asks and waits
(`owed`) and slaves that answer. `OnRequest` and `OnAnswer` are
`process_modbus_sniffer_data` with the parsers it calls, on a frame with a good
CRC: read requests, read answers, single writes and their echoes, multiple
writes. `filed` is what the handler gave to `store_register_data`, `fan` is
`s_fan_value`. The constant `Faults` says what a line can do: slaves silent,
slow, or answering when the master has given up; frames the gateway does not
see. A datum is where it was read (or which write it belongs to), so that
attribution can be stated. A frame is handled in one step.

`PendingRace` takes those steps apart. Any number of `Threads` are each at a
place in one of the functions (`call`), and a step looks at or writes one slot:
`Same` and `Free` are the two searches of `add_pending_request`, `Put` its
`memcpy`, `Shift` the `memmove` slot by slot; `Look` is
`match_response_with_request`, `Twin` the searches of functions 0x05, 0x06 and
0x10, `Retire` the use of the pointer they leave and the clearing of
`is_valid`; `Sweep` and `Drop` are the cleanup. A slot keeps its request when it
is not valid, and who points to it reads what is there by then, as in C. A copy
of one request is one step.

The two views are tied together by `AloneIsAtomic`: a call that nobody
interrupts leaves the table that `PendingTable` computes. So everything
`ModbusSniffer` shows holds of the gateway as long as calls do not overlap, and
`RacesExplained` says what can go wrong when they do, and from which overlap
alone.

Met while modelling, and not properties because they are false: with late
answers a value is filed under registers it was not read from (the pairing does
not compare registers, `data.c:1591`); a master that repeats a single write
makes the repetition look like the echo; a full table drops slot 1, which need
not be the oldest as `data.c:1558` says; two threads that add one key leave two
requests of it, which the comment at `data.c:1535` sets out to avoid.

### RegisterSlots, RegisterStore

`RegisterSlots` is `init_register_map` (`Kept`, `Position`, `RegisterMap`),
the search in `store_register_data` (`Found`), a slot's words with their ready
bits (`PutWord`, `Aggregated`) and `recalc_register_outputs` (`Value`).
`RegisterStore` adds the poll (`PollAnswered`, `PollUnanswered`: the request
uses the entry's `data_len` of the moment), the box, and drainers that store an
answer word by word (`Take`, `StoreNext`); a call of `store_register_data` with
its recalculation and `sync_register_to_rs485` is one step. `dev` is
`g_haas_dev_rs485`, from which both uploads publish. Its second writer is
`haas_device_dataRead` (`Credit`): with polled devices (`RS485_type` 0,
`dev_type` 0) a drainer first gives the answer to it, and the first word becomes
the number of the entry asked last (`pollAt`, the code's `device_no`), with
`value_valid` left as it is. `Decoded` are the entries it writes a number to
that is published, none in other installations. What number it makes of the word
is `DeviceDecode`'s.

When the poll has gone on while the answer was in the box, that is another
entry's word under a valid mark, and an upload publishes it. `strayed` notes
such an entry until it has a value of its own; `PublishedInPlace` says that
nothing else puts a foreign word there.

Two threads that store answers for one entry at once leave words of both, and
the value stays so while nothing is being stored. `mixed` notes it, and
`WholeWhenSettled` says that nothing else tears a value and that the next answer
stored by one thread alone mends it.

Also false in general: an entry without a slave address shifts every value behind it
in `dev` (the map closes the gap, `dev` does not). `PublishedInPlace` is proved
for configurations without such entries.

### EnergyWindow, EnergyMeter

`EnergyWindow` is about the flags: `WindowCycle` and `FullReadAnswered`
(`cmd_main`), `Store` and the four steps of `update_energy_window` per draining
thread, and the upload step by step for client 1 and then client 2. `mask |=
bit` is `Load` and `StoreMask`. A capture that overlaps an upload or another
capture is put into `raced`, and the properties that such a race can break make
that exception.

`EnergyMeter` is about the number: what the meter shows, the answers on their
way, words stored one at a time by several drainers, word width included. A
capture is taken apart as `update_energy_window` has it: `Test`, `TakeValue`,
`ResetRequest`, `SendClear`, with another drainer or the next window's request
able to come between. An answer carries how often the meter had been cleared when
it was read. `NothingBookedTwice` is an account: what the windows hold and what
the meter still shows, less the capture under way (`open`), is at most what was
used and what three causes have booked again (`excess`): a clear frame that is
lost, an answer read before the last clear, and a capture that another thread
makes before the clear frame of the last one is out (two drainers past the test,
or a new window requested in between). None of the three is excluded by the code;
each is needed for the property to hold.

### MsgBox, LossyFifo

`bfmsg_box_write` is up to three operations on the queue of liblfds (`Enqueue`;
on a full queue `PushOut`, `EnqueueAgain`) and the writer frees what it pushed
out (`FreePushed`). `Dequeue` is `read_uart_msg` up to its copy, `Handle` what
the loop does with it. `LossyFifo` is the abstract specification, refined by
`IsLossyFifo`.

### IniFile

`GetOpen`, `GetLine`, `GetMatch`, `GetEnd`, `GetUse` are `GetIniKeyString` and the
use of the pointer it returns, with the static line buffer shared by all
threads; `PutLock` to `PutReturn` are `PutIniKeyString`, `PutFail` its error
returns, which keep the mutex. `Crash` is the end of the process, by `exit()` in
another thread or with the power, and its restart.

A line is a title, a key or empty. Both functions compare over the length of what
they have read. For a title that is the line (`ini.c:36`), so that an empty line
passes for every title, and the flag that the section has begun is never taken
back: `Titles` and `get.inside`. For a key it is the key of the line (`ini.c:29`,
`ini.c:108`), so that a key passes for every other that begins with it:
`Matches`, with `Shorter`, the keys that a given one begins with. The program
asks for such pairs, `dev_add` (`mqtt.c:677`) and `dev_add02` (`mqtt.c:693`,
through `sprintf`). If the shorter key stands between the title and the longer
one (`Shadowed`), a read of the longer one returns its value, and a write of the
longer one changes its line. `GetsRight` and `FileWhole` make this exception,
and TLC finds a violation of `GetsRight` without it.

The properties compare with the section a line is really in. That they hold rests
on `LinesAssumption`: no key is in the file twice, as the program's numbered
names make it (`dev_add01`, `dev_add02`). With a key in two sections the first
one behind an empty line would be taken. `SectionsAssumption` says that the user
wrote every key into the section that it is asked for under; a key in another
one, behind an empty line, is found though it should not be. `ShorterAssumption`
says that titles, which are in brackets, are no keys and no beginnings of keys.
`AsWritten` is the user's file, `Version` the same with a value in one line.

### CmdSchedule

One action per stretch of `cmd_main`'s loop for dev_type 3. Times are kept as
distances to the clock, so that `ClockSet` shifts all of them. Differences are
signed or unsigned as C has them with a 32-bit `time_t`; with a 64-bit `time_t`
the comparison with `g_energy_window_s` would be signed too and a set-back
would hold up windows as it holds up reads.
What a set-back costs the window is one window and one round for every time the
clock is set (`WindowInTime`), not one of them in all: the round that notices the
negative difference starts a new window, and the next set-back finds that one
open. Two settings in a model of two did not show the difference; the proof did.
A missing `upload_time` reads as 0, so that the first round reads the meter
twice although `bf_cmd.c:814` sets the base to avoid that;
`FirstReadIsNotRepeated` makes the exception.

### DeviceDecode

The other kind of installation: a table of polled devices. `poll` is the place of
`cmd_main` in `haas_data_read`, `no` is `device_no`, `waiting` is
`s_waiting_haas_th`. `PollBegin` to `PollGiveUp` go once through the table;
`PollSend`, `PollAdd` and `PollArm` are three steps, because an answer may be
handled between any two. Every draining thread has a `job`: `Credit`, `Decode` and
`Clear` are `haas_device_dataRead`, which takes the answer for that of the device
polled by then; `File`, once per word, `Release` and `FileNowhere` are what
`process_modbus_sniffer_data` then does with the same answer by its pending
request. `Hundredths` and `Remainder` are the decoding, type by type; the
properties compare with `Meaning`, which says what each type's word stands for.
`MakesValue` is `recalc_register_outputs`: a number of 32 bits (types 1, 3, 4, 5
and 6) needs two words, though its entry may ask for one only, and a text (type
2) a character before its end mark. Where the words make no value, `value_valid`
is 0 and null is published.

So `value2` of an entry is what was filed last or the number that the first word
was decoded to: the latter from decoding until the answer is filed, published if
the entry counts as valid from before, and for good where the words make no
value. `ShownIsOwn` says that either one is of the entry's own device, rightly
decoded, and that a decoded number is under a valid mark only while an answer of
that device is in hand.

`given` counts the times the poll went on while an answer was still to come: the
wait ends with the next whole second (`data.c:2344`), so that it may last a
moment only. `early` notes an answer that was handled before its request was in
the table, since `uart_tx` comes first. Either one can leave a number in another
device's entry; `ShownIsOwn` says that nothing else can (TLC finds a violation
when either exception is left out), `OwnedAgain` that it is not for good.

`MC_CmdSchedule` puts the two together as `cmd_main` does: no table, and
`CmdSchedule` runs; a table, and `DeviceDecode` does.

### MqttSession

One of the two clients, `own` being `mqtt_main` or `haas_mqtt_main` (they differ
in `keepalive`), `data` the data thread inside `MQTTPublish`. `pc` is each
thread's place; `isconnected`, `cleansession`, `ping`, `handlers` and `buf` are
fields of `MQTTClient`, which has no mutex because `MQTT_TASK` is not defined.
`NetworkConnect` to `Subscribed` are `out_mqtt_init` with `MQTTConnect` and one
`MQTTSubscribe` per topic, whose results are added up in `rc`; `Loop` to
`RoundDone` are `out_mqtt_loop` with `MQTTYield` (`YieldRead`, `YieldNothing`,
`YieldFails`), its `keepalive()` (`NotDue`, `Due`) and the publishing of what was
drained; `Disconnect` and `NetworkDisconnect` end a session. `Serialise`,
`SendPacket`, `CloseSession` and `CleanSession` are the library's functions that
both threads run. `link`, `inbound`, `open` and `granted` are the connection and
the broker, which are external: a connection may fail to be made, fall silent,
be refused, answer late or be cut in the middle of a write. `faults` counts
these, up to `MaxFaults`. `Killed` is SIGPIPE: `linux_write` calls `write`, nothing
in the program ignores the signal, and a write to a connection the broker has
reset, or that never came about (`NetworkConnect`'s result is dropped, `mqtt.c:232`),
can end the process, which starts from the beginning. (mongoose ignores the
signal, `mongoose.c:2595`, but the threads that would call it are commented out,
`main.c:32`.)

Two overlaps are marked, because what they break cannot be promised: `torn`, the
data thread clears the handlers of a session it did not mean, and `stale`, it was
about to publish when the connection was made.

### Descriptors

The process's descriptor table `file` and the numbers that threads keep: `s_fd`
with `s_fd_inited_map` (`bits`), the receivers' `fd`, `my_socket` of both
clients, the number the data thread has read from one, a file open for a moment
(`ini.c`, `popen`). A new descriptor takes the lowest free number, and 0, which
is standard input at first, is also what an unset number holds. `Send` to
`Write` are `uart_tx`, `OpenInput` to `ReadFails` `uart_rx_task`, `NetworkInit`
to `Hangup` a client's socket, `DataCheck` to `DataWrite` `MQTTPublish`.

That a name that does not resolve leaves `my_socket` at 0, so that
`NetworkDisconnect` closes whatever has that number, is the cause `failed` of
`StraysExplained`. `HandlesHold` says that the damage stays with number 0.

A write to a socket may end the process by SIGPIPE (`WriteTo`), whoever writes:
a client's thread or the data thread a packet, or `uart_tx` a frame whose number
0 has become a socket. The other ends are `exit()` when a descriptor turns out to
be no tty, and the copy of -1 bytes behind a failed read (`Exit`). `ended` keeps
which it was, and `StraysExplained` says that without a failed lookup it can only
be SIGPIPE under a packet.

## 4. Model checking

Each run is `tlc -config <cfg> <module>`; the constants are in the `.cfg`, those
that are not plain values in the `MC_` module.

| run | what it shows | bounds |
|---|---|---|
| `arbiter` | types; the flag and the request never leak; exclusion is lost only by overwriting a flag that is up; control and poll come back | one device and the fan read, 2 and 1 retries, takeover after 1 s, 3 s of clock, one clock setting |
| `sniffer` | no rivals in the table, reads attributed and stored in full, writes filed when confirmed, the table a mirror of quiet lines; at the table, several threads: what goes wrong has a named cause, and a call alone is atomic | sites `polled` (2 lines, 2 slaves, 2 registers, silent and slow slaves, frames unseen), `quiet` (no faults, 3 writes, functions 3, 5, 6, 16), `rough` (1 line, all faults, counts up to 3); lineups of 2 or 3 threads, 2 seconds; table of 2 |
| `sniffer_coils` (violation) | a coil answer of three data bytes is taken for a request | 1 line, function 1 |
| `store` | values in place but for numbers credited after the poll had gone on, of one reading when settled unless two threads stored at once, every entry served | 3 entries of 2 slaves, 1 with a credited number, 2 readings, 2 drainers, 1 answer waiting besides |
| `window` | a value is published once by each client unless raced; flags agree when quiet; requests are served and values retired | 2 windows, 2 draining threads, 1 answer waiting |
| `meter_accounts` | no energy is booked twice but by a lost clear, a stale answer or captures that overlap | words of 3 values, 3 units of energy, 2 windows, 2 drainers, 2 answers waiting |
| `meter_pair` (violation) | a 32 bit value is captured as new high word and old low word | words of 2 values, 3 units |
| `box` | no buffer lost or freed twice, refinement of the lossy FIFO, overtaking at most one, writes return and no message stays | box of 2, 6 messages, 2 readers |
| `ini` | a read nobody crossed returns what its section has unless a shorter key shadows it, the file stays whole but for a crash in the middle of writing, calls return | 3 threads, 4 keys in 2 sections, one of which another begins with, an empty line, 2 writes, 1 crash |
| `schedule` | with a meter: reads and windows in time with the clock set twice; with polled devices: an entry shows its own device's answer, filed or rightly decoded, unless the poll did not wait for one, and comes to do so again | interval that does not fit its variable, clock set by -10, -3 and +4; 5 tables of 2 devices with all types, answers of one and two words, numbers and texts that make no value, 2 draining threads, 1 answer not waited for |
| `session` | the loop runs only on a joined connection; handlers are the broker's grants; the broker sees CONNECT first; the client comes back for good | 3 topics, 2 codes of refusal, 2 faults, with and without keep-alive |
| `transmit` | a number other than 0 leads home; writes that stray have a named cause, and but for SIGPIPE under an MQTT packet only a failed lookup ends the process | 2 lines, 2 senders, 1 receiver, 2 clients of which 1 is named, 4 lineups, 3 closes |

Why the bounds are enough:

- *arbiter*: the takeover needs a holder older than `StealAfter` and a second
  attempt: 3 seconds and one setting of the clock give every order of stamp,
  ageing and set-back; another device repeats the first. Retries count, so that
  giving up at the first and after another attempt both happen.
- *sniffer*: a full table needs one request more than slots, which 2 lines with
  2 slaves reach; three data bytes in a coil answer need a count of 3
  (`CoilsPerByte` 1) or 17 (8); a wrong attribution needs two registers and two
  slaves, an unconfirmed write two writes with one key. The site is chosen in
  the first state, so that one run covers all three; the constants that are
  shared are those of the largest.
- *sniffer*, the threads: the lineup is chosen in the first state too. In
  `polled` a request grows old, in `sniffed` two threads add one key and choose
  one slot, in `three` a slot is cleared and taken again under a match; the
  table of 2 is full with three keys. Each cause that `RacesExplained` names is
  needed: without it TLC finds a violation within these bounds.
- *store*: both kinds of entry of more than one word, an entry longer than a
  slot, a coil configured as two words; two readings are what mixing takes. Two
  answers being stored and one waiting is a backlog of three; a fourth would find
  every place of the store in a state it has been in.
- *meter_accounts*: two drainers and two windows let a second capture begin at
  each place of the first, with an answer of before or after the clear in the box
  besides; 3 units overflow a word of 3 values.
- *window*: two captures in two threads and an upload of two clients are all
  that overlap; a third window starts from the state the second started from.
- *box*: six messages fill the box of two three times over, with both readers
  in the middle of an operation.
- *ini*: the reader of the file sees it whole, empty, partly written and
  rewritten; a third write would repeat the second. The empty line comes before
  a key of its section and before another section's title. `dev_add` stands
  directly in front of `dev_add02`, which begins with it: a read of `dev_add02`
  is the exception of `GetsRight`, all others are not. Two threads read:
  `mqtt` at its start and `cmd` in every round; the third reader, `haas`, only writes.
- *schedule*: one set-back larger and one smaller than the window and the
  interval, and a setting forward, in any order of two.
- *schedule*, the devices: words at the bounds of each type's decoding (one
  above and one below 4000, above 2000 and 20000, the sign bit, the mark for
  "none"), a text that begins with its end mark and one that does not, entries of
  one word whose type needs two; one answer not waited for is what moves all
  later ones by a device.
- *session*: the summing of results needs a code of refusal and several topics
  that take from it; each cause of a lost connection is one fault, and two of
  them let one happen while the client recovers from the other.
- *transmit*: all threads at once are many states that differ in the numbers
  alone, so a lineup leaves some out. `FirstFrames` has both senders and a name
  that fails, `Publishing` both clients and the data thread, `Reading` the
  receiver and short-lived files, `Reusing` all that close and open again. With 3
  closes a number is given up, taken by another, and given up again. The proofs
  hold for any lineup.

Deadlock is checked except in the sniffer runs, where the number of writes and
seconds is bounded and lines may be silent for good, and in `transmit`, where
the process may end and the number of closes is bounded.

### Fairness

- `UartArbiter`: the poll's thread, a control under way and the clock go on
  (`Fairness`). No control need arrive, no device answer.
- `RegisterStore`: threads go on; a slave that is asked again and again answers
  in the end (strong fairness per entry, only for `EntriesServed`). One of the
  drainers takes answers, not any given one, as for `MsgBox`.
- `EnergyWindow`: the upload and the drainers go on and the meter keeps being
  read: `cmd_main` does so every `upload_time` seconds, window or not.
- `MsgBox`: the writer goes on; one of the readers does, and a reader that took
  a message handles it. It is *not* assumed that a given reader takes messages,
  since an MQTT loop may sit in its reconnect for as long as the broker is gone.
- `MqttSession`: both threads run, and the broken link is reported in the end
  (`WF(Break)`: TCP gives up). Strong fairness of `Own` and `DataMoves` is due to
  the bound: with all faults used up, a step that would be one has to wait for
  the other thread, which does not disable it for good. `SF(OwnPublish)` is the
  heartbeat once a minute and the values published; `SF(RoundDone)` that a round
  ends, since boxes are filled five times a second at most. The network is
  assumed to fail finitely often (`MaxFaults`), and only for `Settles`.
- `DeviceDecode`: `cmd_main` and the draining threads go on. A device gets the
  channel again and again, and answers again and again (strong fairness per
  device, only for `OwnedAgain`): one that never does keeps what its entry has.
- `IniFile`: the system's scheduler. No fairness for crashes or light controls.

The other runs have safety properties only.

### Findings

`sniffer_coils` and `meter_pair` are kept as violations because the source says
otherwise: `data.c:2021` that coil answers have variable length, and
`data.c:1732` that values are made of registers that are completely written.

## 5. Proofs

`tlapm` checks eight modules. No assumption is used but the named `ASSUME`s of the
modules and what a theorem states. Most of them are types of the constants; the
others are

- `DrainersAssumption` (`EnergyWindow`) and `ReadersAssumption` (`MsgBox`): there are
  finitely many threads, as cardinalities are counted;
- `NoneAssumption`, `UnusedAssumption` and their like: a mark for "nothing" is none of
  the values it stands beside;
- `LongAssumption` (`CmdSchedule`): the bound at which times stop growing is above
  what the properties compare with, so that it hides nothing;
- `LinesAssumption`, `SectionsAssumption` (`IniFile`): how the user wrote the file,
  section 3; `ShorterAssumption`: titles are no keys and no beginnings of keys.

| theorem | says, for every value of the constants |
|---|---|
| `FlagNeverLeaks`, `PendingNeverLeaks`, `ExclusionHoldsUnlessRaced` | the safety properties of `arbiter`, types included, for any number of devices, retries and seconds |
| `NoRivalRequests` | `PendingUnique`, types included, under any faults |
| `ReadsAreAttributed` | `ReadAttribution`, when every read request is seen and no answer is late |
| `WritesAreConfirmed`, `TableIsMirror` | `WriteConfirmed` and `TableMirrorsLines`, without faults and with no more channels than slots |
| `InPlaceWithoutGaps` | `PublishedInPlace` for every configuration in which each entry has a slave address, any entries with credited numbers, and any number of drainers |
| `OneValue` | `OneValuePerWindow` for any number of drainers, windows, answers and uploads |
| `RacesHaveACause` | `RacesExplained`, types included, for any number of threads, calls, slots and seconds |
| `SessionTyped`, `LoopMeansJoined` | types and `ReadyMeansJoined`, for any number of topics above every code of refusal, and any number of faults |
| `NumbersLeadHome`, `StraysHaveACause` | `HandlesHold` and `StraysExplained`, for any threads, lines, clients, lineups and number of descriptors |
| `AnswersAreStored` | `AnswerIsStored` under any faults, if no read of coils asks for the number whose answer has three data bytes; where one does, it fails (`sniffer_coils`) |
| `CallsAreAtomicAlone` | `AloneIsAtomic`, for any number of threads and slots and whatever earlier overlaps left in the table |
| `WholeUnlessMixed` | `WholeWhenSettled`, types included, if each entry has a slave address and no register is in two entries; any number of drainers, entries and readings, any lengths |
| `FlagsAlwaysAgree`, `NeverTwice`, `RetiredWhenPublished` | `FlagsAgree`, types included, `PublishedOnce` and `RetiredWasPublished`, for any number of drainers and windows |
| `NoBufferLost`, `OvertakingIsBounded` | `BuffersAccounted`, types included, and `OvertakingBounded`, for any depth of the box, any number of messages and readers |
| `BoxIsLossyFifo` | the box implements `LossyFifo`, step by step |
| `GrantedIsHeard`, `ConnectComesFirst` | `HeardIfGranted` and `FirstContact`, as `LoopMeansJoined` |
| `FirstReadIsAlone`, `AlwaysReadInTime`, `WindowAlwaysInTime` | `FirstReadIsNotRepeated`, `ReadInTime` and, types included, `WindowInTime`, for any interval (one that does not fit its variable too), window, length of a round, and any number and size of settings of the clock |
| `OwnIsShown` | `ShownIsOwn`, types included, for any table of devices of all types, any words and lengths, any number of draining threads |
| `FileStaysWhole`, `UncrossedGetsRight` | `FileWhole`, types included, and `GetsRight`, for any file that the three assumptions admit, keys that begin with others included, any number of threads, calls and crashes |
| `BookedOnce` | `NothingBookedTwice`, types included, for any energy, word size, box depth, number of windows and of drainers |

The arguments:

- *Arbiter*. One invariant for all four: types, where each thread is against
  what it has set (`busy` has a holder, `pending` is the control's), and, as
  long as nothing raced, that a holder's flag is up. It is needed in one piece:
  that `Unlock` leaves nobody else's flag down needs that there is no second
  holder, which needs that `Set` found the flag down.
- *Sniffer*. The first lemmas are what each table operation keeps: `Add`
  leaves one request of the key and only old ones of others, `Release` and
  `Cleanup` only take away. `FrameEffect` says this of the whole handler. The
  attribution needs `ReadsMatch`: a pending read has the registers of the read
  its line owes, which holds for the lines a frame does not belong to because
  keys name the channel. The mirror needs that the table never overflows, which
  is where the number of channels comes in: `RoomForOne` counts the lines that
  owe something against the slots.
- *Race*. `Searched`: while a thread adds a key that no other thread was adding,
  what it has searched has no request of that key; by `OneAdder` no other thread
  puts one there, and only a table that moves down loses the search. `Apart`:
  until two threads are about to write one slot, the slot to be written is free
  or has the key, so that no pointer's request is overwritten (`Points`). The
  other steps only take requests away, and `ClearStep` notes who pointed to one.
- *Session*. `Tally`: once the broker has accepted, the sum of the results is 0
  only if all topics so far were answered; not accepted, the client is offline
  and every subscription takes 1 off a code that is smaller than the number of
  topics, so the sum does not end at 0. That data only clears `isconnected` is
  what keeps it out of this.
- *Descriptors*. Numbers other than 0 belong to one holder each: a file opened
  takes a free one (`OpenKeeps`), and a socket is closed by its own thread alone.
  As long as all names resolved, nobody holds 0 but a line whose first sender
  has not opened it yet (`Orderly`), and nothing closes 0 either: no frame goes to
  a socket then, and every number that must be a tty is one.
- *Store*. A word in a slot was read where the map says; the map's position of
  an entry, the number of entries kept up to it, is the entry's own when none is
  left out: a lemma about cardinalities. The table keeps asking for what the
  configuration says (`Asks`), so that a word credited to the entry it was asked
  for is in place too (`CreditStep`).
- *Window*. `captures[d]` is at most `cycles`, and less while a request is open
  that `d` has not begun to serve; a capture closes the request before `d` can
  begin another.
- *Meter*. An answer read since the last clear shows at most what the meter has
  (`Covered`), so a capture of it, with no other one open, owes the meter no more
  than is there; a clear makes all answers on their way stale, and a capture that
  finds another one open is counted in `excess` whole.

- *Sniffer, answers*. What a line owes is one of the site's requests
  (`OwedAsked`), so that its answer does not look like a request; the rest is what
  one call of the handler does (`AnswerFilesAll`).
- *Race, alone*. `Phase` says, for each place in each function, what is still to do
  to `expected`: the searches have passed nothing they look for, the copy or the
  move is half done up to the slot the call is at, and what is left to do leads
  to what `PendingTable` computes.
- *Store, whole values*. `mixed` notes the entries for which two answers were being
  stored when the last one was taken. The slot of any other is stored in by one
  thread at most (`Alone`); its words are of one reading when none does
  (`Settled`), and those up to the next one are of the answer being stored when one
  does (`Midway`). Nothing is said of the rest of the slot, so that an entry may
  leave `mixed` when an answer is taken for it alone: that answer covers the
  slot. It needs that what entry i asked for goes to slot i and nowhere else
  (`OwnPlace`), which is where the hypotheses come in.
- *Window, once*. `Marking` says where an upload stands against `ready` and the mask.
  `Once`: unless the value was raced, either its capture is still under way and
  nobody has published it (`Fresh`), or those who have are those that the mask names
  and the client in the middle of its upload (`Owed`). `Numbered` makes a capture
  that replaces the value a new one, so that what was noted of the old one does
  not count.
- *Box*. `Writing` ties the two messages a writer has in hand to its place, `InOrder`
  puts everything in order of arrival: pushed out, in the box, in hand.
  `Accounted`, that the messages written are those gone, in the box or in hand, and
  no two of these at once, then is kept by each step, and the steps map to those of
  `LossyFifo` or to none. For overtaking, `Shared`: a message is taken before all
  that are in the box and held by one reader. What is handled late was held by another
  reader at the time, and each holds one (`FewLate`).
- *Session, handlers*. `Heard`: as long as the session is open and not torn, what is
  granted and has no handler is the topic whose answer is on its way.
- *Session, first packet*. `Contact`: between making a connection and sending CONNECT
  the client is offline, so the data thread stays out unless it was `stale`, and
  the buffer that is sent holds CONNECT.
- *Schedule*. Each timer against the clock: `RoundTold`, `ReadTold`, `WindowTold`. A
  difference is what the clock says but for what it was set, or what it is for is
  due; for the window each setting may cost a window and a round (`Spent`), and
  the setting of the round under way is not yet used up.
- *Decoding*. While the poll has waited for every answer, one is on its way at most,
  that of the device polled (`OneOnItsWay`); those being filed are of earlier devices,
  one each (`EachOnce`), whose requests are in the table (`AnswersAsked`). So an entry
  shows what was filed, or what was decoded while its answer is still to be filed
  or where its words make no value and null is published (`Shows`). That decoding gives a type's meaning is arithmetic on one word
  and part of the proof.
- *File*. `DiskKept`: the file and the buffer are beginnings of what the user wrote, but
  for values (`Like`), and while nobody writes a version of it. `Scanned`: a read that
  nobody crossed has seen no line that passes for its key behind one that passes for
  its title. A line of the key in its section has its title above it, and the key
  is in the file once, so what the read finds is that line, whatever empty lines
  passed for titles, unless a shorter key passed for it: that one shadows it.

Only model-checked: what is under fairness, `ControlReturns`, `PollWaitEnds`,
`EntriesServed`, `RequestServed`, `WindowClosed`, `QueueMoves`, `OwnedAgain`,
`CallsReturn` and `Settles`. Liveness is outside what the provers handle.

## 6. Not modelled

- Frames byte by byte, CRC, JSON and the texts published: the models keep what a
  frame or a payload says.
- The delta filter of `value2` (its threshold is 0 and nothing sets it); the
  loop of a gateway that only listens (`haas_data_detect`), which does nothing
  but clean up, an action of `PendingRace` and `ModbusSniffer`; the display.
- Startup, the transmit boxes of `uart_tx`, the contents of the topic and
  payload buffers: planned.
- Light control's effect on the lamp, the meter's initialisation frames, network
  queries (`check_net`, `check_sim`): output only.
- Of the MQTT client library: QoS 1 and 2, unsubscribe, the matching of topics,
  the bytes of packets. The program subscribes and publishes at QoS 0.
- Other vendored libraries (cJSON, mongoose, the Tuya SDK, liblfds). They are
  most of the lines under `src/`, and the program uses little of them. liblfds'
  queue is taken for a linearizable queue of fixed size, which is what
  `bfmsg.c` relies on.
- `bf_uart.c` and `udp.c` are compiled but never run; `bfbr.c` and
  `haas_mqtt_new.c` are not compiled; large parts of `bf_cmd.c` and `data.c` are
  inside `#if 0`.

Assumed of the platform: a process that ends is started again (the repository
does not say by whom), the limit on descriptors is not reached, accesses to a flag or a byte are single reads and
writes in program order. `s_uart_busy` and `s_uart_control_pending` are
`volatile`; the others are globals used across calls into other files, and the
debug build of the Makefile does not optimise (`-O0`).
