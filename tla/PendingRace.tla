----------------------------- MODULE PendingRace -----------------------------
(***************************************************************************)
(* g_pending_requests as the threads use it: cmd_main adds the requests it *)
(* polls with and cleans up, both MQTT loops add and match what they       *)
(* drained, and nothing excludes them from each other.  A step looks at,   *)
(* or writes, one slot.  A call that nobody interrupts does what           *)
(* PendingTable says.                                                      *)
(*                                                                         *)
(* A slot keeps its request when it is no longer valid, and a match hands  *)
(* out a pointer: whoever holds one reads what is there by then.           *)
(***************************************************************************)
EXTENDS PendingTable, FiniteSets

CONSTANTS
  Threads,   \* threads that use the table
  Jobs,      \* per lineup, the calls its threads make
  MaxClock   \* bound on the seconds counted

\* "same" is add_pending_request, "match" the answer to a read, "write" a frame of
\* 0x05 or 0x06, "confirm" an answer to 0x10, "clean" cleanup_timeout_requests.
Kinds == {"same", "match", "write", "confirm", "clean"}
Job == [thread : Threads, kind : Kinds, chan : Nat, slave : Nat, func : Nat, reg : Nat]
Stamped == [chan : Nat, slave : Nat, func : Nat, reg : Nat, time : Nat]
Blank == [chan |-> 0, slave |-> 0, func |-> 0, reg |-> 0, time |-> 0]
Lineups == DOMAIN Jobs

ASSUME JobsAssumption == \A l \in Lineups : Jobs[l] \subseteq Job
ASSUME UnusedAssumption == None \notin [chan : Nat, slave : Nat, func : Nat, reg : Nat, age : Int]

VARIABLES
  lineup,    \* the calls that may be made, chosen once
  slots,     \* g_pending_requests
  call,      \* per thread, its place in one of the functions
  clock,     \* time(NULL)
  twins,     \* history: keys that two threads were adding at once
  crossed,   \* history: two threads were about to write one slot
  shifted,   \* history: the table was full
  expected   \* history: the table after a call that is alone, or None

raceVars == <<lineup, slots, call, clock, twins, crossed, shifted, expected>>

Places == {"idle", "free", "put", "shift", "use", "drop"} \cup Kinds
Call == [op : Places, at : Slots, found : {0} \cup Slots, req : Stamped, lost : BOOLEAN]

\* at is the slot the call looks at, found the one it points to or 0, req what it
\* looks for or adds, stamped when the call began; lost is history: another thread
\* cleared the slot it points to.
Idle == [op |-> "idle", at |-> 1, found |-> 0, req |-> Blank, lost |-> FALSE]

RaceInit ==
  /\ lineup \in Lineups
  /\ slots = [i \in Slots |-> [valid |-> FALSE, req |-> Blank]]
  /\ call = [t \in Threads |-> Idle]
  /\ clock = 0 /\ twins = {} /\ crossed = FALSE /\ shifted = FALSE
  /\ expected = None

HasKey(i, k) == slots[i].valid /\ Key(slots[i].req) = k

Adding(t) == call[t].op \in {"same", "free", "put", "shift"}
AddsToo(t, k) == \E u \in Threads \ {t} : Adding(u) /\ Key(call[u].req) = k

\* The table as PendingTable has it.
Aged(r) == [chan |-> r.chan, slave |-> r.slave, func |-> r.func, reg |-> r.reg,
            age |-> clock - r.time]
Table == [i \in Slots |-> IF slots[i].valid THEN Aged(slots[i].req) ELSE None]

Atomically(kind, r) ==
  LET k == Key(r)
      twin == SameWrite(Table, k, r.reg)
  IN  CASE kind = "clean" -> Cleanup(Table)
        [] kind = "same" -> Add(Table, Aged(r))
        [] kind = "match" -> IF SameKey(Table, k) = {} THEN Table ELSE Release(Table, Match(Table, k))
        [] kind \in {"write", "confirm"} /\ twin # {} -> Release(Table, First(twin))
        [] kind = "write" /\ twin = {} -> Add(Table, Aged(r))
        [] kind = "confirm" /\ twin = {} -> Table

-----------------------------------------------------------------------------
Is(t, op) == call[t].op = op
Becomes(t, c) == call' = [call EXCEPT ![t] = c]
NextSlot(t) == call[t].at < MaxPending /\ Becomes(t, [call[t] EXCEPT !.at = @ + 1])
LastSlot(t) == call[t].at = MaxPending
Unwritten == UNCHANGED slots
Unmarked == UNCHANGED <<twins, crossed, shifted>>
Fixed == UNCHANGED <<lineup, clock, expected>>

\* A call begins.
Begin(t, job) ==
  /\ call[t] = Idle /\ job \in Jobs[lineup] /\ job.thread = t
  /\ LET r == [chan |-> job.chan, slave |-> job.slave, func |-> job.func, reg |-> job.reg, time |-> clock]
     IN  /\ Becomes(t, [op |-> job.kind, at |-> 1, found |-> 0, req |-> r, lost |-> FALSE])
         /\ expected' = IF \A u \in Threads : call[u] = Idle THEN Atomically(job.kind, r) ELSE None
         /\ twins' = IF job.kind = "same" /\ AddsToo(t, Key(r)) THEN twins \cup {Key(r)} ELSE twins
  /\ Unwritten /\ UNCHANGED <<lineup, clock, crossed, shifted>>

\* The slot is chosen; the copy is a step of its own.
Choose(t) ==
  /\ Becomes(t, [call[t] EXCEPT !.op = "put"])
  /\ crossed' = (crossed \/ \E u \in Threads \ {t} : Is(u, "put") /\ call[u].at = call[t].at)
  /\ Unwritten /\ Fixed /\ UNCHANGED <<twins, shifted>>

\* Fault: the loop ends before the last slot.
SameShort(t) ==
  LET found == HasKey(call[t].at, Key(call[t].req)) /\ ~LastSlot(t)
  IN  /\ Is(t, "same")
      /\ \/ found /\ Choose(t)
         \/ /\ ~found
            /\ NextSlot(t) \/ (LastSlot(t) /\ Becomes(t, [call[t] EXCEPT !.op = "free", !.at = 1]))
            /\ Unwritten /\ Fixed /\ Unmarked

\* add_pending_request: the search for the key, then for a free slot.
Same(t) ==
  LET found == HasKey(call[t].at, Key(call[t].req))
  IN  /\ Is(t, "same")
      /\ \/ found /\ Choose(t)
         \/ /\ ~found
            /\ NextSlot(t) \/ (LastSlot(t) /\ Becomes(t, [call[t] EXCEPT !.op = "free", !.at = 1]))
            /\ Unwritten /\ Fixed /\ Unmarked

Free(t) ==
  LET taken == slots[call[t].at].valid
  IN  /\ Is(t, "free")
      /\ \/ ~taken /\ Choose(t)
         \/ /\ taken
            /\ NextSlot(t) \/ (LastSlot(t) /\ Becomes(t, [call[t] EXCEPT !.op = "shift", !.at = 1]))
            /\ Unwritten /\ Fixed /\ Unmarked

Put(t) ==
  /\ Is(t, "put") /\ Becomes(t, Idle)
  /\ slots' = [slots EXCEPT ![call[t].at] = [valid |-> TRUE, req |-> call[t].req]]
  /\ Fixed /\ Unmarked

\* memmove, and the new request last.
Shift(t) ==
  /\ Is(t, "shift") /\ shifted' = TRUE
  /\ \/ NextSlot(t) /\ slots' = [slots EXCEPT ![call[t].at] = slots[call[t].at + 1]]
     \/ LastSlot(t) /\ Becomes(t, Idle)
        /\ slots' = [slots EXCEPT ![MaxPending] = [valid |-> TRUE, req |-> call[t].req]]
  /\ UNCHANGED <<twins, crossed>> /\ Fixed

\* match_response_with_request; req->start_reg and the others are read later.
Look(t) ==
  LET c == call[t]
      better == /\ HasKey(c.at, Key(c.req))
                /\ c.found = 0 \/ slots[c.at].req.time > slots[c.found].req.time
      seen == IF better THEN [c EXCEPT !.found = c.at, !.lost = FALSE] ELSE c
  IN  /\ Is(t, "match")
      /\ \/ c.at < MaxPending /\ Becomes(t, [seen EXCEPT !.at = @ + 1])
         \/ LastSlot(t) /\ seen.found = 0 /\ Becomes(t, Idle)
         \/ LastSlot(t) /\ seen.found # 0 /\ Becomes(t, [seen EXCEPT !.op = "use"])
      /\ Unwritten /\ Fixed /\ Unmarked

\* The searches of 0x05, 0x06 and 0x10.
Twin(t) ==
  LET c == call[t]
      found == HasKey(c.at, Key(c.req)) /\ slots[c.at].req.reg = c.req.reg
  IN  /\ c.op \in {"write", "confirm"}
      /\ \/ /\ found /\ Becomes(t, [c EXCEPT !.op = "use", !.found = c.at]) /\ UNCHANGED twins
         \/ ~found /\ NextSlot(t) /\ UNCHANGED twins
         \/ /\ ~found /\ LastSlot(t) /\ c.op = "write" /\ Becomes(t, [c EXCEPT !.op = "same", !.at = 1])
            /\ twins' = IF AddsToo(t, Key(c.req)) THEN twins \cup {Key(c.req)} ELSE twins
         \/ ~found /\ LastSlot(t) /\ c.op = "confirm" /\ Becomes(t, Idle) /\ UNCHANGED twins
      /\ UNCHANGED <<crossed, shifted>> /\ Unwritten /\ Fixed

\* is_valid = false, whatever the slot holds by now.
Clear(t, i, c) ==
  /\ slots' = [slots EXCEPT ![i].valid = FALSE]
  /\ call' = [u \in Threads |-> IF u = t THEN c ELSE [call[u] EXCEPT !.lost = @ \/ call[u].found = i]]

Retire(t) == Is(t, "use") /\ Clear(t, call[t].found, Idle) /\ Fixed /\ Unmarked

\* Fault: a request is dropped when its time is not over yet.
SweepEarly(t) ==
  LET c == call[t]
      old == slots[c.at].valid /\ c.req.time - slots[c.at].req.time >= Timeout
  IN  /\ Is(t, "clean")
      /\ \/ old /\ Becomes(t, [c EXCEPT !.op = "drop"])
         \/ ~old /\ (NextSlot(t) \/ (LastSlot(t) /\ Becomes(t, Idle)))
      /\ Unwritten /\ Fixed /\ Unmarked

\* cleanup_timeout_requests; the clock was read when it began.
Sweep(t) ==
  LET c == call[t]
      old == slots[c.at].valid /\ c.req.time - slots[c.at].req.time > Timeout
  IN  /\ Is(t, "clean")
      /\ \/ old /\ Becomes(t, [c EXCEPT !.op = "drop"])
         \/ ~old /\ (NextSlot(t) \/ (LastSlot(t) /\ Becomes(t, Idle)))
      /\ Unwritten /\ Fixed /\ Unmarked

Drop(t) ==
  /\ Is(t, "drop")
  /\ \/ call[t].at < MaxPending /\ Clear(t, call[t].at, [call[t] EXCEPT !.op = "clean", !.at = @ + 1])
     \/ LastSlot(t) /\ Clear(t, call[t].at, Idle)
  /\ Fixed /\ Unmarked

Second ==
  /\ clock < MaxClock /\ clock' = clock + 1 /\ expected' = None
  /\ UNCHANGED <<lineup, call>> /\ Unwritten /\ Unmarked

RaceNext ==
  \/ \E t \in Threads :
       \/ \E job \in Jobs[lineup] : Begin(t, job)
       \/ Same(t) \/ Free(t) \/ Put(t) \/ Shift(t)
       \/ Look(t) \/ Twin(t) \/ Retire(t) \/ Sweep(t) \/ Drop(t)
  \/ Second

RaceSpec == RaceInit /\ [][RaceNext]_raceVars

-----------------------------------------------------------------------------
(* Properties.                                                             *)

RaceTypeOK ==
  /\ lineup \in Lineups
  /\ slots \in [Slots -> [valid : BOOLEAN, req : Stamped]]
  /\ call \in [Threads -> Call]
  /\ clock \in Nat /\ crossed \in BOOLEAN /\ shifted \in BOOLEAN

\* Two requests compete for an answer only if two threads added that key at once
\* or the table was full.  A request is overwritten by one of another key, and an
\* answer meets one, only if two threads chose the same slot, or the table was
\* full, or another thread cleared the slot between the match and its use.
RacesExplained ==
  /\ RaceTypeOK
  /\ \A i, j \in Slots :
       i # j /\ slots[i].valid /\ HasKey(j, Key(slots[i].req)) => Key(slots[i].req) \in twins \/ shifted
  /\ \A t \in Threads :
       LET there == slots[call[t].at]
       IN  Is(t, "put") /\ there.valid /\ Key(there.req) # Key(call[t].req) => crossed \/ shifted
  /\ \A t \in Threads :
       Is(t, "use") /\ Key(slots[call[t].found].req) # Key(call[t].req)
         => crossed \/ shifted \/ call[t].lost

\* A call that runs alone, in one second, does to the table what PendingTable says.
AloneIsAtomic == (\A t \in Threads : call[t] = Idle) /\ expected # None => Table = expected
=============================================================================
