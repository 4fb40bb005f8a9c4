----------------------------- MODULE PendingTable -----------------------------
(***************************************************************************)
(* g_pending_requests of data.c: the requests seen or sent on the RS-485   *)
(* lines whose answers have not been seen yet.  The operators below are    *)
(* the C functions on the table, as functions of its contents.             *)
(*                                                                         *)
(* A slot holds a request or is None (is_valid = false; nothing reads the  *)
(* other fields of such a slot).  The timestamp is kept as the request's   *)
(* age in seconds; the table is only ever asked whether an age exceeds     *)
(* Timeout and which of two requests is younger.                           *)
(***************************************************************************)
EXTENDS Integers

CONSTANTS
  MaxPending,  \* MAX_PENDING_REQUESTS (10)
  Timeout,     \* seconds a request may wait before cleanup (1)
  None         \* the content of an unused slot

ASSUME MaxPendingAssumption == MaxPending \in Nat \ {0}
ASSUME TimeoutAssumption == Timeout \in Nat

Slots == 1..MaxPending

\* Fault: the channel is not compared.
KeyAnyChannel(r) == <<r.slave, r.func>>

\* What add_pending_request and match_response_with_request compare.
Key(r) == <<r.chan, r.slave, r.func>>

\* The slots the loops of data.c look for; each loop takes the first.
SameKey(t, k) == {i \in Slots : t[i] # None /\ Key(t[i]) = k}
FreeSlots(t) == {i \in Slots : t[i] = None}
First(S) == CHOOSE i \in S : \A j \in S : i <= j

\* memmove one slot down and put the new request last.
ShiftIn(t, r) == [i \in Slots |-> IF i = MaxPending THEN r ELSE t[i + 1]]

\* Fault: replacement is forgotten, only the search for a free slot is left.
AddAlways(t, r) ==
  IF FreeSlots(t) # {} THEN [t EXCEPT ![First(FreeSlots(t))] = r] ELSE ShiftIn(t, r)

\* add_pending_request: replace the request with the same channel, slave and
\* function, else take a free slot, else drop slot 1.
Add(t, r) ==
  LET same == SameKey(t, Key(r))
  IN  IF same # {} THEN [t EXCEPT ![First(same)] = r]
      ELSE IF FreeSlots(t) # {} THEN [t EXCEPT ![First(FreeSlots(t))] = r]
      ELSE ShiftIn(t, r)

\* Fault: the comparison of cleanup is inverted.
CleanupYoung(t) ==
  [i \in Slots |-> IF t[i] # None /\ t[i].age <= Timeout THEN None ELSE t[i]]

\* cleanup_timeout_requests.
Cleanup(t) ==
  [i \in Slots |-> IF t[i] # None /\ t[i].age > Timeout THEN None ELSE t[i]]

\* A second passes.  Ages saturate just above Timeout.
Older(t) ==
  [i \in Slots |->
     IF t[i] # None /\ t[i].age <= Timeout THEN [t[i] EXCEPT !.age = @ + 1] ELSE t[i]]

\* match_response_with_request: the youngest request with the key, the first
\* of equally young ones.
Match(t, k) ==
  LET youngest == {i \in SameKey(t, k) : \A j \in SameKey(t, k) : t[i].age <= t[j].age}
  IN  First(youngest)

\* The search of the 0x05, 0x06 and 0x10 branches, which compares the
\* register as well.
SameWrite(t, k, reg) == {i \in SameKey(t, k) : t[i].reg = reg}

\* Fault: the matched request stays valid.
ReleaseNone(t, i) == t

\* is_valid := false.
Release(t, i) == [t EXCEPT ![i] = None]

-----------------------------------------------------------------------------
(* At most one request per channel, slave and function: what the           *)
(* replacement in add_pending_request is for.                              *)
Unique(t) == \A i, j \in Slots :
               t[i] # None /\ t[j] # None /\ Key(t[i]) = Key(t[j]) => i = j
=============================================================================
