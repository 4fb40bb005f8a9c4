------------------------------ MODULE SnifferProofs ------------------------------
(***************************************************************************)
(* Results about the pairing of requests and answers, for any number of    *)
(* channels, slaves and registers and any size of the table, and about the *)
(* table when its users are not kept apart, for any number of them.        *)
(***************************************************************************)
EXTENDS ModbusSniffer, PendingRace, WellFoundedInduction, FiniteSetTheorems, TLAPS

-----------------------------------------------------------------------------
(* What the operations on the pending requests preserve and provide, for   *)
(* every size of the table.                                                *)

\* A search that finds anything finds a first slot.
LEMMA FirstExists ==
  ASSUME NEW S \in SUBSET Slots, S # {}
  PROVE  First(S) \in S
<1>1. Slots \subseteq Nat
  BY MaxPendingAssumption DEF Slots
<1>2. PICK i \in S : \A j \in S : ~(<<j, i>> \in OpToRel(<, Nat))
  <2>1. S \subseteq Nat
    BY <1>1
  <2>2. IsWellFoundedOn(OpToRel(<, Nat), Nat)
    BY NatLessThanWellFounded
  <2> HIDE DEF Slots
  <2> QED BY <2>1, <2>2, WFMin
<1>3. \A j \in S : i <= j
  <2> TAKE j \in S
  <2>1. i \in Nat /\ j \in Nat
    BY <1>1
  <2>2. ~(j < i)
    BY <1>2, <2>1 DEF OpToRel
  <2> QED BY <2>1, <2>2
<1> QED BY <1>3 DEF First

\* What a table holds after add_pending_request: the request, and of the old
\* ones only requests with other keys, each in one slot as before.
LEMMA AddContents ==
  ASSUME NEW V, NEW t \in [Slots -> V], NEW r \in V, Unique(t)
  PROVE  /\ Add(t, r) \in [Slots -> V]
         /\ Unique(Add(t, r))
         /\ \E i \in Slots : Add(t, r)[i] = r
         /\ \A i \in Slots : Add(t, r)[i] \notin {r, None} =>
              /\ Key(Add(t, r)[i]) # Key(r)
              /\ \E j \in Slots : t[j] = Add(t, r)[i]
<1> DEFINE same == SameKey(t, Key(r))
<1>a. same \subseteq Slots /\ FreeSlots(t) \subseteq Slots
  BY DEF SameKey, FreeSlots
<1>1. CASE same # {}
  <2>1. First(same) \in same
    BY <1>1, <1>a, FirstExists
  <2>2. Add(t, r) = [t EXCEPT ![First(same)] = r]
    BY <1>1 DEF Add
  <2>3. \A i \in Slots : t[i] # None /\ Key(t[i]) = Key(r) => i = First(same)
    BY <2>1 DEF SameKey, Unique
  <2> QED BY <2>1, <2>2, <2>3, <1>a DEF Unique, SameKey
<1>2. CASE same = {} /\ FreeSlots(t) # {}
  <2>1. First(FreeSlots(t)) \in FreeSlots(t)
    BY <1>2, <1>a, FirstExists
  <2>2. Add(t, r) = [t EXCEPT ![First(FreeSlots(t))] = r]
    BY <1>2 DEF Add
  <2>3. \A i \in Slots : t[i] # None => Key(t[i]) # Key(r)
    BY <1>2 DEF SameKey
  <2> QED BY <2>1, <2>2, <2>3, <1>a DEF Unique
<1>3. CASE same = {} /\ FreeSlots(t) = {}
  <2>1. Add(t, r) = ShiftIn(t, r)
    BY <1>3 DEF Add
  <2>2. \A i \in Slots : t[i] # None => Key(t[i]) # Key(r)
    BY <1>3 DEF SameKey
  <2>3. MaxPending \in Slots /\ \A i \in Slots : i # MaxPending => i + 1 \in Slots
    BY MaxPendingAssumption DEF Slots
  <2>4. \A i \in Slots : ShiftIn(t, r)[i] = IF i = MaxPending THEN r ELSE t[i + 1]
    BY DEF ShiftIn
  <2>5. ShiftIn(t, r) \in [Slots -> V]
    BY <2>3 DEF ShiftIn
  <2>6. Unique(ShiftIn(t, r))
    <3> SUFFICES ASSUME NEW i \in Slots, NEW j \in Slots,
                        ShiftIn(t, r)[i] # None, ShiftIn(t, r)[j] # None,
                        Key(ShiftIn(t, r)[i]) = Key(ShiftIn(t, r)[j])
                 PROVE  i = j
      BY DEF Unique
    <3>1. CASE i # MaxPending /\ j # MaxPending
      <4>1. i + 1 = j + 1
        BY <3>1, <2>3, <2>4 DEF Unique
      <4> QED BY <4>1, MaxPendingAssumption DEF Slots
    <3>2. CASE i = MaxPending \/ j = MaxPending
      BY <3>2, <2>2, <2>3, <2>4
    <3> QED BY <3>1, <3>2
  <2> QED BY <2>1, <2>2, <2>3, <2>4, <2>5, <2>6
<1> QED BY <1>1, <1>2, <1>3

\* A request that is not the one replaced stays, unless the table was full.
LEMMA AddKeeps ==
  ASSUME NEW V, NEW t \in [Slots -> V], NEW r \in V, Unique(t),
         NEW i \in Slots, t[i] # None, Key(t[i]) # Key(r),
         SameKey(t, Key(r)) # {} \/ FreeSlots(t) # {}
  PROVE  Add(t, r)[i] = t[i]
<1>1. SameKey(t, Key(r)) \subseteq Slots /\ FreeSlots(t) \subseteq Slots
  BY DEF SameKey, FreeSlots
<1>2. CASE SameKey(t, Key(r)) # {}
  <2>1. First(SameKey(t, Key(r))) \in SameKey(t, Key(r))
    BY <1>1, <1>2, FirstExists
  <2> QED BY <1>2, <2>1 DEF Add, SameKey
<1>3. CASE SameKey(t, Key(r)) = {} /\ FreeSlots(t) # {}
  <2>1. First(FreeSlots(t)) \in FreeSlots(t)
    BY <1>1, <1>3, FirstExists
  <2> QED BY <1>3, <2>1 DEF Add, FreeSlots
<1> QED BY <1>2, <1>3

LEMMA ReleaseContents ==
  ASSUME NEW V, NEW t \in [Slots -> V], None \in V, Unique(t), NEW i \in Slots
  PROVE  /\ Release(t, i) \in [Slots -> V]
         /\ Unique(Release(t, i))
         /\ Release(t, i)[i] = None
         /\ \A j \in Slots : Release(t, i)[j] # None => j # i /\ Release(t, i)[j] = t[j]
BY DEF Release, Unique

LEMMA CleanupContents ==
  ASSUME NEW V, NEW t \in [Slots -> V], None \in V, Unique(t)
  PROVE  /\ Cleanup(t) \in [Slots -> V]
         /\ Unique(Cleanup(t))
         /\ \A i \in Slots : Cleanup(t)[i] # None => Cleanup(t)[i] = t[i]
         /\ \A i \in Slots : t[i] # None /\ ~(t[i].age > Timeout) => Cleanup(t)[i] = t[i]
BY DEF Cleanup, Unique

-----------------------------------------------------------------------------
(* The sniffer.                                                            *)

NoRivals == Unique(table)
Tables == [Slots -> Request \cup {None}]
FiledOK == \A f \in filed : f.slave \in Slaves /\ f.func \in Functions /\ f.reg \in Nat

USE DEF IsWrite, WriteOne, WriteMany, ReadCoils

LEMMA NewRequestTyped ==
  ASSUME NEW x \in Transaction, NEW r \in Registers \cup {JunkRegister}, NEW n \in Count
  PROVE  /\ NewRequest(x, r, n) \in Request
         /\ Key(NewRequest(x, r, n)) = Key(x)
         /\ NewRequest(x, r, n).reg = r
         /\ NewRequest(x, r, n).count = n
BY TimeoutAssumption DEF NewRequest, Request, Transaction, Key

\* A frame can enter one request and retire one; whatever else the table
\* holds afterwards it held before.
LEMMA EnterEffect ==
  ASSUME TypeOK, NoRivals, NEW x \in Transaction,
         NEW r \in Registers \cup {JunkRegister}, NEW n \in Count,
         table' = Add(table, NewRequest(x, r, n))
  PROVE  /\ table' \in Tables
         /\ NoRivals'
         /\ \A i \in Slots : table'[i] # None /\ Key(table'[i]) # Key(x) =>
              \E j \in Slots : table[j] = table'[i]
         /\ \A i \in Slots : table'[i] # None /\ Key(table'[i]) = Key(x) =>
              table'[i].reg = r /\ table'[i].count = n
<1> DEFINE q == NewRequest(x, r, n)
<1>1. q \in Request \cup {None} /\ Key(q) = Key(x) /\ q.reg = r /\ q.count = n
  BY NewRequestTyped
<1>2. table \in Tables /\ Unique(table)
  BY DEF TypeOK, NoRivals, Tables
<1>3. /\ table' \in Tables
      /\ Unique(table')
      /\ \A i \in Slots : table'[i] \notin {q, None} =>
           Key(table'[i]) # Key(q) /\ \E j \in Slots : table[j] = table'[i]
  <2> HIDE DEF q
  <2> DEFINE V == Request \cup {None}
  <2>1. table \in [Slots -> V] /\ q \in V
    BY <1>1, <1>2 DEF Tables
  <2> HIDE DEF V
  <2>2. /\ Add(table, q) \in [Slots -> V]
        /\ Unique(Add(table, q))
        /\ \A i \in Slots : Add(table, q)[i] \notin {q, None} =>
              /\ Key(Add(table, q)[i]) # Key(q)
              /\ \E j \in Slots : table[j] = Add(table, q)[i]
    BY <2>1, <1>2, AddContents, SMTT(30)
  <2>3. table' = Add(table, q)
    BY DEF q
  <2> QED BY <2>2, <2>3 DEF V, Tables
<1> HIDE DEF q
<1> QED BY <1>1, <1>3 DEF NoRivals

LEMMA RetireEffect ==
  ASSUME TypeOK, NoRivals, NEW i \in Slots, table' = Release(table, i)
  PROVE  /\ table' \in Tables
         /\ NoRivals'
         /\ \A j \in Slots : table'[j] # None => j # i /\ table'[j] = table[j]
BY ReleaseContents DEF TypeOK, NoRivals, Tables, Release, Unique

\* match_response_with_request returns a request with the key.
LEMMA MatchFinds ==
  ASSUME TypeOK, NoRivals, NEW k, SameKey(table, k) # {}
  PROVE  Match(table, k) \in SameKey(table, k)
<1>1. PICK i \in SameKey(table, k) : SameKey(table, k) = {i}
  BY DEF SameKey, NoRivals, Unique
<1>2. table[i].age \in Int
  BY <1>1, TimeoutAssumption DEF TypeOK, SameKey, Request
<1>3. {j \in SameKey(table, k) : \A l \in SameKey(table, k) : table[j].age <= table[l].age} = {i}
  BY <1>1, <1>2
<1>4. {i} \in SUBSET Slots
  BY DEF SameKey
<1> QED BY <1>1, <1>3, <1>4, FirstExists DEF Match

LEMMA TwinsFound ==
  ASSUME NEW k, NEW r, SameWrite(table, k, r) # {}
  PROVE  First(SameWrite(table, k, r)) \in SameWrite(table, k, r)
BY FirstExists DEF SameWrite, SameKey

LEMMA FilingsTyped ==
  ASSUME NEW x \in Transaction, NEW r \in Nat, NEW n \in Nat, NEW V,
         NEW data \in [0..(n - 1) -> V], filed' = Filings(x, r, data)
  PROVE  FiledOK'
<1>1. \A i \in DOMAIN data : r + i \in Nat
  OBVIOUS
<1> QED BY <1>1 DEF Filings, FiledOK, Transaction

\* The handler as a whole.
LEMMA FrameEffect ==
  ASSUME TypeOK, NoRivals, NEW x \in Transaction, OnRequest(x) \/ OnAnswer(x)
  PROVE  /\ table' \in Tables
         /\ NoRivals'
         /\ FiledOK'
         /\ \A i \in Slots : table'[i] # None /\ Key(table'[i]) # Key(x) =>
              \E j \in Slots : table[j] = table'[i]
<1>t. /\ x.reg \in Registers \cup {JunkRegister} /\ x.count \in Count /\ x.reg \in Nat
      /\ JunkRegister \in Nat /\ MaxCount \in Count /\ x.count \in Nat /\ 1 \in Count
  <2>1. x.reg \in Registers /\ x.count \in Count
    BY DEF Transaction
  <2>2. \A k \in Count : k \in Nat
    BY CountAssumption DEF Count
  <2>3. MaxCount \in Count /\ 1 \in Count
    BY CountAssumption DEF Count
  <2>4. x.reg \in Nat
    BY <2>1, RegistersAssumption
  <2>5. JunkRegister \in Nat
    BY DEF JunkRegister
  <2> QED BY <2>1, <2>2, <2>3, <2>4, <2>5
<1>d. Data(x) \in [0..(x.count - 1) -> {Datum(x, i) : i \in 0..(x.count - 1)}]
  BY DEF Data
<1>1. CASE OnReadRequest(x)
  BY <1>1, <1>t, EnterEffect DEF OnReadRequest, FiledOK
<1>2. CASE OnReadAnswer(x)
  <2>1. CASE LooksLikeRequest(x) /\ table' = Add(table, NewRequest(x, JunkRegister, MaxCount)) /\ filed' = {}
    BY <2>1, <1>t, EnterEffect DEF FiledOK
  <2>2. CASE UNCHANGED table /\ filed' = {}
    BY <2>2 DEF FiledOK, TypeOK, NoRivals, Tables
  <2>3. CASE ~LooksLikeRequest(x) /\ SameKey(table, Key(x)) # {}
    <3> DEFINE m == Match(table, Key(x))
               n == IF x.func = ReadCoils THEN table[m].count ELSE x.count
               data == [i \in 0..(n - 1) |-> IF i < x.count THEN Datum(x, i) ELSE Junk]
    <3>1. m \in SameKey(table, Key(x)) /\ m \in Slots
      BY <2>3, MatchFinds DEF SameKey
    <3>2. table[m] \in Request
      BY <3>1 DEF SameKey, TypeOK
    <3>3. table[m].reg \in Nat /\ n \in Nat
      <4> HIDE DEF m
      <4>1. table[m].reg \in Nat
        <5>1. table[m].reg \in Registers \cup {JunkRegister}
          BY <3>2 DEF Request
        <5> QED BY <5>1, <1>t, RegistersAssumption
      <4>2. table[m].count \in Nat
        BY <3>2, CountAssumption DEF Request, Count
      <4> QED BY <4>1, <4>2, <1>t
    <3>4. table' = Release(table, m) /\ filed' \in {{}, Filings(x, table[m].reg, data)}
      BY <1>2, <2>3 DEF OnReadAnswer
    <3>5. FiledOK'
      <4>1. data \in [0..(n - 1) -> {Datum(x, i) : i \in 0..(n - 1)} \cup {Junk}]
        OBVIOUS
      <4> HIDE DEF data, n, m
      <4>2. CASE filed' = {}
        BY <4>2 DEF FiledOK
      <4>3. CASE filed' = Filings(x, table[m].reg, data)
        BY <4>1, <4>3, <3>3, FilingsTyped
      <4> QED BY <4>2, <4>3, <3>4
    <3> HIDE DEF m, data, n
    <3> QED BY <3>1, <3>4, <3>5, RetireEffect
  <2> QED BY <1>2, <2>1, <2>2, <2>3 DEF OnReadAnswer
<1>3. CASE OnWriteOne(x)
  <2>1. CASE SameWrite(table, Key(x), x.reg) # {}
    <3> DEFINE i == First(SameWrite(table, Key(x), x.reg))
    <3>1. i \in Slots
      BY <2>1, TwinsFound DEF SameWrite, SameKey
    <3>2. table' = Release(table, i) /\ filed' = Filings(x, x.reg, Data(x))
      BY <1>3, <2>1 DEF OnWriteOne
    <3>3. FiledOK'
      BY <3>2, <1>t, <1>d, FilingsTyped
    <3> HIDE DEF i
    <3> QED BY <3>1, <3>2, <3>3, RetireEffect
  <2>2. CASE SameWrite(table, Key(x), x.reg) = {}
    BY <1>3, <2>2, <1>t, EnterEffect DEF OnWriteOne, FiledOK
  <2> QED BY <2>1, <2>2
<1>4. CASE OnWriteManyRequest(x)
  <2>1. FiledOK'
    BY <1>4, <1>t, <1>d, FilingsTyped DEF OnWriteManyRequest
  <2> QED BY <1>4, <2>1, <1>t, EnterEffect DEF OnWriteManyRequest
<1>5. CASE OnWriteManyAnswer(x)
  <2>1. CASE SameWrite(table, Key(x), x.reg) # {}
    <3> DEFINE i == First(SameWrite(table, Key(x), x.reg))
    <3>1. i \in Slots
      BY <2>1, TwinsFound DEF SameWrite, SameKey
    <3>2. table' = Release(table, i) /\ filed' = {}
      BY <1>5, <2>1 DEF OnWriteManyAnswer
    <3> HIDE DEF i
    <3> QED BY <3>1, <3>2, RetireEffect DEF FiledOK
  <2>2. CASE SameWrite(table, Key(x), x.reg) = {}
    BY <1>5, <2>2 DEF OnWriteManyAnswer, FiledOK, TypeOK, NoRivals, Tables
  <2> QED BY <2>1, <2>2
<1> QED BY <1>1, <1>2, <1>3, <1>4, <1>5 DEF OnRequest, OnAnswer

-----------------------------------------------------------------------------
(* Types and uniqueness, whatever the faults.                              *)

SInv == TypeOK /\ NoRivals

\* Cleanup and ageing: requests only disappear or grow older.
LEMMA TimeEffect ==
  ASSUME TypeOK, NoRivals, table' \in {Cleanup(table), Older(table)}
  PROVE  /\ table' \in Tables
         /\ NoRivals'
         /\ \A i \in Slots : table'[i] # None =>
              /\ table[i] # None /\ Key(table'[i]) = Key(table[i])
              /\ table'[i].reg = table[i].reg /\ table'[i].count = table[i].count
<1>1. CASE table' = Cleanup(table)
  BY <1>1 DEF Cleanup, TypeOK, NoRivals, Unique, Tables
<1>2. CASE table' = Older(table)
  <2>1. \A i \in Slots : \/ table'[i] = table[i]
                         \/ /\ table[i] \in Request /\ table[i] # None /\ table[i].age <= Timeout
                            /\ table'[i] = [table[i] EXCEPT !.age = @ + 1]
    BY <1>2 DEF Older, TypeOK
  <2>2. \A r \in Request : r.age <= Timeout =>
          LET o == [r EXCEPT !.age = @ + 1]
          IN  /\ o \in Request /\ Key(o) = Key(r) /\ o.reg = r.reg /\ o.count = r.count
    BY TimeoutAssumption DEF Request, Key
  <2>3. DOMAIN table' = Slots /\ table' = [i \in Slots |-> table'[i]]
    BY <1>2 DEF Older
  <2>4. table' \in Tables
    BY <2>1, <2>2, <2>3 DEF Tables, TypeOK
  <2>5. \A i \in Slots : table'[i] # None =>
              /\ table[i] # None /\ Key(table'[i]) = Key(table[i])
              /\ table'[i].reg = table[i].reg /\ table'[i].count = table[i].count
    BY <2>1, <2>2
  <2>6. NoRivals'
    BY <2>5 DEF NoRivals, Unique
  <2> QED BY <2>4, <2>5, <2>6
<1> QED BY <1>1, <1>2

LEMMA InitSInv == Init => SInv
<1> SUFFICES ASSUME Init PROVE SInv
  OBVIOUS
<1>1. TypeOK
  BY MaxWritesAssumption DEF Init, TypeOK
<1>2. NoRivals
  BY DEF Init, NoRivals, Unique
<1> QED BY <1>1, <1>2 DEF SInv

\* A step is a frame of some transaction, or leaves the handler alone.
FrameOrNot(x) == \/ OnRequest(x) \/ OnAnswer(x)
                 \/ UNCHANGED <<table, filed, fan>>

LEMMA FrameOrNotSInv ==
  ASSUME SInv, NEW x \in Transaction, FrameOrNot(x)
  PROVE  table' \in Tables /\ NoRivals' /\ FiledOK'
<1>1. CASE OnRequest(x) \/ OnAnswer(x)
  BY <1>1, FrameEffect DEF SInv
<1>2. CASE UNCHANGED <<table, filed, fan>>
  BY <1>2 DEF SInv, TypeOK, NoRivals, FiledOK, Tables
<1> QED BY <1>1, <1>2 DEF FrameOrNot

LEMMA AskTypes ==
  ASSUME TypeOK, NEW x \in Transaction, Ask(x)
  PROVE  /\ owed' \in [Channels -> Transaction \cup {None}]
         /\ late' \in [Channels -> SUBSET Transaction]
         /\ writes' \in 0..MaxWrites
         /\ echoed' \in SUBSET (1..MaxWrites)
<1>1. writes' \in 0..MaxWrites
  BY MaxWritesAssumption DEF Ask, TypeOK, Transaction
<1> QED BY <1>1 DEF Ask, TypeOK

LEMMA AnswerTypes ==
  ASSUME TypeOK, NEW c \in Channels, Answer(c)
  PROVE  /\ owed[c] \in Transaction
         /\ owed' \in [Channels -> Transaction \cup {None}]
         /\ late' \in [Channels -> SUBSET Transaction]
         /\ writes' \in 0..MaxWrites
         /\ echoed' \in SUBSET (1..MaxWrites)
<1>1. owed[c] \in Transaction
  BY DEF Answer, TypeOK
<1>2. owed[c].write \in {0} \cup 1..MaxWrites
  BY <1>1, MaxWritesAssumption DEF Transaction
<1> QED BY <1>1, <1>2 DEF Answer, TypeOK

LEMMA SiteFixed == [Next]_vars => site' = site
  BY DEF Next, vars, AskSeen, AskUnseen, Ask, AnswerSeen, AnswerUnseen, Answer,
         Silent, GiveUp, LateAnswer, CleanupStep, Tick

LEMMA NextSInv == SInv /\ [Next]_vars => SInv'
<1> SUFFICES ASSUME SInv, [Next]_vars PROVE SInv'
  OBVIOUS
<1>t. TypeOK /\ NoRivals /\ Asks[site] \subseteq Transaction
  BY SitesAssumption DEF SInv, TypeOK
<1>1. ASSUME NEW x \in Asks[site], AskSeen(x) \/ AskUnseen(x) PROVE SInv'
  <2>1. Ask(x) /\ FrameOrNot(x) /\ x \in Transaction /\ site' = site
    BY <1>1, <1>t DEF Ask, AskSeen, AskUnseen, FrameOrNot
  <2>2. table' \in Tables /\ NoRivals' /\ FiledOK'
    BY <2>1, FrameOrNotSInv
  <2> QED BY <2>1, <2>2, <1>t, AskTypes DEF SInv, TypeOK, Tables, FiledOK
<1>2. ASSUME NEW c \in Channels, AnswerSeen(c) \/ AnswerUnseen(c) PROVE SInv'
  <2>1. Answer(c) /\ FrameOrNot(owed[c]) /\ site' = site
    BY <1>2 DEF Answer, AnswerSeen, AnswerUnseen, FrameOrNot
  <2>2. owed[c] \in Transaction
    BY <2>1, <1>t, AnswerTypes
  <2>3. table' \in Tables /\ NoRivals' /\ FiledOK'
    BY <2>1, <2>2, FrameOrNotSInv
  <2> QED BY <2>1, <2>3, <1>t, AnswerTypes DEF SInv, TypeOK, Tables, FiledOK
<1>3. ASSUME NEW c \in Channels, Silent(c) \/ GiveUp(c) PROVE SInv'
  <2>1. UNCHANGED <<site, table, filed, fan, writes, echoed>>
    BY <1>3 DEF Silent, GiveUp
  <2>2. owed' \in [Channels -> Transaction \cup {None}]
    BY <1>3, <1>t DEF Silent, GiveUp, TypeOK
  <2>3. late' \in [Channels -> SUBSET Transaction]
    BY <1>3, <1>t DEF Silent, GiveUp, TypeOK
  <2> QED BY <2>1, <2>2, <2>3, <1>t DEF SInv, TypeOK, NoRivals
<1>4. ASSUME NEW c \in Channels, NEW x \in late[c], LateAnswer(c, x) PROVE SInv'
  <2>0. x \in Transaction
    BY <1>t DEF TypeOK
  <2>1. table' \in Tables /\ NoRivals' /\ FiledOK'
    BY <2>0, <1>4, FrameOrNotSInv DEF LateAnswer, FrameOrNot
  <2>2. x.write \in {0} \cup 1..MaxWrites
    BY <2>0, MaxWritesAssumption DEF Transaction
  <2> QED BY <1>4, <2>0, <2>1, <2>2, <1>t DEF LateAnswer, SInv, TypeOK, Tables, FiledOK
<1>5. CASE CleanupStep \/ Tick
  <2>1. table' \in Tables /\ NoRivals'
    BY <1>5, <1>t, TimeEffect DEF CleanupStep, Tick
  <2>2. UNCHANGED <<site, owed, late, filed, fan, writes, echoed>>
    BY <1>5 DEF CleanupStep, Tick
  <2> QED BY <2>1, <2>2, <1>t DEF SInv, TypeOK, Tables
<1>6. CASE UNCHANGED vars
  BY <1>6, <1>t DEF vars, SInv, TypeOK, NoRivals
<1> QED BY <1>1, <1>2, <1>3, <1>4, <1>5, <1>6 DEF Next

\* add_pending_request, cleanup and the matching keep at most one request per
\* channel, slave and function, and all of them well-formed, under every
\* combination of faults.
THEOREM NoRivalRequests == Spec => []PendingUnique
<1>1. SInv => PendingUnique
  BY DEF SInv, NoRivals, PendingUnique
<1> QED BY InitSInv, NextSInv, <1>1, PTL DEF Spec

-----------------------------------------------------------------------------
(* Attribution of reads, on lines where no read request escapes the        *)
(* gateway and no answer outlives its master's patience.                   *)

\* What is owed on a channel belongs to it, and reads carry no write.
OwedKinds ==
  \A c \in Channels : owed[c] # None =>
    owed[c].chan = c /\ (~IsWrite(owed[c].func) => owed[c].write = 0)

\* A pending request with the key of an owed read is that read's.
ReadsMatch ==
  \A c \in Channels, i \in Slots :
    /\ owed[c] # None /\ ~IsWrite(owed[c].func)
    /\ table[i] # None /\ Key(table[i]) = Key(owed[c])
    => table[i].reg = owed[c].reg /\ table[i].count = owed[c].count

RInv == SInv /\ OwedKinds /\ ReadsMatch /\ Attributed /\ \A c \in Channels : late[c] = {}

LEMMA InitRInv == Init => RInv
<1>1. Init => OwedKinds /\ ReadsMatch /\ Attributed /\ \A c \in Channels : late[c] = {}
  BY DEF Init, OwedKinds, ReadsMatch, Attributed
<1> QED BY <1>1, InitSInv DEF RInv

\* Reading of one channel says nothing of the requests of another.
LEMMA OtherChannelsMatch ==
  ASSUME RInv, NEW x \in Transaction, FrameOrNot(x), NEW d \in Channels,
         d # x.chan, owed'[d] = owed[d], NEW i \in Slots,
         owed'[d] # None, ~IsWrite(owed'[d].func),
         table'[i] # None, Key(table'[i]) = Key(owed'[d])
  PROVE  table'[i].reg = owed'[d].reg /\ table'[i].count = owed'[d].count
<1>1. Key(table'[i]) # Key(x)
  BY DEF RInv, OwedKinds, Key
<1>2. \E j \in Slots : table[j] = table'[i]
  <2>1. CASE OnRequest(x) \/ OnAnswer(x)
    BY <2>1, <1>1, FrameEffect DEF RInv, SInv
  <2>2. CASE UNCHANGED table
    BY <2>2
  <2> QED BY <2>1, <2>2 DEF FrameOrNot
<1> QED BY <1>2 DEF RInv, ReadsMatch

\* Requests file reads nothing wrong: only a write's echo files anything.
LEMMA RequestFilesNoReads ==
  ASSUME RInv, NEW x \in Transaction, FrameOrNot(x), IsWrite(x.func) \/ OnRequest(x) \/ UNCHANGED <<filed, fan>>
  PROVE  Attributed'
<1>1. CASE UNCHANGED <<filed, fan>>
  BY <1>1 DEF RInv, Attributed
<1>2. CASE fan' = fan /\ filed' = {}
  BY <1>2 DEF RInv, Attributed
<1>3. CASE fan' = fan /\ IsWrite(x.func) /\ filed' = Filings(x, x.reg, Data(x))
  BY <1>3 DEF RInv, Attributed, Filings
<1>4. CASE OnRequest(x)
  BY <1>4, <1>1, <1>2, <1>3 DEF OnRequest, OnReadRequest, OnWriteOne, OnWriteManyRequest
<1>5. CASE OnAnswer(x) /\ IsWrite(x.func)
  BY <1>5, <1>1, <1>2, <1>3 DEF OnAnswer, OnWriteOne, OnWriteManyAnswer
<1> QED BY <1>1, <1>4, <1>5 DEF FrameOrNot

\* The answer to an owed read files what it read, where it was read.
LEMMA AnswerFilesItsReads ==
  ASSUME RInv, NEW c \in Channels, owed[c] # None, ~IsWrite(owed[c].func),
         OnReadAnswer(owed[c])
  PROVE  Attributed'
<1> DEFINE x == owed[c]
           m == Match(table, Key(x))
           n == IF x.func = ReadCoils THEN table[m].count ELSE x.count
           data == [i \in 0..(n - 1) |-> IF i < x.count THEN Datum(x, i) ELSE Junk]
<1>1. x \in Transaction /\ x.write = 0 /\ x.count \in Nat /\ x.reg \in Nat
  <2>1. x \in Transaction
    BY DEF RInv, SInv, TypeOK
  <2>2. x.write = 0
    BY DEF RInv, OwedKinds
  <2> HIDE DEF x
  <2>3. x.count \in Nat
    BY <2>1, CountAssumption DEF Transaction, Count
  <2>4. x.reg \in Nat
    BY <2>1, RegistersAssumption DEF Transaction
  <2> QED BY <2>1, <2>2, <2>3, <2>4
<1>2. CASE fan' = fan /\ filed' = {}
  BY <1>2 DEF RInv, Attributed
<1>3. CASE ~LooksLikeRequest(x) /\ SameKey(table, Key(x)) # {}
  <2>1. m \in SameKey(table, Key(x))
    BY <1>3, MatchFinds DEF RInv, SInv
  <2>2. table[m].reg = x.reg /\ table[m].count = x.count
    BY <2>1 DEF RInv, ReadsMatch, SameKey
  <2>3. n = x.count
    BY <2>2
  <2>4. DOMAIN data = 0..(x.count - 1) /\ \A i \in 0..(x.count - 1) : data[i] = ReadFrom(x.slave, x.reg + i)
    <3> HIDE DEF n
    <3>1. data = [i \in 0..(x.count - 1) |-> IF i < x.count THEN Datum(x, i) ELSE Junk]
      BY <2>3
    <3>2. \A i \in 0..(x.count - 1) : i < x.count
      BY <1>1
    <3> QED BY <3>1, <3>2, <1>1 DEF Datum
  <2> HIDE DEF n
  <2>5. CASE fan' = fan /\ filed' = Filings(x, table[m].reg, data)
    <3> HIDE DEF data, m
    <3>1. \A f \in filed' : f.value = ReadFrom(f.slave, f.reg)
      BY <2>2, <2>4, <2>5 DEF Filings
    <3> QED BY <2>5, <3>1 DEF Attributed, RInv
  <2>6. CASE x.slave = 1 /\ table[m].reg = 0 /\ table[m].count = 1 /\ fan' = data[0] /\ filed' = {}
    <3>1. 0 \in 0..(x.count - 1) /\ x.reg + 0 = 0
      BY <2>2, <2>6
    <3> HIDE DEF data, m
    <3>2. data[0] = ReadFrom(1, 0)
      BY <3>1, <2>4, <2>6
    <3> QED BY <2>6, <3>2 DEF Attributed
  <2> DEFINE isFan == /\ FanRead /\ x.func = ReadCoils /\ x.slave = 1
                      /\ table[m].reg = 0 /\ table[m].count = 1
  <2>7. /\ fan' = IF isFan THEN data[0] ELSE fan
        /\ filed' = IF isFan THEN {} ELSE Filings(x, table[m].reg, data)
    BY <1>3 DEF OnReadAnswer, n
  <2>8. CASE isFan
    <3>1. fan' = data[0] /\ filed' = {}
      BY <2>7, <2>8
    <3> HIDE DEF data, m
    <3> QED BY <3>1, <2>6, <2>8
  <2>9. CASE ~isFan
    <3> HIDE DEF data, m, isFan
    <3> QED BY <2>5, <2>7, <2>9
  <2> QED BY <2>8, <2>9
<1> HIDE DEF x, data, m, n
<1> QED BY <1>2, <1>3 DEF OnReadAnswer, x

LEMMA AskRInv ==
  ASSUME RInv, HeardInTime, NEW x \in Transaction, AskSeen(x) \/ AskUnseen(x), SInv'
  PROVE  RInv'
<1>1. /\ owed[x.chan] = None /\ owed' = [owed EXCEPT ![x.chan] = x]
      /\ x.write = IF IsWrite(x.func) THEN writes + 1 ELSE 0
      /\ late' = late /\ FrameOrNot(x)
  BY DEF AskSeen, AskUnseen, Ask, FrameOrNot
<1>2. x.chan \in Channels /\ DOMAIN owed = Channels
  BY DEF Transaction, RInv, SInv, TypeOK
<1>3. OwedKinds'
  BY <1>1, <1>2 DEF RInv, OwedKinds
<1>4. ReadsMatch'
  <2> SUFFICES ASSUME NEW d \in Channels, NEW i \in Slots,
                      owed'[d] # None, ~IsWrite(owed'[d].func),
                      table'[i] # None, Key(table'[i]) = Key(owed'[d])
               PROVE  table'[i].reg = owed'[d].reg /\ table'[i].count = owed'[d].count
    BY DEF ReadsMatch
  <2>1. CASE d # x.chan
    BY <2>1, <1>1, <1>2, OtherChannelsMatch
  <2>2. CASE d = x.chan
    <3>1. owed'[d] = x
      BY <2>2, <1>1, <1>2
    <3>2. AskSeen(x)
      BY <3>1 DEF AskUnseen, HeardInTime
    <3>3. table' = Add(table, NewRequest(x, x.reg, x.count))
      BY <3>1, <3>2 DEF AskSeen, OnRequest, OnReadRequest
    <3>4. x.reg \in Registers \cup {JunkRegister} /\ x.count \in Count
      BY DEF Transaction
    <3> QED BY <3>1, <3>3, <3>4, EnterEffect DEF RInv, SInv
  <2> QED BY <2>1, <2>2
<1>5. Attributed'
  BY <1>1, RequestFilesNoReads DEF AskSeen, AskUnseen
<1> QED BY <1>1, <1>3, <1>4, <1>5 DEF RInv

LEMMA AnswerRInv ==
  ASSUME RInv, NEW c \in Channels, AnswerSeen(c) \/ AnswerUnseen(c), SInv'
  PROVE  RInv'
<1>1. /\ owed[c] # None /\ owed' = [owed EXCEPT ![c] = None]
      /\ late' = late /\ FrameOrNot(owed[c])
  BY DEF AnswerSeen, AnswerUnseen, Answer, FrameOrNot
<1>2. owed[c] \in Transaction /\ owed[c].chan = c /\ DOMAIN owed = Channels
  BY <1>1 DEF RInv, SInv, TypeOK, OwedKinds
<1>3. OwedKinds'
  BY <1>1, <1>2 DEF RInv, OwedKinds
<1>4. ReadsMatch'
  BY <1>1, <1>2, OtherChannelsMatch DEF ReadsMatch
<1>5. Attributed'
  <2>1. CASE UNCHANGED <<filed, fan>> \/ IsWrite(owed[c].func)
    BY <2>1, <1>1, <1>2, RequestFilesNoReads
  <2>2. CASE ~IsWrite(owed[c].func) /\ OnAnswer(owed[c])
    <3>1. OnReadAnswer(owed[c])
      BY <2>2 DEF OnAnswer
    <3> QED BY <3>1, <2>2, <1>1, AnswerFilesItsReads
  <2> QED BY <2>1, <2>2 DEF AnswerSeen, AnswerUnseen
<1> QED BY <1>1, <1>3, <1>4, <1>5 DEF RInv

LEMMA NextRInv == HeardInTime /\ RInv /\ [Next]_vars => RInv'
<1> SUFFICES ASSUME HeardInTime, RInv, [Next]_vars PROVE RInv'
  OBVIOUS
<1>t. SInv'
  BY NextSInv DEF RInv
<1>1. ASSUME NEW x \in Asks[site], AskSeen(x) \/ AskUnseen(x) PROVE RInv'
  <2>1. x \in Transaction
    BY SitesAssumption DEF RInv, SInv, TypeOK
  <2> QED BY <2>1, <1>1, <1>t, AskRInv
<1>2. ASSUME NEW c \in Channels, AnswerSeen(c) \/ AnswerUnseen(c) PROVE RInv'
  BY <1>2, <1>t, AnswerRInv
<1>3. ASSUME NEW c \in Channels, Silent(c) PROVE RInv'
  <2>1. owed' = [owed EXCEPT ![c] = None] /\ UNCHANGED <<table, late, filed, fan>>
    BY <1>3 DEF Silent
  <2>2. \A d \in Channels : owed'[d] # None => owed'[d] = owed[d]
    BY <2>1 DEF RInv, SInv, TypeOK
  <2> QED BY <2>1, <2>2, <1>t DEF RInv, OwedKinds, ReadsMatch, Attributed
<1>4. ASSUME NEW c \in Channels PROVE ~GiveUp(c)
  BY DEF GiveUp, HeardInTime
<1>5. ASSUME NEW c \in Channels PROVE late[c] = {}
  BY DEF RInv
<1>6. CASE CleanupStep \/ Tick
  <2>1. UNCHANGED <<owed, late, filed, fan>>
    BY <1>6 DEF CleanupStep, Tick
  <2>2. \A i \in Slots : table'[i] # None =>
              /\ table[i] # None /\ Key(table'[i]) = Key(table[i])
              /\ table'[i].reg = table[i].reg /\ table'[i].count = table[i].count
    BY <1>6, TimeEffect DEF CleanupStep, Tick, RInv, SInv
  <2> QED BY <2>1, <2>2, <1>t DEF RInv, OwedKinds, ReadsMatch, Attributed
<1>7. CASE UNCHANGED vars
  BY <1>7, <1>t DEF vars, RInv, OwedKinds, ReadsMatch, Attributed
<1> QED BY <1>1, <1>2, <1>3, <1>4, <1>5, <1>6, <1>7 DEF Next

\* On lines where every read request is heard and no answer is late, a value
\* filed by a read was read from the slave and register it is filed under.
\* Slaves may be silent or slow, answers lost, writes unheard, the table full,
\* and coil answers mistaken for requests.
THEOREM ReadsAreAttributed == Spec => []ReadAttribution
<1> DEFINE HInv == HeardInTime => RInv
<1>1. Init => HInv
  BY InitRInv
<1>2. HInv /\ [Next]_vars => HInv'
  <2> SUFFICES ASSUME HInv, [Next]_vars, HeardInTime' PROVE RInv'
    OBVIOUS
  <2>1. HeardInTime
    BY SiteFixed DEF HeardInTime
  <2> QED BY <2>1, NextRInv
<1>3. HInv => ReadAttribution
  BY DEF RInv, ReadAttribution
<1> QED BY <1>1, <1>2, <1>3, PTL DEF Spec

\* No read of coils is answered in the three bytes that make a frame look like a
\* request; where one is, the answer is lost (run sniffer_coils).
NoRequestSizedCoils == \A s \in Sites : \A x \in Asks[s] : ~LooksLikeRequest(x)

OwedAsked == \A c \in Channels : owed[c] # None => owed[c] \in Asks[site]

LEMMA OwedAskedNext == TypeOK /\ OwedAsked /\ [Next]_vars => OwedAsked'
<1> SUFFICES ASSUME TypeOK, OwedAsked, [Next]_vars PROVE OwedAsked'
  OBVIOUS
<1>1. site' = site /\ owed \in [Channels -> Transaction \cup {None}]
  BY SiteFixed DEF TypeOK
<1>2. CASE owed' = owed
  BY <1>1, <1>2 DEF OwedAsked
<1>3. ASSUME NEW c \in Channels, owed' = [owed EXCEPT ![c] = None] PROVE OwedAsked'
  BY <1>1, <1>3 DEF OwedAsked
<1>4. ASSUME NEW x \in Asks[site], owed' = [owed EXCEPT ![x.chan] = x] PROVE OwedAsked'
  BY <1>1, <1>4 DEF OwedAsked
<1> QED
  BY <1>2, <1>3, <1>4 DEF Next, vars, AskSeen, AskUnseen, Ask, AnswerSeen, AnswerUnseen, Answer,
     Silent, GiveUp, LateAnswer, CleanupStep, Tick

LEMMA AnswerFilesAll ==
  ASSUME RInv, NEW c \in Channels, owed[c] # None, ~IsWrite(owed[c].func), OnReadAnswer(owed[c]),
         ~LooksLikeRequest(owed[c]), SameKey(table, Key(owed[c])) # {}
  PROVE  LET x == owed[c] IN
         \/ FanRead /\ x.count = 1 /\ fan' = ReadFrom(x.slave, x.reg)
         \/ \A i \in 0..(x.count - 1) :
              \E f \in filed' : f.reg = x.reg + i /\ f.value = ReadFrom(x.slave, x.reg + i)
<1> DEFINE x == owed[c]
           m == Match(table, Key(x))
           n == IF x.func = ReadCoils THEN table[m].count ELSE x.count
           data == [i \in 0..(n - 1) |-> IF i < x.count THEN Datum(x, i) ELSE Junk]
           isFan == /\ FanRead /\ x.func = ReadCoils /\ x.slave = 1
                    /\ table[m].reg = 0 /\ table[m].count = 1
<1>1. x \in Transaction /\ x.write = 0
  BY DEF RInv, SInv, TypeOK, OwedKinds
<1>2. m \in SameKey(table, Key(x))
  BY MatchFinds DEF RInv, SInv
<1>3. table[m].reg = x.reg /\ table[m].count = x.count
  BY <1>2 DEF RInv, ReadsMatch, SameKey
<1>4. /\ fan' = IF isFan THEN data[0] ELSE fan
      /\ filed' = IF isFan THEN {} ELSE Filings(x, table[m].reg, data)
  BY DEF OnReadAnswer, n
<1>5. n = x.count
  BY <1>3
<1> HIDE DEF x, m, n
<1>6. x.count \in Nat \ {0} /\ x.reg \in Nat
  <2>1. x.count \in Count /\ x.reg \in Registers
    BY <1>1 DEF Transaction
  <2>2. \A k \in Count : k \in Nat \ {0}
    BY CountAssumption DEF Count
  <2>3. x.reg \in Nat
    BY <2>1, RegistersAssumption
  <2> QED BY <2>1, <2>2, <2>3
<1>7. DOMAIN data = 0..(x.count - 1) /\ \A i \in 0..(x.count - 1) : data[i] = ReadFrom(x.slave, x.reg + i)
  <2>1. data = [i \in 0..(x.count - 1) |-> IF i < x.count THEN Datum(x, i) ELSE Junk]
    BY <1>5
  <2>2. \A i \in 0..(x.count - 1) : i < x.count
    BY <1>6
  <2> QED BY <2>1, <2>2, <1>1 DEF Datum
<1> HIDE DEF data
<1>8. CASE isFan
  <2>1. FanRead /\ x.count = 1 /\ fan' = data[0] /\ 0 \in 0..(x.count - 1) /\ x.reg + 0 = x.reg
    BY <1>3, <1>4, <1>6, <1>8
  <2>2. FanRead /\ x.count = 1 /\ fan' = ReadFrom(x.slave, x.reg)
    BY <1>7, <2>1
  <2> QED BY <2>2 DEF x
<1>9. CASE ~isFan
  <2>1. filed' = Filings(x, x.reg, data)
    BY <1>3, <1>4, <1>9
  <2>2. ASSUME NEW i \in 0..(x.count - 1)
        PROVE  \E f \in filed' : f.reg = x.reg + i /\ f.value = ReadFrom(x.slave, x.reg + i)
    <3> DEFINE f == [slave |-> x.slave, func |-> x.func, reg |-> x.reg + i, value |-> data[i]]
    <3>1. f \in filed'
      BY <1>7, <2>1, <2>2 DEF Filings
    <3>2. f.reg = x.reg + i /\ f.value = ReadFrom(x.slave, x.reg + i)
      BY <1>7, <2>2
    <3> QED BY <3>1, <3>2
  <2> QED BY <2>2 DEF x
<1> QED BY <1>8, <1>9

\* On such lines, the answer to a read whose request is pending is filed whole,
\* register by register, or is the fan's (parse_modbus_response).
THEOREM AnswersAreStored ==
  ASSUME NoRequestSizedCoils PROVE Spec => AnswerIsStored
<1> DEFINE HInv == SInv /\ OwedAsked /\ (HeardInTime => RInv)
<1>1. Init => HInv
  BY InitSInv, InitRInv DEF Init, OwedAsked
<1>2. HInv /\ [Next]_vars => HInv'
  <2> SUFFICES ASSUME HInv, [Next]_vars PROVE HInv'
    OBVIOUS
  <2>1. HeardInTime' => HeardInTime
    BY SiteFixed DEF HeardInTime
  <2> QED BY <2>1, NextSInv, NextRInv, OwedAskedNext DEF SInv
<1>3. ASSUME HInv, NEW c \in Channels, HeardInTime, AnswerSeen(c), ~IsWrite(owed[c].func),
             \E i \in SameKey(table, Key(owed[c])) : table[i].reg = owed[c].reg
      PROVE  LET x == owed[c] IN
             \/ FanRead /\ x.count = 1 /\ fan' = ReadFrom(x.slave, x.reg)
             \/ \A i \in 0..(x.count - 1) :
                  \E f \in filed' : f.reg = x.reg + i /\ f.value = ReadFrom(x.slave, x.reg + i)
  <2>1. owed[c] # None /\ OnReadAnswer(owed[c])
    BY <1>3 DEF AnswerSeen, Answer, OnAnswer, IsWrite
  <2>2. ~LooksLikeRequest(owed[c])
    BY <1>3, <2>1 DEF OwedAsked, NoRequestSizedCoils, SInv, TypeOK
  <2> QED BY <1>3, <2>1, <2>2, AnswerFilesAll
<1> HIDE DEF HInv
<1>4. HInv =>
        [\A c \in Channels :
           LET x == owed[c] IN
           /\ HeardInTime /\ AnswerSeen(c) /\ ~IsWrite(x.func)
           /\ \E i \in SameKey(table, Key(x)) : table[i].reg = x.reg
           => \/ FanRead /\ x.count = 1 /\ fan' = ReadFrom(x.slave, x.reg)
              \/ \A i \in 0..(x.count - 1) :
                   \E f \in filed' : f.reg = x.reg + i /\ f.value = ReadFrom(x.slave, x.reg + i)]_vars
  BY <1>3
<1> QED BY <1>1, <1>2, <1>4, PTL DEF Spec, AnswerIsStored

-----------------------------------------------------------------------------
(* Confirmation of writes, on lines without faults whose transactions all  *)
(* fit in the table.                                                       *)

RoomForAll == IsFiniteSet(Channels) /\ Cardinality(Channels) <= MaxPending

\* A write on a line has a number, which the slave echoes.
OwedWrites ==
  \A c \in Channels : owed[c] # None =>
    /\ owed[c].chan = c /\ owed[c] \in Asks[site]
    /\ IsWrite(owed[c].func) => owed[c].write # 0

Young == \A i \in Slots : table[i] # None => table[i].age <= Timeout

WInv == /\ SInv /\ OwedWrites /\ Young /\ Mirror /\ Confirmed
        /\ \A c \in Channels : late[c] = {}

LEMMA InitWInv == Init => WInv
<1>1. Init => OwedWrites /\ Young /\ Mirror /\ Confirmed /\ \A c \in Channels : late[c] = {}
  BY DEF Init, OwedWrites, Young, Mirror, Confirmed
<1> QED BY <1>1, InitSInv DEF WInv

\* While a channel owes nothing there is room: every pending request is owed
\* on a channel of its own.
LEMMA RoomForOne ==
  ASSUME WInv, RoomForAll, NEW c \in Channels, owed[c] = None
  PROVE  /\ FreeSlots(table) # {}
         /\ \A i \in Slots : table[i] # None => table[i].chan # c
<1>1. \A i \in Slots : table[i] # None =>
        /\ table[i].chan \in Channels /\ table[i].chan # c
        /\ owed[table[i].chan] # None /\ Key(owed[table[i].chan]) = Key(table[i])
  BY DEF WInv, SInv, TypeOK, Mirror, Request
<1>2. SUFFICES ASSUME FreeSlots(table) = {} PROVE FALSE
  BY <1>1
<1> DEFINE f == [i \in Slots |-> table[i].chan]
           T == Channels \ {c}
<1>3. \A i \in Slots : table[i] # None
  BY <1>2 DEF FreeSlots
<1>4. f \in [Slots -> T]
  BY <1>1, <1>3
<1>5. IsFiniteSet(Slots) /\ Cardinality(Slots) = MaxPending
  BY FS_Interval, MaxPendingAssumption DEF Slots
<1>6. IsFiniteSet(T) /\ Cardinality(T) = Cardinality(Channels) - 1
  BY FS_RemoveElement DEF RoomForAll
<1>7. Cardinality(T) < Cardinality(Slots)
  BY <1>5, <1>6, MaxPendingAssumption, FS_CardinalityType DEF RoomForAll
<1>8. \E i, j \in Slots : i # j /\ f[i] = f[j]
  <2> HIDE DEF f, T
  <2> QED BY <1>4, <1>5, <1>6, <1>7, FS_PigeonHole
<1>9. PICK i \in Slots, j \in Slots : i # j /\ table[i].chan = table[j].chan
  BY <1>8
<1>10. Key(table[i]) = Key(table[j])
  BY <1>1, <1>3, <1>9
<1> QED BY <1>3, <1>9, <1>10 DEF WInv, SInv, NoRivals, Unique

LEMMA AskWInv ==
  ASSUME WInv, FaultFree, RoomForAll, NEW x \in Transaction, x \in Asks[site], AskSeen(x) \/ AskUnseen(x), SInv'
  PROVE  WInv'
<1> DEFINE c == x.chan
           q == NewRequest(x, x.reg, x.count)
<1>1. AskSeen(x) /\ Ask(x) /\ OnRequest(x)
  BY DEF AskSeen, AskUnseen, FaultFree
<1>2. /\ owed[c] = None /\ owed' = [owed EXCEPT ![c] = x]
      /\ UNCHANGED <<site, late, echoed>>
      /\ IsWrite(x.func) => x.write = writes + 1
      /\ x.func \in WriteOne => x.count = 1
  BY <1>1 DEF Ask
<1>3. c \in Channels /\ x.reg \in Registers \cup {JunkRegister} /\ x.count \in Count /\ DOMAIN owed = Channels
  BY DEF Transaction, WInv, SInv, TypeOK
<1>4. /\ FreeSlots(table) # {}
      /\ \A i \in Slots : table[i] # None => Key(table[i]) # Key(x)
  BY <1>2, <1>3, RoomForOne DEF Key
<1>5. SameWrite(table, Key(x), x.reg) = {}
  BY <1>4 DEF SameWrite, SameKey
<1>6. table' = Add(table, q)
  BY <1>1, <1>2, <1>5 DEF OnRequest, OnReadRequest, OnWriteOne, OnWriteManyRequest
<1>7. \A f \in filed' : f.func \notin WriteOne
  BY <1>1, <1>5 DEF OnRequest, OnReadRequest, OnWriteOne, OnWriteManyRequest, Filings
<1>8. q \in Request /\ Key(q) = Key(x) /\ q.reg = x.reg /\ q.age = 0 /\ q.chan = c
  BY <1>3, NewRequestTyped DEF NewRequest
<1>9. /\ \A i \in Slots : table'[i] \notin {q, None} => \E j \in Slots : table[j] = table'[i]
      /\ \E i \in Slots : table'[i] = q
      /\ \A i \in Slots : table[i] # None => table'[i] = table[i]
  <2> DEFINE V == Request \cup {None}
  <2> HIDE DEF q
  <2>1. table \in [Slots -> V] /\ Unique(table) /\ q \in V
    BY <1>8 DEF WInv, SInv, TypeOK, NoRivals
  <2> HIDE DEF V
  <2>2. /\ Add(table, q) \in [Slots -> V]
        /\ Unique(Add(table, q))
        /\ \E i \in Slots : Add(table, q)[i] = q
        /\ \A i \in Slots : Add(table, q)[i] \notin {q, None} =>
             /\ Key(Add(table, q)[i]) # Key(q)
             /\ \E j \in Slots : table[j] = Add(table, q)[i]
    BY <2>1, AddContents, SMTT(30)
  <2>4. ASSUME NEW i \in Slots, table[i] # None PROVE Add(table, q)[i] = table[i]
    BY <2>1, <2>4, <1>4, <1>8, AddKeeps
  <2> QED BY <2>2, <2>4, <1>6
<1> HIDE DEF q
<1>10. q # None => q.age <= Timeout
  BY <1>8, TimeoutAssumption
<1>11. Young'
  BY <1>9, <1>10 DEF WInv, Young
<1>12. OwedWrites'
  <2>1. IsWrite(x.func) => x.write # 0
    BY <1>2, MaxWritesAssumption DEF WInv, SInv, TypeOK
  <2> QED BY <2>1, <1>2, <1>3 DEF WInv, OwedWrites
<1>13. Mirror'
  <2>1. ASSUME NEW i \in Slots, table'[i] # None
        PROVE  LET y == owed'[table'[i].chan]
               IN  y # None /\ Key(y) = Key(table'[i]) /\ y.reg = table'[i].reg
    <3>1. CASE table'[i] = q
      <4>1. x # None
        BY NoneAssumption
      <4> QED BY <3>1, <4>1, <1>2, <1>3, <1>8
    <3>2. CASE table'[i] # q
      <4>1. PICK j \in Slots : table[j] = table'[i]
        BY <3>2, <2>1, <1>9
      <4>2. table[j].chan # c
        BY <4>1, <2>1, <1>2, <1>3, RoomForOne
      <4> QED BY <4>1, <4>2, <2>1, <1>2 DEF WInv, Mirror
    <3> QED BY <3>1, <3>2
  <2>2. ASSUME NEW d \in Channels, owed'[d] # None
        PROVE  SameKey(table', Key(owed'[d])) # {}
    <3>1. CASE d = c
      BY <3>1, <1>2, <1>3, <1>8, <1>9, NoneAssumption DEF SameKey
    <3>2. CASE d # c
      <4>1. owed[d] = owed'[d]
        BY <3>2, <1>2
      <4>2. PICK i \in Slots : table[i] # None /\ Key(table[i]) = Key(owed[d])
        BY <4>1, <2>2 DEF WInv, Mirror, SameKey
      <4> QED BY <4>1, <4>2, <1>9 DEF SameKey
    <3> QED BY <3>1, <3>2
  <2> QED BY <2>1, <2>2 DEF Mirror
<1>14. Confirmed'
  BY <1>7 DEF Confirmed
<1> QED BY <1>2, <1>11, <1>12, <1>13, <1>14 DEF WInv

\* The answer retires exactly the request it belongs to, and files a single
\* write as carried out.
LEMMA AnswerWInv ==
  ASSUME WInv, FaultFree, NEW c \in Channels, AnswerSeen(c) \/ AnswerUnseen(c), SInv'
  PROVE  WInv'
<1> DEFINE x == owed[c]
<1>1. AnswerSeen(c) /\ Answer(c) /\ OnAnswer(x)
  BY DEF AnswerSeen, AnswerUnseen, FaultFree
<1>2. /\ x # None /\ owed' = [owed EXCEPT ![c] = None] /\ late' = late /\ site' = site
      /\ echoed' = echoed \cup ({x.write} \ {0})
  BY <1>1 DEF Answer
<1>3. x \in Transaction /\ x \in Asks[site] /\ x.chan = c /\ DOMAIN owed = Channels
  BY <1>2 DEF WInv, SInv, TypeOK, OwedWrites
<1>4. PICK i \in Slots : table[i] # None /\ Key(table[i]) = Key(x)
  BY <1>2 DEF WInv, Mirror, SameKey
<1>5. SameKey(table, Key(x)) = {i} /\ table[i].reg = x.reg /\ table[i].chan = c
  BY <1>3, <1>4 DEF WInv, SInv, NoRivals, Unique, Mirror, SameKey, Key
<1>6. SameWrite(table, Key(x), x.reg) = {i} /\ First(SameWrite(table, Key(x), x.reg)) = i
  <2>1. SameWrite(table, Key(x), x.reg) = {i}
    BY <1>5 DEF SameWrite
  <2> QED BY <2>1, TwinsFound
<1>7. Match(table, Key(x)) = i
  BY <1>5, MatchFinds DEF WInv, SInv
<1>8. table' = Release(table, i)
  BY <1>1, <1>3, <1>5, <1>6, <1>7 DEF OnAnswer, OnReadAnswer, OnWriteOne, OnWriteManyAnswer, FaultFree
<1>9. /\ \A j \in Slots : table'[j] # None => j # i /\ table'[j] = table[j]
      /\ \A j \in Slots : j # i => table'[j] = table[j]
  <2>1. \A j \in Slots : table'[j] = IF j = i THEN None ELSE table[j]
    BY <1>8 DEF Release, WInv, SInv, TypeOK
  <2> QED BY <2>1
<1>10. Confirmed'
  <2>1. CASE x.func \in WriteOne
    <3>1. filed' = Filings(x, x.reg, Data(x))
      BY <1>1, <1>6, <2>1 DEF OnAnswer, OnWriteOne
    <3>2. x.write # 0 /\ x.write \in echoed'
      BY <1>2, <2>1 DEF WInv, OwedWrites
    <3>3. \A f \in filed' : f.value.write = x.write
      BY <3>1, <3>2 DEF Filings, Data, Datum
    <3> QED BY <3>2, <3>3 DEF Confirmed
  <2>2. CASE x.func \notin WriteOne
    <3>1. \A f \in filed' : f.func \notin WriteOne
      BY <1>1, <1>5, <2>2 DEF OnAnswer, OnReadAnswer, OnWriteManyAnswer, Filings
    <3> QED BY <3>1 DEF Confirmed
  <2> QED BY <2>1, <2>2
<1>11. Young' /\ OwedWrites'
  BY <1>2, <1>3, <1>9 DEF WInv, Young, OwedWrites
<1>12. Mirror'
  <2>1. ASSUME NEW j \in Slots, table'[j] # None
        PROVE  LET y == owed'[table'[j].chan]
               IN  y # None /\ Key(y) = Key(table'[j]) /\ y.reg = table'[j].reg
    <3>1. table'[j] = table[j] /\ j # i /\ table[j] # None
      BY <2>1, <1>9
    <3>2. owed[table[j].chan] # None /\ Key(owed[table[j].chan]) = Key(table[j]) /\ owed[table[j].chan].reg = table[j].reg
      BY <3>1 DEF WInv, Mirror
    <3>3. table[j].chan # c
      BY <3>1, <3>2, <1>5 DEF SameKey
    <3> QED BY <3>1, <3>2, <3>3, <1>2
  <2>2. ASSUME NEW d \in Channels, owed'[d] # None
        PROVE  SameKey(table', Key(owed'[d])) # {}
    <3>1. d # c /\ owed'[d] = owed[d]
      BY <2>2, <1>2, <1>3
    <3>2. PICK j \in Slots : table[j] # None /\ Key(table[j]) = Key(owed[d])
      BY <3>1, <2>2 DEF WInv, Mirror, SameKey
    <3>3. j # i
      BY <3>1, <3>2, <2>2, <1>4, <1>3 DEF WInv, OwedWrites, Key
    <3> QED BY <3>1, <3>2, <3>3, <1>9 DEF SameKey
  <2> QED BY <2>1, <2>2 DEF Mirror
<1> QED BY <1>2, <1>10, <1>11, <1>12 DEF WInv

\* Cleanup takes nothing that is owed, since slaves answer in time.
LEMMA TimeWInv ==
  ASSUME WInv, FaultFree, CleanupStep \/ Tick, SInv'
  PROVE  WInv'
<1>1. UNCHANGED <<site, owed, late, filed, fan, writes, echoed>>
  BY DEF CleanupStep, Tick
<1>2. Confirmed' /\ OwedWrites'
  BY <1>1 DEF WInv, Confirmed, OwedWrites
<1>3. CASE CleanupStep
  <2>1. \A i \in Slots : table'[i] = table[i]
    <3>1. ASSUME NEW i \in Slots, table[i] # None PROVE ~(table[i].age > Timeout)
      <4>1. table[i].age <= Timeout /\ table[i].age \in Nat
        BY <3>1, TimeoutAssumption DEF WInv, Young, SInv, TypeOK, Request
      <4> QED BY <4>1, TimeoutAssumption
    <3> QED BY <3>1, <1>3 DEF CleanupStep, Cleanup
  <2>2. Young' /\ Mirror'
    BY <2>1, <1>1 DEF WInv, Young, Mirror, SameKey
  <2> QED BY <2>2, <1>1, <1>2 DEF WInv
<1>4. CASE Tick
  <2>1. \A i \in Slots : table[i] # None => table[i].age < Timeout /\ table[i] \in Request
    <3> SUFFICES ASSUME NEW i \in Slots, table[i] # None
                 PROVE  table[i].age < Timeout /\ table[i] \in Request
      OBVIOUS
    <3>1. table[i] \in Request /\ table[i].chan \in Channels
      BY DEF WInv, SInv, TypeOK, Request
    <3>2. owed[table[i].chan] # None /\ Key(table[i]) = Key(owed[table[i].chan])
      BY DEF WInv, Mirror
    <3> QED BY <3>1, <3>2, <1>4 DEF Tick, FaultFree
  <2>2. \A r \in Request : r.age < Timeout =>
          LET o == [r EXCEPT !.age = @ + 1]
          IN  /\ o \in Request /\ Key(o) = Key(r) /\ o.reg = r.reg /\ o.chan = r.chan
              /\ o.age <= Timeout
    <3> SUFFICES ASSUME NEW r \in Request, r.age < Timeout
                 PROVE  LET o == [r EXCEPT !.age = @ + 1]
                        IN  /\ o \in Request /\ Key(o) = Key(r) /\ o.reg = r.reg /\ o.chan = r.chan
                            /\ o.age <= Timeout
      OBVIOUS
    <3>1. r.age \in Nat /\ r.age + 1 <= Timeout /\ r.age + 1 \in 0..(Timeout + 1)
      BY TimeoutAssumption DEF Request
    <3> DEFINE o == [r EXCEPT !.age = @ + 1]
    <3>2. o.age = r.age + 1 /\ o \in Request
      BY <3>1 DEF Request
    <3>3. Key(o) = Key(r) /\ o.reg = r.reg /\ o.chan = r.chan
      BY DEF Request, Key
    <3> QED BY <3>1, <3>2, <3>3
  <2>3. \A i \in Slots : /\ table[i] = None => table'[i] = None
                         /\ table[i] # None => table'[i] = [table[i] EXCEPT !.age = @ + 1]
    <3>1. \A i \in Slots : table[i] # None => table[i].age <= Timeout
      BY DEF WInv, Young
    <3>2. table' = [i \in Slots |->
            IF table[i] # None /\ table[i].age <= Timeout THEN [table[i] EXCEPT !.age = @ + 1] ELSE table[i]]
      BY <1>4 DEF Tick, Older
    <3>3. ASSUME NEW i \in Slots, table[i] = None PROVE table'[i] = None
      BY <3>2, <3>3
    <3>4. ASSUME NEW i \in Slots, table[i] # None PROVE table'[i] = [table[i] EXCEPT !.age = @ + 1]
      BY <3>1, <3>2, <3>4
    <3> QED BY <3>3, <3>4
  <2>4. \A i \in Slots : /\ table'[i] = None <=> table[i] = None
                         /\ table[i] # None =>
                              /\ Key(table'[i]) = Key(table[i]) /\ table'[i].reg = table[i].reg
                              /\ table'[i].chan = table[i].chan /\ table'[i].age <= Timeout
    <3>1. ASSUME NEW i \in Slots, table[i] # None
          PROVE  /\ table'[i] \in Request
                 /\ Key(table'[i]) = Key(table[i]) /\ table'[i].reg = table[i].reg
                 /\ table'[i].chan = table[i].chan /\ table'[i].age <= Timeout
      <4> DEFINE r == table[i]
      <4>1. r \in Request /\ r.age < Timeout
        BY <2>1, <3>1
      <4>2. table'[i] = [r EXCEPT !.age = @ + 1]
        BY <2>3, <3>1
      <4> HIDE DEF r
      <4>3. LET o == [r EXCEPT !.age = @ + 1]
            IN  /\ o \in Request /\ Key(o) = Key(r) /\ o.reg = r.reg /\ o.chan = r.chan
                /\ o.age <= Timeout
        BY <2>2, <4>1
      <4> QED BY <4>2, <4>3 DEF r
    <3> QED BY <3>1, <2>3, NoneAssumption
  <2>5. Young'
    BY <2>4 DEF Young
  <2>6. Mirror'
    BY <2>4, <1>1 DEF WInv, Mirror, SameKey
  <2> QED BY <2>5, <2>6, <1>1, <1>2 DEF WInv
<1> QED BY <1>3, <1>4

LEMMA NextWInv == RoomForAll /\ FaultFree /\ WInv /\ [Next]_vars => WInv'
<1> SUFFICES ASSUME RoomForAll, FaultFree, WInv, [Next]_vars PROVE WInv'
  OBVIOUS
<1>t. SInv'
  BY NextSInv DEF WInv
<1>1. ASSUME NEW x \in Asks[site], AskSeen(x) \/ AskUnseen(x) PROVE WInv'
  <2>1. x \in Transaction
    BY SitesAssumption DEF WInv, SInv, TypeOK
  <2> QED BY <2>1, <1>1, <1>t, AskWInv
<1>2. ASSUME NEW c \in Channels, AnswerSeen(c) \/ AnswerUnseen(c) PROVE WInv'
  BY <1>2, <1>t, AnswerWInv
<1>3. ASSUME NEW c \in Channels PROVE ~Silent(c) /\ ~GiveUp(c)
  BY DEF Silent, GiveUp, FaultFree
<1>4. ASSUME NEW c \in Channels PROVE late[c] = {}
  BY DEF WInv
<1>5. CASE CleanupStep \/ Tick
  BY <1>5, <1>t, TimeWInv
<1>6. CASE UNCHANGED vars
  BY <1>6, <1>t DEF vars, WInv, OwedWrites, Young, Mirror, Confirmed
<1> QED BY <1>1, <1>2, <1>3, <1>4, <1>5, <1>6 DEF Next

QInv == FaultFree => WInv

LEMMA InitQInv == Init => QInv
  BY InitWInv DEF QInv

LEMMA NextQInv == RoomForAll /\ QInv /\ [Next]_vars => QInv'
<1> SUFFICES ASSUME RoomForAll, QInv, [Next]_vars, FaultFree' PROVE WInv'
  BY DEF QInv
<1>1. FaultFree
  BY SiteFixed DEF FaultFree, LooksLikeRequest, Bytes
<1> QED BY <1>1, NextWInv DEF QInv

\* Without faults, and with a slot for every channel, a value is filed for a
\* single write only after the slave carried it out.
THEOREM WritesAreConfirmed ==
  ASSUME RoomForAll
  PROVE  Spec => []WriteConfirmed
<1>1. QInv => WriteConfirmed
  BY DEF QInv, WInv, WriteConfirmed
<1> QED BY InitQInv, NextQInv, <1>1, PTL DEF Spec

\* The reason: the table mirrors what the lines owe.
THEOREM TableIsMirror ==
  ASSUME RoomForAll
  PROVE  Spec => []TableMirrorsLines
<1>1. QInv => TableMirrorsLines
  BY DEF QInv, WInv, TableMirrorsLines
<1> QED BY InitQInv, NextQInv, <1>1, PTL DEF Spec

-----------------------------------------------------------------------------
(* What the pending table keeps when its users are not kept apart.           *)

USE MaxPendingAssumption DEF Slots

(* While the table was never full, a key that no two threads were adding at   *)
(* once: one of them at most adds it, and what it has searched has no request *)
(* of that key.                                                               *)
OneAdder == \A t, u \in Threads :
  t # u /\ Adding(t) /\ Adding(u) /\ Key(call[t].req) = Key(call[u].req) => Key(call[t].req) \in twins

Searched ==
  /\ \A i, j \in Slots : i # j /\ slots[i].valid /\ HasKey(j, Key(slots[i].req)) => Key(slots[i].req) \in twins
  /\ \A t \in Threads, i \in Slots : Key(call[t].req) \notin twins =>
       /\ Is(t, "same") /\ i < call[t].at => ~HasKey(i, Key(call[t].req))
       /\ Is(t, "free") => ~HasKey(i, Key(call[t].req))
       /\ Is(t, "put") /\ i # call[t].at => ~HasKey(i, Key(call[t].req))

(* While no two threads were about to write one slot: the slot a thread is    *)
(* about to write is free or has its key, and who points to a slot that was   *)
(* not cleared since finds its key there.                                     *)
Apart ==
  /\ \A t, u \in Threads : t # u /\ Is(t, "put") /\ Is(u, "put") => call[t].at # call[u].at
  /\ \A t \in Threads :
       Is(t, "put") /\ slots[call[t].at].valid => HasKey(call[t].at, Key(call[t].req))

Points ==
  \A t \in Threads : call[t].found # 0 /\ ~call[t].lost => HasKey(call[t].found, Key(call[t].req))

Pointing ==
  \A t \in Threads : /\ call[t].found # 0 => call[t].op \in {"match", "use"}
                     /\ Is(t, "use") => call[t].found # 0

RaceInv ==
  /\ RaceTypeOK /\ Pointing /\ OneAdder
  /\ shifted \/ Searched
  /\ crossed \/ shifted \/ (Apart /\ Points)

\* HasKey, of a table given.
Holds(S, i, k) == S[i].valid /\ Key(S[i].req) = k

LEMMA RaceInvInit == RaceInit => RaceInv
<1> SUFFICES ASSUME RaceInit PROVE RaceInv
  OBVIOUS
<1>1. Blank \in Stamped
  BY DEF Blank, Stamped
<1>2. Idle \in Call
  BY <1>1 DEF Idle, Call, Places
<1>3. RaceTypeOK
  BY <1>1, <1>2 DEF RaceInit, RaceTypeOK
<1> QED
  BY <1>3 DEF RaceInit, RaceInv, Pointing, OneAdder, Searched, Apart, Points, Is, Adding, HasKey, Idle

LEMMA RaceInvImplies == RaceInv => RacesExplained
  BY DEF RaceInv, RacesExplained, RaceTypeOK, Pointing, Searched, Apart, Points, Is, HasKey


(* A step that leaves the table alone: what the thread's new place asks for.  *)
LEMMA LocalStep ==
  ASSUME RaceInv, NEW t \in Threads, NEW c \in Call, call' = [call EXCEPT ![t] = c],
         slots' = slots, lineup' = lineup, clock' = clock, shifted' = shifted,
         twins \subseteq twins', crossed' \in BOOLEAN, crossed => crossed',
         c.found # 0 => c.op \in {"match", "use"},
         c.op = "use" => c.found # 0,
         c.op \in {"same", "free", "put", "shift"} =>
           \/ Adding(t) /\ Key(c.req) = Key(call[t].req)
           \/ ~AddsToo(t, Key(c.req))
           \/ Key(c.req) \in twins',
         shifted \/ Key(c.req) \in twins' \/ \A i \in Slots :
           /\ c.op = "same" /\ i < c.at => ~HasKey(i, Key(c.req))
           /\ c.op = "free" => ~HasKey(i, Key(c.req))
           /\ c.op = "put" /\ i # c.at => ~HasKey(i, Key(c.req)),
         c.op = "put" =>
           /\ crossed' \/ \A u \in Threads : u # t /\ Is(u, "put") => call[u].at # c.at
           /\ crossed' \/ shifted \/ ~slots[c.at].valid \/ HasKey(c.at, Key(c.req)),
         crossed' \/ shifted \/ c.found = 0 \/ c.lost \/ HasKey(c.found, Key(c.req))
  PROVE  RaceInv'
<1>1. RaceTypeOK'
  BY DEF RaceInv, RaceTypeOK
<1>2. call'[t] = c /\ \A u \in Threads : u # t => call'[u] = call[u]
  BY DEF RaceInv, RaceTypeOK
<1>3. Pointing'
  BY <1>2 DEF Pointing, RaceInv, Is
<1>4. OneAdder'
  <2> SUFFICES ASSUME NEW u \in Threads, NEW v \in Threads, u # v, Adding(u)', Adding(v)',
                      Key(call'[u].req) = Key(call'[v].req)
               PROVE  Key(call'[u].req) \in twins'
    BY DEF OneAdder, Key
  <2>1. CASE u # t /\ v # t
    BY <1>2, <2>1 DEF RaceInv, OneAdder, Adding
  <2>2. CASE u = t
    BY <1>2, <2>2 DEF RaceInv, OneAdder, Adding, AddsToo
  <2>3. CASE v = t
    BY <1>2, <2>3 DEF RaceInv, OneAdder, Adding, AddsToo
  <2> QED BY <2>1, <2>2, <2>3
<1>5. (shifted \/ Searched)'
  BY <1>2 DEF RaceInv, Searched, Is, HasKey
<1>6. (crossed \/ shifted \/ (Apart /\ Points))'
  BY <1>2 DEF RaceInv, Apart, Points, Is, HasKey
<1> QED BY <1>1, <1>3, <1>4, <1>5, <1>6 DEF RaceInv

LEMMA BeginStep ==
  ASSUME RaceInv, NEW t \in Threads, NEW job \in Jobs[lineup], Begin(t, job) PROVE RaceInv'
<1>1. job \in Job
  BY JobsAssumption DEF RaceInv, RaceTypeOK
<1>2. PICK r : r = [chan |-> job.chan, slave |-> job.slave, func |-> job.func, reg |-> job.reg, time |-> clock]
  OBVIOUS
<1>3. PICK c : c = [op |-> job.kind, at |-> 1, found |-> 0, req |-> r, lost |-> FALSE]
  OBVIOUS
<1>4. r \in Stamped
  BY <1>1, <1>2 DEF Job, Stamped, RaceInv, RaceTypeOK
<1>5. c \in Call /\ c.op = job.kind /\ c.at = 1 /\ c.found = 0 /\ c.req = r /\ c.op \in Kinds
  BY <1>1, <1>3, <1>4 DEF Job, Call, Places
<1>6. /\ call' = [call EXCEPT ![t] = c] /\ slots' = slots /\ lineup' = lineup /\ clock' = clock
      /\ crossed' = crossed /\ shifted' = shifted
      /\ twins' = IF job.kind = "same" /\ AddsToo(t, Key(r)) THEN twins \cup {Key(r)} ELSE twins
  BY <1>2, <1>3 DEF Begin, Becomes, Unwritten
<1>7. twins \subseteq twins' /\ crossed' \in BOOLEAN
  BY <1>6 DEF RaceInv, RaceTypeOK
<1>8. c.op \in {"same", "free", "put", "shift"} => ~AddsToo(t, Key(c.req)) \/ Key(c.req) \in twins'
  BY <1>5, <1>6 DEF Kinds
<1>9. /\ \A i \in Slots : ~(c.op = "same" /\ i < c.at)
      /\ c.op # "free" /\ c.op # "put" /\ c.op # "use"
  BY <1>5 DEF Kinds
<1> QED BY <1>5, <1>6, <1>7, <1>8, <1>9, LocalStep

LEMMA ChooseStep ==
  ASSUME RaceInv, NEW t \in Threads, Choose(t),
         \/ Is(t, "same") /\ HasKey(call[t].at, Key(call[t].req))
         \/ Is(t, "free") /\ ~slots[call[t].at].valid
  PROVE  RaceInv'
<1>1. PICK c : c = [call[t] EXCEPT !.op = "put"]
  OBVIOUS
<1>2. call[t] \in Call /\ call[t].found = 0
  BY DEF RaceInv, RaceTypeOK, Pointing, Is
<1>3. /\ c \in Call /\ c.op = "put" /\ c.at = call[t].at /\ c.at \in Slots /\ c.found = 0 /\ c.req = call[t].req
  BY <1>1, <1>2 DEF Call, Places
<1>4. /\ call' = [call EXCEPT ![t] = c] /\ slots' = slots /\ lineup' = lineup /\ clock' = clock
      /\ shifted' = shifted /\ twins' = twins
      /\ crossed' = (crossed \/ \E u \in Threads \ {t} : Is(u, "put") /\ call[u].at = call[t].at)
  BY <1>1 DEF Choose, Becomes, Unwritten, Fixed
<1>5. /\ twins \subseteq twins' /\ crossed' \in BOOLEAN /\ (crossed => crossed')
      /\ crossed' \/ \A u \in Threads : u # t /\ Is(u, "put") => call[u].at # c.at
  BY <1>3, <1>4 DEF RaceInv, RaceTypeOK
<1>6. Adding(t)
  BY DEF Adding, Is
<1>7. shifted \/ Key(c.req) \in twins' \/ \A i \in Slots : i # c.at => ~HasKey(i, Key(c.req))
  BY <1>3, <1>4 DEF RaceInv, Searched, HasKey, Is
<1>8. ~slots[c.at].valid \/ HasKey(c.at, Key(c.req))
  BY <1>3
<1> QED BY <1>3, <1>4, <1>5, <1>6, <1>7, <1>8, LocalStep

(* The search for the key, or for a free slot, goes on.                      *)
LEMMA SearchStep ==
  ASSUME RaceInv, NEW t \in Threads, NEW c \in Call, call' = [call EXCEPT ![t] = c],
         UNCHANGED <<lineup, slots, clock, twins, crossed, shifted>>,
         Is(t, "same") \/ Is(t, "free"),
         c.found = call[t].found, c.req = call[t].req,
         \/ c.op = "same" /\ Is(t, "same") /\ c.at = call[t].at + 1 /\ ~HasKey(call[t].at, Key(call[t].req))
         \/ c.op = "free" /\ Is(t, "free")
         \/ c.op = "free" /\ Is(t, "same") /\ call[t].at = MaxPending /\ ~HasKey(call[t].at, Key(call[t].req))
         \/ c.op = "shift"
  PROVE  RaceInv'
<1>1. call[t] \in Call /\ call[t].found = 0 /\ Adding(t)
  BY DEF RaceInv, RaceTypeOK, Pointing, Is, Adding
<1>2. twins \subseteq twins' /\ crossed' \in BOOLEAN /\ (crossed => crossed')
  BY DEF RaceInv, RaceTypeOK
<1>3. call[t].at \in 1..MaxPending /\ c.at \in 1..MaxPending
  BY <1>1 DEF Call
<1>4. shifted \/ Key(c.req) \in twins' \/ \A i \in Slots :
        /\ c.op = "same" /\ i < c.at => ~HasKey(i, Key(c.req))
        /\ c.op = "free" => ~HasKey(i, Key(c.req))
        /\ c.op = "put" /\ i # c.at => ~HasKey(i, Key(c.req))
  BY <1>3 DEF RaceInv, Searched, Is
<1> QED BY <1>1, <1>2, <1>4, LocalStep

LEMMA SameStep ==
  ASSUME RaceInv, NEW t \in Threads, Same(t) PROVE RaceInv'
<1>1. CASE Choose(t) /\ HasKey(call[t].at, Key(call[t].req))
  BY <1>1, ChooseStep DEF Same
<1>2. CASE ~HasKey(call[t].at, Key(call[t].req)) /\ NextSlot(t)
  <2>1. PICK c : c = [call[t] EXCEPT !.at = @ + 1]
    OBVIOUS
  <2>2. call[t] \in Call /\ Is(t, "same") /\ call[t].at < MaxPending
    BY <1>2 DEF RaceInv, RaceTypeOK, Same, NextSlot
  <2>3. /\ c \in Call /\ c.at = call[t].at + 1 /\ c.op = "same" /\ c.found = call[t].found /\ c.req = call[t].req
    BY <2>1, <2>2 DEF Call, Is
  <2>4. call' = [call EXCEPT ![t] = c] /\ UNCHANGED <<lineup, slots, clock, twins, crossed, shifted>>
    BY <1>2, <2>1 DEF Same, NextSlot, Becomes, Unwritten, Fixed, Unmarked
  <2> QED BY <1>2, <2>2, <2>3, <2>4, SearchStep
<1>3. CASE /\ ~HasKey(call[t].at, Key(call[t].req)) /\ LastSlot(t)
           /\ Becomes(t, [call[t] EXCEPT !.op = "free", !.at = 1])
  <2>1. PICK c : c = [call[t] EXCEPT !.op = "free", !.at = 1]
    OBVIOUS
  <2>2. call[t] \in Call /\ Is(t, "same") /\ call[t].at = MaxPending
    BY <1>3 DEF RaceInv, RaceTypeOK, Same, LastSlot
  <2>3. /\ c \in Call /\ c.op = "free" /\ c.found = call[t].found /\ c.req = call[t].req
    <3>1. PICK e : e = [call[t] EXCEPT !.op = "free"]
      OBVIOUS
    <3>2. e \in Call /\ e.op = "free" /\ e.found = call[t].found /\ e.req = call[t].req
      BY <2>2, <3>1 DEF Call, Places, Kinds
    <3>3. c = [e EXCEPT !.at = 1]
      BY <2>2, <2>1, <3>1 DEF Call
    <3> QED BY <2>2, <3>2, <3>3 DEF Call
  <2>4. call' = [call EXCEPT ![t] = c] /\ UNCHANGED <<lineup, slots, clock, twins, crossed, shifted>>
    BY <1>3, <2>1 DEF Same, Becomes, Unwritten, Fixed, Unmarked
  <2> QED BY <1>3, <2>2, <2>3, <2>4, SearchStep
<1> QED BY <1>1, <1>2, <1>3 DEF Same

LEMMA FreeStep ==
  ASSUME RaceInv, NEW t \in Threads, Free(t) PROVE RaceInv'
<1>1. CASE Choose(t) /\ ~slots[call[t].at].valid
  BY <1>1, ChooseStep DEF Free
<1>2. CASE slots[call[t].at].valid /\ NextSlot(t)
  <2>1. PICK c : c = [call[t] EXCEPT !.at = @ + 1]
    OBVIOUS
  <2>2. call[t] \in Call /\ Is(t, "free") /\ call[t].at < MaxPending
    BY <1>2 DEF RaceInv, RaceTypeOK, Free, NextSlot
  <2>3. /\ c \in Call /\ c.op = "free" /\ c.found = call[t].found /\ c.req = call[t].req
    BY <2>1, <2>2 DEF Call, Is
  <2>4. call' = [call EXCEPT ![t] = c] /\ UNCHANGED <<lineup, slots, clock, twins, crossed, shifted>>
    BY <1>2, <2>1 DEF Free, NextSlot, Becomes, Unwritten, Fixed, Unmarked
  <2> QED BY <2>2, <2>3, <2>4, SearchStep
<1>3. CASE /\ slots[call[t].at].valid /\ LastSlot(t)
           /\ Becomes(t, [call[t] EXCEPT !.op = "shift", !.at = 1])
  <2>1. PICK c : c = [call[t] EXCEPT !.op = "shift", !.at = 1]
    OBVIOUS
  <2>2. call[t] \in Call /\ Is(t, "free")
    BY <1>3 DEF RaceInv, RaceTypeOK, Free
  <2>3. /\ c \in Call /\ c.op = "shift" /\ c.found = call[t].found /\ c.req = call[t].req
    <3>1. PICK e : e = [call[t] EXCEPT !.op = "shift"]
      OBVIOUS
    <3>2. e \in Call /\ e.op = "shift" /\ e.found = call[t].found /\ e.req = call[t].req
      BY <2>2, <3>1 DEF Call, Places, Kinds
    <3>3. c = [e EXCEPT !.at = 1]
      BY <2>2, <2>1, <3>1 DEF Call
    <3> QED BY <2>2, <3>2, <3>3 DEF Call
  <2>4. call' = [call EXCEPT ![t] = c] /\ UNCHANGED <<lineup, slots, clock, twins, crossed, shifted>>
    BY <1>3, <2>1 DEF Free, Becomes, Unwritten, Fixed, Unmarked
  <2> QED BY <2>2, <2>3, <2>4, SearchStep
<1> QED BY <1>1, <1>2, <1>3 DEF Free

(* A thread that adds nothing: what it points to has its key.                *)
LEMMA OtherStep ==
  ASSUME RaceInv, NEW t \in Threads, NEW c \in Call, call' = [call EXCEPT ![t] = c],
         UNCHANGED <<lineup, slots, clock, twins, crossed, shifted>>,
         c.op \notin {"same", "free", "put", "shift"},
         c.found # 0 => c.op \in {"match", "use"}, c.op = "use" => c.found # 0,
         crossed \/ shifted \/ c.found = 0 \/ c.lost \/ HasKey(c.found, Key(c.req))
  PROVE  RaceInv'
  BY LocalStep DEF RaceInv, RaceTypeOK

LEMMA IdleStep ==
  ASSUME RaceInv, NEW t \in Threads, call' = [call EXCEPT ![t] = Idle],
         UNCHANGED <<lineup, slots, clock, twins, crossed, shifted>>
  PROVE  RaceInv'
<1>1. Idle \in Call /\ Idle.op = "idle" /\ Idle.found = 0
  BY DEF Idle, Blank, Stamped, Call, Places
<1> QED BY <1>1, OtherStep

LEMMA LookStep ==
  ASSUME RaceInv, NEW t \in Threads, Look(t) PROVE RaceInv'
<1>1. call[t] \in Call /\ call[t].op = "match"
  BY DEF RaceInv, RaceTypeOK, Look, Is
<1>2. PICK seen :
        /\ \/ seen = call[t]
           \/ /\ seen = [call[t] EXCEPT !.found = call[t].at, !.lost = FALSE]
              /\ HasKey(call[t].at, Key(call[t].req))
        /\ \/ call[t].at < MaxPending /\ call' = [call EXCEPT ![t] = [seen EXCEPT !.at = @ + 1]]
           \/ call' = [call EXCEPT ![t] = Idle]
           \/ seen.found # 0 /\ call' = [call EXCEPT ![t] = [seen EXCEPT !.op = "use"]]
  BY DEF Look, Becomes, LastSlot
<1>3. UNCHANGED <<lineup, slots, clock, twins, crossed, shifted>>
  BY DEF Look, Unwritten, Fixed, Unmarked
<1>4. /\ seen \in Call /\ seen.op = "match" /\ seen.at = call[t].at /\ seen.req = call[t].req
      /\ crossed \/ shifted \/ seen.found = 0 \/ seen.lost \/ HasKey(seen.found, Key(seen.req))
  <2>1. CASE seen = call[t]
    BY <1>1, <2>1 DEF RaceInv, Points
  <2>2. CASE seen = [call[t] EXCEPT !.found = call[t].at, !.lost = FALSE] /\ HasKey(call[t].at, Key(call[t].req))
    BY <1>1, <2>2 DEF Call
  <2> QED BY <1>2, <2>1, <2>2
<1>5. CASE call[t].at < MaxPending /\ call' = [call EXCEPT ![t] = [seen EXCEPT !.at = @ + 1]]
  <2>1. PICK c : c = [seen EXCEPT !.at = @ + 1]
    OBVIOUS
  <2>2. /\ c \in Call /\ c.op = "match" /\ c.found = seen.found /\ c.req = seen.req /\ c.lost = seen.lost
    BY <1>1, <1>4, <1>5, <2>1 DEF Call
  <2> QED BY <1>3, <1>4, <1>5, <2>1, <2>2, OtherStep
<1>6. CASE call' = [call EXCEPT ![t] = Idle]
  BY <1>3, <1>6, IdleStep
<1>7. CASE seen.found # 0 /\ call' = [call EXCEPT ![t] = [seen EXCEPT !.op = "use"]]
  <2>1. PICK c : c = [seen EXCEPT !.op = "use"]
    OBVIOUS
  <2>2. /\ c \in Call /\ c.op = "use" /\ c.found = seen.found /\ c.req = seen.req /\ c.lost = seen.lost
    BY <1>4, <2>1 DEF Call, Places
  <2> QED BY <1>3, <1>4, <1>7, <2>1, <2>2, OtherStep
<1> QED BY <1>2, <1>5, <1>6, <1>7

LEMMA TwinStep ==
  ASSUME RaceInv, NEW t \in Threads, Twin(t) PROVE RaceInv'
<1>1. call[t] \in Call /\ call[t].op \in {"write", "confirm"} /\ call[t].found = 0
  BY DEF RaceInv, RaceTypeOK, Twin, Pointing
<1>2. UNCHANGED <<lineup, slots, clock, crossed, shifted>>
  BY DEF Twin, Unwritten, Fixed
<1>3. CASE /\ HasKey(call[t].at, Key(call[t].req)) /\ UNCHANGED twins
           /\ Becomes(t, [call[t] EXCEPT !.op = "use", !.found = call[t].at])
  <2>1. PICK c : c = [call[t] EXCEPT !.op = "use", !.found = call[t].at]
    OBVIOUS
  <2>2. c \in Call /\ c.op = "use" /\ c.found = call[t].at /\ c.req = call[t].req /\ c.found # 0
    <3>1. [call[t] EXCEPT !.op = "use"] \in Call
      BY <1>1 DEF Call, Places
    <3>2. c \in Call
      BY <1>1, <2>1, <3>1 DEF Call
    <3> QED BY <1>1, <2>1, <3>2 DEF Call
  <2> QED BY <1>2, <1>3, <2>1, <2>2, OtherStep DEF Becomes
<1>4. CASE NextSlot(t) /\ UNCHANGED twins
  <2>1. PICK c : c = [call[t] EXCEPT !.at = @ + 1]
    OBVIOUS
  <2>2. c \in Call /\ c.op = call[t].op /\ c.found = 0
    BY <1>1, <1>4, <2>1 DEF Call, NextSlot
  <2> QED BY <1>1, <1>2, <1>4, <2>1, <2>2, OtherStep DEF NextSlot, Becomes
<1>5. CASE /\ Becomes(t, [call[t] EXCEPT !.op = "same", !.at = 1])
           /\ twins' = IF AddsToo(t, Key(call[t].req)) THEN twins \cup {Key(call[t].req)} ELSE twins
  <2>1. PICK c : c = [call[t] EXCEPT !.op = "same", !.at = 1]
    OBVIOUS
  <2>2. c \in Call /\ c.op = "same" /\ c.at = 1 /\ c.found = 0 /\ c.req = call[t].req
    <3>1. PICK e : e = [call[t] EXCEPT !.op = "same"]
      OBVIOUS
    <3>2. e \in Call /\ e.op = "same" /\ e.found = call[t].found /\ e.req = call[t].req
      BY <1>1, <3>1 DEF Call, Places, Kinds
    <3>3. c = [e EXCEPT !.at = 1]
      BY <1>1, <2>1, <3>1 DEF Call
    <3> QED BY <1>1, <3>2, <3>3 DEF Call
  <2>3. /\ twins \subseteq twins' /\ crossed' \in BOOLEAN /\ (crossed => crossed')
        /\ ~AddsToo(t, Key(c.req)) \/ Key(c.req) \in twins'
    BY <1>2, <1>5, <2>2 DEF RaceInv, RaceTypeOK
  <2>4. call' = [call EXCEPT ![t] = c]
    BY <1>5, <2>1 DEF Becomes
  <2>5. \A i \in Slots : ~(i < c.at)
    BY <2>2
  <2> QED BY <1>2, <2>2, <2>3, <2>4, <2>5, LocalStep
<1>6. CASE Becomes(t, Idle) /\ UNCHANGED twins
  BY <1>2, <1>6, IdleStep DEF Becomes
<1> QED BY <1>3, <1>4, <1>5, <1>6 DEF Twin

LEMMA SweepStep ==
  ASSUME RaceInv, NEW t \in Threads, Sweep(t) PROVE RaceInv'
<1>1. call[t] \in Call /\ call[t].op = "clean" /\ call[t].found = 0
  BY DEF RaceInv, RaceTypeOK, Sweep, Pointing, Is
<1>2. UNCHANGED <<lineup, slots, clock, twins, crossed, shifted>>
  BY DEF Sweep, Unwritten, Fixed, Unmarked
<1>3. CASE Becomes(t, [call[t] EXCEPT !.op = "drop"])
  <2>1. PICK c : c = [call[t] EXCEPT !.op = "drop"]
    OBVIOUS
  <2>2. c \in Call /\ c.op = "drop" /\ c.found = 0
    BY <1>1, <2>1 DEF Call, Places
  <2> QED BY <1>2, <1>3, <2>1, <2>2, OtherStep DEF Becomes
<1>4. CASE NextSlot(t)
  <2>1. PICK c : c = [call[t] EXCEPT !.at = @ + 1]
    OBVIOUS
  <2>2. c \in Call /\ c.op = "clean" /\ c.found = 0
    BY <1>1, <1>4, <2>1 DEF Call, NextSlot
  <2> QED BY <1>2, <1>4, <2>1, <2>2, OtherStep DEF NextSlot, Becomes
<1>5. CASE Becomes(t, Idle)
  BY <1>2, <1>5, IdleStep DEF Becomes
<1> QED BY <1>3, <1>4, <1>5 DEF Sweep

-----------------------------------------------------------------------------
(* Steps that write the table.                                               *)

LEMMA PutStep ==
  ASSUME RaceInv, NEW t \in Threads, Put(t) PROVE RaceInv'
<1>1. PICK i : i = call[t].at
  OBVIOUS
<1>2. PICK k : k = Key(call[t].req)
  OBVIOUS
<1>3. /\ call[t] \in Call /\ i \in Slots /\ Is(t, "put")
      /\ slots' = [slots EXCEPT ![i] = [valid |-> TRUE, req |-> call[t].req]]
      /\ call' = [call EXCEPT ![t] = Idle]
      /\ UNCHANGED <<lineup, clock, twins, crossed, shifted>>
  BY <1>1 DEF RaceInv, RaceTypeOK, Put, Call, Becomes, Fixed, Unmarked
<1>4. Idle \in Call /\ Idle.op = "idle" /\ Idle.found = 0
  BY DEF Idle, Blank, Stamped, Call, Places
<1>5. [valid |-> TRUE, req |-> call[t].req] \in [valid : BOOLEAN, req : Stamped]
  BY <1>3 DEF Call
<1>6. RaceTypeOK'
  BY <1>3, <1>4, <1>5 DEF RaceInv, RaceTypeOK
<1>7. /\ call'[t] = Idle /\ \A u \in Threads : u # t => call'[u] = call[u]
      /\ slots'[i].valid /\ slots'[i].req = call[t].req /\ \A j \in Slots : j # i => slots'[j] = slots[j]
  BY <1>3 DEF RaceInv, RaceTypeOK
<1>8. Pointing'
  BY <1>4, <1>7 DEF RaceInv, Pointing, Is
<1>9. OneAdder'
  BY <1>3, <1>4, <1>7 DEF RaceInv, OneAdder, Adding
<1>10. \A j \in Slots : \A l : Holds(slots', j, l) <=> IF j = i THEN l = k ELSE HasKey(j, l)
  BY <1>2, <1>7 DEF HasKey, Holds
<1>11. ASSUME ~shifted PROVE Searched'
  <2>1. k \in twins \/ \A j \in Slots : j # i => ~HasKey(j, k)
    BY <1>1, <1>2, <1>3, <1>11 DEF RaceInv, Searched
  <2>2. ASSUME NEW a \in Slots, NEW b \in Slots, NEW l, a # b, Holds(slots', a, l), Holds(slots', b, l)
        PROVE  l \in twins
    <3>1. CASE a = i \/ b = i
      BY <1>10, <2>1, <2>2, <3>1
    <3>2. CASE a # i /\ b # i
      BY <1>10, <1>11, <2>2, <3>2 DEF RaceInv, Searched, HasKey, Holds
    <3> QED BY <3>1, <3>2
  <2>3. \A a, b \in Slots : a # b /\ slots'[a].valid /\ Holds(slots', b, Key(slots'[a].req)) => Key(slots'[a].req) \in twins
    BY <2>2 DEF HasKey, Holds
  <2>4. ASSUME NEW u \in Threads, NEW j \in Slots, Key(call'[u].req) \notin twins
        PROVE  /\ (call'[u].op = "same" /\ j < call'[u].at) => ~Holds(slots', j, Key(call'[u].req))
               /\ call'[u].op = "free" => ~Holds(slots', j, Key(call'[u].req))
               /\ (call'[u].op = "put" /\ j # call'[u].at) => ~Holds(slots', j, Key(call'[u].req))
    <3>1. CASE u = t
      BY <1>4, <1>7, <3>1
    <3>2. CASE u # t /\ Adding(u)
      <4>1. Key(call[u].req) # k
        BY <1>2, <1>3, <1>7, <2>4, <3>2 DEF RaceInv, OneAdder, Adding, Is
      <4>2. call'[u] = call[u] /\ Key(call[u].req) \notin twins
        BY <1>7, <2>4, <3>2
      <4>3. Holds(slots', j, Key(call[u].req)) => HasKey(j, Key(call[u].req))
        BY <1>10, <4>1
      <4> QED BY <1>3, <1>11, <4>2, <4>3 DEF RaceInv, Searched, Is
    <3>3. CASE u # t /\ ~Adding(u)
      BY <1>7, <3>3 DEF Adding
    <3> QED BY <3>1, <3>2, <3>3
  <2> QED BY <1>3, <2>3, <2>4 DEF Searched, Is, HasKey, Holds
<1>12. ASSUME ~crossed, ~shifted PROVE (Apart /\ Points)'
  <2>1. \A u \in Threads : u # t /\ call[u].op = "put" => call[u].at # i
    BY <1>1, <1>3, <1>12 DEF RaceInv, Apart, Is
  <2>2. Apart'
    <3>1. ASSUME NEW u \in Threads, call'[u].op = "put"
          PROVE  u # t /\ call'[u] = call[u] /\ call[u].at \in Slots /\ call[u].at # i
      BY <1>4, <1>7, <2>1, <3>1 DEF RaceInv, RaceTypeOK, Call
    <3>2. ASSUME NEW u \in Threads, NEW v \in Threads, u # v, call'[u].op = "put", call'[v].op = "put"
          PROVE  call'[u].at # call'[v].at
      BY <1>12, <3>1, <3>2 DEF RaceInv, Apart, Is
    <3>3. ASSUME NEW u \in Threads, call'[u].op = "put", slots'[call'[u].at].valid
          PROVE  Holds(slots', call'[u].at, Key(call'[u].req))
      BY <1>7, <1>12, <3>1, <3>3 DEF RaceInv, Apart, Is, HasKey, Holds
    <3> QED BY <3>2, <3>3 DEF Apart, Is, HasKey, Holds
  <2>3. slots[i].valid => HasKey(i, k)
    BY <1>1, <1>2, <1>3, <1>12 DEF RaceInv, Apart
  <2>4. ASSUME NEW u \in Threads, call'[u].found # 0, ~call'[u].lost
        PROVE  Holds(slots', call'[u].found, Key(call'[u].req))
    <3>1. u # t /\ call'[u] = call[u] /\ HasKey(call[u].found, Key(call[u].req)) /\ call[u].found \in Slots
      BY <1>4, <1>7, <1>12, <2>4 DEF RaceInv, Points, RaceTypeOK, Call
    <3> QED BY <1>10, <2>3, <3>1 DEF HasKey, Holds
  <2> QED BY <2>2, <2>4 DEF Points, HasKey, Holds
<1> QED BY <1>3, <1>6, <1>8, <1>9, <1>11, <1>12 DEF RaceInv

\* Moving the table down: it is full, and nothing more is claimed.
LEMMA ShiftStep ==
  ASSUME RaceInv, NEW t \in Threads, Shift(t) PROVE RaceInv'
<1>1. call[t] \in Call /\ call[t].op = "shift" /\ call[t].found = 0
  BY DEF RaceInv, RaceTypeOK, Pointing, Shift, Is
<1>2. shifted' = TRUE /\ UNCHANGED <<lineup, clock, twins, crossed>>
  BY DEF Shift, Fixed
<1>3. PICK c \in Call : /\ call' = [call EXCEPT ![t] = c] /\ c.found = 0
                        /\ c.op = "idle" \/ (c.op = "shift" /\ c.req = call[t].req)
  <2>1. CASE NextSlot(t)
    <3>1. [call[t] EXCEPT !.at = @ + 1] \in Call
      BY <1>1, <2>1 DEF NextSlot, Call
    <3> QED BY <1>1, <2>1, <3>1 DEF NextSlot, Becomes, Call
  <2>2. CASE Becomes(t, Idle)
    <3>1. Idle \in Call /\ Idle.found = 0 /\ Idle.op = "idle"
      BY DEF Idle, Blank, Stamped, Call, Places
    <3> QED BY <2>2, <3>1 DEF Becomes
  <2> QED BY <2>1, <2>2 DEF Shift
<1>4. slots' \in [Slots -> [valid : BOOLEAN, req : Stamped]]
  <2>1. CASE NextSlot(t) /\ slots' = [slots EXCEPT ![call[t].at] = slots[call[t].at + 1]]
    <3>1. call[t].at \in Slots /\ call[t].at + 1 \in Slots
      BY <1>1, <2>1 DEF NextSlot, Call
    <3> QED BY <2>1, <3>1 DEF RaceInv, RaceTypeOK
  <2>2. CASE slots' = [slots EXCEPT ![MaxPending] = [valid |-> TRUE, req |-> call[t].req]]
    <3>1. [valid |-> TRUE, req |-> call[t].req] \in [valid : BOOLEAN, req : Stamped]
      BY <1>1 DEF Call
    <3> QED BY <2>2, <3>1 DEF RaceInv, RaceTypeOK
  <2> QED BY <2>1, <2>2 DEF Shift
<1>5. RaceTypeOK'
  BY <1>2, <1>3, <1>4 DEF RaceInv, RaceTypeOK
<1>6. call'[t] = c /\ \A u \in Threads : u # t => call'[u] = call[u]
  BY <1>3 DEF RaceInv, RaceTypeOK
<1>7. Pointing'
  BY <1>3, <1>6 DEF RaceInv, Pointing, Is
<1>8. OneAdder'
  BY <1>1, <1>2, <1>3, <1>6 DEF RaceInv, OneAdder, Adding
<1> QED BY <1>2, <1>5, <1>7, <1>8 DEF RaceInv

\* A slot is cleared: whoever else points to it has lost it.
LEMMA ClearStep ==
  ASSUME RaceInv, NEW t \in Threads, NEW i \in Slots, NEW c \in Call, Clear(t, i, c),
         UNCHANGED <<lineup, clock, twins, crossed, shifted>>,
         c.found = 0, c.op \in {"idle", "clean"}
  PROVE  RaceInv'
<1>1. /\ slots' = [slots EXCEPT ![i].valid = FALSE]
      /\ call' = [u \in Threads |-> IF u = t THEN c ELSE [call[u] EXCEPT !.lost = @ \/ call[u].found = i]]
  BY DEF Clear
<1>2. ASSUME NEW u \in Threads, u # t
      PROVE  /\ call'[u] \in Call /\ call'[u].op = call[u].op /\ call'[u].at = call[u].at
             /\ call'[u].found = call[u].found /\ call'[u].req = call[u].req
             /\ call'[u].lost <=> (call[u].lost \/ call[u].found = i)
  <2>1. call[u] \in Call /\ call'[u] = [call[u] EXCEPT !.lost = @ \/ call[u].found = i]
    BY <1>1, <1>2 DEF RaceInv, RaceTypeOK
  <2> QED BY <2>1 DEF Call
<1>3. call'[t] = c
  BY <1>1
<1>4. RaceTypeOK'
  <2>1. slots' \in [Slots -> [valid : BOOLEAN, req : Stamped]]
    BY <1>1 DEF RaceInv, RaceTypeOK
  <2>2. call' \in [Threads -> Call]
    BY <1>1, <1>2, <1>3
  <2> QED BY <2>1, <2>2 DEF RaceInv, RaceTypeOK
<1>5. \A j \in Slots : \A l : Holds(slots', j, l) <=> (j # i /\ HasKey(j, l))
  BY <1>1 DEF HasKey, Holds, RaceInv, RaceTypeOK
<1>6. \A j \in Slots : slots'[j].req = slots[j].req /\ (slots'[j].valid <=> (j # i /\ slots[j].valid))
  BY <1>1 DEF RaceInv, RaceTypeOK
<1>7. Pointing'
  BY <1>2, <1>3 DEF RaceInv, Pointing, Is
<1>8. OneAdder'
  BY <1>2, <1>3 DEF RaceInv, OneAdder, Adding
<1>9. ASSUME ~shifted PROVE Searched'
  BY <1>2, <1>3, <1>5, <1>6, <1>9 DEF RaceInv, Searched, Is, HasKey, Holds
<1>10. ASSUME ~crossed, ~shifted PROVE (Apart /\ Points)'
  <2>1. Apart'
    <3>1. ASSUME NEW u \in Threads, call'[u].op = "put"
          PROVE  /\ u # t /\ Is(u, "put") /\ call'[u].at = call[u].at /\ call'[u].req = call[u].req
                 /\ call[u].at \in Slots
      BY <1>2, <1>3, <3>1 DEF RaceInv, RaceTypeOK, Call, Is
    <3>2. ASSUME NEW u \in Threads, NEW v \in Threads, u # v, call'[u].op = "put", call'[v].op = "put"
          PROVE  call'[u].at # call'[v].at
      BY <1>10, <3>1, <3>2 DEF RaceInv, Apart
    <3>3. ASSUME NEW u \in Threads, call'[u].op = "put", slots'[call'[u].at].valid
          PROVE  Holds(slots', call'[u].at, Key(call'[u].req))
      BY <1>6, <1>10, <3>1, <3>3 DEF RaceInv, Apart, HasKey, Holds
    <3> QED BY <3>2, <3>3 DEF Apart, Is, HasKey, Holds
  <2>2. ASSUME NEW u \in Threads, call'[u].found # 0, ~call'[u].lost
        PROVE  Holds(slots', call'[u].found, Key(call'[u].req))
    <3>1. u # t /\ call[u].found # i /\ HasKey(call[u].found, Key(call[u].req)) /\ call[u].found \in Slots
      BY <1>2, <1>3, <1>10, <2>2 DEF RaceInv, Points, RaceTypeOK, Call
    <3> QED BY <1>2, <1>5, <3>1
  <2> QED BY <2>1, <2>2 DEF Points, HasKey, Holds
<1> QED BY <1>4, <1>7, <1>8, <1>9, <1>10 DEF RaceInv

LEMMA RetireStep ==
  ASSUME RaceInv, NEW t \in Threads, Retire(t) PROVE RaceInv'
<1>1. call[t].found \in Slots
  BY DEF RaceInv, RaceTypeOK, Call, Pointing, Retire, Is
<1>2. Idle \in Call /\ Idle.op = "idle" /\ Idle.found = 0
  BY DEF Idle, Blank, Stamped, Call, Places
<1>3. Clear(t, call[t].found, Idle) /\ UNCHANGED <<lineup, clock, twins, crossed, shifted>>
  BY DEF Retire, Fixed, Unmarked
<1> QED BY <1>1, <1>2, <1>3, ClearStep

LEMMA DropStep ==
  ASSUME RaceInv, NEW t \in Threads, Drop(t) PROVE RaceInv'
<1>1. call[t] \in Call /\ call[t].at \in Slots /\ call[t].found = 0
  BY DEF RaceInv, RaceTypeOK, Call, Pointing, Drop, Is
<1>2. UNCHANGED <<lineup, clock, twins, crossed, shifted>>
  BY DEF Drop, Fixed, Unmarked
<1>3. CASE /\ call[t].at < MaxPending
           /\ Clear(t, call[t].at, [call[t] EXCEPT !.op = "clean", !.at = @ + 1])
  <2>1. PICK c : c = [call[t] EXCEPT !.op = "clean", !.at = @ + 1]
    OBVIOUS
  <2>2. c \in Call /\ c.op = "clean" /\ c.found = 0
    <3>1. PICK e : e = [call[t] EXCEPT !.op = "clean"]
      OBVIOUS
    <3>2. e \in Call /\ e.op = "clean" /\ e.found = 0 /\ e.at = call[t].at
      BY <1>1, <3>1 DEF Call, Places, Kinds
    <3>3. c = [e EXCEPT !.at = @ + 1] /\ e.at + 1 \in Slots
      BY <1>1, <1>3, <2>1, <3>1, <3>2 DEF Call
    <3> QED BY <3>2, <3>3 DEF Call
  <2> QED BY <1>1, <1>2, <1>3, <2>1, <2>2, ClearStep
<1>4. CASE Clear(t, call[t].at, Idle)
  <2>1. Idle \in Call /\ Idle.op = "idle" /\ Idle.found = 0
    BY DEF Idle, Blank, Stamped, Call, Places
  <2> QED BY <1>1, <1>2, <1>4, <2>1, ClearStep
<1> QED BY <1>3, <1>4 DEF Drop

LEMMA RaceInvNext == RaceInv /\ [RaceNext]_raceVars => RaceInv'
<1> SUFFICES ASSUME RaceInv, [RaceNext]_raceVars PROVE RaceInv'
  OBVIOUS
<1>1. CASE Second
  BY <1>1 DEF Second, Unwritten, Unmarked, RaceInv, RaceTypeOK, Pointing, OneAdder, Searched, Apart, Points,
              Is, Adding, HasKey
<1>2. ASSUME NEW t \in Threads, NEW job \in Jobs[lineup], Begin(t, job) PROVE RaceInv'
  BY <1>2, BeginStep
<1>3. ASSUME NEW t \in Threads,
             \/ Same(t) \/ Free(t) \/ Put(t) \/ Shift(t)
             \/ Look(t) \/ Twin(t) \/ Retire(t) \/ Sweep(t) \/ Drop(t)
      PROVE  RaceInv'
  BY <1>3, SameStep, FreeStep, PutStep, ShiftStep, LookStep, TwinStep, RetireStep, SweepStep, DropStep
<1>4. CASE UNCHANGED raceVars
  BY <1>4 DEF raceVars, RaceInv, RaceTypeOK, Pointing, OneAdder, Searched, Apart, Points, Is, Adding, HasKey
<1> QED BY <1>1, <1>2, <1>3, <1>4 DEF RaceNext

(* Whoever uses the table, however many and in whatever order: two requests  *)
(* compete for an answer, a request is overwritten by one of another key and *)
(* an answer is handled with the wrong one only for a cause the history names. *)
THEOREM RacesHaveACause == RaceSpec => []RacesExplained
<1>1. RaceInit => RaceInv
  BY RaceInvInit
<1>2. RaceInv /\ [RaceNext]_raceVars => RaceInv'
  BY RaceInvNext
<1>3. RaceInv => RacesExplained
  BY RaceInvImplies
<1> QED BY <1>1, <1>2, <1>3, PTL DEF RaceSpec

-----------------------------------------------------------------------------
(* A call that is alone.                                                     *)

(* What is ahead of a call that began when every thread was idle, in the     *)
(* second it began in: expected is what becomes of the table from here.      *)
NoneBefore(c) == \A i \in Slots : i < c.at => ~HasKey(i, Key(c.req))
TwinAt(i, r) == HasKey(i, Key(r)) /\ slots[i].req.reg = r.reg
Old(i) == slots[i].valid /\ clock - slots[i].req.time > Timeout
Added(r) == Add(Table, Aged(r))
Released(i) == [Table EXCEPT ![i] = None]

Phase(c) ==
  LET k == Key(c.req)
      twin == SameWrite(Table, k, c.req.reg)
  IN
  /\ c.req.time = clock
  /\ c.op = "same" => expected = Added(c.req) /\ NoneBefore(c)
  /\ c.op = "free" => /\ expected = Added(c.req)
                      /\ \A i \in Slots : ~HasKey(i, k) /\ (i < c.at => slots[i].valid)
  /\ c.op = "put" => expected = [Table EXCEPT ![c.at] = Aged(c.req)]
  /\ c.op = "shift" => expected = [i \in Slots |-> IF i = MaxPending THEN Aged(c.req)
                                                   ELSE IF i < c.at THEN Table[i] ELSE Table[i + 1]]
  /\ c.op = "match" =>
       /\ expected = IF SameKey(Table, k) = {} THEN Table ELSE Released(Match(Table, k))
       /\ c.found = 0 => NoneBefore(c)
       /\ c.found # 0 =>
            /\ c.found \in Slots /\ c.found < c.at /\ HasKey(c.found, k)
            /\ \A i \in Slots : i < c.at /\ HasKey(i, k) =>
                 /\ slots[i].req.time <= slots[c.found].req.time
                 /\ i < c.found => slots[i].req.time < slots[c.found].req.time
  /\ c.op = "use" => c.found \in Slots /\ expected = Released(c.found)
  /\ c.op = "write" => /\ expected = IF twin # {} THEN Released(First(twin)) ELSE Added(c.req)
                       /\ \A i \in Slots : i < c.at => ~TwinAt(i, c.req)
  /\ c.op = "confirm" => /\ expected = IF twin # {} THEN Released(First(twin)) ELSE Table
                         /\ \A i \in Slots : i < c.at => ~TwinAt(i, c.req)
  /\ c.op \in {"clean", "drop"} => expected = Cleanup(Table) /\ \A i \in Slots : i < c.at => ~Old(i)
  /\ c.op = "drop" => Old(c.at)

Solo ==
  expected # None =>
    /\ \A t, u \in Threads : t # u => call[t] = Idle \/ call[u] = Idle
    /\ (\A t \in Threads : call[t] = Idle) => Table = expected
    /\ \A t \in Threads : call[t] # Idle => Phase(call[t])

(* The table as PendingTable sees it.                                        *)
LEMMA TableIs ==
  ASSUME RaceTypeOK
  PROVE  /\ \A i \in Slots : Table[i] = IF slots[i].valid THEN Aged(slots[i].req) ELSE None
         /\ \A i \in Slots : slots[i].valid => Aged(slots[i].req) # None
         /\ \A i \in Slots : slots[i].valid => Table[i].age = clock - slots[i].req.time
         /\ \A k : SameKey(Table, k) = {i \in Slots : HasKey(i, k)}
         /\ FreeSlots(Table) = {i \in Slots : ~slots[i].valid}
         /\ \A k, reg : SameWrite(Table, k, reg) = {i \in Slots : HasKey(i, k) /\ slots[i].req.reg = reg}
<1>1. \A i \in Slots : slots[i].valid => Aged(slots[i].req) \in [chan : Nat, slave : Nat, func : Nat, reg : Nat, age : Int]
  BY DEF RaceTypeOK, Stamped, Aged
<1>2. \A i \in Slots : slots[i].valid => Aged(slots[i].req) # None
  BY <1>1, UnusedAssumption
<1>3. \A i \in Slots : Table[i] = IF slots[i].valid THEN Aged(slots[i].req) ELSE None
  BY DEF Table
<1>4. \A r : Key(Aged(r)) = Key(r) /\ Aged(r).reg = r.reg
  BY DEF Key, Aged
<1>5. \A k : SameKey(Table, k) = {i \in Slots : HasKey(i, k)}
  BY <1>2, <1>3, <1>4 DEF SameKey, HasKey
<1>6. FreeSlots(Table) = {i \in Slots : ~slots[i].valid}
  BY <1>2, <1>3 DEF FreeSlots
<1>7. \A k, reg : SameWrite(Table, k, reg) = {i \in Slots : HasKey(i, k) /\ slots[i].req.reg = reg}
  BY <1>3, <1>4, <1>5 DEF SameWrite, HasKey
<1>8. \A r : Aged(r).age = clock - r.time
  BY DEF Aged
<1>9. \A i \in Slots : slots[i].valid => Table[i].age = clock - slots[i].req.time
  BY <1>3, <1>8
<1> QED BY <1>2, <1>3, <1>5, <1>6, <1>7, <1>9

(* The first slot of some is the one with none before it.                    *)
LEMMA FirstIs ==
  ASSUME NEW S \in SUBSET Slots, NEW i \in S, \A j \in Slots : j < i => j \notin S
  PROVE  First(S) = i
<1>1. \A j \in S : i <= j /\ (j <= i => j = i)
  BY DEF Slots
<1> QED BY <1>1 DEF First

(* One thread moves on while the others are idle.                            *)
LEMMA SoloStep ==
  ASSUME Solo, expected # None, expected' = expected,
         NEW t \in Threads, call[t] # Idle, NEW c, call'[t] = c,
         \A u \in Threads : u # t /\ call[u] = Idle => call'[u] = Idle,
         c = Idle => Table' = expected,
         c # Idle => Phase(c)'
  PROVE  Solo'
<1>1. \A u \in Threads : u # t => call[u] = Idle /\ call'[u] = Idle
  BY DEF Solo
<1>2. \A u \in Threads : call'[u] # Idle => u = t
  BY <1>1
<1>3. (\A u \in Threads : call'[u] = Idle) => Table' = expected
  OBVIOUS
<1>4. ASSUME NEW u \in Threads, call'[u] # Idle PROVE Phase(call[u])'
  BY <1>2, <1>4
<1> QED BY <1>2, <1>3, <1>4 DEF Solo

(* What is ahead depends on the table and the clock alone.                   *)
LEMMA PhaseKept ==
  ASSUME UNCHANGED <<slots, clock, expected>>, NEW c, Phase(c) PROVE Phase(c)'
<1>1. Table' = Table
  BY DEF Table, Aged
<1>2. \A r : Added(r)' = Added(r)
  BY <1>1 DEF Added, Aged
<1>3. \A i : Released(i)' = Released(i)
  BY <1>1 DEF Released
<1>4. \A i, k : HasKey(i, k)' = HasKey(i, k)
  BY DEF HasKey
<1> QED BY <1>1, <1>2, <1>3, <1>4 DEF Phase, NoneBefore, TwinAt, Old, Aged, HasKey

(* It only looks.                                                            *)
LEMMA LookSolo ==
  ASSUME RaceInv, Solo, NEW t \in Threads, call[t] # Idle, NEW c, Becomes(t, c),
         UNCHANGED <<slots, clock, expected>>, expected # None,
         c = Idle => Table = expected,
         c # Idle => Phase(c)
  PROVE  Solo'
<1>1. call'[t] = c /\ \A u \in Threads : u # t => call'[u] = call[u]
  BY DEF RaceInv, RaceTypeOK, Becomes
<1>2. Table' = Table
  BY DEF Table, Aged
<1> QED BY <1>1, <1>2, PhaseKept, SoloStep

(* The searches of add_pending_request.                                      *)
LEMMA AddedFound ==
  ASSUME RaceTypeOK, NEW r, NEW i \in Slots
  PROVE  /\ HasKey(i, Key(r)) /\ (\A j \in Slots : j < i => ~HasKey(j, Key(r)))
              => Added(r) = [Table EXCEPT ![i] = Aged(r)]
         /\ (\A j \in Slots : ~HasKey(j, Key(r))) /\ ~slots[i].valid /\ (\A j \in Slots : j < i => slots[j].valid)
              => Added(r) = [Table EXCEPT ![i] = Aged(r)]
         /\ (\A j \in Slots : ~HasKey(j, Key(r)) /\ slots[j].valid)
              => Added(r) = [j \in Slots |-> IF j = MaxPending THEN Aged(r) ELSE Table[j + 1]]
<1> DEFINE same == SameKey(Table, Key(Aged(r)))
           free == FreeSlots(Table)
<1>1. same = {j \in Slots : HasKey(j, Key(r))} /\ free = {j \in Slots : ~slots[j].valid}
  <2>1. Key(Aged(r)) = Key(r)
    BY DEF Key, Aged
  <2> QED BY <2>1, TableIs
<1>2. Added(r) = IF same # {} THEN [Table EXCEPT ![First(same)] = Aged(r)]
                 ELSE IF free # {} THEN [Table EXCEPT ![First(free)] = Aged(r)]
                 ELSE ShiftIn(Table, Aged(r))
  BY DEF Added, Add
<1> HIDE DEF same, free
<1>3. ASSUME HasKey(i, Key(r)), \A j \in Slots : j < i => ~HasKey(j, Key(r))
      PROVE  Added(r) = [Table EXCEPT ![i] = Aged(r)]
  <2>1. i \in same /\ same \subseteq Slots /\ \A j \in Slots : j < i => j \notin same
    BY <1>1, <1>3
  <2>2. First(same) = i
    BY <2>1, FirstIs
  <2> QED BY <1>2, <2>1, <2>2
<1>4. ASSUME \A j \in Slots : ~HasKey(j, Key(r)), ~slots[i].valid, \A j \in Slots : j < i => slots[j].valid
      PROVE  Added(r) = [Table EXCEPT ![i] = Aged(r)]
  <2>1. same = {} /\ i \in free /\ free \subseteq Slots /\ \A j \in Slots : j < i => j \notin free
    BY <1>1, <1>4
  <2>2. First(free) = i
    BY <2>1, FirstIs
  <2> QED BY <1>2, <2>1, <2>2
<1>5. ASSUME \A j \in Slots : ~HasKey(j, Key(r)) /\ slots[j].valid
      PROVE  Added(r) = [j \in Slots |-> IF j = MaxPending THEN Aged(r) ELSE Table[j + 1]]
  <2>1. same = {} /\ free = {}
    BY <1>1, <1>5
  <2> QED BY <1>2, <2>1 DEF ShiftIn
<1> QED BY <1>3, <1>4, <1>5

LEMMA SameSolo ==
  ASSUME RaceInv, Solo, NEW t \in Threads, Same(t), expected # None PROVE Solo'
<1>1. PICK b : b = call[t]
  OBVIOUS
<1>2. b \in Call /\ b.op = "same" /\ b # Idle /\ b.at \in Slots /\ RaceTypeOK
  BY <1>1 DEF RaceInv, RaceTypeOK, Same, Is, Call, Idle
<1>3. Phase(b)
  BY <1>1, <1>2 DEF Solo
<1>4. b.req.time = clock /\ expected = Added(b.req) /\ NoneBefore(b)
  BY <1>2, <1>3 DEF Phase
<1>5. CASE Choose(t) /\ HasKey(b.at, Key(b.req))
  <2>1. PICK c : c = [b EXCEPT !.op = "put"]
    OBVIOUS
  <2>2. c.op = "put" /\ c.at = b.at /\ c.req = b.req /\ c # Idle
    BY <1>2, <2>1 DEF Call, Idle
  <2>3. Becomes(t, c) /\ UNCHANGED <<slots, clock, expected>>
    BY <1>1, <1>5, <2>1 DEF Choose, Unwritten, Fixed
  <2>4. Added(b.req) = [Table EXCEPT ![b.at] = Aged(b.req)]
    BY <1>2, <1>4, <1>5, AddedFound DEF NoneBefore
  <2>5. Phase(c)
    BY <1>4, <2>2, <2>4 DEF Phase
  <2> QED BY <1>1, <1>2, <2>2, <2>3, <2>5, LookSolo
<1>6. CASE ~HasKey(b.at, Key(b.req)) /\ NextSlot(t) /\ UNCHANGED <<slots, clock, expected>>
  <2>1. PICK c : c = [b EXCEPT !.at = @ + 1]
    OBVIOUS
  <2>2. c.op = "same" /\ c.at = b.at + 1 /\ c.req = b.req /\ c # Idle
    BY <1>2, <2>1 DEF Call, Idle
  <2>3. Becomes(t, c)
    BY <1>1, <1>6, <2>1 DEF NextSlot
  <2>4. NoneBefore(c)
    BY <1>2, <1>4, <1>6, <2>2 DEF NoneBefore
  <2>5. Phase(c)
    BY <1>4, <2>2, <2>4 DEF Phase
  <2> QED BY <1>1, <1>2, <1>6, <2>2, <2>3, <2>5, LookSolo
<1>7. CASE /\ ~HasKey(b.at, Key(b.req)) /\ LastSlot(t) /\ UNCHANGED <<slots, clock, expected>>
           /\ Becomes(t, [b EXCEPT !.op = "free", !.at = 1])
  <2>1. PICK c : c = [b EXCEPT !.op = "free", !.at = 1]
    OBVIOUS
  <2>2. c.op = "free" /\ c.at = 1 /\ c.req = b.req /\ c # Idle
    BY <1>2, <2>1 DEF Call, Idle
  <2>3. \A i \in Slots : ~HasKey(i, Key(b.req))
    BY <1>1, <1>2, <1>4, <1>7 DEF NoneBefore, LastSlot
  <2>4. Phase(c)
    BY <1>4, <2>2, <2>3 DEF Phase
  <2> QED BY <1>1, <1>2, <1>7, <2>1, <2>2, <2>4, LookSolo
<1> QED BY <1>1, <1>5, <1>6, <1>7 DEF Same, Unwritten, Fixed

LEMMA FreeSolo ==
  ASSUME RaceInv, Solo, NEW t \in Threads, Free(t), expected # None PROVE Solo'
<1>1. PICK b : b = call[t]
  OBVIOUS
<1>2. b \in Call /\ b.op = "free" /\ b # Idle /\ b.at \in Slots /\ RaceTypeOK
  BY <1>1 DEF RaceInv, RaceTypeOK, Free, Is, Call, Idle
<1>3. Phase(b)
  BY <1>1, <1>2 DEF Solo
<1>4. /\ b.req.time = clock /\ expected = Added(b.req)
      /\ \A i \in Slots : ~HasKey(i, Key(b.req)) /\ (i < b.at => slots[i].valid)
  BY <1>2, <1>3 DEF Phase
<1>5. CASE Choose(t) /\ ~slots[b.at].valid
  <2>1. PICK c : c = [b EXCEPT !.op = "put"]
    OBVIOUS
  <2>2. c.op = "put" /\ c.at = b.at /\ c.req = b.req /\ c # Idle
    BY <1>2, <2>1 DEF Call, Idle
  <2>3. Becomes(t, c) /\ UNCHANGED <<slots, clock, expected>>
    BY <1>1, <1>5, <2>1 DEF Choose, Unwritten, Fixed
  <2>4. Added(b.req) = [Table EXCEPT ![b.at] = Aged(b.req)]
    BY <1>2, <1>4, <1>5, AddedFound
  <2>5. Phase(c)
    BY <1>4, <2>2, <2>4 DEF Phase
  <2> QED BY <1>1, <1>2, <2>2, <2>3, <2>5, LookSolo
<1>6. CASE slots[b.at].valid /\ NextSlot(t) /\ UNCHANGED <<slots, clock, expected>>
  <2>1. PICK c : c = [b EXCEPT !.at = @ + 1]
    OBVIOUS
  <2>2. c.op = "free" /\ c.at = b.at + 1 /\ c.req = b.req /\ c # Idle
    BY <1>2, <2>1 DEF Call, Idle
  <2>3. Becomes(t, c)
    BY <1>1, <1>6, <2>1 DEF NextSlot
  <2>4. \A i \in Slots : i < c.at => slots[i].valid
    BY <1>2, <1>4, <1>6, <2>2
  <2>5. Phase(c)
    BY <1>4, <2>2, <2>4 DEF Phase
  <2> QED BY <1>1, <1>2, <1>6, <2>2, <2>3, <2>5, LookSolo
<1>7. CASE /\ slots[b.at].valid /\ LastSlot(t) /\ UNCHANGED <<slots, clock, expected>>
           /\ Becomes(t, [b EXCEPT !.op = "shift", !.at = 1])
  <2>1. PICK c : c = [b EXCEPT !.op = "shift", !.at = 1]
    OBVIOUS
  <2>2. c.op = "shift" /\ c.at = 1 /\ c.req = b.req /\ c # Idle
    BY <1>2, <2>1 DEF Call, Idle
  <2>3. \A i \in Slots : slots[i].valid
    BY <1>1, <1>2, <1>4, <1>7 DEF LastSlot
  <2>4. Added(b.req) = [i \in Slots |-> IF i = MaxPending THEN Aged(b.req) ELSE Table[i + 1]]
    BY <1>2, <1>4, <2>3, AddedFound
  <2>5. \A i \in Slots : ~(i < c.at)
    BY <2>2
  <2>6. Phase(c)
    BY <1>4, <2>2, <2>4, <2>5 DEF Phase
  <2> QED BY <1>1, <1>2, <1>7, <2>1, <2>2, <2>6, LookSolo
<1> QED BY <1>1, <1>5, <1>6, <1>7 DEF Free, Unwritten, Fixed

(* The searches of the matches.                                              *)
LEMMA LookAhead ==
  ASSUME RaceInv, Solo, NEW t \in Threads, Look(t), expected # None PROVE Solo'
<1>1. PICK b : b = call[t]
  OBVIOUS
<1>2. b \in Call /\ b.op = "match" /\ b # Idle /\ b.at \in Slots /\ RaceTypeOK
  BY <1>1 DEF RaceInv, RaceTypeOK, Look, Is, Call, Idle
<1>3. Phase(b)
  BY <1>1, <1>2 DEF Solo
<1> DEFINE k == Key(b.req)
           better == HasKey(b.at, k) /\ (b.found = 0 \/ slots[b.at].req.time > slots[b.found].req.time)
<1>4. PICK seen : seen = IF better THEN [b EXCEPT !.found = b.at, !.lost = FALSE] ELSE b
  OBVIOUS
<1>5. /\ seen \in Call /\ seen.op = "match" /\ seen.at = b.at /\ seen.req = b.req
      /\ seen.found = IF better THEN b.at ELSE b.found
  BY <1>2, <1>4 DEF Call
<1>6. /\ \/ b.at < MaxPending /\ Becomes(t, [seen EXCEPT !.at = @ + 1])
         \/ b.at = MaxPending /\ seen.found = 0 /\ Becomes(t, Idle)
         \/ b.at = MaxPending /\ seen.found # 0 /\ Becomes(t, [seen EXCEPT !.op = "use"])
      /\ UNCHANGED <<slots, clock, expected>>
  BY <1>1, <1>4 DEF Look, LastSlot, Unwritten, Fixed
<1>7. /\ b.req.time = clock
      /\ expected = IF SameKey(Table, k) = {} THEN Table ELSE Released(Match(Table, k))
      /\ b.found = 0 => \A i \in Slots : i < b.at => ~HasKey(i, k)
      /\ b.found # 0 =>
            /\ b.found \in Slots /\ b.found < b.at /\ HasKey(b.found, k)
            /\ \A i \in Slots : i < b.at /\ HasKey(i, k) =>
                 /\ slots[i].req.time <= slots[b.found].req.time
                 /\ i < b.found => slots[i].req.time < slots[b.found].req.time
  BY <1>2, <1>3 DEF Phase, NoneBefore
<1>8. \A i \in Slots : slots[i].req.time \in Nat
  BY <1>2 DEF RaceTypeOK, Stamped
<1>9. /\ seen.found = 0 => \A i \in Slots : i <= b.at => ~HasKey(i, k)
      /\ seen.found # 0 =>
            /\ seen.found \in Slots /\ seen.found <= b.at /\ HasKey(seen.found, k)
            /\ \A i \in Slots : i <= b.at /\ HasKey(i, k) =>
                 /\ slots[i].req.time <= slots[seen.found].req.time
                 /\ i < seen.found => slots[i].req.time < slots[seen.found].req.time
  <2>1. CASE better
    <3>1. seen.found = b.at /\ seen.found # 0 /\ HasKey(b.at, k)
      BY <1>2, <1>5, <2>1
    <3>2. ASSUME NEW i \in Slots, i < b.at, HasKey(i, k) PROVE slots[i].req.time < slots[b.at].req.time
      BY <1>2, <1>7, <1>8, <2>1, <3>2
    <3> QED BY <1>2, <1>8, <3>1, <3>2
  <2>2. CASE ~better /\ b.found = 0
    BY <1>2, <1>5, <1>7, <2>2
  <2>3. CASE ~better /\ b.found # 0
    <3>1. HasKey(b.at, k) => slots[b.at].req.time <= slots[b.found].req.time
      BY <1>2, <1>7, <1>8, <2>3
    <3> QED BY <1>2, <1>5, <1>7, <2>3, <3>1
  <2> QED BY <2>1, <2>2, <2>3
<1> HIDE DEF k, better
<1>10. CASE b.at < MaxPending /\ Becomes(t, [seen EXCEPT !.at = @ + 1])
  <2>1. PICK c : c = [seen EXCEPT !.at = @ + 1]
    OBVIOUS
  <2>2. c.op = "match" /\ c.at = b.at + 1 /\ c.req = b.req /\ c.found = seen.found /\ c # Idle
    BY <1>5, <2>1 DEF Call, Idle
  <2>3. \A i \in Slots : i < c.at <=> i <= b.at
    BY <1>2, <2>2
  <2>4. Phase(c)
    BY <1>2, <1>7, <1>9, <2>2, <2>3 DEF Phase, NoneBefore, k
  <2> QED BY <1>1, <1>2, <1>6, <1>10, <2>1, <2>2, <2>4, LookSolo
<1>11. \A i \in Slots : i <= MaxPending
  OBVIOUS
<1>12. CASE b.at = MaxPending /\ seen.found = 0 /\ Becomes(t, Idle)
  <2>1. SameKey(Table, k) = {}
    BY <1>2, <1>9, <1>11, <1>12, TableIs
  <2> QED BY <1>1, <1>2, <1>6, <1>7, <1>12, <2>1, LookSolo
<1>13. CASE b.at = MaxPending /\ seen.found # 0 /\ Becomes(t, [seen EXCEPT !.op = "use"])
  <2>1. PICK c : c = [seen EXCEPT !.op = "use"]
    OBVIOUS
  <2>2. c.op = "use" /\ c.req = b.req /\ c.found = seen.found /\ c # Idle
    BY <1>5, <2>1 DEF Call, Idle
  <2> DEFINE f == seen.found
             youngest == {i \in SameKey(Table, k) : \A j \in SameKey(Table, k) : Table[i].age <= Table[j].age}
  <2>3. /\ f \in Slots /\ HasKey(f, k)
        /\ \A i \in Slots : HasKey(i, k) =>
             /\ slots[i].req.time <= slots[f].req.time
             /\ i < f => slots[i].req.time < slots[f].req.time
    BY <1>9, <1>11, <1>13
  <2>4. SameKey(Table, k) = {i \in Slots : HasKey(i, k)}
    BY <1>2, TableIs
  <2>5. \A i \in SameKey(Table, k) : Table[i].age = clock - slots[i].req.time
    BY <1>2, <2>4, TableIs DEF HasKey
  <2>6. clock \in Nat
    BY <1>2 DEF RaceTypeOK
  <2> HIDE DEF f
  <2>7. f \in youngest /\ youngest \subseteq Slots /\ \A j \in Slots : j < f => j \notin youngest
    BY <1>8, <2>3, <2>4, <2>5, <2>6
  <2>8. Match(Table, k) = f
    BY <2>7, FirstIs DEF Match
  <2>9. expected = Released(f)
    BY <1>7, <2>3, <2>4, <2>8
  <2>10. Phase(c)
    BY <1>7, <2>2, <2>3, <2>9 DEF Phase, f
  <2> QED BY <1>1, <1>2, <1>6, <1>13, <2>1, <2>2, <2>10, LookSolo
<1> QED BY <1>6, <1>10, <1>12, <1>13

LEMMA TwinSolo ==
  ASSUME RaceInv, Solo, NEW t \in Threads, Twin(t), expected # None PROVE Solo'
<1>1. PICK b : b = call[t]
  OBVIOUS
<1>2. b \in Call /\ b.op \in {"write", "confirm"} /\ b # Idle /\ b.at \in Slots /\ RaceTypeOK
  BY <1>1 DEF RaceInv, RaceTypeOK, Twin, Call, Idle
<1>3. Phase(b)
  BY <1>1, <1>2 DEF Solo
<1> DEFINE twin == SameWrite(Table, Key(b.req), b.req.reg)
<1>4. /\ b.req.time = clock
      /\ expected = IF twin # {} THEN Released(First(twin))
                    ELSE IF b.op = "write" THEN Added(b.req) ELSE Table
      /\ \A i \in Slots : i < b.at => ~TwinAt(i, b.req)
  BY <1>2, <1>3 DEF Phase
<1>5. twin = {i \in Slots : TwinAt(i, b.req)}
  BY <1>2, TableIs DEF TwinAt
<1>6. UNCHANGED <<slots, clock, expected>>
  BY DEF Twin, Unwritten, Fixed
<1> HIDE DEF twin
<1>7. CASE TwinAt(b.at, b.req) /\ Becomes(t, [b EXCEPT !.op = "use", !.found = b.at])
  <2>1. PICK c : c = [b EXCEPT !.op = "use", !.found = b.at]
    OBVIOUS
  <2>2. c.op = "use" /\ c.found = b.at /\ c.req = b.req /\ c # Idle
    BY <1>2, <2>1 DEF Call, Idle
  <2>3. b.at \in twin /\ twin \subseteq Slots /\ \A j \in Slots : j < b.at => j \notin twin
    BY <1>2, <1>4, <1>5, <1>7
  <2>4. expected = Released(b.at)
    BY <1>4, <2>3, FirstIs
  <2>5. Phase(c)
    BY <1>2, <1>4, <2>2, <2>4 DEF Phase
  <2> QED BY <1>1, <1>2, <1>6, <1>7, <2>1, <2>2, <2>5, LookSolo
<1>8. CASE ~TwinAt(b.at, b.req) /\ NextSlot(t)
  <2>1. PICK c : c = [b EXCEPT !.at = @ + 1]
    OBVIOUS
  <2>2. c.op = b.op /\ c.at = b.at + 1 /\ c.req = b.req /\ c # Idle
    BY <1>2, <2>1 DEF Call, Idle
  <2>3. Becomes(t, c)
    BY <1>1, <1>8, <2>1 DEF NextSlot
  <2>4. \A i \in Slots : i < c.at => ~TwinAt(i, b.req)
    BY <1>2, <1>4, <1>8, <2>2
  <2>5. Phase(c)
    BY <1>2, <1>4, <2>2, <2>4 DEF Phase, twin
  <2> QED BY <1>1, <1>2, <1>6, <2>2, <2>3, <2>5, LookSolo
<1>9. ASSUME ~TwinAt(b.at, b.req), LastSlot(t) PROVE twin = {}
  BY <1>1, <1>2, <1>4, <1>5, <1>9 DEF LastSlot
<1>10. CASE /\ ~TwinAt(b.at, b.req) /\ LastSlot(t) /\ b.op = "write"
            /\ Becomes(t, [b EXCEPT !.op = "same", !.at = 1])
  <2>1. PICK c : c = [b EXCEPT !.op = "same", !.at = 1]
    OBVIOUS
  <2>2. c.op = "same" /\ c.at = 1 /\ c.req = b.req /\ c # Idle
    BY <1>2, <2>1 DEF Call, Idle
  <2>3. expected = Added(b.req)
    BY <1>4, <1>9, <1>10
  <2>4. NoneBefore(c)
    BY <2>2 DEF NoneBefore
  <2>5. Phase(c)
    BY <1>4, <2>2, <2>3, <2>4 DEF Phase
  <2> QED BY <1>1, <1>2, <1>6, <1>10, <2>1, <2>2, <2>5, LookSolo
<1>11. CASE ~TwinAt(b.at, b.req) /\ LastSlot(t) /\ b.op = "confirm" /\ Becomes(t, Idle)
  <2>1. expected = Table
    BY <1>4, <1>9, <1>11
  <2> QED BY <1>1, <1>2, <1>6, <1>11, <2>1, LookSolo
<1> QED BY <1>1, <1>7, <1>8, <1>10, <1>11 DEF Twin, TwinAt

(* cleanup_timeout_requests looks at a slot.                                 *)
LEMMA SweepSolo ==
  ASSUME RaceInv, Solo, NEW t \in Threads, Sweep(t), expected # None PROVE Solo'
<1>1. PICK b : b = call[t]
  OBVIOUS
<1>2. b \in Call /\ b.op = "clean" /\ b # Idle /\ b.at \in Slots /\ RaceTypeOK
  BY <1>1 DEF RaceInv, RaceTypeOK, Sweep, Is, Call, Idle
<1>3. Phase(b)
  BY <1>1, <1>2 DEF Solo
<1>4. /\ b.req.time = clock /\ expected = Cleanup(Table) /\ \A i \in Slots : i < b.at => ~Old(i)
  BY <1>2, <1>3 DEF Phase
<1>5. /\ \/ Old(b.at) /\ Becomes(t, [b EXCEPT !.op = "drop"])
         \/ ~Old(b.at) /\ (NextSlot(t) \/ (LastSlot(t) /\ Becomes(t, Idle)))
      /\ UNCHANGED <<slots, clock, expected>>
  BY <1>1, <1>4 DEF Sweep, Unwritten, Fixed, Old
<1>6. CASE Old(b.at) /\ Becomes(t, [b EXCEPT !.op = "drop"])
  <2>1. PICK c : c = [b EXCEPT !.op = "drop"]
    OBVIOUS
  <2>2. c.op = "drop" /\ c.at = b.at /\ c.req = b.req /\ c # Idle
    BY <1>2, <2>1 DEF Call, Idle
  <2>3. Phase(c)
    BY <1>4, <1>6, <2>2 DEF Phase
  <2> QED BY <1>1, <1>2, <1>5, <1>6, <2>1, <2>2, <2>3, LookSolo
<1>7. CASE ~Old(b.at) /\ NextSlot(t)
  <2>1. PICK c : c = [b EXCEPT !.at = @ + 1]
    OBVIOUS
  <2>2. c.op = "clean" /\ c.at = b.at + 1 /\ c.req = b.req /\ c # Idle
    BY <1>2, <2>1 DEF Call, Idle
  <2>3. \A i \in Slots : i < c.at => ~Old(i)
    BY <1>2, <1>4, <1>7, <2>2
  <2>4. Phase(c)
    BY <1>4, <2>2, <2>3 DEF Phase
  <2>5. Becomes(t, c)
    BY <1>1, <1>7, <2>1 DEF NextSlot
  <2> QED BY <1>1, <1>2, <1>5, <2>2, <2>4, <2>5, LookSolo
<1>8. CASE ~Old(b.at) /\ LastSlot(t) /\ Becomes(t, Idle)
  <2>1. \A i \in Slots : ~Old(i)
    BY <1>1, <1>2, <1>4, <1>8 DEF LastSlot
  <2>2. \A i \in Slots : ~(Table[i] # None /\ Table[i].age > Timeout)
    BY <1>2, <2>1, TableIs DEF Old
  <2>3. Cleanup(Table) = [i \in Slots |-> Table[i]]
    BY <2>2 DEF Cleanup
  <2>4. Table = [i \in Slots |-> Table[i]]
    BY DEF Table
  <2> QED BY <1>1, <1>2, <1>4, <1>5, <1>8, <2>3, <2>4, LookSolo
<1> QED BY <1>5, <1>6, <1>7, <1>8

(* It writes a slot.                                                         *)
LEMMA PutSolo ==
  ASSUME RaceInv, Solo, NEW t \in Threads, Put(t), expected # None PROVE Solo'
<1>1. PICK b : b = call[t]
  OBVIOUS
<1>2. b \in Call /\ b.op = "put" /\ b # Idle /\ b.at \in Slots /\ RaceTypeOK
  BY <1>1 DEF RaceInv, RaceTypeOK, Put, Is, Call, Idle
<1>3. Phase(b)
  BY <1>1, <1>2 DEF Solo
<1>4. expected = [Table EXCEPT ![b.at] = Aged(b.req)]
  BY <1>2, <1>3 DEF Phase
<1>5. /\ call' = [call EXCEPT ![t] = Idle] /\ UNCHANGED <<clock, expected>>
      /\ slots' = [slots EXCEPT ![b.at] = [valid |-> TRUE, req |-> b.req]]
  BY <1>1 DEF Put, Becomes, Fixed
<1>6. call'[t] = Idle /\ \A u \in Threads : u # t => call'[u] = call[u]
  BY <1>2, <1>5 DEF RaceTypeOK
<1>7. /\ slots'[b.at].valid /\ slots'[b.at].req = b.req
      /\ \A i \in Slots : i # b.at => slots'[i] = slots[i]
  BY <1>2, <1>5 DEF RaceTypeOK
<1>8. Table' = expected
  BY <1>2, <1>4, <1>5, <1>7 DEF Table, Aged
<1> QED BY <1>1, <1>2, <1>5, <1>6, <1>8, SoloStep

LEMMA ShiftSolo ==
  ASSUME RaceInv, Solo, NEW t \in Threads, Shift(t), expected # None PROVE Solo'
<1>1. PICK b : b = call[t]
  OBVIOUS
<1>2. b \in Call /\ b.op = "shift" /\ b # Idle /\ b.at \in Slots /\ RaceTypeOK
  BY <1>1 DEF RaceInv, RaceTypeOK, Shift, Is, Call, Idle
<1>3. Phase(b)
  BY <1>1, <1>2 DEF Solo
<1>4. /\ b.req.time = clock
      /\ expected = [i \in Slots |-> IF i = MaxPending THEN Aged(b.req)
                                     ELSE IF i < b.at THEN Table[i] ELSE Table[i + 1]]
  BY <1>2, <1>3 DEF Phase
<1>5. UNCHANGED <<clock, expected>>
  BY DEF Shift, Fixed
<1>6. \A r : Aged(r)' = Aged(r)
  BY <1>5 DEF Aged
<1>7. \A i \in Slots : slots'[i] = slots[i] => Table'[i] = Table[i]
  BY <1>6 DEF Table
<1>8. CASE b.at < MaxPending /\ NextSlot(t) /\ slots' = [slots EXCEPT ![b.at] = slots[b.at + 1]]
  <2>1. PICK c : c = [b EXCEPT !.at = @ + 1]
    OBVIOUS
  <2>2. c.op = "shift" /\ c.at = b.at + 1 /\ c.req = b.req /\ c # Idle
    BY <1>2, <2>1 DEF Call, Idle
  <2>3. call'[t] = c /\ \A u \in Threads : u # t => call'[u] = call[u]
    BY <1>1, <1>2, <1>8, <2>1 DEF NextSlot, Becomes, RaceTypeOK
  <2>4. b.at + 1 \in Slots /\ slots'[b.at] = slots[b.at + 1] /\ \A i \in Slots : i # b.at => slots'[i] = slots[i]
    BY <1>2, <1>8 DEF RaceTypeOK
  <2>5. Table'[b.at] = Table[b.at + 1]
    BY <1>2, <1>6, <2>4 DEF Table
  <2>6. ASSUME NEW i \in Slots
        PROVE  (IF i = MaxPending THEN Aged(b.req) ELSE IF i < b.at THEN Table[i] ELSE Table[i + 1])
               = (IF i = MaxPending THEN Aged(b.req) ELSE IF i < c.at THEN Table'[i] ELSE Table'[i + 1])
    <3>1. CASE i = MaxPending
      BY <3>1
    <3>2. CASE i < b.at
      BY <1>2, <1>7, <2>2, <2>4, <3>2
    <3>3. CASE i = b.at /\ i # MaxPending
      BY <1>2, <2>2, <2>5, <3>3
    <3>4. CASE i > b.at /\ i # MaxPending
      <4>1. i + 1 \in Slots /\ i + 1 # b.at /\ ~(i < b.at) /\ ~(i < c.at)
        BY <1>2, <2>2, <3>4
      <4>2. Table'[i + 1] = Table[i + 1]
        BY <1>7, <2>4, <4>1
      <4> QED BY <4>1, <4>2
    <3> QED BY <1>2, <3>1, <3>2, <3>3, <3>4
  <2>7. expected = [i \in Slots |-> IF i = MaxPending THEN Aged(b.req)
                                    ELSE IF i < c.at THEN Table'[i] ELSE Table'[i + 1]]
    BY <1>4, <2>6
  <2>8. Phase(c)'
    BY <1>4, <1>5, <1>6, <2>2, <2>7 DEF Phase
  <2> QED BY <1>1, <1>2, <1>5, <2>2, <2>3, <2>8, SoloStep
<1>9. CASE b.at = MaxPending /\ Becomes(t, Idle) /\ slots' = [slots EXCEPT ![MaxPending] = [valid |-> TRUE, req |-> b.req]]
  <2>1. call'[t] = Idle /\ \A u \in Threads : u # t => call'[u] = call[u]
    BY <1>2, <1>9 DEF Becomes, RaceTypeOK
  <2>2. /\ slots'[MaxPending].valid /\ slots'[MaxPending].req = b.req
        /\ \A i \in Slots : i # MaxPending => slots'[i] = slots[i] /\ i < b.at
    BY <1>2, <1>9 DEF RaceTypeOK
  <2>3. Table'[MaxPending] = Aged(b.req)
    BY <1>6, <2>2 DEF Table
  <2>4. \A i \in Slots : Table'[i] = IF i = MaxPending THEN Aged(b.req) ELSE Table[i]
    BY <1>7, <2>2, <2>3
  <2>5. Table' = [i \in Slots |-> Table'[i]]
    BY DEF Table
  <2>6. \A i \in Slots : expected[i] = Table'[i]
    BY <1>4, <2>2, <2>4
  <2>7. Table' = expected
    BY <1>4, <2>5, <2>6
  <2> QED BY <1>1, <1>2, <1>5, <2>1, <2>7, SoloStep
<1> QED BY <1>1, <1>8, <1>9 DEF Shift, NextSlot, LastSlot

(* A request is dropped.                                                     *)
LEMMA ClearEffect ==
  ASSUME RaceTypeOK, NEW t \in Threads, NEW i \in Slots, NEW c, Clear(t, i, c), clock' = clock
  PROVE  /\ call'[t] = c
         /\ \A u \in Threads : u # t /\ call[u] = Idle => call'[u] = Idle
         /\ ~slots'[i].valid /\ \A j \in Slots : j # i => slots'[j] = slots[j]
         /\ \A j \in Slots : slots'[j].req = slots[j].req
         /\ Table' = Released(i)
<1>1. /\ slots' = [slots EXCEPT ![i].valid = FALSE]
      /\ call' = [u \in Threads |-> IF u = t THEN c ELSE [call[u] EXCEPT !.lost = @ \/ call[u].found = i]]
  BY DEF Clear
<1>2. [Idle EXCEPT !.lost = @ \/ Idle.found = i] = Idle
  <2>1. PICK e : e = [Idle EXCEPT !.lost = @ \/ Idle.found = i]
    OBVIOUS
  <2>2. Idle \in Call /\ Idle.found = 0 /\ ~Idle.lost
    BY DEF Idle, Blank, Stamped, Call, Places
  <2>3. e \in Call /\ e.op = Idle.op /\ e.at = Idle.at /\ e.found = Idle.found /\ e.req = Idle.req /\ ~e.lost
    BY <2>1, <2>2 DEF Call
  <2>4. \A x, y \in Call : x.op = y.op /\ x.at = y.at /\ x.found = y.found /\ x.req = y.req
                             /\ ~x.lost /\ ~y.lost => x = y
    BY DEF Call
  <2> QED BY <2>1, <2>2, <2>3, <2>4
<1>3. /\ ~slots'[i].valid /\ \A j \in Slots : j # i => slots'[j] = slots[j]
      /\ \A j \in Slots : slots'[j].req = slots[j].req
  BY <1>1 DEF RaceTypeOK
<1>4. Table' = Released(i)
  BY <1>3 DEF Table, Released, Aged
<1> QED BY <1>1, <1>2, <1>3, <1>4

LEMMA RetireSolo ==
  ASSUME RaceInv, Solo, NEW t \in Threads, Retire(t), expected # None PROVE Solo'
<1>1. PICK b : b = call[t]
  OBVIOUS
<1>2. b \in Call /\ b.op = "use" /\ b # Idle /\ RaceTypeOK
  BY <1>1 DEF RaceInv, RaceTypeOK, Retire, Is, Call, Idle
<1>3. Phase(b)
  BY <1>1, <1>2 DEF Solo
<1>4. b.found \in Slots /\ expected = Released(b.found)
  BY <1>2, <1>3 DEF Phase
<1>5. Clear(t, b.found, Idle) /\ clock' = clock /\ expected' = expected
  BY <1>1 DEF Retire, Fixed
<1> QED BY <1>1, <1>2, <1>4, <1>5, ClearEffect, SoloStep

LEMMA DropSolo ==
  ASSUME RaceInv, Solo, NEW t \in Threads, Drop(t), expected # None PROVE Solo'
<1>1. PICK b : b = call[t]
  OBVIOUS
<1>2. b \in Call /\ b.op = "drop" /\ b # Idle /\ b.at \in Slots /\ RaceTypeOK
  BY <1>1 DEF RaceInv, RaceTypeOK, Drop, Is, Call, Idle
<1>3. Phase(b)
  BY <1>1, <1>2 DEF Solo
<1>4. /\ b.req.time = clock /\ expected = Cleanup(Table) /\ Old(b.at)
      /\ \A i \in Slots : i < b.at => ~Old(i)
  BY <1>2, <1>3 DEF Phase
<1>5. clock' = clock /\ expected' = expected
  BY DEF Drop, Fixed
<1>6. PICK c : /\ Clear(t, b.at, c)
               /\ \/ b.at < MaxPending /\ c = [b EXCEPT !.op = "clean", !.at = @ + 1]
                  \/ b.at = MaxPending /\ c = Idle
  BY <1>1 DEF Drop, LastSlot
<1>7. /\ call'[t] = c /\ \A u \in Threads : u # t /\ call[u] = Idle => call'[u] = Idle
      /\ ~slots'[b.at].valid /\ \A j \in Slots : j # b.at => slots'[j] = slots[j]
      /\ Table' = Released(b.at)
  BY <1>2, <1>5, <1>6, ClearEffect
<1>8. \A i \in Slots : Old(i)' <=> (i # b.at /\ Old(i))
  BY <1>5, <1>7 DEF Old
<1>9. \A i \in Slots : (Table[i] # None /\ Table[i].age > Timeout) <=> Old(i)
  BY <1>2, TableIs DEF Old
<1>10. Cleanup(Table) = [i \in Slots |-> IF Old(i) THEN None ELSE Table[i]]
  BY <1>9 DEF Cleanup
<1>11. \A i \in Slots : Table'[i] = IF i = b.at THEN None ELSE Table[i]
  BY <1>2, <1>7 DEF Released, Table
<1>12. CASE c = Idle /\ b.at = MaxPending
  <2>1. \A i \in Slots : i # b.at => ~Old(i)
    BY <1>2, <1>4, <1>12
  <2>2. Table' = [i \in Slots |-> Table'[i]]
    BY DEF Table
  <2>3. Table' = expected
    BY <1>4, <1>10, <1>11, <2>1, <2>2
  <2> QED BY <1>1, <1>2, <1>5, <1>7, <1>12, <2>3, SoloStep
<1>13. CASE c = [b EXCEPT !.op = "clean", !.at = @ + 1]
  <2>1. c.op = "clean" /\ c.at = b.at + 1 /\ c.req = b.req /\ c # Idle
    <3>1. PICK e : e = [b EXCEPT !.op = "clean"]
      OBVIOUS
    <3>2. e \in Call /\ e.op = "clean" /\ e.at = b.at /\ e.req = b.req
      BY <1>2, <3>1 DEF Call, Places, Kinds
    <3>3. c = [e EXCEPT !.at = @ + 1]
      BY <1>2, <1>13, <3>1, <3>2 DEF Call
    <3> QED BY <3>2, <3>3 DEF Call, Idle
  <2>2. \A i \in Slots : i < c.at => ~Old(i)'
    BY <1>2, <1>4, <1>8, <2>1
  <2>3. Cleanup(Table)' = Cleanup(Table)
    <3>1. \A i \in Slots : (Table'[i] # None /\ Table'[i].age > Timeout) <=> (i # b.at /\ Old(i))
      BY <1>9, <1>11
    <3>2. Cleanup(Table)' = [i \in Slots |-> IF i # b.at /\ Old(i) THEN None ELSE Table'[i]]
      BY <3>1 DEF Cleanup
    <3> QED BY <1>4, <1>10, <1>11, <3>2
  <2>4. Phase(c)'
    BY <1>4, <1>5, <2>1, <2>2, <2>3 DEF Phase
  <2> QED BY <1>1, <1>2, <1>5, <1>7, <2>1, <2>4, SoloStep
<1> QED BY <1>6, <1>12, <1>13

(* A call begins: alone, or nothing is expected of it.                       *)
LEMMA BeginSolo ==
  ASSUME RaceInv, Solo, NEW t \in Threads, NEW job \in Jobs[lineup], Begin(t, job) PROVE Solo'
<1>1. PICK r : r = [chan |-> job.chan, slave |-> job.slave, func |-> job.func, reg |-> job.reg, time |-> clock]
  OBVIOUS
<1>2. PICK c : c = [op |-> job.kind, at |-> 1, found |-> 0, req |-> r, lost |-> FALSE]
  OBVIOUS
<1>3. /\ call' = [call EXCEPT ![t] = c] /\ UNCHANGED <<slots, clock>> /\ call[t] = Idle
      /\ expected' = IF \A u \in Threads : call[u] = Idle THEN Atomically(job.kind, r) ELSE None
  BY <1>1, <1>2 DEF Begin, Becomes, Unwritten
<1>4. job.kind \in Kinds
  BY JobsAssumption DEF RaceInv, RaceTypeOK, Job
<1>5. c.op = job.kind /\ c.at = 1 /\ c.found = 0 /\ c.req = r /\ c # Idle /\ r.time = clock
  BY <1>1, <1>2, <1>4 DEF Kinds, Idle
<1>6. CASE ~\A u \in Threads : call[u] = Idle
  BY <1>3, <1>6 DEF Solo
<1>7. CASE \A u \in Threads : call[u] = Idle
  <2>1. call'[t] = c /\ \A u \in Threads : u # t => call'[u] = Idle
    BY <1>3, <1>7 DEF RaceInv, RaceTypeOK
  <2>2. expected' = Atomically(job.kind, r)
    BY <1>3, <1>7
  <2>3. /\ Table' = Table /\ \A q : Added(q)' = Added(q) /\ Aged(q)' = Aged(q)
        /\ \A i : Released(i)' = Released(i)
    BY <1>3 DEF Table, Aged, Added, Released
  <2> DEFINE k == Key(r)
             twin == SameWrite(Table, k, r.reg)
  <2>4. /\ job.kind = "same" => expected' = Added(r)
        /\ job.kind = "match" => expected' = IF SameKey(Table, k) = {} THEN Table ELSE Released(Match(Table, k))
        /\ job.kind = "write" => expected' = IF twin # {} THEN Released(First(twin)) ELSE Added(r)
        /\ job.kind = "confirm" => expected' = IF twin # {} THEN Released(First(twin)) ELSE Table
        /\ job.kind = "clean" => expected' = Cleanup(Table)
    BY <2>2 DEF Atomically, Added, Released, Release
  <2>5. \A i \in Slots : ~(i < c.at)
    BY <1>5
  <2>6. Phase(c)'
    BY <1>3, <1>4, <1>5, <2>3, <2>4, <2>5 DEF Phase, NoneBefore, Kinds
  <2>7. ~\A u \in Threads : call'[u] = Idle
    BY <1>5, <2>1
  <2>8. ASSUME NEW u \in Threads, call'[u] # Idle PROVE Phase(call[u])'
    <3>1. u = t
      BY <2>1, <2>8
    <3> QED BY <2>1, <2>6, <3>1
  <2> QED BY <2>1, <2>7, <2>8 DEF Solo
<1> QED BY <1>6, <1>7

LEMMA SoloNext == RaceInv /\ Solo /\ [RaceNext]_raceVars => Solo'
<1> SUFFICES ASSUME RaceInv, Solo, [RaceNext]_raceVars PROVE Solo'
  OBVIOUS
<1>1. CASE Second
  BY <1>1 DEF Second, Solo
<1>2. ASSUME NEW t \in Threads, NEW job \in Jobs[lineup], Begin(t, job) PROVE Solo'
  BY <1>2, BeginSolo
<1>3. ASSUME NEW t \in Threads,
             \/ Same(t) \/ Free(t) \/ Put(t) \/ Shift(t)
             \/ Look(t) \/ Twin(t) \/ Retire(t) \/ Sweep(t) \/ Drop(t)
      PROVE  Solo'
  <2>1. CASE expected = None
    <3>1. expected' = None
      BY <1>3, <2>1 DEF Same, Free, Put, Shift, Look, Twin, Retire, Sweep, Drop, Choose, Fixed
    <3> QED BY <3>1 DEF Solo
  <2>2. CASE expected # None
    BY <1>3, <2>2, SameSolo, FreeSolo, PutSolo, ShiftSolo, LookAhead, TwinSolo, RetireSolo, SweepSolo, DropSolo
  <2> QED BY <2>1, <2>2
<1>4. CASE UNCHANGED raceVars
  <2>1. UNCHANGED <<slots, clock, call, expected>>
    BY <1>4 DEF raceVars
  <2>2. Table' = Table
    BY <2>1 DEF Table, Aged
  <2>3. ASSUME expected # None, NEW t \in Threads, call'[t] # Idle PROVE Phase(call[t])'
    <3>1. PICK c : c = call[t]
      OBVIOUS
    <3>2. call'[t] = c /\ Phase(c)
      BY <2>1, <2>3, <3>1 DEF Solo
    <3>3. Phase(c)'
      BY <2>1, <3>2, PhaseKept
    <3> QED BY <3>2, <3>3
  <2> QED BY <2>1, <2>2, <2>3 DEF Solo
<1> QED BY <1>1, <1>2, <1>3, <1>4 DEF RaceNext

(* A call of a table function that no other thread interrupts, in one second, *)
(* does to the table what the function does as a whole, whatever the size of *)
(* the table and whatever the calls before it left there.                    *)
THEOREM CallsAreAtomicAlone == RaceSpec => []AloneIsAtomic
<1>1. RaceInit => RaceInv /\ Solo
  BY RaceInvInit DEF RaceInit, Solo
<1>2. RaceInv /\ Solo /\ [RaceNext]_raceVars => (RaceInv /\ Solo)'
  BY RaceInvNext, SoloNext
<1>3. Solo => AloneIsAtomic
  BY DEF Solo, AloneIsAtomic
<1> QED BY <1>1, <1>2, <1>3, PTL DEF RaceSpec
=============================================================================
