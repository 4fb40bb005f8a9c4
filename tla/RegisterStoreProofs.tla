--------------------------- MODULE RegisterStoreProofs ---------------------------
(***************************************************************************)
(* RegisterStore for a configuration in which every entry has a slave      *)
(* address, of any size, with any number of draining threads.              *)
(***************************************************************************)
EXTENDS RegisterStore, FiniteSetTheorems, SequenceTheorems, WellFoundedInduction, NaturalsInduction, TLAPS

(* What the configuration is made of. *)
LEMMA ConfigShape ==
  /\ Len(Config) \in Nat /\ Entries = 1..Len(Config)
  /\ \A i \in Entries : Config[i] \in [slave : Nat, reg : Nat, len : Nat, cmd : 1..4, kind : Kinds]
<1> DEFINE S == [slave : Nat, reg : Nat, len : Nat, cmd : 1..4, kind : Kinds]
<1>1. Config \in Seq(S)
  BY ConfigAssumption
<1> HIDE DEF S
<1>2. Len(Config) \in Nat /\ DOMAIN Config = 1..Len(Config)
  BY <1>1, LenProperties
<1>3. \A i \in 1..Len(Config) : Config[i] \in S
  BY <1>1, ElementOfSeq
<1> QED BY <1>2, <1>3 DEF Entries, S

(* Without gaps an entry keeps its place in the map. *)
LEMMA PositionIsIndex ==
  ASSUME Kept = Entries, NEW i \in Entries PROVE Position(i) = i
<1>1. i \in Nat /\ i >= 1 /\ Entries = 1..Len(Config) /\ Len(Config) \in Nat
  BY ConfigShape
<1>2. {k \in Kept : k <= i} = 1..i
  BY <1>1
<1>3. Cardinality(1..i) = i
  BY <1>1, FS_Interval
<1> QED BY <1>2, <1>3 DEF Position

(* Clamped lengths fit the slots. *)
LEMMA ClampBound == ASSUME NEW n \in Nat PROVE Clamp(n) \in 1..MaxLen
  BY MaxLenAssumption DEF Clamp

(* Without gaps the map is the configuration with clamped lengths. *)
LEMMA MapIsConfig ==
  ASSUME Kept = Entries
  PROVE  /\ Mapped = Entries
         /\ \A j \in Mapped : /\ RegisterMap[j].slave = Config[j].slave
                              /\ RegisterMap[j].cmd = Config[j].cmd
                              /\ RegisterMap[j].reg = Config[j].reg
                              /\ RegisterMap[j].len \in 1..MaxLen
                              /\ RegisterMap[j].len = Clamp(Config[j].len)
                              /\ Config[j].slave \in Nat /\ Config[j].cmd \in Nat /\ Config[j].reg \in Nat
<1>1. Mapped = Entries
  <2>1. Len(Config) \in Nat /\ Entries = 1..Len(Config)
    BY ConfigShape
  <2>2. Cardinality(1..Len(Config)) = IF 1 > Len(Config) THEN 0 ELSE Len(Config) - 1 + 1
    BY <2>1, FS_Interval
  <2>3. Cardinality(1..Len(Config)) = Len(Config)
    BY <2>1, <2>2
  <2> QED BY <2>1, <2>3 DEF Mapped
<1> SUFFICES ASSUME NEW j \in Mapped
             PROVE  /\ RegisterMap[j].slave = Config[j].slave
                    /\ RegisterMap[j].cmd = Config[j].cmd
                    /\ RegisterMap[j].reg = Config[j].reg
                    /\ RegisterMap[j].len \in 1..MaxLen
                    /\ RegisterMap[j].len = Clamp(Config[j].len)
                    /\ Config[j].slave \in Nat /\ Config[j].cmd \in Nat /\ Config[j].reg \in Nat
  BY <1>1
<1> DEFINE source == CHOOSE i \in Kept : Position(i) = j
<1>2. source = j
  BY <1>1, PositionIsIndex
<1>3. RegisterMap[j] = [Config[source] EXCEPT !.len = Clamp(@)]
  BY DEF RegisterMap
<1> HIDE DEF source
<1>4. Config[j] \in [slave : Nat, reg : Nat, len : Nat, cmd : 1..4, kind : Kinds]
  BY <1>1, ConfigShape
<1>5. Clamp(Config[j].len) \in 1..MaxLen
  BY <1>4, ClampBound
<1> QED BY <1>2, <1>3, <1>4, <1>5

(* The word w was read where offset k of entry i is. *)
InPlace(w, i, k) ==
  w.slave = Config[i].slave /\ w.cmd = Config[i].cmd /\ w.reg = Config[i].reg + k

(* Words are in place already in the slots, and also in values that are not  *)
(* valid any more; not in an entry that has another's answer.                *)
SlotsInPlace ==
  \A j \in Mapped : \A k \in 0..(MaxLen - 1) : slots[j][k] # None => InPlace(slots[j][k], j, k)
ValuesInPlace ==
  \A i \in Entries \ strayed : \A k \in DOMAIN dev[i].value : InPlace(dev[i].value[k], i, k)

(* The entry i of g_haas_dev_rs485 asks for what the configuration says.     *)
Asks(i) ==
  dev[i].slave = Config[i].slave /\ dev[i].cmd = Config[i].cmd /\ dev[i].reg = Config[i].reg

(* The tables are well formed and in place. *)
TablesGood ==
  /\ DOMAIN slots = Mapped
  /\ \A j \in Mapped : slots[j] \in [0..(MaxLen - 1) -> Word \cup {None}]
  /\ DOMAIN dev = Entries
  /\ \A i \in Entries : Asks(i) /\ dev[i].len \in Nat
  /\ \A i \in Entries : DOMAIN dev[i] = {"slave", "cmd", "reg", "len", "value", "valid"}
  /\ SlotsInPlace /\ ValuesInPlace

(* So are the answers on their way. *)
AnswersTyped ==
  /\ reading \in 0..(Readings - 1)
  /\ box \in Seq(Answer)
  /\ \A t \in Drainers : job[t] # None => job[t] \in Job
  /\ DOMAIN job = Drainers

(* The inductive invariant. *)
StoreInv == TablesGood /\ AnswersTyped

(* Nothing is stored at first. *)
LEMMA StoreInvInit == ASSUME Kept = Entries, Init PROVE StoreInv
<1>1. SlotsInPlace
  <2>1. slots = [j \in Mapped |-> EmptySlot]
    BY DEF Init
  <2> QED BY <2>1 DEF SlotsInPlace, EmptySlot
<1>2. ValuesInPlace
  <2>1. \A i \in Entries : dev[i].value = <<>>
    BY DEF Init
  <2>2. DOMAIN <<>> = {}
    OBVIOUS
  <2> QED BY <2>1, <2>2 DEF ValuesInPlace
<1>3. TablesGood
  <2>1. slots = [j \in Mapped |-> EmptySlot] /\ EmptySlot \in [0..(MaxLen - 1) -> Word \cup {None}]
    BY DEF Init, EmptySlot
  <2>2. \A i \in Entries : Config[i] \in [slave : Nat, reg : Nat, len : Nat, cmd : 1..4, kind : Kinds]
    BY ConfigShape
  <2>3. \A i \in Entries : /\ Asks(i) /\ dev[i].len \in Nat
                           /\ DOMAIN dev[i] = {"slave", "cmd", "reg", "len", "value", "valid"}
    BY <2>2 DEF Init, Asks
  <2>4. DOMAIN dev = Entries
    BY DEF Init
  <2> QED BY <1>1, <1>2, <2>1, <2>3, <2>4 DEF TablesGood
<1>4. AnswersTyped
  <2>1. reading \in 0..(Readings - 1)
    BY BoundsAssumption DEF Init
  <2>2. box \in Seq(Answer)
    BY EmptySeq DEF Init
  <2>3. DOMAIN job = Drainers /\ \A t \in Drainers : job[t] = None
    BY DEF Init
  <2> QED BY <2>1, <2>2, <2>3 DEF AnswersTyped
<1> QED BY <1>3, <1>4 DEF StoreInv

(* An entry that covers a register covers it within its slot. *)
LEMMA CoveredOffset ==
  ASSUME Kept = Entries, NEW slave, NEW cmd, NEW reg \in Nat, Found(slave, cmd, reg) # {}
  PROVE  LET j == FirstEntry(Found(slave, cmd, reg))
         IN  /\ j \in Mapped /\ j \in Entries
             /\ RegisterMap[j].slave = slave /\ RegisterMap[j].cmd = cmd
             /\ reg - RegisterMap[j].reg \in 0..(MaxLen - 1)
<1> DEFINE S == Found(slave, cmd, reg)
           j == FirstEntry(S)
<1>1. S \subseteq Mapped /\ Mapped = Entries /\ Mapped \subseteq Nat
  BY MapIsConfig, ConfigShape DEF Found
<1>2. \E m \in S : \A k \in S : m <= k
  <2> HIDE DEF S, j
  <2>1. S \subseteq Nat /\ S # {}
    BY <1>1 DEF S
  <2>2. IsWellFoundedOn(OpToRel(<, Nat), Nat)
    BY NatLessThanWellFounded
  <2>3. PICK m \in S : \A k \in S : <<k, m>> \notin OpToRel(<, Nat)
    BY <2>1, <2>2, WFMin
  <2>4. \A k \in S : m <= k
    <3> TAKE k \in S
    <3>1. m \in Nat /\ k \in Nat
      BY <2>1
    <3>2. ~(k < m)
      BY <2>3, <3>1 DEF OpToRel
    <3> QED BY <3>1, <3>2
  <2> QED BY <2>4
<1>3. j \in S
  BY <1>2 DEF FirstEntry
<1>4. Covers(j, slave, cmd, reg)
  BY <1>3 DEF Found
<1>5. RegisterMap[j].len \in 1..MaxLen
  BY <1>1, <1>3, MapIsConfig
<1>6. MaxLen \in Nat
  BY MaxLenAssumption
<1> HIDE DEF j, S
<1>7. reg - RegisterMap[j].reg \in 0..(MaxLen - 1)
  BY <1>4, <1>5, <1>6 DEF Covers
<1> QED BY <1>1, <1>3, <1>4, <1>7 DEF Covers, j, S

(* A value that is aggregated from a slot in place is in place. *)
LEMMA ValueInPlace ==
  ASSUME NEW j \in Entries, NEW slot \in [0..(MaxLen - 1) -> Word \cup {None}],
         \A k \in 0..(MaxLen - 1) : slot[k] # None => InPlace(slot[k], j, k),
         NEW len \in 1..MaxLen, NEW kind, Aggregated(slot, len, kind)
  PROVE  \A k \in DOMAIN Value(slot, len, kind) : InPlace(Value(slot, len, kind)[k], j, k)
<1>1. \A k \in Contiguous(slot, len) : k \in 0..(MaxLen - 1) /\ slot[k] # None
  BY MaxLenAssumption DEF Contiguous
<1> DEFINE D == IF kind = "word" THEN {0} ELSE IF kind = "pair" THEN {0, 1} ELSE Contiguous(slot, len)
<1>2. D \subseteq Contiguous(slot, len)
  BY DEF Aggregated
<1> HIDE DEF D
<1>3. Value(slot, len, kind) = [k \in D |-> slot[k]]
  BY DEF Value, D
<1> QED BY <1>1, <1>2, <1>3

(* One word stored: store_register_data keeps both tables in place.          *)
LEMMA StoreWordInPlace ==
  ASSUME Kept = Entries, TablesGood, NEW slave \in Nat, NEW cmd \in Nat, NEW reg \in Nat,
         NEW w \in Word, w.slave = slave, w.cmd = cmd, w.reg = reg,
         StoreWord(slave, cmd, reg, w)
  PROVE  TablesGood'
<1> DEFINE found == Found(slave, cmd, reg)
           j == FirstEntry(found)
           e == RegisterMap[j]
           slot == PutWord(slots[j], reg - e.reg, w)
<1>0. CASE UNCHANGED <<slots, dev, strayed>>
  BY <1>0 DEF TablesGood, SlotsInPlace, ValuesInPlace, Asks
<1>1. ASSUME found # {}
      PROVE  /\ j \in Mapped /\ j \in Entries /\ Mapped = Entries
             /\ e.slave = slave /\ e.cmd = cmd /\ e.reg \in Nat /\ e.len \in 1..MaxLen
             /\ reg - e.reg \in 0..(MaxLen - 1)
             /\ InPlace(w, j, reg - e.reg)
  <2>1. /\ j \in Mapped /\ j \in Entries /\ e.slave = slave /\ e.cmd = cmd
        /\ reg - e.reg \in 0..(MaxLen - 1)
    BY <1>1, CoveredOffset
  <2> HIDE DEF j
  <2>2. /\ Mapped = Entries
        /\ e.slave = Config[j].slave /\ e.cmd = Config[j].cmd /\ e.reg = Config[j].reg
        /\ e.len \in 1..MaxLen /\ Config[j].reg \in Nat
    BY <2>1, MapIsConfig
  <2> HIDE DEF e
  <2>3. w.reg = Config[j].reg + (reg - e.reg)
    BY <2>2
  <2> QED BY <2>1, <2>2, <2>3 DEF InPlace
<1>2. ASSUME found # {}, dev' = [dev EXCEPT ![j].value = <<>>, ![j].valid = FALSE],
             slots' = slots, strayed' = strayed
      PROVE  TablesGood'
  <2>1. j \in Entries
    BY <1>1, <1>2
  <2> HIDE DEF j
  <2>2. \A i \in Entries : i # j => dev'[i] = dev[i]
    BY <1>2 DEF TablesGood
  <2>3. /\ dev'[j].slave = dev[j].slave /\ dev'[j].cmd = dev[j].cmd /\ dev'[j].reg = dev[j].reg
        /\ dev'[j].len = dev[j].len /\ DOMAIN dev'[j] = DOMAIN dev[j] /\ dev'[j].value = <<>>
    BY <1>2, <2>1 DEF TablesGood
  <2>4. DOMAIN dev' = Entries
    BY <1>2 DEF TablesGood
  <2>5. ValuesInPlace'
    <3>1. DOMAIN <<>> = {}
      OBVIOUS
    <3> QED BY <1>2, <2>1, <2>2, <2>3, <3>1 DEF TablesGood, ValuesInPlace
  <2> QED BY <1>2, <2>1, <2>2, <2>3, <2>4, <2>5 DEF TablesGood, SlotsInPlace, Asks
<1>3. ASSUME found # {}, slots' = [slots EXCEPT ![j] = slot],
             dev' = [dev EXCEPT ![j] = Synced(@, e, slot)],
             strayed' = IF Aggregated(slot, e.len, e.kind) THEN strayed \ {j} ELSE strayed
      PROVE  TablesGood'
  <2>1. /\ j \in Mapped /\ j \in Entries /\ Mapped = Entries
        /\ e.len \in 1..MaxLen
        /\ reg - e.reg \in 0..(MaxLen - 1)
        /\ InPlace(w, j, reg - e.reg)
    BY <1>1, <1>3
  <2>15. e.slave = Config[j].slave /\ e.cmd = Config[j].cmd /\ e.reg = Config[j].reg
    BY <1>1, <1>3, MapIsConfig
  <2> DEFINE o == reg - e.reg
  <2>2. slots[j] \in [0..(MaxLen - 1) -> Word \cup {None}]
    BY <2>1 DEF TablesGood
  <2>3. slot = [slots[j] EXCEPT ![o] = w]
    BY DEF PutWord
  <2> HIDE DEF j, e, slot, o
  <2>4. slot \in [0..(MaxLen - 1) -> Word \cup {None}]
    BY <2>2, <2>3
  <2>5. \A k \in 0..(MaxLen - 1) : slot[k] # None => InPlace(slot[k], j, k)
    <3> SUFFICES ASSUME NEW k \in 0..(MaxLen - 1), slot[k] # None PROVE InPlace(slot[k], j, k)
      OBVIOUS
    <3>1. CASE k = o
      BY <2>1, <2>2, <2>3, <3>1 DEF o
    <3>2. CASE k # o
      BY <2>1, <2>2, <2>3, <3>2 DEF TablesGood, SlotsInPlace
    <3> QED BY <3>1, <3>2
  <2>6. DOMAIN slots' = Mapped /\ slots'[j] = slot /\ \A i \in Mapped : i # j => slots'[i] = slots[i]
    BY <1>3, <2>1 DEF TablesGood
  <2>7. SlotsInPlace'
    BY <2>1, <2>5, <2>6 DEF TablesGood, SlotsInPlace
  <2> DEFINE d == Synced(dev[j], e, slot)
  <2>8. DOMAIN dev' = Entries /\ dev'[j] = d /\ \A i \in Entries : i # j => dev'[i] = dev[i]
    BY <1>3, <2>1 DEF TablesGood
  <2>9. /\ DOMAIN d = {"slave", "cmd", "reg", "len", "value", "valid"}
        /\ d.slave = e.slave /\ d.cmd = e.cmd /\ d.reg = e.reg /\ d.len = e.len
        /\ d.value = IF Aggregated(slot, e.len, e.kind) THEN Value(slot, e.len, e.kind) ELSE dev[j].value
    BY DEF Synced
  <2> HIDE DEF d
  <2>10. j \notin strayed' => \A k \in DOMAIN d.value : InPlace(d.value[k], j, k)
    <3>1. CASE Aggregated(slot, e.len, e.kind)
      BY <2>1, <2>4, <2>5, <2>9, <3>1, ValueInPlace
    <3>2. CASE ~Aggregated(slot, e.len, e.kind)
      BY <1>3, <2>1, <2>9, <3>2 DEF TablesGood, ValuesInPlace
    <3> QED BY <3>1, <3>2
  <2>11. ValuesInPlace'
    BY <1>3, <2>1, <2>8, <2>10 DEF TablesGood, ValuesInPlace
  <2>12. e.len \in Nat
    BY <2>1, MaxLenAssumption
  <2>13. \A i \in Entries : /\ Asks(i)' /\ dev'[i].len \in Nat
                           /\ DOMAIN dev'[i] = {"slave", "cmd", "reg", "len", "value", "valid"}
    BY <2>1, <2>8, <2>9, <2>12, <2>15 DEF TablesGood, Asks
  <2>14. \A i \in Mapped : slots'[i] \in [0..(MaxLen - 1) -> Word \cup {None}]
    BY <2>4, <2>6 DEF TablesGood
  <2> QED BY <2>6, <2>7, <2>8, <2>11, <2>13, <2>14 DEF TablesGood
<1> QED BY <1>0, <1>2, <1>3 DEF StoreWord

(* What the table asks for is typed.                                         *)
LEMMA EntryTyped ==
  ASSUME TablesGood, NEW i \in Entries
  PROVE  dev[i].slave \in Nat /\ dev[i].cmd \in Nat /\ dev[i].reg \in Nat /\ dev[i].len \in Nat
<1>1. Config[i].slave \in Nat /\ Config[i].cmd \in 1..4 /\ Config[i].reg \in Nat
  BY ConfigShape
<1>2. Asks(i) /\ dev[i].len \in Nat
  BY DEF TablesGood
<1> QED BY <1>1, <1>2 DEF Asks

(* What a thread has to do next.                                             *)
LEMMA OnwardJob ==
  ASSUME AnswersTyped, NEW t \in Drainers, job[t] # None, Onward(t)
  PROVE  /\ DOMAIN job' = Drainers /\ \A u \in Drainers : u # t => job'[u] = job[u]
         /\ job[t].credit => /\ job'[t] \in Job /\ job'[t].answer = job[t].answer
                             /\ job'[t].next = job[t].next
         /\ ~job[t].credit /\ job[t].next + 1 < job[t].answer.len =>
              /\ job'[t] \in Job /\ job'[t].answer = job[t].answer
              /\ job'[t].next = job[t].next + 1
         /\ ~job[t].credit /\ ~(job[t].next + 1 < job[t].answer.len) => job'[t] = None
<1>1. job[t] \in Job /\ DOMAIN job = Drainers
  BY DEF AnswersTyped
<1>2. PICK j \in Job : j = job[t]
  BY <1>1
<1>3. j.answer \in Answer /\ j.credit \in BOOLEAN /\ j.next + 1 \in Nat
  BY DEF Job
<1>4. /\ [j EXCEPT !.credit = FALSE] \in Job
      /\ [j EXCEPT !.credit = FALSE].answer = j.answer /\ [j EXCEPT !.credit = FALSE].next = j.next
  BY <1>3 DEF Job
<1>7. /\ [j EXCEPT !.next = j.next + 1] \in Job
      /\ [j EXCEPT !.next = j.next + 1].answer = j.answer
      /\ [j EXCEPT !.next = j.next + 1].next = j.next + 1
  BY <1>3 DEF Job
<1>5. job' = [job EXCEPT ![t] =
        IF j.credit THEN [j EXCEPT !.credit = FALSE]
        ELSE IF j.next + 1 < j.answer.len THEN [j EXCEPT !.next = j.next + 1] ELSE None]
  BY <1>2 DEF Onward
<1>6. /\ DOMAIN job' = Drainers /\ \A u \in Drainers : u # t => job'[u] = job[u]
      /\ job'[t] = IF j.credit THEN [j EXCEPT !.credit = FALSE]
                   ELSE IF j.next + 1 < j.answer.len THEN [j EXCEPT !.next = j.next + 1] ELSE None
  BY <1>1, <1>5
<1> QED BY <1>2, <1>4, <1>6, <1>7

(* haas_device_dataRead: a value of one word, of what the entry asks for or  *)
(* of what makes the entry a strayed one.                                    *)
LEMMA CreditStep ==
  ASSUME TablesGood, AnswersTyped, NEW t \in Drainers, Credit(t)
  PROVE  /\ TablesGood' /\ slots' = slots
         /\ strayed \subseteq Entries => strayed' \subseteq Entries
         /\ \A i \in Entries :
              /\ dev'[i].len = dev[i].len /\ dev'[i].valid = dev[i].valid
              /\ \/ dev'[i].value = dev[i].value
                 \/ DOMAIN dev'[i].value = {0} /\ dev'[i].value[0] \in Word
<1> DEFINE a == job[t].answer
           w == WordOf(a, 0)
           v == [k \in {0} |-> w]
<1>1. a \in Answer
  BY DEF Credit, AnswersTyped, Job
<1>2. w \in Word /\ w.slave = a.slave /\ w.cmd = a.cmd /\ w.reg = a.reg + 0
  BY <1>1 DEF WordOf, Word, Answer
<1>3. DOMAIN v = {0} /\ v[0] = w
  OBVIOUS
<1>4. slots' = slots
  BY DEF Credit
<1>5. CASE pollAt \notin Decoded
  <2>1. UNCHANGED <<slots, dev, strayed>>
    BY <1>5 DEF Credit
  <2> QED BY <2>1 DEF TablesGood, SlotsInPlace, ValuesInPlace, Asks
<1>6. CASE pollAt \in Decoded
  <2>1. pollAt \in Entries
    BY <1>6, DecodedAssumption
  <2>2. /\ dev' = [dev EXCEPT ![pollAt].value = v]
        /\ strayed' = IF Touches(a, pollAt) THEN strayed \ {pollAt} ELSE strayed \cup {pollAt}
    BY <1>6 DEF Credit
  <2> HIDE DEF v, w, a
  <2>3. DOMAIN dev' = Entries /\ \A i \in Entries : i # pollAt => dev'[i] = dev[i]
    BY <2>2 DEF TablesGood
  <2>4. /\ dev'[pollAt].slave = dev[pollAt].slave /\ dev'[pollAt].cmd = dev[pollAt].cmd
        /\ dev'[pollAt].reg = dev[pollAt].reg /\ dev'[pollAt].len = dev[pollAt].len
        /\ dev'[pollAt].valid = dev[pollAt].valid /\ DOMAIN dev'[pollAt] = DOMAIN dev[pollAt]
        /\ dev'[pollAt].value = v
    BY <2>1, <2>2 DEF TablesGood
  <2>5. pollAt \notin strayed' => InPlace(w, pollAt, 0)
    BY <1>2, <2>1, <2>2 DEF Touches, InPlace, TablesGood, Asks
  <2>6. ValuesInPlace'
    <3>1. \A i \in Entries \ strayed' : i # pollAt => i \in Entries \ strayed
      BY <2>2
    <3> QED BY <1>3, <2>3, <2>4, <2>5, <3>1 DEF TablesGood, ValuesInPlace
  <2>7. \A i \in Entries : /\ Asks(i)' /\ dev'[i].len \in Nat
                          /\ DOMAIN dev'[i] = {"slave", "cmd", "reg", "len", "value", "valid"}
    BY <2>3, <2>4 DEF TablesGood, Asks
  <2>8. TablesGood'
    BY <1>4, <2>3, <2>6, <2>7 DEF TablesGood, SlotsInPlace
  <2>9. strayed \subseteq Entries => strayed' \subseteq Entries
    BY <2>1, <2>2
  <2> QED BY <1>2, <1>3, <1>4, <2>3, <2>4, <2>8, <2>9
<1> QED BY <1>5, <1>6

(* Every step keeps the tables in place. *)
LEMMA StoreInvNext ==
  ASSUME Kept = Entries, StoreInv, [Next]_vars PROVE StoreInv'
<1>0. TablesGood /\ AnswersTyped
  BY DEF StoreInv
<1>1. SUFFICES TablesGood' /\ AnswersTyped'
  BY DEF StoreInv
<1>2. ASSUME UNCHANGED <<slots, dev, strayed>> PROVE TablesGood'
  BY <1>0, <1>2 DEF TablesGood, SlotsInPlace, ValuesInPlace, Asks
<1>3. ASSUME NEW i \in Entries, PollAnswered(i) PROVE TablesGood' /\ AnswersTyped'
  <2> DEFINE a == [slave |-> dev[i].slave, cmd |-> dev[i].cmd, reg |-> dev[i].reg,
                   len |-> dev[i].len, reading |-> reading]
  <2>1. a \in Answer
    BY <1>0, EntryTyped DEF AnswersTyped, Answer
  <2>2. box' \in Seq(Answer)
    BY <1>0, <1>3, <2>1, AppendProperties DEF PollAnswered, AnswersTyped
  <2>3. reading' \in 0..(Readings - 1)
    BY <1>0, <1>3, BoundsAssumption DEF PollAnswered, AnswersTyped
  <2> QED BY <1>0, <1>2, <1>3, <2>2, <2>3 DEF PollAnswered, AnswersTyped
<1>4. ASSUME PollUnanswered PROVE TablesGood' /\ AnswersTyped'
  BY <1>0, <1>2, <1>4 DEF PollUnanswered, AnswersTyped
<1>5. ASSUME NEW t \in Drainers, Take(t) PROVE TablesGood' /\ AnswersTyped'
  <2>1. /\ box # <<>> /\ box' = Tail(box)
        /\ job' = [job EXCEPT ![t] = [answer |-> Head(box), next |-> 0,
                                     credit |-> Decoded # {} /\ Head(box).cmd = 3]]
    BY <1>5 DEF Take
  <2>2. Head(box) \in Answer /\ box' \in Seq(Answer)
    BY <1>0, <2>1, HeadTailProperties DEF AnswersTyped
  <2>3. DOMAIN job' = Drainers
        /\ \A u \in Drainers : job'[u] # None => job'[u] \in Job
    BY <1>0, <2>1, <2>2 DEF AnswersTyped, Job
  <2> QED BY <1>0, <1>2, <1>5, <2>2, <2>3 DEF Take, AnswersTyped
<1>6. ASSUME NEW t \in Drainers, StoreNext(t) PROVE TablesGood' /\ AnswersTyped'
  <2> DEFINE a == job[t].answer
             k == job[t].next
             w == WordOf(a, k)
  <2>1. a \in Answer /\ k \in Nat
    BY <1>0, <1>6 DEF StoreNext, AnswersTyped, Job
  <2>2. a.slave \in Nat /\ a.cmd \in Nat /\ a.reg + k \in Nat /\ w \in Word
    BY <2>1 DEF Answer, Word, WordOf
  <2>3. StoreWord(a.slave, a.cmd, a.reg + k, w)
    BY <1>6 DEF StoreNext
  <2>4. w.slave = a.slave /\ w.cmd = a.cmd /\ w.reg = a.reg + k
    BY DEF WordOf
  <2>5. TablesGood'
    <3> HIDE DEF a, k, w
    <3> QED BY <1>0, <2>2, <2>3, <2>4, StoreWordInPlace
  <2>6. Onward(t) /\ UNCHANGED <<reading, box>> /\ job[t] # None
    BY <1>6 DEF StoreNext
  <2>7. DOMAIN job' = Drainers /\ \A u \in Drainers : job'[u] # None => job'[u] \in Job
    BY <1>0, <2>6, OnwardJob DEF AnswersTyped
  <2> QED BY <1>0, <2>5, <2>6, <2>7 DEF AnswersTyped
<1>8. ASSUME NEW t \in Drainers, Credit(t) PROVE TablesGood' /\ AnswersTyped'
  <2>1. Onward(t) /\ UNCHANGED <<reading, box>> /\ job[t] # None
    BY <1>8 DEF Credit
  <2>2. DOMAIN job' = Drainers /\ \A u \in Drainers : job'[u] # None => job'[u] \in Job
    BY <1>0, <2>1, OnwardJob DEF AnswersTyped
  <2> QED BY <1>0, <1>8, <2>1, <2>2, CreditStep DEF AnswersTyped
<1>7. CASE UNCHANGED vars
  BY <1>0, <1>2, <1>7 DEF vars, AnswersTyped
<1> QED BY <1>3, <1>4, <1>5, <1>6, <1>7, <1>8 DEF Next

(* Where every entry of the configuration has a slave address, whatever is   *)
(* published as V_i was read from the registers of the i-th entry, unless it *)
(* is a number that haas_device_dataRead credited to that entry when the poll *)
(* had gone on and that no value of the entry's own has replaced yet; for    *)
(* every configuration, whichever entries haas_device_dataRead writes, and   *)
(* any interleaving of the draining threads with the poll                    *)
(* (store_register_data, sync_register_to_rs485, haas_device_dataRead).      *)
THEOREM InPlaceWithoutGaps ==
  ASSUME Kept = Entries PROVE Spec => []PublishedInPlace
<1>1. Init => StoreInv
  BY StoreInvInit
<1>2. StoreInv /\ [Next]_vars => StoreInv'
  BY StoreInvNext
<1>3. StoreInv => PublishedInPlace
  BY DEF StoreInv, TablesGood, ValuesInPlace, InPlace, PublishedInPlace
<1> QED BY <1>1, <1>2, <1>3, PTL DEF Spec

-----------------------------------------------------------------------------
(* Whole values.                                                             *)

(* The registers a request for entry i asks for, clamped or not. *)
Span(i) == IF Config[i].len = 0 THEN 1 ELSE Config[i].len
Reaches(i, r) == r - Config[i].reg \in 0..(Span(i) - 1)

(* No register belongs to two entries. *)
Disjoint ==
  \A i, j \in Entries : \A r \in Nat :
    /\ Config[i].slave = Config[j].slave /\ Config[i].cmd = Config[j].cmd
    /\ Reaches(i, r) /\ Reaches(j, r)
    => i = j

(* The answer a is what entry i was polled for. *)
Own(a, i) ==
  /\ a.slave = Config[i].slave /\ a.cmd = Config[i].cmd /\ a.reg = Config[i].reg
  /\ a.len \in {Config[i].len, Clamp(Config[i].len)} \ {0}
Asked == {a \in Answer : \E i \in Entries : Own(a, i)}

(* The table holds its entry, and a value that is published what the slot    *)
(* holds, or one credited word.                                              *)
Filed ==
  \A i \in Entries :
    /\ dev[i].slave = Config[i].slave /\ dev[i].cmd = Config[i].cmd /\ dev[i].reg = Config[i].reg
    /\ dev[i].len \in {Config[i].len, Clamp(Config[i].len)}
    /\ dev[i].valid \in BOOLEAN
    /\ dev[i].valid => \/ DOMAIN dev[i].value = {0}
                        \/ \A k \in DOMAIN dev[i].value :
                             k \in 0..(MaxLen - 1) /\ slots[i][k] # None /\ dev[i].value[k] = slots[i][k]
    /\ \A k \in DOMAIN dev[i].value : dev[i].value[k] \in Word

(* Words are only where store_register_data writes any. *)
Stored ==
  \A j \in Mapped : \A k \in 0..(MaxLen - 1) : slots[j][k] # None =>
    k < RegisterMap[j].len /\ (RegisterMap[j].cmd \in Coils => RegisterMap[j].kind = "word")

(* A slot that one thread at a time stores in is of one reading where nothing *)
(* is being stored; where something is, what is stored already is of the     *)
(* reading that is being stored.                                             *)
Alike(slot) ==
  \A k, l \in 0..(MaxLen - 1) : slot[k] # None /\ slot[l] # None => slot[k].reading = slot[l].reading
Stores(t, j) == job[t] # None /\ Own(job[t].answer, j)
Alone ==
  \A j \in Mapped \ mixed : \A t, u \in Drainers : Stores(t, j) /\ Stores(u, j) => t = u
Settled ==
  \A j \in Mapped \ mixed : (\A t \in Drainers : ~Stores(t, j)) => Alike(slots[j])
Midway ==
  \A j \in Mapped \ mixed : \A t \in Drainers : Stores(t, j) =>
    \A k \in 0..(MaxLen - 1) :
      k < job[t].next /\ slots[j][k] # None => slots[j][k].reading = job[t].answer.reading

Waiting ==
  /\ box \in Seq(Asked) /\ Len(box) <= BoxDepth
  /\ \A t \in Drainers : job[t] # None => job[t].answer \in Asked /\ job[t].next < job[t].answer.len
Shaped ==
  /\ slots \in [Mapped -> [0..(MaxLen - 1) -> Word \cup {None}]] /\ pollAt \in Entries \cup {0}
  /\ mixed \subseteq Entries /\ strayed \subseteq Entries

(* The inductive invariant of whole values. *)
WholeInv == StoreInv /\ Shaped /\ Filed /\ Stored /\ Waiting /\ Alone /\ Settled /\ Midway

(* What entry i asked for is stored in slot i, as far as it goes. *)
LEMMA OwnPlace ==
  ASSUME Kept = Entries, Disjoint, NEW i \in Entries, NEW a \in Answer, Own(a, i),
         NEW k \in Nat, k < a.len
  PROVE  /\ Found(a.slave, a.cmd, a.reg + k) = IF k < RegisterMap[i].len THEN {i} ELSE {}
         /\ FirstEntry({i}) = i
         /\ a.reg + k - RegisterMap[i].reg = k
         /\ RegisterMap[i].len <= a.len /\ i \in Mapped
<1>1. \A j \in Entries : Config[j].len \in Nat /\ Config[j].reg \in Nat
  BY ConfigShape
<1>2. Mapped = Entries /\ Entries \subseteq Nat /\ MaxLen \in Nat /\ MaxLen >= 2
  BY MapIsConfig, ConfigShape, MaxLenAssumption
<1>3. \A j \in Entries : /\ RegisterMap[j].slave = Config[j].slave /\ RegisterMap[j].cmd = Config[j].cmd
                         /\ RegisterMap[j].reg = Config[j].reg
                         /\ RegisterMap[j].len \in Nat /\ RegisterMap[j].len <= Span(j)
  BY <1>1, <1>2, MapIsConfig DEF Clamp, Span
<1>4. k < Span(i) /\ RegisterMap[i].len <= a.len
  BY <1>1, <1>2, MapIsConfig DEF Own, Clamp, Span
<1>5. ASSUME NEW j \in Entries, Covers(j, a.slave, a.cmd, a.reg + k) PROVE j = i
  <2>1. Reaches(j, a.reg + k)
    BY <1>1, <1>3, <1>5 DEF Covers, Reaches, Own, Span
  <2>2. Reaches(i, a.reg + k)
    BY <1>1, <1>4 DEF Reaches, Own, Span
  <2>3. a.reg + k \in Nat
    BY <1>1 DEF Own
  <2> QED BY <1>3, <1>5, <2>1, <2>2, <2>3 DEF Disjoint, Covers, Own
<1>6. Covers(i, a.slave, a.cmd, a.reg + k) <=> k < RegisterMap[i].len
  BY <1>1, <1>3 DEF Covers, Own
<1>7. FirstEntry({i}) = i
  BY <1>2 DEF FirstEntry
<1>8. a.reg + k - RegisterMap[i].reg = k
  BY <1>1, <1>3 DEF Own
<1> QED BY <1>2, <1>4, <1>5, <1>6, <1>7, <1>8 DEF Found

(* An answer belongs to one entry. *)
LEMMA OneOwner ==
  ASSUME Disjoint, NEW a, NEW i \in Entries, NEW j \in Entries, Own(a, i), Own(a, j)
  PROVE  i = j
<1>1. Config[i].reg \in Nat /\ Config[i].len \in Nat /\ Config[j].len \in Nat
  BY ConfigShape
<1>2. Reaches(i, a.reg) /\ Reaches(j, a.reg) /\ a.reg \in Nat
  BY <1>1 DEF Reaches, Own, Span
<1> QED BY <1>2 DEF Disjoint, Own

(* Nothing is stored at first.                                               *)
LEMMA WholeInit == ASSUME Kept = Entries, Init PROVE WholeInv
<1>1. StoreInv
  BY StoreInvInit
<1>2. slots = [j \in Mapped |-> EmptySlot] /\ \A k \in 0..(MaxLen - 1) : EmptySlot[k] = None
  BY DEF Init, EmptySlot
<1>3. Shaped
  <2>1. EmptySlot \in [0..(MaxLen - 1) -> Word \cup {None}]
    BY DEF EmptySlot
  <2> QED BY <1>2, <2>1 DEF Init, Shaped
<1>4. Filed
  <2>1. DOMAIN <<>> = {}
    OBVIOUS
  <2> QED BY <2>1 DEF Init, Filed
<1>5. Stored /\ Alone /\ Settled /\ Midway
  BY <1>2 DEF Stored, Alone, Settled, Midway, Alike, Stores, Init
<1>6. Waiting
  <2>1. <<>> \in Seq(Asked) /\ Len(<<>>) = 0
    OBVIOUS
  <2> QED BY <2>1, BoundsAssumption DEF Init, Waiting
<1> QED BY <1>1, <1>3, <1>4, <1>5, <1>6 DEF WholeInv

(* The poll asks for what an entry is.                                       *)
LEMMA PollWhole ==
  ASSUME Kept = Entries, WholeInv,
         PollUnanswered \/ \E i \in Entries : PollAnswered(i)
  PROVE  (Shaped /\ Filed /\ Stored /\ Waiting /\ Alone /\ Settled /\ Midway)'
<1>1. UNCHANGED <<slots, dev, job, mixed, strayed>> /\ Advance
  BY DEF PollUnanswered, PollAnswered
<1>2. Shaped'
  <2>1. Entries = 1..Len(Config) /\ Len(Config) \in Nat
    BY ConfigShape
  <2> QED BY <1>1, <2>1 DEF Advance, Shaped, WholeInv
<1>3. (Filed /\ Stored /\ Alone /\ Settled /\ Midway)'
  BY <1>1 DEF WholeInv, Filed, Stored, Alone, Settled, Midway, Stores
<1>4. Waiting'
  <2>1. CASE PollUnanswered
    BY <1>1, <2>1 DEF PollUnanswered, WholeInv, Waiting
  <2>2. ASSUME NEW i \in Entries, PollAnswered(i) PROVE Waiting'
    <3> DEFINE a == [slave |-> dev[i].slave, cmd |-> dev[i].cmd, reg |-> dev[i].reg,
                     len |-> dev[i].len, reading |-> reading]
    <3>1. a \in Answer
      BY EntryTyped DEF WholeInv, StoreInv, AnswersTyped, Answer
    <3>2. Own(a, i)
      BY <2>2 DEF WholeInv, Filed, Own, PollAnswered
    <3> HIDE DEF a
    <3>3. a \in Asked
      BY <3>1, <3>2 DEF Asked
    <3>4. box' = Append(box, a) /\ Len(box) < BoxDepth
      BY <2>2 DEF PollAnswered, a
    <3>5. box' \in Seq(Asked) /\ Len(box') = Len(box) + 1
      BY <3>3, <3>4, AppendProperties DEF WholeInv, Waiting
    <3>6. Len(box) \in Nat /\ BoxDepth \in Nat
      BY BoundsAssumption, LenProperties DEF WholeInv, Waiting
    <3> QED BY <1>1, <3>4, <3>5, <3>6 DEF WholeInv, Waiting
  <2> QED BY <2>1, <2>2
<1> QED BY <1>2, <1>3, <1>4

(* An answer to one of the requests touches the entry that it is for.       *)
LEMMA TouchesOwn ==
  ASSUME Disjoint, WholeInv, NEW a \in Asked, NEW j \in Entries
  PROVE  Touches(a, j) <=> Own(a, j)
<1>1. dev[j].slave = Config[j].slave /\ dev[j].cmd = Config[j].cmd /\ dev[j].reg = Config[j].reg
  BY DEF WholeInv, Filed
<1>2. Own(a, j) => Touches(a, j)
  BY <1>1 DEF Own, Touches
<1>3. ASSUME Touches(a, j) PROVE Own(a, j)
  <2>1. PICK i \in Entries : Own(a, i)
    BY DEF Asked
  <2>2. /\ Config[i].reg \in Nat /\ Config[i].len \in Nat /\ Config[j].len \in Nat
        /\ Config[i].reg = Config[j].reg
    BY <1>1, <1>3, <2>1, ConfigShape DEF Touches, Own
  <2>3. Reaches(i, a.reg) /\ Reaches(j, a.reg) /\ a.reg \in Nat
    BY <2>1, <2>2 DEF Reaches, Own, Span
  <2>4. i = j
    BY <1>1, <1>3, <2>1, <2>3 DEF Disjoint, Own, Touches
  <2> QED BY <2>1, <2>4
<1> QED BY <1>2, <1>3

(* An entry is in `mixed' while two threads store in its slot; it leaves when *)
(* an answer is taken for which no other thread is storing one.              *)
LEMMA TakeWhole ==
  ASSUME Kept = Entries, Disjoint, WholeInv, NEW t \in Drainers, Take(t)
  PROVE  (Shaped /\ Filed /\ Stored /\ Waiting /\ Alone /\ Settled /\ Midway)'
<1> DEFINE h == Head(box)
<1>1. /\ UNCHANGED <<slots, dev, pollAt, strayed>> /\ box # <<>> /\ box' = Tail(box) /\ job[t] = None
      /\ job' = [job EXCEPT ![t] = [answer |-> h, next |-> 0, credit |-> Decoded # {} /\ h.cmd = 3]]
      /\ mixed' = {i \in Entries : IF Touches(h, i) THEN Storing(i) ELSE i \in mixed}
  BY DEF Take
<1>2. h \in Asked /\ box' \in Seq(Asked) /\ Len(box') = Len(box) - 1 /\ Len(box) \in Nat
  BY <1>1, HeadTailProperties, LenProperties DEF WholeInv, Waiting
<1> HIDE DEF h
<1> DEFINE c == Decoded # {} /\ h.cmd = 3
<1>3. /\ job'[t] = [answer |-> h, next |-> 0, credit |-> c] /\ \A u \in Drainers : u # t => job'[u] = job[u]
  BY <1>1 DEF WholeInv, StoreInv, AnswersTyped
<1>4. [answer |-> h, next |-> 0, credit |-> c] # None
  <2>1. c \in BOOLEAN
    OBVIOUS
  <2>2. [answer |-> h, next |-> 0, credit |-> c] \in Job
    BY <1>2, <2>1 DEF Asked, Job
  <2> QED BY <2>2, NoneAssumption
<1> HIDE DEF c
<1>5. \A j \in Mapped : /\ Stores(t, j)' <=> Own(h, j)
                        /\ ~Stores(t, j)
                        /\ \A u \in Drainers : u # t => (Stores(u, j)' <=> Stores(u, j))
  BY <1>1, <1>3, <1>4 DEF Stores, Own
<1>6. Mapped = Entries
  BY MapIsConfig
<1>7. \A j \in Entries : (\E u \in Drainers : Stores(u, j)) => Storing(j)
  BY TouchesOwn DEF Stores, Storing, WholeInv, Waiting
<1>8. \A j \in Entries : j \notin mixed' =>
        IF Own(h, j) THEN \A u \in Drainers : ~Stores(u, j) ELSE j \notin mixed
  BY <1>1, <1>2, <1>7, TouchesOwn
<1>9. Alone'
  BY <1>5, <1>6, <1>8 DEF WholeInv, Alone
<1>10. Settled'
  BY <1>1, <1>5, <1>6, <1>8 DEF WholeInv, Settled
<1>11. Midway'
  <2> SUFFICES ASSUME NEW j \in Mapped \ mixed', NEW u \in Drainers, Stores(u, j)',
                      NEW k \in 0..(MaxLen - 1), k < job'[u].next, slots'[j][k] # None
               PROVE  slots'[j][k].reading = job'[u].answer.reading
    BY DEF Midway
  <2>1. CASE u = t
    BY <1>3, <2>1
  <2>2. CASE u # t
    BY <1>1, <1>3, <1>5, <1>6, <1>8, <2>2 DEF WholeInv, Midway
  <2> QED BY <2>1, <2>2
<1>12. 0 < h.len
  <2>1. PICK i \in Entries : Own(h, i)
    BY <1>2 DEF Asked
  <2>2. h.len \in Nat
    BY <1>2 DEF Asked, Answer
  <2> QED BY <2>1, <2>2 DEF Own
<1>13. Waiting'
  <2>1. \A u \in Drainers : job'[u] # None =>
          job'[u].answer \in Asked /\ job'[u].next < job'[u].answer.len
    BY <1>2, <1>3, <1>12 DEF WholeInv, Waiting
  <2> QED BY <1>1, <1>2, <2>1, BoundsAssumption DEF WholeInv, Waiting
<1>14. mixed' \subseteq Entries
  BY <1>1
<1> QED BY <1>1, <1>9, <1>10, <1>11, <1>13, <1>14 DEF WholeInv, Shaped, Filed, Stored

(* What a value is made of.                                                  *)
LEMMA ValueOfSlot ==
  ASSUME NEW slot, NEW len \in 1..MaxLen, NEW kind, Aggregated(slot, len, kind)
  PROVE  \A k \in DOMAIN Value(slot, len, kind) :
           k \in 0..(MaxLen - 1) /\ slot[k] # None /\ Value(slot, len, kind)[k] = slot[k]
<1>1. \A k \in Contiguous(slot, len) : k \in 0..(MaxLen - 1) /\ slot[k] # None
  BY MaxLenAssumption DEF Contiguous
<1> DEFINE D == IF kind = "word" THEN {0} ELSE IF kind = "pair" THEN {0, 1} ELSE Contiguous(slot, len)
<1>2. D \subseteq Contiguous(slot, len)
  BY DEF Aggregated
<1> HIDE DEF D
<1>3. Value(slot, len, kind) = [k \in D |-> slot[k]]
  BY DEF Value, D
<1> QED BY <1>1, <1>2, <1>3

(* What store_register_data does when one entry has the register.            *)
LEMMA StoreOneFound ==
  ASSUME NEW i, NEW slave, NEW cmd, NEW reg, NEW w,
         Found(slave, cmd, reg) = {i}, FirstEntry({i}) = i, StoreWord(slave, cmd, reg, w)
  PROVE  LET e == RegisterMap[i]
             slot == PutWord(slots[i], reg - e.reg, w)
         IN  \/ /\ cmd \in Coils /\ e.kind # "word"
                /\ dev' = [dev EXCEPT ![i].value = <<>>, ![i].valid = FALSE] /\ slots' = slots
                /\ strayed' = strayed
             \/ /\ ~(cmd \in Coils /\ e.kind # "word")
                /\ slots' = [slots EXCEPT ![i] = slot]
                /\ dev' = [dev EXCEPT ![i] = Synced(@, e, slot)]
                /\ strayed' \in {strayed, strayed \ {i}}
  BY DEF StoreWord

(* store_register_data files a word of what an entry asked for in that       *)
(* entry's slot, where the word belongs, and nowhere else.                   *)
LEMMA WordWhole ==
  ASSUME Kept = Entries, Disjoint, WholeInv,
         NEW i \in Entries, NEW a \in Answer, Own(a, i), NEW k \in Nat, k < a.len,
         NEW w \in Word, StoreWord(a.slave, a.cmd, a.reg + k, w)
  PROVE  /\ slots' \in [Mapped -> [0..(MaxLen - 1) -> Word \cup {None}]]
         /\ \A j \in Mapped : j # i => slots'[j] = slots[j]
         /\ \A l \in 0..(MaxLen - 1) : l # k => slots'[i][l] = slots[i][l]
         /\ k \in 0..(MaxLen - 1) => slots'[i][k] \in {None, w}
         /\ Filed' /\ Stored' /\ strayed' \subseteq Entries
<1> DEFINE found == Found(a.slave, a.cmd, a.reg + k)
<1>1. /\ found = IF k < RegisterMap[i].len THEN {i} ELSE {}
      /\ FirstEntry({i}) = i /\ a.reg + k - RegisterMap[i].reg = k /\ i \in Mapped
  BY OwnPlace
<1>2. /\ Mapped = Entries /\ RegisterMap[i].len \in 1..MaxLen /\ MaxLen \in Nat
      /\ RegisterMap[i].len = Clamp(Config[i].len)
      /\ RegisterMap[i].slave = Config[i].slave /\ RegisterMap[i].cmd = Config[i].cmd
      /\ RegisterMap[i].reg = Config[i].reg /\ a.cmd = Config[i].cmd
  BY MapIsConfig, MaxLenAssumption DEF Own
<1>3. /\ slots \in [Mapped -> [0..(MaxLen - 1) -> Word \cup {None}]] /\ Filed /\ Stored
      /\ DOMAIN dev = Entries /\ DOMAIN dev[i] = {"slave", "cmd", "reg", "len", "value", "valid"}
      /\ strayed \subseteq Entries
  BY DEF WholeInv, Shaped, StoreInv, TablesGood
<1> HIDE DEF found
<1>4. CASE UNCHANGED <<slots, dev, strayed>> /\ found = {}
  <2>1. k \in 0..(MaxLen - 1) => slots[i][k] = None
    BY <1>1, <1>2, <1>3, <1>4 DEF Stored
  <2> QED BY <1>2, <1>3, <1>4, <2>1 DEF Filed, Stored
<1>5. CASE /\ found = {i} /\ a.cmd \in Coils /\ RegisterMap[i].kind # "word"
           /\ dev' = [dev EXCEPT ![i].value = <<>>, ![i].valid = FALSE]
           /\ UNCHANGED <<slots, strayed>>
  <2>1. k \in 0..(MaxLen - 1) => slots[i][k] = None
    BY <1>1, <1>2, <1>3, <1>5 DEF Stored
  <2>2. /\ \A j \in Entries : j # i => dev'[j] = dev[j]
        /\ dev'[i].value = <<>> /\ dev'[i].valid = FALSE
        /\ dev'[i].slave = dev[i].slave /\ dev'[i].cmd = dev[i].cmd /\ dev'[i].reg = dev[i].reg
        /\ dev'[i].len = dev[i].len
    BY <1>3, <1>5
  <2>3. DOMAIN <<>> = {}
    OBVIOUS
  <2>4. Filed'
    <3> SUFFICES ASSUME NEW j \in Entries
        PROVE  /\ dev'[j].slave = Config[j].slave /\ dev'[j].cmd = Config[j].cmd
               /\ dev'[j].reg = Config[j].reg /\ dev'[j].len \in {Config[j].len, Clamp(Config[j].len)}
               /\ dev'[j].valid \in BOOLEAN
               /\ dev'[j].valid =>
                    \/ DOMAIN dev'[j].value = {0}
                    \/ \A l \in DOMAIN dev'[j].value :
                         l \in 0..(MaxLen - 1) /\ slots'[j][l] # None /\ dev'[j].value[l] = slots'[j][l]
               /\ \A l \in DOMAIN dev'[j].value : dev'[j].value[l] \in Word
      BY DEF Filed
    <3>1. CASE j = i
      BY <1>3, <2>2, <2>3, <3>1 DEF Filed
    <3>2. CASE j # i
      BY <1>3, <1>5, <2>2, <3>2 DEF Filed
    <3> QED BY <3>1, <3>2
  <2> QED BY <1>2, <1>3, <1>5, <2>1, <2>4 DEF Stored
<1>6. CASE /\ found = {i} /\ ~(a.cmd \in Coils /\ RegisterMap[i].kind # "word")
           /\ slots' = [slots EXCEPT ![i] = PutWord(slots[i], k, w)]
           /\ dev' = [dev EXCEPT ![i] = Synced(@, RegisterMap[i], PutWord(slots[i], k, w))]
           /\ strayed' \in {strayed, strayed \ {i}}
  <2> DEFINE slot == PutWord(slots[i], k, w)
             e == RegisterMap[i]
             d == Synced(dev[i], e, slot)
  <2>1. k < e.len /\ k \in 0..(MaxLen - 1)
    BY <1>1, <1>2, <1>6
  <2>2. /\ slot \in [0..(MaxLen - 1) -> Word \cup {None}] /\ slot[k] = w
        /\ \A l \in 0..(MaxLen - 1) : l # k => slot[l] = slots[i][l]
    BY <1>1, <1>3, <2>1 DEF PutWord
  <2> HIDE DEF slot
  <2>3. /\ slots' = [slots EXCEPT ![i] = slot] /\ dev' = [dev EXCEPT ![i] = d]
    BY <1>6 DEF slot
  <2>4. slots' \in [Mapped -> [0..(MaxLen - 1) -> Word \cup {None}]]
    BY <1>3, <2>2, <2>3
  <2>5. slots'[i] = slot /\ \A j \in Mapped : j # i => slots'[j] = slots[j]
    BY <1>1, <1>3, <2>3
  <2>6. Stored'
    <3>1. \A l \in 0..(MaxLen - 1) : slot[l] # None =>
            l < RegisterMap[i].len /\ (RegisterMap[i].cmd \in Coils => RegisterMap[i].kind = "word")
      BY <1>1, <1>2, <1>3, <1>6, <2>1, <2>2 DEF Stored
    <3> QED BY <1>3, <2>5, <3>1 DEF Stored
  <2>7. /\ d.slave = e.slave /\ d.cmd = e.cmd /\ d.reg = e.reg /\ d.len = e.len
        /\ d.valid = IF Aggregated(slot, e.len, e.kind) THEN TRUE ELSE FALSE
        /\ d.value = IF Aggregated(slot, e.len, e.kind) THEN Value(slot, e.len, e.kind) ELSE dev[i].value
    BY DEF Synced, Aggregated
  <2>8. dev'[i] = d /\ \A j \in Entries : j # i => dev'[j] = dev[j]
    BY <1>3, <2>3
  <2> HIDE DEF d, e
  <2>9. /\ d.valid \in BOOLEAN
        /\ d.valid => \A l \in DOMAIN d.value :
             l \in 0..(MaxLen - 1) /\ slot[l] # None /\ d.value[l] = slot[l]
        /\ \A l \in DOMAIN d.value : d.value[l] \in Word
    <3>1. CASE Aggregated(slot, e.len, e.kind)
      <4>1. \A l \in DOMAIN d.value : l \in 0..(MaxLen - 1) /\ slot[l] # None /\ d.value[l] = slot[l]
        BY <1>2, <2>7, <3>1, ValueOfSlot DEF e
      <4>2. \A l \in DOMAIN d.value : d.value[l] \in Word
        BY <2>2, <4>1
      <4> QED BY <2>7, <3>1, <4>1, <4>2
    <3>2. CASE ~Aggregated(slot, e.len, e.kind)
      <4>1. \A l \in DOMAIN d.value : d.value[l] \in Word
        BY <1>3, <2>7, <3>2 DEF Filed
      <4> QED BY <2>7, <3>2, <4>1
    <3> QED BY <3>1, <3>2
  <2>10. Filed'
    <3>1. ASSUME NEW j \in Entries
          PROVE  /\ dev'[j].slave = Config[j].slave /\ dev'[j].cmd = Config[j].cmd
                 /\ dev'[j].reg = Config[j].reg /\ dev'[j].len \in {Config[j].len, Clamp(Config[j].len)}
                 /\ dev'[j].valid \in BOOLEAN
                 /\ dev'[j].valid =>
                      \/ DOMAIN dev'[j].value = {0}
                      \/ \A l \in DOMAIN dev'[j].value :
                           l \in 0..(MaxLen - 1) /\ slots'[j][l] # None /\ dev'[j].value[l] = slots'[j][l]
                 /\ \A l \in DOMAIN dev'[j].value : dev'[j].value[l] \in Word
      <4>1. CASE j = i
        BY <1>2, <2>5, <2>7, <2>8, <2>9, <4>1 DEF e
      <4>2. CASE j # i
        BY <1>2, <1>3, <2>5, <2>8, <4>2 DEF Filed
      <4> QED BY <4>1, <4>2
    <3> QED BY <3>1 DEF Filed
  <2>11. strayed' \subseteq Entries
    BY <1>3, <1>6
  <2> QED BY <2>2, <2>4, <2>5, <2>6, <2>10, <2>11
<1>7. CASE found = {}
  BY <1>4, <1>7 DEF StoreWord, found
<1>8. CASE found = {i}
  <2>1. PICK reg : reg = a.reg + k
    OBVIOUS
  <2>2. Found(a.slave, a.cmd, reg) = {i} /\ StoreWord(a.slave, a.cmd, reg, w) /\ FirstEntry({i}) = i
    BY <1>1, <1>8, <2>1 DEF found
  <2>3. \/ /\ a.cmd \in Coils /\ RegisterMap[i].kind # "word"
           /\ dev' = [dev EXCEPT ![i].value = <<>>, ![i].valid = FALSE] /\ slots' = slots
           /\ strayed' = strayed
        \/ /\ ~(a.cmd \in Coils /\ RegisterMap[i].kind # "word")
           /\ slots' = [slots EXCEPT ![i] = PutWord(slots[i], reg - RegisterMap[i].reg, w)]
           /\ dev' = [dev EXCEPT ![i] =
                        Synced(@, RegisterMap[i], PutWord(slots[i], reg - RegisterMap[i].reg, w))]
           /\ strayed' \in {strayed, strayed \ {i}}
    BY <2>2, StoreOneFound
  <2>4. reg - RegisterMap[i].reg = k
    <3>1. a.reg = RegisterMap[i].reg /\ a.reg \in Nat
      BY <1>2 DEF Own, Answer
    <3> QED BY <2>1, <3>1
  <2> QED BY <1>5, <1>6, <1>8, <2>3, <2>4
<1> QED BY <1>1, <1>7, <1>8

(* Storing an answer word by word makes its slot whole in the end.           *)
LEMMA StoreWhole ==
  ASSUME Kept = Entries, Disjoint, WholeInv, NEW t \in Drainers, StoreNext(t)
  PROVE  (Shaped /\ Filed /\ Stored /\ Waiting /\ Alone /\ Settled /\ Midway)'
<1> DEFINE a == job[t].answer
           k == job[t].next
           w == WordOf(a, k)
<1>1. /\ job[t] # None /\ UNCHANGED <<pollAt, reading, box, mixed>>
      /\ StoreWord(a.slave, a.cmd, a.reg + k, w)
      /\ ~job[t].credit /\ Onward(t)
  BY DEF StoreNext
<1>2. /\ job[t] \in Job /\ DOMAIN job = Drainers
      /\ a \in Answer /\ a \in Asked /\ k \in Nat /\ k < a.len
  BY <1>1 DEF WholeInv, StoreInv, AnswersTyped, Waiting, Job
<1>3. PICK i \in Entries : Own(a, i)
  BY <1>2 DEF Asked
<1>4. w \in Word /\ w.reading = a.reading /\ a.len \in Nat
  BY <1>2 DEF Answer, Word, WordOf
<1>5. /\ ~(k + 1 < a.len) => job'[t] = None
      /\ \A u \in Drainers : u # t => job'[u] = job[u]
  BY <1>1, OnwardJob DEF WholeInv, StoreInv
<1>6. k + 1 < a.len => job'[t] # None /\ job'[t].answer = a /\ job'[t].next = k + 1
  <2>1. k + 1 < a.len => job'[t] \in Job /\ job'[t].answer = a /\ job'[t].next = k + 1
    BY <1>1, OnwardJob DEF WholeInv, StoreInv
  <2> QED BY <2>1, NoneAssumption
<1> HIDE DEF a, k, w
<1>7. /\ slots' \in [Mapped -> [0..(MaxLen - 1) -> Word \cup {None}]]
      /\ \A j \in Mapped : j # i => slots'[j] = slots[j]
      /\ \A l \in 0..(MaxLen - 1) : l # k => slots'[i][l] = slots[i][l]
      /\ k \in 0..(MaxLen - 1) => slots'[i][k] \in {None, w}
      /\ Filed' /\ Stored' /\ strayed' \subseteq Entries
  BY <1>1, <1>2, <1>3, <1>4, WordWhole
<1>8. i \in Mapped /\ RegisterMap[i].len <= a.len /\ MaxLen \in Nat
  BY <1>2, <1>3, OwnPlace, MaxLenAssumption
<1>9. \A j \in Mapped : Stores(t, j) <=> j = i
  BY <1>1, <1>3, OneOwner, MapIsConfig DEF Stores, a
<1>10. \A j \in Mapped : \A u \in Drainers :
         /\ Stores(u, j)' => Stores(u, j)
         /\ u # t => (Stores(u, j)' <=> Stores(u, j))
  BY <1>1, <1>5, <1>6 DEF Stores, Own, a
<1>11. Waiting'
  BY <1>1, <1>2, <1>4, <1>5, <1>6 DEF WholeInv, Waiting
<1>12. Alone'
  BY <1>1, <1>10 DEF WholeInv, Alone
<1>13. i \notin mixed => \A u \in Drainers : Stores(u, i) => u = t
  BY <1>8, <1>9 DEF WholeInv, Alone
<1>14. i \notin mixed =>
         \A l \in 0..(MaxLen - 1) : l < k + 1 /\ slots'[i][l] # None => slots'[i][l].reading = a.reading
  <2> SUFFICES ASSUME i \notin mixed, NEW l \in 0..(MaxLen - 1), l < k + 1, slots'[i][l] # None
               PROVE  slots'[i][l].reading = a.reading
    OBVIOUS
  <2>1. CASE l = k
    BY <1>4, <1>7, <2>1
  <2>2. CASE l # k
    <3>1. l < k /\ slots'[i][l] = slots[i][l]
      BY <1>2, <1>7, <2>2
    <3> QED BY <1>8, <1>9, <3>1 DEF WholeInv, Midway, a, k
  <2> QED BY <2>1, <2>2
<1>15. Settled'
  <2> SUFFICES ASSUME NEW j \in Mapped \ mixed, \A u \in Drainers : ~Stores(u, j)'
               PROVE  Alike(slots'[j])
    BY <1>1 DEF Settled
  <2>1. CASE j # i
    BY <1>7, <1>9, <1>10, <2>1 DEF WholeInv, Settled
  <2>2. CASE j = i
    <3>1. ~(k + 1 < a.len)
      BY <1>3, <1>6, <2>2 DEF Stores, Own
    <3>2. \A l \in 0..(MaxLen - 1) : slots'[i][l] # None => l < RegisterMap[i].len
      BY <1>7, <1>8 DEF Stored
    <3>3. RegisterMap[i].len \in Nat
      BY <1>8, MapIsConfig
    <3>4. \A l \in 0..(MaxLen - 1) : slots'[i][l] # None => slots'[i][l].reading = a.reading
      BY <1>2, <1>4, <1>8, <1>14, <2>2, <3>1, <3>2, <3>3
    <3> QED BY <2>2, <3>4 DEF Alike
  <2> QED BY <2>1, <2>2
<1>16. Midway'
  <2> SUFFICES ASSUME NEW j \in Mapped \ mixed, NEW u \in Drainers, Stores(u, j)',
                      NEW l \in 0..(MaxLen - 1), l < job'[u].next, slots'[j][l] # None
               PROVE  slots'[j][l].reading = job'[u].answer.reading
    BY <1>1 DEF Midway
  <2>1. CASE j # i
    <3>1. u # t /\ Stores(u, j)
      BY <1>9, <1>10, <2>1
    <3> QED BY <1>5, <1>7, <2>1, <3>1 DEF WholeInv, Midway
  <2>2. CASE j = i
    <3>1. u = t
      BY <1>8, <1>10, <1>13, <2>2
    <3>2. k + 1 < a.len
      BY <1>5, <3>1 DEF Stores
    <3> QED BY <1>6, <1>14, <2>2, <3>1, <3>2
  <2> QED BY <2>1, <2>2
<1> QED BY <1>1, <1>7, <1>11, <1>12, <1>15, <1>16 DEF WholeInv, Shaped

(* haas_device_dataRead leaves the slots alone, and a value of one word is    *)
(* whole.                                                                    *)
LEMMA CreditWhole ==
  ASSUME Kept = Entries, WholeInv, NEW t \in Drainers, Credit(t)
  PROVE  (Shaped /\ Filed /\ Stored /\ Waiting /\ Alone /\ Settled /\ Midway)'
<1>1. /\ job[t] # None /\ job[t].credit /\ Onward(t)
      /\ UNCHANGED <<slots, pollAt, reading, box, mixed>>
  BY DEF Credit
<1>2. /\ TablesGood' /\ slots' = slots
      /\ strayed \subseteq Entries => strayed' \subseteq Entries
      /\ \A i \in Entries :
           /\ dev'[i].len = dev[i].len /\ dev'[i].valid = dev[i].valid
           /\ \/ dev'[i].value = dev[i].value
              \/ DOMAIN dev'[i].value = {0} /\ dev'[i].value[0] \in Word
  BY CreditStep DEF WholeInv, StoreInv
<1>3. /\ job'[t] \in Job /\ job'[t].answer = job[t].answer /\ job'[t].next = job[t].next
      /\ \A u \in Drainers : u # t => job'[u] = job[u]
  BY <1>1, OnwardJob DEF WholeInv, StoreInv
<1>4. job'[t] # None
  BY <1>3, NoneAssumption
<1>5. \A j \in Mapped : \A u \in Drainers : Stores(u, j)' <=> Stores(u, j)
  BY <1>1, <1>3, <1>4 DEF Stores, Own
<1>6. \A u \in Drainers : job'[u] # None =>
        /\ job[u] # None /\ job'[u].answer = job[u].answer /\ job'[u].next = job[u].next
  BY <1>1, <1>3
<1>7. Filed'
  <2> SUFFICES ASSUME NEW i \in Entries
      PROVE  /\ dev'[i].slave = Config[i].slave /\ dev'[i].cmd = Config[i].cmd
             /\ dev'[i].reg = Config[i].reg /\ dev'[i].len \in {Config[i].len, Clamp(Config[i].len)}
             /\ dev'[i].valid \in BOOLEAN
             /\ dev'[i].valid =>
                  \/ DOMAIN dev'[i].value = {0}
                  \/ \A l \in DOMAIN dev'[i].value :
                       l \in 0..(MaxLen - 1) /\ slots'[i][l] # None /\ dev'[i].value[l] = slots'[i][l]
             /\ \A l \in DOMAIN dev'[i].value : dev'[i].value[l] \in Word
    BY DEF Filed
  <2>1. Asks(i)'
    BY <1>2 DEF TablesGood
  <2>2. CASE dev'[i].value = dev[i].value
    BY <1>2, <2>1, <2>2 DEF WholeInv, Filed, Asks
  <2>3. CASE DOMAIN dev'[i].value = {0} /\ dev'[i].value[0] \in Word
    BY <1>2, <2>1, <2>3 DEF WholeInv, Filed, Asks
  <2> QED BY <1>2, <2>2, <2>3
<1>8. Shaped' /\ Stored' /\ Waiting'
  BY <1>1, <1>2, <1>6 DEF WholeInv, Shaped, Stored, Waiting
<1>9. Alone' /\ Settled'
  BY <1>1, <1>5 DEF WholeInv, Alone, Settled
<1>10. Midway'
  <2>1. \A j \in Mapped : \A u \in Drainers : Stores(u, j)' =>
          Stores(u, j) /\ job'[u].answer = job[u].answer /\ job'[u].next = job[u].next
    BY <1>5, <1>6 DEF Stores
  <2> QED BY <1>1, <2>1 DEF WholeInv, Midway
<1> QED BY <1>7, <1>8, <1>9, <1>10

(* Every step keeps the slots whole.                                         *)
LEMMA WholeNext ==
  ASSUME Kept = Entries, Disjoint, WholeInv, [Next]_vars
  PROVE  WholeInv'
<1>1. StoreInv'
  BY StoreInvNext DEF WholeInv
<1>2. CASE UNCHANGED vars
  BY <1>1, <1>2 DEF vars, WholeInv, Shaped, Filed, Stored, Waiting, Alone, Settled, Midway, Stores
<1> QED BY <1>1, <1>2, PollWhole, TakeWhole, CreditWhole, StoreWhole DEF Next, WholeInv

(* For any number of draining threads, and entries that all have a slave     *)
(* address and share no register: a value that is published is made of the   *)
(* words of one reading, except while an answer for it is being stored, or   *)
(* from when a second thread stores one at the same time to when one is taken *)
(* alone (parse_modbus_response, store_register_data,                        *)
(* recalc_register_outputs); and the tables keep their types.                *)
THEOREM WholeUnlessMixed ==
  ASSUME Kept = Entries, Disjoint
  PROVE  Spec => []WholeWhenSettled
<1>1. Init => WholeInv
  BY WholeInit
<1>2. WholeInv /\ [Next]_vars => WholeInv'
  BY WholeNext
<1>3. WholeInv => TypeOK
  <2> SUFFICES ASSUME WholeInv PROVE TypeOK
    OBVIOUS
  <2>1. \A t \in Drainers : job[t] = None \/ job[t] \in Job
    BY DEF WholeInv, StoreInv, AnswersTyped
  <2>2. reading \in 0..(Readings - 1) /\ box \in Seq(Answer) /\ Len(box) <= BoxDepth
    BY DEF WholeInv, StoreInv, AnswersTyped, Waiting
  <2>3. DOMAIN dev = Entries /\ \A i \in Entries :
          dev[i].slave \in Nat /\ dev[i].cmd \in Nat /\ dev[i].reg \in Nat /\ dev[i].len \in Nat
    BY EntryTyped DEF WholeInv, StoreInv, TablesGood
  <2>4. \A i \in Entries : /\ dev[i].valid \in BOOLEAN
                          /\ \A k \in DOMAIN dev[i].value : dev[i].value[k] \in Word
    BY DEF WholeInv, Filed
  <2> QED BY <2>1, <2>2, <2>3, <2>4 DEF TypeOK, WholeInv, Shaped
<1>4. WholeInv => WholeWhenSettled
  <2> SUFFICES ASSUME WholeInv, NEW i \in Entries \ mixed, dev[i].valid, ~Storing(i),
                      NEW k \in DOMAIN dev[i].value, NEW l \in DOMAIN dev[i].value
               PROVE  dev[i].value[k].reading = dev[i].value[l].reading
    BY <1>3 DEF WholeWhenSettled
  <2>1. \A t \in Drainers : ~Stores(t, i)
    BY TouchesOwn DEF WholeInv, Waiting, Storing, Stores
  <2>2. Alike(slots[i])
    BY <2>1, MapIsConfig DEF WholeInv, Settled
  <2> QED BY <2>2 DEF WholeInv, Filed, Alike
<1> QED BY <1>1, <1>2, <1>3, <1>4, PTL DEF Spec
==================================================================================
