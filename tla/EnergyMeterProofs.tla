--------------------------- MODULE EnergyMeterProofs ---------------------------
(***************************************************************************)
(* The accounting of EnergyMeter, proved for every bound, word size and    *)
(* number of threads; the accounts themselves for a meter entry that is    *)
(* made of one word.                                                       *)
(***************************************************************************)
EXTENDS EnergyMeter, SequenceTheorems, TLAPS

Places == {"store", "test", "value", "reset", "clear"}
Reachable(t) == At(t, "test") \/ At(t, "value")
Capturing(t) == At(t, "reset") \/ At(t, "clear")

(* A thread past a store finds a value, and the capture that is under way is *)
(* that of a thread past its value.                                          *)
PlaceInv ==
  /\ TypeOK
  /\ \A t \in Drainers : Reachable(t) => HasValue
  /\ open # None => Capturing(open.by)

(* An answer of the present period shows no more than the meter still has.   *)
Covered(a) == a.since <= clears /\ (a.since = clears => a.shows <= meter)

(* The inductive invariant of the accounts of a one word entry. *)
AccountInv ==
  /\ \A t \in Drainers : job[t] # None => Covered(job[t].answer)
  /\ \A i \in 1..Len(box) : Covered(box[i])
  /\ since <= clears
  /\ since = clears /\ slot[0] # None => slot[0] <= meter
  /\ Owed <= meter
  /\ booked + meter <= used + excess + Owed

-----------------------------------------------------------------------------
(* What the steps of a thread do to its place.                             *)

LEMMA GotoStep ==
  ASSUME TypeOK, NEW t \in Drainers, NEW place \in Places, job[t] # None, Goto(t, place)
  PROVE  /\ job' \in [Drainers -> Job \cup {None}]
         /\ job'[t] # None /\ job'[t].at = place /\ job'[t].answer = job[t].answer
         /\ \A u \in Drainers : u # t => job'[u] = job[u]
<1>1. job[t] \in Job
  BY DEF TypeOK
<1>2. [job[t] EXCEPT !.at = place] \in Job
  BY <1>1 DEF Job, Places
<1>3. job' = [job EXCEPT ![t] = [job[t] EXCEPT !.at = place]]
  BY DEF Goto
<1>4. job'[t] = [job[t] EXCEPT !.at = place]
  BY <1>3 DEF TypeOK
<1>5. job'[t].at = place /\ job'[t].answer = job[t].answer
  BY <1>1, <1>4 DEF Job
<1> QED BY <1>2, <1>3, <1>4, <1>5, NoneAssumption DEF TypeOK

LEMMA ReturnStep ==
  ASSUME TypeOK, NEW t \in Drainers, job[t] # None, Return(t)
  PROVE  /\ job' \in [Drainers -> Job \cup {None}]
         /\ job'[t] # None => job'[t].at = "store" /\ job'[t].answer = job[t].answer
         /\ \A u \in Drainers : u # t => job'[u] = job[u]
<1>1. job[t] \in Job /\ Width \in 1..2
  BY DEF TypeOK, Width
<1> DEFINE more == job[t].next + 1 < Width
           j == [answer |-> job[t].answer, next |-> job[t].next + 1, at |-> "store"]
<1>2. more => j \in Job /\ j.at = "store" /\ j.answer = job[t].answer
  BY <1>1 DEF Job
<1>3. job' = [job EXCEPT ![t] = IF more THEN j ELSE None]
  BY DEF Return
<1>4. job'[t] = IF more THEN j ELSE None
  BY <1>3 DEF TypeOK
<1> QED BY <1>2, <1>3, <1>4 DEF TypeOK

(* A word of an answer fits a register, and holds no more than the number it *)
(* is taken from.                                                            *)
LEMMA WordFits ==
  ASSUME NEW e \in Nat, NEW k
  PROVE  Word(e, k) \in 0..(WordBase - 1) /\ (Width = 1 /\ k = 0 => Word(e, k) <= e)
<1>1. \A n \in Nat : n % WordBase \in 0..(WordBase - 1) /\ n % WordBase <= n
  BY MeterAssumption, SMTT(30)
<1>2. e \div WordBase \in Nat
  BY MeterAssumption, SMTT(30)
<1> QED BY <1>1, <1>2 DEF Word

(* What an entry aggregates to is a number, for both widths. *)
LEMMA ReadingInNat ==
  ASSUME TypeOK, HasValue
  PROVE  Reading \in Nat /\ (Width = 1 => slot[0] # None /\ Reading = slot[0])
<1> DEFINE v == Value(slot, Energy.len, Energy.kind)
<1>1. slot \in [0..(MaxLen - 1) -> 0..(WordBase - 1) \cup {None}]
  BY DEF TypeOK
<1>2. slot[0] # None /\ slot[0] \in 0..(WordBase - 1) /\ 0 \in Contiguous(slot, Energy.len)
  BY <1>1, MaxLenAssumption DEF HasValue, Aggregated, Contiguous
<1>3. CASE Energy.kind = "pair"
  <2>1. slot[1] # None /\ slot[1] \in 0..(WordBase - 1)
    BY <1>1, <1>3, MaxLenAssumption DEF HasValue, Aggregated, Contiguous
  <2>2. Width = 2 /\ v[0] = slot[0] /\ v[1] = slot[1]
    BY <1>3 DEF Width, Value
  <2>3. \A x, y \in Nat : x * WordBase + y \in Nat
    BY MeterAssumption, SMTT(30)
  <2>4. slot[0] \in Nat /\ slot[1] \in Nat
    BY <1>2, <2>1, MeterAssumption
  <2>5. Reading = slot[0] * WordBase + slot[1]
    BY <2>2 DEF Reading, Number
  <2>6. slot[0] * WordBase + slot[1] \in Nat
    BY <2>3, <2>4, Zenon
  <2>7. Reading \in Nat
    BY <2>5, <2>6, Zenon
  <2> QED BY <2>2, <2>7
<1>4. CASE Energy.kind # "pair"
  <2>1. Width = 1 /\ v[0] = slot[0]
    BY <1>2, <1>4 DEF Width, Value
  <2> QED BY <1>2, <2>1, MeterAssumption DEF Reading, Number
<1> QED BY <1>3, <1>4

(* A slot that has a value keeps one, whatever word is put there. *)
LEMMA StoreKeepsValue ==
  ASSUME TypeOK, NEW k \in 0..(MaxLen - 1), NEW w \in 0..(WordBase - 1),
         slot' = PutWord(slot, k, w)
  PROVE  /\ slot' \in [0..(MaxLen - 1) -> 0..(WordBase - 1) \cup {None}]
         /\ slot'[k] = w
         /\ HasValue => HasValue'
<1>1. slot' \in [0..(MaxLen - 1) -> 0..(WordBase - 1) \cup {None}] /\ slot'[k] = w
  BY DEF TypeOK, PutWord
<1>2. \A i \in 0..(MaxLen - 1) : slot[i] # None => slot'[i] # None
  BY NoneAssumption DEF TypeOK, PutWord
<1>3. ASSUME NEW i \in {0, 1}, i \in Contiguous(slot, Energy.len)
      PROVE  i \in Contiguous(slot', Energy.len)
  <2>1. \A m \in 0..i : m \in 0..(MaxLen - 1)
    BY MaxLenAssumption
  <2> QED BY <1>2, <1>3, <2>1 DEF Contiguous
<1>4. HasValue => HasValue'
  BY <1>3 DEF HasValue, Aggregated
<1> QED BY <1>1, <1>4

-----------------------------------------------------------------------------
(* Types and places, for both widths.                                      *)

LEMMA PlaceStore == ASSUME PlaceInv, NEW t \in Drainers, StoreWord(t) PROVE PlaceInv'
<1> DEFINE k == job[t].next
           w == Word(job[t].answer.shows, k)
<1>1. TypeOK /\ job[t] # None /\ job[t].at = "store" /\ job[t] \in Job
  BY DEF PlaceInv, StoreWord, At, TypeOK
<1>2. job[t].answer \in Answer /\ k \in 0..(MaxLen - 1)
  BY <1>1, MaxLenAssumption DEF Job, Width
<1>3. w \in 0..(WordBase - 1) /\ since' \in Nat
  BY <1>2, WordFits DEF Answer, StoreWord
<1>4. slot' = PutWord(slot, k, w)
  BY DEF StoreWord
<1> HIDE DEF k, w
<1>5. slot' \in [0..(MaxLen - 1) -> 0..(WordBase - 1) \cup {None}] /\ (HasValue => HasValue')
  BY <1>1, <1>2, <1>3, <1>4, StoreKeepsValue
<1>6. /\ job' \in [Drainers -> Job \cup {None}]
      /\ \A u \in Drainers : u # t => job'[u] = job[u]
      /\ job'[t] # None => job'[t].at = "store" \/ (job'[t].at = "test" /\ HasValue')
  BY <1>1, GotoStep, ReturnStep DEF StoreWord, Places
<1>7. TypeOK'
  BY <1>1, <1>3, <1>5, <1>6 DEF StoreWord, TypeOK, site, accounts, Owed
<1>8. \A u \in Drainers : Reachable(u)' => HasValue'
  BY <1>5, <1>6 DEF PlaceInv, Reachable, At
<1>9. open' = open
  BY DEF StoreWord, accounts
<1>10. open # None => Capturing(open.by)'
  BY <1>1, <1>6, <1>9 DEF PlaceInv, Capturing, At, TypeOK, Capture
<1> QED BY <1>7, <1>8, <1>9, <1>10 DEF PlaceInv

LEMMA PlaceTest == ASSUME PlaceInv, NEW t \in Drainers, Test(t) PROVE PlaceInv'
<1>1. TypeOK /\ job[t] # None /\ job[t].at = "test" /\ HasValue
  BY DEF PlaceInv, Test, At, Reachable
<1>2. /\ job' \in [Drainers -> Job \cup {None}]
      /\ \A u \in Drainers : u # t => job'[u] = job[u]
  BY <1>1, GotoStep, ReturnStep DEF Test, Places
<1>3. HasValue' /\ open' = open
  BY <1>1 DEF Test, accounts, HasValue
<1>4. TypeOK'
  BY <1>1, <1>2 DEF Test, TypeOK, site, accounts, Owed
<1>5. open # None => Capturing(open.by)'
  BY <1>1, <1>2, <1>3 DEF PlaceInv, Capturing, At, TypeOK, Capture
<1> QED BY <1>3, <1>4, <1>5 DEF PlaceInv

LEMMA PlaceValue == ASSUME PlaceInv, NEW t \in Drainers, TakeValue(t) PROVE PlaceInv'
<1>1. TypeOK /\ job[t] # None /\ job[t].at = "value" /\ HasValue
  BY DEF PlaceInv, TakeValue, At, Reachable
<1>2. /\ job' \in [Drainers -> Job \cup {None}]
      /\ job'[t] # None /\ job'[t].at = "reset"
      /\ \A u \in Drainers : u # t => job'[u] = job[u]
  BY <1>1, GotoStep DEF TakeValue, Places
<1>3. HasValue'
  BY <1>1 DEF TakeValue, HasValue
<1>4. Reading \in Nat
  BY <1>1, ReadingInNat
<1>5. captured' = Reading /\ booked' = booked + Reading
  BY DEF TakeValue
<1>6. /\ excess' \in Nat /\ (open' # None => open' \in Capture) /\ excess' + Owed' <= booked'
      /\ open' # None => open' = open \/ open'.by = t
  <2>1. CASE Fresh
    <3>1. open' = [by |-> t, wh |-> Reading] /\ excess' = excess /\ open = None
      BY <2>1 DEF TakeValue, Fresh
    <3>2. open' \in Capture /\ open'.by = t /\ Owed' = Reading
      BY <1>4, <3>1, NoneAssumption DEF Capture, Owed
    <3> QED BY <1>1, <1>4, <1>5, <3>1, <3>2 DEF TypeOK, Owed
  <2>2. CASE ~Fresh
    <3>1. open' = open /\ excess' = excess + Reading /\ Owed' = Owed
      BY <2>2 DEF TakeValue, Owed
    <3>2. Owed \in Nat
      BY <1>1 DEF Owed, TypeOK, Capture
    <3> QED BY <1>1, <1>4, <1>5, <3>1, <3>2 DEF TypeOK
  <2> QED BY <2>1, <2>2
<1> HIDE DEF Reading
<1>7. TypeOK'
  BY <1>1, <1>2, <1>4, <1>5, <1>6 DEF TakeValue, TypeOK, site
<1>8. open' # None => Capturing(open.by)'
  BY <1>1, <1>2, <1>6 DEF PlaceInv, Capturing, At, TypeOK, Capture
<1> QED BY <1>3, <1>7, <1>8 DEF PlaceInv

LEMMA PlaceReset == ASSUME PlaceInv, NEW t \in Drainers, ResetRequest(t) PROVE PlaceInv'
<1>1. TypeOK /\ job[t] # None /\ job[t].at = "reset"
  BY DEF PlaceInv, ResetRequest, At
<1>2. /\ job' \in [Drainers -> Job \cup {None}]
      /\ job'[t] # None /\ job'[t].at = "clear"
      /\ \A u \in Drainers : u # t => job'[u] = job[u]
  BY <1>1, GotoStep DEF ResetRequest, Places
<1>3. HasValue' = HasValue /\ open' = open
  BY DEF ResetRequest, accounts, HasValue
<1>4. TypeOK'
  BY <1>1, <1>2 DEF ResetRequest, TypeOK, site, accounts, Owed
<1>5. \A u \in Drainers : Reachable(u)' => HasValue'
  BY <1>2, <1>3 DEF PlaceInv, Reachable, At
<1>6. open # None => Capturing(open.by)'
  BY <1>1, <1>2, <1>3 DEF PlaceInv, Capturing, At, TypeOK, Capture
<1> QED BY <1>3, <1>4, <1>5, <1>6 DEF PlaceInv

LEMMA PlaceClear == ASSUME PlaceInv, NEW t \in Drainers, SendClear(t) PROVE PlaceInv'
<1>1. TypeOK /\ job[t] # None /\ job[t].at = "clear"
  BY DEF PlaceInv, SendClear, At
<1>2. /\ job' \in [Drainers -> Job \cup {None}]
      /\ job'[t] # None => job'[t].at = "store"
      /\ \A u \in Drainers : u # t => job'[u] = job[u]
  BY <1>1, ReturnStep DEF SendClear
<1>3. HasValue' = HasValue /\ used' = used /\ booked' = booked
  BY DEF SendClear, HasValue
<1>4. /\ meter' \in 0..used' /\ clears' \in Nat /\ excess' \in Nat /\ excess' + Owed' <= booked'
      /\ open' = None \/ (open' = open /\ open.by # t)
  <2>1. CASE meter' = 0 /\ clears' = clears + 1 /\ open' = None /\ excess' = excess
    <3>1. Owed' = 0 /\ Owed \in Nat
      BY <1>1, <2>1 DEF Owed, TypeOK, Capture
    <3> QED BY <1>1, <1>3, <2>1, <3>1 DEF TypeOK
  <2>2. CASE /\ open # None /\ open.by = t /\ open' = None /\ excess' = excess + open.wh
             /\ meter' = meter /\ clears' = clears
    <3>1. Owed' = 0 /\ Owed = open.wh /\ open.wh \in Nat
      BY <1>1, <2>2 DEF Owed, TypeOK, Capture
    <3> QED BY <1>1, <1>3, <2>2, <3>1 DEF TypeOK
  <2>3. CASE /\ ~(open # None /\ open.by = t) /\ open' = open /\ excess' = excess
             /\ meter' = meter /\ clears' = clears
    BY <1>1, <1>3, <2>3 DEF TypeOK, Owed
  <2> QED BY <2>1, <2>2, <2>3 DEF SendClear
<1>5. TypeOK'
  BY <1>1, <1>2, <1>4 DEF SendClear, TypeOK
<1>6. \A u \in Drainers : Reachable(u)' => HasValue'
  BY <1>2, <1>3 DEF PlaceInv, Reachable, At
<1>7. open' # None => Capturing(open.by)'
  BY <1>1, <1>2, <1>4 DEF PlaceInv, Capturing, At, TypeOK, Capture
<1> QED BY <1>5, <1>6, <1>7 DEF PlaceInv

LEMMA PlaceTake == ASSUME PlaceInv, NEW t \in Drainers, Take(t) PROVE PlaceInv'
<1> DEFINE j == [answer |-> Head(box), next |-> 0, at |-> "store"]
<1>1. TypeOK /\ job[t] = None /\ box # <<>> /\ box' = Tail(box) /\ job' = [job EXCEPT ![t] = j]
  BY DEF PlaceInv, Take
<1>2. Head(box) \in Answer /\ Tail(box) \in Seq(Answer) /\ Len(Tail(box)) = Len(box) - 1 /\ Len(box) \in Nat
  BY <1>1, HeadTailProperties, LenProperties, EmptySeq DEF TypeOK
<1>3. j \in Job /\ j.at = "store"
  BY <1>2 DEF Job, Width
<1> HIDE DEF j
<1>4. /\ job' \in [Drainers -> Job \cup {None}] /\ job'[t].at = "store"
      /\ \A u \in Drainers : u # t => job'[u] = job[u]
  BY <1>1, <1>3 DEF TypeOK
<1>5. TypeOK'
  BY <1>1, <1>2, <1>4, MeterAssumption DEF Take, TypeOK, site, accounts, Owed
<1>6. HasValue' = HasValue /\ open' = open
  BY DEF Take, accounts, HasValue
<1>7. \A u \in Drainers : Reachable(u)' => HasValue'
  BY <1>4, <1>6 DEF PlaceInv, Reachable, At
<1>8. open # None => Capturing(open.by)'
  BY <1>1, <1>4, <1>6 DEF PlaceInv, Capturing, At, TypeOK, Capture
<1> QED BY <1>5, <1>6, <1>7, <1>8 DEF PlaceInv

LEMMA PlaceSite == ASSUME PlaceInv, Use \/ FullRead \/ WindowCycle PROVE PlaceInv'
<1>1. TypeOK /\ UNCHANGED <<job, slot, open, excess, booked>>
  BY DEF PlaceInv, Use, FullRead, WindowCycle, accounts
<1>2. CASE Use
  BY <1>1, <1>2, MeterAssumption DEF Use, TypeOK, PlaceInv, accounts, Owed, HasValue, Reachable, Capturing, At
<1>3. CASE FullRead
  <2> DEFINE a == [shows |-> meter, since |-> clears]
  <2>1. a \in Answer
    BY <1>1 DEF Answer, TypeOK
  <2>2. box' \in Seq(Answer) /\ Len(box') = Len(box) + 1 /\ Len(box) \in Nat
    BY <1>1, <1>3, <2>1, AppendProperties, LenProperties DEF FullRead, TypeOK
  <2>3. shown' \subseteq 0..MaxUsed
    BY <1>1, <1>3, MeterAssumption DEF FullRead, TypeOK
  <2>4. TypeOK'
    BY <1>1, <1>3, <2>2, <2>3, MeterAssumption DEF FullRead, TypeOK, accounts, Owed
  <2> QED BY <1>1, <2>4 DEF PlaceInv, HasValue, Reachable, Capturing, At
<1>4. CASE WindowCycle
  BY <1>1, <1>4, MeterAssumption
     DEF WindowCycle, TypeOK, PlaceInv, site, accounts, Owed, HasValue, Reachable, Capturing, At
<1> QED BY <1>2, <1>3, <1>4

LEMMA PlaceAlways == Spec => []PlaceInv
<1>1. Init => PlaceInv
  <2> SUFFICES ASSUME Init PROVE PlaceInv
    OBVIOUS
  <2>1. slot \in [0..(MaxLen - 1) -> 0..(WordBase - 1) \cup {None}]
    BY DEF Init, EmptySlot
  <2>2. box \in Seq(Answer) /\ Len(box) <= BoxDepth
    BY EmptySeq, MeterAssumption DEF Init
  <2>3. job \in [Drainers -> Job \cup {None}] /\ \A t \in Drainers : job[t] = None
    BY DEF Init
  <2>4. used \in 0..MaxUsed /\ meter \in 0..used /\ windows \in 0..MaxWindows /\ shown \subseteq 0..MaxUsed
    BY MeterAssumption DEF Init
  <2>6. requested \in BOOLEAN
    BY DEF Init
  <2>5. /\ captured \in Nat /\ booked \in Nat /\ excess \in Nat /\ excess + Owed <= booked
        /\ clears \in Nat /\ since \in Nat /\ open = None
    <3>1. Owed = 0 /\ excess = 0 /\ booked = 0
      BY DEF Init, Owed
    <3> QED BY <3>1 DEF Init
  <2> QED BY <2>1, <2>2, <2>3, <2>4, <2>5, <2>6 DEF PlaceInv, TypeOK, Reachable, At
<1>2. PlaceInv /\ [Next]_vars => PlaceInv'
  <2> SUFFICES ASSUME PlaceInv, [Next]_vars PROVE PlaceInv'
    OBVIOUS
  <2>1. CASE UNCHANGED vars
    BY <2>1 DEF vars, accounts, PlaceInv, TypeOK, Owed, HasValue, Reachable, Capturing, At
  <2>2. CASE Next
    BY <2>2, PlaceSite, PlaceTake, PlaceStore, PlaceTest, PlaceValue, PlaceReset, PlaceClear DEF Next
  <2> QED BY <2>1, <2>2
<1> QED BY <1>1, <1>2, PTL DEF Spec

-----------------------------------------------------------------------------
(* The accounts.                                                           *)

(* The answer taken is one of those that were waiting. *)
LEMMA AccountTake ==
  ASSUME PlaceInv, AccountInv, NEW t \in Drainers, Take(t) PROVE AccountInv'
<1> DEFINE j == [answer |-> Head(box), next |-> 0, at |-> "store"]
<1>1. TypeOK /\ box # <<>> /\ box' = Tail(box) /\ job' = [job EXCEPT ![t] = j]
  BY DEF PlaceInv, Take
<1>2. /\ Len(box) \in Nat /\ Len(box) # 0 /\ Head(box) = box[1]
      /\ Len(Tail(box)) = Len(box) - 1
      /\ \A i \in 1..Len(Tail(box)) : Tail(box)[i] = box[i + 1]
  BY <1>1, HeadTailProperties, LenProperties, EmptySeq DEF TypeOK
<1>3. Covered(box[1]) /\ \A i \in 1..Len(Tail(box)) : Covered(Tail(box)[i])
  BY <1>2 DEF AccountInv
<1>4. job'[t].answer = box[1] /\ \A u \in Drainers : u # t => job'[u] = job[u]
  BY <1>1, <1>2 DEF TypeOK
<1> QED BY <1>1, <1>3, <1>4 DEF Take, AccountInv, Covered, site, accounts, Owed

LEMMA AccountStore ==
  ASSUME Width = 1, PlaceInv, AccountInv, NEW t \in Drainers, StoreWord(t) PROVE AccountInv'
<1> DEFINE w == Word(job[t].answer.shows, 0)
<1>1. TypeOK /\ job[t] # None /\ job[t] \in Job
  BY DEF PlaceInv, StoreWord, At, TypeOK
<1>2. job[t].next = 0 /\ job[t].answer \in Answer /\ Covered(job[t].answer)
  BY <1>1 DEF Job, AccountInv
<1>3. job[t].answer.shows \in Nat /\ w \in 0..(WordBase - 1) /\ w <= job[t].answer.shows
  BY <1>2, WordFits DEF Answer
<1>4. slot' = PutWord(slot, 0, w) /\ since' = job[t].answer.since
  BY <1>2 DEF StoreWord
<1> HIDE DEF w
<1>5. slot'[0] = w
  BY <1>1, <1>3, <1>4, MaxLenAssumption, StoreKeepsValue
<1>6. UNCHANGED <<meter, clears, box, booked, open, excess, used>>
  BY DEF StoreWord, site, accounts
<1>7. \A u \in Drainers : job'[u] # None => job'[u].answer = job[u].answer /\ job[u] # None
  BY <1>1, GotoStep, ReturnStep DEF StoreWord, Places
<1>8. w \in Nat /\ meter \in Nat
  BY <1>1, <1>3, MeterAssumption DEF TypeOK
<1>9. since' <= clears' /\ (since' = clears' => slot'[0] <= meter')
  BY <1>2, <1>3, <1>4, <1>5, <1>6, <1>8 DEF Covered
<1> QED BY <1>6, <1>7, <1>9 DEF AccountInv, Covered, Owed

(* A fresh number is owed until the meter is cleared of it; any other is     *)
(* excess at once.                                                           *)
LEMMA AccountValue ==
  ASSUME Width = 1, PlaceInv, AccountInv, NEW t \in Drainers, TakeValue(t) PROVE AccountInv'
<1>1. TypeOK /\ job[t] # None /\ HasValue
  BY DEF PlaceInv, TakeValue, At, Reachable
<1>2. Reading \in Nat /\ slot[0] # None /\ Reading = slot[0]
  BY <1>1, ReadingInNat
<1>3. \A u \in Drainers : job'[u] # None => job'[u].answer = job[u].answer /\ job[u] # None
  BY <1>1, GotoStep DEF TakeValue, Places
<1>4. UNCHANGED <<used, meter, clears, box, slot, since>> /\ booked' = booked + Reading
  BY DEF TakeValue, site
<1>5. Owed' <= meter' /\ booked' + meter' <= used' + excess' + Owed'
  <2>1. CASE Fresh
    <3>1. open' = [by |-> t, wh |-> Reading] /\ excess' = excess /\ open = None /\ since = clears
      BY <2>1 DEF TakeValue, Fresh
    <3>2. Owed' = Reading /\ Owed = 0
      BY <1>2, <3>1, NoneAssumption DEF Capture, Owed
    <3>3. Reading <= meter
      BY <1>2, <3>1 DEF AccountInv
    <3> QED BY <1>1, <1>2, <1>4, <3>1, <3>2, <3>3 DEF AccountInv, TypeOK
  <2>2. CASE ~Fresh
    <3>1. open' = open /\ excess' = excess + Reading /\ Owed' = Owed
      BY <2>2 DEF TakeValue, Owed
    <3>2. Owed \in Nat
      BY <1>1 DEF Owed, TypeOK, Capture
    <3>3. used \in Nat /\ meter \in Nat /\ booked \in Nat /\ excess \in Nat
      BY <1>1, MeterAssumption DEF TypeOK
    <3>4. Owed <= meter /\ booked + meter <= used + excess + Owed
      BY DEF AccountInv
    <3> HIDE DEF Reading
    <3> QED BY <1>2, <1>4, <3>1, <3>2, <3>3, <3>4
  <2> QED BY <2>1, <2>2
<1> QED BY <1>3, <1>4, <1>5 DEF AccountInv, Covered

(* A lost clear only moves what is owed to the excess. *)
LEMMA Transfer ==
  ASSUME NEW u \in Nat, NEW m \in Nat, NEW b \in Nat, NEW e \in Nat, NEW f \in Nat,
         NEW o \in Nat, NEW p \in Nat, f + p = e + o, b + m <= u + e + o
  PROVE  b + m <= u + f + p
  OBVIOUS

LEMMA AccountClear ==
  ASSUME PlaceInv, AccountInv, NEW t \in Drainers, SendClear(t) PROVE AccountInv'
<1>1. TypeOK /\ job[t] # None
  BY DEF PlaceInv, SendClear, At
<1>2. \A u \in Drainers : job'[u] # None => job'[u].answer = job[u].answer /\ job[u] # None
  BY <1>1, ReturnStep DEF SendClear
<1>3. UNCHANGED <<used, box, slot, since, booked>>
  BY DEF SendClear
<1>4. /\ used \in Nat /\ meter \in Nat /\ clears \in Nat /\ since \in Nat
      /\ booked \in Nat /\ excess \in Nat /\ Owed \in Nat
  BY <1>1, MeterAssumption DEF TypeOK, Owed, Capture
<1>5. CASE meter' = 0 /\ clears' = clears + 1 /\ open' = None /\ excess' = excess
  <2>1. Owed' = 0
    BY <1>5 DEF Owed
  <2>2. since' < clears' /\ booked' + meter' <= used' + excess' + Owed'
    BY <1>3, <1>4, <1>5, <2>1 DEF AccountInv
  <2>3. ASSUME NEW a \in Answer, Covered(a) PROVE Covered(a)'
    BY <1>4, <1>5, <2>3 DEF Covered, Answer
  <2>4. \A u \in Drainers : job'[u] # None => Covered(job[u].answer)'
    BY <1>1, <1>2, <2>3 DEF AccountInv, TypeOK, Job
  <2>5. \A i \in 1..Len(box) : Covered(box[i])'
    BY <1>1, <1>3, <2>3, ElementOfSeq DEF AccountInv, TypeOK
  <2> QED BY <1>3, <1>4, <1>5, <2>1, <2>2, <2>4, <2>5 DEF AccountInv, Covered
<1>6. CASE meter' = meter /\ clears' = clears /\ excess' + Owed' = excess + Owed /\ Owed' <= Owed
  <2>1. Owed' <= meter' /\ booked' + meter' <= used' + excess' + Owed'
    <3>1. PlaceInv'
      BY PlaceClear
    <3>2. Owed' \in Nat /\ excess' \in Nat
      BY <3>1 DEF PlaceInv, TypeOK, Owed, Capture
    <3>4. Owed <= meter /\ booked + meter <= used + excess + Owed
      BY DEF AccountInv
    <3>5. excess' + Owed' = excess + Owed
      BY <1>6
    <3>6. booked + meter <= used + excess' + Owed'
      BY <1>4, <3>2, <3>4, <3>5, Transfer
    <3>7. Owed' <= meter
      BY <1>4, <1>6, <3>2, <3>4
    <3> QED BY <1>3, <1>6, <3>6, <3>7
  <2> QED BY <1>2, <1>3, <1>6, <2>1 DEF AccountInv, Covered
<1>7. CASE /\ open # None /\ open.by = t /\ open' = None /\ excess' = excess + open.wh
           /\ meter' = meter /\ clears' = clears
  <2>1. Owed' = 0 /\ Owed = open.wh
    BY <1>7 DEF Owed
  <2> QED BY <1>4, <1>6, <1>7, <2>1
<1>8. CASE open' = open /\ excess' = excess /\ meter' = meter /\ clears' = clears
  BY <1>4, <1>6, <1>8 DEF Owed
<1> QED BY <1>5, <1>7, <1>8 DEF SendClear

LEMMA AccountSite ==
  ASSUME PlaceInv, AccountInv, Use \/ FullRead \/ WindowCycle PROVE AccountInv'
<1>1. /\ TypeOK /\ UNCHANGED <<job, slot, since, clears, open, excess, booked>>
      /\ Owed' = Owed /\ Owed \in Nat
  BY DEF PlaceInv, Use, FullRead, WindowCycle, accounts, site, Owed, TypeOK, Capture
<1>2. CASE Use
  <2>1. /\ meter \in Nat /\ used \in Nat /\ meter' = meter + 1 /\ used' = used + 1 /\ box' = box
        /\ since \in Nat /\ booked \in Nat /\ excess \in Nat
    BY <1>1, <1>2, MeterAssumption DEF Use, TypeOK
  <2>2. \A a \in Answer : Covered(a) => Covered(a)'
    BY <1>1, <2>1 DEF Covered, Answer
  <2>3. \A u \in Drainers : job'[u] # None => Covered(job[u].answer)'
    BY <1>1, <2>2 DEF AccountInv, TypeOK, Job
  <2>4. \A i \in 1..Len(box') : Covered(box[i])'
    BY <1>1, <2>1, <2>2, ElementOfSeq DEF AccountInv, TypeOK
  <2>5. since' = clears' /\ slot'[0] # None => slot'[0] <= meter'
    <3>1. slot[0] # None => slot[0] \in Nat
      BY <1>1, MaxLenAssumption, MeterAssumption DEF TypeOK
    <3> QED BY <1>1, <2>1, <3>1 DEF AccountInv
  <2>6. Owed' <= meter' /\ booked' + meter' <= used' + excess' + Owed'
    BY <1>1, <2>1 DEF AccountInv
  <2> QED BY <1>1, <2>3, <2>4, <2>5, <2>6 DEF AccountInv
<1>3. CASE FullRead
  <2> DEFINE a == [shows |-> meter, since |-> clears]
  <2>1. a \in Answer /\ Covered(a)
    BY <1>1 DEF Answer, Covered, TypeOK
  <2>2. /\ box' \in Seq(Answer) /\ Len(box') = Len(box) + 1 /\ Len(box) \in Nat
        /\ \A i \in 1..Len(box) : box'[i] = box[i]
        /\ box'[Len(box) + 1] = a
    BY <1>1, <1>3, <2>1, AppendProperties, LenProperties DEF FullRead, TypeOK
  <2>3. \A i \in 1..Len(box') : Covered(box'[i])
    <3> SUFFICES ASSUME NEW i \in 1..Len(box') PROVE Covered(box'[i])
      OBVIOUS
    <3>1. CASE i = Len(box) + 1
      BY <2>1, <2>2, <3>1
    <3>2. CASE i # Len(box) + 1
      BY <2>2, <3>2 DEF AccountInv
    <3> QED BY <3>1, <3>2
  <2> QED BY <1>1, <1>3, <2>3 DEF FullRead, AccountInv, Covered
<1>4. CASE WindowCycle
  BY <1>1, <1>4 DEF WindowCycle, AccountInv, Covered, site
<1> QED BY <1>2, <1>3, <1>4

LEMMA AccountNext ==
  ASSUME Width = 1, PlaceInv, AccountInv, [Next]_vars PROVE AccountInv'
<1>1. ASSUME NEW t \in Drainers, Test(t) \/ ResetRequest(t) PROVE AccountInv'
  <2>1. TypeOK /\ job[t] # None
    BY <1>1 DEF PlaceInv, Test, ResetRequest, At
  <2>2. \A u \in Drainers : job'[u] # None => job'[u].answer = job[u].answer /\ job[u] # None
    BY <1>1, <2>1, GotoStep, ReturnStep DEF Test, ResetRequest, Places
  <2> QED BY <1>1, <2>2 DEF Test, ResetRequest, AccountInv, Covered, site, accounts, Owed
<1>2. CASE UNCHANGED vars
  BY <1>2 DEF vars, accounts, AccountInv, Covered, Owed
<1>3. CASE Next
  BY <1>1, <1>3, AccountSite, AccountTake, AccountStore, AccountValue, AccountClear DEF Next
<1> QED BY <1>2, <1>3

(* Whatever the meter shows, however many answers wait, threads store them   *)
(* and clear frames are lost, the windows of a one word entry hold no more   *)
(* energy than was used, but for what lost clears, stale answers and         *)
(* captures that overlap account for (update_energy_window,                  *)
(* send_clear_frames).                                                       *)
THEOREM BookedOnce == Spec => []NothingBookedTwice
<1>1. CASE Width = 1
  <2>1. Init => AccountInv
    BY MaxLenAssumption, EmptySeq DEF Init, AccountInv, EmptySlot, Owed
  <2>2. AccountInv /\ PlaceInv /\ [Next]_vars => AccountInv'
    BY <1>1, AccountNext
  <2>3. AccountInv /\ PlaceInv => NothingBookedTwice
    <3> SUFFICES ASSUME AccountInv, PlaceInv PROVE NothingBookedTwice
      OBVIOUS
    <3>1. /\ used \in Nat /\ meter \in Nat /\ booked \in Nat /\ excess \in Nat /\ Owed \in Nat
      BY MeterAssumption DEF PlaceInv, TypeOK, Owed, Capture
    <3>2. booked + (meter - Owed) <= used + excess
      BY <3>1 DEF AccountInv
    <3> QED BY <3>2 DEF AccountInv, PlaceInv, NothingBookedTwice, Capturing
  <2> QED BY <2>1, <2>2, <2>3, PlaceAlways, PTL DEF Spec
<1>2. CASE Width # 1
  <2>1. PlaceInv => NothingBookedTwice
    BY <1>2 DEF PlaceInv, NothingBookedTwice, Capturing
  <2> QED BY <2>1, PlaceAlways, PTL DEF Spec
<1> QED BY <1>1, <1>2
===============================================================================
