----------------------------- MODULE RegisterSlots -----------------------------
(***************************************************************************)
(* g_register_map and g_register_data of data.c: which configured entry a  *)
(* register belongs to, and how the words of an entry become its value.    *)
(*                                                                         *)
(* The configuration is a sequence of entries, devNN of device.conf.       *)
(* init_register_map keeps those with a slave address, closing the gaps,   *)
(* so the j-th entry of the map need not be the j-th of the configuration. *)
(*                                                                         *)
(* A slot holds one word per register, None until the first one arrives:   *)
(* reg_values and reg_ready_mask in one, since a ready bit is never taken  *)
(* back (clear_register_data has no caller).  The words of a text are taken *)
(* to be printable characters, so that a text ends with its last word.     *)
(***************************************************************************)
EXTENDS Integers, Sequences, FiniteSets

CONSTANTS
  Config,   \* the entries: [slave, reg, len, cmd, kind], slave 0 when missing
  MaxLen,   \* words a slot can hold, REGISTER_VALUE_MAX_BYTES / 2 (16)
  None      \* no word yet

\* data_type: a 16 bit word, the five kinds of 32 bit values, and text.
Kinds == {"word", "pair", "text"}
Coils == {1, 2}

ASSUME MaxLenAssumption == MaxLen \in Nat /\ MaxLen >= 2
\* Entries are polled with one of the four read functions.
ASSUME ConfigAssumption ==
  Config \in Seq([slave : Nat, reg : Nat, len : Nat, cmd : 1..4, kind : Kinds])

Entries == DOMAIN Config

\* clamp_data_len.
Clamp(n) == IF n = 0 THEN 1 ELSE IF n > MaxLen THEN MaxLen ELSE n

\* init_register_map.
Kept == {i \in Entries : Config[i].slave # 0}
Position(i) == Cardinality({k \in Kept : k <= i})
Mapped == 1..Cardinality(Kept)
RegisterMap == [j \in Mapped |->
  LET e == Config[CHOOSE i \in Kept : Position(i) = j] IN [e EXCEPT !.len = Clamp(@)]]

\* Fault: the first register of an entry is tested for, not the range.
CoversFirst(j, slave, cmd, reg) ==
  RegisterMap[j].slave = slave /\ RegisterMap[j].cmd = cmd /\ reg = RegisterMap[j].reg

Covers(j, slave, cmd, reg) ==
  /\ RegisterMap[j].slave = slave /\ RegisterMap[j].cmd = cmd
  /\ reg - RegisterMap[j].reg \in 0..(RegisterMap[j].len - 1)

\* Fault: the slave address is not compared.
FoundAnySlave(slave, cmd, reg) ==
  {j \in Mapped : Covers(j, RegisterMap[j].slave, cmd, reg)}

\* The search of store_register_data takes the first entry that covers the
\* register; an entry behind it with the same register never sees it.
Found(slave, cmd, reg) == {j \in Mapped : Covers(j, slave, cmd, reg)}
FirstEntry(S) == CHOOSE j \in S : \A k \in S : j <= k

EmptySlot == [k \in 0..(MaxLen - 1) |-> None]
PutWord(slot, offset, w) == [slot EXCEPT ![offset] = w]

\* The words that are there from the first on, up to the entry's length.
Contiguous(slot, len) == {k \in 0..(len - 1) : \A i \in 0..k : slot[i] # None}

\* recalc_register_outputs: whether there is a value, and the words it is
\* made of.  A text is as long as its words go.
Aggregated(slot, len, kind) ==
  0 \in Contiguous(slot, len) /\ (kind = "pair" => 1 \in Contiguous(slot, len))
Value(slot, len, kind) ==
  [k \in IF kind = "word" THEN {0} ELSE IF kind = "pair" THEN {0, 1} ELSE Contiguous(slot, len) |->
     slot[k]]
===============================================================================
