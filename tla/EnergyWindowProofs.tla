--------------------------- MODULE EnergyWindowProofs ---------------------------
(***************************************************************************)
(* EnergyWindow, whatever the number of threads, windows and answers: no   *)
(* draining thread takes two values for one window, the flags agree        *)
(* between uploads, and each client publishes a value once unless its      *)
(* capture was raced.                                                      *)
(***************************************************************************)
EXTENDS EnergyWindow, FiniteSetTheorems, TLAPS

(* The inductive invariant: a thread that could take up the request has not  *)
(* taken a value for the latest window yet.                                  *)
Places == [Drainers -> [at : DrainPlaces, win : (Drainers \X Nat) \cup {None}]]
Open(d) == requested /\ drain[d].at = "idle"
OpenRequest ==
  /\ cycles \in Nat /\ requested \in BOOLEAN
  /\ captures \in [Drainers -> Nat] /\ drain \in Places
  /\ \A d \in Drainers : captures[d] <= cycles
  /\ \A d \in Drainers : Open(d) => captures[d] < cycles

(* Nothing is asked for at first. *)
LEMMA OpenRequestInit == Init => OpenRequest
<1> SUFFICES ASSUME Init PROVE OpenRequest
  OBVIOUS
<1>1. cycles = 0 /\ captures = [d \in Drainers |-> 0] /\ requested = FALSE
  BY DEF Init
<1>2. drain = [d \in Drainers |-> [at |-> "idle", win |-> None]]
  BY DEF Init
<1>3. drain \in Places
  BY <1>2 DEF Places, DrainPlaces
<1>4. requested \in BOOLEAN /\ \A d \in Drainers : ~Open(d)
  BY <1>1 DEF Open
<1>5. /\ cycles \in Nat /\ captures \in [Drainers -> Nat]
      /\ \A d \in Drainers : captures[d] <= cycles
  BY <1>1
<1> QED BY <1>3, <1>4, <1>5 DEF OpenRequest

(* A draining thread that begins a capture. *)
LEMMA BeginKeeps ==
  ASSUME OpenRequest, NEW d \in Drainers, Open(d), Begin(d),
         UNCHANGED <<requested, cycles>>
  PROVE  OpenRequest'
<1>1. captures' = [captures EXCEPT ![d] = captures[d] + 1] /\ captures[d] < cycles
  BY DEF Begin, OpenRequest
<1>2. drain' = [drain EXCEPT ![d] = [at |-> "value", win |-> <<d, captures[d] + 1>>]]
  BY DEF Begin
<1>3. [at |-> "value", win |-> <<d, captures[d] + 1>>] \in [at : DrainPlaces, win : (Drainers \X Nat) \cup {None}]
  BY DEF OpenRequest, DrainPlaces
<1>4. drain' \in Places /\ drain'[d].at = "value" /\ \A e \in Drainers \ {d} : drain'[e] = drain[e]
  BY <1>2, <1>3 DEF OpenRequest, Places
<1>5. captures' \in [Drainers -> Nat] /\ \A e \in Drainers : captures'[e] <= cycles
  BY <1>1 DEF OpenRequest
<1>6. \A e \in Drainers \ {d} : captures'[e] = captures[e]
  BY <1>1 DEF OpenRequest
<1> QED BY <1>4, <1>5, <1>6 DEF OpenRequest, Open

(* A thread that goes on with its capture; it becomes idle only when it takes *)
(* the request back.                                                         *)
LEMMA GoingOnKeeps ==
  ASSUME OpenRequest, NEW d \in Drainers, NEW to \in DrainPlaces,
         drain' = [drain EXCEPT ![d].at = to], UNCHANGED <<captures, cycles>>,
         \/ requested' = FALSE
         \/ requested' = requested /\ to # "idle"
  PROVE  OpenRequest'
<1>1. drain' \in Places /\ drain'[d].at = to /\ \A e \in Drainers \ {d} : drain'[e] = drain[e]
  BY DEF OpenRequest, Places
<1>2. requested' \in BOOLEAN
  BY DEF OpenRequest
<1>3. ASSUME NEW e \in Drainers, Open(e)' PROVE Open(e)
  <2>1. requested' /\ drain'[e].at = "idle" /\ requested' = requested /\ to # "idle"
    BY <1>3 DEF Open
  <2>2. e # d
    BY <1>1, <2>1
  <2> QED BY <1>1, <2>1, <2>2 DEF Open
<1>4. /\ cycles' = cycles /\ captures' = captures
      /\ cycles \in Nat /\ captures \in [Drainers -> Nat]
      /\ \A e \in Drainers : captures[e] <= cycles
      /\ \A e \in Drainers : Open(e)' => captures[e] < cycles
  BY <1>3 DEF OpenRequest
<1> QED BY <1>1, <1>2, <1>4 DEF OpenRequest

(* Every step keeps the invariant. *)
LEMMA OpenRequestNext == OpenRequest /\ [Next]_vars => OpenRequest'
<1> SUFFICES ASSUME OpenRequest, [Next]_vars PROVE OpenRequest'
  OBVIOUS
<1>1. CASE FullReadAnswered
  BY <1>1 DEF FullReadAnswered, globals, OpenRequest, Open
<1>2. CASE WindowCycle
  BY <1>2 DEF WindowCycle, OpenRequest, Open
<1>3. ASSUME NEW d \in Drainers, Store(d) PROVE OpenRequest'
  <2>1. drain[d].at = "idle" /\ requested' = requested /\ cycles' = cycles
    BY <1>3 DEF Store, globals
  <2>2. CASE requested
    BY <1>3, <2>1, <2>2, BeginKeeps DEF Store, Open
  <2>3. CASE ~requested
    BY <1>3, <2>1, <2>3 DEF Store, OpenRequest, Open
  <2> QED BY <2>2, <2>3
<1>4. ASSUME NEW d \in Drainers, Capture(d) PROVE OpenRequest'
  <2>1. UNCHANGED <<captures, cycles>> /\ {"idle", "ready", "mask", "requested"} \subseteq DrainPlaces
    BY <1>4 DEF Capture, SetValue, SetReady, ResetMask, Unrequest, Captured, DrainPlaces
  <2>2. CASE SetValue(d)
    BY <2>1, <2>2, GoingOnKeeps DEF SetValue, Captured
  <2>3. CASE SetReady(d)
    BY <2>1, <2>3, GoingOnKeeps DEF SetReady, Captured
  <2>4. CASE ResetMask(d)
    BY <2>1, <2>4, GoingOnKeeps DEF ResetMask, Captured
  <2>5. CASE Unrequest(d)
    BY <2>1, <2>5, GoingOnKeeps DEF Unrequest, Captured
  <2> QED BY <1>4, <2>2, <2>3, <2>4, <2>5 DEF Capture
<1>5. CASE Upload
  <2>1. UNCHANGED <<cycles, captures, drain, requested>>
    BY <1>5 DEF Upload, Check, Publish, Test, Load, StoreMask, Full, Retire, Reset, Uploads, globals
  <2> QED BY <2>1 DEF OpenRequest, Open
<1>6. CASE UNCHANGED vars
  BY <1>6 DEF vars, globals, OpenRequest, Open
<1> QED BY <1>1, <1>2, <1>3, <1>4, <1>5, <1>6 DEF Next

(* No thread takes two values for a window: update_energy_window takes the   *)
(* request back before the thread that served it looks at it again.          *)
THEOREM OneValue == Spec => []OneValuePerWindow
<1>1. OpenRequest => OneValuePerWindow
  BY DEF OpenRequest, OneValuePerWindow
<1> QED BY OpenRequestInit, OpenRequestNext, <1>1, PTL DEF Spec

-----------------------------------------------------------------------------
(* The flags and the number of publications.                               *)

(* Where an upload stands against the flags: only an upload takes ready back, *)
(* and it resets a full mask before it ends.                                *)
Marking ==
  /\ upload.at \in {"load", "store", "full", "retire"} => ready
  /\ upload.at \in {"check", "publish", "test", "load", "store"} => mask # Clients
  /\ ~ready /\ upload.at \in {"check", "publish", "test"} => mask = {}

(* A capture is its thread's last one, and replaces the value once.          *)
Numbered ==
  /\ \A d \in Drainers : drain[d].at # "idle" => drain[d].win = <<d, captures[d]>> /\ captures[d] > 0
  /\ \A d \in Drainers : drain[d].at = "value" => value # drain[d].win
  /\ \A d \in Drainers, n \in Nat : value = <<d, n>> => n <= captures[d]

(* Captures that have replaced the value and not ended.  Unless it was raced, *)
(* such a capture is that of the value, which nobody has published; and when *)
(* there is none, clients that have published the value are those that the  *)
(* mask names, and the one in the middle of an upload.                      *)
Entered == {d \in Capturing : drain[d].at # "value"}
SentBy(S) == \A c \in Clients : sent[c] = IF c \in S THEN 1 ELSE 0
Fresh ==
  /\ \A d \in Entered : drain[d].win = value
  /\ SentBy({})
  /\ \A d \in Entered : drain[d].at # "ready" => ready
  /\ \A d \in Entered : drain[d].at = "requested" => mask = {}
Owed ==
  /\ upload.at = "check" => (ready => upload.client \notin mask /\ SentBy(mask))
  /\ upload.at = "publish" =>
       upload.included = ready /\ (ready => upload.client \notin mask /\ SentBy(mask))
  /\ upload.at \in {"test", "load"} =>
       (ready => upload.client \notin mask /\ SentBy(mask \cup {upload.client}))
  /\ upload.at = "store" =>
       upload.mask = mask /\ upload.client \notin mask /\ SentBy(mask \cup {upload.client})
  /\ upload.at = "full" => upload.client \in mask /\ SentBy(mask)
  /\ upload.at = "retire" => SentBy(Clients)
  /\ upload.at = "reset" => ~ready
  /\ ~ready => \A c \in Clients : sent[c] <= 1
Once == value \notin raced => (IF Entered # {} THEN Fresh ELSE Owed)

WindowInv == OpenRequest /\ TypeOK /\ Marking /\ Numbered /\ Racing \subseteq raced /\ Once

(* A thread that captures alone is the only one.                            *)
LEMMA Lone ==
  ASSUME NEW S \in SUBSET Drainers, NEW d \in S, ~(Cardinality(S) > 1)
  PROVE  S = {d}
<1>1. IsFiniteSet(S)
  BY DrainersAssumption, FS_Subset
<1>2. Cardinality(S) \in Nat /\ Cardinality(S) # 0
  BY <1>1, FS_CardinalityType, FS_EmptySet
<1>3. Cardinality(S) = 1
  BY <1>2
<1> QED BY <1>1, <1>3, FS_Singleton

(* Unless it was raced, a capture of the value has everything to itself.     *)
LEMMA LoneCapture ==
  ASSUME Racing \subseteq raced, value \notin raced, Fresh, NEW d \in Entered
  PROVE  ~Uploading /\ Capturing = {d}
<1>1. d \in Capturing /\ drain[d].win = value
  BY DEF Entered, Fresh
<1>2. ~(Uploading \/ Cardinality(Capturing) > 1)
  BY <1>1 DEF Racing
<1> QED BY <1>1, <1>2, Lone DEF Capturing

(* The value of a capture that goes on is not forgotten to be raced.         *)
LEMMA RacesKept ==
  ASSUME NoteRaces
  PROVE  /\ Racing' \subseteq raced'
         /\ value' = value /\ value \notin raced' => value \notin raced
BY DEF NoteRaces, Kept

(* A step of an upload changes its place, and the client when it ends.       *)
LEMMA UploadMoves ==
  ASSUME TypeOK, Upload
  PROVE  /\ upload' \in [client : Clients, at : UploadPlaces, included : BOOLEAN, mask : SUBSET Clients]
         /\ UNCHANGED <<requested, value, answers, drain, cycles, captures>> /\ NoteRaces
<1>1. upload \in [client : Clients, at : UploadPlaces, included : BOOLEAN, mask : SUBSET Clients]
  BY DEF TypeOK
<1>2. ASSUME NEW from, NEW to \in UploadPlaces, Uploads(from, to)
      PROVE  upload' \in [client : Clients, at : UploadPlaces, included : BOOLEAN, mask : SUBSET Clients]
  <2> DEFINE next == IF to = "check" THEN 3 - upload.client ELSE upload.client
  <2>1. next \in Clients
    BY <1>1 DEF Clients
  <2>2. upload' = [upload EXCEPT !.at = to, !.client = next]
    BY <1>2 DEF Uploads
  <2> HIDE DEF next
  <2> QED BY <1>1, <2>1, <2>2
<1>3. {"check", "publish", "test", "load", "store", "full", "retire", "reset"} \subseteq UploadPlaces
  BY DEF UploadPlaces
<1>4. CASE Check
  <2>1. ready \in BOOLEAN
    BY DEF TypeOK
  <2> QED BY <1>1, <1>3, <1>4, <2>1 DEF Check, globals
<1>5. CASE Load
  <2>1. mask \in SUBSET Clients
    BY DEF TypeOK
  <2> QED BY <1>1, <1>3, <1>5, <2>1 DEF Load, globals
<1>6. CASE ~Check /\ ~Load
  <2>1. Publish \/ Test \/ StoreMask \/ Full \/ Retire \/ Reset
    BY <1>6 DEF Upload
  <2>2. \E from, to \in UploadPlaces : Uploads(from, to)
    BY <1>3, <2>1 DEF Publish, Test, StoreMask, Full, Retire, Reset
  <2>3. UNCHANGED <<requested, value>>
    BY <2>1 DEF Publish, Test, StoreMask, Full, Retire, Reset, globals
  <2> QED BY <1>2, <2>2, <2>3 DEF Uploads
<1> QED BY <1>4, <1>5, <1>6

(* A capture is numbered when it begins, and replaces an older value.        *)
LEMMA NumberedNext ==
  ASSUME OpenRequest, TypeOK, Numbered, [Next]_vars
  PROVE  Numbered'
<1>0. drain \in [Drainers -> [at : DrainPlaces, win : Values]] /\ captures \in [Drainers -> Nat]
  BY DEF TypeOK, OpenRequest
<1>1. CASE UNCHANGED <<value, drain, captures>>
  BY <1>1 DEF Numbered
<1>2. ASSUME NEW d \in Drainers, Store(d) PROVE Numbered'
  <2>1. drain[d].at = "idle" /\ value' = value
    BY <1>2 DEF Store, globals
  <2>2. CASE ~requested
    BY <1>1, <1>2, <2>1, <2>2 DEF Store
  <2>3. CASE requested
    <3>1. captures' = [captures EXCEPT ![d] = captures[d] + 1]
      BY <1>2, <2>3 DEF Store, Begin
    <3>2. drain' = [drain EXCEPT ![d] = [at |-> "value", win |-> <<d, captures[d] + 1>>]]
      BY <1>2, <2>3 DEF Store, Begin
    <3>3. captures'[d] = captures[d] + 1 /\ captures[d] \in Nat /\ drain'[d].at = "value" /\ drain'[d].win = <<d, captures'[d]>>
      BY <1>0, <3>1, <3>2
    <3>4. \A e \in Drainers \ {d} : captures'[e] = captures[e] /\ drain'[e] = drain[e]
      BY <1>0, <3>1, <3>2
    <3>5. \A e \in Drainers, n \in Nat : value' = <<e, n>> => n <= captures'[e]
      BY <1>0, <2>1, <3>3, <3>4 DEF Numbered
    <3>6. value' # drain'[d].win
      BY <1>0, <2>1, <3>3 DEF Numbered
    <3>7. \A e \in Drainers : drain'[e].at # "idle" => drain'[e].win = <<e, captures'[e]>> /\ captures'[e] > 0
      BY <3>3, <3>4 DEF Numbered
    <3>8. \A e \in Drainers : drain'[e].at = "value" => value' # drain'[e].win
      BY <2>1, <3>4, <3>6 DEF Numbered
    <3> QED BY <3>5, <3>7, <3>8 DEF Numbered
  <2> QED BY <2>2, <2>3
<1>3. ASSUME NEW d \in Drainers, Capture(d) PROVE Numbered'
  <2>1. captures' = captures
    BY <1>3 DEF Capture, SetValue, SetReady, ResetMask, Unrequest, Captured
  <2>2. PICK to \in DrainPlaces : drain' = [drain EXCEPT ![d].at = to] /\ to # "value" /\ drain[d].at # "idle"
    BY <1>3 DEF Capture, SetValue, SetReady, ResetMask, Unrequest, Captured, DrainPlaces
  <2>3. drain'[d].at = to /\ drain'[d].win = drain[d].win /\ \A e \in Drainers \ {d} : drain'[e] = drain[e]
    BY <1>0, <2>2
  <2>4. CASE value' = value
    BY <2>1, <2>2, <2>3, <2>4 DEF Numbered
  <2>5. CASE SetValue(d)
    <3>1. value' = <<d, captures[d]>>
      BY <2>2, <2>5 DEF SetValue, Numbered
    <3>2. \A e \in Drainers : drain'[e].at = "value" => e # d /\ drain'[e].win = <<e, captures[e]>>
      BY <2>2, <2>3 DEF Numbered
    <3>3. \A e \in Drainers : drain'[e].at # "idle" => drain'[e].win = <<e, captures'[e]>> /\ captures'[e] > 0
      BY <2>1, <2>2, <2>3 DEF Numbered
    <3>4. \A e \in Drainers, n \in Nat : value' = <<e, n>> => n <= captures'[e]
      BY <1>0, <2>1, <3>1
    <3> QED BY <3>1, <3>2, <3>3, <3>4 DEF Numbered
  <2> QED BY <1>3, <2>4, <2>5 DEF Capture, SetReady, ResetMask, Unrequest
<1>4. CASE Upload
  BY <1>1, <1>4, UploadMoves
<1> QED BY <1>1, <1>2, <1>3, <1>4 DEF Next, FullReadAnswered, WindowCycle, globals, vars

(* What is noted as raced is a capture.                                      *)
LEMMA RacedAreCaptures ==
  ASSUME raced \subseteq Captures, raced' = raced \/ NoteRaces,
         captures' \in [Drainers -> 0..MaxCycles], Numbered'
  PROVE  raced' \subseteq Captures
<1>1. ASSUME NEW d \in Drainers, drain'[d].at # "idle" PROVE drain'[d].win \in Captures
  <2>1. drain'[d].win = <<d, captures'[d]>> /\ captures'[d] > 0
    BY <1>1 DEF Numbered
  <2>2. captures'[d] \in 0..MaxCycles
    OBVIOUS
  <2>3. captures'[d] \in 1..MaxCycles
    BY <2>1, <2>2, BoundsAssumption
  <2> QED BY <2>1, <2>3 DEF Captures
<1>2. Racing' \subseteq Captures
  BY <1>1 DEF Racing, Capturing
<1> QED BY <1>2 DEF NoteRaces

(* Every step keeps the types.                                               *)
LEMMA TypeNext ==
  ASSUME OpenRequest, OpenRequest', TypeOK, Numbered, Numbered', [Next]_vars
  PROVE  TypeOK'
<1> DEFINE Uploaded == [client : Clients, at : UploadPlaces, included : BOOLEAN, mask : SUBSET Clients]
           Drained == [Drainers -> [at : DrainPlaces, win : Values]]
<1>1. cycles' \in 0..MaxCycles
  <2>1. cycles' = cycles \/ (cycles < MaxCycles /\ cycles' = cycles + 1)
    BY UploadMoves DEF Next, FullReadAnswered, WindowCycle, Store, Capture, SetValue, SetReady, ResetMask,
                       Unrequest, Captured, vars
  <2> QED BY <2>1, BoundsAssumption DEF TypeOK
<1>2. captures' \in [Drainers -> 0..MaxCycles]
  <2>1. \A d \in Drainers : captures'[d] \in 0..MaxCycles
    BY <1>1, BoundsAssumption DEF OpenRequest
  <2> QED BY <2>1 DEF OpenRequest
<1>3. drain' \in Drained
  <2>1. CASE drain' = drain
    BY <2>1 DEF TypeOK
  <2>2. ASSUME NEW d \in Drainers, Begin(d) PROVE drain' \in Drained
    <3>1. captures'[d] = captures[d] + 1 /\ captures[d] + 1 \in 1..MaxCycles
      BY <1>2, <2>2 DEF Begin, OpenRequest
    <3>2. <<d, captures[d] + 1>> \in Values
      BY <3>1 DEF Values, Captures
    <3> QED BY <2>2, <3>2 DEF Begin, TypeOK, DrainPlaces
  <2>3. ASSUME NEW d \in Drainers, Capture(d) PROVE drain' \in Drained
    <3>1. PICK to \in DrainPlaces : drain' = [drain EXCEPT ![d].at = to]
      BY <2>3 DEF Capture, SetValue, SetReady, ResetMask, Unrequest, Captured, DrainPlaces
    <3> QED BY <3>1 DEF TypeOK
  <2> QED BY <2>1, <2>2, <2>3, UploadMoves DEF Next, FullReadAnswered, WindowCycle, Store, vars
<1>4. upload' \in Uploaded
  <2>1. CASE Upload
    BY <2>1, UploadMoves
  <2>2. CASE ~Upload
    BY <2>2 DEF TypeOK, Next, FullReadAnswered, WindowCycle, Store, Capture, SetValue, SetReady,
                ResetMask, Unrequest, Captured, vars
  <2> QED BY <2>1, <2>2
<1>5. answers' \in 0..MaxAnswers
  <2>1. answers' = answers \/ (answers < MaxAnswers /\ answers' = answers + 1)
        \/ (answers > 0 /\ answers' = answers - 1)
    BY UploadMoves DEF Next, FullReadAnswered, WindowCycle, Store, Capture, SetValue, SetReady,
                       ResetMask, Unrequest, Captured, vars
  <2> QED BY <2>1, BoundsAssumption DEF TypeOK
<1>6. value' \in Values
  <2>1. value' = value \/ \E d \in Drainers : value' = drain[d].win
    BY UploadMoves DEF Next, FullReadAnswered, WindowCycle, Store, Capture, SetValue, SetReady,
                       ResetMask, Unrequest, globals, vars
  <2> QED BY <2>1 DEF TypeOK
<1>7. requested' \in BOOLEAN
  BY DEF OpenRequest
<1>8. ready' \in BOOLEAN
  <2>1. ready' = ready \/ ready' = TRUE \/ ready' = FALSE
    BY DEF Next, FullReadAnswered, WindowCycle, Store, Capture, SetValue, SetReady, ResetMask,
           Unrequest, Upload, Check, Publish, Test, Load, StoreMask, Full, Retire, Reset, globals, vars
  <2> QED BY <2>1 DEF TypeOK
<1>9. mask' \in SUBSET Clients
  <2>1. mask' = mask \/ mask' = {} \/ mask' = MarkedMask
    BY DEF Next, FullReadAnswered, WindowCycle, Store, Capture, SetValue, SetReady, ResetMask,
           Unrequest, Upload, Check, Publish, Test, Load, StoreMask, Full, Retire, Reset, globals, vars
  <2> QED BY <2>1 DEF TypeOK, MarkedMask
<1>10. sent' \in [Clients -> 0..2]
  <2>1. sent' = sent \/ sent' = [c \in Clients |-> 0] \/ Publish
    BY DEF Next, FullReadAnswered, WindowCycle, Store, Capture, SetValue, SetReady, ResetMask,
           Unrequest, Upload, Check, Publish, Test, Load, StoreMask, Full, Retire, Reset, history, vars
  <2>2. CASE Publish
    <3> DEFINE more == IF sent[upload.client] < 2 THEN sent[upload.client] + 1 ELSE 2
    <3>1. upload.client \in Clients /\ sent \in [Clients -> 0..2]
      BY DEF TypeOK
    <3>2. sent[upload.client] \in 0..2
      BY <3>1
    <3>3. more \in 0..2
      BY <3>2
    <3>4. sent' = sent \/ sent' = [sent EXCEPT ![upload.client] = more]
      BY <2>2 DEF Publish
    <3> HIDE DEF more
    <3> QED BY <3>1, <3>3, <3>4
  <2> QED BY <2>1, <2>2 DEF TypeOK
<1>11. raced' \subseteq Captures
  <2>1. raced' = raced \/ NoteRaces
    BY UploadMoves DEF Next, FullReadAnswered, WindowCycle, Store, Capture, SetValue, SetReady,
                       ResetMask, Unrequest, Captured, history, vars
  <2> QED BY <1>2, <2>1, RacedAreCaptures DEF TypeOK
<1> QED BY <1>1, <1>2, <1>3, <1>4, <1>5, <1>6, <1>7, <1>8, <1>9, <1>10, <1>11 DEF TypeOK

(* The flags: the upload that takes ready back resets the mask before it ends. *)
LEMMA MarkingNext ==
  ASSUME TypeOK, Marking, [Next]_vars
  PROVE  Marking'
<1>1. CASE UNCHANGED <<ready, mask, upload>>
  BY <1>1 DEF Marking
<1>2. ASSUME NEW d \in Drainers, Capture(d) PROVE Marking'
  <2>1. upload' = upload /\ (UNCHANGED <<ready, mask>> \/ (ready' /\ mask' = mask) \/ (ready' = ready /\ mask' = {}))
    BY <1>2 DEF Capture, SetValue, SetReady, ResetMask, Unrequest, Captured
  <2>2. Clients # {}
    BY DEF Clients
  <2> QED BY <2>1, <2>2 DEF Marking
<1>3. CASE Upload
  <2>0. upload \in [client : Clients, at : UploadPlaces, included : BOOLEAN, mask : SUBSET Clients]
    BY DEF TypeOK
  <2>1. CASE Check
    <3>1. upload'.at = "publish" /\ upload.at = "check" /\ UNCHANGED <<ready, mask>>
      BY <2>0, <2>1 DEF Check, globals
    <3> QED BY <3>1 DEF Marking
  <2>2. CASE Load
    <3>1. upload'.at = "store" /\ upload.at = "load" /\ UNCHANGED <<ready, mask>>
      BY <2>0, <2>2 DEF Load, globals
    <3> QED BY <3>1 DEF Marking
  <2>3. ASSUME NEW from, NEW to, Uploads(from, to)
        PROVE  upload'.at = to /\ upload.at = from
    BY <2>0, <2>3 DEF Uploads
  <2>4. CASE Publish
    BY <2>3, <2>4 DEF Publish, Marking, globals
  <2>5. CASE Test
    BY <2>3, <2>5 DEF Test, Marking, globals
  <2>6. CASE StoreMask
    BY <2>3, <2>6 DEF StoreMask, Marking
  <2>7. CASE Full
    BY <2>3, <2>7 DEF Full, Marking, globals
  <2>8. CASE Retire
    BY <2>3, <2>8 DEF Retire, Marking
  <2>9. CASE Reset
    <3>1. {} # Clients
      BY DEF Clients
    <3> QED BY <2>3, <2>9, <3>1 DEF Reset, Marking
  <2> QED BY <1>3, <2>1, <2>2, <2>4, <2>5, <2>6, <2>7, <2>8, <2>9 DEF Upload
<1> QED BY <1>1, <1>2, <1>3 DEF Next, FullReadAnswered, WindowCycle, Store, globals, vars

(* A step that leaves the value, and neither begins nor ends a capture that  *)
(* has replaced it.                                                         *)
LEMMA OnceOutside ==
  ASSUME Once, NoteRaces \/ raced' = raced, UNCHANGED <<value, ready, mask, sent, upload>>,
         \A d \in Drainers : drain'[d] = drain[d] \/ {drain[d].at, drain'[d].at} \subseteq {"idle", "value"}
  PROVE  Once'
<1>1. Entered' = Entered /\ \A d \in Entered : drain'[d] = drain[d]
  BY DEF Entered, Capturing
<1>2. value' \notin raced' => value \notin raced
  BY RacesKept
<1>3. Fresh => Fresh'
  BY <1>1 DEF Fresh, SentBy
<1>4. Owed => Owed'
  BY DEF Owed, SentBy
<1> QED BY <1>1, <1>2, <1>3, <1>4 DEF Once

(* A capture that goes on.                                                   *)
LEMMA OnceCapture ==
  ASSUME WindowInv, Numbered', NEW d \in Drainers, Capture(d)
  PROVE  Once'
<1> SUFFICES ASSUME value' \notin raced' PROVE IF Entered' # {} THEN Fresh' ELSE Owed'
  BY DEF Once
<1>1. NoteRaces /\ upload' = upload
  BY DEF Capture, SetValue, SetReady, ResetMask, Unrequest, Captured
<1>2. drain \in [Drainers -> [at : DrainPlaces, win : Values]]
  BY DEF WindowInv, TypeOK
<1>3. \A e \in Drainers \ {d} : drain'[e] = drain[e]
  BY <1>2 DEF Capture, SetValue, SetReady, ResetMask, Unrequest, Captured
<1>4. CASE SetValue(d)
  <2>1. drain'[d].at = "ready" /\ drain'[d].win = drain[d].win /\ value' = drain[d].win
    BY <1>2, <1>4 DEF SetValue, Captured
  <2>2. SentBy({})'
    BY <1>4 DEF SetValue, SentBy
  <2>3. d \in Capturing' /\ Capturing' \subseteq Drainers
    BY <2>1 DEF Capturing
  <2>4. ~(Uploading' \/ Cardinality(Capturing') > 1)
    BY <1>1, <2>1, <2>3, RacesKept DEF Racing
  <2>5. Capturing' = {d}
    BY <2>3, <2>4, Lone
  <2>6. Entered' = {d}
    BY <2>1, <2>5 DEF Entered
  <2> QED BY <2>1, <2>2, <2>6 DEF Fresh
<1>5. CASE ~SetValue(d)
  <2>1. value' = value /\ sent' = sent /\ d \in Entered
    BY <1>5 DEF Capture, SetReady, ResetMask, Unrequest, Captured, Entered, Capturing
  <2>2. value \notin raced
    BY <1>1, <2>1, RacesKept
  <2>3. Fresh
    BY <2>1, <2>2 DEF WindowInv, Once
  <2>4. ~Uploading /\ Capturing = {d}
    BY <2>1, <2>2, <2>3, LoneCapture DEF WindowInv
  <2>5. SentBy({})' /\ drain[d].win = value
    BY <2>1, <2>3 DEF Fresh, SentBy
  <2>6. Capturing' \subseteq {d}
    BY <1>3, <2>4 DEF Capturing
  <2>7. CASE SetReady(d)
    <3>1. drain'[d].at = "mask" /\ drain'[d].win = value /\ ready'
      BY <1>2, <2>5, <2>7 DEF SetReady, Captured
    <3>2. Entered' = {d}
      BY <2>6, <3>1 DEF Entered, Capturing
    <3> QED BY <2>1, <2>5, <3>1, <3>2 DEF Fresh
  <2>8. CASE ResetMask(d)
    <3>1. drain'[d].at = "requested" /\ drain'[d].win = value /\ drain[d].at = "mask" /\ mask' = {} /\ ready' = ready
      BY <1>2, <2>5, <2>8 DEF ResetMask, Captured
    <3>2. Entered' = {d}
      BY <2>6, <3>1 DEF Entered, Capturing
    <3>3. ready
      BY <2>1, <2>3, <3>1 DEF Fresh
    <3> QED BY <2>1, <2>5, <3>1, <3>2, <3>3 DEF Fresh
  <2>9. CASE Unrequest(d)
    <3>1. drain'[d].at = "idle" /\ drain[d].at = "requested" /\ UNCHANGED <<ready, mask>>
      BY <1>2, <2>9 DEF Unrequest, Captured
    <3>2. Entered' = {}
      BY <2>6, <3>1 DEF Entered, Capturing
    <3>3. ready /\ mask = {}
      BY <2>1, <2>3, <3>1 DEF Fresh
    <3>4. SentBy(mask)'
      BY <2>5, <3>1, <3>3 DEF SentBy
    <3>5. upload.at = "check"
      BY <2>4 DEF Uploading
    <3> QED BY <1>1, <3>1, <3>2, <3>3, <3>4, <3>5 DEF Owed
  <2> QED BY <1>5, <2>7, <2>8, <2>9 DEF Capture
<1> QED BY <1>4, <1>5

(* A step of an upload.                                                      *)
LEMMA OnceUpload ==
  ASSUME WindowInv, TypeOK', Marking', Upload
  PROVE  Once'
<1> SUFFICES ASSUME value' \notin raced' PROVE Entered' = {} /\ Owed'
  BY DEF Once
<1>1. NoteRaces /\ UNCHANGED <<value, drain>>
  BY UploadMoves DEF WindowInv
<1>2. value \notin raced
  BY <1>1, RacesKept
<1>3. Entered' = Entered
  BY <1>1 DEF Entered, Capturing
<1>4. Entered = {}
  <2> SUFFICES ASSUME NEW d \in Entered PROVE FALSE
    OBVIOUS
  <2>1. Fresh
    BY <1>2 DEF WindowInv, Once
  <2>2. ~Uploading /\ drain[d].win = value /\ d \in Capturing
    BY <1>2, <2>1, LoneCapture DEF WindowInv, Fresh, Entered
  <2>3. Check
    BY <2>2 DEF Upload, Publish, Test, Load, StoreMask, Full, Retire, Reset, Uploads, Uploading
  <2>4. Uploading'
    BY <2>3 DEF Check, Uploading, WindowInv, TypeOK
  <2>5. value \in Racing'
    BY <1>1, <2>2, <2>4 DEF Racing, Capturing
  <2> QED BY <1>1, <2>5, RacesKept
<1>5. Owed
  BY <1>2, <1>4 DEF WindowInv, Once
<1>6. upload \in [client : Clients, at : UploadPlaces, included : BOOLEAN, mask : SUBSET Clients]
  BY DEF WindowInv, TypeOK
<1>7. sent \in [Clients -> 0..2] /\ mask \in SUBSET Clients /\ ready \in BOOLEAN /\ upload.client \in {1, 2}
  BY DEF WindowInv, TypeOK, Clients
<1>8. ASSUME NEW from, NEW to, Uploads(from, to)
      PROVE  /\ upload.at = from /\ upload'.at = to
             /\ upload'.included = upload.included /\ upload'.mask = upload.mask
             /\ upload'.client = IF to = "check" THEN 3 - upload.client ELSE upload.client
  BY <1>6, <1>8 DEF Uploads
<1>10. CASE Check
  <2>1. upload.at = "check" /\ UNCHANGED <<ready, mask, sent>>
    BY <1>10 DEF Check, globals
  <2>2. upload'.at = "publish" /\ upload'.client = upload.client /\ upload'.included = ready
    BY <1>6, <1>10 DEF Check
  <2> QED BY <1>3, <1>4, <1>5, <2>1, <2>2 DEF Owed, SentBy
<1>11. CASE Publish
  <2>1. upload.at = "publish" /\ upload'.at = "test" /\ upload'.client = upload.client /\ UNCHANGED <<ready, mask>>
    BY <1>8, <1>11 DEF Publish, globals
  <2>2. CASE ~ready
    BY <1>3, <1>4, <1>5, <1>11, <2>1, <2>2 DEF Owed, Publish
  <2>3. CASE ready
    <3>1. upload.client \notin mask /\ SentBy(mask) /\ upload.included
      BY <1>5, <2>1, <2>3 DEF Owed
    <3>2. sent[upload.client] = 0
      BY <1>7, <3>1 DEF SentBy, Clients
    <3>3. sent' = [sent EXCEPT ![upload.client] = 1]
      BY <1>11, <3>1, <3>2 DEF Publish
    <3>4. SentBy(mask \cup {upload.client})'
      BY <1>7, <2>1, <3>1, <3>3 DEF SentBy, Clients
    <3> QED BY <1>3, <1>4, <2>1, <2>3, <3>1, <3>4 DEF Owed
  <2> QED BY <2>2, <2>3
<1>12. CASE Test
  <2>1. upload.at = "test" /\ UNCHANGED <<ready, mask, sent>>
    BY <1>8, <1>12 DEF Test, globals
  <2>2. CASE ready
    <3>1. upload'.at = "load" /\ upload'.client = upload.client
      BY <1>8, <1>12, <2>2 DEF Test
    <3> QED BY <1>3, <1>4, <1>5, <2>1, <2>2, <3>1 DEF Owed, SentBy
  <2>3. CASE ~ready
    <3>1. upload'.at = "check"
      BY <1>8, <1>12, <2>3 DEF Test
    <3> QED BY <1>3, <1>4, <1>5, <2>1, <2>3, <3>1 DEF Owed
  <2> QED BY <2>2, <2>3
<1>13. CASE Load
  <2>1. upload.at = "load" /\ UNCHANGED <<ready, mask, sent>>
    BY <1>13 DEF Load, globals
  <2>2. upload'.at = "store" /\ upload'.client = upload.client /\ upload'.mask = mask
    BY <1>6, <1>13 DEF Load
  <2>3. ready
    BY <2>1 DEF WindowInv, Marking
  <2> QED BY <1>3, <1>4, <1>5, <2>1, <2>2, <2>3 DEF Owed, SentBy
<1>14. CASE StoreMask
  <2>1. /\ upload.at = "store" /\ upload'.at = "full" /\ upload'.client = upload.client
        /\ mask' = MarkedMask /\ UNCHANGED <<ready, sent>>
    BY <1>8, <1>14 DEF StoreMask
  <2>2. upload.mask = mask /\ SentBy(mask \cup {upload.client}) /\ ready
    BY <1>5, <2>1 DEF Owed, WindowInv, Marking
  <2>3. mask' = mask \cup {upload.client}
    BY <2>1, <2>2 DEF MarkedMask
  <2> QED BY <1>3, <1>4, <2>1, <2>2, <2>3 DEF Owed, SentBy
<1>15. CASE Full
  <2>1. upload.at = "full" /\ UNCHANGED <<ready, mask, sent>>
    BY <1>8, <1>15 DEF Full, globals
  <2>2. upload.client \in mask /\ SentBy(mask) /\ ready
    BY <1>5, <2>1 DEF Owed, WindowInv, Marking
  <2>3. CASE mask = Clients
    <3>1. upload'.at = "retire"
      BY <1>8, <1>15, <2>3 DEF Full
    <3> QED BY <1>3, <1>4, <2>1, <2>2, <2>3, <3>1 DEF Owed, SentBy
  <2>4. CASE mask # Clients
    <3>1. upload'.at = "check" /\ upload'.client = 3 - upload.client
      BY <1>8, <1>15, <2>4 DEF Full
    <3>2. mask = {upload.client}
      <4>1. mask \subseteq {1, 2} /\ mask # {1, 2} /\ upload.client \in mask
        BY <1>7, <2>2, <2>4 DEF Clients
      <4> QED BY <4>1
    <3>3. upload'.client \notin mask
      BY <1>7, <3>1, <3>2
    <3> QED BY <1>3, <1>4, <2>1, <2>2, <3>1, <3>3 DEF Owed, SentBy
  <2> QED BY <2>3, <2>4
<1>16. CASE Retire
  <2>1. upload.at = "retire" /\ upload'.at = "reset" /\ ~ready' /\ sent' = sent
    BY <1>8, <1>16 DEF Retire
  <2>2. \A c \in Clients : sent'[c] = 1
    BY <1>5, <2>1 DEF Owed, SentBy
  <2> QED BY <1>3, <1>4, <2>1, <2>2 DEF Owed
<1>17. CASE Reset
  <2>1. upload.at = "reset" /\ upload'.at = "check" /\ mask' = {} /\ UNCHANGED <<ready, sent>>
    BY <1>8, <1>17 DEF Reset
  <2>2. ~ready
    BY <1>5, <2>1 DEF Owed
  <2> QED BY <1>3, <1>4, <1>5, <2>1, <2>2 DEF Owed
<1> QED BY <1>10, <1>11, <1>12, <1>13, <1>14, <1>15, <1>16, <1>17 DEF Upload

LEMMA WindowInit == Init => WindowInv
<1> SUFFICES ASSUME Init PROVE WindowInv
  OBVIOUS
<1>1. OpenRequest
  BY OpenRequestInit
<1>2. \A d \in Drainers : drain[d].at = "idle" /\ drain[d].win = None
  BY DEF Init
<1>3. Capturing = {} /\ Entered = {}
  BY <1>2 DEF Capturing, Entered
<1>4. Racing = {}
  BY <1>3 DEF Racing
<1>5. TypeOK
  <2>1. drain \in [Drainers -> [at : DrainPlaces, win : Values]]
    BY DEF Init, DrainPlaces, Values
  <2>2. upload \in [client : Clients, at : UploadPlaces, included : BOOLEAN, mask : SUBSET Clients]
    BY DEF Init, Clients, UploadPlaces
  <2>3. cycles \in 0..MaxCycles /\ answers \in 0..MaxAnswers /\ captures \in [Drainers -> 0..MaxCycles]
    BY BoundsAssumption DEF Init
  <2>4. sent \in [Clients -> 0..2] /\ raced \subseteq Captures
    BY DEF Init
  <2>5. value \in Values /\ mask \in SUBSET Clients
    BY DEF Init, Values
  <2>6. requested \in BOOLEAN /\ ready \in BOOLEAN
    BY DEF Init
  <2> QED BY <2>1, <2>2, <2>3, <2>4, <2>5, <2>6 DEF TypeOK
<1>6. Marking
  BY DEF Init, Marking, Clients
<1>7. Numbered
  <2>1. \A d \in Drainers, n \in Nat : <<d, n>> # None
    BY NoneAssumption
  <2> QED BY <1>2, <2>1 DEF Init, Numbered
<1>8. Owed
  BY DEF Init, Owed
<1> QED BY <1>1, <1>3, <1>4, <1>5, <1>6, <1>7, <1>8 DEF WindowInv, Once

LEMMA WindowNext == WindowInv /\ [Next]_vars => WindowInv'
<1> SUFFICES ASSUME WindowInv, [Next]_vars PROVE WindowInv'
  OBVIOUS
<1>1. OpenRequest'
  BY OpenRequestNext DEF WindowInv
<1>2. Numbered'
  BY NumberedNext DEF WindowInv
<1>3. TypeOK'
  BY <1>1, <1>2, TypeNext DEF WindowInv
<1>4. Marking'
  BY MarkingNext DEF WindowInv
<1>5. Racing' \subseteq raced'
  <2>1. NoteRaces \/ UNCHANGED <<drain, upload, raced>>
    BY UploadMoves DEF WindowInv, Next, FullReadAnswered, WindowCycle, Store, Capture, SetValue,
                       SetReady, ResetMask, Unrequest, Captured, history, vars
  <2>2. CASE UNCHANGED <<drain, upload, raced>>
    BY <2>2 DEF WindowInv, Racing, Uploading, Capturing
  <2> QED BY <2>1, <2>2, RacesKept
<1>6. Once'
  <2>1. CASE UNCHANGED <<value, ready, mask, sent, upload, drain, raced>>
    BY <2>1, OnceOutside DEF WindowInv
  <2>2. ASSUME NEW d \in Drainers, Store(d) PROVE Once'
    <3>1. drain[d].at = "idle" /\ NoteRaces /\ UNCHANGED <<value, ready, mask, sent, upload>>
      BY <2>2 DEF Store, globals
    <3>2. drain' = drain \/ drain' = [drain EXCEPT ![d] = [at |-> "value", win |-> <<d, captures[d] + 1>>]]
      BY <2>2 DEF Store, Begin
    <3>3. \A e \in Drainers : drain'[e] = drain[e] \/ (e = d /\ drain'[e].at = "value")
      BY <3>2 DEF WindowInv, TypeOK
    <3> QED BY <3>1, <3>3, OnceOutside DEF WindowInv
  <2> QED BY <1>2, <1>3, <1>4, <2>1, <2>2, OnceCapture, OnceUpload
          DEF Next, FullReadAnswered, WindowCycle, globals, history, vars
<1> QED BY <1>1, <1>2, <1>3, <1>4, <1>5, <1>6 DEF WindowInv

(* Between uploads the flags agree (mqtt_data_upload, haas_mqtt_data_upload,  *)
(* update_energy_window).                                                    *)
THEOREM FlagsAlwaysAgree == Spec => []FlagsAgree
<1>1. WindowInv => FlagsAgree
  BY DEF WindowInv, Marking, FlagsAgree, Uploading
<1> QED BY WindowInit, WindowNext, <1>1, PTL DEF Spec

(* No client publishes a value twice, but one whose capture was raced.       *)
THEOREM NeverTwice == Spec => []PublishedOnce
<1>1. WindowInv => PublishedOnce
  <2> SUFFICES ASSUME WindowInv, value \notin raced, NEW c \in Clients PROVE sent[c] <= 1
    BY DEF PublishedOnce
  <2>1. CASE Entered # {}
    BY <2>1 DEF WindowInv, Once, Fresh, SentBy
  <2>2. CASE Entered = {} /\ ready
    <3>1. upload.at \in UploadPlaces
      BY DEF WindowInv, TypeOK
    <3>2. Owed
      BY <2>2 DEF WindowInv, Once
    <3>3. CASE upload.at \in {"check", "publish", "full"}
      <4>1. SentBy(mask)
        BY <2>2, <3>2, <3>3 DEF Owed
      <4> QED BY <4>1 DEF SentBy
    <3>4. CASE upload.at \in {"test", "load", "store"}
      <4>1. SentBy(mask \cup {upload.client})
        BY <2>2, <3>2, <3>4 DEF Owed
      <4> QED BY <4>1 DEF SentBy
    <3>5. CASE upload.at \in {"retire", "reset"}
      <4>1. SentBy(Clients)
        BY <2>2, <3>2, <3>5 DEF Owed
      <4> QED BY <4>1 DEF SentBy
    <3> QED BY <3>1, <3>3, <3>4, <3>5 DEF UploadPlaces
  <2>3. CASE Entered = {} /\ ~ready
    BY <2>3 DEF WindowInv, Once, Owed
  <2> QED BY <2>1, <2>2, <2>3
<1> QED BY WindowInit, WindowNext, <1>1, PTL DEF Spec

(* A value that is done with was published once by each client, but one whose *)
(* capture was raced (the upload that takes ready back).                     *)
THEOREM RetiredWhenPublished == Spec => RetiredWasPublished
<1>1. WindowInv /\ [Next]_vars => [Retire /\ value \notin raced => \A c \in Clients : sent[c] = 1]_vars
  <2> SUFFICES ASSUME WindowInv, Retire, value \notin raced PROVE \A c \in Clients : sent[c] = 1
    OBVIOUS
  <2>1. upload.at = "retire"
    BY DEF Retire, Uploads
  <2>2. Entered = {}
    BY <2>1, LoneCapture DEF WindowInv, Once, Uploading
  <2> QED BY <2>1, <2>2 DEF WindowInv, Once, Owed, SentBy
<1> QED BY WindowInit, WindowNext, <1>1, PTL DEF Spec, RetiredWasPublished
================================================================================
