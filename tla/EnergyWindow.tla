------------------------------ MODULE EnergyWindow ------------------------------
(***************************************************************************)
(* The energy window of dev_type 3: three kinds of threads pass one value  *)
(* through plain globals.                                                  *)
(*                                                                         *)
(*   cmd_main    ends a window: it asks for a capture and reads the meter  *)
(*   MQTT loops  store the answer; the first one stored while a capture is *)
(*               asked for becomes the window's value                      *)
(*   data_main   uploads through client 1, then through client 2; the      *)
(*               value is done with when both have marked it in the mask   *)
(*                                                                         *)
(* Every access to a global is a step.  A value is kept by who captured it  *)
(* and as that thread's how-manieth.  The entry of register 0x110E has all *)
(* its words; what goes wrong while it has not is in EnergyMeter.          *)
(***************************************************************************)
EXTENDS Integers, FiniteSets

CONSTANTS
  Drainers,    \* the threads that drain the receive boxes
  MaxCycles,   \* bound on the number of windows
  MaxAnswers,  \* bound on the answers of the meter not yet stored
  None         \* no value

ASSUME BoundsAssumption == MaxCycles \in Nat \ {0} /\ MaxAnswers \in Nat \ {0}
ASSUME DrainersAssumption == IsFiniteSet(Drainers)
ASSUME NoneAssumption == None \notin Drainers \X Nat

VARIABLES
  requested,  \* s_window_capture_requested
  value,      \* g_energy_window_value_wh, as its capture
  ready,      \* g_energy_window_value_ready
  mask,       \* g_energy_window_publish_mask
  answers,    \* number of answers of the meter in the boxes
  drain,      \* per draining thread, its place in update_energy_window
  upload,     \* data_main's place in the upload of a client
  cycles,     \* number of windows ended so far
  captures,   \* per draining thread, number of captures so far
  sent,       \* history: how often each client published the value (2: or more)
  raced       \* history: captures that ran at the same time as something else

globals == <<requested, value, ready, mask>>
history == <<sent, raced>>
vars == <<globals, answers, drain, upload, cycles, captures, history>>

Clients == 1..2   \* ENERGY_WIN_MASK_MQTT, ENERGY_WIN_MASK_HAAS_MQTT
Captures == Drainers \X (1..MaxCycles)
Values == Captures \cup {None}
DrainPlaces == {"idle", "value", "ready", "mask", "requested"}
UploadPlaces == {"check", "publish", "test", "load", "store", "full", "retire", "reset"}

TypeOK ==
  /\ requested \in BOOLEAN /\ ready \in BOOLEAN
  /\ value \in Values /\ mask \in SUBSET Clients
  /\ answers \in 0..MaxAnswers
  /\ drain \in [Drainers -> [at : DrainPlaces, win : Values]]
  /\ upload \in [client : Clients, at : UploadPlaces, included : BOOLEAN, mask : SUBSET Clients]
  /\ cycles \in 0..MaxCycles /\ captures \in [Drainers -> 0..MaxCycles]
  /\ sent \in [Clients -> 0..2] /\ raced \subseteq Captures

Init ==
  /\ requested = FALSE /\ value = None /\ ready = FALSE /\ mask = {}
  /\ answers = 0
  /\ drain = [d \in Drainers |-> [at |-> "idle", win |-> None]]
  /\ upload = [client |-> 1, at |-> "check", included |-> FALSE, mask |-> {}]
  /\ cycles = 0 /\ captures = [d \in Drainers |-> 0]
  /\ sent = [c \in Clients |-> 0] /\ raced = {}

\* A capture is raced when some upload, or another capture, is under way in a
\* state in which it is.  Captures that have been replaced are forgotten.
Capturing == {d \in Drainers : drain[d].at # "idle"}
Uploading == upload.at # "check"
Racing == IF Uploading \/ Cardinality(Capturing) > 1 THEN {drain[d].win : d \in Capturing} ELSE {}
Kept == {value} \cup {drain[d].win : d \in Capturing}
NoteRaces == raced' = (raced \cap Kept) \cup Racing'

-----------------------------------------------------------------------------
(* cmd_main.                                                               *)

\* haas_energy_type2_full_read, when the meter answers.
FullReadAnswered ==
  /\ answers < MaxAnswers
  /\ answers' = answers + 1
  /\ UNCHANGED <<globals, drain, upload, cycles, captures, history>>

\* haas_energy_type2_window_cycle: the request is set before the meter is read.
WindowCycle ==
  /\ cycles < MaxCycles
  /\ cycles' = cycles + 1
  /\ requested' = TRUE
  /\ UNCHANGED <<value, ready, mask, answers, drain, upload, captures, history>>

-----------------------------------------------------------------------------
(* update_energy_window, called for each word stored, by a draining thread. *)

Begin(d) ==
  /\ captures' = [captures EXCEPT ![d] = captures[d] + 1]
  /\ drain' = [drain EXCEPT ![d] = [at |-> "value", win |-> <<d, captures[d] + 1>>]]

\* Fault: the request is not looked at.
StoreAlways(d) ==
  /\ drain[d].at = "idle" /\ answers > 0
  /\ answers' = answers - 1
  /\ IF captures[d] < MaxCycles THEN Begin(d) ELSE UNCHANGED <<captures, drain>>
  /\ UNCHANGED <<globals, upload, cycles, sent>> /\ NoteRaces

\* Fault: the test is inverted.
StoreInverted(d) ==
  /\ drain[d].at = "idle" /\ answers > 0
  /\ answers' = answers - 1
  /\ IF ~requested /\ captures[d] < MaxCycles THEN Begin(d) ELSE UNCHANGED <<captures, drain>>
  /\ UNCHANGED <<globals, upload, cycles, sent>> /\ NoteRaces

Store(d) ==
  /\ drain[d].at = "idle" /\ answers > 0
  /\ answers' = answers - 1
  /\ IF requested THEN Begin(d) ELSE UNCHANGED <<captures, drain>>
  /\ UNCHANGED <<globals, upload, cycles, sent>> /\ NoteRaces

Captured(d, from, to) ==
  /\ drain[d].at = from
  /\ drain' = [drain EXCEPT ![d].at = to]
  /\ UNCHANGED <<answers, upload, cycles, captures>> /\ NoteRaces

SetValue(d) ==
  /\ Captured(d, "value", "ready")
  /\ value' = drain[d].win /\ sent' = [c \in Clients |-> 0]
  /\ UNCHANGED <<requested, ready, mask>>

SetReady(d) ==
  Captured(d, "ready", "mask") /\ ready' = TRUE /\ UNCHANGED <<requested, value, mask, sent>>

ResetMask(d) ==
  Captured(d, "mask", "requested") /\ mask' = {} /\ UNCHANGED <<requested, value, ready, sent>>

Unrequest(d) ==
  Captured(d, "requested", "idle") /\ requested' = FALSE /\ UNCHANGED <<value, ready, mask, sent>>

-----------------------------------------------------------------------------
(* mqtt_data_upload (client 1), then haas_mqtt_data_upload (client 2).     *)

Uploads(from, to) ==
  /\ upload.at = from
  /\ upload' = [upload EXCEPT !.at = to,
                              !.client = IF to = "check" THEN 3 - @ ELSE @]
  /\ UNCHANGED <<answers, drain, cycles, captures>> /\ NoteRaces

\* The value is included in the message when it is ready.
Check ==
  /\ upload.at = "check"
  /\ upload' = [upload EXCEPT !.at = "publish", !.included = ready]
  /\ UNCHANGED <<globals, answers, drain, cycles, captures, sent>> /\ NoteRaces

\* Publishing; out_publish_msg has a result, and nobody looks at it.
Publish ==
  /\ Uploads("publish", "test")
  /\ sent' = IF upload.included THEN [sent EXCEPT ![upload.client] = IF @ < 2 THEN @ + 1 ELSE 2] ELSE sent
  /\ UNCHANGED globals

\* Whether it is ready is asked again.
Test ==
  \/ ready /\ Uploads("test", "load") /\ UNCHANGED <<globals, sent>>
  \/ ~ready /\ Uploads("test", "check") /\ UNCHANGED <<globals, sent>>

\* mask |= bit, as a load and a store.
Load ==
  /\ upload.at = "load"
  /\ upload' = [upload EXCEPT !.at = "store", !.mask = mask]
  /\ UNCHANGED <<globals, answers, drain, cycles, captures, sent>> /\ NoteRaces

MarkedMask == upload.mask \cup {upload.client}
StoreMask ==
  /\ Uploads("store", "full") /\ mask' = MarkedMask
  /\ UNCHANGED <<requested, value, ready, sent>>

\* Fault: one client is enough.
FullOfOne ==
  \/ mask # {} /\ Uploads("full", "retire") /\ UNCHANGED <<globals, sent>>
  \/ mask = {} /\ Uploads("full", "check") /\ UNCHANGED <<globals, sent>>

Full ==
  \/ mask = Clients /\ Uploads("full", "retire") /\ UNCHANGED <<globals, sent>>
  \/ mask # Clients /\ Uploads("full", "check") /\ UNCHANGED <<globals, sent>>

\* Fault: only the mask is reset.
RetireNot == Uploads("retire", "reset") /\ UNCHANGED <<globals, sent>>

Retire ==
  /\ Uploads("retire", "reset")
  /\ ready' = FALSE
  /\ UNCHANGED <<requested, value, mask, sent>>

\* Fault: the marks stay.
ResetNot == Uploads("reset", "check") /\ UNCHANGED <<globals, sent>>

Reset ==
  /\ Uploads("reset", "check") /\ mask' = {}
  /\ UNCHANGED <<requested, value, ready, sent>>

Upload == Check \/ Publish \/ Test \/ Load \/ StoreMask \/ Full \/ Retire \/ Reset
Capture(d) == SetValue(d) \/ SetReady(d) \/ ResetMask(d) \/ Unrequest(d)

Next ==
  \/ FullReadAnswered \/ WindowCycle
  \/ \E d \in Drainers : Store(d) \/ Capture(d)
  \/ Upload

Spec == Init /\ [][Next]_vars

\* No thread stops: data_main uploads every upload interval, the MQTT loops
\* drain, and cmd_main reads the meter every upload_time seconds, window or not.
FairSpec ==
  /\ Spec
  /\ WF_vars(FullReadAnswered) /\ WF_vars(Upload)
  /\ \A d \in Drainers : WF_vars(Store(d)) /\ WF_vars(Capture(d))

-----------------------------------------------------------------------------
(* Properties.                                                             *)

\* A value that is done with was published exactly once by each client, unless
\* it was captured in the middle of an upload or of another capture.
RetiredWasPublished ==
  [][Retire /\ value \notin raced => \A c \in Clients : sent[c] = 1]_vars

\* No client publishes a value twice, with the same exception.
PublishedOnce == value \notin raced => \A c \in Clients : sent[c] <= 1

\* Between uploads the flags agree, raced or not and captures under way or not:
\* a value that is ready is owed to some client, and nothing is marked when
\* there is none.
FlagsAgree == TypeOK /\ (~Uploading => IF ready THEN mask # Clients ELSE mask = {})

\* No thread takes two values for a window: with one draining thread, no
\* window yields two.
OneValuePerWindow == \A d \in Drainers : captures[d] <= cycles

\* A capture that was asked for comes about.
RequestServed == requested ~> ~requested

\* A value that is ready is done with in the end.
WindowClosed == ready ~> ~ready
================================================================================
