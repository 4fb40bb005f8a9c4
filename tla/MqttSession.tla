---------------------------- MODULE MqttSession ----------------------------
(* One MQTT client of the program, its own thread (mqtt_main, respectively  *)
(* haas_mqtt_main: connect, subscribe, yield, publish, start again) and the *)
(* data thread, which publishes through the same client.  MQTT_TASK is not  *)
(* defined, so the client has no mutex: the flag, the message handlers and  *)
(* the send buffer are read and written by both threads.  The client        *)
(* library is modelled with it; the network and the broker are external.    *)
(* Quality of service is 0 throughout.  A process that ends is started      *)
(* again: by whom is not in the repository.                                 *)
EXTENDS Integers, Sequences, FiniteSets

CONSTANTS
  Topics,     \* how many topics out_mqtt_init subscribes to
  Refusals,   \* the codes with which a broker refuses a connection
  MaxFaults   \* bound: how often network, broker or timing may go wrong

ASSUME SessionAssumption ==
  /\ Topics \in Nat \ {0}
  /\ Refusals \subseteq 1 .. Topics - 1     \* 1..5, for 9 and 6 topics
  /\ MaxFaults \in Nat

VARIABLES
  keepalive,                           \* keepAliveInterval # 0: mqtt.c, not haas_mqtt.c
  link, inbound, open, granted,        \* the connection and the broker's view of it
  isconnected, cleansession, ping, handlers, buf,     \* MQTTClient
  pc, packet, ret, rc, topic,          \* the threads
  answered, stale, torn, faults        \* history

clientVars == <<isconnected, cleansession, ping, handlers>>
brokerVars == <<inbound, open, granted>>
ownVars == <<ret, rc, topic>>
vars == <<keepalive, link, brokerVars, clientVars, buf, pc, packet, ownVars,
          answered, stale, torn, faults>>

Threads == {"own", "data"}
Kinds == {"connect", "subscribe", "publish", "ping", "disconnect"}

Fault == faults < MaxFaults /\ faults' = faults + 1
NoFault == UNCHANGED faults

(* The client is in static storage; its own thread starts connecting.        *)
Launched ==
  /\ link = "none" /\ inbound = <<>> /\ open = FALSE /\ granted = {}
  /\ isconnected = FALSE /\ cleansession = FALSE /\ ping = FALSE /\ handlers = {}
  /\ buf = <<"own", "publish">>
  /\ pc = [own |-> "network", data |-> "idle"]
  /\ packet = [t \in Threads |-> "publish"]
  /\ ret = "subscribe" /\ rc = 0 /\ topic = 1
  /\ answered = {} /\ stale = FALSE /\ torn = FALSE

Init == keepalive \in BOOLEAN /\ faults = 0 /\ Launched

Goto(t, l) == pc' = [pc EXCEPT ![t] = l]

----------------------------------------------------------------------------
(* The client library.  MQTTSerialize_*: the packet is put into c->buf.  A   *)
(* packet of the other thread that has not been sent yet is overwritten.     *)
Serialise(t, kind) ==
  /\ buf' = <<t, kind>> /\ packet' = [packet EXCEPT ![t] = kind]
  /\ \/ \A u \in Threads \ {t} : pc[u] # "send" /\ NoFault
     \/ \E u \in Threads \ {t} : pc[u] = "send" /\ Fault

Refused == 128            \* a SUBACK with 0x80
Intact(t) == buf = <<t, packet[t]>>

(* What an intact packet brings about at the broker.                          *)
BrokerTakes(kind) ==
  \/ /\ kind = "connect" /\ open' = TRUE /\ UNCHANGED granted
     /\ \/ inbound' = Append(inbound, 0) /\ NoFault
        \/ \E code \in Refusals : inbound' = Append(inbound, code) /\ Fault
  \/ /\ kind = "subscribe" /\ UNCHANGED open /\ NoFault
     /\ \/ granted' = granted \cup {topic} /\ inbound' = Append(inbound, 0)
        \/ granted' = granted /\ inbound' = Append(inbound, Refused)
  \/ /\ kind = "ping" /\ UNCHANGED <<open, granted>> /\ NoFault
     /\ inbound' = Append(inbound, 0)
  \/ kind \in {"publish", "disconnect"} /\ UNCHANGED brokerVars /\ NoFault

(* sendPacket: what the buffer holds now is written to the socket there is    *)
(* now.  A write that is cut short is repeated with the full length, which    *)
(* overshoots and counts as failed; the broker is out of step from then on.   *)
SendPacket(t, sent) ==
  /\ pc[t] = "send"
  /\ \/ /\ link = "up" /\ sent
        /\ IF Intact(t) /\ (open \/ packet[t] = "connect")
           THEN BrokerTakes(packet[t]) /\ UNCHANGED link
           ELSE link' = "silent" /\ UNCHANGED brokerVars /\ NoFault
     \/ link = "up" /\ ~sent /\ link' = "silent" /\ Fault /\ UNCHANGED brokerVars
     \/ link = "silent" /\ sent /\ link' = "unacked" /\ NoFault /\ UNCHANGED brokerVars
     \/ link = "unacked" /\ sent /\ NoFault /\ UNCHANGED <<link, brokerVars>>
     \/ link = "broken" /\ ~sent /\ NoFault /\ UNCHANGED <<link, brokerVars>>
     \/ link = "none" /\ NoFault /\ UNCHANGED <<link, brokerVars>>

\* Fault: the flag stays up.
CloseSessionOpen(t) ==
  /\ pc[t] = "close" /\ Goto(t, "clean")
  /\ ping' = FALSE /\ UNCHANGED isconnected
  /\ IF t = "data" /\ isconnected /\ link = "up" THEN Fault ELSE NoFault
  /\ UNCHANGED <<keepalive, link, brokerVars, cleansession, handlers, buf, packet, ownVars,
                 answered, stale, torn>>

(* MQTTCloseSession: isconnected is cleared before the handlers are.  That the *)
(* data thread, having found the client offline, gets here only after its own *)
(* thread has connected counts as a fault of timing.                          *)
CloseSession(t) ==
  /\ pc[t] = "close" /\ Goto(t, "clean")
  /\ isconnected' = FALSE /\ ping' = FALSE
  /\ IF t = "data" /\ isconnected /\ link = "up" THEN Fault ELSE NoFault
  /\ UNCHANGED <<keepalive, link, brokerVars, cleansession, handlers, buf, packet, ownVars,
                 answered, stale, torn>>

CleanSession(t) ==
  /\ pc[t] = "clean" /\ Goto(t, IF t = "own" THEN ret ELSE "idle")
  /\ handlers' = IF cleansession THEN {} ELSE handlers
  /\ torn' = (torn \/ (t = "data" /\ isconnected))
  /\ UNCHANGED <<keepalive, link, brokerVars, isconnected, cleansession, ping, buf, packet,
                 ownVars, answered, stale, faults>>

----------------------------------------------------------------------------
(* out_mqtt_init.  The result of NetworkConnect is not looked at.             *)
NetworkConnect ==
  /\ pc["own"] = "network" /\ Goto("own", "init")
  /\ \/ link' = "up" /\ NoFault
     \/ link' = "none" /\ Fault
  /\ answered' = {} /\ stale' = (pc["data"] \in {"checked", "send"})
  /\ UNCHANGED <<keepalive, brokerVars, clientVars, buf, packet, ownVars, torn>>

ClientInit ==
  /\ pc["own"] = "init" /\ Goto("own", "connect")
  /\ isconnected' = FALSE /\ cleansession' = FALSE /\ ping' = FALSE /\ handlers' = {}
  /\ torn' = FALSE
  /\ UNCHANGED <<keepalive, link, brokerVars, buf, packet, ownVars, answered, stale, faults>>

(* MQTTConnect: the packet is made, then sent, then the CONNACK is awaited.   *)
Connect ==
  /\ pc["own"] = "connect" /\ Goto("own", "send")
  /\ cleansession' = TRUE /\ Serialise("own", "connect")
  /\ UNCHANGED <<keepalive, link, brokerVars, isconnected, ping, handlers, ownVars,
                 answered, stale, torn>>

(* What each call of out_mqtt_init adds to rc, and where it goes on.          *)
Result(code) == IF packet["own"] = "connect" THEN code ELSE rc + code
NextTopic == IF packet["own"] = "connect" THEN 1 ELSE topic + 1

\* Fault: a topic gets its handler whatever the broker says.
HandledAlways(code) == handlers \cup {topic}

(* MQTTSubscribe: a topic the broker refuses gets no handler.                 *)
Handled(code) == IF code = Refused THEN handlers ELSE handlers \cup {topic}

\* Fault: a subscription that fails is not counted.
CallFailsUncounted ==
  /\ rc' = IF packet["own"] = "connect" THEN -1 ELSE rc
  /\ topic' = NextTopic
  /\ IF packet["own"] = "connect" THEN Goto("own", "subscribe") /\ UNCHANGED ret
                                  ELSE Goto("own", "close") /\ ret' = "subscribe"

(* A call fails: sending, waiting for the answer, or the socket while waiting. *)
(* MQTTSubscribe closes the session, MQTTConnect does not.                    *)
CallFails ==
  /\ rc' = Result(-1) /\ topic' = NextTopic
  /\ IF packet["own"] = "connect" THEN Goto("own", "subscribe") /\ UNCHANGED ret
                                  ELSE Goto("own", "close") /\ ret' = "subscribe"

OwnSend == \E sent \in BOOLEAN :
  /\ SendPacket("own", sent)
  /\ \/ /\ packet["own"] \in {"connect", "subscribe"}
        /\ IF sent THEN Goto("own", "await") /\ UNCHANGED ownVars ELSE CallFails
     \/ /\ packet["own"] = "disconnect"
        /\ Goto("own", "close") /\ ret' = "hangup" /\ UNCHANGED <<rc, topic>>
     \/ /\ packet["own"] \in {"publish", "ping"} /\ UNCHANGED <<rc, topic>>
        /\ IF sent THEN Goto("own", "work") /\ UNCHANGED ret
                   ELSE Goto("own", "close") /\ ret' = "work"
  /\ ping' = IF packet["own"] = "ping" /\ sent THEN TRUE ELSE ping
  /\ UNCHANGED <<keepalive, isconnected, cleansession, handlers, buf, packet, answered,
                 stale, torn>>

(* waitfor: the answer arrives.  The flag is set by a CONNACK alone; a topic  *)
(* granted gets its handler whether the session still is open or not.         *)
Connack ==
  /\ pc["own"] = "await" /\ packet["own"] = "connect" /\ inbound # <<>>
  /\ inbound' = Tail(inbound) /\ Goto("own", "subscribe")
  /\ rc' = Result(Head(inbound)) /\ topic' = NextTopic
  /\ isconnected' = (isconnected \/ Head(inbound) = 0)
  /\ ping' = (ping /\ Head(inbound) # 0)
  /\ answered' = IF Head(inbound) = 0 THEN answered \cup {0} ELSE answered
  /\ UNCHANGED <<keepalive, link, open, granted, cleansession, handlers, buf, packet, ret,
                 stale, torn, faults>>

Suback ==
  /\ pc["own"] = "await" /\ packet["own"] = "subscribe" /\ inbound # <<>>
  /\ inbound' = Tail(inbound) /\ Goto("own", "subscribe")
  /\ rc' = Result(0) /\ topic' = NextTopic          \* whether granted or refused
  /\ handlers' = Handled(Head(inbound)) /\ answered' = answered \cup {topic}
  /\ UNCHANGED <<keepalive, link, open, granted, isconnected, cleansession, ping, buf, packet,
                 ret, stale, torn, faults>>

(* waitfor: the timer runs out, or reading fails.                             *)
NoAnswer ==
  /\ pc["own"] = "await" /\ CallFails
  /\ IF inbound # <<>> THEN Fault ELSE NoFault
  /\ UNCHANGED <<keepalive, link, brokerVars, clientVars, buf, packet, answered, stale, torn>>

(* MQTTSubscribe of the next topic: an offline client is closed once more.    *)
Subscribe ==
  /\ pc["own"] = "subscribe" /\ topic <= Topics
  /\ \/ /\ isconnected /\ Serialise("own", "subscribe") /\ Goto("own", "send")
        /\ UNCHANGED ownVars
     \/ /\ ~isconnected /\ rc' = rc - 1 /\ topic' = topic + 1
        /\ Goto("own", "close") /\ ret' = "subscribe"
        /\ NoFault /\ UNCHANGED <<buf, packet>>
  /\ UNCHANGED <<keepalive, link, brokerVars, clientVars, answered, stale, torn>>

(* rc sums up the results; the loop is entered when the sum is 0.             *)
Subscribed ==
  /\ pc["own"] = "subscribe" /\ topic > Topics
  /\ Goto("own", IF rc = 0 THEN "loop" ELSE "disconnect")
  /\ UNCHANGED <<keepalive, link, brokerVars, clientVars, buf, packet, ownVars, answered,
                 stale, torn, faults>>

(* MQTTDisconnect sends its packet on a closed session too.                   *)
Disconnect ==
  /\ pc["own"] = "disconnect" /\ Goto("own", "send") /\ Serialise("own", "disconnect")
  /\ UNCHANGED <<keepalive, link, brokerVars, clientVars, ownVars, answered, stale, torn>>

NetworkDisconnect ==
  /\ pc["own"] = "hangup" /\ Goto("own", "network")
  /\ link' = "none" /\ inbound' = <<>> /\ open' = FALSE /\ granted' = {}
  /\ UNCHANGED <<keepalive, clientVars, buf, packet, ownVars, answered, stale, torn, faults>>

----------------------------------------------------------------------------
\* Fault: the loop goes on although the client is offline.
LoopBlind ==
  /\ pc["own"] = "loop" /\ Goto("own", "yield")
  /\ UNCHANGED <<keepalive, link, brokerVars, clientVars, buf, packet, ownVars, answered,
                 stale, torn, faults>>

(* out_mqtt_loop.                                                             *)
Loop ==
  /\ pc["own"] = "loop" /\ Goto("own", IF isconnected THEN "yield" ELSE "leave")
  /\ UNCHANGED <<keepalive, link, brokerVars, clientVars, buf, packet, ownVars, answered,
                 stale, torn, faults>>

Leave ==
  /\ pc["own"] = "leave" /\ Goto("own", IF isconnected THEN "disconnect" ELSE "hangup")
  /\ UNCHANGED <<keepalive, link, brokerVars, clientVars, buf, packet, ownVars, answered,
                 stale, torn, faults>>

(* MQTTYield, one cycle: a packet is read, here the answer to a ping, or none *)
(* in time (an end of file reads as none), and reading fails on a broken link *)
(* at the latest.                                                             *)
YieldRead ==
  /\ pc["own"] = "yield" /\ inbound # <<>>
  /\ inbound' = Tail(inbound) /\ ping' = FALSE /\ Goto("own", "keepalive")
  /\ UNCHANGED <<keepalive, link, open, granted, isconnected, cleansession, handlers, buf,
                 packet, ownVars, answered, stale, torn, faults>>

YieldNothing ==
  /\ pc["own"] = "yield" /\ Goto("own", "keepalive")
  /\ IF inbound # <<>> THEN Fault ELSE NoFault
  /\ UNCHANGED <<keepalive, link, brokerVars, clientVars, buf, packet, ownVars, answered,
                 stale, torn>>

YieldFails ==
  /\ pc["own"] = "yield" /\ link \in {"broken", "none"}
  /\ IF isconnected THEN Goto("own", "close") /\ ret' = "work"
                    ELSE Goto("own", "work") /\ UNCHANGED ret
  /\ UNCHANGED <<keepalive, link, brokerVars, clientVars, buf, packet, rc, topic, answered,
                 stale, torn, faults>>

(* keepalive(): no interval is over.                                          *)
NotDue ==
  /\ pc["own"] = "keepalive" /\ Goto("own", "work")
  /\ UNCHANGED <<keepalive, link, brokerVars, clientVars, buf, packet, ownVars, answered,
                 stale, torn, faults>>

(* keepalive(): an interval is over.  A ping is sent, or, the last one being  *)
(* unanswered, the session is closed.                                         *)
Due ==
  /\ pc["own"] = "keepalive" /\ keepalive
  /\ \/ /\ ~ping /\ Serialise("own", "ping") /\ Goto("own", "send") /\ UNCHANGED ret
     \/ /\ ping /\ (IF link = "up" THEN Fault ELSE NoFault)
        /\ IF isconnected THEN Goto("own", "close") /\ ret' = "work"
                          ELSE Goto("own", "work") /\ UNCHANGED ret
        /\ UNCHANGED <<buf, packet>>
  /\ UNCHANGED <<keepalive, link, brokerVars, clientVars, rc, topic, answered, stale, torn>>

(* The rest of a round: every message drained is published, and a heart beat *)
(* once a minute.                                                             *)
OwnPublish ==
  /\ pc["own"] = "work"
  /\ \/ /\ isconnected /\ Serialise("own", "publish") /\ Goto("own", "send") /\ UNCHANGED ret
     \/ /\ ~isconnected /\ Goto("own", "close") /\ ret' = "work"
        /\ NoFault /\ UNCHANGED <<buf, packet>>
  /\ UNCHANGED <<keepalive, link, brokerVars, clientVars, rc, topic, answered, stale, torn>>

RoundDone ==
  /\ pc["own"] = "work" /\ Goto("own", "loop")
  /\ UNCHANGED <<keepalive, link, brokerVars, clientVars, buf, packet, ownVars, answered,
                 stale, torn, faults>>

----------------------------------------------------------------------------
(* mqtt_data_upload, haas_mqtt_data_upload: MQTTPublish in the data thread.   *)
DataCheck ==
  /\ pc["data"] = "idle" /\ Goto("data", IF isconnected THEN "checked" ELSE "close")
  /\ UNCHANGED <<keepalive, link, brokerVars, clientVars, buf, packet, ownVars, answered,
                 stale, torn, faults>>

DataSerialise ==
  /\ pc["data"] = "checked" /\ Goto("data", "send") /\ Serialise("data", "publish")
  /\ UNCHANGED <<keepalive, link, brokerVars, clientVars, ownVars, answered, stale, torn>>

DataSend == \E sent \in BOOLEAN :
  /\ SendPacket("data", sent) /\ Goto("data", IF sent THEN "idle" ELSE "close")
  /\ UNCHANGED <<keepalive, clientVars, buf, packet, ownVars, answered, stale, torn>>

----------------------------------------------------------------------------
(* The network.  The broker may close the connection, or nothing gets through *)
(* any more: nothing is read, and what is written is accepted until the other *)
(* side resets the connection or TCP gives up waiting for it.                 *)
FallSilent ==
  /\ link = "up" /\ link' = "silent" /\ Fault
  /\ UNCHANGED <<keepalive, brokerVars, clientVars, buf, pc, packet, ownVars, answered,
                 stale, torn>>

Break ==
  /\ link = "unacked" /\ link' = "broken"
  /\ UNCHANGED <<keepalive, brokerVars, clientVars, buf, pc, packet, ownVars, answered,
                 stale, torn, faults>>

(* SIGPIPE has its default action: a write to a connection that the other     *)
(* side has reset, or that never came about, may fail, or end the process.    *)
Killed ==
  /\ link \in {"broken", "none"} /\ \E t \in Threads : pc[t] = "send"
  /\ link' = "none" /\ inbound' = <<>> /\ open' = FALSE /\ granted' = {}
  /\ isconnected' = FALSE /\ cleansession' = FALSE /\ ping' = FALSE /\ handlers' = {}
  /\ buf' = <<"own", "publish">>
  /\ pc' = [own |-> "network", data |-> "idle"]
  /\ packet' = [t \in Threads |-> "publish"]
  /\ ret' = "subscribe" /\ rc' = 0 /\ topic' = 1
  /\ answered' = {} /\ stale' = FALSE /\ torn' = FALSE
  /\ UNCHANGED <<keepalive, faults>>

Own ==
  \/ NetworkConnect \/ ClientInit \/ Connect \/ OwnSend \/ Connack \/ Suback \/ NoAnswer
  \/ Subscribe \/ Subscribed \/ Disconnect \/ NetworkDisconnect
  \/ Loop \/ Leave \/ YieldRead \/ YieldNothing \/ YieldFails \/ NotDue \/ Due
  \/ OwnPublish \/ RoundDone \/ CloseSession("own") \/ CleanSession("own")

DataMoves == DataSerialise \/ DataSend \/ CloseSession("data") \/ CleanSession("data")

Next == Own \/ DataCheck \/ DataMoves \/ FallSilent \/ Break \/ Killed

(* Both threads run; a round ends, since messages come five times a second at *)
(* most; the heart beat is published again and again; a connection with data  *)
(* nobody acknowledges breaks in the end.  Fairness is strong where the bound *)
(* on faults, once used up, has a thread wait for the other one.              *)
Fairness ==
  /\ SF_vars(Own) /\ SF_vars(DataMoves) /\ WF_vars(Break)
  /\ SF_vars(OwnPublish) /\ SF_vars(RoundDone)

Spec == Init /\ [][Next]_vars /\ Fairness

----------------------------------------------------------------------------
OwnPlaces == {"network", "init", "connect", "send", "await", "subscribe", "disconnect",
              "hangup", "loop", "leave", "yield", "keepalive", "work", "close", "clean"}
DataPlaces == {"idle", "checked", "send", "close", "clean"}

TypeOK ==
  /\ keepalive \in BOOLEAN
  /\ link \in {"none", "up", "silent", "unacked", "broken"}
  /\ inbound \in Seq(Nat) /\ open \in BOOLEAN /\ granted \subseteq 1 .. Topics
  /\ isconnected \in BOOLEAN /\ cleansession \in BOOLEAN /\ ping \in BOOLEAN
  /\ handlers \subseteq 1 .. Topics
  /\ buf \in Threads \X Kinds /\ packet \in [Threads -> Kinds]
  /\ pc \in [Threads -> OwnPlaces \cup DataPlaces]
  /\ pc["own"] \in OwnPlaces /\ pc["data"] \in DataPlaces
  /\ ret \in {"subscribe", "hangup", "work"}
  /\ rc \in Int /\ topic \in 1 .. Topics + 1
  /\ answered \subseteq 0 .. Topics /\ stale \in BOOLEAN /\ torn \in BOOLEAN
  /\ faults \in 0 .. MaxFaults

InLoop ==
  \/ pc["own"] \in {"loop", "leave", "yield", "keepalive", "work"}
  \/ pc["own"] = "send" /\ packet["own"] \in {"ping", "publish"}
  \/ pc["own"] \in {"close", "clean"} /\ ret = "work"

(* The sum of ten results is 0 only if each of them is: out_mqtt_loop runs    *)
(* only on a connection the broker has accepted and on which it has answered  *)
(* every subscription, whatever failed and whatever the data thread did.      *)
(* (mqtt.c:243-275; a refusal is positive, a failure -1.)                     *)
ReadyMeansJoined == InLoop => answered = 0 .. Topics

(* While the loop is connected, the topics with a handler are those the       *)
(* broker grants, unless the data thread, closing a session it found closed   *)
(* or could not use, cleared the handlers of the next one.                    *)
(* (MQTTClient.c:250-253: isconnected first, then the handlers.)              *)
HeardIfGranted == InLoop /\ isconnected /\ ~torn => handlers = granted

(* The first thing a broker sees of a connection is the CONNECT as it was     *)
(* made, unless the data thread was about to publish on the connection before *)
(* when this one was made.  (MQTTClient.c:628-641)                            *)
FirstContact ==
  [][\A t \in Threads :
       pc[t] = "send" /\ pc'[t] # "send" /\ link = "up" /\ ~open /\ ~stale
         => packet[t] = "connect" /\ buf = <<t, "connect">>]_vars

(* However the connection is lost, the client notices, joins again and stays  *)
(* connected once nothing goes wrong any more; the client without keep-alive  *)
(* notices by a write that fails, since it reads an end of file as a timeout. *)
Settles == <>[](InLoop /\ isconnected /\ link = "up")
=============================================================================
