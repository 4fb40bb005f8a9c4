------------------------- MODULE MqttSessionProofs -------------------------
(* Proved of MqttSession for any number of topics, any codes of refusal      *)
(* below that number and any number of faults: a client enters its loop only *)
(* when everything it asked for was answered, has handlers for what it was   *)
(* granted, and begins a connection with its CONNECT.                        *)
EXTENDS MqttSession, SequenceTheorems, TLAPS

at == pc["own"]
Asking(kind) == at \in {"send", "await"} /\ packet["own"] = kind

(* What the results so far add up to.  Once accepted, the sum is 0 only if    *)
(* every topic so far was answered; not accepted, the client stays offline    *)
(* and every topic takes 1 off a code that is smaller than their number.      *)
Tally ==
  /\ 0 \in answered => rc <= 0 /\ (rc = 0 => answered = 0 .. topic - 1)
  /\ 0 \notin answered => ~isconnected /\ rc + topic <= Topics

Core ==
  /\ packet["data"] = "publish"
  /\ at = "await" => packet["own"] \in {"connect", "subscribe"}
  /\ at \in {"network", "init", "connect"} \/ (at = "send" /\ packet["own"] = "connect")
       => inbound = <<>>
  /\ at = "await" /\ packet["own"] = "connect"
       => inbound = <<>> \/ \E c \in {0} \cup Refusals : inbound = <<c>>
  /\ at \in {"init", "connect"} \/ Asking("connect") => answered = {}
  /\ at = "connect" \/ Asking("connect") => ~isconnected
  /\ Asking("subscribe") => topic <= Topics /\ 0 \in answered /\ Tally
  /\ at = "subscribe" \/ (at \in {"close", "clean"} /\ ret = "subscribe") => Tally
  /\ ReadyMeansJoined

SInv == TypeOK /\ Core

(* At first, and after a restart, nothing was asked for.                      *)
LEMMA LaunchedInv ==
  ASSUME keepalive \in BOOLEAN, faults \in 0 .. MaxFaults, Launched PROVE SInv
<1>1. inbound = <<>> /\ <<>> \in Seq(Nat) /\ buf \in Threads \X Kinds
  BY DEF Launched, Threads, Kinds
<1>2. pc["own"] = "network" /\ packet["data"] = "publish" /\ answered = {} /\ ret = "subscribe"
  BY DEF Launched, Threads
<1>3. /\ pc \in [Threads -> OwnPlaces \cup DataPlaces] /\ pc["data"] = "idle"
      /\ packet \in [Threads -> Kinds]
  BY DEF Launched, Threads, OwnPlaces, DataPlaces, Kinds
<1>4. topic \in 1 .. Topics + 1 /\ rc \in Int
  BY SessionAssumption DEF Launched
<1>5. TypeOK
  BY <1>1, <1>2, <1>3, <1>4 DEF Launched, TypeOK, OwnPlaces, DataPlaces
<1>6. Core
  BY <1>1, <1>2 DEF Core, at, Asking, ReadyMeansJoined, InLoop
<1> QED
  BY <1>5, <1>6 DEF SInv

LEMMA InitInv == Init => SInv
  BY LaunchedInv, SessionAssumption DEF Init

LEMMA KilledInv == SInv /\ Killed => SInv'
<1> SUFFICES ASSUME SInv, Killed PROVE SInv'
  OBVIOUS
<1>1. (keepalive \in BOOLEAN)' /\ (faults \in 0 .. MaxFaults)' /\ Launched'
  BY DEF SInv, TypeOK, Killed, Launched, Threads
<1> QED
  BY <1>1, LaunchedInv, PTL

(* What comes in stays a sequence of codes.                                   *)
LEMMA Codes ==
  /\ <<>> \in Seq(Nat)
  /\ \A s \in Seq(Nat) : \A n \in Nat : Append(s, n) \in Seq(Nat)
  /\ \A s \in Seq(Nat) : s # <<>> => Tail(s) \in Seq(Nat) /\ Head(s) \in Nat
  /\ \A n : Append(<<>>, n) = <<n>> /\ Head(<<n>>) = n
  OBVIOUS

(* An answer that is alone.                                                   *)
LEMMA OneCode ==
  ASSUME NEW n PROVE Head(<<n>>) = n /\ Tail(<<n>>) = <<>>
<1>1. <<n>> \in Seq({n}) /\ Len(<<n>>) = 1 /\ <<n>> # <<>>
  OBVIOUS
<1>2. Tail(<<n>>) \in Seq({n}) /\ Len(Tail(<<n>>)) = 0
  BY <1>1, HeadTailProperties
<1> QED
  BY <1>2, EmptySeq

(* What sending changes at the broker.                                        *)
LEMMA SendEffect ==
  ASSUME TypeOK, NEW t \in Threads, NEW sent \in BOOLEAN, SendPacket(t, sent),
         packet[t] = "subscribe" => topic <= Topics
  PROVE  /\ inbound' \in Seq(Nat) /\ open' \in BOOLEAN /\ granted' \subseteq 1 .. Topics
         /\ link' \in {"none", "up", "silent", "unacked", "broken"} /\ faults' \in 0 .. MaxFaults
         /\ packet[t] = "publish" => inbound' = inbound
         /\ packet[t] = "connect" /\ inbound = <<>>
              => inbound' = <<>> \/ \E c \in {0} \cup Refusals : inbound' = <<c>>
<1> USE DEF Fault, NoFault, brokerVars
<1>a. /\ inbound \in Seq(Nat) /\ open \in BOOLEAN /\ granted \subseteq 1 .. Topics
      /\ link \in {"none", "up", "silent", "unacked", "broken"} /\ faults \in 0 .. MaxFaults
      /\ MaxFaults \in Nat /\ Topics \in Nat /\ topic \in 1 .. Topics + 1
      /\ Refusals \subseteq Nat
  BY SessionAssumption DEF TypeOK
<1>b. Fault \/ NoFault => faults' \in 0 .. MaxFaults
  BY <1>a
<1>1. CASE BrokerTakes(packet[t]) /\ UNCHANGED link
  <2>1. CASE packet[t] = "connect"
    <3>1. PICK code \in {0} \cup Refusals : inbound' = Append(inbound, code)
      BY <1>1, <2>1 DEF BrokerTakes
    <3>2. open' = TRUE /\ granted' = granted /\ (Fault \/ NoFault)
      BY <1>1, <2>1 DEF BrokerTakes
    <3>3. inbound' \in Seq(Nat)
      BY <1>a, <3>1, Codes
    <3>4. inbound = <<>> => inbound' = <<code>>
      BY <3>1, Codes
    <3> QED
      BY <1>1, <1>a, <1>b, <2>1, <3>2, <3>3, <3>4
  <2>2. CASE packet[t] = "subscribe"
    <3>1. PICK code \in {0, Refused} : inbound' = Append(inbound, code)
      BY <1>1, <2>2 DEF BrokerTakes
    <3>2. open' = open /\ granted' \in {granted, granted \cup {topic}} /\ NoFault
      BY <1>1, <2>2 DEF BrokerTakes
    <3>3. inbound' \in Seq(Nat)
      BY <1>a, <3>1, Codes DEF Refused
    <3>4. topic \in 1 .. Topics
      BY <1>a, <2>2
    <3> QED
      BY <1>1, <1>a, <1>b, <2>2, <3>2, <3>3, <3>4
  <2>3. CASE packet[t] = "ping"
    <3>1. inbound' = Append(inbound, 0) /\ UNCHANGED <<open, granted>> /\ NoFault
      BY <1>1, <2>3 DEF BrokerTakes
    <3> QED
      BY <1>1, <1>a, <1>b, <2>3, <3>1, Codes
  <2>4. CASE packet[t] \in {"publish", "disconnect"}
    <3>1. UNCHANGED brokerVars /\ NoFault
      BY <1>1, <2>4 DEF BrokerTakes
    <3> QED
      BY <1>1, <1>a, <1>b, <2>4, <3>1
  <2> QED
    BY <1>1, <2>1, <2>2, <2>3, <2>4 DEF BrokerTakes
<1>2. CASE UNCHANGED brokerVars /\ link' \in {"none", "up", "silent", "unacked", "broken"}
           /\ (Fault \/ NoFault)
  BY <1>2, <1>a, <1>b
<1> QED
  BY <1>1, <1>2, <1>a DEF SendPacket

(* Every step keeps the types.                                                *)
LEMMA StepTyped == SInv /\ [Next]_vars => TypeOK'
<1> SUFFICES ASSUME SInv, [Next]_vars PROVE TypeOK'
  OBVIOUS
<1>31. CASE Killed
  BY <1>31, KilledInv DEF SInv
<1> USE SessionAssumption
    DEF SInv, Core, TypeOK, OwnPlaces, DataPlaces, at, Asking, Threads, Kinds, Goto, brokerVars,
        clientVars, ownVars, Fault, NoFault
<1>1. CASE NetworkConnect
  BY <1>1 DEF NetworkConnect
<1>2. CASE ClientInit
  BY <1>2 DEF ClientInit
<1>3. CASE Connect
  BY <1>3 DEF Connect, Serialise
<1>4. CASE OwnSend
  <2> PICK sent \in BOOLEAN : SendPacket("own", sent)
    BY <1>4 DEF OwnSend
  <2>1. pc["own"] = "send"
    BY DEF SendPacket
  <2>2. /\ inbound' \in Seq(Nat) /\ open' \in BOOLEAN /\ granted' \subseteq 1 .. Topics
        /\ link' \in {"none", "up", "silent", "unacked", "broken"} /\ faults' \in 0 .. MaxFaults
    BY <2>1, SendEffect
  <2> USE <2>1, <2>2
  <2>3. CASE packet["own"] = "connect"
    BY <1>4, <2>3 DEF OwnSend, CallFails, Result, NextTopic
  <2>4. CASE packet["own"] = "subscribe"
    BY <1>4, <2>4 DEF OwnSend, CallFails, Result, NextTopic
  <2>5. CASE packet["own"] = "disconnect"
    BY <1>4, <2>5 DEF OwnSend
  <2>6. CASE packet["own"] \in {"publish", "ping"}
    <3>1. \/ pc' = [pc EXCEPT !["own"] = "work"] /\ ret' = ret
          \/ pc' = [pc EXCEPT !["own"] = "close"] /\ ret' = "work"
      BY <1>4, <2>6 DEF OwnSend
    <3>2. ping' \in BOOLEAN /\ rc' = rc /\ topic' = topic
      BY <1>4, <2>6 DEF OwnSend
    <3>3. UNCHANGED <<keepalive, isconnected, cleansession, handlers, buf, packet, answered,
                      stale, torn>>
      BY <1>4 DEF OwnSend
    <3> QED
      BY <3>1, <3>2, <3>3
  <2> QED
    BY <2>3, <2>4, <2>5, <2>6
<1>5. CASE Connack
  <2>1. inbound' \in Seq(Nat) /\ Head(inbound) \in Nat
    BY <1>5, Codes DEF Connack
  <2>2. rc' \in Int /\ topic' \in 1 .. Topics + 1
    BY <1>5, <2>1 DEF Connack, Result, NextTopic
  <2>3. answered' \subseteq 0 .. Topics
    BY <1>5 DEF Connack
  <2> QED
    BY <1>5, <2>1, <2>2, <2>3 DEF Connack
<1>29. CASE Suback
  <2>1. inbound' \in Seq(Nat)
    BY <1>29, Codes DEF Suback
  <2>2. topic \in 1 .. Topics /\ rc' \in Int /\ topic' \in 1 .. Topics + 1
    BY <1>29 DEF Suback, Result, NextTopic
  <2>3. answered' \subseteq 0 .. Topics /\ handlers' \subseteq 1 .. Topics
    BY <1>29, <2>2 DEF Suback, Handled
  <2> QED
    BY <1>29, <2>1, <2>2, <2>3 DEF Suback
<1>6. CASE NoAnswer
  BY <1>6 DEF NoAnswer, CallFails, Result, NextTopic
<1>7. CASE Subscribe
  BY <1>7 DEF Subscribe, Serialise
<1>8. CASE Subscribed
  BY <1>8 DEF Subscribed
<1>9. CASE Disconnect
  BY <1>9 DEF Disconnect, Serialise
<1>10. CASE NetworkDisconnect
  BY <1>10, Codes DEF NetworkDisconnect
<1>11. CASE Loop
  BY <1>11 DEF Loop
<1>12. CASE Leave
  BY <1>12 DEF Leave
<1>13. CASE YieldRead
  <2>1. inbound' \in Seq(Nat)
    BY <1>13, Codes DEF YieldRead
  <2> QED
    BY <1>13, <2>1 DEF YieldRead
<1>14. CASE YieldNothing
  BY <1>14 DEF YieldNothing
<1>15. CASE YieldFails
  BY <1>15 DEF YieldFails
<1>16. CASE NotDue
  BY <1>16 DEF NotDue
<1>17. CASE Due
  BY <1>17 DEF Due, Serialise
<1>18. CASE OwnPublish
  BY <1>18 DEF OwnPublish, Serialise
<1>19. CASE RoundDone
  BY <1>19 DEF RoundDone
<1>20. CASE CloseSession("own")
  BY <1>20 DEF CloseSession
<1>21. CASE CleanSession("own")
  BY <1>21 DEF CleanSession
<1>22. CASE DataCheck
  BY <1>22 DEF DataCheck
<1>23. CASE DataSerialise
  BY <1>23 DEF DataSerialise, Serialise
<1>24. CASE DataSend
  <2> PICK sent \in BOOLEAN : /\ SendPacket("data", sent)
                              /\ Goto("data", IF sent THEN "idle" ELSE "close")
    BY <1>24 DEF DataSend
  <2>1. /\ inbound' \in Seq(Nat) /\ open' \in BOOLEAN /\ granted' \subseteq 1 .. Topics
        /\ link' \in {"none", "up", "silent", "unacked", "broken"} /\ faults' \in 0 .. MaxFaults
    BY SendEffect
  <2> QED
    BY <1>24, <2>1 DEF DataSend
<1>25. CASE CloseSession("data")
  <2>1. faults' \in 0 .. MaxFaults
    BY <1>25 DEF CloseSession
  <2>2. pc' \in [Threads -> OwnPlaces \cup DataPlaces] /\ pc'["own"] \in OwnPlaces
        /\ pc'["data"] \in DataPlaces
    BY <1>25 DEF CloseSession
  <2> QED
    BY <1>25, <2>1, <2>2 DEF CloseSession
<1>26. CASE CleanSession("data")
  BY <1>26 DEF CleanSession
<1>27. CASE FallSilent
  BY <1>27 DEF FallSilent
<1>28. CASE Break
  BY <1>28 DEF Break
<1>30. CASE UNCHANGED vars
  BY <1>30 DEF vars
<1> QED
  BY <1>1, <1>2, <1>3, <1>4, <1>5, <1>6, <1>7, <1>8, <1>9, <1>10, <1>11, <1>12, <1>13, <1>14,
     <1>15, <1>16, <1>17, <1>18, <1>19, <1>20, <1>21, <1>22, <1>23, <1>24, <1>25, <1>26,
     <1>27, <1>28, <1>29, <1>30, <1>31 DEF Next, Own, DataMoves

(* Every step keeps the tally.                                                *)
LEMMA StepCore == SInv /\ [Next]_vars => Core'
<1> SUFFICES ASSUME SInv, [Next]_vars PROVE Core'
  OBVIOUS
<1>31. CASE Killed
  BY <1>31, KilledInv DEF SInv
<1> USE SessionAssumption
    DEF SInv, Core, TypeOK, OwnPlaces, DataPlaces, at, Asking, Tally, ReadyMeansJoined, InLoop,
        Threads, Kinds, Goto, brokerVars, clientVars, ownVars, Fault, NoFault
<1>1. CASE NetworkConnect
  BY <1>1 DEF NetworkConnect
<1>2. CASE ClientInit
  BY <1>2 DEF ClientInit
<1>3. CASE Connect
  BY <1>3 DEF Connect, Serialise
<1>4. CASE OwnSend
  <2> PICK sent \in BOOLEAN : SendPacket("own", sent)
    BY <1>4 DEF OwnSend
  <2>1. pc["own"] = "send"
    BY DEF SendPacket
  <2>2. packet["own"] = "connect"
          => inbound' = <<>> \/ \E c \in {0} \cup Refusals : inbound' = <<c>>
    BY <2>1, SendEffect
  <2> USE <2>1, <2>2
  <2>3. CASE packet["own"] = "connect"
    BY <1>4, <2>3 DEF OwnSend, CallFails, Result, NextTopic
  <2>4. CASE packet["own"] = "subscribe"
    BY <1>4, <2>4 DEF OwnSend, CallFails, Result, NextTopic
  <2>5. CASE packet["own"] = "disconnect"
    BY <1>4, <2>5 DEF OwnSend
  <2>6. CASE packet["own"] \in {"publish", "ping"}
    BY <1>4, <2>6 DEF OwnSend
  <2> QED
    BY <2>3, <2>4, <2>5, <2>6
<1>5. CASE Connack
  <2>1. PICK c \in {0} \cup Refusals : inbound = <<c>>
    BY <1>5 DEF Connack
  <2>2. Head(inbound) = c
    BY <2>1
  <2>3. pc'["own"] = "subscribe" /\ packet' = packet /\ rc' = c /\ topic' = 1
        /\ isconnected' = (isconnected \/ c = 0) /\ answered = {}
        /\ answered' = IF c = 0 THEN answered \cup {0} ELSE answered
    BY <1>5, <2>2 DEF Connack, Result, NextTopic
  <2>4. c # 0 => c + 1 <= Topics
    BY SessionAssumption
  <2>5. Tally'
    BY <2>3, <2>4, <1>5 DEF Connack
  <2> QED
    BY <2>3, <2>5
<1>29. CASE Suback
  <2>1. answered' = answered \cup {topic} /\ topic' = topic + 1 /\ rc' = rc
    BY <1>29 DEF Suback, Result, NextTopic
  <2>2. Tally'
    BY <1>29, <2>1 DEF Suback
  <2>3. pc'["own"] = "subscribe" /\ packet' = packet
    BY <1>29 DEF Suback
  <2> QED
    BY <2>2, <2>3
<1>6. CASE NoAnswer
  BY <1>6 DEF NoAnswer, CallFails, Result, NextTopic
<1>7. CASE Subscribe
  BY <1>7 DEF Subscribe, Serialise
<1>8. CASE Subscribed
  BY <1>8 DEF Subscribed
<1>9. CASE Disconnect
  BY <1>9 DEF Disconnect, Serialise
<1>10. CASE NetworkDisconnect
  BY <1>10 DEF NetworkDisconnect
<1>11. CASE Loop
  BY <1>11 DEF Loop
<1>12. CASE Leave
  BY <1>12 DEF Leave
<1>13. CASE YieldRead
  BY <1>13 DEF YieldRead
<1>14. CASE YieldNothing
  BY <1>14 DEF YieldNothing
<1>15. CASE YieldFails
  BY <1>15 DEF YieldFails
<1>16. CASE NotDue
  BY <1>16 DEF NotDue
<1>17. CASE Due
  BY <1>17 DEF Due, Serialise
<1>18. CASE OwnPublish
  BY <1>18 DEF OwnPublish, Serialise
<1>19. CASE RoundDone
  BY <1>19 DEF RoundDone
<1>20. CASE CloseSession("own")
  BY <1>20 DEF CloseSession
<1>21. CASE CleanSession("own")
  BY <1>21 DEF CleanSession
<1>22. CASE DataCheck
  BY <1>22 DEF DataCheck
<1>23. CASE DataSerialise
  BY <1>23 DEF DataSerialise, Serialise
<1>24. CASE DataSend
  BY <1>24 DEF DataSend, SendPacket, BrokerTakes, Intact
<1>25. CASE CloseSession("data")
  BY <1>25 DEF CloseSession
<1>26. CASE CleanSession("data")
  BY <1>26 DEF CleanSession
<1>27. CASE FallSilent
  BY <1>27 DEF FallSilent
<1>28. CASE Break
  BY <1>28 DEF Break
<1>30. CASE UNCHANGED vars
  BY <1>30 DEF vars
<1> QED
  BY <1>1, <1>2, <1>3, <1>4, <1>5, <1>6, <1>7, <1>8, <1>9, <1>10, <1>11, <1>12, <1>13, <1>14,
     <1>15, <1>16, <1>17, <1>18, <1>19, <1>20, <1>21, <1>22, <1>23, <1>24, <1>25, <1>26,
     <1>27, <1>28, <1>29, <1>30, <1>31 DEF Next, Own, DataMoves

LEMMA StepInv == SInv /\ [Next]_vars => SInv'
  BY StepTyped, StepCore DEF SInv


(* The variables of the session keep their types.                             *)
THEOREM SessionTyped == Spec => []TypeOK
<1>1. SInv => TypeOK
  BY DEF SInv, Core
<1> QED
  BY <1>1, InitInv, StepInv, PTL DEF Spec

(* out_mqtt_loop runs only on a connection the broker has accepted and on     *)
(* which it has answered every subscription (mqtt.c:243-275).                 *)
THEOREM LoopMeansJoined == Spec => []ReadyMeansJoined
<1>1. SInv => ReadyMeansJoined
  BY DEF SInv, Core
<1> QED
  BY <1>1, InitInv, StepInv, PTL DEF Spec

----------------------------------------------------------------------------
(* The handlers.  As long as the session is open and nobody tore it, what is *)
(* granted and has no handler is the topic whose answer is on its way.  A    *)
(* call that fails closes the session before the next one.                   *)
Heard ==
  /\ at \in {"network", "init", "connect"} \/ Asking("connect") => granted = {}
  /\ at = "connect" \/ Asking("connect") => handlers = {}
  /\ at = "clean" => ~isconnected
  /\ isconnected /\ ~torn =>
       /\ at = "subscribe" \/ (at = "send" /\ packet["own"] = "subscribe")
            => inbound = <<>> /\ handlers = granted
       /\ at = "await" /\ packet["own"] = "subscribe"
            => \/ inbound \in {<<>>, <<Refused>>} /\ handlers = granted
               \/ inbound = <<0>> /\ granted = handlers \cup {topic}
       /\ InLoop => handlers = granted

(* Every step keeps handlers and grants together.                            *)
LEMMA StepHeard == SInv /\ Heard /\ [Next]_vars => Heard'
<1> SUFFICES ASSUME SInv, Heard, [Next]_vars PROVE Heard'
  OBVIOUS
<1> USE DEF SInv, Core, TypeOK, Heard, OwnPlaces, DataPlaces, at, Asking, InLoop, Threads, Goto,
            brokerVars, clientVars, ownVars
<1>1. CASE NetworkConnect
  BY <1>1 DEF NetworkConnect
<1>2. CASE ClientInit
  BY <1>2 DEF ClientInit
<1>3. CASE Connect
  BY <1>3 DEF Connect, Serialise
<1>4. CASE OwnSend
  <2> PICK sent \in BOOLEAN : SendPacket("own", sent)
    BY <1>4 DEF OwnSend
  <2>1. pc["own"] = "send" /\ packet' = packet /\ UNCHANGED <<isconnected, torn, handlers>>
    BY <1>4 DEF SendPacket, OwnSend
  <2>2. CASE packet["own"] = "connect"
    <3>1. granted' = granted /\ pc'["own"] \in {"await", "subscribe"}
      BY <1>4, <2>2 DEF OwnSend, SendPacket, BrokerTakes, CallFails
    <3> QED
      BY <2>1, <2>2, <3>1
  <2>3. CASE packet["own"] = "subscribe"
    <3>1. \/ UNCHANGED <<granted, inbound>>
          \/ granted' = granted \cup {topic} /\ inbound' = Append(inbound, 0)
          \/ granted' = granted /\ inbound' = Append(inbound, Refused)
      BY <2>3 DEF SendPacket, BrokerTakes
    <3>2. \/ pc'["own"] = "await" /\ topic' = topic
          \/ pc'["own"] = "close" /\ ret' = "subscribe"
      BY <1>4, <2>3 DEF OwnSend, CallFails
    <3>3. Append(<<>>, 0) = <<0>> /\ Append(<<>>, Refused) = <<Refused>>
      BY Codes
    <3> QED
      BY <2>1, <2>3, <3>1, <3>2, <3>3
  <2>4. CASE packet["own"] \in {"disconnect", "publish", "ping"}
    <3>1. granted' = granted
      BY <2>4 DEF SendPacket, BrokerTakes
    <3>2. pc'["own"] \in {"work", "close"}
      BY <1>4, <2>4 DEF OwnSend
    <3>3. packet["own"] = "disconnect" => pc'["own"] = "close" /\ ret' = "hangup"
      BY <1>4, <2>4 DEF OwnSend
    <3> QED
      BY <2>1, <2>4, <3>1, <3>2, <3>3
  <2> QED
    BY <2>2, <2>3, <2>4 DEF Kinds
<1>5. CASE Connack
  <2>1. PICK c \in {0} \cup Refusals : inbound = <<c>>
    BY <1>5 DEF Connack
  <2>2. inbound' = <<>> /\ pc'["own"] = "subscribe" /\ UNCHANGED <<granted, handlers>>
    BY <1>5, <2>1, OneCode DEF Connack
  <2> QED
    BY <1>5, <2>2 DEF Connack
<1>6. CASE Suback
  <2>1. pc'["own"] = "subscribe" /\ UNCHANGED <<granted, isconnected, torn>>
    BY <1>6 DEF Suback
  <2>2. ASSUME isconnected, ~torn PROVE inbound' = <<>> /\ handlers' = granted
    <3>1. \/ inbound = <<0>> /\ granted = handlers \cup {topic}
          \/ inbound = <<Refused>> /\ granted = handlers
      BY <1>6, <2>2 DEF Suback
    <3>2. CASE inbound = <<0>> /\ granted = handlers \cup {topic}
      <4>1. Head(inbound) = 0 /\ Tail(inbound) = <<>>
        BY <3>2, OneCode
      <4> QED
        BY <1>6, <3>2, <4>1 DEF Suback, Handled, Refused
    <3>3. CASE inbound = <<Refused>> /\ granted = handlers
      <4>1. Head(inbound) = Refused /\ Tail(inbound) = <<>>
        BY <3>3, OneCode
      <4> QED
        BY <1>6, <3>3, <4>1 DEF Suback, Handled
    <3> QED
      BY <3>1, <3>2, <3>3
  <2> QED
    BY <2>1, <2>2
<1>7. CASE NoAnswer
  BY <1>7 DEF NoAnswer, CallFails, Result, NextTopic
<1>8. CASE Subscribe
  BY <1>8 DEF Subscribe, Serialise
<1>9. CASE Subscribed
  BY <1>9 DEF Subscribed
<1>10. CASE Disconnect
  BY <1>10 DEF Disconnect, Serialise
<1>11. CASE NetworkDisconnect
  BY <1>11 DEF NetworkDisconnect
<1>12. CASE Loop
  BY <1>12 DEF Loop
<1>13. CASE Leave
  BY <1>13 DEF Leave
<1>14. CASE YieldRead
  BY <1>14 DEF YieldRead
<1>15. CASE YieldNothing
  BY <1>15 DEF YieldNothing
<1>16. CASE YieldFails
  BY <1>16 DEF YieldFails
<1>17. CASE NotDue
  BY <1>17 DEF NotDue
<1>18. CASE Due
  BY <1>18 DEF Due, Serialise
<1>19. CASE OwnPublish
  BY <1>19 DEF OwnPublish, Serialise
<1>20. CASE RoundDone
  BY <1>20 DEF RoundDone
<1>21. CASE CloseSession("own")
  BY <1>21 DEF CloseSession
<1>22. CASE CleanSession("own")
  BY <1>22 DEF CleanSession
<1>23. CASE DataCheck
  BY <1>23 DEF DataCheck
<1>24. CASE DataSerialise
  BY <1>24 DEF DataSerialise, Serialise
<1>25. CASE DataSend
  <2>1. UNCHANGED <<granted, inbound>>
    BY <1>25 DEF DataSend, SendPacket, BrokerTakes
  <2> QED
    BY <1>25, <2>1 DEF DataSend
<1>26. CASE CloseSession("data")
  BY <1>26 DEF CloseSession
<1>27. CASE CleanSession("data")
  BY <1>27 DEF CleanSession
<1>28. CASE FallSilent
  BY <1>28 DEF FallSilent
<1>29. CASE Break
  BY <1>29 DEF Break
<1>30. CASE Killed
  BY <1>30 DEF Killed
<1>31. CASE UNCHANGED vars
  BY <1>31 DEF vars
<1> QED
  BY <1>1, <1>2, <1>3, <1>4, <1>5, <1>6, <1>7, <1>8, <1>9, <1>10, <1>11, <1>12, <1>13, <1>14,
     <1>15, <1>16, <1>17, <1>18, <1>19, <1>20, <1>21, <1>22, <1>23, <1>24, <1>25, <1>26,
     <1>27, <1>28, <1>29, <1>30, <1>31 DEF Next, Own, DataMoves

(* While its loop is connected, the client has a handler for the topics the  *)
(* broker grants (MQTTClient.c:250-253, 585-589).                            *)
THEOREM GrantedIsHeard == Spec => []HeardIfGranted
<1>1. Init => Heard
  BY DEF Init, Launched, Heard, at, Asking, InLoop
<1>2. Heard => HeardIfGranted
  BY DEF Heard, HeardIfGranted
<1> QED
  BY <1>1, <1>2, InitInv, StepInv, StepHeard, PTL DEF Spec

----------------------------------------------------------------------------
(* The first packet.  Between making a connection and sending CONNECT the    *)
(* client is offline, so that the data thread, unless it had found it online *)
(* before, does not come to write into the send buffer.                      *)
Early == at \in {"init", "connect"} \/ (at = "send" /\ packet["own"] = "connect")
Contact ==
  /\ at = "network" => link = "none"
  /\ link = "up" /\ ~open => Early
  /\ at \in {"network", "hangup", "clean"} \/ Early => ~isconnected
  /\ Early /\ ~stale => pc["data"] \in {"idle", "close", "clean"}
  /\ Early /\ ~stale /\ at = "send" => buf = <<"own", "connect">>

(* Every step keeps the buffer for CONNECT.                                  *)
LEMMA StepContact == SInv /\ Contact /\ [Next]_vars => Contact'
<1> SUFFICES ASSUME SInv, Contact, [Next]_vars PROVE Contact'
  OBVIOUS
<1> USE DEF SInv, Core, TypeOK, Contact, Early, OwnPlaces, DataPlaces, at, Asking, Threads, Goto,
            brokerVars, clientVars, ownVars
<1>1. CASE NetworkConnect
  BY <1>1 DEF NetworkConnect
<1>2. CASE ClientInit
  BY <1>2 DEF ClientInit
<1>3. CASE Connect
  BY <1>3 DEF Connect, Serialise
<1>4. CASE OwnSend
  <2> PICK sent \in BOOLEAN : SendPacket("own", sent)
    BY <1>4 DEF OwnSend
  <2>1. pc["own"] = "send" /\ UNCHANGED <<packet, buf, isconnected, stale>>
    BY <1>4 DEF SendPacket, OwnSend
  <2>2. pc'["own"] \in {"await", "subscribe", "close", "work"} /\ pc'["data"] = pc["data"]
    BY <1>4 DEF OwnSend, CallFails
  <2>3. link' = "up" => link = "up" /\ (open' \/ (packet["own"] # "connect" /\ open' = open))
    BY DEF SendPacket, BrokerTakes
  <2> QED
    BY <2>1, <2>2, <2>3
<1>5. CASE Connack
  BY <1>5 DEF Connack
<1>6. CASE Suback
  BY <1>6 DEF Suback
<1>7. CASE NoAnswer
  BY <1>7 DEF NoAnswer, CallFails, Result, NextTopic
<1>8. CASE Subscribe
  BY <1>8 DEF Subscribe, Serialise
<1>9. CASE Subscribed
  BY <1>9 DEF Subscribed
<1>10. CASE Disconnect
  BY <1>10 DEF Disconnect, Serialise
<1>11. CASE NetworkDisconnect
  BY <1>11 DEF NetworkDisconnect
<1>12. CASE Loop
  BY <1>12 DEF Loop
<1>13. CASE Leave
  BY <1>13 DEF Leave
<1>14. CASE YieldRead
  BY <1>14 DEF YieldRead
<1>15. CASE YieldNothing
  BY <1>15 DEF YieldNothing
<1>16. CASE YieldFails
  BY <1>16 DEF YieldFails
<1>17. CASE NotDue
  BY <1>17 DEF NotDue
<1>18. CASE Due
  BY <1>18 DEF Due, Serialise
<1>19. CASE OwnPublish
  BY <1>19 DEF OwnPublish, Serialise
<1>20. CASE RoundDone
  BY <1>20 DEF RoundDone
<1>21. CASE CloseSession("own")
  BY <1>21 DEF CloseSession
<1>22. CASE CleanSession("own")
  BY <1>22 DEF CleanSession
<1>23. CASE DataCheck
  BY <1>23 DEF DataCheck
<1>24. CASE DataSerialise
  BY <1>24 DEF DataSerialise, Serialise
<1>25. CASE DataSend
  <2> PICK sent \in BOOLEAN : SendPacket("data", sent)
    BY <1>25 DEF DataSend
  <2>1. pc["data"] = "send" /\ UNCHANGED <<packet, buf, isconnected, stale>> /\ pc'["own"] = pc["own"]
    BY <1>25 DEF DataSend, SendPacket
  <2>2. (link' = "up" => link = "up") /\ open' = open /\ (link = "none" => link' = "none")
    BY DEF SendPacket, BrokerTakes
  <2>3. Early => stale
    BY <2>1
  <2> QED
    BY <2>1, <2>2, <2>3
<1>26. CASE CloseSession("data")
  BY <1>26 DEF CloseSession
<1>27. CASE CleanSession("data")
  BY <1>27 DEF CleanSession
<1>28. CASE FallSilent
  BY <1>28 DEF FallSilent
<1>29. CASE Break
  BY <1>29 DEF Break
<1>30. CASE Killed
  BY <1>30 DEF Killed
<1>31. CASE UNCHANGED vars
  BY <1>31 DEF vars
<1> QED
  BY <1>1, <1>2, <1>3, <1>4, <1>5, <1>6, <1>7, <1>8, <1>9, <1>10, <1>11, <1>12, <1>13, <1>14,
     <1>15, <1>16, <1>17, <1>18, <1>19, <1>20, <1>21, <1>22, <1>23, <1>24, <1>25, <1>26,
     <1>27, <1>28, <1>29, <1>30, <1>31 DEF Next, Own, DataMoves

(* The first thing a broker sees of a connection is the CONNECT as it was    *)
(* made (MQTTClient.c:628-641).                                              *)
THEOREM ConnectComesFirst == Spec => FirstContact
<1> DEFINE First == \A t \in Threads :
              pc[t] = "send" /\ pc'[t] # "send" /\ link = "up" /\ ~open /\ ~stale
                => packet[t] = "connect" /\ buf = <<t, "connect">>
<1>1. Init => Contact
  BY DEF Init, Launched, Contact, Early, at
<1>2. Contact => First
  BY DEF Contact, Early, at, Threads
<1> HIDE DEF First
<1>3. Contact /\ [Next]_vars => [First]_vars
  BY <1>2
<1>4. Spec => [][First]_vars
  BY <1>1, <1>3, InitInv, StepInv, StepContact, PTL DEF Spec
<1> QED
  BY <1>4 DEF First, FirstContact
=============================================================================
