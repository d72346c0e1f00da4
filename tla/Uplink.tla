------------------------------- MODULE Uplink -------------------------------
(***************************************************************************)
(* The reporting path: sampleDataThread (sample.c) writes one packet per   *)
(* report that is due into mqBuff and mqttPubThread (mqtt-pub.c) takes     *)
(* them out and publishes them through the MQTT client library.            *)
(*                                                                         *)
(* mqBuff is the byte queue that CircleBuff implements, read and written   *)
(* with the packet layout of module Packet.  A critical section of         *)
(* mqBuff.lock that cannot block is one step; the publisher keeps the      *)
(* mutex while it is inside MQTTClient_publish.                            *)
(***************************************************************************)
EXTENDS Packet, FiniteSets

CONSTANTS TabLen,        \* g_tabLen
          UpSentPeriod,  \* g_devDataTab[i].upSentPeriod
          BelongToOid,   \* g_devDataTab[i].belongToOid
          Text,          \* the JSON text getJson(i) forms, as bytes
          UIntWidth,     \* the values of an unsigned int: 2^32
          PubBufLen,     \* the size of pubBuf: 1500
          MQTP_REPORT    \* the port of a report packet: 4

Row == 0 .. TabLen - 1

ASSUME TableAssumption ==
  /\ TabLen \in Nat
  /\ UpSentPeriod \in [Row -> Nat]
  /\ BelongToOid \in [Row -> Nat]
  /\ Text \in [Row -> Seq(Octet)]
\* The packets that mqBuff has room for can be counted.
ASSUME WidthAssumption == UIntWidth \in Nat \ {0} /\ Cap < HeaderLen * UIntWidth

\* formJsonPacket keeps the text in str, which is as long as pubBuf; a table
\* that makes a longer text is outside this model.
ASSUME PubBufAssumption ==
  /\ PubBufLen \in 1 .. Base * Base
  /\ \A i \in Row : Len(Text[i]) < PubBufLen
ASSUME PortAssumption == MQTP_REPORT \in 1 .. Base * Base - 1

VARIABLES mqBuf,       \* mqBuff.data between readPos and writePos
          packetSum,   \* mqBuff.packetSum
          newPacket,   \* sMqNewpacketFlag
          cnt,         \* g_reportTimeCnt
          row,         \* the row the report loop is at; TabLen + 1 outside it
          pubPc,       \* where mqttPubThread is
          pkt,         \* mqBuff.mqttTopicFlag and pubBuf, as last read
          connected,   \* the client is connected to the broker
          subscribed,  \* the broker has this session subscribed to control
          inflight,    \* the client has a message that is not acknowledged
          refused,     \* history: this session's subscription has failed
          truncated,   \* history: a packet did not fit and was cut short
          overrun,     \* history: a packet longer than pubBuf was read
          out          \* history: the last message the client accepted

bufVars == <<mqBuf, packetSum>>
sampleVars == <<newPacket, cnt, row>>
linkVars == <<connected, subscribed, inflight, refused>>
historyVars == <<truncated, overrun, out>>
vars == <<mqBuf, packetSum, newPacket, cnt, row, pubPc, pkt, connected,
          subscribed, inflight, refused, truncated, overrun, out>>

NoPacket == [port |-> 0, payload |-> << >>]

\* Only the publisher keeps mqBuff.lock across a step.
MqLockFree == pubPc # "publish"

-----------------------------------------------------------------------------
(***************************************************************************)
(* sampleDataThread.                                                       *)
(***************************************************************************)
\* dataReport_treat: a row with a period is reported when the period divides
\* the counter; rows that belong to an oid above 10 are never reported alone.
Due(i, c) == /\ UpSentPeriod[i] # 0
             /\ c % UpSentPeriod[i] = 0
             /\ BelongToOid[i] <= 10

DueRows == {i \in Row : i >= row /\ Due(i, cnt)}

\* The head of the loop: the counter advances and the values are sampled.
Sample == /\ row = TabLen + 1
          /\ cnt' = (cnt + 10) % UIntWidth
          /\ row' = 0
          /\ UNCHANGED <<bufVars, newPacket, pubPc, pkt, linkVars, historyVars>>

\* A slip: the publisher is not told of the new packet.
FormJsonPacketNoFlag(i) ==
  /\ i \in DueRows /\ \A j \in DueRows : i <= j
  /\ MqLockFree
  /\ row' = i + 1
  /\ mqBuf' = WritePacket(mqBuf, Text[i], MQTP_REPORT)
  /\ packetSum' = (packetSum + 1) % UIntWidth
  /\ truncated' = (truncated \/ ~Fits(mqBuf, Text[i]))
  /\ UNCHANGED <<newPacket, cnt, pubPc, pkt, linkVars, overrun, out>>

\* formJsonPacket for the next row that is due, in one critical section.
\* An empty text is not written (getJson forms none, the test is the code's).
FormJsonPacket(i) ==
  /\ i \in DueRows /\ \A j \in DueRows : i <= j
  /\ MqLockFree
  /\ row' = i + 1
  /\ \/ /\ Len(Text[i]) > 0
        /\ mqBuf' = WritePacket(mqBuf, Text[i], MQTP_REPORT)
        /\ packetSum' = (packetSum + 1) % UIntWidth
        /\ newPacket' = TRUE
        /\ truncated' = (truncated \/ ~Fits(mqBuf, Text[i]))
     \/ /\ Len(Text[i]) = 0
        /\ UNCHANGED <<mqBuf, packetSum, newPacket, truncated>>
  /\ UNCHANGED <<cnt, pubPc, pkt, linkVars, overrun, out>>

\* A slip: sMqNewpacketFlag is not reset.
SignalPublisherKeepsFlag ==
  /\ row <= TabLen /\ DueRows = {}
  /\ MqLockFree
  /\ row' = TabLen + 1
  /\ pubPc' = IF newPacket /\ pubPc = "wait" THEN "woken" ELSE pubPc
  /\ UNCHANGED <<bufVars, newPacket, cnt, pkt, linkVars, historyVars>>

\* After the loop: the publisher is signalled once for all new packets.
\* A signal nobody waits for is lost.
SignalPublisher ==
  /\ row <= TabLen /\ DueRows = {}
  /\ MqLockFree
  /\ row' = TabLen + 1
  /\ newPacket' = FALSE
  /\ pubPc' = IF newPacket /\ pubPc = "wait" THEN "woken" ELSE pubPc
  /\ UNCHANGED <<bufVars, cnt, pkt, linkVars, historyVars>>

-----------------------------------------------------------------------------
(***************************************************************************)
(* mqttPubThread.                                                          *)
(***************************************************************************)
\* MQTTClient_connect may fail; a clean session starts without subscriptions
\* and without messages of the session before.
Connect(next) ==
  /\ connected' \in BOOLEAN
  /\ subscribed' = FALSE
  /\ refused' = FALSE
  /\ inflight' = (inflight /\ ~connected')
  /\ pubPc' = IF connected' THEN "subscribe" ELSE next
  /\ UNCHANGED <<bufVars, sampleVars, pkt, historyVars>>

\* At the start the thread subscribes whether or not it is connected.
FirstConnect == pubPc = "start" /\ Connect("subscribe")

\* A slip: a new session is not subscribed again.
ReconnectOnly ==
  /\ pubPc = "connect"
  /\ connected' \in BOOLEAN
  /\ subscribed' = FALSE
  /\ refused' = FALSE
  /\ inflight' = (inflight /\ ~connected')
  /\ pubPc' = "check"
  /\ UNCHANGED <<bufVars, sampleVars, pkt, historyVars>>

\* Later it subscribes again after each successful connect.
Reconnect == pubPc = "connect" /\ Connect("check")

\* MQTTClient_subscribe: without a connection it fails, with one it may, and
\* its return code is ignored.
Subscribe ==
  /\ pubPc = "subscribe"
  /\ subscribed' \in {FALSE, connected}
  /\ refused' = (connected /\ ~subscribed')
  /\ pubPc' = "check"
  /\ UNCHANGED <<bufVars, sampleVars, pkt, connected, inflight, historyVars>>

CheckConnected ==
  /\ pubPc = "check"
  /\ pubPc' = IF connected THEN "lock" ELSE "connect"
  /\ UNCHANGED <<bufVars, sampleVars, pkt, linkVars, historyVars>>

\* A slip: the count goes down even when it is zero.
ReadPacketNoFloor ==
  /\ pkt' = HeadPacket(mqBuf)
  /\ mqBuf' = AfterHead(mqBuf)
  /\ packetSum' = (packetSum - 1) % UIntWidth
  /\ overrun' = (overrun \/ HeadLen(mqBuf) >= PubBufLen)
  /\ pubPc' = "publish"
  /\ UNCHANGED <<sampleVars, linkVars, truncated, out>>

\* The packet at the head of the buffer goes to pubBuf, whatever is there.
ReadPacket ==
  /\ pkt' = HeadPacket(mqBuf)
  /\ mqBuf' = AfterHead(mqBuf)
  /\ packetSum' = IF packetSum > 0 THEN packetSum - 1 ELSE 0
  /\ overrun' = (overrun \/ HeadLen(mqBuf) >= PubBufLen)
  /\ pubPc' = "publish"
  /\ UNCHANGED <<sampleVars, linkVars, truncated, out>>

\* pthread_cond_wait gives the mutex back while the thread waits.
WaitForPacket ==
  /\ pubPc = "lock" /\ packetSum = 0
  /\ pubPc' = "wait"
  /\ UNCHANGED <<bufVars, sampleVars, pkt, linkVars, historyVars>>

TakePacket == pubPc = "lock" /\ packetSum # 0 /\ ReadPacket

\* The count is tested before the wait (if), not after it.
TakeAfterWait == pubPc = "woken" /\ ReadPacket

\* pthread_cond_wait may return without a signal.
SpuriousWakeup ==
  /\ pubPc = "wait"
  /\ pubPc' = "woken"
  /\ UNCHANGED <<bufVars, sampleVars, pkt, linkVars, historyVars>>

\* A slip: the two topics are exchanged.
TopicSwapped(p) == IF p.port = MQTP_REPORT THEN "control" ELSE "report"

Topic(p) == IF p.port = MQTP_REPORT THEN "report" ELSE "control"

\* A slip: the client is taken for one that sends several messages at a time.
AcceptsMore == connected

\* conn_opts.reliable: the client takes one message at a time.
Accepts == connected /\ ~inflight

\* The return code of MQTTClient_publish is ignored: a packet that the client
\* does not accept is gone.
Publish ==
  /\ pubPc = "publish"
  /\ \/ /\ Accepts
        /\ out' = [topic |-> Topic(pkt), payload |-> pkt.payload]
        /\ inflight' = TRUE
     \/ ~Accepts /\ UNCHANGED <<out, inflight>>
  /\ pubPc' = "complete"
  /\ UNCHANGED <<bufVars, sampleVars, pkt, connected, subscribed, refused,
                 truncated, overrun>>

\* The broker's acknowledgement, which calls delivered: at any time.
Delivered ==
  /\ connected /\ inflight
  /\ inflight' = FALSE
  /\ UNCHANGED <<bufVars, sampleVars, pubPc, pkt, connected, subscribed,
                 refused, historyVars>>

\* MQTTClient_waitForCompletion returns when the message is acknowledged, when
\* there is none to wait for, or after TIMEOUT with the message unfinished.
WaitForCompletion ==
  /\ pubPc = "complete"
  /\ pubPc' = "check"
  /\ UNCHANGED <<bufVars, sampleVars, pkt, linkVars, historyVars>>

\* The network: connlost only reports the loss.
ConnectionLost ==
  /\ connected
  /\ connected' = FALSE
  /\ subscribed' = FALSE
  /\ UNCHANGED <<bufVars, sampleVars, pubPc, pkt, inflight, refused,
                 historyVars>>

-----------------------------------------------------------------------------
Init == /\ mqBuf = << >>
        /\ packetSum = 0
        /\ newPacket = FALSE
        /\ cnt = 0
        /\ row = TabLen + 1
        /\ pubPc = "start"
        /\ pkt = NoPacket
        /\ connected = FALSE
        /\ subscribed = FALSE
        /\ inflight = FALSE
        /\ refused = FALSE
        /\ truncated = FALSE
        /\ overrun = FALSE
        /\ out = [topic |-> "none", payload |-> << >>]

Sampler == \/ Sample
           \/ \E i \in Row : FormJsonPacket(i)
           \/ SignalPublisher

Publisher == \/ FirstConnect
             \/ Reconnect
             \/ Subscribe
             \/ CheckConnected
             \/ WaitForPacket
             \/ TakePacket
             \/ TakeAfterWait
             \/ Publish
             \/ WaitForCompletion

Network == Delivered \/ ConnectionLost

Next == Sampler \/ Publisher \/ SpuriousWakeup \/ Network

Spec == Init /\ [][Next]_vars

\* A thread that can run does run.  A broker that is tried again and again in
\* the end accepts the connection.
Fairness == /\ WF_vars(Sampler)
            /\ WF_vars(Publisher)
            /\ SF_vars(Reconnect /\ connected')

FairSpec == Spec /\ Fairness

-----------------------------------------------------------------------------
PubPc == {"start", "connect", "subscribe", "check", "lock", "wait", "woken",
          "publish", "complete"}

(***************************************************************************)
(* The buffer never holds more than Cap bytes, the counters stay unsigned, *)
(* and the threads are at one of their steps.                              *)
(***************************************************************************)
TypeOK == /\ mqBuf \in Seq(Octet) /\ Len(mqBuf) <= Cap
          /\ packetSum \in 0 .. UIntWidth - 1
          /\ newPacket \in BOOLEAN
          /\ cnt \in 0 .. UIntWidth - 1
          /\ row \in 0 .. TabLen + 1
          /\ pubPc \in PubPc
          /\ pkt \in [port : 0 .. Base * Base - 1, payload : Seq(Octet)]
          /\ connected \in BOOLEAN
          /\ subscribed \in BOOLEAN
          /\ inflight \in BOOLEAN
          /\ refused \in BOOLEAN
          /\ truncated \in BOOLEAN
          /\ overrun \in BOOLEAN
          /\ out \in [topic : {"none", "report", "control"},
                      payload : Seq(Octet)]

(***************************************************************************)
(* No wake-up is lost: while the publisher waits with packets counted, the *)
(* sampler still has a signal to give, and it has not left its loop.       *)
(***************************************************************************)
SignalPending == pubPc = "wait" /\ packetSum > 0 => newPacket /\ row <= TabLen

(***************************************************************************)
(* The publisher reports through a session that does not receive control   *)
(* messages only when the subscription of this very session failed: no     *)
(* reconnect skips it, a failure in an earlier session does not outlast    *)
(* it, and a broker that drops the connection between connect and          *)
(* subscribe is noticed.                                                   *)
(***************************************************************************)
SubscribedUnlessRefused ==
  connected /\ pubPc \notin {"start", "subscribe"} => subscribed \/ refused
=============================================================================
