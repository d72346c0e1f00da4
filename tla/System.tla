------------------------------- MODULE System -------------------------------
(***************************************************************************)
(* The reporting path and the control path together, as the program runs   *)
(* them, with the broker between them:                                     *)
(*   - the publisher has subscribed to the topic it sends its stray        *)
(*     messages on, so the broker sends them back to the device as control *)
(*     messages;                                                           *)
(*   - a connection that is lost ends both paths;                          *)
(*   - the dispatcher writes a packet of port DTU2MQTPR into mqBuff: it    *)
(*     waits for the publisher's lock while it holds comBuff0.lock, and    *)
(*     signals the publisher.                                              *)
(* The actions are those of Uplink and Downlink; this module adds only     *)
(* what one of them does to the other.                                     *)
(***************************************************************************)
EXTENDS Integers, Sequences

CONSTANTS Base, MqCap, ComCap,
          TabLen, UpSentPeriod, BelongToOid, Text, UIntWidth, PubBufLen,
          MQTP_REPORT,
          Msg, RecvLen, MQTPC2DTU, DTU2MQTPR,
          EchoBound,    \* bound: stray messages the broker has under way
          ArriveBound   \* bound: messages that arrive at the device

ASSUME EchoAssumption == EchoBound \in Nat /\ ArriveBound \in Nat

VARIABLES mqBuf, packetSum, newPacket, cnt, row, pubPc, pkt, connected,
          subscribed, inflight, refused, truncated, overrun, out,
          comBuf, disp, head, slot, com, sent, treated, forwarded,
          comTruncated, slotOverrun, paced, spurious,
          returning,    \* the messages the broker sends back, in order
          written       \* history: a report was written since the last stray

U == INSTANCE Uplink WITH Cap <- MqCap
D == INSTANCE Downlink WITH Cap <- ComCap, truncated <- comTruncated,
                            overrun <- slotOverrun

\* What the two parts assume of their constants.
ASSUME PartsAssumption ==
  /\ U!BaseAssumption /\ U!CapAssumption /\ U!TableAssumption
  /\ U!WidthAssumption /\ U!PubBufAssumption /\ U!PortAssumption
  /\ D!CapAssumption /\ D!MsgAssumption /\ D!RecvAssumption
  /\ D!DownPortAssumption

upVars == <<mqBuf, packetSum, newPacket, cnt, row, pubPc, pkt, connected,
            subscribed, inflight, refused, truncated, overrun, out>>
downVars == <<comBuf, disp, head, slot, com, sent, treated, forwarded,
              comTruncated, slotOverrun, paced, spurious>>
vars == <<upVars, downVars, returning, written>>

Init == /\ U!Init /\ D!Init
        /\ returning = << >>
        /\ written = FALSE

-----------------------------------------------------------------------------
Sampler == /\ U!Sampler
           /\ written' = (written \/ packetSum' # packetSum)
           /\ UNCHANGED <<downVars, returning>>

\* A packet that is published on the topic the device has subscribed to.
IsStray(p) == U!Topic(p) = "control"

\* The broker sends what is published on the control topic to its subscriber,
\* or loses it.
Echo == \/ UNCHANGED returning
        \/ /\ U!Accepts /\ subscribed /\ IsStray(pkt)
           /\ Len(returning) < EchoBound
           /\ returning' = Append(returning, pkt.payload)

Publish == /\ U!Publish
           /\ Echo
           /\ written' = (written /\ ~IsStray(pkt))
           /\ UNCHANGED downVars

Publisher == \/ Publish
             \/ /\ U!Publisher /\ pubPc # "publish"
                /\ UNCHANGED <<downVars, returning, written>>

Delivered == U!Delivered /\ UNCHANGED <<downVars, returning, written>>

\* A session that is lost ends with what the broker had for it.
ConnectionLost == /\ U!ConnectionLost
                  /\ returning' = << >>
                  /\ UNCHANGED <<downVars, written>>

-----------------------------------------------------------------------------
\* The receive thread gets messages only through the subscription.
Receiving == connected /\ subscribed /\ Len(sent) < ArriveBound

ServerSends == /\ Receiving
               /\ D!Broker
               /\ UNCHANGED <<upVars, returning, written>>

EchoArrives == /\ Receiving /\ returning # << >>
               /\ D!Msgarrvd(Head(returning))
               /\ returning' = Tail(returning)
               /\ UNCHANGED <<upVars, written>>

\* A slip: the dispatcher does not wait for the publisher's lock.
ForwardUnlocked ==
  /\ D!Forward
  /\ mqBuf' = U!WritePacket(mqBuf, forwarded', DTU2MQTPR)
  /\ truncated' = (truncated \/ ~U!Fits(mqBuf, forwarded'))
  /\ pubPc' = "woken"
  /\ UNCHANGED <<packetSum, newPacket, cnt, row, pkt, connected, subscribed,
                 inflight, refused, overrun, out, returning, written>>

\* The case DTU2MQTPR of AP_circleBuff_ReadPacketData, with its other side.
Forward ==
  /\ D!Forward
  /\ U!MqLockFree
  /\ mqBuf' = U!WritePacket(mqBuf, forwarded', DTU2MQTPR)
  /\ truncated' = (truncated \/ ~U!Fits(mqBuf, forwarded'))
  /\ pubPc' = IF pubPc = "wait" THEN "woken" ELSE pubPc
  /\ UNCHANGED <<packetSum, newPacket, cnt, row, pkt, connected, subscribed,
                 inflight, refused, overrun, out, returning, written>>

Dispatcher == \/ Forward
              \/ /\ D!Dispatcher /\ disp # "forward"
                 /\ UNCHANGED <<upVars, returning, written>>

ComThread == D!ComThread /\ UNCHANGED <<upVars, returning, written>>

\* Any of the three waits returns without a signal.
SpuriousWakeup ==
  /\ UNCHANGED <<returning, written>>
  /\ \/ D!SpuriousWakeup /\ UNCHANGED upVars
     \/ /\ U!SpuriousWakeup
        /\ spurious' = TRUE
        /\ UNCHANGED <<comBuf, disp, head, slot, com, sent, treated, forwarded,
                       comTruncated, slotOverrun, paced>>

Next == \/ Sampler \/ Publisher \/ Delivered \/ ConnectionLost
        \/ ServerSends \/ EchoArrives
        \/ Dispatcher \/ ComThread
        \/ SpuriousWakeup

Spec == Init /\ [][Next]_vars

-----------------------------------------------------------------------------
\* No control message was cut short or written past RecvBuff4treat.data.
ComIntact == ~comTruncated /\ ~slotOverrun

\* No packet of either buffer was cut short either.
Whole == ~truncated /\ ComIntact

\* mqttPubThread and msgarrvd share the control topic.  Nothing the device sends
\* on it comes back as a message of the server: what comThread treats is one of
\* the server's, whole, or empty.
ControlIsServers ==
  Whole => /\ out.topic = "control" => out.payload = << >>
           /\ {sent[n] : n \in DOMAIN sent} \subseteq Msg \cup {<< >>}
           /\ treated \in Msg \cup {<< >>}

\* sampleDataThread and mqttPubThread: a signal can find its packet taken
\* already, and the publisher then sends an empty message; but each such message
\* costs a report, so that the echoes do not breed.
StrayNeedsReport ==
  [][Whole /\ ~spurious /\ pubPc = "publish" /\ pubPc' # "publish" /\ IsStray(pkt)
       => written]_vars

\* AP_circleBuff_ReadPacketData: until a control message is cut short, or overruns
\* RecvBuff4treat, the dispatcher leaves mqBuff alone, and the reporting path is
\* that of Uplink.
ImplementsUplink == [][ComIntact' => [U!Next]_upVars]_vars

\* The threads use their locks as module Locks says, also after a message was cut
\* short; one that overruns RecvBuff4treat may leave its lock in any state.
L == INSTANCE Locks WITH pub <- pubPc
ImplementsLocks == L!Init /\ [][~slotOverrun' => [L!Next]_(L!vars)]_vars
=============================================================================
