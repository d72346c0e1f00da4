---------------------------- MODULE UplinkProofs ----------------------------
(***************************************************************************)
(* Proofs about the reporting path, for any table, any buffer size and any *)
(* width of its counters.                                                  *)
(***************************************************************************)
EXTENDS UplinkProperties, PacketProofs

LEMMA Constants ==
  /\ TabLen \in Nat
  /\ \A i \in Row : i \in 0 .. TabLen - 1 /\ Text[i] \in Seq(Octet)
  /\ UIntWidth \in Nat \ {0}
  /\ MQTP_REPORT \in Nat
<1>1. MQTP_REPORT \in Nat
  BY PortAssumption, BaseAssumption
<1> QED
  BY <1>1, TableAssumption, WidthAssumption DEF Row

LEMMA Wraps ==
  ASSUME NEW n \in Nat
  PROVE  n % UIntWidth \in 0 .. UIntWidth - 1
BY WidthAssumption

LEMMA NoWrap ==
  ASSUME NEW n \in Nat, n < UIntWidth
  PROVE  n % UIntWidth = n
BY WidthAssumption

-----------------------------------------------------------------------------
(***************************************************************************)
(* Type correctness.                                                       *)
(***************************************************************************)
LEMMA InitTyped == Init => TypeOK
<1> SUFFICES ASSUME Init
             PROVE  TypeOK
  OBVIOUS
<1>1. << >> \in Seq(Octet) /\ Len(<< >>) = 0
  BY EmptySeq
<1>2. pkt \in [port : 0 .. Base * Base - 1, payload : Seq(Octet)]
  <2>1. 0 \in 0 .. Base * Base - 1
    BY PortAssumption, BaseAssumption
  <2>2. pkt = [port |-> 0, payload |-> << >>]
    BY DEF Init, NoPacket
  <2> QED
    BY <1>1, <2>1, <2>2
<1>3. out \in [topic : {"none", "report", "control"}, payload : Seq(Octet)]
  BY <1>1 DEF Init
<1>4. /\ packetSum \in 0 .. UIntWidth - 1
      /\ cnt \in 0 .. UIntWidth - 1
      /\ row \in 0 .. TabLen + 1
  BY Constants DEF Init
<1>5. mqBuf \in Seq(Octet) /\ Len(mqBuf) <= Cap
  BY <1>1, CapAssumption DEF Init
<1>6. /\ newPacket \in BOOLEAN /\ connected \in BOOLEAN
      /\ subscribed \in BOOLEAN /\ inflight \in BOOLEAN
      /\ refused \in BOOLEAN /\ truncated \in BOOLEAN
      /\ overrun \in BOOLEAN /\ pubPc \in PubPc
  BY DEF Init, PubPc
<1> QED
  BY <1>2, <1>3, <1>4, <1>5, <1>6 DEF TypeOK

LEMMA ReadPacketTyped ==
  ASSUME TypeOK, ReadPacket
  PROVE  TypeOK'
<1>1. /\ pkt' \in [port : 0 .. Base * Base - 1, payload : Seq(Octet)]
      /\ mqBuf' \in Seq(Octet) /\ Len(mqBuf') <= Cap
  BY HeadIsPacket DEF TypeOK, ReadPacket
<1>2. packetSum' \in 0 .. UIntWidth - 1
  BY Constants DEF TypeOK, ReadPacket
<1>3. overrun' \in BOOLEAN
  BY DEF TypeOK, ReadPacket
<1> QED
  BY <1>1, <1>2, <1>3 DEF TypeOK, ReadPacket, PubPc, sampleVars, linkVars

LEMMA SamplerTyped ==
  ASSUME TypeOK, Sampler
  PROVE  TypeOK'
<1>1. CASE Sample
  <2>1. cnt' \in 0 .. UIntWidth - 1
    <3>1. cnt + 10 \in Nat
      BY Constants DEF TypeOK
    <3> QED
      BY <1>1, <3>1, Wraps DEF Sample
  <2>2. row' \in 0 .. TabLen + 1
    BY <1>1, Constants DEF Sample
  <2> QED
    BY <1>1, <2>1, <2>2
       DEF TypeOK, Sample, bufVars, linkVars, historyVars
<1>2. ASSUME NEW i \in Row, FormJsonPacket(i)
      PROVE  TypeOK'
  <2>1. row' \in 0 .. TabLen + 1
    BY <1>2, Constants DEF FormJsonPacket
  <2>2. CASE Len(Text[i]) > 0
    <3>1. mqBuf' \in Seq(Octet) /\ Len(mqBuf') <= Cap
      BY <1>2, <2>2, Constants, WritePacketFits DEF TypeOK, FormJsonPacket
    <3>2. packetSum' \in 0 .. UIntWidth - 1
      <4>1. packetSum + 1 \in Nat
        BY Constants DEF TypeOK
      <4> QED
        BY <1>2, <2>2, <4>1, Wraps DEF FormJsonPacket
    <3>3. newPacket' \in BOOLEAN /\ truncated' \in BOOLEAN
      BY <1>2, <2>2 DEF TypeOK, FormJsonPacket
    <3> QED
      BY <1>2, <2>1, <3>1, <3>2, <3>3 DEF TypeOK, FormJsonPacket, linkVars
  <2>3. CASE ~(Len(Text[i]) > 0)
    BY <1>2, <2>1, <2>3 DEF TypeOK, FormJsonPacket, linkVars
  <2> QED
    BY <2>2, <2>3
<1>3. CASE SignalPublisher
  <2>1. pubPc' \in PubPc
    BY <1>3 DEF TypeOK, SignalPublisher, PubPc
  <2>2. row' \in 0 .. TabLen + 1
    BY <1>3, Constants DEF SignalPublisher
  <2> QED
    BY <1>3, <2>1, <2>2
       DEF TypeOK, SignalPublisher, bufVars, linkVars, historyVars
<1> QED
  BY <1>1, <1>2, <1>3 DEF Sampler

LEMMA PublisherTyped ==
  ASSUME TypeOK, Publisher
  PROVE  TypeOK'
<1>1. CASE FirstConnect
  BY <1>1 DEF TypeOK, FirstConnect, Connect, bufVars, sampleVars, historyVars,
              PubPc
<1>2. CASE Reconnect
  BY <1>2 DEF TypeOK, Reconnect, Connect, bufVars, sampleVars, historyVars,
              PubPc
<1>3. CASE Subscribe
  BY <1>3 DEF TypeOK, Subscribe, bufVars, sampleVars, historyVars, PubPc
<1>4. CASE CheckConnected
  BY <1>4 DEF TypeOK, CheckConnected, bufVars, sampleVars, linkVars,
              historyVars, PubPc
<1>5. CASE WaitForPacket
  BY <1>5 DEF TypeOK, WaitForPacket, bufVars, sampleVars, linkVars,
              historyVars, PubPc
<1>6. CASE TakePacket \/ TakeAfterWait
  BY <1>6, ReadPacketTyped DEF TakePacket, TakeAfterWait
<1>7. CASE Publish
  <2>1. Topic(pkt) \in {"none", "report", "control"}
    BY DEF Topic
  <2>2. out' \in [topic : {"none", "report", "control"},
                  payload : Seq(Octet)]
    BY <1>7, <2>1 DEF TypeOK, Publish
  <2>3. inflight' \in BOOLEAN
    BY <1>7 DEF TypeOK, Publish
  <2> QED
    BY <1>7, <2>2, <2>3 DEF TypeOK, Publish, bufVars, sampleVars, PubPc
<1>8. CASE WaitForCompletion
  BY <1>8 DEF TypeOK, WaitForCompletion, bufVars, sampleVars, linkVars,
              historyVars, PubPc
<1> QED
  BY <1>1, <1>2, <1>3, <1>4, <1>5, <1>6, <1>7, <1>8 DEF Publisher

LEMMA NextTyped == TypeOK /\ [Next]_vars => TypeOK'
<1> SUFFICES ASSUME TypeOK, [Next]_vars
             PROVE  TypeOK'
  OBVIOUS
<1>1. CASE Sampler
  BY <1>1, SamplerTyped
<1>2. CASE Publisher
  BY <1>2, PublisherTyped
<1>3. CASE SpuriousWakeup
  BY <1>3 DEF TypeOK, SpuriousWakeup, bufVars, sampleVars, linkVars,
              historyVars, PubPc
<1>4. CASE Network
  BY <1>4 DEF TypeOK, Network, Delivered, ConnectionLost, bufVars, sampleVars,
              historyVars
<1>5. CASE UNCHANGED vars
  BY <1>5 DEF TypeOK, vars
<1> QED
  BY <1>1, <1>2, <1>3, <1>4, <1>5 DEF Next

(***************************************************************************)
(* Whatever the table and however often the buffer overflows, it stays a   *)
(* sequence of at most Cap bytes and the counters stay unsigned ints.      *)
(***************************************************************************)
THEOREM UplinkTypeCorrect == Spec => []TypeOK
BY InitTyped, NextTyped, PTL DEF Spec

-----------------------------------------------------------------------------
(***************************************************************************)
(* No lost wake-up.                                                        *)
(***************************************************************************)
LEMMA SignalPendingStep ==
  ASSUME TypeOK, SignalPending, [Next]_vars
  PROVE  SignalPending'
<1>1. CASE Sample
  BY <1>1, Constants DEF TypeOK, SignalPending, Sample, bufVars
<1>2. ASSUME NEW i \in Row, FormJsonPacket(i)
      PROVE  SignalPending'
  <2>1. row' <= TabLen
    BY <1>2, Constants DEF FormJsonPacket
  <2>2. pubPc' = pubPc /\ \/ newPacket' = TRUE
                          \/ packetSum' = packetSum /\ newPacket' = newPacket
    BY <1>2 DEF FormJsonPacket
  <2> QED
    BY <2>1, <2>2 DEF SignalPending
<1>3. CASE SignalPublisher
  <2>1. packetSum' = packetSum
    BY <1>3 DEF SignalPublisher, bufVars
  <2>2. pubPc' = "wait" => pubPc = "wait" /\ ~newPacket
    BY <1>3 DEF SignalPublisher
  <2> QED
    BY <2>1, <2>2 DEF SignalPending
<1>4. CASE WaitForPacket
  BY <1>4 DEF WaitForPacket, bufVars, SignalPending
<1>5. CASE \/ FirstConnect \/ Reconnect \/ Subscribe \/ CheckConnected
           \/ TakePacket \/ TakeAfterWait \/ Publish \/ WaitForCompletion
           \/ SpuriousWakeup
  <2>1. pubPc' # "wait"
    BY <1>5 DEF FirstConnect, Reconnect, Connect, Subscribe, CheckConnected,
                TakePacket, TakeAfterWait, ReadPacket, Publish,
                WaitForCompletion, SpuriousWakeup
  <2> QED
    BY <2>1 DEF SignalPending
<1>6. CASE Network \/ UNCHANGED vars
  BY <1>6 DEF Network, Delivered, ConnectionLost, bufVars, sampleVars, vars,
              SignalPending
<1> QED
  BY <1>1, <1>2, <1>3, <1>4, <1>5, <1>6 DEF Next, Sampler, Publisher

(***************************************************************************)
(* The publisher never sleeps on packets nobody will signal: the flag      *)
(* raised in formJsonPacket and the signal at the end of the cycle, two    *)
(* critical sections apart, together lose no wake-up.                      *)
(***************************************************************************)
THEOREM NoLostWakeup == Spec => []SignalPending
<1>1. Init => SignalPending
  BY DEF Init, SignalPending
<1>2. TypeOK /\ SignalPending /\ [Next]_vars => SignalPending'
  BY SignalPendingStep
<1> QED
  BY <1>1, <1>2, UplinkTypeCorrect, PTL DEF Spec

-----------------------------------------------------------------------------
(***************************************************************************)
(* The subscription.                                                       *)
(***************************************************************************)
LEMMA SubscribedStep ==
  ASSUME SubscribedUnlessRefused, [Next]_vars
  PROVE  SubscribedUnlessRefused'
<1>1. CASE Sampler
  <2>1. UNCHANGED <<connected, subscribed, refused>>
    BY <1>1 DEF Sampler, Sample, FormJsonPacket, SignalPublisher, linkVars
  <2>2. pubPc' = pubPc \/ pubPc = "wait"
    BY <1>1 DEF Sampler, Sample, FormJsonPacket, SignalPublisher
  <2> QED
    BY <2>1, <2>2 DEF SubscribedUnlessRefused
<1>2. CASE FirstConnect \/ Reconnect
  <2>1. connected' => pubPc' = "subscribe"
    BY <1>2 DEF FirstConnect, Reconnect, Connect
  <2> QED
    BY <2>1 DEF SubscribedUnlessRefused
<1>3. CASE Subscribe
  BY <1>3 DEF Subscribe, SubscribedUnlessRefused
<1>4. CASE \/ CheckConnected \/ WaitForPacket \/ TakePacket \/ TakeAfterWait
           \/ Publish \/ WaitForCompletion \/ SpuriousWakeup
  <2>1. UNCHANGED <<connected, subscribed, refused>>
    BY <1>4 DEF CheckConnected, WaitForPacket, TakePacket, TakeAfterWait,
                ReadPacket, Publish, WaitForCompletion, SpuriousWakeup, linkVars
  <2>2. pubPc \notin {"start", "subscribe"}
    BY <1>4 DEF CheckConnected, WaitForPacket, TakePacket, TakeAfterWait,
                Publish, WaitForCompletion, SpuriousWakeup
  <2> QED
    BY <2>1, <2>2 DEF SubscribedUnlessRefused
<1>5. CASE Network \/ UNCHANGED vars
  BY <1>5 DEF Network, Delivered, ConnectionLost, vars, SubscribedUnlessRefused
<1> QED
  BY <1>1, <1>2, <1>3, <1>4, <1>5 DEF Next, Publisher

(***************************************************************************)
(* Through any sequence of lost connections, failed and successful         *)
(* connects and failed and successful subscriptions: the publisher reports *)
(* in a session without the control subscription only when the broker      *)
(* refused it to this very session.                                        *)
(***************************************************************************)
THEOREM SubscriptionFollowsSession == Spec => []SubscribedUnlessRefused
<1>1. Init => SubscribedUnlessRefused
  BY DEF Init, SubscribedUnlessRefused
<1>2. SubscribedUnlessRefused /\ [Next]_vars => SubscribedUnlessRefused'
  BY SubscribedStep
<1> QED
  BY <1>1, <1>2, PTL DEF Spec

-----------------------------------------------------------------------------
(***************************************************************************)
(* The packets of mqBuff.                                                  *)
(***************************************************************************)
LEMMA TextFacts ==
  /\ Texts \subseteq Seq(Octet)
  /\ \A t \in Texts : Len(t) < PubBufLen /\ Len(t) < Base * Base
  /\ \A i \in Row : Text[i] \in Texts
  /\ MQTP_REPORT \in 0 .. Base * Base - 1 /\ MQTP_REPORT # 0
<1>1. Base * Base \in Nat
  BY BaseAssumption
<1>2. ASSUME NEW i \in Row
      PROVE  Len(Text[i]) < PubBufLen /\ Len(Text[i]) < Base * Base
  <2>1. Len(Text[i]) \in Nat
    BY Constants, LenProperties
  <2> QED
    BY <1>1, <1>2, <2>1, PubBufAssumption
<1>3. \A t \in Texts : \E i \in Row : t = Text[i]
  BY DEF Texts
<1>4. \A i \in Row : Text[i] \in Texts
  BY DEF Texts
<1> QED
  BY <1>1, <1>2, <1>3, <1>4, Constants, PortAssumption

\* What the publisher finds when it reads while no packet was cut short.
PubBufFilled ==
  pubPc = "publish" /\ ~truncated =>
    \/ pkt.port = MQTP_REPORT /\ pkt.payload \in Texts
    \/ pkt = NoPacket /\ mqBuf = << >>

\* The inductive invariant: while no packet was cut short the bytes of mqBuff
\* are packets, as many as counted, and pubBuf has one of them or is empty.
Framed == PacketSumCounts /\ PubBufSuffices /\ PubBufFilled

LEMMA ReadNothing ==
  HeadPacket(<< >>) = NoPacket /\ AfterHead(<< >>) = << >> /\ HeadLen(<< >>) = 0
<1>1. Len(<< >>) = 0 /\ << >> \in Seq(Octet)
  BY EmptySeq
<1>2. PeekByte(<< >>, 1) = 0 /\ PeekByte(<< >>, 2) = 0
      /\ PeekByte(<< >>, 3) = 0 /\ PeekByte(<< >>, 4) = 0
  BY <1>1 DEF PeekByte
<1>3. Word(0, 0) = 0
  BY BaseAssumption DEF Word
<1>4. HeadPort(<< >>) = 0 /\ HeadLen(<< >>) = 0
  BY <1>2, <1>3 DEF HeadPort, HeadLen
<1>5. HeadPayload(<< >>) = << >>
  BY <1>4 DEF HeadPayload, PeekBytes
<1>6. AfterHead(<< >>) = << >>
  BY <1>1, <1>4, SubSeqEmpty DEF AfterHead, DropBytes, HeaderLen
<1> QED
  BY <1>4, <1>5, <1>6 DEF HeadPacket, NoPacket

LEMMA ReadPacketFramed ==
  ASSUME TypeOK, Framed, ReadPacket, pubPc = "lock" => packetSum # 0
  PROVE  Framed'
<1> SUFFICES ASSUME ~truncated
             PROVE  /\ HoldsOnly(mqBuf', MQTP_REPORT, Texts)
                    /\ packetSum' = Len(Packets[mqBuf'])
                    /\ ~overrun'
                    /\ PubBufFilled'
  BY DEF Framed, PacketSumCounts, PubBufSuffices, PubBufFilled, ReadPacket,
         HoldsOnly
<1>1. /\ HoldsOnly(mqBuf, MQTP_REPORT, Texts)
      /\ packetSum = Len(Packets[mqBuf])
      /\ ~overrun
  BY DEF Framed, PacketSumCounts, PubBufSuffices
<1>2. CASE mqBuf = << >>
  <2>1. mqBuf' = << >> /\ pkt' = NoPacket
    BY <1>2, ReadNothing DEF ReadPacket
  <2>2. packetSum' = 0 /\ Len(Packets[<< >>]) = 0
    <3>1. Len(Packets[<< >>]) = 0
      BY NoPackets, EmptySeq
    <3> QED
      BY <1>1, <1>2, <3>1 DEF ReadPacket
  <2>3. ~overrun'
    <3>1. ~(HeadLen(mqBuf) >= PubBufLen)
      BY <1>2, ReadNothing, PubBufAssumption, BaseAssumption
    <3> QED
      BY <1>1, <3>1, Zenon DEF ReadPacket
  <2>4. HoldsOnly(<< >>, MQTP_REPORT, Texts)
    BY HoldsNothing
  <2> QED
    BY <2>1, <2>2, <2>3, <2>4 DEF PubBufFilled
<1>3. CASE mqBuf # << >>
  <2>1. /\ HeadPort(mqBuf) = MQTP_REPORT
        /\ HeadPayload(mqBuf) \in Texts
        /\ HoldsOnly(AfterHead(mqBuf), MQTP_REPORT, Texts)
    BY <1>1, <1>3, HoldsOnlyHead DEF TypeOK
  <2>2. /\ Len(Packets[mqBuf]) = Len(Packets[AfterHead(mqBuf)]) + 1
        /\ Len(Packets[AfterHead(mqBuf)]) \in Nat
    BY <1>3, PacketsCons, PacketsTyped, HeadOfBuffer DEF TypeOK
  <2>3. packetSum' = Len(Packets[AfterHead(mqBuf)])
    BY <1>1, <2>2 DEF ReadPacket
  <2>4. HeadLen(mqBuf) < PubBufLen
    <3>1. HeadLen(mqBuf) \in Nat
      BY HeadOfBuffer, BaseAssumption DEF TypeOK
    <3>2. Len(HeadPayload(mqBuf)) = HeadLen(mqBuf)
      BY <3>1 DEF HeadPayload, PeekBytes
    <3> QED
      BY <2>1, <3>2, TextFacts
  <2>5. ~overrun'
    <3>1. HeadLen(mqBuf) \in Nat /\ PubBufLen \in Int
      BY HeadOfBuffer, BaseAssumption, PubBufAssumption DEF TypeOK
    <3>2. ~(HeadLen(mqBuf) >= PubBufLen)
      BY <2>4, <3>1
    <3> QED
      BY <1>1, <3>2, Zenon DEF ReadPacket
  <2>6. pkt'.port = MQTP_REPORT /\ pkt'.payload \in Texts
    BY <2>1 DEF ReadPacket, HeadPacket
  <2> QED
    BY <2>1, <2>3, <2>5, <2>6 DEF ReadPacket, PubBufFilled
<1> QED
  BY <1>2, <1>3

LEMMA FormJsonPacketFramed ==
  ASSUME TypeOK, Framed, NEW i \in Row, FormJsonPacket(i)
  PROVE  Framed'
<1>1. pubPc # "publish" /\ pubPc' = pubPc /\ overrun' = overrun
  BY DEF FormJsonPacket, MqLockFree
<1>2. CASE Len(Text[i]) > 0
  <2> SUFFICES ASSUME ~truncated'
               PROVE  /\ HoldsOnly(mqBuf', MQTP_REPORT, Texts)
                      /\ packetSum' = Len(Packets[mqBuf'])
                      /\ ~overrun'
    BY <1>1 DEF Framed, PacketSumCounts, PubBufSuffices, PubBufFilled, HoldsOnly
  <2>1. /\ mqBuf' = WritePacket(mqBuf, Text[i], MQTP_REPORT)
        /\ packetSum' = (packetSum + 1) % UIntWidth
        /\ ~truncated /\ Fits(mqBuf, Text[i])
    <3>1. /\ mqBuf' = WritePacket(mqBuf, Text[i], MQTP_REPORT)
          /\ packetSum' = (packetSum + 1) % UIntWidth
          /\ truncated' = (truncated \/ ~Fits(mqBuf, Text[i]))
      BY <1>2 DEF FormJsonPacket
    <3> QED
      BY <3>1, Zenon
  <2>2. /\ HoldsOnly(mqBuf, MQTP_REPORT, Texts)
        /\ packetSum = Len(Packets[mqBuf])
        /\ ~overrun
    BY <2>1 DEF Framed, PacketSumCounts, PubBufSuffices
  <2>3. /\ Text[i] \in Seq(Octet) /\ Text[i] \in Texts
        /\ Len(Text[i]) < Base * Base
        /\ MQTP_REPORT \in 0 .. Base * Base - 1
    BY TextFacts
  <2>4. HoldsOnly(mqBuf', MQTP_REPORT, Texts)
    BY <2>1, <2>2, <2>3, HoldsOnlyWrite DEF TypeOK
  <2>5. mqBuf' \in Seq(Octet) /\ Len(mqBuf') <= Cap /\ Len(mqBuf') \in Nat
    BY <2>1, <2>3, Constants, WritePacketFits, LenProperties DEF TypeOK
  <2>6. Len(Packets[mqBuf']) = Len(Packets[mqBuf]) + 1
    <3> DEFINE e == [port |-> MQTP_REPORT, payload |-> Text[i], whole |-> TRUE]
    <3>1. Packets[mqBuf'] = Append(Packets[mqBuf], e)
      BY <2>1, <2>2, <2>3, HoldsOnlyWhole, WritePacketAdds DEF TypeOK
    <3>2. e \in PacketSet /\ Packets[mqBuf] \in Seq(PacketSet)
      BY <2>3, PacketsTyped DEF PacketSet, TypeOK
    <3> HIDE DEF e
    <3> QED
      BY <3>1, <3>2, AppendProperties
  <2>7. HeaderLen * Len(Packets[mqBuf']) <= Len(mqBuf')
    BY <2>4, <2>5, HoldsOnlyWhole, PacketsBounded
  <2>8. packetSum + 1 < UIntWidth
    <3>1. 4 * (packetSum + 1) < 4 * UIntWidth
      BY <2>2, <2>5, <2>6, <2>7, CapAssumption, WidthAssumption
         DEF TypeOK, HeaderLen
    <3> QED
      BY <3>1, WidthAssumption DEF TypeOK
  <2>9. packetSum' = packetSum + 1
    BY <2>1, <2>8, NoWrap DEF TypeOK
  <2> QED
    BY <1>1, <2>2, <2>4, <2>6, <2>9
<1>3. CASE Len(Text[i]) = 0
  BY <1>1, <1>3
     DEF FormJsonPacket, Framed, PacketSumCounts, PubBufSuffices, PubBufFilled,
         HoldsOnly
<1> QED
  BY <1>2, <1>3 DEF FormJsonPacket

LEMMA FramedStep ==
  ASSUME TypeOK, Framed, [Next]_vars
  PROVE  Framed'
<1> USE DEF Framed, PacketSumCounts, PubBufSuffices, PubBufFilled, HoldsOnly
<1>1. CASE TakePacket \/ TakeAfterWait
  BY <1>1, ReadPacketFramed DEF TakePacket, TakeAfterWait
<1>2. ASSUME NEW i \in Row, FormJsonPacket(i)
      PROVE  Framed'
  BY <1>2, FormJsonPacketFramed
<1>3. CASE \/ Sample \/ SignalPublisher
           \/ FirstConnect \/ Reconnect \/ Subscribe \/ CheckConnected
           \/ WaitForPacket \/ Publish \/ WaitForCompletion
           \/ SpuriousWakeup \/ Network \/ UNCHANGED vars
  <2>1. /\ mqBuf' = mqBuf /\ packetSum' = packetSum /\ pkt' = pkt
        /\ truncated' = truncated /\ overrun' = overrun
    BY <1>3 DEF Sample, SignalPublisher, FirstConnect, Reconnect, Connect,
                Subscribe, CheckConnected, WaitForPacket, Publish,
                WaitForCompletion, SpuriousWakeup, Network, Delivered,
                ConnectionLost, vars, bufVars, historyVars
  <2>2. pubPc' = "publish" => pubPc = "publish"
    BY <1>3 DEF Sample, SignalPublisher, FirstConnect, Reconnect, Connect,
                Subscribe, CheckConnected, WaitForPacket, Publish,
                WaitForCompletion, SpuriousWakeup, Network, Delivered,
                ConnectionLost, vars
  <2> QED
    BY <2>1, <2>2
<1> QED
  BY <1>1, <1>2, <1>3 DEF Next, Sampler, Publisher

LEMMA FramedAlways == Spec => []Framed
<1>1. Init => Framed
  <2>1. HoldsOnly(<< >>, MQTP_REPORT, Texts) /\ Len(Packets[<< >>]) = 0
    BY HoldsNothing, NoPackets, EmptySeq
  <2> QED
    BY <2>1 DEF Init, Framed, PacketSumCounts, PubBufSuffices, PubBufFilled
<1>2. TypeOK /\ Framed /\ [Next]_vars => Framed'
  BY FramedStep
<1> QED
  BY <1>1, <1>2, UplinkTypeCorrect, PTL DEF Spec

(***************************************************************************)
(* However the two threads interleave, and whether the publisher was       *)
(* signalled or woke up by itself: until formJsonPacket overfills mqBuff,  *)
(* packetSum is the number of packets in it, and its bytes are packets of  *)
(* the report port with one of the table's texts and nothing else.         *)
(***************************************************************************)
THEOREM PacketSumIsNumberOfPackets == Spec => []PacketSumCounts
<1>1. Framed => PacketSumCounts
  BY DEF Framed
<1> QED
  BY <1>1, FramedAlways, PTL

(***************************************************************************)
(* mqttPubThread never writes behind pubBuf unless a packet was cut short. *)
(***************************************************************************)
THEOREM PubBufNotOverrun == Spec => []PubBufSuffices
<1>1. Framed => PubBufSuffices
  BY DEF Framed
<1> QED
  BY <1>1, FramedAlways, PTL

-----------------------------------------------------------------------------
(***************************************************************************)
(* The reporting path implements the report queue.                         *)
(***************************************************************************)
ReportsQueued == IF truncated THEN << >> ELSE InPubBuf \o Payloads(mqBuf)

LEMMA QueueUnchanged ==
  ASSUME mqBuf' = mqBuf, pkt' = pkt, truncated' = truncated,
         pubPc' = "publish" <=> pubPc = "publish"
  PROVE  ReportsQueued' = ReportsQueued
<1>1. InPubBuf' = InPubBuf /\ Payloads(mqBuf)' = Payloads(mqBuf)
  BY DEF InPubBuf, Payloads
<1> QED
  BY <1>1 DEF ReportsQueued

LEMMA TakeKeepsQueue ==
  ASSUME TypeOK, Framed, ReadPacket, pubPc # "publish"
  PROVE  ReportsQueued' = ReportsQueued
<1>1. CASE truncated
  BY <1>1 DEF ReadPacket, ReportsQueued
<1>2. CASE ~truncated
  <2>1. ReportsQueued = Payloads(mqBuf)
    <3>1. Payloads(mqBuf) \in Seq(Seq(Octet))
      BY PayloadsTyped DEF TypeOK
    <3> QED
      BY <1>2, <3>1, ConcatEmptySeq DEF ReportsQueued, InPubBuf
  <2>2. ReportsQueued' = InPubBuf' \o Payloads(AfterHead(mqBuf))
    BY <1>2 DEF ReadPacket, ReportsQueued, Payloads
  <2>3. CASE mqBuf = << >>
    <3>1. InPubBuf' = << >>
      <4>1. pkt'.port = 0 /\ MQTP_REPORT # 0
        BY <2>3, ReadNothing, TextFacts DEF ReadPacket, NoPacket
      <4> QED
        BY <4>1 DEF InPubBuf
    <3>2. AfterHead(mqBuf) = << >>
      BY <2>3, ReadNothing
    <3>3. << >> \o << >> = << >>
      BY EmptySeq, ConcatEmptySeq
    <3> QED
      BY <2>1, <2>2, <2>3, <3>1, <3>2, <3>3, NoPayloads
  <2>4. CASE mqBuf # << >>
    <3>1. HeadPort(mqBuf) = MQTP_REPORT
      BY <1>2, <2>4, HoldsOnlyHead DEF TypeOK, Framed, PacketSumCounts
    <3>2. InPubBuf' = <<HeadPayload(mqBuf)>>
      BY <3>1 DEF ReadPacket, HeadPacket, InPubBuf
    <3> QED
      BY <2>1, <2>2, <2>4, <3>2, PayloadsCons DEF TypeOK
  <2> QED
    BY <2>3, <2>4
<1> QED
  BY <1>1, <1>2

LEMMA FormJsonPacketAdds ==
  ASSUME TypeOK, Framed, NEW i \in Row, FormJsonPacket(i),
         Len(Text[i]) > 0, ~truncated'
  PROVE  ReportsQueued' = Append(ReportsQueued, Text[i])
<1>1. /\ pubPc # "publish" /\ pubPc' # "publish"
      /\ mqBuf' = WritePacket(mqBuf, Text[i], MQTP_REPORT)
      /\ truncated' = (truncated \/ ~Fits(mqBuf, Text[i]))
  BY DEF FormJsonPacket, MqLockFree
<1>2. ~truncated /\ Fits(mqBuf, Text[i])
  BY <1>1, Zenon
<1>3. AllWhole(mqBuf)
  BY <1>2, HoldsOnlyWhole DEF Framed, PacketSumCounts
<1>4. /\ Text[i] \in Seq(Octet) /\ Len(Text[i]) < Base * Base
      /\ MQTP_REPORT \in 0 .. Base * Base - 1
  BY TextFacts
<1>5. Payloads(mqBuf') = Append(Payloads(mqBuf), Text[i])
  BY <1>1, <1>2, <1>3, <1>4, WritePacketAddsPayload DEF TypeOK
<1>6. Payloads(mqBuf) \in Seq(Seq(Octet)) /\ Payloads(mqBuf') \in Seq(Seq(Octet))
  <2>1. mqBuf' \in Seq(Octet)
    BY <1>1, <1>4, Constants, WritePacketFits DEF TypeOK
  <2> QED
    BY <2>1, PayloadsTyped DEF TypeOK
<1>7. ReportsQueued = Payloads(mqBuf)
  BY <1>1, <1>2, <1>6, ConcatEmptySeq DEF ReportsQueued, InPubBuf
<1>8. ReportsQueued' = << >> \o Payloads(mqBuf')
  BY <1>1 DEF ReportsQueued, InPubBuf, Payloads
<1> QED
  BY <1>5, <1>6, <1>7, <1>8, ConcatEmptySeq

LEMMA PublishTakesHead ==
  ASSUME TypeOK, Framed, Publish, ~truncated
  PROVE  IF pkt.port = MQTP_REPORT
         THEN /\ ReportsQueued # << >>
              /\ pkt.payload = Head(ReportsQueued)
              /\ ReportsQueued' = Tail(ReportsQueued)
         ELSE /\ pkt.payload = << >>
              /\ ReportsQueued = << >>
              /\ ReportsQueued' = ReportsQueued
<1> DEFINE p == Payloads(mqBuf)
           h == pkt.payload
           f == <<h>>
<1>1. /\ pubPc = "publish" /\ pubPc' # "publish"
      /\ mqBuf' = mqBuf /\ truncated' = truncated
  BY DEF Publish, bufVars
<1>2. p \in Seq(Seq(Octet)) /\ pkt.payload \in Seq(Octet)
  BY PayloadsTyped DEF TypeOK
<1>3. ReportsQueued' = << >> \o p
  BY <1>1 DEF ReportsQueued, InPubBuf, Payloads
<1>4. << >> \o p = p
  BY <1>2, ConcatEmptySeq
<1>5. CASE pkt.port = MQTP_REPORT
  <2>1. ReportsQueued = f \o p
    BY <1>1, <1>5 DEF ReportsQueued, InPubBuf
  <2>2. /\ f \o p # << >>
        /\ pkt.payload = Head(f \o p)
        /\ p = Tail(f \o p)
    <3> DEFINE V == Seq(Octet)
    <3>1. p \in Seq(V) /\ h \in V
      BY <1>2
    <3> HIDE DEF p, h, V
    <3>2. /\ f \o p \in Seq(V)
          /\ Len(f \o p) = Len(p) + 1
          /\ (f \o p)[1] = h
          /\ \A k \in 1 .. Len(p) : (f \o p)[k + 1] = p[k]
      BY <3>1, ConsProperties
    <3> HIDE DEF f
    <3>3. Len(p) \in Nat
      BY <3>1, LenProperties
    <3>4. f \o p # << >>
      BY <3>2, <3>3, EmptySeq
    <3>5. Head(f \o p) = h
      BY <3>1, <3>2, <3>3, <3>4
    <3>6. /\ Tail(f \o p) \in Seq(V)
          /\ Len(Tail(f \o p)) = Len(p)
          /\ \A k \in 1 .. Len(p) : Tail(f \o p)[k] = (f \o p)[k + 1]
      BY <3>2, <3>3, <3>4, HeadTailProperties
    <3>7. \A k \in 1 .. Len(p) : Tail(f \o p)[k] = p[k]
      BY <3>2, <3>3, <3>6
    <3>8. p = Tail(f \o p)
      BY <3>1, <3>6, <3>7, SeqEqual
    <3> QED
      BY <3>4, <3>5, <3>8 DEF h
  <2> QED
    BY <1>3, <1>4, <1>5, <2>1, <2>2
<1>6. CASE pkt.port # MQTP_REPORT
  <2>1. pkt = NoPacket /\ mqBuf = << >>
    BY <1>1, <1>6 DEF Framed, PubBufFilled
  <2>2. p = << >> /\ << >> \o << >> = << >>
    BY <2>1, NoPayloads, EmptySeq, ConcatEmptySeq
  <2>3. ReportsQueued = << >>
    BY <1>1, <1>6, <2>2 DEF ReportsQueued, InPubBuf
  <2> QED
    BY <1>3, <1>6, <2>1, <2>2, <2>3 DEF NoPacket
<1> QED
  BY <1>5, <1>6

\* In the abstract variables a step is one of the queue's or changes nothing.
LEMMA StepQueues ==
  ASSUME TypeOK, Framed, [Next]_vars
  PROVE  [Reports!QueueNext]_(Reports!queueVars)
<1> DEFINE Stutters == /\ ReportsQueued' = ReportsQueued
                       /\ UNCHANGED <<out, connected, inflight, truncated>>
<1>1. ASSUME Stutters
      PROVE  UNCHANGED Reports!queueVars
  BY <1>1 DEF Reports!queueVars, ReportsQueued
<1>2. CASE \/ Sample \/ SignalPublisher \/ Subscribe \/ CheckConnected
           \/ WaitForPacket \/ WaitForCompletion \/ SpuriousWakeup
           \/ UNCHANGED vars
  <2>1. /\ mqBuf' = mqBuf /\ pkt' = pkt
        /\ UNCHANGED <<out, connected, inflight, truncated>>
    BY <1>2 DEF Sample, SignalPublisher, Subscribe, CheckConnected,
                WaitForPacket, WaitForCompletion, SpuriousWakeup, vars,
                bufVars, linkVars, historyVars
  <2>2. pubPc' = "publish" <=> pubPc = "publish"
    BY <1>2 DEF Sample, SignalPublisher, Subscribe, CheckConnected,
                WaitForPacket, WaitForCompletion, SpuriousWakeup, vars,
                MqLockFree
  <2> QED
    BY <1>1, <2>1, <2>2, QueueUnchanged
<1>3. CASE FirstConnect \/ Reconnect \/ ConnectionLost
  <2>1. /\ mqBuf' = mqBuf /\ pkt' = pkt
        /\ UNCHANGED <<out, truncated>>
        /\ inflight \in BOOLEAN
        /\ \/ connected' = TRUE /\ inflight' = FALSE
           \/ connected' = FALSE /\ inflight' = inflight
    BY <1>3 DEF TypeOK, FirstConnect, Reconnect, Connect, ConnectionLost,
                bufVars, historyVars
  <2>2. pubPc' = "publish" <=> pubPc = "publish"
    BY <1>3 DEF FirstConnect, Reconnect, Connect, ConnectionLost
  <2>3. ReportsQueued' = ReportsQueued
    BY <2>1, <2>2, QueueUnchanged
  <2> QED
    BY <2>1, <2>3 DEF Reports!QueueNext, Reports!LinkChanges, ReportsQueued
<1>4. ASSUME NEW i \in Row, FormJsonPacket(i)
      PROVE  [Reports!QueueNext]_(Reports!queueVars)
  <2>1. UNCHANGED <<out, connected, inflight, pkt, pubPc>>
    BY <1>4 DEF FormJsonPacket, linkVars
  <2>2. CASE Len(Text[i]) > 0 /\ ~truncated'
    <3>1. ReportsQueued' = Append(ReportsQueued, Text[i])
      BY <1>4, <2>2, FormJsonPacketAdds
    <3>2. ~truncated
      <4>1. truncated' = (truncated \/ ~Fits(mqBuf, Text[i]))
        BY <1>4, <2>2 DEF FormJsonPacket
      <4> QED
        BY <2>2, <4>1, Zenon
    <3>3. Text[i] \in Texts
      BY TextFacts
    <3> QED
      BY <2>1, <2>2, <3>1, <3>2, <3>3
         DEF Reports!QueueNext, Reports!Add, ReportsQueued
  <2>3. CASE Len(Text[i]) > 0 /\ truncated'
    BY <2>1, <2>3 DEF Reports!QueueNext, Reports!CutShort
  <2>4. CASE Len(Text[i]) = 0
    <3>1. mqBuf' = mqBuf /\ truncated' = truncated
      BY <1>4, <2>4 DEF FormJsonPacket
    <3> QED
      BY <1>1, <2>1, <3>1, QueueUnchanged
  <2> QED
    BY <1>4, <2>2, <2>3, <2>4 DEF FormJsonPacket
<1>5. CASE TakePacket \/ TakeAfterWait
  <2>1. ReadPacket /\ pubPc # "publish"
    BY <1>5 DEF TakePacket, TakeAfterWait
  <2>2. UNCHANGED <<out, connected, inflight, truncated>>
    BY <2>1 DEF ReadPacket, linkVars
  <2> QED
    BY <1>1, <2>1, <2>2, TakeKeepsQueue
<1>6. CASE Publish
  <2>1. /\ UNCHANGED <<connected, truncated>>
        /\ inflight \in BOOLEAN /\ connected \in BOOLEAN
    BY <1>6 DEF TypeOK, Publish
  <2>2. \/ /\ connected /\ ~inflight /\ inflight' = TRUE
           /\ out' = [topic |-> Topic(pkt), payload |-> pkt.payload]
        \/ /\ ~connected \/ inflight
           /\ UNCHANGED <<out, inflight>>
    BY <1>6 DEF Publish, Accepts
  <2>3. CASE truncated
    BY <2>1, <2>3 DEF Reports!QueueNext, Reports!NoPromise
  <2>4. CASE ~truncated /\ pkt.port = MQTP_REPORT
    <3>1. /\ ReportsQueued # << >>
          /\ pkt.payload = Head(ReportsQueued)
          /\ ReportsQueued' = Tail(ReportsQueued)
      BY <1>6, <2>4, PublishTakesHead
    <3>2. Topic(pkt) = "report"
      BY <2>4 DEF Topic
    <3> QED
      BY <2>1, <2>2, <2>4, <3>1, <3>2
         DEF Reports!QueueNext, Reports!Publish, Reports!Send, Reports!Lose,
             ReportsQueued
  <2>5. CASE ~truncated /\ pkt.port # MQTP_REPORT
    <3>1. /\ pkt.payload = << >>
          /\ ReportsQueued = << >>
          /\ ReportsQueued' = ReportsQueued
      BY <1>6, <2>5, PublishTakesHead
    <3>2. Topic(pkt) = "control"
      BY <2>5 DEF Topic
    <3>3. CASE UNCHANGED <<out, inflight>>
      BY <1>1, <2>1, <3>1, <3>3
    <3>4. CASE /\ connected /\ ~inflight /\ inflight' = TRUE
               /\ out' = [topic |-> Topic(pkt), payload |-> pkt.payload]
      BY <2>1, <2>5, <3>1, <3>2, <3>4
         DEF Reports!QueueNext, Reports!PublishNothing, Reports!Send,
             ReportsQueued
    <3> QED
      BY <2>2, <3>3, <3>4
  <2> QED
    BY <2>3, <2>4, <2>5
<1>7. CASE Delivered
  <2>1. /\ mqBuf' = mqBuf /\ pkt' = pkt /\ pubPc' = pubPc
        /\ UNCHANGED <<out, connected, truncated>>
        /\ connected /\ inflight /\ inflight' = FALSE
    BY <1>7 DEF Delivered, bufVars, historyVars
  <2>2. ReportsQueued' = ReportsQueued
    BY <2>1, QueueUnchanged
  <2> QED
    BY <2>1, <2>2 DEF Reports!QueueNext, Reports!Acknowledge, ReportsQueued
<1> QED
  BY <1>2, <1>3, <1>4, <1>5, <1>6, <1>7 DEF Next, Sampler, Publisher, Network

(***************************************************************************)
(* The two threads, their counter, their signal, the byte buffer and the   *)
(* client, which takes one message at a time and whose refusals nobody     *)
(* looks at, implement the report queue: until a packet is cut short, each *)
(* report is accepted once, whole and in order, or lost without a          *)
(* connection or behind an unfinished message, and the empty message goes  *)
(* out only when no report is waiting.                                     *)
(***************************************************************************)
THEOREM ReportQueueImplemented == Spec => ImplementsReportQueue
<1>1. Init => Reports!QueueInit
  <2>1. << >> \o << >> = << >>
    BY EmptySeq, ConcatEmptySeq
  <2> QED
    BY <2>1, NoPayloads DEF Init, Reports!QueueInit, InPubBuf
<1>2. TypeOK /\ Framed /\ [Next]_vars => [Reports!QueueNext]_(Reports!queueVars)
  BY StepQueues
<1> QED
  BY <1>1, <1>2, UplinkTypeCorrect, FramedAlways, PTL
     DEF Spec, ImplementsReportQueue, Reports!QueueSpec
=============================================================================
