---------------------------- MODULE SystemProofs ----------------------------
(***************************************************************************)
(* Proofs about the reporting path and the control path together, for any  *)
(* table, messages, buffer sizes and ports.                                *)
(***************************************************************************)
EXTENDS System, SequenceTheorems, TLAPS

\* The proofs about the two paths.  Nothing here is said of the messages that
\* the server may send, so that those of DP may be any.
UP == INSTANCE UplinkProofs WITH Cap <- MqCap
DP == INSTANCE DownlinkProofs
        WITH Cap <- ComCap, truncated <- comTruncated,
             overrun <- slotOverrun, Msg <- {}

(***************************************************************************)
(* The threads, with all their data, use their mutexes and condition       *)
(* variables as module Locks says: whoever waits for a mutex finds it free *)
(* only between the steps of its owner, also after a control message was   *)
(* cut short and the dispatcher writes into mqBuff - until a message       *)
(* overruns RecvBuff4treat, whose lock lies behind its data.               *)
(***************************************************************************)
THEOREM LocksImplemented == Spec => ImplementsLocks
<1>1. Init => L!Init
  BY DEF Init, U!Init, D!Init, L!Init
<1>2. [Next]_vars => [~slotOverrun' => [L!Next]_(L!vars)]_vars
  <2> SUFFICES ASSUME [Next]_vars, ~slotOverrun'
               PROVE  [L!Next]_(L!vars)
    OBVIOUS
  <2>1. CASE Sampler
    <3>1. disp' = disp /\ com' = com
      BY <2>1 DEF Sampler, downVars
    <3>2. \/ pubPc' = pubPc
          \/ L!MqLockFree /\ pubPc' = L!Signalled(pubPc)
      BY <2>1 DEF Sampler, U!Sampler, U!Sample, U!FormJsonPacket,
                  U!SignalPublisher, U!MqLockFree, L!MqLockFree, L!Signalled
    <3> QED
      BY <3>1, <3>2 DEF L!Next, L!PubIsSignalled, L!vars
  <2>2. CASE Publisher
    <3>1. disp' = disp /\ com' = com /\ U!Publisher
      BY <2>2 DEF Publisher, Publish, downVars, U!Publisher
    <3>2. CASE U!FirstConnect \/ U!Reconnect \/ U!Subscribe \/ U!CheckConnected
                 \/ U!WaitForCompletion
      BY <3>1, <3>2 DEF U!FirstConnect, U!Reconnect, U!Connect, U!Subscribe,
                        U!CheckConnected, U!WaitForCompletion,
                        L!Next, L!Publisher, L!PubConnects
    <3>3. CASE U!WaitForPacket
      BY <3>1, <3>3 DEF U!WaitForPacket, L!Next, L!Publisher, L!PubWaits
    <3>4. CASE U!TakePacket \/ U!TakeAfterWait
      BY <3>1, <3>4 DEF U!TakePacket, U!TakeAfterWait, U!ReadPacket,
                        L!Next, L!Publisher, L!PubTakes
    <3>5. CASE U!Publish
      BY <3>1, <3>5 DEF U!Publish, L!Next, L!Publisher, L!PubEnds
    <3> QED
      BY <3>1, <3>2, <3>3, <3>4, <3>5 DEF U!Publisher
  <2>3. CASE ServerSends \/ EchoArrives
    <3>1. \E m : D!Msgarrvd(m)
      BY <2>3 DEF ServerSends, EchoArrives, D!Broker
    <3>2. pubPc' = pubPc
      BY <2>3 DEF ServerSends, EchoArrives, upVars
    <3> QED
      BY <3>1, <3>2 DEF D!Msgarrvd, D!ComLockFree, L!Next, L!DispIsSignalled,
                        L!ComLockFree, L!Signalled
  <2>4. CASE Forward
    BY <2>4 DEF Forward, D!Forward, U!MqLockFree, L!Next, L!Forward,
                L!MqLockFree, L!Signalled
  <2>5. CASE D!Dispatcher /\ disp # "forward" /\ UNCHANGED upVars
    <3>1. pubPc' = pubPc
      BY <2>5 DEF upVars
    <3>2. CASE D!DispatcherWaits
      BY <3>1, <3>2 DEF D!DispatcherWaits, L!Next, L!DispWaits
    <3>3. CASE D!ReadHeader \/ D!NothingToRead
      BY <3>1, <3>3 DEF D!ReadHeader, D!NothingToRead, L!Next, L!DispReads
    <3>4. CASE D!Deliver
      BY <3>1, <3>4 DEF D!Deliver, D!RecvLockFree, L!Next, L!Deliver,
                        L!RecvLockFree, L!Signalled
    <3> QED
      BY <2>5, <3>2, <3>3, <3>4 DEF D!Dispatcher, D!Forward, D!DeliverOutside
  <2>6. CASE ComThread
    BY <2>6 DEF ComThread, upVars, D!ComThread, D!ComWaits, D!StartTreat,
                D!EndTreat, L!Next, L!ComRuns
  <2>7. CASE SpuriousWakeup
    <3>1. CASE U!SpuriousWakeup /\ disp' = disp /\ com' = com
      BY <3>1 DEF U!SpuriousWakeup, L!Next, L!PubIsSignalled, L!MqLockFree,
                  L!Signalled
    <3>2. CASE D!SpuriousWakeup /\ UNCHANGED upVars
      BY <3>2 DEF D!SpuriousWakeup, upVars, L!Next, L!DispIsSignalled,
                  L!ComIsSignalled, L!ComLockFree, L!Signalled
    <3> QED
      BY <2>7, <3>1, <3>2 DEF SpuriousWakeup
  <2>8. CASE Delivered \/ ConnectionLost \/ UNCHANGED vars
    BY <2>8 DEF Delivered, U!Delivered, ConnectionLost, U!ConnectionLost, vars,
                upVars, downVars, L!vars
  <2> QED
    BY <2>1, <2>2, <2>3, <2>4, <2>5, <2>6, <2>7, <2>8 DEF Next, Dispatcher
<1> QED
  BY <1>1, <1>2, PTL DEF Spec, ImplementsLocks

-----------------------------------------------------------------------------
(***************************************************************************)
(* UP and DP say what U and D say.                                         *)
(***************************************************************************)
LEMMA UplinkConstants ==
  /\ UP!BaseAssumption /\ UP!CapAssumption /\ UP!TableAssumption
  /\ UP!WidthAssumption /\ UP!PubBufAssumption /\ UP!PortAssumption
BY PartsAssumption
   DEF U!BaseAssumption, U!CapAssumption, U!TableAssumption,
       U!WidthAssumption, U!PubBufAssumption, U!PortAssumption,
       U!Octet, U!HeaderLen, U!Row,
       UP!BaseAssumption, UP!CapAssumption, UP!TableAssumption,
       UP!WidthAssumption, UP!PubBufAssumption, UP!PortAssumption,
       UP!Octet, UP!HeaderLen, UP!Row

LEMMA DownlinkConstants ==
  /\ DP!BaseAssumption /\ DP!CapAssumption /\ DP!MsgAssumption
  /\ DP!RecvAssumption /\ DP!DownPortAssumption /\ DP!ContentsAssumption
BY PartsAssumption
   DEF U!BaseAssumption, D!CapAssumption, D!RecvAssumption,
       D!DownPortAssumption,
       DP!BaseAssumption, DP!CapAssumption, DP!MsgAssumption,
       DP!RecvAssumption, DP!DownPortAssumption, DP!ContentsAssumption

LEMMA SameSampler == U!Sampler <=> UP!Sampler
BY DEF U!Sampler, U!Sample, U!FormJsonPacket, U!SignalPublisher,
       U!bufVars, U!linkVars, U!historyVars, U!sampleVars,
       U!DueRows, U!Due, U!Row, U!MqLockFree, U!WritePacket, U!WriteBytes,
       U!Header, U!HiByte, U!LoByte, U!Room, U!Fits, U!HeaderLen,
       UP!Sampler, UP!Sample, UP!FormJsonPacket, UP!SignalPublisher,
       UP!bufVars, UP!linkVars, UP!historyVars, UP!sampleVars,
       UP!DueRows, UP!Due, UP!Row, UP!MqLockFree, UP!WritePacket,
       UP!WriteBytes, UP!Header, UP!HiByte, UP!LoByte, UP!Room, UP!Fits,
       UP!HeaderLen

LEMMA SameRead == U!ReadPacket <=> UP!ReadPacket
BY DEF U!ReadPacket, U!HeadPacket, U!HeadPort, U!HeadPayload, U!HeadLen,
       U!AfterHead, U!PeekBytes, U!PeekByte, U!DropBytes, U!Word, U!HeaderLen,
       U!sampleVars, U!linkVars,
       UP!ReadPacket, UP!HeadPacket, UP!HeadPort, UP!HeadPayload, UP!HeadLen,
       UP!AfterHead, UP!PeekBytes, UP!PeekByte, UP!DropBytes, UP!Word,
       UP!HeaderLen, UP!sampleVars, UP!linkVars

LEMMA SamePublish == U!Publish <=> UP!Publish
BY DEF U!Publish, U!Accepts, U!Topic, U!bufVars, U!sampleVars,
       UP!Publish, UP!Accepts, UP!Topic, UP!bufVars, UP!sampleVars

LEMMA SamePublisher == U!Publisher <=> UP!Publisher
BY SameRead, SamePublish
   DEF U!Publisher, U!FirstConnect, U!Reconnect, U!Connect, U!Subscribe,
       U!CheckConnected, U!WaitForPacket, U!TakePacket, U!TakeAfterWait,
       U!WaitForCompletion, U!bufVars, U!linkVars, U!historyVars, U!sampleVars,
       UP!Publisher, UP!FirstConnect, UP!Reconnect, UP!Connect, UP!Subscribe,
       UP!CheckConnected, UP!WaitForPacket, UP!TakePacket, UP!TakeAfterWait,
       UP!WaitForCompletion, UP!bufVars, UP!linkVars, UP!historyVars,
       UP!sampleVars

LEMMA SameNetwork ==
  /\ U!SpuriousWakeup <=> UP!SpuriousWakeup
  /\ U!Network <=> UP!Network
  /\ U!Init <=> UP!Init
BY DEF U!SpuriousWakeup, U!Network, U!Delivered, U!ConnectionLost, U!Init,
       U!NoPacket, U!bufVars, U!linkVars, U!historyVars, U!sampleVars,
       UP!SpuriousWakeup, UP!Network, UP!Delivered, UP!ConnectionLost, UP!Init,
       UP!NoPacket, UP!bufVars, UP!linkVars, UP!historyVars, UP!sampleVars

LEMMA SameBytes ==
  /\ \A buf, s, port : D!WritePacket(buf, s, port) = DP!WritePacket(buf, s, port)
  /\ \A buf, s : D!Fits(buf, s) <=> DP!Fits(buf, s)
  /\ \A buf, n : D!DropBytes(buf, n) = DP!DropBytes(buf, n)
  /\ \A buf, k, n : D!PeekBytes(buf, k, n) = DP!PeekBytes(buf, k, n)
  /\ \A buf : D!HeadPort(buf) = DP!HeadPort(buf)
  /\ \A buf : D!HeadLen(buf) = DP!HeadLen(buf)
BY DEF D!WritePacket, D!WriteBytes, D!Header, D!HiByte, D!LoByte, D!Room,
       D!Fits, D!HeaderLen, D!DropBytes, D!PeekBytes, D!PeekByte, D!HeadPort,
       D!HeadLen, D!Word,
       DP!WritePacket, DP!WriteBytes, DP!Header, DP!HiByte, DP!LoByte, DP!Room,
       DP!Fits, DP!HeaderLen, DP!DropBytes, DP!PeekBytes, DP!PeekByte,
       DP!HeadPort, DP!HeadLen, DP!Word

LEMMA SameMsgarrvd ==
  ASSUME NEW m
  PROVE  D!Msgarrvd(m) <=> DP!Msgarrvd(m)
BY SameBytes DEF D!Msgarrvd, D!ComLockFree, D!Quiet,
                 DP!Msgarrvd, DP!ComLockFree, DP!Quiet

LEMMA SameDispatcher ==
  /\ D!DispatcherWaits <=> DP!DispatcherWaits
  /\ D!ReadHeader <=> DP!ReadHeader
  /\ D!NothingToRead <=> DP!NothingToRead
  /\ D!Deliver <=> DP!Deliver
BY SameBytes
   DEF D!DispatcherWaits, D!ReadHeader, D!NothingToRead, D!Deliver,
       D!RecvLockFree, D!historyVars, D!HeaderLen,
       DP!DispatcherWaits, DP!ReadHeader, DP!NothingToRead, DP!Deliver,
       DP!RecvLockFree, DP!historyVars, DP!HeaderLen

LEMMA SameOthers ==
  /\ D!ComThread <=> DP!ComThread
  /\ D!SpuriousWakeup <=> DP!SpuriousWakeup
  /\ D!Init <=> DP!Init
BY DEF D!ComThread, D!ComWaits, D!StartTreat, D!EndTreat, D!SpuriousWakeup,
       D!historyVars, D!Init, D!NoHead,
       DP!ComThread, DP!ComWaits, DP!StartTreat, DP!EndTreat, DP!SpuriousWakeup,
       DP!historyVars, DP!Init, DP!NoHead

-----------------------------------------------------------------------------
(***************************************************************************)
(* The inductive invariant.  It speaks of the states before a control      *)
(* message was cut short, since afterwards the dispatcher may take the     *)
(* bytes of a text for a packet of any port, and before one overruns       *)
(* RecvBuff4treat.                                                         *)
(***************************************************************************)
Any == Seq(DP!Octet)

\* What a message is as long as no report was cut short either.
Servers == Msg \cup {<< >>}

\* comBuff0 has packets of the control port with such payloads in it, and
\* nothing else.
ComHolds(payloads) ==
  /\ disp # "forward"
  /\ DP!HoldsOnly(DP!Behind, MQTPC2DTU, payloads)
  /\ disp = "deliver" => DP!PeekBytes(comBuf, 0, head.len) \in payloads

Messages == /\ returning \in Seq(Any)
            /\ pkt.payload \in Any
            /\ ComHolds(Any)

\* What the device sends on the control topic is empty on its whole way back.
EchoesEmpty ==
  /\ out.topic = "control" => out.payload = << >>
  /\ \A n \in 1 .. Len(returning) : returning[n] = << >>
  /\ \A n \in DOMAIN sent : sent[n] \in Servers
  /\ slot \in Servers
  /\ treated \in Servers
  /\ ComHolds(Servers)

\* A wake-up is paid for with a report that was written since the last stray
\* message, and while the flag is still up that report is in mqBuff.
WakeupsArePaid ==
  /\ newPacket => written
  /\ pubPc = "woken" => written /\ (newPacket => mqBuf # << >>)
  /\ pubPc = "publish" /\ IsStray(pkt) => written /\ ~newPacket

SystemInv ==
  ComIntact =>
    /\ UP!TypeOK /\ UP!Framed /\ DP!TypeOK
    /\ Messages
    /\ ~truncated => EchoesEmpty
    /\ ~truncated /\ ~spurious => WakeupsArePaid

-----------------------------------------------------------------------------
\* What was cut short, and a wake-up without a signal, stays noted.
LEMMA NotedForGood ==
  ASSUME [Next]_vars
  PROVE  /\ ComIntact' => ComIntact
         /\ disp # "forward" /\ truncated => truncated'
         /\ spurious => spurious'
<1> USE DEF ComIntact
<1>1. CASE Sampler \/ Publisher \/ Delivered \/ ConnectionLost
  <2>1. UNCHANGED <<comTruncated, slotOverrun, spurious>>
    BY <1>1 DEF Sampler, Publisher, Publish, Delivered, ConnectionLost, downVars
  <2>2. truncated => truncated'
    <3>1. CASE Sampler
      BY <3>1, Zenon DEF Sampler, U!Sampler, U!Sample, U!FormJsonPacket,
                         U!SignalPublisher, U!historyVars
    <3>2. CASE Publisher \/ Delivered \/ ConnectionLost
      BY <3>2 DEF Publisher, Publish, Delivered, U!Delivered,
                  ConnectionLost, U!ConnectionLost,
                  U!Publisher, U!FirstConnect, U!Reconnect, U!Connect,
                  U!Subscribe, U!CheckConnected, U!WaitForPacket, U!TakePacket,
                  U!TakeAfterWait, U!ReadPacket, U!Publish,
                  U!WaitForCompletion, U!historyVars
    <3> QED
      BY <1>1, <3>1, <3>2
  <2> QED
    BY <2>1, <2>2
<1>2. CASE ServerSends \/ EchoArrives
  <2>1. PICK m : D!Msgarrvd(m)
    BY <1>2 DEF ServerSends, EchoArrives, D!Broker
  <2>2. UNCHANGED <<truncated, slotOverrun, spurious>>
    BY <1>2, <2>1 DEF ServerSends, EchoArrives, upVars, D!Msgarrvd
  <2>3. comTruncated' = (comTruncated \/ ~D!Fits(comBuf, m))
    BY <2>1 DEF D!Msgarrvd
  <2>4. comTruncated => comTruncated'
    BY <2>3, Zenon
  <2> QED
    BY <2>2, <2>4
<1>3. CASE Forward
  <2>1. UNCHANGED <<comTruncated, slotOverrun, spurious>> /\ disp = "forward"
    BY <1>3 DEF Forward, D!Forward
  <2> QED
    BY <2>1
<1>4. CASE D!Dispatcher /\ disp # "forward" /\ UNCHANGED upVars
  BY <1>4 DEF upVars, D!Dispatcher, D!DispatcherWaits, D!ReadHeader,
              D!NothingToRead, D!Deliver, D!DeliverOutside, D!Forward,
              D!historyVars
<1>5. CASE ComThread \/ SpuriousWakeup \/ UNCHANGED vars
  BY <1>5 DEF ComThread, SpuriousWakeup, D!ComThread, D!ComWaits, D!StartTreat,
              D!EndTreat, D!SpuriousWakeup, U!SpuriousWakeup, U!historyVars,
              D!historyVars, upVars, downVars, vars
<1> QED
  BY <1>1, <1>2, <1>3, <1>4, <1>5 DEF Next, Dispatcher

\* Until the dispatcher forwards a packet, the reporting path is on its own.
LEMMA UplinkStep ==
  ASSUME [Next]_vars, disp # "forward"
  PROVE  [U!Next]_upVars /\ [UP!Next]_(UP!vars)
<1>1. [U!Next]_upVars
  <2>1. CASE Sampler \/ Publisher \/ Delivered \/ ConnectionLost
    BY <2>1 DEF Sampler, Publisher, Publish, Delivered, ConnectionLost, U!Next,
                U!Publisher, U!Network
  <2>2. CASE ServerSends \/ EchoArrives \/ Dispatcher \/ ComThread
               \/ UNCHANGED vars
    BY <2>2 DEF ServerSends, EchoArrives, Dispatcher, Forward, D!Forward,
                ComThread, vars
  <2>3. CASE SpuriousWakeup
    BY <2>3 DEF SpuriousWakeup, U!Next
  <2> QED
    BY <2>1, <2>2, <2>3 DEF Next
<1>2. U!Next => UP!Next
  BY SameSampler, SamePublisher, SameNetwork DEF U!Next, UP!Next
<1> QED
  BY <1>1, <1>2 DEF upVars, UP!vars

-----------------------------------------------------------------------------
(***************************************************************************)
(* The packets of comBuff0.                                                *)
(***************************************************************************)
LEMMA AnyFacts ==
  /\ Base * Base \in Nat
  /\ MQTPC2DTU \in 0 .. Base * Base - 1
  /\ MQTPC2DTU \in Nat
  /\ << >> \in Any
  /\ Servers \subseteq Any
<1>1. Base \in Nat /\ Base > 1 /\ MQTPC2DTU \in 0 .. Base * Base - 1
  BY DownlinkConstants DEF DP!BaseAssumption, DP!DownPortAssumption
<1>2. Base * Base \in Nat /\ Base * Base > 0
  BY <1>1
<1>3. << >> \in Any
  BY EmptySeq DEF Any
<1>4. ASSUME NEW m \in Msg
      PROVE  m \in Any
  BY PartsAssumption DEF D!MsgAssumption, D!Octet, DP!Octet, Any
<1> QED
  BY <1>1, <1>2, <1>3, <1>4 DEF Servers

LEMMA ArrivalHeld ==
  ASSUME NEW P, P \subseteq Any, DP!TypeOK, ComHolds(P), ~comTruncated',
         NEW m \in P, DP!Msgarrvd(m)
  PROVE  ComHolds(P)'
<1>1. /\ disp \notin {"deliver", "forward"} /\ disp' \notin {"deliver", "forward"}
      /\ comBuf' = DP!WritePacket(comBuf, m, MQTPC2DTU)
      /\ comTruncated' = (comTruncated \/ ~DP!Fits(comBuf, m))
  BY DEF DP!Msgarrvd, DP!ComLockFree
<1>2. DP!Fits(comBuf, m)
  BY <1>1, Zenon
<1>3. DP!HoldsOnly(comBuf, MQTPC2DTU, P)
  BY <1>1 DEF ComHolds, DP!Behind
<1>4. m \in Seq(DP!Octet) /\ Len(m) < Base * Base
  <2>1. m \in Seq(DP!Octet) /\ Len(m) \in Nat /\ Len(comBuf) \in Nat
    BY LenProperties DEF Any, DP!TypeOK
  <2>2. ComCap \in Nat /\ ComCap < Base * Base
    BY DownlinkConstants DEF DP!CapAssumption, DP!RecvAssumption
  <2> QED
    BY <1>2, <2>1, <2>2, AnyFacts DEF DP!Fits, DP!Room, DP!HeaderLen
<1>5. DP!HoldsOnly(comBuf', MQTPC2DTU, P)
  BY <1>1, <1>2, <1>3, <1>4, AnyFacts, DownlinkConstants, DP!HoldsOnlyWrite
     DEF DP!TypeOK
<1> QED
  BY <1>1, <1>5 DEF ComHolds, DP!Behind, DP!HoldsOnly

LEMMA HeaderHeld ==
  ASSUME NEW P, DP!TypeOK, ComHolds(P), DP!ReadHeader
  PROVE  ComHolds(P)'
<1>1. /\ disp = "woken" /\ comBuf # << >>
      /\ comBuf' = DP!DropBytes(comBuf, DP!HeaderLen)
      /\ head'.port = DP!HeadPort(comBuf) /\ head'.len = DP!HeadLen(comBuf)
  BY DEF DP!ReadHeader
<1>2. comBuf \in Seq(DP!Octet)
  BY DEF DP!TypeOK
<1>3. DP!HoldsOnly(comBuf, MQTPC2DTU, P)
  BY <1>1 DEF ComHolds, DP!Behind
<1>4. /\ DP!HeadPort(comBuf) = MQTPC2DTU
      /\ DP!HeadPayload(comBuf) \in P
      /\ DP!HoldsOnly(DP!AfterHead(comBuf), MQTPC2DTU, P)
  BY <1>1, <1>2, <1>3, DownlinkConstants, DP!HoldsOnlyHead
<1>5. disp' = "deliver"
  BY <1>1, <1>4, DownlinkConstants DEF DP!ReadHeader, DP!DownPortAssumption
<1>6. /\ DP!PeekBytes(comBuf', 0, head'.len) = DP!HeadPayload(comBuf)
      /\ DP!DropBytes(comBuf', head'.len) = DP!AfterHead(comBuf)
  BY <1>1, <1>2, DownlinkConstants, DP!ReadInTwoSteps
<1> QED
  BY <1>4, <1>5, <1>6 DEF ComHolds, DP!Behind, DP!HoldsOnly

LEMMA DeliveryHeld ==
  ASSUME NEW P, ComHolds(P), DP!Deliver
  PROVE  ComHolds(P)' /\ slot' \in P
<1>1. /\ disp = "deliver" /\ disp' = "lock"
      /\ comBuf' = DP!DropBytes(comBuf, head.len)
      /\ slot' = DP!PeekBytes(comBuf, 0, head.len)
  BY DEF DP!Deliver
<1>2. DP!HoldsOnly(comBuf', MQTPC2DTU, P)
  BY <1>1 DEF ComHolds, DP!Behind
<1> QED
  BY <1>1, <1>2 DEF ComHolds, DP!Behind, DP!HoldsOnly

LEMMA OthersHeld ==
  ASSUME NEW P, ComHolds(P), UNCHANGED <<comBuf, head>>,
         disp' = "deliver" <=> disp = "deliver", disp' # "forward"
  PROVE  ComHolds(P)'
<1>1. DP!Behind' = DP!Behind
  BY DEF DP!Behind
<1> QED
  BY <1>1 DEF ComHolds, DP!HoldsOnly

\* What a step does to the control path while the dispatcher forwards nothing.
Arrives(m) == /\ DP!Msgarrvd(m)
              /\ UNCHANGED upVars /\ written' = written
              /\ \/ m \in Msg /\ returning' = returning
                 \/ /\ returning # << >>
                    /\ m = Head(returning) /\ returning' = Tail(returning)

KeepsBuffer ==
  /\ UNCHANGED <<comBuf, head, sent, slot, comTruncated>>
  /\ disp' = "deliver" <=> disp = "deliver"
  /\ disp' # "forward"
  /\ treated' = treated \/ treated' = slot

LEMMA DownlinkStep ==
  ASSUME DP!TypeOK, returning \in Seq(Any), [Next]_vars, disp # "forward",
         ComIntact'
  PROVE  /\ DP!TypeOK'
         /\ \/ \E m \in Any : Arrives(m)
            \/ DP!ReadHeader /\ UNCHANGED <<upVars, returning, written>>
            \/ DP!Deliver /\ UNCHANGED <<upVars, returning, written>>
            \/ KeepsBuffer
<1>1. CASE \/ Sampler \/ Publisher \/ Delivered \/ ConnectionLost
           \/ UNCHANGED vars
  <2>1. UNCHANGED downVars
    BY <1>1 DEF Sampler, Publisher, Publish, Delivered, ConnectionLost, vars
  <2> QED
    BY <2>1 DEF downVars, DP!TypeOK, KeepsBuffer
<1>2. CASE ServerSends \/ EchoArrives
  <2>1. PICK m : /\ DP!Msgarrvd(m)
                 /\ UNCHANGED upVars /\ written' = written
                 /\ \/ m \in Msg /\ returning' = returning
                    \/ /\ returning # << >>
                       /\ m = Head(returning) /\ returning' = Tail(returning)
    BY <1>2, SameMsgarrvd DEF ServerSends, EchoArrives, D!Broker
  <2>2. m \in Any
    <3>1. CASE m \in Msg
      BY <3>1, AnyFacts DEF Servers
    <3>2. CASE returning # << >> /\ m = Head(returning)
      <4>1. Head(returning) \in Any
        BY <3>2, HeadTailProperties
      <4> QED
        BY <3>2, <4>1
    <3> QED
      BY <2>1, <3>1, <3>2
  <2>3. m \in Seq(DP!Octet)
    BY <2>2 DEF Any
  <2>4. DP!TypeOK'
    BY <2>1, <2>3, DownlinkConstants, DP!MsgarrvdTyped
  <2> QED
    BY <2>1, <2>2, <2>4 DEF Arrives
<1>3. CASE Dispatcher
  <2>1. /\ D!Dispatcher /\ ~D!Forward
        /\ UNCHANGED <<upVars, returning, written>>
    BY <1>3 DEF Dispatcher, Forward, D!Forward
  <2>2. \/ DP!DispatcherWaits \/ DP!ReadHeader \/ DP!NothingToRead
        \/ DP!Deliver
    BY <2>1, SameDispatcher DEF D!Dispatcher, D!DeliverOutside, ComIntact
  <2>3. DP!TypeOK'
    BY <2>2, DownlinkConstants, DP!DispatcherTyped DEF DP!Dispatcher
  <2>4. DP!DispatcherWaits \/ DP!NothingToRead => KeepsBuffer
    BY DEF DP!DispatcherWaits, DP!NothingToRead, DP!historyVars, KeepsBuffer
  <2> QED
    BY <2>1, <2>2, <2>3, <2>4
<1>4. CASE ComThread \/ SpuriousWakeup
  <2>1. \/ DP!ComThread \/ DP!SpuriousWakeup
        \/ /\ spurious' = TRUE
           /\ UNCHANGED <<comBuf, disp, head, slot, com, sent, treated,
                          forwarded, comTruncated, slotOverrun, paced>>
    BY <1>4, SameOthers DEF ComThread, SpuriousWakeup
  <2>2. DP!TypeOK'
    BY <2>1 DEF DP!TypeOK, DP!ComThread, DP!ComWaits, DP!StartTreat,
                DP!EndTreat, DP!SpuriousWakeup, DP!historyVars
  <2>3. KeepsBuffer
    BY <2>1 DEF KeepsBuffer, DP!ComThread, DP!ComWaits, DP!StartTreat,
                DP!EndTreat, DP!SpuriousWakeup, DP!historyVars
  <2> QED
    BY <2>2, <2>3
<1> QED
  BY <1>1, <1>2, <1>3, <1>4 DEF Next

-----------------------------------------------------------------------------
LEMMA InvInit == Init => SystemInv
<1> SUFFICES ASSUME Init
             PROVE  SystemInv
  OBVIOUS
<1>1. UP!Init /\ DP!Init
  BY SameNetwork, SameOthers DEF Init
<1>2. UP!TypeOK /\ DP!TypeOK
  BY <1>1, UplinkConstants, DownlinkConstants, UP!InitTyped, DP!InitTyped
<1>3. UP!Framed
  <2>1. UP!HoldsOnly(<< >>, MQTP_REPORT, UP!Texts)
    BY UplinkConstants, UP!HoldsNothing
  <2>2. UP!Packets[<< >>] = << >> /\ Len(<< >>) = 0
    BY UplinkConstants, UP!NoPackets, EmptySeq
  <2> QED
    BY <1>1, <2>1, <2>2
       DEF UP!Init, UP!Framed, UP!PacketSumCounts, UP!PubBufSuffices,
           UP!PubBufFilled
<1>4. ASSUME NEW P
      PROVE  ComHolds(P)
  <2>1. DP!HoldsOnly(<< >>, MQTPC2DTU, P)
    BY DownlinkConstants, DP!HoldsNothing
  <2> QED
    BY <1>1, <2>1 DEF DP!Init, ComHolds, DP!Behind
<1>5. /\ returning = << >> /\ pkt.payload = << >>
      /\ out.topic = "none" /\ sent = << >> /\ slot = << >> /\ treated = << >>
      /\ newPacket = FALSE /\ pubPc = "start"
  BY <1>1 DEF Init, UP!Init, UP!NoPacket, DP!Init
<1>6. Messages
  BY <1>4, <1>5, AnyFacts, EmptySeq DEF Messages
<1>7. EchoesEmpty
  BY <1>4, <1>5, EmptySeq DEF EchoesEmpty, Servers
<1>8. WakeupsArePaid
  BY <1>5 DEF WakeupsArePaid
<1> QED
  BY <1>2, <1>3, <1>6, <1>7, <1>8 DEF SystemInv

\* The part of both paths: what UP and DP have shown of their own steps.
LEMMA PartsStep ==
  ASSUME SystemInv, [Next]_vars, ComIntact'
  PROVE  UP!TypeOK' /\ UP!Framed' /\ DP!TypeOK'
<1>1. ComIntact
  BY NotedForGood
<1>2. UP!TypeOK /\ UP!Framed /\ DP!TypeOK /\ disp # "forward"
      /\ returning \in Seq(Any)
  BY <1>1 DEF SystemInv, Messages, ComHolds
<1>3. [UP!Next]_(UP!vars)
  BY <1>2, UplinkStep
<1>4. UP!TypeOK' /\ UP!Framed'
  BY <1>2, <1>3, UplinkConstants, UP!NextTyped, UP!FramedStep
<1> QED
  BY <1>2, <1>4, DownlinkStep

-----------------------------------------------------------------------------
(***************************************************************************)
(* The messages on their way back.                                         *)
(***************************************************************************)
LEMMA ReturningStep ==
  ASSUME [Next]_vars
  PROVE  \/ returning' = returning
         \/ returning' = << >>
         \/ returning # << >> /\ returning' = Tail(returning)
         \/ /\ pubPc = "publish" /\ IsStray(pkt)
            /\ returning' = Append(returning, pkt.payload)
<1>1. CASE Publish
  BY <1>1 DEF Publish, U!Publish, Echo
<1>2. CASE \/ Sampler \/ (Publisher /\ ~Publish) \/ Delivered
           \/ ConnectionLost \/ UNCHANGED vars
  BY <1>2 DEF Sampler, Publisher, Delivered, ConnectionLost, vars
<1>3. CASE ServerSends \/ EchoArrives \/ Dispatcher \/ ComThread
             \/ SpuriousWakeup
  BY <1>3 DEF ServerSends, EchoArrives, Dispatcher, Forward, ComThread,
              SpuriousWakeup
<1> QED
  BY <1>1, <1>2, <1>3 DEF Next

\* What the publisher may do to pubBuf and to what was published.
LEMMA PubBufStep ==
  ASSUME [Next]_vars, disp # "forward"
  PROVE  /\ pkt' = pkt \/ pkt' = UP!HeadPacket(mqBuf)
         /\ \/ out' = out
            \/ /\ pubPc = "publish"
               /\ out' = [topic |-> UP!Topic(pkt), payload |-> pkt.payload]
<1>1. [UP!Next]_(UP!vars)
  BY UplinkStep
<1>2. CASE UP!Sampler
  BY <1>2 DEF UP!Sampler, UP!Sample, UP!FormJsonPacket, UP!SignalPublisher,
              UP!historyVars
<1>3. CASE UP!Publisher
  BY <1>3 DEF UP!Publisher, UP!FirstConnect, UP!Reconnect, UP!Connect,
              UP!Subscribe, UP!CheckConnected, UP!WaitForPacket, UP!TakePacket,
              UP!TakeAfterWait, UP!ReadPacket, UP!Publish, UP!WaitForCompletion,
              UP!historyVars
<1>4. CASE UP!SpuriousWakeup \/ UP!Network \/ UNCHANGED UP!vars
  BY <1>4 DEF UP!SpuriousWakeup, UP!Network, UP!Delivered, UP!ConnectionLost,
              UP!vars, UP!historyVars
<1> QED
  BY <1>1, <1>2, <1>3, <1>4 DEF UP!Next

LEMMA HeadPayloadIsAny ==
  ASSUME UP!TypeOK
  PROVE  UP!HeadPacket(mqBuf).payload \in Any
<1>1. UP!HeadPayload(mqBuf) \in Seq(UP!Octet)
  BY UplinkConstants, UP!HeadOfBuffer DEF UP!TypeOK
<1>2. UP!Octet = DP!Octet
  BY DEF UP!Octet, DP!Octet
<1> QED
  BY <1>1, <1>2 DEF UP!HeadPacket, Any

\* The buffer of the control path has only packets that may be in it.
LEMMA ComHeld ==
  ASSUME NEW P, P \subseteq Any, DP!TypeOK, returning \in Seq(Any),
         ComHolds(P), [Next]_vars, ComIntact',
         \A m : Arrives(m) => m \in P
  PROVE  ComHolds(P)'
<1>1. disp # "forward"
  BY DEF ComHolds
<1>2. CASE \E m \in Any : Arrives(m)
  <2>1. PICK m \in P : DP!Msgarrvd(m)
    BY <1>2 DEF Arrives
  <2> QED
    BY <2>1, ArrivalHeld DEF ComIntact
<1>3. CASE DP!ReadHeader
  BY <1>3, HeaderHeld
<1>4. CASE DP!Deliver
  BY <1>4, DeliveryHeld
<1>5. CASE KeepsBuffer
  BY <1>5, OthersHeld DEF KeepsBuffer
<1> QED
  BY <1>1, <1>2, <1>3, <1>4, <1>5, DownlinkStep

LEMMA MessagesStep ==
  ASSUME SystemInv, [Next]_vars, ComIntact'
  PROVE  Messages'
<1>1. ComIntact
  BY NotedForGood
<1>2. UP!TypeOK /\ DP!TypeOK /\ Messages /\ disp # "forward"
  BY <1>1 DEF SystemInv, Messages, ComHolds
<1>3. returning \in Seq(Any) /\ pkt.payload \in Any
  BY <1>2 DEF Messages
<1>4. returning' \in Seq(Any)
  <2>1. CASE returning' = returning \/ returning' = << >>
    BY <1>3, <2>1, EmptySeq
  <2>2. CASE returning # << >> /\ returning' = Tail(returning)
    <3>1. Tail(returning) \in Seq(Any)
      BY <1>3, <2>2, HeadTailProperties
    <3> QED
      BY <2>2, <3>1
  <2>3. CASE returning' = Append(returning, pkt.payload)
    BY <1>3, <2>3, AppendProperties
  <2> QED
    BY <2>1, <2>2, <2>3, ReturningStep
<1>5. pkt'.payload \in Any
  BY <1>2, <1>3, PubBufStep, HeadPayloadIsAny
<1>6. ComHolds(Any)'
  <2>1. ASSUME NEW m, Arrives(m)
        PROVE  m \in Any
    <3>1. CASE m \in Msg
      BY <3>1, AnyFacts DEF Servers
    <3>2. CASE returning # << >> /\ m = Head(returning)
      <4>1. Head(returning) \in Any
        BY <1>3, <3>2, HeadTailProperties
      <4> QED
        BY <3>2, <4>1
    <3> QED
      BY <2>1, <3>1, <3>2 DEF Arrives
  <2>2. ComHolds(Any)
    BY <1>2 DEF Messages
  <2>3. Any \subseteq Any
    OBVIOUS
  <2>4. \A m : Arrives(m) => m \in Any
    BY <2>1
  <2> QED
    BY <1>2, <1>3, <2>2, <2>3, <2>4, ComHeld
<1> QED
  BY <1>4, <1>5, <1>6 DEF Messages

LEMMA EchoesEmptyStep ==
  ASSUME SystemInv, [Next]_vars, ComIntact', ~truncated'
  PROVE  EchoesEmpty'
<1>1. ComIntact
  BY NotedForGood
<1>2. /\ UP!TypeOK /\ UP!Framed /\ DP!TypeOK /\ disp # "forward"
      /\ returning \in Seq(Any)
  BY <1>1 DEF SystemInv, Messages, ComHolds
<1>3. ~truncated /\ EchoesEmpty
  BY <1>1, <1>2, NotedForGood DEF SystemInv
<1>4. pubPc = "publish" /\ UP!Topic(pkt) = "control" => pkt.payload = << >>
  BY <1>2, <1>3 DEF UP!Framed, UP!PubBufFilled, UP!NoPacket, UP!Topic
<1>5. out'.topic = "control" => out'.payload = << >>
  BY <1>2, <1>3, <1>4, PubBufStep DEF EchoesEmpty
<1>6. \A n \in 1 .. Len(returning') : returning'[n] = << >>
  <2>1. CASE returning' = returning
    BY <1>3, <2>1 DEF EchoesEmpty
  <2>2. CASE returning' = << >>
    BY <2>2, EmptySeq
  <2>3. CASE returning # << >> /\ returning' = Tail(returning)
    <3>1. /\ Len(returning) \in Nat /\ Len(returning') = Len(returning) - 1
          /\ \A n \in 1 .. Len(returning') : returning'[n] = returning[n + 1]
      BY <1>2, <2>3, HeadTailProperties, LenProperties
    <3>2. \A n \in 1 .. Len(returning') : n + 1 \in 1 .. Len(returning)
      BY <3>1
    <3> QED
      BY <1>3, <3>1, <3>2 DEF EchoesEmpty
  <2>4. CASE /\ pubPc = "publish" /\ IsStray(pkt)
             /\ returning' = Append(returning, pkt.payload)
    <3>1. pkt.payload = << >>
      BY <1>4, <2>4 DEF IsStray, U!Topic, UP!Topic
    <3>2. << >> \in Any /\ Len(returning) \in Nat
      BY <1>2, AnyFacts, LenProperties
    <3>3. /\ Len(returning') = Len(returning) + 1
          /\ returning'[Len(returning) + 1] = << >>
          /\ \A n \in 1 .. Len(returning) : returning'[n] = returning[n]
      BY <1>2, <2>4, <3>1, <3>2, AppendProperties
    <3>4. \A n \in 1 .. Len(returning') :
            n = Len(returning) + 1 \/ n \in 1 .. Len(returning)
      BY <3>2, <3>3
    <3> QED
      BY <1>3, <3>3, <3>4 DEF EchoesEmpty
  <2> QED
    BY <2>1, <2>2, <2>3, <2>4, ReturningStep
<1>7. ASSUME NEW m, Arrives(m)
      PROVE  m \in Servers
  <2>1. returning # << >> => Head(returning) = << >>
    <3> SUFFICES ASSUME returning # << >>
                 PROVE  Head(returning) = << >>
      OBVIOUS
    <3>1. Len(returning) \in Nat /\ Len(returning) # 0
      BY <1>2, LenProperties, EmptySeq
    <3>2. Head(returning) = returning[1]
      BY <1>2
    <3> QED
      BY <1>3, <3>1, <3>2 DEF EchoesEmpty
  <2> QED
    BY <1>7, <2>1 DEF Arrives, Servers
<1>8. ComHolds(Servers)'
  <2>1. ComHolds(Servers) /\ Servers \subseteq Any
    BY <1>3, AnyFacts DEF EchoesEmpty
  <2>2. \A m : Arrives(m) => m \in Servers
    BY <1>7
  <2> QED
    BY <1>2, <2>1, <2>2, ComHeld
<1>9. /\ \A n \in DOMAIN sent' : sent'[n] \in Servers
      /\ slot' \in Servers /\ treated' \in Servers
  <2>1. CASE \E m \in Any : Arrives(m)
    <3>1. PICK m \in Any : Arrives(m)
      BY <2>1
    <3>2. sent' = Append(sent, m) /\ slot' = slot /\ treated' = treated
      BY <3>1 DEF Arrives, DP!Msgarrvd
    <3>3. m \in Servers
      BY <1>7, <3>1
    <3>4. sent \in Seq(Seq(DP!Octet)) /\ m \in Seq(DP!Octet)
      BY <1>2 DEF DP!TypeOK, Any
    <3> DEFINE V == Seq(DP!Octet)
    <3>5. sent \in Seq(V) /\ m \in V
      BY <3>4
    <3> HIDE DEF V
    <3>6. /\ Len(sent) \in Nat /\ DOMAIN sent = 1 .. Len(sent)
          /\ DOMAIN Append(sent, m) = 1 .. Len(sent) + 1
          /\ Append(sent, m)[Len(sent) + 1] = m
          /\ \A n \in 1 .. Len(sent) : Append(sent, m)[n] = sent[n]
      BY <3>5, AppendProperties, LenProperties
    <3>7. \A n \in 1 .. Len(sent) + 1 :
            n = Len(sent) + 1 \/ n \in 1 .. Len(sent)
      BY <3>6
    <3>8. \A n \in 1 .. Len(sent) : sent[n] \in Servers
      BY <1>3, <3>6 DEF EchoesEmpty
    <3>9. \A n \in DOMAIN sent' : sent'[n] \in Servers
      BY <3>2, <3>3, <3>6, <3>7, <3>8
    <3> QED
      BY <1>3, <3>2, <3>9 DEF EchoesEmpty
  <2>2. CASE DP!ReadHeader \/ KeepsBuffer
    <3>1. UNCHANGED <<sent, slot>> /\ (treated' = treated \/ treated' = slot)
      BY <2>2 DEF DP!ReadHeader, DP!historyVars, KeepsBuffer
    <3> QED
      BY <1>3, <3>1 DEF EchoesEmpty
  <2>3. CASE DP!Deliver
    <3>1. sent' = sent /\ treated' = treated
      BY <2>3 DEF DP!Deliver, DP!historyVars
    <3>2. slot' \in Servers
      BY <1>3, <2>3, DeliveryHeld DEF EchoesEmpty
    <3> QED
      BY <1>3, <3>1, <3>2 DEF EchoesEmpty
  <2> QED
    BY <1>2, <2>1, <2>2, <2>3, DownlinkStep
<1> QED
  BY <1>5, <1>6, <1>8, <1>9 DEF EchoesEmpty

-----------------------------------------------------------------------------
(***************************************************************************)
(* The wake-ups.                                                           *)
(***************************************************************************)
\* A report that fits is counted, and the count does not wrap to itself.
LEMMA ReportIsSeen ==
  ASSUME UP!TypeOK, UP!Framed, NEW i \in UP!Row, UP!FormJsonPacket(i),
         Len(Text[i]) > 0, ~truncated'
  PROVE  packetSum' # packetSum /\ mqBuf' # << >>
<1>1. /\ mqBuf' = UP!WritePacket(mqBuf, Text[i], MQTP_REPORT)
      /\ packetSum' = (packetSum + 1) % UIntWidth
      /\ truncated' = (truncated \/ ~UP!Fits(mqBuf, Text[i]))
  BY DEF UP!FormJsonPacket
<1>2. ~truncated /\ UP!Fits(mqBuf, Text[i])
  BY <1>1, Zenon
<1>3. mqBuf \in Seq(UP!Octet) /\ Len(mqBuf) \in Nat
  BY LenProperties DEF UP!TypeOK
<1>4. /\ Text[i] \in Seq(UP!Octet) /\ Len(Text[i]) < Base * Base
      /\ Len(Text[i]) \in Nat
      /\ MQTP_REPORT \in 0 .. Base * Base - 1
  <2>1. Text[i] \in Seq(UP!Octet)
    BY UplinkConstants, UP!Constants
  <2>2. Text[i] \in UP!Texts
    BY UplinkConstants, UP!TextFacts
  <2> QED
    BY <2>1, <2>2, UplinkConstants, UP!TextFacts, LenProperties
<1>5. UIntWidth > 1
  <2>1. 4 + Len(Text[i]) <= MqCap - Len(mqBuf)
    BY <1>2 DEF UP!Fits, UP!Room, UP!HeaderLen
  <2>2. MqCap \in Nat /\ UIntWidth \in Nat /\ MqCap < 4 * UIntWidth
    BY UplinkConstants
       DEF UP!CapAssumption, UP!WidthAssumption, UP!HeaderLen
  <2> QED
    BY <1>3, <1>4, <2>1, <2>2
<1>6. packetSum' # packetSum
  <2>1. packetSum \in 0 .. UIntWidth - 1 /\ UIntWidth \in Nat
    BY UplinkConstants DEF UP!TypeOK, UP!WidthAssumption
  <2>2. CASE packetSum = UIntWidth - 1
    <3>1. (packetSum + 1) % UIntWidth = 0
      BY <1>5, <2>1, <2>2
    <3> QED
      BY <1>1, <1>5, <2>1, <2>2, <3>1
  <2>3. CASE packetSum # UIntWidth - 1
    <3>1. (packetSum + 1) % UIntWidth = packetSum + 1
      BY <1>5, <2>1, <2>3
    <3> QED
      BY <1>1, <2>1, <3>1
  <2> QED
    BY <2>2, <2>3
<1>7. mqBuf' # << >>
  <2> DEFINE e == [port |-> MQTP_REPORT, payload |-> Text[i], whole |-> TRUE]
  <2>1. UP!AllWhole(mqBuf)
    BY <1>2, UplinkConstants, UP!HoldsOnlyWhole
       DEF UP!Framed, UP!PacketSumCounts
  <2>2. UP!Packets[mqBuf'] = Append(UP!Packets[mqBuf], e)
    BY <1>1, <1>2, <1>3, <1>4, <2>1, UplinkConstants, UP!WritePacketAdds
  <2>3. UP!Packets[mqBuf] \in Seq(UP!PacketSet) /\ e \in UP!PacketSet
    BY <1>3, <1>4, UplinkConstants, UP!PacketsTyped DEF UP!PacketSet
  <2> HIDE DEF e
  <2>4. Len(UP!Packets[mqBuf']) = Len(UP!Packets[mqBuf]) + 1
    BY <2>2, <2>3, AppendProperties
  <2>5. Len(UP!Packets[mqBuf]) \in Nat
    BY <2>3, LenProperties
  <2>6. Len(UP!Packets[<< >>]) = 0
    BY UplinkConstants, UP!NoPackets, EmptySeq
  <2> QED
    BY <2>4, <2>5, <2>6
<1> QED
  BY <1>6, <1>7

LEMMA SamplerPays ==
  ASSUME UP!TypeOK, UP!Framed, WakeupsArePaid, Sampler, ~truncated'
  PROVE  WakeupsArePaid'
<1>1. written' = (written \/ packetSum' # packetSum) /\ UP!Sampler
  BY SameSampler DEF Sampler
<1>2. (written => written') /\ (packetSum' # packetSum => written')
  BY <1>1, Zenon
<1>3. CASE UP!Sample
  BY <1>2, <1>3
     DEF WakeupsArePaid, UP!Sample, UP!bufVars, IsStray, U!Topic
<1>4. ASSUME NEW i \in UP!Row, UP!FormJsonPacket(i)
      PROVE  WakeupsArePaid'
  <2>1. pubPc' = pubPc /\ pubPc # "publish"
    BY <1>4 DEF UP!FormJsonPacket, UP!MqLockFree
  <2>2. CASE Len(Text[i]) > 0
    <3>1. packetSum' # packetSum /\ mqBuf' # << >>
      BY <1>4, <2>2, ReportIsSeen
    <3> QED
      BY <1>2, <2>1, <3>1 DEF WakeupsArePaid
  <2>3. CASE Len(Text[i]) = 0
    <3>1. UNCHANGED <<mqBuf, newPacket>>
      BY <1>4, <2>3 DEF UP!FormJsonPacket
    <3> QED
      BY <1>2, <2>1, <3>1 DEF WakeupsArePaid
  <2> QED
    BY <1>4, <2>2, <2>3 DEF UP!FormJsonPacket
<1>5. CASE UP!SignalPublisher
  <2>1. /\ pubPc # "publish" /\ newPacket' = FALSE
        /\ pubPc' = IF newPacket /\ pubPc = "wait" THEN "woken" ELSE pubPc
    BY <1>5 DEF UP!SignalPublisher, UP!MqLockFree
  <2> QED
    BY <1>2, <2>1 DEF WakeupsArePaid
<1> QED
  BY <1>1, <1>3, <1>4, <1>5 DEF UP!Sampler

LEMMA PublisherPays ==
  ASSUME UP!TypeOK, UP!Framed, WakeupsArePaid, Publisher, ~truncated
  PROVE  WakeupsArePaid'
<1>1. UNCHANGED newPacket /\ UP!Publisher
  <2>1. UP!Publisher
    BY SamePublisher DEF Publisher, Publish, U!Publisher
  <2> QED
    BY <2>1 DEF UP!Publisher, UP!FirstConnect, UP!Reconnect, UP!Connect,
                UP!Subscribe, UP!CheckConnected, UP!WaitForPacket,
                UP!TakePacket, UP!TakeAfterWait, UP!ReadPacket, UP!Publish,
                UP!WaitForCompletion, UP!sampleVars
<1>2. CASE Publish
  <2>1. /\ pubPc = "publish" /\ pubPc' = "complete"
        /\ written' = (written /\ ~IsStray(pkt))
    BY <1>2 DEF Publish, U!Publish
  <2> QED
    BY <1>1, <2>1 DEF WakeupsArePaid
<1>3. CASE UP!TakePacket \/ UP!TakeAfterWait
  <2>1. /\ pubPc \in {"lock", "woken"} /\ pubPc' = "publish"
        /\ pubPc = "lock" => packetSum # 0
        /\ pkt' = UP!HeadPacket(mqBuf)
    BY <1>3 DEF UP!TakePacket, UP!TakeAfterWait, UP!ReadPacket
  <2>2. written' = written
    BY <2>1 DEF Publisher, Publish, U!Publish
  <2>3. CASE mqBuf = << >>
    <3>1. pubPc = "woken"
      <4>1. packetSum = Len(UP!Packets[mqBuf])
        BY DEF UP!Framed, UP!PacketSumCounts
      <4>2. Len(UP!Packets[<< >>]) = 0
        BY UplinkConstants, UP!NoPackets, EmptySeq
      <4> QED
        BY <2>1, <2>3, <4>1, <4>2
    <3> QED
      BY <1>1, <2>1, <2>2, <2>3, <3>1 DEF WakeupsArePaid
  <2>4. CASE mqBuf # << >>
    <3>1. UP!HeadPort(mqBuf) = MQTP_REPORT
      BY <2>4, UplinkConstants, UP!HoldsOnlyHead
         DEF UP!TypeOK, UP!Framed, UP!PacketSumCounts
    <3>2. pkt'.port = MQTP_REPORT
      BY <2>1, <3>1 DEF UP!HeadPacket
    <3>3. ~IsStray(pkt)'
      BY <3>2 DEF IsStray, U!Topic
    <3> QED
      BY <1>1, <2>1, <2>2, <3>3 DEF WakeupsArePaid
  <2> QED
    BY <2>3, <2>4
<1>4. CASE /\ ~Publish
           /\ \/ UP!FirstConnect \/ UP!Reconnect \/ UP!Subscribe
              \/ UP!CheckConnected \/ UP!WaitForPacket \/ UP!WaitForCompletion
  <2>1. pubPc' \notin {"woken", "publish"}
    BY <1>4 DEF UP!FirstConnect, UP!Reconnect, UP!Connect, UP!Subscribe,
                UP!CheckConnected, UP!WaitForPacket, UP!WaitForCompletion
  <2>2. written' = written
    BY <1>4 DEF Publisher
  <2> QED
    BY <1>1, <2>1, <2>2 DEF WakeupsArePaid
<1>5. UP!Publish => Publish
  BY SamePublish DEF Publisher, UP!Publish
<1> QED
  BY <1>1, <1>2, <1>3, <1>4, <1>5 DEF UP!Publisher

LEMMA WakeupsArePaidStep ==
  ASSUME SystemInv, [Next]_vars, ComIntact', ~truncated', ~spurious'
  PROVE  WakeupsArePaid'
<1>1. ComIntact
  BY NotedForGood
<1>2. UP!TypeOK /\ UP!Framed /\ disp # "forward"
  BY <1>1 DEF SystemInv, Messages, ComHolds
<1>3. ~truncated /\ ~spurious
  BY <1>1, <1>2, NotedForGood
<1>4. WakeupsArePaid
  BY <1>1, <1>3 DEF SystemInv
<1>5. CASE Sampler
  BY <1>2, <1>4, <1>5, SamplerPays
<1>6. CASE Publisher
  BY <1>2, <1>3, <1>4, <1>6, PublisherPays
<1>7. CASE ~Sampler /\ ~Publisher
  <2>1. UNCHANGED <<newPacket, pubPc, mqBuf, pkt, written>>
    <3>1. ~SpuriousWakeup
      BY DEF SpuriousWakeup, D!SpuriousWakeup
    <3>2. CASE Delivered \/ ConnectionLost
      BY <3>2 DEF Delivered, U!Delivered, ConnectionLost, U!ConnectionLost,
                  U!bufVars, U!sampleVars
    <3>3. CASE ServerSends \/ EchoArrives \/ Dispatcher \/ ComThread
                 \/ UNCHANGED vars
      BY <1>2, <3>3 DEF ServerSends, EchoArrives, Dispatcher, Forward,
                        D!Forward, ComThread, upVars, vars
    <3> QED
      BY <1>7, <3>1, <3>2, <3>3 DEF Next
  <2> QED
    BY <1>4, <2>1 DEF WakeupsArePaid, IsStray, U!Topic
<1> QED
  BY <1>5, <1>6, <1>7

LEMMA InvAlways == Spec => []SystemInv
<1>1. SystemInv /\ [Next]_vars => SystemInv'
  <2> SUFFICES ASSUME SystemInv, [Next]_vars, ComIntact'
               PROVE  SystemInv'
    BY DEF SystemInv
  <2> QED
    BY PartsStep, MessagesStep, EchoesEmptyStep, WakeupsArePaidStep
       DEF SystemInv
<1> QED
  BY <1>1, InvInit, PTL DEF Spec

-----------------------------------------------------------------------------
(***************************************************************************)
(* The stray messages of mqttPubThread come back on the control topic, and *)
(* however the five threads and the broker interleave: as long as no       *)
(* packet is cut short and no message overruns RecvBuff4treat they are     *)
(* empty, and what comThread treats is a message of the server, whole, or  *)
(* empty.                                                                  *)
(***************************************************************************)
THEOREM StraysAreEmpty == Spec => []ControlIsServers
<1>1. SystemInv => ControlIsServers
  BY DEF SystemInv, EchoesEmpty, Servers, Whole, ControlIsServers
<1> QED
  BY <1>1, InvAlways, PTL

(***************************************************************************)
(* An echo of a stray message does not cause the next one: each costs a    *)
(* report of sampleDataThread that was written since the last, unless a    *)
(* wait returned without a signal.                                         *)
(***************************************************************************)
THEOREM StraysDoNotBreed == Spec => StrayNeedsReport
<1>1. SystemInv /\ Whole /\ ~spurious /\ pubPc = "publish" /\ IsStray(pkt)
        => written
  BY DEF SystemInv, WakeupsArePaid, Whole
<1> QED
  BY <1>1, InvAlways, PTL DEF StrayNeedsReport

(***************************************************************************)
(* Until a control message is cut short or overruns RecvBuff4treat the     *)
(* dispatcher never writes into mqBuff: every step is one of Uplink or     *)
(* leaves the reporting path alone, so that what is proved of Uplink holds *)
(* of the whole program.                                                   *)
(***************************************************************************)
THEOREM UplinkImplemented == Spec => ImplementsUplink
<1>1. SystemInv /\ [Next]_vars => (ComIntact' => [U!Next]_upVars)
  <2> SUFFICES ASSUME SystemInv, [Next]_vars, ComIntact'
               PROVE  [U!Next]_upVars
    OBVIOUS
  <2>1. disp # "forward"
    BY NotedForGood DEF SystemInv, Messages, ComHolds
  <2> QED
    BY <2>1, UplinkStep
<1> QED
  BY <1>1, InvAlways, PTL DEF Spec, ImplementsUplink

(***************************************************************************)
(* What sampleDataThread and mqttPubThread keep to by themselves they also *)
(* keep to beside the dispatcher, the broker's echoes and the messages of  *)
(* the server: until a control message is cut short or overruns            *)
(* RecvBuff4treat, packetSum is the number of packets in mqBuff, and       *)
(* pubBuf is long enough for them.                                         *)
(***************************************************************************)
THEOREM ReportsKeptApart ==
  Spec => [](ComIntact => UP!PacketSumCounts /\ UP!PubBufSuffices)
<1>1. SystemInv => (ComIntact => UP!PacketSumCounts /\ UP!PubBufSuffices)
  BY DEF SystemInv, UP!Framed
<1> QED
  BY <1>1, InvAlways, PTL
=============================================================================
