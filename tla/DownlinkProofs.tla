--------------------------- MODULE DownlinkProofs ---------------------------
(***************************************************************************)
(* Proofs about the control path, for any messages and any buffer size.    *)
(***************************************************************************)
EXTENDS DownlinkProperties, PacketProofs

LEMMA PeekBytesIsBytes ==
  ASSUME NEW buf \in Seq(Octet), NEW from \in Nat, NEW n \in Nat
  PROVE  PeekBytes(buf, from, n) \in Seq(Octet)
<1>1. \A k \in 1 .. n : PeekByte(buf, from + k) \in Octet
  BY PeekByteIsOctet
<1> QED
  BY <1>1 DEF PeekBytes

LEMMA DropBytesFits ==
  ASSUME NEW buf \in Seq(Octet), Len(buf) <= Cap, NEW n \in Nat
  PROVE  DropBytes(buf, n) \in Seq(Octet) /\ Len(DropBytes(buf, n)) <= Cap
BY SubSeqProperties, LenProperties, CapAssumption DEF DropBytes

LEMMA HeadIsTyped ==
  ASSUME NEW buf \in Seq(Octet)
  PROVE  [port |-> HeadPort(buf), len |-> HeadLen(buf)]
           \in [port : 0 .. Base * Base - 1, len : 0 .. Base * Base - 1]
<1>1. HeadPort(buf) \in 0 .. Base * Base - 1
  BY PeekByteIsOctet, WordIsInt16 DEF HeadPort
<1>2. HeadLen(buf) \in 0 .. Base * Base - 1
  BY PeekByteIsOctet, WordIsInt16 DEF HeadLen
<1> QED
  BY <1>1, <1>2

LEMMA HeadLenIsNat ==
  ASSUME TypeOK
  PROVE  head.len \in Nat
BY BaseAssumption DEF TypeOK

-----------------------------------------------------------------------------
LEMMA InitTyped == Init => TypeOK
<1> SUFFICES ASSUME Init
             PROVE  TypeOK
  OBVIOUS
<1>1. << >> \in Seq(Octet) /\ Len(<< >>) = 0 /\ << >> \in Seq(Seq(Octet))
  BY EmptySeq
<1>2. head \in [port : 0 .. Base * Base - 1, len : 0 .. Base * Base - 1]
  BY DownPortAssumption, BaseAssumption DEF Init, NoHead
<1>3. comBuf \in Seq(Octet) /\ Len(comBuf) <= Cap
  BY <1>1, CapAssumption DEF Init
<1>4. /\ slot \in Seq(Octet) /\ treated \in Seq(Octet)
      /\ forwarded \in Seq(Octet) /\ sent \in Seq(Seq(Octet))
  BY <1>1 DEF Init
<1> QED
  BY <1>2, <1>3, <1>4 DEF Init, TypeOK

LEMMA MsgarrvdTyped ==
  ASSUME TypeOK, NEW m \in Seq(Octet), Msgarrvd(m)
  PROVE  TypeOK'
<1>1. MQTPC2DTU \in Nat
  BY DownPortAssumption, BaseAssumption
<1>2. comBuf' \in Seq(Octet) /\ Len(comBuf') <= Cap
  BY <1>1, WritePacketFits DEF TypeOK, Msgarrvd
<1>3. sent' \in Seq(Seq(Octet))
  BY AppendProperties DEF TypeOK, Msgarrvd
<1>4. disp' \in {"lock", "wait", "woken", "deliver", "forward", "stuck"}
  BY DEF TypeOK, Msgarrvd
<1>5. truncated' \in BOOLEAN /\ paced' \in BOOLEAN
  BY DEF TypeOK, Msgarrvd
<1> QED
  BY <1>2, <1>3, <1>4, <1>5 DEF TypeOK, Msgarrvd

LEMMA DispatcherTyped ==
  ASSUME TypeOK, Dispatcher
  PROVE  TypeOK'
<1>1. CASE DispatcherWaits
  BY <1>1 DEF TypeOK, DispatcherWaits, historyVars
<1>2. CASE ReadHeader
  <2>1. head' \in [port : 0 .. Base * Base - 1, len : 0 .. Base * Base - 1]
    BY <1>2, HeadIsTyped DEF TypeOK, ReadHeader
  <2>2. comBuf' \in Seq(Octet) /\ Len(comBuf') <= Cap
    BY <1>2, DropBytesFits DEF TypeOK, ReadHeader, HeaderLen
  <2>3. disp' \in {"deliver", "forward", "lock"}
    BY <1>2 DEF ReadHeader
  <2> QED
    BY <1>2, <2>1, <2>2, <2>3 DEF TypeOK, ReadHeader, historyVars
<1>3. CASE NothingToRead
  BY <1>3 DEF TypeOK, NothingToRead, historyVars
<1>4. CASE Deliver
  <2>1. comBuf' \in Seq(Octet) /\ Len(comBuf') <= Cap
    BY <1>4, HeadLenIsNat, DropBytesFits DEF TypeOK, Deliver
  <2>2. slot' \in Seq(Octet)
    BY <1>4, HeadLenIsNat, PeekBytesIsBytes DEF TypeOK, Deliver
  <2>3. com' \in {"lock", "wait", "woken", "treat"}
    BY <1>4 DEF TypeOK, Deliver
  <2> QED
    BY <1>4, <2>1, <2>2, <2>3 DEF TypeOK, Deliver, historyVars
<1>5. CASE DeliverOutside
  <2>1. comBuf' \in Seq(Octet) /\ Len(comBuf') <= Cap
    BY <1>5, HeadLenIsNat, DropBytesFits DEF TypeOK, DeliverOutside
  <2>2. slot' \in Seq(Octet)
    BY <1>5, RecvAssumption, PeekBytesIsBytes DEF TypeOK, DeliverOutside
  <2>3. com' \in {"lock", "wait", "woken", "treat"}
    BY <1>5 DEF TypeOK, DeliverOutside
  <2>4. disp' \in {"lock", "stuck"} /\ overrun' = TRUE
    BY <1>5 DEF DeliverOutside
  <2> QED
    BY <1>5, <2>1, <2>2, <2>3, <2>4 DEF TypeOK, DeliverOutside
<1>6. CASE Forward
  <2>1. comBuf' \in Seq(Octet) /\ Len(comBuf') <= Cap
    BY <1>6, HeadLenIsNat, DropBytesFits DEF TypeOK, Forward
  <2>2. forwarded' \in Seq(Octet)
    BY <1>6, HeadLenIsNat, PeekBytesIsBytes DEF TypeOK, Forward
  <2> QED
    BY <1>6, <2>1, <2>2 DEF TypeOK, Forward
<1> QED
  BY <1>1, <1>2, <1>3, <1>4, <1>5, <1>6 DEF Dispatcher

LEMMA NextTyped == TypeOK /\ [Next]_vars => TypeOK'
<1> SUFFICES ASSUME TypeOK, [Next]_vars
             PROVE  TypeOK'
  OBVIOUS
<1>1. CASE Broker
  <2>1. PICK m \in Msg : Msgarrvd(m)
    BY <1>1 DEF Broker
  <2>2. m \in Seq(Octet)
    BY MsgAssumption
  <2> QED
    BY <2>1, <2>2, MsgarrvdTyped
<1>2. CASE Dispatcher
  BY <1>2, DispatcherTyped
<1>3. CASE ComThread
  BY <1>3 DEF TypeOK, ComThread, ComWaits, StartTreat, EndTreat,
                historyVars
<1>4. CASE SpuriousWakeup
  BY <1>4 DEF TypeOK, SpuriousWakeup
<1>5. CASE UNCHANGED vars
  BY <1>5 DEF TypeOK, vars, historyVars
<1> QED
  BY <1>1, <1>2, <1>3, <1>4, <1>5 DEF Next

(***************************************************************************)
(* Whatever the messages and however the buffer overflows, what is read as *)
(* a header stays a pair of 16-bit numbers and the buffer keeps its bound. *)
(***************************************************************************)
THEOREM DownlinkTypeCorrect == Spec => []TypeOK
BY InitTyped, NextTyped, PTL DEF Spec

-----------------------------------------------------------------------------
(***************************************************************************)
(* The packets of comBuff0.                                                *)
(***************************************************************************)
LEMMA MsgFacts ==
  /\ MQTPC2DTU \in 0 .. Base * Base - 1
  /\ \A m \in Msg : m \in Seq(Octet) /\ Len(m) \in Nat
BY MsgAssumption, DownPortAssumption, LenProperties

\* A message that fits has a length that fits into an INT16U.
LEMMA FittingIsShort ==
  ASSUME TypeOK, NEW m \in Msg, Fits(comBuf, m)
  PROVE  Len(m) < Base * Base
<1>1. Len(m) \in Nat /\ Len(comBuf) \in Nat /\ Base * Base \in Nat
  BY MsgFacts, LenProperties, BaseAssumption DEF TypeOK
<1>2. Cap \in Nat /\ Cap < Base * Base
  BY CapAssumption, RecvAssumption
<1> QED
  BY <1>1, <1>2 DEF Fits, Room, HeaderLen

LEMMA DropBytesIs ==
  ASSUME NEW buf \in Seq(Octet), NEW n \in Nat
  PROVE  /\ DropBytes(buf, n) \in Seq(Octet)
         /\ Len(DropBytes(buf, n)) = IF n <= Len(buf) THEN Len(buf) - n ELSE 0
         /\ \A i \in 1 .. Len(DropBytes(buf, n)) :
              DropBytes(buf, n)[i] = buf[n + i]
<1>1. Len(buf) \in Nat /\ \A i \in n + 1 .. Len(buf) : buf[i] \in Octet
  BY LenProperties, ElementOfSeq
<1>2. /\ SubSeq(buf, n + 1, Len(buf)) \in Seq(Octet)
      /\ Len(SubSeq(buf, n + 1, Len(buf)))
           = IF n + 1 <= Len(buf) THEN Len(buf) - (n + 1) + 1 ELSE 0
      /\ \A i \in 1 .. Len(buf) - (n + 1) + 1 :
           SubSeq(buf, n + 1, Len(buf))[i] = buf[n + 1 + i - 1]
  BY <1>1, SubSeqProperties
<1> QED
  BY <1>1, <1>2 DEF DropBytes

\* A packet read in two steps is the packet that is read at once.
LEMMA ReadInTwoSteps ==
  ASSUME NEW buf \in Seq(Octet)
  PROVE  /\ PeekBytes(DropBytes(buf, HeaderLen), 0, HeadLen(buf)) = HeadPayload(buf)
         /\ DropBytes(DropBytes(buf, HeaderLen), HeadLen(buf)) = AfterHead(buf)
<1> DEFINE n == HeadLen(buf)
           d == DropBytes(buf, 4)
<1>1. n \in Nat /\ Len(buf) \in Nat
  BY HeadOfBuffer, BaseAssumption, LenProperties
<1>2. /\ d \in Seq(Octet)
      /\ Len(d) = IF 4 <= Len(buf) THEN Len(buf) - 4 ELSE 0
      /\ \A i \in 1 .. Len(d) : d[i] = buf[4 + i]
  BY DropBytesIs
<1> HIDE DEF d, n
<1>3. \A k \in 1 .. n : PeekByte(d, 0 + k) = PeekByte(buf, 4 + k)
  BY <1>1, <1>2 DEF PeekByte
<1>4. PeekBytes(d, 0, n) = PeekBytes(buf, 4, n)
  BY <1>3 DEF PeekBytes
<1> DEFINE a == DropBytes(d, n)
           b == DropBytes(buf, 4 + n)
<1>5. /\ a \in Seq(Octet)
      /\ Len(a) = IF n <= Len(d) THEN Len(d) - n ELSE 0
      /\ \A i \in 1 .. Len(a) : a[i] = d[n + i]
  BY <1>1, <1>2, DropBytesIs
<1>6. /\ b \in Seq(Octet)
      /\ Len(b) = IF 4 + n <= Len(buf) THEN Len(buf) - (4 + n) ELSE 0
      /\ \A i \in 1 .. Len(b) : b[i] = buf[4 + n + i]
  BY <1>1, DropBytesIs
<1> HIDE DEF a, b
<1>7. Len(a) = Len(b)
  BY <1>1, <1>2, <1>5, <1>6
<1>8. \A i \in 1 .. Len(a) : a[i] = b[i]
  <2> SUFFICES ASSUME NEW i \in 1 .. Len(a) PROVE a[i] = b[i]
    OBVIOUS
  <2>1. n + i \in 1 .. Len(d)
    BY <1>1, <1>2, <1>5
  <2>2. a[i] = buf[4 + (n + i)] /\ b[i] = buf[4 + n + i]
    BY <1>2, <1>5, <1>6, <1>7, <2>1
  <2>3. 4 + (n + i) = 4 + n + i
    BY <1>1
  <2> QED
    BY <2>2, <2>3
<1>9. a = b
  BY <1>5, <1>6, <1>7, <1>8, SeqEqual
<1> QED
  BY <1>4, <1>9 DEF HeadPayload, AfterHead, HeaderLen, a, b, d, n

\* The packets behind the one the dispatcher has in its hands.
Behind == IF disp = "deliver" THEN DropBytes(comBuf, head.len) ELSE comBuf

\* Until then comBuff0 has nothing but messages in it.
Framed ==
  Intact => /\ HoldsOnly(Behind, MQTPC2DTU, Msg)
            /\ disp = "deliver" => PeekBytes(comBuf, 0, head.len) \in Msg
            /\ disp # "forward"

\* One step of the backlog: a message comes, one is delivered, or nothing.
BacklogStep ==
  \/ \E m \in Msg : /\ IsNew(m)
                    /\ sent' = Append(sent, m)
                    /\ Backlog' = Append(Backlog, m)
                    /\ UNCHANGED <<slot, com, treated, spurious>>
  \/ /\ Deliver
     /\ Backlog = <<slot'>> \o Backlog'
     /\ UNCHANGED <<sent, treated, spurious>>
  \/ /\ UNCHANGED <<Backlog, sent, slot>>
     /\ \/ StartTreat
        \/ treated' = treated /\ com' # "woken" /\ spurious' = spurious
        \/ treated' = treated /\ com' = com /\ spurious' = spurious
        \/ treated' = treated /\ spurious'

LEMMA MsgarrvdAppends ==
  ASSUME TypeOK, Framed, NEW m \in Msg, Msgarrvd(m), Intact'
  PROVE  Framed' /\ Backlog' = Append(Backlog, m)
<1>1. /\ disp \notin {"deliver", "forward"} /\ disp' \notin {"deliver", "forward"}
      /\ comBuf' = WritePacket(comBuf, m, MQTPC2DTU)
      /\ truncated' = (truncated \/ ~Fits(comBuf, m)) /\ overrun' = overrun
  BY DEF Msgarrvd, ComLockFree
<1>2. Intact /\ Fits(comBuf, m)
  BY <1>1, Zenon DEF Intact
<1>3. HoldsOnly(comBuf, MQTPC2DTU, Msg) /\ AllWhole(comBuf)
  BY <1>1, <1>2, HoldsOnlyWhole DEF Framed, Behind
<1>4. HoldsOnly(comBuf', MQTPC2DTU, Msg)
  BY <1>1, <1>2, <1>3, MsgFacts, FittingIsShort, HoldsOnlyWrite DEF TypeOK
<1>5. Framed'
  BY <1>1, <1>4 DEF Framed, Behind, HoldsOnly
<1>6. Payloads(comBuf') = Append(Payloads(comBuf), m)
  BY <1>1, <1>2, <1>3, MsgFacts, FittingIsShort, WritePacketAddsPayload
     DEF TypeOK
<1>7. Backlog' = Payloads(comBuf') /\ Backlog = Payloads(comBuf)
  BY <1>1 DEF Backlog, Payloads
<1> QED
  BY <1>5, <1>6, <1>7

LEMMA ReadHeaderKeeps ==
  ASSUME TypeOK, Framed, ReadHeader, Intact'
  PROVE  Framed' /\ Backlog' = Backlog
<1>1. /\ disp = "woken" /\ comBuf # << >> /\ Intact
      /\ comBuf' = DropBytes(comBuf, HeaderLen)
      /\ head'.port = HeadPort(comBuf) /\ head'.len = HeadLen(comBuf)
  BY DEF ReadHeader, historyVars, Intact
<1>2. HoldsOnly(comBuf, MQTPC2DTU, Msg)
  BY <1>1 DEF Framed, Behind
<1>3. /\ HeadPort(comBuf) = MQTPC2DTU
      /\ HeadPayload(comBuf) \in Msg
      /\ HoldsOnly(AfterHead(comBuf), MQTPC2DTU, Msg)
  BY <1>1, <1>2, HoldsOnlyHead DEF TypeOK
<1>4. disp' = "deliver"
  BY <1>1, <1>3, DownPortAssumption DEF ReadHeader
<1>5. /\ PeekBytes(comBuf', 0, head'.len) = HeadPayload(comBuf)
      /\ DropBytes(comBuf', head'.len) = AfterHead(comBuf)
  BY <1>1, ReadInTwoSteps DEF TypeOK
<1>6. Framed'
  BY <1>3, <1>4, <1>5 DEF Framed, Behind, HoldsOnly
<1>7. Backlog' = <<HeadPayload(comBuf)>> \o Payloads(AfterHead(comBuf))
  BY <1>4, <1>5 DEF Backlog, Payloads
<1>8. Backlog = Payloads(comBuf)
  BY <1>1 DEF Backlog
<1> QED
  BY <1>1, <1>6, <1>7, <1>8, PayloadsCons DEF TypeOK

LEMMA DeliverTakes ==
  ASSUME TypeOK, Framed, Deliver, Intact'
  PROVE  Framed' /\ Backlog = <<slot'>> \o Backlog'
<1>1. /\ disp = "deliver" /\ disp' = "lock" /\ Intact
      /\ comBuf' = DropBytes(comBuf, head.len)
      /\ slot' = PeekBytes(comBuf, 0, head.len)
  BY DEF Deliver, historyVars, Intact
<1>2. HoldsOnly(comBuf', MQTPC2DTU, Msg)
  BY <1>1 DEF Framed, Behind
<1>3. Framed'
  BY <1>1, <1>2 DEF Framed, Behind, HoldsOnly
<1>4. Backlog = <<slot'>> \o Payloads(comBuf') /\ Backlog' = Payloads(comBuf')
  BY <1>1 DEF Backlog, Payloads
<1> QED
  BY <1>3, <1>4

LEMMA OthersKeep ==
  ASSUME TypeOK, Framed, Intact',
         \/ DispatcherWaits \/ NothingToRead \/ ComThread \/ SpuriousWakeup
         \/ UNCHANGED vars
  PROVE  Framed' /\ Backlog' = Backlog
<1>1. /\ comBuf' = comBuf /\ head' = head /\ Intact' = Intact
  BY DEF DispatcherWaits, NothingToRead, ComThread, ComWaits, StartTreat,
         EndTreat, SpuriousWakeup, vars, historyVars, Intact
<1>2. /\ disp' = "deliver" <=> disp = "deliver"
      /\ disp' = "forward" <=> disp = "forward"
  BY DEF DispatcherWaits, NothingToRead, ComThread, ComWaits, StartTreat,
         EndTreat, SpuriousWakeup, vars
<1>3. Behind' = Behind /\ Backlog' = Backlog
  BY <1>1, <1>2 DEF Behind, Backlog, Payloads
<1> QED
  BY <1>1, <1>2, <1>3 DEF Framed, HoldsOnly

LEMMA FramedStep ==
  ASSUME TypeOK, Framed, [Next]_vars
  PROVE  Framed' /\ (Intact' => BacklogStep)
<1>1. CASE ~Intact' \/ DeliverOutside
  BY <1>1 DEF Framed, DeliverOutside, Intact
<1>2. CASE Intact' /\ Broker
  <2>1. PICK m \in Msg : IsNew(m) /\ Msgarrvd(m)
    BY <1>2 DEF Broker
  <2>2. Framed' /\ Backlog' = Append(Backlog, m)
    BY <1>2, <2>1, MsgarrvdAppends
  <2>3. sent' = Append(sent, m) /\ UNCHANGED <<slot, com, treated, spurious>>
    BY <2>1 DEF Msgarrvd
  <2> QED
    BY <2>1, <2>2, <2>3 DEF BacklogStep
<1>3. CASE Intact' /\ ReadHeader
  <2>1. Framed' /\ Backlog' = Backlog
    BY <1>3, ReadHeaderKeeps
  <2>2. UNCHANGED <<sent, slot, treated, com, spurious>>
    BY <1>3 DEF ReadHeader, historyVars
  <2> QED
    BY <2>1, <2>2 DEF BacklogStep
<1>4. CASE Intact' /\ Deliver
  <2>1. Framed' /\ Backlog = <<slot'>> \o Backlog'
    BY <1>4, DeliverTakes
  <2>2. UNCHANGED <<sent, treated, spurious>>
    BY <1>4 DEF Deliver, historyVars
  <2> QED
    BY <1>4, <2>1, <2>2 DEF BacklogStep
<1>5. CASE Intact' /\ Forward
  <2>1. disp = "forward" /\ Intact
    BY <1>5 DEF Forward, Intact
  <2> QED
    BY <2>1 DEF Framed
<1>6. CASE /\ Intact'
           /\ \/ DispatcherWaits \/ NothingToRead \/ ComThread
              \/ SpuriousWakeup \/ UNCHANGED vars
  <2>1. Framed' /\ Backlog' = Backlog
    BY <1>6, OthersKeep
  <2>2. UNCHANGED <<sent, slot>>
    BY <1>6 DEF DispatcherWaits, NothingToRead, ComThread, ComWaits,
                StartTreat, EndTreat, SpuriousWakeup, vars, historyVars
  <2>3. \/ StartTreat
        \/ treated' = treated /\ com' # "woken" /\ spurious' = spurious
        \/ treated' = treated /\ com' = com /\ spurious' = spurious
        \/ treated' = treated /\ spurious'
    BY <1>6 DEF DispatcherWaits, NothingToRead, ComThread, ComWaits, EndTreat,
                SpuriousWakeup, vars, historyVars
  <2> QED
    BY <2>1, <2>2, <2>3 DEF BacklogStep
<1> QED
  BY <1>1, <1>2, <1>3, <1>4, <1>5, <1>6 DEF Next, Dispatcher

-----------------------------------------------------------------------------
(***************************************************************************)
(* The order of the messages.                                              *)
(***************************************************************************)
\* How many messages were delivered, and the n-th; nothing comes before the
\* first.
Delivered == Len(sent) - Len(Backlog)
Nth(n) == IF n = 0 THEN << >> ELSE sent[n]

\* The backlog is what was sent and not delivered.
Recent == /\ Len(Backlog) <= Len(sent)
          /\ \A i \in 1 .. Len(Backlog) : Backlog[i] = sent[Delivered + i]

\* RecvBuff4treat has the last message delivered.  comThread took up that one
\* or an earlier one, an earlier one if it was signalled for it.
Handed == /\ slot = Nth(Delivered)
          /\ \E j \in 0 .. Delivered :
               treated = Nth(j) /\ (com = "woken" /\ ~spurious => j < Delivered)

InOrder == Intact => Recent /\ Handed

\* Each message is sent once.
Distinct == \A i, j \in 1 .. Len(sent) :
              sent[i] \in Msg /\ (sent[i] = sent[j] => i = j)

LEMMA BacklogTyped ==
  ASSUME TypeOK
  PROVE  /\ Backlog \in Seq(Seq(Octet)) /\ Len(Backlog) \in Nat
         /\ sent \in Seq(Seq(Octet)) /\ Len(sent) \in Nat
<1>1. Backlog \in Seq(Seq(Octet))
  <2>1. CASE disp = "deliver"
    <3> DEFINE V == Seq(Octet)
               e == PeekBytes(comBuf, 0, head.len)
               q == Payloads(DropBytes(comBuf, head.len))
    <3>1. e \in V /\ q \in Seq(V)
      BY HeadLenIsNat, PeekBytesIsBytes, DropBytesIs, PayloadsTyped DEF TypeOK
    <3> HIDE DEF e, q, V
    <3>2. <<e>> \o q \in Seq(V)
      BY <3>1, ConsProperties
    <3> QED
      BY <2>1, <3>2 DEF Backlog, e, q, V
  <2>2. CASE disp # "deliver"
    BY <2>2, PayloadsTyped DEF TypeOK, Backlog
  <2> QED
    BY <2>1, <2>2
<1> QED
  BY <1>1, LenProperties DEF TypeOK

LEMMA DistinctStep ==
  ASSUME TypeOK, Distinct, [Next]_vars
  PROVE  Distinct'
<1>1. CASE sent' = sent
  BY <1>1 DEF Distinct
<1>2. ASSUME NEW m \in Msg, IsNew(m), Msgarrvd(m)
      PROVE  Distinct'
  <2>1. sent \in Seq(Seq(Octet)) /\ Len(sent) \in Nat /\ m \in Seq(Octet)
    BY MsgFacts, LenProperties DEF TypeOK
  <2>2. /\ Len(sent') = Len(sent) + 1
        /\ \A i \in 1 .. Len(sent) : sent'[i] = sent[i]
        /\ sent'[Len(sent) + 1] = m
    BY <1>2, <2>1, AppendProperties DEF Msgarrvd
  <2>3. ASSUME NEW i \in 1 .. Len(sent'), NEW j \in 1 .. Len(sent')
        PROVE  sent'[i] \in Msg /\ (sent'[i] = sent'[j] => i = j)
    <3>1. i \in 1 .. Len(sent) \/ i = Len(sent) + 1
      BY <2>1, <2>2
    <3>2. j \in 1 .. Len(sent) \/ j = Len(sent) + 1
      BY <2>1, <2>2
    <3> QED
      BY <1>2, <2>2, <3>1, <3>2 DEF Distinct, IsNew
  <2> QED
    BY <2>3 DEF Distinct
<1>3. CASE Dispatcher \/ ComThread \/ SpuriousWakeup \/ UNCHANGED vars
  <2>1. sent' = sent
    BY <1>3 DEF Dispatcher, DispatcherWaits, ReadHeader, NothingToRead, Deliver,
                DeliverOutside, Forward, ComThread, ComWaits, StartTreat,
                EndTreat, SpuriousWakeup, vars, historyVars
  <2> QED
    BY <1>1, <2>1
<1> QED
  BY <1>2, <1>3 DEF Next, Broker

LEMMA ArrivalInOrder ==
  ASSUME TypeOK, Recent, Handed, NEW m \in Msg,
         sent' = Append(sent, m), Backlog' = Append(Backlog, m),
         UNCHANGED <<slot, com, treated, spurious>>
  PROVE  Recent' /\ Handed'
<1>1. /\ Backlog \in Seq(Seq(Octet)) /\ Len(Backlog) \in Nat
      /\ sent \in Seq(Seq(Octet)) /\ Len(sent) \in Nat
      /\ m \in Seq(Octet)
  BY BacklogTyped, MsgFacts
<1>2. /\ Len(sent') = Len(sent) + 1
      /\ \A i \in 1 .. Len(sent) : sent'[i] = sent[i]
      /\ sent'[Len(sent) + 1] = m
  BY <1>1, AppendProperties
<1>3. /\ Len(Backlog') = Len(Backlog) + 1
      /\ \A i \in 1 .. Len(Backlog) : Backlog'[i] = Backlog[i]
      /\ Backlog'[Len(Backlog) + 1] = m
  BY <1>1, AppendProperties
<1>4. Delivered' = Delivered /\ Delivered \in 0 .. Len(sent)
  BY <1>1, <1>2, <1>3 DEF Delivered, Recent
<1>5. Recent'
  <2>1. ASSUME NEW i \in 1 .. Len(Backlog')
        PROVE  Backlog'[i] = sent'[Delivered + i]
    <3>1. CASE i = Len(Backlog) + 1
      <4>1. Delivered + i = Len(sent) + 1
        BY <1>1, <3>1 DEF Delivered
      <4> QED
        BY <1>2, <1>3, <3>1, <4>1
    <3>2. CASE i # Len(Backlog) + 1
      <4>1. i \in 1 .. Len(Backlog) /\ Delivered + i \in 1 .. Len(sent)
        BY <1>1, <1>3, <3>2 DEF Delivered, Recent
      <4> QED
        BY <1>2, <1>3, <4>1 DEF Recent
    <3> QED
      BY <3>1, <3>2
  <2>2. Len(Backlog') <= Len(sent')
    BY <1>1, <1>2, <1>3 DEF Recent
  <2> QED
    BY <1>4, <2>1, <2>2 DEF Recent
<1>6. \A n \in 0 .. Delivered : Nth(n)' = Nth(n)
  BY <1>1, <1>2, <1>4 DEF Nth
<1>7. Handed'
  <2>1. slot' = Nth(Delivered)' /\ slot' = slot
    BY <1>4, <1>6 DEF Handed
  <2>2. PICK j \in 0 .. Delivered :
          treated = Nth(j) /\ (com = "woken" /\ ~spurious => j < Delivered)
    BY DEF Handed
  <2>3. treated' = Nth(j)' /\ (com' = "woken" /\ ~spurious' => j < Delivered')
    BY <1>4, <1>6, <2>2
  <2> QED
    BY <1>4, <2>1, <2>3 DEF Handed
<1> QED
  BY <1>5, <1>7

LEMMA DeliveryInOrder ==
  ASSUME TypeOK, TypeOK', Recent, Handed, Deliver,
         Backlog = <<slot'>> \o Backlog', UNCHANGED <<sent, treated, spurious>>
  PROVE  Recent' /\ Handed'
<1> DEFINE V == Seq(Octet)
<1>1. /\ Len(Backlog) \in Nat /\ Len(sent) \in Nat /\ Len(Backlog') \in Nat
      /\ Backlog' \in Seq(V) /\ slot' \in V
  <2>1. /\ Backlog' \in Seq(Seq(Octet)) /\ Len(Backlog') \in Nat
    BY BacklogTyped
  <2> QED
    BY <2>1, BacklogTyped DEF TypeOK
<1> HIDE DEF V
<1>2. /\ Len(Backlog) = Len(Backlog') + 1
      /\ Backlog[1] = slot'
      /\ \A n \in 1 .. Len(Backlog') : Backlog[n + 1] = Backlog'[n]
  BY <1>1, ConsProperties
<1>3. Delivered' = Delivered + 1 /\ Delivered \in Nat /\ Delivered + 1 <= Len(sent)
  BY <1>1, <1>2 DEF Delivered, Recent
<1>4. Recent'
  <2>1. ASSUME NEW i \in 1 .. Len(Backlog')
        PROVE  Backlog'[i] = sent[Delivered + 1 + i]
    <3>1. i + 1 \in 1 .. Len(Backlog) /\ Delivered + (i + 1) = Delivered + 1 + i
      BY <1>1, <1>2, <1>3
    <3> QED
      BY <1>2, <3>1 DEF Recent
  <2>2. Len(Backlog') <= Len(sent')
    BY <1>1, <1>2 DEF Recent
  <2> QED
    BY <1>3, <2>1, <2>2 DEF Recent
<1>5. Nth(Delivered)' = slot'
  <2>1. 1 \in 1 .. Len(Backlog)
    BY <1>1, <1>2
  <2>2. slot' = sent[Delivered + 1]
    BY <1>2, <2>1 DEF Recent
  <2> QED
    BY <1>3, <2>2 DEF Nth
<1>6. Handed'
  <2>1. PICK j \in 0 .. Delivered : treated = Nth(j)
    BY DEF Handed
  <2>2. treated' = Nth(j)' /\ j \in 0 .. Delivered' /\ j < Delivered'
    BY <1>3, <2>1 DEF Nth
  <2> QED
    BY <1>5, <2>2 DEF Handed
<1> QED
  BY <1>4, <1>6

LEMMA StaysBroken ==
  ASSUME [Next]_vars
  PROVE  /\ Intact' => Intact
         /\ truncated => truncated'
<1>1. /\ \/ truncated' = truncated
         \/ \E m \in Msg : truncated' = (truncated \/ ~Fits(comBuf, m))
      /\ overrun' = overrun \/ overrun' = TRUE
  BY DEF Next, Broker, Msgarrvd, Dispatcher, DispatcherWaits, ReadHeader,
         NothingToRead, Deliver, DeliverOutside, Forward, ComThread, ComWaits,
         StartTreat, EndTreat, SpuriousWakeup, vars, historyVars
<1>2. truncated => truncated'
  BY <1>1, Zenon
<1>3. overrun => overrun'
  BY <1>1, Zenon
<1> QED
  BY <1>2, <1>3 DEF Intact

LEMMA InOrderStep ==
  ASSUME TypeOK, TypeOK', Framed, InOrder, [Next]_vars
  PROVE  InOrder'
<1> SUFFICES ASSUME Intact'
             PROVE  Recent' /\ Handed'
  BY DEF InOrder
<1>1. BacklogStep
  BY FramedStep
<1>2. Intact
  BY StaysBroken
<1>3. Recent /\ Handed
  BY <1>2 DEF InOrder
<1>4. CASE \E m \in Msg : /\ sent' = Append(sent, m)
                         /\ Backlog' = Append(Backlog, m)
                         /\ UNCHANGED <<slot, com, treated, spurious>>
  BY <1>3, <1>4, ArrivalInOrder
<1>5. CASE /\ Deliver
           /\ Backlog = <<slot'>> \o Backlog'
           /\ UNCHANGED <<sent, treated, spurious>>
  BY <1>3, <1>5, DeliveryInOrder
<1>6. CASE /\ UNCHANGED <<Backlog, sent, slot>>
           /\ \/ StartTreat
              \/ treated' = treated /\ com' # "woken" /\ spurious' = spurious
              \/ treated' = treated /\ com' = com /\ spurious' = spurious
              \/ treated' = treated /\ spurious'
  <2>1. Recent' /\ Delivered' = Delivered /\ \A n : Nth(n)' = Nth(n)
    BY <1>3, <1>6 DEF Recent, Delivered, Nth
  <2>2. Delivered \in Nat
    BY <1>3, BacklogTyped DEF Recent, Delivered
  <2>3. CASE StartTreat
    <3>1. com' = "treat" /\ treated' = Nth(Delivered)
      BY <1>3, <2>3 DEF StartTreat, Handed
    <3> QED
      BY <1>3, <1>6, <2>1, <2>2, <3>1 DEF Handed
  <2>4. CASE /\ treated' = treated
             /\ \/ com' # "woken"
                \/ com' = com /\ spurious' = spurious
                \/ spurious'
    <3>1. PICK j \in 0 .. Delivered :
            treated = Nth(j) /\ (com = "woken" /\ ~spurious => j < Delivered)
      BY <1>3 DEF Handed
    <3>2. com' = "woken" /\ ~spurious' => j < Delivered
      BY <2>4, <3>1
    <3>3. slot' = Nth(Delivered)'
      BY <1>3, <1>6, <2>1 DEF Handed, Nth
    <3>4. treated' = Nth(j)'
      <4>1. sent' = sent /\ treated' = treated
        BY <1>6, <2>4
      <4> QED
        BY <3>1, <4>1 DEF Nth
    <3> QED
      BY <2>1, <3>2, <3>3, <3>4 DEF Handed
  <2> QED
    BY <1>6, <2>3, <2>4
<1> QED
  BY <1>1, <1>4, <1>5, <1>6 DEF BacklogStep

LEMMA NumberOfNth ==
  ASSUME TypeOK, Distinct, NEW n \in 0 .. Len(sent)
  PROVE  Number(Nth(n)) = n
<1>1. Len(sent) \in Nat
  BY LenProperties DEF TypeOK
<1>2. CASE n = 0
  <2>1. IsNew(<< >>)
    BY ContentsAssumption DEF IsNew, Distinct
  <2> QED
    BY <1>2, <2>1 DEF Nth, Number
<1>3. CASE n # 0
  <2>1. n \in 1 .. Len(sent) /\ Nth(n) = sent[n]
    BY <1>1, <1>3 DEF Nth
  <2>2. ~IsNew(sent[n])
    BY <2>1 DEF IsNew
  <2>3. \A k \in 1 .. Len(sent) : sent[k] = sent[n] => k = n
    BY <2>1 DEF Distinct
  <2> QED
    BY <2>1, <2>2, <2>3 DEF Number
<1> QED
  BY <1>2, <1>3

LEMMA OverrunStep ==
  ASSUME TypeOK, Framed, InOrder, SlotSuffices, [Next]_vars
  PROVE  SlotSuffices'
<1> SUFFICES ASSUME overrun', ~truncated'
             PROVE  \E n \in 1 .. Len(sent') : TooLong(sent'[n])
  BY DEF SlotSuffices, TooLong
<1>1. ~truncated
  BY StaysBroken
<1>2. sent \in Seq(Seq(Octet)) /\ Len(sent) \in Nat
  BY BacklogTyped
<1>3. \E n \in 1 .. Len(sent) : TooLong(sent[n])
  <2>1. CASE overrun
    BY <1>1, <2>1 DEF SlotSuffices
  <2>2. CASE ~overrun
    <3>1. disp = "deliver" /\ head.len >= RecvLen
      BY <2>2 DEF Next, Broker, Msgarrvd, Dispatcher, DispatcherWaits,
                  ReadHeader, NothingToRead, Deliver, DeliverOutside, Forward,
                  ComThread, ComWaits, StartTreat, EndTreat, SpuriousWakeup,
                  vars, historyVars
    <3> DEFINE V == Seq(Octet)
               e == PeekBytes(comBuf, 0, head.len)
               q == Payloads(DropBytes(comBuf, head.len))
    <3>2. e \in V /\ q \in Seq(V) /\ Backlog = <<e>> \o q
      BY <3>1, HeadLenIsNat, PeekBytesIsBytes, DropBytesIs, PayloadsTyped
         DEF TypeOK, Backlog
    <3>3. Len(e) = head.len /\ head.len \in Nat
      BY HeadLenIsNat DEF PeekBytes
    <3> HIDE DEF e, q, V
    <3>4. Len(Backlog) >= 1 /\ Backlog[1] = e
      BY <3>2, ConsProperties, LenProperties
    <3>5. Recent
      BY <1>1, <2>2 DEF InOrder, Intact
    <3>6. Len(Backlog) \in Nat
      BY BacklogTyped
    <3>7. Backlog[1] = sent[Delivered + 1] /\ Delivered + 1 \in 1 .. Len(sent)
      BY <1>2, <3>4, <3>5, <3>6 DEF Recent, Delivered
    <3>8. TooLong(e)
      BY <3>1, <3>3 DEF TooLong
    <3> QED
      BY <3>4, <3>7, <3>8
  <2> QED
    BY <2>1, <2>2
<1>4. PICK n \in 1 .. Len(sent) : TooLong(sent[n])
  BY <1>3
<1>5. n \in 1 .. Len(sent') /\ sent'[n] = sent[n]
  <2>1. CASE sent' = sent
    BY <2>1
  <2>2. CASE Broker
    <3>1. PICK m \in Msg : sent' = Append(sent, m)
      BY <2>2 DEF Broker, Msgarrvd
    <3>2. m \in Seq(Octet)
      BY MsgFacts
    <3> QED
      BY <1>2, <3>1, <3>2, AppendProperties
  <2>3. CASE Dispatcher \/ ComThread \/ SpuriousWakeup \/ UNCHANGED vars
    <3>1. sent' = sent
      BY <2>3 DEF Dispatcher, DispatcherWaits, ReadHeader, NothingToRead,
                  Deliver, DeliverOutside, Forward, ComThread, ComWaits,
                  StartTreat, EndTreat, SpuriousWakeup, vars, historyVars
    <3> QED
      BY <3>1
  <2> QED
    BY <2>2, <2>3 DEF Next
<1> QED
  BY <1>4, <1>5 DEF TooLong

\* The inductive invariant of the control path.
Ordered == Framed /\ InOrder /\ Distinct /\ SlotSuffices

LEMMA InitOrdered == Init => Ordered
<1> SUFFICES ASSUME Init
             PROVE  Ordered
  OBVIOUS
<1>1. Backlog = << >> /\ Behind = << >>
  BY NoPayloads DEF Init, Backlog, Behind
<1>2. Len(sent) = 0 /\ Len(Backlog) = 0 /\ Delivered = 0
  BY <1>1, EmptySeq DEF Init, Delivered
<1>3. Framed
  BY <1>1, HoldsNothing DEF Init, Framed
<1>4. Recent
  BY <1>2 DEF Recent
<1>5. Handed
  BY <1>2 DEF Init, Handed, Nth
<1>6. Distinct
  BY <1>2 DEF Distinct
<1>7. SlotSuffices
  BY DEF Init, SlotSuffices
<1> QED
  BY <1>3, <1>4, <1>5, <1>6, <1>7 DEF Ordered, InOrder

LEMMA OrderedAlways == Spec => [](TypeOK /\ Ordered)
<1>1. TypeOK /\ Ordered /\ [Next]_vars => TypeOK' /\ Ordered'
  BY NextTyped, FramedStep, InOrderStep, DistinctStep, OverrunStep DEF Ordered
<1> QED
  BY <1>1, InitTyped, InitOrdered, PTL DEF Spec

(***************************************************************************)
(* For any messages and any size of comBuff0: until msgarrvd overfills it  *)
(* or a message overruns RecvBuff4treat, it holds the messages that were   *)
(* not delivered, whole and in the order they arrived, and the dispatcher  *)
(* takes none for a packet of another port.                                *)
(***************************************************************************)
THEOREM BacklogIsMostRecent == Spec => []BacklogIsRecent
<1>1. TypeOK /\ Ordered => BacklogIsRecent
  <2> SUFFICES ASSUME TypeOK, Framed, Recent, Intact
               PROVE  /\ \E k \in 0 .. Len(sent) :
                            Backlog = SubSeq(sent, k + 1, Len(sent))
                      /\ disp # "forward"
    BY DEF Ordered, InOrder, BacklogIsRecent
  <2> DEFINE k == Delivered
             rest == SubSeq(sent, k + 1, Len(sent))
  <2>1. /\ Backlog \in Seq(Seq(Octet)) /\ Len(Backlog) \in Nat
        /\ sent \in Seq(Seq(Octet)) /\ Len(sent) \in Nat
    BY BacklogTyped
  <2>2. k \in 0 .. Len(sent) /\ Len(Backlog) = Len(sent) - k
    BY <2>1 DEF Recent, Delivered
  <2> HIDE DEF k
  <2>3. /\ rest \in Seq(Seq(Octet))
        /\ Len(rest) = Len(sent) - k
        /\ \A i \in 1 .. Len(sent) - k : rest[i] = sent[k + i]
    <3>1. \A i \in k + 1 .. Len(sent) : sent[i] \in Seq(Octet)
      BY <2>1, <2>2, ElementOfSeq
    <3>2. /\ rest \in Seq(Seq(Octet))
          /\ Len(rest) = IF k + 1 <= Len(sent) THEN Len(sent) - (k + 1) + 1 ELSE 0
          /\ \A i \in 1 .. Len(sent) - (k + 1) + 1 : rest[i] = sent[k + 1 + i - 1]
      BY <2>1, <2>2, <3>1, SubSeqProperties
    <3> HIDE DEF rest
    <3>3. k \in Int /\ Len(sent) \in Int /\ k <= Len(sent)
      BY <2>1, <2>2
    <3>4. Len(rest) = Len(sent) - k
      <4>1. CASE k + 1 <= Len(sent)
        <5>1. Len(rest) = Len(sent) - (k + 1) + 1
          BY <3>2, <4>1
        <5> QED
          BY <3>3, <5>1
      <4>2. CASE ~(k + 1 <= Len(sent))
        <5>1. Len(rest) = 0
          BY <3>2, <4>2
        <5> QED
          BY <3>3, <4>2, <5>1
      <4> QED
        BY <4>1, <4>2
    <3>5. ASSUME NEW i \in 1 .. Len(sent) - k
          PROVE  rest[i] = sent[k + i]
      <4>1. i \in 1 .. Len(sent) - (k + 1) + 1 /\ k + 1 + i - 1 = k + i
        BY <3>3
      <4> QED
        BY <3>2, <4>1
    <3> QED
      BY <3>2, <3>4, <3>5
  <2> HIDE DEF rest
  <2>4. \A i \in 1 .. Len(Backlog) : Backlog[i] = rest[i]
    BY <2>2, <2>3 DEF Recent, k
  <2>5. Backlog = rest
    BY <2>1, <2>2, <2>3, <2>4, SeqEqual
  <2> QED
    BY <2>2, <2>5 DEF rest, Framed
<1> QED
  BY <1>1, OrderedAlways, PTL

(***************************************************************************)
(* Nothing compares the length that the dispatcher reads with the size of  *)
(* RecvBuff4treat, and nothing bounds the messages.  Still no framing      *)
(* error of comBuff0 makes it write behind data: until a packet is cut     *)
(* short the only cause is a message of RecvLen bytes or more.             *)
(***************************************************************************)
THEOREM OverrunOnlyByTooLong == Spec => []SlotSuffices
BY OrderedAlways, PTL DEF Ordered

(***************************************************************************)
(* RecvBuff4treat is overwritten without asking and comThread takes what   *)
(* it finds: still it never goes back to an earlier message and never      *)
(* treats a part of one.                                                   *)
(***************************************************************************)
THEOREM NeverGoesBack == Spec => TreatedInOrder
<1>1. TypeOK /\ Ordered /\ Intact /\ slot # << >>
        => Number(slot) # 0 /\ Number(slot) >= Number(treated)
  <2> SUFFICES ASSUME TypeOK, Distinct, Recent, Handed, slot # << >>
               PROVE  Number(slot) # 0 /\ Number(slot) >= Number(treated)
    BY DEF Ordered, InOrder
  <2>1. Delivered \in 0 .. Len(sent) /\ Len(sent) \in Nat
    BY BacklogTyped DEF Recent, Delivered
  <2>2. Delivered # 0 /\ Number(slot) = Delivered
    BY <2>1, NumberOfNth DEF Handed, Nth
  <2>3. PICK j \in 0 .. Delivered : treated = Nth(j)
    BY DEF Handed
  <2>4. Number(treated) = j
    BY <2>1, <2>3, NumberOfNth
  <2> QED
    BY <2>1, <2>2, <2>3, <2>4
<1>2. TypeOK /\ Ordered /\ [Next]_vars
        => [com' = "treat" /\ com # "treat" /\ Intact /\ slot # << >>
              => /\ Number(slot) # 0
                 /\ Number(slot) >= Number(treated)]_vars
  BY <1>1
<1> QED
  BY <1>2, OrderedAlways, PTL DEF Spec, TreatedInOrder

(***************************************************************************)
(* If no wait returns by itself, every treatment is of a message delivered *)
(* after the last one treated: no message is treated twice.                *)
(***************************************************************************)
THEOREM NoneTreatedTwice == Spec => TreatedOnce
<1>1. TypeOK /\ Ordered /\ Intact /\ com = "woken" /\ ~spurious
        => Number(slot) > Number(treated)
  <2> SUFFICES ASSUME TypeOK, Distinct, Recent, Handed, com = "woken", ~spurious
               PROVE  Number(slot) > Number(treated)
    BY DEF Ordered, InOrder
  <2>1. Delivered \in 0 .. Len(sent) /\ Len(sent) \in Nat
    BY BacklogTyped DEF Recent, Delivered
  <2>2. Number(slot) = Delivered
    BY <2>1, NumberOfNth DEF Handed
  <2>3. PICK j \in 0 .. Delivered : treated = Nth(j) /\ j < Delivered
    BY DEF Handed
  <2>4. Number(treated) = j
    BY <2>1, <2>3, NumberOfNth
  <2> QED
    BY <2>1, <2>2, <2>3, <2>4
<1>2. [Next]_vars /\ com' = "treat" /\ com # "treat" => com = "woken"
  BY DEF Next, Broker, Msgarrvd, Dispatcher, DispatcherWaits, ReadHeader,
         NothingToRead, Deliver, DeliverOutside, Forward, ComThread, ComWaits,
         StartTreat, EndTreat, SpuriousWakeup, vars
<1>3. TypeOK /\ Ordered /\ [Next]_vars
        => [com' = "treat" /\ com # "treat" /\ Intact /\ ~spurious
              => Number(slot) > Number(treated)]_vars
  BY <1>1, <1>2
<1> QED
  BY <1>3, OrderedAlways, PTL DEF Spec, TreatedOnce
=============================================================================
