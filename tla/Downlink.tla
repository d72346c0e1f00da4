------------------------------ MODULE Downlink ------------------------------
(***************************************************************************)
(* The path of a control message: the MQTT library's receive thread calls  *)
(* msgarrvd (mqtt-pub.c), which writes the message into comBuff0 as a      *)
(* packet; msgDisPatcherThread (msgDispatcher.c) moves a packet to         *)
(* RecvBuff4treat, a buffer for one message; comThread (comTreat.c) treats *)
(* what it finds there.                                                    *)
(*                                                                         *)
(* Each hand-over is a condition variable that is signalled after a write  *)
(* and awaited without a test, so a signal nobody waits for is lost.  The  *)
(* dispatcher holds comBuff0.lock while it waits for the lock of           *)
(* RecvBuff4treat, which comThread holds during the whole treatment.  A    *)
(* critical section that cannot block is one step.                         *)
(***************************************************************************)
EXTENDS Packet

CONSTANTS Msg,         \* the control messages, each of which is sent once
          RecvLen,     \* the size of RecvBuff4treat.data: RECV_BUFF_LEN
          MQTPC2DTU,   \* the port of a control message: 0x0301
          DTU2MQTPR    \* the port of a packet for mqBuff: 0x0102

ASSUME MsgAssumption == Msg \subseteq Seq(Octet)

\* Nothing bounds the length of a message.  One whose length does not fit into
\* an INT16U does not fit into comBuff0 either.
ASSUME RecvAssumption == RecvLen \in Nat /\ Cap < Base * Base
ASSUME DownPortAssumption == /\ MQTPC2DTU \in 0 .. Base * Base - 1
                             /\ DTU2MQTPR \in 0 .. Base * Base - 1
                             /\ MQTPC2DTU # DTU2MQTPR

VARIABLES comBuf,      \* comBuff0.data between readPos and writePos
          disp,        \* where msgDisPatcherThread is
          head,        \* the port and dataLen the dispatcher read
          slot,        \* RecvBuff4treat.data, its first len bytes
          com,         \* where comThread is
          sent,        \* history: the messages that arrived, in order
          treated,     \* history: the last message comThread took up
          forwarded,   \* history: the last packet written to mqBuff
          truncated,   \* history: a packet did not fit and was cut short
          overrun,     \* history: RecvBuff4treat was written past data
          paced,       \* history: messages came only when both threads waited
          spurious     \* history: a wait returned without a signal

historyVars == <<sent, treated, forwarded, truncated, overrun, paced, spurious>>
vars == <<comBuf, disp, head, slot, com, historyVars>>

NoHead == [port |-> 0, len |-> 0]

\* comBuff0.lock and RecvBuff4treat.lock.
ComLockFree == disp \notin {"deliver", "forward", "stuck"}

RecvLockFree == com # "treat"

-----------------------------------------------------------------------------
(***************************************************************************)
(* msgarrvd.                                                               *)
(***************************************************************************)
\* Both threads wait again.
Quiet == disp = "wait" /\ com = "wait"

\* A slip: the dispatcher is not signalled.
MsgarrvdNoSignal(m) ==
  /\ ComLockFree
  /\ sent' = Append(sent, m)
  /\ comBuf' = WritePacket(comBuf, m, MQTPC2DTU)
  /\ truncated' = (truncated \/ ~Fits(comBuf, m))
  /\ paced' = (paced /\ Quiet)
  /\ UNCHANGED <<disp, head, slot, com, treated, forwarded, overrun, spurious>>

\* The message arrives.  The library is told that it was received whether or not
\* it fits.
Msgarrvd(m) ==
  /\ ComLockFree
  /\ sent' = Append(sent, m)
  /\ comBuf' = WritePacket(comBuf, m, MQTPC2DTU)
  /\ disp' = IF disp = "wait" THEN "woken" ELSE disp
  /\ truncated' = (truncated \/ ~Fits(comBuf, m))
  /\ paced' = (paced /\ Quiet)
  /\ UNCHANGED <<head, slot, com, treated, forwarded, overrun, spurious>>

-----------------------------------------------------------------------------
(***************************************************************************)
(* msgDisPatcherThread.                                                    *)
(***************************************************************************)
\* The thread waits whatever is in the buffer.
DispatcherWaits ==
  /\ disp = "lock"
  /\ disp' = "wait"
  /\ UNCHANGED <<comBuf, head, slot, com, historyVars>>

\* The header of a packet is taken out; an unknown port is only reported and
\* its payload stays in the buffer.
ReadHeader ==
  /\ disp = "woken" /\ comBuf # << >>
  /\ head' = [port |-> HeadPort(comBuf), len |-> HeadLen(comBuf)]
  /\ comBuf' = DropBytes(comBuf, HeaderLen)
  /\ disp' = CASE head'.port = MQTPC2DTU -> "deliver"
               [] head'.port = DTU2MQTPR -> "forward"
               [] OTHER                  -> "lock"
  /\ UNCHANGED <<slot, com, historyVars>>

NothingToRead ==
  /\ disp = "woken" /\ comBuf = << >>
  /\ disp' = "lock"
  /\ UNCHANGED <<comBuf, head, slot, com, historyVars>>

\* A slip: the message is left in the buffer after it was copied.
DeliverKeeping ==
  /\ disp = "deliver" /\ RecvLockFree /\ head.len < RecvLen
  /\ slot' = PeekBytes(comBuf, 0, head.len)
  /\ com' = IF com = "wait" THEN "woken" ELSE com
  /\ disp' = "lock"
  /\ UNCHANGED <<comBuf, head, historyVars>>

\* The message replaces what RecvBuff4treat held, treated or not.
Deliver ==
  /\ disp = "deliver" /\ RecvLockFree /\ head.len < RecvLen
  /\ slot' = PeekBytes(comBuf, 0, head.len)
  /\ comBuf' = DropBytes(comBuf, head.len)
  /\ com' = IF com = "wait" THEN "woken" ELSE com
  /\ disp' = "lock"
  /\ UNCHANGED <<head, historyVars>>

\* The length is compared with nothing.  What is behind data and the fields that
\* are set next is the lock and newPacketFlag of RecvBuff4treat: comThread is
\* signalled or not, the dispatcher goes on or hangs with comBuff0.lock, and
\* nothing is promised any more.  The 0 of protoltype ends the text.
DeliverOutside ==
  /\ disp = "deliver" /\ RecvLockFree /\ head.len >= RecvLen
  /\ slot' = PeekBytes(comBuf, 0, RecvLen)
  /\ comBuf' = DropBytes(comBuf, head.len)
  /\ com' \in {com, IF com = "wait" THEN "woken" ELSE com}
  /\ disp' \in {"lock", "stuck"}
  /\ overrun' = TRUE
  /\ UNCHANGED <<head, sent, treated, forwarded, truncated, paced, spurious>>

\* The packet goes to mqBuff; packetSum does not count it.  The time the
\* dispatcher waits for mqBuff.lock is the time it spends before this step.
Forward ==
  /\ disp = "forward"
  /\ forwarded' = PeekBytes(comBuf, 0, head.len)
  /\ comBuf' = DropBytes(comBuf, head.len)
  /\ disp' = "lock"
  /\ UNCHANGED <<head, slot, com, sent, treated, truncated, overrun, paced,
                 spurious>>

-----------------------------------------------------------------------------
(***************************************************************************)
(* comThread.                                                              *)
(***************************************************************************)
ComWaits ==
  /\ com = "lock"
  /\ com' = "wait"
  /\ UNCHANGED <<comBuf, disp, head, slot, historyVars>>

\* com_treat with whatever RecvBuff4treat holds; what parseJson makes of it is
\* the subject of module Download.
StartTreat ==
  /\ com = "woken"
  /\ com' = "treat"
  /\ treated' = slot
  /\ UNCHANGED <<comBuf, disp, head, slot>>
  /\ UNCHANGED <<sent, forwarded, truncated, overrun, paced, spurious>>

\* A slip: the next message is taken up without waiting for it.
EndTreatAgain ==
  /\ com = "treat"
  /\ com' = "woken"
  /\ UNCHANGED <<comBuf, disp, head, slot, historyVars>>

EndTreat ==
  /\ com = "treat"
  /\ com' = "lock"
  /\ UNCHANGED <<comBuf, disp, head, slot, historyVars>>

\* pthread_cond_wait may return without a signal.
SpuriousWakeup ==
  /\ spurious' = TRUE
  /\ \/ disp = "wait" /\ disp' = "woken" /\ UNCHANGED com
     \/ com = "wait" /\ com' = "woken" /\ UNCHANGED disp
  /\ UNCHANGED <<comBuf, head, slot>>
  /\ UNCHANGED <<sent, treated, forwarded, truncated, overrun, paced>>

-----------------------------------------------------------------------------
Init == /\ comBuf = << >>
        /\ disp = "lock"
        /\ head = NoHead
        /\ slot = << >>
        /\ com = "lock"
        /\ sent = << >>
        /\ treated = << >>
        /\ forwarded = << >>
        /\ truncated = FALSE
        /\ overrun = FALSE
        /\ paced = TRUE
        /\ spurious = FALSE

Dispatcher == \/ DispatcherWaits
              \/ ReadHeader
              \/ NothingToRead
              \/ Deliver
              \/ DeliverOutside
              \/ Forward

ComThread == ComWaits \/ StartTreat \/ EndTreat

IsNew(m) == \A n \in 1 .. Len(sent) : sent[n] # m

Broker == \E m \in Msg : IsNew(m) /\ Msgarrvd(m)

Next == Broker \/ Dispatcher \/ ComThread \/ SpuriousWakeup

Spec == Init /\ [][Next]_vars

\* A thread that can run does run; the broker need not send.
Fairness == WF_vars(Dispatcher) /\ WF_vars(ComThread)

FairSpec == Spec /\ Fairness

-----------------------------------------------------------------------------
(***************************************************************************)
(* The buffer keeps its bound, also when a packet was cut short, and the   *)
(* two threads are at one of their steps.                                  *)
(***************************************************************************)
TypeOK == /\ comBuf \in Seq(Octet) /\ Len(comBuf) <= Cap
          /\ disp \in {"lock", "wait", "woken", "deliver", "forward", "stuck"}
          /\ head \in [port : 0 .. Base * Base - 1, len : 0 .. Base * Base - 1]
          /\ slot \in Seq(Octet)
          /\ com \in {"lock", "wait", "woken", "treat"}
          /\ sent \in Seq(Seq(Octet))
          /\ treated \in Seq(Octet)
          /\ forwarded \in Seq(Octet)
          /\ truncated \in BOOLEAN
          /\ overrun \in BOOLEAN
          /\ paced \in BOOLEAN
          /\ spurious \in BOOLEAN
=============================================================================
