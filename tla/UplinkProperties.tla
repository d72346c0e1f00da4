-------------------------- MODULE UplinkProperties --------------------------
(***************************************************************************)
(* The properties of the reporting path that need to take the bytes of     *)
(* mqBuff apart into packets.                                              *)
(***************************************************************************)
EXTENDS Uplink, Framing

Texts == {Text[i] : i \in Row}

(***************************************************************************)
(* Until a packet is cut short, packetSum counts the packets in mqBuff and *)
(* nothing else is in it, although the sampler adds to both and the        *)
(* publisher takes from both in different critical sections, and the       *)
(* publisher also reads when it is woken with an empty buffer.             *)
(***************************************************************************)
PacketSumCounts ==
  ~truncated => /\ HoldsOnly(mqBuf, MQTP_REPORT, Texts)
                /\ packetSum = Len(Packets[mqBuf])

(***************************************************************************)
(* pubBuf is filled past its end only after a packet was cut short: what   *)
(* is read as a length then may be any two bytes of a text.                *)
(***************************************************************************)
PubBufSuffices == ~truncated => ~overrun

\* The reports on their way: the one in pubBuf and those in mqBuff.
InPubBuf == IF pubPc = "publish" /\ pkt.port = MQTP_REPORT
            THEN <<pkt.payload>> ELSE << >>

Reports == INSTANCE ReportQueue
             WITH queue      <- IF truncated THEN << >>
                                ELSE InPubBuf \o Payloads(mqBuf),
                  unfinished <- inflight,
                  intact     <- ~truncated

(***************************************************************************)
(* The two threads, their counter, their signal and the byte buffer        *)
(* together implement the report queue.                                    *)
(***************************************************************************)
ImplementsReportQueue == Reports!QueueSpec

-----------------------------------------------------------------------------
\* The connection is lost only finitely often.
LinkSettles == <>[][~ConnectionLost]_vars

(***************************************************************************)
(* Once the network settles, packets that are counted are taken out: no    *)
(* wake-up the publisher needs is lost, and no thread keeps the mutex.     *)
(***************************************************************************)
PacketsAreTaken == LinkSettles => (packetSum > 0 ~> pubPc = "publish")

(***************************************************************************)
(* The publisher only looks at the connection after a packet woke it up,   *)
(* so a lost connection comes back only because the sampler keeps          *)
(* reporting and signalling.                                               *)
(***************************************************************************)
LinkComesBack == ~connected ~> connected

(***************************************************************************)
(* The connection comes back each time, and once the network settles, the  *)
(* device is subscribed to its control topic for good - or deaf for good,  *)
(* because the subscription of its last session failed: nothing tries it   *)
(* again as long as the connection holds.                                  *)
(***************************************************************************)
SubscriptionSettles ==
  /\ LinkComesBack
  /\ LinkSettles => <>[]subscribed \/ <>[](connected /\ refused)
=============================================================================
