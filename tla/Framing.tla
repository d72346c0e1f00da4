------------------------------- MODULE Framing ------------------------------
(***************************************************************************)
(* What the bytes of a buffer are as packets, if they are taken out one    *)
(* packet after the other until the buffer is empty.                       *)
(***************************************************************************)
EXTENDS Packet

\* The packet a read finds; a packet that was cut short is not whole.
FirstPacket(buf) == [port    |-> HeadPort(buf),
                     payload |-> HeadPayload(buf),
                     whole   |-> HeaderLen + HeadLen(buf) <= Len(buf)]

Packets[buf \in Seq(Octet)] ==
  IF buf = << >> THEN << >>
                 ELSE <<FirstPacket(buf)>> \o Packets[AfterHead(buf)]

Payloads(buf) == LET packets == Packets[buf]
                 IN  [n \in 1 .. Len(packets) |-> packets[n].payload]

\* Every byte belongs to a whole packet with the port and one of the payloads.
HoldsOnly(buf, port, payloads) ==
  LET packets == Packets[buf]
  IN  \A n \in 1 .. Len(packets) : /\ packets[n].whole
                                   /\ packets[n].port = port
                                   /\ packets[n].payload \in payloads
=============================================================================
