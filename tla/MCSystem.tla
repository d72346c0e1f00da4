------------------------------ MODULE MCSystem ------------------------------
(***************************************************************************)
(* One row, reported in every second cycle; mqBuff has room for one report *)
(* and nothing else, comBuff0 for one message and the header of another.   *)
(* The three messages can arrive so that the cut one makes the dispatcher  *)
(* read the last as a packet of port DTU2MQTPR.                            *)
(***************************************************************************)
EXTENDS System

MCUpSentPeriod == [i \in 0 .. 0 |-> 4]
MCBelongToOid == [i \in 0 .. 0 |-> 0]
MCText == [i \in 0 .. 0 |-> <<2>>]
MCMsg == {<<1>>, <<2>>, <<1, 1, 1>>}

\* Bounds: a report that was cut short is the last thing that happens, and so are
\*  - a message that overruns RecvBuff4treat;
\*  - a loss of the connection, once two messages have arrived;
\*  - an acknowledgement later than TIMEOUT, once a message has arrived;
\*  - the last message, unless a control message was cut short before: then it is
\*    read, with wake-ups without a signal, while comThread waits.
\* What follows is checked with Uplink and Downlink.
Last == Len(sent) = ArriveBound
Bounds == /\ ~truncated /\ ~slotOverrun
          /\ Len(sent) > 1 => connected
          /\ Len(sent) > 0 => (inflight => pubPc = "complete")
          /\ Last => comTruncated
          /\ spurious => Last /\ com = "wait"
=============================================================================
