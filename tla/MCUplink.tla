------------------------------ MODULE MCUplink ------------------------------
(***************************************************************************)
(* Three rows: one reported in every cycle, one in every second cycle, and *)
(* one that belongs to another oid and is only reported through it.  The   *)
(* texts differ in length and in content.  A byte has two values, so a     *)
(* length still takes two bytes and a text can be mistaken for a header.   *)
(* An unsigned int has four values: the report counter wraps to a value    *)
(* that is not a multiple of 10, as 2^32 makes it do, and packetSum wraps  *)
(* once the buffer has overflowed.                                         *)
(***************************************************************************)
EXTENDS UplinkProperties

MCTabLen == 3
MCUpSentPeriod == [i \in 0 .. 2 |-> IF i = 1 THEN 4 ELSE 2]
MCBelongToOid == [i \in 0 .. 2 |-> IF i = 2 THEN 11 ELSE 1]
MCText == [i \in 0 .. 2 |-> IF i = 0 THEN <<1>> ELSE <<0, 1>>]

\* Bound: once a packet was cut short the connection holds and is subscribed;
\* UplinkLive.cfg, with a smaller buffer, goes on without this bound.
LinkBound == truncated => connected /\ ~refused
=============================================================================
