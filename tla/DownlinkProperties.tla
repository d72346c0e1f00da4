------------------------- MODULE DownlinkProperties -------------------------
(***************************************************************************)
(* What becomes of the control messages.  Each is sent once, so its        *)
(* contents tell it from the others.                                       *)
(***************************************************************************)
EXTENDS Downlink, Framing

\* A control message is a JSON text.  An empty one would leave RecvBuff4treat
\* as it is before the first message.
ASSUME ContentsAssumption == << >> \notin Msg

\* The packets the dispatcher has not delivered, the one in its hands first.
Backlog ==
  IF disp = "deliver"
  THEN <<PeekBytes(comBuf, 0, head.len)>> \o Payloads(DropBytes(comBuf, head.len))
  ELSE Payloads(comBuf)

\* No packet was cut short and nothing was written past RecvBuff4treat.data.
Intact == ~truncated /\ ~overrun

(***************************************************************************)
(* As long as no packet was cut short, comBuff0 holds the most recent      *)
(* messages, whole and in order, whatever arrives between two deliveries,  *)
(* and no packet is taken for one of another port.                         *)
(***************************************************************************)
BacklogIsRecent ==
  Intact => /\ \E k \in 0 .. Len(sent) :
                    Backlog = SubSeq(sent, k + 1, Len(sent))
            /\ disp # "forward"

TooLong(m) == Len(m) >= RecvLen

(***************************************************************************)
(* The length that the dispatcher reads back out of comBuff0, and compares *)
(* with nothing, is that of a message until a packet is cut short: till    *)
(* then RecvBuff4treat is overrun only after a message came that leaves no *)
(* room for the NUL behind it.                                             *)
(***************************************************************************)
SlotSuffices ==
  overrun /\ ~truncated => \E n \in 1 .. Len(sent) : TooLong(sent[n])

\* The number of a message; 0 for anything that was not sent so far.
Number(s) == IF IsNew(s) THEN 0 ELSE CHOOSE n \in 1 .. Len(sent) : sent[n] = s

(***************************************************************************)
(* comThread never goes back: a message it takes up was sent, is whole,    *)
(* and is no older than the one it took up before, although                *)
(* RecvBuff4treat is overwritten without asking and comThread may wake up  *)
(* without a message.                                                      *)
(***************************************************************************)
TreatedInOrder ==
  [][com' = "treat" /\ com # "treat" /\ Intact /\ slot # << >>
       => /\ Number(slot) # 0
          /\ Number(slot) >= Number(treated)]_vars

(***************************************************************************)
(* Without spurious wake-ups no message is treated twice and comThread     *)
(* never treats a buffer nothing was delivered to.                         *)
(***************************************************************************)
TreatedOnce ==
  [][com' = "treat" /\ com # "treat" /\ Intact /\ ~spurious
       => Number(slot) > Number(treated)]_vars

(***************************************************************************)
(* As long as each message comes when both threads wait again, without     *)
(* spurious wake-ups, and none was too long for a buffer, every one of     *)
(* them is treated: no signal is lost.                                     *)
(***************************************************************************)
Undisturbed == paced /\ ~spurious /\ Intact

EveryMessageTreated ==
  \A m \in Msg : Undisturbed /\ Len(sent) > 0 /\ Number(m) = Len(sent)
                  ~> treated = m \/ ~Undisturbed

=============================================================================
