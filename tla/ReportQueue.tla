----------------------------- MODULE ReportQueue ----------------------------
(***************************************************************************)
(* What the reporting path promises as long as no packet was cut short in  *)
(* mqBuff (intact): the reports form a first-in first-out queue; each one  *)
(* is given to the client library once, whole, on the report topic and in  *)
(* the order it was written; one is lost only without a connection or      *)
(* behind a message the broker has not acknowledged.  The control topic    *)
(* receives nothing but empty messages, and only when no report is         *)
(* waiting.  Once a packet was cut short nothing is promised.              *)
(***************************************************************************)
EXTENDS Integers, Sequences

CONSTANT Texts          \* the texts a report can have

VARIABLES queue,        \* the reports written and not yet disposed of
          out,          \* the last message the client library accepted
          connected,    \* there is a connection to the broker
          unfinished,   \* that message is not acknowledged
          intact        \* every packet so far was stored whole

queueVars == <<queue, out, connected, unfinished, intact>>

QueueInit == /\ queue = << >>
             /\ out = [topic |-> "none", payload |-> << >>]
             /\ connected = FALSE
             /\ unfinished = FALSE
             /\ intact = TRUE

Add == /\ intact
       /\ \E t \in Texts : queue' = Append(queue, t)
       /\ UNCHANGED <<out, connected, unfinished, intact>>

\* One message at a time is on its way.
Send(topic, payload) == /\ connected /\ ~unfinished
                        /\ out' = [topic |-> topic, payload |-> payload]
                        /\ unfinished' = TRUE
                        /\ UNCHANGED <<connected, intact>>

Publish == /\ intact /\ queue # << >>
           /\ Send("report", Head(queue))
           /\ queue' = Tail(queue)

Lose == /\ intact /\ queue # << >>
        /\ ~connected \/ unfinished
        /\ queue' = Tail(queue)
        /\ UNCHANGED <<out, connected, unfinished, intact>>

PublishNothing == /\ intact /\ queue = << >>
                  /\ Send("control", << >>)
                  /\ UNCHANGED queue

Acknowledge == /\ connected /\ unfinished
               /\ unfinished' = FALSE
               /\ UNCHANGED <<queue, out, connected, intact>>

\* A new session does not know the messages of the one before.
LinkChanges == /\ \/ connected' = TRUE /\ unfinished' = FALSE
                  \/ connected' = FALSE /\ UNCHANGED unfinished
               /\ UNCHANGED <<queue, out, intact>>

CutShort == /\ intact' = FALSE
            /\ UNCHANGED <<out, connected, unfinished>>

NoPromise == ~intact /\ ~intact'

QueueNext == \/ Add \/ Publish \/ Lose \/ PublishNothing \/ Acknowledge
             \/ LinkChanges \/ CutShort \/ NoPromise

QueueSpec == QueueInit /\ [][QueueNext]_queueVars
=============================================================================
