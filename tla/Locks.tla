------------------------------- MODULE Locks -------------------------------
(***************************************************************************)
(* What the threads owe each other: the three mutexes comBuff0.lock,       *)
(* RecvBuff4treat.lock and mqBuff.lock, and the condition variables, with  *)
(* nothing of the data.  Three threads keep a mutex while they wait for    *)
(* something else:                                                         *)
(*   - the publisher keeps mqBuff.lock during MQTTClient_publish;          *)
(*   - comThread keeps RecvBuff4treat.lock during a treatment;             *)
(*   - the dispatcher keeps comBuff0.lock while it waits for one of these. *)
(* The sampler and the library's receive thread only need a free mutex for *)
(* a moment, and signal.  Uplink and Downlink say what is done under the   *)
(* locks; module System implements this one.                               *)
(***************************************************************************)

VARIABLES pub,   \* where mqttPubThread is
          disp,  \* where msgDisPatcherThread is
          com    \* where comThread is

vars == <<pub, disp, com>>

Init == pub = "start" /\ disp = "lock" /\ com = "lock"

ComLockFree == disp \notin {"deliver", "forward"}
RecvLockFree == com # "treat"
MqLockFree == pub # "publish"

\* pthread_cond_signal: a thread that waits goes on.
Signalled(pc) == IF pc = "wait" THEN "woken" ELSE pc

-----------------------------------------------------------------------------
\* The publisher connects, subscribes and looks at the connection.
PubConnects ==
  /\ \/ pub = "start" /\ pub' = "subscribe"
     \/ pub = "connect" /\ pub' \in {"subscribe", "check"}
     \/ pub = "subscribe" /\ pub' = "check"
     \/ pub = "check" /\ pub' \in {"connect", "lock"}
     \/ pub = "complete" /\ pub' = "check"
  /\ UNCHANGED <<disp, com>>

PubWaits == pub = "lock" /\ pub' = "wait" /\ UNCHANGED <<disp, com>>

PubTakes == pub \in {"lock", "woken"} /\ pub' = "publish" /\ UNCHANGED <<disp, com>>

PubEnds == pub = "publish" /\ pub' = "complete" /\ UNCHANGED <<disp, com>>

Publisher == PubConnects \/ PubWaits \/ PubTakes \/ PubEnds

\* The sampler, at the end of a cycle, or a wake-up without a signal.
PubIsSignalled == /\ MqLockFree
                  /\ pub' = Signalled(pub)
                  /\ UNCHANGED <<disp, com>>

\* msgarrvd, or a wake-up without a signal.
DispIsSignalled == /\ ComLockFree
                   /\ disp' = Signalled(disp)
                   /\ UNCHANGED <<pub, com>>

ComIsSignalled == com' = Signalled(com) /\ UNCHANGED <<pub, disp>>

DispWaits == disp = "lock" /\ disp' = "wait" /\ UNCHANGED <<pub, com>>

\* The port of the packet decides; without a packet nothing is done.
DispReads == /\ disp = "woken" /\ disp' \in {"deliver", "forward", "lock"}
             /\ UNCHANGED <<pub, com>>

Deliver == /\ disp = "deliver" /\ RecvLockFree
           /\ disp' = "lock"
           /\ com' = Signalled(com)
           /\ UNCHANGED pub

Forward == /\ disp = "forward" /\ MqLockFree
           /\ disp' = "lock"
           /\ pub' = Signalled(pub)
           /\ UNCHANGED com

\* A slip: comThread takes comBuff0.lock as well before it ends a treatment.
ComRunsNested ==
  /\ \/ com = "lock" /\ com' = "wait"
     \/ com = "woken" /\ com' = "treat"
     \/ com = "treat" /\ ComLockFree /\ com' = "lock"
  /\ UNCHANGED <<pub, disp>>

\* comThread waits, treats what it finds and unlocks.
ComRuns == /\ \/ com = "lock" /\ com' = "wait"
              \/ com = "woken" /\ com' = "treat"
              \/ com = "treat" /\ com' = "lock"
           /\ UNCHANGED <<pub, disp>>

Next == \/ Publisher \/ PubIsSignalled
        \/ DispIsSignalled \/ DispWaits \/ DispReads \/ Deliver \/ Forward
        \/ ComIsSignalled \/ ComRuns

Spec == Init /\ [][Next]_vars

\* A thread that can run does run.  A mutex that is given back again and again
\* is obtained in the end: both holders give it back and then wait, the publisher
\* for the completion of a message, comThread for the next one.
FairSpec == /\ Spec
            /\ WF_vars(Publisher) /\ WF_vars(ComRuns)
            /\ WF_vars(DispWaits \/ DispReads)
            /\ SF_vars(Deliver) /\ SF_vars(Forward)

-----------------------------------------------------------------------------
\* AP_circleBuff_ReadPacketData takes a second lock with comBuff0.lock in hand:
\* whoever has that one gives it back without waiting for the dispatcher, so the
\* receive thread is shut out of msgarrvd only for a time, whatever the ports are
\* and however often threads wake up.
ComLockComesBack == ~ComLockFree ~> ComLockFree

\* No wake-up ends in a lock that never comes: comBuff0.lock comes back, and the
\* three threads get back to their waits, where the next signal finds them.
ThreadsWaitAgain == /\ ComLockComesBack
                    /\ disp = "woken" ~> disp = "wait"
                    /\ com = "woken" ~> com = "wait"
                    /\ pub = "publish" ~> pub = "check"
=============================================================================
