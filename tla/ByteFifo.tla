------------------------------ MODULE ByteFifo ------------------------------
(***************************************************************************)
(* What a byte buffer of circlebuff.c promises to the code that uses it: a *)
(* first-in first-out queue of at most Capacity bytes.  A write to a full  *)
(* queue is refused and changes nothing; a read from an empty queue        *)
(* answers 0 and changes nothing.  ret is the value the last call          *)
(* returned.                                                               *)
(***************************************************************************)
EXTENDS Integers, Sequences

CONSTANTS Capacity,  \* the number of bytes the queue can hold
          Byte       \* the values of a byte; 0 is one of them

VARIABLES q,         \* the bytes waiting, oldest first
          ret        \* the return value of the last call

fifoVars == <<q, ret>>

FifoInit == /\ q = << >>
            /\ ret = 0

Put(b) == \/ /\ Len(q) < Capacity
             /\ q' = Append(q, b)
             /\ ret' = 1
          \/ /\ Len(q) = Capacity
             /\ ret' = 0
             /\ UNCHANGED q

Get == \/ /\ q # << >>
          /\ ret' = Head(q)
          /\ q' = Tail(q)
       \/ /\ q = << >>
          /\ ret' = 0
          /\ UNCHANGED q

FifoNext == Get \/ \E b \in Byte : Put(b)

FifoSpec == FifoInit /\ [][FifoNext]_fifoVars
=============================================================================
