----------------------------- MODULE CircleBuff -----------------------------
(***************************************************************************)
(* The circular byte buffer of circlebuff.c.  The program has two of them, *)
(* comBuff0 (the AP_circleBuff_ functions, MAX_BUFF_LEN bytes) and mqBuff  *)
(* (the mq_circleBuff_ functions, MQ_BUFF_LEN bytes), which run the same   *)
(* algorithm.  Every call is made with the buffer's mutex held, so a call  *)
(* is one step.                                                            *)
(***************************************************************************)
EXTENDS Integers, Sequences

CONSTANTS BuffLen,   \* MAX_BUFF_LEN or MQ_BUFF_LEN
          Byte       \* the values of an unsigned char

ASSUME BuffLenAssumption == BuffLen \in Nat \ {0}
ASSUME ByteAssumption == 0 \in Byte

VARIABLES readPos, writePos,   \* positions in data
          data,                \* the array
          ret                  \* the return value of the last call

vars == <<readPos, writePos, data, ret>>

Slot == 0 .. BuffLen - 1

\* A slip: the cursor wraps one slot late.
NextPosLate(p) == (p + 1) % (BuffLen + 1)

NextPos(p) == (p + 1) % BuffLen

\* The buffers are zero-initialised globals; G_Buff_init clears the positions.
Init == /\ readPos = 0
        /\ writePos = 0
        /\ data = [i \in Slot |-> 0]
        /\ ret = 0

HaveData == readPos # writePos

\* A slip: a full buffer is not noticed.
WriteDataUnchecked(b) ==
  /\ data' = [data EXCEPT ![writePos] = b]
  /\ writePos' = NextPos(writePos)
  /\ ret' = 1
  /\ UNCHANGED readPos

WriteData(b) ==
  \/ /\ NextPos(writePos) # readPos
     /\ data' = [data EXCEPT ![writePos] = b]
     /\ writePos' = NextPos(writePos)
     /\ ret' = 1
     /\ UNCHANGED readPos
  \/ /\ NextPos(writePos) = readPos
     /\ ret' = 0
     /\ UNCHANGED <<readPos, writePos, data>>

ReadData ==
  \/ /\ HaveData
     /\ ret' = data[readPos]
     /\ readPos' = NextPos(readPos)
     /\ UNCHANGED <<writePos, data>>
  \/ /\ ~HaveData
     /\ ret' = 0
     /\ UNCHANGED <<readPos, writePos, data>>

Next == ReadData \/ \E b \in Byte : WriteData(b)

Spec == Init /\ [][Next]_vars

-----------------------------------------------------------------------------
\* The number of bytes written and not yet read.
Count == IF writePos >= readPos THEN writePos - readPos
                                ELSE writePos - readPos + BuffLen

\* The slot of the k-th unread byte.
SlotOf(k) == IF readPos + k - 1 < BuffLen THEN readPos + k - 1
                                          ELSE readPos + k - 1 - BuffLen

Unread == [k \in 1 .. Count |-> data[SlotOf(k)]]

(***************************************************************************)
(* Positions stay inside the array and every slot holds a byte.            *)
(***************************************************************************)
TypeOK == /\ readPos \in Slot
          /\ writePos \in Slot
          /\ data \in [Slot -> Byte]
          /\ ret \in Byte \cup {0, 1}

Fifo == INSTANCE ByteFifo WITH Capacity <- BuffLen - 1, q <- Unread

(***************************************************************************)
(* The buffer is a FIFO queue of BuffLen - 1 bytes: across any number of   *)
(* wrap-arounds no unread byte is overwritten, lost, repeated or read out  *)
(* of order, a write is refused exactly when the queue is full, and a read *)
(* answers 0 without moving exactly when it is empty.                      *)
(***************************************************************************)
ImplementsFifo == Fifo!FifoSpec
=============================================================================
