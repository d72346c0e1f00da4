-------------------------- MODULE CircleBuffProofs --------------------------
(***************************************************************************)
(* For every buffer length and every byte set, the circular buffer keeps   *)
(* its positions inside the array and implements the bounded FIFO queue.   *)
(***************************************************************************)
EXTENDS CircleBuff, TLAPS

(***************************************************************************)
(* The successor of a position is the next slot, or slot 0 after the last. *)
(***************************************************************************)
LEMMA NextPosWraps ==
  ASSUME NEW p \in Slot
  PROVE  /\ NextPos(p) \in Slot
         /\ NextPos(p) = IF p = BuffLen - 1 THEN 0 ELSE p + 1
<1> USE BuffLenAssumption DEF Slot, NextPos
<1>1. CASE p = BuffLen - 1
  <2>1. (p + 1) % BuffLen = 0
    BY <1>1
  <2> QED BY <1>1, <2>1
<1>2. CASE p # BuffLen - 1
  <2>1. p + 1 \in 0 .. BuffLen - 1
    BY <1>2
  <2>2. (p + 1) % BuffLen = p + 1
    BY <2>1
  <2> QED BY <1>2, <2>1, <2>2
<1> QED BY <1>1, <1>2

(***************************************************************************)
(* Every call leaves the positions inside the array (TypeOK): the cursors  *)
(* of comBuff0 and mqBuff never index outside data, whatever the sequence  *)
(* of calls.                                                               *)
(***************************************************************************)
THEOREM TypeCorrect == Spec => []TypeOK
<1>1. Init => TypeOK
  BY BuffLenAssumption, ByteAssumption DEF Init, TypeOK, Slot
<1>2. TypeOK /\ [Next]_vars => TypeOK'
  <2> SUFFICES ASSUME TypeOK, [Next]_vars PROVE TypeOK'
    OBVIOUS
  <2>1. CASE ReadData
    BY <2>1, NextPosWraps DEF ReadData, TypeOK
  <2>2. ASSUME NEW b \in Byte, WriteData(b) PROVE TypeOK'
    BY <2>2, NextPosWraps DEF WriteData, TypeOK
  <2>3. CASE UNCHANGED vars
    BY <2>3 DEF vars, TypeOK
  <2> QED BY <2>1, <2>2, <2>3 DEF Next
<1> QED BY <1>1, <1>2, PTL DEF Spec

(***************************************************************************)
(* The unread bytes are a sequence of Count bytes; there is none exactly   *)
(* when HaveData answers 0, and BuffLen - 1 exactly when the successor of  *)
(* writePos is readPos, the test WriteData makes.                          *)
(***************************************************************************)
LEMMA UnreadFacts ==
  ASSUME TypeOK
  PROVE  /\ Count \in 0 .. BuffLen - 1
         /\ Unread \in Seq(Byte)
         /\ Len(Unread) = Count
         /\ \A k \in 1 .. Count : Unread[k] = data[SlotOf(k)]
         /\ HaveData <=> Count # 0
         /\ NextPos(writePos) = readPos <=> Count = BuffLen - 1
<1> USE BuffLenAssumption
<1>1. Count \in 0 .. BuffLen - 1
  BY DEF TypeOK, Slot, Count
<1>2. \A k \in 1 .. Count : SlotOf(k) \in Slot
  BY DEF TypeOK, Slot, Count, SlotOf
<1>3. \A k \in 1 .. Count : data[SlotOf(k)] \in Byte
  BY <1>2 DEF TypeOK
<1>4. Unread \in Seq(Byte) /\ Len(Unread) = Count
  BY <1>1, <1>3 DEF Unread
<1>5. \A k \in 1 .. Count : Unread[k] = data[SlotOf(k)]
  BY DEF Unread
<1>6. HaveData <=> Count # 0
  BY DEF TypeOK, Slot, Count, HaveData
<1>7. NextPos(writePos) = readPos <=> Count = BuffLen - 1
  BY NextPosWraps DEF TypeOK, Slot, Count
<1> QED BY <1>1, <1>4, <1>5, <1>6, <1>7

(***************************************************************************)
(* The same in the state after a step.                                     *)
(***************************************************************************)
LEMMA UnreadNextFacts ==
  ASSUME TypeOK'
  PROVE  Unread' \in Seq(Byte) /\ Len(Unread') = Count'
<1> USE BuffLenAssumption
<1>1. readPos' \in Slot /\ writePos' \in Slot /\ data' \in [Slot -> Byte]
  BY TypeOK' DEF TypeOK, Slot
<1>2. PICK r, w, d : r = readPos' /\ w = writePos' /\ d = data'
  OBVIOUS
<1>3. r \in Slot /\ w \in Slot /\ d \in [Slot -> Byte]
  BY <1>1, <1>2
<1> DEFINE n == IF w >= r THEN w - r ELSE w - r + BuffLen
           at(k) == IF r + k - 1 < BuffLen THEN r + k - 1 ELSE r + k - 1 - BuffLen
<1>4. n \in 0 .. BuffLen - 1 /\ \A k \in 1 .. n : at(k) \in Slot
  BY <1>3 DEF Slot
<1>5. [k \in 1 .. n |-> d[at(k)]] \in Seq(Byte) /\ Len([k \in 1 .. n |-> d[at(k)]]) = n
  <2>1. \A k \in 1 .. n : d[at(k)] \in Byte
    BY <1>3, <1>4
  <2> HIDE DEF n, at
  <2> QED BY <2>1, <1>4
<1>6. n = Count' /\ Unread' = [k \in 1 .. n |-> d[at(k)]]
  BY <1>2 DEF Count, Unread, SlotOf
<1> QED BY <1>5, <1>6

(***************************************************************************)
(* Two sequences of the same length with the same elements are equal.      *)
(***************************************************************************)
LEMMA SameSeq ==
  ASSUME NEW S, NEW s \in Seq(S), NEW t \in Seq(S), Len(s) = Len(t),
         \A k \in 1 .. Len(s) : s[k] = t[k]
  PROVE  s = t
OBVIOUS

(***************************************************************************)
(* An accepted write appends the byte to the unread bytes.                 *)
(***************************************************************************)
LEMMA WriteAppends ==
  ASSUME TypeOK, TypeOK', NEW b \in Byte, WriteData(b),
         NextPos(writePos) # readPos
  PROVE  Unread' = Append(Unread, b)
<1> USE BuffLenAssumption
<1>1. /\ data' = [data EXCEPT ![writePos] = b]
      /\ writePos' = IF writePos = BuffLen - 1 THEN 0 ELSE writePos + 1
      /\ readPos' = readPos
      /\ writePos \in Slot /\ readPos \in Slot
      /\ data \in [Slot -> Byte]
  BY NextPosWraps DEF WriteData, TypeOK
<1>2. Count # BuffLen - 1
  BY UnreadFacts
<1>3. Count' = Count + 1
  BY <1>1, <1>2 DEF Count, Slot
<1>4. Count \in 0 .. BuffLen - 1
  BY UnreadFacts
<1>5. Unread' \in Seq(Byte) /\ Len(Unread') = Count + 1
  BY UnreadNextFacts, <1>3
<1>6. Append(Unread, b) \in Seq(Byte) /\ Len(Append(Unread, b)) = Count + 1
  BY UnreadFacts
<1>7. ASSUME NEW k \in 1 .. Count + 1
      PROVE  Unread'[k] = Append(Unread, b)[k]
  <2>1. Unread'[k] = data'[SlotOf(k)']
    BY <1>3 DEF Unread
  <2>2. SlotOf(k)' = SlotOf(k)
    BY <1>1 DEF SlotOf
  <2>3. CASE k \in 1 .. Count
    <3>1. SlotOf(k) \in Slot /\ SlotOf(k) # writePos
      BY <2>3, <1>1, <1>4 DEF SlotOf, Slot, Count
    <3>2. Append(Unread, b)[k] = data[SlotOf(k)]
      BY <2>3, UnreadFacts
    <3> QED BY <2>1, <2>2, <3>1, <3>2, <1>1
  <2>4. CASE k = Count + 1
    <3>1. SlotOf(k) = writePos
      BY <2>4, <1>1, <1>4, <1>2 DEF SlotOf, Slot, Count
    <3>2. Append(Unread, b)[k] = b
      BY <2>4, UnreadFacts
    <3> QED BY <2>1, <2>2, <3>1, <3>2, <1>1
  <2>5. k \in 1 .. Count \/ k = Count + 1
    BY <1>4
  <2> QED BY <2>3, <2>4, <2>5
<1> QED BY <1>5, <1>6, <1>7, SameSeq

(***************************************************************************)
(* A read of a non-empty buffer returns the oldest unread byte and leaves  *)
(* the others.                                                             *)
(***************************************************************************)
LEMMA ReadTakesOldest ==
  ASSUME TypeOK, TypeOK', ReadData, HaveData
  PROVE  /\ Unread # << >>
         /\ ret' = Head(Unread)
         /\ Unread' = Tail(Unread)
<1> USE BuffLenAssumption
<1>1. /\ data' = data
      /\ readPos' = IF readPos = BuffLen - 1 THEN 0 ELSE readPos + 1
      /\ writePos' = writePos
      /\ ret' = data[readPos]
      /\ writePos \in Slot /\ readPos \in Slot
      /\ readPos # writePos
  BY NextPosWraps DEF ReadData, TypeOK, HaveData
<1>2. /\ Count \in 1 .. BuffLen - 1
      /\ Unread \in Seq(Byte) /\ Len(Unread) = Count
  BY UnreadFacts
<1>3. Count' = Count - 1
  BY <1>1 DEF Count, Slot
<1>4. Unread # << >>
  BY <1>2
<1>5. ret' = Head(Unread)
  <2>1. Head(Unread) = Unread[1]
    BY <1>2, <1>4
  <2>2. SlotOf(1) = readPos
    BY <1>1 DEF SlotOf, Slot
  <2> QED BY <2>1, <2>2, <1>1, <1>2, UnreadFacts
<1>6. Unread' \in Seq(Byte) /\ Len(Unread') = Count - 1
  BY UnreadNextFacts, <1>3
<1>7. Tail(Unread) \in Seq(Byte) /\ Len(Tail(Unread)) = Count - 1
  BY <1>2, <1>4
<1>8. ASSUME NEW k \in 1 .. Count - 1
      PROVE  Unread'[k] = Tail(Unread)[k]
  <2>1. Unread'[k] = data[SlotOf(k)']
    BY <1>3, <1>1 DEF Unread
  <2>2. SlotOf(k)' = SlotOf(k + 1)
    BY <1>1, <1>2 DEF SlotOf, Slot, Count
  <2>3. Tail(Unread)[k] = Unread[k + 1]
    BY <1>2, <1>4
  <2>4. Unread[k + 1] = data[SlotOf(k + 1)]
    BY <1>2, UnreadFacts
  <2> QED BY <2>1, <2>2, <2>3, <2>4
<1>9. Unread' = Tail(Unread)
  BY <1>2, <1>6, <1>7, <1>8, SameSeq
<1> QED BY <1>4, <1>5, <1>9

(***************************************************************************)
(* The circular buffer implements the bounded FIFO queue (ImplementsFifo): *)
(* whatever the buffer length and however often the cursors wrap, bytes    *)
(* come out in the order they went in, once each, and a byte is refused    *)
(* only when BuffLen - 1 are waiting.                                      *)
(***************************************************************************)
THEOREM RingImplementsFifo == Spec => ImplementsFifo
<1> USE DEF ImplementsFifo
<1>1. Init => Fifo!FifoInit
  <2> SUFFICES ASSUME Init PROVE Fifo!FifoInit
    OBVIOUS
  <2>1. Count = 0
    BY DEF Init, Count
  <2>2. Unread = << >>
    BY <2>1 DEF Unread
  <2> QED BY <2>2 DEF Init, Fifo!FifoInit
<1>2. TypeOK /\ TypeOK' /\ [Next]_vars => [Fifo!FifoNext]_(Fifo!fifoVars)
  <2> SUFFICES ASSUME TypeOK, TypeOK', [Next]_vars
               PROVE  Fifo!FifoNext \/ UNCHANGED Fifo!fifoVars
    OBVIOUS
  <2> USE DEF Fifo!FifoNext
  <2>1. CASE ReadData
    <3>1. CASE HaveData
      BY <2>1, <3>1, ReadTakesOldest DEF Fifo!Get
    <3>2. CASE ~HaveData
      <4>1. Unread = << >>
        BY <3>2, UnreadFacts
      <4>2. ret' = 0 /\ Unread' = Unread
        BY <2>1, <3>2 DEF ReadData, Unread, Count, SlotOf
      <4> QED BY <4>1, <4>2 DEF Fifo!Get
    <3> QED BY <3>1, <3>2
  <2>2. ASSUME NEW b \in Byte, WriteData(b) PROVE Fifo!FifoNext
    <3>1. CASE NextPos(writePos) # readPos
      <4>1. Len(Unread) < BuffLen - 1
        BY <3>1, UnreadFacts, BuffLenAssumption
      <4>2. Unread' = Append(Unread, b) /\ ret' = 1
        BY <2>2, <3>1, WriteAppends DEF WriteData
      <4> QED BY <4>1, <4>2 DEF Fifo!Put
    <3>2. CASE NextPos(writePos) = readPos
      <4>1. Len(Unread) = BuffLen - 1
        BY <3>2, UnreadFacts
      <4>2. ret' = 0 /\ Unread' = Unread
        BY <2>2, <3>2 DEF WriteData, Unread, Count, SlotOf
      <4> QED BY <4>1, <4>2 DEF Fifo!Put
    <3> QED BY <3>1, <3>2
  <2>3. CASE UNCHANGED vars
    BY <2>3 DEF vars, Fifo!fifoVars, Unread, Count, SlotOf
  <2> QED BY <2>1, <2>2, <2>3 DEF Next
<1> QED BY <1>1, <1>2, TypeCorrect, PTL DEF Spec, Fifo!FifoSpec
=============================================================================
