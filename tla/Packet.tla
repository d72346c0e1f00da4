------------------------------- MODULE Packet -------------------------------
(***************************************************************************)
(* How packets are laid out in the byte buffers of circlebuff.c.  A packet *)
(* is a four-byte header, the port and the payload length, high byte       *)
(* first, and the payload.  A buffer is the byte queue that CircleBuff     *)
(* implements: a sequence of at most Cap bytes.                            *)
(*                                                                         *)
(* WritePacket ignores what WriteData returns: the bytes that find the     *)
(* buffer full are lost and the caller is not told.  ReadPacket does not   *)
(* check that its bytes are there: ReadData answers 0 when the buffer is   *)
(* empty.                                                                  *)
(***************************************************************************)
EXTENDS Integers, Sequences

CONSTANTS Base,   \* the number of values of a byte: 256
          Cap     \* the bytes a buffer holds: MAX_BUFF_LEN - 1, MQ_BUFF_LEN - 1

ASSUME BaseAssumption == Base \in Nat /\ Base > 1
ASSUME CapAssumption == Cap \in Nat

Octet == 0 .. Base - 1

\* An INT16U as the two bytes (n >> 8) and n, and back.
HiByte(n) == (n \div Base) % Base
LoByte(n) == n % Base
Word(hi, lo) == hi * Base + lo

HeaderLen == 4

\* A slip: the length is written low byte first.
HeaderSwapped(port, len) ==
  <<HiByte(port), LoByte(port), LoByte(len), HiByte(len)>>

Header(port, len) == <<HiByte(port), LoByte(port), HiByte(len), LoByte(len)>>

\* Writing bytes one by one stores those that fit and drops the others.
Room(buf) == Cap - Len(buf)

\* A slip: a full buffer is not noticed.
WriteBytesUnchecked(buf, s) == buf \o s

WriteBytes(buf, s) ==
  buf \o SubSeq(s, 1, IF Len(s) <= Room(buf) THEN Len(s) ELSE Room(buf))

\* len is an INT16U: a longer payload is stored under its length modulo 2^16.
WritePacket(buf, s, port) ==
  LET len == Len(s) % (Base * Base)
  IN  WriteBytes(buf, Header(port, len) \o SubSeq(s, 1, len))

\* The packet was stored whole.
Fits(buf, s) == HeaderLen + Len(s) <= Room(buf)

\* The next n bytes of the buffer, 0 for each byte it does not have.
PeekByte(buf, k) == IF k <= Len(buf) THEN buf[k] ELSE 0
PeekBytes(buf, from, n) == [k \in 1 .. n |-> PeekByte(buf, from + k)]

\* A slip: the last byte read is not taken out.
DropBytesShort(buf, n) == SubSeq(buf, IF n = 0 THEN 1 ELSE n, Len(buf))

DropBytes(buf, n) == SubSeq(buf, n + 1, Len(buf))

\* The packet a read finds in the buffer, and the buffer after the read.
HeadPort(buf) == Word(PeekByte(buf, 1), PeekByte(buf, 2))
HeadLen(buf) == Word(PeekByte(buf, 3), PeekByte(buf, 4))
HeadPayload(buf) == PeekBytes(buf, HeaderLen, HeadLen(buf))
HeadPacket(buf) == [port |-> HeadPort(buf), payload |-> HeadPayload(buf)]
AfterHead(buf) == DropBytes(buf, HeaderLen + HeadLen(buf))
=============================================================================
