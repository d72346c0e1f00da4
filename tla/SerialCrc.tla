----------------------------- MODULE SerialCrc -----------------------------
(***************************************************************************)
(* What a CRC-32 is: a shift register that takes the message bit by bit,   *)
(* the lowest bit of a byte first.  The bit that leaves the register and   *)
(* the bit of the message decide together whether the polynomial is added. *)
(* A word is the set of the positions of its ones, so that exclusive or is *)
(* the symmetric difference.                                               *)
(***************************************************************************)
EXTENDS Integers, Sequences

CONSTANTS Poly,    \* the generator polynomial, without its highest term: a word
          Inputs   \* the messages: sequences of bytes, sets of their ones

VARIABLES string,  \* the message
          pos,     \* how many bytes were taken
          crc      \* the register

serialVars == <<string, pos, crc>>

Xor(a, b) == (a \ b) \cup (b \ a)
ShiftRight(c, n) == {b \in 0 .. 31 : b + n \in c}

Ones == 0 .. 31

SerialBit(c, one) ==
  IF (0 \in c) # one THEN Xor(ShiftRight(c, 1), Poly) ELSE ShiftRight(c, 1)

SerialByte(c, byte) ==
  LET c1 == SerialBit(c, 0 \in byte)
      c2 == SerialBit(c1, 1 \in byte)
      c3 == SerialBit(c2, 2 \in byte)
      c4 == SerialBit(c3, 3 \in byte)
      c5 == SerialBit(c4, 4 \in byte)
      c6 == SerialBit(c5, 5 \in byte)
      c7 == SerialBit(c6, 6 \in byte)
  IN SerialBit(c7, 7 \in byte)

SerialInit == /\ string \in Inputs
              /\ pos = 0
              /\ crc = Ones

TakeByte == /\ pos < Len(string)
            /\ crc' = SerialByte(crc, string[pos + 1])
            /\ pos' = pos + 1
            /\ UNCHANGED string

SerialSpec == SerialInit /\ [][TakeByte]_serialVars
=============================================================================
