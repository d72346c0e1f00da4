------------------------------- MODULE Crc32 -------------------------------
(***************************************************************************)
(* caculate_crc (public.c), the checksum parseJson forms over a file it    *)
(* received: make_crc32_table, then make_crc, one step per byte.           *)
(*                                                                         *)
(* An INT32U is the set of the positions of its ones: ^ is Xor, & 0xff the *)
(* intersection with the lowest eight positions.  The table is written     *)
(* anew by every call before it is read, so it is a definition.            *)
(***************************************************************************)
EXTENDS Integers, Sequences

CONSTANT Files  \* the files

CrcWord == SUBSET (0 .. 31)
ByteSet == SUBSET (0 .. 7)

ASSUME FilesAssumption == Files \subseteq Seq(ByteSet)

VARIABLES string,  \* the file
          pos,     \* how many bytes make_crc has done
          crc

crcVars == <<string, pos, crc>>

\* 0xEDB88320
Polynomial == {31, 30, 29, 27, 26, 24, 23, 21, 20, 19, 15, 9, 8, 5}

Xor(a, b) == (a \ b) \cup (b \ a)

ShiftRight(c, n) == {b \in 0 .. 31 : b + n \in c}
LowByte(c) == c \cap (0 .. 7)

\* A slip: the bit is tested after the shift.
DivideBitLate(c) ==
  IF 1 \in c THEN Xor(ShiftRight(c, 1), Polynomial) ELSE ShiftRight(c, 1)

\* The body of make_crc32_table's inner loop.
DivideBit(c) ==
  IF 0 \in c THEN Xor(ShiftRight(c, 1), Polynomial) ELSE ShiftRight(c, 1)

\* The inner loop: eight bits.
TableEntry(i) ==
  LET c1 == DivideBit(i)
      c2 == DivideBit(c1)
      c3 == DivideBit(c2)
      c4 == DivideBit(c3)
      c5 == DivideBit(c4)
      c6 == DivideBit(c5)
      c7 == DivideBit(c6)
  IN DivideBit(c7)

crc32_table == [i \in ByteSet |-> TableEntry(i)]

-----------------------------------------------------------------------------
\* caculate_crc begins with all ones.
CrcInit == /\ string \in Files
        /\ pos = 0
        /\ crc = 0 .. 31

\* A slip: the byte is not mixed into the index.
MakeCrcNoByte ==
  /\ pos < Len(string)
  /\ crc' = Xor(Xor(ShiftRight(crc, 8), string[pos + 1]), crc32_table[LowByte(crc)])
  /\ pos' = pos + 1
  /\ UNCHANGED string

\* make_crc: one byte.
MakeCrc ==
  /\ pos < Len(string)
  /\ crc' = Xor(ShiftRight(crc, 8),
                crc32_table[LowByte(Xor(crc, string[pos + 1]))])
  /\ pos' = pos + 1
  /\ UNCHANGED string

CrcNext == MakeCrc

CrcSpec == CrcInit /\ [][CrcNext]_crcVars

\* The types of the state; the index of a byte stays inside the file.
CrcTypeOK ==
  /\ string \in Files
  /\ pos \in 0 .. Len(string)
  /\ crc \in CrcWord

Serial == INSTANCE SerialCrc WITH Poly <- Polynomial, Inputs <- Files

\* public.c make_crc: eight bits at once through the table are eight bits one
\* after the other through the shift register.
ImplementsSerialCrc == Serial!SerialSpec
=============================================================================
