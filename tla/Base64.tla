------------------------------- MODULE Base64 -------------------------------
(***************************************************************************)
(* base64_encode and base64_decode (public.c), the encoding of the blocks  *)
(* of a file transfer: one step per iteration of their loops, first the    *)
(* encoder on bin, then the decoder on the text it made.                   *)
(*                                                                         *)
(* A character of the text is its position in base64char, or Pad for '='.  *)
(* Shifts and masks of an unsigned char are divisions and remainders; the  *)
(* parts that are put together with | have no bit in common.               *)
(***************************************************************************)
EXTENDS Integers, Sequences

CONSTANT Inputs  \* the byte sequences to encode

Octet == 0 .. 255
Sextet == 0 .. 63
Pad == 64

ASSUME InputsAssumption == Inputs \subseteq Seq(Octet)

VARIABLES bin,   \* bindata of base64_encode
          i,     \* the loop index, of the loop that runs
          text,  \* base64
          data,  \* bindata of base64_decode, up to j
          phase  \* the loop that runs

base64Vars == <<bin, i, text, data, phase>>

\* What the loops have in front of them.
Byte(k) == bin[i + k + 1]
Missing(k) == i + k >= Len(bin)

Base64Init == /\ bin \in Inputs
              /\ i = 0
              /\ text = << >>
              /\ data = << >>
              /\ phase = "encode"

-----------------------------------------------------------------------------
(***************************************************************************)
(* base64_encode                                                           *)
(***************************************************************************)
First(a) == a \div 4

\* A slip: the upper bits of the second byte are not shifted to their place.
SecondUnshifted(a, b) == ((a % 4) * 16) + (b % 16)

Second(a, b) == ((a % 4) * 16) + (b \div 16)
Third(b, c) == ((b % 16) * 4) + (c \div 64)
Fourth(c) == c % 64

\* One group of three bytes; the last one may be shorter.
EncodeGroup ==
  /\ phase = "encode" /\ i < Len(bin)
  /\ \/ /\ Missing(1)
        /\ text' = text \o <<First(Byte(0)), Second(Byte(0), 0), Pad, Pad>>
     \/ /\ ~Missing(1) /\ Missing(2)
        /\ text' = text \o <<First(Byte(0)), Second(Byte(0), Byte(1)),
                             Third(Byte(1), 0), Pad>>
     \/ /\ ~Missing(2)
        /\ text' = text \o <<First(Byte(0)), Second(Byte(0), Byte(1)),
                             Third(Byte(1), Byte(2)), Fourth(Byte(2))>>
  /\ i' = i + 3
  /\ UNCHANGED <<bin, data, phase>>

\* The text is terminated and handed to the decoder.
EncodeEnd ==
  /\ phase = "encode" /\ i >= Len(bin)
  /\ i' = 0
  /\ phase' = "decode"
  /\ UNCHANGED <<bin, text, data>>

-----------------------------------------------------------------------------
(***************************************************************************)
(* base64_decode                                                           *)
(***************************************************************************)
\* A character looked up in base64char: 0xFF stays for one that is not there.
Lookup(k) == IF text[i + k + 1] \in Sextet THEN text[i + k + 1] ELSE 255

FirstByte(s, t) == ((s % 64) * 4) + ((t \div 16) % 4)
SecondByte(t, u) == ((t % 16) * 16) + ((u \div 4) % 16)
ThirdByte(u, v) == ((u % 4) * 64) + (v % 64)

\* A slip: the loop does not stop at the first '='.
DecodeGroupPastPad ==
  /\ phase = "decode" /\ i < Len(text)
  /\ data' = data \o <<FirstByte(Lookup(0), Lookup(1)),
                       SecondByte(Lookup(1), Lookup(2)),
                       ThirdByte(Lookup(2), Lookup(3))>>
  /\ i' = i + 4
  /\ phase' = phase
  /\ UNCHANGED <<bin, text>>

\* One group of four characters; '=' leaves the loop.
DecodeGroup ==
  /\ phase = "decode" /\ i < Len(text)
  /\ \/ /\ text[i + 3] = Pad
        /\ data' = Append(data, FirstByte(Lookup(0), Lookup(1)))
        /\ phase' = "done"
        /\ UNCHANGED i
     \/ /\ text[i + 3] # Pad /\ text[i + 4] = Pad
        /\ data' = data \o <<FirstByte(Lookup(0), Lookup(1)),
                             SecondByte(Lookup(1), Lookup(2))>>
        /\ phase' = "done"
        /\ UNCHANGED i
     \/ /\ text[i + 3] # Pad /\ text[i + 4] # Pad
        /\ data' = data \o <<FirstByte(Lookup(0), Lookup(1)),
                             SecondByte(Lookup(1), Lookup(2)),
                             ThirdByte(Lookup(2), Lookup(3))>>
        /\ i' = i + 4
        /\ UNCHANGED phase
  /\ UNCHANGED <<bin, text>>

\* The end of the text.
DecodeEnd ==
  /\ phase = "decode" /\ i = Len(text)
  /\ phase' = "done"
  /\ UNCHANGED <<bin, i, text, data>>

Base64Next == EncodeGroup \/ EncodeEnd \/ DecodeGroup \/ DecodeEnd

Base64Spec == Base64Init /\ [][Base64Next]_base64Vars

-----------------------------------------------------------------------------
\* The state has its types; the decoder's index stays on the boundary of a
\* group, so that its reads of a whole group stay inside the text.
Base64TypeOK ==
  /\ bin \in Inputs
  /\ phase \in {"encode", "decode", "done"}
  /\ i \in Nat
  /\ text \in Seq(Sextet \cup {Pad})
  /\ data \in Seq(Octet)
  /\ phase # "encode" => i % 4 = 0 /\ i <= Len(text) /\ Len(text) % 4 = 0

(***************************************************************************)
(* The reference: three bytes are a number of 24 bits, written as four     *)
(* digits of base 64.                                                      *)
(***************************************************************************)
ByteOrZero(k) == IF k < Len(bin) THEN bin[k + 1] ELSE 0

Group(g) == ByteOrZero(3 * g) * 65536 + ByteOrZero(3 * g + 1) * 256
              + ByteOrZero(3 * g + 2)

Digit(g, m) == CASE m = 0 -> Group(g) \div 262144
                 [] m = 1 -> (Group(g) \div 4096) % 64
                 [] m = 2 -> (Group(g) \div 64) % 64
                 [] m = 3 -> Group(g) % 64

\* Digits without a bit of the data are written '='.
RefChar(g, m) == IF 3 * g + m > Len(bin) THEN Pad ELSE Digit(g, m)

\* public.c base64_encode: the text is at every moment the standard encoding
\* of the groups done so far, padded to whole groups at the end.
EncodesGroups ==
  /\ phase = "encode" => 3 * Len(text) = 4 * i
  /\ phase # "encode" => Len(text) = 4 * ((Len(bin) + 2) \div 3)
  /\ \A g \in 0 .. Len(text) \div 4 - 1, m \in 0 .. 3 :
       text[4 * g + m + 1] = RefChar(g, m)

\* public.c base64_decode, called for each block by comTreat.c parseJson: what
\* was decoded is at every moment the beginning of what was encoded, and all
\* of it, no byte more, when the loop is left.
DecodesBack ==
  /\ Len(data) <= Len(bin)
  /\ \A k \in 1 .. Len(data) : data[k] = bin[k]
  /\ phase = "done" => Len(data) = Len(bin)
=============================================================================
