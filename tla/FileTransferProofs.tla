------------------------ MODULE FileTransferProofs -------------------------
(***************************************************************************)
(* Proofs about the transfer of a file.                                    *)
(*   - Base64: the encoder writes the standard encoding and the decoder    *)
(*     gives back what was encoded, for byte sequences of any length.      *)
(*   - Crc32: the table-driven CRC is the bit-serial one, and the register *)
(*     holds the remainder of a division of polynomials, for files of any  *)
(*     length.                                                             *)
(*   - Download: what is declared complete and what reaches the disk, for  *)
(*     any files, any number of blocks and any pointer size.               *)
(***************************************************************************)
EXTENDS Base64, Crc32Properties, Download, SequenceTheorems,
        WellFoundedInduction, TLAPS

(***************************************************************************)
(* The arithmetic of one group.                                            *)
(***************************************************************************)
\* base64_encode: the four characters of three bytes are the digits of the
\* 24-bit number; with zeros for b and c these are the shorter groups.
LEMMA EncodeIsDigits ==
  ASSUME NEW a \in Octet, NEW b \in Octet, NEW c \in Octet
  PROVE  LET v == a * 65536 + b * 256 + c
         IN /\ First(a) = v \div 262144
            /\ Second(a, b) = (v \div 4096) % 64
            /\ Third(b, c) = (v \div 64) % 64
            /\ Fourth(c) = v % 64
<1> DEFINE v == a * 65536 + b * 256 + c
<1>1. PICK a1 \in 0 .. 63, a0 \in 0 .. 3 :
        a = 4 * a1 + a0 /\ a \div 4 = a1 /\ a % 4 = a0
  <2>1. a \div 4 \in 0 .. 63 /\ a % 4 \in 0 .. 3 /\ a = 4 * (a \div 4) + (a % 4)
    BY DEF Octet
  <2> QED BY <2>1
<1>2. PICK b1 \in 0 .. 15, b0 \in 0 .. 15 :
        b = 16 * b1 + b0 /\ b \div 16 = b1 /\ b % 16 = b0
  <2>1. b \div 16 \in 0 .. 15 /\ b % 16 \in 0 .. 15 /\ b = 16 * (b \div 16) + (b % 16)
    BY DEF Octet
  <2> QED BY <2>1
<1>3. PICK c1 \in 0 .. 3, c0 \in 0 .. 63 :
        c = 64 * c1 + c0 /\ c \div 64 = c1 /\ c % 64 = c0
  <2>1. c \div 64 \in 0 .. 3 /\ c % 64 \in 0 .. 63 /\ c = 64 * (c \div 64) + (c % 64)
    BY DEF Octet
  <2> QED BY <2>1
<1>4. v \in Int /\ v = 262144 * a1 + 4096 * (16 * a0 + b1) + 64 * (4 * b0 + c1) + c0
  BY <1>1, <1>2, <1>3
<1>5. v \div 262144 = a1
  BY <1>4
<1>6. v \div 4096 = 64 * a1 + 16 * a0 + b1
  BY <1>4
<1>7. v \div 64 = 4096 * a1 + 64 * (16 * a0 + b1) + 4 * b0 + c1
  BY <1>4
<1>8. v % 64 = c0
  BY <1>4
<1>9. (v \div 4096) % 64 = 16 * a0 + b1
  BY <1>6
<1>10. (v \div 64) % 64 = 4 * b0 + c1
  BY <1>7
<1> QED
  BY <1>1, <1>2, <1>3, <1>5, <1>8, <1>9, <1>10 DEF First, Second, Third, Fourth

\* The characters of a group are in the alphabet.
LEMMA EncodeIsSextets ==
  ASSUME NEW a \in Octet, NEW b \in Octet, NEW c \in Octet
  PROVE  /\ First(a) \in Sextet
         /\ Second(a, b) \in Sextet
         /\ Third(b, c) \in Sextet
         /\ Fourth(c) \in Sextet
BY DEF First, Second, Third, Fourth, Octet, Sextet

\* base64_decode: the three bytes come back, each from the two characters that
\* hold its bits, whatever the rest of these characters holds.
LEMMA DecodeIsBytes ==
  ASSUME NEW a \in Octet, NEW b \in Octet, NEW c \in Octet
  PROVE  /\ FirstByte(First(a), Second(a, b)) = a
         /\ SecondByte(Second(a, b), Third(b, c)) = b
         /\ ThirdByte(Third(b, c), Fourth(c)) = c
BY DEF First, Second, Third, Fourth, FirstByte, SecondByte, ThirdByte, Octet

\* The characters of a group of the reference, in the encoder's terms.
LEMMA ReferenceGroup ==
  ASSUME bin \in Seq(Octet), NEW g \in Nat, 3 * g < Len(bin)
  PROVE  LET a == ByteOrZero(3 * g)
             b == ByteOrZero(3 * g + 1)
             c == ByteOrZero(3 * g + 2)
         IN /\ a \in Octet /\ b \in Octet /\ c \in Octet
            /\ RefChar(g, 0) = First(a)
            /\ RefChar(g, 1) = Second(a, b)
            /\ RefChar(g, 2) = IF 3 * g + 2 > Len(bin) THEN Pad ELSE Third(b, c)
            /\ RefChar(g, 3) = IF 3 * g + 3 > Len(bin) THEN Pad ELSE Fourth(c)
<1> DEFINE a == ByteOrZero(3 * g)
           b == ByteOrZero(3 * g + 1)
           c == ByteOrZero(3 * g + 2)
<1>1. a \in Octet /\ b \in Octet /\ c \in Octet
  <2>1. ASSUME NEW k \in Nat
        PROVE  ByteOrZero(k) \in Octet
    <3>1. CASE k < Len(bin)
      <4>1. k + 1 \in 1 .. Len(bin)
        BY <3>1
      <4>2. bin[k + 1] \in Octet
        BY <4>1
      <4> QED BY <3>1, <4>2 DEF ByteOrZero
    <3>2. CASE ~(k < Len(bin))
      BY <3>2 DEF ByteOrZero, Octet
    <3> QED BY <3>1, <3>2
  <2> QED BY <2>1
<1>2. /\ First(a) = Digit(g, 0)
      /\ Second(a, b) = Digit(g, 1)
      /\ Third(b, c) = Digit(g, 2)
      /\ Fourth(c) = Digit(g, 3)
  BY <1>1, EncodeIsDigits DEF Digit, Group
<1> QED
  BY <1>1, <1>2 DEF RefChar

-----------------------------------------------------------------------------
(***************************************************************************)
(* What the properties need besides themselves to be inductive: how far    *)
(* each loop is.                                                           *)
(***************************************************************************)
Progress ==
  /\ Len(text) % 4 = 0
  /\ phase = "encode" => data = << >> /\ i <= Len(bin) + 2
  /\ phase = "decode" => 4 * Len(data) = 3 * i

IInv == Base64TypeOK /\ EncodesGroups /\ DecodesBack /\ Progress

LEMMA InitIInv == Base64Init => IInv
BY DEF Base64Init, IInv, Base64TypeOK, EncodesGroups, DecodesBack, Progress

\* base64_encode: one iteration appends the reference's group.
LEMMA EncodeGroupStep == IInv /\ EncodeGroup => IInv'
<1> SUFFICES ASSUME IInv, EncodeGroup PROVE IInv'
  OBVIOUS
<1>1. /\ bin \in Seq(Octet) /\ i \in Nat /\ text \in Seq(Sextet \cup {Pad})
      /\ 3 * Len(text) = 4 * i /\ Len(text) % 4 = 0
      /\ phase = "encode" /\ i < Len(bin)
  <2>1. bin \in Seq(Octet) /\ text \in Seq(Sextet \cup {Pad}) /\ i \in Nat
    BY InputsAssumption DEF IInv, Base64TypeOK
  <2>2. phase = "encode" /\ i < Len(bin)
    BY DEF EncodeGroup
  <2>3. 3 * Len(text) = 4 * i /\ Len(text) % 4 = 0
    BY <2>2 DEF IInv, EncodesGroups, Progress
  <2> QED BY <2>1, <2>2, <2>3
<1>2. bin' = bin /\ data' = data /\ phase' = phase /\ i' = i + 3
  BY DEF EncodeGroup
<1>3. PICK q \in Nat : i = 3 * q /\ Len(text) = 4 * q
  <2>1. Len(text) = 4 * (Len(text) \div 4) /\ Len(text) \div 4 \in Nat
    BY <1>1
  <2> QED BY <1>1, <2>1
<1> DEFINE a == ByteOrZero(3 * q)
           b == ByteOrZero(3 * q + 1)
           c == ByteOrZero(3 * q + 2)
<1>4. /\ a \in Octet /\ b \in Octet /\ c \in Octet
      /\ RefChar(q, 0) = First(a)
      /\ RefChar(q, 1) = Second(a, b)
      /\ RefChar(q, 2) = IF 3 * q + 2 > Len(bin) THEN Pad ELSE Third(b, c)
      /\ RefChar(q, 3) = IF 3 * q + 3 > Len(bin) THEN Pad ELSE Fourth(c)
  BY <1>1, <1>3, ReferenceGroup
<1>5. /\ First(a) \in Sextet /\ Second(a, b) \in Sextet
      /\ Third(b, c) \in Sextet /\ Fourth(c) \in Sextet
  BY <1>4, EncodeIsSextets
<1>6. /\ a = Byte(0)
      /\ b = IF Missing(1) THEN 0 ELSE Byte(1)
      /\ c = IF Missing(2) THEN 0 ELSE Byte(2)
      /\ Missing(1) => Missing(2)
      /\ Missing(1) <=> 3 * q + 2 > Len(bin)
      /\ Missing(2) <=> 3 * q + 3 > Len(bin)
  BY <1>1, <1>3 DEF ByteOrZero, Byte, Missing
<1> HIDE DEF a, b, c
<1> DEFINE s == RefChar(q, 0)
           t == RefChar(q, 1)
           u == RefChar(q, 2)
           v == RefChar(q, 3)
<1>7. text' = text \o <<s, t, u, v>>
  BY <1>4, <1>6 DEF EncodeGroup
<1>8. /\ s \in Sextet \cup {Pad} /\ t \in Sextet \cup {Pad}
      /\ u \in Sextet \cup {Pad} /\ v \in Sextet \cup {Pad}
  BY <1>4, <1>5
<1>9. ASSUME NEW m \in 0 .. 3
      PROVE  RefChar(q, m) = <<s, t, u, v>>[m + 1]
  OBVIOUS
<1> HIDE DEF s, t, u, v
<1> DEFINE grp == <<s, t, u, v>>
<1>10. grp \in Seq(Sextet \cup {Pad}) /\ Len(grp) = 4
  BY <1>8
<1>11. text' = text \o grp
  BY <1>7
<1>21. \A m \in 0 .. 3 : grp[m + 1] = RefChar(q, m)
  BY <1>9
<1> HIDE DEF grp
<1>12. /\ text' \in Seq(Sextet \cup {Pad})
       /\ Len(text') = Len(text) + Len(grp)
       /\ \A k \in 1 .. Len(text) : text'[k] = text[k]
       /\ \A k \in 1 .. Len(grp) : text'[Len(text) + k] = grp[k]
  <2>1. text \in Seq(Sextet \cup {Pad}) /\ grp \in Seq(Sextet \cup {Pad})
    BY <1>1, <1>10
  <2>2. text \o grp \in Seq(Sextet \cup {Pad})
    BY <2>1
  <2>3. Len(text \o grp) = Len(text) + Len(grp)
    BY <2>1
  <2>4. ASSUME NEW k \in 1 .. Len(text) PROVE (text \o grp)[k] = text[k]
    BY <2>1
  <2>5. ASSUME NEW k \in 1 .. Len(grp) PROVE (text \o grp)[Len(text) + k] = grp[k]
    BY <2>1
  <2> QED BY <1>11, <2>2, <2>3, <2>4, <2>5
<1>13. Len(text') = 4 * q + 4
  BY <1>3, <1>10, <1>12
<1>14. /\ \A k \in 1 .. 4 * q : text'[k] = text[k]
       /\ \A k \in 1 .. 4 : text'[4 * q + k] = grp[k]
  BY <1>3, <1>10, <1>12
<1>15. i' = 3 * q + 3
  BY <1>2, <1>3
<1>16. 3 * Len(text') = 4 * i' /\ Len(text') % 4 = 0
  <2>1. 3 * (4 * q + 4) = 4 * (3 * q + 3) /\ (4 * q + 4) % 4 = 0
    OBVIOUS
  <2> QED BY <1>13, <1>15, <2>1
<1>17. Base64TypeOK'
  BY <1>1, <1>2, <1>12, <1>15 DEF Base64TypeOK, IInv
<1>18. EncodesGroups'
  <2>1. ASSUME NEW g \in 0 .. Len(text') \div 4 - 1, NEW m \in 0 .. 3
        PROVE  text'[4 * g + m + 1] = RefChar(g, m)'
    <3>1. RefChar(g, m)' = RefChar(g, m)
      BY <1>2 DEF RefChar, Digit, Group, ByteOrZero
    <3>2. g \in 0 .. q
      BY <1>13
    <3>3. CASE g < q
      <4>1. g \in 0 .. Len(text) \div 4 - 1
        BY <1>3, <3>2, <3>3
      <4>2. text[4 * g + m + 1] = RefChar(g, m)
        BY <4>1 DEF EncodesGroups, IInv
      <4>3. 4 * g + m + 1 \in 1 .. 4 * q
        BY <3>2, <3>3
      <4> QED BY <1>14, <3>1, <4>2, <4>3
    <3>4. CASE g = q
      <4>2. grp[m + 1] = RefChar(q, m)
        BY <1>21
      <4>3. text'[4 * q + (m + 1)] = grp[m + 1]
        <5>1. m + 1 \in 1 .. 4
          OBVIOUS
        <5> QED BY <1>14, <5>1
      <4>4. 4 * g + m + 1 = 4 * q + (m + 1)
        BY <3>4
      <4> QED BY <3>1, <3>4, <4>2, <4>3, <4>4
    <3> QED BY <3>2, <3>3, <3>4
  <2> QED BY <1>1, <1>2, <1>16, <2>1 DEF EncodesGroups
<1>19. DecodesBack'
  BY <1>2 DEF DecodesBack, IInv
<1>20. Progress'
  BY <1>1, <1>2, <1>3, <1>15, <1>16 DEF Progress, IInv
<1> QED BY <1>17, <1>18, <1>19, <1>20 DEF IInv

\* base64_decode: one iteration gives back the bytes of one group, as many as
\* the group had.
LEMMA DecodeGroupStep == IInv /\ DecodeGroup => IInv'
<1> SUFFICES ASSUME IInv, DecodeGroup PROVE IInv'
  OBVIOUS
<1>1. /\ bin \in Seq(Octet) /\ i \in Nat /\ data \in Seq(Octet)
      /\ phase = "decode" /\ i < Len(text) /\ i % 4 = 0
      /\ Len(text) = 4 * ((Len(bin) + 2) \div 3)
      /\ Len(text) % 4 = 0 /\ 4 * Len(data) = 3 * i
      /\ UNCHANGED <<bin, text>>
  BY InputsAssumption DEF IInv, Base64TypeOK, EncodesGroups, Progress, DecodeGroup
<1>2. PICK q \in Nat : i = 4 * q /\ Len(data) = 3 * q
  <2>1. i = 4 * (i \div 4) /\ i \div 4 \in Nat
    BY <1>1
  <2>2. Len(data) \in Nat
    BY <1>1
  <2> QED BY <1>1, <2>1, <2>2
<1>3. 3 * q < Len(bin) /\ i + 4 <= Len(text)
  BY <1>1, <1>2
<1> DEFINE a == ByteOrZero(3 * q)
           b == ByteOrZero(3 * q + 1)
           c == ByteOrZero(3 * q + 2)
<1>4. /\ a \in Octet /\ b \in Octet /\ c \in Octet
      /\ RefChar(q, 0) = First(a)
      /\ RefChar(q, 1) = Second(a, b)
      /\ RefChar(q, 2) = IF 3 * q + 2 > Len(bin) THEN Pad ELSE Third(b, c)
      /\ RefChar(q, 3) = IF 3 * q + 3 > Len(bin) THEN Pad ELSE Fourth(c)
  BY <1>1, <1>3, ReferenceGroup
<1>5. /\ First(a) \in Sextet /\ Second(a, b) \in Sextet
      /\ Third(b, c) \in Sextet /\ Fourth(c) \in Sextet
  BY <1>4, EncodeIsSextets
<1>6. /\ a = bin[3 * q + 1]
      /\ 3 * q + 2 <= Len(bin) => b = bin[3 * q + 2]
      /\ 3 * q + 3 <= Len(bin) => c = bin[3 * q + 3]
  BY <1>1, <1>3 DEF ByteOrZero
<1>7. /\ FirstByte(First(a), Second(a, b)) = a
      /\ SecondByte(Second(a, b), Third(b, c)) = b
      /\ ThirdByte(Third(b, c), Fourth(c)) = c
  BY <1>4, DecodeIsBytes
<1> HIDE DEF a, b, c
<1>8. /\ text[i + 1] = First(a) /\ text[i + 2] = Second(a, b)
      /\ text[i + 3] = IF 3 * q + 2 > Len(bin) THEN Pad ELSE Third(b, c)
      /\ text[i + 4] = IF 3 * q + 3 > Len(bin) THEN Pad ELSE Fourth(c)
  <2>1. q \in 0 .. Len(text) \div 4 - 1
    BY <1>1, <1>2
  <2>2. ASSUME NEW m \in 0 .. 3 PROVE text[4 * q + m + 1] = RefChar(q, m)
    BY <2>1 DEF IInv, EncodesGroups
  <2> QED BY <1>2, <1>4, <2>2
<1>9. /\ Lookup(0) = First(a) /\ Lookup(1) = Second(a, b)
      /\ 3 * q + 2 <= Len(bin) => Lookup(2) = Third(b, c)
      /\ 3 * q + 3 <= Len(bin) => Lookup(3) = Fourth(c)
  BY <1>1, <1>5, <1>8 DEF Lookup
<1>10. ~(Pad \in Sextet)
  BY DEF Pad, Sextet
<1>11. PICK n \in 1 .. 3 :
         /\ data' \in Seq(Octet) /\ Len(data') = 3 * q + n
         /\ \A k \in 1 .. Len(data) : data'[k] = data[k]
         /\ \A k \in 1 .. n : data'[3 * q + k] = bin[3 * q + k]
         /\ 3 * q + n <= Len(bin)
         /\ \/ n = 3 /\ phase' = "decode" /\ i' = i + 4
            \/ 3 * q + n = Len(bin) /\ phase' = "done" /\ i' = i
  <2>1. CASE 3 * q + 2 > Len(bin)
    <3>1. data' = Append(data, a) /\ phase' = "done" /\ i' = i
      BY <1>7, <1>8, <1>9, <2>1 DEF DecodeGroup
    <3>2. 3 * q + 1 = Len(bin)
      BY <1>1, <1>3, <2>1
    <3>3. /\ data' \in Seq(Octet) /\ Len(data') = 3 * q + 1
          /\ \A k \in 1 .. Len(data) : data'[k] = data[k]
          /\ data'[3 * q + 1] = a
      <4>1. data \in Seq(Octet) /\ Len(data) = 3 * q /\ a \in Octet
        BY <1>1, <1>2, <1>4
      <4> QED BY <3>1, <4>1
    <3> QED BY <1>6, <3>1, <3>2, <3>3
  <2>2. CASE 3 * q + 2 = Len(bin)
    <3>1. data' = data \o <<a, b>> /\ phase' = "done" /\ i' = i
      <4>1. text[i + 3] # Pad /\ text[i + 4] = Pad
        BY <1>1, <1>5, <1>8, <1>10, <2>2
      <4>2. /\ data' = data \o <<FirstByte(Lookup(0), Lookup(1)),
                                 SecondByte(Lookup(1), Lookup(2))>>
            /\ phase' = "done" /\ i' = i
        BY <4>1 DEF DecodeGroup
      <4> QED BY <1>1, <1>7, <1>9, <2>2, <4>2
    <3>2. /\ data' \in Seq(Octet) /\ Len(data') = 3 * q + 2
          /\ \A k \in 1 .. Len(data) : data'[k] = data[k]
          /\ data'[3 * q + 1] = a /\ data'[3 * q + 2] = b
      <4> DEFINE bs == <<a, b>>
      <4>1. /\ bs \in Seq(Octet) /\ Len(bs) = 2
            /\ bs[1] = a /\ bs[2] = b
        BY <1>4
      <4> HIDE DEF bs
      <4>2. data' = data \o bs
        BY <3>1 DEF bs
      <4> data \in Seq(Octet)
        BY <1>1
      <4>3. /\ data' \in Seq(Octet) /\ Len(data') = Len(data) + Len(bs)
            /\ \A k \in 1 .. Len(data) : data'[k] = data[k]
            /\ \A k \in 1 .. Len(bs) : data'[Len(data) + k] = bs[k]
        <5>1. bs \in Seq(Octet)
          BY <4>1
        <5>2. data \o bs \in Seq(Octet)
          BY <5>1
        <5>3. Len(data \o bs) = Len(data) + Len(bs)
          BY <5>1
        <5>4. ASSUME NEW k \in 1 .. Len(data) PROVE (data \o bs)[k] = data[k]
          BY <5>1
        <5>5. ASSUME NEW k \in 1 .. Len(bs) PROVE (data \o bs)[Len(data) + k] = bs[k]
          BY <5>1
        <5> QED BY <4>2, <5>2, <5>3, <5>4, <5>5
      <4> QED BY <1>2, <4>1, <4>3
    <3> QED BY <1>6, <2>2, <3>1, <3>2
  <2>3. CASE 3 * q + 2 < Len(bin)
    <3>1. data' = data \o <<a, b, c>> /\ phase' = "decode" /\ i' = i + 4
      <4>1. text[i + 3] # Pad /\ text[i + 4] # Pad
        BY <1>1, <1>5, <1>8, <1>10, <2>3
      <4>2. /\ data' = data \o <<FirstByte(Lookup(0), Lookup(1)),
                                 SecondByte(Lookup(1), Lookup(2)),
                                 ThirdByte(Lookup(2), Lookup(3))>>
            /\ phase' = "decode" /\ i' = i + 4
        BY <1>1, <4>1 DEF DecodeGroup
      <4>3. /\ Lookup(0) = First(a) /\ Lookup(1) = Second(a, b)
            /\ Lookup(2) = Third(b, c) /\ Lookup(3) = Fourth(c)
        <5>1. 3 * q + 2 <= Len(bin) /\ 3 * q + 3 <= Len(bin)
          BY <1>1, <2>3
        <5> QED BY <1>9, <5>1
      <4> QED BY <1>7, <4>2, <4>3
    <3>2. /\ data' \in Seq(Octet) /\ Len(data') = 3 * q + 3
          /\ \A k \in 1 .. Len(data) : data'[k] = data[k]
          /\ data'[3 * q + 1] = a /\ data'[3 * q + 2] = b /\ data'[3 * q + 3] = c
      <4> DEFINE bs == <<a, b, c>>
      <4>1. /\ bs \in Seq(Octet) /\ Len(bs) = 3
            /\ bs[1] = a /\ bs[2] = b /\ bs[3] = c
        BY <1>4
      <4> HIDE DEF bs
      <4>2. data' = data \o bs
        BY <3>1 DEF bs
      <4> data \in Seq(Octet)
        BY <1>1
      <4>3. /\ data' \in Seq(Octet) /\ Len(data') = Len(data) + Len(bs)
            /\ \A k \in 1 .. Len(data) : data'[k] = data[k]
            /\ \A k \in 1 .. Len(bs) : data'[Len(data) + k] = bs[k]
        <5>1. bs \in Seq(Octet)
          BY <4>1
        <5>2. data \o bs \in Seq(Octet)
          BY <5>1
        <5>3. Len(data \o bs) = Len(data) + Len(bs)
          BY <5>1
        <5>4. ASSUME NEW k \in 1 .. Len(data) PROVE (data \o bs)[k] = data[k]
          BY <5>1
        <5>5. ASSUME NEW k \in 1 .. Len(bs) PROVE (data \o bs)[Len(data) + k] = bs[k]
          BY <5>1
        <5> QED BY <4>2, <5>2, <5>3, <5>4, <5>5
      <4> QED BY <1>2, <4>1, <4>3
    <3>3. 3 * q + 3 <= Len(bin)
      BY <1>1, <2>3
    <3>4. \A k \in 1 .. 3 : data'[3 * q + k] = bin[3 * q + k]
      BY <1>6, <2>3, <3>2, <3>3
    <3> QED BY <3>1, <3>2, <3>3, <3>4
  <2> QED BY <1>1, <2>1, <2>2, <2>3
<1>12. Base64TypeOK'
  <2>1. /\ phase' \in {"decode", "done"}
        /\ i' \in Nat /\ i' % 4 = 0 /\ i' <= Len(text')
    BY <1>1, <1>2, <1>3, <1>11
  <2> QED BY <1>1, <1>11, <2>1 DEF Base64TypeOK, IInv
<1>13. EncodesGroups'
  <2>1. phase' # "encode"
    BY <1>11
  <2>2. \A g, m : RefChar(g, m)' = RefChar(g, m)
    BY <1>1 DEF RefChar, Digit, Group, ByteOrZero
  <2> QED BY <1>1, <2>1, <2>2 DEF EncodesGroups, IInv
<1>14. DecodesBack'
  <2>1. Len(data') <= Len(bin') /\ (phase' = "done" => Len(data') = Len(bin'))
    BY <1>1, <1>11
  <2>2. ASSUME NEW k \in 1 .. Len(data') PROVE data'[k] = bin'[k]
    <3>1. CASE k <= Len(data)
      BY <1>1, <1>11, <3>1 DEF DecodesBack, IInv
    <3>2. CASE k > Len(data)
      <4>1. k - 3 * q \in 1 .. n /\ 3 * q + (k - 3 * q) = k
        BY <1>2, <1>11, <3>2
      <4> QED BY <1>1, <1>11, <4>1
    <3> QED BY <1>1, <1>2, <3>1, <3>2
  <2> QED BY <2>1, <2>2 DEF DecodesBack
<1>15. Progress'
  <2>1. phase' = "decode" => 4 * Len(data') = 3 * i'
    BY <1>2, <1>11
  <2>2. phase' # "encode" /\ Len(text') % 4 = 0
    BY <1>1, <1>11
  <2> QED BY <2>1, <2>2 DEF Progress
<1> QED BY <1>12, <1>13, <1>14, <1>15 DEF IInv

-----------------------------------------------------------------------------
LEMMA NextIInv == IInv /\ [Base64Next]_base64Vars => IInv'
<1> SUFFICES ASSUME IInv, [Base64Next]_base64Vars PROVE IInv'
  OBVIOUS
<1>1. CASE EncodeGroup
  BY <1>1, EncodeGroupStep
<1>2. CASE DecodeGroup
  BY <1>2, DecodeGroupStep
<1>3. ASSUME \/ EncodeEnd \/ DecodeEnd \/ UNCHANGED base64Vars
      PROVE  /\ bin' = bin /\ text' = text /\ data' = data
             /\ \A g, m : RefChar(g, m)' = RefChar(g, m)
  <2>1. bin' = bin /\ text' = text /\ data' = data
    BY <1>3 DEF EncodeEnd, DecodeEnd, base64Vars
  <2> QED BY <2>1 DEF RefChar, Digit, Group, ByteOrZero
<1>4. CASE EncodeEnd
  <2>1. /\ phase = "encode" /\ phase' = "decode" /\ i' = 0
        /\ i >= Len(bin) /\ i <= Len(bin) + 2 /\ data = << >>
        /\ 3 * Len(text) = 4 * i /\ Len(text) % 4 = 0
    BY <1>4 DEF EncodeEnd, IInv, EncodesGroups, Progress
  <2>2. bin \in Seq(Octet) /\ i \in Nat /\ text \in Seq(Sextet \cup {Pad})
    BY InputsAssumption DEF IInv, Base64TypeOK
  <2>3. Len(text) = 4 * ((Len(bin) + 2) \div 3)
    <3>1. PICK q \in Nat : Len(text) = 4 * q
      <4>1. Len(text) = 4 * (Len(text) \div 4) /\ Len(text) \div 4 \in Nat
        BY <2>1, <2>2
      <4> QED BY <4>1
    <3>2. i = 3 * q
      BY <2>1, <2>2, <3>1
    <3>3. (Len(bin) + 2) \div 3 = q
      BY <2>1, <2>2, <3>2
    <3> QED BY <3>1, <3>3
  <2>4. Base64TypeOK'
    BY <1>3, <1>4, <2>1, <2>2 DEF Base64TypeOK, IInv
  <2>5. EncodesGroups'
    BY <1>3, <1>4, <2>1, <2>3 DEF EncodesGroups, IInv
  <2>6. DecodesBack'
    BY <1>3, <1>4, <2>1 DEF DecodesBack, IInv
  <2>7. Progress'
    BY <1>3, <1>4, <2>1 DEF Progress
  <2> QED BY <2>4, <2>5, <2>6, <2>7 DEF IInv
<1>5. CASE DecodeEnd
  <2>1. /\ phase = "decode" /\ phase' = "done" /\ i' = i /\ i = Len(text)
        /\ Len(text) = 4 * ((Len(bin) + 2) \div 3) /\ 4 * Len(data) = 3 * i
        /\ Len(data) <= Len(bin)
    BY <1>5 DEF DecodeEnd, IInv, EncodesGroups, DecodesBack, Progress
  <2>2. Len(bin) \in Nat /\ Len(data) \in Nat
    BY InputsAssumption DEF IInv, Base64TypeOK
  <2>3. Len(data) = Len(bin)
    BY <2>1, <2>2
  <2>4. Base64TypeOK'
    BY <1>3, <1>5, <2>1 DEF Base64TypeOK, IInv
  <2>5. EncodesGroups'
    BY <1>3, <1>5, <2>1 DEF EncodesGroups, IInv
  <2>6. DecodesBack'
    BY <1>3, <1>5, <2>1, <2>3 DEF DecodesBack, IInv
  <2>7. Progress'
    BY <1>3, <1>5, <2>1 DEF Progress, IInv
  <2> QED BY <2>4, <2>5, <2>6, <2>7 DEF IInv
<1>6. CASE UNCHANGED base64Vars
  BY <1>3, <1>6 DEF IInv, Base64TypeOK, EncodesGroups, DecodesBack, Progress, base64Vars
<1> QED BY <1>1, <1>2, <1>4, <1>5, <1>6 DEF Base64Next

LEMMA Base64Invariant == Base64Spec => []IInv
<1>1. Base64Init => IInv
  BY InitIInv
<1>2. IInv /\ [Base64Next]_base64Vars => IInv'
  BY NextIInv
<1> QED BY <1>1, <1>2, PTL DEF Base64Spec

\* base64_decode: its index stays at the beginning of a group of four
\* characters, so it never reads past the end of an encoded text.
THEOREM Base64TypeCorrect == Base64Spec => []Base64TypeOK
<1>1. IInv => Base64TypeOK
  BY DEF IInv
<1> QED BY <1>1, Base64Invariant, PTL

\* base64_encode writes the standard encoding of every byte sequence.
THEOREM EncodingIsStandard == Base64Spec => []EncodesGroups
<1>1. IInv => EncodesGroups
  BY DEF IInv
<1> QED BY <1>1, Base64Invariant, PTL

\* base64_decode gives back every byte sequence that was encoded: the block
\* of a file that comTreat.c stores is the one the server encoded.
THEOREM DecodingGivesBack == Base64Spec => []DecodesBack
<1>1. IInv => DecodesBack
  BY DEF IInv
<1> QED BY <1>1, Base64Invariant, PTL

-----------------------------------------------------------------------------
\* Exclusive or and shifts stay inside the word, and shifts keep exclusive or.
LEMMA XorIsWord ==
  ASSUME NEW a \in CrcWord, NEW b \in CrcWord
  PROVE  Xor(a, b) \in CrcWord
BY DEF CrcWord, Xor

LEMMA ShiftIsWord ==
  ASSUME NEW c, NEW n \in Nat
  PROVE  ShiftRight(c, n) \in CrcWord
BY DEF CrcWord, ShiftRight

LEMMA ShiftXor ==
  ASSUME NEW a, NEW b, NEW n \in Nat
  PROVE  ShiftRight(Xor(a, b), n) = Xor(ShiftRight(a, n), ShiftRight(b, n))
BY DEF ShiftRight, Xor

\* Exclusive or is commutative, associative and its own inverse.
LEMMA XorLaws ==
  ASSUME NEW a, NEW b, NEW c
  PROVE  /\ Xor(a, b) = Xor(b, a)
         /\ Xor(Xor(a, b), c) = Xor(a, Xor(b, c))
         /\ Xor(Xor(a, c), Xor(b, c)) = Xor(a, b)
         /\ Xor(a, {}) = a
BY DEF Xor

LEMMA DivideBitIsWord ==
  ASSUME NEW c \in CrcWord
  PROVE  DivideBit(c) \in CrcWord
<1>1. Polynomial \in CrcWord
  BY DEF Polynomial, CrcWord
<1> QED BY <1>1, ShiftIsWord, XorIsWord DEF DivideBit

\* make_crc32_table: one bit of the inner loop is linear.
LEMMA DivideBitLinear ==
  ASSUME NEW a, NEW b
  PROVE  DivideBit(Xor(a, b)) = Xor(DivideBit(a), DivideBit(b))
<1>1. ShiftRight(Xor(a, b), 1) = Xor(ShiftRight(a, 1), ShiftRight(b, 1))
  BY ShiftXor
<1>2. 0 \in Xor(a, b) <=> ((0 \in a) # (0 \in b))
  BY DEF Xor
<1> DEFINE s == ShiftRight(a, 1)
           t == ShiftRight(b, 1)
<1> HIDE DEF s, t
<1>3. /\ DivideBit(a) = IF 0 \in a THEN Xor(s, Polynomial) ELSE s
      /\ DivideBit(b) = IF 0 \in b THEN Xor(t, Polynomial) ELSE t
      /\ DivideBit(Xor(a, b)) = IF 0 \in Xor(a, b) THEN Xor(Xor(s, t), Polynomial)
                                ELSE Xor(s, t)
  BY <1>1 DEF DivideBit, s, t
<1>4. CASE 0 \in a /\ 0 \in b
  BY <1>2, <1>3, <1>4, XorLaws
<1>5. CASE 0 \in a /\ 0 \notin b
  <2>1. Xor(Xor(s, t), Polynomial) = Xor(Xor(s, Polynomial), t)
    BY DEF Xor
  <2> QED BY <1>2, <1>3, <1>5, <2>1
<1>6. CASE 0 \notin a /\ 0 \in b
  BY <1>2, <1>3, <1>6, XorLaws
<1>7. CASE 0 \notin a /\ 0 \notin b
  BY <1>2, <1>3, <1>7
<1> QED BY <1>4, <1>5, <1>6, <1>7

\* So is a table entry, eight bits.
LEMMA TableEntryLinear ==
  ASSUME NEW a, NEW b
  PROVE  TableEntry(Xor(a, b)) = Xor(TableEntry(a), TableEntry(b))
BY DivideBitLinear DEF TableEntry

\* A word without ones in its lowest byte only moves down by a byte.
LEMMA TableEntryHigh ==
  ASSUME NEW c \in CrcWord, LowByte(c) = {}
  PROVE  TableEntry(c) = ShiftRight(c, 8)
<1> DEFINE s(n) == ShiftRight(c, n)
<1>1. s(0) = c
  <2>1. c \subseteq 0 .. 31 /\ \A b \in 0 .. 31 : b + 0 = b
    BY DEF CrcWord
  <2>2. ASSUME NEW b PROVE b \in s(0) <=> b \in c
    BY <2>1 DEF ShiftRight
  <2> QED BY <2>2
<1>2. ASSUME NEW n \in 0 .. 7
      PROVE  DivideBit(s(n)) = s(n + 1)
  <2>1. 0 \notin s(n)
    BY DEF ShiftRight, LowByte
  <2>2. ShiftRight(s(n), 1) = s(n + 1)
    BY DEF ShiftRight, CrcWord
  <2> QED BY <2>1, <2>2 DEF DivideBit
<1>3. /\ DivideBit(s(0)) = s(1) /\ DivideBit(s(1)) = s(2)
      /\ DivideBit(s(2)) = s(3) /\ DivideBit(s(3)) = s(4)
      /\ DivideBit(s(4)) = s(5) /\ DivideBit(s(5)) = s(6)
      /\ DivideBit(s(6)) = s(7) /\ DivideBit(s(7)) = s(8)
  BY <1>2
<1> HIDE DEF s
<1>4. TableEntry(c) = s(8)
  BY <1>1, <1>3 DEF TableEntry
<1> QED BY <1>4 DEF s

-----------------------------------------------------------------------------
(***************************************************************************)
(* The byte mixed in at once against its bits mixed in one by one.         *)
(***************************************************************************)
\* One bit: what is left of the byte is still to be mixed in.
LEMMA SerialBitMixed ==
  ASSUME NEW c, NEW x
  PROVE  DivideBit(Xor(c, x)) = Xor(Serial!SerialBit(c, 0 \in x), ShiftRight(x, 1))
<1>1. ShiftRight(Xor(c, x), 1) = Xor(ShiftRight(c, 1), ShiftRight(x, 1))
  BY ShiftXor
<1>2. 0 \in Xor(c, x) <=> ((0 \in c) # (0 \in x))
  BY DEF Xor
<1>3. Serial!ShiftRight(c, 1) = ShiftRight(c, 1)
  BY DEF Serial!ShiftRight, ShiftRight
<1>4. \A s, t : Serial!Xor(s, t) = Xor(s, t)
  BY DEF Serial!Xor, Xor
<1> DEFINE s == ShiftRight(c, 1)
           t == ShiftRight(x, 1)
<1> HIDE DEF s, t
<1>5. /\ DivideBit(Xor(c, x)) = IF 0 \in Xor(c, x) THEN Xor(Xor(s, t), Polynomial)
                                ELSE Xor(s, t)
      /\ Serial!SerialBit(c, 0 \in x) = IF (0 \in c) # (0 \in x)
                                       THEN Xor(s, Polynomial) ELSE s
  BY <1>1, <1>3, <1>4 DEF DivideBit, Serial!SerialBit, s, t
<1>6. Xor(Xor(s, t), Polynomial) = Xor(Xor(s, Polynomial), t)
  BY DEF Xor
<1>7. DivideBit(Xor(c, x)) = Xor(Serial!SerialBit(c, 0 \in x), t)
  <2>1. CASE (0 \in c) # (0 \in x)
    BY <1>2, <1>5, <1>6, <2>1
  <2>2. CASE ~((0 \in c) # (0 \in x))
    BY <1>2, <1>5, <2>2
  <2> QED BY <2>1, <2>2
<1> QED BY <1>7 DEF t

\* Eight bits: nothing is left.
LEMMA SerialByteIsEntry ==
  ASSUME NEW c, NEW byte \in ByteSet
  PROVE  TableEntry(Xor(c, byte)) = Serial!SerialByte(c, byte)
<1> DEFINE x(n) == ShiftRight(byte, n)
<1>1. byte \subseteq 0 .. 7
  BY DEF ByteSet
<1>2. x(0) = byte
  <2>1. \A b \in byte : b \in 0 .. 31
    BY <1>1
  <2>3. \A b \in 0 .. 31 : b + 0 = b
    OBVIOUS
  <2>2. ASSUME NEW b PROVE b \in x(0) <=> b \in byte
    BY <2>1, <2>3 DEF ShiftRight
  <2> QED BY <2>2
<1>3. ASSUME NEW n \in 0 .. 7
      PROVE  ShiftRight(x(n), 1) = x(n + 1) /\ (0 \in x(n) <=> n \in byte)
  BY <1>1 DEF ShiftRight
<1>4. x(8) = {}
  BY <1>1 DEF ShiftRight
<1> HIDE DEF x
<1>5. ASSUME NEW d, NEW n \in 0 .. 7
      PROVE  DivideBit(Xor(d, x(n))) = Xor(Serial!SerialBit(d, n \in byte), x(n + 1))
  <2>1. DivideBit(Xor(d, x(n))) = Xor(Serial!SerialBit(d, 0 \in x(n)), x(n + 1))
    BY <1>3, SerialBitMixed
  <2>2. (0 \in x(n)) = (n \in byte)
    BY <1>3
  <2> QED BY <2>1, <2>2
<1> DEFINE c1 == Serial!SerialBit(c, 0 \in byte)
           c2 == Serial!SerialBit(c1, 1 \in byte)
           c3 == Serial!SerialBit(c2, 2 \in byte)
           c4 == Serial!SerialBit(c3, 3 \in byte)
           c5 == Serial!SerialBit(c4, 4 \in byte)
           c6 == Serial!SerialBit(c5, 5 \in byte)
           c7 == Serial!SerialBit(c6, 6 \in byte)
           c8 == Serial!SerialBit(c7, 7 \in byte)
<1>6. /\ DivideBit(Xor(c, x(0))) = Xor(c1, x(1))
      /\ DivideBit(Xor(c1, x(1))) = Xor(c2, x(2))
      /\ DivideBit(Xor(c2, x(2))) = Xor(c3, x(3))
      /\ DivideBit(Xor(c3, x(3))) = Xor(c4, x(4))
      /\ DivideBit(Xor(c4, x(4))) = Xor(c5, x(5))
      /\ DivideBit(Xor(c5, x(5))) = Xor(c6, x(6))
      /\ DivideBit(Xor(c6, x(6))) = Xor(c7, x(7))
      /\ DivideBit(Xor(c7, x(7))) = Xor(c8, x(8))
  <2> HIDE DEF c1, c2, c3, c4, c5, c6, c7, c8
  <2>1. DivideBit(Xor(c, x(0))) = Xor(c1, x(1))
    BY <1>5 DEF c1
  <2>2. DivideBit(Xor(c1, x(1))) = Xor(c2, x(2))
    BY <1>5 DEF c2
  <2>3. DivideBit(Xor(c2, x(2))) = Xor(c3, x(3))
    BY <1>5 DEF c3
  <2>4. DivideBit(Xor(c3, x(3))) = Xor(c4, x(4))
    BY <1>5 DEF c4
  <2>5. DivideBit(Xor(c4, x(4))) = Xor(c5, x(5))
    BY <1>5 DEF c5
  <2>6. DivideBit(Xor(c5, x(5))) = Xor(c6, x(6))
    BY <1>5 DEF c6
  <2>7. DivideBit(Xor(c6, x(6))) = Xor(c7, x(7))
    BY <1>5 DEF c7
  <2>8. DivideBit(Xor(c7, x(7))) = Xor(c8, x(8))
    BY <1>5 DEF c8
  <2> QED BY <2>1, <2>2, <2>3, <2>4, <2>5, <2>6, <2>7, <2>8
<1>7. Serial!SerialByte(c, byte) = c8
  BY DEF Serial!SerialByte
<1> HIDE DEF c1, c2, c3, c4, c5, c6, c7, c8
<1>8. TableEntry(Xor(c, x(0))) = Xor(c8, x(8))
  BY <1>6 DEF TableEntry
<1> QED BY <1>2, <1>4, <1>7, <1>8, XorLaws

\* make_crc: one byte through the table is one byte through the register.
LEMMA TableIsSerial ==
  ASSUME NEW c \in CrcWord, NEW byte \in ByteSet
  PROVE  Xor(ShiftRight(c, 8), crc32_table[LowByte(Xor(c, byte))])
           = Serial!SerialByte(c, byte)
<1> DEFINE y == Xor(c, byte)
           lo == LowByte(y)
           hi == y \ (0 .. 7)
<1>1. y \in CrcWord /\ lo \in ByteSet /\ hi \in CrcWord /\ LowByte(hi) = {}
  <2>1. byte \in CrcWord
    BY DEF ByteSet, CrcWord
  <2>2. y \in CrcWord
    BY <2>1, XorIsWord
  <2> QED BY <2>2 DEF LowByte, ByteSet, CrcWord
<1>2. y = Xor(hi, lo)
  BY DEF Xor, LowByte
<1>3. ShiftRight(hi, 8) = ShiftRight(c, 8)
  BY DEF ShiftRight, ByteSet, Xor
<1>4. TableEntry(y) = Xor(TableEntry(hi), TableEntry(lo))
  <2> HIDE DEF y, hi, lo
  <2> QED BY <1>2, TableEntryLinear
<1>5. TableEntry(hi) = ShiftRight(c, 8)
  <2> HIDE DEF y, hi, lo
  <2> QED BY <1>1, <1>3, TableEntryHigh
<1>6. crc32_table[lo] = TableEntry(lo)
  BY <1>1 DEF crc32_table
<1>7. TableEntry(y) = Serial!SerialByte(c, byte)
  BY SerialByteIsEntry
<1> QED BY <1>4, <1>5, <1>6, <1>7

-----------------------------------------------------------------------------
LEMMA SerialByteIsWord ==
  ASSUME NEW c \in CrcWord, NEW byte \in ByteSet
  PROVE  Serial!SerialByte(c, byte) \in CrcWord
<1>1. Xor(c, byte) \in CrcWord
  BY XorIsWord DEF ByteSet, CrcWord
<1>2. TableEntry(Xor(c, byte)) \in CrcWord
  BY <1>1, DivideBitIsWord DEF TableEntry
<1> QED BY <1>2, SerialByteIsEntry

\* The register stays a 32-bit word and the index inside the file.
THEOREM CrcTypeCorrect == CrcSpec => []CrcTypeOK
<1>1. CrcInit => CrcTypeOK
  BY FilesAssumption DEF CrcInit, CrcTypeOK, CrcWord
<1>2. CrcTypeOK /\ [CrcNext]_crcVars => CrcTypeOK'
  <2> SUFFICES ASSUME CrcTypeOK, [CrcNext]_crcVars PROVE CrcTypeOK'
    OBVIOUS
  <2>1. CASE MakeCrc
    <3>1. string \in Seq(ByteSet) /\ pos + 1 \in 1 .. Len(string) /\ crc \in CrcWord
      BY <2>1, FilesAssumption DEF CrcTypeOK, MakeCrc
    <3>2. crc' \in CrcWord
      BY <2>1, <3>1, TableIsSerial, SerialByteIsWord DEF MakeCrc
    <3> QED BY <2>1, <3>1, <3>2 DEF CrcTypeOK, MakeCrc
  <2>2. CASE UNCHANGED crcVars
    BY <2>2 DEF CrcTypeOK, crcVars
  <2> QED BY <2>1, <2>2 DEF CrcNext
<1> QED BY <1>1, <1>2, PTL DEF CrcSpec

\* public.c caculate_crc: the table-driven loop is the bit-serial CRC.
THEOREM CrcImplementsSerial == CrcSpec => ImplementsSerialCrc
<1>1. CrcInit => Serial!SerialInit
  BY DEF CrcInit, Serial!SerialInit, Serial!Ones
<1>2. CrcTypeOK /\ [CrcNext]_crcVars => [Serial!TakeByte]_(Serial!serialVars)
  <2> SUFFICES ASSUME CrcTypeOK, [CrcNext]_crcVars
               PROVE  [Serial!TakeByte]_(Serial!serialVars)
    OBVIOUS
  <2>1. CASE MakeCrc
    <3>1. string \in Seq(ByteSet) /\ pos + 1 \in 1 .. Len(string) /\ crc \in CrcWord
      BY <2>1, FilesAssumption DEF CrcTypeOK, MakeCrc
    <3>2. crc' = Serial!SerialByte(crc, string[pos + 1])
      BY <2>1, <3>1, TableIsSerial DEF MakeCrc
    <3> QED BY <2>1, <3>2 DEF MakeCrc, Serial!TakeByte
  <2>2. CASE UNCHANGED crcVars
    BY <2>2 DEF crcVars, Serial!serialVars
  <2> QED BY <2>1, <2>2 DEF CrcNext
<1> QED BY <1>1, <1>2, CrcTypeCorrect, PTL DEF CrcSpec, ImplementsSerialCrc, Serial!SerialSpec

-----------------------------------------------------------------------------
(***************************************************************************)
(* The register is a remainder.  One more byte multiplies the polynomial   *)
(* by x^8 and adds the byte: the division of what was there goes as        *)
(* before, and its last eight steps are those of the register.             *)
(***************************************************************************)
\* A set that has 0, and n + 1 with n, has every number.
LEMMA NaturalInduction ==
  ASSUME NEW T, 0 \in T, \A n \in Nat : n \in T => n + 1 \in T
  PROVE  Nat \subseteq T
<1> DEFINE Bad == Nat \ T
<1> SUFFICES ASSUME Bad # {} PROVE FALSE
  OBVIOUS
<1>1. PICK x \in Bad : \A y \in Bad : ~ (<<y, x>> \in OpToRel(<, Nat))
  BY NatLessThanWellFounded, WFMin
<1>2. x \in Nat /\ x # 0 /\ x - 1 \in Nat /\ x - 1 < x
  OBVIOUS
<1>3. x - 1 \notin Bad
  BY <1>1, <1>2 DEF OpToRel
<1>4. x - 1 + 1 \in T
  BY <1>2, <1>3
<1> QED BY <1>2, <1>4

\* Times x^8.
TimesByte(d) == {x + 8 : x \in d}

\* The bits of a byte from bit k on, below x^40, the lowest bit the highest.
LastByte(byte, k) == {39 - b : b \in {x \in byte : x >= k}}

\* Long division is defined: what is left after j exponents comes from what was
\* left after j - 1.
LEMMA DivisionDefined ==
  ASSUME NEW d, NEW n \in Nat
  PROVE  /\ Division(d, n)[0] = d
         /\ \A j \in 1 .. 8 * n :
              Division(d, n)[j] = TakeAway(Division(d, n)[j - 1], 8 * n + 32 - j)
<1> DEFINE Step(f, j) == IF j = 0 THEN d ELSE TakeAway(f[j - 1], 8 * n + 32 - j)
           Solves(f, N) == f = [j \in 0 .. N |-> Step(f, j)]
           T == {N \in Nat : \E f : Solves(f, N)}
<1> HIDE DEF Step
<1>1. \E f : Solves(f, 0)
  <2> DEFINE g == [j \in 0 .. 0 |-> d]
  <2>1. \A j \in 0 .. 0 : Step(g, j) = d
    BY DEF Step
  <2>2. Solves(g, 0)
    BY <2>1
  <2> QED BY <2>2
<1>2. ASSUME NEW N \in Nat, NEW f, Solves(f, N)
      PROVE  \E g : Solves(g, N + 1)
  <2> DEFINE g == [j \in 0 .. N + 1 |-> Step(f, j)]
  <2>1. ASSUME NEW j \in 0 .. N + 1 PROVE Step(g, j) = Step(f, j)
    <3>1. CASE j = 0
      BY <3>1 DEF Step
    <3>2. CASE j # 0
      <4>1. j - 1 \in 0 .. N /\ j - 1 \in 0 .. N + 1
        BY <3>2
      <4>2. g[j - 1] = f[j - 1]
        BY <1>2, <4>1
      <4> HIDE DEF g
      <4> QED BY <3>2, <4>2 DEF Step
    <3> QED BY <3>1, <3>2
  <2>2. Solves(g, N + 1)
    BY <2>1
  <2> QED BY <2>2
<1>3. 8 * n \in T
  <2> HIDE DEF Solves
  <2>1. 0 \in T
    BY <1>1
  <2>2. \A N \in Nat : N \in T => N + 1 \in T
    BY <1>2
  <2> HIDE DEF T
  <2> QED BY <2>1, <2>2, NaturalInduction
<1>4. Solves(Division(d, n), 8 * n)
  <2>1. \E f : Solves(f, 8 * n)
    BY <1>3
  <2>2. Solves(CHOOSE f : Solves(f, 8 * n), 8 * n)
    <3> HIDE DEF Solves
    <3> QED BY <2>1
  <2>3. Division(d, n) = CHOOSE f : Solves(f, 8 * n)
    BY DEF Division, Step
  <2> QED BY <2>2, <2>3
<1> HIDE DEF T
<1>5. \A j \in 0 .. 8 * n : Division(d, n)[j] = Step(Division(d, n), j)
  BY <1>4
<1>6. Division(d, n)[0] = d
  BY <1>5 DEF Step
<1>7. ASSUME NEW j \in 1 .. 8 * n
      PROVE  Division(d, n)[j] = TakeAway(Division(d, n)[j - 1], 8 * n + 32 - j)
  <2>1. j \in 0 .. 8 * n /\ j # 0
    OBVIOUS
  <2> QED BY <1>5, <2>1 DEF Step
<1> QED BY <1>6, <1>7

\* The generator is taken away from the same polynomial, eight exponents higher
\* and with ones that are still too low mixed in.
LEMMA TakeAwayHigher ==
  ASSUME NEW d, d \subseteq Int, NEW M, M \subseteq 32 .. 39,
         NEW e \in Int, e >= 32
  PROVE  /\ TakeAway(d, e) \subseteq Int
         /\ TakeAway(Xor(TimesByte(d), M), e + 8)
              = Xor(TimesByte(TakeAway(d, e)), M)
<1> DEFINE G(k) == {x + k - 32 : x \in Generator}
<1>1. Generator \subseteq Int
  BY DEF Generator, Polynomial
<1>2. \A k \in Int : \A y \in Int : y \in G(k) <=> y - k + 32 \in Generator
  BY <1>1
<1>3. \A k \in Int : G(k) \subseteq Int
  BY <1>1
<1>4. \A s : s \subseteq Int => /\ TimesByte(s) \subseteq Int
                               /\ \A y \in Int : y \in TimesByte(s) <=> y - 8 \in s
  BY DEF TimesByte
<1>5. e + 8 \in Int /\ e + 8 \notin M
  OBVIOUS
<1>6. e + 8 \in Xor(TimesByte(d), M) <=> e \in d
  <2>1. e + 8 \in TimesByte(d) <=> e \in d
    BY DEF TimesByte
  <2> QED BY <1>5, <2>1 DEF Xor
<1>7. Xor(d, G(e)) \subseteq Int
  BY <1>3 DEF Xor
<1>8. Xor(Xor(TimesByte(d), M), G(e + 8)) = Xor(TimesByte(Xor(d, G(e))), M)
  <2>1. M \subseteq Int
    OBVIOUS
  <2>2. ASSUME NEW y \in Int
        PROVE  y \in Xor(Xor(TimesByte(d), M), G(e + 8))
                 <=> y \in Xor(TimesByte(Xor(d, G(e))), M)
    <3>1. y \in G(e + 8) <=> y - 8 \in G(e)
      <4>1. y - (e + 8) + 32 = (y - 8) - e + 32 /\ y - 8 \in Int
        OBVIOUS
      <4> QED BY <1>2, <1>5, <4>1
    <3>2. /\ y \in TimesByte(d) <=> y - 8 \in d
          /\ y \in TimesByte(Xor(d, G(e))) <=> y - 8 \in Xor(d, G(e))
      BY <1>4, <1>7
    <3> HIDE DEF G
    <3> QED BY <3>1, <3>2 DEF Xor
  <2>3. /\ Xor(Xor(TimesByte(d), M), G(e + 8)) \subseteq Int
        /\ Xor(TimesByte(Xor(d, G(e))), M) \subseteq Int
    <3>1. /\ TimesByte(d) \subseteq Int /\ TimesByte(Xor(d, G(e))) \subseteq Int
          /\ G(e + 8) \subseteq Int
      BY <1>3, <1>4, <1>5, <1>7
    <3> HIDE DEF G
    <3> QED BY <2>1, <3>1 DEF Xor
  <2> HIDE DEF G
  <2> QED BY <2>2, <2>3
<1> HIDE DEF G
<1>9. CASE e \in d
  <2>1. TakeAway(d, e) = Xor(d, G(e))
    BY <1>9 DEF TakeAway, G
  <2>2. TakeAway(Xor(TimesByte(d), M), e + 8) = Xor(Xor(TimesByte(d), M), G(e + 8))
    BY <1>6, <1>9 DEF TakeAway, G
  <2> QED BY <1>7, <1>8, <2>1, <2>2
<1>10. CASE e \notin d
  BY <1>6, <1>10 DEF TakeAway
<1> QED BY <1>9, <1>10

\* One byte more: the exponents go up by eight, and the bits of the byte stand
\* below what was there.
LEMMA DividendGrows ==
  ASSUME string \in Seq(ByteSet), NEW n \in Nat, n < Len(string)
  PROVE  Dividend(n + 1) = Xor(TimesByte(Dividend(n)), LastByte(string[n + 1], 0))
<1> DEFINE D(k) == {8 * k + 31 - m : m \in {x \in 0 .. 8 * k - 1 : Bit(x)}}
           byte == string[n + 1]
<1>1. \A k \in Nat : \A y \in Int :
        y \in D(k) <=> 8 * k + 31 - y \in 0 .. 8 * k - 1 /\ Bit(8 * k + 31 - y)
  <2> SUFFICES ASSUME NEW k \in Nat, NEW y \in Int
               PROVE  y \in D(k) <=> 8 * k + 31 - y \in 0 .. 8 * k - 1 /\ Bit(8 * k + 31 - y)
    OBVIOUS
  <2>1. ASSUME y \in D(k)
        PROVE  8 * k + 31 - y \in 0 .. 8 * k - 1 /\ Bit(8 * k + 31 - y)
    <3>1. PICK m \in 0 .. 8 * k - 1 : Bit(m) /\ y = 8 * k + 31 - m
      BY <2>1
    <3>2. m = 8 * k + 31 - y
      BY <3>1
    <3> QED BY <3>1, <3>2
  <2>2. ASSUME 8 * k + 31 - y \in 0 .. 8 * k - 1, Bit(8 * k + 31 - y)
        PROVE  y \in D(k)
    <3>1. y = 8 * k + 31 - (8 * k + 31 - y)
      OBVIOUS
    <3> QED BY <2>2, <3>1
  <2> QED BY <2>1, <2>2
<1>2. \A k \in Nat : D(k) \subseteq Int
  OBVIOUS
<1>3. ASSUME NEW b \in 0 .. 7 PROVE Bit(8 * n + b) <=> b \in byte
  <2>1. (8 * n + b) % 8 = b /\ (8 * n + b) \div 8 = n
    OBVIOUS
  <2> QED BY <2>1 DEF Bit
<1>4. byte \subseteq 0 .. 7
  BY DEF ByteSet
<1> HIDE DEF D, byte
<1>5. \A k \in Nat : Dividend(k) = Xor(D(k), 8 * k .. 8 * k + 31)
  BY DEF Dividend, D
<1>6. Dividend(n) \subseteq Int /\ Dividend(n + 1) \subseteq Int
  BY <1>2, <1>5 DEF Xor
<1>7. ASSUME NEW y \in Int
      PROVE  y \in Dividend(n + 1)
               <=> y \in Xor(TimesByte(Dividend(n)), LastByte(byte, 0))
  <2>1. y \in TimesByte(Dividend(n)) <=> y - 8 \in Dividend(n)
    BY <1>6 DEF TimesByte
  <2>2. y \in LastByte(byte, 0) <=> 39 - y \in byte
    BY <1>4 DEF LastByte
  <2>3. y \in 8 * (n + 1) .. 8 * (n + 1) + 31 <=> y - 8 \in 8 * n .. 8 * n + 31
    OBVIOUS
  <2>4. y \in D(n + 1) <=> \/ y - 8 \in D(n)
                           \/ 39 - y \in byte
    <3>1. /\ 8 * (n + 1) + 31 - y = 8 * n + (39 - y)
          /\ 8 * n + 31 - (y - 8) = 8 * n + (39 - y)
      OBVIOUS
    <3>2. y \in D(n + 1) <=> 8 * n + (39 - y) \in 0 .. 8 * n + 7 /\ Bit(8 * n + (39 - y))
      BY <1>1, <3>1
    <3>3. y - 8 \in D(n) <=> 8 * n + (39 - y) \in 0 .. 8 * n - 1 /\ Bit(8 * n + (39 - y))
      BY <1>1, <3>1
    <3>4. CASE 39 - y \in 0 .. 7
      <4>1. Bit(8 * n + (39 - y)) <=> 39 - y \in byte
        BY <1>3, <3>4
      <4>2. /\ 8 * n + (39 - y) \in 0 .. 8 * n + 7
            /\ 8 * n + (39 - y) \notin 0 .. 8 * n - 1
        BY <3>4
      <4> QED BY <3>2, <3>3, <4>1, <4>2
    <3>5. CASE 39 - y \notin 0 .. 7
      BY <1>4, <3>2, <3>3, <3>5
    <3> QED BY <3>4, <3>5
  <2>5. ~(y - 8 \in D(n) /\ 39 - y \in byte)
    BY <1>1, <1>4
  <2> QED BY <1>5, <2>1, <2>2, <2>3, <2>4, <2>5 DEF Xor
<1>8. Xor(TimesByte(Dividend(n)), LastByte(byte, 0)) \subseteq Int
  BY <1>4, <1>6 DEF Xor, TimesByte, LastByte
<1>9. Dividend(n + 1) = Xor(TimesByte(Dividend(n)), LastByte(byte, 0))
  BY <1>6, <1>7, <1>8
<1> QED BY <1>9 DEF byte

\* The register as a polynomial, its lowest bit the highest exponent below
\* x^top.
Word(c, top) == {top - 1 - b : b \in c}

\* One bit of the last byte: dividing once is one step of the register.
LEMMA DivideIsSerialBit ==
  ASSUME NEW c \in CrcWord, NEW byte \in ByteSet, NEW k \in 0 .. 7
  PROVE  /\ Serial!SerialBit(c, k \in byte) \in CrcWord
         /\ TakeAway(Xor(Word(c, 40 - k), LastByte(byte, k)), 39 - k)
              = Xor(Word(Serial!SerialBit(c, k \in byte), 39 - k), LastByte(byte, k + 1))
<1> DEFINE w == Xor(Word(c, 40 - k), LastByte(byte, k))
           s == ShiftRight(c, 1)
           one == (0 \in c) # (k \in byte)
           bit == IF one THEN Xor(s, Polynomial) ELSE s
           G == {x + 7 - k : x \in Generator}
<1>1. Serial!SerialBit(c, k \in byte) = bit
  BY DEF Serial!SerialBit, Serial!ShiftRight, Serial!Xor, ShiftRight, Xor
<1>2. /\ c \subseteq 0 .. 31 /\ byte \subseteq 0 .. 7
      /\ s \subseteq 0 .. 31 /\ \A b \in 0 .. 31 : b \in s <=> b + 1 \in c
      /\ Polynomial \subseteq 0 .. 31
  BY DEF CrcWord, ByteSet, ShiftRight, Polynomial
<1>3. bit \in CrcWord
  BY <1>2 DEF CrcWord, Xor
<1>4. ASSUME NEW v, v \subseteq 0 .. 31, NEW top \in Int
      PROVE  /\ Word(v, top) \subseteq Int
             /\ \A y \in Int : y \in Word(v, top) <=> top - 1 - y \in v
  BY <1>4 DEF Word
<1>5. ASSUME NEW m \in Int
      PROVE  /\ LastByte(byte, m) \subseteq Int
             /\ \A y \in Int : y \in LastByte(byte, m) <=> 39 - y \in byte /\ 39 - y >= m
  BY <1>2 DEF LastByte
<1>6. /\ G \subseteq Int
      /\ \A y \in Int : y \in G <=> y = 39 - k \/ 38 - k - y \in Polynomial
  <2>1. /\ Generator \subseteq Int
        /\ \A x \in Int : x \in Generator <=> x = 32 \/ 31 - x \in Polynomial
    BY <1>2 DEF Generator
  <2>2. \A y \in Int : y \in G <=> y - 7 + k \in Generator
    BY <2>1
  <2>3. \A y \in Int : 31 - (y - 7 + k) = 38 - k - y /\ (y - 7 + k = 32 <=> y = 39 - k)
    OBVIOUS
  <2> QED BY <2>1, <2>2, <2>3
<1> HIDE DEF s, one, G
<1>7. 39 - k \in w <=> one
  <2>1. 39 - k \in Word(c, 40 - k) <=> 0 \in c
    BY <1>2 DEF Word
  <2>2. 39 - k \in LastByte(byte, k) <=> k \in byte
    BY <1>2 DEF LastByte
  <2> QED BY <2>1, <2>2 DEF Xor, one
<1>8. TakeAway(w, 39 - k) = IF one THEN Xor(w, G) ELSE w
  <2>1. \A x \in Generator : x + (39 - k) - 32 = x + 7 - k
    BY DEF Generator, Polynomial
  <2>2. {x + (39 - k) - 32 : x \in Generator} = G
    BY <2>1 DEF G
  <2> QED BY <1>7, <2>2 DEF TakeAway
<1> DEFINE left == IF one THEN Xor(w, G) ELSE w
           right == Xor(Word(bit, 39 - k), LastByte(byte, k + 1))
<1>9. w \subseteq Int
  <2>1. Word(c, 40 - k) \subseteq Int /\ LastByte(byte, k) \subseteq Int
    BY <1>2, <1>5 DEF Word
  <2> QED BY <2>1 DEF Xor
<1>10. left \subseteq Int /\ right \subseteq Int
  <2>1. Word(bit, 39 - k) \subseteq Int
    <3>1. bit \subseteq 0 .. 31
      BY <1>3 DEF CrcWord
    <3> HIDE DEF bit
    <3> QED BY <3>1 DEF Word
  <2>2. LastByte(byte, k + 1) \subseteq Int
    BY <1>5
  <2> HIDE DEF w, bit
  <2> QED BY <1>6, <1>9, <2>1, <2>2 DEF Xor
<1>11. ASSUME NEW y \in Int PROVE y \in left <=> y \in right
  <2>1. y \in Word(c, 40 - k) <=> 39 - k - y \in c
    BY <1>2 DEF Word
  <2>2. y \in Word(bit, 39 - k) <=> 38 - k - y \in bit
    <3>1. y \in Word(bit, 39 - k) <=> 39 - k - 1 - y \in bit
      BY <1>3, <1>4 DEF CrcWord
    <3>2. 39 - k - 1 - y = 38 - k - y
      OBVIOUS
    <3> QED BY <3>1, <3>2
  <2>3. /\ y \in LastByte(byte, k) <=> 39 - y \in byte /\ 39 - y >= k
        /\ y \in LastByte(byte, k + 1) <=> 39 - y \in byte /\ 39 - y >= k + 1
    BY <1>5
  <2>4. 38 - k - y \in s <=> 39 - k - y \in c /\ y # 39 - k
    <3>1. CASE 38 - k - y \in 0 .. 31
      <4>1. 38 - k - y + 1 = 39 - k - y
        OBVIOUS
      <4> QED BY <1>2, <3>1, <4>1
    <3>2. CASE 38 - k - y \notin 0 .. 31
      BY <1>2, <3>2
    <3> QED BY <3>1, <3>2
  <2>5. 38 - k - y \in bit <=> IF one THEN (38 - k - y \in s) # (38 - k - y \in Polynomial)
                                ELSE 38 - k - y \in s
    BY DEF Xor
  <2> HIDE DEF bit
  <2>6. y \in w <=> (39 - k - y \in c) # (39 - y \in byte /\ 39 - y >= k)
    BY <2>1, <2>3 DEF Xor
  <2>7. y \in right <=> (38 - k - y \in bit) # (39 - y \in byte /\ 39 - y >= k + 1)
    BY <2>2, <2>3 DEF Xor
  <2> HIDE DEF w, right
  <2>8. CASE y = 39 - k
    <3>1. /\ 39 - y = k /\ 39 - k - y = 0
          /\ 38 - k - y \notin Polynomial /\ 38 - k - y \notin s
      BY <1>2, <2>8
    <3>2. y \notin right
      BY <2>5, <2>7, <3>1
    <3>3. y \notin left
      <4>1. y \in w <=> one
        BY <1>7, <2>8
      <4>2. y \in G
        BY <1>6, <2>8
      <4> QED BY <4>1, <4>2 DEF Xor
    <3> QED BY <3>2, <3>3
  <2>9. CASE y # 39 - k
    <3>1. 39 - y >= k <=> 39 - y >= k + 1
      BY <2>9
    <3>2. y \in G <=> 38 - k - y \in Polynomial
      BY <1>6, <2>9
    <3>3. y \in right <=> IF one THEN (y \in w) # (y \in G) ELSE y \in w
      BY <2>4, <2>5, <2>6, <2>7, <2>9, <3>1, <3>2
    <3> QED BY <3>3 DEF Xor
  <2> QED BY <2>8, <2>9
<1> HIDE DEF left, right
<1>12. left = right
  BY <1>10, <1>11
<1> QED BY <1>1, <1>3, <1>8, <1>12 DEF left, right, w

\* The polynomial of the bytes so far has the exponents of a polynomial.
LEMMA DividendIsPolynomial ==
  ASSUME NEW n \in Nat
  PROVE  Dividend(n) \subseteq Int
BY DEF Dividend, Xor

\* One byte more: the division by the same number of steps goes as before, eight
\* exponents higher and with the byte mixed in below.
LEMMA DivisionHigher ==
  ASSUME string \in Seq(ByteSet), NEW n \in Nat, n < Len(string),
         NEW j \in 0 .. 8 * n
  PROVE  Division(Dividend(n + 1), n + 1)[j]
           = Xor(TimesByte(Division(Dividend(n), n)[j]), LastByte(string[n + 1], 0))
<1> DEFINE L == Division(Dividend(n), n)
           H == Division(Dividend(n + 1), n + 1)
           M == LastByte(string[n + 1], 0)
           T == {k \in Nat : k <= 8 * n => /\ L[k] \subseteq Int
                                           /\ H[k] = Xor(TimesByte(L[k]), M)}
<1>1. /\ L[0] = Dividend(n)
      /\ \A k \in 1 .. 8 * n : L[k] = TakeAway(L[k - 1], 8 * n + 32 - k)
  BY DivisionDefined
<1>2. /\ H[0] = Dividend(n + 1)
      /\ \A k \in 1 .. 8 * (n + 1) : H[k] = TakeAway(H[k - 1], 8 * (n + 1) + 32 - k)
  BY DivisionDefined
<1>3. M \subseteq 32 .. 39
  <2>1. string[n + 1] \subseteq 0 .. 7
    BY DEF ByteSet
  <2> QED BY <2>1 DEF LastByte
<1>4. H[0] = Xor(TimesByte(L[0]), M) /\ L[0] \subseteq Int
  BY <1>1, <1>2, DividendGrows, DividendIsPolynomial
<1> HIDE DEF L, H, M
<1>5. 0 \in T
  BY <1>4
<1>6. ASSUME NEW k \in Nat, k \in T PROVE k + 1 \in T
  <2> SUFFICES ASSUME k + 1 <= 8 * n
               PROVE  L[k + 1] \subseteq Int /\ H[k + 1] = Xor(TimesByte(L[k + 1]), M)
    OBVIOUS
  <2>1. L[k] \subseteq Int /\ H[k] = Xor(TimesByte(L[k]), M)
    BY <1>6
  <2> DEFINE e == 8 * n + 32 - (k + 1)
  <2>2. /\ e \in Int /\ e >= 32 /\ 8 * (n + 1) + 32 - (k + 1) = e + 8
        /\ k + 1 \in 1 .. 8 * n /\ k + 1 \in 1 .. 8 * (n + 1) /\ k + 1 - 1 = k
    OBVIOUS
  <2>3. L[k + 1] = TakeAway(L[k], e)
    BY <1>1, <2>2
  <2>4. H[k + 1] = TakeAway(H[k], e + 8)
    BY <1>2, <2>2
  <2> HIDE DEF e
  <2>5. /\ TakeAway(L[k], e) \subseteq Int
        /\ TakeAway(Xor(TimesByte(L[k]), M), e + 8) = Xor(TimesByte(TakeAway(L[k], e)), M)
    BY <1>3, <2>1, <2>2, TakeAwayHigher
  <2> QED BY <2>1, <2>3, <2>4, <2>5
<1>7. j \in T
  <2> HIDE DEF T
  <2> QED BY <1>5, <1>6, NaturalInduction
<1> QED BY <1>7 DEF L, H, M

\* The last eight steps are those of the register.
LEMMA RemainderOfByte ==
  ASSUME string \in Seq(ByteSet), NEW n \in Nat, n < Len(string),
         NEW c \in CrcWord, Remainder(Dividend(n), n) = Word(c, 32)
  PROVE  Remainder(Dividend(n + 1), n + 1)
           = Word(Serial!SerialByte(c, string[n + 1]), 32)
<1> DEFINE H == Division(Dividend(n + 1), n + 1)
           byte == string[n + 1]
           Left(d, k) == Xor(Word(d, 40 - k), LastByte(byte, k))
<1>1. byte \in ByteSet
  OBVIOUS
<1>2. H[8 * n] = Left(c, 0)
  <2>1. 8 * n \in 0 .. 8 * n
    OBVIOUS
  <2>2. H[8 * n] = Xor(TimesByte(Remainder(Dividend(n), n)), LastByte(byte, 0))
    BY <2>1, DivisionHigher DEF Remainder
  <2>3. TimesByte(Word(c, 32)) = Word(c, 40)
    <3>1. \A b \in c : b \in Int
      BY DEF CrcWord
    <3>2. \A b \in c : 32 - 1 - b + 8 = 40 - 1 - b
      BY <3>1
    <3> QED BY <3>1, <3>2 DEF TimesByte, Word
  <2> QED BY <2>2, <2>3
<1>3. ASSUME NEW k \in 0 .. 7
      PROVE  H[8 * n + k + 1] = TakeAway(H[8 * n + k], 39 - k)
  <2>1. /\ 8 * n + k + 1 \in 1 .. 8 * (n + 1)
        /\ 8 * n + k + 1 - 1 = 8 * n + k
        /\ 8 * (n + 1) + 32 - (8 * n + k + 1) = 39 - k
    OBVIOUS
  <2>2. H[8 * n + k + 1]
          = TakeAway(H[8 * n + k + 1 - 1], 8 * (n + 1) + 32 - (8 * n + k + 1))
    <3>1. n + 1 \in Nat
      OBVIOUS
    <3> QED BY <2>1, <3>1, DivisionDefined
  <2> QED BY <2>1, <2>2
<1> HIDE DEF H, byte
<1>4. ASSUME NEW d \in CrcWord, NEW k \in 0 .. 7, H[8 * n + k] = Left(d, k)
      PROVE  /\ Serial!SerialBit(d, k \in byte) \in CrcWord
             /\ H[8 * n + k + 1] = Left(Serial!SerialBit(d, k \in byte), k + 1)
  <2>1. 40 - (k + 1) = 39 - k
    OBVIOUS
  <2>2. H[8 * n + k + 1] = TakeAway(Left(d, k), 39 - k)
    BY <1>3, <1>4
  <2>3. /\ Serial!SerialBit(d, k \in byte) \in CrcWord
        /\ TakeAway(Left(d, k), 39 - k)
             = Xor(Word(Serial!SerialBit(d, k \in byte), 39 - k), LastByte(byte, k + 1))
    BY <1>1, DivideIsSerialBit
  <2> QED BY <2>1, <2>2, <2>3
<1> DEFINE c1 == Serial!SerialBit(c, 0 \in byte)
           c2 == Serial!SerialBit(c1, 1 \in byte)
           c3 == Serial!SerialBit(c2, 2 \in byte)
           c4 == Serial!SerialBit(c3, 3 \in byte)
           c5 == Serial!SerialBit(c4, 4 \in byte)
           c6 == Serial!SerialBit(c5, 5 \in byte)
           c7 == Serial!SerialBit(c6, 6 \in byte)
           c8 == Serial!SerialBit(c7, 7 \in byte)
           At(k) == H[8 * n + k]
<1>5. At(0) = Left(c, 0)
  BY <1>2
<1>6. ASSUME NEW d \in CrcWord, NEW k \in 0 .. 7, At(k) = Left(d, k)
      PROVE  /\ Serial!SerialBit(d, k \in byte) \in CrcWord
             /\ At(k + 1) = Left(Serial!SerialBit(d, k \in byte), k + 1)
  <2>1. 8 * n + k + 1 = 8 * n + (k + 1)
    OBVIOUS
  <2> QED BY <1>4, <1>6, <2>1
<1>7. Serial!SerialByte(c, byte) = c8
  BY DEF Serial!SerialByte
<1> HIDE DEF At, Left, c1, c2, c3, c4, c5, c6, c7, c8
<1>8. c1 \in CrcWord /\ At(1) = Left(c1, 1)
  BY <1>5, <1>6 DEF c1
<1>9. c2 \in CrcWord /\ At(2) = Left(c2, 2)
  BY <1>6, <1>8 DEF c2
<1>10. c3 \in CrcWord /\ At(3) = Left(c3, 3)
  BY <1>6, <1>9 DEF c3
<1>11. c4 \in CrcWord /\ At(4) = Left(c4, 4)
  BY <1>6, <1>10 DEF c4
<1>12. c5 \in CrcWord /\ At(5) = Left(c5, 5)
  BY <1>6, <1>11 DEF c5
<1>13. c6 \in CrcWord /\ At(6) = Left(c6, 6)
  BY <1>6, <1>12 DEF c6
<1>14. c7 \in CrcWord /\ At(7) = Left(c7, 7)
  BY <1>6, <1>13 DEF c7
<1>15. c8 \in CrcWord /\ At(8) = Left(c8, 8)
  BY <1>6, <1>14 DEF c8
<1>16. Left(c8, 8) = Word(c8, 32)
  <2>1. LastByte(byte, 8) = {}
    BY <1>1 DEF LastByte, ByteSet
  <2> QED BY <2>1 DEF Left, Xor
<1>17. Remainder(Dividend(n + 1), n + 1) = At(8)
  <2>1. 8 * (n + 1) = 8 * n + 8
    OBVIOUS
  <2> QED BY <2>1 DEF Remainder, H, At
<1> QED BY <1>7, <1>15, <1>16, <1>17 DEF byte

-----------------------------------------------------------------------------
\* Inductive: the remainder is the register, not only the other way round.
RegisterIsRemainder == Remainder(Dividend(pos), pos) = Word(crc, 32)

\* public.c caculate_crc: the checksum of the bytes so far is the remainder of
\* their polynomial divided by the generator, for files of any length.
THEOREM ChecksumIsRemainder == CrcSpec => []CrcIsRemainder
<1>1. CrcInit => RegisterIsRemainder
  <2> SUFFICES ASSUME CrcInit PROVE RegisterIsRemainder
    OBVIOUS
  <2>1. Division(Dividend(0), 0)[8 * 0] = Dividend(0)
    BY DivisionDefined
  <2>2. Dividend(0) = 0 .. 31
    BY DEF Dividend, Xor
  <2>3. Word(0 .. 31, 32) = 0 .. 31
    <3>1. \A y \in 0 .. 31 : 32 - 1 - y \in 0 .. 31 /\ y = 32 - 1 - (32 - 1 - y)
      OBVIOUS
    <3> QED BY <3>1 DEF Word
  <2> QED BY <2>1, <2>2, <2>3 DEF CrcInit, RegisterIsRemainder, Remainder
<1>2. CrcTypeOK /\ RegisterIsRemainder /\ [CrcNext]_crcVars => RegisterIsRemainder'
  <2> SUFFICES ASSUME CrcTypeOK, RegisterIsRemainder, [CrcNext]_crcVars
               PROVE  RegisterIsRemainder'
    OBVIOUS
  <2>1. CASE MakeCrc
    <3>1. /\ string \in Seq(ByteSet) /\ pos \in Nat /\ pos < Len(string)
          /\ string[pos + 1] \in ByteSet /\ crc \in CrcWord
      BY <2>1, FilesAssumption DEF CrcTypeOK, MakeCrc
    <3>2. crc' = Serial!SerialByte(crc, string[pos + 1])
      BY <2>1, <3>1, TableIsSerial DEF MakeCrc
    <3>3. Remainder(Dividend(pos + 1), pos + 1) = Word(crc', 32)
      BY <3>1, <3>2, RemainderOfByte DEF RegisterIsRemainder
    <3>4. string' = string /\ pos' = pos + 1
      BY <2>1 DEF MakeCrc
    <3> QED BY <3>3, <3>4 DEF RegisterIsRemainder, Remainder, Division, Dividend, Bit
  <2>2. CASE UNCHANGED crcVars
    BY <2>2 DEF RegisterIsRemainder, Remainder, Division, Dividend, Bit, crcVars
  <2> QED BY <2>1, <2>2 DEF CrcNext
<1>3. CrcTypeOK /\ RegisterIsRemainder => CrcIsRemainder
  <2> SUFFICES ASSUME CrcTypeOK, RegisterIsRemainder PROVE CrcIsRemainder
    OBVIOUS
  <2>1. \A b \in crc : b \in Int /\ 31 - (32 - 1 - b) = b
    BY DEF CrcTypeOK, CrcWord
  <2>2. {31 - e : e \in Word(crc, 32)} = crc
    BY <2>1 DEF Word
  <2> QED BY <2>2 DEF RegisterIsRemainder, CrcIsRemainder
<1> QED BY <1>1, <1>2, <1>3, CrcTypeCorrect, PTL DEF CrcSpec

-----------------------------------------------------------------------------
(***************************************************************************)
(* The file transfer.                                                      *)
(***************************************************************************)
LEMMA BlockCount ==
  ASSUME NEW f \in File
  PROVE  Blocks[f] \in Seq(Content) /\ Len(Blocks[f]) \in Nat
BY FileAssumption, LenProperties

LEMMA BlockIsContent ==
  ASSUME NEW f \in File, NEW k \in Index(Len(Blocks[f]))
  PROVE  Block(f, k) \in Content
<1>1. k + 1 \in 1 .. Len(Blocks[f])
  BY BlockCount DEF Index
<1> QED
  BY <1>1, BlockCount, ElementOfSeq DEF Block

-----------------------------------------------------------------------------
(***************************************************************************)
(* Type correctness.                                                       *)
(***************************************************************************)
LEMMA InitTyped == Init => TypeOK
<1> SUFFICES ASSUME Init
             PROVE  TypeOK
  OBVIOUS
<1>1. << >> \in Seq(Content \cup {Junk})
  BY EmptySeq
<1>2. disk \in [File -> Seq(Content \cup {Junk})]
  BY <1>1 DEF Init, Empty
<1>3. pkOk \in [Index(pkSum) -> {0, 1}]
      /\ tmp \in [Index(pkSum) -> Content \cup {Junk}]
  BY DEF Init, Index
<1>4. restarts \in 0 .. MaxRestarts
  BY RestartAssumption DEF Init
<1> QED
  BY <1>2, <1>3, <1>4 DEF Init, TypeOK

LEMMA FileStartTyped ==
  ASSUME TypeOK, NEW f \in File, FileStart(f)
  PROVE  TypeOK'
<1>1. pkSum' \in Nat /\ pkSum' = Len(Blocks[dlName'])
  BY BlockCount DEF FileStart
<1>2. pkOk' \in [Index(pkSum') -> {0, 1}]
  BY DEF FileStart, FreshFlags
<1>3. tmp' \in [Index(pkSum') -> Content \cup {Junk}]
  BY DEF FileStart
<1>4. Index(pkSum)' = Index(pkSum')
  BY DEF Index
<1> QED
  BY <1>1, <1>2, <1>3, <1>4 DEF TypeOK, FileStart, Running

LEMMA FileDataTyped ==
  ASSUME TypeOK, NEW k \in Index(pkSum), FileData(k)
  PROVE  TypeOK'
<1>1. Block(sending, k) \in Content
  BY BlockIsContent DEF TypeOK, FileData
<1>2. /\ pkOk' \in [Index(pkSum) -> {0, 1}]
      /\ tmp' \in [Index(pkSum) -> Content \cup {Junk}]
  BY <1>1 DEF TypeOK, FileData
<1>3. mixed' \in BOOLEAN
  BY DEF TypeOK, FileData
<1>4. pkSum' = pkSum /\ dlName' = dlName /\ curState = 1
  BY DEF FileData
<1>5. \/ curState' = 2 /\ proc' = "open"
      \/ curState' = 1 /\ proc' = "run"
  BY DEF FileData, Running
<1>6. disk' = disk /\ sending' = sending /\ restarts' = restarts
  BY DEF FileData
<1> QED
  BY <1>2, <1>3, <1>4, <1>5, <1>6 DEF TypeOK

LEMMA PartTyped ==
  ASSUME TypeOK, NEW k \in 0 .. pkSum
  PROVE  Part(k) \in Seq(Content \cup {Junk})
<1>1. \A n \in 1 .. k : tmp[n - 1] \in Content \cup {Junk}
  BY DEF TypeOK, Index
<1> QED
  BY <1>1 DEF Part

LEMMA WriteTyped ==
  ASSUME TypeOK, WritePart \/ WriteFile
  PROVE  TypeOK'
<1>1. PICK k \in 0 .. pkSum : disk' = [disk EXCEPT ![dlName] = Part(k)]
  BY DEF TypeOK, WritePart, WriteFile
<1>2. Part(k) \in Seq(Content \cup {Junk})
  BY PartTyped
<1>3. disk' \in [File -> Seq(Content \cup {Junk})]
  BY <1>1, <1>2 DEF TypeOK
<1> QED
  BY <1>3 DEF TypeOK, WritePart, WriteFile, dlVars

LEMMA RestartTyped ==
  ASSUME TypeOK, Restart
  PROVE  TypeOK'
<1>1. pkOk' \in [Index(pkSum') -> {0, 1}]
      /\ tmp' \in [Index(pkSum') -> Content \cup {Junk}]
  BY DEF Restart, Index
<1>2. restarts' \in 0 .. MaxRestarts
  BY RestartAssumption DEF TypeOK, Restart
<1>3. Index(pkSum)' = Index(pkSum')
  BY DEF Index
<1> QED
  BY <1>1, <1>2, <1>3 DEF TypeOK, Restart

LEMMA NextTyped == TypeOK /\ [Next]_vars => TypeOK'
<1> SUFFICES ASSUME TypeOK, [Next]_vars
             PROVE  TypeOK'
  OBVIOUS
<1>1. CASE \E f \in File : FileStart(f)
  BY <1>1, FileStartTyped
<1>2. CASE \E f \in File : FileStartNoMemory(f)
  BY <1>2 DEF TypeOK, FileStartNoMemory, dlVars
<1>3. CASE \E f \in File : FileStartIgnored(f)
  BY <1>3 DEF TypeOK, FileStartIgnored, dlVars
<1>4. CASE \E k \in Index(pkSum) : FileData(k)
  BY <1>4, FileDataTyped
<1>5. CASE FileDataOutside
  BY <1>5 DEF TypeOK, FileDataOutside, dlVars
<1>6. CASE OpenFile
  <2>1. Empty \in Seq(Content \cup {Junk})
    BY EmptySeq DEF Empty
  <2>2. disk' \in [File -> Seq(Content \cup {Junk})]
    BY <1>6, <2>1 DEF TypeOK, OpenFile
  <2> QED
    BY <1>6, <2>2 DEF TypeOK, OpenFile, dlVars
<1>7. CASE OpenFileFails
  BY <1>7 DEF TypeOK, OpenFileFails, dlVars
<1>8. CASE WritePart \/ WriteFile
  BY <1>8, WriteTyped
<1>9. CASE Restart
  BY <1>9, RestartTyped
<1>10. CASE WriteFails
  BY <1>10 DEF TypeOK, WriteFails, dlVars
<1>11. CASE UNCHANGED vars
  BY <1>11 DEF TypeOK, vars
<1> QED
  BY <1>1, <1>2, <1>3, <1>4, <1>5, <1>6, <1>7, <1>8, <1>9, <1>10, <1>11
     DEF Next

(***************************************************************************)
(* The flags and the blocks stay those of the announced file, whatever the *)
(* server sends and whenever the program restarts.                         *)
(***************************************************************************)
THEOREM DownloadTypeCorrect == Spec => []TypeOK
BY InitTyped, NextTyped, PTL DEF Spec

-----------------------------------------------------------------------------
(***************************************************************************)
(* Completeness.  The invariant relates the flags to the blocks before the *)
(* download is complete: a flag that memset cleared is set only together   *)
(* with its block, and a complete download has all flags set and stored    *)
(* its last block in the step that completed it.                           *)
(***************************************************************************)
Stored(k) == tmp[k] = Block(dlName, k)

FlagsAreTrue ==
  curState = 1 /\ ~mixed =>
    \A k \in Index(pkSum) : k < SizeofPtr /\ pkOk[k] = 1 => Stored(k)

Complete == FlagsAreTrue /\ CompleteIsComplete

LEMMA FileStartFlags ==
  ASSUME TypeOK, NEW f \in File, FileStart(f)
  PROVE  Complete'
<1>1. curState' = 1
  BY DEF FileStart
<1>2. \A k \in Index(pkSum') : k < SizeofPtr => pkOk'[k] # 1
  BY DEF FileStart, FreshFlags
<1>3. Index(pkSum)' = Index(pkSum')
  BY DEF Index
<1> QED
  BY <1>1, <1>2, <1>3 DEF Complete, FlagsAreTrue, CompleteIsComplete

LEMMA FileDataFlags ==
  ASSUME TypeOK, Complete, NEW k \in Index(pkSum), FileData(k)
  PROVE  Complete'
<1>1. /\ pkSum' = pkSum /\ dlName' = dlName /\ curState = 1
      /\ pkOk' = [pkOk EXCEPT ![k] = 1]
      /\ tmp' = [tmp EXCEPT ![k] = Block(sending, k)]
  BY DEF FileData
<1>2. ~mixed' => ~mixed /\ sending = dlName
  BY DEF FileData
<1>3. ASSUME ~mixed', NEW j \in Index(pkSum),
             j = k \/ (j < SizeofPtr /\ pkOk'[j] = 1)
      PROVE  tmp'[j] = Block(dlName, j)
  <2>1. CASE j = k
    BY <1>1, <1>2, <1>3, <2>1 DEF TypeOK
  <2>2. CASE j # k
    <3>1. pkOk'[j] = pkOk[j] /\ tmp'[j] = tmp[j]
      BY <1>1, <2>2 DEF TypeOK
    <3> QED
      BY <1>1, <1>2, <1>3, <2>2, <3>1 DEF Complete, FlagsAreTrue, Stored
  <2> QED
    BY <2>1, <2>2
<1>4. curState' = 2 => k = pkSum - 1 /\ \A j \in Index(pkSum) : pkOk'[j] = 1
  BY <1>1 DEF FileData, AllThere
<1>5. \A j \in Index(pkSum) : Block(dlName, j)' = Block(dlName', j)
  BY DEF Block
<1>6. Index(pkSum)' = Index(pkSum)
  BY <1>1 DEF Index
<1>7. FlagsAreTrue'
  BY <1>1, <1>3, <1>6 DEF FlagsAreTrue, Stored, Block
<1>8. CompleteIsComplete'
  <2> SUFFICES ASSUME curState' = 2, ~mixed', NEW j \in Index(pkSum),
                      j < SizeofPtr \/ j = pkSum - 1
               PROVE  tmp'[j] = Block(dlName, j)
    BY <1>1, <1>6 DEF CompleteIsComplete, Tracked, Block
  <2> QED
    BY <1>3, <1>4
<1> QED
  BY <1>7, <1>8 DEF Complete

LEMMA CompleteStep == TypeOK /\ Complete /\ [Next]_vars => Complete'
<1> SUFFICES ASSUME TypeOK, Complete, [Next]_vars
             PROVE  Complete'
  OBVIOUS
<1>1. CASE \E f \in File : FileStart(f)
  BY <1>1, FileStartFlags
<1>2. CASE \E k \in Index(pkSum) : FileData(k)
  BY <1>2, FileDataFlags
<1>3. CASE FileDataOutside
  BY <1>3 DEF FileDataOutside, dlVars, Complete, FlagsAreTrue,
              CompleteIsComplete
<1>4. CASE Restart
  BY <1>4 DEF Restart, Complete, FlagsAreTrue, CompleteIsComplete
<1>5. CASE \/ \E f \in File : FileStartNoMemory(f) \/ FileStartIgnored(f)
           \/ OpenFile \/ OpenFileFails \/ WritePart \/ WriteFile
           \/ WriteFails \/ UNCHANGED vars
  <2>1. UNCHANGED dlVars /\ mixed' = mixed
    BY <1>5 DEF FileStartNoMemory, FileStartIgnored, OpenFile, OpenFileFails,
                WritePart, WriteFile, WriteFails, vars, dlVars
  <2> QED
    BY <2>1 DEF dlVars, Complete, FlagsAreTrue, CompleteIsComplete, Stored,
                Tracked, Block, Index
<1> QED
  BY <1>1, <1>2, <1>3, <1>4, <1>5 DEF Next

(***************************************************************************)
(* For every file, number of blocks and order of arrival: a download that  *)
(* is declared complete holds every block whose flag memset cleared, and   *)
(* the last one.                                                           *)
(***************************************************************************)
THEOREM DownloadIsComplete == Spec => []CompleteIsComplete
<1>1. Init => Complete
  BY DEF Init, Complete, FlagsAreTrue, CompleteIsComplete
<1>2. Complete => CompleteIsComplete
  BY DEF Complete
<1> QED
  BY <1>1, <1>2, CompleteStep, DownloadTypeCorrect, PTL DEF Spec

-----------------------------------------------------------------------------
(***************************************************************************)
(* What reaches the disk.                                                  *)
(***************************************************************************)
LEMMA PartIsBeginning ==
  ASSUME TypeOK, CompleteIsComplete, proc = "write", Clean,
         NEW k \in 0 .. pkSum
  PROVE  /\ Part(k) = SubSeq(Blocks[dlName], 1, k)
         /\ k = pkSum => Part(k) = Blocks[dlName]
<1> DEFINE s == Blocks[dlName]
<1>1. curState = 2 /\ dlName \in File /\ pkSum = Len(s)
  BY DEF TypeOK
<1>2. s \in Seq(Content) /\ Len(s) \in Nat /\ k \in Nat
  BY <1>1, BlockCount
<1>3. \A n \in 1 .. k : tmp[n - 1] = s[n]
  <2> SUFFICES ASSUME NEW n \in 1 .. k
               PROVE  tmp[n - 1] = s[n]
    OBVIOUS
  <2>1. n - 1 \in Index(pkSum) /\ n - 1 < SizeofPtr /\ n - 1 + 1 = n
    BY PtrAssumption DEF TypeOK, Index, Clean
  <2>2. tmp[n - 1] = Block(dlName, n - 1)
    BY <1>1, <2>1 DEF CompleteIsComplete, Tracked, Clean
  <2> QED
    BY <2>1, <2>2 DEF Block
<1> HIDE DEF s
<1>4. /\ SubSeq(s, 1, k) \in Seq(Content)
      /\ Len(SubSeq(s, 1, k)) = k
      /\ \A n \in 1 .. k : SubSeq(s, 1, k)[n] = s[n]
  <2>1. \A n \in 1 .. k : s[n] \in Content
    BY <1>1, <1>2, ElementOfSeq
  <2> QED
    BY <1>2, <2>1, SubSeqProperties
<1>5. Part(k) = SubSeq(s, 1, k)
  <2>1. SubSeq(s, 1, k) = [n \in 1 .. k |-> SubSeq(s, 1, k)[n]]
    BY <1>4, LenProperties
  <2> QED
    BY <1>3, <1>4, <2>1 DEF Part
<1>6. k = pkSum => SubSeq(s, 1, k) = s
  BY <1>1, <1>2, <1>4, SeqEqual
<1> QED
  BY <1>5, <1>6 DEF s

LEMMA DiskStep ==
  ASSUME TypeOK, CompleteIsComplete, [Next]_vars, Clean
  PROVE  /\ \A f \in File : disk'[f] \in {disk[f]} \cup Parts(Blocks[f])
         /\ proc = "write" /\ proc' = "exited" => disk'[dlName] = Blocks[dlName]
<1>1. CASE OpenFile
  <2>1. ASSUME NEW f \in File
        PROVE  Empty \in Parts(Blocks[f])
    <3>1. SubSeq(Blocks[f], 1, 0) = << >> /\ 0 \in 0 .. Len(Blocks[f])
      BY BlockCount, SubSeqEmpty
    <3> QED
      BY <3>1 DEF Parts, Empty
  <2> QED
    BY <1>1, <2>1 DEF OpenFile, TypeOK
<1>2. CASE WritePart \/ WriteFile
  <2>1. proc = "write" /\ dlName \in File /\ pkSum = Len(Blocks[dlName])
    BY <1>2 DEF TypeOK, WritePart, WriteFile
  <2>2. PICK k \in 0 .. pkSum : /\ disk' = [disk EXCEPT ![dlName] = Part(k)]
                                /\ proc' = "exited" => k = pkSum
    BY <1>2 DEF TypeOK, WritePart, WriteFile
  <2>3. /\ Part(k) \in Parts(Blocks[dlName])
        /\ k = pkSum => Part(k) = Blocks[dlName]
    BY <2>1, PartIsBeginning DEF Parts
  <2> QED
    BY <2>1, <2>2, <2>3 DEF TypeOK
<1>3. CASE ~(OpenFile \/ WritePart \/ WriteFile)
  <2>1. disk' = disk /\ (proc = "write" => proc' # "exited")
    BY <1>3 DEF Next, FileStart, FileStartNoMemory, FileStartIgnored, FileData,
                FileDataOutside, OpenFileFails, WriteFails, Restart, Running,
                vars
  <2> QED
    BY <2>1
<1> QED
  BY <1>1, <1>2, <1>3

(***************************************************************************)
(* For every set of files, wherever the program is killed or the disk      *)
(* fills up: as long as no foreign block is stored, what comes into a file *)
(* of at most SizeofPtr blocks is a beginning of the announced one, and    *)
(* all of it before the program exits, unless a write fails.               *)
(***************************************************************************)
THEOREM DiskGetsOnlyBeginnings == Spec => DiskGetsParts
<1>1. TypeOK /\ CompleteIsComplete /\ [Next]_vars
        => [Clean =>
             /\ \A f \in File : disk'[f] \in {disk[f]} \cup Parts(Blocks[f])
             /\ proc = "write" /\ proc' = "exited" =>
                  disk'[dlName] = Blocks[dlName]]_vars
  BY DiskStep
<1> QED
  BY <1>1, DownloadTypeCorrect, DownloadIsComplete, PTL
     DEF Spec, DiskGetsParts
=============================================================================
