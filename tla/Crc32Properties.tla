-------------------------- MODULE Crc32Properties --------------------------
(***************************************************************************)
(* The checksum as the remainder of a division of polynomials over GF(2).  *)
(* A polynomial is the set of its exponents.                               *)
(***************************************************************************)
EXTENDS Crc32

Generator == {32} \cup {31 - b : b \in Polynomial}

\* The bits of the file in the order they are sent, from 0.
Bit(m) == m % 8 \in string[m \div 8 + 1]

\* The first n bytes as a polynomial, the first bit the highest, times x^32,
\* and the initial ones added to its first 32 bits.
Dividend(n) == Xor({8 * n + 31 - m : m \in {k \in 0 .. 8 * n - 1 : Bit(k)}},
                   8 * n .. 8 * n + 31)

\* Long division: the generator is taken away at every exponent from the
\* highest down to 32 that is still there.
TakeAway(d, e) == IF e \in d THEN Xor(d, {x + e - 32 : x \in Generator}) ELSE d

\* What is left of d after the j highest of its exponents.
Division(d, n) ==
  LET left[j \in 0 .. 8 * n] ==
        IF j = 0 THEN d ELSE TakeAway(left[j - 1], 8 * n + 32 - j)
  IN left

Remainder(d, n) == Division(d, n)[8 * n]

\* public.c caculate_crc: after every byte the register holds the remainder of
\* the bytes so far, the highest exponent in bit 0.
CrcIsRemainder == crc = {31 - e : e \in Remainder(Dividend(pos), pos)}
=============================================================================
