---------------------------- MODULE PacketProofs ----------------------------
(***************************************************************************)
(* What the operators of Packet and Framing return, for any byte range and *)
(* any buffer size.                                                        *)
(***************************************************************************)
EXTENDS Framing, SequenceTheorems, WellFoundedInduction, TLAPS

(***************************************************************************)
(* The packet operators keep the buffer a sequence of at most Cap bytes.   *)
(***************************************************************************)
LEMMA HeaderIsBytes ==
  ASSUME NEW port \in Nat, NEW len \in Nat
  PROVE  Header(port, len) \in Seq(Octet) /\ Len(Header(port, len)) = HeaderLen
<1>1. \A n \in Nat : n % Base \in Octet /\ n \div Base \in Nat
  BY BaseAssumption DEF Octet
<1>2. /\ HiByte(port) \in Octet /\ LoByte(port) \in Octet
      /\ HiByte(len) \in Octet /\ LoByte(len) \in Octet
  BY <1>1 DEF HiByte, LoByte
<1> QED
  BY <1>2 DEF Header, HeaderLen

LEMMA WriteBytesFits ==
  ASSUME NEW buf \in Seq(Octet), Len(buf) <= Cap, NEW s \in Seq(Octet)
  PROVE  WriteBytes(buf, s) \in Seq(Octet) /\ Len(WriteBytes(buf, s)) <= Cap
<1> DEFINE n == IF Len(s) <= Room(buf) THEN Len(s) ELSE Room(buf)
<1>1. n \in 0 .. Len(s) /\ n <= Cap - Len(buf)
  BY CapAssumption, LenProperties DEF Room
<1> HIDE DEF n
<1>2. SubSeq(s, 1, n) \in Seq(Octet) /\ Len(SubSeq(s, 1, n)) = n
  BY <1>1, SubSeqProperties, LenProperties
<1>3. WriteBytes(buf, s) = buf \o SubSeq(s, 1, n)
  BY DEF WriteBytes, n
<1> QED
  BY <1>1, <1>2, <1>3, ConcatProperties, CapAssumption, LenProperties

LEMMA WritePacketFits ==
  ASSUME NEW buf \in Seq(Octet), Len(buf) <= Cap,
         NEW s \in Seq(Octet), NEW port \in Nat
  PROVE  /\ WritePacket(buf, s, port) \in Seq(Octet)
         /\ Len(WritePacket(buf, s, port)) <= Cap
<1> DEFINE len == Len(s) % (Base * Base)
<1>1. Base * Base \in Nat \ {0}
  BY BaseAssumption
<1>2. len \in Nat /\ len <= Len(s)
  BY <1>1, LenProperties
<1> HIDE DEF len
<1>3. SubSeq(s, 1, len) \in Seq(Octet)
  BY <1>2, SubSeqProperties, LenProperties
<1>4. Header(port, len) \o SubSeq(s, 1, len) \in Seq(Octet)
  BY <1>2, <1>3, HeaderIsBytes, ConcatProperties
<1>5. WritePacket(buf, s, port)
        = WriteBytes(buf, Header(port, len) \o SubSeq(s, 1, len))
  BY DEF WritePacket, len
<1> QED
  BY <1>4, <1>5, WriteBytesFits

LEMMA PeekByteIsOctet ==
  ASSUME NEW buf \in Seq(Octet), NEW k \in Nat \ {0}
  PROVE  PeekByte(buf, k) \in Octet
BY BaseAssumption, ElementOfSeq DEF PeekByte, Octet

LEMMA WordIsInt16 ==
  ASSUME NEW hi \in Octet, NEW lo \in Octet
  PROVE  Word(hi, lo) \in 0 .. Base * Base - 1
<1>1. hi * Base <= (Base - 1) * Base
  BY BaseAssumption DEF Octet
<1>2. (Base - 1) * Base = Base * Base - Base
  BY BaseAssumption
<1>3. hi * Base \in Nat /\ Base * Base \in Nat
  BY BaseAssumption DEF Octet
<1> QED
  BY <1>1, <1>2, <1>3, BaseAssumption DEF Octet, Word

LEMMA HeadOfBuffer ==
  ASSUME NEW buf \in Seq(Octet)
  PROVE  /\ HeadPort(buf) \in 0 .. Base * Base - 1
         /\ HeadLen(buf) \in 0 .. Base * Base - 1
         /\ HeadPayload(buf) \in Seq(Octet)
         /\ AfterHead(buf) \in Seq(Octet)
         /\ Len(AfterHead(buf)) <= Len(buf)
         /\ buf # << >> => Len(AfterHead(buf)) < Len(buf)
<1>1. HeadPort(buf) \in 0 .. Base * Base - 1
  BY PeekByteIsOctet, WordIsInt16 DEF HeadPort
<1>2. HeadLen(buf) \in 0 .. Base * Base - 1 /\ HeadLen(buf) \in Nat
  <2>1. HeadLen(buf) \in 0 .. Base * Base - 1
    BY PeekByteIsOctet, WordIsInt16 DEF HeadLen
  <2>2. Base * Base \in Nat
    BY BaseAssumption
  <2> QED
    BY <2>1, <2>2
<1>3. HeadPayload(buf) \in Seq(Octet)
  <2>1. \A k \in 1 .. HeadLen(buf) : PeekByte(buf, HeaderLen + k) \in Octet
    BY <1>2, PeekByteIsOctet DEF HeaderLen
  <2> QED
    BY <1>2, <2>1 DEF HeadPayload, PeekBytes
<1>4. /\ AfterHead(buf) \in Seq(Octet)
      /\ Len(AfterHead(buf)) <= Len(buf)
      /\ buf # << >> => Len(AfterHead(buf)) < Len(buf)
  <2> DEFINE n == HeaderLen + HeadLen(buf)
  <2>1. n \in Nat /\ n > 0
    BY <1>2 DEF HeaderLen
  <2>2. AfterHead(buf) = SubSeq(buf, n + 1, Len(buf))
    BY DEF AfterHead, DropBytes
  <2>3. buf # << >> => Len(buf) > 0
    BY EmptySeq
  <2> HIDE DEF n
  <2> QED
    BY <2>1, <2>2, <2>3, SubSeqProperties, LenProperties
<1> QED
  BY <1>1, <1>2, <1>3, <1>4

LEMMA HeadIsPacket ==
  ASSUME NEW buf \in Seq(Octet), Len(buf) <= Cap
  PROVE  /\ HeadPacket(buf) \in [port : 0 .. Base * Base - 1,
                                 payload : Seq(Octet)]
         /\ AfterHead(buf) \in Seq(Octet)
         /\ Len(AfterHead(buf)) <= Cap
<1>1. Len(AfterHead(buf)) \in Nat /\ Len(buf) \in Nat
  BY HeadOfBuffer, LenProperties
<1> QED
  BY <1>1, HeadOfBuffer, CapAssumption DEF HeadPacket

-----------------------------------------------------------------------------
(***************************************************************************)
(* A recursive function whose argument shrinks has a value everywhere.     *)
(***************************************************************************)
LEMMA LeastNatural ==
  ASSUME NEW T, T \subseteq Nat, T # {}
  PROVE  \E x \in T : \A y \in T : x <= y
<1>1. PICK x \in T : \A y \in T : ~ (<<y, x>> \in OpToRel(<, Nat))
  BY NatLessThanWellFounded, WFMin
<1>2. \A y \in T : ~ (y < x)
  BY <1>1 DEF OpToRel
<1> QED BY <1>2

\* F[x] is computed from F[next[x]] for x in D, and is base[x] elsewhere.
Recursion(S, V, size, D, next, base, step) ==
  /\ size \in [S -> Nat]
  /\ D \subseteq S
  /\ next \in [D -> S]
  /\ \A x \in D : size[next[x]] < size[x]
  /\ base \in [S -> V]
  /\ step \in [S \X V -> V]

\* The values of F for the arguments of size n at most are fixed by those of
\* smaller size: Approx(n) is the set of the functions that have them right.
LEMMA RecursionExists ==
  ASSUME NEW S, NEW V, NEW size, NEW D, NEW next, NEW base, NEW step,
         Recursion(S, V, size, D, next, base, step)
  PROVE  \E F \in [S -> V] : \A x \in S :
           F[x] = IF x \in D THEN step[<<x, F[next[x]]>>] ELSE base[x]
<1> USE DEF Recursion
<1> DEFINE Eq(F, x) == F[x] = IF x \in D THEN step[<<x, F[next[x]]>>] ELSE base[x]
           Low(n) == {x \in S : size[x] <= n}
           Approx(n) == {F \in [Low(n) -> V] : \A x \in Low(n) : Eq(F, x)}
<1>1. ASSUME NEW m \in Nat, NEW n \in Nat, m <= n,
             NEW F \in Approx(m), NEW G \in Approx(n)
      PROVE  \A x \in Low(m) : F[x] = G[x]
  <2> DEFINE Bad == {x \in Low(m) : F[x] # G[x]}
             T == {size[x] : x \in Bad}
  <2> SUFFICES ASSUME Bad # {} PROVE FALSE
    OBVIOUS
  <2>1. T \subseteq Nat /\ T # {}
    <3>1. PICK x : x \in Bad
      OBVIOUS
    <3>2. size[x] \in T
      BY <3>1
    <3>3. ASSUME NEW y \in T PROVE y \in Nat
      <4>1. PICK z \in Bad : y = size[z]
        OBVIOUS
      <4> QED BY <4>1
    <3> QED BY <3>2, <3>3
  <2>2. PICK s \in T : \A y \in T : s <= y
    BY <2>1, LeastNatural
  <2>3. PICK x \in Bad : s = size[x]
    OBVIOUS
  <2>4. x \in S /\ size[x] \in Nat /\ x \in Low(m) /\ x \in Low(n) /\ F[x] # G[x]
    BY <1>1
  <2>5. Eq(F, x) /\ Eq(G, x)
    BY <2>4
  <2>6. x \in D
    BY <2>4, <2>5
  <2>7. next[x] \in S /\ size[next[x]] \in Nat /\ size[next[x]] < size[x]
    BY <2>6
  <2>8. next[x] \in Low(m) /\ next[x] \notin Bad
    <3>1. next[x] \in Low(m)
      BY <2>4, <2>7
    <3>2. next[x] \in Bad => size[x] <= size[next[x]]
      BY <2>2, <2>3
    <3> QED BY <2>4, <2>7, <3>1, <3>2
  <2>9. F[next[x]] = G[next[x]]
    BY <2>8
  <2> QED BY <2>4, <2>5, <2>6, <2>9
<1>2. \A n \in Nat : Approx(n) # {}
  <2> DEFINE T == {n \in Nat : Approx(n) = {}}
  <2> HIDE DEF Approx
  <2> SUFFICES ASSUME T # {} PROVE FALSE
    OBVIOUS
  <2>1. PICK n \in T : \A k \in T : n <= k
    BY LeastNatural
  <2>2. n \in Nat /\ Approx(n) = {}
    OBVIOUS
  <2>3. CASE n = 0
    <3> DEFINE G == [x \in Low(0) |-> base[x]]
    <3>1. G \in [Low(0) -> V]
      OBVIOUS
    <3>2. ASSUME NEW x \in Low(0) PROVE Eq(G, x)
      <4>1. x \in S /\ size[x] \in Nat /\ size[x] <= 0
        OBVIOUS
      <4>2. x \notin D
        <5> SUFFICES ASSUME x \in D PROVE FALSE
          OBVIOUS
        <5>1. size[next[x]] \in Nat /\ size[next[x]] < size[x]
          OBVIOUS
        <5> QED BY <4>1, <5>1
      <4> QED BY <4>2
    <3>3. G \in Approx(0)
      BY <3>1, <3>2 DEF Approx
    <3> QED BY <2>2, <2>3, <3>3
  <2>4. CASE n # 0
    <3>1. n - 1 \in Nat /\ n - 1 \notin T
      BY <2>1, <2>2, <2>4
    <3>2. PICK F : F \in Approx(n - 1)
      BY <3>1
    <3>3. F \in [Low(n - 1) -> V] /\ \A x \in Low(n - 1) : Eq(F, x)
      BY <3>2 DEF Approx
    <3> DEFINE G == [x \in Low(n) |-> IF x \in D THEN step[<<x, F[next[x]]>>] ELSE base[x]]
    <3>4. ASSUME NEW x \in Low(n), x \in D
          PROVE  next[x] \in Low(n - 1) /\ next[x] \in Low(n)
      <4>1. /\ x \in S /\ size[x] \in Nat /\ size[x] <= n
            /\ next[x] \in S /\ size[next[x]] \in Nat /\ size[next[x]] < size[x]
        BY <3>4
      <4> QED BY <2>2, <4>1
    <3>5. G \in [Low(n) -> V]
      <4>1. ASSUME NEW x \in Low(n)
            PROVE  (IF x \in D THEN step[<<x, F[next[x]]>>] ELSE base[x]) \in V
        <5>1. CASE x \in D
          <6>1. F[next[x]] \in V
            BY <3>3, <3>4, <5>1
          <6> QED BY <5>1, <6>1
        <5>2. CASE x \notin D
          BY <5>2
        <5> QED BY <5>1, <5>2
      <4> QED BY <4>1
    <3>6. \A x \in Low(n - 1) : x \in Low(n) /\ G[x] = F[x]
      <4>1. ASSUME NEW x \in Low(n - 1) PROVE x \in Low(n)
        <5>1. x \in S /\ size[x] \in Nat /\ size[x] <= n - 1
          OBVIOUS
        <5> QED BY <2>2, <5>1
      <4> QED BY <3>3, <4>1
    <3>7. ASSUME NEW x \in Low(n) PROVE Eq(G, x)
      <4>1. G[x] = IF x \in D THEN step[<<x, F[next[x]]>>] ELSE base[x]
        OBVIOUS
      <4> HIDE DEF G
      <4>2. x \in D => F[next[x]] = G[next[x]]
        BY <3>4, <3>6
      <4> QED BY <4>1, <4>2
    <3>8. G \in Approx(n)
      BY <3>5, <3>7 DEF Approx
    <3> QED BY <2>2, <3>8
  <2> QED BY <2>3, <2>4
<1> DEFINE A(n) == CHOOSE F : F \in Approx(n)
           F == [x \in S |-> A(size[x])[x]]
<1>3. \A n \in Nat : A(n) \in Approx(n)
  <2> HIDE DEF Approx
  <2> QED BY <1>2
<1> HIDE DEF A
<1>4. ASSUME NEW x \in S PROVE x \in Low(size[x]) /\ size[x] \in Nat
  OBVIOUS
<1>5. F \in [S -> V]
  <2>1. ASSUME NEW x \in S PROVE A(size[x])[x] \in V
    <3>1. A(size[x]) \in [Low(size[x]) -> V]
      BY <1>3, <1>4
    <3> HIDE DEF Low
    <3> QED BY <1>4, <3>1
  <2> QED BY <2>1
<1>6. ASSUME NEW x \in S PROVE Eq(F, x)
  <2>1. Eq(A(size[x]), x)
    BY <1>3, <1>4
  <2>2. ASSUME x \in D PROVE A(size[x])[next[x]] = F[next[x]]
    <3> DEFINE y == next[x]
    <3>1. y \in S /\ size[y] \in Nat /\ size[x] \in Nat /\ size[y] <= size[x]
      BY <2>2
    <3>2. y \in Low(size[y])
      BY <3>1
    <3>3. A(size[y]) \in Approx(size[y]) /\ A(size[x]) \in Approx(size[x])
      BY <1>3, <3>1
    <3> HIDE DEF Approx, Low, y
    <3>4. A(size[y])[y] = A(size[x])[y]
      BY <1>1, <3>1, <3>2, <3>3
    <3>5. F[y] = A(size[y])[y]
      BY <3>1
    <3> QED BY <3>4, <3>5 DEF y
  <2>3. F[x] = A(size[x])[x]
    OBVIOUS
  <2> HIDE DEF F
  <2> QED BY <2>1, <2>2, <2>3
<1> HIDE DEF F
<1> QED BY <1>5, <1>6

LEMMA LengthInduction ==
  ASSUME NEW S, NEW T,
         \A s \in Seq(S) :
           (\A t \in Seq(S) : Len(t) < Len(s) => t \in T) => s \in T
  PROVE  Seq(S) \subseteq T
<1> DEFINE Bad == {s \in Seq(S) : s \notin T}
           Lens == {Len(s) : s \in Bad}
<1> SUFFICES ASSUME Bad # {} PROVE FALSE
  OBVIOUS
<1>1. Lens \subseteq Nat /\ Lens # {}
  <2>1. PICK s : s \in Bad
    OBVIOUS
  <2>2. Len(s) \in Lens
    BY <2>1
  <2>3. ASSUME NEW n \in Lens PROVE n \in Nat
    <3>1. PICK t \in Bad : n = Len(t)
      OBVIOUS
    <3> QED BY <3>1, LenProperties
  <2> QED BY <2>2, <2>3
<1>2. PICK n \in Lens : \A m \in Lens : n <= m
  BY <1>1, LeastNatural
<1>3. PICK s \in Bad : n = Len(s)
  OBVIOUS
<1>4. ASSUME NEW t \in Seq(S), Len(t) < Len(s) PROVE t \in T
  <2> SUFFICES ASSUME t \notin T PROVE FALSE
    OBVIOUS
  <2>1. Len(t) \in Lens /\ Len(t) \in Nat /\ Len(s) \in Nat
    BY LenProperties
  <2>2. n <= Len(t)
    BY <1>2, <2>1
  <2> HIDE DEF Lens, Bad
  <2> QED BY <1>3, <1>4, <2>1, <2>2
<1> QED BY <1>3, <1>4

PacketSet == [port : 0 .. Base * Base - 1, payload : Seq(Octet), whole : BOOLEAN]

(***************************************************************************)
(* Packets is defined for every buffer: each packet taken out leaves fewer *)
(* bytes.                                                                  *)
(***************************************************************************)
LEMMA PacketsDefined ==
  /\ Packets \in [Seq(Octet) -> Seq(PacketSet)]
  /\ \A buf \in Seq(Octet) :
       Packets[buf] = IF buf = << >> THEN << >>
                      ELSE <<FirstPacket(buf)>> \o Packets[AfterHead(buf)]
<1> DEFINE S == Seq(Octet)
           V == Seq(PacketSet)
           D == {buf \in S : buf # << >>}
           size == [buf \in S |-> Len(buf)]
           next == [buf \in D |-> AfterHead(buf)]
           base == [buf \in S |-> << >>]
           step == [p \in S \X V |-> <<FirstPacket(p[1])>> \o p[2]]
           Body(F, buf) == IF buf = << >> THEN << >>
                           ELSE <<FirstPacket(buf)>> \o F[AfterHead(buf)]
           Unfolds(F) == F = [buf \in S |-> Body(F, buf)]
<1>1. \A buf \in S : FirstPacket(buf) \in PacketSet
  <2> SUFFICES ASSUME NEW buf \in S PROVE FirstPacket(buf) \in PacketSet
    OBVIOUS
  <2> QED BY HeadOfBuffer DEF FirstPacket, PacketSet
<1>2. \E F \in [S -> V] : \A buf \in S :
        F[buf] = IF buf \in D THEN step[<<buf, F[next[buf]]>>] ELSE base[buf]
  <2>1. size \in [S -> Nat] /\ D \subseteq S
    BY LenProperties
  <2>2. next \in [D -> S] /\ \A buf \in D : size[next[buf]] < size[buf]
    BY HeadOfBuffer
  <2>3. base \in [S -> V]
    BY EmptySeq
  <2>4. step \in [S \X V -> V]
    <3>1. ASSUME NEW buf \in S, NEW q \in V
          PROVE  <<FirstPacket(buf)>> \o q \in V
      BY <1>1, ConcatProperties
    <3> QED BY <3>1
  <2> HIDE DEF size, D, next, base, step, S, V
  <2>5. Recursion(S, V, size, D, next, base, step)
    BY <2>1, <2>2, <2>3, <2>4 DEF Recursion
  <2> QED BY <2>5, RecursionExists
<1>3. PICK F \in [S -> V] : \A buf \in S :
        F[buf] = IF buf \in D THEN step[<<buf, F[next[buf]]>>] ELSE base[buf]
  BY <1>2
<1>4. \A buf \in S : F[buf] = Body(F, buf)
  <2> SUFFICES ASSUME NEW buf \in S PROVE F[buf] = Body(F, buf)
    OBVIOUS
  <2>1. CASE buf = << >>
    BY <1>3, <2>1
  <2>2. CASE buf # << >>
    <3>1. AfterHead(buf) \in S
      BY HeadOfBuffer
    <3>2. F[buf] = step[<<buf, F[AfterHead(buf)]>>]
      BY <1>3, <2>2
    <3>3. <<buf, F[AfterHead(buf)]>> \in S \X V
      BY <3>1
    <3> HIDE DEF S, V
    <3> QED BY <2>2, <3>2, <3>3
  <2> QED BY <2>1, <2>2
<1>5. Unfolds(F)
  <2> HIDE DEF Body, S, V
  <2> QED BY <1>4
<1>6. Packets = CHOOSE G : Unfolds(G)
  BY DEF Packets
<1>7. Unfolds(Packets)
  <2> HIDE DEF Unfolds
  <2> QED BY <1>5, <1>6
<1>8. \A buf \in S : Packets[buf] = Body(Packets, buf)
  <2> HIDE DEF Body
  <2> QED BY <1>7
<1>9. \A buf \in S : Packets[buf] \in V
  <2> DEFINE T == {buf \in S : Packets[buf] \in V}
  <2>1. ASSUME NEW buf \in S, \A b \in S : Len(b) < Len(buf) => b \in T
        PROVE  buf \in T
    <3>1. CASE buf = << >>
      BY <1>8, <3>1, EmptySeq
    <3>2. CASE buf # << >>
      <4>1. Packets[AfterHead(buf)] \in V
        BY <2>1, <3>2, HeadOfBuffer
      <4>2. <<FirstPacket(buf)>> \in V
        BY <1>1
      <4>3. Packets[buf] = <<FirstPacket(buf)>> \o Packets[AfterHead(buf)]
        BY <1>8, <3>2
      <4>4. <<FirstPacket(buf)>> \o Packets[AfterHead(buf)] \in V
        BY <4>1, <4>2, ConcatProperties
      <4> QED BY <4>3, <4>4
    <3> QED BY <3>1, <3>2
  <2>2. S \subseteq T
    <3> HIDE DEF T
    <3> QED BY <2>1, LengthInduction
  <2> QED BY <2>2
<1> QED BY <1>7, <1>8, <1>9

-----------------------------------------------------------------------------
(***************************************************************************)
(* Taking a packet out of the front and writing one at the end.            *)
(***************************************************************************)
AllWhole(buf) == \A n \in 1 .. Len(Packets[buf]) : Packets[buf][n].whole

LEMMA PacketsTyped ==
  ASSUME NEW buf \in Seq(Octet)
  PROVE  Packets[buf] \in Seq(PacketSet) /\ Len(Packets[buf]) \in Nat
<1>1. Packets[buf] \in Seq(PacketSet)
  BY PacketsDefined
<1> QED BY <1>1, LenProperties

LEMMA FirstPacketTyped ==
  ASSUME NEW buf \in Seq(Octet)
  PROVE  FirstPacket(buf) \in PacketSet
BY HeadOfBuffer DEF FirstPacket, PacketSet

\* A sequence with an element in front.
LEMMA ConsProperties ==
  ASSUME NEW V, NEW e \in V, NEW q \in Seq(V)
  PROVE  /\ <<e>> \o q \in Seq(V)
         /\ Len(<<e>> \o q) = Len(q) + 1
         /\ (<<e>> \o q)[1] = e
         /\ \A n \in 1 .. Len(q) : (<<e>> \o q)[n + 1] = q[n]
<1> DEFINE f == <<e>>
<1>1. f \in Seq(V) /\ Len(f) = 1 /\ f[1] = e
  OBVIOUS
<1>2. Len(q) \in Nat
  BY LenProperties
<1> HIDE DEF f
<1>3. f \o q \in Seq(V) /\ Len(f \o q) = Len(f) + Len(q)
  BY <1>1, ConcatProperties
<1>4. \A i \in 1 .. Len(f) + Len(q) :
        (f \o q)[i] = IF i <= Len(f) THEN f[i] ELSE q[i - Len(f)]
  BY <1>1, ConcatProperties
<1>5. (f \o q)[1] = e
  BY <1>1, <1>2, <1>4
<1>6. ASSUME NEW n \in 1 .. Len(q)
      PROVE  (f \o q)[n + 1] = q[n]
  <2>1. /\ n + 1 \in 1 .. Len(f) + Len(q)
        /\ ~(n + 1 <= Len(f)) /\ n + 1 - Len(f) = n
    BY <1>1, <1>2
  <2> QED BY <1>4, <2>1
<1>7. Len(f \o q) = Len(q) + 1
  BY <1>1, <1>2, <1>3
<1> QED BY <1>3, <1>5, <1>6, <1>7 DEF f

LEMMA NoPackets == Packets[<< >>] = << >>
BY PacketsDefined, EmptySeq

LEMMA PacketsCons ==
  ASSUME NEW buf \in Seq(Octet), buf # << >>
  PROVE  /\ Packets[buf] = <<FirstPacket(buf)>> \o Packets[AfterHead(buf)]
         /\ Len(Packets[buf]) = Len(Packets[AfterHead(buf)]) + 1
         /\ Packets[buf][1] = FirstPacket(buf)
         /\ \A n \in 1 .. Len(Packets[AfterHead(buf)]) :
              Packets[buf][n + 1] = Packets[AfterHead(buf)][n]
<1>1. Packets[buf] = <<FirstPacket(buf)>> \o Packets[AfterHead(buf)]
  BY PacketsDefined
<1>2. Packets[AfterHead(buf)] \in Seq(PacketSet) /\ FirstPacket(buf) \in PacketSet
  BY HeadOfBuffer, PacketsTyped, FirstPacketTyped
<1> QED BY <1>1, <1>2, ConsProperties

LEMMA WholeAfterHead ==
  ASSUME NEW buf \in Seq(Octet), buf # << >>, AllWhole(buf)
  PROVE  /\ HeaderLen + HeadLen(buf) <= Len(buf)
         /\ AllWhole(AfterHead(buf))
<1> DEFINE q == Packets[AfterHead(buf)]
<1>1. Len(q) \in Nat /\ Len(Packets[buf]) = Len(q) + 1
  BY HeadOfBuffer, PacketsTyped, PacketsCons
<1>2. Packets[buf][1].whole
  <2> HIDE DEF q
  <2>1. 1 \in 1 .. Len(Packets[buf])
    BY <1>1
  <2> QED BY <2>1 DEF AllWhole
<1>3. FirstPacket(buf).whole
  BY <1>2, PacketsCons
<1>4. \A n \in 1 .. Len(Packets[AfterHead(buf)]) :
        Packets[AfterHead(buf)][n].whole
  <2> SUFFICES ASSUME NEW n \in 1 .. Len(Packets[AfterHead(buf)])
               PROVE  Packets[AfterHead(buf)][n].whole
    OBVIOUS
  <2>1. n + 1 \in 1 .. Len(Packets[buf])
    <3>1. n \in 1 .. Len(q)
      OBVIOUS
    <3> HIDE DEF q
    <3> QED BY <1>1, <3>1
  <2>2. Packets[buf][n + 1] = Packets[AfterHead(buf)][n]
    BY PacketsCons
  <2> QED BY <2>1, <2>2 DEF AllWhole
<1> QED BY <1>3, <1>4 DEF FirstPacket, AllWhole

\* A whole packet at the front is found whatever is written behind it.
LEMMA HeadOfConcat ==
  ASSUME NEW buf \in Seq(Octet), buf # << >>, NEW s \in Seq(Octet),
         HeaderLen + HeadLen(buf) <= Len(buf)
  PROVE  /\ FirstPacket(buf \o s) = FirstPacket(buf)
         /\ AfterHead(buf \o s) = AfterHead(buf) \o s
<1>1. Len(buf) \in Nat /\ Len(s) \in Nat /\ HeadLen(buf) \in Nat
  <2>1. Base * Base \in Nat
    BY BaseAssumption
  <2> QED BY <2>1, LenProperties, HeadOfBuffer
<1>2. /\ buf \o s \in Seq(Octet)
      /\ Len(buf \o s) = Len(buf) + Len(s)
      /\ \A i \in 1 .. Len(buf) + Len(s) :
           (buf \o s)[i] = IF i <= Len(buf) THEN buf[i] ELSE s[i - Len(buf)]
  BY ConcatProperties
<1>3. \A k \in 1 .. Len(buf) : PeekByte(buf \o s, k) = PeekByte(buf, k)
  BY <1>1, <1>2 DEF PeekByte
<1>4. HeadPort(buf \o s) = HeadPort(buf) /\ HeadLen(buf \o s) = HeadLen(buf)
  <2>1. {1, 2, 3, 4} \subseteq 1 .. Len(buf)
    BY <1>1 DEF HeaderLen
  <2> QED BY <1>3, <2>1 DEF HeadPort, HeadLen
<1>5. HeadPayload(buf \o s) = HeadPayload(buf)
  <2>1. \A k \in 1 .. HeadLen(buf) : HeaderLen + k \in 1 .. Len(buf)
    BY <1>1 DEF HeaderLen
  <2> QED BY <1>3, <1>4, <2>1 DEF HeadPayload, PeekBytes
<1>6. HeaderLen + HeadLen(buf) <= Len(buf \o s)
  BY <1>1, <1>2 DEF HeaderLen
<1>7. AfterHead(buf \o s) = AfterHead(buf) \o s
  <2> DEFINE n == HeaderLen + HeadLen(buf)
             a == SubSeq(buf, n + 1, Len(buf))
             b == SubSeq(buf \o s, n + 1, Len(buf \o s))
  <2>1. n \in Nat /\ n <= Len(buf)
    BY <1>1 DEF HeaderLen
  <2>2. AfterHead(buf) = a /\ AfterHead(buf \o s) = b
    BY <1>4 DEF AfterHead, DropBytes
  <2> HIDE DEF n
  <2>3. /\ a \in Seq(Octet) /\ Len(a) = Len(buf) - n
        /\ \A i \in 1 .. Len(buf) - n : a[i] = buf[n + i]
    <3>1. \A i \in n + 1 .. Len(buf) : buf[i] \in Octet
      BY <2>1, ElementOfSeq
    <3> QED BY <1>1, <2>1, <3>1, SubSeqProperties
  <2>4. /\ b \in Seq(Octet) /\ Len(b) = Len(buf) + Len(s) - n
        /\ \A i \in 1 .. Len(buf) + Len(s) - n : b[i] = (buf \o s)[n + i]
    <3>1. \A i \in n + 1 .. Len(buf \o s) : (buf \o s)[i] \in Octet
      BY <1>2, <2>1, ElementOfSeq
    <3> QED BY <1>1, <1>2, <2>1, <3>1, SubSeqProperties
  <2> HIDE DEF a, b
  <2>5. /\ a \o s \in Seq(Octet)
        /\ Len(a \o s) = Len(a) + Len(s)
        /\ \A i \in 1 .. Len(a) + Len(s) :
             (a \o s)[i] = IF i <= Len(a) THEN a[i] ELSE s[i - Len(a)]
    BY <2>3, ConcatProperties
  <2>6. Len(a \o s) = Len(b)
    BY <1>1, <2>1, <2>3, <2>4, <2>5
  <2>7. \A i \in 1 .. Len(b) : b[i] = (a \o s)[i]
    <3> SUFFICES ASSUME NEW i \in 1 .. Len(b) PROVE b[i] = (a \o s)[i]
      OBVIOUS
    <3>1. b[i] = IF n + i <= Len(buf) THEN buf[n + i] ELSE s[n + i - Len(buf)]
      BY <1>1, <1>2, <2>1, <2>4
    <3>2. (a \o s)[i] = IF i <= Len(a) THEN a[i] ELSE s[i - Len(a)]
      BY <1>1, <2>1, <2>3, <2>4, <2>5
    <3>3. CASE i <= Len(a)
      BY <1>1, <2>1, <2>3, <2>4, <3>1, <3>2, <3>3
    <3>4. CASE ~(i <= Len(a))
      <4>1. n + i - Len(buf) = i - Len(a)
        BY <1>1, <2>1, <2>3
      <4> QED BY <1>1, <2>1, <2>3, <2>4, <3>1, <3>2, <3>4, <4>1
    <3> QED BY <3>3, <3>4
  <2>8. b = a \o s
    BY <2>4, <2>5, <2>6, <2>7, SeqEqual
  <2> QED BY <2>2, <2>8
<1> QED BY <1>4, <1>5, <1>6, <1>7 DEF FirstPacket

LEMMA PacketsConcat ==
  ASSUME NEW buf \in Seq(Octet), AllWhole(buf), NEW s \in Seq(Octet)
  PROVE  Packets[buf \o s] = Packets[buf] \o Packets[s]
<1> DEFINE T == {b \in Seq(Octet) :
                   AllWhole(b) => Packets[b \o s] = Packets[b] \o Packets[s]}
<1>1. ASSUME NEW b \in Seq(Octet),
             \A a \in Seq(Octet) : Len(a) < Len(b) => a \in T
      PROVE  b \in T
  <2> SUFFICES ASSUME AllWhole(b)
               PROVE  Packets[b \o s] = Packets[b] \o Packets[s]
    OBVIOUS
  <2>1. CASE b = << >>
    <3>1. b \o s = s
      BY <2>1, ConcatEmptySeq
    <3>2. << >> \o Packets[s] = Packets[s]
      BY PacketsTyped, ConcatEmptySeq
    <3> QED BY <2>1, <3>1, <3>2, NoPackets
  <2>2. CASE b # << >>
    <3> DEFINE f == <<FirstPacket(b)>>
               a == AfterHead(b)
    <3>1. a \in Seq(Octet) /\ Len(a) < Len(b)
      BY <2>2, HeadOfBuffer
    <3>2. AllWhole(a) /\ HeaderLen + HeadLen(b) <= Len(b)
      BY <2>2, WholeAfterHead
    <3>3. b \o s \in Seq(Octet) /\ b \o s # << >>
      BY <2>2, ConcatProperties, ConcatEqualIffEmpty
    <3>4. FirstPacket(b \o s) = FirstPacket(b) /\ AfterHead(b \o s) = a \o s
      BY <2>2, <3>2, HeadOfConcat
    <3>5. Packets[b \o s] = f \o Packets[a \o s]
      BY <3>3, <3>4, PacketsCons
    <3>6. Packets[b] = f \o Packets[a]
      BY <2>2, PacketsCons
    <3>7. /\ f \in Seq(PacketSet)
          /\ Packets[a] \in Seq(PacketSet)
          /\ Packets[s] \in Seq(PacketSet)
      BY <3>1, FirstPacketTyped, PacketsTyped
    <3> HIDE DEF f, a
    <3>8. Packets[a \o s] = Packets[a] \o Packets[s]
      BY <1>1, <3>1, <3>2
    <3>9. (f \o Packets[a]) \o Packets[s] = f \o (Packets[a] \o Packets[s])
      <4> DEFINE u == Packets[a]
                 v == Packets[s]
      <4>1. u \in Seq(PacketSet) /\ v \in Seq(PacketSet) /\ f \in Seq(PacketSet)
        BY <3>7
      <4> HIDE DEF u, v
      <4>2. (f \o u) \o v = f \o (u \o v)
        BY ONLY <4>1, ConcatAssociative, Z3
      <4> QED BY <4>2 DEF u, v
    <3> QED BY <3>5, <3>6, <3>8, <3>9
  <2> QED BY <2>1, <2>2
<1>2. Seq(Octet) \subseteq T
  <2> HIDE DEF T
  <2> QED BY <1>1, LengthInduction
<1> QED BY <1>2

\* Each packet takes a header at least.
LEMMA PacketsBounded ==
  ASSUME NEW buf \in Seq(Octet), AllWhole(buf)
  PROVE  HeaderLen * Len(Packets[buf]) <= Len(buf)
<1> DEFINE T == {b \in Seq(Octet) :
                   AllWhole(b) => HeaderLen * Len(Packets[b]) <= Len(b)}
<1>1. ASSUME NEW b \in Seq(Octet),
             \A a \in Seq(Octet) : Len(a) < Len(b) => a \in T
      PROVE  b \in T
  <2> SUFFICES ASSUME AllWhole(b)
               PROVE  HeaderLen * Len(Packets[b]) <= Len(b)
    OBVIOUS
  <2>1. CASE b = << >>
    BY <2>1, NoPackets DEF HeaderLen
  <2>2. CASE b # << >>
    <3> DEFINE a == AfterHead(b)
    <3>1. /\ a \in Seq(Octet) /\ Len(a) < Len(b)
          /\ HeadLen(b) \in 0 .. Base * Base - 1
      BY <2>2, HeadOfBuffer
    <3>2. AllWhole(a) /\ HeaderLen + HeadLen(b) <= Len(b)
      BY <2>2, WholeAfterHead
    <3>3. Len(a) = Len(b) - HeaderLen - HeadLen(b)
      <4> DEFINE n == HeaderLen + HeadLen(b)
      <4>1. n \in Nat /\ Len(b) \in Nat /\ n <= Len(b)
        BY <3>1, <3>2, LenProperties, BaseAssumption DEF HeaderLen
      <4>2. a = SubSeq(b, n + 1, Len(b))
        BY DEF AfterHead, DropBytes
      <4> HIDE DEF n
      <4>3. \A i \in n + 1 .. Len(b) : b[i] \in Octet
        BY <4>1, ElementOfSeq
      <4>4. Len(a) = Len(b) - n
        BY <4>1, <4>2, <4>3, SubSeqProperties
      <4> QED BY <3>1, <4>1, <4>4, BaseAssumption DEF n, HeaderLen
    <3>4. Len(Packets[b]) = Len(Packets[a]) + 1 /\ Len(Packets[a]) \in Nat
      BY <2>2, <3>1, PacketsCons, PacketsTyped
    <3>5. Len(a) \in Nat /\ Len(b) \in Nat /\ HeadLen(b) \in Nat
      BY <3>1, LenProperties, BaseAssumption
    <3> HIDE DEF a
    <3>6. HeaderLen * Len(Packets[a]) <= Len(a)
      BY <1>1, <3>1, <3>2
    <3> QED BY <3>3, <3>4, <3>5, <3>6 DEF HeaderLen
  <2> QED BY <2>1, <2>2
<1>2. Seq(Octet) \subseteq T
  <2> HIDE DEF T
  <2> QED BY <1>1, LengthInduction
<1> QED BY <1>2

LEMMA WordOfBytes ==
  ASSUME NEW n \in 0 .. Base * Base - 1
  PROVE  Word(HiByte(n), LoByte(n)) = n
<1> DEFINE q == n \div Base
           r == n % Base
<1>1. /\ n \in Nat /\ q \in Nat /\ r \in 0 .. Base - 1
      /\ n = Base * q + r
  BY BaseAssumption
<1>2. q < Base
  <2> HIDE DEF q, r
  <2> SUFFICES ASSUME q >= Base PROVE FALSE
    BY <1>1, BaseAssumption
  <2>1. Base * q >= Base * Base
    BY <1>1, BaseAssumption
  <2>2. Base * q \in Int /\ Base * Base \in Int
    BY <1>1, BaseAssumption
  <2> QED BY <1>1, <2>1, <2>2, BaseAssumption
<1>3. q % Base = q
  <2> HIDE DEF q
  <2> QED BY <1>1, <1>2, BaseAssumption
<1>4. q * Base + r = Base * q + r
  <2> HIDE DEF q, r
  <2> QED BY <1>1, BaseAssumption
<1> QED BY <1>1, <1>3, <1>4 DEF Word, HiByte, LoByte

LEMMA OnePacket ==
  ASSUME NEW port \in 0 .. Base * Base - 1,
         NEW s \in Seq(Octet), Len(s) < Base * Base
  PROVE  /\ Header(port, Len(s)) \o s \in Seq(Octet)
         /\ Packets[Header(port, Len(s)) \o s]
              = <<[port |-> port, payload |-> s, whole |-> TRUE]>>
<1> DEFINE len == Len(s)
           h == Header(port, len)
           b == h \o s
<1>1. port \in Nat /\ len \in Nat /\ len \in 0 .. Base * Base - 1
  <2>1. Base * Base \in Nat /\ len \in Nat
    BY BaseAssumption, LenProperties
  <2> QED BY <2>1
<1>2. h \in Seq(Octet) /\ Len(h) = 4
  BY <1>1, HeaderIsBytes DEF HeaderLen
<1>3. /\ h[1] = HiByte(port) /\ h[2] = LoByte(port)
      /\ h[3] = HiByte(len) /\ h[4] = LoByte(len)
  BY DEF Header
<1> HIDE DEF h
<1>4. /\ b \in Seq(Octet)
      /\ Len(b) = 4 + len
      /\ \A i \in 1 .. 4 + len : b[i] = IF i <= 4 THEN h[i] ELSE s[i - 4]
  <2>1. /\ h \o s \in Seq(Octet)
        /\ Len(h \o s) = Len(h) + Len(s)
        /\ \A i \in 1 .. Len(h) + Len(s) :
             (h \o s)[i] = IF i <= Len(h) THEN h[i] ELSE s[i - Len(h)]
    BY <1>2, ConcatProperties
  <2> QED BY <1>2, <2>1
<1> HIDE DEF b, len
<1>5. HeadPort(b) = port /\ HeadLen(b) = len
  <2>1. /\ PeekByte(b, 1) = h[1] /\ PeekByte(b, 2) = h[2]
        /\ PeekByte(b, 3) = h[3] /\ PeekByte(b, 4) = h[4]
    BY <1>1, <1>4 DEF PeekByte
  <2> QED BY <1>1, <1>3, <2>1, WordOfBytes DEF HeadPort, HeadLen
<1>6. HeadPayload(b) = s
  <2>1. HeadPayload(b) = [k \in 1 .. len |-> PeekByte(b, 4 + k)]
    BY <1>5 DEF HeadPayload, PeekBytes, HeaderLen
  <2>2. \A k \in 1 .. len : PeekByte(b, 4 + k) = s[k]
    BY <1>1, <1>4 DEF PeekByte
  <2>3. s = [k \in 1 .. len |-> s[k]]
    BY LenProperties DEF len
  <2> QED BY <2>1, <2>2, <2>3
<1>7. AfterHead(b) = << >>
  <2>1. 4 + len + 1 \in Int /\ Len(b) \in Int /\ Len(b) < 4 + len + 1
    BY <1>1, <1>4
  <2>2. AfterHead(b) = SubSeq(b, 4 + len + 1, Len(b))
    BY <1>5 DEF AfterHead, DropBytes, HeaderLen
  <2> QED BY <2>1, <2>2, SubSeqEmpty
<1>8. b # << >>
  BY <1>1, <1>4, EmptySeq
<1> DEFINE p == [port |-> port, payload |-> s, whole |-> TRUE]
<1>9. FirstPacket(b) = p
  <2>1. (HeaderLen + HeadLen(b) <= Len(b)) = TRUE
    BY <1>1, <1>4, <1>5 DEF HeaderLen
  <2> QED BY <1>5, <1>6, <2>1 DEF FirstPacket
<1>10. Packets[b] = <<p>> \o << >>
  BY <1>4, <1>7, <1>8, <1>9, PacketsCons, NoPackets
<1>11. <<p>> \o << >> = <<p>>
  <2>1. p \in PacketSet
    BY <1>4, <1>9, FirstPacketTyped
  <2> HIDE DEF p
  <2> QED BY <2>1, ConcatEmptySeq
<1> QED BY <1>4, <1>10, <1>11 DEF b, h, len

\* A packet that fits is behind those that are there; a cut one is not.
LEMMA WritePacketAdds ==
  ASSUME NEW buf \in Seq(Octet), AllWhole(buf),
         NEW s \in Seq(Octet), Len(s) < Base * Base, Fits(buf, s),
         NEW port \in 0 .. Base * Base - 1
  PROVE  Packets[WritePacket(buf, s, port)]
           = Append(Packets[buf],
                    [port |-> port, payload |-> s, whole |-> TRUE])
<1> DEFINE h == Header(port, Len(s))
           p == [port |-> port, payload |-> s, whole |-> TRUE]
<1>1. Len(s) \in Nat /\ Base * Base \in Nat /\ port \in Nat /\ Len(buf) \in Nat
  BY LenProperties, BaseAssumption
<1>2. Len(s) % (Base * Base) = Len(s)
  <2> DEFINE m == Base * Base
  <2>1. m \in Nat /\ Len(s) < m
    BY <1>1
  <2> HIDE DEF m
  <2>2. Len(s) % m = Len(s)
    BY <1>1, <2>1
  <2> QED BY <2>2 DEF m
<1>3. SubSeq(s, 1, Len(s)) = s
  BY SubSeqFull
<1>4. WritePacket(buf, s, port) = WriteBytes(buf, h \o s)
  BY <1>2, <1>3 DEF WritePacket
<1>5. h \o s \in Seq(Octet) /\ Packets[h \o s] = <<p>>
  BY OnePacket
<1>6. Len(h \o s) = HeaderLen + Len(s)
  <2>1. h \in Seq(Octet) /\ Len(h) = HeaderLen
    BY <1>1, HeaderIsBytes
  <2> HIDE DEF h
  <2> QED BY <2>1, ConcatProperties
<1> HIDE DEF h
<1>7. WriteBytes(buf, h \o s) = buf \o (h \o s)
  <2>1. WriteBytes(buf, h \o s) = buf \o SubSeq(h \o s, 1, Len(h \o s))
    BY <1>6 DEF WriteBytes, Fits
  <2> QED BY <1>5, <2>1, SubSeqFull
<1>8. Packets[buf \o (h \o s)] = Packets[buf] \o <<p>>
  BY <1>5, PacketsConcat
<1>9. p \in PacketSet
  BY DEF PacketSet
<1> HIDE DEF p
<1>10. Packets[buf] \o <<p>> = Append(Packets[buf], p)
  BY <1>9, PacketsTyped, AppendIsConcat
<1> QED BY <1>4, <1>7, <1>8, <1>10 DEF p

-----------------------------------------------------------------------------
(***************************************************************************)
(* The payloads and HoldsOnly, packet by packet.                           *)
(***************************************************************************)
LEMMA PayloadsTyped ==
  ASSUME NEW buf \in Seq(Octet)
  PROVE  /\ Payloads(buf) \in Seq(Seq(Octet))
         /\ Len(Payloads(buf)) = Len(Packets[buf])
         /\ \A n \in 1 .. Len(Packets[buf]) :
              Payloads(buf)[n] = Packets[buf][n].payload
<1> DEFINE p == Packets[buf]
<1>1. p \in Seq(PacketSet) /\ Len(p) \in Nat
  BY PacketsTyped
<1>2. Payloads(buf) = [n \in 1 .. Len(p) |-> p[n].payload]
  BY DEF Payloads
<1> HIDE DEF p
<1>3. \A n \in 1 .. Len(p) : p[n].payload \in Seq(Octet)
  <2> SUFFICES ASSUME NEW n \in 1 .. Len(p) PROVE p[n].payload \in Seq(Octet)
    OBVIOUS
  <2>1. p[n] \in PacketSet
    BY <1>1, ElementOfSeq
  <2> QED BY <2>1 DEF PacketSet
<1>4. /\ Payloads(buf) \in Seq(Seq(Octet))
      /\ Len(Payloads(buf)) = Len(p)
      /\ \A n \in 1 .. Len(p) : Payloads(buf)[n] = p[n].payload
  BY <1>1, <1>2, <1>3
<1> QED BY <1>4 DEF p

LEMMA NoPayloads == Payloads(<< >>) = << >>
<1>1. << >> \in Seq(Octet) /\ Len(Packets[<< >>]) = 0
  BY NoPackets, EmptySeq
<1> QED BY <1>1, PayloadsTyped, EmptySeq

LEMMA PayloadsCons ==
  ASSUME NEW buf \in Seq(Octet), buf # << >>
  PROVE  Payloads(buf) = <<HeadPayload(buf)>> \o Payloads(AfterHead(buf))
<1> DEFINE V == Seq(Octet)
           h == HeadPayload(buf)
           q == Payloads(AfterHead(buf))
           c == <<h>> \o q
<1>1. /\ q \in Seq(V) /\ Len(q) \in Nat /\ h \in V
      /\ Len(q) = Len(Packets[AfterHead(buf)])
      /\ \A n \in 1 .. Len(q) : q[n] = Packets[AfterHead(buf)][n].payload
  BY HeadOfBuffer, PayloadsTyped, LenProperties
<1>2. /\ Payloads(buf) \in Seq(V)
      /\ Len(Payloads(buf)) = Len(Packets[buf])
      /\ \A n \in 1 .. Len(Packets[buf]) :
           Payloads(buf)[n] = Packets[buf][n].payload
  BY PayloadsTyped
<1>3. /\ Len(Packets[buf]) = Len(q) + 1
      /\ Packets[buf][1].payload = h
      /\ \A n \in 1 .. Len(q) : Packets[buf][n + 1].payload = q[n]
  <2>1. FirstPacket(buf).payload = h
    BY DEF FirstPacket
  <2> HIDE DEF h
  <2> QED BY <1>1, <2>1, PacketsCons
<1> HIDE DEF h, q, V
<1>4. /\ c \in Seq(V) /\ Len(c) = Len(q) + 1 /\ c[1] = h
      /\ \A n \in 1 .. Len(q) : c[n + 1] = q[n]
  BY <1>1, ConsProperties
<1> HIDE DEF c
<1>5. ASSUME NEW i \in 1 .. Len(c)
      PROVE  Payloads(buf)[i] = c[i]
  <2>1. CASE i = 1
    BY <1>1, <1>2, <1>3, <1>4, <2>1
  <2>2. CASE i # 1
    <3>1. i - 1 \in 1 .. Len(q) /\ i = (i - 1) + 1
      BY <1>1, <1>4, <2>2
    <3> QED BY <1>2, <1>3, <1>4, <3>1
  <2> QED BY <2>1, <2>2
<1>6. Payloads(buf) = c
  BY <1>2, <1>3, <1>4, <1>5, SeqEqual
<1> QED BY <1>6 DEF c, h, q

LEMMA WritePacketAddsPayload ==
  ASSUME NEW buf \in Seq(Octet), AllWhole(buf), Len(buf) <= Cap,
         NEW s \in Seq(Octet), Len(s) < Base * Base, Fits(buf, s),
         NEW port \in 0 .. Base * Base - 1
  PROVE  Payloads(WritePacket(buf, s, port)) = Append(Payloads(buf), s)
<1> DEFINE new == WritePacket(buf, s, port)
           p == [port |-> port, payload |-> s, whole |-> TRUE]
           a == Append(Payloads(buf), s)
<1>1. new \in Seq(Octet)
  <2>1. port \in Nat
    BY BaseAssumption
  <2> QED BY <2>1, WritePacketFits
<1>2. Packets[new] = Append(Packets[buf], p)
  BY WritePacketAdds
<1>3. Packets[buf] \in Seq(PacketSet) /\ Len(Packets[buf]) \in Nat
  BY PacketsTyped
<1>4. p \in PacketSet /\ p.payload = s
  BY DEF PacketSet
<1> HIDE DEF p, new
<1>5. /\ Len(Packets[new]) = Len(Packets[buf]) + 1
      /\ \A i \in 1 .. Len(Packets[buf]) : Packets[new][i] = Packets[buf][i]
      /\ Packets[new][Len(Packets[buf]) + 1] = p
  BY <1>2, <1>3, <1>4, AppendProperties
<1>6. /\ Payloads(buf) \in Seq(Seq(Octet))
      /\ Len(Payloads(buf)) = Len(Packets[buf])
      /\ \A n \in 1 .. Len(Packets[buf]) :
           Payloads(buf)[n] = Packets[buf][n].payload
  BY PayloadsTyped
<1>7. /\ Payloads(new) \in Seq(Seq(Octet))
      /\ Len(Payloads(new)) = Len(Packets[new])
      /\ \A n \in 1 .. Len(Packets[new]) :
           Payloads(new)[n] = Packets[new][n].payload
  BY <1>1, PayloadsTyped
<1>8. /\ a \in Seq(Seq(Octet))
      /\ Len(a) = Len(Payloads(buf)) + 1
      /\ \A i \in 1 .. Len(Payloads(buf)) : a[i] = Payloads(buf)[i]
      /\ a[Len(Payloads(buf)) + 1] = s
  BY <1>6, AppendProperties
<1> HIDE DEF a
<1>9. ASSUME NEW i \in 1 .. Len(Packets[buf]) + 1
      PROVE  Payloads(new)[i] = a[i]
  <2>1. CASE i = Len(Packets[buf]) + 1
    BY <1>3, <1>4, <1>5, <1>6, <1>7, <1>8, <2>1
  <2>2. CASE i # Len(Packets[buf]) + 1
    <3>1. i \in 1 .. Len(Packets[buf]) /\ i \in 1 .. Len(Packets[new])
      BY <1>3, <1>5, <2>2
    <3> QED BY <1>5, <1>6, <1>7, <1>8, <3>1
  <2> QED BY <2>1, <2>2
<1>10. Payloads(new) = a
  BY <1>5, <1>6, <1>7, <1>8, <1>9, SeqEqual
<1> QED BY <1>10 DEF a, new

LEMMA HoldsNothing ==
  ASSUME NEW port, NEW payloads
  PROVE  HoldsOnly(<< >>, port, payloads)
<1>1. Len(Packets[<< >>]) = 0
  BY NoPackets, EmptySeq
<1> QED BY <1>1 DEF HoldsOnly

LEMMA HoldsOnlyWhole ==
  ASSUME NEW buf, NEW port, NEW payloads, HoldsOnly(buf, port, payloads)
  PROVE  AllWhole(buf)
BY DEF HoldsOnly, AllWhole

LEMMA HoldsOnlyHead ==
  ASSUME NEW buf \in Seq(Octet), buf # << >>, NEW port, NEW payloads,
         HoldsOnly(buf, port, payloads)
  PROVE  /\ HeadPort(buf) = port
         /\ HeadPayload(buf) \in payloads
         /\ HoldsOnly(AfterHead(buf), port, payloads)
<1> DEFINE p == Packets[buf]
           q == Packets[AfterHead(buf)]
<1>1. /\ Len(q) \in Nat /\ Len(p) = Len(q) + 1
      /\ p[1] = FirstPacket(buf)
      /\ \A n \in 1 .. Len(q) : p[n + 1] = q[n]
  BY PacketsCons, PacketsTyped, HeadOfBuffer
<1>2. \A n \in 1 .. Len(p) : /\ p[n].whole
                             /\ p[n].port = port
                             /\ p[n].payload \in payloads
  BY DEF HoldsOnly
<1> HIDE DEF p, q
<1>3. FirstPacket(buf).port = port /\ FirstPacket(buf).payload \in payloads
  <2>1. 1 \in 1 .. Len(p)
    BY <1>1
  <2> QED BY <1>1, <1>2, <2>1
<1>4. \A n \in 1 .. Len(q) : /\ q[n].whole
                             /\ q[n].port = port
                             /\ q[n].payload \in payloads
  <2> SUFFICES ASSUME NEW n \in 1 .. Len(q)
               PROVE  /\ q[n].whole
                      /\ q[n].port = port
                      /\ q[n].payload \in payloads
    OBVIOUS
  <2>1. n + 1 \in 1 .. Len(p) /\ p[n + 1] = q[n]
    BY <1>1
  <2> QED BY <1>2, <2>1
<1>5. HoldsOnly(AfterHead(buf), port, payloads)
  BY <1>4 DEF HoldsOnly, q
<1> QED BY <1>3, <1>5 DEF FirstPacket

LEMMA HoldsOnlyWrite ==
  ASSUME NEW buf \in Seq(Octet), NEW payloads,
         NEW s \in Seq(Octet), s \in payloads, Len(s) < Base * Base,
         Fits(buf, s), NEW port \in 0 .. Base * Base - 1,
         HoldsOnly(buf, port, payloads)
  PROVE  HoldsOnly(WritePacket(buf, s, port), port, payloads)
<1> DEFINE p == Packets[buf]
           q == Packets[WritePacket(buf, s, port)]
           e == [port |-> port, payload |-> s, whole |-> TRUE]
<1>1. q = Append(p, e)
  BY HoldsOnlyWhole, WritePacketAdds
<1>2. p \in Seq(PacketSet) /\ Len(p) \in Nat
  BY PacketsTyped
<1>3. e \in PacketSet /\ e.whole /\ e.port = port /\ e.payload \in payloads
  BY DEF PacketSet
<1>4. \A n \in 1 .. Len(p) : /\ p[n].whole
                             /\ p[n].port = port
                             /\ p[n].payload \in payloads
  BY DEF HoldsOnly
<1> HIDE DEF p, q, e
<1>5. /\ Len(q) = Len(p) + 1
      /\ \A i \in 1 .. Len(p) : q[i] = p[i]
      /\ q[Len(p) + 1] = e
  BY <1>1, <1>2, <1>3, AppendProperties
<1>6. \A n \in 1 .. Len(q) : /\ q[n].whole
                             /\ q[n].port = port
                             /\ q[n].payload \in payloads
  <2> SUFFICES ASSUME NEW n \in 1 .. Len(q)
               PROVE  /\ q[n].whole
                      /\ q[n].port = port
                      /\ q[n].payload \in payloads
    OBVIOUS
  <2>1. CASE n = Len(p) + 1
    BY <1>3, <1>5, <2>1
  <2>2. CASE n # Len(p) + 1
    <3>1. n \in 1 .. Len(p)
      BY <1>2, <1>5, <2>2
    <3> QED BY <1>4, <1>5, <3>1
  <2> QED BY <2>1, <2>2
<1> QED BY <1>6 DEF HoldsOnly, q
=============================================================================
