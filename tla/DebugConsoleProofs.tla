------------------------- MODULE DebugConsoleProofs -------------------------
(***************************************************************************)
(* Proofs about the debug console, for any clients, any datagrams, any     *)
(* text and any size of the receive buffer.                                *)
(***************************************************************************)
EXTENDS DebugConsole, SequenceTheorems, WellFoundedInduction, TLAPS

LEMMA FirstNulIs ==
  ASSUME NEW s \in Seq(Nat), Nuls(s) # {}
  PROVE  /\ FirstNul(s) \in 1 .. Len(s) /\ s[FirstNul(s)] = 0
         /\ \A q \in 1 .. Len(s) : s[q] = 0 => FirstNul(s) <= q
<1>1. Nuls(s) \subseteq Nat
  BY DEF Nuls
<1>2. PICK p \in Nuls(s) : \A q \in Nuls(s) : ~ (<<q, p>> \in OpToRel(<, Nat))
  BY <1>1, WFMin, NatLessThanWellFounded
<1>3. \A q \in Nuls(s) : ~ (q < p)
  BY <1>1, <1>2 DEF OpToRel
<1>4. FirstNul(s) \in Nuls(s) /\ \A q \in Nuls(s) : FirstNul(s) <= q
  BY <1>1, <1>3 DEF FirstNul
<1> QED BY <1>4 DEF Nuls

\* What it takes for a buffer to read "debug".
LEMMA TextIs ==
  ASSUME NEW s \in Seq(Nat)
  PROVE  Text(s) = DebugText <=>
           /\ Len(s) >= Len(DebugText)
           /\ \A p \in 1 .. Len(DebugText) : s[p] = DebugText[p]
           /\ Len(s) = Len(DebugText) \/ s[Len(DebugText) + 1] = 0
<1> DEFINE n == Len(DebugText)
<1>1. /\ n \in Nat /\ DebugText \in Seq(Nat)
      /\ \A p \in 1 .. n : DebugText[p] # 0
  BY TextAssumption
<1>2. CASE Nuls(s) = {}
  <2>1. Text(s) = s /\ \A p \in 1 .. Len(s) : s[p] # 0
    BY <1>2 DEF Text, Nuls
  <2> QED BY <1>1, <2>1
<1>3. CASE Nuls(s) # {}
  <2> DEFINE m == FirstNul(s)
             t == SubSeq(s, 1, m - 1)
  <2>1. /\ m \in 1 .. Len(s) /\ s[m] = 0
        /\ \A q \in 1 .. Len(s) : s[q] = 0 => m <= q
    BY <1>3, FirstNulIs
  <2>2. Text(s) = t
    BY <1>3 DEF Text
  <2> HIDE DEF m
  <2>3. /\ t \in Seq(Nat) /\ Len(t) = m - 1
        /\ \A p \in 1 .. m - 1 : t[p] = s[p]
    BY <2>1
  <2> HIDE DEF t
  <2>4. ASSUME t = DebugText
        PROVE  /\ Len(s) >= n /\ s[n + 1] = 0
               /\ \A p \in 1 .. n : s[p] = DebugText[p]
    <3>1. m = n + 1
      BY <2>1, <2>3, <2>4
    <3>2. Len(s) >= n /\ s[n + 1] = 0
      BY <1>1, <2>1, <3>1
    <3>3. \A p \in 1 .. n : t[p] = s[p]
      BY <1>1, <2>3, <3>1
    <3> QED BY <2>4, <3>2, <3>3
  <2>5. ASSUME Len(s) >= n, Len(s) = n \/ s[n + 1] = 0,
               \A p \in 1 .. n : s[p] = DebugText[p]
        PROVE  t = DebugText
    <3>1. m > n
      <4> SUFFICES ASSUME m <= n PROVE FALSE
        BY <1>1, <2>1
      <4>1. s[m] = DebugText[m] /\ DebugText[m] # 0
        BY <1>1, <2>1, <2>5
      <4> QED BY <2>1, <4>1
    <3>2. m = n + 1
      BY <1>1, <2>1, <2>5, <3>1
    <3>3. Len(t) = Len(DebugText) /\ \A p \in 1 .. n : t[p] = DebugText[p]
      BY <1>1, <2>3, <2>5, <3>2
    <3> QED BY <1>1, <2>3, <3>3, SeqEqual
  <2> QED BY <2>2, <2>4, <2>5
<1> QED BY <1>2, <1>3

LEMMA Pairs ==
  ASSUME NEW S, NEW a \in S, NEW b \in S
  PROVE  <<a, b>> \in [1 .. 2 -> S]
OBVIOUS

-----------------------------------------------------------------------------
\* Where the parts of the addresses are from; the senders whose address it is at
\* the moment are among those a line may go to.
AddressInv ==
  /\ TypeOK
  /\ AddressIsAskers
  /\ server = "copy" => asked[1] = g_remoteAddr /\ g_debugWhere = "udp"
  /\ print = "sendto" => Current \subseteq askers

\* What the buffer owes to the last datagram and to those before.
HeardInv ==
  /\ "long" \notin odd =>
       \A p \in 1 .. BufLen : p > Len(DebugText) => udpRecBuf[p] = 0
  /\ server = "strcmp" =>
       /\ \A p \in 1 .. BufLen : p <= Len(datagram) => udpRecBuf[p] = datagram[p]
       /\ \A kind \in {"long", "short"} : Odd(kind, datagram) => kind \in odd

LEMMA ConsoleInit == Init => AddressInv /\ HeardInv
<1> SUFFICES ASSUME Init PROVE AddressInv /\ HeardInv
  OBVIOUS
<1>1. asked \in [1 .. 2 -> Client \cup {Unset}]
  BY Pairs DEF Init
<1>2. TypeOK
  BY <1>1, TextAssumption DEF Init, TypeOK, Unset
<1>3. asked[1] = Unset
  BY DEF Init
<1> QED BY <1>2, <1>3, TextAssumption DEF Init, AddressInv, AddressIsAskers, HeardInv

LEMMA RecvfromKeeps ==
  ASSUME AddressInv, HeardInv, NEW d \in Datagram, NEW c \in Client,
         Recvfrom(d, c), UNCHANGED <<printVars, askers>>
  PROVE  AddressInv' /\ HeardInv'
<1>0. d \in Seq(Nat) /\ BufLen \in Nat /\ Len(DebugText) \in Nat
  BY TextAssumption
<1>1. udpRecBuf' \in [1 .. BufLen -> Nat]
  BY <1>0 DEF AddressInv, TypeOK, Recvfrom
<1>2. TypeOK'
  BY <1>1 DEF AddressInv, TypeOK, Recvfrom, printVars
<1>3. AddressIsAskers'
  BY DEF AddressInv, AddressIsAskers, Recvfrom, printVars
<1>4. ASSUME "long" \notin odd', NEW p \in 1 .. BufLen, p > Len(DebugText)
      PROVE  udpRecBuf'[p] = 0
  <2>1. "long" \notin odd /\ ~Odd("long", d)
    BY <1>4 DEF Recvfrom
  <2>2. udpRecBuf[p] = 0
    BY <1>4, <2>1 DEF HeardInv
  <2>3. p \in DOMAIN d => d[p] = 0
    BY <1>4, <2>1 DEF Odd
  <2> QED BY <1>0, <2>2, <2>3 DEF Recvfrom
<1>5. /\ \A p \in 1 .. BufLen : p <= Len(datagram') => udpRecBuf'[p] = datagram'[p]
      /\ \A kind \in {"long", "short"} : Odd(kind, datagram') => kind \in odd'
  BY DEF Recvfrom
<1>6. HeardInv'
  BY <1>4, <1>5 DEF HeardInv
<1> QED BY <1>2, <1>3, <1>6 DEF AddressInv, Recvfrom, printVars, Current

\* What every step of the server does to the line being sent: nothing, and those
\* it may go to become more.
LEMMA LineStays ==
  ASSUME AddressInv, ServerStep, asked' \in [1 .. 2 -> Client \cup {Unset}]
  PROVE  /\ print' = print /\ unread' = unread /\ line' = line /\ out' = out
         /\ askers \subseteq askers' /\ askers' \subseteq Client \cup {Unset}
         /\ print = "sendto" => asked'[1] \in askers'
         /\ print = "sendto" =>
              \A w \in Word \ unread' : \E c \in askers' : line'[w] = c[w]
<1>1. print' = print /\ unread' = unread /\ line' = line /\ out' = out
  BY DEF ServerStep, printVars
<1>2. asked'[1] \in Client \cup {Unset} /\ askers \subseteq Client \cup {Unset}
  BY DEF AddressInv, TypeOK
<1>3. /\ askers \subseteq askers' /\ askers' \subseteq Client \cup {Unset}
      /\ print = "sendto" => asked'[1] \in askers'
  BY <1>2 DEF ServerStep
<1>4. print = "sendto" => \A w \in Word \ unread : \E c \in askers : line[w] = c[w]
  BY DEF AddressInv, AddressIsAskers
<1> QED BY <1>1, <1>3, <1>4

LEMMA SwitchKeeps ==
  ASSUME AddressInv, Switch, ServerStep
  PROVE  AddressInv'
<1>1. /\ asked' \in [1 .. 2 -> Client \cup {Unset}]
      /\ asked'[1] = g_remoteAddr /\ asked'[2] = asked[1]
  BY Pairs DEF AddressInv, TypeOK, Switch
<1>2. /\ print' = print /\ unread' = unread /\ line' = line /\ out' = out
      /\ askers \subseteq askers' /\ askers' \subseteq Client \cup {Unset}
      /\ print = "sendto" => asked'[1] \in askers'
      /\ print = "sendto" =>
           \A w \in Word \ unread' : \E c \in askers' : line'[w] = c[w]
  BY <1>1, LineStays
<1>3. TypeOK'
  BY <1>1, <1>2 DEF AddressInv, TypeOK, Switch
<1>4. \A w \in Word : g_debugAddr[w] = asked[1][w]
  BY DEF AddressInv, AddressIsAskers, TypeOK, Switch
<1>5. AddressIsAskers'
  BY <1>1, <1>2, <1>4 DEF AddressIsAskers, Switch
<1>6. print' = "sendto" => Current' \subseteq askers'
  <2>1. print = "sendto" => asked[1] \in askers
    BY DEF AddressInv, Current
  <2> QED BY <1>1, <1>2, <2>1 DEF Current
<1> QED BY <1>1, <1>3, <1>5, <1>6 DEF AddressInv, Switch

\* The other steps leave the askers alone.
LEMMA CurrentShrinks ==
  ASSUME AddressInv, ServerStep, UNCHANGED asked, unset' \subseteq unset
  PROVE  print' = "sendto" => Current' \subseteq askers'
<1>1. /\ print' = print
      /\ askers \subseteq askers'
  BY LineStays DEF AddressInv, TypeOK
<1>2. Current' \subseteq Current
  BY DEF Current
<1> QED BY <1>1, <1>2 DEF AddressInv

LEMMA CopyWordKeeps ==
  ASSUME AddressInv, NEW w \in Word, CopyWord(w), ServerStep
  PROVE  AddressInv'
<1>0. /\ print' = print /\ unread' = unread /\ line' = line /\ out' = out
      /\ askers' \subseteq Client \cup {Unset}
      /\ print = "sendto" =>
           \A v \in Word \ unread' : \E c \in askers' : line'[v] = c[v]
  BY LineStays DEF AddressInv, TypeOK, CopyWord
<1>1. TypeOK'
  BY <1>0 DEF AddressInv, TypeOK, CopyWord
<1>2. asked[1] = g_remoteAddr /\ g_debugWhere = "udp"
  BY DEF AddressInv, CopyWord
<1>3. \A v \in Word : g_debugAddr'[v] = asked'[IF v \in unset' THEN 2 ELSE 1][v]
  BY <1>2 DEF AddressInv, AddressIsAskers, TypeOK, CopyWord
<1>4. AddressIsAskers'
  BY <1>0, <1>2, <1>3 DEF AddressIsAskers, CopyWord
<1>5. print' = "sendto" => Current' \subseteq askers'
  BY CurrentShrinks DEF CopyWord
<1> QED BY <1>1, <1>2, <1>4, <1>5 DEF AddressInv, CopyWord

LEMMA IdleServerKeeps ==
  ASSUME AddressInv, ServerStep, Bind \/ Ignore \/ Copied
  PROVE  AddressInv'
<1>1. /\ server' \in {"recvfrom", "ended"}
      /\ unset' = unset /\ (unset # {} => FALSE)
      /\ UNCHANGED <<udpRecBuf, g_remoteAddr, g_debugWhere, g_debugAddr,
                     datagram, asked, odd>>
  BY DEF AddressInv, TypeOK, Bind, Ignore, Copied
<1>2. /\ print' = print /\ unread' = unread /\ line' = line /\ out' = out
      /\ askers' \subseteq Client \cup {Unset}
      /\ print = "sendto" =>
           \A w \in Word \ unread' : \E c \in askers' : line'[w] = c[w]
  BY <1>1, LineStays DEF AddressInv, TypeOK
<1>3. TypeOK'
  BY <1>1, <1>2 DEF AddressInv, TypeOK
<1>4. AddressIsAskers'
  BY <1>1, <1>2 DEF AddressInv, AddressIsAskers
<1>5. print' = "sendto" => Current' \subseteq askers'
  BY <1>1, CurrentShrinks
<1> QED BY <1>1, <1>3, <1>4, <1>5 DEF AddressInv

LEMMA ServerKeeps ==
  ASSUME AddressInv, HeardInv, ServerStep
  PROVE  AddressInv' /\ HeardInv'
<1>0. Server
  BY DEF ServerStep
<1>1. AddressInv'
  <2>1. CASE Bind \/ Ignore \/ Copied
    BY <2>1, IdleServerKeeps
  <2>2. CASE Switch
    BY <2>2, SwitchKeeps
  <2>3. ASSUME NEW w \in Word, CopyWord(w) PROVE AddressInv'
    BY <2>3, CopyWordKeeps
  <2> QED BY <1>0, <2>1, <2>2, <2>3 DEF Server
<1>2. UNCHANGED <<udpRecBuf, odd>> /\ server' # "strcmp"
  <2>1. CASE Bind
    BY <2>1 DEF Bind
  <2>2. CASE Ignore
    BY <2>2 DEF Ignore
  <2>3. CASE Switch
    BY <2>3 DEF Switch
  <2>4. ASSUME NEW w \in Word, CopyWord(w)
        PROVE  UNCHANGED <<udpRecBuf, odd>> /\ server' # "strcmp"
    BY <2>4 DEF CopyWord
  <2>5. CASE Copied
    BY <2>5 DEF Copied
  <2> QED BY <1>0, <2>1, <2>2, <2>3, <2>4, <2>5 DEF Server
<1>3. HeardInv'
  BY <1>2 DEF HeardInv
<1> QED BY <1>1, <1>3

LEMMA PrintKeeps ==
  ASSUME AddressInv, HeardInv, PrintStep
  PROVE  AddressInv' /\ HeardInv'
<1>1. /\ DebugPrint
      /\ server' = server /\ unset' = unset /\ udpRecBuf' = udpRecBuf
      /\ g_remoteAddr' = g_remoteAddr /\ g_debugWhere' = g_debugWhere
      /\ g_debugAddr' = g_debugAddr /\ datagram' = datagram
      /\ asked' = asked /\ odd' = odd
  BY DEF PrintStep, serverVars
<1>2. Current' = Current
  BY <1>1 DEF Current
<1>3. askers' = IF print' # "sendto" THEN {}
                  ELSE IF print = "udp" THEN Current ELSE askers
  BY DEF PrintStep
<1>4. Current \subseteq Client \cup {Unset}
  BY DEF AddressInv, TypeOK, Current
<1>5. HeardInv'
  BY <1>1 DEF HeardInv
<1> SUFFICES /\ TypeOK' /\ AddressIsAskers'
             /\ print' = "sendto" => Current' \subseteq askers'
  BY <1>1, <1>5 DEF AddressInv
<1>6. ASSUME print' # "sendto", print' \in {"idle", "serial", "udp"},
             unread' = {}, DOMAIN line' = Word,
             out'[1] \in {"nowhere", "serial", "udp"}
      PROVE  /\ TypeOK' /\ AddressIsAskers'
             /\ print' = "sendto" => Current' \subseteq askers'
  <2>1. askers' = {}
    BY <1>3, <1>6
  <2>2. TypeOK'
    BY <1>1, <1>6, <2>1 DEF AddressInv, TypeOK
  <2> QED BY <1>1, <1>6, <2>2 DEF AddressInv, AddressIsAskers
<1>7. CASE PrintStart \/ PrintSerial \/ PrintNotSerial
  BY <1>6, <1>7 DEF AddressInv, TypeOK, PrintStart, PrintSerial, PrintNotSerial
<1>8. CASE PrintUdp
  <2>1. /\ print = "udp" /\ print' = "sendto" /\ g_debugWhere = "udp"
        /\ unread' = Word /\ line' = line /\ out' = out /\ askers' = Current
    BY <1>3, <1>8 DEF PrintUdp
  <2>2. TypeOK'
    BY <1>1, <1>4, <2>1 DEF AddressInv, TypeOK
  <2> QED BY <1>1, <1>2, <2>1, <2>2 DEF AddressInv, AddressIsAskers
<1>9. ASSUME NEW w \in Word, ReadWord(w)
      PROVE  /\ TypeOK' /\ AddressIsAskers'
             /\ print' = "sendto" => Current' \subseteq askers'
  <2>1. /\ print = "sendto" /\ print' = "sendto" /\ out' = out
        /\ line' = [line EXCEPT ![w] = g_debugAddr[w]]
        /\ unread' = unread \ {w} /\ askers' = askers
    BY <1>3, <1>9 DEF ReadWord
  <2>2. TypeOK'
    BY <1>1, <2>1 DEF AddressInv, TypeOK
  <2>3. \E c \in askers : g_debugAddr[w] = c[w]
    <3>1. g_debugAddr[w] = asked[IF w \in unset THEN 2 ELSE 1][w]
      BY DEF AddressInv, AddressIsAskers
    <3>2. asked[IF w \in unset THEN 2 ELSE 1] \in Current
      BY DEF Current
    <3> QED BY <2>1, <3>1, <3>2 DEF AddressInv
  <2>4. ASSUME NEW v \in Word \ unread'
        PROVE  \E c \in askers' : line'[v] = c[v]
    <3>1. CASE v = w
      BY <2>1, <2>3, <3>1 DEF AddressInv, TypeOK
    <3>2. CASE v # w
      BY <2>1, <2>4, <3>2 DEF AddressInv, TypeOK, AddressIsAskers
    <3> QED BY <3>1, <3>2
  <2> QED BY <1>1, <1>2, <2>1, <2>2, <2>4 DEF AddressInv, AddressIsAskers
<1>10. CASE Sent
  <2>1. /\ print' = "idle" /\ unread' = {} /\ line' = Unset
        /\ out' = <<"udp", line>>
    BY <1>10 DEF Sent
  <2>2. out'[1] = "udp" /\ DOMAIN line' = Word
    BY <2>1 DEF Unset
  <2> QED BY <1>6, <2>1, <2>2
<1> QED BY <1>1, <1>7, <1>8, <1>9, <1>10 DEF DebugPrint

LEMMA ConsoleStep == AddressInv /\ HeardInv /\ [Next]_vars => AddressInv' /\ HeardInv'
<1> SUFFICES ASSUME AddressInv, HeardInv, [Next]_vars
             PROVE  AddressInv' /\ HeardInv'
  OBVIOUS
<1>1. CASE ServerStep
  BY <1>1, ServerKeeps
<1>2. ASSUME NEW d \in Datagram, NEW c \in Client,
             Recvfrom(d, c), UNCHANGED <<printVars, askers>>
      PROVE  AddressInv' /\ HeardInv'
  BY <1>2, RecvfromKeeps
<1>3. CASE PrintStep
  BY <1>3, PrintKeeps
<1>4. CASE UNCHANGED vars
  BY <1>4 DEF vars, serverVars, printVars, AddressInv, AddressIsAskers, HeardInv,
              TypeOK, Current
<1> QED BY <1>1, <1>2, <1>3, <1>4 DEF Next

LEMMA ConsoleInvariant == Spec => [](AddressInv /\ HeardInv)
BY ConsoleInit, ConsoleStep, PTL DEF Spec

-----------------------------------------------------------------------------
\* The state of udpServerThread and DebugPrint has its types, whatever is sent
\* and in whichever order their steps come.
THEOREM ConsoleTypeCorrect == Spec => []TypeOK
<1>1. AddressInv => TypeOK
  BY DEF AddressInv
<1> QED BY <1>1, ConsoleInvariant, PTL

\* Each word of g_debugAddr is the last asker's or, until it is copied, the one's
\* before; each word of the address a line goes to is that of a sender who had
\* asked when sendto started, or while it read (udpServerThread, DebugPrint).
THEOREM LinesGoToAskers == Spec => []AddressIsAskers
<1>1. AddressInv => AddressIsAskers
  BY DEF AddressInv
<1> QED BY <1>1, ConsoleInvariant, PTL

LEMMA HeardFollows == AddressInv /\ HeardInv => DebugIsHeard
<1> SUFFICES ASSUME AddressInv, HeardInv, server = "strcmp" PROVE DebugIsHeard
  BY DEF DebugIsHeard
<1> DEFINE n == Len(DebugText)
<1>1. /\ n \in Nat /\ BufLen \in Nat /\ n < BufLen
      /\ \A p \in 1 .. n : DebugText[p] # 0
  BY TextAssumption
<1>2. udpRecBuf \in Seq(Nat) /\ Len(udpRecBuf) = BufLen
  BY <1>1 DEF AddressInv, TypeOK
<1>3. datagram \in Seq(Nat) /\ Len(datagram) \in Nat
  <2>1. << >> \in Seq(Nat)
    OBVIOUS
  <2>2. datagram \in Seq(Nat)
    BY <2>1, TextAssumption DEF AddressInv, TypeOK
  <2> QED BY <2>2
<1>4. /\ \A p \in 1 .. BufLen : p <= Len(datagram) => udpRecBuf[p] = datagram[p]
      /\ Odd("short", datagram) => "short" \in odd
      /\ "long" \notin odd => udpRecBuf[n + 1] = 0
  BY <1>1 DEF HeardInv
<1>5. IsDebug <=> /\ \A p \in 1 .. n : udpRecBuf[p] = DebugText[p]
                  /\ udpRecBuf[n + 1] = 0
  BY <1>1, <1>2, TextIs DEF IsDebug
<1>6. Text(datagram) = DebugText <=>
        /\ Len(datagram) >= n
        /\ \A p \in 1 .. n : datagram[p] = DebugText[p]
        /\ Len(datagram) = n \/ datagram[n + 1] = 0
  BY <1>3, TextIs
<1>7. ASSUME Text(datagram) = DebugText, Nuls(datagram) # {} \/ "long" \notin odd
      PROVE  IsDebug
  <2>1. \A p \in 1 .. n : udpRecBuf[p] = DebugText[p]
    BY <1>1, <1>3, <1>4, <1>6, <1>7
  <2>2. CASE Len(datagram) = n
    <3>1. Nuls(datagram) = {}
      BY <1>1, <1>3, <1>6, <1>7, <2>2 DEF Nuls
    <3> QED BY <1>4, <1>5, <1>7, <2>1, <3>1
  <2>3. CASE Len(datagram) # n
    BY <1>1, <1>3, <1>4, <1>5, <1>6, <1>7, <2>1, <2>3
  <2> QED BY <2>2, <2>3
<1>8. ASSUME IsDebug, "short" \notin odd
      PROVE  Text(datagram) = DebugText
  <2>1. Len(datagram) >= n
    <3> SUFFICES ASSUME Len(datagram) < n PROVE FALSE
      BY <1>1, <1>3
    <3>1. PICK p \in 1 .. Len(datagram) : datagram[p] = 0
      BY <1>3, <1>4, <1>8 DEF Odd, Nuls
    <3> QED BY <1>1, <1>3, <1>4, <1>5, <1>8, <3>1
  <2>2. \A p \in 1 .. n : datagram[p] = DebugText[p]
    <3> SUFFICES ASSUME NEW p \in 1 .. n PROVE datagram[p] = DebugText[p]
      OBVIOUS
    <3>1. p \in 1 .. BufLen /\ p <= Len(datagram)
      BY <1>1, <1>3, <2>1
    <3> QED BY <1>4, <1>5, <1>8, <3>1
  <2>3. Len(datagram) = n \/ datagram[n + 1] = 0
    <3> SUFFICES ASSUME Len(datagram) # n PROVE datagram[n + 1] = 0
      OBVIOUS
    <3>1. n + 1 \in 1 .. BufLen /\ n + 1 <= Len(datagram)
      BY <1>1, <1>3, <2>1
    <3> QED BY <1>4, <1>5, <1>8, <3>1
  <2> HIDE DEF n
  <2> QED BY <1>6, <2>1, <2>2, <2>3
<1> QED BY <1>7, <1>8 DEF DebugIsHeard

\* A datagram "debug" is taken for one, and only such a one, as long as no
\* datagram left anything in the buffer that changes the outcome, for any size of
\* buffer and text (recvfrom and strcmp in udpServerThread).
THEOREM DebugIsUnderstood == Spec => []DebugIsHeard
BY ConsoleInvariant, HeardFollows, PTL
=============================================================================
