---------------------------- MODULE DebugConsole ----------------------------
(***************************************************************************)
(* The debug console (udp.c).  udpServerThread waits for a datagram        *)
(* "debug" and then sends the debug output to its sender; the sampler      *)
(* writes a line in each of its cycles with DebugPrint (sample.c).  The    *)
(* two share g_debugWhere and g_debugAddr without a lock.                  *)
(*                                                                         *)
(* An address is two words, as a struct sockaddr_in is copied: family and  *)
(* port, and host; a zero word is one that was never set.                  *)
(***************************************************************************)
EXTENDS Naturals, Sequences

CONSTANTS Client,     \* the addresses that send datagrams
          Datagram,   \* what they send: sequences of characters, 0 is NUL
          DebugText,  \* "debug"
          BufLen      \* the size of udpRecBuf: 1024

Word == {"port", "host"}
Unset == [w \in Word |-> 0]

ASSUME ClientAssumption == \A c \in Client : DOMAIN c = Word /\ c # Unset
ASSUME TextAssumption == /\ Datagram \subseteq Seq(Nat)
                         /\ DebugText \in Seq(Nat \ {0})
                         /\ BufLen \in Nat /\ Len(DebugText) < BufLen

VARIABLES server,       \* where udpServerThread is
          unset,        \* the words of g_debugAddr it has still to copy
          udpRecBuf,
          g_remoteAddr,
          g_debugWhere,
          g_debugAddr,
          print,        \* where DebugPrint is
          unread,       \* the words of g_debugAddr sendto has still to read
          line,         \* where the line goes, as far as sendto has read it
          out,          \* where the last line went
          datagram,     \* history: the last datagram
          asked,        \* history: the senders taken for the last two askers
          odd,          \* history: the kinds of odd datagrams so far
          askers        \* history: whose address g_debugAddr was, in whole or in
                        \* part, since sendto started

serverVars == <<server, unset, udpRecBuf, g_remoteAddr, g_debugWhere,
                g_debugAddr, datagram, asked, odd>>
printVars == <<print, unread, line, out>>
vars == <<serverVars, printVars, askers>>

Init == /\ server = "bind" /\ unset = {}
        /\ udpRecBuf = [p \in 1 .. BufLen |-> 0]
        /\ g_remoteAddr = Unset
        /\ g_debugWhere = "serial"
        /\ g_debugAddr = Unset
        /\ print = "idle" /\ unread = {} /\ line = Unset
        /\ out = <<"nowhere", Unset>> /\ askers = {}
        /\ datagram = << >> /\ asked = <<Unset, Unset>> /\ odd = {}

Nuls(s) == {p \in DOMAIN s : s[p] = 0}
FirstNul(s) == CHOOSE p \in Nuls(s) : \A q \in Nuls(s) : p <= q

\* The text a C string function sees: up to the first NUL.
Text(s) == IF Nuls(s) = {} THEN s ELSE SubSeq(s, 1, FirstNul(s) - 1)

-----------------------------------------------------------------------------
\* bind; the thread ends when it fails.
Bind == /\ server = "bind"
        /\ server' \in {"recvfrom", "ended"}
        /\ UNCHANGED <<unset, udpRecBuf, g_remoteAddr, g_debugWhere,
                       g_debugAddr, datagram, asked, odd>>

\* A slip: the size of the buffer is not passed on.
RecvfromUnbounded(d, c) ==
  /\ server = "recvfrom"
  /\ udpRecBuf' = [p \in 1 .. Len(d) |-> d[p]] \o SubSeq(udpRecBuf, Len(d) + 1, BufLen)
  /\ g_remoteAddr' = c
  /\ server' = "strcmp"
  /\ datagram' = d
  /\ UNCHANGED <<unset, g_debugWhere, g_debugAddr, asked, odd>>

\* Datagrams that leave something behind "debug", or leave part of it.
Odd(kind, d) ==
  \/ kind = "long" /\ \E p \in DOMAIN d : p > Len(DebugText) /\ d[p] # 0
  \/ kind = "short" /\ Len(d) < Len(DebugText) /\ Nuls(d) = {}

\* recvfrom writes as many characters as the datagram has, if there is room,
\* and leaves the others as they were.
Recvfrom(d, c) ==
  /\ server = "recvfrom"
  /\ udpRecBuf' = [p \in 1 .. BufLen |-> IF p <= Len(d) THEN d[p] ELSE udpRecBuf[p]]
  /\ g_remoteAddr' = c
  /\ server' = "strcmp"
  /\ datagram' = d
  /\ odd' = odd \cup {kind \in {"long", "short"} : Odd(kind, d)}
  /\ UNCHANGED <<unset, g_debugWhere, g_debugAddr, asked>>

\* A slip: only as many characters as "debug" has are compared.
IsDebugPrefix == SubSeq(udpRecBuf, 1, Len(DebugText)) = DebugText

IsDebug == Text(udpRecBuf) = DebugText

Ignore == /\ server = "strcmp" /\ ~IsDebug
          /\ server' = "recvfrom"
          /\ UNCHANGED <<unset, udpRecBuf, g_remoteAddr, g_debugWhere,
                         g_debugAddr, datagram, asked, odd>>

\* A slip: the address is taken over only with the first request.
SwitchOnce ==
  /\ server = "strcmp" /\ IsDebug
  /\ g_debugWhere' = "udp"
  /\ server' = "copy"
  /\ unset' = IF g_debugWhere = "udp" THEN {} ELSE Word
  /\ asked' = <<g_remoteAddr, asked[1]>>
  /\ UNCHANGED <<udpRecBuf, g_remoteAddr, g_debugAddr, datagram, odd>>

\* A slip: the output is never switched.
SwitchNowhere ==
  /\ server = "strcmp" /\ IsDebug
  /\ server' = "copy"
  /\ unset' = Word
  /\ asked' = <<g_remoteAddr, asked[1]>>
  /\ UNCHANGED <<udpRecBuf, g_remoteAddr, g_debugWhere, g_debugAddr, datagram, odd>>

\* g_debugWhere is set first.
Switch ==
  /\ server = "strcmp" /\ IsDebug
  /\ g_debugWhere' = "udp"
  /\ server' = "copy"
  /\ unset' = Word
  /\ asked' = <<g_remoteAddr, asked[1]>>
  /\ UNCHANGED <<udpRecBuf, g_remoteAddr, g_debugAddr, datagram, odd>>

\* g_debugAddr = g_remoteAddr, word by word in either order.
CopyWord(w) ==
  /\ server = "copy" /\ w \in unset
  /\ g_debugAddr' = [g_debugAddr EXCEPT ![w] = g_remoteAddr[w]]
  /\ unset' = unset \ {w}
  /\ UNCHANGED <<server, udpRecBuf, g_remoteAddr, g_debugWhere, datagram, asked, odd>>

Copied == /\ server = "copy" /\ unset = {}
          /\ server' = "recvfrom"
          /\ UNCHANGED <<unset, udpRecBuf, g_remoteAddr, g_debugWhere,
                         g_debugAddr, datagram, asked, odd>>

Server == Bind \/ Ignore \/ Switch \/ (\E w \in Word : CopyWord(w)) \/ Copied

-----------------------------------------------------------------------------
\* DebugPrint reads g_debugWhere three times, and the address last.  Nothing sets
\* g_debugWhere to noDebug.
PrintStart == /\ print = "idle" /\ g_debugWhere # "noDebug"
              /\ print' = "serial"
              /\ UNCHANGED <<unread, line, out>>

PrintSerial == /\ print = "serial" /\ g_debugWhere = "serial"
               /\ print' = "idle"
               /\ out' = <<"serial", Unset>>
               /\ UNCHANGED <<unread, line>>

PrintNotSerial == /\ print = "serial" /\ g_debugWhere # "serial"
                  /\ print' = "udp"
                  /\ UNCHANGED <<unread, line, out>>

PrintUdp == /\ print = "udp" /\ g_debugWhere = "udp"
            /\ print' = "sendto"
            /\ unread' = Word
            /\ UNCHANGED <<line, out>>

\* sendto takes g_debugAddr over word by word, in either order.
ReadWord(w) == /\ print = "sendto" /\ w \in unread
               /\ line' = [line EXCEPT ![w] = g_debugAddr[w]]
               /\ unread' = unread \ {w}
               /\ UNCHANGED <<print, out>>

Sent == /\ print = "sendto" /\ unread = {}
        /\ print' = "idle"
        /\ line' = Unset
        /\ out' = <<"udp", line>>
        /\ UNCHANGED unread

DebugPrint == \/ PrintStart \/ PrintSerial \/ PrintNotSerial \/ PrintUdp
              \/ (\E w \in Word : ReadWord(w)) \/ Sent

-----------------------------------------------------------------------------
\* Whose words g_debugAddr is made of.
Current == {asked[1]} \cup {c \in {asked[2]} : unset # {}}

ServerStep == /\ Server /\ UNCHANGED printVars
              /\ askers' = IF print = "sendto" THEN askers \cup {asked'[1]} ELSE askers

PrintStep == /\ DebugPrint /\ UNCHANGED serverVars
             /\ askers' = IF print' # "sendto" THEN {}
                            ELSE IF print = "udp" THEN Current ELSE askers

Next == \/ ServerStep
        \/ \E d \in Datagram, c \in Client :
             Recvfrom(d, c) /\ UNCHANGED <<printVars, askers>>
        \/ PrintStep

\* The two threads run when they can; datagrams need not come.
Spec == /\ Init /\ [][Next]_vars
        /\ WF_vars(ServerStep)
        /\ WF_vars(PrintStep)

-----------------------------------------------------------------------------
\* The types of the state; words are copied only after a switch.
TypeOK ==
  /\ server \in {"bind", "recvfrom", "strcmp", "copy", "ended"}
  /\ unset \subseteq Word /\ (unset # {} => server = "copy")
  /\ udpRecBuf \in [1 .. BufLen -> Nat]
  /\ g_remoteAddr \in Client \cup {Unset}
  /\ g_debugWhere \in {"serial", "udp"}
  /\ DOMAIN g_debugAddr = Word
  /\ print \in {"idle", "serial", "udp", "sendto"}
  /\ unread \subseteq Word /\ (unread # {} => print = "sendto")
  /\ DOMAIN line = Word
  /\ out[1] \in {"nowhere", "serial", "udp"}
  /\ datagram \in Datagram \cup {<< >>}
  /\ asked \in [1 .. 2 -> Client \cup {Unset}]
  /\ odd \subseteq {"long", "short"}
  /\ askers \subseteq Client \cup {Unset}

\* udpServerThread and DebugPrint, which share g_debugAddr without a lock: a line
\* goes to an address each word of which is that of a sender who had asked when
\* sendto started, or while it read.  It can be put together from several of them,
\* or from one and none; without a request in the meantime and after the copy it
\* is the last asker's, and before the first one lines go to the serial line.
AddressIsAskers ==
  /\ g_debugWhere = "serial" => /\ asked[1] = Unset /\ g_debugAddr = Unset
                                /\ print # "sendto"
  /\ \A w \in Word : g_debugAddr[w] = asked[IF w \in unset THEN 2 ELSE 1][w]
  /\ print = "sendto" =>
       \A w \in Word \ unread : \E c \in askers : line[w] = c[w]

\* udpServerThread: what was in the buffer before decides with what came.  A
\* datagram "debug" is taken for one if it brings its NUL, or if none so far had
\* a character behind its length; another is not, if none so far was shorter and
\* without a NUL.
DebugIsHeard ==
  server = "strcmp" =>
    /\ Text(datagram) = DebugText /\ (Nuls(datagram) # {} \/ "long" \notin odd)
         => IsDebug
    /\ IsDebug /\ "short" \notin odd => Text(datagram) = DebugText

\* After a request the lines of the sampler do reach its sender, if no other
\* request is taken for one before.
AskerGetsLines == \A c \in Client : asked[1] = c ~> (out = <<"udp", c>> \/ asked[1] # c)
=============================================================================
