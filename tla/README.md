# Verification of the jxdh01 device program

The program runs on a data-transfer unit: it samples device data, reports it as
JSON through an MQTT broker, and receives control messages through the same
broker, among them the blocks of a file to download.  This directory holds TLA+
models of it, TLC runs on small instances, and TLAPS proofs for all sizes.
Paths below are relative to the repository; line numbers are those in
`PROJECT.json` ("map").

## Inventory

`monitor.c` reads the device table, initialises the buffers and starts six
threads that never stop by themselves.

| Component | State | Operations | Talks to |
|---|---|---|---|
| Byte buffers (`circlebuff.c`) | `readPos`, `writePos`, `data` of `comBuff0` and `mqBuff`, each with a mutex and a condition variable | `HaveData`, `WriteData`, `ReadData`, `WritePacket`, `ReadPacketData` | every thread below |
| Sampler (`sample.c`) | `g_reportTimeCnt`, `sMqNewpacketFlag`, the device table | every 3 s: advance the counter, sample, write a packet per due row, signal once | `mqBuff` |
| Publisher (`mqtt-pub.c`) | connection, `pubBuf`, `mqBuff.packetSum` | connect, subscribe, wait for a packet, read it, publish it under the lock, wait for completion | `mqBuff`, the MQTT library |
| Message callback (`msgarrvd`, `mqtt-pub.c`) | none | write the message into `comBuff0`, signal, answer "received" | the MQTT library's receive thread |
| Dispatcher (`msgDispatcher.c`, `AP_circleBuff_ReadPacketData`) | the header it read | wait, take one packet out of `comBuff0`, copy it to `RecvBuff4treat` or `mqBuff` by its port | `comBuff0`, `RecvBuff4treat`, `mqBuff` |
| Treatment (`comTreat.c`) | `g_dlState`, `g_fileTmp`, `g_filePkOk` | wait, treat what `RecvBuff4treat` holds: `filestart`, `fileData` | `RecvBuff4treat`, the file system |
| Device table (`sqTable_init.c`) | `g_devDataTab`, `g_tabLen`, topics and server address | read once at the start | SQLite |
| Debug console (`udp.c`) | `g_debugWhere`, `g_debugAddr`, `udpRecBuf` | switch debug output to the sender of a datagram "debug" | the sampler, through `DebugPrint` |
| Pure algorithms (`public.c`) | the CRC table | base64, CRC-32 | the treatment |
| Guard (`guard.c`) | none | sleep one second, return | nobody |

Not part of the build: `mqtt-sub.c`, `json_init.c` and `backup/` are excluded by
`.cproject`.  Third-party: `cJSON`, `modbus/` (not called), `sqlite3.h`, the
MQTT library under `lib/`.

Hard behaviours, and what makes each component correct:

* **Buffers.** A ring of bytes that drops what does not fit and answers 0 when
  it is empty.  Correct if it is a FIFO queue of one byte less than its size.
* **Reporting.** Two threads share a buffer, a counter and a flag in different
  critical sections; the wait is an `if`; the network comes and goes.  Correct
  if reports go out once, whole, in order, on the report topic, if none is lost
  except without a connection or behind a message the broker has not acknowledged,
  and if neither thread waits for ever.
* **Control messages.** Three threads, two locks taken one inside the other,
  two condition variables awaited without a test, and a one-message mailbox
  that is overwritten.  Correct if what is treated was sent, whole, and in
  order; completeness holds only for messages that come one at a time.
* **Scheduling.** The rows of the table name each other as carriers; periods are
  tested against a counter that steps by ten and wraps at 2^32.  Correct if a row
  is reported once per period and never twice in a cycle.
* **Debug console.** Two threads share an address and a switch without a lock;
  the receive buffer is never cleared.  Correct if lines go to the last asker
  once the address is copied, and if only a datagram "debug" asks.
* **Download.** Blocks are lost, repeated and reordered; the completeness flags
  are only partly cleared; the file is written in parts, any of which can fail or
  be the last; the program ends after a download and may end at any time.  Correct
  if a completed download is the announced file, and the disk gets it or a
  beginning of it.

## Plan

Done in this order, the most important behaviour first:

1. `ByteFifo` / `CircleBuff`: abstract queue, ring, refinement, proofs.
2. `Packet`, `Framing`, `Uplink`, `ReportQueue`, `UplinkProperties`: reporting.
3. `Downlink`, `DownlinkProperties`: control messages.
4. `Download`: the file transfer.
5. `Base64`, `SerialCrc` / `Crc32`, joined by `FileCheck`: the algorithms of
   `public.c` against reference definitions.
6. `DeviceTable`: the start-up, what the threads start with when a query fails,
   and the number of rows against what `sqlite3.h` says of the result.
7. `Schedule`, on the table `DeviceTable` leaves: which rows `getJson` groups into
   one text, which rows are reported by themselves, and the counter that wraps.
8. `DebugConsole`: the race of `udpServerThread` with `DebugPrint`, and the
   receive buffer that keeps the tail of an earlier datagram.
9. `Locks` / `System`: `Uplink` and `Downlink` joined by the broker, with the
   locks of all threads as the abstract specification.

10. The proofs, module by module; last those that take a buffer apart into
    packets, the checksum as a remainder, and the composition in `System`.

Open: every safety invariant, action property and refinement that a passing run
checks is stated by a theorem; what is left to TLC is liveness (see "What is
proved").

## Modules

### Byte buffers: `ByteFifo`, `CircleBuff`, `CircleBuffProofs`

`comBuff0` and `mqBuff` run the same algorithm, so one module stands for both.
Every call is made with the buffer's mutex held, so `WriteData` and `ReadData`
are single steps; `ret` is what the last call returned.  `ImplementsFifo` maps
the unread part of the ring to the queue of `ByteFifo`.  Run `circle_buff` uses
four slots and three byte values: all positions of both cursors and all
contents are reached, with many wrap-arounds.

### Packet layout: `Packet`, `Framing`, `PacketProofs`

A buffer is now the byte queue that `CircleBuff` was shown to implement, and
`WritePacket` and the read of a packet are operators on it: a critical section
writes or reads a whole packet, so the bytes need no steps of their own.  The
two things that go wrong in the code are kept: a byte that does not fit is
dropped without notice, and reading past the end gives zeros.  `Base` is the
number of values of a byte; with a small `Base` a length still takes two bytes
and a text can still be mistaken for a header, which is what matters after an
overflow.

`Framing` says what the bytes of a buffer are as packets: `Packets` takes them
out one after the other with the reads of `Packet` until nothing is left, and
`HoldsOnly` says that all are whole, of one port, with given payloads.  The
properties of both paths, and their refinements, are stated with it.  `Packets`
is a recursive function, so that it can be proved about.

### Reporting: `Uplink`, `ReportQueue`, `UplinkProperties`, `UplinkProofs`

| Code | Action |
|---|---|
| head of `sampleDataThread`'s loop | `Sample` |
| `dataReport_treat` / `formJsonPacket` for the next due row | `FormJsonPacket` |
| the end of the cycle, with the signal | `SignalPublisher` |
| `MQTTClient_connect` at the start, and in the loop | `FirstConnect`, `Reconnect` |
| `MQTTClient_subscribe`, which can fail, `MQTTClient_isConnected` | `Subscribe`, `CheckConnected` |
| lock, `if (packetSum == 0)`, `pthread_cond_wait` | `WaitForPacket`, `TakePacket`, `TakeAfterWait` |
| publication under the lock, and the wait after it, which may give up | `Publish`, `WaitForCompletion` |
| `delivered`, `connlost`, and a wake-up without a signal | `Delivered`, `ConnectionLost`, `SpuriousWakeup` |

The publisher keeps `mqBuff.lock` from the read of a packet to the end of
`MQTTClient_publish`; all other critical sections cannot block and are one step.
The text of a row is a constant: its values come from outside the program.
`out` is the last message the client library accepted; what the library does with
it later is the library's.  The client is opened with `reliable`
(`MQTTClient_connectOptions_initializer`), so it has one message on its way at a
time (`inflight`).  `MQTTClient_waitForCompletion` gives up after five seconds; a
packet published before the late acknowledgement, `Delivered`, is refused, and as
the result is ignored, it is gone (`Accepts`).  In the same way `Subscribe` can
fail on a live connection, which the code does not notice and does not repeat;
`refused` remembers that it happened in this session.  An accepted message that is
never acknowledged can still be lost with its session.  The reports written and read
by other code do not exist: the dispatcher's branch that writes into `mqBuff`
(`Forward` in `Downlink`) is reached only after `comBuff0` overflowed.

`ReportQueue` says what the path promises as long as no packet was cut short: a
FIFO of reports, each accepted once on the report topic, lost only without a
connection or behind an unfinished message; and empty messages on the control topic when no report waits, which
is what the `if` around the wait leads to.  After a packet was cut short nothing
is promised, because the next header is then read from the middle of a text.

Assumed of the constants: a text fits into `str` and `pubBuf`
(`PubBufAssumption`, 1500 bytes), and the packets that `mqBuff` has room for can
be counted in an unsigned int (`WidthAssumption`; 20479 bytes, at least four for
each packet, and 2^32 values).

* `uplink_safety`: two byte values, a buffer of 10 bytes (two of the shorter
  packets; a short and a long one miss one byte), texts of different lengths,
  unsigned ints of four values so that the counters wrap, a `pubBuf` with no byte to spare.  The
  buffer overflows when the publisher is slow, so the states after a packet was
  cut short are visited too; the type invariant, `SignalPending` and
  `SubscribedUnlessRefused` hold in them.  The constraint `LinkBound` (`MCUplink`)
  ends a behaviour when, after a packet was cut short, the connection or a
  subscription is lost as well; `uplink_live` goes on without it.
  `SubscribedUnlessRefused` says whose fault a session without the control topic
  is: that of its own subscription, never that of a path through the loop that
  skips it.
* `uplink_live`: the same with a buffer that holds one packet.  Fairness: each
  thread that can run does run (weak fairness; no thread blocks for ever in the
  library), and a broker tried again and again accepts in the end (strong
  fairness of a successful `Reconnect`).  The code's loops retry without end,
  the rest is the environment's.  `PacketsAreTaken` and `SubscriptionSettles`
  also assume that the network settles; that a lost connection comes back, the
  first conjunct of `SubscriptionSettles`, does not need it.  A broker need not
  accept the subscription, nor acknowledge anything: a device whose last
  subscription failed stays connected and deaf, which is the other way for
  `SubscriptionSettles` to come true.

### Control messages: `Downlink`, `DownlinkProperties`, `DownlinkProofs`

| Code | Action |
|---|---|
| `msgarrvd` | `Msgarrvd` |
| `pthread_cond_wait` of the dispatcher | `DispatcherWaits` |
| `AP_circleBuff_ReadPacketData`: header, empty buffer | `ReadHeader`, `NothingToRead` |
| its cases `MQTPC2DTU`, `DTU2MQTPR` | `Deliver`, `DeliverOutside`, `Forward` |
| `comThread` | `ComWaits`, `StartTreat`, `EndTreat` |

The dispatcher holds `comBuff0.lock` between `ReadHeader` and `Deliver`, which
waits for the lock `comThread` holds during a treatment.  The time before
`Forward` is the time it waits for `mqBuff.lock`.  Each message is sent once
(the bound of the model), in any order, so its contents identify it.  With four
byte values the two ports have their real bytes, and one message starts with
the bytes of a header, so that a misread buffer can reach every branch.

A message can have any length.  One that leaves no room for a NUL in
`RecvBuff4treat` (10240 bytes) is copied past its end, since the length is compared
with nothing: `DeliverOutside`.  What lies there is the flag and the lock of
`RecvBuff4treat`, so the model lets `comThread` be woken or not and the dispatcher
go on or hang with `comBuff0.lock`; `overrun` remembers it, and the properties
promise nothing afterwards.  `RecvAssumption` says only that `comBuff0` is
smaller than the width of a length (40959 and 65536 bytes), so that a message whose
length does not fit into its 16 bits is one that is cut short.
`ContentsAssumption`: no message is empty, because an empty one could not be told
from the `RecvBuff4treat` that nothing was delivered to.

* `downlink`: a buffer of 14 bytes overflows with three messages in it;
  spurious wake-ups are allowed, and `spurious` remembers that one occurred.
  `TreatedOnce` and `EveryMessageTreated` hold without them: after one,
  `comThread` treats the same message again.  One message is too long for
  `RecvBuff4treat` and fits into `comBuff0`.  `SlotSuffices` is about the length that
  is read back out of `comBuff0`: until a packet is cut short it is that of a
  message, so that only such a message overruns the slot, and not one that was
  taken up at the wrong place.  `EveryMessageTreated` is
  for messages that each come when both threads wait again (`paced`): otherwise
  a signal can find nobody waiting, and the message stays in the buffer behind
  the next.  Fairness: each thread that can run does run; the broker need not
  send.
* `downlink_accepted` (violation): see Findings.

### File transfer: `Download`, `FileTransferProofs`

`FileStart` and `FileData` are the two branches of `parseJson`, one step each
because `comThread` holds the lock of `RecvBuff4treat` throughout.  The server
is the environment: it announces files and sends blocks in any order, any number
of times, with losses (a message that is lost or ignored changes only
`sending`).  `FreshFlags` gives the flags that `memset` does not clear an
arbitrary value.  `fopen` empties the file (`OpenFile`); `fwrite` and `fclose`
hand it over in as many parts as the system likes (`WritePart`); `WriteFile` is
the last part and `exit(0)`.  When the disk is full the program exits just the
same (`WriteFails`, `"short"`), since their results are ignored.  `Restart` starts
the program again with fresh memory and the old disk, at any time: also between
two parts.  A block that is on the disk in part counts as not there.  A
block with a number beyond `blockcount` overwrites other memory
(`FileDataOutside`): after it, and after a block of another file (`mixed`),
nothing is promised.

* `download`: two files of three and four blocks that share contents, a pointer
  of three bytes, so one flag of the longer file is not cleared; failures of
  `malloc`, `fopen` and the write; two restarts.  Three blocks with flags that are all
  cleared are enough for every order of two blocks before the last one, which is
  the one the code tests.  `DownloadCompletes` is checked in the same run: from
  any past (another file, restarts) a server that in the end stays with a short
  file gets it onto the disk.  Fairness: that server keeps announcing the file
  and sending each of its blocks, which is an assumption about the server, since
  the device asks for nothing; and the program goes on writing.  It holds only
  while the device did not take up the other file and `malloc`, `fopen` and the
  write succeeded (`StaysWith`): the code never gives a download up, and a failure
  ends it.  The program may end, so deadlock is not checked.

### Pure algorithms: `Base64`, `SerialCrc`, `Crc32`, `Crc32Properties`, `FileCheck`, `FileTransferProofs`

A state of `Base64` is the input, the text written so far and the bytes decoded
so far; a step is one turn of the loop of `base64_encode` or `base64_decode`
(`EncodeGroup`, `DecodeGroup`), with the early exit of the last group.  A
character is its position in `base64char`; `'='` is `Pad`.  The shifts and masks
on unsigned chars are quotients and remainders.  `base64_decode` is given what
`base64_encode` wrote: the program only decodes, and the server encodes as the
standard says, which is `EncodesGroups`; `base64_encode` is in `public.c`, but
called by nothing, and stands here for that encoder.  The decoder's behaviour on other texts
is not modelled.

`Crc32` is the table CRC with a word as the set of its ones, so that XOR and
shifts are set operations.  `SerialCrc` is the abstract specification: a shift
register that takes one bit at a time; `ImplementsSerialCrc` is the refinement.
`Crc32Properties` has the other reference, the long division of the message by
the generator polynomial: `Division` takes the generator away at one exponent
after the other, and `Remainder` is what is left.  `parseJson` forms the checksum
of a file but compares it with nothing (`comTreat.c:82`), so no property of `Download`
depends on it.

`FileCheck` runs the two as `parseJson` does, the checksum over the decoded bytes.
`FileTransferProofs` has the proofs about `Download`, `Base64` and `Crc32`, whose
specifications are `Spec`, `Base64Spec` and `CrcSpec`.

* `file_check`: all lengths up to two groups over the bytes 0 and 255, so every
  tail is met after zero and one whole group; every single byte, so every entry
  of the table; inputs that set each part of a character by itself; the usual
  check text "123456789".  The program stops at the end of its input: deadlock
  is not checked.

### Start-up and schedule: `DeviceTable`, `Schedule`, `ScheduleProofs`

`step` is the query or loop `sqTable_init` is at.  A cell of SQLite's flat result
is the pair of its row and its column, so that a row read from the wrong place
shows.  Any query can fail (`failed` remembers it); `devCfg` is the set of settings
the database has a row of, and one that is missing is read from the cell after the
result (`"outside"`).  `SettingsComplete` says when the threads start with what the
database holds, and that only the failure of a query, not a missing row, keeps the
topics from being built.  `main` starts its threads in every case
but a database that does not open or memory that is not there.

`Schedule` goes on with the table that was left.  `DataClassification` runs once;
`Cycle` is one turn of `sampleDataThread`: the counter, `dataReport_treat`'s
choice (`Due`) and, for each due row, the rows `getJson` puts into its text
(`GetJson`).  It is one step because no other thread writes what it reads.
`Uplink` starts where a report is a finished text.

* `schedule`: seven rows in the database, with results of every size up to that: a
  row that carries others, one of them with a period of its own and one of period
  0; a period of 7; rows that belong to nothing.  `devCfg` has all settings, all
  but those the topics are made of, or only these.  The counter has 96 values
  instead of 2^32.  Like 2^32, 96 is even and leaves 6 when divided by ten, so the
  counter takes other last digits after each wrap as the real one does, and the
  periods of the run meet both the regular and the irregular part.
  `PunctualUntilWrap` says what holds before the first wrap and `EveryRowReported`
  what is left of it afterwards.  `SinceBound` (ten cycles, one turn of the
  counter) only stops a history.  Fairness: the thread runs.  The program may end
  at a failed query: deadlock is not checked.
* `device_table_rows` (violation): see Findings.

### Debug console: `DebugConsole`, `DebugConsoleProofs`

| Code | Action |
|---|---|
| `bind`, `recvfrom` | `Bind`, `Recvfrom` |
| `strcmp`, another text | `Ignore` |
| `strcmp`, "debug": `g_debugWhere=udpDebug` | `Switch` |
| `g_debugAddr =g_remoteAddr`, one word | `CopyWord`, `Copied` |
| the three tests of `DebugPrint` | `PrintStart`, `PrintSerial`, `PrintNotSerial`, `PrintUdp` |
| `sendto`, which reads `g_debugAddr` word by word | `ReadWord`, `Sent` |

The threads share `g_debugWhere` and `g_debugAddr` without a lock, which C leaves
undefined; a `struct` of two words is copied word by word in either order, and
`sendto` reads it word by word, also in between.  `AddressIsAskers` says how mixed
the address of a line can be: each word is that of a sender who had asked when
`sendto` started (of the one before, which is "never set" for the first, if the
copy was under way) or who asked while it read.  `strcmp`
compares what `recvfrom` left: `DebugIsHeard` says which earlier datagrams can
make the code miss a "debug" or hear one that was not sent.  `asked`, `datagram`,
`odd` and `askers` are histories.

* `debug_console`: "debug" is two characters, the buffer three; datagrams of all
  lengths from none to more than the buffer, with the NUL in every place that
  matters; two clients that differ in both words, so that a mixed address is
  neither's.
  `AskerGetsLines` assumes that both threads run; datagrams need not come.

### The threads together: `Locks`, `System`, `SystemProofs`

`Locks` has the three mutexes and condition variables with no data at all: where
each thread is and which mutex it holds there.  A mutex held during one step
needs no place.  It is small enough to be explored without a bound.

* `locks`: no deadlock, and `ThreadsWaitAgain`: the lock the receive thread needs
  comes back, and woken threads get back to their waits.  Fairness: a thread that
  can run does run; and the dispatcher, waiting for a lock that is given back
  again and again, obtains it in the end (strong fairness of `Deliver` and
  `Forward`).  Both holders give it back and then wait for something else.

`System` takes the actions of `Uplink` and `Downlink` as they are and adds what
one does to the other: the broker sends back what the publisher sends on the
control topic (`Echo`, `EchoArrives`), or loses it; messages come only through
the subscription, and a lost connection ends them; `Forward` writes into the
publisher's buffer while holding both locks; `Delivered` is the broker's
acknowledgement.  `ImplementsUplink` says when the
reporting path is what `Uplink` says, which justifies leaving the dispatcher out
there; `ImplementsLocks` that the threads keep to `Locks` until `RecvBuff4treat` is
overrun, which may write over a lock, so what is shown there of safety holds of
the program up to then.  `PartsAssumption` collects what the two parts
assume of their constants; that a message is not empty is not needed here.

* `system`: one row, `mqBuff` with room for one report, `comBuff0` for one message
  and a header.  `EchoBound` is one stray message under way, `ArriveBound` three
  arrivals: with one cut short, the last is misread as a packet for `mqBuff`.  The
  constraint `Bounds` (`MCSystem`) stops where `Uplink` and `Downlink` go on by
  themselves: a cut report, or a message that overruns `RecvBuff4treat`, is the last
  thing that happens; the connection is lost only before the second arrival; an
  acknowledgement comes later than the publisher waits only before the first; the
  third arrival and spurious wake-ups come
  only in behaviours that reach the misread message.

## What is proved

For every value of the constants, from the named assumptions in the modules.

**Byte buffers** (`CircleBuffProofs`).  `RingImplementsFifo`, `TypeCorrect`.  The
inductive invariant is the type invariant; the lemmas say that a write appends to
the unread part and a read removes its head, by cases on whether the part wraps.

**Packets** (`PacketProofs`, lemmas only).  First what the operators return for any
buffer, cut short or not.  Then `Packets`: a recursive function is a `CHOOSE`, so
`RecursionExists` shows that one with these equations exists, by collecting the
functions that satisfy them up to each size (`PacketsDefined`).  Induction over a
buffer is `LengthInduction`, stated with a set instead of an operator: a set of
buffers with no shortest one missing is the set of all.  With it:
`PacketsConcat` (whole packets followed by more bytes are those packets followed
by the packets of the bytes), `PacketsBounded` (four bytes at least for each), and
from these what a write that fits and a read do to the packets in a buffer
(`WritePacketAdds`, `HoldsOnlyWrite`, `HoldsOnlyHead`).

**Reporting** (`UplinkProofs`).

* `UplinkTypeCorrect`.
* `NoLostWakeup`: `SignalPending` is inductive together with the type
  invariant; its second half (the sampler has not left its loop) is what makes
  it so, since a signal at the head of the next cycle would come too late.
* `SubscriptionFollowsSession`: `SubscribedUnlessRefused` is inductive as it stands.
* `PacketSumIsNumberOfPackets`, `PubBufNotOverrun`.  Neither is inductive alone:
  `Framed` adds what is in `pubBuf` while the lock is held, a packet of the table or
  nothing with an empty buffer.  The second case is the wake-up without a packet;
  the count stays at zero because the code does not take one off zero.
  `WidthAssumption` is needed where the sampler counts.
* `ReportQueueImplemented`: with `Framed`, each step is one of the queue's in the
  mapped variables or leaves them alone.  Taking a packet is a stutter (it moves
  from the buffer to `pubBuf`), forming one is `Add`, publishing `Publish` or, when
  the client does not accept it, `Lose`, and with an empty `pubBuf` `PublishNothing`.

**Control messages** (`DownlinkProofs`).

* `DownlinkTypeCorrect`.
* `BacklogIsMostRecent`, `OverrunOnlyByTooLong`, `NeverGoesBack`, `NoneTreatedTwice`, from
  one inductive invariant, `Ordered`: `comBuff0` has only messages in it (`Framed`,
  which knows the packet whose header the dispatcher already took); the backlog is
  the end of what was sent, and `slot` and `treated` are numbered by how many were
  delivered, `treated` strictly behind `slot` while `comThread` is woken and no
  wait returned without a signal (`InOrder`); and no message was sent twice
  (`Distinct`), which is what lets contents stand for numbers.

**File transfer** (`FileTransferProofs`).

* `DownloadTypeCorrect`, `DownloadIsComplete`, `DiskGetsOnlyBeginnings`.
  `CompleteIsComplete` is not inductive: it says nothing until the download is
  complete.  `FlagsAreTrue` relates each cleared flag to its block before that.
* `Base64TypeCorrect`, `EncodingIsStandard`, `DecodingGivesBack`, of `Base64Spec`.
  The encoder's invariant needs its loop index beside the text; the decoder's
  needs that the whole text is the standard's, so the second theorem is part of
  the invariant of the third.  What remains is arithmetic: the four characters of
  a group give back its three bytes.
* `CrcTypeCorrect`, `CrcImplementsSerial`, of `CrcSpec`.  Dividing is linear: eight
  divisions of the low byte of the register, then XOR with the rest, is eight
  divisions of the register.  No invariant is needed beyond the types.
* `ChecksumIsRemainder`.  `RegisterIsRemainder` is inductive: one more byte
  lengthens the dividend by eight places at its low end (`DividendGrows`); the
  division of the longer dividend takes the same exponents away as that of the
  shorter one shifted up (`DivisionHigher`), and its last eight steps are those of
  the serial register (`DivideIsSerialBit`).

**Start-up and schedule** (`ScheduleProofs`).  `ScheduleTypes`, `RowsStayInPlace`,
`TableWritten`, `StartTellsSettings`, `NoRowReportedTwice`, `PunctualTillItWraps`, for
any table and any width of the counter.  `TableInv` ties the index into the flat
result to the loop counter, which the types do not say; `SettingsInv` the settings,
and whether a query failed, to the step.  `NoRowTwice` is inductive with these and the sampler's types
(`SamplingInv`): the cases are which of two rows of a report is the one it is
named for.  `PunctualUntilWrap` needs, beyond the history, that the counter is a
multiple of ten before it wraps, and two facts about numbers: every period has a
least interval (the numbers are well-founded), and a multiple of ten is a multiple
of the period exactly when the interval divides its tens.

**Debug console** (`DebugConsoleProofs`).  `ConsoleTypeCorrect`,
`LinesGoToAskers`, `DebugIsUnderstood`, for any clients, datagrams and buffer
size.  `AddressInv` adds where the address being copied is from, and that the
senders it is made of are among those a line may go to; `HeardInv` what the
buffer owes to the last datagram and to those before.

**The threads together** (`SystemProofs`).  The lemmas of `UplinkProofs` and
`DownlinkProofs` are used through two instances, `UP` and `DP`; a first group of
lemmas says that their actions are those of `System`'s `U` and `D`.

* `LocksImplemented`, without an invariant: action by action, up to an overrun.
* `UplinkImplemented`, `StraysAreEmpty`, `StraysDoNotBreed`, `ReportsKeptApart`, from
  the inductive invariant `SystemInv`.  It speaks of the states before a control
  message was cut short or overran `RecvBuff4treat`.  There `comBuff0` has only packets of the control port
  (`Messages`), whatever the broker sends back and even when the echoes are pieces
  of a report that was cut short; so the dispatcher never forwards, every step is
  one of `Uplink` for the reporting path, and `Framed` of `UplinkProofs` carries
  over.  From there, and while no report was cut short: `EchoesEmpty` follows a
  stray message from `pubBuf` through the broker and `comBuff0` to `treated`; and
  `WakeupsArePaid` keeps account of the reports.  It has to say, beyond the
  property, that a publisher that was woken finds a packet if the flag was raised
  again after the signal; otherwise a stray message and the next wake-up would
  share a report.

Only model-checked, because liveness under fairness and `ENABLED` are out of the
prover's reach: the liveness properties (`PacketsAreTaken`, `SubscriptionSettles`,
`EveryMessageTreated`, `DownloadCompletes`, `EveryRowReported`, `AskerGetsLines`,
`ThreadsWaitAgain`) and the absence of deadlock.  That `System` implements the
fairness of `Locks` is not claimed.  The two properties the code violates
(Findings) have no theorem.

## Findings

`downlink_accepted`: `msgarrvd` returns 1 also when the message did not fit into
`comBuff0`, although the interface of the MQTT library
(`lib/mqtt-h/MQTTClient.h:318`) makes the return value say whether the message
was safely received and offers to deliver it again.  The buffer is 40960 bytes,
but messages that arrive while the dispatcher is busy stay in it (see
`paced` above), so it does fill up over time.

`device_table_rows`: `sqTable_init` takes over one row less than the query of
`devData` returns (`sqTable_init.c:47` and `:57`).  The interface of SQLite
(`sqlite3.h:2405`) counts the rows without the line of column names, the code
takes off one more for it.  The last device is never sampled or reported.

Behaviours of the code that the models show and no document speaks of: empty
messages on the control topic after a wake-up without a packet; reports lost
while there is no connection, or refused behind a message that is not yet
acknowledged; a device that stays deaf after a failed subscription; a control
message copied past the end of `RecvBuff4treat`; a program that exits with
success and a part of a file on a full disk; topics put together from what lies
behind a result; a backlog of control messages that is never
worked off; downloads of more than eight blocks declared complete with blocks
missing; a second file stored into the first; debug lines sent to an address put
together from several requests; a row reported with the period of the row it belongs
to, and reports that move to other moments after the counter wraps.

## Mutations

A definition introduced by "A slip:" in a comment is no part of a model: it is
the definition below it with a plausible mistake of the code.  `PROJECT.json`
("mutants") pairs each property with a slip that breaks it.

## Not modelled

* Formatting of times and numbers, JSON text, logging.  Two hazards go with it and
  have no property: `gcvt` writing past `valueString`, and the unbounded copy of a
  text into `str` (`sample.c`).  A table whose texts are longer than `str` and
  `pubBuf` (1500 bytes) is excluded by `PubBufAssumption`.
* NULL cells in the database, on which `sqTable_init` ends in `atoi` or `strcpy`;
  what the threads do with an empty topic or server address.
* What `MQTTClient_publish` does inside the library while the publisher holds
  `mqBuff.lock`.  If it waits for the receive thread, and that one for
  `comBuff0.lock` held by a dispatcher in `Forward`, the circle is closed; the
  repository does not say.
* What happens after a write outside a buffer (`DeliverOutside`, `FileDataOutside`,
  a report cut short): the models go on with the choices that matter to the threads
  and promise nothing.
* A loss of power after `fclose` with data the system has not yet written, and a
  block that reaches the disk in part: a file is the whole blocks that are there.
* `guard.c`, which sleeps and returns; `mqtt-sub.c`, `json_init.c` and `backup/`,
  which are not built.
* Third-party code: `cJSON`, `modbus/` (built, not called), `sqlite3.h`, the headers
  of the MQTT library.  They are modelled where the program uses them.  These and
  the copies under `backup/` are most of the lines under the repository: the
  program's own code is about 1700 lines, and the functions of it that run are
  modelled.

## Running

    tlc -config Uplink.cfg MCUplink.tla
    tlapm UplinkProofs.tla

Each `.cfg` belongs to the `MC` module its run names in `PROJECT.json`.  Every
run ends within five minutes; `system`, `schedule` and `debug_console` are the
longest.
