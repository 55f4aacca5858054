# Formal models of KendryteK210_base_project

The repository is the firmware of a board with three processors: a Kendryte
K210 that runs the application and the drivers, an ESP32 that does WiFi for it
over SPI, and an STM32 that is programmed and listened to over a UART.  This
directory holds TLA+ models of the code in which the processors, their
interrupts and their protocols meet, TLC configurations that check them, and
TLAPS proofs of every safety property that the configurations check.

Paths below are relative to the repository (`src/` is its root here).

## 1. The system

    STM32 --UART--> irq -> TBPipe -> uart_receive / stm32p_log_receive -> TBParse
    PC    --UART--> irq -> TBPipe -> MessageDebug loop                 -> TBParse
    any byte stream                                                    -> TBinParse
    K210 esp32_spi.cpp --SPI1--> ESP32 SpiSlave -> CommandHandler -> WiFiClient/Server
         spi2_slave.cpp <--SPI2-- SpiMaster::send <-'                     -> lwIP, WiFi task
    K210 flash.c --SPI3--> NOR flash

### Components, their state and what makes them correct

| Component | State | Operations | Correct when |
|---|---|---|---|
| **TBPipe** `drivers/TBPipe/TBPipe.cpp` | buffer, `read_pos`, `write_pos`, `read_pos_tmp` | `Write` (interrupt); `ReadStart`/`ReadEnd`, `ReadExact`, `AvailableBytes`, `Clear` (main code) | a FIFO without a lock: nothing lost once accepted, torn, reordered or read while being overwritten; `Clear` leaves nothing old |
| **TBParse** `TBParse.cpp` | buffer, `buffer_pos`, `bin_message_size`, the prefix parser's state | `Append`, `NextMessage`; `BinPrefixParser::Parse` | the messages returned do not depend on how the bytes were cut into chunks |
| **TBinParse** `TBinParse.cpp` | the same and `parse_failed` | `Append`, `AppendInplace`, `NextMessage`, `Clear` | frames are returned in order and whole; it fails only at a damaged or oversized frame |
| **Command link** `drivers/esp32/esp32_spi.cpp`, `spi2_slave.cpp`, `Maixduino_esp32/arduino/SPIS/SPIS.cpp`, `main/sketch.ino.cpp` | ready pin, chip select, the slave's queued transaction, SPI2 FIFO, place in `esp32_transfer` and in `loop` | `esp32_transfer`, `esp32_spi_reset`; `loop`, `SpiSlave::transfer`, the chip-select interrupt, `SpiMaster::send` | a response belongs to the command it is returned for; each command is executed once; every transfer returns |
| **Sockets** `main/CommandHandler.cpp`, `arduino/WiFi/WiFiClient.cpp`, `WiFiSSLClient.cpp`, `WiFiServer.cpp` | `socketTypes`, `tcpClients`, `tlsClients`, `tcpServer`; lwIP's descriptors | open, close, read, send, state, available; server create, stop, accept | no descriptor or slot is lost; a slot number keeps meaning the same connection |
| **STM32 programmer** `drivers/stm32_program` | `bootloader_activated`, the pipe, the STM32's own mode | activate, restart, read, write, erase, get, log | a call that returns true was really carried out; the log holds the text of this run only, but for the message a restart cuts |
| **WiFi station** `arduino/WiFi/WiFi.cpp` | `_status`, `_ipInfo`, event bits | begin, beginAP, disconnect, scan, status, address; event handlers in another task; `connect_AP` on the K210 | the status and address told are those of the connection asked for; a scan ends |
| **SPI flash** `drivers/flash` | the chip: busy, write enable, quad mode, contents; the function pointers | erase, program by pages and chunks, quad mode, busy, init | an array of bytes; nothing outside the range is written; nothing is sent to a chip that does not listen |
| **MessageDebug** `drivers/MessageDebug`, `base/src/main.cpp` | a TBPipe and a TBParse of the same size | interrupt, one round of the main loop | the messages are those of the stream on the line; nothing is dropped while the line keeps to what the buffers allow |
| esp8266 driver, GC0328 camera, demos, host tests, UDP helpers, Python helpers, vendored SDK | | | not modelled, see section 7 |

### What is hard here

* **Concurrency without locks.**  The UART interrupt runs between any two
  loads and stores of the main code in TBPipe; on the ESP32 the chip-select
  interrupt writes the same pin as the task; the WiFi event task writes the
  same status as a command.
* **Streams cut anywhere.**  Both parsers see arbitrary pieces, keep what is
  unfinished, and TBParse scans it again with a parser that has a state.
* **Timeouts that race late answers.**  `esp32_transfer` ignores the results
  of both waits for the ready pin; neither its protocol nor that of the STM32
  boot loader has numbers, so a late answer is taken for the next one.
* **Crashes.**  The ESP32 aborts in `ESP_ERROR_CHECK` or is reset in the middle
  of a transfer and comes back with empty state.
* **Small fixed resources.**  Pipe, FIFO, slots and descriptors run out.
* **Boundaries.**  `read_pos` may rest on `buffer_size`, free space is rounded
  down to 8, sums of `uint32_t` wrap, packets of size 0 look like no message.

`PROJECT.json` lists these hazards one by one with the line and the property.

## 2. Modules

| Module | Models | Instances |
|---|---|---|
| `PipeFIFO` | abstract: a bounded queue, as three counters | refined by `TBPipe` |
| `TBPipe` | the ring buffer, one step per access to the other side's data | `MCTBPipe` |
| `TBParse` | parser of lines and announced packets, beside a streaming reference | `MCTBParse` (timeout) |
| `MessageDebug` | extends `TBParse` by interrupt, pipe and main loop | `MCMessageDebug` |
| `TBinParse` | parser of frames with a check word | itself |
| `RemoteCall` | abstract: calls executed at most once, in order | refined by `Esp32Link` |
| `Esp32Link` | one request and response over two SPI buses and the ready pin | itself |
| `Esp32Sockets` | slots, clients, server, descriptors | itself |
| `Stm32Boot` | boot loader commands, reset and log | itself |
| `WifiConn` | the WiFi station: command task, event task, driver, the K210's calls | itself |
| `NorArray` | abstract: an array of bytes with writes and erases | refined by `Flash` |
| `Flash` | the flash driver, one SPI frame per step, and the chip | `MCFlash` |

The theorems about a module `M` and their proofs are in `M_proofs`, which
extends it; there is one for `TBPipe`, `TBinParse`, `Esp32Link`, `Esp32Sockets`,
`Stm32Boot`, `WifiConn`, `Flash`, and for `MessageDebug`, which also holds those
about `TBParse`.

How state and actions correspond to the code:

* **TBPipe.**  A byte is its number in the stream, so "the right byte" is a
  number.  `Write` is `BeginWrite` (both loads, the decision how much fits),
  `CopyIn` once per byte of the one or two `memcpy`, `EndWrite` (the store of
  `write_pos`).  `ReadStart` loads `write_pos` and fixes window and next
  position; the user copies with `CopyOut`; `ReadEnd` stores.  `ReadExact` is
  `BeginReadExact`, `CopyOut`, `EndReadExact`; `Clear` is its four calls.
  `FreeBytes` is never called and left out.
* **TBParse.**  One iteration of `NextMessage`'s loop is one step (`Scan`), so
  rescanning after `memmove` is explicit.  Text and packets are returned to a
  client that stops at the first empty message, as all clients do.  Both prefix
  parsers in use are there.  The reference reads each byte once and has no
  buffer.
* **MessageDebug.**  `KeyboardIrq` is the UART's callback with one byte;
  `QuantReadStart`, `QuantAppend`, `QuantReadEnd` are the three calls of
  `MessageDebugQuant`, between which the interrupt may come; `MessageDebugNext`
  is `TBParse`'s `NextMessage`, unchanged.  The pipe is the queue of
  `PipeFIFO`, which `TBPipe` is proved to implement, with the two things about
  it that matter to its users: how much room it says it has, and that a window
  ends where the ring does.
* **TBinParse.**  `NextMessage` has no loop and is one step, with an action per
  path.  The check word is "intact or not", and a header can be decoded only
  where the bytes are one.  A size is a `uint32_t`: sums are modulo `Modulus`.
* **Esp32Link.**  Places of `esp32_transfer` are values of `kpc`, of `loop` of
  `epc`.  `Wanted` and `Given` are the two tables of response lengths, one read
  off each side's source.  `Stalled` says when the ESP32 can be slower than
  any wait of the K210, and only then may a wait run out; the interrupt runs
  before the task goes on.  Words are <<command, index>>.
* **Esp32Sockets.**  The ESP32 has one task, so a command is one step, with an
  action per outcome of lwIP; `PeerConnects`, `PeerSends`, `PeerCloses`,
  `PeerCuts` and `PeerResets` act in between.  An accept may fail at any time
  with any errno (`AcceptFailed`), after which the server closes itself.
  `PeerCuts` is the end of a TLS connection by TCP alone, without a
  close_notify: mbedtls_ssl_read then returns 0, which `available` ignores.  A
  transfer may fail (`TransferFails`): an open
  or accept that was carried out is then taken for failed, and a close that
  never arrived (`CloseUnheard`) for done, because no caller looks at its
  result.  That a command is executed at most once is what `Esp32Link` checks
  (`RemoteCall`); an answer that comes late instead of never shifts all later
  answers by one, which is a state of `Esp32Link` and not of this module.
* **Stm32Boot.**  The pipe is a queue (justified by `PipeImplementsFIFO`), each
  frame and answer is one item tagged with its call.  `uart_receive` is
  `PollShort`, `Timeout`, `ReceiveAck` and `ReceiveData`: the timeout is judged
  after a poll, and bytes that have come since then stay in the pipe; a poll
  that finds more bytes than the one before (`BytesCame`) starts the wait anew.
  No command looks at `bootloader_activated`: that the client activates the
  boot loader before it sends commands, as the only caller `stm32p_test_loop`
  does, is the assumption `MaySend`.  Without it the text of a running program
  could be read as an acknowledgement, and `AnswerIsOwn` would be false.  The boot
  loader is external: it may obey, refuse, be confused by a frame out of order,
  or not answer; frames and bytes may be lost.  A data or text byte can have
  the value of an acknowledgement.  Of the log's parser only the message it has
  begun is kept, which a restart does not clear.
* **WifiConn.**  `WiFiClass` is used by two tasks on two cores: the command
  task (`begin`, `beginAP`, `scanNetworks`, `updateIpInfo`, `disconnect`) and
  the event task with the three handlers.  Each store to `_status` or the event
  bits is a step of its own, and each load after a wait.  The driver is
  external: it comes up or down, posts events, refuses what it may refuse.  The
  K210's side is `connect_AP` with its polling, the other calls, lost answers
  and the reset.
* **Flash.**  One SPI frame is one step: `WriteEnable`, `SendProgram`,
  `SendErase`, `SendStatus`, and `Wait` for the loop on `flash_is_busy`.  The
  chip is external and obeys only when idle and enabled; a program wraps in its
  page.  `Restart` is a reset of the K210 with the chip left under power.
  `careful` says that the client found the chip idle before each call.

Definitions called "Mutant" in a comment are deliberately wrong variants of the
definition that follows.  Nothing uses them; replacing the original by one of
them makes the named property fail, which shows that the property can fail.

## 3. Runs

| Run | Bounds | States | Properties |
|---|---|---|---|
| `TBPipe` | buffer 6, granule 2, words of 2, 11 bytes, every size of Write and ReadExact | 168,205 | `IInv` `WindowStable` `NoDataRace` `PositionsCount` `ReservationHolds` `ClearDropsAllOld` `WordsStayWhole` `ImplementsFIFO` `EveryByteTaken` |
| `MessageDebug` | buffers 6, lines of 7 bytes over 3 values, both parsers, bursts of 2, messages to 4 | 2,263,042 | `InOrder` `DrainComplete` `CompactedToOneFrame` `NothingLost` `EveryMessageArrives` |
| `TBinParse` | buffer 5, header 2, 3 frames of payload 0, 1, 3 or 4, intact or not | 2,725,444 | `DeliversFramesInOrder` `DrainComplete` `RoomAfterDrain` `FailsOnlyForCause` |
| `Esp32Link` | 5 transfers of 4 kinds of commands, FIFO of 3 words | 57,859 | `HandshakeSound` `AnswerIsOwn` `ImplementsRemoteCall` `FastCommandAnswered` `EveryTransferReturns` |
| `Esp32Sockets` | 2 slots and descriptors, 3 connections, 1 unread byte, 2 failed transfers | 203,105 | `FdsOwned` `SlotsAccountedFor` `HandleKeepsItsConnection` `LiveConnectionsStay` `GoneIsNoticed` |
| `Stm32Boot` | 4 calls of any kind, pipe of 3, reads of 2 bytes | 1,344,839 | `AnswerIsOwn` `InStep` `LogIsOfThisRun` `EveryCallReturns` |
| `WifiConn` | 2 networks, 4 calls, 2 connections, 2 rounds of polling | 654,874 | `ConnectSound` `StatusSettles` `AddressIsOfThisLink` `EveryCallReturns` |
| `Flash` | 6 bytes of 1 bit, pages of 3, chunks of 2, writes to 4 bytes, 2 erase sizes | 397,599 | `ChipListens` `QuadAgrees` `ImplementsNorArray` `EveryCallReturns` |

Four more runs end in a counterexample; section 6 describes them.  The
`TypeOK` of each module is proved with its inductive invariant; what the runs
check is deeper.

What the two youngest runs show, and under which conditions:

* `WifiConn`.  `StatusSettles`: when both tasks are at rest, bits and status
  agree with the link, whatever the interleaving of their stores; one exception
  is real and part of the property: a `begin` issued while events of an earlier
  attempt are pending may leave `_status` at WL_CONNECTING on a link that is
  up.  `ConnectSound`: `connect_AP` returns true only for a new connection to
  the network asked for, if it was called with no event and no attempt pending
  (`calm`).  Without `calm` this is false: the old attempt's got-IP event, or
  a bit not yet set when `begin` looks, makes it report the old network.
  `AddressIsOfThisLink`: after a `connect_AP` that found the state calm has
  returned true, the address answered is that connection's while it lasts.
* `Flash`.  The driver implements `NorArray`, an array of bytes: chunking and
  page ends never show and nothing outside the request changes, with resets of
  the K210 at any frame.  For a client that calls while the chip is busy (after
  an erase, say) whole calls may be ignored and reported as done, and even then
  nothing else is damaged.

Why the bounds are enough:

* `TBPipe`: 11 bytes go around a buffer of 6 twice, so both sides wrap, meet
  at the end exactly and leave `read_pos` on `BufferSize`.  The granule of 2
  lets rounding matter (6 - 1 = 5 places, 4 used) and is a word, so
  `WordsStayWhole` speaks of full pipes.  The proofs then drop the bounds.
* `MessageDebug`: three byte values take every branch of the parsers (first
  prefix byte, a byte that is second prefix byte, size and letter, line feed).
  Six places hold one packet with a prefix and the start of the next.  Seven
  bytes fill the buffers once and go on; where the ring's end cuts them does
  not depend on going around, because the empty pipe may stand at each place
  of `StartPlaces` at first (3 and 4 put the cut inside the first burst or the
  first message).  `SizingAssumption` is tight: with a buffer of 5, or a
  granule of 2, `NothingLost` fails.
* `TBinParse`: payload 3 fills the buffer exactly with its header, 4 does not
  fit, 0 is empty; three frames give predecessor and successor to each.
* `Esp32Link`: one command each that is quick, has a long answer, may abort,
  and may be slow; the FIFO overflows when an answer is late; after a failed
  transfer four others follow.
* `Esp32Sockets`: two slots can both be taken; the third connection finds no
  slot or no descriptor, and two failed transfers can take both slots.
* `Stm32Boot`: an activation, two commands and a restart, in all orders; a late
  answer of one call meets the next two.
* `WifiConn`: a connection, its loss, a second `begin` for another network and
  a question for the address fit into four calls and two connections.
* `Flash`: writes of up to four bytes at every address of two pages of three
  are cut by chunks, by the page's end, and by both; a byte needs one bit, as
  nothing relates the bits of a byte.

`CHECK_DEADLOCK FALSE` only in `Stm32Boot` and `WifiConn`: when the last call
is spent, and the boot loader waits for a command or the link is down, nothing
can happen, by the bounds.

## 4. Fairness

* `TBPipe`: a Write that has begun ends (an interrupt handler returns), a read
  that has begun ends, and the main loop comes back to `ReadStart` whatever it
  does in between (strong fairness: it may be inside other calls at times).  No
  fairness on the start of a Write.
* `MessageDebug`: the main loop never stops: it takes a window, appends it, if
  only nothing, gives it back and drains.  Nothing about the line.
* `Esp32Link`: both processors take their next step; a slow handler is *not*
  assumed to end, an abort may happen or not, nobody has to call a transfer.
  The waits of the K210 end by their timeouts.
* `Esp32Sockets`: only that the K210 goes on polling a socket it holds, which
  is what `read_many_from_socket` does.  Nothing about the network.
* `Stm32Boot`: the K210 goes on with a call (time passes), bytes on the wire
  arrive.  Nothing about the STM32.
* `WifiConn`: both tasks of the ESP32 go on, the K210's call goes on (its
  polling counts down), and the driver ends a scan, which is what
  `scanNetworks` relies on with `portMAX_DELAY`.  Nothing about connections.
* `Flash`: the chip does not stay busy for ever, the processor goes on with a
  call.

## 5. Proofs

Every invariant and every action property that a passing run checks, and the
three refinements, are theorems as well, for every value of the constants: any
buffer, page, chunk, FIFO, number of slots, calls, networks, bytes.  `MaxBytes`,
`MaxTransfers` and their like are the only bounds left, with no limit on their
values.  All proofs have one shape: an inductive invariant `IInv`, one lemma
per action that keeps it (`<Action>IInv`), `InvariantHolds`, and then a theorem
per property, named in `PROJECT.json`.  Before a proof was begun its `IInv` was
model-checked on the instance of section 3.

Assumptions are the named ASSUMEs of the modules (sizes that are naturals and not
zero, what fits into what), and three more where a theorem names them:
`Lossless`, `NoWrap` and `NoTimeout`, explained below.  In the model itself it
is assumed that stores become visible in program order.  The build without
`USE_BUILDIN_ATOMIC` has nothing that enforces this; between the main code and
an interrupt on the same core it is left to the compiler.

### TBPipe

`WindowIsStable`, `NoDataRaces`, `PositionsAreExact`, `ReservationsHold`,
`ClearIsComplete`, `WordsAreKeptWhole`, and `PipeImplementsFIFO`: the ring
buffer implements `PipeFIFO`.

None of these is inductive: that the reader copies the right bytes depends on
where the writer may write, and that on both positions agreeing with the
stream.  `IInv` (a property of the run too) adds this in parts:

* `PositionsCount`: bytes accepted and not given back equal the distance of
  the positions, in its two branches.
* `ReaderInv`: the window lies within what was published, and the position
  `ReadEnd` or `ReadExact` will store is the end of the window up to one lap
  (`Lies`): this carries the `read_pos = buffer_size` case.
* `WriterInv`: what a running Write fills fits in the free places and so
  remains disjoint from them, since the reader only frees more.
* `ContentInv`: published places hold the stream, and so do the places already
  copied by the running Write.
* `ClearInv`: after its first pass `Clear` has dropped the old bytes or is at
  the start of the buffer, so one more window suffices.

The refinement maps each step of `TBPipe` to `Accept`, `Take`, `Release`,
`Discard` or to nothing under the invariant.  `WordsAreKeptWhole` needs that
every Write and the granule are multiples of a word, which is its definition's
own condition.

### TBParse and MessageDebug (`MessageDebug_proofs`)

`MessagesInOrder`, `DrainIsComplete`, `OneFrameIsKept` about `TBParse`;
`NothingIsLost` and `LineMessagesInOrder` about the whole line.

The parser cuts the stream where `Append` does and scans an unfinished message
again and again; the reference sees each byte once.  `StreamInv` links them: a
reference that starts anew at the current message and goes through what is in
the buffer gets to where the streaming reference is.  `LineInv` adds that the
loop's prefix parser and that of such a reference will give the same verdicts
(`Similar`: where both stand, and the low byte of a size, but not what was left
from an earlier message), `QuietInv` what an empty result means.  The lemmas
they rest on are about the reference: `RefBytesGoOn` (its steps over two
sequences are those over the sequence of both), `RefBytesBehind` (messages
before make no difference), `PacketBytes`, `LineByteIs`, `ParseSimilar`.
`RefBytes` is a recursive function, so what it computes is reached by
`AllNumbers`, an induction over the naturals drawn from their well-foundedness.

`NoTimeout` (the timeout never expires at an `Append`) is what the theorems on
`TBParse`'s own `Spec` assume.  Every client leaves `timeout_us` at 0; with a
timeout they are false (section 6).  Those on `SpecLine` need no such
assumption: `MessageDebugQuant` never lets it expire.

`NothingIsLost` says that the two inequalities of `SizingAssumption` are enough
for any sizes.  `PipeInv` counts what is `Older` than the last `ReadStart`:
nothing between rounds, or less than a burst if the end of the ring has cut the
window, and then the next window starts at the start of the ring and is not cut.
So no window is longer than two bursts less one, and the pipe never holds more
than three less two when a byte comes.  `QuietInv` and `OneFrameIsKept` bound
what the window is appended to.

### TBinParse

`FramesInOrder`, `DrainIsComplete`, `RoomIsLeft`, and the action property
`FailureHasCause`.  `StreamInv` names for every frame the place where it ends,
counted from the start of the buffer through the bytes on the wire, and says
which byte of which frame each place holds.  Compacting shifts all places by the
same amount, and returning a message leaves them alone.

`NoWrap`: no size that is announced wraps when the header is added.  Without it
`FramesInOrder` is false in 32 bits, which is the finding `TBinParseWrap`.
`TypeCorrect` does without.

### Esp32Link

`HandshakeIsSound`, `AnswersAreOwn`, `FastCommandsAnswered`, and
`LinkIsRemoteCall`: the link implements `RemoteCall`.  `OrderInv` says that what
waits in the slave's transaction or its task has not been executed and is not
newer than the current command; the refinement needs no more, and holds with any
number of failures.  `CleanInv` relates the two processors step by step as long
as no transfer has failed: before a command is sent nothing of another one is
left anywhere, and afterwards what has arrived is a part of its own answer.

`Lossless`, in `FastCommandsAnswered`: the answer of each command in question
fits the FIFO and is as long as the K210 expects.  Without it the claim is false
(finding `Esp32LinkTemperature`).

### Esp32Sockets

`DescriptorsAreOwned`, `SlotsAreAccountedFor`, `HandlesAreStable` and
`LiveConnectionsAreKept`, for any number of slots and descriptors.  `OwnInv` ties each
descriptor that is a connection to one slot and the listening one to the server,
in both directions.  `OrphanInv` counts: no more slots out of the K210's reach
than transfers lost.  `LiveConnectionsAreKept` is an action property: each step
that gives a descriptor back (a close, a server that closes or starts anew, a
dead peer) is shown, with `OwnInv`, to leave the other connections where they
are; `ResetInv` adds that nothing is left to read of a connection that was
reset, so that a failing write throws nothing away.

### Stm32Boot

`AnswersAreOwn`, `EndsAreInStep`, `LogIsCurrent`.  The protocol has no numbers, so
`StepInv` has to say, for each place in a call, all that can be in flight and
what the STM32 waits for: a frame that was sent is on the line, or obeyed with
part of the answer still to come, or refused or lost.  It holds as long as no call
has failed since the last reset, which is the extent of the properties.

### WifiConn

`ConnectIsSound`, `StatusIsTrueAtRest`, `AddressIsCurrent`.  `BitInv` says what bits
and `_status` tell while events are on their way: that the latest event about the
link tells the truth, and what the handler in progress has stored already.
`CalmInv` follows a connection that was asked for with nothing pending: the link
comes up once at most for it, and there is one got-IP event on its way at most.

### Flash

`DriverIsHeard`, `QuadModeAgrees`, and `FlashIsNorArray`: driver and chip implement
`NorArray`.  `IdleInv` carries the client's one question about the chip from the
start of a call to the first frame that makes the chip busy; `WillBeQuad` accounts
for a mode change that the chip has accepted and not finished.

## 6. What the counterexamples show

* `TBParseTimeout` / `TimeoutStartsAfresh`: TBParse.h says the timeout clears
  the old data and puts the prefix parser into its initial state.  `Append`
  sets `buffer_amount` and nothing else: when a packet was awaited,
  `bin_message_size` survives and the first bytes of the new stream are
  returned as that packet.  No client sets the timeout today.
* `TBinParseWrap` / `OversizedIsRefused`: a header that announces a size near
  2^32 passes the size check, because the sum with the header's 8 wraps.
* `Esp32LinkTemperature` / `TemperatureAnswered`: the K210 waits for 16 bytes
  of temperature, the ESP32 sends 4; the call fails every time, after 10 s.
* `Esp32SocketsOpen` / `OpenReportsFailure`: a connect that fails is answered
  with the number of the slot that stays empty, not with 255.

Beyond the findings, several properties hold only while no transfer or call has
failed, and say so by a history variable (`clean`).  This is the true extent of
the promise: after one failure the late answer is taken for that of the next
command, on the ESP32 link until a reset of both sides, on the STM32 until the
next activation.  A TLS connection whose peer goes without a close_notify keeps
its slot and descriptor until the K210 closes the number: `GoneIsNoticed` speaks
of connections that were closed or reset, which is all the code promises.
`calm` in `WifiConn` and `careful` in `Flash` limit the promises in the same
way to calls that are not made too early, `misled` in `Esp32Sockets` to a K210
that was not given the number of an empty slot (the fourth finding).

## 7. Not modelled

* Only model-checked: the seven liveness properties (`EveryByteTaken`,
  `EveryMessageArrives`, `EveryTransferReturns`, `GoneIsNoticed`, and
  `EveryCallReturns` of three modules), which need fairness and are out of the
  prover's reach; and the four counterexamples.
* `WiFi.cpp`: host name, power mode, MAC, RSSI, ping and name lookup; the list
  of networks a scan found.
* `flash.c`: reads and identification, one frame each that changes nothing.
  No program of the repository calls the driver.
* A restart of the ESP32 with slot numbers still held by the K210: the driver
  has no notion of it, and a number from before may name another connection
  afterwards.  The handlers that can abort are those of the WiFi station, which
  the programs call before they open sockets, as they do the reset.
* `Esp32Link` sends a command in one step.  A slave that becomes ready while a
  command it was not waited for is being clocked out would hear the tail of it;
  in the model it hears all of it or nothing.
* `WifiConn` leaves out the aborts of `ESP_ERROR_CHECK` in `disconnect` and
  `scanNetworks` (they are in `Esp32Link`), and a K210 that gives up after 10 s
  while the command still runs: an answer is lost only when there is one.
* `MessageDebug` writes one byte per interrupt, where the callback may bring up
  to 32.  The room is rounded down at every `Write`, so single bytes find it
  used up sooner, and the model loses no fewer bytes than the code.
* `Flash` sends command and data of a frame (4 + 32 bytes) in one step although
  the FIFO of the SPI holds 32.  An interrupt that lets the FIFO run empty in
  between might end the frame early, which depends on the controller.
* One-bus builds of the ESP32 link, the link test's byte inversion, the list of
  networks (its length is agreed in the command before), use of `rx_buffer`
  after a failed transfer by the wrappers.
* TLS contexts and certificates; contents of socket data; UDP (no command
  reaches it).
* `Esp8266PrefixParser` and the esp8266 driver: compiled by no build.
* Camera registers, Python helpers, demos: no state of interest.  Host tests
  and demos were read for what they expect of the classes.
* `src/sdk` (four fifths of all lines), nncase, xtl: third-party.  What the
  drivers rely on there is modelled where they use it: the UART's interrupt in
  `MessageDebug` and `Stm32Boot`, the SPI FIFO in `Esp32Link`.

## 8. Plan

Done: 1 `PipeFIFO`, `TBPipe` and its proofs; 2 `TBParse`; 3 `TBinParse`;
4 `RemoteCall`, `Esp32Link`; 5 `Esp32Sockets`, with failing transfers; 6 `Stm32Boot`;
7 `WifiConn`; 8 `NorArray`, `Flash`; 9 `MessageDebug`;
10 proofs of all safety properties and of the three refinements.

Next: `RemoteCall` under `Esp32Sockets`, with late answers and restarts, and its
proofs.  For `TBParse` with a timeout: a variant of `Append` that also resets
`buffer_pos` and `bin_message_size`, and the proof that then `InOrder` holds for
any timeout.
