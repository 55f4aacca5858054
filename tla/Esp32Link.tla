------------------------------ MODULE Esp32Link ------------------------------
(***************************************************************************)
(* The command link between the K210 and the ESP32: one request and one    *)
(* response per esp32_transfer (drivers/esp32/esp32_spi.cpp) over two      *)
(* one-way SPI buses, with a ready pin driven by the ESP32.                *)
(*                                                                         *)
(* Three parties run side by side: the K210's main code, the ESP32's task  *)
(* (loop in sketch.ino.cpp, SpiSlave::transfer in SPIS.cpp) and the        *)
(* ESP32's interrupt on the chip select.  The interrupt runs on the core   *)
(* of the task, so the task makes no step while it is pending.  Responses  *)
(* go into the K210's SPI2 FIFO; nothing on the wire says to which command *)
(* they belong, and nothing empties the FIFO after a transfer that failed. *)
(*                                                                         *)
(* A word of a response is <<id, i>>: word i of the response to the        *)
(* command with number id.  The numbers are history only.                  *)
(***************************************************************************)
EXTENDS Integers, Sequences

CONSTANTS
  Commands,      \* names of commands in use: subset of AllCommands
  FifoDepth,     \* words the SPI2 FIFO holds
  MaxTransfers   \* bound: calls of esp32_transfer in one behaviour

\* The commands the K210 sends (CESP_ is left off).  Two are not here: the
\* byte inversion of the link test and the list of networks, whose response is
\* as long as both sides have agreed before.
AllCommands ==
  {"SET_DEBUG", "GET_FW_VERSION", "GET_TEMPERATURE", "TCP_SERVER_CREATE",
   "TCP_SERVER_STOP", "TCP_SERVER_ACCEPT", "SET_SSID_AND_PASS",
   "SCAN_NETWORKS", "STARTING_AP", "GET_CONN_STATUS", "GET_IP_ADDR",
   "START_SOCKET_CLIENT", "CLOSE_SOCKET", "GET_SOCKET_STATE",
   "AVAIL_SOCKET_DATA", "SEND_SOCKET_DATA", "READ_SOCKET_DATA",
   "REQ_HOST_BY_NAME", "PING"}

\* Words of READ_SOCKET_DATA: the K210 asks for 8 bytes.
ReadWords == 3

\* Words of the response the K210 waits for.
Wanted ==
  [c \in AllCommands |->
     CASE c \in {"GET_FW_VERSION", "GET_TEMPERATURE"} -> 4
       [] c = "GET_IP_ADDR"                           -> 3
       [] c = "REQ_HOST_BY_NAME"                      -> 2
       [] c = "READ_SOCKET_DATA"                      -> ReadWords
       [] OTHER                                       -> 1]

\* Mutant: the handler of the address answers one word short.
GivenShort ==
  [c \in AllCommands |->
     CASE c = "GET_FW_VERSION"   -> 4
       [] c = "READ_SOCKET_DATA" -> ReadWords
       [] c \in {"GET_IP_ADDR", "REQ_HOST_BY_NAME"} -> 2
       [] OTHER                  -> 1]

\* Words the handler of the ESP32 returns.
Given ==
  [c \in AllCommands |->
     CASE c = "GET_FW_VERSION"   -> 4
       [] c = "GET_IP_ADDR"      -> 3
       [] c = "REQ_HOST_BY_NAME" -> 2
       [] c = "READ_SOCKET_DATA" -> ReadWords
       [] OTHER                  -> 1]

\* Handlers that ask the network: they may need longer than the K210 waits.
SlowCommands ==
  {"SCAN_NETWORKS", "START_SOCKET_CLIENT", "REQ_HOST_BY_NAME", "PING"}

\* Handlers that may end in ESP_ERROR_CHECK's abort.
AbortingCommands == {"SET_SSID_AND_PASS", "STARTING_AP", "SCAN_NETWORKS"}

ASSUME CommandsAssumption == Commands \subseteq AllCommands
ASSUME BoundsAssumption ==
  /\ FifoDepth \in Nat \ {0}
  /\ MaxTransfers \in Nat

VARIABLES
  \* K210
  kpc,        \* where esp32_transfer is
  cmd,        \* the command being transferred, or the last one
  rx_buffer,  \* words received for it
  late,       \* the 10 seconds of spi2_slave_receive4 have passed
  ok,         \* what esp32_transfer returned
  fifo,       \* SPI2 receive FIFO
  \* wires and the ESP32's SPI slave driver
  ready,      \* level of the ready pin; float: no one drives it
  isr,        \* the falling edge of chip select has not been handled yet
  trans,      \* the driver's transaction: none, armed, done
  commandBuffer,
  \* ESP32 task
  epc,        \* where loop is
  sent,       \* words of the response sent so far
  \* history
  executed,   \* numbers of the commands whose handler ran, in order
  sure,       \* this transfer saw the ready pin driven low before it began
  clean       \* no transfer has failed so far

k210 == <<kpc, cmd, rx_buffer, late, ok, sure, clean>>
vars == <<k210, fifo, ready, isr, trans, commandBuffer, epc, sent, executed>>

\* What a zeroed command buffer says: command 0 (CESP_INVERT_BYTES), size 0.
NoCommand == [id |-> 0, name |-> "invert"]

Gives(c) == IF c = NoCommand THEN 0 ELSE Given[c.name]

\* The response to command c.
Answer(c) == [i \in 1 .. Gives(c) |-> <<c.id, i>>]

-----------------------------------------------------------------------------

\* Both processors have power; test_esp32 begins with esp32_spi_reset.
Init ==
  /\ kpc = "reset"
  /\ cmd = NoCommand
  /\ rx_buffer = <<>>
  /\ late = FALSE
  /\ ok = TRUE
  /\ fifo = <<>>
  /\ ready = "float"
  /\ isr = FALSE
  /\ trans = "none"
  /\ commandBuffer = NoCommand
  /\ epc = "off"
  /\ sent = 0
  /\ executed = <<>>
  /\ sure = FALSE
  /\ clean = TRUE

-----------------------------------------------------------------------------
(* The ESP32 task; isr: the interrupt comes first. *)

\* After a reset or an abort: begin drives the ready pin high.
EspBegin ==
  /\ epc = "off"
  /\ kpc # "reset"
  /\ epc' = "queue"
  /\ ready' = "high"
  /\ UNCHANGED <<k210, fifo, isr, trans, commandBuffer, sent, executed>>

\* Mutant: the slave says it is ready before the transaction is queued.
QueueReadyFirst ==
  /\ epc = "queue"
  /\ ~ isr
  /\ epc' = "armed"
  /\ ready' = "low"
  /\ commandBuffer' = NoCommand
  /\ UNCHANGED <<k210, fifo, isr, trans, sent, executed>>

\* The buffer is cleared and the transaction queued; the driver sets it up and
\* onSetupComplete gives the semaphore.
Queue ==
  /\ epc = "queue"
  /\ ~ isr
  /\ epc' = "armed"
  /\ trans' = "armed"
  /\ commandBuffer' = NoCommand
  /\ UNCHANGED <<k210, fifo, ready, isr, sent, executed>>

\* The semaphore is taken and the ready pin driven low.
ReadyLow ==
  /\ epc = "armed"
  /\ ~ isr
  /\ epc' = "low"
  /\ ready' = "low"
  /\ UNCHANGED <<k210, fifo, isr, trans, commandBuffer, sent, executed>>

\* Mutant: a transaction without any bytes is handled like a command.
TakeResultEmpty ==
  /\ epc = "low"
  /\ trans = "done"
  /\ ~ isr
  /\ trans' = "none"
  /\ ready' = "high"
  /\ epc' = "handle"
  /\ UNCHANGED <<k210, fifo, isr, commandBuffer, sent, executed>>

\* The transaction is done: ready goes high; without any bytes loop starts
\* over, otherwise the command is handled.
TakeResult ==
  /\ epc = "low"
  /\ trans = "done"
  /\ ~ isr
  /\ trans' = "none"
  /\ ready' = "high"
  /\ epc' = IF commandBuffer = NoCommand THEN "queue" ELSE "handle"
  /\ UNCHANGED <<k210, fifo, isr, commandBuffer, sent, executed>>

\* The handler runs to its end.
Handle ==
  /\ epc = "handle"
  /\ ~ isr
  /\ executed' = Append(executed, commandBuffer.id)
  /\ sent' = 0
  /\ epc' = IF Gives(commandBuffer) = 0 THEN "queue" ELSE "respond"
  /\ UNCHANGED <<k210, fifo, ready, isr, trans, commandBuffer>>

\* The ESP32 is gone: by abort in a handler, or by the reset pin.
EspOff ==
  /\ epc' = "off"
  /\ ready' = "float"
  /\ isr' = FALSE
  /\ trans' = "none"
  /\ commandBuffer' = NoCommand
  /\ sent' = 0

\* ESP_ERROR_CHECK fails in the handler.
Abort ==
  /\ epc = "handle"
  /\ commandBuffer # NoCommand
  /\ commandBuffer.name \in AbortingCommands
  /\ EspOff
  /\ UNCHANGED <<k210, fifo, executed>>

\* A word reaches the K210; there is no flow control.
Push(w) == fifo' = IF Len(fifo) < FifoDepth THEN Append(fifo, w) ELSE fifo

\* SpiMaster::send, one word.
SendWord ==
  /\ epc = "respond"
  /\ ~ isr
  /\ Push(Answer(commandBuffer)[sent + 1])
  /\ sent' = IF sent + 1 = Gives(commandBuffer) THEN 0 ELSE sent + 1
  /\ epc' = IF sent + 1 = Gives(commandBuffer) THEN "queue" ELSE "respond"
  /\ UNCHANGED <<k210, ready, isr, trans, commandBuffer, executed>>

\* The interrupt: the K210 has taken notice, ready goes high.
OnChipSelect ==
  /\ isr
  /\ isr' = FALSE
  /\ ready' = "high"
  /\ UNCHANGED <<k210, fifo, trans, commandBuffer, epc, sent, executed>>

EspTask ==
  EspBegin \/ Queue \/ ReadyLow \/ TakeResult \/ SendWord \/ OnChipSelect

-----------------------------------------------------------------------------
(* The K210 *)

\* The ESP32 may make no step for longer than any wait of the K210: it is
\* off, it is inside a slow handler, or it waits for the K210.
Stalled ==
  /\ ~ isr
  /\ \/ epc = "off"
     \/ epc = "handle" /\ commandBuffer # NoCommand /\ commandBuffer.name \in SlowCommands
     \/ epc = "low" /\ trans # "done"

\* esp32_transfer is called.
Transfer(name) ==
  /\ kpc = "idle"
  /\ cmd.id < MaxTransfers
  /\ kpc' = "waitLow"
  /\ cmd' = [id |-> cmd.id + 1, name |-> name]
  /\ rx_buffer' = <<>>
  /\ late' = FALSE
  /\ sure' = FALSE
  /\ UNCHANGED <<ok, clean, fifo, ready, isr, trans, commandBuffer, epc, sent,
                 executed>>

\* Waits up to 10 s for the ready pin to be low.  The result of the wait is
\* compared with "< 0", which a bool never is: the transfer goes on anyway.
WaitLow ==
  /\ kpc = "waitLow"
  /\ ready \in {"low", "float"} \/ Stalled
  /\ kpc' = "select"
  /\ sure' = (ready = "low")
  /\ UNCHANGED <<cmd, rx_buffer, late, ok, clean, fifo, ready, isr, trans,
                 commandBuffer, epc, sent, executed>>

\* Chip select goes low; an ESP32 that runs is interrupted.
Select ==
  /\ kpc = "select"
  /\ kpc' = "waitHigh"
  /\ isr' = (epc # "off")
  /\ UNCHANGED <<cmd, rx_buffer, late, ok, sure, clean, fifo, ready, trans,
                 commandBuffer, epc, sent, executed>>

\* Waits up to 1 s for the ready pin to be high, and goes on anyway.
WaitHigh ==
  /\ kpc = "waitHigh"
  /\ ready \in {"high", "float"} \/ Stalled
  /\ kpc' = "send"
  /\ UNCHANGED <<cmd, rx_buffer, late, ok, sure, clean, fifo, ready, isr,
                 trans, commandBuffer, epc, sent, executed>>

\* The command is clocked out; a slave that is not armed does not hear it.
Send ==
  /\ kpc = "send"
  /\ kpc' = "deselect"
  /\ commandBuffer' = IF trans = "armed" THEN cmd ELSE commandBuffer
  /\ UNCHANGED <<cmd, rx_buffer, late, ok, sure, clean, fifo, ready, isr,
                 trans, epc, sent, executed>>

\* Chip select goes high, which ends the transaction, with or without bytes.
Deselect ==
  /\ kpc = "deselect"
  /\ kpc' = "receive"
  /\ trans' = IF trans = "armed" THEN "done" ELSE trans
  /\ UNCHANGED <<cmd, rx_buffer, late, ok, sure, clean, fifo, ready, isr,
                 commandBuffer, epc, sent, executed>>

\* The deadline passes while there is nothing to read.
Deadline ==
  /\ kpc = "receive"
  /\ ~ late
  /\ fifo = <<>>
  /\ Stalled
  /\ late' = TRUE
  /\ UNCHANGED <<kpc, cmd, rx_buffer, ok, sure, clean, fifo, ready, isr,
                 trans, commandBuffer, epc, sent, executed>>

\* esp32_transfer returns.
Return(result) ==
  /\ kpc' = "idle"
  /\ ok' = result
  /\ clean' = (clean /\ result)

\* Mutant: what has been read at once is the answer.
ReceiveOnce ==
  /\ kpc = "receive"
  /\ fifo # <<>> \/ late
  /\ rx_buffer' = fifo
  /\ fifo' = <<>>
  /\ Return(~ late)
  /\ UNCHANGED <<cmd, late, sure, ready, isr, trans, commandBuffer, epc, sent,
                 executed>>

\* Mutant: the deadline is forgotten.
ReceivePatient ==
  LET need == Wanted[cmd.name] - Len(rx_buffer)
      n    == IF Len(fifo) < need THEN Len(fifo) ELSE need
  IN  /\ kpc = "receive"
      /\ fifo # <<>>
      /\ rx_buffer' = rx_buffer \o SubSeq(fifo, 1, n)
      /\ fifo' = SubSeq(fifo, n + 1, Len(fifo))
      /\ IF n = need THEN Return(TRUE) ELSE UNCHANGED <<kpc, ok, clean>>
      /\ UNCHANGED <<cmd, late, sure, ready, isr, trans, commandBuffer, epc,
                     sent, executed>>

\* One round of spi2_slave_receive4: take what is there and needed; then look
\* at the clock first, at the number of words after.
Receive ==
  LET need == Wanted[cmd.name] - Len(rx_buffer)
      n    == IF Len(fifo) < need THEN Len(fifo) ELSE need
  IN  /\ kpc = "receive"
      /\ fifo # <<>> \/ late
      /\ rx_buffer' = rx_buffer \o SubSeq(fifo, 1, n)
      /\ fifo' = SubSeq(fifo, n + 1, Len(fifo))
      /\ IF late THEN Return(FALSE)
         ELSE IF n = need THEN Return(TRUE)
         ELSE UNCHANGED <<kpc, ok, clean>>
      /\ UNCHANGED <<cmd, late, sure, ready, isr, trans, commandBuffer, epc,
                     sent, executed>>

\* esp32_spi_reset: the reset pin goes low ...
ResetLow ==
  /\ kpc = "idle"
  /\ kpc' = "reset"
  /\ EspOff
  /\ UNCHANGED <<cmd, rx_buffer, late, ok, sure, clean, fifo, executed>>

\* ... and high again; the ESP32 has 800 ms to start.
ResetHigh ==
  /\ kpc = "reset"
  /\ kpc' = "idle"
  /\ UNCHANGED <<cmd, rx_buffer, late, ok, sure, clean, fifo, ready, isr,
                 trans, commandBuffer, epc, sent, executed>>

K210Step ==
  \/ WaitLow \/ Select \/ WaitHigh \/ Send \/ Deselect \/ Deadline \/ Receive
  \/ ResetHigh

Next ==
  \/ EspTask
  \/ Handle
  \/ Abort
  \/ K210Step
  \/ \E name \in Commands : Transfer(name)
  \/ ResetLow

Spec == Init /\ [][Next]_vars

\* Both processors run; a slow handler is not assumed to end.  The waits end
\* by their timeouts, which are steps of the K210.
Fairness ==
  /\ WF_vars(EspTask)
  /\ WF_vars(~ Stalled /\ Handle)
  /\ WF_vars(K210Step)

FairSpec == Spec /\ Fairness

-----------------------------------------------------------------------------
(* Properties *)

TypeOK ==
  /\ kpc \in {"idle", "waitLow", "select", "waitHigh", "send", "deselect",
              "receive", "reset"}
  /\ cmd \in [id : 0 .. MaxTransfers, name : Commands \union {"invert"}]
  /\ commandBuffer \in [id : 0 .. MaxTransfers, name : Commands \union {"invert"}]
  /\ Len(fifo) <= FifoDepth
  /\ ready \in {"low", "high", "float"}
  /\ trans \in {"none", "armed", "done"}
  /\ epc \in {"off", "queue", "armed", "low", "handle", "respond"}
  /\ sent \in Nat
  /\ {isr, late, ok, sure, clean} \subseteq BOOLEAN

\* The handshake: a K210 that has seen the ready pin low clocks its command
\* into a slave that is armed and empty, whatever ran on the ESP32 since.
HandshakeSound ==
  (clean /\ sure /\ kpc = "send") => (trans = "armed" /\ commandBuffer = NoCommand)

\* While no transfer has failed, one that succeeds returns the response to its
\* own command, complete and in order; also across resets and aborts of the
\* ESP32, and after waits that have run out and were ignored.
AnswerIsOwn ==
  (clean /\ ok /\ kpc = "idle" /\ cmd # NoCommand) => rx_buffer = Answer(cmd)

\* The link implements RemoteCall: every command is executed at most once, none
\* before an earlier one and none that was not sent, however waits run out and
\* resets, aborts and late handlers fall; and while no transfer has failed, one
\* that succeeds has been executed before it returns, and none afterwards.
Promise == INSTANCE RemoteCall WITH
  MaxCalls <- MaxTransfers,
  made <- cmd.id,
  running <- kpc \notin {"idle", "reset"},
  executed <- executed,
  clean <- clean

ImplementsRemoteCall == Promise!Spec

\* While no transfer has failed, a command that the ESP32 answers without
\* asking the network, sent to an ESP32 that was ready, succeeds.
FastCommandAnswered ==
  [][(Receive /\ kpc' = "idle" /\ clean /\ sure
        /\ cmd.name \notin SlowCommands \union AbortingCommands) => ok']_vars

\* Esp32CommandList.h: each command is followed by the length of its response;
\* the temperature has 4 bytes.  So asking for it succeeds where any other
\* command does.
TemperatureAnswered ==
  [][(Receive /\ kpc' = "idle" /\ clean /\ sure /\ cmd.name = "GET_TEMPERATURE") => ok']_vars

\* esp32_transfer always returns, even when the ESP32 never comes back.
EveryTransferReturns == (kpc # "idle") ~> (kpc = "idle")
=============================================================================
