--------------------------- MODULE Esp32Link_proofs ---------------------------
(***************************************************************************)
(* Proofs about Esp32Link for any set of the commands, any depth of the    *)
(* FIFO and any number of transfers: the answer that a transfer returns is *)
(* its own as long as none has failed, and the link is a remote call.      *)
(***************************************************************************)
EXTENDS Esp32Link, TLAPS, SequenceTheorems

USE DEF k210

-----------------------------------------------------------------------------
(* The inductive invariant *)

Words == Nat \X Nat

\* The command that was executed last.
Last == IF executed = <<>> THEN 0 ELSE executed[Len(executed)]

\* esp32_transfer before the command is on the wire, and between two calls.
Unsent == {"waitLow", "select", "waitHigh", "send"}
Outside == {"idle", "reset"}

\* Words of the answer that are on the K210's side, and those sent, once the
\* handler has run.
Got == Len(rx_buffer) + Len(fifo)
Sent == IF epc = "respond" THEN sent ELSE Gives(cmd)

\* They are the first ones of the answer, in order.
InOrder ==
  /\ \A i \in 1 .. Len(rx_buffer) : rx_buffer[i] = <<cmd.id, i>>
  /\ \A i \in 1 .. Len(fifo) : fifo[i] = <<cmd.id, Len(rx_buffer) + i>>

\* Where the ESP32's task is and what it holds there; the K210 reads no more
\* words than it wants.
PlaceInv ==
  /\ TypeOK
  /\ fifo \in Seq(Words) /\ rx_buffer \in Seq(Words) /\ executed \in Seq(Nat)
  /\ ready = "low" => epc = "low"
  /\ trans # "none" <=> epc \in {"armed", "low"}
  /\ epc \in {"handle", "respond"} => commandBuffer # NoCommand
  /\ epc = "respond" => sent < Gives(commandBuffer)
  /\ kpc \notin Outside => cmd # NoCommand
  /\ kpc \in Unsent \union {"deselect"} => ~ late /\ rx_buffer = <<>>
  /\ kpc = "receive" => Len(rx_buffer) < Wanted[cmd.name]

\* Commands are executed in their order, each at most once.
OrderInv ==
  /\ cmd = NoCommand \/ (cmd.id > 0 /\ cmd.name \in Commands)
  /\ commandBuffer = NoCommand
       \/ (commandBuffer.id \in 1 .. cmd.id /\ commandBuffer.name \in Commands)
  /\ Last \in 0 .. cmd.id
  /\ kpc \in Unsent => Last < cmd.id
  /\ (epc \in {"armed", "low", "handle"} /\ commandBuffer # NoCommand) =>
       /\ Last < commandBuffer.id
       /\ kpc \in Unsent => commandBuffer.id < cmd.id

\* As long as no transfer has failed: before a command is sent the ESP32 holds
\* no other one and nothing is left of its answer; afterwards it holds this
\* one, and what has arrived is from its answer.
CleanInv ==
  clean =>
    /\ kpc \in Outside \union Unsent =>
         /\ fifo = <<>>
         /\ trans # "done" /\ epc \notin {"handle", "respond"}
         /\ trans = "armed" => commandBuffer = NoCommand
    /\ (sure /\ kpc \in {"select", "waitHigh", "send"}) => epc = "low"
    /\ kpc \in {"deselect", "receive"} /\ Last < cmd.id =>
         /\ fifo = <<>> /\ rx_buffer = <<>> /\ epc # "respond"
         /\ epc \in {"armed", "low", "handle"} => commandBuffer \in {NoCommand, cmd}
         /\ kpc = "deselect" => trans # "done" /\ epc # "handle"
    /\ kpc \in {"deselect", "receive"} /\ Last = cmd.id =>
         /\ kpc = "receive" /\ trans # "done" /\ epc # "handle"
         /\ trans = "armed" => commandBuffer = NoCommand
         /\ epc = "respond" => commandBuffer = cmd
         /\ Got <= Sent
         /\ Got = Sent => InOrder
    /\ kpc \in Outside /\ cmd # NoCommand => rx_buffer = Answer(cmd)

\* The FIFO takes the whole answer of every command that is neither slow nor
\* able to end in an abort, and the answer is as long as the K210 expects.
Lossless ==
  \A c \in Commands \ (SlowCommands \union AbortingCommands) :
    Given[c] = Wanted[c] /\ Given[c] <= FifoDepth

\* Then such a command, sent to an ESP32 that was ready, is on its way to be
\* executed, or its answer is, and no word of it is lost.
FastInv ==
  (Lossless /\ clean /\ sure /\ cmd.name \notin SlowCommands \union AbortingCommands) =>
    /\ kpc = "deselect" => epc = "low" /\ trans = "armed" /\ commandBuffer = cmd
    /\ kpc = "receive" =>
         /\ ~ late
         /\ Last < cmd.id => (epc = "low" /\ trans = "done" /\ commandBuffer = cmd)
                             \/ (epc = "handle" /\ commandBuffer = cmd)
         /\ Last = cmd.id => Got = Sent

IInv == PlaceInv /\ OrderInv /\ CleanInv /\ FastInv

-----------------------------------------------------------------------------
(* What the definitions come to *)

\* Every command has an answer, of at most four words, and none is longer than
\* the K210 expects.
LEMMA AnswerSizes ==
  ASSUME NEW c \in Commands
  PROVE  /\ Given[c] \in Nat /\ Wanted[c] \in Nat
         /\ 0 < Given[c] /\ Given[c] <= Wanted[c]
<1>1. c \in AllCommands
  BY CommandsAssumption
<1>2. Given[c] \in 1 .. 4 /\ Wanted[c] \in 1 .. 4
  BY <1>1 DEF Given, Wanted, ReadWords
<1>3. Given[c] <= Wanted[c]
  BY <1>1 DEF Given, Wanted, ReadWords, AllCommands
<1> QED
  BY <1>2, <1>3

\* The cleared buffer has number 0 and the name of no command in use.
LEMMA NoCommandIs ==
  /\ NoCommand.id = 0 /\ NoCommand.name = "invert"
  /\ NoCommand \in [id : 0 .. MaxTransfers, name : Commands \union {"invert"}]
  /\ "invert" \notin Commands
BY CommandsAssumption, BoundsAssumption DEF NoCommand, AllCommands

\* A command that was sent is answered with the words that Given says.
LEMMA SentCommand ==
  ASSUME NEW c, c.id > 0, c.name \in Commands
  PROVE  /\ c # NoCommand
         /\ Gives(c) = Given[c.name]
         /\ Gives(c) \in Nat /\ 0 < Gives(c) /\ Gives(c) <= Wanted[c.name]
         /\ Wanted[c.name] \in Nat
BY NoCommandIs, AnswerSizes DEF Gives

-----------------------------------------------------------------------------
(* The invariant holds initially *)

LEMMA InitIInv == Init => IInv
<1> SUFFICES ASSUME Init PROVE IInv
  OBVIOUS
<1> USE NoCommandIs, BoundsAssumption DEF Init
<1>1. PlaceInv
  <2>1. fifo \in Seq(Words) /\ rx_buffer \in Seq(Words) /\ executed \in Seq(Nat)
    OBVIOUS
  <2>2. {isr, late, ok, sure, clean} \subseteq BOOLEAN /\ Len(fifo) <= FifoDepth
    <3>1. Len(fifo) = 0
      BY EmptySeq
    <3>2. Len(fifo) <= FifoDepth
      BY <3>1
    <3>3. {isr, late, ok, sure, clean} \subseteq BOOLEAN
      OBVIOUS
    <3> QED
      BY <3>2, <3>3
  <2>3. TypeOK
    BY <2>2 DEF TypeOK
  <2> QED
    BY <2>1, <2>3 DEF PlaceInv, Outside, Unsent
<1>2. OrderInv
  BY DEF OrderInv, Last, Unsent
<1>3. CleanInv
  BY DEF CleanInv, Unsent, Outside
<1>4. FastInv
  BY DEF FastInv
<1> QED
  BY <1>1, <1>2, <1>3, <1>4 DEF IInv

-----------------------------------------------------------------------------
(* The ESP32's steps preserve it *)

\* A start of the ESP32 changes nothing but where its task is.
LEMMA EspBeginIInv == ASSUME IInv, EspBegin PROVE IInv'
<1> USE NoCommandIs, CommandsAssumption, BoundsAssumption DEF EspBegin
<1>1. PlaceInv'
  <2>1. TypeOK'
    BY DEF IInv, PlaceInv, TypeOK, EspOff
  <2> QED
    BY <2>1 DEF IInv, PlaceInv, TypeOK, OrderInv, Outside, Unsent, EspOff, Gives
<1>2. OrderInv'
  BY DEF IInv, PlaceInv, OrderInv, Last, Unsent, EspOff
<1>3. CleanInv'
  BY DEF IInv, PlaceInv, TypeOK, OrderInv, CleanInv, Last, Unsent, Outside, Got, Sent, InOrder, EspOff, Gives, Answer
<1>4. FastInv'
  BY DEF IInv, PlaceInv, TypeOK, OrderInv, CleanInv, FastInv, Lossless, Last, Unsent, Outside, Got, Sent, EspOff, Gives
<1> QED
  BY <1>1, <1>2, <1>3, <1>4 DEF IInv

\* Queueing a transaction empties the command buffer.
LEMMA QueueIInv == ASSUME IInv, Queue PROVE IInv'
<1> USE NoCommandIs, CommandsAssumption, BoundsAssumption DEF Queue
<1>1. PlaceInv'
  <2>1. TypeOK'
    BY DEF IInv, PlaceInv, TypeOK, EspOff
  <2> QED
    BY <2>1 DEF IInv, PlaceInv, TypeOK, OrderInv, Outside, Unsent, EspOff, Gives
<1>2. OrderInv'
  BY DEF IInv, PlaceInv, OrderInv, Last, Unsent, EspOff
<1>3. CleanInv'
  BY DEF IInv, PlaceInv, TypeOK, OrderInv, CleanInv, Last, Unsent, Outside, Got, Sent, InOrder, EspOff, Gives, Answer
<1>4. FastInv'
  BY DEF IInv, PlaceInv, TypeOK, OrderInv, CleanInv, FastInv, Lossless, Last, Unsent, Outside, Got, Sent, EspOff, Gives
<1> QED
  BY <1>1, <1>2, <1>3, <1>4 DEF IInv

\* The ready pin goes low with the transaction armed.
LEMMA ReadyLowIInv == ASSUME IInv, ReadyLow PROVE IInv'
<1> USE NoCommandIs, CommandsAssumption, BoundsAssumption DEF ReadyLow
<1>1. PlaceInv'
  <2>1. TypeOK'
    BY DEF IInv, PlaceInv, TypeOK, EspOff
  <2> QED
    BY <2>1 DEF IInv, PlaceInv, TypeOK, OrderInv, Outside, Unsent, EspOff, Gives
<1>2. OrderInv'
  BY DEF IInv, PlaceInv, OrderInv, Last, Unsent, EspOff
<1>3. CleanInv'
  BY DEF IInv, PlaceInv, TypeOK, OrderInv, CleanInv, Last, Unsent, Outside, Got, Sent, InOrder, EspOff, Gives, Answer
<1>4. FastInv'
  BY DEF IInv, PlaceInv, TypeOK, OrderInv, CleanInv, FastInv, Lossless, Last, Unsent, Outside, Got, Sent, EspOff, Gives
<1> QED
  BY <1>1, <1>2, <1>3, <1>4 DEF IInv

\* Taking the result leaves the command where it was.
LEMMA TakeResultIInv == ASSUME IInv, TakeResult PROVE IInv'
<1> USE NoCommandIs, CommandsAssumption, BoundsAssumption DEF TakeResult
<1>1. PlaceInv'
  <2>1. TypeOK'
    BY DEF IInv, PlaceInv, TypeOK, EspOff
  <2> QED
    BY <2>1 DEF IInv, PlaceInv, TypeOK, OrderInv, Outside, Unsent, EspOff, Gives
<1>2. OrderInv'
  BY DEF IInv, PlaceInv, OrderInv, Last, Unsent, EspOff
<1>3. CleanInv'
  BY DEF IInv, PlaceInv, TypeOK, OrderInv, CleanInv, Last, Unsent, Outside, Got, Sent, InOrder, EspOff, Gives, Answer
<1>4. FastInv'
  BY DEF IInv, PlaceInv, TypeOK, OrderInv, CleanInv, FastInv, Lossless, Last, Unsent, Outside, Got, Sent, EspOff, Gives
<1> QED
  BY <1>1, <1>2, <1>3, <1>4 DEF IInv

\* An abort loses the command, which then was not a fast one.
LEMMA AbortIInv == ASSUME IInv, Abort PROVE IInv'
<1> USE NoCommandIs, CommandsAssumption, BoundsAssumption DEF Abort
<1>1. PlaceInv'
  <2>1. TypeOK'
    BY DEF IInv, PlaceInv, TypeOK, EspOff
  <2> QED
    BY <2>1 DEF IInv, PlaceInv, TypeOK, OrderInv, Outside, Unsent, EspOff, Gives
<1>2. OrderInv'
  BY DEF IInv, PlaceInv, OrderInv, Last, Unsent, EspOff
<1>3. CleanInv'
  BY DEF IInv, PlaceInv, TypeOK, OrderInv, CleanInv, Last, Unsent, Outside, Got, Sent, InOrder, EspOff, Gives, Answer
<1>4. FastInv'
  BY DEF IInv, PlaceInv, TypeOK, OrderInv, CleanInv, FastInv, Lossless, Last, Unsent, Outside, Got, Sent, EspOff, Gives
<1> QED
  BY <1>1, <1>2, <1>3, <1>4 DEF IInv

\* The interrupt changes nothing but the ready pin.
LEMMA OnChipSelectIInv == ASSUME IInv, OnChipSelect PROVE IInv'
<1> USE NoCommandIs, CommandsAssumption, BoundsAssumption DEF OnChipSelect
<1>1. PlaceInv'
  <2>1. TypeOK'
    BY DEF IInv, PlaceInv, TypeOK, EspOff
  <2> QED
    BY <2>1 DEF IInv, PlaceInv, TypeOK, OrderInv, Outside, Unsent, EspOff, Gives
<1>2. OrderInv'
  BY DEF IInv, PlaceInv, OrderInv, Last, Unsent, EspOff
<1>3. CleanInv'
  BY DEF IInv, PlaceInv, TypeOK, OrderInv, CleanInv, Last, Unsent, Outside, Got, Sent, InOrder, EspOff, Gives, Answer
<1>4. FastInv'
  BY DEF IInv, PlaceInv, TypeOK, OrderInv, CleanInv, FastInv, Lossless, Last, Unsent, Outside, Got, Sent, EspOff, Gives
<1> QED
  BY <1>1, <1>2, <1>3, <1>4 DEF IInv

\* The end of the wait for the ready pin says whether it was low.
LEMMA WaitLowIInv == ASSUME IInv, WaitLow PROVE IInv'
<1> USE NoCommandIs, CommandsAssumption, BoundsAssumption DEF WaitLow
<1>1. PlaceInv'
  <2>1. TypeOK'
    BY DEF IInv, PlaceInv, TypeOK, EspOff
  <2> QED
    BY <2>1 DEF IInv, PlaceInv, TypeOK, OrderInv, Outside, Unsent, EspOff, Gives
<1>2. OrderInv'
  BY DEF IInv, PlaceInv, OrderInv, Last, Unsent, EspOff
<1>3. CleanInv'
  BY DEF IInv, PlaceInv, TypeOK, OrderInv, CleanInv, Last, Unsent, Outside, Got, Sent, InOrder, EspOff, Gives, Answer
<1>4. FastInv'
  BY DEF IInv, PlaceInv, TypeOK, OrderInv, CleanInv, FastInv, Lossless, Last, Unsent, Outside, Got, Sent, EspOff, Gives
<1> QED
  BY <1>1, <1>2, <1>3, <1>4 DEF IInv

\* Chip select changes nothing that the invariant speaks of.
LEMMA SelectIInv == ASSUME IInv, Select PROVE IInv'
<1> USE NoCommandIs, CommandsAssumption, BoundsAssumption DEF Select
<1>1. PlaceInv'
  <2>1. TypeOK'
    BY DEF IInv, PlaceInv, TypeOK, EspOff
  <2> QED
    BY <2>1 DEF IInv, PlaceInv, TypeOK, OrderInv, Outside, Unsent, EspOff, Gives
<1>2. OrderInv'
  BY DEF IInv, PlaceInv, OrderInv, Last, Unsent, EspOff
<1>3. CleanInv'
  BY DEF IInv, PlaceInv, TypeOK, OrderInv, CleanInv, Last, Unsent, Outside, Got, Sent, InOrder, EspOff, Gives, Answer
<1>4. FastInv'
  BY DEF IInv, PlaceInv, TypeOK, OrderInv, CleanInv, FastInv, Lossless, Last, Unsent, Outside, Got, Sent, EspOff, Gives
<1> QED
  BY <1>1, <1>2, <1>3, <1>4 DEF IInv

\* Nor does the wait for the ready pin to be high.
LEMMA WaitHighIInv == ASSUME IInv, WaitHigh PROVE IInv'
<1> USE NoCommandIs, CommandsAssumption, BoundsAssumption DEF WaitHigh
<1>1. PlaceInv'
  <2>1. TypeOK'
    BY DEF IInv, PlaceInv, TypeOK, EspOff
  <2> QED
    BY <2>1 DEF IInv, PlaceInv, TypeOK, OrderInv, Outside, Unsent, EspOff, Gives
<1>2. OrderInv'
  BY DEF IInv, PlaceInv, OrderInv, Last, Unsent, EspOff
<1>3. CleanInv'
  BY DEF IInv, PlaceInv, TypeOK, OrderInv, CleanInv, Last, Unsent, Outside, Got, Sent, InOrder, EspOff, Gives, Answer
<1>4. FastInv'
  BY DEF IInv, PlaceInv, TypeOK, OrderInv, CleanInv, FastInv, Lossless, Last, Unsent, Outside, Got, Sent, EspOff, Gives
<1> QED
  BY <1>1, <1>2, <1>3, <1>4 DEF IInv

\* A command is sent into a slave that holds no other one.
LEMMA SendIInv == ASSUME IInv, Send PROVE IInv'
<1> USE NoCommandIs, CommandsAssumption, BoundsAssumption DEF Send
<1>1. PlaceInv'
  <2>1. TypeOK'
    BY DEF IInv, PlaceInv, TypeOK, EspOff
  <2> QED
    BY <2>1 DEF IInv, PlaceInv, TypeOK, OrderInv, Outside, Unsent, EspOff, Gives
<1>2. OrderInv'
  <2>1. cmd.id > 0 /\ cmd.name \in Commands /\ cmd.id \in Nat /\ Last < cmd.id
    BY DEF IInv, PlaceInv, TypeOK, OrderInv, Unsent, Outside
  <2>2. CASE trans = "armed"
    <3>1. commandBuffer' = cmd /\ kpc' = "deselect" /\ Last' = Last /\ cmd' = cmd
      BY <2>2 DEF Last
    <3> QED
      BY <2>1, <3>1 DEF IInv, OrderInv, Unsent
  <2>3. CASE trans # "armed"
    BY <2>3 DEF IInv, OrderInv, Last, Unsent
  <2> QED
    BY <2>2, <2>3
<1>3. CleanInv'
  BY DEF IInv, PlaceInv, TypeOK, OrderInv, CleanInv, Last, Unsent, Outside, Got, Sent, InOrder, EspOff, Gives, Answer
<1>4. FastInv'
  BY DEF IInv, PlaceInv, TypeOK, OrderInv, CleanInv, FastInv, Lossless, Last, Unsent, Outside, Got, Sent, EspOff, Gives
<1> QED
  BY <1>1, <1>2, <1>3, <1>4 DEF IInv

\* The end of the transaction leaves the command in the buffer.
LEMMA DeselectIInv == ASSUME IInv, Deselect PROVE IInv'
<1> USE NoCommandIs, CommandsAssumption, BoundsAssumption DEF Deselect
<1>1. PlaceInv'
  <2>1. TypeOK'
    BY DEF IInv, PlaceInv, TypeOK, EspOff
  <2>2. Len(rx_buffer) < Wanted[cmd.name]
    <3>1. cmd.id > 0 /\ cmd.name \in Commands
      BY DEF IInv, PlaceInv, OrderInv, Outside
    <3>2. Len(rx_buffer) = 0
      BY EmptySeq DEF IInv, PlaceInv
    <3> QED
      BY <3>1, <3>2, SentCommand
  <2> QED
    BY <2>1, <2>2 DEF IInv, PlaceInv, TypeOK, OrderInv, Outside, Unsent, EspOff, Gives
<1>2. OrderInv'
  BY DEF IInv, PlaceInv, OrderInv, Last, Unsent, EspOff
<1>3. CleanInv'
  BY DEF IInv, PlaceInv, TypeOK, OrderInv, CleanInv, Last, Unsent, Outside, Got, Sent, InOrder, EspOff, Gives, Answer
<1>4. FastInv'
  BY DEF IInv, PlaceInv, TypeOK, OrderInv, CleanInv, FastInv, Lossless, Last, Unsent, Outside, Got, Sent, EspOff, Gives
<1> QED
  BY <1>1, <1>2, <1>3, <1>4 DEF IInv

\* The end of the reset changes nothing else.
LEMMA ResetHighIInv == ASSUME IInv, ResetHigh PROVE IInv'
<1> USE NoCommandIs, CommandsAssumption, BoundsAssumption DEF ResetHigh
<1>1. PlaceInv'
  <2>1. TypeOK'
    BY DEF IInv, PlaceInv, TypeOK, EspOff
  <2> QED
    BY <2>1 DEF IInv, PlaceInv, TypeOK, OrderInv, Outside, Unsent, EspOff, Gives
<1>2. OrderInv'
  BY DEF IInv, PlaceInv, OrderInv, Last, Unsent, EspOff
<1>3. CleanInv'
  BY DEF IInv, PlaceInv, TypeOK, OrderInv, CleanInv, Last, Unsent, Outside, Got, Sent, InOrder, EspOff, Gives, Answer
<1>4. FastInv'
  BY DEF IInv, PlaceInv, TypeOK, OrderInv, CleanInv, FastInv, Lossless, Last, Unsent, Outside, Got, Sent, EspOff, Gives
<1> QED
  BY <1>1, <1>2, <1>3, <1>4 DEF IInv

\* A reset loses what the ESP32 holds, which is nothing while clean.
LEMMA ResetLowIInv == ASSUME IInv, ResetLow PROVE IInv'
<1> USE NoCommandIs, CommandsAssumption, BoundsAssumption DEF ResetLow
<1>1. PlaceInv'
  <2>1. TypeOK'
    BY DEF IInv, PlaceInv, TypeOK, EspOff
  <2> QED
    BY <2>1 DEF IInv, PlaceInv, TypeOK, OrderInv, Outside, Unsent, EspOff, Gives
<1>2. OrderInv'
  BY DEF IInv, PlaceInv, OrderInv, Last, Unsent, EspOff
<1>3. CleanInv'
  BY DEF IInv, PlaceInv, TypeOK, OrderInv, CleanInv, Last, Unsent, Outside, Got, Sent, InOrder, EspOff, Gives, Answer
<1>4. FastInv'
  BY DEF IInv, PlaceInv, TypeOK, OrderInv, CleanInv, FastInv, Lossless, Last, Unsent, Outside, Got, Sent, EspOff, Gives
<1> QED
  BY <1>1, <1>2, <1>3, <1>4 DEF IInv

\* A call begins: nothing is left of the one before, if none has failed.
LEMMA TransferIInv ==
  ASSUME IInv, NEW name \in Commands, Transfer(name)
  PROVE  IInv'
<1> USE NoCommandIs, CommandsAssumption, BoundsAssumption DEF Transfer
<1>1. cmd.id \in Nat /\ cmd.id + 1 \in 0 .. MaxTransfers
  BY DEF IInv, PlaceInv, TypeOK
<1>2. cmd'.id = cmd.id + 1 /\ cmd'.name = name /\ cmd' # NoCommand /\ Last' = Last
  BY <1>1 DEF Last
<1>3. PlaceInv'
  <2>1. TypeOK'
    <3>1. cmd' \in [id : 0 .. MaxTransfers, name : Commands \union {"invert"}]
      BY <1>1
    <3>2. {isr, late, ok, sure, clean}' \subseteq BOOLEAN
      BY DEF IInv, PlaceInv, TypeOK
    <3> QED
      BY <3>1, <3>2 DEF IInv, PlaceInv, TypeOK
  <2>2. rx_buffer' \in Seq(Words)
    OBVIOUS
  <2> QED
    BY <1>2, <2>1, <2>2 DEF IInv, PlaceInv, Outside, Unsent, Gives
<1>4. OrderInv'
  BY <1>1, <1>2 DEF IInv, PlaceInv, OrderInv, Unsent
<1>5. CleanInv'
  BY <1>2 DEF IInv, PlaceInv, CleanInv, Unsent, Outside
<1>6. FastInv'
  BY DEF FastInv
<1> QED
  BY <1>3, <1>4, <1>5, <1>6 DEF IInv

\* The handler runs for a command that no handler has run for; while no
\* transfer has failed it is the one the K210 waits for.
LEMMA HandleIInv == ASSUME IInv, Handle PROVE IInv'
<1> USE NoCommandIs, CommandsAssumption, BoundsAssumption DEF Handle
<1>1. /\ commandBuffer # NoCommand
      /\ commandBuffer.id \in Nat /\ commandBuffer.id > 0 /\ commandBuffer.name \in Commands
      /\ commandBuffer.id <= cmd.id /\ cmd.id \in Nat
      /\ executed \in Seq(Nat)
  BY DEF IInv, PlaceInv, TypeOK, OrderInv
<1>2. Gives(commandBuffer) \in Nat /\ Gives(commandBuffer) > 0 /\ epc' = "respond"
  BY <1>1, SentCommand
<1>3. executed' \in Seq(Nat) /\ Last' = commandBuffer.id
  BY <1>1 DEF Last
<1>4. PlaceInv'
  <2>1. TypeOK'
    BY <1>2 DEF IInv, PlaceInv, TypeOK
  <2> QED
    BY <1>1, <1>2, <1>3, <2>1 DEF IInv, PlaceInv
<1>5. OrderInv'
  BY <1>1, <1>2, <1>3 DEF IInv, OrderInv
<1>6. clean => /\ kpc = "receive" /\ commandBuffer = cmd /\ trans = "none"
               /\ fifo = <<>> /\ rx_buffer = <<>>
  BY <1>1 DEF IInv, PlaceInv, TypeOK, OrderInv, CleanInv, Unsent, Outside
<1>7. clean => Got' = 0 /\ Sent' = 0 /\ InOrder'
  BY <1>2, <1>6 DEF Got, Sent, InOrder
<1>8. CleanInv'
  BY <1>3, <1>6, <1>7 DEF IInv, CleanInv, Unsent, Outside
<1>9. FastInv'
  BY <1>3, <1>6, <1>7 DEF IInv, FastInv, Lossless
<1> QED
  BY <1>4, <1>5, <1>8, <1>9 DEF IInv

\* A word of the answer is the next one in the FIFO, or it is lost; then it is
\* missing for good.
LEMMA SendWordIInv == ASSUME IInv, SendWord PROVE IInv'
<1> USE NoCommandIs, CommandsAssumption, BoundsAssumption DEF SendWord
<1> DEFINE w == Answer(commandBuffer)[sent + 1]
<1>1. /\ commandBuffer # NoCommand
      /\ commandBuffer.id \in Nat /\ commandBuffer.id > 0 /\ commandBuffer.name \in Commands
      /\ sent \in Nat /\ sent < Gives(commandBuffer) /\ trans = "none"
      /\ fifo \in Seq(Words) /\ rx_buffer \in Seq(Words) /\ Len(fifo) <= FifoDepth
  BY DEF IInv, PlaceInv, TypeOK, OrderInv
<1>2. Gives(commandBuffer) \in Nat /\ Gives(commandBuffer) = Given[commandBuffer.name]
  BY <1>1, SentCommand
<1>3. w = <<commandBuffer.id, sent + 1>> /\ w \in Words
  BY <1>1, <1>2 DEF Answer, Words
<1>4. /\ fifo' \in Seq(Words) /\ Len(fifo) \in Nat /\ Len(rx_buffer) \in Nat
      /\ \/ Len(fifo) = FifoDepth /\ fifo' = fifo
         \/ /\ Len(fifo) < FifoDepth /\ fifo' = Append(fifo, w)
            /\ Len(fifo') = Len(fifo) + 1 /\ fifo'[Len(fifo) + 1] = w
            /\ \A i \in 1 .. Len(fifo) : fifo'[i] = fifo[i]
  BY <1>1, <1>3 DEF Push
<1>5. PlaceInv'
  <2>1. Len(fifo') <= FifoDepth
    BY <1>1, <1>4
  <2>2. sent' \in Nat
    BY <1>1
  <2>3. TypeOK'
    BY <2>1, <2>2 DEF IInv, PlaceInv, TypeOK
  <2>4. epc' = "respond" => sent' < Gives(commandBuffer)
    BY <1>1, <1>2
  <2>5. Gives(commandBuffer)' = Gives(commandBuffer)
    BY DEF Gives
  <2> QED
    BY <1>1, <1>4, <2>3, <2>4, <2>5 DEF IInv, PlaceInv
<1>6. OrderInv'
  BY DEF IInv, OrderInv, Last
<1>7. clean => /\ kpc = "receive" /\ commandBuffer = cmd /\ Last = cmd.id
               /\ Got <= Sent /\ (Got = Sent => InOrder)
  BY <1>1 DEF IInv, PlaceInv, TypeOK, OrderInv, CleanInv, Last, Unsent, Outside
<1>8. clean => Sent = sent /\ Sent' = sent + 1 /\ Got \in Nat /\ Got' \in {Got, Got + 1}
  <2>1. Got \in Nat /\ Got' \in {Got, Got + 1}
    <3>1. Len(fifo') \in {Len(fifo), Len(fifo) + 1}
      BY <1>4
    <3>2. rx_buffer' = rx_buffer
      OBVIOUS
    <3>3. Got = Len(rx_buffer) + Len(fifo) /\ Got' = Len(rx_buffer) + Len(fifo')
      BY <3>2 DEF Got
    <3>4. Len(fifo) \in Nat /\ Len(rx_buffer) \in Nat
      BY <1>4
    <3> HIDE DEF SendWord
    <3> QED
      BY ONLY <3>1, <3>3, <3>4
  <2>2. commandBuffer = cmd => Gives(cmd)' = Gives(commandBuffer)
    BY DEF Gives
  <2>3. commandBuffer = cmd => Sent = sent /\ Sent' = sent + 1
    BY <1>1, <1>2, <2>2 DEF Sent
  <2> QED
    BY <1>7, <2>1, <2>3
<1>9. clean /\ Got' = Sent' => InOrder'
  <2> SUFFICES ASSUME clean, Got' = Sent' PROVE InOrder'
    OBVIOUS
  <2>1. Got = sent /\ Got' = Got + 1
    BY <1>1, <1>7, <1>8
  <2>2. /\ Len(fifo') = Len(fifo) + 1 /\ fifo'[Len(fifo) + 1] = w
        /\ \A i \in 1 .. Len(fifo) : fifo'[i] = fifo[i]
    BY <1>4, <2>1 DEF Got
  <2>3. w = <<cmd.id, Len(rx_buffer) + (Len(fifo) + 1)>>
    BY <1>3, <1>4, <1>7, <2>1 DEF Got
  <2>4. InOrder
    BY <1>7, <1>8, <2>1
  <2>5. ASSUME NEW i \in 1 .. Len(fifo')
        PROVE  fifo'[i] = <<cmd.id, Len(rx_buffer) + i>>
    <3>1. i \in 1 .. Len(fifo) \/ i = Len(fifo) + 1
      BY <1>4, <2>2
    <3> QED
      BY <2>2, <2>3, <2>4, <3>1 DEF InOrder
  <2> QED
    BY <2>4, <2>5 DEF InOrder
<1>10. CleanInv'
  BY <1>1, <1>7, <1>8, <1>9 DEF CleanInv, Last, Unsent, Outside
<1>11. FastInv'
  <2> SUFFICES ASSUME Lossless, clean, sure,
                      cmd.name \notin SlowCommands \union AbortingCommands
               PROVE  Got' = Sent'
    BY <1>7, <1>8 DEF IInv, FastInv, Lossless, Last
  <2>1. Got = sent /\ Gives(cmd) <= FifoDepth
    BY <1>1, <1>2, <1>7, <1>8 DEF IInv, FastInv, Lossless
  <2>2. Len(fifo) < FifoDepth
    BY <1>1, <1>2, <1>4, <1>7, <2>1 DEF Got
  <2> QED
    BY <1>4, <1>8, <2>1, <2>2 DEF Got
<1> QED
  BY <1>5, <1>6, <1>10, <1>11 DEF IInv


\* The deadline of a fast command that reached a ready ESP32 does not pass: its
\* answer is complete as soon as the ESP32 waits again.
LEMMA DeadlineIInv == ASSUME IInv, Deadline PROVE IInv'
<1> USE NoCommandIs, CommandsAssumption, BoundsAssumption DEF Deadline
<1>1. cmd # NoCommand /\ cmd.id > 0 /\ cmd.name \in Commands
  BY DEF IInv, PlaceInv, OrderInv, Outside
<1>2. Gives(cmd) = Given[cmd.name] /\ Gives(cmd) \in Nat /\ Wanted[cmd.name] \in Nat
  BY <1>1, SentCommand
<1>3. PlaceInv'
  <2>1. TypeOK'
    BY DEF IInv, PlaceInv, TypeOK
  <2> QED
    BY <2>1 DEF IInv, PlaceInv, Outside, Unsent, Gives
<1>4. OrderInv'
  BY DEF IInv, OrderInv, Last
<1>5. CleanInv'
  BY DEF IInv, CleanInv, Last, Got, Sent, InOrder, Gives, Answer
<1>6. FastInv'
  <2> SUFFICES ASSUME Lossless, clean, sure,
                      cmd.name \notin SlowCommands \union AbortingCommands
               PROVE  FALSE
    BY DEF FastInv, Lossless
  <2>1. Last = cmd.id /\ epc # "respond"
    BY DEF IInv, PlaceInv, TypeOK, OrderInv, FastInv, Stalled
  <2>2. Len(rx_buffer) = Gives(cmd) /\ Len(rx_buffer) < Wanted[cmd.name]
    <3>1. Len(fifo) = 0 /\ Len(rx_buffer) \in Nat
      BY EmptySeq DEF IInv, PlaceInv
    <3>2. Got = Gives(cmd) /\ Len(rx_buffer) < Wanted[cmd.name]
      BY <2>1 DEF IInv, FastInv, PlaceInv, Sent
    <3> QED
      BY <3>1, <3>2 DEF Got
  <2> QED
    BY <1>1, <1>2, <2>2 DEF Lossless
<1> QED
  BY <1>3, <1>4, <1>5, <1>6 DEF IInv

\* Words taken off the FIFO go to the end of the buffer.
LEMMA Taken ==
  ASSUME NEW S, NEW r \in Seq(S), NEW q \in Seq(S), NEW n \in 0 .. Len(q)
  PROVE  /\ r \o SubSeq(q, 1, n) \in Seq(S)
         /\ SubSeq(q, n + 1, Len(q)) \in Seq(S)
         /\ Len(r) \in Nat /\ Len(q) \in Nat
         /\ Len(r \o SubSeq(q, 1, n)) = Len(r) + n
         /\ Len(SubSeq(q, n + 1, Len(q))) = Len(q) - n
         /\ \A i \in 1 .. Len(r) : (r \o SubSeq(q, 1, n))[i] = r[i]
         /\ \A i \in 1 .. n : (r \o SubSeq(q, 1, n))[Len(r) + i] = q[i]
         /\ \A i \in 1 .. Len(q) - n : SubSeq(q, n + 1, Len(q))[i] = q[n + i]
<1>1. Len(r) \in Nat /\ Len(q) \in Nat /\ n \in Nat
  OBVIOUS
<1>2. /\ SubSeq(q, 1, n) \in Seq(S) /\ Len(SubSeq(q, 1, n)) = n
      /\ \A i \in 1 .. n : SubSeq(q, 1, n)[i] = q[i]
  BY <1>1
<1>3. /\ SubSeq(q, n + 1, Len(q)) \in Seq(S) /\ Len(SubSeq(q, n + 1, Len(q))) = Len(q) - n
      /\ \A i \in 1 .. Len(q) - n : SubSeq(q, n + 1, Len(q))[i] = q[n + i]
  BY <1>1
<1> QED
  BY <1>1, <1>2, <1>3

\* What one round of the wait takes, and what it makes of the call.
LEMMA Received ==
  ASSUME IInv, Receive
  PROVE  \E n \in Nat :
           /\ n <= Len(fifo) /\ Len(rx_buffer) \in Nat /\ Len(fifo) \in Nat
           /\ rx_buffer' \in Seq(Words) /\ fifo' \in Seq(Words)
           /\ Len(rx_buffer') = Len(rx_buffer) + n /\ Len(fifo') = Len(fifo) - n
           /\ \A i \in 1 .. Len(rx_buffer) : rx_buffer'[i] = rx_buffer[i]
           /\ \A i \in 1 .. n : rx_buffer'[Len(rx_buffer) + i] = fifo[i]
           /\ \A i \in 1 .. Len(fifo) - n : fifo'[i] = fifo[n + i]
           /\ \/ kpc' = "idle" /\ ok' = FALSE /\ clean' = FALSE
              \/ /\ ~ late /\ kpc' = "idle" /\ ok' = TRUE /\ clean' = clean
                 /\ Len(rx_buffer) + n = Wanted[cmd.name]
              \/ /\ ~ late /\ UNCHANGED <<kpc, ok, clean>>
                 /\ Len(fifo) = n /\ Len(rx_buffer) + n < Wanted[cmd.name]
<1> DEFINE need == Wanted[cmd.name] - Len(rx_buffer)
           n    == IF Len(fifo) < need THEN Len(fifo) ELSE need
<1>1. /\ cmd.id > 0 /\ cmd.name \in Commands
      /\ fifo \in Seq(Words) /\ rx_buffer \in Seq(Words)
      /\ Len(rx_buffer) < Wanted[cmd.name]
  BY DEF IInv, PlaceInv, OrderInv, Outside, Receive
<1>2. Len(rx_buffer) \in Nat /\ Len(fifo) \in Nat /\ Wanted[cmd.name] \in Nat
  BY <1>1, SentCommand
<1>3. need \in Nat /\ n \in 0 .. Len(fifo) /\ n <= need
  BY <1>1, <1>2
<1>4. /\ rx_buffer' = rx_buffer \o SubSeq(fifo, 1, n)
      /\ fifo' = SubSeq(fifo, n + 1, Len(fifo))
      /\ \/ kpc' = "idle" /\ ok' = FALSE /\ clean' = FALSE
         \/ ~ late /\ kpc' = "idle" /\ ok' = TRUE /\ clean' = clean /\ n = need
         \/ ~ late /\ UNCHANGED <<kpc, ok, clean>> /\ n # need
  <2>1. clean \in BOOLEAN
    BY DEF IInv, PlaceInv, TypeOK
  <2>2. /\ Return(FALSE) => kpc' = "idle" /\ ok' = FALSE /\ clean' = FALSE
        /\ Return(TRUE) => kpc' = "idle" /\ ok' = TRUE /\ clean' = clean
    BY <2>1 DEF Return
  <2> QED
    BY <2>2 DEF Receive
<1>5. /\ Len(rx_buffer) + need = Wanted[cmd.name]
      /\ n # need => Len(fifo) = n /\ Len(rx_buffer) + n < Wanted[cmd.name]
  BY <1>2, <1>3
<1> HIDE DEF n, need
<1>6. /\ rx_buffer' \in Seq(Words) /\ fifo' \in Seq(Words)
      /\ Len(rx_buffer') = Len(rx_buffer) + n /\ Len(fifo') = Len(fifo) - n
      /\ \A i \in 1 .. Len(rx_buffer) : rx_buffer'[i] = rx_buffer[i]
      /\ \A i \in 1 .. n : rx_buffer'[Len(rx_buffer) + i] = fifo[i]
      /\ \A i \in 1 .. Len(fifo) - n : fifo'[i] = fifo[n + i]
  <2> DEFINE taken == rx_buffer \o SubSeq(fifo, 1, n)
             rest  == SubSeq(fifo, n + 1, Len(fifo))
  <2>1. /\ taken \in Seq(Words) /\ rest \in Seq(Words)
        /\ Len(taken) = Len(rx_buffer) + n /\ Len(rest) = Len(fifo) - n
        /\ \A i \in 1 .. Len(rx_buffer) : taken[i] = rx_buffer[i]
        /\ \A i \in 1 .. n : taken[Len(rx_buffer) + i] = fifo[i]
        /\ \A i \in 1 .. Len(fifo) - n : rest[i] = fifo[n + i]
    BY <1>1, <1>3, Taken
  <2>2. rx_buffer' = taken /\ fifo' = rest
    BY <1>4
  <2> HIDE DEF taken, rest
  <2> QED
    BY <2>1, <2>2
<1>7. n \in Nat /\ n <= Len(fifo)
  BY <1>2, <1>3
<1> QED
  BY <1>2, <1>4, <1>5, <1>6, <1>7

\* A transfer that returns true while none has failed was executed, and its
\* answer was all that had arrived.
LEMMA TrueIsExecuted ==
  ASSUME IInv, Receive, clean', kpc' = "idle"
  PROVE  /\ clean /\ Last = cmd.id /\ epc # "respond" /\ InOrder
         /\ Len(fifo') = 0 /\ Len(rx_buffer') = Gives(cmd)
<1>1. kpc = "receive" /\ clean \in BOOLEAN
  BY DEF Receive, IInv, PlaceInv, TypeOK
<1>2. PICK n \in Nat :
           /\ n <= Len(fifo) /\ Len(rx_buffer) \in Nat /\ Len(fifo) \in Nat
           /\ Len(rx_buffer') = Len(rx_buffer) + n /\ Len(fifo') = Len(fifo) - n
           /\ clean /\ Len(rx_buffer) + n = Wanted[cmd.name]
  BY <1>1, Received
<1>3. /\ cmd.id > 0 /\ cmd.name \in Commands /\ cmd.id \in Nat
      /\ Gives(cmd) \in Nat /\ 0 < Gives(cmd)
      /\ Gives(cmd) <= Wanted[cmd.name] /\ Wanted[cmd.name] \in Nat
  BY <1>1, SentCommand DEF IInv, PlaceInv, TypeOK, OrderInv, Outside
<1>4. Last = cmd.id
  <2>1. ~ (Len(fifo) = 0 /\ Len(rx_buffer) = 0)
    BY <1>2, <1>3
  <2>2. Last <= cmd.id /\ Last \in Nat
    BY <1>3 DEF IInv, OrderInv
  <2>3. Last < cmd.id => fifo = <<>> /\ rx_buffer = <<>>
    BY <1>1, <1>2 DEF IInv, CleanInv
  <2> QED
    BY <1>3, <2>1, <2>2, <2>3, EmptySeq
<1>5. Got <= Sent /\ (Got = Sent => InOrder)
  BY <1>1, <1>2, <1>4 DEF IInv, CleanInv
<1>6. Wanted[cmd.name] <= Got /\ Got = Len(rx_buffer) + Len(fifo) /\ Got \in Nat
  BY <1>2 DEF Got
<1>7. epc = "respond" => sent \in Nat /\ sent < Gives(cmd)
  BY <1>1, <1>2, <1>4 DEF IInv, PlaceInv, TypeOK, CleanInv
<1>8. epc # "respond" /\ Sent = Gives(cmd)
  BY <1>3, <1>5, <1>6, <1>7 DEF Sent
<1>9. Got = Sent /\ Got = Wanted[cmd.name] /\ Wanted[cmd.name] = Gives(cmd)
  BY <1>3, <1>5, <1>6, <1>8
<1>10. Len(rx_buffer') = Gives(cmd) /\ Len(fifo') = 0
  BY <1>2, <1>6, <1>9
<1> QED
  BY <1>2, <1>4, <1>5, <1>8, <1>9, <1>10

\* A call that returns true has read its whole answer, and has left nothing.
LEMMA ReceiveIInv == ASSUME IInv, Receive PROVE IInv'
<1> USE NoCommandIs, CommandsAssumption, BoundsAssumption
<1>1. /\ kpc = "receive"
      /\ UNCHANGED <<cmd, late, sure, ready, isr, trans, commandBuffer, epc, sent,
                     executed>>
  BY DEF Receive
<1>2. PICK n \in Nat :
           /\ n <= Len(fifo) /\ Len(rx_buffer) \in Nat /\ Len(fifo) \in Nat
           /\ rx_buffer' \in Seq(Words) /\ fifo' \in Seq(Words)
           /\ Len(rx_buffer') = Len(rx_buffer) + n /\ Len(fifo') = Len(fifo) - n
           /\ \A i \in 1 .. Len(rx_buffer) : rx_buffer'[i] = rx_buffer[i]
           /\ \A i \in 1 .. n : rx_buffer'[Len(rx_buffer) + i] = fifo[i]
           /\ \A i \in 1 .. Len(fifo) - n : fifo'[i] = fifo[n + i]
           /\ \/ kpc' = "idle" /\ ok' = FALSE /\ clean' = FALSE
              \/ /\ ~ late /\ kpc' = "idle" /\ ok' = TRUE /\ clean' = clean
                 /\ Len(rx_buffer) + n = Wanted[cmd.name]
              \/ /\ ~ late /\ UNCHANGED <<kpc, ok, clean>>
                 /\ Len(fifo) = n /\ Len(rx_buffer) + n < Wanted[cmd.name]
  BY Received
<1>3. /\ cmd.id > 0 /\ cmd.name \in Commands /\ cmd.id \in Nat
      /\ Gives(cmd) = Given[cmd.name] /\ Gives(cmd) \in Nat /\ 0 < Gives(cmd)
      /\ Gives(cmd) <= Wanted[cmd.name] /\ Wanted[cmd.name] \in Nat
  BY <1>1, SentCommand DEF IInv, PlaceInv, TypeOK, OrderInv, Outside
<1>4. kpc' \in {"idle", "receive"} /\ ok' \in BOOLEAN /\ clean' \in BOOLEAN
      /\ (clean' => clean) /\ Gives(cmd)' = Gives(cmd) /\ Last' = Last
  <2>1. ok \in BOOLEAN /\ clean \in BOOLEAN
    BY DEF IInv, PlaceInv, TypeOK
  <2>2. /\ kpc' \in {"idle", "receive"}
        /\ ok' = FALSE \/ ok' = TRUE \/ ok' = ok
        /\ clean' = FALSE \/ clean' = clean
    BY <1>1, <1>2
  <2>3. ok' \in BOOLEAN /\ clean' \in BOOLEAN
    BY <2>1, <2>2
  <2>5. clean' => clean
    BY <2>2
  <2>4. Gives(cmd)' = Gives(cmd) /\ Last' = Last
    BY <1>1 DEF Gives, Last
  <2> QED
    BY <2>2, <2>3, <2>4, <2>5
<1>5. PlaceInv'
  <2>1. Len(fifo') <= FifoDepth
    BY <1>2 DEF IInv, PlaceInv, TypeOK
  <2>2. TypeOK'
    BY <1>1, <1>4, <2>1 DEF IInv, PlaceInv, TypeOK
  <2>3. kpc' = "receive" => Len(rx_buffer') < Wanted[cmd.name]
    BY <1>2
  <2>4. Gives(commandBuffer)' = Gives(commandBuffer)
    BY <1>1 DEF Gives
  <2> QED
    BY <1>1, <1>2, <1>4, <2>2, <2>3, <2>4 DEF IInv, PlaceInv, Unsent, Outside
<1>6. OrderInv'
  BY <1>1, <1>4 DEF IInv, OrderInv, Unsent
<1>7. Got' = Got /\ Sent' = Sent /\ Sent \in Nat /\ Got \in Nat
  <2>1. Sent' = Sent
    BY <1>1, <1>4 DEF Sent
  <2>2. Sent \in Nat
    BY <1>3 DEF Sent, IInv, PlaceInv, TypeOK
  <2> QED
    BY <1>2, <2>1, <2>2 DEF Got
<1>8. InOrder => InOrder'
  <2> SUFFICES ASSUME InOrder PROVE InOrder'
    OBVIOUS
  <2>1. ASSUME NEW i \in 1 .. Len(rx_buffer')
        PROVE  rx_buffer'[i] = <<cmd.id, i>>
    <3>1. CASE i \in 1 .. Len(rx_buffer)
      BY <1>2, <3>1 DEF InOrder
    <3>2. CASE i \notin 1 .. Len(rx_buffer)
      <4>1. i - Len(rx_buffer) \in 1 .. n /\ i = Len(rx_buffer) + (i - Len(rx_buffer))
            /\ i - Len(rx_buffer) \in 1 .. Len(fifo)
        BY <1>2, <3>2
      <4> QED
        <5>1. rx_buffer'[i] = fifo[i - Len(rx_buffer)]
          BY <1>2, <4>1
        <5>2. fifo[i - Len(rx_buffer)] = <<cmd.id, Len(rx_buffer) + (i - Len(rx_buffer))>>
          BY <4>1 DEF InOrder
        <5> QED
          BY <4>1, <5>1, <5>2
    <3> QED
      BY <3>1, <3>2
  <2>2. ASSUME NEW i \in 1 .. Len(fifo')
        PROVE  fifo'[i] = <<cmd.id, Len(rx_buffer') + i>>
    <3>1. n + i \in 1 .. Len(fifo) /\ i \in 1 .. Len(fifo) - n
          /\ Len(rx_buffer) + (n + i) = Len(rx_buffer') + i
      BY <1>2
    <3>2. fifo'[i] = fifo[n + i]
      BY <1>2, <3>1
    <3>3. fifo[n + i] = <<cmd.id, Len(rx_buffer) + (n + i)>>
      BY <3>1 DEF InOrder
    <3> QED
      BY <3>1, <3>2, <3>3
  <2> QED
    BY <1>1, <2>1, <2>2 DEF InOrder
<1>9. clean => \/ /\ Last < cmd.id /\ Len(fifo) = 0 /\ Len(rx_buffer) = 0
                  /\ fifo = <<>> /\ rx_buffer = <<>>
               \/ /\ Last = cmd.id /\ Got <= Sent /\ (Got = Sent => InOrder)
  BY <1>1, EmptySeq DEF IInv, PlaceInv, TypeOK, OrderInv, CleanInv
<1>10. CASE clean' /\ kpc' = "idle"
  <2>1. /\ clean /\ Last = cmd.id /\ epc # "respond" /\ InOrder
        /\ Len(fifo') = 0 /\ Len(rx_buffer') = Gives(cmd)
    BY <1>10, TrueIsExecuted
  <2>2. fifo' = <<>>
    BY <1>2, <2>1, EmptySeq
  <2>3. rx_buffer' = Answer(cmd)
    <3>1. \A i \in 1 .. Gives(cmd) : rx_buffer'[i] = <<cmd.id, i>>
      BY <1>1, <1>8, <2>1 DEF InOrder
    <3>2. rx_buffer' = [i \in 1 .. Gives(cmd) |-> rx_buffer'[i]]
      BY <1>2, <2>1
    <3> QED
      BY <3>1, <3>2 DEF Answer
  <2>4. Answer(cmd)' = Answer(cmd)
    BY <1>1, <1>4 DEF Answer
  <2>5. trans # "done" /\ epc # "handle" /\ (trans = "armed" => commandBuffer = NoCommand)
    BY <1>1, <2>1 DEF IInv, CleanInv
  <2>6. CleanInv'
    BY <1>1, <1>10, <2>1, <2>2, <2>3, <2>4, <2>5 DEF CleanInv, Outside, Unsent
  <2>7. FastInv'
    BY <1>10 DEF FastInv, Lossless
  <2> QED
    BY <1>5, <1>6, <2>6, <2>7 DEF IInv
<1>11. CASE clean' /\ kpc' = "receive"
  <2>1. clean /\ clean' = clean /\ ~ late
    BY <1>2, <1>11
  <2>2. fifo = <<>> /\ rx_buffer = <<>> => fifo' = <<>> /\ rx_buffer' = <<>>
    BY <1>2, EmptySeq
  <2>3. CleanInv'
    BY <1>1, <1>3, <1>4, <1>7, <1>8, <1>9, <1>11, <2>1, <2>2
       DEF IInv, CleanInv, Outside, Unsent
  <2>4. FastInv'
    BY <1>1, <1>4, <1>7, <1>11, <2>1 DEF IInv, FastInv, Lossless
  <2> QED
    BY <1>5, <1>6, <2>3, <2>4 DEF IInv
<1>12. CASE ~ clean'
  BY <1>5, <1>6, <1>12 DEF IInv, CleanInv, FastInv
<1> QED
  BY <1>4, <1>10, <1>11, <1>12

-----------------------------------------------------------------------------
(* The theorems *)

\* Every step keeps the invariant.
LEMMA NextIInv == IInv /\ [Next]_vars => IInv'
<1> SUFFICES ASSUME IInv, [Next]_vars PROVE IInv'
  OBVIOUS
<1>1. CASE EspTask
  BY <1>1, EspBeginIInv, QueueIInv, ReadyLowIInv, TakeResultIInv, SendWordIInv,
     OnChipSelectIInv DEF EspTask
<1>2. CASE Handle \/ Abort \/ ResetLow
  BY <1>2, HandleIInv, AbortIInv, ResetLowIInv
<1>3. CASE K210Step
  BY <1>3, WaitLowIInv, SelectIInv, WaitHighIInv, SendIInv, DeselectIInv,
     DeadlineIInv, ReceiveIInv, ResetHighIInv DEF K210Step
<1>4. CASE \E name \in Commands : Transfer(name)
  BY <1>4, TransferIInv
<1>5. CASE UNCHANGED vars
  BY <1>5 DEF vars, IInv, PlaceInv, TypeOK, OrderInv, CleanInv, FastInv, Lossless,
     Last, Got, Sent, InOrder, Gives, Answer
<1> QED
  BY <1>1, <1>2, <1>3, <1>4, <1>5 DEF Next

\* The inductive invariant holds in every reachable state.
THEOREM InvariantHolds == Spec => []IInv
  BY InitIInv, NextIInv, PTL DEF Spec

\* The variables keep their types, and the FIFO its depth.
THEOREM TypeCorrect == Spec => []TypeOK
<1>1. IInv => TypeOK
  BY DEF IInv, PlaceInv
<1> QED
  BY <1>1, InvariantHolds, PTL

\* A K210 that saw the ready pin low, and with it no failure so far, clocks its
\* command into an armed and empty slave: the two waits of esp32_transfer and
\* the ready pin driven from SpiSlave::transfer and its interrupt agree.
THEOREM HandshakeIsSound == Spec => []HandshakeSound
<1>1. IInv => HandshakeSound
  BY DEF IInv, PlaceInv, TypeOK, CleanInv, HandshakeSound, Unsent
<1> QED
  BY <1>1, InvariantHolds, PTL

\* As long as no transfer has failed, the response that esp32_transfer returns
\* is the whole one to its own command, for every set of commands and every
\* depth of the FIFO.
THEOREM AnswersAreOwn == Spec => []AnswerIsOwn
<1>1. IInv => AnswerIsOwn
  BY DEF IInv, CleanInv, AnswerIsOwn, Outside
<1> QED
  BY <1>1, InvariantHolds, PTL

\* If every fast command's answer fits the FIFO and is as long as the K210
\* expects, such a command, sent to an ESP32 that was ready, succeeds as long
\* as none has failed: its deadline cannot pass before its answer is complete.
THEOREM FastCommandsAnswered ==
  ASSUME Lossless
  PROVE  Spec => FastCommandAnswered
<1>1. IInv /\ [Next]_vars =>
        [(Receive /\ kpc' = "idle" /\ clean /\ sure
            /\ cmd.name \notin SlowCommands \union AbortingCommands) => ok']_vars
  <2> SUFFICES ASSUME IInv, Receive, kpc' = "idle", clean, sure,
                      cmd.name \notin SlowCommands \union AbortingCommands
               PROVE  ok'
    OBVIOUS
  <2>1. kpc = "receive"
    BY DEF Receive
  <2>2. ~ late
    BY <2>1 DEF IInv, FastInv
  <2> QED
    BY <2>1, <2>2 DEF Receive, Return
<1> QED
  BY <1>1, InvariantHolds, PTL DEF Spec, FastCommandAnswered

-----------------------------------------------------------------------------
(* The link is a remote call *)

\* Refinement: esp32_transfer begins a call where it starts and ends it where
\* it returns; the ESP32 executes a call where its handler runs; all else is
\* invisible to the caller.
THEOREM LinkIsRemoteCall == Spec => ImplementsRemoteCall
<1>1. Init => Promise!Init
  BY NoCommandIs DEF Init, Promise!Init
<1>2. IInv /\ [Next]_vars => [Promise!Next]_(Promise!vars)
  <2> SUFFICES ASSUME IInv, [Next]_vars PROVE [Promise!Next]_(Promise!vars)
    OBVIOUS
  <2> USE DEF Promise!vars
  <2>1. Promise!LastExecuted = Last
    BY DEF Promise!LastExecuted, Last
  <2>2. CASE \E name \in Commands : Transfer(name)
    BY <2>2 DEF Transfer, Promise!Next, Promise!Call
  <2>3. CASE Handle
    <3>1. /\ commandBuffer.id \in Nat /\ cmd.id \in Nat /\ Last \in Nat
          /\ commandBuffer.id \in Last + 1 .. cmd.id /\ commandBuffer.id \in 1 .. cmd.id
      BY <2>3 DEF Handle, IInv, PlaceInv, TypeOK, OrderInv
    <3>2. clean => kpc = "receive" /\ commandBuffer = cmd
      BY <2>3, <3>1, NoCommandIs
         DEF Handle, IInv, PlaceInv, TypeOK, OrderInv, CleanInv, Unsent, Outside
    <3>3. Promise!Execute(commandBuffer.id)
      BY <2>1, <2>3, <3>1, <3>2 DEF Handle, Promise!Execute
    <3> QED
      BY <3>1, <3>3 DEF Promise!Next
  <2>4. CASE Receive
    <3>1. kpc = "receive" /\ UNCHANGED <<cmd, executed>>
      BY <2>4 DEF Receive
    <3>2. CASE Return(FALSE)
      BY <3>1, <3>2 DEF Return, Promise!Next, Promise!ReturnFalse
    <3>3. CASE Return(TRUE)
      <4>1. clean' = clean /\ kpc' = "idle"
        BY <3>3 DEF Return, IInv, PlaceInv, TypeOK
      <4>2. clean => Last = cmd.id
        BY <2>4, <4>1, TrueIsExecuted
      <4> QED
        BY <2>1, <3>1, <4>1, <4>2 DEF Promise!Next, Promise!ReturnTrue
    <3>4. CASE UNCHANGED <<kpc, ok, clean>>
      BY <3>1, <3>4
    <3> QED
      BY <2>4, <3>2, <3>3, <3>4 DEF Receive
  <2>5. CASE WaitLow \/ Select \/ WaitHigh \/ Send \/ Deselect \/ Deadline \/ ResetHigh
             \/ ResetLow
    BY <2>5 DEF WaitLow, Select, WaitHigh, Send, Deselect, Deadline, ResetHigh,
       ResetLow, EspOff
  <2>6. CASE EspTask \/ Abort
    BY <2>6 DEF EspTask, EspBegin, Queue, ReadyLow, TakeResult, SendWord,
       OnChipSelect, Abort, EspOff
  <2>7. CASE UNCHANGED vars
    BY <2>7 DEF vars
  <2> QED
    BY <2>2, <2>3, <2>4, <2>5, <2>6, <2>7 DEF Next, K210Step
<1> QED
  BY <1>1, <1>2, InvariantHolds, PTL DEF Spec, ImplementsRemoteCall, Promise!Spec
=============================================================================
