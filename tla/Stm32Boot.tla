----------------------------- MODULE Stm32Boot -----------------------------
(***************************************************************************)
(* The programmer of the STM32 (src/drivers/stm32_program): commands to    *)
(* the boot loader of the STM32 over a UART, with timeouts, and the log of *)
(* the program that runs there when the boot loader does not.              *)
(*                                                                         *)
(* Bytes from the STM32 travel on "wire" and the interrupt writes them     *)
(* into "pipe", the TBPipe of the driver (module PipeFIFO: a bounded       *)
(* queue).  A byte is [what, id]: an acknowledgement, a refusal, data, or  *)
(* text of the program, with the call that caused it (for text: the call   *)
(* that started the program).  Frames to the STM32 travel on "line".       *)
(*                                                                         *)
(* The boot loader is external; a frame it does not expect confuses it,    *)
(* and it then answers with a refusal or not at all.  Frames and bytes may *)
(* be lost.  What is in flight arrives within the 30 ms the reset pin is   *)
(* low (300 bytes take 17 ms at 200000 baud).                              *)
(***************************************************************************)
EXTENDS Integers, Sequences

CONSTANTS
  Capacity,   \* bytes the pipe holds (buffer_size of stm32p_init, rounded down)
  ReadSize,   \* bytes of a read_memory
  MaxCalls    \* bound: calls of the interface in one behaviour

\* The largest answer, the acknowledgement and the data of a read, fits.
ASSUME CapacityAssumption ==
  Capacity \in Nat /\ ReadSize \in Nat \ {0} /\ ReadSize < Capacity

ASSUME BoundAssumption == MaxCalls \in Nat \ {0}

VARIABLES
  pipe,       \* bytes in the TBPipe
  wire,       \* bytes between the STM32 and the pipe
  line,       \* frames between the K210 and the STM32
  stm,        \* the STM32: what it waits for or runs, for which call
  call,       \* the call in progress on the K210
  activated,  \* bootloader_activated
  last,       \* history: the last call that has returned
  clean,      \* history: since the last reset no call failed after it had sent
  done,       \* history: the calls the STM32 has carried out
  unfinished, \* bytes of the message the TBParse has not seen the end of
  returned    \* history: it has returned a message since the last reset

parser == <<unfinished, returned>>
vars == <<pipe, wire, line, stm, call, activated, last, clean, done, parser>>

Commands == {"read", "write", "erase"}
Resets   == {"activate", "restart"}
Ops      == Commands \union Resets \union {"get"}
Ids      == 0 .. MaxCalls

\* The frames of a call, each answered before the next is sent.
Frames(op) ==
  CASE op = "read"     -> <<"cmd", "addr", "len">>
    [] op = "write"    -> <<"cmd", "addr", "block">>
    [] op = "erase"    -> <<"cmd", "pages">>
    [] op = "get"      -> <<"cmd">>
    [] op = "activate" -> <<"hello">>
    [] op = "restart"  -> <<>>

LoaderModes == {"hello", "cmd", "addr", "len", "block", "pages", "lost"}
Modes       == LoaderModes \union {"off", "app"}
Byte(w, i)  == [what |-> w, id |-> i]
AllBytes    == [what : {"ack", "nack", "data", "text"}, id : Ids]
AllFrames   == [what : LoaderModes \ {"lost"}, op : Ops, i : 1 .. 3, id : Ids]

\* No call is in progress.
Idle      == [op |-> "none", pc |-> "idle", id |-> 0, i |-> 1,
              short |-> FALSE, seen |-> 0, took |-> {}]
Calling   == call.pc # "idle"
At(pcs)   == call.pc \in pcs

\* stm32p_init: the pins let the STM32 run its program.
Init ==
  /\ pipe = <<>> /\ wire = <<>> /\ line = <<>>
  /\ stm = [mode |-> "app", op |-> "restart", id |-> 0]
  /\ call = Idle
  /\ activated = FALSE
  /\ last = [op |-> "restart", id |-> 0, ok |-> TRUE, sent |-> FALSE,
             took |-> {}, clean |-> TRUE]
  /\ clean = TRUE
  /\ done = {}
  /\ unfinished = {} /\ returned = FALSE

-----------------------------------------------------------------------------
(* The UART: the interrupt handler writes into the pipe, what does not fit *)
(* is lost; the line itself may lose a frame or a byte.                    *)

Arrive ==
  /\ wire # <<>>
  /\ wire' = Tail(wire)
  /\ pipe' = IF Len(pipe) < Capacity THEN Append(pipe, Head(wire)) ELSE pipe
  /\ UNCHANGED <<line, stm, call, activated, last, clean, done, parser>>

LoseByte ==
  /\ wire # <<>>
  /\ wire' = Tail(wire)
  /\ UNCHANGED <<pipe, line, stm, call, activated, last, clean, done, parser>>

LoseFrame ==
  /\ line # <<>>
  /\ line' = Tail(line)
  /\ UNCHANGED <<pipe, wire, stm, call, activated, last, clean, done, parser>>

-----------------------------------------------------------------------------
(* The STM32 (external).                                                   *)

IsLast(f)   == f.i = Len(Frames(f.op))
Expected(f) == f.what = stm.mode /\ (f.i = 1 \/ f.op = stm.op)
Reply(f) ==
  <<Byte("ack", f.id)>> \o
    CASE f.what = "len" -> [n \in 1 .. ReadSize |-> Byte("data", f.id)]
      [] f.op = "get"   -> <<Byte("data", f.id)>>
      [] OTHER          -> <<>>

\* It does what the frame asks and acknowledges it.
Obey ==
  /\ line # <<>> /\ Expected(Head(line))
  /\ LET f == Head(line) IN
       /\ stm' = [stm EXCEPT !.op = f.op,
                             !.mode = IF IsLast(f) THEN "cmd"
                                      ELSE Frames(f.op)[f.i + 1]]
       /\ wire' = wire \o Reply(f)
       /\ done' = IF IsLast(f) THEN done \union {f.id} ELSE done
  /\ line' = Tail(line)
  /\ UNCHANGED <<pipe, call, activated, last, clean, parser>>

\* It refuses: a protected address, a wrong check sum, a frame out of order.
Refuse ==
  /\ line # <<>> /\ stm.mode \in LoaderModes \ {"hello"}
  /\ stm' = [stm EXCEPT !.mode = "cmd"]
  /\ wire' = Append(wire, Byte("nack", Head(line).id))
  /\ line' = Tail(line)
  /\ UNCHANGED <<pipe, call, activated, last, clean, done, parser>>

\* It takes a frame for a part of another one and waits for the rest.
Confuse ==
  /\ line # <<>> /\ ~ Expected(Head(line))
  /\ stm' = IF stm.mode \in LoaderModes THEN [stm EXCEPT !.mode = "lost"] ELSE stm
  /\ line' = Tail(line)
  /\ UNCHANGED <<pipe, wire, call, activated, last, clean, done, parser>>

\* The program prints (bounded by an empty wire).
PrintText ==
  /\ stm.mode = "app" /\ wire = <<>>
  /\ wire' = <<Byte("text", stm.id)>>
  /\ UNCHANGED <<pipe, line, stm, call, activated, last, clean, done, parser>>

-----------------------------------------------------------------------------
(* A call returns.                                                         *)

Return(ok, took) ==
  /\ last' = [op |-> call.op, id |-> call.id, ok |-> ok, sent |-> TRUE,
              took |-> took, clean |-> clean]
  /\ clean' = (clean /\ ok)
  /\ call' = Idle

Fresh(op) == [Idle EXCEPT !.op = op, !.id = last.id + 1]

\* An assumption on the client, which the code does not check: commands and GET are
\* sent to a boot loader that was activated, as stm32p_test_loop does.  (The text of
\* a program could be read as an acknowledgement otherwise.)
MaySend == activated

\* read_memory, write_memory and erase check their sizes before they send.
\* Erase lets 0 pages pass, which the boot loader reads as "all pages".
ReturnsAtOnce(op, size) == size = "bad" \/ (size = "zero" /\ op # "erase")

StartCommand ==
  /\ ~Calling /\ MaySend /\ last.id < MaxCalls
  /\ \E op \in Commands, size \in {"zero", "legal", "bad"} :
       IF ReturnsAtOnce(op, size)
       THEN /\ last' = [op |-> op, id |-> last.id + 1, ok |-> size # "bad",
                        sent |-> FALSE, took |-> {}, clean |-> clean]
            /\ UNCHANGED call
       ELSE /\ call' = [Fresh(op) EXCEPT !.pc = "send"]
            /\ UNCHANGED last
  /\ UNCHANGED <<pipe, wire, line, stm, activated, clean, done, parser>>

\* stm32p_get_print sends GET and prints whatever has come after 10 ms.
StartGet ==
  /\ ~Calling /\ MaySend /\ last.id < MaxCalls
  /\ call' = [Fresh("get") EXCEPT !.pc = "send"]
  /\ UNCHANGED <<pipe, wire, line, stm, activated, last, clean, done, parser>>

StartReset ==
  /\ ~Calling /\ last.id < MaxCalls
  /\ \E op \in Resets : call' = [Fresh(op) EXCEPT !.pc = "low"]
  /\ UNCHANGED <<pipe, wire, line, stm, activated, last, clean, done, parser>>

-----------------------------------------------------------------------------
(* stm32_restart: the reset pin is low for 30 ms; the boot pin says what   *)
(* starts afterwards.                                                      *)

PinLow ==
  /\ At({"low"})
  /\ stm' = [stm EXCEPT !.mode = "off"]
  /\ line' = <<>>
  /\ call' = [call EXCEPT !.pc = "sleep"]
  /\ clean' = TRUE
  /\ returned' = FALSE
  /\ UNCHANGED <<pipe, wire, activated, last, done, unfinished>>

PinHigh ==
  /\ At({"sleep"}) /\ wire = <<>>
  /\ stm' = [mode |-> IF call.op = "activate" THEN "hello" ELSE "app",
             op |-> call.op, id |-> call.id]
  /\ call' = [call EXCEPT !.pc = "clear"]
  /\ UNCHANGED <<pipe, wire, line, activated, last, clean, done, parser>>

\* Mutant of Cleared: nothing is dropped.
NotCleared == pipe

\* TBPipe::Clear drops all that came before the call.
Cleared == <<>>

\* Activation goes on with the first byte, a restart is over.
ClearPipe ==
  /\ At({"clear"})
  /\ pipe' = Cleared
  /\ IF call.op = "activate"
     THEN /\ call' = [call EXCEPT !.pc = "send"]
          /\ UNCHANGED <<activated, last, clean>>
     ELSE /\ activated' = FALSE
          /\ Return(TRUE, {})
  /\ UNCHANGED <<wire, line, stm, done, parser>>

-----------------------------------------------------------------------------
(* Sending a frame, and uart_receive for the answer.                       *)

Send ==
  /\ At({"send"})
  /\ line' = Append(line, [what |-> Frames(call.op)[call.i], op |-> call.op,
                           i |-> call.i, id |-> call.id])
  /\ call' = [call EXCEPT !.pc = IF call.op = "get" THEN "print" ELSE "ack",
                          !.short = FALSE, !.seen = Len(pipe)]
  /\ UNCHANGED <<pipe, wire, stm, activated, last, clean, done, parser>>

\* print_received drops what is there; nobody looks at it.
PrintReceived ==
  /\ At({"print"})
  /\ pipe' = Cleared
  /\ Return(FALSE, {})
  /\ UNCHANGED <<wire, line, stm, activated, done, parser>>

\* The size uart_receive waits for, and whether the pipe holds as much.
Needed == IF call.pc = "data" THEN ReadSize ELSE 1
Enough == Len(pipe) >= Needed

\* Mutant of BytesCame: any bytes in the pipe prolong the wait, new or not.
BytesThere == pipe # <<>>

\* There are more than at the poll before (prev_bytes).
BytesCame == Len(pipe) > call.seen

\* A poll of AvailableBytes finds too few bytes.  Where some have come the wait
\* starts anew; otherwise its time is judged, and may be over although the bytes
\* have come since the poll.
PollShort ==
  /\ At({"ack", "data"}) /\ ~Enough
  /\ call' = IF BytesCame THEN [call EXCEPT !.seen = Len(pipe), !.short = FALSE]
             ELSE [call EXCEPT !.short = TRUE]
  /\ UNCHANGED <<pipe, wire, line, stm, activated, last, clean, done, parser>>

Timeout ==
  /\ At({"ack", "data"}) /\ call.short
  /\ Return(FALSE, call.took)
  /\ UNCHANGED <<pipe, wire, line, stm, activated, done, parser>>

\* A byte compared with STM32_ACK: data and text can have that value too.
ReadsAsAck(b) ==
  CASE b.what = "ack" -> {TRUE} [] b.what = "nack" -> {FALSE} [] OTHER -> BOOLEAN

\* Mutant of DataFollows: read_memory returns with the acknowledgement.
NoDataFollows(op) == FALSE

\* The data of a read follow its last acknowledgement.
DataFollows(op) == op = "read"

ReceiveAck ==
  /\ At({"ack"}) /\ Enough
  /\ pipe' = Tail(pipe)
  /\ \E ok \in ReadsAsAck(Head(pipe)) :
       LET took == call.took \union {Head(pipe).id}
           more == call.i < Len(Frames(call.op))
       IN  IF ok /\ (more \/ DataFollows(call.op))
           THEN /\ call' = [call EXCEPT !.took = took, !.short = FALSE,
                              !.seen = Len(pipe) - 1,
                              !.i = IF more THEN call.i + 1 ELSE call.i,
                              !.pc = IF more THEN "send" ELSE "data"]
                /\ UNCHANGED <<activated, last, clean>>
           ELSE /\ Return(ok, took)
                /\ activated' = (activated \/ (ok /\ call.op = "activate"))
  /\ UNCHANGED <<wire, line, stm, done, parser>>

ReceiveData ==
  /\ At({"data"}) /\ Enough
  /\ pipe' = SubSeq(pipe, ReadSize + 1, Len(pipe))
  /\ Return(TRUE, call.took \union {pipe[n].id : n \in 1 .. ReadSize})
  /\ UNCHANGED <<wire, line, stm, activated, done, parser>>

\* stm32p_log_receive: one window of the pipe goes to the TBParse, which may
\* find the end of a message in it.  (Where several messages end in a window,
\* that is the same as several windows.)
LogReceive ==
  /\ ~Calling /\ ~activated
  /\ \E n \in 1 .. Len(pipe) :
       /\ pipe' = SubSeq(pipe, n + 1, Len(pipe))
       /\ \/ /\ unfinished' = unfinished \union {pipe[j] : j \in 1 .. n}
             /\ UNCHANGED returned
          \/ /\ unfinished' = {}
             /\ returned' = TRUE
  /\ UNCHANGED <<wire, line, stm, call, activated, last, clean, done>>

-----------------------------------------------------------------------------
K210Step ==
  \/ PinLow \/ PinHigh \/ ClearPipe
  \/ Send \/ PrintReceived \/ Timeout \/ ReceiveAck \/ ReceiveData \/ PollShort

Next ==
  \/ Arrive \/ LoseByte \/ LoseFrame
  \/ Obey \/ Refuse \/ Confuse \/ PrintText
  \/ StartCommand \/ StartGet \/ StartReset
  \/ K210Step \/ LogReceive

\* The K210 goes on with a call it has begun (the time of a wait passes), and
\* what is on the wire arrives.  Nothing is assumed of the STM32.
Spec == Init /\ [][Next]_vars /\ WF_vars(K210Step) /\ WF_vars(Arrive)

-----------------------------------------------------------------------------
TypeOK ==
  /\ pipe \in Seq(AllBytes) /\ Len(pipe) <= Capacity
  /\ wire \in Seq(AllBytes)
  /\ line \in Seq(AllFrames)
  /\ stm \in [mode : Modes, op : Ops, id : Ids]
  /\ call \in [op : Ops \union {"none"}, id : Ids, i : 1 .. 3, short : BOOLEAN,
               seen : 0 .. Capacity, took : SUBSET Ids,
               pc : {"idle", "low", "sleep", "clear", "send", "print", "ack", "data"}]
  /\ activated \in BOOLEAN /\ clean \in BOOLEAN
  /\ last \in [op : Ops, id : Ids, ok : BOOLEAN, sent : BOOLEAN,
              took : SUBSET Ids, clean : BOOLEAN]
  /\ done \subseteq Ids
  /\ unfinished \subseteq AllBytes /\ returned \in BOOLEAN

\* A call that returns true has taken only answers to its own frames, and the
\* STM32 has done what it asked for, as long as no call has failed on the way
\* since the last reset (each wait takes the next byte, whatever it answers).
AnswerIsOwn ==
  (last.clean /\ last.ok /\ last.sent) =>
    /\ last.took \subseteq {last.id}
    /\ last.op # "restart" => last.id \in done

\* Between two calls, with none failed since the reset, both ends agree:
\* bootloader_activated tells what the STM32 runs, and if it is the boot
\* loader, it waits for a command and nothing is left in flight or in the pipe.
InStep ==
  (clean /\ ~Calling) =>
    /\ activated <=> stm.mode \in LoaderModes
    /\ activated => stm.mode = "cmd" /\ line = <<>> /\ wire = <<>> /\ pipe = <<>>

\* The log holds only what the program printed since it was started last, no
\* answers of the boot loader and nothing of the program that ran before, but
\* for the first message: the restart does not clear the TBParse, which goes on
\* with the message it had begun.  (It is enough to look at messages before
\* they end, since each may go on.)
LogIsOfThisRun ==
  (clean /\ returned) => unfinished \subseteq {Byte("text", stm.id)}

\* Every call returns, whatever the STM32 does and whatever is lost, although each
\* byte that comes prolongs the wait.
EveryCallReturns == Calling ~> ~Calling
=============================================================================
