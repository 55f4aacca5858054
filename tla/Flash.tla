-------------------------------- MODULE Flash --------------------------------
(***************************************************************************)
(* The SPI flash driver of the K210 (drivers/flash/flash.c) and the chip.  *)
(*                                                                         *)
(* The driver sends one SPI frame per step.  The chip is external: it      *)
(* obeys a program, an erase or a write of the status register only when   *)
(* it is idle and its write enable latch is set, is busy for some time     *)
(* afterwards, and ignores everything but a read of its status until then. *)
(* A program wraps around inside its page.  Reading sends a single frame   *)
(* and changes nothing; it is left out.                                    *)
(***************************************************************************)
EXTENDS Naturals, Sequences

CONSTANTS
  Size,          \* bytes of the chip
  Bits,          \* a byte is the set of its bits that are 1
  PageSize,      \* flash_FLASH_PAGE_SIZE: 256
  ChunkSize,     \* bytes sent with one program command: 32
  BlockSizes,    \* sector, 32k and 64k block, and the whole chip
  Writes         \* writes that are asked for: [kind, addr, bytes]

ASSUME FlashAssumption ==
  /\ Size \in Nat \ {0} /\ PageSize \in Nat \ {0} /\ ChunkSize \in Nat \ {0}
  /\ Size % PageSize = 0
  /\ BlockSizes \subseteq Nat \ {0}
  /\ \A b \in BlockSizes : Size % b = 0
  /\ \A w \in Writes : /\ w.kind = "write"
                       /\ w.addr \in Nat
                       /\ w.bytes \in Seq(SUBSET Bits)
                       /\ w.addr + Len(w.bytes) <= Size

VARIABLES
  \* the chip
  mem,
  busy,          \* "no", or what it is busy with
  wel,           \* write enable latch
  qe,            \* quad enable, in status register 2
  \* the driver
  quad,          \* flash_page_program_fun is the quad one
  pc, call,
  pos,           \* bytes of a write that have been given to the chip
  \* history
  careful        \* every call so far found the chip idle

chip == <<mem, busy, wel, qe>>
driver == <<quad, pc, call, pos>>
vars == <<chip, driver, careful>>

NoCall == [kind |-> "none"]
Erases == [kind : {"erase"}, addr : 0 .. Size - 1, size : BlockSizes]
QuadCalls == [kind : {"quad"}, on : BOOLEAN]

Init ==
  /\ mem = [x \in 0 .. Size - 1 |-> Bits]
  /\ busy = "no" /\ wel = FALSE /\ qe = FALSE
  /\ quad = FALSE /\ pc = "idle" /\ call = NoCall /\ pos = 0
  /\ careful = TRUE

-----------------------------------------------------------------------------
(* The chip *)

\* What it does with a frame that needs the latch: busy, or nothing at all.
Listens == busy = "no" /\ wel

\* The cells after a program command: it stays within the page of a.
Programmed(a, bytes) ==
  [x \in 0 .. Size - 1 |->
     LET i == (x + PageSize - (a % PageSize)) % PageSize
     IN  IF x \div PageSize = a \div PageSize /\ i < Len(bytes)
         THEN mem[x] \cap bytes[i + 1] ELSE mem[x]]

Blank(a, size) ==
  [x \in 0 .. Size - 1 |-> IF x \div size = a \div size THEN Bits ELSE mem[x]]

\* A busy time ends; a new status register becomes visible now.
Finish ==
  /\ busy # "no"
  /\ busy' = "no"
  /\ qe' = IF busy = "quad on" THEN TRUE
           ELSE IF busy = "quad off" THEN FALSE ELSE qe
  /\ UNCHANGED <<mem, wel, driver, careful>>

-----------------------------------------------------------------------------
(* The driver *)

\* Mutant: the end of the page is forgotten.
ChunkPastPage(a, left) == IF left < ChunkSize THEN left ELSE ChunkSize

\* Bytes sent next when left are to be written at a: no more than a chunk and
\* not past the end of the page.
Chunk(a, left) ==
  LET remain == PageSize - (a % PageSize)
      len == IF left < remain THEN left ELSE remain
  IN  IF len > ChunkSize THEN ChunkSize ELSE len

Addr == call.addr + pos
ChunkNow == Chunk(Addr, Len(call.bytes) - pos)

Begin(c, place) ==
  /\ pc = "idle"
  /\ pc' = place
  /\ call' = c
  /\ pos' = 0
  /\ careful' = (careful /\ busy = "no")
  /\ UNCHANGED <<chip, quad>>

\* flash_write_data (of at least one byte), the four erases, and
\* flash_enable_quad_mode and flash_disable_quad_mode.
BeginCall ==
  \/ \E w \in Writes : Len(w.bytes) > 0 /\ Begin(w, "enable")
  \/ \E e \in Erases : Begin(e, "enable")
  \/ \E q \in QuadCalls : Begin(q, "read")

\* Mutant: the test of the register is the wrong way round.
ReadStatusInverted ==
  /\ pc = "read"
  /\ pc' = IF qe = call.on THEN "enable" ELSE "return"
  /\ UNCHANGED <<chip, quad, call, pos, careful>>

\* flash_read_status_reg2: the bit may be as asked for already.
ReadStatus ==
  /\ pc = "read"
  /\ pc' = IF qe # call.on THEN "enable" ELSE "return"
  /\ UNCHANGED <<chip, quad, call, pos, careful>>

\* flash_write_enable
WriteEnable ==
  /\ pc = "enable"
  /\ pc' = "send"
  /\ wel' = (wel \/ busy = "no")
  /\ UNCHANGED <<mem, busy, qe, quad, call, pos, careful>>

\* The chip starts with what it was told, or has not listened.
Obey(accepts, newMem, reason) ==
  IF accepts
  THEN mem' = newMem /\ busy' = reason /\ wel' = FALSE
  ELSE UNCHANGED <<mem, busy, wel>>

\* flash_page_program and flash_quad_page_program; the chip knows the latter
\* only while its quad enable bit is set.
SendProgram ==
  /\ pc = "send" /\ call.kind = "write"
  /\ Obey(Listens /\ (quad => qe),
          Programmed(Addr, SubSeq(call.bytes, pos + 1, pos + ChunkNow)),
          "program")
  /\ pc' = "wait"
  /\ UNCHANGED <<qe, quad, call, pos, careful>>

\* An erase does not wait for its end.
SendErase ==
  /\ pc = "send" /\ call.kind = "erase"
  /\ Obey(Listens, Blank(call.addr, call.size), "erase")
  /\ pc' = "return"
  /\ UNCHANGED <<qe, quad, call, pos, careful>>

\* flash_write_status_reg does not wait either.
SendStatus ==
  /\ pc = "send" /\ call.kind = "quad"
  /\ Obey(Listens, mem, IF call.on THEN "quad on" ELSE "quad off")
  /\ pc' = "return"
  /\ UNCHANGED <<qe, quad, call, pos, careful>>

Send == SendProgram \/ SendErase \/ SendStatus

NextChunk ==
  /\ pos' = pos + ChunkNow
  /\ pc' = IF pos' = Len(call.bytes) THEN "return" ELSE "enable"
  /\ UNCHANGED <<chip, quad, call, careful>>

\* Mutant: the next chunk does not wait for the end of the last one.
WaitForgotten == pc = "wait" /\ NextChunk

\* Mutant: the loop waits for the chip to become busy.
WaitInverted == pc = "wait" /\ busy # "no" /\ NextChunk

\* The loop on flash_is_busy ends and the write goes on with the next chunk.
Wait == pc = "wait" /\ busy = "no" /\ NextChunk

\* The call returns; the two quad calls have switched the function pointers.
Return ==
  /\ pc = "return"
  /\ pc' = "idle"
  /\ quad' = IF call.kind = "quad" THEN call.on ELSE quad
  /\ call' = NoCall
  /\ pos' = 0
  /\ UNCHANGED <<chip, careful>>

\* The K210 is reset at any moment and calls flash_init; the chip, which keeps
\* its power, may be busy.
Restart ==
  /\ quad' = FALSE
  /\ pc' = "idle" /\ call' = NoCall /\ pos' = 0
  /\ UNCHANGED <<chip, careful>>

DriverStep == ReadStatus \/ WriteEnable \/ Send \/ Wait \/ Return

Next == Finish \/ BeginCall \/ DriverStep \/ Restart

Spec == Init /\ [][Next]_vars

\* The chip does not stay busy for ever and the processor goes on.
FairSpec == Spec /\ WF_vars(Finish) /\ WF_vars(DriverStep)

-----------------------------------------------------------------------------
(* Properties *)

TypeOK ==
  /\ mem \in [0 .. Size - 1 -> SUBSET Bits]
  /\ busy \in {"no", "program", "erase", "quad on", "quad off"}
  /\ wel \in BOOLEAN /\ qe \in BOOLEAN /\ quad \in BOOLEAN
  /\ pc \in {"idle", "read", "enable", "send", "wait", "return"}
  /\ call \in Writes \union Erases \union QuadCalls \union {NoCall}
  /\ pos \in 0 .. Size
  /\ careful \in BOOLEAN

\* As long as the client has asked flash_is_busy before each call, the driver
\* never sends a command to a chip that does not listen: none to a busy one,
\* and none without the latch, across chunks, quad mode and resets.
ChipListens ==
  careful =>
    /\ pc \in {"enable", "send"} => busy = "no"
    /\ pc = "send" => wel

\* The driver uses quad commands only when the chip has been told so; if it
\* were not, every write would be ignored and reported as done.
QuadAgrees ==
  (careful /\ quad /\ pc # "return") => qe \/ busy = "quad on"

\* Every call returns: the loops on flash_is_busy end.
EveryCallReturns == (pc # "idle") ~> (pc = "idle")

\* The driver implements NorArray: page ends, chunks and the chip's own rules
\* never show, and a write or an erase changes what it should and nothing else.
Array == INSTANCE NorArray WITH
  cells <- mem,
  Calls <- Writes \union Erases,
  call <- IF call.kind = "quad" THEN NoCall ELSE call,
  done <- IF call.kind = "write" /\ pc = "wait" THEN pos + ChunkNow
          ELSE IF call.kind = "erase" /\ pc = "return" THEN 1 ELSE pos,
  careful <- careful

ImplementsNorArray == Array!Spec
=============================================================================
