------------------------------ MODULE NorArray ------------------------------
(***************************************************************************)
(* What drivers/flash/flash.c makes of a NOR flash chip: an array of       *)
(* cells in which a write of any length at any address can only clear bits *)
(* and an erase sets those of a block.  There are no pages, chunks, enable *)
(* latch, busy time or quad mode here.                                     *)
(*                                                                         *)
(* The promise is for a careful client, one that has asked flash_is_busy   *)
(* before each call: the driver asks it only inside a write.  For another  *)
(* client a part of a write, or an erase, may be lost; even then nothing   *)
(* outside what was asked for is changed.                                  *)
(***************************************************************************)
EXTENDS Naturals, Sequences

CONSTANTS
  Size,          \* cells
  Bits,          \* a cell is the set of its bits that are 1
  BlockSizes,    \* what can be erased at once
  Calls          \* writes [kind, addr, bytes] and erases [kind, addr, size]

VARIABLES
  cells,
  call,          \* the running call
  done,          \* how much of it has been carried out
  careful        \* every call so far found the chip idle

vars == <<cells, call, done, careful>>

NoCall == [kind |-> "none"]

Init ==
  /\ cells \in [0 .. Size - 1 -> SUBSET Bits]
  /\ call = NoCall /\ done = 0 /\ careful = TRUE

\* cells after bytes have been written from address a on.
Written(a, bytes) ==
  [x \in 0 .. Size - 1 |->
     IF x >= a /\ x < a + Len(bytes) THEN cells[x] \cap bytes[x - a + 1]
     ELSE cells[x]]

\* cells after the block of the given size that holds address a is erased.
Erased(a, size) ==
  [x \in 0 .. Size - 1 |-> IF x \div size = a \div size THEN Bits ELSE cells[x]]

Begin ==
  /\ call = NoCall
  /\ call' \in Calls
  /\ done' = 0
  /\ careful' \in {careful, FALSE}
  /\ UNCHANGED cells

\* The next n bytes of a write.
WriteSome(n) ==
  /\ call.kind = "write"
  /\ done + n <= Len(call.bytes)
  /\ \/ cells' = Written(call.addr + done,
                         SubSeq(call.bytes, done + 1, done + n))
     \/ ~careful /\ UNCHANGED cells
  /\ done' = done + n
  /\ UNCHANGED <<call, careful>>

EraseBlock ==
  /\ call.kind = "erase"
  /\ done = 0
  /\ \/ cells' = Erased(call.addr, call.size)
     \/ ~careful /\ UNCHANGED cells
  /\ done' = 1
  /\ UNCHANGED <<call, careful>>

Return ==
  /\ \/ call.kind = "write" /\ done = Len(call.bytes)
     \/ call.kind = "erase" /\ done = 1
  /\ call' = NoCall
  /\ done' = 0
  /\ UNCHANGED <<cells, careful>>

\* The processor is reset: what is left of the call is not carried out.
Abandon ==
  /\ call' = NoCall
  /\ done' = 0
  /\ UNCHANGED <<cells, careful>>

\* A call that does not touch the cells found the chip busy.
BeCareless ==
  /\ careful' = FALSE
  /\ UNCHANGED <<cells, call, done>>

Next ==
  \/ Begin
  \/ call.kind = "write" /\ \E n \in 1 .. Len(call.bytes) : WriteSome(n)
  \/ EraseBlock
  \/ Return
  \/ Abandon
  \/ BeCareless

Spec == Init /\ [][Next]_vars
=============================================================================
