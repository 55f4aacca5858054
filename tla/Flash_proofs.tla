---------------------------- MODULE Flash_proofs ----------------------------
(***************************************************************************)
(* Proofs about Flash for every chip, page, chunk and block size and every *)
(* set of writes that fit: the driver talks only to a chip that listens,   *)
(* and what it does is what NorArray promises.                             *)
(***************************************************************************)
EXTENDS Flash, TLAPS

USE DEF chip, driver

-----------------------------------------------------------------------------
(* The inductive invariant *)

\* Where the driver is tells what it was called for and how far it has come.
CallInv ==
  /\ pc = "idle" <=> call = NoCall
  /\ pc = "read" => call \in QuadCalls
  /\ pc = "wait" => call \in Writes
  /\ call \in Writes =>
       /\ pc \in {"enable", "send", "wait"} => pos < Len(call.bytes)
       /\ pc = "return" => pos = Len(call.bytes)
  /\ call \notin Writes => pos = 0

\* A careful client's call has found the chip idle, and it stays so until
\* something is sent.
IdleInv ==
  careful =>
    /\ pc \in {"read", "enable", "send"} => busy = "no"
    /\ pc = "send" => wel

\* The chip knows quad commands, or will when its busy time is over.
WillBeQuad == busy = "quad on" \/ (qe /\ busy # "quad off")

\* What the function pointers say, or will say when the call that is about to
\* return has switched them, is what the chip has been told.
QuadInv ==
  /\ (careful /\ quad /\ ~(pc = "return" /\ call \in QuadCalls)) => WillBeQuad
  /\ (careful /\ pc = "return" /\ call \in QuadCalls /\ call.on) => WillBeQuad

IInv == TypeOK /\ CallInv /\ IdleInv /\ QuadInv

-----------------------------------------------------------------------------
(* Operators *)

\* The assumptions, without the divisions.
LEMMA Sizes == Size \in Nat \ {0} /\ PageSize \in Nat \ {0} /\ ChunkSize \in Nat \ {0}
  BY FlashAssumption

\* A write that is asked for fits into the chip.
LEMMA WritesFit ==
  ASSUME NEW w \in Writes
  PROVE  /\ w.kind = "write" /\ w.addr \in Nat
         /\ w.bytes \in Seq(SUBSET Bits) /\ Len(w.bytes) \in Nat
         /\ w.addr + Len(w.bytes) <= Size
<1>1. /\ w.kind = "write" /\ w.addr \in Nat
      /\ w.bytes \in Seq(SUBSET Bits)
      /\ w.addr + Len(w.bytes) <= Size
  BY FlashAssumption, Zenon
<1>2. QED
  BY <1>1

\* The kind of a call is the set it is from.
LEMMA CallKinds ==
  ASSUME TypeOK
  PROVE  /\ call \in Writes <=> call.kind = "write"
         /\ call \in Erases <=> call.kind = "erase"
         /\ call \in QuadCalls <=> call.kind = "quad"
         /\ call = NoCall <=> call.kind = "none"
<1>1. \A w \in Writes : w.kind = "write"
  BY Sizes, WritesFit
<1>2. \A e \in Erases : e.kind = "erase"
  BY DEF Erases
<1>3. \A q \in QuadCalls : q.kind = "quad"
  BY DEF QuadCalls
<1>4. NoCall.kind = "none"
  BY DEF NoCall
<1>5. \/ call \in Writes \/ call \in Erases \/ call \in QuadCalls
      \/ call = NoCall
  BY DEF TypeOK
<1>6. /\ "write" # "erase" /\ "write" # "quad" /\ "write" # "none"
      /\ "erase" # "quad" /\ "erase" # "none" /\ "quad" # "none"
  OBVIOUS
<1>7. QED
  BY <1>1, <1>2, <1>3, <1>4, <1>5, <1>6, Zenon

\* A chunk is not empty, not longer than what is left, and ends in its page.
LEMMA ChunkBounds ==
  ASSUME NEW a \in Nat, NEW left \in Nat \ {0}
  PROVE  /\ Chunk(a, left) \in 1 .. left
         /\ Chunk(a, left) <= PageSize - (a % PageSize)
  BY Sizes, WritesFit DEF Chunk

\* In the middle of a write, the next chunk is a part of what was asked for.
LEMMA ChunkNowBounds ==
  ASSUME TypeOK, call \in Writes, pos < Len(call.bytes)
  PROVE  /\ Addr \in Nat
         /\ ChunkNow \in 1 .. Len(call.bytes) - pos
         /\ ChunkNow <= PageSize - (Addr % PageSize)
         /\ pos + ChunkNow \in 0 .. Size
<1>1. /\ pos \in Nat /\ Len(call.bytes) \in Nat /\ call.addr \in Nat
      /\ call.addr + Len(call.bytes) <= Size /\ Size \in Nat
  <2>1. pos \in 0 .. Size
    BY DEF TypeOK
  <2>2. QED
    BY <2>1, Sizes, WritesFit
<1>2. Addr \in Nat /\ Len(call.bytes) - pos \in Nat \ {0}
  BY <1>1 DEF Addr
<1>3. /\ ChunkNow \in 1 .. Len(call.bytes) - pos
      /\ ChunkNow <= PageSize - (Addr % PageSize)
  BY <1>2, ChunkBounds DEF ChunkNow
<1>4. pos + ChunkNow \in 0 .. Size
  BY <1>1, <1>3
<1>5. QED
  BY <1>2, <1>3, <1>4

\* A program only puts sets of bits into the cells, and so does an erase.
LEMMA ProgrammedIsCells ==
  ASSUME TypeOK, NEW a, NEW bytes
  PROVE  Programmed(a, bytes) \in [0 .. Size - 1 -> SUBSET Bits]
  BY DEF TypeOK, Programmed

LEMMA BlankIsCells ==
  ASSUME TypeOK, NEW a, NEW size
  PROVE  Blank(a, size) \in [0 .. Size - 1 -> SUBSET Bits]
  BY DEF TypeOK, Blank

-----------------------------------------------------------------------------
(* Every step keeps the invariant *)

\* The fresh chip and driver.
LEMMA InitIInv == Init => IInv
<1> SUFFICES ASSUME Init PROVE IInv
  OBVIOUS
<1> USE DEF Init
<1>1. TypeOK
  BY Sizes, WritesFit DEF TypeOK
<1>2. CallInv
  BY <1>1, CallKinds DEF CallInv, NoCall
<1>3. IdleInv /\ QuadInv
  BY DEF IdleInv, QuadInv
<1>4. QED
  BY <1>1, <1>2, <1>3 DEF IInv

\* The end of a busy time makes the promised quad mode true.
LEMMA FinishStep ==
  ASSUME IInv, Finish
  PROVE  IInv'
<1>1. TypeOK' /\ CallInv'
  BY DEF IInv, TypeOK, CallInv, Finish
<1>2. IdleInv' /\ QuadInv'
  BY DEF IInv, TypeOK, IdleInv, QuadInv, WillBeQuad, Finish
<1>3. QED
  BY <1>1, <1>2 DEF IInv

\* A call begins: from here on a careful client knows the chip idle.
LEMMA BeginCallStep ==
  ASSUME IInv, BeginCall
  PROVE  IInv'
<1>1. PICK c \in Writes \union Erases \union QuadCalls, place \in {"enable", "read"} :
        /\ Begin(c, place)
        /\ c \in Writes => Len(c.bytes) \in Nat /\ Len(c.bytes) > 0
        /\ place = IF c \in QuadCalls THEN "read" ELSE "enable"
  <2>1. CASE \E w \in Writes : Len(w.bytes) > 0 /\ Begin(w, "enable")
    BY <2>1, Sizes, WritesFit DEF QuadCalls
  <2>2. CASE \E e \in Erases : Begin(e, "enable")
    BY <2>2, Sizes, WritesFit DEF Erases, QuadCalls
  <2>3. CASE \E q \in QuadCalls : Begin(q, "read")
    BY <2>3, Sizes, WritesFit DEF QuadCalls
  <2>4. QED
    BY <2>1, <2>2, <2>3 DEF BeginCall
<1>2. TypeOK'
  <2>1. careful' \in BOOLEAN
    BY <1>1, Zenon DEF Begin
  <2>2. 0 \in 0 .. Size
    BY Sizes
  <2>3. QED
    BY <1>1, <2>1, <2>2 DEF IInv, TypeOK, Begin
<1>3. call' # NoCall
  BY <1>1, Sizes, WritesFit DEF Begin, Erases, QuadCalls, NoCall
<1>4. CallInv'
  BY <1>1, <1>3 DEF IInv, TypeOK, CallInv, Begin
<1>5. IdleInv'
  BY <1>1 DEF IInv, TypeOK, IdleInv, Begin
<1>6. QuadInv'
  BY <1>1 DEF IInv, TypeOK, CallInv, QuadInv, WillBeQuad, Begin
<1>7. QED
  BY <1>2, <1>4, <1>5, <1>6 DEF IInv

\* The register shows the mode as it is: the chip is not busy changing it.
LEMMA ReadStatusStep ==
  ASSUME IInv, ReadStatus
  PROVE  IInv'
<1>1. TypeOK'
  BY DEF IInv, TypeOK, ReadStatus
<1>2. call \in QuadCalls /\ call \notin Writes /\ call # NoCall
  BY CallKinds DEF IInv, CallInv, ReadStatus
<1>3. CallInv'
  BY <1>2 DEF IInv, TypeOK, CallInv, ReadStatus
<1>4. IdleInv' /\ QuadInv'
  BY <1>2 DEF IInv, TypeOK, IdleInv, QuadInv, WillBeQuad, ReadStatus
<1>5. QED
  BY <1>1, <1>3, <1>4 DEF IInv

\* The latch is set, if the chip is idle.
LEMMA WriteEnableStep ==
  ASSUME IInv, WriteEnable
  PROVE  IInv'
<1>1. TypeOK'
  BY DEF IInv, TypeOK, WriteEnable
<1>2. CallInv'
  BY DEF IInv, TypeOK, CallInv, WriteEnable
<1>3. IdleInv' /\ QuadInv'
  BY DEF IInv, TypeOK, IdleInv, QuadInv, WillBeQuad, WriteEnable
<1>4. QED
  BY <1>1, <1>2, <1>3 DEF IInv

\* The three commands that need the latch.
LEMMA SendStep ==
  ASSUME IInv, Send
  PROVE  IInv'
<1>1. CASE SendProgram
  <2>1. call \in Writes
    BY <1>1, CallKinds DEF IInv, SendProgram
  <2>2. TypeOK'
    <3>1. mem' \in [0 .. Size - 1 -> SUBSET Bits]
      <4>1. mem \in [0 .. Size - 1 -> SUBSET Bits] /\ TypeOK
        BY DEF IInv, TypeOK
      <4>2. QED
        BY <1>1, <4>1, ProgrammedIsCells DEF SendProgram, Obey
    <3>2. QED
      BY <1>1, <3>1 DEF IInv, TypeOK, SendProgram, Obey
  <2>3. CallInv'
    BY <1>1, <2>1 DEF IInv, TypeOK, CallInv, SendProgram
  <2>4. IdleInv' /\ QuadInv'
    BY <1>1 DEF IInv, TypeOK, IdleInv, QuadInv, WillBeQuad, SendProgram, Obey, Listens
  <2>5. QED
    BY <2>2, <2>3, <2>4 DEF IInv
<1>2. CASE SendErase
  <2>1. call \in Erases /\ call \notin Writes /\ call \notin QuadCalls
    BY <1>2, CallKinds DEF IInv, SendErase
  <2>2. TypeOK'
    <3>1. mem' \in [0 .. Size - 1 -> SUBSET Bits]
      <4>1. mem \in [0 .. Size - 1 -> SUBSET Bits] /\ TypeOK
        BY DEF IInv, TypeOK
      <4>2. QED
        BY <1>2, <4>1, BlankIsCells DEF SendErase, Obey
    <3>2. QED
      BY <1>2, <3>1 DEF IInv, TypeOK, SendErase, Obey
  <2>3. CallInv'
    BY <1>2, <2>1 DEF IInv, TypeOK, CallInv, SendErase
  <2>4. IdleInv' /\ QuadInv'
    BY <1>2, <2>1 DEF IInv, TypeOK, IdleInv, QuadInv, WillBeQuad, SendErase, Obey, Listens
  <2>5. QED
    BY <2>2, <2>3, <2>4 DEF IInv
<1>3. CASE SendStatus
  <2>1. call \in QuadCalls /\ call \notin Writes
    BY <1>3, CallKinds DEF IInv, SendStatus
  <2>2. TypeOK'
    BY <1>3 DEF IInv, TypeOK, SendStatus, Obey
  <2>3. CallInv'
    BY <1>3, <2>1 DEF IInv, TypeOK, CallInv, SendStatus
  <2>4. IdleInv' /\ QuadInv'
    BY <1>3, <2>1 DEF IInv, TypeOK, IdleInv, QuadInv, WillBeQuad, SendStatus, Obey, Listens
  <2>5. QED
    BY <2>2, <2>3, <2>4 DEF IInv
<1>4. QED
  BY <1>1, <1>2, <1>3 DEF Send

\* The chunk is done, and what is left is not more than the chip holds.
LEMMA WaitStep ==
  ASSUME IInv, Wait
  PROVE  IInv'
<1>1. /\ call \in Writes /\ call \notin QuadCalls /\ call # NoCall
      /\ pos < Len(call.bytes)
      /\ pos \in Nat /\ Len(call.bytes) \in Nat
  BY CallKinds, Sizes, WritesFit DEF IInv, TypeOK, CallInv, Wait
<1>2. ChunkNow \in 1 .. Len(call.bytes) - pos /\ pos + ChunkNow \in 0 .. Size
  BY <1>1, ChunkNowBounds DEF IInv
<1>3. TypeOK'
  BY <1>2 DEF IInv, TypeOK, Wait, NextChunk
<1>4. CallInv'
  BY <1>1, <1>2 DEF IInv, CallInv, Wait, NextChunk
<1>5. IdleInv' /\ QuadInv'
  BY <1>1 DEF IInv, TypeOK, IdleInv, QuadInv, WillBeQuad, Wait, NextChunk
<1>6. QED
  BY <1>3, <1>4, <1>5 DEF IInv

\* The pointers are switched to what the chip has been told.
LEMMA ReturnStep ==
  ASSUME IInv, Return
  PROVE  IInv'
<1>1. NoCall \notin Writes /\ NoCall \notin QuadCalls
  BY Sizes, WritesFit DEF QuadCalls, NoCall
<1>2. call.kind = "quad" => call \in QuadCalls /\ call.on \in BOOLEAN
  BY CallKinds DEF IInv, QuadCalls
<1>3. TypeOK'
  <2>1. 0 \in 0 .. Size
    BY Sizes
  <2>2. QED
    BY <1>2, <2>1 DEF IInv, TypeOK, Return
<1>4. CallInv'
  BY <1>1 DEF IInv, CallInv, Return
<1>5. IdleInv'
  BY DEF IdleInv, Return
<1>6. QuadInv'
  BY <1>1, <1>2, CallKinds DEF IInv, TypeOK, QuadInv, WillBeQuad, Return
<1>7. QED
  BY <1>3, <1>4, <1>5, <1>6 DEF IInv

\* After a reset the driver does not use quad commands.
LEMMA RestartStep ==
  ASSUME IInv, Restart
  PROVE  IInv'
<1>1. NoCall \notin Writes /\ NoCall \notin QuadCalls
  BY Sizes, WritesFit DEF QuadCalls, NoCall
<1>2. TypeOK'
  <2>1. 0 \in 0 .. Size
    BY Sizes
  <2>2. QED
    BY <2>1 DEF IInv, TypeOK, Restart
<1>3. CallInv' /\ IdleInv' /\ QuadInv'
  BY <1>1 DEF CallInv, IdleInv, QuadInv, Restart
<1>4. QED
  BY <1>2, <1>3 DEF IInv

\* IInv is inductive.
LEMMA NextIInv == IInv /\ [Next]_vars => IInv'
<1> SUFFICES ASSUME IInv, [Next]_vars PROVE IInv'
  OBVIOUS
<1>1. CASE Next
  BY <1>1, FinishStep, BeginCallStep, ReadStatusStep, WriteEnableStep, SendStep,
     WaitStep, ReturnStep, RestartStep DEF Next, DriverStep
<1>2. CASE UNCHANGED vars
  <2>1. TypeOK'
    BY <1>2 DEF vars, IInv, TypeOK
  <2>2. CallInv'
    BY <1>2 DEF vars, IInv, CallInv
  <2>3. IdleInv' /\ QuadInv'
    BY <1>2 DEF vars, IInv, IdleInv, QuadInv, WillBeQuad
  <2>4. QED
    BY <2>1, <2>2, <2>3 DEF IInv
<1>3. QED
  BY <1>1, <1>2

\* The invariant holds in every reachable state.
THEOREM InvariantHolds == Spec => []IInv
<1>1. Init => IInv
  BY InitIInv
<1>2. IInv /\ [Next]_vars => IInv'
  BY NextIInv
<1>3. QED
  BY <1>1, <1>2, PTL DEF Spec

\* Every variable keeps its type: in particular a position in a write is one
\* of the chip.
THEOREM TypeCorrect == Spec => []TypeOK
<1>1. IInv => TypeOK
  BY DEF IInv
<1>2. QED
  BY <1>1, InvariantHolds, PTL

\* flash.c never sends a program, an erase or a register write to a chip that
\* is busy or not enabled, if its client asks flash_is_busy before each call.
THEOREM DriverIsHeard == Spec => []ChipListens
<1>1. IInv => ChipListens
  BY DEF IInv, IdleInv, ChipListens
<1>2. QED
  BY <1>1, InvariantHolds, PTL

\* The quad function pointers are in use only with a chip in quad mode.
THEOREM QuadModeAgrees == Spec => []QuadAgrees
<1>1. IInv => QuadAgrees
  BY DEF IInv, QuadInv, WillBeQuad, QuadAgrees
<1>2. QED
  BY <1>1, InvariantHolds, PTL

-----------------------------------------------------------------------------
(* Pages *)

\* A number and a size fix the page and the place in it.
LEMMA PageAndPlace ==
  ASSUME NEW n \in Nat, NEW size \in Nat \ {0}
  PROVE  \E q \in Nat, r \in 0 .. size - 1 :
           q = n \div size /\ r = n % size /\ n = size * q + r
<1>1. n \div size \in Nat
  OBVIOUS
<1>2. n % size \in 0 .. size - 1
  OBVIOUS
<1>3. ASSUME NEW q \in Nat, NEW r \in 0 .. size - 1,
             q = n \div size, r = n % size
      PROVE  n = size * q + r
  BY <1>3
<1>4. QED
  BY <1>1, <1>2, <1>3

\* They are the only ones.
LEMMA PageIsUnique ==
  ASSUME NEW size \in Nat \ {0}, NEW q \in Nat, NEW r \in 0 .. size - 1,
         NEW p \in Nat, NEW t \in 0 .. size - 1,
         size * q + r = size * p + t
  PROVE  q = p /\ r = t
  OBVIOUS

\* The distance from place t to place r of a page, going round.
LEMMA GoingRound ==
  ASSUME NEW size \in Nat \ {0}, NEW q \in Nat,
         NEW r \in 0 .. size - 1, NEW t \in 0 .. size - 1,
         NEW n \in Nat, n = size * q + r + size - t
  PROVE  n % size = IF r >= t THEN r - t ELSE size + r - t
<1>1. n = IF r >= t THEN size * (q + 1) + (r - t)
          ELSE size * q + (size + r - t)
  <2>1. size * q \in Nat /\ size * (q + 1) = size * q + size
    OBVIOUS
  <2>2. QED
    BY <2>1
<1>2. PICK p \in Nat, m \in 0 .. size - 1 : m = n % size /\ n = size * p + m
  BY PageAndPlace
<1>3. CASE r >= t
  <2>1. r - t \in 0 .. size - 1 /\ q + 1 \in Nat
    BY <1>3
  <2>2. size * p + m = size * (q + 1) + (r - t)
    BY <1>1, <1>2, <1>3
  <2>3. m = r - t
    BY <2>1, <2>2, PageIsUnique
  <2>4. QED
    BY <2>3, <1>2, <1>3
<1>4. CASE ~ (r >= t)
  <2>1. size + r - t \in 0 .. size - 1
    BY <1>4
  <2>2. size * p + m = size * q + (size + r - t)
    BY <1>1, <1>2, <1>4
  <2>3. m = size + r - t
    BY <2>1, <2>2, PageIsUnique
  <2>4. QED
    BY <2>3, <1>2, <1>4
<1>5. QED
  BY <1>3, <1>4

\* Addresses x and a, split into page and place: x is one of the len addresses
\* from a on, which do not leave the page, exactly if it is in the page of a
\* and less than len places away from it, going round.
LEMMA WithinPage ==
  ASSUME NEW size \in Nat \ {0}, NEW q \in Nat, NEW p \in Nat,
         NEW r \in 0 .. size - 1, NEW t \in 0 .. size - 1,
         NEW len \in 0 .. size - t, NEW x \in Nat, NEW a \in Nat,
         x = size * q + r, a = size * p + t,
         NEW i, i = IF r >= t THEN r - t ELSE size + r - t
  PROVE  /\ (q = p /\ i < len) <=> (x >= a /\ x < a + len)
         /\ (x >= a /\ x < a + len) => i = x - a
<1>1. CASE q = p
  BY <1>1
<1>2. CASE q < p
  <2>1. size * q + size <= size * p
    BY <1>2
  <2>2. x < a
    BY <2>1
  <2>3. QED
    BY <1>2, <2>2
<1>3. CASE p < q
  <2>1. size * p + size <= size * q
    BY <1>3
  <2>2. x >= a + len
    BY <2>1
  <2>3. QED
    BY <1>3, <2>2
<1>4. QED
  BY <1>1, <1>2, <1>3

\* So a chunk that stays within the page of its address comes out of a program
\* command as a plain write: the wrap-around inside the page does not show.
LEMMA ChunkIsWritten ==
  ASSUME NEW a \in Nat, NEW bytes \in Seq(SUBSET Bits),
         Len(bytes) <= PageSize - (a % PageSize)
  PROVE  Programmed(a, bytes) = Array!Written(a, bytes)
<1>1. ASSUME NEW x \in 0 .. Size - 1,
             NEW i, i = (x + PageSize - (a % PageSize)) % PageSize
      PROVE  /\ (x \div PageSize = a \div PageSize /\ i < Len(bytes))
                  <=> (x >= a /\ x < a + Len(bytes))
             /\ (x >= a /\ x < a + Len(bytes)) => i = x - a
  <2>1. PageSize \in Nat \ {0} /\ x \in Nat /\ Len(bytes) \in Nat
    BY Sizes, WritesFit
  <2>2. PICK q \in Nat, r \in 0 .. PageSize - 1 :
          /\ x = PageSize * q + r
          /\ q = x \div PageSize
    BY <2>1, PageAndPlace
  <2>3. PICK p \in Nat, t \in 0 .. PageSize - 1 :
          /\ a = PageSize * p + t
          /\ p = a \div PageSize
          /\ t = a % PageSize
    BY <2>1, PageAndPlace
  <2>4. i = IF r >= t THEN r - t ELSE PageSize + r - t
    <3>1. PICK n \in Nat : n = x + PageSize - t
      BY <2>1
    <3>2. i = n % PageSize
      BY <1>1, <2>3, <3>1
    <3>3. n = PageSize * q + r + PageSize - t
      BY <2>2, <3>1
    <3>4. n % PageSize = IF r >= t THEN r - t ELSE PageSize + r - t
      BY <2>1, <3>3, GoingRound
    <3>5. QED
      BY <3>2, <3>4
  <2>5. Len(bytes) \in 0 .. PageSize - t
    BY <2>1, <2>3
  <2>6. /\ (q = p /\ i < Len(bytes)) <=> (x >= a /\ x < a + Len(bytes))
        /\ (x >= a /\ x < a + Len(bytes)) => i = x - a
    <3>1. x = PageSize * q + r /\ a = PageSize * p + t
      BY <2>2, <2>3
    <3>2. QED
      BY <2>1, <2>4, <2>5, <3>1, WithinPage
  <2>7. QED
    BY <2>2, <2>3, <2>6
<1>2. QED
  BY <1>1 DEF Programmed, Array!Written

-----------------------------------------------------------------------------
(* Every step is one of NorArray, or changes nothing there.                *)

\* The call that NorArray sees, and how much of it is done: bytes are done
\* when they have been sent, an erase when its command has been sent.
AbsCall == IF call.kind = "quad" THEN NoCall ELSE call
AbsDone == IF call.kind = "write" /\ pc = "wait" THEN pos + ChunkNow
           ELSE IF call.kind = "erase" /\ pc = "return" THEN 1 ELSE pos

\* A step that leaves all this alone is not seen.
LEMMA Unseen ==
  ASSUME AbsCall' = AbsCall, AbsDone' = AbsDone, mem' = mem,
         careful' = careful
  PROVE  UNCHANGED Array!vars
  BY DEF Array!vars, AbsCall, AbsDone

\* A write or an erase begins; setting the quad mode can only be careless.
LEMMA BeginCallMaps ==
  ASSUME IInv, BeginCall
  PROVE  [Array!Next]_(Array!vars)
<1>1. call = NoCall /\ call.kind = "none" /\ pos = 0 /\ pc = "idle"
  BY CallKinds, Sizes, WritesFit
     DEF IInv, CallInv, NoCall, BeginCall, Begin, Erases, QuadCalls
<1>2. AbsCall = Array!NoCall /\ AbsDone = 0
  BY <1>1 DEF AbsCall, AbsDone, NoCall, Array!NoCall
<1>3. mem' = mem /\ pos' = 0 /\ careful' \in {careful, FALSE}
  BY DEF BeginCall, Begin, IInv, TypeOK
<1>4. CASE \E c \in Writes \union Erases : Begin(c, "enable")
  <2>1. PICK c \in Writes \union Erases : Begin(c, "enable")
    BY <1>4
  <2>2. c.kind = "write" \/ c.kind = "erase"
    BY Sizes, WritesFit DEF Erases
  <2>3. AbsCall' = c /\ AbsDone' = 0
    BY <2>1, <2>2, <1>3 DEF AbsCall, AbsDone, Begin
  <2>4. Array!Begin
    BY <1>2, <1>3, <2>3 DEF Array!Begin, AbsCall, AbsDone
  <2>5. QED
    BY <2>4 DEF Array!Next
<1>5. CASE \E q \in QuadCalls : Begin(q, "read")
  <2>1. call'.kind = "quad"
    BY <1>5 DEF Begin, QuadCalls
  <2>2. AbsCall' = Array!NoCall /\ AbsDone' = 0
    BY <2>1, <1>3 DEF AbsCall, AbsDone, NoCall, Array!NoCall
  <2>3. CASE careful' = FALSE
    <3>1. Array!BeCareless
      BY <1>2, <1>3, <2>2, <2>3 DEF Array!BeCareless, AbsCall, AbsDone
    <3>2. QED
      BY <3>1 DEF Array!Next
  <2>4. CASE careful' = careful
    BY <1>2, <1>3, <2>2, <2>4, Unseen
  <2>5. QED
    BY <1>3, <2>3, <2>4
<1>6. QED
  BY <1>4, <1>5 DEF BeginCall

\* Looking at a register and setting the latch do not show.
LEMMA PreludeMaps ==
  ASSUME IInv, ReadStatus \/ WriteEnable
  PROVE  UNCHANGED Array!vars
<1>1. /\ pc \in {"read", "enable"} /\ pc' \in {"enable", "send", "return"}
      /\ UNCHANGED <<mem, call, pos, careful>>
  BY DEF ReadStatus, WriteEnable
<1>2. pc' = "return" => call.kind = "quad"
  BY CallKinds DEF IInv, CallInv, ReadStatus, WriteEnable
<1>3. AbsCall' = AbsCall /\ AbsDone' = AbsDone
  BY <1>1, <1>2 DEF AbsCall, AbsDone
<1>4. QED
  BY <1>1, <1>3, Unseen

\* The program command writes the next bytes of the call, unless a careless
\* client has made it go unheard.
LEMMA SendProgramMaps ==
  ASSUME IInv, SendProgram
  PROVE  Array!Next
<1> DEFINE n == ChunkNow
           bytes == SubSeq(call.bytes, pos + 1, pos + n)
<1>1. /\ call \in Writes /\ call.kind = "write" /\ pos < Len(call.bytes)
      /\ pc = "send" /\ pc' = "wait" /\ UNCHANGED <<call, pos, careful>>
  BY CallKinds DEF IInv, CallInv, SendProgram
<1>2. /\ Addr \in Nat /\ n \in 1 .. Len(call.bytes) - pos
      /\ n <= PageSize - (Addr % PageSize)
  BY <1>1, ChunkNowBounds DEF IInv
<1>3. /\ pos \in Nat /\ call.bytes \in Seq(SUBSET Bits)
      /\ Len(call.bytes) \in Nat
  <2>1. pos \in 0 .. Size
    BY DEF IInv, TypeOK
  <2>2. QED
    BY <1>1, <2>1, Sizes, WritesFit
<1>4. bytes \in Seq(SUBSET Bits) /\ Len(bytes) = n
  BY <1>2, <1>3
<1>5. Programmed(Addr, bytes) = Array!Written(Addr, bytes)
  BY <1>2, <1>4, ChunkIsWritten
<1>6. \/ mem' = Array!Written(Addr, bytes)
      \/ ~ careful /\ mem' = mem
  BY <1>1, <1>5 DEF IInv, IdleInv, QuadInv, WillBeQuad, Listens, SendProgram, Obey
<1>7. ChunkNow' = n
  BY <1>1 DEF ChunkNow, Addr
<1>8. /\ AbsCall = call /\ AbsCall' = call
      /\ AbsDone = pos /\ AbsDone' = pos + n
  BY <1>1, <1>7 DEF AbsCall, AbsDone
<1>9. Array!WriteSome(n)
  BY <1>1, <1>2, <1>3, <1>6, <1>8 DEF Array!WriteSome, AbsCall, AbsDone, Addr
<1>10. n \in 1 .. Len(call.bytes)
  BY <1>2, <1>3
<1>11. QED
  BY <1>1, <1>8, <1>9, <1>10 DEF Array!Next, AbsCall

\* The erase command erases the block.
LEMMA SendEraseMaps ==
  ASSUME IInv, SendErase
  PROVE  Array!Next
<1>1. /\ call.kind = "erase" /\ pos = 0 /\ pc = "send" /\ pc' = "return"
      /\ UNCHANGED <<call, pos, careful>>
  BY CallKinds DEF IInv, CallInv, SendErase
<1>2. \/ mem' = Array!Erased(call.addr, call.size)
      \/ ~ careful /\ mem' = mem
  BY <1>1 DEF IInv, IdleInv, Listens, SendErase, Obey, Blank, Array!Erased
<1>3. AbsCall = call /\ AbsCall' = call /\ AbsDone = 0 /\ AbsDone' = 1
  BY <1>1 DEF AbsCall, AbsDone
<1>4. Array!EraseBlock
  BY <1>1, <1>2, <1>3 DEF Array!EraseBlock, AbsCall, AbsDone
<1>5. QED
  BY <1>4 DEF Array!Next

\* The write of the register does not touch the cells.
LEMMA SendStatusMaps ==
  ASSUME IInv, SendStatus
  PROVE  UNCHANGED Array!vars
<1>1. /\ call.kind = "quad" /\ mem' = mem /\ UNCHANGED <<call, pos, careful>>
  BY DEF SendStatus, Obey
<1>2. AbsCall' = AbsCall /\ AbsDone' = AbsDone
  BY <1>1 DEF AbsCall, AbsDone
<1>3. QED
  BY <1>1, <1>2, Unseen

\* What Wait adds to pos was counted when it was sent.
LEMMA WaitMaps ==
  ASSUME IInv, Wait
  PROVE  UNCHANGED Array!vars
<1>1. call.kind = "write"
  BY CallKinds DEF IInv, CallInv, Wait
<1>2. /\ pc = "wait" /\ pc' \in {"return", "enable"} /\ pos' = pos + ChunkNow
      /\ UNCHANGED <<mem, call, careful>>
  BY DEF Wait, NextChunk
<1>3. AbsCall' = AbsCall /\ AbsDone' = AbsDone
  BY <1>1, <1>2 DEF AbsCall, AbsDone
<1>4. QED
  BY <1>2, <1>3, Unseen

\* A call returns when all of it is done.
LEMMA ReturnMaps ==
  ASSUME IInv, Return
  PROVE  [Array!Next]_(Array!vars)
<1>1. pc = "return" /\ pc' = "idle" /\ call' = NoCall /\ pos' = 0
      /\ UNCHANGED <<mem, careful>>
  BY DEF Return
<1>2. AbsCall' = Array!NoCall /\ AbsDone' = 0
  BY <1>1 DEF AbsCall, AbsDone, NoCall, Array!NoCall
<1>3. CASE call \in Writes
  <2>1. call.kind = "write" /\ AbsCall = call /\ AbsDone = Len(call.bytes)
    BY <1>1, <1>3, CallKinds DEF IInv, CallInv, AbsCall, AbsDone
  <2>2. Array!Return
    BY <1>1, <1>2, <2>1 DEF Array!Return, AbsCall, AbsDone
  <2>3. QED
    BY <2>2 DEF Array!Next
<1>4. CASE call \in Erases
  <2>1. call.kind = "erase" /\ AbsCall = call /\ AbsDone = 1
    BY <1>1, <1>4, CallKinds DEF IInv, AbsCall, AbsDone
  <2>2. Array!Return
    BY <1>1, <1>2, <2>1 DEF Array!Return, AbsCall, AbsDone
  <2>3. QED
    BY <2>2 DEF Array!Next
<1>5. CASE call \in QuadCalls
  <2>1. call.kind = "quad" /\ call \notin Writes
    BY <1>5, CallKinds DEF IInv
  <2>2. AbsCall = Array!NoCall /\ AbsDone = 0
    BY <2>1 DEF IInv, CallInv, AbsCall, AbsDone, NoCall, Array!NoCall
  <2>3. QED
    BY <1>1, <1>2, <2>2, Unseen
<1>6. QED
  BY <1>1, <1>3, <1>4, <1>5 DEF IInv, TypeOK, CallInv

\* A reset leaves the rest of the call undone.
LEMMA RestartMaps ==
  ASSUME Restart
  PROVE  Array!Next
<1>1. AbsCall' = Array!NoCall /\ AbsDone' = 0
  BY DEF Restart, AbsCall, AbsDone, NoCall, Array!NoCall
<1>2. Array!Abandon
  BY <1>1 DEF Restart, Array!Abandon, AbsCall, AbsDone
<1>3. QED
  BY <1>2 DEF Array!Next

\* The end of a busy time does not show.
LEMMA FinishMaps ==
  ASSUME Finish
  PROVE  UNCHANGED Array!vars
<1>1. UNCHANGED <<mem, pc, call, pos, careful>>
  BY DEF Finish
<1>2. AbsCall' = AbsCall /\ AbsDone' = AbsDone
  BY <1>1 DEF AbsCall, AbsDone, ChunkNow, Addr
<1>3. QED
  BY <1>1, <1>2, Unseen

\* flash.c and the chip, with any page and chunk size, any set of writes and
\* any blocks, are the array of cells that NorArray describes.
THEOREM FlashIsNorArray == Spec => ImplementsNorArray
<1>1. Init => Array!Init
  <2>1. SUFFICES ASSUME Init PROVE Array!Init
    OBVIOUS
  <2>2. AbsCall = Array!NoCall /\ AbsDone = 0
    BY <2>1 DEF Init, AbsCall, AbsDone, NoCall, Array!NoCall
  <2>3. QED
    BY <2>1, <2>2 DEF Init, Array!Init, AbsCall, AbsDone
<1>2. IInv /\ [Next]_vars => [Array!Next]_(Array!vars)
  <2> SUFFICES ASSUME IInv, [Next]_vars PROVE [Array!Next]_(Array!vars)
    OBVIOUS
  <2>1. CASE Finish
    BY <2>1, FinishMaps
  <2>2. CASE BeginCall
    BY <2>2, BeginCallMaps
  <2>3. CASE ReadStatus \/ WriteEnable
    BY <2>3, PreludeMaps
  <2>4. CASE Send
    BY <2>4, SendProgramMaps, SendEraseMaps, SendStatusMaps DEF Send
  <2>5. CASE Wait
    BY <2>5, WaitMaps
  <2>6. CASE Return
    BY <2>6, ReturnMaps
  <2>7. CASE Restart
    BY <2>7, RestartMaps
  <2>8. CASE UNCHANGED vars
    <3>1. AbsCall' = AbsCall /\ AbsDone' = AbsDone
      BY <2>8 DEF vars, AbsCall, AbsDone, ChunkNow, Addr
    <3>2. QED
      BY <2>8, <3>1, Unseen DEF vars
  <2>9. QED
    BY <2>1, <2>2, <2>3, <2>4, <2>5, <2>6, <2>7, <2>8 DEF Next, DriverStep
<1>3. QED
  BY <1>1, <1>2, InvariantHolds, PTL DEF Spec, Array!Spec, ImplementsNorArray
=============================================================================
