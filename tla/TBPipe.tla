------------------------------- MODULE TBPipe -------------------------------
(***************************************************************************)
(* The lock-free ring buffer between an interrupt handler (or a second     *)
(* thread) that calls Write and the main code that calls everything else   *)
(* (drivers/TBPipe/TBPipe.cpp).  There is no lock: the two sides share     *)
(* read_pos, write_pos and the bytes of the buffer.                        *)
(*                                                                         *)
(* A step is what one side does between two accesses to the other side's   *)
(* data: load the other position, copy one byte, store the own position.   *)
(* A side reads its own position with no one else writing it, so that load *)
(* is part of the step that loads the other one.                           *)
(*                                                                         *)
(* A byte is its number in the stream of accepted bytes (see PipeFIFO);    *)
(* 0 is what malloc left in the buffer.                                    *)
(***************************************************************************)
EXTENDS Integers

CONSTANTS
  BufferSize,    \* buffer_size
  Granule,       \* Write rounds the free space down to a multiple of it: 8
  WriteCounts,   \* sizes the writer asks for
  ReadCounts,    \* sizes the reader asks ReadExact for
  MaxBytes,      \* bound: bytes accepted in one behaviour
  Unit           \* the users' words are this long: 4 in the tests

ASSUME BufferSizeAssumption == BufferSize \in Nat \ {0}
ASSUME GranuleAssumption == Granule \in Nat \ {0}
ASSUME CountsAssumption ==
  /\ WriteCounts \subseteq Nat
  /\ ReadCounts \subseteq Nat
  /\ MaxBytes \in Nat
  /\ Unit \in Nat \ {0}

VARIABLES
  buffer,        \* the bytes
  read_pos,      \* stored by the reader only
  write_pos,     \* stored by the writer only
  read_pos_tmp,  \* set by ReadStart for ReadEnd
  \* the writer inside Write
  wpc, wcount, wcopied,
  \* the reader inside ReadStart..ReadEnd, ReadExact or Clear
  rpc, rsize, rcopied, rnext,
  ravail,        \* what AvailableBytes last told the reader, less what it read
  \* history: the stream the two sides see
  accepted, taken, released, last,
  mark           \* accepted when the running Clear began

shared == <<buffer, read_pos, write_pos>>
writer == <<wpc, wcount, wcopied>>
reader == <<read_pos_tmp, rpc, rsize, rcopied, rnext, ravail, mark>>
vars == <<shared, writer, reader, accepted, taken, released, last>>

-----------------------------------------------------------------------------
(* The position arithmetic *)

FreeBytesInternal(r, w) ==
  IF w < r THEN r - w - 1 ELSE BufferSize + r - w - 1

AvailableBytesInternal(r, w) == BufferSize - 1 - FreeBytesInternal(r, w)

\* Mutant: the rounding of the free space is forgotten.
RoundDownForgotten(n) == n
\* Mutant: rounded up instead of down.
RoundDownUp(n) == IF n % Granule = 0 THEN n ELSE n + Granule - (n % Granule)

\* free_bytes & ~7
RoundDown(n) == n - (n % Granule)

\* A position moved past the end continues at the start.
Wrap(p) == IF p >= BufferSize THEN p - BufferSize ELSE p

\* Mutant: the writer fills the last place too, and full looks like empty.
WriteAmountFull(n, r, w) ==
  LET free == RoundDown(FreeBytesInternal(r, w) + 1)
  IN  IF n > free THEN free ELSE n

\* How many bytes a Write of n takes when it sees the positions r and w.
WriteAmount(n, r, w) ==
  LET free == RoundDown(FreeBytesInternal(r, w))
  IN  IF n > free THEN free ELSE n

\* The position Write stores.
WriteNext(w, n) == Wrap(w + n)

\* Mutant: wrapped data is taken for an empty pipe.
WindowSizeWrapped(r, w) == IF w <= r THEN 0 ELSE w - r

\* ReadStart: size and next position of the contiguous window.
WindowSize(r, w) ==
  IF w = r THEN 0 ELSE IF w < r THEN BufferSize - r ELSE w - r

WindowNext(r, w) ==
  IF w = r THEN r ELSE IF w < r THEN 0 ELSE Wrap(r + (w - r))

\* ReadExact: the position it stores.  When the data is wrapped and the first
\* part is long enough, the position is NOT wrapped: BufferSize is stored.
ExactNext(r, w, n) ==
  IF w < r /\ BufferSize - r >= n
  THEN r + n
  ELSE IF n = 0 THEN r ELSE Wrap(r + n)

-----------------------------------------------------------------------------

Init ==
  /\ buffer = [p \in 0 .. BufferSize - 1 |-> 0]
  /\ read_pos = 0 /\ write_pos = 0 /\ read_pos_tmp = 0
  /\ wpc = "idle" /\ wcount = 0 /\ wcopied = 0
  /\ rpc = "idle" /\ rsize = 0 /\ rcopied = 0 /\ rnext = 0
  /\ ravail = 0 /\ mark = 0
  /\ accepted = 0 /\ taken = 0 /\ released = 0 /\ last = 0

-----------------------------------------------------------------------------
(* The writer: Write(bytes, n) *)

\* Load both positions and decide how much fits; nothing fits: return 0.
BeginWrite(n) ==
  LET count == WriteAmount(n, read_pos, write_pos)
  IN  /\ wpc = "idle"
      /\ count > 0
      /\ accepted + count <= MaxBytes
      /\ wpc' = "copy"
      /\ wcount' = count
      /\ wcopied' = 0
      /\ UNCHANGED <<shared, reader, accepted, taken, released, last>>

\* One byte of the one or two memcpy into the buffer.
CopyIn ==
  /\ wpc = "copy"
  /\ wcopied < wcount
  /\ buffer' = [buffer EXCEPT ![Wrap(write_pos + wcopied)] =
                                accepted + wcopied + 1]
  /\ wcopied' = wcopied + 1
  /\ UNCHANGED <<read_pos, write_pos, wpc, wcount, reader,
                 accepted, taken, released, last>>

\* Mutant: the store of write_pos overtakes the memcpy.
EndWriteEarly ==
  /\ wpc = "copy"
  /\ write_pos' = WriteNext(write_pos, wcount)
  /\ accepted' = accepted + wcount
  /\ wpc' = "idle"
  /\ wcount' = 0
  /\ wcopied' = 0
  /\ UNCHANGED <<buffer, read_pos, reader, taken, released, last>>

\* Store the new write_pos: this publishes the bytes.
EndWrite ==
  /\ wpc = "copy"
  /\ wcopied = wcount
  /\ write_pos' = WriteNext(write_pos, wcount)
  /\ accepted' = accepted + wcount
  /\ wpc' = "idle"
  /\ wcount' = 0
  /\ wcopied' = 0
  /\ UNCHANGED <<buffer, read_pos, reader, taken, released, last>>

WriterNext == (\E n \in WriteCounts : BeginWrite(n)) \/ CopyIn \/ EndWrite

-----------------------------------------------------------------------------
(* The reader *)

\* The reader's call returns; its locals are gone.
ReaderIdle ==
  /\ rpc' = "idle"
  /\ rsize' = 0
  /\ rcopied' = 0
  /\ rnext' = 0

\* ReadStart: load write_pos, hand out the window, remember where it ends.
ReadStart ==
  /\ rpc = "idle"
  /\ rpc' = "window"
  /\ rsize' = WindowSize(read_pos, write_pos)
  /\ rcopied' = 0
  /\ read_pos_tmp' = WindowNext(read_pos, write_pos)
  /\ UNCHANGED <<shared, writer, rnext, ravail, mark,
                 accepted, taken, released, last>>

\* One byte copied out, of the window or by the memcpy of ReadExact.
CopyOut ==
  /\ rpc \in {"window", "exact"}
  /\ rcopied < rsize
  /\ last' = buffer[Wrap(read_pos + rcopied)]
  /\ rcopied' = rcopied + 1
  /\ taken' = taken + 1
  /\ UNCHANGED <<shared, writer, read_pos_tmp, rpc, rsize, rnext, ravail,
                 mark, accepted, released>>

\* Mutant: ReadEnd skips to the present write_pos, not to the end of the window.
ReadEndFresh ==
  /\ rpc = "window"
  /\ rcopied = rsize
  /\ read_pos' = write_pos
  /\ released' = taken
  /\ ReaderIdle
  /\ ravail' = 0
  /\ UNCHANGED <<buffer, write_pos, writer, read_pos_tmp, mark,
                 accepted, taken, last>>

\* ReadEnd, after the caller has used the whole window.
ReadEnd ==
  /\ rpc = "window"
  /\ rcopied = rsize
  /\ read_pos' = read_pos_tmp
  /\ released' = taken
  /\ ReaderIdle
  /\ ravail' = 0
  /\ UNCHANGED <<buffer, write_pos, writer, read_pos_tmp, mark,
                 accepted, taken, last>>

\* AvailableBytes, which the reader polls before a ReadExact.
AvailableBytes ==
  /\ rpc = "idle"
  /\ ravail' = AvailableBytesInternal(read_pos, write_pos)
  /\ UNCHANGED <<shared, writer, read_pos_tmp, rpc, rsize, rcopied, rnext,
                 mark, accepted, taken, released, last>>

\* ReadExact(n): load write_pos; too few bytes: return false, nothing changed.
BeginReadExact(n) ==
  /\ rpc = "idle"
  /\ AvailableBytesInternal(read_pos, write_pos) >= n
  /\ rpc' = "exact"
  /\ rsize' = n
  /\ rcopied' = 0
  /\ rnext' = ExactNext(read_pos, write_pos, n)
  /\ UNCHANGED <<shared, writer, read_pos_tmp, ravail, mark,
                 accepted, taken, released, last>>

EndReadExact ==
  /\ rpc = "exact"
  /\ rcopied = rsize
  /\ read_pos' = rnext
  /\ released' = taken
  /\ ReaderIdle
  /\ ravail' = IF ravail > rsize THEN ravail - rsize ELSE 0
  /\ UNCHANGED <<buffer, write_pos, writer, read_pos_tmp, mark,
                 accepted, taken, last>>

\* Clear: ReadStart and ReadEnd twice, because one window may stop at the end
\* of the buffer.  clear1 and clear2: a window is open; between: the first one
\* has been closed.
ClearStart(from, to) ==
  /\ rpc = from
  /\ rpc' = to
  /\ rsize' = WindowSize(read_pos, write_pos)
  /\ rcopied' = 0
  /\ read_pos_tmp' = WindowNext(read_pos, write_pos)
  /\ mark' = IF from = "idle" THEN accepted ELSE mark
  /\ UNCHANGED <<shared, writer, rnext, ravail,
                 accepted, taken, released, last>>

ClearEnd(from, to) ==
  /\ rpc = from
  /\ rpc' = to
  /\ read_pos' = read_pos_tmp
  /\ taken' = taken + rsize
  /\ released' = taken + rsize
  /\ rsize' = 0
  /\ ravail' = 0
  /\ UNCHANGED <<buffer, write_pos, writer, read_pos_tmp, rcopied, rnext,
                 mark, accepted, last>>

\* Mutant: one pass only.
ClearOnce ==
  \/ ClearStart("idle", "clear2")
  \/ ClearEnd("clear2", "idle")

Clear ==
  \/ ClearStart("idle", "clear1")
  \/ ClearEnd("clear1", "between")
  \/ ClearStart("between", "clear2")
  \/ ClearEnd("clear2", "idle")

ReaderNext ==
  \/ ReadStart
  \/ CopyOut
  \/ ReadEnd
  \/ AvailableBytes
  \/ \E n \in ReadCounts : BeginReadExact(n)
  \/ EndReadExact
  \/ Clear

Next == WriterNext \/ ReaderNext

Spec == Init /\ [][Next]_vars

\* A Write that has begun runs to its end (an interrupt handler returns), a
\* read that has begun too, and the main loop calls ReadStart again and again
\* whatever else it does in between.
Fairness ==
  /\ WF_vars(CopyIn \/ EndWrite)
  /\ WF_vars(CopyOut \/ ReadEnd \/ EndReadExact)
  /\ WF_vars(rpc # "idle" /\ Clear)
  /\ SF_vars(ReadStart)

FairSpec == Spec /\ Fairness

-----------------------------------------------------------------------------
(* Properties *)

\* Bytes between the two positions.
Used == AvailableBytesInternal(read_pos, write_pos)

\* The types; write_pos is always inside the buffer, read_pos may rest on its
\* end (ReadExact leaves it there), which every reader of it must understand.
TypeOK ==
  /\ buffer \in [0 .. BufferSize - 1 -> Nat]
  /\ read_pos \in 0 .. BufferSize
  /\ read_pos_tmp \in 0 .. BufferSize
  /\ rnext \in 0 .. BufferSize
  /\ write_pos \in 0 .. BufferSize - 1
  /\ wpc \in {"idle", "copy"}
  /\ wcount \in 0 .. BufferSize - 1
  /\ wcopied \in 0 .. BufferSize - 1
  /\ rpc \in {"idle", "window", "exact", "clear1", "between", "clear2"}
  /\ rsize \in 0 .. BufferSize - 1
  /\ rcopied \in 0 .. BufferSize - 1
  /\ ravail \in 0 .. BufferSize - 1
  /\ accepted \in Nat /\ taken \in Nat /\ released \in Nat
  /\ last \in Nat /\ mark \in Nat

\* While the reader holds a window (ReadStart..ReadEnd) or copies in
\* ReadExact, every byte it has still to copy is the one the stream says,
\* however the interrupt handler's Write runs in between.
WindowStable ==
  rpc \in {"window", "exact"} =>
    \A i \in rcopied .. rsize - 1 :
       buffer[Wrap(read_pos + i)] = taken + (i - rcopied) + 1

\* The places a running Write fills and the places a running read copies from
\* are disjoint: that is why the class may do without a lock.
NoDataRace ==
  (wpc = "copy" /\ rpc \in {"window", "exact"}) =>
    \A i \in wcopied .. wcount - 1, j \in rcopied .. rsize - 1 :
       Wrap(write_pos + i) # Wrap(read_pos + j)

\* Free and available space computed from the positions agree with the bytes
\* really accepted and not given back: "full" and "empty" are never confused,
\* also with read_pos resting on BufferSize.
PositionsCount == accepted - released = Used

\* What AvailableBytes told the reader stays readable until it reads it, so
\* the ReadExact of uart_receive after its poll cannot fail.
ReservationHolds == ravail <= Used

\* A finished Clear has removed everything that was in the pipe when it was
\* called: no answer to an earlier command is left in it (TBPipe.h says that
\* AvailableBytes is then zero unless something was written in the meantime).
ClearDropsAllOld == [][ClearEnd("clear2", "idle") => released' >= mark]_vars

\* Every position and size is a whole number of words.
WholeWords ==
  \A n \in {read_pos, write_pos, read_pos_tmp, rnext, rsize, wcount} :
    n % Unit = 0

\* The step asks for whole words, or does not ask for anything.
AsksWholeWords ==
  \/ \E n \in WriteCounts : n % Unit = 0 /\ BeginWrite(n)
  \/ \E n \in ReadCounts : n % Unit = 0 /\ BeginReadExact(n)
  \/ /\ ~ \E n \in WriteCounts : BeginWrite(n)
     /\ ~ \E n \in ReadCounts : BeginReadExact(n)

\* Users that write and read whole words (the tests' words are 4 bytes long)
\* never see a word split by a window, however full the pipe is: in a buffer
\* and with a granule of whole words, such a step keeps every position and
\* size whole.
WordsStayWhole ==
  [][(/\ BufferSize % Unit = 0 /\ Granule % Unit = 0
      /\ WholeWords /\ AsksWholeWords)
     => WholeWords']_vars

(***************************************************************************)
(* Why the properties hold: the inductive invariant of the proofs.         *)
(***************************************************************************)

\* p is where position q of an endless buffer lies.
Lies(p, q) == p = q \/ p = q - BufferSize

\* What the reader does with the bytes between its position and rsize further
\* on stays within what has been published.
ReaderInv ==
  /\ rcopied <= rsize
  /\ rsize <= Used
  /\ ravail <= Used
  /\ taken = released + rcopied
  /\ rpc \notin {"window", "exact"} => rcopied = 0
  /\ rpc \in {"idle", "between"} => rsize = 0
  /\ rpc \in {"window", "clear1", "clear2"} => Lies(read_pos_tmp, read_pos + rsize)
  /\ rpc = "exact" => Lies(rnext, read_pos + rsize)

\* The first pass of Clear has dropped the old bytes or reached the start of
\* the buffer; in both cases the second pass finishes the work.
ClearInv ==
  /\ mark <= accepted
  /\ rpc = "clear1" => read_pos_tmp = 0 \/ released + rsize >= mark
  /\ rpc = "between" => read_pos = 0 \/ released >= mark
  /\ rpc = "clear2" => released + rsize >= mark

\* What the writer fills is free and stays free: the reader only frees more.
WriterInv ==
  /\ wcopied <= wcount
  /\ wcount + Used <= BufferSize - 1
  /\ wpc = "idle" => wcount = 0

\* The published bytes, and those already copied by the running Write.
ContentInv ==
  /\ \A i \in 0 .. Used - 1 : buffer[Wrap(read_pos + i)] = released + i + 1
  /\ \A i \in 0 .. wcopied - 1 : buffer[Wrap(write_pos + i)] = accepted + i + 1

\* The bytes lie where the counters of the stream say, and each side works
\* within its own part of the buffer, at every step of Write, ReadStart..
\* ReadEnd, ReadExact and Clear.
IInv ==
  /\ TypeOK
  /\ ReaderInv
  /\ ClearInv
  /\ WriterInv
  /\ PositionsCount
  /\ ContentInv

\* Every accepted byte is taken by the reader in the end.
EveryByteTaken ==
  \A n \in 1 .. MaxBytes : (accepted >= n) ~> (released >= n)

\* TBPipe implements the bounded queue PipeFIFO.
FIFO == INSTANCE PipeFIFO WITH Capacity <- BufferSize - 1
ImplementsFIFO == FIFO!Spec
=============================================================================
