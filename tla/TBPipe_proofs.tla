---------------------------- MODULE TBPipe_proofs ----------------------------
(***************************************************************************)
(* Proofs about TBPipe for every buffer size, granule and set of sizes.    *)
(***************************************************************************)
EXTENDS TBPipe, TLAPS

USE DEF shared, writer, reader

\* The rounding of the free space never invents space.
LEMMA RoundDownBounds ==
  ASSUME NEW n \in Nat
  PROVE  /\ RoundDown(n) \in Nat
         /\ RoundDown(n) <= n
  BY GranuleAssumption DEF RoundDown

\* Write takes no more than the free space its loads have shown.
LEMMA WriteAmountBounds ==
  ASSUME NEW n \in Nat, NEW r \in 0 .. BufferSize, NEW w \in 0 .. BufferSize - 1
  PROVE  /\ WriteAmount(n, r, w) \in Nat
         /\ WriteAmount(n, r, w) <= FreeBytesInternal(r, w)
<1>1. FreeBytesInternal(r, w) \in Nat
  BY BufferSizeAssumption DEF FreeBytesInternal
<1>2. QED
  BY <1>1, RoundDownBounds DEF WriteAmount

\* The linear facts about the two positions that every step uses: used and
\* free space share the buffer less one place.
LEMMA UsedBounds ==
  ASSUME TypeOK
  PROVE  /\ Used \in 0 .. BufferSize - 1
         /\ Used = IF write_pos < read_pos
                     THEN BufferSize - read_pos + write_pos
                     ELSE write_pos - read_pos
         /\ FreeBytesInternal(read_pos, write_pos) = BufferSize - 1 - Used
  BY BufferSizeAssumption
     DEF TypeOK, Used, AvailableBytesInternal, FreeBytesInternal

\* The fresh pipe: empty, nobody inside a call.
LEMMA InitIInv == Init => IInv
<1> SUFFICES ASSUME Init PROVE IInv
  OBVIOUS
<1> USE BufferSizeAssumption DEF Init
<1>1. TypeOK
  BY DEF TypeOK
<1>2. Used = 0
  BY DEF Used, AvailableBytesInternal, FreeBytesInternal
<1>3. ReaderInv /\ ClearInv /\ WriterInv /\ PositionsCount /\ ContentInv
  BY <1>2 DEF ReaderInv, ClearInv, WriterInv, PositionsCount, ContentInv
<1>4. QED
  BY <1>1, <1>3 DEF IInv

-----------------------------------------------------------------------------
(* The steps of Write *)

\* BeginWrite only reserves free places, which no one else fills.
LEMMA BeginWriteStep ==
  ASSUME IInv, NEW n \in WriteCounts, BeginWrite(n)
  PROVE  IInv'
<1> USE BufferSizeAssumption, CountsAssumption
<1>1. /\ wcount' = WriteAmount(n, read_pos, write_pos)
      /\ wcount' \in Nat
      /\ wcount' <= BufferSize - 1 - Used
      /\ Used' = Used
      /\ Used \in 0 .. BufferSize - 1
  BY WriteAmountBounds, UsedBounds DEF IInv, TypeOK, BeginWrite, Used
<1>2. TypeOK'
  BY <1>1 DEF IInv, TypeOK, BeginWrite
<1>3. (ReaderInv /\ ClearInv /\ PositionsCount)'
  BY <1>1 DEF IInv, ReaderInv, ClearInv, PositionsCount, BeginWrite, Lies
<1>4. WriterInv'
  BY <1>1 DEF IInv, WriterInv, BeginWrite
<1>5. ContentInv'
  BY <1>1 DEF IInv, ContentInv, BeginWrite
<1>6. QED
  BY <1>2, <1>3, <1>4, <1>5 DEF IInv

\* CopyIn writes one reserved place, never a published one.
LEMMA CopyInStep ==
  ASSUME IInv, CopyIn
  PROVE  IInv'
<1> USE BufferSizeAssumption
<1>1. /\ Used' = Used
      /\ Used \in 0 .. BufferSize - 1
      /\ Used = IF write_pos < read_pos
                  THEN BufferSize - read_pos + write_pos
                  ELSE write_pos - read_pos
  BY UsedBounds DEF IInv, CopyIn, Used
<1>2. Wrap(write_pos + wcopied) \in 0 .. BufferSize - 1
  BY DEF IInv, TypeOK, Wrap
<1>3. TypeOK'
  BY <1>2 DEF IInv, TypeOK, CopyIn, WriterInv
<1>4. (ReaderInv /\ ClearInv /\ PositionsCount /\ WriterInv)'
  BY <1>1 DEF IInv, ReaderInv, ClearInv, PositionsCount, WriterInv, CopyIn,
              Lies, TypeOK
<1>5. ContentInv'
  <2>1. ASSUME NEW i \in 0 .. Used - 1
        PROVE  buffer'[Wrap(read_pos + i)] = released + i + 1
    <3>1. Wrap(read_pos + i) # Wrap(write_pos + wcopied)
      BY <1>1 DEF IInv, TypeOK, WriterInv, CopyIn, Wrap
    <3>2. Wrap(read_pos + i) \in 0 .. BufferSize - 1
      BY <1>1 DEF IInv, TypeOK, Wrap
    <3>3. QED
      BY <3>1, <3>2 DEF IInv, TypeOK, ContentInv, CopyIn
  <2>2. ASSUME NEW i \in 0 .. wcopied
        PROVE  buffer'[Wrap(write_pos + i)] = accepted + i + 1
    <3>1. CASE i = wcopied
      BY <3>1, <1>2 DEF IInv, TypeOK, CopyIn
    <3>2. CASE i # wcopied
      <4>1. Wrap(write_pos + i) # Wrap(write_pos + wcopied)
        BY <3>2 DEF IInv, TypeOK, WriterInv, CopyIn, Wrap
      <4>2. Wrap(write_pos + i) \in 0 .. BufferSize - 1
        BY DEF IInv, TypeOK, Wrap
      <4>3. i \in 0 .. wcopied - 1
        BY <3>2 DEF IInv, TypeOK
      <4>4. QED
        BY <4>1, <4>2, <4>3 DEF IInv, TypeOK, ContentInv, CopyIn
    <3>3. QED
      BY <3>1, <3>2
  <2>3. wcopied' - 1 = wcopied
    BY DEF IInv, TypeOK, CopyIn
  <2>4. QED
    BY <1>1, <2>1, <2>2, <2>3 DEF ContentInv, CopyIn
<1>6. QED
  BY <1>3, <1>4, <1>5 DEF IInv

\* EndWrite publishes exactly the bytes copied, wrapped or not.
LEMMA EndWriteStep ==
  ASSUME IInv, EndWrite
  PROVE  IInv'
<1> USE BufferSizeAssumption
<1>1. TypeOK'
  BY DEF IInv, TypeOK, EndWrite, WriteNext, Wrap
<1>2. /\ Used' = Used + wcount
      /\ Used \in 0 .. BufferSize - 1
      /\ Used = IF write_pos < read_pos
                  THEN BufferSize - read_pos + write_pos
                  ELSE write_pos - read_pos
  BY UsedBounds, <1>1
     DEF IInv, TypeOK, WriterInv, EndWrite, WriteNext, Wrap, Used,
         AvailableBytesInternal, FreeBytesInternal
<1>3. ReaderInv'
  BY <1>2 DEF IInv, ReaderInv, TypeOK, EndWrite, Lies
<1>4. ClearInv'
  BY DEF IInv, ClearInv, TypeOK, EndWrite
<1>5. (WriterInv /\ PositionsCount)'
  BY <1>2 DEF IInv, WriterInv, PositionsCount, TypeOK, EndWrite
<1>6. ContentInv'
  <2>1. ASSUME NEW i \in 0 .. Used + wcount - 1
        PROVE  buffer[Wrap(read_pos + i)] = released + i + 1
    <3>1. CASE i < Used
      BY <3>1, <1>2 DEF IInv, TypeOK, ContentInv
    <3>2. CASE i >= Used
      <4> DEFINE j == i - Used
      <4>1. j \in 0 .. wcopied - 1
        BY <3>2, <1>2 DEF IInv, TypeOK, EndWrite
      <4>2. Wrap(read_pos + i) = Wrap(write_pos + j)
        BY <3>2, <1>2 DEF IInv, TypeOK, WriterInv, Wrap
      <4>3. buffer[Wrap(write_pos + j)] = accepted + j + 1
        BY <4>1 DEF IInv, ContentInv
      <4>4. accepted + j + 1 = released + i + 1
        BY <1>2 DEF IInv, TypeOK, PositionsCount
      <4>5. QED
        BY <4>2, <4>3, <4>4
    <3>3. QED
      BY <3>1, <3>2, <1>2
  <2>2. (Used - 1)' = Used + wcount - 1
    BY <1>2 DEF IInv, TypeOK
  <2>3. wcopied' = 0
    BY DEF EndWrite
  <2>4. (\A i \in 0 .. Used - 1 : buffer[Wrap(read_pos + i)] = released + i + 1)'
    BY <2>1, <2>2 DEF EndWrite
  <2>5. (\A i \in 0 .. wcopied - 1 : buffer[Wrap(write_pos + i)] = accepted + i + 1)'
    BY <2>3
  <2>6. QED
    BY <2>4, <2>5 DEF ContentInv
<1>7. QED
  BY <1>1, <1>3, <1>4, <1>5, <1>6 DEF IInv

-----------------------------------------------------------------------------
(* The steps of the reader *)

\* The window of ReadStart: it does not reach past the published bytes, and
\* ends where the position stored by ReadEnd lies.
LEMMA WindowBounds ==
  ASSUME TypeOK
  PROVE  /\ WindowSize(read_pos, write_pos) \in 0 .. Used
         /\ WindowNext(read_pos, write_pos) \in 0 .. BufferSize
         /\ Lies(WindowNext(read_pos, write_pos),
                 read_pos + WindowSize(read_pos, write_pos))
         /\ \/ WindowNext(read_pos, write_pos) = 0
            \/ WindowSize(read_pos, write_pos) = Used
         /\ read_pos = 0 => WindowSize(read_pos, write_pos) = Used
  BY UsedBounds, BufferSizeAssumption
     DEF TypeOK, WindowSize, WindowNext, Wrap, Lies

\* The same of ReadExact, which may store BufferSize itself.
LEMMA ExactBounds ==
  ASSUME TypeOK, NEW n \in Nat, n <= Used
  PROVE  /\ ExactNext(read_pos, write_pos, n) \in 0 .. BufferSize
         /\ Lies(ExactNext(read_pos, write_pos, n), read_pos + n)
  BY UsedBounds, BufferSizeAssumption
     DEF TypeOK, ExactNext, Wrap, Lies

\* The steps that only read the two positions leave the bytes, and the
\* writer, as they are.
LEMMA ReaderLooks ==
  ASSUME IInv, UNCHANGED <<shared, writer, accepted, released>>
  PROVE  (WriterInv /\ PositionsCount /\ ContentInv)' /\ Used' = Used
  BY DEF IInv, WriterInv, PositionsCount, ContentInv, Used

\* ReadStart opens a window onto published bytes only.
LEMMA ReadStartStep ==
  ASSUME IInv, ReadStart
  PROVE  IInv'
<1> USE BufferSizeAssumption
<1>1. (WriterInv /\ PositionsCount /\ ContentInv)' /\ Used' = Used
  BY ReaderLooks DEF ReadStart
<1>2. rsize' \in 0 .. Used /\ Lies(read_pos_tmp, read_pos + rsize)'
      /\ read_pos_tmp' \in 0 .. BufferSize /\ Used \in 0 .. BufferSize - 1
  BY WindowBounds, UsedBounds DEF ReadStart, IInv, Lies
<1>3. TypeOK'
  BY <1>2 DEF IInv, TypeOK, ReadStart
<1>4. ReaderInv'
  BY <1>1, <1>2 DEF IInv, TypeOK, ReaderInv, ReadStart
<1>5. ClearInv'
  BY DEF IInv, ClearInv, ReadStart
<1>6. QED
  BY <1>1, <1>3, <1>4, <1>5 DEF IInv

\* CopyOut moves one byte on inside the window.
LEMMA CopyOutStep ==
  ASSUME IInv, CopyOut
  PROVE  IInv'
<1> USE BufferSizeAssumption
<1>1. (WriterInv /\ PositionsCount /\ ContentInv)' /\ Used' = Used
  BY ReaderLooks DEF CopyOut
<1>2. TypeOK'
  <2>1. Wrap(read_pos + rcopied) \in 0 .. BufferSize - 1
    BY DEF IInv, TypeOK, Wrap
  <2>2. QED
    BY <2>1 DEF IInv, TypeOK, CopyOut
<1>3. (ReaderInv /\ ClearInv)'
  BY <1>1 DEF IInv, TypeOK, ReaderInv, ClearInv, CopyOut, Lies
<1>4. QED
  BY <1>1, <1>2, <1>3 DEF IInv

\* AvailableBytes reports what is published at that moment.
LEMMA AvailableBytesStep ==
  ASSUME IInv, AvailableBytes
  PROVE  IInv'
<1>1. (WriterInv /\ PositionsCount /\ ContentInv)' /\ Used' = Used
  BY ReaderLooks DEF AvailableBytes
<1>2. ravail' = Used /\ Used \in 0 .. BufferSize - 1
  BY UsedBounds DEF IInv, AvailableBytes, Used
<1>3. TypeOK'
  BY <1>2 DEF IInv, TypeOK, AvailableBytes
<1>4. (ReaderInv /\ ClearInv)'
  BY <1>1, <1>2 DEF IInv, ReaderInv, ClearInv, AvailableBytes, Lies
<1>5. QED
  BY <1>1, <1>3, <1>4 DEF IInv

\* BeginReadExact goes ahead only over published bytes.
LEMMA BeginReadExactStep ==
  ASSUME IInv, NEW n \in ReadCounts, BeginReadExact(n)
  PROVE  IInv'
<1> USE BufferSizeAssumption, CountsAssumption
<1>1. (WriterInv /\ PositionsCount /\ ContentInv)' /\ Used' = Used
  BY ReaderLooks DEF BeginReadExact
<1>2. n \in Nat /\ n <= Used /\ Used \in 0 .. BufferSize - 1
  BY UsedBounds DEF BeginReadExact, Used, IInv
<1>3. rnext' \in 0 .. BufferSize /\ Lies(rnext, read_pos + rsize)'
  BY <1>2, ExactBounds DEF BeginReadExact, IInv, Lies
<1>4. TypeOK'
  BY <1>2, <1>3 DEF IInv, TypeOK, BeginReadExact
<1>5. (ReaderInv /\ ClearInv)'
  BY <1>1, <1>2, <1>3 DEF IInv, TypeOK, ReaderInv, ClearInv, BeginReadExact
<1>6. QED
  BY <1>1, <1>4, <1>5 DEF IInv

\* Moving read_pos to where rsize further on lies takes exactly rsize bytes
\* from the front of the published ones and leaves the others in place.
LEMMA ReadPosMoves ==
  ASSUME IInv, NEW p \in 0 .. BufferSize, Lies(p, read_pos + rsize),
         read_pos' = p, released' = released + rsize,
         UNCHANGED <<buffer, write_pos, writer, accepted>>
  PROVE  /\ Used' = Used - rsize
         /\ (WriterInv /\ PositionsCount /\ ContentInv)'
<1> USE BufferSizeAssumption
<1>1. /\ Used \in 0 .. BufferSize - 1
      /\ Used = IF write_pos < read_pos
                  THEN BufferSize - read_pos + write_pos
                  ELSE write_pos - read_pos
      /\ rsize \in 0 .. Used
  BY UsedBounds DEF IInv, TypeOK, ReaderInv
<1>2. CASE rsize = 0 /\ p = BufferSize /\ read_pos = 0
  <2>1. FALSE
    BY <1>2 DEF Lies
  <2>2. QED
    BY <2>1
<1>3. Used' = Used - rsize
  BY <1>1 DEF IInv, TypeOK, Lies, Used, AvailableBytesInternal,
              FreeBytesInternal
<1>4. (WriterInv /\ PositionsCount)'
  BY <1>1, <1>3 DEF IInv, TypeOK, WriterInv, PositionsCount
<1>5. ContentInv'
  <2>1. ASSUME NEW i \in 0 .. Used - rsize - 1
        PROVE  buffer[Wrap(p + i)] = released + rsize + i + 1
    <3>1. Wrap(p + i) = Wrap(read_pos + (rsize + i))
      BY <1>1 DEF IInv, TypeOK, Lies, Wrap
    <3>2. rsize + i \in 0 .. Used - 1
      BY <1>1 DEF IInv, TypeOK
    <3>3. buffer[Wrap(read_pos + (rsize + i))] = released + (rsize + i) + 1
      BY <3>2 DEF IInv, ContentInv
    <3>4. released + (rsize + i) + 1 = released + rsize + i + 1
      BY <1>1 DEF IInv, TypeOK
    <3>5. QED
      BY <3>1, <3>3, <3>4
  <2>2. (Used - 1)' = Used - rsize - 1
    BY <1>3
  <2>3. (\A i \in 0 .. Used - 1 : buffer[Wrap(read_pos + i)] = released + i + 1)'
    BY <2>1, <2>2
  <2>4. QED
    BY <2>3 DEF ContentInv, IInv
<1>6. QED
  BY <1>3, <1>4, <1>5

\* ReadEnd gives back the window and nothing beyond it.
LEMMA ReadEndStep ==
  ASSUME IInv, ReadEnd
  PROVE  IInv'
<1> USE BufferSizeAssumption
<1>1. (WriterInv /\ PositionsCount /\ ContentInv)' /\ Used' = Used - rsize
  <2>1. /\ read_pos_tmp \in 0 .. BufferSize
        /\ Lies(read_pos_tmp, read_pos + rsize)
        /\ released' = released + rsize
    BY DEF IInv, TypeOK, ReaderInv, ReadEnd
  <2>2. QED
    BY <2>1, ReadPosMoves DEF ReadEnd
<1>2. TypeOK'
  BY DEF IInv, TypeOK, ReadEnd, ReaderIdle
<1>3. (ReaderInv /\ ClearInv)'
  BY <1>1, UsedBounds
     DEF IInv, TypeOK, ReaderInv, ClearInv, ReadEnd, ReaderIdle
<1>4. QED
  BY <1>1, <1>2, <1>3 DEF IInv

\* EndReadExact gives back what it copied, and a smaller reservation stays good.
LEMMA EndReadExactStep ==
  ASSUME IInv, EndReadExact
  PROVE  IInv'
<1> USE BufferSizeAssumption
<1>1. (WriterInv /\ PositionsCount /\ ContentInv)' /\ Used' = Used - rsize
  <2>1. /\ rnext \in 0 .. BufferSize
        /\ Lies(rnext, read_pos + rsize)
        /\ released' = released + rsize
    BY DEF IInv, TypeOK, ReaderInv, EndReadExact
  <2>2. QED
    BY <2>1, ReadPosMoves DEF EndReadExact
<1>2. TypeOK'
  BY DEF IInv, TypeOK, EndReadExact, ReaderIdle
<1>3. (ReaderInv /\ ClearInv)'
  <2>1. Used \in 0 .. BufferSize - 1
    BY UsedBounds DEF IInv
  <2>2. /\ rsize \in 0 .. Used
        /\ Used' = Used - rsize
        /\ ravail' <= Used'
    BY <1>1, <2>1 DEF IInv, TypeOK, ReaderInv, EndReadExact
  <2>3. /\ rpc = "exact" /\ rpc' = "idle" /\ rcopied' = 0 /\ rsize' = 0
        /\ taken' = taken /\ released' = taken
        /\ UNCHANGED <<mark, accepted>>
    BY DEF EndReadExact, ReaderIdle
  <2>4. QED
    BY <2>1, <2>2, <2>3 DEF IInv, TypeOK, ReaderInv, ClearInv
<1>4. QED
  BY <1>1, <1>2, <1>3 DEF IInv

\* Either pass of Clear opens a window ...
LEMMA ClearStartStep ==
  ASSUME IInv,
         ClearStart("idle", "clear1") \/ ClearStart("between", "clear2")
  PROVE  IInv'
<1> USE BufferSizeAssumption
<1>1. /\ rsize' = WindowSize(read_pos, write_pos)
      /\ rcopied' = 0
      /\ read_pos_tmp' = WindowNext(read_pos, write_pos)
      /\ UNCHANGED <<buffer, read_pos, write_pos, wpc, wcount, wcopied, rnext,
                     ravail, accepted, taken, released, last>>
  BY DEF ClearStart
<1>2. \/ rpc = "idle" /\ rpc' = "clear1" /\ mark' = accepted
      \/ rpc = "between" /\ rpc' = "clear2" /\ mark' = mark
  BY DEF ClearStart
<1>3. (WriterInv /\ PositionsCount /\ ContentInv)' /\ Used' = Used
  BY <1>1, ReaderLooks
<1>4. /\ rsize' \in 0 .. Used
      /\ Lies(read_pos_tmp, read_pos + rsize)'
      /\ read_pos_tmp' \in 0 .. BufferSize
      /\ Used \in 0 .. BufferSize - 1
  BY <1>1, WindowBounds, UsedBounds DEF IInv, Lies
<1>5. TypeOK'
  BY <1>1, <1>2, <1>4 DEF IInv, TypeOK
<1>6. ReaderInv'
  <2>1. taken' = released' + rcopied'
    BY <1>1, <1>2 DEF IInv, TypeOK, ReaderInv
  <2>2. QED
    BY <1>1, <1>2, <1>3, <1>4, <2>1 DEF IInv, TypeOK, ReaderInv
<1>7. ClearInv'
  <2>1. /\ read_pos_tmp' = 0 \/ rsize' = Used
        /\ read_pos = 0 => rsize' = Used
    BY <1>1, WindowBounds DEF IInv
  <2>2. accepted = released + Used
    BY <1>4 DEF IInv, TypeOK, PositionsCount
  <2>3. QED
    BY <1>1, <1>2, <1>4, <2>1, <2>2 DEF IInv, TypeOK, ClearInv
<1>8. QED
  BY <1>3, <1>5, <1>6, <1>7 DEF IInv

\* ... and drops what is in it.
LEMMA ClearEndStep ==
  ASSUME IInv, ClearEnd("clear1", "between") \/ ClearEnd("clear2", "idle")
  PROVE  IInv'
<1> USE BufferSizeAssumption
<1>1. /\ read_pos' = read_pos_tmp
      /\ taken' = taken + rsize
      /\ released' = taken + rsize
      /\ rsize' = 0
      /\ ravail' = 0
      /\ UNCHANGED <<buffer, write_pos, wpc, wcount, wcopied, read_pos_tmp,
                     rcopied, rnext, mark, accepted, last>>
  BY DEF ClearEnd
<1>2. \/ rpc = "clear1" /\ rpc' = "between"
      \/ rpc = "clear2" /\ rpc' = "idle"
  BY DEF ClearEnd
<1>3. /\ rcopied = 0
      /\ released' = released + rsize
      /\ Lies(read_pos_tmp, read_pos + rsize)
  BY <1>1, <1>2 DEF IInv, TypeOK, ReaderInv
<1>4. (WriterInv /\ PositionsCount /\ ContentInv)' /\ Used' = Used - rsize
  BY <1>1, <1>3, ReadPosMoves DEF IInv, TypeOK
<1>5. TypeOK'
  BY <1>1, <1>2 DEF IInv, TypeOK
<1>6. ReaderInv'
  <2>1. Used' >= 0
    <3>1. Used \in 0 .. BufferSize - 1 /\ rsize \in Nat /\ rsize <= Used
      BY UsedBounds DEF IInv, TypeOK, ReaderInv
    <3>2. QED
      BY <3>1, <1>4
  <2>2. QED
    BY <1>1, <1>2, <1>3, <2>1 DEF ReaderInv, IInv, TypeOK
<1>7. ClearInv'
  BY <1>1, <1>2, <1>3 DEF IInv, TypeOK, ClearInv
<1>8. QED
  BY <1>4, <1>5, <1>6, <1>7 DEF IInv

\* Every step of either side preserves the inductive invariant.
LEMMA NextIInv == IInv /\ [Next]_vars => IInv'
<1> SUFFICES ASSUME IInv, [Next]_vars PROVE IInv'
  OBVIOUS
<1>1. CASE UNCHANGED vars
  BY <1>1 DEF vars, IInv, TypeOK, ReaderInv, ClearInv, WriterInv,
              PositionsCount, ContentInv, Used, Lies
<1>2. CASE WriterNext
  BY <1>2, BeginWriteStep, CopyInStep, EndWriteStep DEF WriterNext
<1>3. CASE ReaderNext
  BY <1>3, ReadStartStep, CopyOutStep, ReadEndStep, AvailableBytesStep,
     BeginReadExactStep, EndReadExactStep, ClearStartStep, ClearEndStep
     DEF ReaderNext, Clear
<1>4. QED
  BY <1>1, <1>2, <1>3 DEF Next

-----------------------------------------------------------------------------
(* The theorems *)

\* The invariant holds at every step of every interleaving.
THEOREM InvariantHolds == Spec => []IInv
  BY InitIInv, NextIInv, PTL DEF Spec

\* write_pos never leaves the buffer and read_pos at most rests on its end.
THEOREM TypeCorrect == Spec => []TypeOK
<1>1. IInv => TypeOK
  BY DEF IInv
<1>2. QED
  BY <1>1, InvariantHolds, PTL

\* No Write changes a byte of the window the reader is using.
THEOREM WindowIsStable == Spec => []WindowStable
<1>1. ASSUME IInv PROVE WindowStable
  <2>1. ASSUME rpc \in {"window", "exact"}, NEW i \in rcopied .. rsize - 1
        PROVE  buffer[Wrap(read_pos + i)] = taken + (i - rcopied) + 1
    <3>1. i \in 0 .. Used - 1
      BY <1>1, UsedBounds DEF IInv, TypeOK, ReaderInv
    <3>2. buffer[Wrap(read_pos + i)] = released + i + 1
      BY <1>1, <3>1 DEF IInv, ContentInv
    <3>3. released + i + 1 = taken + (i - rcopied) + 1
      BY <1>1 DEF IInv, TypeOK, ReaderInv
    <3>4. QED
      BY <3>2, <3>3
  <2>2. QED
    BY <2>1 DEF WindowStable
<1>2. QED
  BY <1>1, InvariantHolds, PTL

\* The two sides never touch the same byte at the same time.
THEOREM NoDataRaces == Spec => []NoDataRace
<1>1. ASSUME IInv PROVE NoDataRace
  <2>1. /\ Used = IF write_pos < read_pos
                   THEN BufferSize - read_pos + write_pos
                   ELSE write_pos - read_pos
        /\ Used \in 0 .. BufferSize - 1
        /\ rsize <= Used
        /\ wcount + Used <= BufferSize - 1
    BY <1>1, UsedBounds DEF IInv, ReaderInv, WriterInv
  <2>2. ASSUME NEW i \in wcopied .. wcount - 1, NEW j \in rcopied .. rsize - 1
        PROVE  Wrap(write_pos + i) # Wrap(read_pos + j)
    BY <1>1, <2>1, BufferSizeAssumption DEF IInv, TypeOK, Wrap
  <2>3. QED
    BY <2>2 DEF NoDataRace
<1>2. QED
  BY <1>1, InvariantHolds, PTL

\* Full and empty are never confused.
THEOREM PositionsAreExact == Spec => []PositionsCount
<1>1. IInv => PositionsCount
  BY DEF IInv
<1>2. QED
  BY <1>1, InvariantHolds, PTL

\* What AvailableBytes promised is there when ReadExact asks for it.
THEOREM ReservationsHold == Spec => []ReservationHolds
<1>1. IInv => ReservationHolds
  BY DEF IInv, ReaderInv, ReservationHolds
<1>2. QED
  BY <1>1, InvariantHolds, PTL

\* Two passes of Clear are enough, wherever the positions are.
THEOREM ClearIsComplete == Spec => ClearDropsAllOld
<1>1. ASSUME IInv, ClearEnd("clear2", "idle") PROVE released' >= mark
  BY <1>1 DEF IInv, TypeOK, ReaderInv, ClearInv, ClearEnd
<1>2. IInv /\ [Next]_vars => [ClearEnd("clear2", "idle") => released' >= mark]_vars
  BY <1>1
<1>3. QED
  BY <1>2, InvariantHolds, PTL DEF Spec, ClearDropsAllOld

-----------------------------------------------------------------------------
(* Whole words *)

\* A whole number of words is a multiple of the word's length.
LEMMA WholeIsMultiple ==
  ASSUME NEW n \in Nat
  PROVE  n % Unit = 0 <=> \E q \in Nat : n = Unit * q
<1> USE CountsAssumption
<1>1. ASSUME n % Unit = 0 PROVE \E q \in Nat : n = Unit * q
  <2>1. n \div Unit \in Nat
    OBVIOUS
  <2>2. n = Unit * (n \div Unit)
    BY <1>1
  <2>3. QED
    BY <2>1, <2>2
<1>2. ASSUME NEW q \in Nat, n = Unit * q PROVE n % Unit = 0
  BY <1>2
<1>3. QED
  BY <1>1, <1>2

\* Sums, differences and multiples of whole numbers of words are whole.
LEMMA WholeSum ==
  ASSUME NEW m \in Nat, NEW n \in Nat, m % Unit = 0, n % Unit = 0
  PROVE  /\ (m + n) % Unit = 0
         /\ m >= n => m - n \in Nat /\ (m - n) % Unit = 0
<1> USE CountsAssumption
<1>1. PICK p \in Nat : m = Unit * p
  BY WholeIsMultiple
<1>2. PICK q \in Nat : n = Unit * q
  BY WholeIsMultiple
<1>3. (m + n) % Unit = 0
  <2>1. m + n = Unit * (p + q) /\ p + q \in Nat
    BY <1>1, <1>2
  <2>2. m + n \in Nat
    OBVIOUS
  <2>3. QED
    BY <2>1, <2>2, WholeIsMultiple
<1>4. ASSUME m >= n PROVE m - n \in Nat /\ (m - n) % Unit = 0
  <2>1. p >= q
    BY <1>1, <1>2, <1>4
  <2>2. m - n = Unit * (p - q) /\ p - q \in Nat
    BY <1>1, <1>2, <2>1
  <2>3. m - n \in Nat
    BY <1>4
  <2>4. QED
    BY <2>2, <2>3, WholeIsMultiple
<1>5. QED
  BY <1>3, <1>4

\* The free space that Write rounds down to granules of whole words is whole.
LEMMA RoundDownIsWhole ==
  ASSUME NEW n \in Nat, Granule % Unit = 0
  PROVE  RoundDown(n) % Unit = 0
<1> USE GranuleAssumption, CountsAssumption
<1>1. PICK g \in Nat : Granule = Unit * g
  BY WholeIsMultiple
<1>2. n \div Granule \in Nat
  OBVIOUS
<1>3. RoundDown(n) = Granule * (n \div Granule)
  BY DEF RoundDown
<1>4. ASSUME NEW q \in Nat PROVE Granule * q = Unit * (g * q) /\ g * q \in Nat
  BY <1>1
<1>5. RoundDown(n) \in Nat
  BY RoundDownBounds
<1>6. QED
  BY <1>2, <1>3, <1>4, <1>5, WholeIsMultiple

\* So is what Write takes when it is asked for whole words.
LEMMA WriteAmountIsWhole ==
  ASSUME NEW n \in Nat, NEW r \in 0 .. BufferSize, NEW w \in 0 .. BufferSize - 1,
         n % Unit = 0, Granule % Unit = 0
  PROVE  WriteAmount(n, r, w) % Unit = 0
<1>1. FreeBytesInternal(r, w) \in Nat
  BY BufferSizeAssumption DEF FreeBytesInternal
<1>2. QED
  BY <1>1, RoundDownIsWhole DEF WriteAmount

\* A position that is moved on by whole words, and wrapped or not, is whole.
LEMMA MoveIsWhole ==
  ASSUME BufferSize % Unit = 0, NEW p \in 0 .. BufferSize, NEW n \in Nat,
         p % Unit = 0, n % Unit = 0
  PROVE  (p + n) % Unit = 0 /\ Wrap(p + n) % Unit = 0
<1>1. p \in Nat /\ BufferSize \in Nat /\ p + n \in Nat
  BY BufferSizeAssumption
<1>2. (p + n) % Unit = 0
  BY <1>1, WholeSum
<1>3. p + n >= BufferSize => (p + n - BufferSize) % Unit = 0
  BY <1>1, <1>2, WholeSum
<1>4. QED
  BY <1>1, <1>2, <1>3 DEF Wrap

\* The window between two whole positions is whole and ends at one.
LEMMA WindowIsWhole ==
  ASSUME BufferSize % Unit = 0, TypeOK, read_pos % Unit = 0, write_pos % Unit = 0
  PROVE  /\ WindowSize(read_pos, write_pos) % Unit = 0
         /\ WindowNext(read_pos, write_pos) % Unit = 0
<1>1. /\ read_pos \in Nat /\ write_pos \in Nat /\ BufferSize \in Nat
      /\ read_pos \in 0 .. BufferSize
  BY BufferSizeAssumption DEF TypeOK
<1>2. 0 % Unit = 0
  BY CountsAssumption
<1>3. (BufferSize - read_pos) % Unit = 0
  BY <1>1, WholeSum
<1>4. write_pos >= read_pos =>
        /\ write_pos - read_pos \in Nat
        /\ (write_pos - read_pos) % Unit = 0
        /\ Wrap(read_pos + (write_pos - read_pos)) % Unit = 0
  BY <1>1, WholeSum, MoveIsWhole
<1>5. write_pos < read_pos \/ write_pos >= read_pos
  BY <1>1
<1>6. QED
  BY <1>1, <1>2, <1>3, <1>4, <1>5 DEF WindowSize, WindowNext

\* Whole words never come apart: neither the rounding of the free space nor
\* the windows at the end of the buffer split one, wherever the positions are.
THEOREM WordsAreKeptWhole == Spec => WordsStayWhole
<1>1. ASSUME IInv, [Next]_vars,
             BufferSize % Unit = 0, Granule % Unit = 0,
             WholeWords, AsksWholeWords
      PROVE  WholeWords'
  <2>1. /\ read_pos % Unit = 0 /\ write_pos % Unit = 0
        /\ read_pos_tmp % Unit = 0 /\ rnext % Unit = 0
        /\ rsize % Unit = 0 /\ wcount % Unit = 0
        /\ 0 % Unit = 0
    BY <1>1, CountsAssumption DEF WholeWords
  <2>2. /\ TypeOK
        /\ read_pos \in 0 .. BufferSize /\ read_pos \in Nat
        /\ write_pos \in 0 .. BufferSize - 1 /\ write_pos \in 0 .. BufferSize
        /\ wcount \in Nat /\ rsize \in Nat
    BY <1>1, BufferSizeAssumption DEF IInv, TypeOK
  <2>3. SUFFICES
          /\ read_pos' % Unit = 0 /\ write_pos' % Unit = 0
          /\ read_pos_tmp' % Unit = 0 /\ rnext' % Unit = 0
          /\ rsize' % Unit = 0 /\ wcount' % Unit = 0
    BY DEF WholeWords
  <2>4. ASSUME NEW n \in WriteCounts, n % Unit = 0, BeginWrite(n)
        PROVE  /\ read_pos' % Unit = 0 /\ write_pos' % Unit = 0
               /\ read_pos_tmp' % Unit = 0 /\ rnext' % Unit = 0
               /\ rsize' % Unit = 0 /\ wcount' % Unit = 0
    <3>1. WriteAmount(n, read_pos, write_pos) % Unit = 0
      BY <1>1, <2>2, <2>4, WriteAmountIsWhole, CountsAssumption
    <3>2. /\ wcount' = WriteAmount(n, read_pos, write_pos)
          /\ UNCHANGED <<read_pos, write_pos, read_pos_tmp, rnext, rsize>>
      BY <2>4 DEF BeginWrite
    <3>3. QED
      BY <2>1, <3>1, <3>2
  <2>5. ASSUME NEW n \in ReadCounts, n % Unit = 0, BeginReadExact(n)
        PROVE  /\ read_pos' % Unit = 0 /\ write_pos' % Unit = 0
               /\ read_pos_tmp' % Unit = 0 /\ rnext' % Unit = 0
               /\ rsize' % Unit = 0 /\ wcount' % Unit = 0
    <3>1. (read_pos + n) % Unit = 0 /\ Wrap(read_pos + n) % Unit = 0
      BY <1>1, <2>1, <2>2, <2>5, MoveIsWhole, CountsAssumption
    <3>2. ExactNext(read_pos, write_pos, n) % Unit = 0
      BY <2>1, <3>1 DEF ExactNext
    <3>3. /\ rnext' = ExactNext(read_pos, write_pos, n) /\ rsize' = n
          /\ UNCHANGED <<read_pos, write_pos, read_pos_tmp, wcount>>
      BY <2>5 DEF BeginReadExact
    <3>4. QED
      BY <2>1, <2>5, <3>2, <3>3
  <2>6. CASE CopyIn \/ CopyOut \/ AvailableBytes \/ UNCHANGED vars
    BY <2>1, <2>6 DEF CopyIn, CopyOut, AvailableBytes, vars
  <2>7. CASE EndWrite
    <3>1. WriteNext(write_pos, wcount) % Unit = 0
      BY <1>1, <2>1, <2>2, MoveIsWhole DEF WriteNext
    <3>2. QED
      BY <2>1, <2>7, <3>1 DEF EndWrite
  <2>8. CASE ReadStart \/ ClearStart("idle", "clear1") \/ ClearStart("between", "clear2")
    <3>1. /\ WindowSize(read_pos, write_pos) % Unit = 0
          /\ WindowNext(read_pos, write_pos) % Unit = 0
      BY <1>1, <2>1, <2>2, WindowIsWhole
    <3>2. QED
      BY <2>1, <2>8, <3>1 DEF ReadStart, ClearStart
  <2>9. CASE \/ ReadEnd \/ EndReadExact
             \/ ClearEnd("clear1", "between") \/ ClearEnd("clear2", "idle")
    BY <2>1, <2>9 DEF ReadEnd, EndReadExact, ClearEnd, ReaderIdle
  <2>10. QED
    BY <1>1, <2>4, <2>5, <2>6, <2>7, <2>8, <2>9
       DEF Next, WriterNext, ReaderNext, Clear, AsksWholeWords
<1>2. IInv /\ [Next]_vars =>
        [(/\ BufferSize % Unit = 0 /\ Granule % Unit = 0
          /\ WholeWords /\ AsksWholeWords) => WholeWords']_vars
  BY <1>1
<1>3. QED
  BY <1>2, InvariantHolds, PTL DEF Spec, WordsStayWhole

-----------------------------------------------------------------------------
(* The refinement *)

\* Every step of the pipe is a step of the bounded queue, or none.
LEMMA StepSimulates == IInv /\ [Next]_vars => [FIFO!Next]_(FIFO!vars)
<1> SUFFICES ASSUME IInv, [Next]_vars
             PROVE  FIFO!Next \/ UNCHANGED FIFO!vars
  OBVIOUS
<1> USE BufferSizeAssumption
<1>1. /\ Used \in 0 .. BufferSize - 1
      /\ accepted = released + Used
      /\ taken = released + rcopied
      /\ rcopied <= rsize /\ rsize <= Used
      /\ wcount + Used <= BufferSize - 1
  BY UsedBounds DEF IInv, TypeOK, PositionsCount, ReaderInv, WriterInv
<1>2. ASSUME UNCHANGED <<accepted, taken, released, last>>
      PROVE  UNCHANGED FIFO!vars
  BY <1>2 DEF FIFO!vars
<1>3. CASE EndWrite
  <2>1. CASE wcount = 0
    BY <1>2, <1>3, <2>1 DEF EndWrite, IInv, TypeOK
  <2>2. CASE wcount > 0
    <3>1. wcount \in 1 .. (BufferSize - 1 - (accepted - released))
      BY <1>1, <2>2 DEF IInv, TypeOK
    <3>2. FIFO!Accept(wcount)
      BY <1>3, <3>1 DEF EndWrite, FIFO!Accept
    <3>3. wcount \in 1 .. BufferSize - 1
      BY <2>2 DEF IInv, TypeOK
    <3>4. QED
      BY <3>2, <3>3 DEF FIFO!Next
  <2>3. QED
    BY <2>1, <2>2 DEF IInv, TypeOK
<1>4. CASE CopyOut
  <2>1. rcopied \in 0 .. Used - 1
    BY <1>1, <1>4 DEF CopyOut, IInv, TypeOK
  <2>2. buffer[Wrap(read_pos + rcopied)] = taken + 1
    BY <1>1, <2>1 DEF IInv, TypeOK, ContentInv
  <2>3. taken < accepted
    BY <1>1, <2>1 DEF IInv, TypeOK
  <2>4. FIFO!Take
    BY <1>4, <2>2, <2>3 DEF CopyOut, FIFO!Take
  <2>5. QED
    BY <2>4 DEF FIFO!Next
<1>5. CASE ReadEnd \/ EndReadExact
  <2>1. FIFO!Release
    BY <1>5 DEF ReadEnd, EndReadExact, FIFO!Release
  <2>2. QED
    BY <2>1 DEF FIFO!Next
<1>6. CASE ClearEnd("clear1", "between") \/ ClearEnd("clear2", "idle")
  <2>1. /\ taken' = taken + rsize /\ released' = taken + rsize
        /\ UNCHANGED <<accepted, last>>
        /\ rcopied = 0
    BY <1>6 DEF ClearEnd, IInv, ReaderInv
  <2>2. taken + rsize \in taken .. accepted
    BY <1>1, <2>1 DEF IInv, TypeOK
  <2>3. FIFO!Discard
    BY <2>1, <2>2 DEF FIFO!Discard
  <2>4. QED
    BY <2>3 DEF FIFO!Next
<1>7. CASE (\E n \in WriteCounts : BeginWrite(n)) \/ CopyIn
  BY <1>2, <1>7 DEF BeginWrite, CopyIn
<1>8. CASE ReadStart \/ AvailableBytes \/ \E n \in ReadCounts : BeginReadExact(n)
  BY <1>2, <1>8 DEF ReadStart, AvailableBytes, BeginReadExact
<1>9. CASE ClearStart("idle", "clear1") \/ ClearStart("between", "clear2")
  BY <1>2, <1>9 DEF ClearStart
<1>10. CASE UNCHANGED vars
  BY <1>2, <1>10 DEF vars
<1>11. QED
  BY <1>3, <1>4, <1>5, <1>6, <1>7, <1>8, <1>9, <1>10
     DEF Next, WriterNext, ReaderNext, Clear

\* The ring buffer is a bounded queue of BufferSize - 1 bytes: what is read is
\* what was accepted, each byte once and in order.
THEOREM PipeImplementsFIFO == Spec => ImplementsFIFO
<1>1. Init => FIFO!Init
  BY DEF Init, FIFO!Init
<1>2. QED
  BY <1>1, StepSimulates, InvariantHolds, PTL DEF Spec, ImplementsFIFO, FIFO!Spec
=============================================================================
