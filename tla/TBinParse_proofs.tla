--------------------------- MODULE TBinParse_proofs ---------------------------
(***************************************************************************)
(* Proofs about TBinParse for any buffer, header, payload sizes and number *)
(* of frames: however the bytes are cut into chunks, the messages returned *)
(* are the frames sent, and a drain leaves no whole frame behind.          *)
(*                                                                         *)
(* The invariant names for every frame the place where it ends, counted    *)
(* from the start of the buffer through the bytes on the wire.  Moving     *)
(* the rest of the buffer to its start shifts all of these by the same     *)
(* amount; returning a message leaves them alone.                          *)
(***************************************************************************)
EXTENDS TBinParse, TLAPS, SequenceTheorems

USE DEF state

\* The sizes that are announced do not wrap when the header is added to them:
\* TooBig then refuses every frame that is larger than the buffer.
NoWrap == \A size \in Sizes : size + Header < Modulus

-----------------------------------------------------------------------------
(* The inductive invariant *)

Bytes == [frame : Nat, at : Nat]
Messages == [size : Nat, command : Nat, data : Seq(Bytes)]

TypeInv ==
  /\ TypeOK
  /\ buffer \in Seq(Bytes) /\ wire \in Seq(Bytes)
  /\ frames \in Seq([size : Sizes, command : Commands, intact : BOOLEAN])
  /\ delivered \in Seq(Messages)

\* The frame that is to be returned next.
Cur == first + Len(delivered)

\* Bytes of frame f.
Size(f) == Header + Payload(frames[f].size)

\* The byte at place p of what is in the buffer and then on the wire.
ByteAt(p) == IF p <= Len(buffer) THEN buffer[p] ELSE wire[p - Len(buffer)]

Places == [Nat -> Int]

\* Frame f ends at place e[f]; all from the current one on are there but for
\* what lies before pos, which is the first skip bytes of the current one.
Laid(e, pos, skip) ==
  /\ Cur <= Len(frames) + 1
  /\ e[Cur - 1] + skip = pos
  /\ e[Len(frames)] = Len(buffer) + Len(wire)
  /\ \A f \in Cur .. Len(frames) : e[f] = e[f - 1] + Size(f)
  /\ \A f, g \in Cur - 1 .. Len(frames) : f <= g => e[f] <= e[g]
  /\ \A f \in Cur .. Len(frames) : \A i \in 1 .. Size(f) :
        e[f - 1] + i > pos => ByteAt(e[f - 1] + i) = [frame |-> f, at |-> i]

\* A payload is awaited when its header has been taken off.
Skipped == IF bin_message_size > 0 THEN Header ELSE 0

StreamInv ==
  ~ parse_failed => \E e \in Places : Laid(e, buffer_pos, Skipped)

\* The payload awaited is that of the current frame.
AwaitInv ==
  (~ parse_failed /\ bin_message_size > 0) =>
    /\ Cur <= Len(frames)
    /\ frames[Cur].size = bin_message_size
    /\ frames[Cur].command = bin_message_command
    /\ Acceptable(frames[Cur])

\* After a drain the buffer begins with what is left, and that is short of what
\* the parser waits for.
SettledInv ==
  Drained =>
    /\ buffer_pos = 0
    /\ IF bin_message_size > 0 THEN Len(buffer) < bin_message_size
                               ELSE Len(buffer) < Header

IInv == TypeInv /\ StreamInv /\ AwaitInv /\ DeliversFramesInOrder /\ SettledInv

-----------------------------------------------------------------------------
(* Frames and their bytes *)

\* What the constants are.
LEMMA Constants ==
  /\ Header \in Nat /\ Header > 0 /\ BufferSize \in Nat /\ Header <= BufferSize
  /\ Modulus \in Nat /\ 2 * BufferSize < Modulus
  /\ MaxPayload \in Nat /\ BufferSize <= Header + MaxPayload /\ MaxFrames \in Nat
  /\ \A size \in Sizes : size \in Nat /\ size < Modulus
  /\ \A command \in Commands : command \in Nat
<1>1. /\ Header \in Nat /\ Header > 0 /\ BufferSize \in Nat /\ Header <= BufferSize
      /\ Modulus \in Nat /\ 2 * BufferSize < Modulus
      /\ MaxPayload \in Nat /\ BufferSize <= Header + MaxPayload /\ MaxFrames \in Nat
  BY SizesAssumption
<1>2. \A size \in Sizes : size \in Nat /\ size < Modulus
  BY <1>1, SizesAssumption
<1>3. \A command \in Commands : command \in Nat
  BY SizesAssumption
<1> QED
  BY <1>1, <1>2, <1>3

\* A sum that stays below the modulus is what it seems to be, and any sum is a
\* number again.
LEMMA Wraps ==
  ASSUME NEW n \in Nat
  PROVE  u32(n) \in Nat /\ (n < Modulus => u32(n) = n)
<1>1. Modulus \in Nat /\ 0 < Modulus
  BY Constants
<1> QED
  BY <1>1 DEF u32

\* A payload has at most the bytes its size says, and all of them if the frame
\* fits in the buffer.
LEMMA PayloadIs ==
  ASSUME NEW size \in Nat
  PROVE  /\ Payload(size) \in Nat /\ Payload(size) <= size
         /\ size + Header <= BufferSize => Payload(size) = size
BY Constants DEF Payload

\* The bytes of a frame.
LEMMA FrameBytesAre ==
  ASSUME NEW f \in Nat, NEW fr, fr.size \in Nat
  PROVE  /\ FrameBytes(f, fr) \in Seq(Bytes)
         /\ Len(FrameBytes(f, fr)) = Header + Payload(fr.size)
         /\ \A i \in 1 .. Header + Payload(fr.size) :
              FrameBytes(f, fr)[i] = [frame |-> f, at |-> i]
<1>1. Header + Payload(fr.size) \in Nat
  BY PayloadIs, Constants
<1> DEFINE len == Header + Payload(fr.size)
<1>2. FrameBytes(f, fr) = [i \in 1 .. len |-> [frame |-> f, at |-> i]]
  BY DEF FrameBytes
<1>3. \A i \in 1 .. len : [frame |-> f, at |-> i] \in Bytes
  BY <1>1 DEF Bytes
<1> HIDE DEF len
<1>4. len \in Nat
  BY <1>1 DEF len
<1>5. FrameBytes(f, fr) \in Seq(Bytes) /\ Len(FrameBytes(f, fr)) = len
  BY <1>2, <1>3, <1>4
<1>6. \A i \in 1 .. len : FrameBytes(f, fr)[i] = [frame |-> f, at |-> i]
  BY <1>2
<1> QED
  BY <1>5, <1>6 DEF len

\* A frame has at least its header, and fits the buffer only as a whole.
LEMMA FrameIs ==
  ASSUME TypeInv, NEW f \in 1 .. Len(frames)
  PROVE  /\ frames[f].size \in Nat /\ frames[f].size < Modulus
         /\ frames[f].size \in Sizes
         /\ frames[f].command \in Nat /\ frames[f].command \in Commands
         /\ frames[f].intact \in BOOLEAN
         /\ Size(f) \in Nat /\ Size(f) >= Header
         /\ Acceptable(frames[f]) => Size(f) = Header + frames[f].size
<1>1. frames[f] \in [size : Sizes, command : Commands, intact : BOOLEAN]
  BY ElementOfSeq DEF TypeInv
<1>2. /\ frames[f].size \in Nat /\ frames[f].size < Modulus
      /\ frames[f].size \in Sizes
      /\ frames[f].command \in Nat /\ frames[f].command \in Commands
  BY <1>1, Constants
<1>3. frames[f].intact \in BOOLEAN
  BY <1>1
<1>4. Size(f) \in Nat /\ Size(f) >= Header
  <2>1. Payload(frames[f].size) \in Nat
    BY <1>2, PayloadIs
  <2> QED
    BY <2>1, Constants DEF Size
<1>5. Acceptable(frames[f]) => Size(f) = Header + frames[f].size
  BY <1>2, PayloadIs DEF Size, Acceptable
<1> QED
  BY <1>2, <1>3, <1>4, <1>5

\* Lengths and positions are numbers.
LEMMA Numbers ==
  ASSUME TypeInv
  PROVE  /\ Len(buffer) \in Nat /\ Len(wire) \in Nat /\ Len(frames) \in Nat
         /\ Len(delivered) \in Nat /\ Len(buffer) <= BufferSize
         /\ buffer_pos \in Nat /\ buffer_pos <= Len(buffer)
         /\ first \in Nat /\ 1 <= first /\ first <= Len(frames) + 1
         /\ Cur \in Nat /\ 1 <= Cur /\ first <= Cur
         /\ bin_message_size \in Nat /\ Skipped \in Nat
<1>1. Len(buffer) \in Nat /\ Len(wire) \in Nat /\ Len(frames) \in Nat /\ Len(delivered) \in Nat
  BY DEF TypeInv
<1>2. /\ Len(buffer) <= BufferSize /\ buffer_pos \in 0 .. Len(buffer)
      /\ first \in 1 .. Len(frames) + 1 /\ bin_message_size \in 0 .. Modulus - 1
  BY DEF TypeInv, TypeOK
<1>3. bin_message_size \in Nat
  BY <1>2, Constants
<1> QED
  BY <1>1, <1>2, <1>3, Constants DEF Cur, Skipped

\* The current frame, if there is one and it is acceptable.
LEMMA CurrentIs ==
  ASSUME TypeInv, Cur \in 1 .. Len(frames), Acceptable(frames[Cur])
  PROVE  /\ Cur \in Nat /\ Cur - 1 \in Nat /\ Cur <= Len(frames) /\ Cur \in Cur .. Len(frames)
         /\ frames[Cur].size \in Nat /\ Payload(frames[Cur].size) = frames[Cur].size
         /\ Size(Cur) \in Nat /\ Size(Cur) = Header + frames[Cur].size
<1>1. Cur \in Nat /\ Cur - 1 \in Nat /\ Len(frames) \in Nat
  BY Numbers
<1>2. Cur <= Len(frames) /\ Cur \in Cur .. Len(frames)
  BY <1>1
<1>3. /\ frames[Cur].size \in Nat
      /\ Size(Cur) \in Nat /\ Size(Cur) = Header + frames[Cur].size
  BY FrameIs
<1>4. Payload(frames[Cur].size) = frames[Cur].size
  BY <1>3, PayloadIs DEF Acceptable
<1> QED
  BY <1>1, <1>2, <1>3, <1>4

-----------------------------------------------------------------------------
(* What becomes of the places *)

\* The rest of a sequence.
LEMMA Rest ==
  ASSUME NEW S, NEW q \in Seq(S), NEW n \in Nat, n <= Len(q)
  PROVE  /\ SubSeq(q, n + 1, Len(q)) \in Seq(S)
         /\ Len(SubSeq(q, n + 1, Len(q))) = Len(q) - n
         /\ \A i \in 1 .. Len(q) - n : SubSeq(q, n + 1, Len(q))[i] = q[n + i]
OBVIOUS

\* A piece of a sequence.
LEMMA Cut ==
  ASSUME NEW S, NEW q \in Seq(S), NEW m \in Nat, NEW n \in Nat, m + n <= Len(q)
  PROVE  /\ SubSeq(q, m + 1, m + n) \in Seq(S)
         /\ Len(SubSeq(q, m + 1, m + n)) = n
         /\ \A i \in 1 .. n : SubSeq(q, m + 1, m + n)[i] = q[m + i]
OBVIOUS

\* Two sequences, one after the other.
LEMMA Concatenated ==
  ASSUME NEW S, NEW q \in Seq(S), NEW r \in Seq(S)
  PROVE  /\ q \o r \in Seq(S) /\ Len(q \o r) = Len(q) + Len(r)
         /\ \A i \in 1 .. Len(q) : (q \o r)[i] = q[i]
         /\ \A i \in 1 .. Len(r) : (q \o r)[Len(q) + i] = r[i]
OBVIOUS

\* What is left from pos on is moved to the start of the buffer.
Moved(pos) == buffer' = SubSeq(buffer, pos + 1, Len(buffer))

\* This shifts the places.
LEMMA Compacted ==
  ASSUME TypeInv, NEW pos \in 0 .. Len(buffer), NEW skip \in Nat,
         NEW e \in Places, Laid(e, pos, skip),
         Moved(pos),
         UNCHANGED <<wire, frames, first, delivered>>
  PROVE  /\ buffer' \in Seq(Bytes) /\ Len(buffer') = Len(buffer) - pos
         /\ \E d \in Places : Laid(d, 0, skip)'
<1> DEFINE d == [f \in Nat |-> e[f] - pos]
<1>1. /\ Len(buffer) \in Nat /\ Len(wire) \in Nat /\ Len(frames) \in Nat
      /\ Cur \in Nat /\ 1 <= Cur /\ pos \in Nat /\ pos <= Len(buffer)
  BY Numbers
<1>2. /\ buffer' \in Seq(Bytes) /\ Len(buffer') = Len(buffer) - pos
      /\ \A i \in 1 .. Len(buffer) - pos : buffer'[i] = buffer[pos + i]
  BY <1>1, Rest DEF TypeInv, Moved
<1>2a. Len(buffer') \in Nat /\ Len(buffer') + pos = Len(buffer)
  BY <1>1, <1>2
<1>3. Cur' = Cur /\ frames' = frames /\ wire' = wire /\ \A f : Size(f)' = Size(f)
  BY DEF Cur, Size
<1>4. ASSUME NEW p \in Int, 0 < p
      PROVE  ByteAt(p)' = ByteAt(p + pos)
  <2>1. CASE p <= Len(buffer')
    BY <1>1, <1>2, <1>4, <2>1 DEF ByteAt
  <2>2. CASE ~ (p <= Len(buffer'))
    <3>1. p - Len(buffer') = (p + pos) - Len(buffer) /\ ~ (p + pos <= Len(buffer))
      BY <1>1, <1>2a, <2>2
    <3> QED
      BY <1>3, <2>2, <3>1 DEF ByteAt
  <2> QED
    BY <2>1, <2>2
<1>5. d \in Places /\ \A f \in Nat : d[f] = e[f] - pos /\ e[f] \in Int
  BY <1>1 DEF Places
<1> HIDE DEF d
<1>6. Laid(d, 0, skip)'
  <2>1. d[Cur - 1] + skip = 0 /\ Cur <= Len(frames) + 1
    <3>1. Cur - 1 \in Nat /\ e[Cur - 1] + skip = pos /\ Cur <= Len(frames) + 1
      BY <1>1 DEF Laid
    <3>2. d[Cur - 1] = e[Cur - 1] - pos /\ e[Cur - 1] \in Int
      BY <1>5, <3>1
    <3> QED
      BY <1>1, <3>1, <3>2
  <2>2. d[Len(frames)] = Len(buffer') + Len(wire)
    <3>1. e[Len(frames)] = Len(buffer) + Len(wire)
      BY DEF Laid
    <3>2. d[Len(frames)] = e[Len(frames)] - pos
      BY <1>1, <1>5
    <3> QED
      BY <1>1, <1>2a, <3>1, <3>2
  <2>3. ASSUME NEW f \in Cur .. Len(frames)
        PROVE  /\ d[f] = d[f - 1] + Size(f)
               /\ \A i \in 1 .. Size(f) :
                    d[f - 1] + i > 0 => ByteAt(d[f - 1] + i)' = [frame |-> f, at |-> i]
    <3>1. f \in Nat /\ f - 1 \in Nat /\ f \in 1 .. Len(frames)
      BY <1>1
    <3>2. Size(f) \in Nat /\ e[f] = e[f - 1] + Size(f) /\ d[f] = e[f] - pos
          /\ d[f - 1] = e[f - 1] - pos /\ e[f] \in Int /\ e[f - 1] \in Int
      BY <1>5, <3>1, FrameIs DEF Laid
    <3>3. ASSUME NEW i \in 1 .. Size(f), d[f - 1] + i > 0
          PROVE  ByteAt(d[f - 1] + i)' = [frame |-> f, at |-> i]
      <4>1. /\ d[f - 1] + i \in Int /\ (d[f - 1] + i) + pos = e[f - 1] + i
            /\ e[f - 1] + i > pos
        <5>1. i \in Int /\ d[f - 1] \in Int
          BY <1>1, <3>2
        <5>2. (d[f - 1] + i) + pos = e[f - 1] + i
          BY <1>1, <3>2, <5>1
        <5>3. e[f - 1] + i \in Int /\ d[f - 1] + i \in Int /\ pos \in Int
          BY <1>1, <3>2, <5>1
        <5>4. d[f - 1] + i > 0
          BY <3>3
        <5>5. e[f - 1] + i > pos
          BY <5>2, <5>3, <5>4
        <5> QED
          BY <5>2, <5>3, <5>5
      <4>2. ByteAt(e[f - 1] + i) = [frame |-> f, at |-> i]
        BY <4>1 DEF Laid
      <4>3. ByteAt(d[f - 1] + i)' = ByteAt((d[f - 1] + i) + pos)
        BY <1>4, <3>3, <4>1
      <4> QED
        BY <4>1, <4>2, <4>3
    <3>4. d[f] = d[f - 1] + Size(f)
      BY <1>1, <3>2
    <3> QED
      BY <3>3, <3>4
  <2>4. ASSUME NEW f \in Cur - 1 .. Len(frames), NEW g \in Cur - 1 .. Len(frames), f <= g
        PROVE  d[f] <= d[g]
    <3>1. f \in Nat /\ g \in Nat
      BY <1>1
    <3>2. e[f] <= e[g]
      BY <2>4 DEF Laid
    <3> QED
      BY <1>1, <1>5, <3>1, <3>2
  <2> QED
    BY <1>3, <2>1, <2>2, <2>3, <2>4 DEF Laid
<1> QED
  BY <1>2, <1>5, <1>6

\* Where a header's bytes are, they are those of the current frame.
LEMMA HeaderThere ==
  ASSUME TypeInv, NEW pos \in 0 .. Len(buffer), NEW e \in Places,
         Laid(e, pos, 0), Len(buffer) - pos >= Header
  PROVE  /\ Cur \in 1 .. Len(frames)
         /\ \A i \in 1 .. Header : buffer[pos + i] = [frame |-> Cur, at |-> i]
         /\ Laid(e, pos + Header, Header)
<1>1. /\ Len(buffer) \in Nat /\ Len(wire) \in Nat /\ Len(frames) \in Nat
      /\ Cur \in Nat /\ 1 <= Cur /\ pos \in Nat /\ pos <= Len(buffer)
      /\ Header \in Nat /\ 0 < Header
  BY Numbers, Constants
<1>2. e[Cur - 1] = pos /\ e[Len(frames)] = Len(buffer) + Len(wire) /\ Cur <= Len(frames) + 1
  <2>1. e[Cur - 1] \in Int
    BY <1>1 DEF Places
  <2> QED
    BY <2>1 DEF Laid
<1>3. Cur \in 1 .. Len(frames)
  <2>1. Cur - 1 # Len(frames)
    <3> SUFFICES ASSUME Cur - 1 = Len(frames) PROVE FALSE
      OBVIOUS
    <3>1. pos = Len(buffer) + Len(wire)
      BY <1>2
    <3> QED
      BY <1>1, <3>1
  <2> QED
    BY <1>1, <1>2, <2>1
<1>4. Size(Cur) \in Nat /\ Header <= Size(Cur)
  BY <1>1, <1>3, FrameIs
<1>5. ASSUME NEW i \in 1 .. Header
      PROVE  buffer[pos + i] = [frame |-> Cur, at |-> i]
  <2>1. i \in 1 .. Size(Cur) /\ pos + i > pos /\ pos + i <= Len(buffer) /\ Cur \in Cur .. Len(frames)
    BY <1>1, <1>3, <1>4
  <2>2. ByteAt(pos + i) = [frame |-> Cur, at |-> i]
    BY <1>2, <2>1 DEF Laid
  <2> QED
    BY <2>1, <2>2 DEF ByteAt
<1>6. Laid(e, pos + Header, Header)
  <2>1. \A f \in Cur .. Len(frames) : \A i \in 1 .. Size(f) :
          e[f - 1] + i > pos + Header => ByteAt(e[f - 1] + i) = [frame |-> f, at |-> i]
    <3> SUFFICES ASSUME NEW f \in Cur .. Len(frames), NEW i \in 1 .. Size(f),
                        e[f - 1] + i > pos + Header
                 PROVE  ByteAt(e[f - 1] + i) = [frame |-> f, at |-> i]
      OBVIOUS
    <3>1. f - 1 \in Nat /\ f \in 1 .. Len(frames)
      BY <1>1
    <3>2. e[f - 1] \in Int /\ Size(f) \in Nat
      BY <3>1, FrameIs DEF Places
    <3>3. e[f - 1] + i > pos
      BY <1>1, <3>2
    <3> QED
      BY <3>3 DEF Laid
  <2> QED
    BY <1>1, <1>2, <2>1 DEF Laid
<1> QED
  BY <1>3, <1>5, <1>6

\* Where the payload's bytes are, they are those of the current frame, too.
LEMMA MessageThere ==
  ASSUME TypeInv, NEW pos \in Nat, NEW e \in Places, Laid(e, pos, Header),
         Cur \in 1 .. Len(frames), Acceptable(frames[Cur]),
         pos + frames[Cur].size <= Len(buffer)
  PROVE  /\ SubSeq(buffer, pos + 1, pos + frames[Cur].size) \in Seq(Bytes)
         /\ SubSeq(buffer, pos + 1, pos + frames[Cur].size) = MessageOf(Cur).data
<1> DEFINE size == frames[Cur].size
           fb   == FrameBytes(Cur, frames[Cur])
           ours == SubSeq(buffer, pos + 1, pos + size)
           its  == SubSeq(fb, Header + 1, Header + size)
<1>1. /\ Cur \in Nat /\ Cur - 1 \in Nat /\ Cur \in Cur .. Len(frames)
      /\ size \in Nat /\ Size(Cur) = Header + size /\ Payload(size) = size
  BY CurrentIs
<1>2. /\ Len(buffer) \in Nat /\ Header \in Nat /\ 0 < Header
      /\ buffer \in Seq(Bytes) /\ pos + size <= Len(buffer)
  BY Numbers, Constants DEF TypeInv
<1>3. /\ fb \in Seq(Bytes) /\ Len(fb) = Header + size
      /\ \A i \in 1 .. Header + size : fb[i] = [frame |-> Cur, at |-> i]
  BY <1>1, <1>2, FrameBytesAre
<1>4. MessageOf(Cur).data = its
  BY DEF MessageOf
<1> HIDE DEF size, fb
<1>5. /\ ours \in Seq(Bytes) /\ Len(ours) = size
      /\ \A i \in 1 .. size : ours[i] = buffer[pos + i]
  BY <1>1, <1>2, Cut
<1>6. /\ its \in Seq(Bytes) /\ Len(its) = size
      /\ \A i \in 1 .. size : its[i] = fb[Header + i]
  BY <1>1, <1>2, <1>3, Cut
<1> HIDE DEF ours, its
<1>7. ASSUME NEW i \in 1 .. size
      PROVE  ours[i] = its[i]
  <2>1. /\ i \in Nat /\ 0 < i /\ i <= size
        /\ Header + i \in 1 .. Size(Cur) /\ Header + i \in 1 .. Header + size
    BY <1>1, <1>2
  <2>2. e[Cur - 1] + Header = pos /\ e[Cur - 1] \in Int
    BY <1>1 DEF Laid, Places
  <2>3. e[Cur - 1] + (Header + i) = pos + i /\ pos + i > pos /\ pos + i <= Len(buffer)
    <3>1. pos + i > pos /\ pos + i <= Len(buffer)
      BY <1>1, <1>2, <2>1
    <3>2. e[Cur - 1] + (Header + i) = pos + i
      BY <1>2, <2>1, <2>2
    <3> QED
      BY <3>1, <3>2
  <2>4. ByteAt(pos + i) = [frame |-> Cur, at |-> Header + i]
    BY <1>1, <2>1, <2>3 DEF Laid
  <2>5. ByteAt(pos + i) = buffer[pos + i]
    BY <2>3 DEF ByteAt
  <2> QED
    BY <1>3, <1>5, <1>6, <2>1, <2>4, <2>5
<1>8. ours = its
  BY <1>5, <1>6, <1>7, SeqEqual
<1> QED
  BY <1>4, <1>5, <1>8 DEF ours, size

\* Returning the current frame's message makes the next frame current.
LEMMA Returned ==
  ASSUME TypeInv, NEW pos \in Nat, NEW e \in Places, Laid(e, pos, Header),
         Cur \in 1 .. Len(frames), Acceptable(frames[Cur]),
         NEW end, end = pos + frames[Cur].size,
         NEW m, delivered' = Append(delivered, m),
         UNCHANGED <<buffer, wire, frames, first>>
  PROVE  Cur' = Cur + 1 /\ Laid(e, end, 0)'
<1>1. /\ Cur \in Nat /\ Cur - 1 \in Nat /\ Cur <= Len(frames) /\ Cur \in Cur .. Len(frames)
      /\ frames[Cur].size \in Nat /\ Size(Cur) = Header + frames[Cur].size
  BY CurrentIs
<1>2. Len(frames) \in Nat /\ Header \in Nat
  BY Numbers, Constants
<1>3. Cur' = Cur + 1 /\ Cur' - 1 = Cur
  <2>1. delivered \in Seq(Messages) /\ Len(Append(delivered, m)) = Len(delivered) + 1
    BY DEF TypeInv
  <2>2. Cur' = Cur + 1
    BY <2>1, Numbers DEF Cur
  <2> QED
    BY <1>1, <2>2
<1>4. (\A f : Size(f)' = Size(f)) /\ (\A p : ByteAt(p)' = ByteAt(p))
  BY DEF Size, ByteAt
<1>5. e[Cur] = end /\ e[Cur] \in Int
  <2>1. e[Cur - 1] \in Int /\ e[Cur] \in Int
    BY <1>1 DEF Places
  <2>2. e[Cur - 1] + Header = pos /\ e[Cur] = e[Cur - 1] + Size(Cur)
    BY <1>1 DEF Laid
  <2> QED
    BY <1>1, <1>2, <2>1, <2>2
<1>6. Laid(e, end, 0)'
  <2>1. Cur' <= Len(frames) + 1 /\ e[Cur' - 1] + 0 = end
    BY <1>1, <1>2, <1>3, <1>5
  <2>2. /\ \A f \in Cur + 1 .. Len(frames) : f \in Cur .. Len(frames)
        /\ \A f \in Cur .. Len(frames) : f \in Cur - 1 .. Len(frames)
    BY <1>1, <1>2
  <2>3. /\ e[Len(frames)] = Len(buffer) + Len(wire)
        /\ \A f \in Cur + 1 .. Len(frames) : e[f] = e[f - 1] + Size(f)
        /\ \A f, g \in Cur .. Len(frames) : f <= g => e[f] <= e[g]
    BY <2>2 DEF Laid
  <2>4. ASSUME NEW f \in Cur + 1 .. Len(frames), NEW i \in 1 .. Size(f),
               e[f - 1] + i > end
        PROVE  ByteAt(e[f - 1] + i) = [frame |-> f, at |-> i]
    <3>1. f \in Cur .. Len(frames) /\ f - 1 \in Nat /\ f \in 1 .. Len(frames)
      BY <1>1, <1>2
    <3>2. e[f - 1] + i \in Int
      BY <3>1, FrameIs DEF Places
    <3>3. e[f - 1] + i > pos
      BY <1>1, <2>4, <3>2
    <3> QED
      BY <3>1, <3>3 DEF Laid
  <2>5. /\ \A f \in Cur' .. Len(frames) : e[f] = e[f - 1] + Size(f)
        /\ \A f, g \in Cur' - 1 .. Len(frames) : f <= g => e[f] <= e[g]
        /\ \A f \in Cur' .. Len(frames) : \A i \in 1 .. Size(f) :
             e[f - 1] + i > end =>
               ByteAt(e[f - 1] + i) = [frame |-> f, at |-> i]
    BY <1>3, <2>3, <2>4
  <2> QED
    BY <1>4, <2>1, <2>3, <2>5 DEF Laid
<1> QED
  BY <1>3, <1>6

-----------------------------------------------------------------------------
(* The types, for any sizes *)

\* Awaiting or returning a payload keeps the types, even where a sum has
\* wrapped.
LEMMA PayloadTypes ==
  ASSUME TypeInv, NEW pos \in 0 .. Len(buffer), NEW size \in Nat, size < Modulus,
         NEW command \in Nat, PayloadOrNothing(pos, size, command),
         bin_message_command' \in Commands \union {0}, parse_failed' \in BOOLEAN,
         UNCHANGED <<frames, wire, first>>
  PROVE  TypeInv'
<1>1. /\ pos \in Nat /\ pos <= Len(buffer) /\ Len(buffer) \in Nat
      /\ Len(buffer) <= BufferSize /\ Modulus \in Nat
      /\ buffer \in Seq(Bytes) /\ delivered \in Seq(Messages)
  BY Numbers, Constants DEF TypeInv
<1>2. u32(pos + size) \in Nat
  <2>1. pos + size \in Nat
    BY <1>1
  <2> QED
    BY <2>1, Wraps
<1>3. CASE u32(pos + size) <= Len(buffer)
  <2> DEFINE m == [size |-> size, command |-> command,
                   data |-> SubSeq(buffer, pos + 1, InBuffer(pos + size))]
  <2>1. /\ delivered' = Append(delivered, m)
        /\ draining' \in BOOLEAN
        /\ buffer_pos' = u32(pos + size) /\ bin_message_size' = 0 /\ buffer' = buffer
    BY <1>3 DEF PayloadOrNothing
  <2>2. SubSeq(buffer, pos + 1, InBuffer(pos + size)) \in Seq(Bytes)
    <3>1. InBuffer(pos + size) - pos \in Nat
          /\ InBuffer(pos + size) = pos + (InBuffer(pos + size) - pos)
          /\ InBuffer(pos + size) <= Len(buffer)
      BY <1>1 DEF InBuffer
    <3> QED
      BY <1>1, <3>1, Cut
  <2>3. m \in Messages
    BY <2>2 DEF Messages
  <2> HIDE DEF m
  <2>4. delivered' \in Seq(Messages)
    BY <1>1, <2>1, <2>3
  <2>5. /\ Len(buffer') <= BufferSize
        /\ buffer_pos' \in 0 .. Len(buffer')
        /\ bin_message_size' \in 0 .. Modulus - 1
        /\ first' \in 1 .. Len(frames') + 1
    BY <1>1, <1>2, <1>3, <2>1, Constants DEF TypeInv, TypeOK
  <2>6. TypeOK'
    BY <2>1, <2>5 DEF TypeOK
  <2> QED
    BY <2>1, <2>4, <2>6 DEF TypeInv
<1>4. CASE ~ (u32(pos + size) <= Len(buffer))
  <2>1. /\ Moved(pos) /\ buffer_pos' = 0 /\ draining' = FALSE /\ delivered' = delivered
        /\ bin_message_size' = size
    BY <1>4 DEF PayloadOrNothing, Nothing, Moved
  <2>2. buffer' \in Seq(Bytes) /\ Len(buffer') = Len(buffer) - pos
    BY <1>1, <2>1, Rest DEF Moved
  <2>3. /\ Len(buffer') <= BufferSize
        /\ buffer_pos' \in 0 .. Len(buffer')
        /\ bin_message_size' \in 0 .. Modulus - 1
        /\ first' \in 1 .. Len(frames') + 1
    BY <1>1, <2>1, <2>2, Constants DEF TypeInv, TypeOK
  <2>4. TypeOK'
    BY <2>1, <2>3 DEF TypeOK
  <2> QED
    BY <2>1, <2>2, <2>4 DEF TypeInv
<1> QED
  BY <1>3, <1>4

\* So does returning nothing.
LEMMA NothingTypes ==
  ASSUME TypeInv, NEW pos \in 0 .. Len(buffer), Nothing(pos),
         bin_message_size' = 0,
         bin_message_command' \in Commands \union {0}, parse_failed' \in BOOLEAN,
         UNCHANGED <<frames, wire, first>>
  PROVE  TypeInv'
<1>1. /\ pos \in Nat /\ pos <= Len(buffer) /\ Len(buffer) \in Nat
      /\ Len(buffer) <= BufferSize /\ Modulus \in Nat /\ Modulus > 0
      /\ buffer \in Seq(Bytes)
  BY Numbers, Constants DEF TypeInv
<1>2. Moved(pos) /\ buffer_pos' = 0 /\ draining' = FALSE /\ delivered' = delivered
  BY DEF Nothing, Moved
<1>3. buffer' \in Seq(Bytes) /\ Len(buffer') = Len(buffer) - pos
  BY <1>1, <1>2, Rest DEF Moved
<1>4. /\ Len(buffer') <= BufferSize
      /\ buffer_pos' \in 0 .. Len(buffer')
      /\ bin_message_size' \in 0 .. Modulus - 1
      /\ first' \in 1 .. Len(frames') + 1
  <2>1. Len(buffer') <= BufferSize /\ buffer_pos' \in 0 .. Len(buffer')
    BY <1>1, <1>2, <1>3, Constants
  <2>2. bin_message_size' \in 0 .. Modulus - 1
    BY <1>1
  <2>3. first' \in 1 .. Len(frames') + 1
    BY DEF TypeInv, TypeOK
  <2> QED
    BY <2>1, <2>2, <2>3
<1>5. TypeOK'
  BY <1>2, <1>4 DEF TypeOK
<1> QED
  BY <1>2, <1>3, <1>5 DEF TypeInv

\* The bytes that are announced are taken from the wire.
LEMMA Appended ==
  ASSUME TypeInv, NEW n \in 1 .. BufferSize + 1, AppendBytes(n)
  PROVE  /\ TypeInv' /\ n \in 1 .. Len(wire)
         /\ \/ parse_failed' = TRUE
            \/ /\ parse_failed' = parse_failed
               /\ Len(buffer') = Len(buffer) + n /\ Len(wire') = Len(wire) - n
               /\ \A i \in 1 .. Len(buffer) : buffer'[i] = buffer[i]
               /\ \A i \in 1 .. n : buffer'[Len(buffer) + i] = wire[i]
               /\ \A i \in 1 .. Len(wire) - n : wire'[i] = wire[n + i]
<1>1. /\ Len(buffer) \in Nat /\ Len(wire) \in Nat /\ BufferSize \in Nat
      /\ n \in Nat /\ 1 <= n /\ n <= Len(wire) /\ n \in 1 .. Len(wire)
      /\ buffer \in Seq(Bytes) /\ wire \in Seq(Bytes)
  BY Numbers, Constants DEF TypeInv, AppendBytes
<1>2. /\ wire' \in Seq(Bytes) /\ Len(wire') = Len(wire) - n
      /\ \A i \in 1 .. Len(wire) - n : wire'[i] = wire[n + i]
  BY <1>1, Rest DEF AppendBytes
<1>3. /\ SubSeq(wire, 1, n) \in Seq(Bytes) /\ Len(SubSeq(wire, 1, n)) = n
      /\ \A i \in 1 .. n : SubSeq(wire, 1, n)[i] = wire[i]
  BY <1>1
<1>4. /\ draining' = TRUE
      /\ UNCHANGED <<buffer_pos, bin_message_size, bin_message_command, frames, first,
                     delivered>>
  BY DEF AppendBytes
<1>5. CASE n > MaxAppendSize
  <2>1. parse_failed' = TRUE /\ buffer' = buffer
    BY <1>5 DEF AppendBytes
  <2>2. TypeOK'
    BY <1>4, <2>1 DEF TypeInv, TypeOK
  <2> QED
    BY <1>1, <1>2, <1>4, <2>1, <2>2 DEF TypeInv
<1>6. CASE ~ (n > MaxAppendSize)
  <2>1. parse_failed' = parse_failed /\ buffer' = buffer \o SubSeq(wire, 1, n)
    BY <1>6 DEF AppendBytes
  <2>2. /\ buffer' \in Seq(Bytes) /\ Len(buffer') = Len(buffer) + n
        /\ \A i \in 1 .. Len(buffer) : buffer'[i] = buffer[i]
        /\ \A i \in 1 .. n : buffer'[Len(buffer) + i] = wire[i]
    BY <1>1, <1>3, <2>1
  <2>3. Len(buffer') <= BufferSize /\ buffer_pos' \in 0 .. Len(buffer')
    BY <1>1, <1>4, <1>6, <2>2, Numbers DEF MaxAppendSize
  <2>4. TypeOK'
    BY <1>4, <2>1, <2>3 DEF TypeInv, TypeOK
  <2> QED
    BY <1>1, <1>2, <1>4, <2>1, <2>2, <2>4 DEF TypeInv
<1> QED
  BY <1>5, <1>6

\* A frame that is sent goes to the end of the wire.
LEMMA Sent ==
  ASSUME TypeInv, NEW size \in Sizes, NEW command \in Commands, NEW intact \in BOOLEAN,
         Send(size, command, intact), NEW new, new = Len(frames) + 1
  PROVE  /\ TypeInv' /\ Len(frames') = Len(frames) + 1
         /\ \A f \in 1 .. Len(frames) : frames'[f] = frames[f] /\ Size(f)' = Size(f)
         /\ Size(new)' \in Nat
         /\ Len(wire') = Len(wire) + Size(new)'
         /\ \A i \in 1 .. Len(wire) : wire'[i] = wire[i]
         /\ \A i \in 1 .. Size(new)' :
              wire'[Len(wire) + i] = [frame |-> new, at |-> i]
<1> DEFINE fr == [size |-> size, command |-> command, intact |-> intact]
           fb == FrameBytes(new, fr)
<1>1. /\ Len(wire) \in Nat /\ Len(frames) \in Nat /\ wire \in Seq(Bytes) /\ size \in Nat
      /\ frames \in Seq([size : Sizes, command : Commands, intact : BOOLEAN])
      /\ fr.size = size /\ new \in Nat
  BY Numbers, Constants DEF TypeInv
<1>2. fr \in [size : Sizes, command : Commands, intact : BOOLEAN]
  OBVIOUS
<1>3. /\ fb \in Seq(Bytes) /\ Len(fb) = Header + Payload(size)
      /\ \A i \in 1 .. Header + Payload(size) : fb[i] = [frame |-> new, at |-> i]
  BY <1>1, FrameBytesAre
<1>4. /\ frames' = Append(frames, fr) /\ wire' = wire \o fb
      /\ UNCHANGED <<state, parse_failed, draining, first, delivered>>
  BY DEF Send
<1> HIDE DEF fr, fb
<1>5. /\ frames' \in Seq([size : Sizes, command : Commands, intact : BOOLEAN])
      /\ Len(frames') = Len(frames) + 1 /\ frames'[new] = fr
      /\ \A f \in 1 .. Len(frames) : frames'[f] = frames[f]
  BY <1>1, <1>2, <1>4, AppendProperties
<1>6. Size(new)' = Header + Payload(size) /\ Size(new)' \in Nat
  <2>1. frames'[new].size = size
    BY <1>1, <1>5
  <2>2. Payload(size) \in Nat
    BY <1>1, PayloadIs
  <2> QED
    BY <2>1, <2>2, Constants DEF Size
<1>7. /\ wire' \in Seq(Bytes) /\ Len(wire') = Len(wire) + Len(fb)
      /\ \A i \in 1 .. Len(wire) : wire'[i] = wire[i]
      /\ \A i \in 1 .. Len(fb) : wire'[Len(wire) + i] = fb[i]
  <2>1. wire \in Seq(Bytes) /\ fb \in Seq(Bytes)
    BY <1>1, <1>3
  <2>2. /\ wire \o fb \in Seq(Bytes) /\ Len(wire \o fb) = Len(wire) + Len(fb)
        /\ \A i \in 1 .. Len(wire) : (wire \o fb)[i] = wire[i]
        /\ \A i \in 1 .. Len(fb) : (wire \o fb)[Len(wire) + i] = fb[i]
    BY <2>1, Concatenated
  <2> QED
    BY <1>4, <2>2
<1>8. TypeOK'
  BY <1>1, <1>4, <1>5 DEF TypeInv, TypeOK
<1>9. TypeInv'
  BY <1>4, <1>5, <1>7, <1>8 DEF TypeInv
<1> QED
  BY <1>3, <1>5, <1>6, <1>7, <1>9 DEF Size

\* A header that NextMessage accepts is one of the frames sent.
LEMMA GoodHeaderIs ==
  ASSUME TypeInv, ParseHeader(buffer_pos).ok
  PROVE  /\ ParseHeader(buffer_pos).fr.size \in Sizes
         /\ ParseHeader(buffer_pos).fr.command \in Commands
<1>1. PICK f \in 1 .. Len(frames) :
        \A i \in 1 .. Header : buffer[buffer_pos + i] = [frame |-> f, at |-> i]
  BY DEF ParseHeader, GoodHeaderAt
<1>2. 1 \in 1 .. Header
  BY Constants
<1>3. buffer[buffer_pos + 1].frame = f
  <2>1. buffer[buffer_pos + 1] = [frame |-> f, at |-> 1]
    BY <1>1, <1>2
  <2> QED
    BY <2>1
<1>4. ParseHeader(buffer_pos).fr = frames[f]
  BY <1>3 DEF ParseHeader
<1> QED
  BY <1>4, FrameIs

\* Every step keeps the types, for any sizes: also where they wrap.
LEMMA TypeStep ==
  ASSUME TypeInv, [Next]_vars
  PROVE  TypeInv'
<1>1. CASE \E size \in Sizes, command \in Commands, intact \in BOOLEAN :
             Send(size, command, intact)
  BY <1>1, Sent
<1>2. CASE \E n \in 1 .. BufferSize + 1 : AppendBytes(n)
  BY <1>2, Appended
<1>3. /\ bin_message_command \in Commands \union {0} /\ bin_message_command \in Nat
      /\ parse_failed \in BOOLEAN
      /\ bin_message_size \in Nat /\ bin_message_size < Modulus
      /\ buffer_pos \in 0 .. Len(buffer)
  <2>1. /\ bin_message_command \in Commands \union {0}
        /\ parse_failed \in BOOLEAN
        /\ bin_message_size \in 0 .. Modulus - 1
        /\ buffer_pos \in 0 .. Len(buffer)
    BY DEF TypeInv, TypeOK
  <2> QED
    BY <2>1, Constants
<1>4. CASE NextFailed
  BY <1>4 DEF NextFailed, TypeInv, TypeOK
<1>5. CASE NextAwaited
  BY <1>3, <1>5, PayloadTypes DEF NextAwaited
<1>6. CASE NextNoHeader
  BY <1>3, <1>6, NothingTypes DEF NextNoHeader
<1>7. CASE NextHeader
  <2> DEFINE h == ParseHeader(buffer_pos)
             refused == ~ h.ok \/ TooBig(h.fr.size)
  <2>1. buffer_pos + Header \in 0 .. Len(buffer)
    BY <1>7, Numbers, Constants DEF NextHeader, HeaderReady
  <2>2. UNCHANGED <<frames, wire, first>>
    BY <1>7 DEF NextHeader
  <2>3. CASE refused
    <3>1. /\ parse_failed' = TRUE /\ bin_message_command' = 0 /\ bin_message_size' = 0
          /\ Nothing(IF h.ok THEN buffer_pos + Header ELSE buffer_pos)
      BY <1>7, <2>3 DEF NextHeader
    <3> HIDE DEF h, refused
    <3>2. CASE h.ok
      BY <2>1, <2>2, <3>1, <3>2, NothingTypes
    <3>3. CASE ~ h.ok
      BY <1>3, <2>2, <3>1, <3>3, NothingTypes
    <3> QED
      BY <3>2, <3>3
  <2>4. CASE ~ refused
    <3>1. /\ parse_failed' = FALSE /\ bin_message_command' = h.fr.command
          /\ PayloadOrNothing(buffer_pos + Header, h.fr.size, h.fr.command)
      BY <1>7, <2>4 DEF NextHeader
    <3>2. h.fr.size \in Sizes /\ h.fr.command \in Commands
      BY <2>4, GoodHeaderIs
    <3> HIDE DEF h, refused
    <3>3. /\ h.fr.size \in Nat /\ h.fr.size < Modulus /\ h.fr.command \in Nat
          /\ bin_message_command' \in Commands \union {0}
      BY <3>1, <3>2, Constants
    <3> QED
      BY <2>1, <2>2, <3>1, <3>3, PayloadTypes
  <2> QED
    BY <2>3, <2>4
<1>8. CASE Clear
  BY <1>8, Numbers, Constants DEF Clear, TypeInv, TypeOK
<1>9. CASE UNCHANGED vars
  BY <1>9 DEF vars, TypeInv, TypeOK
<1> QED
  BY <1>1, <1>2, <1>4, <1>5, <1>6, <1>7, <1>8, <1>9 DEF Next, NextMessage

-----------------------------------------------------------------------------
(* The rest of the invariant *)

\* The parser begins with nothing.
LEMMA InitIInv == Init => IInv
<1> SUFFICES ASSUME Init PROVE IInv
  OBVIOUS
<1> USE DEF Init
<1>1. /\ Len(buffer) = 0 /\ Len(wire) = 0 /\ Len(frames) = 0 /\ Len(delivered) = 0
      /\ buffer \in Seq(Bytes) /\ wire \in Seq(Bytes)
      /\ frames \in Seq([size : Sizes, command : Commands, intact : BOOLEAN])
      /\ delivered \in Seq(Messages)
  OBVIOUS
<1>2. TypeInv
  <2>1. TypeOK
    <3>1. Len(buffer) <= BufferSize /\ buffer_pos \in 0 .. Len(buffer)
      BY <1>1, Constants
    <3>2. 0 \in 0 .. Modulus - 1
      BY Constants
    <3>3. first \in 1 .. Len(frames) + 1
      BY <1>1
    <3> QED
      BY <3>1, <3>2, <3>3 DEF TypeOK
  <2> QED
    BY <1>1, <2>1 DEF TypeInv
<1>3. StreamInv
  <2> DEFINE e == [f \in Nat |-> 0]
  <2>1. e \in Places /\ \A f \in Nat : e[f] = 0
    BY DEF Places
  <2>2. Cur = 1 /\ Skipped = 0
    BY <1>1 DEF Cur, Skipped
  <2> HIDE DEF e
  <2>3. Laid(e, buffer_pos, Skipped)
    BY <1>1, <2>1, <2>2 DEF Laid
  <2> QED
    BY <2>1, <2>3 DEF StreamInv
<1>4. AwaitInv /\ DeliversFramesInOrder
  BY <1>1 DEF AwaitInv, DeliversFramesInOrder
<1>5. SettledInv
  BY <1>1, Constants DEF SettledInv
<1> QED
  BY <1>2, <1>3, <1>4, <1>5 DEF IInv

\* What was delivered stays what it is.
LEMMA DeliveredStays ==
  ASSUME TypeInv, DeliversFramesInOrder, UNCHANGED <<first, delivered>>,
         Len(frames') \in Nat, Len(frames) <= Len(frames'),
         \A f \in 1 .. Len(frames) : frames'[f] = frames[f]
  PROVE  DeliversFramesInOrder'
<1> SUFFICES ASSUME NEW k \in 1 .. Len(delivered), NEW f, f = first + k - 1
             PROVE  /\ f <= Len(frames')
                    /\ \A g \in first .. f : Acceptable(frames'[g])
                    /\ delivered[k] = MessageOf(f)'
  BY DEF DeliversFramesInOrder
<1>1. /\ f <= Len(frames) /\ delivered[k] = MessageOf(f)
      /\ \A g \in first .. f : Acceptable(frames[g])
  BY DEF DeliversFramesInOrder
<1>2. first \in Nat /\ 1 <= first /\ Len(frames) \in Nat /\ f \in Nat /\ 1 <= f
  BY Numbers
<1>3. \A g \in first .. f : frames'[g] = frames[g]
  BY <1>1, <1>2
<1>4. frames'[f] = frames[f]
  BY <1>1, <1>2
<1>5. MessageOf(f)' = MessageOf(f)
  BY <1>4 DEF MessageOf
<1> QED
  BY <1>1, <1>2, <1>3, <1>5

\* The message of the current frame is the next one in order.
LEMMA DeliveredMore ==
  ASSUME TypeInv, DeliversFramesInOrder, UNCHANGED <<frames, first>>,
         Cur \in 1 .. Len(frames), Acceptable(frames[Cur]),
         NEW m \in Messages, m = MessageOf(Cur), delivered' = Append(delivered, m)
  PROVE  DeliversFramesInOrder'
<1>1. /\ Len(delivered) \in Nat /\ Len(frames) \in Nat
      /\ first \in Nat /\ 1 <= first /\ Cur = first + Len(delivered)
  BY Numbers DEF Cur
<1>2. /\ Len(delivered') = Len(delivered) + 1 /\ delivered'[Len(delivered) + 1] = m
      /\ \A k \in 1 .. Len(delivered) : delivered'[k] = delivered[k]
  BY AppendProperties DEF TypeInv
<1>3. \A f : MessageOf(f)' = MessageOf(f)
  BY DEF MessageOf
<1>4. \A g \in first .. Cur - 1 : Acceptable(frames[g])
  <2> SUFFICES ASSUME NEW g \in first .. Cur - 1 PROVE Acceptable(frames[g])
    OBVIOUS
  <2>1. Len(delivered) \in 1 .. Len(delivered) /\ first + Len(delivered) - 1 = Cur - 1
    BY <1>1
  <2> QED
    BY <2>1 DEF DeliversFramesInOrder
<1> SUFFICES ASSUME NEW k \in 1 .. Len(delivered'), NEW f, f = first + k - 1
             PROVE  /\ f <= Len(frames)
                    /\ \A g \in first .. f : Acceptable(frames[g])
                    /\ delivered'[k] = MessageOf(f)
  BY <1>3 DEF DeliversFramesInOrder
<1>5. CASE k \in 1 .. Len(delivered)
  BY <1>2, <1>5 DEF DeliversFramesInOrder
<1>6. CASE k \notin 1 .. Len(delivered)
  <2>1. k = Len(delivered) + 1 /\ f = Cur
    BY <1>1, <1>2, <1>6
  <2>2. \A g \in first .. f : g = Cur \/ g \in first .. Cur - 1
    BY <1>1, <2>1
  <2> QED
    BY <1>1, <1>2, <1>4, <2>1, <2>2
<1> QED
  BY <1>5, <1>6

\* The header of the current frame is taken off: its payload is returned or
\* awaited.
LEMMA PayloadStep ==
  ASSUME TypeInv, TypeInv', DeliversFramesInOrder,
         NEW pos \in 0 .. Len(buffer), NEW e \in Places, Laid(e, pos, Header),
         Cur \in 1 .. Len(frames), Acceptable(frames[Cur]),
         NEW size, size = frames[Cur].size, NEW command, command = frames[Cur].command,
         PayloadOrNothing(pos, size, command),
         bin_message_command' = command, UNCHANGED <<frames, wire, first>>
  PROVE  IInv'
<1>1. /\ pos \in Nat /\ pos <= Len(buffer) /\ Len(buffer) \in Nat
      /\ Len(buffer) <= BufferSize /\ Header \in Nat
      /\ size \in Nat /\ size + Header <= BufferSize
  BY Numbers, Constants, CurrentIs DEF Acceptable
<1>2. u32(pos + size) = pos + size /\ pos + size \in Nat
  <2>1. pos + size \in Nat /\ pos + size < Modulus
    BY <1>1, Constants
  <2> QED
    BY <2>1, Wraps
<1>3. CASE pos + size <= Len(buffer)
  <2> DEFINE m == [size |-> size, command |-> command,
                   data |-> SubSeq(buffer, pos + 1, pos + size)]
  <2>1. /\ delivered' = Append(delivered, m)
        /\ draining' = (command # 0) /\ buffer_pos' = pos + size
        /\ bin_message_size' = 0 /\ buffer' = buffer
    <3>1. InBuffer(pos + size) = pos + size
      BY <1>1, <1>3 DEF InBuffer
    <3> QED
      BY <1>2, <1>3, <3>1 DEF PayloadOrNothing
  <2>2. m = MessageOf(Cur) /\ m \in Messages
    <3>1. /\ SubSeq(buffer, pos + 1, pos + size) = MessageOf(Cur).data
          /\ SubSeq(buffer, pos + 1, pos + size) \in Seq(Bytes)
      BY <1>1, <1>3, MessageThere
    <3>2. command \in Nat
      BY FrameIs
    <3> QED
      BY <1>1, <3>1, <3>2 DEF MessageOf, Messages
  <2> HIDE DEF m
  <2>3. DeliversFramesInOrder'
    BY <2>1, <2>2, DeliveredMore
  <2>4. StreamInv'
    <3>1. Laid(e, pos + size, 0)'
      <4>1. pos + size \in Nat
        BY <1>1
      <4> QED
        BY <1>1, <2>1, <4>1, Returned
    <3>2. Skipped' = 0 /\ buffer_pos' = pos + size
      BY <2>1 DEF Skipped
    <3> QED
      BY <3>1, <3>2 DEF StreamInv, Laid
  <2>5. AwaitInv'
    BY <2>1 DEF AwaitInv
  <2>6. SettledInv'
    <3>1. /\ Len(delivered') = Len(delivered) + 1
          /\ delivered'[Len(delivered) + 1] = m /\ Len(delivered) \in Nat
      BY <2>1, <2>2, AppendProperties DEF TypeInv
    <3>2. delivered' # <<>> /\ Last(delivered') = m
      BY <3>1 DEF Last
    <3>3. m.command = command
      BY DEF m
    <3> QED
      BY <2>1, <3>2, <3>3 DEF SettledInv, Drained
  <2> QED
    BY <2>3, <2>4, <2>5, <2>6 DEF IInv
<1>4. CASE ~ (pos + size <= Len(buffer))
  <2>1. /\ Moved(pos) /\ buffer_pos' = 0 /\ draining' = FALSE /\ delivered' = delivered
        /\ bin_message_size' = size
    BY <1>2, <1>4 DEF PayloadOrNothing, Nothing, Moved
  <2>2. size > 0
    BY <1>1, <1>4
  <2>3. Len(buffer') = Len(buffer) - pos /\ \E d \in Places : Laid(d, 0, Header)'
    BY <1>1, <2>1, Compacted
  <2>4. StreamInv'
    <3>1. Skipped' = Header
      BY <2>1, <2>2 DEF Skipped
    <3> QED
      BY <2>1, <2>3, <3>1 DEF StreamInv, Laid
  <2>5. Cur' = Cur
    BY <2>1 DEF Cur
  <2>6. AwaitInv'
    BY <2>1, <2>5, Numbers DEF AwaitInv
  <2>7. DeliversFramesInOrder'
    BY <2>1, Numbers, DeliveredStays
  <2>8. SettledInv'
    <3>1. Len(buffer') < size
      BY <1>1, <1>4, <2>3
    <3> QED
      BY <2>1, <2>2, <3>1 DEF SettledInv
  <2> QED
    BY <2>4, <2>6, <2>7, <2>8 DEF IInv
<1> QED
  BY <1>3, <1>4

\* Every byte of a frame from the current one on lies before the end.
LEMMA BytesLie ==
  ASSUME TypeInv, NEW pos \in Nat, NEW skip, NEW e \in Places, Laid(e, pos, skip),
         NEW f \in Cur .. Len(frames), NEW i \in 1 .. Size(f)
  PROVE  /\ e[f - 1] + i \in Int /\ e[f - 1] + i <= Len(buffer) + Len(wire)
         /\ e[f - 1] \in Int /\ f \in Nat /\ f - 1 \in Nat
<1>1. /\ f \in Nat /\ f - 1 \in Nat /\ f \in 1 .. Len(frames) /\ Len(frames) \in Nat
      /\ f \in Cur - 1 .. Len(frames) /\ Len(frames) \in Cur - 1 .. Len(frames)
      /\ f <= Len(frames)
  BY Numbers
<1>2. /\ e[f - 1] \in Int /\ e[f] \in Int /\ e[Len(frames)] \in Int /\ Size(f) \in Nat
      /\ i \in Nat /\ i <= Size(f)
  BY <1>1, FrameIs DEF Places
<1>3. e[f] = e[f - 1] + Size(f) /\ e[f] <= e[Len(frames)]
      /\ e[Len(frames)] = Len(buffer) + Len(wire)
  BY <1>1 DEF Laid
<1>4. e[f - 1] + i <= e[f]
  BY <1>2, <1>3
<1> QED
  BY <1>1, <1>2, <1>3, <1>4

\* A frame that is sent ends where the wire ends.
LEMMA SendStep ==
  ASSUME IInv, NEW size \in Sizes, NEW command \in Commands, NEW intact \in BOOLEAN,
         Send(size, command, intact)
  PROVE  IInv'
<1>0. PICK new : new = Len(frames) + 1
  OBVIOUS
<1>1. TypeInv /\ DeliversFramesInOrder
  BY DEF IInv
<1>2. /\ Len(frames) \in Nat /\ Len(buffer) \in Nat /\ Len(wire) \in Nat
      /\ Cur \in Nat /\ Cur - 1 \in Nat /\ buffer_pos \in Nat
      /\ new \in Nat /\ new = Len(frames) + 1
  BY <1>0, <1>1, Numbers
<1>3. UNCHANGED <<state, parse_failed, draining, first, delivered>>
  BY DEF Send
<1>4. PICK sz \in Nat :
         /\ TypeInv' /\ Len(frames') = new
         /\ \A f \in 1 .. Len(frames) : frames'[f] = frames[f] /\ Size(f)' = Size(f)
         /\ \A f : f = new => Size(f)' = sz
         /\ Len(wire') = Len(wire) + sz
         /\ \A i \in 1 .. Len(wire) : wire'[i] = wire[i]
         /\ \A i \in 1 .. sz : wire'[Len(wire) + i] = [frame |-> new, at |-> i]
  <2>1. PICK sz : sz = Size(new)'
    OBVIOUS
  <2>2. \A f : f = new => Size(f)' = sz
    BY <2>1
  <2> QED
    BY <1>0, <1>1, <2>1, <2>2, Sent
<1>5. Cur' = Cur /\ Skipped' = Skipped
  BY <1>3 DEF Cur, Skipped
<1>6. StreamInv'
  <2> SUFFICES ASSUME ~ parse_failed
               PROVE  \E d \in Places : Laid(d, buffer_pos, Skipped)'
    BY <1>3 DEF StreamInv
  <2>1. PICK e \in Places : Laid(e, buffer_pos, Skipped)
    BY DEF IInv, StreamInv
  <2>2. \A f \in Nat : e[f] \in Int
    BY DEF Places
  <2>3. PICK d \in Places : /\ d[new] = e[Len(frames)] + sz
                            /\ \A f \in Nat : f # new => d[f] = e[f]
    <3> DEFINE d == [f \in Nat |-> IF f = new THEN e[Len(frames)] + sz ELSE e[f]]
    <3>1. d \in Places
      BY <1>2, <2>2 DEF Places
    <3>2. d[new] = e[Len(frames)] + sz /\ \A f \in Nat : f # new => d[f] = e[f]
      BY <1>2
    <3> QED
      BY <3>1, <3>2
  <2>4. d[Cur - 1] + Skipped = buffer_pos /\ Cur <= new + 1
    <3>1. e[Cur - 1] + Skipped = buffer_pos /\ Cur <= Len(frames) + 1
      BY <2>1 DEF Laid
    <3>2. Cur - 1 # new
      BY <1>2, <3>1
    <3> QED
      BY <1>2, <2>3, <3>1, <3>2
  <2>5. d[new] = Len(buffer) + Len(wire')
    <3>1. e[Len(frames)] = Len(buffer) + Len(wire)
      BY <2>1 DEF Laid
    <3> QED
      BY <1>2, <1>4, <2>3, <3>1
  <2>6. ASSUME NEW f \in Cur .. new
        PROVE  d[f] = d[f - 1] + Size(f)'
    <3>1. CASE f = new
      <4>1. f - 1 = Len(frames) /\ d[f - 1] = e[Len(frames)]
        BY <1>2, <2>3, <3>1
      <4> QED
        BY <1>4, <2>3, <3>1, <4>1
    <3>2. CASE f # new
      <4>1. f \in Cur .. Len(frames) /\ f \in 1 .. Len(frames) /\ f - 1 \in Nat
            /\ f - 1 # new /\ f \in Nat
        BY <1>1, <1>2, <3>2, Numbers
      <4>2. e[f] = e[f - 1] + Size(f)
        BY <2>1, <4>1 DEF Laid
      <4> QED
        BY <1>4, <2>3, <3>2, <4>1, <4>2
    <3> QED
      BY <3>1, <3>2
  <2>7. ASSUME NEW f \in Cur - 1 .. new, NEW g \in Cur - 1 .. new, f <= g
        PROVE  d[f] <= d[g]
    <3>1. CASE g # new
      <4>1. f \in Cur - 1 .. Len(frames) /\ g \in Cur - 1 .. Len(frames)
            /\ f # new /\ f \in Nat /\ g \in Nat
        BY <1>2, <2>7, <3>1
      <4> QED
        BY <2>1, <2>3, <2>7, <3>1, <4>1 DEF Laid
    <3>2. CASE g = new /\ f = new
      BY <1>2, <2>2, <2>3, <3>2
    <3>3. CASE g = new /\ f # new
      <4>1. f \in Cur - 1 .. Len(frames) /\ Len(frames) \in Cur - 1 .. Len(frames)
            /\ f \in Nat /\ f <= Len(frames)
        BY <1>2, <2>7, <3>3
      <4>2. e[f] <= e[Len(frames)]
        BY <2>1, <4>1 DEF Laid
      <4> QED
        BY <1>2, <2>2, <2>3, <3>3, <4>1, <4>2
    <3> QED
      BY <3>1, <3>2, <3>3
  <2>8. ASSUME NEW f \in Cur .. new, NEW i \in 1 .. Size(f)', d[f - 1] + i > buffer_pos
        PROVE  ByteAt(d[f - 1] + i)' = [frame |-> f, at |-> i]
    <3>1. CASE f = new
      <4>1. d[f - 1] = Len(buffer) + Len(wire) /\ i \in 1 .. sz /\ i \in Nat /\ 0 < i
        <5>1. f - 1 = Len(frames) /\ d[f - 1] = e[Len(frames)]
          BY <1>2, <2>3, <3>1
        <5>2. i \in 1 .. sz
          BY <1>4, <3>1
        <5> QED
          BY <2>1, <5>1, <5>2 DEF Laid
      <4>2. /\ ~ (d[f - 1] + i <= Len(buffer'))
            /\ (d[f - 1] + i) - Len(buffer') = Len(wire) + i
        BY <1>2, <1>3, <4>1
      <4>3. wire'[Len(wire) + i] = [frame |-> f, at |-> i]
        BY <1>4, <3>1, <4>1
      <4> QED
        BY <4>2, <4>3 DEF ByteAt
    <3>2. CASE f # new
      <4>1. f \in Cur .. Len(frames) /\ f \in 1 .. Len(frames) /\ f - 1 \in Nat
            /\ f - 1 # new
        BY <1>1, <1>2, <3>2, Numbers
      <4>2. i \in 1 .. Size(f) /\ d[f - 1] = e[f - 1]
        BY <1>4, <2>3, <4>1
      <4>3. e[f - 1] + i \in Int /\ e[f - 1] + i <= Len(buffer) + Len(wire)
        BY <1>1, <1>2, <2>1, <4>1, <4>2, BytesLie
      <4>4. ByteAt(e[f - 1] + i) = [frame |-> f, at |-> i]
        BY <2>1, <2>8, <4>1, <4>2 DEF Laid
      <4>5. e[f - 1] + i > Len(buffer) => (e[f - 1] + i) - Len(buffer) \in 1 .. Len(wire)
        BY <1>2, <4>3
      <4>6. ByteAt(e[f - 1] + i)' = ByteAt(e[f - 1] + i)
        BY <1>2, <1>3, <1>4, <4>3, <4>5 DEF ByteAt
      <4> QED
        BY <4>2, <4>4, <4>6
    <3> QED
      BY <3>1, <3>2
  <2>9. Laid(d, buffer_pos, Skipped)'
    BY <1>3, <1>4, <1>5, <2>4, <2>5, <2>6, <2>7, <2>8 DEF Laid
  <2> QED
    BY <2>3, <2>9
<1>7. AwaitInv'
  <2> SUFFICES ASSUME ~ parse_failed, bin_message_size > 0
               PROVE  /\ Cur <= Len(frames')
                      /\ frames'[Cur].size = bin_message_size
                      /\ frames'[Cur].command = bin_message_command
                      /\ Acceptable(frames'[Cur])
    BY <1>3, <1>5 DEF AwaitInv
  <2>1. /\ Cur <= Len(frames) /\ frames[Cur].size = bin_message_size
        /\ frames[Cur].command = bin_message_command /\ Acceptable(frames[Cur])
    BY DEF IInv, AwaitInv
  <2>2. frames'[Cur] = frames[Cur] /\ Cur <= Len(frames')
    BY <1>1, <1>2, <1>4, <2>1, Numbers
  <2> QED
    BY <2>1, <2>2
<1>8. DeliversFramesInOrder'
  BY <1>1, <1>2, <1>3, <1>4, DeliveredStays
<1>9. SettledInv'
  BY <1>3 DEF IInv, SettledInv, Drained
<1> QED
  BY <1>4, <1>6, <1>7, <1>8, <1>9 DEF IInv

\* Bytes that are appended keep their places.
LEMMA AppendStep ==
  ASSUME IInv, NEW n \in 1 .. BufferSize + 1, AppendBytes(n)
  PROVE  IInv'
<1>1. /\ TypeInv /\ DeliversFramesInOrder /\ TypeInv' /\ n \in 1 .. Len(wire)
      /\ \/ parse_failed' = TRUE
         \/ /\ parse_failed' = parse_failed
            /\ Len(buffer') = Len(buffer) + n /\ Len(wire') = Len(wire) - n
            /\ \A i \in 1 .. Len(buffer) : buffer'[i] = buffer[i]
            /\ \A i \in 1 .. n : buffer'[Len(buffer) + i] = wire[i]
            /\ \A i \in 1 .. Len(wire) - n : wire'[i] = wire[n + i]
  BY Appended DEF IInv
<1>2. /\ draining' = TRUE
      /\ UNCHANGED <<buffer_pos, bin_message_size, bin_message_command, frames, first,
                     delivered>>
  BY DEF AppendBytes
<1>3. DeliversFramesInOrder'
  BY <1>1, <1>2, Numbers, DeliveredStays
<1>4. SettledInv'
  BY <1>2 DEF SettledInv, Drained
<1>5. CASE parse_failed'
  BY <1>1, <1>3, <1>4, <1>5 DEF IInv, StreamInv, AwaitInv
<1>6. CASE ~ parse_failed'
  <2>1. /\ ~ parse_failed
        /\ Len(buffer') = Len(buffer) + n /\ Len(wire') = Len(wire) - n
        /\ \A i \in 1 .. Len(buffer) : buffer'[i] = buffer[i]
        /\ \A i \in 1 .. n : buffer'[Len(buffer) + i] = wire[i]
        /\ \A i \in 1 .. Len(wire) - n : wire'[i] = wire[n + i]
    BY <1>1, <1>6
  <2>2. /\ Len(buffer) \in Nat /\ Len(wire) \in Nat /\ buffer_pos \in Nat
        /\ n \in Nat /\ 1 <= n /\ n <= Len(wire)
    BY <1>1, Numbers
  <2>3. Cur' = Cur /\ Skipped' = Skipped /\ \A f : Size(f)' = Size(f)
    BY <1>2 DEF Cur, Skipped, Size
  <2>4. AwaitInv'
    BY <1>2, <2>1, <2>3 DEF IInv, AwaitInv
  <2>5. ASSUME NEW p \in Int, 0 < p, p <= Len(buffer) + Len(wire)
        PROVE  ByteAt(p)' = ByteAt(p)
    <3>1. CASE p <= Len(buffer)
      <4>1. p \in 1 .. Len(buffer) /\ p <= Len(buffer')
        BY <2>1, <2>2, <2>5, <3>1
      <4> QED
        BY <2>1, <3>1, <4>1 DEF ByteAt
    <3>2. CASE ~ (p <= Len(buffer)) /\ p <= Len(buffer) + n
      <4>1. p - Len(buffer) \in 1 .. n /\ p = Len(buffer) + (p - Len(buffer))
            /\ p <= Len(buffer')
        BY <2>1, <2>2, <3>2
      <4>2. buffer'[p] = wire[p - Len(buffer)]
        BY <2>1, <4>1
      <4> QED
        BY <3>2, <4>1, <4>2 DEF ByteAt
    <3>3. CASE ~ (p <= Len(buffer) + n)
      <4>1. /\ p - Len(buffer') \in 1 .. Len(wire) - n
            /\ n + (p - Len(buffer')) = p - Len(buffer)
            /\ ~ (p <= Len(buffer)) /\ ~ (p <= Len(buffer'))
        BY <2>1, <2>2, <2>5, <3>3
      <4>2. wire'[p - Len(buffer')] = wire[p - Len(buffer)]
        BY <2>1, <4>1
      <4> QED
        BY <4>1, <4>2 DEF ByteAt
    <3> QED
      BY <3>1, <3>2, <3>3
  <2>6. PICK e \in Places : Laid(e, buffer_pos, Skipped)
    BY <2>1 DEF IInv, StreamInv
  <2>7. ASSUME NEW f \in Cur .. Len(frames), NEW i \in 1 .. Size(f), e[f - 1] + i > buffer_pos
        PROVE  ByteAt(e[f - 1] + i)' = [frame |-> f, at |-> i]
    <3>1. e[f - 1] + i \in Int /\ e[f - 1] + i <= Len(buffer) + Len(wire)
      BY <1>1, <2>2, <2>6, BytesLie
    <3>2. ByteAt(e[f - 1] + i) = [frame |-> f, at |-> i]
      BY <2>6, <2>7 DEF Laid
    <3>3. 0 < e[f - 1] + i
      BY <2>2, <2>7, <3>1
    <3> QED
      BY <2>5, <3>1, <3>2, <3>3
  <2>8. Len(buffer') + Len(wire') = Len(buffer) + Len(wire)
    BY <2>1, <2>2
  <2>9. Laid(e, buffer_pos, Skipped)'
    BY <1>2, <2>3, <2>6, <2>7, <2>8 DEF Laid
  <2> QED
    BY <1>1, <1>3, <1>4, <2>4, <2>9 DEF IInv, StreamInv
<1> QED
  BY <1>5, <1>6

\* A failed parser returns nothing.
LEMMA NextFailedStep == ASSUME IInv, NextFailed PROVE IInv'
<1>1. TypeInv'
  BY TypeStep DEF IInv, Next, NextMessage
<1>2. DeliversFramesInOrder'
  BY Numbers, DeliveredStays DEF IInv, NextFailed
<1> QED
  BY <1>1, <1>2 DEF NextFailed, IInv, StreamInv, AwaitInv, SettledInv, Drained

\* After a Clear the parser waits for the frames that are sent from now on.
LEMMA ClearStep == ASSUME IInv, Clear PROVE IInv'
<1>1. TypeInv'
  BY TypeStep DEF IInv, Next
<1>2. Len(frames) \in Nat /\ Len(buffer') = 0 /\ Len(wire') = 0 /\ Len(delivered') = 0
  BY Numbers DEF IInv, Clear
<1>3. Cur' = Len(frames) + 1 /\ Skipped' = 0
  BY <1>2 DEF Clear, Cur, Skipped
<1>4. StreamInv'
  <2>1. PICK e \in Places : \A f \in Nat : e[f] = 0
    <3> DEFINE e == [f \in Nat |-> 0]
    <3>1. e \in Places /\ \A f \in Nat : e[f] = 0
      BY DEF Places
    <3> QED
      BY <3>1
  <2>2. e[Cur' - 1] + 0 = 0 /\ e[Len(frames)] = 0 + 0
    BY <1>2, <1>3, <2>1
  <2>3. \A f \in Cur' .. Len(frames) : FALSE
    BY <1>2, <1>3
  <2>4. \A f, g \in Cur' - 1 .. Len(frames) : f <= g => e[f] <= e[g]
    <3> SUFFICES ASSUME NEW f \in Cur' - 1 .. Len(frames), NEW g \in Cur' - 1 .. Len(frames)
                 PROVE  e[f] <= e[g]
      OBVIOUS
    <3>1. f \in Nat /\ g \in Nat
      BY <1>2, <1>3
    <3>2. e[f] = 0 /\ e[g] = 0
      BY <2>1, <3>1
    <3> QED
      BY <3>2
  <2>5. Laid(e, buffer_pos, Skipped)'
    BY <1>2, <1>3, <2>2, <2>3, <2>4 DEF Clear, Laid
  <2> QED
    BY <2>5 DEF StreamInv
<1>5. AwaitInv' /\ DeliversFramesInOrder'
  BY <1>2 DEF Clear, AwaitInv, DeliversFramesInOrder
<1>6. SettledInv'
  BY <1>2, Constants DEF Clear, SettledInv
<1> QED
  BY <1>1, <1>4, <1>5, <1>6 DEF IInv

\* The payload awaited has come, or not yet.
LEMMA NextAwaitedStep == ASSUME IInv, NextAwaited PROVE IInv'
<1>1. TypeInv /\ TypeInv' /\ DeliversFramesInOrder
  BY TypeStep DEF IInv, Next, NextMessage
<1>2. /\ Cur <= Len(frames) /\ frames[Cur].size = bin_message_size
      /\ frames[Cur].command = bin_message_command /\ Acceptable(frames[Cur])
  BY DEF IInv, AwaitInv, NextAwaited
<1>3. Cur \in 1 .. Len(frames) /\ buffer_pos \in 0 .. Len(buffer)
  BY <1>1, <1>2, Numbers
<1>4. PICK e \in Places : Laid(e, buffer_pos, Header)
  BY DEF IInv, StreamInv, Skipped, NextAwaited
<1>5. /\ PayloadOrNothing(buffer_pos, bin_message_size, bin_message_command)
      /\ bin_message_command' = bin_message_command
      /\ UNCHANGED <<frames, wire, first>>
  BY DEF NextAwaited
<1> QED
  BY <1>1, <1>2, <1>3, <1>4, <1>5, PayloadStep

\* A part of a header is moved to the start of the buffer.
LEMMA NextNoHeaderStep == ASSUME IInv, NextNoHeader PROVE IInv'
<1>1. TypeInv /\ TypeInv' /\ DeliversFramesInOrder
  BY TypeStep DEF IInv, Next, NextMessage
<1>2. /\ Moved(buffer_pos) /\ buffer_pos' = 0 /\ delivered' = delivered
      /\ bin_message_size' = 0 /\ bin_message_size = 0 /\ parse_failed' = parse_failed
      /\ ~ parse_failed /\ ~ HeaderReady
      /\ UNCHANGED <<frames, wire, first>>
  BY DEF NextNoHeader, Nothing, Moved
<1>3. PICK e \in Places : Laid(e, buffer_pos, 0)
  BY <1>2 DEF IInv, StreamInv, Skipped
<1>4. Len(buffer') = Len(buffer) - buffer_pos /\ \E d \in Places : Laid(d, 0, 0)'
  <2>1. buffer_pos \in 0 .. Len(buffer)
    BY <1>1, Numbers
  <2> QED
    BY <1>1, <1>2, <1>3, <2>1, Compacted
<1>5. StreamInv'
  <2>1. Skipped' = 0
    BY <1>2 DEF Skipped
  <2> QED
    BY <1>2, <1>4, <2>1 DEF StreamInv, Laid
<1>6. AwaitInv'
  BY <1>2 DEF AwaitInv
<1>7. DeliversFramesInOrder'
  BY <1>1, <1>2, Numbers, DeliveredStays
<1>8. SettledInv'
  <2>1. Len(buffer') < Header
    BY <1>1, <1>2, <1>4, Numbers, Constants DEF HeaderReady
  <2> QED
    BY <1>2, <2>1 DEF SettledInv
<1> QED
  BY <1>1, <1>5, <1>6, <1>7, <1>8 DEF IInv

\* The check word tells whether the current frame is intact; where it is, the
\* header read is the current frame's.
LEMMA HeaderIs ==
  ASSUME IInv, ~ parse_failed, bin_message_size = 0, HeaderReady
  PROVE  /\ Cur \in 1 .. Len(frames) /\ buffer_pos + Header \in 0 .. Len(buffer)
         /\ ParseHeader(buffer_pos).ok <=> frames[Cur].intact
         /\ ParseHeader(buffer_pos).fr = frames[Cur]
         /\ \E e \in Places : Laid(e, buffer_pos + Header, Header)
<1>1. TypeInv
  BY DEF IInv
<1>2. /\ buffer_pos \in 0 .. Len(buffer) /\ Len(buffer) - buffer_pos >= Header
      /\ buffer_pos + Header \in 0 .. Len(buffer)
  BY <1>1, Numbers, Constants DEF HeaderReady
<1>3. PICK e \in Places : Laid(e, buffer_pos, 0)
  BY DEF IInv, StreamInv, Skipped
<1>4. /\ Cur \in 1 .. Len(frames)
      /\ \A i \in 1 .. Header : buffer[buffer_pos + i] = [frame |-> Cur, at |-> i]
      /\ Laid(e, buffer_pos + Header, Header)
  BY <1>1, <1>2, <1>3, HeaderThere
<1>5. buffer[buffer_pos + 1].frame = Cur
  <2>1. buffer[buffer_pos + 1] = [frame |-> Cur, at |-> 1]
    BY <1>4, Constants
  <2> QED
    BY <2>1
<1>6. GoodHeaderAt(buffer_pos) <=> frames[Cur].intact
  <2>1. ASSUME GoodHeaderAt(buffer_pos) PROVE frames[Cur].intact
    <3>1. PICK f \in 1 .. Len(frames) :
            /\ frames[f].intact
            /\ \A i \in 1 .. Header : buffer[buffer_pos + i] = [frame |-> f, at |-> i]
      BY <2>1 DEF GoodHeaderAt
    <3>2. buffer[buffer_pos + 1] = [frame |-> f, at |-> 1]
      BY <3>1, Constants
    <3>3. f = Cur
      BY <1>5, <3>2
    <3> QED
      BY <3>1, <3>3
  <2>2. ASSUME frames[Cur].intact PROVE GoodHeaderAt(buffer_pos)
    BY <1>4, <2>2 DEF GoodHeaderAt
  <2> QED
    BY <2>1, <2>2
<1> QED
  BY <1>2, <1>4, <1>5, <1>6 DEF ParseHeader

\* A header is refused exactly where the frame is damaged or too large.
LEMMA RefusedIs ==
  ASSUME NoWrap, IInv, ~ parse_failed, bin_message_size = 0, HeaderReady
  PROVE  (~ ParseHeader(buffer_pos).ok \/ TooBig(ParseHeader(buffer_pos).fr.size))
           <=> ~ Acceptable(frames[Cur])
<1>1. /\ Cur \in 1 .. Len(frames) /\ ParseHeader(buffer_pos).fr = frames[Cur]
      /\ ParseHeader(buffer_pos).ok <=> frames[Cur].intact
  BY HeaderIs
<1>2. frames[Cur].size \in Sizes /\ frames[Cur].size \in Nat
  BY <1>1, FrameIs DEF IInv
<1>3. frames[Cur].size + Header \in Nat /\ frames[Cur].size + Header < Modulus
  BY <1>2, Constants DEF NoWrap
<1>4. u32(frames[Cur].size + Header) = frames[Cur].size + Header
  BY <1>3, Wraps
<1>5. TooBig(frames[Cur].size) <=> ~ (frames[Cur].size + Header <= BufferSize)
  BY <1>3, <1>4, Constants DEF TooBig
<1> QED
  BY <1>1, <1>5 DEF Acceptable

\* A header is read: the frame is accepted, or the parser has failed.
LEMMA NextHeaderStep ==
  ASSUME NoWrap, IInv, NextHeader
  PROVE  /\ IInv'
         /\ parse_failed' => ~ Acceptable(frames[Cur])
         /\ Cur \in 1 .. Len(frames)
<1> DEFINE h == ParseHeader(buffer_pos)
           refused == ~ h.ok \/ TooBig(h.fr.size)
<1>1. TypeInv /\ TypeInv' /\ DeliversFramesInOrder
  BY TypeStep DEF IInv, Next, NextMessage
<1>2. /\ ~ parse_failed /\ bin_message_size = 0 /\ HeaderReady
      /\ parse_failed' = refused /\ UNCHANGED <<frames, wire, first>>
  BY DEF NextHeader
<1>3. /\ Cur \in 1 .. Len(frames) /\ buffer_pos + Header \in 0 .. Len(buffer)
      /\ h.fr = frames[Cur]
      /\ refused <=> ~ Acceptable(frames[Cur])
  BY <1>2, HeaderIs, RefusedIs
<1>4. CASE refused
  <2>1. parse_failed' /\ delivered' = delivered
    BY <1>2, <1>4 DEF NextHeader, Nothing
  <2>2. DeliversFramesInOrder'
    BY <1>1, <1>2, <2>1, Numbers, DeliveredStays
  <2>3. StreamInv' /\ AwaitInv' /\ SettledInv'
    BY <2>1 DEF StreamInv, AwaitInv, SettledInv, Drained
  <2>4. IInv'
    BY <1>1, <2>2, <2>3 DEF IInv
  <2>5. Cur \in 1 .. Len(frames) /\ ~ Acceptable(frames[Cur])
    BY <1>3, <1>4
  <2> QED
    BY <2>4, <2>5
<1>5. CASE ~ refused
  <2>1. PICK pos, size, command :
          /\ pos = buffer_pos + Header
          /\ size = frames[Cur].size /\ command = frames[Cur].command
    OBVIOUS
  <2>2. /\ PayloadOrNothing(buffer_pos + Header, h.fr.size, h.fr.command)
        /\ bin_message_command' = h.fr.command
    BY <1>5 DEF NextHeader
  <2>3. PICK e \in Places : Laid(e, buffer_pos + Header, Header)
    BY <1>2, HeaderIs
  <2> HIDE DEF h, refused
  <2>4. /\ PayloadOrNothing(pos, size, command)
        /\ bin_message_command' = command
    BY <1>3, <2>1, <2>2
  <2>5. Laid(e, pos, Header) /\ pos \in 0 .. Len(buffer)
    BY <1>3, <2>1, <2>3
  <2>6. Cur \in 1 .. Len(frames) /\ Acceptable(frames[Cur])
    BY <1>3, <1>5
  <2>7. UNCHANGED <<frames, wire, first>>
    BY <1>2
  <2>8. IInv'
    BY <1>1, <2>1, <2>4, <2>5, <2>6, <2>7, PayloadStep
  <2>9. ~ parse_failed'
    BY <1>2, <1>5
  <2> QED
    BY <2>6, <2>8, <2>9
<1> QED
  BY <1>4, <1>5

\* Every step keeps the invariant, if no size wraps.
LEMMA NextIInv ==
  ASSUME NoWrap, IInv, [Next]_vars
  PROVE  IInv'
<1>1. CASE \E size \in Sizes, command \in Commands, intact \in BOOLEAN :
             Send(size, command, intact)
  BY <1>1, SendStep
<1>2. CASE \E n \in 1 .. BufferSize + 1 : AppendBytes(n)
  BY <1>2, AppendStep
<1>3. CASE NextMessage
  BY <1>3, NextFailedStep, NextAwaitedStep, NextNoHeaderStep, NextHeaderStep DEF NextMessage
<1>4. CASE Clear
  BY <1>4, ClearStep
<1>5. CASE UNCHANGED vars
  <2>1. TypeInv'
    BY TypeStep DEF IInv
  <2>2. DeliversFramesInOrder'
    BY <1>5, Numbers, DeliveredStays DEF IInv, vars
  <2>3. (StreamInv /\ AwaitInv /\ SettledInv)'
    BY <1>5 DEF IInv, vars, StreamInv, AwaitInv, SettledInv, Drained, Skipped, Cur, Laid,
       ByteAt, Size
  <2> QED
    BY <2>1, <2>2, <2>3 DEF IInv
<1> QED
  BY <1>1, <1>2, <1>3, <1>4, <1>5 DEF Next

-----------------------------------------------------------------------------
(* The theorems *)

\* The variables keep their types and the buffer its size, for any sizes that
\* a header may announce.
THEOREM TypeCorrect == Spec => []TypeOK
<1>1. Init => TypeInv
  BY InitIInv DEF IInv
<1>2. TypeInv /\ [Next]_vars => TypeInv'
  BY TypeStep
<1>3. TypeInv => TypeOK
  BY DEF TypeInv
<1> QED
  BY <1>1, <1>2, <1>3, PTL DEF Spec

\* The inductive invariant holds in every reachable state, if no size wraps.
THEOREM InvariantHolds == ASSUME NoWrap PROVE Spec => []IInv
<1>1. IInv /\ [Next]_vars => IInv'
  BY NextIInv
<1> QED
  BY <1>1, InitIInv, PTL DEF Spec

\* However Append cuts the stream, NextMessage returns the frames sent since
\* the last Clear, in order, each once and with its own payload, and none from
\* the first one on that is damaged or too large.
THEOREM FramesInOrder == ASSUME NoWrap PROVE Spec => []DeliversFramesInOrder
<1>1. IInv => DeliversFramesInOrder
  BY DEF IInv
<1> QED
  BY <1>1, InvariantHolds, PTL

\* NextMessage marks the parser failed only at a frame that is damaged or
\* larger than the buffer.
THEOREM FailureHasCause == ASSUME NoWrap PROVE Spec => FailsOnlyForCause
<1>1. IInv /\ [Next]_vars =>
        [(~ parse_failed /\ parse_failed' /\ draining) =>
           /\ first + Len(delivered) <= Len(frames)
           /\ ~ Acceptable(frames[first + Len(delivered)])]_vars
  <2> SUFFICES ASSUME IInv, Next, ~ parse_failed, parse_failed', draining
               PROVE  Cur <= Len(frames) /\ ~ Acceptable(frames[Cur])
    BY DEF Cur
  <2>1. NextHeader
    BY DEF Next, Send, AppendBytes, NextMessage, NextFailed, NextAwaited, NextNoHeader, Clear
  <2>2. Len(frames) \in Nat
    BY Numbers DEF IInv
  <2> QED
    BY <2>1, <2>2, NextHeaderStep
<1> QED
  BY <1>1, InvariantHolds, PTL DEF Spec, FailsOnlyForCause

\* When the client's loop over NextMessage has ended, every frame that was sent
\* and not returned still has its last byte on the wire.
THEOREM DrainIsComplete == ASSUME NoWrap PROVE Spec => []DrainComplete
<1>1. IInv => DrainComplete
  <2> SUFFICES ASSUME IInv, Drained, NEW f \in Cur .. Len(frames)
               PROVE  LET b == FrameBytes(f, frames[f]) IN Contains(wire, b[Len(b)])
    BY DEF DrainComplete, Cur
  <2>1. TypeInv /\ ~ parse_failed /\ buffer_pos = 0
    BY DEF IInv, SettledInv, Drained
  <2>2. /\ Len(buffer) \in Nat /\ Len(wire) \in Nat /\ Len(frames) \in Nat
        /\ Cur \in Nat /\ Cur - 1 \in Nat /\ 1 <= Cur /\ Header \in Nat
        /\ bin_message_size \in Nat
    BY <2>1, Numbers, Constants
  <2>3. /\ f \in 1 .. Len(frames) /\ f \in Nat /\ f - 1 \in Nat /\ Cur \in 1 .. Len(frames)
        /\ Cur \in Cur .. Len(frames) /\ Cur \in Cur - 1 .. Len(frames)
        /\ f \in Cur - 1 .. Len(frames) /\ Cur <= f /\ f <= Len(frames)
        /\ Len(frames) \in Cur - 1 .. Len(frames)
    BY <2>2
  <2>4. PICK e \in Places : Laid(e, 0, Skipped)
    BY <2>1 DEF IInv, StreamInv
  <2>5. /\ Size(f) \in Nat /\ Size(f) >= Header /\ Size(f) > 0
        /\ Size(Cur) \in Nat /\ Size(Cur) >= Header
        /\ bin_message_size > 0 => Size(Cur) = Header + bin_message_size
    BY <2>1, <2>3, FrameIs, Constants DEF IInv, AwaitInv
  <2>6. /\ e[f - 1] \in Int /\ e[f] \in Int /\ e[Cur - 1] \in Int /\ e[Cur] \in Int
        /\ e[Len(frames)] \in Int
    BY <2>2, <2>3 DEF Places
  <2>7. /\ e[Cur - 1] + Skipped = 0 /\ e[Cur] = e[Cur - 1] + Size(Cur)
        /\ e[f] = e[f - 1] + Size(f) /\ e[Cur] <= e[f]
        /\ e[f] <= e[Len(frames)] /\ e[Len(frames)] = Len(buffer) + Len(wire)
    BY <2>3, <2>4 DEF Laid
  <2>8. Len(buffer) < e[Cur]
    <3>1. CASE bin_message_size > 0
      <4>1. Skipped = Header /\ Len(buffer) < bin_message_size
        BY <3>1 DEF Skipped, IInv, SettledInv
      <4>2. e[Cur] = bin_message_size
        BY <2>2, <2>5, <2>6, <2>7, <3>1, <4>1
      <4> QED
        BY <4>1, <4>2
    <3>2. CASE ~ (bin_message_size > 0)
      <4>1. Skipped = 0 /\ Len(buffer) < Header
        BY <3>2 DEF Skipped, IInv, SettledInv
      <4> QED
        BY <2>2, <2>5, <2>6, <2>7, <4>1
    <3> QED
      BY <3>1, <3>2
  <2>9. /\ e[f] > Len(buffer) /\ e[f] > 0 /\ e[f] - Len(buffer) \in 1 .. Len(wire)
    BY <2>2, <2>6, <2>7, <2>8
  <2>10. ByteAt(e[f]) = [frame |-> f, at |-> Size(f)]
    <3>1. Size(f) \in 1 .. Size(f)
      BY <2>5
    <3> QED
      BY <2>4, <2>7, <2>9, <3>1 DEF Laid
  <2>11. wire[e[f] - Len(buffer)] = [frame |-> f, at |-> Size(f)]
    BY <2>2, <2>6, <2>9, <2>10 DEF ByteAt
  <2>12. FrameBytes(f, frames[f])[Len(FrameBytes(f, frames[f]))] = [frame |-> f, at |-> Size(f)]
    <3>1. frames[f].size \in Nat
      BY <2>1, <2>3, FrameIs
    <3>2. Size(f) \in 1 .. Header + Payload(frames[f].size)
      BY <2>5 DEF Size
    <3> QED
      BY <2>3, <3>1, <3>2, FrameBytesAre DEF Size
  <2> QED
    BY <2>9, <2>11, <2>12 DEF Contains
<1> QED
  BY <1>1, InvariantHolds, PTL

\* After a drain there is room in the buffer: no acceptable frame can leave a
\* client that appends no more than MaxAppendSize without a byte to append.
THEOREM RoomIsLeft == ASSUME NoWrap PROVE Spec => []RoomAfterDrain
<1>1. IInv => RoomAfterDrain
  <2> SUFFICES ASSUME IInv, Drained PROVE Len(buffer) < BufferSize
    BY DEF RoomAfterDrain
  <2>1. TypeInv /\ ~ parse_failed
    BY DEF IInv, Drained
  <2>2. Len(buffer) \in Nat /\ bin_message_size \in Nat
    BY <2>1, Numbers
  <2>3. CASE bin_message_size > 0
    <3>1. Len(buffer) < bin_message_size /\ bin_message_size + Header <= BufferSize
      BY <2>1, <2>3 DEF IInv, SettledInv, AwaitInv, Acceptable
    <3> QED
      BY <2>2, <3>1, Constants
  <2>4. CASE ~ (bin_message_size > 0)
    <3>1. Len(buffer) < Header
      BY <2>4 DEF IInv, SettledInv
    <3> QED
      BY <2>2, <3>1, Constants
  <2> QED
    BY <2>3, <2>4
<1> QED
  BY <1>1, InvariantHolds, PTL
=============================================================================
