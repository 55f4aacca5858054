------------------------------ MODULE TBinParse ------------------------------
(***************************************************************************)
(* The parser of framed binary messages (drivers/TBPipe/TBinParse.cpp): a  *)
(* header of 8 bytes with the payload size, the command and a check word,  *)
(* then the payload.  NextMessage has no loop, so it is one step.          *)
(*                                                                         *)
(* A byte is named by the frame it belongs to and its place in it; a       *)
(* header can be decoded only where the bytes at hand are a header.        *)
(* Sizes are uint32_t: sums are taken modulo Modulus.                      *)
(***************************************************************************)
EXTENDS Integers, SequencesExt

CONSTANTS
  BufferSize,   \* buffer_size
  Header,       \* bytes of a header: 8
  Modulus,      \* 2^32
  Sizes,        \* payload sizes a header may announce
  Commands,     \* command numbers; 0 is what is_bad() calls no message
  MaxPayload,   \* bound: payload bytes really sent for one frame
  MaxFrames     \* bound: frames sent in one behaviour

ASSUME SizesAssumption ==
  /\ Header \in Nat \ {0}
  /\ BufferSize \in Nat
  /\ BufferSize >= Header
  /\ Modulus \in Nat
  /\ 2 * BufferSize < Modulus
  /\ Sizes \subseteq 0 .. Modulus - 1
  /\ \A command \in Commands : command \in Nat /\ command < 65536
  /\ MaxPayload \in Nat
  /\ BufferSize <= Header + MaxPayload
  /\ MaxFrames \in Nat

VARIABLES
  buffer,               \* the first buffer_amount bytes of buffer
  buffer_pos,
  bin_message_size,
  bin_message_command,
  parse_failed,
  draining,             \* the client is in its loop over NextMessage
  \* the peer and the history
  frames,               \* frames sent: size, command, and whether the check
                        \* word arrives intact
  wire,                 \* bytes sent and not yet appended
  first,                \* the first frame sent since the last Clear
  delivered             \* messages returned since then

state == <<buffer, buffer_pos, bin_message_size, bin_message_command>>
vars == <<state, parse_failed, draining, frames, wire, first, delivered>>

u32(n) == n % Modulus

Payload(size) == IF size > MaxPayload THEN MaxPayload ELSE size

\* The bytes of frame number f.
FrameBytes(f, fr) == [i \in 1 .. Header + Payload(fr.size) |-> [frame |-> f, at |-> i]]

Init ==
  /\ buffer = <<>>
  /\ buffer_pos = 0
  /\ bin_message_size = 0
  /\ bin_message_command = 0
  /\ parse_failed = FALSE
  /\ draining = FALSE
  /\ frames = <<>>
  /\ wire = <<>>
  /\ first = 1
  /\ delivered = <<>>

\* The peer sends a frame; intact: its header is not damaged on the way.
Send(size, command, intact) ==
  LET fr == [size |-> size, command |-> command, intact |-> intact]
  IN  /\ Len(frames) < MaxFrames
      /\ frames' = Append(frames, fr)
      /\ wire' = wire \o FrameBytes(Len(frames) + 1, fr)
      /\ UNCHANGED <<state, parse_failed, draining, first, delivered>>

MaxAppendSize == BufferSize - Len(buffer)

\* Append of the next n bytes: all of them or, when they do not fit, none and
\* the parser is marked failed.
AppendBytes(n) ==
  /\ ~ draining
  /\ n \in 1 .. Len(wire)
  /\ wire' = SubSeq(wire, n + 1, Len(wire))
  /\ IF n > MaxAppendSize
     THEN /\ parse_failed' = TRUE
          /\ UNCHANGED buffer
     ELSE /\ buffer' = buffer \o SubSeq(wire, 1, n)
          /\ UNCHANGED parse_failed
  /\ draining' = TRUE
  /\ UNCHANGED <<buffer_pos, bin_message_size, bin_message_command,
                 frames, first, delivered>>

\* The bytes at position pos are a header whose check word is right.
GoodHeaderAt(pos) ==
  \E f \in 1 .. Len(frames) :
     /\ frames[f].intact
     /\ \A i \in 1 .. Header : buffer[pos + i] = [frame |-> f, at |-> i]

\* Mutant: the check word is not looked at.
ParseHeaderUnchecked(pos) == [ok |-> TRUE, fr |-> frames[buffer[pos + 1].frame]]

ParseHeader(pos) ==
  [ok |-> GoodHeaderAt(pos), fr |-> frames[buffer[pos + 1].frame]]

\* Mutant: the buffer is not compacted.
NothingMoved(pos) ==
  /\ buffer_pos' = pos
  /\ draining' = FALSE
  /\ UNCHANGED <<buffer, delivered>>

\* Move what is left to the start of the buffer and return nothing.
Nothing(pos) ==
  /\ buffer' = SubSeq(buffer, pos + 1, Len(buffer))
  /\ buffer_pos' = 0
  /\ draining' = FALSE
  /\ UNCHANGED delivered

\* Of a payload that is said to reach beyond the buffer only this much is there.
InBuffer(end) == IF end > Len(buffer) THEN Len(buffer) ELSE end

\* The payload of size bytes at position pos, if it is there (the label
\* MessageHeaderPassed); otherwise it is awaited.
PayloadOrNothing(pos, size, command) ==
  IF u32(pos + size) <= Len(buffer)
  THEN /\ delivered' = Append(delivered,
            [size |-> size, command |-> command,
             data |-> SubSeq(buffer, pos + 1, InBuffer(pos + size))])
       /\ draining' = (command # 0)
       /\ buffer_pos' = u32(pos + size)
       /\ bin_message_size' = 0
       /\ UNCHANGED buffer
  ELSE /\ Nothing(pos)
       /\ bin_message_size' = size

\* Mutant: a frame that fills the buffer exactly is refused.
TooBigStrict(size) == u32(size + Header) >= BufferSize

TooBig(size) == u32(size + Header) > BufferSize

\* Mutant: one byte more than a header is waited for.
HeaderReadyStrict == Len(buffer) - buffer_pos > Header

HeaderReady == Len(buffer) - buffer_pos >= Header

\* NextMessage after a failure: nothing, ever.
NextFailed ==
  /\ draining
  /\ parse_failed
  /\ draining' = FALSE
  /\ UNCHANGED <<state, parse_failed, frames, wire, first, delivered>>

\* NextMessage with a header already read.
NextAwaited ==
  /\ draining
  /\ ~ parse_failed
  /\ bin_message_size > 0
  /\ PayloadOrNothing(buffer_pos, bin_message_size, bin_message_command)
  /\ UNCHANGED <<bin_message_command, parse_failed, frames, wire, first>>

\* NextMessage with less than a header at hand.
NextNoHeader ==
  /\ draining
  /\ ~ parse_failed
  /\ bin_message_size = 0
  /\ ~ HeaderReady
  /\ Nothing(buffer_pos)
  /\ UNCHANGED <<bin_message_size, bin_message_command, parse_failed,
                 frames, wire, first>>

\* NextMessage reads a header: a bad one or one of a frame larger than the
\* buffer fails the parser for good.
NextHeader ==
  LET h == ParseHeader(buffer_pos)
      refused == ~ h.ok \/ TooBig(h.fr.size)
  IN  /\ draining
      /\ ~ parse_failed
      /\ bin_message_size = 0
      /\ HeaderReady
      /\ parse_failed' = refused
      /\ bin_message_command' = IF refused THEN 0 ELSE h.fr.command
      /\ IF refused
         THEN /\ Nothing(IF h.ok THEN buffer_pos + Header ELSE buffer_pos)
              /\ bin_message_size' = 0
         ELSE PayloadOrNothing(buffer_pos + Header, h.fr.size, h.fr.command)
      /\ UNCHANGED <<frames, wire, first>>

NextMessage == NextFailed \/ NextAwaited \/ NextNoHeader \/ NextHeader

\* Mutant: Clear forgets the payload that was awaited.
ClearKeepsSize ==
  /\ ~ draining
  /\ buffer' = <<>>
  /\ buffer_pos' = 0
  /\ wire' = <<>>
  /\ first' = Len(frames) + 1
  /\ delivered' = <<>>
  /\ UNCHANGED <<bin_message_size, bin_message_command, parse_failed,
                 draining, frames>>

\* Clear, called when the peer starts anew: what it had sent is gone too.
\* parse_failed is not touched.
Clear ==
  /\ ~ draining
  /\ buffer' = <<>>
  /\ buffer_pos' = 0
  /\ bin_message_size' = 0
  /\ bin_message_command' = 0
  /\ wire' = <<>>
  /\ first' = Len(frames) + 1
  /\ delivered' = <<>>
  /\ UNCHANGED <<parse_failed, draining, frames>>

Next ==
  \/ \E size \in Sizes, command \in Commands, intact \in BOOLEAN :
        Send(size, command, intact)
  \/ \E n \in 1 .. BufferSize + 1 : AppendBytes(n)
  \/ NextMessage
  \/ Clear

Spec == Init /\ [][Next]_vars

-----------------------------------------------------------------------------
(* Properties *)

TypeOK ==
  /\ Len(buffer) <= BufferSize
  /\ buffer_pos \in 0 .. Len(buffer)
  /\ bin_message_size \in 0 .. Modulus - 1
  /\ bin_message_command \in Commands \union {0}
  /\ parse_failed \in BOOLEAN
  /\ draining \in BOOLEAN
  /\ first \in 1 .. Len(frames) + 1

\* A frame the parser must accept.
Acceptable(fr) == fr.intact /\ fr.size + Header <= BufferSize

\* The message that frame number f is.
MessageOf(f) ==
  [size |-> frames[f].size, command |-> frames[f].command,
   data |-> SubSeq(FrameBytes(f, frames[f]), Header + 1, Header + frames[f].size)]

\* However the bytes are cut into chunks, the messages returned are the frames
\* sent since the last Clear, in order, each once and with its own payload,
\* and none from the first damaged or oversized frame on.
DeliversFramesInOrder ==
  \A k \in 1 .. Len(delivered) :
     LET f == first + k - 1
     IN  /\ f <= Len(frames)
         /\ \A g \in first .. f : Acceptable(frames[g])
         /\ delivered[k] = MessageOf(f)

\* NextMessage marks the parser failed only at a frame that is damaged or too
\* large, never at one it should have returned.
FailsOnlyForCause ==
  [][(~ parse_failed /\ parse_failed' /\ draining) =>
       /\ first + Len(delivered) <= Len(frames)
       /\ ~ Acceptable(frames[first + Len(delivered)])]_vars

\* The client's loop has ended because there was no more, not because a
\* message with command 0 looked like none or the parser has failed.
Drained ==
  /\ ~ draining
  /\ ~ parse_failed
  /\ delivered # <<>> => Last(delivered).command # 0

\* When NextMessage returns nothing although the parser is sound, no whole
\* frame is left in the buffer.
DrainComplete ==
  Drained =>
     \A f \in first + Len(delivered) .. Len(frames) :
        LET b == FrameBytes(f, frames[f])
        IN  Contains(wire, b[Len(b)])

\* A client that never appends more than MaxAppendSize always has room left
\* after a drain: no acceptable frame can wedge the parser.
RoomAfterDrain == Drained => Len(buffer) < BufferSize

\* TBinParse.h: the parser is marked failed when the size of a command exceeds
\* the buffer.  So every message returned fits in the buffer.
OversizedIsRefused ==
  \A k \in 1 .. Len(delivered) : delivered[k].size + Header <= BufferSize
=============================================================================
