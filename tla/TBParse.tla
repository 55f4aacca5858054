------------------------------- MODULE TBParse -------------------------------
(***************************************************************************)
(* The message parser between TBPipe and the main loop                     *)
(* (drivers/TBPipe/TBParse.cpp): bytes arrive in chunks of any size, the   *)
(* client calls NextMessage until it returns an empty message.  A message  *)
(* is a line of text, or a binary packet announced by a prefix; which      *)
(* bytes make a prefix is decided by a BinPrefixParser.                    *)
(*                                                                         *)
(* NextMessage is a loop over buffer; one iteration is one step (Scan).    *)
(* When it finds no whole message it moves the unfinished one to the start *)
(* of the buffer and scans it again next time.  Beside it runs a streaming *)
(* reference that sees every byte once and keeps no buffer: the two must   *)
(* agree however the stream is cut into chunks.                            *)
(***************************************************************************)
EXTENDS Integers, SequencesExt

CONSTANTS
  BufferSize,    \* buffer_size
  Parsers,       \* prefix parsers in use: subset of {"standart", "short"}
  BytesOf(_),    \* bytes the peer sends to a client with the given parser
  MaxChunk,      \* bound: bytes of one Append
  MaxBytes,      \* bound: bytes appended in one behaviour
  Expiry         \* may the timeout have expired at an Append?  {FALSE} when
                 \* timeout_us is 0, the value every client leaves it at

ASSUME SizesAssumption ==
  /\ BufferSize \in Nat \ {0}
  /\ MaxChunk \in Nat
  /\ MaxBytes \in Nat
ASSUME ParsersAssumption ==
  /\ Parsers \subseteq {"standart", "short"}
  /\ \A k \in Parsers : BytesOf(k) \subseteq 0 .. 255
  /\ Expiry \subseteq BOOLEAN

VARIABLES
  kind,              \* which parser was given to the constructor
  parser,            \* its state: found_idx and data_size
  buffer,            \* the first buffer_amount bytes of buffer
  buffer_pos,
  bin_message_size,
  message_start,     \* local of NextMessage
  pc,                \* "idle": in the rest of the main loop; "drain": about to
                     \* call NextMessage; "scan": in its loop
  message,           \* what NextMessage returned last
  \* history
  appended,          \* bytes accepted so far (bounded by MaxBytes)
  delivered,         \* messages returned since the last timeout
  parsed,            \* messages the streaming reference has seen since then
  ref                \* the unfinished message of the streaming reference

parse == <<kind, parser, buffer, buffer_pos, bin_message_size>>
vars == <<parse, message_start, pc, message, appended, delivered, parsed, ref>>

NoMessage == [is_text |-> FALSE, null |-> TRUE, data |-> <<>>]
Text(s) == [is_text |-> TRUE, null |-> FALSE, data |-> s]
Binary(s) == [is_text |-> FALSE, null |-> FALSE, data |-> s]

EndOfLine == {13, 10}

-----------------------------------------------------------------------------
(* Prefix parsers: the state after byte c and the verdict on it.  first is  *)
(* is_first: c is the first byte of a message.                             *)

\* 0, 1, size low, size high
StandartParse(p, c, first) ==
  LET found == IF first THEN 0 ELSE p.found_idx
      next  == CASE found = 0 -> IF c = 0 THEN 1 ELSE 0
                 [] found = 1 -> IF c = 1 THEN 2 ELSE 0
                 [] found = 2 -> 3
                 [] found = 3 -> 0
      size  == CASE found = 2 -> c
                 [] found = 3 -> p.data_size + 256 * c
                 [] OTHER     -> p.data_size
  IN  [found_idx |-> next,
       data_size |-> size,
       result    |-> IF found = 3 THEN "PrefixCompleted"
                     ELSE IF next = 0 THEN "NotMatched" ELSE "PrefixMatched"]

\* 0xFE, size in 1 .. 127
ShortParse(p, c, first) ==
  LET found == IF first THEN 0 ELSE p.found_idx
      size0 == IF first THEN 0 ELSE p.data_size
      sized == found = 1 /\ c \in 1 .. 127
  IN  [found_idx |-> IF found = 0 /\ c = 254 THEN 1 ELSE 0,
       data_size |-> IF sized THEN c ELSE IF found = 1 THEN 0 ELSE size0,
       result    |-> IF sized THEN "PrefixCompleted"
                     ELSE IF found = 0 /\ c = 254 THEN "PrefixMatched"
                     ELSE "NotMatched"]

Parse(k, p, c, first) ==
  IF k = "standart" THEN StandartParse(p, c, first) ELSE ShortParse(p, c, first)

ParserStart == [found_idx |-> 0, data_size |-> 0, result |-> "NotMatched"]

-----------------------------------------------------------------------------
(* The streaming reference: one byte at a time, no buffer, no second scan. *)

RefStart == [line |-> <<>>, p |-> ParserStart, need |-> 0, bin |-> <<>>,
             out |-> <<>>]

\* A byte of the packet whose prefix is complete.
RefPacketByte(r, c) ==
  LET b == Append(r.bin, c)
  IN  IF Len(b) = r.need
      THEN [RefStart EXCEPT !.out = Append(r.out, Binary(b))]
      ELSE [r EXCEPT !.bin = b]

\* A byte of a line or of a prefix.
RefLineByte(k, r, c) ==
  LET p == Parse(k, r.p, c, r.line = <<>>)
  IN  CASE p.result = "PrefixCompleted" /\ p.data_size = 0 ->
             [RefStart EXCEPT !.out = Append(r.out, Binary(<<>>))]
        [] p.result = "PrefixCompleted" /\ p.data_size > 0 ->
             [RefStart EXCEPT !.out = r.out, !.need = p.data_size]
        [] p.result = "NotMatched" /\ c \in EndOfLine ->
             [RefStart EXCEPT !.out = IF r.line = <<>> THEN r.out
                                      ELSE Append(r.out, Text(r.line))]
        [] OTHER -> [r EXCEPT !.line = Append(@, c), !.p = p]

RefByte(k, r, c) ==
  IF r.need > 0 THEN RefPacketByte(r, c) ELSE RefLineByte(k, r, c)

\* The reference after the bytes of s.
RefBytes(k, r, s) ==
  LET after[i \in 0 .. Len(s)] == IF i = 0 THEN r ELSE RefByte(k, after[i - 1], s[i])
  IN  after[Len(s)]

-----------------------------------------------------------------------------

Init ==
  /\ kind \in Parsers
  /\ parser = ParserStart
  /\ buffer = <<>>
  /\ buffer_pos = 0
  /\ bin_message_size = 0
  /\ message_start = 0
  /\ pc = "idle"
  /\ message = NoMessage
  /\ appended = 0
  /\ delivered = <<>>
  /\ parsed = <<>>
  /\ ref = RefStart

Chunks(k) == UNION {[1 .. n -> BytesOf(k)] : n \in 0 .. MaxChunk}

\* size_to_copy: what does not fit is cut off.
Cut(chunk, room) == IF Len(chunk) > room THEN SubSeq(chunk, 1, room) ELSE chunk

\* Append(chunk): when the timeout has expired the old bytes are cleared; what
\* does not fit is cut off.  An empty chunk returns at once, timeout or not.
\* After it the main loop goes on to NextMessage.
AppendChunk(chunk, expired) ==
  LET reset == expired /\ chunk # <<>>
      old == IF reset THEN <<>> ELSE buffer
      new == Cut(chunk, BufferSize - Len(old))
      r   == RefBytes(kind, IF reset THEN RefStart ELSE ref, new)
  IN  /\ pc = "idle"
      /\ appended + Len(new) <= MaxBytes
      /\ buffer' = old \o new
      /\ appended' = appended + Len(new)
      /\ delivered' = IF reset THEN <<>> ELSE delivered
      /\ parsed' = (IF reset THEN <<>> ELSE parsed) \o r.out
      /\ ref' = [r EXCEPT !.out = <<>>]
      /\ pc' = "drain"
      /\ UNCHANGED <<kind, parser, buffer_pos, bin_message_size,
                     message_start, message>>

\* NextMessage returns m; the client goes on calling while m is not empty.
Return(m) ==
  /\ message' = m
  /\ delivered' = IF m.null THEN delivered ELSE Append(delivered, m)
  /\ pc' = IF m.data = <<>> THEN "idle" ELSE "drain"
  /\ message_start' = 0

\* Mutant: a packet that ends with the last byte is not seen.
PacketReadyStrict(size) == buffer_pos + size < Len(buffer)

\* A packet whose size is known lies in the buffer from buffer_pos on.
PacketReady(size) == buffer_pos + size <= Len(buffer)

\* NextMessage while a packet is awaited and has arrived.
ReturnAwaited ==
  /\ pc = "drain"
  /\ bin_message_size > 0
  /\ PacketReady(bin_message_size)
  /\ Return(Binary(SubSeq(buffer, buffer_pos + 1, buffer_pos + bin_message_size)))
  /\ buffer_pos' = buffer_pos + bin_message_size
  /\ bin_message_size' = 0
  /\ UNCHANGED <<kind, parser, buffer, appended, parsed, ref>>

\* NextMessage enters its loop.
EnterLoop ==
  /\ pc = "drain"
  /\ bin_message_size = 0
  /\ pc' = "scan"
  /\ message_start' = buffer_pos
  /\ UNCHANGED <<parse, message, appended, delivered, parsed, ref>>

\* Mutant: the unfinished message is not kept.
ReturnNothingDrops(start) ==
  /\ buffer' = <<>>
  /\ buffer_pos' = 0
  /\ message' = NoMessage
  /\ message_start' = 0
  /\ pc' = IF start > Len(buffer) THEN "fault" ELSE "idle"
  /\ UNCHANGED <<kind, appended, delivered, parsed, ref>>

\* No whole message from start on: move the unfinished one to the front.  A
\* start beyond the end (rest_size below zero) makes memmove run wild.
ReturnNothing(start) ==
  /\ buffer' = SubSeq(buffer, start + 1, Len(buffer))
  /\ buffer_pos' = 0
  /\ message' = NoMessage
  /\ message_start' = 0
  /\ pc' = IF start > Len(buffer) THEN "fault" ELSE "idle"
  /\ UNCHANGED <<kind, appended, delivered, parsed, ref>>

\* Mutant: NextMessage does not go back to the start of the buffer.
LoopEndsKeepsPos ==
  /\ pc = "scan"
  /\ buffer_pos >= Len(buffer)
  /\ buffer' = SubSeq(buffer, message_start + 1, Len(buffer))
  /\ buffer_pos' = buffer_pos - message_start
  /\ message' = NoMessage
  /\ message_start' = 0
  /\ pc' = "idle"
  /\ UNCHANGED <<kind, appended, delivered, parsed, ref>>
  /\ UNCHANGED <<parser, bin_message_size>>

\* NextMessage while a packet is awaited and has not arrived.
StillAwaited ==
  /\ pc = "drain"
  /\ bin_message_size > 0
  /\ ~ PacketReady(bin_message_size)
  /\ ReturnNothing(buffer_pos)
  /\ UNCHANGED <<parser, bin_message_size>>

\* The loop has run out of bytes.
LoopEnds ==
  /\ pc = "scan"
  /\ buffer_pos >= Len(buffer)
  /\ ReturnNothing(message_start)
  /\ UNCHANGED <<parser, bin_message_size>>

\* Mutant: the prefix of an awaited packet stays in the buffer.
ScanPrefixEndKept(p) ==
  LET start == buffer_pos + 1
  IN  /\ p.result = "PrefixCompleted"
      /\ parser' = p
      /\ IF start + p.data_size <= Len(buffer)
         THEN /\ Return(Binary(SubSeq(buffer, start + 1, start + p.data_size)))
              /\ buffer_pos' = start + p.data_size
              /\ bin_message_size' = 0
              /\ UNCHANGED <<kind, buffer, appended, parsed, ref>>
         ELSE /\ bin_message_size' = p.data_size
              /\ ReturnNothing(message_start)

\* The iteration that reads the last byte of a prefix.
ScanPrefixEnd(p) ==
  LET start == buffer_pos + 1
  IN  /\ p.result = "PrefixCompleted"
      /\ parser' = p
      /\ IF start + p.data_size <= Len(buffer)
         THEN /\ Return(Binary(SubSeq(buffer, start + 1, start + p.data_size)))
              /\ buffer_pos' = start + p.data_size
              /\ bin_message_size' = 0
              /\ UNCHANGED <<kind, buffer, appended, parsed, ref>>
         ELSE /\ bin_message_size' = p.data_size
              /\ ReturnNothing(start)

\* The iteration that reads an end of line: it is overwritten by 0, and ends
\* a message unless the line is empty.
ScanLineEnd(p, c) ==
  /\ p.result = "NotMatched"
  /\ c \in EndOfLine
  /\ parser' = p
  /\ buffer' = [buffer EXCEPT ![buffer_pos + 1] = 0]
  /\ buffer_pos' = buffer_pos + 1
  /\ IF buffer_pos = message_start
     THEN /\ message_start' = buffer_pos + 1
          /\ UNCHANGED <<pc, message, delivered>>
     ELSE Return(Text(SubSeq(buffer, message_start + 1, buffer_pos)))
  /\ UNCHANGED <<kind, bin_message_size, appended, parsed, ref>>

\* The iteration that reads any other byte.
ScanOther(p, c) ==
  /\ p.result = "PrefixMatched" \/ (p.result = "NotMatched" /\ c \notin EndOfLine)
  /\ parser' = p
  /\ buffer_pos' = buffer_pos + 1
  /\ UNCHANGED <<kind, buffer, bin_message_size, message_start, pc, message,
                 appended, delivered, parsed, ref>>

\* One iteration of the loop.
Scan ==
  /\ pc = "scan"
  /\ buffer_pos < Len(buffer)
  /\ LET c == buffer[buffer_pos + 1]
         p == Parse(kind, parser, c, buffer_pos = message_start)
     IN  ScanPrefixEnd(p) \/ ScanLineEnd(p, c) \/ ScanOther(p, c)

NextMessage ==
  ReturnAwaited \/ EnterLoop \/ StillAwaited \/ LoopEnds \/ Scan

Next ==
  \/ \E chunk \in Chunks(kind), expired \in Expiry : AppendChunk(chunk, expired)
  \/ NextMessage

Spec == Init /\ [][Next]_vars

-----------------------------------------------------------------------------
(* Properties *)

\* What two bytes of size can say.
LargestSize == 65535

TypeOK ==
  /\ kind \in Parsers
  /\ parser.found_idx \in 0 .. 3
  /\ parser.data_size \in 0 .. LargestSize
  /\ buffer \in Seq(0 .. 255)
  /\ Len(buffer) <= BufferSize
  /\ message_start <= buffer_pos
  /\ buffer_pos <= Len(buffer)
  /\ bin_message_size \in 0 .. LargestSize
  /\ pc \in {"idle", "drain", "scan"}

\* However the stream is cut into chunks, and however often an unfinished
\* message is moved and scanned again, NextMessage returns the messages of the
\* stream, in order, none twice, none altered.
InOrder == IsPrefix(delivered, parsed)

\* When NextMessage says there is nothing more, nothing complete is left
\* behind.  (A binary packet of size 0 also ends the client's loop, with bytes
\* left in the buffer: then message is not null.)
DrainComplete == (pc = "idle" /\ message.null) => delivered = parsed

\* After a drain the buffer holds the bytes of the one unfinished message and
\* nothing else, so the next Append has all the other room, and the parser
\* stops accepting bytes only when one message alone exceeds the buffer.
CompactedToOneFrame ==
  (pc = "idle" /\ message.null) =>
    buffer = IF bin_message_size > 0 THEN ref.bin ELSE ref.line

\* TBParse.h: after the timeout the old data are cleared and the prefix parser
\* is put into its initial state.  So the messages returned after a timeout
\* are those of the bytes that came after it.
TimeoutStartsAfresh == IsPrefix(delivered, parsed)
=============================================================================
