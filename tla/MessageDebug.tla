---------------------------- MODULE MessageDebug ----------------------------
(***************************************************************************)
(* A serial line from the interrupt to the messages the main loop sees:    *)
(* the callback of the UART writes each byte into a TBPipe, and one round  *)
(* of the main loop hands one window of the pipe to a TBParse and drains   *)
(* it (drivers/MessageDebug/MessageDebug.cpp and main.cpp; in the same way *)
(* stm32p_log_receive with its short prefix).  Pipe and parser are given   *)
(* the same buffer_size.                                                   *)
(*                                                                         *)
(* TBParse is used as it is.  The pipe is the queue that TBPipe is proved  *)
(* to implement, with the two things that show outside: it takes a byte    *)
(* only while Granule places are free, and a window ends where the ring    *)
(* does.  Bytes that do not fit are dropped without notice, by the pipe    *)
(* and by Append; how much room is enough is what this module is about.    *)
(***************************************************************************)
EXTENDS TBParse

CONSTANTS
  Granule,       \* what free space is rounded down to in TBPipe::Write: 8
  Burst,         \* bytes that arrive from one ReadStart to the next, at most
  Longest,       \* bytes of the longest message the peer sends
  StartPlaces    \* places of the ring at which the empty pipe may stand at the
                 \* start: empty lines received before move it anywhere

\* What makes the room sufficient: three bursts in the pipe, and in the parser
\* an unfinished message with two bursts on top.
ASSUME SizingAssumption ==
  /\ Granule \in Nat \ {0} /\ Burst \in Nat \ {0} /\ Longest \in Nat \ {0}
  /\ StartPlaces \subseteq 0 .. BufferSize - 1
  /\ 3 * Burst - 1 <= BufferSize - Granule
  /\ Longest - 1 + 2 * Burst - 1 <= BufferSize

VARIABLES
  pipe,          \* bytes in keyboard_pipe, those of the window included
  read_pos,      \* where the first of them lies in the ring
  window,        \* size of the window between ReadStart and ReadEnd, or NoWindow
  \* history
  received,      \* bytes the UART has received
  burst,         \* those since the last ReadStart
  orderly,       \* the line has kept to Burst and Longest, and sent no packet
                 \* of size 0
  lost           \* a byte was dropped

line == <<pipe, read_pos, window>>
lineHistory == <<received, burst, orderly, lost>>
allVars == <<vars, line, lineHistory>>

NoWindow == -1

InitLine ==
  /\ Init
  /\ pipe = <<>> /\ read_pos \in StartPlaces /\ window = NoWindow
  /\ received = 0 /\ burst = 0 /\ orderly = TRUE /\ lost = FALSE

-----------------------------------------------------------------------------

\* Mutant: the pipe holds one byte less.
PipeTakesByteStrict == BufferSize - 1 - Len(pipe) > Granule

\* Does Write take a byte?
PipeTakesByte == BufferSize - 1 - Len(pipe) >= Granule

\* KeyboardIrqCallback: the interrupt comes at any moment.
KeyboardIrq(c) ==
  /\ received < MaxBytes
  /\ received' = received + 1
  /\ IF PipeTakesByte
     THEN pipe' = Append(pipe, c) /\ UNCHANGED lost
     ELSE lost' = TRUE /\ UNCHANGED pipe
  /\ burst' = burst + 1
  /\ orderly' = (orderly /\ burst < Burst)
  /\ UNCHANGED <<vars, read_pos, window>>

\* Contiguous bytes.
WindowSize ==
  LET toEnd == BufferSize - read_pos
  IN  IF Len(pipe) < toEnd THEN Len(pipe) ELSE toEnd

\* MessageDebugQuant: ReadStart
QuantReadStart ==
  /\ pc = "idle" /\ window = NoWindow
  /\ window' = WindowSize
  /\ burst' = 0
  /\ UNCHANGED <<vars, pipe, read_pos, received, orderly, lost>>

\* Append, of the whole window, whatever fits.
QuantAppend ==
  /\ window # NoWindow
  /\ AppendChunk(SubSeq(pipe, 1, window), FALSE)
  /\ lost' = (lost \/ appended' < appended + window)
  /\ orderly' = (/\ orderly
                 /\ Len(ref'.line) < Longest /\ Len(ref'.bin) < Longest
                 /\ Binary(<<>>) \notin Range(parsed'))
  /\ UNCHANGED <<line, received, burst>>

\* ReadEnd gives the whole window back; then main calls MessageDebugNext.
QuantReadEnd ==
  /\ pc = "drain" /\ window # NoWindow
  /\ pipe' = SubSeq(pipe, window + 1, Len(pipe))
  /\ read_pos' = (read_pos + window) % BufferSize
  /\ window' = NoWindow
  /\ UNCHANGED <<vars, lineHistory>>

MessageDebugQuant == QuantReadStart \/ QuantAppend \/ QuantReadEnd

MessageDebugNext ==
  /\ window = NoWindow
  /\ NextMessage
  /\ UNCHANGED <<line, lineHistory>>

NextLine ==
  \/ \E c \in BytesOf(kind) : KeyboardIrq(c)
  \/ MessageDebugQuant
  \/ MessageDebugNext

SpecLine == InitLine /\ [][NextLine]_allVars

\* The main loop never stops; nothing is said about the line.  Appends is what
\* QuantAppend does to pc: no other step does it.
Appends == window # NoWindow /\ pc = "idle" /\ pc' = "drain"

FairSpecLine ==
  /\ SpecLine
  /\ WF_allVars(QuantReadStart) /\ WF_pc(Appends) /\ WF_allVars(QuantReadEnd)
  /\ WF_allVars(MessageDebugNext)

-----------------------------------------------------------------------------
(* Properties *)

\* TBPipe.h assumes that the buffer is read faster than it is written.  If the
\* line keeps to the two limits of SizingAssumption, nothing is dropped, by
\* the pipe or by Append, wherever the ring's end cuts the windows.
NothingLost == orderly => ~ lost

\* When the line has fallen quiet (after MaxBytes bytes, which stands for any
\* number), main gets every message of the bytes the parser has taken, also
\* those behind a packet of size 0; and of an orderly line it has taken every
\* byte, also those behind the end of a window.
EveryMessageArrives ==
  (received = MaxBytes) ~>
     (delivered = parsed /\ (orderly => appended = MaxBytes))
=============================================================================
