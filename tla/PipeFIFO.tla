------------------------------ MODULE PipeFIFO ------------------------------
(***************************************************************************)
(* What a TBPipe promises its two users, without positions and without a   *)
(* buffer: a bounded queue between one writer and one reader.              *)
(*                                                                         *)
(* Bytes are named by their place in the stream of bytes the pipe ever     *)
(* accepted: the first one is 1, the next one is 2, and so on.  The queue  *)
(* is then three counters, and "nothing lost, duplicated, reordered or     *)
(* torn" is that the reader is handed byte taken + 1 after byte taken.     *)
(***************************************************************************)
EXTENDS Naturals

CONSTANT Capacity          \* most bytes the queue ever holds

VARIABLES
  accepted,   \* bytes published by the writer so far
  taken,      \* bytes the reader has copied out or discarded so far
  released,   \* bytes whose place the writer may use again
  last        \* the byte the reader copied last (0: none yet)

vars == <<accepted, taken, released, last>>

Init ==
  /\ accepted = 0
  /\ taken = 0
  /\ released = 0
  /\ last = 0

\* The writer publishes n bytes at once; they must fit beside everything the
\* reader has not given back.
Accept(n) ==
  /\ n \in 1 .. (Capacity - (accepted - released))
  /\ accepted' = accepted + n
  /\ UNCHANGED <<taken, released, last>>

\* The reader copies the next byte: exactly the oldest one it has not copied.
Take ==
  /\ taken < accepted
  /\ last' = taken + 1
  /\ taken' = taken + 1
  /\ UNCHANGED <<accepted, released>>

\* The reader gives back the places of all the bytes it has copied.
Release ==
  /\ released' = taken
  /\ UNCHANGED <<accepted, taken, last>>

\* The reader throws away bytes it has not copied (TBPipe::Clear).
Discard ==
  \E n \in taken .. accepted :
     /\ taken' = n
     /\ released' = n
     /\ UNCHANGED <<accepted, last>>

Next ==
  \/ \E n \in 1 .. Capacity : Accept(n)
  \/ Take
  \/ Release
  \/ Discard

Spec == Init /\ [][Next]_vars
=============================================================================
