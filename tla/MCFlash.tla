------------------------------- MODULE MCFlash -------------------------------
(***************************************************************************)
(* An instance of Flash for TLC: two pages of three bytes, two bytes to a   *)
(* chunk, a sector of one page and the whole chip to erase.  A byte has    *)
(* one bit.  Writes of up to four bytes start anywhere, so they are cut    *)
(* by chunks and by the end of the page, singly and together.              *)
(***************************************************************************)
EXTENDS Flash

CONSTANT MaxLen  \* bound: longest write

AnyWrites ==
  {[kind |-> "write", addr |-> a, bytes |-> b] :
     a \in 0 .. Size - 1, b \in UNION {[1 .. n -> SUBSET Bits] : n \in 1 .. MaxLen}}

\* Those that fit into the chip.  Their first byte clears something; with one
\* that does not, a write is the same as a shorter one further on.
FittingWrites ==
  {w \in AnyWrites : w.addr + Len(w.bytes) <= Size /\ w.bytes[1] # Bits}
=============================================================================
