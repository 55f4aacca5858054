------------------------------ MODULE MCTBPipe ------------------------------
(***************************************************************************)
(* Instances of TBPipe for TLC.  The buffer is a few bytes long and the    *)
(* granule is 2 instead of 8; every write size from one byte to more than  *)
(* the buffer holds occurs, so both memcpy of a wrapped Write, the         *)
(* refused Write and the read position resting on BufferSize are reached.  *)
(***************************************************************************)
EXTENDS TBPipe

AnyWrites == 1 .. BufferSize
AnyReads == 0 .. BufferSize - 1
=============================================================================
