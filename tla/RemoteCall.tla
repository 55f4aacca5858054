------------------------------ MODULE RemoteCall ------------------------------
(***************************************************************************)
(* What the command link between the K210 and the ESP32 promises its user: *)
(* esp32_transfer as a remote procedure call.  There are no buses, pins,   *)
(* FIFOs, resets or timeouts here.                                         *)
(*                                                                         *)
(* Calls are made one at a time and numbered.  The ESP32 executes a call   *)
(* at most once, calls in their order, and possibly long after the K210    *)
(* has given it up.  A call that returns true has been executed, until the *)
(* first one that fails: after that true means nothing any more, because   *)
(* it may be the answer to an earlier call that came back.                 *)
(***************************************************************************)
EXTENDS Naturals, Sequences

CONSTANT MaxCalls      \* bound: calls in one behaviour

VARIABLES
  made,          \* calls made
  running,       \* the last of them has not returned
  executed,      \* numbers of the calls the ESP32 has executed
  clean          \* no call has failed so far

vars == <<made, running, executed, clean>>

Init ==
  /\ made = 0
  /\ running = FALSE
  /\ executed = <<>>
  /\ clean = TRUE

LastExecuted == IF executed = <<>> THEN 0 ELSE executed[Len(executed)]

Call ==
  /\ ~ running
  /\ made < MaxCalls
  /\ made' = made + 1
  /\ running' = TRUE
  /\ UNCHANGED <<executed, clean>>

\* Calls in between may never be executed.  While nothing has failed the only
\* one that is left is the one that is running.
Execute(n) ==
  /\ n \in LastExecuted + 1 .. made
  /\ clean => (running /\ n = made)
  /\ executed' = Append(executed, n)
  /\ UNCHANGED <<made, running, clean>>

ReturnTrue ==
  /\ running
  /\ clean => LastExecuted = made
  /\ running' = FALSE
  /\ UNCHANGED <<made, executed, clean>>

ReturnFalse ==
  /\ running
  /\ running' = FALSE
  /\ clean' = FALSE
  /\ UNCHANGED <<made, executed>>

Next == Call \/ (\E n \in 1 .. made : Execute(n)) \/ ReturnTrue \/ ReturnFalse

Spec == Init /\ [][Next]_vars
=============================================================================
