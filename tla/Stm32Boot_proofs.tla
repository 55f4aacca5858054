-------------------------- MODULE Stm32Boot_proofs --------------------------
(***************************************************************************)
(* Proofs about Stm32Boot for any size of the pipe and of a read and any   *)
(* number of calls: the two ends of the UART stay in step as long as no    *)
(* call fails, whatever is lost on the way.                                *)
(***************************************************************************)
EXTENDS Stm32Boot, TLAPS, SequenceTheorems

USE DEF parser

-----------------------------------------------------------------------------
(* The inductive invariant *)

\* What the parts of a call are about, and that a frame is one of its call.
CallInv ==
  /\ At({"idle"}) => call = Idle
  /\ At({"low", "sleep", "clear"}) =>
       call.op \in Resets /\ call.i = 1 /\ call.took = {}
  /\ At({"send", "ack"}) =>
       call.op \in Ops /\ call.i \in 1 .. Len(Frames(call.op))
  /\ At({"ack"}) => call.op # "get"
  /\ At({"print"}) => call.op = "get"
  /\ At({"data"}) => call.op = "read"
  /\ At({"send", "ack", "data"}) /\ call.op # "activate" => activated
  /\ \A n \in 1 .. Len(line) :
       /\ line[n].i \in 1 .. Len(Frames(line[n].op))
       /\ line[n].what = Frames(line[n].op)[line[n].i]

\* Nothing is in flight or in the pipe.
Nothing == line = <<>> /\ wire = <<>> /\ pipe = <<>>

\* Bytes from the STM32 that the K210 has not taken.
InFlight == Len(pipe) + Len(wire)
AllAre(bytes) == pipe \in Seq(bytes) /\ wire \in Seq(bytes)

\* What the running program prints, and the bytes that answer the call.
Prints == {Byte("text", stm.id)}
Own(kinds) == [what : kinds, id : {call.id}]

\* The frame of the call that is sent next, or was sent last.
Frame == [what |-> Frames(call.op)[call.i], op |-> call.op, i |-> call.i,
          id |-> call.id]

\* The STM32 waits for that frame; it has done what the frame asks for.
Awaits == stm.mode = Frame.what /\ (call.i = 1 \/ stm.op = call.op)
HasObeyed ==
  IF IsLast(Frame) THEN stm.mode = "cmd" /\ call.id \in done
  ELSE stm.mode = Frames(call.op)[call.i + 1] /\ stm.op = call.op

\* Where the frame that was sent has got to: it is on the line, it was obeyed
\* and part of the answer is still to be read, or it was refused or lost.
OnTheLine == line = <<Frame>> /\ wire = <<>> /\ pipe = <<>> /\ Awaits
Answered ==
  /\ line = <<>> /\ HasObeyed /\ AllAre(Own({"ack", "data"}))
  /\ InFlight <= IF Frame.what = "len" THEN ReadSize + 1 ELSE 1
Refused ==
  /\ line = <<>> /\ stm.mode \in LoaderModes /\ AllAre(Own({"nack"}))
  /\ InFlight <= 1

\* As long as no call has failed since the last reset, the place of the call
\* tells what is in flight and what the STM32 waits for.
StepInv ==
  clean =>
    /\ At({"idle"}) /\ activated => stm.mode = "cmd" /\ Nothing
    /\ At({"idle"}) /\ ~ activated =>
         stm.mode = "app" /\ line = <<>> /\ AllAre(Prints)
    /\ At({"sleep"}) => stm.mode = "off" /\ line = <<>>
    /\ At({"clear"}) /\ call.op = "activate" =>
         stm.mode = "hello" /\ line = <<>> /\ wire = <<>>
    /\ At({"clear"}) /\ call.op = "restart" =>
         stm.mode = "app" /\ line = <<>> /\ wire \in Seq(Prints)
    /\ At({"send"}) => Nothing /\ Awaits
    /\ At({"ack"}) => OnTheLine \/ Answered \/ Refused
    /\ At({"data"}) =>
         /\ line = <<>> /\ stm.mode = "cmd" /\ call.id \in done
         /\ AllAre(Own({"ack", "data"})) /\ InFlight <= ReadSize
    /\ At({"send", "ack", "data"}) => call.took \subseteq {call.id}

\* The restart forgets that a message was returned, and nothing returns one
\* before the new program runs.
LogInv ==
  /\ LogIsOfThisRun
  /\ At({"sleep", "clear"}) => ~ returned

IInv == TypeOK /\ CallInv /\ StepInv /\ LogInv /\ AnswerIsOwn

-----------------------------------------------------------------------------
(* The frames of the calls, and bytes in sequence *)

\* How many frames a call has and what they are.
LEMMA FramesAre ==
  ASSUME NEW op \in Ops
  PROVE  /\ Len(Frames(op)) \in 0 .. 3
         /\ \A i \in 1 .. Len(Frames(op)) :
              /\ i \in 1 .. 3
              /\ Frames(op)[i] \in LoaderModes \ {"lost"}
              /\ Frames(op)[i] = "len" <=> op = "read" /\ i = 3
              /\ i = 1 => Frames(op)[i] = IF op = "activate" THEN "hello" ELSE "cmd"
         /\ Len(Frames(op)) = 0 <=> op = "restart"
         /\ op = "read" => Len(Frames(op)) = 3
         /\ op \in {"get", "activate"} => Len(Frames(op)) = 1
<1> USE DEF LoaderModes
<1>1. CASE op = "read"
  <2>1. Frames(op) = <<"cmd", "addr", "len">>
    BY <1>1 DEF Frames
  <2>2. Len(Frames(op)) = 3 /\ 1 .. Len(Frames(op)) = {1, 2, 3}
    BY <2>1
  <2>3. Frames(op)[1] = "cmd" /\ Frames(op)[2] = "addr" /\ Frames(op)[3] = "len"
    BY <2>1
  <2>4. QED
    BY <1>1, <2>2, <2>3
<1>2. CASE op = "write"
  <2>1. Frames(op) = <<"cmd", "addr", "block">>
    BY <1>2 DEF Frames
  <2>2. Len(Frames(op)) = 3 /\ 1 .. Len(Frames(op)) = {1, 2, 3}
    BY <2>1
  <2>3. Frames(op)[1] = "cmd" /\ Frames(op)[2] = "addr" /\ Frames(op)[3] = "block"
    BY <2>1
  <2>4. QED
    BY <1>2, <2>2, <2>3
<1>3. CASE op = "erase"
  <2>1. Frames(op) = <<"cmd", "pages">>
    BY <1>3 DEF Frames
  <2>2. Len(Frames(op)) = 2 /\ 1 .. Len(Frames(op)) = {1, 2}
    BY <2>1
  <2>3. Frames(op)[1] = "cmd" /\ Frames(op)[2] = "pages"
    BY <2>1
  <2>4. QED
    BY <1>3, <2>2, <2>3
<1>4. CASE op = "get"
  <2>1. Frames(op) = <<"cmd">>
    BY <1>4 DEF Frames
  <2>2. Len(Frames(op)) = 1 /\ 1 .. Len(Frames(op)) = {1}
    BY <2>1
  <2>3. Frames(op)[1] = "cmd"
    BY <2>1
  <2>4. QED
    BY <1>4, <2>2, <2>3
<1>5. CASE op = "activate"
  <2>1. Frames(op) = <<"hello">>
    BY <1>5 DEF Frames
  <2>2. Len(Frames(op)) = 1 /\ 1 .. Len(Frames(op)) = {1}
    BY <2>1
  <2>3. Frames(op)[1] = "hello"
    BY <2>1
  <2>4. QED
    BY <1>5, <2>2, <2>3
<1>6. CASE op = "restart"
  <2>1. Frames(op) = <<>>
    BY <1>6 DEF Frames
  <2>2. QED
    BY <1>6, <2>1
<1>7. QED
  BY <1>1, <1>2, <1>3, <1>4, <1>5, <1>6 DEF Ops, Commands, Resets

\* What Tail and Append do to a sequence.
LEMMA Tailed ==
  ASSUME NEW S, NEW q \in Seq(S), q # <<>>
  PROVE  /\ Tail(q) \in Seq(S) /\ Head(q) \in S /\ Head(q) = q[1]
         /\ Len(q) \in Nat \ {0} /\ Len(Tail(q)) = Len(q) - 1
         /\ \A n \in 1 .. Len(q) - 1 : Tail(q)[n] = q[n + 1]
  OBVIOUS

LEMMA Appended ==
  ASSUME NEW S, NEW q \in Seq(S), NEW x \in S
  PROVE  /\ Append(q, x) \in Seq(S)
         /\ Len(q) \in Nat /\ Len(Append(q, x)) = Len(q) + 1
         /\ Append(q, x)[Len(q) + 1] = x
         /\ \A n \in 1 .. Len(q) : Append(q, x)[n] = q[n]
  OBVIOUS

\* The first byte on the wire gets into the pipe or is lost.
LEMMA ByteMoves ==
  ASSUME NEW S, pipe \in Seq(S), wire \in Seq(S), wire # <<>>,
         wire' = Tail(wire), pipe' = pipe \/ pipe' = Append(pipe, Head(wire))
  PROVE  /\ pipe' \in Seq(S) /\ wire' \in Seq(S)
         /\ InFlight' \in Nat /\ InFlight \in Nat /\ InFlight' <= InFlight
<1>1. /\ Len(pipe) \in Nat /\ Len(wire) \in Nat \ {0}
      /\ wire' \in Seq(S) /\ Head(wire) \in S /\ Len(wire') = Len(wire) - 1
  BY Tailed
<1>2. Append(pipe, Head(wire)) \in Seq(S) /\ Len(Append(pipe, Head(wire))) = Len(pipe) + 1
  BY <1>1, Appended
<1>3. QED
  BY <1>1, <1>2 DEF InFlight

\* What the STM32 answers: to the last frame of a read its data too.
LEMMA ReplyIs ==
  ASSUME NEW f \in AllFrames, f.what = "len" => f.op = "read"
  PROVE  /\ Reply(f) \in Seq([what : {"ack", "data"}, id : {f.id}])
         /\ f.what = "len" => Len(Reply(f)) = ReadSize + 1
         /\ (f.what # "len" /\ f.op # "get") => Len(Reply(f)) = 1
<1> DEFINE S == [what : {"ack", "data"}, id : {f.id}]
<1>1. <<Byte("ack", f.id)>> \in Seq(S)
  BY DEF Byte
<1>2. [n \in 1 .. ReadSize |-> Byte("data", f.id)] \in Seq(S)
  BY CapacityAssumption DEF Byte
<1>3. Len([n \in 1 .. ReadSize |-> Byte("data", f.id)]) = ReadSize
  BY CapacityAssumption
<1>4. <<Byte("data", f.id)>> \in Seq(S)
  BY DEF Byte
<1>5. CASE f.what = "len"
  <2>1. Reply(f) = <<Byte("ack", f.id)>> \o [n \in 1 .. ReadSize |-> Byte("data", f.id)]
    BY <1>5 DEF Reply
  <2>2. QED
    BY <1>1, <1>2, <1>3, <1>5, <2>1, CapacityAssumption
<1>6. CASE f.what # "len" /\ f.op = "get"
  <2>1. Reply(f) = <<Byte("ack", f.id)>> \o <<Byte("data", f.id)>>
    BY <1>6 DEF Reply
  <2>2. QED
    BY <1>1, <1>4, <1>6, <2>1
<1>7. CASE f.what # "len" /\ f.op # "get"
  <2>1. Reply(f) = <<Byte("ack", f.id)>> \o <<>>
    BY <1>7 DEF Reply
  <2>2. QED
    BY <1>1, <1>7, <2>1
<1>8. QED
  BY <1>5, <1>6, <1>7

\* What a call in progress is made of.
LEMMA CallFields ==
  ASSUME TypeOK
  PROVE  /\ call.op \in Ops \union {"none"} /\ call.id \in Ids
         /\ call.i \in 1 .. 3 /\ call.short \in BOOLEAN
         /\ call.took \subseteq Ids
         /\ call.pc \in {"idle", "low", "sleep", "clear", "send", "print", "ack", "data"}
         /\ stm.mode \in Modes /\ stm.op \in Ops /\ stm.id \in Ids
         /\ last.id \in Ids
         /\ Ids \subseteq Nat
  BY BoundAssumption DEF TypeOK, Ids

\* What does not touch the call or the STM32 leaves the meaning of both alone.
LEMMA CallStays ==
  ASSUME UNCHANGED <<stm, call, done>>
  PROVE  /\ Frame' = Frame /\ (Awaits' <=> Awaits) /\ (HasObeyed' <=> HasObeyed)
         /\ Prints' = Prints
         /\ Own({"nack"})' = Own({"nack"})
         /\ Own({"ack", "data"})' = Own({"ack", "data"})
         /\ \A pcs : At(pcs)' <=> At(pcs)
  BY DEF Frame, Awaits, HasObeyed, Prints, Own, At

-----------------------------------------------------------------------------
(* Every step keeps the invariant: the line and the STM32 *)

\* The program runs from the start; nothing was called.
LEMMA InitIInv == Init => IInv
<1> SUFFICES ASSUME Init PROVE IInv
  OBVIOUS
<1> USE DEF Init
<1>1. 0 \in Ids
  BY BoundAssumption DEF Ids
<1>2. TypeOK
  <2>1. pipe \in Seq(AllBytes) /\ wire \in Seq(AllBytes) /\ line \in Seq(AllFrames)
    OBVIOUS
  <2>2. Len(pipe) <= Capacity
    BY CapacityAssumption
  <2>3. stm \in [mode : Modes, op : Ops, id : Ids]
    BY <1>1 DEF Modes, Ops, Resets
  <2>4. call \in [op : Ops \union {"none"}, id : Ids, i : 1 .. 3, short : BOOLEAN,
                  seen : 0 .. Capacity, took : SUBSET Ids,
                  pc : {"idle", "low", "sleep", "clear", "send", "print", "ack", "data"}]
    BY <1>1, CapacityAssumption DEF Idle
  <2>5. last \in [op : Ops, id : Ids, ok : BOOLEAN, sent : BOOLEAN,
                  took : SUBSET Ids, clean : BOOLEAN]
    BY <1>1 DEF Ops, Resets
  <2>6. activated \in BOOLEAN /\ clean \in BOOLEAN /\ returned \in BOOLEAN
    OBVIOUS
  <2>7. QED
    BY <2>1, <2>2, <2>3, <2>4, <2>5, <2>6 DEF TypeOK
<1>3. CallInv
  BY DEF CallInv, At, Idle
<1>4. StepInv
  BY DEF StepInv, At, Idle, AllAre
<1>5. LogInv /\ AnswerIsOwn
  BY DEF LogInv, LogIsOfThisRun, AnswerIsOwn, At, Idle
<1>6. QED
  BY <1>2, <1>3, <1>4, <1>5 DEF IInv

\* A byte gets through to the pipe, finds it full, or is lost.
LEMMA ByteStep ==
  ASSUME IInv, Arrive \/ LoseByte
  PROVE  IInv'
<1>1. /\ wire # <<>> /\ wire' = Tail(wire)
      /\ pipe' = pipe \/ (pipe' = Append(pipe, Head(wire)) /\ Len(pipe) < Capacity)
      /\ UNCHANGED <<line, stm, call, activated, last, clean, done, unfinished,
                     returned>>
  BY DEF Arrive, LoseByte
<1>2. \A S : pipe \in Seq(S) /\ wire \in Seq(S) =>
        pipe' \in Seq(S) /\ wire' \in Seq(S) /\ InFlight' <= InFlight
        /\ InFlight' \in Nat /\ InFlight \in Nat
  BY <1>1, ByteMoves
<1>3. TypeOK'
  <2>1. pipe' \in Seq(AllBytes) /\ wire' \in Seq(AllBytes)
    BY <1>2 DEF IInv, TypeOK
  <2>2. Len(pipe') <= Capacity
    <3>1. Head(wire) \in AllBytes
      BY <1>1, Tailed DEF IInv, TypeOK
    <3>2. pipe \in Seq(AllBytes) /\ Len(pipe) <= Capacity
      BY DEF IInv, TypeOK
    <3>3. Len(Append(pipe, Head(wire))) = Len(pipe) + 1 /\ Len(pipe) \in Nat
      BY <3>1, <3>2, Appended
    <3>4. QED
      BY <1>1, <3>2, <3>3, CapacityAssumption
  <2>3. QED
    BY <1>1, <2>1, <2>2 DEF IInv, TypeOK
<1>4. CallInv'
  BY <1>1, CallStays DEF IInv, CallInv
<1>5. StepInv'
  <2> SUFFICES ASSUME clean PROVE StepInv'
    BY <1>1 DEF StepInv
  <2>1. \A S : AllAre(S) => pipe' \in Seq(S) /\ wire' \in Seq(S)
               /\ InFlight' <= InFlight /\ InFlight' \in Nat /\ InFlight \in Nat
    BY <1>2 DEF AllAre
  <2>2. At({"idle"}) => ~ activated /\ pipe' \in Seq(Prints) /\ wire' \in Seq(Prints)
    BY <1>1, <2>1 DEF IInv, StepInv, Nothing
  <2>3. ~ At({"send"}) /\ ~ (At({"clear"}) /\ call.op = "activate")
    BY <1>1 DEF IInv, StepInv, Nothing
  <2>4. At({"clear"}) /\ call.op = "restart" => wire' \in Seq(Prints)
    BY <1>1, Tailed DEF IInv, StepInv
  <2>5. At({"ack"}) => (Answered \/ Refused)'
    <3>1. CASE Answered
      <4>1. /\ pipe' \in Seq(Own({"ack", "data"})) /\ wire' \in Seq(Own({"ack", "data"}))
            /\ InFlight' <= IF Frame.what = "len" THEN ReadSize + 1 ELSE 1
        BY <2>1, <3>1, CapacityAssumption DEF Answered
      <4>2. QED
        BY <1>1, <3>1, <4>1, CallStays DEF Answered, AllAre
    <3>2. CASE Refused
      <4>1. /\ pipe' \in Seq(Own({"nack"})) /\ wire' \in Seq(Own({"nack"}))
            /\ InFlight' <= 1
        BY <2>1, <3>2 DEF Refused
      <4>2. QED
        BY <1>1, <3>2, <4>1, CallStays DEF Refused, AllAre
    <3>3. QED
      BY <1>1, <3>1, <3>2 DEF IInv, StepInv, OnTheLine
  <2>6. At({"data"}) =>
          /\ pipe' \in Seq(Own({"ack", "data"})) /\ wire' \in Seq(Own({"ack", "data"}))
          /\ InFlight' <= ReadSize
    BY <2>1, CapacityAssumption DEF IInv, StepInv
  <2>7. QED
    BY <1>1, <2>2, <2>3, <2>4, <2>5, <2>6, CallStays DEF IInv, StepInv, AllAre
<1>6. LogInv' /\ AnswerIsOwn'
  BY <1>1 DEF IInv, LogInv, LogIsOfThisRun, AnswerIsOwn, At
<1>7. QED
  BY <1>3, <1>4, <1>5, <1>6 DEF IInv

\* A frame is on the line, while no call has failed, only for the call that
\* waits for its answer; it is the frame the STM32 waits for.
LEMMA FrameOnLine ==
  ASSUME IInv, line # <<>>
  PROVE  /\ Head(line) \in AllFrames
         /\ Head(line).i \in 1 .. Len(Frames(Head(line).op))
         /\ Head(line).what = Frames(Head(line).op)[Head(line).i]
         /\ Tail(line) \in Seq(AllFrames)
         /\ \A n \in 1 .. Len(Tail(line)) :
              /\ Tail(line)[n].i \in 1 .. Len(Frames(Tail(line)[n].op))
              /\ Tail(line)[n].what = Frames(Tail(line)[n].op)[Tail(line)[n].i]
         /\ clean /\ ~ At({"low", "print"}) =>
              /\ At({"ack"}) /\ OnTheLine
              /\ Head(line) = Frame /\ Tail(line) = <<>>
<1>1. line \in Seq(AllFrames)
  BY DEF IInv, TypeOK
<1>2. /\ Head(line) \in AllFrames /\ Head(line) = line[1]
      /\ Tail(line) \in Seq(AllFrames)
      /\ Len(line) \in Nat \ {0} /\ Len(Tail(line)) = Len(line) - 1
      /\ \A n \in 1 .. Len(line) - 1 : Tail(line)[n] = line[n + 1]
  BY <1>1, Tailed
<1>3. /\ Head(line).i \in 1 .. Len(Frames(Head(line).op))
      /\ Head(line).what = Frames(Head(line).op)[Head(line).i]
  BY <1>2 DEF IInv, CallInv
<1>4. ASSUME NEW n \in 1 .. Len(Tail(line))
      PROVE  /\ Tail(line)[n].i \in 1 .. Len(Frames(Tail(line)[n].op))
             /\ Tail(line)[n].what = Frames(Tail(line)[n].op)[Tail(line)[n].i]
  <2>1. n + 1 \in 1 .. Len(line) /\ Tail(line)[n] = line[n + 1]
    BY <1>2
  <2>2. QED
    BY <2>1 DEF IInv, CallInv
<1>5. ASSUME clean, ~ At({"low", "print"})
      PROVE  At({"ack"}) /\ OnTheLine
  <2>1. ~ At({"idle", "sleep", "clear", "send", "data"})
    BY <1>5 DEF IInv, StepInv, CallInv, At, Nothing, Resets
  <2>2. At({"ack"})
    BY <1>5, <2>1, CallFields DEF IInv, At
  <2>3. QED
    BY <1>5, <2>2 DEF IInv, StepInv, Answered, Refused
<1>6. OnTheLine => Head(line) = Frame /\ Tail(line) = <<>>
  BY DEF OnTheLine
<1>7. QED
  BY <1>2, <1>3, <1>4, <1>5, <1>6

\* The frame of the call that waits for an answer is one of its frames.
LEMMA FrameFields ==
  ASSUME IInv, At({"send", "ack"})
  PROVE  /\ Frame \in AllFrames
         /\ Frame.op = call.op /\ Frame.i = call.i /\ Frame.id = call.id
         /\ Frame.what = Frames(call.op)[call.i]
         /\ Frame.what \in LoaderModes \ {"lost"}
         /\ call.op \in Ops /\ call.i \in 1 .. Len(Frames(call.op))
         /\ Frame.what = "len" <=> call.op = "read" /\ IsLast(Frame)
         /\ IsLast(Frame) <=> call.i = Len(Frames(call.op))
         /\ ~ IsLast(Frame) =>
              /\ call.i + 1 \in 1 .. Len(Frames(call.op))
              /\ Frames(call.op)[call.i + 1] \in LoaderModes \ {"lost"}
<1>1. call.op \in Ops /\ call.i \in 1 .. Len(Frames(call.op))
  BY DEF IInv, CallInv, At
<1>2. /\ Frames(call.op)[call.i] \in LoaderModes \ {"lost"}
      /\ call.i \in 1 .. 3
      /\ Len(Frames(call.op)) \in 0 .. 3
      /\ Frames(call.op)[call.i] = "len" <=> call.op = "read" /\ call.i = 3
      /\ call.op = "read" => Len(Frames(call.op)) = 3
  BY <1>1, FramesAre
<1>3. /\ Frame.op = call.op /\ Frame.i = call.i /\ Frame.id = call.id
      /\ Frame.what = Frames(call.op)[call.i]
  BY DEF Frame
<1>4. Frame \in AllFrames
  BY <1>1, <1>2, CallFields DEF IInv, Frame, AllFrames
<1>5. IsLast(Frame) <=> call.i = Len(Frames(call.op))
  BY <1>3 DEF IsLast
<1>6. call.i # Len(Frames(call.op)) => call.i + 1 \in 1 .. Len(Frames(call.op))
  BY <1>1, <1>2
<1>7. call.i # Len(Frames(call.op)) =>
        Frames(call.op)[call.i + 1] \in LoaderModes \ {"lost"}
  BY <1>1, <1>6, FramesAre
<1>8. Frame.what = "len" <=> call.op = "read" /\ call.i = Len(Frames(call.op))
  BY <1>2, <1>3
<1>9. QED
  BY <1>1, <1>2, <1>3, <1>4, <1>5, <1>6, <1>7, <1>8

\* A frame is lost: the call will wait for its answer in vain.
LEMMA LoseFrameStep ==
  ASSUME IInv, LoseFrame
  PROVE  IInv'
<1>1. /\ line # <<>> /\ line' = Tail(line)
      /\ UNCHANGED <<pipe, wire, stm, call, activated, last, clean, done,
                     unfinished, returned>>
  BY DEF LoseFrame
<1>2. TypeOK'
  BY <1>1, FrameOnLine DEF IInv, TypeOK
<1>3. CallInv'
  BY <1>1, FrameOnLine, CallStays DEF IInv, CallInv
<1>4. StepInv'
  <2>1. CASE ~ clean \/ At({"low", "print"})
    BY <1>1, <2>1 DEF StepInv, At
  <2>2. CASE clean /\ ~ At({"low", "print"})
    <3>1. At({"ack"}) /\ OnTheLine /\ line' = <<>>
      BY <1>1, <2>2, FrameOnLine
    <3>2. stm.mode \in LoaderModes
      BY <3>1, FrameFields DEF OnTheLine, Awaits, At
    <3>3. /\ pipe' = <<>> /\ wire' = <<>>
      BY <1>1, <3>1 DEF OnTheLine
    <3>4. Refused'
      BY <1>1, <3>1, <3>2, <3>3 DEF Refused, AllAre, InFlight
    <3>5. QED
      BY <1>1, <2>2, <3>1, <3>4 DEF IInv, StepInv, At
  <2>3. QED
    BY <2>1, <2>2
<1>5. LogInv' /\ AnswerIsOwn'
  BY <1>1 DEF IInv, LogInv, LogIsOfThisRun, AnswerIsOwn, At
<1>6. QED
  BY <1>2, <1>3, <1>4, <1>5 DEF IInv

\* The STM32 does what the frame asks for and answers.
LEMMA ObeyStep ==
  ASSUME IInv, Obey
  PROVE  IInv'
<1> DEFINE f == Head(line)
<1>1. /\ line # <<>> /\ line' = Tail(line)
      /\ stm' = [stm EXCEPT !.op = f.op, !.mode = IF IsLast(f) THEN "cmd"
                                                  ELSE Frames(f.op)[f.i + 1]]
      /\ wire' = wire \o Reply(f)
      /\ done' = IF IsLast(f) THEN done \union {f.id} ELSE done
      /\ UNCHANGED <<pipe, call, activated, last, clean, unfinished, returned>>
  BY DEF Obey
<1>2. /\ f \in AllFrames /\ f.op \in Ops /\ f.id \in Ids
      /\ f.i \in 1 .. Len(Frames(f.op)) /\ f.what = Frames(f.op)[f.i]
      /\ f.what = "len" => f.op = "read"
  <2>1. /\ f \in AllFrames
        /\ f.i \in 1 .. Len(Frames(f.op)) /\ f.what = Frames(f.op)[f.i]
    BY <1>1, FrameOnLine
  <2>2. f.op \in Ops /\ f.id \in Ids
    BY <2>1 DEF AllFrames
  <2>3. QED
    BY <2>1, <2>2, FramesAre
<1>3. /\ stm'.id = stm.id /\ stm'.op = f.op
      /\ stm'.mode = IF IsLast(f) THEN "cmd" ELSE Frames(f.op)[f.i + 1]
  BY <1>1 DEF IInv, TypeOK
<1>4. TypeOK'
  <2>1. ~ IsLast(f) => f.i + 1 \in 1 .. Len(Frames(f.op))
    BY <1>2, FramesAre DEF IsLast
  <2>2. stm'.mode \in Modes
    BY <1>2, <1>3, <2>1, FramesAre DEF Modes, LoaderModes
  <2>3. stm' \in [mode : Modes, op : Ops, id : Ids]
    BY <1>1, <1>2, <1>3, <2>2 DEF IInv, TypeOK
  <2>4. wire' \in Seq(AllBytes)
    <3>1. Reply(f) \in Seq([what : {"ack", "data"}, id : {f.id}])
      BY <1>2, ReplyIs
    <3>2. [what : {"ack", "data"}, id : {f.id}] \subseteq AllBytes
      BY <1>2 DEF AllBytes
    <3>3. Reply(f) \in Seq(AllBytes)
      BY <3>1, <3>2, SeqMonotonic
    <3>4. QED
      BY <1>1, <3>3 DEF IInv, TypeOK
  <2>5. done' \subseteq Ids
    BY <1>1, <1>2 DEF IInv, TypeOK
  <2>6. line' \in Seq(AllFrames)
    BY <1>1, FrameOnLine
  <2>7. QED
    BY <1>1, <2>3, <2>4, <2>5, <2>6 DEF IInv, TypeOK
<1>5. CallInv'
  BY <1>1, FrameOnLine DEF IInv, CallInv, At
<1>6. StepInv'
  <2>1. CASE ~ clean \/ At({"low", "print"})
    BY <1>1, <2>1 DEF StepInv, At
  <2>2. CASE clean /\ ~ At({"low", "print"})
    <3>1. /\ At({"ack"}) /\ OnTheLine /\ line' = <<>> /\ f = Frame
          /\ pipe = <<>> /\ wire = <<>> /\ call.op # "get"
      BY <1>1, <2>2, FrameOnLine DEF OnTheLine, IInv, CallInv
    <3>2. At({"send", "ack"})
      BY <3>1 DEF At
    <3>3. /\ Frame' = Frame /\ Own({"ack", "data"})' = Own({"ack", "data"})
          /\ Own({"ack", "data"}) = [what : {"ack", "data"}, id : {f.id}]
      <4>1. f.id = call.id
        BY <3>1, <3>2, FrameFields
      <4>2. QED
        BY <1>1, <4>1 DEF Frame, Own
    <3>4. /\ wire' = Reply(f) /\ wire' \in Seq(Own({"ack", "data"}))
          /\ pipe' = <<>> /\ pipe' \in Seq(Own({"ack", "data"}))
      <4>1. Reply(f) \in Seq(Own({"ack", "data"}))
        BY <1>2, <3>3, ReplyIs
      <4>2. QED
        BY <1>1, <3>1, <4>1
    <3>5. InFlight' <= IF Frame.what = "len" THEN ReadSize + 1 ELSE 1
      <4>1. Len(wire') = IF Frame.what = "len" THEN ReadSize + 1 ELSE 1
        BY <1>2, <3>1, <3>2, <3>4, ReplyIs, FrameFields
      <4>2. Len(pipe') = 0
        BY <3>4
      <4>3. QED
        BY <4>1, <4>2, CapacityAssumption DEF InFlight
    <3>6. HasObeyed'
      BY <1>1, <1>3, <3>1, <3>2, <3>3, FrameFields DEF HasObeyed, IsLast
    <3>7. Answered'
      BY <3>1, <3>3, <3>4, <3>5, <3>6 DEF Answered, AllAre
    <3>8. QED
      BY <1>1, <2>2, <3>1, <3>7 DEF IInv, StepInv, At
  <2>3. QED
    BY <2>1, <2>2
<1>7. LogInv'
  BY <1>1, <1>3 DEF IInv, LogInv, LogIsOfThisRun, At
<1>8. AnswerIsOwn'
  BY <1>1 DEF IInv, AnswerIsOwn
<1>9. QED
  BY <1>4, <1>5, <1>6, <1>7, <1>8 DEF IInv

\* The STM32 refuses: the call will see it.
LEMMA RefuseStep ==
  ASSUME IInv, Refuse
  PROVE  IInv'
<1>1. /\ line # <<>> /\ line' = Tail(line)
      /\ stm' = [stm EXCEPT !.mode = "cmd"]
      /\ wire' = Append(wire, Byte("nack", Head(line).id))
      /\ UNCHANGED <<pipe, call, activated, last, clean, done, unfinished,
                     returned>>
  BY DEF Refuse
<1>2. /\ stm'.id = stm.id /\ stm'.mode = "cmd"
      /\ stm' \in [mode : Modes, op : Ops, id : Ids]
  BY <1>1 DEF IInv, TypeOK, Modes, LoaderModes
<1>3. Head(line).id \in Ids
  BY <1>1, FrameOnLine DEF AllFrames
<1>4. TypeOK'
  <2>1. Byte("nack", Head(line).id) \in AllBytes
    BY <1>3 DEF Byte, AllBytes
  <2>2. wire' \in Seq(AllBytes)
    BY <1>1, <2>1, Appended DEF IInv, TypeOK
  <2>3. QED
    BY <1>1, <1>2, <2>2, FrameOnLine DEF IInv, TypeOK
<1>5. CallInv'
  BY <1>1, FrameOnLine DEF IInv, CallInv, At
<1>6. StepInv'
  <2>1. CASE ~ clean \/ At({"low", "print"})
    BY <1>1, <2>1 DEF StepInv, At
  <2>2. CASE clean /\ ~ At({"low", "print"})
    <3>1. /\ At({"ack"}) /\ OnTheLine /\ line' = <<>> /\ Head(line) = Frame
          /\ pipe = <<>> /\ wire = <<>>
      BY <1>1, <2>2, FrameOnLine DEF OnTheLine
    <3>2. Byte("nack", Head(line).id) \in Own({"nack"})'
      BY <1>1, <3>1 DEF Byte, Own, Frame
    <3>3. /\ wire' = <<Byte("nack", Head(line).id)>> /\ pipe' = <<>>
      BY <1>1, <3>1
    <3>4. Refused'
      BY <1>2, <3>1, <3>2, <3>3 DEF Refused, AllAre, InFlight, LoaderModes
    <3>5. QED
      BY <1>1, <2>2, <3>1, <3>4 DEF IInv, StepInv, At
  <2>3. QED
    BY <2>1, <2>2
<1>7. LogInv' /\ AnswerIsOwn'
  BY <1>1, <1>2 DEF IInv, LogInv, LogIsOfThisRun, AnswerIsOwn, At
<1>8. QED
  BY <1>4, <1>5, <1>6, <1>7 DEF IInv

\* A frame can confuse the STM32 only after a call has failed.
LEMMA ConfuseStep ==
  ASSUME IInv, Confuse
  PROVE  IInv'
<1>1. /\ line # <<>> /\ ~ Expected(Head(line)) /\ line' = Tail(line)
      /\ stm' = [stm EXCEPT !.mode = "lost"] \/ stm' = stm
      /\ UNCHANGED <<pipe, wire, call, activated, last, clean, done,
                     unfinished, returned>>
  BY DEF Confuse
<1>2. stm'.id = stm.id /\ stm' \in [mode : Modes, op : Ops, id : Ids]
  BY <1>1 DEF IInv, TypeOK, Modes, LoaderModes
<1>3. ~ clean \/ At({"low", "print"})
  <2> SUFFICES ASSUME clean, ~ At({"low", "print"}) PROVE FALSE
    OBVIOUS
  <2>1. OnTheLine /\ Head(line) = Frame
    BY <1>1, FrameOnLine
  <2>2. Expected(Head(line))
    BY <2>1 DEF OnTheLine, Awaits, Expected, Frame
  <2>3. QED
    BY <1>1, <2>2
<1>4. TypeOK'
  BY <1>1, <1>2, FrameOnLine DEF IInv, TypeOK
<1>5. CallInv'
  BY <1>1, FrameOnLine DEF IInv, CallInv, At
<1>6. StepInv'
  BY <1>1, <1>3 DEF StepInv, At
<1>7. LogInv' /\ AnswerIsOwn'
  BY <1>1, <1>2 DEF IInv, LogInv, LogIsOfThisRun, AnswerIsOwn, At
<1>8. QED
  BY <1>4, <1>5, <1>6, <1>7 DEF IInv

\* The program prints, when it runs; in a call only a restart sees it.
LEMMA PrintTextStep ==
  ASSUME IInv, PrintText
  PROVE  IInv'
<1>1. /\ stm.mode = "app" /\ wire' = <<Byte("text", stm.id)>>
      /\ UNCHANGED <<pipe, line, stm, call, activated, last, clean, done,
                     unfinished, returned>>
  BY DEF PrintText
<1>2. wire' \in Seq(Prints) /\ wire' \in Seq(AllBytes)
  BY <1>1, CallFields DEF IInv, Prints, Byte, AllBytes
<1>3. TypeOK'
  BY <1>1, <1>2 DEF IInv, TypeOK
<1>4. CallInv'
  BY <1>1 DEF IInv, CallInv, At
<1>5. StepInv'
  <2> SUFFICES ASSUME clean PROVE StepInv'
    BY <1>1 DEF StepInv
  <2>1. ~ At({"data"}) /\ ~ At({"sleep"}) /\ ~ (At({"clear"}) /\ call.op = "activate")
    BY <1>1 DEF IInv, StepInv
  <2>2. ~ At({"send"})
    <3>1. At({"send"}) => Frame.what \in LoaderModes /\ stm.mode = Frame.what
      BY FrameFields DEF IInv, StepInv, Awaits, At
    <3>2. QED
      BY <1>1, <3>1 DEF LoaderModes
  <2>3. ~ At({"ack"})
    <3> SUFFICES ASSUME At({"ack"}) PROVE FALSE
      OBVIOUS
    <3>1. At({"send", "ack"})
      BY DEF At
    <3>2. stm.mode \in LoaderModes
      BY <3>1, FrameFields
         DEF IInv, StepInv, OnTheLine, Awaits, Answered, HasObeyed, Refused, LoaderModes
    <3>3. QED
      BY <1>1, <3>2 DEF LoaderModes
  <2>4. At({"idle"}) => ~ activated
    BY <1>1 DEF IInv, StepInv
  <2>5. QED
    BY <1>1, <1>2, <2>1, <2>2, <2>3, <2>4, CallStays DEF IInv, StepInv, AllAre, At
<1>6. LogInv' /\ AnswerIsOwn'
  BY <1>1 DEF IInv, LogInv, LogIsOfThisRun, AnswerIsOwn, At
<1>7. QED
  BY <1>3, <1>4, <1>5, <1>6 DEF IInv

-----------------------------------------------------------------------------
(* Every step keeps the invariant: the K210 *)

\* What calls there are.
Calls ==
  [op : Ops \union {"none"}, id : Ids, i : 1 .. 3, short : BOOLEAN,
   seen : 0 .. Capacity, took : SUBSET Ids,
   pc : {"idle", "low", "sleep", "clear", "send", "print", "ack", "data"}]

\* The pipe holds no more than its capacity, and a count of bytes remembers it.
LEMMA PipeHolds ==
  ASSUME TypeOK
  PROVE  /\ Len(pipe) \in 0 .. Capacity
         /\ pipe # <<>> => Len(pipe) - 1 \in 0 .. Capacity
<1>1. pipe \in Seq(AllBytes) /\ Len(pipe) \in Nat /\ Len(pipe) <= Capacity
  BY DEF TypeOK
<1>2. pipe # <<>> => Len(pipe) # 0
  BY <1>1, EmptySeq
<1>3. QED
  BY <1>1, <1>2, CapacityAssumption

\* What a new call is, wherever it begins.
LEMMA FreshIs ==
  ASSUME TypeOK, last.id < MaxCalls, NEW o \in Ops, NEW place \in {"send", "low"},
         call' = [Fresh(o) EXCEPT !.pc = place]
  PROVE  /\ last.id + 1 \in Ids
         /\ call' \in Calls
         /\ call'.op = o /\ call'.pc = place /\ call'.i = 1 /\ call'.took = {}
<1>1. last.id + 1 \in Ids /\ 0 \in Ids
  BY BoundAssumption DEF TypeOK, Ids
<1>2. Idle \in Calls /\ Idle.i = 1 /\ Idle.took = {}
  BY <1>1, CapacityAssumption DEF Idle, Calls
<1>3. Fresh(o) \in Calls /\ Fresh(o).op = o /\ Fresh(o).i = 1 /\ Fresh(o).took = {}
  BY <1>1, <1>2 DEF Fresh, Calls
<1>4. QED
  BY <1>1, <1>3 DEF Calls

\* A command that goes on to send finds the STM32 waiting for it, and nothing
\* on the way, if no call has failed.
LEMMA SendStarts ==
  ASSUME IInv, ~ Calling, activated, last.id < MaxCalls,
         NEW o \in Commands \union {"get"},
         call' = [Fresh(o) EXCEPT !.pc = "send"],
         UNCHANGED <<pipe, wire, line, stm, activated, last, clean, done,
                     unfinished, returned>>
  PROVE  IInv'
<1>1. o \in Ops /\ o # "restart" /\ o # "activate"
  BY DEF Ops, Commands
<1>2. call' \in Calls
  BY <1>1, FreshIs DEF IInv
<1>3. call'.op = o /\ call'.pc = "send" /\ call'.i = 1 /\ call'.took = {}
  BY <1>1, FreshIs DEF IInv
<1>4. 1 \in 1 .. Len(Frames(o)) /\ Frames(o)[1] = "cmd"
  BY <1>1, FramesAre
<1>5. TypeOK'
  BY <1>2 DEF IInv, TypeOK, Calls
<1>6. CallInv'
  BY <1>1, <1>3, <1>4 DEF IInv, CallInv, At
<1>7. StepInv'
  <2> SUFFICES ASSUME clean PROVE StepInv'
    BY DEF StepInv
  <2>1. stm.mode = "cmd" /\ Nothing
    BY DEF IInv, StepInv, At, Calling
  <2>2. Nothing'
    BY <2>1 DEF Nothing
  <2>3. Awaits'
    BY <1>3, <1>4, <2>1 DEF Awaits, Frame
  <2>4. QED
    BY <1>3, <2>2, <2>3 DEF StepInv, At
<1>8. LogInv' /\ AnswerIsOwn'
  BY <1>3 DEF IInv, LogInv, LogIsOfThisRun, AnswerIsOwn, At
<1>9. QED
  BY <1>5, <1>6, <1>7, <1>8 DEF IInv

\* read_memory, write_memory and erase may return before they send anything.
LEMMA StartCommandStep ==
  ASSUME IInv, StartCommand
  PROVE  IInv'
<1>1. /\ ~ Calling /\ activated /\ last.id < MaxCalls
      /\ UNCHANGED <<pipe, wire, line, stm, activated, clean, done, unfinished,
                     returned>>
  BY DEF StartCommand, MaySend
<1>2. PICK o \in Commands, size \in {"zero", "legal", "bad"} :
        \/ /\ last' = [op |-> o, id |-> last.id + 1, ok |-> size # "bad",
                       sent |-> FALSE, took |-> {}, clean |-> clean]
           /\ call' = call
        \/ call' = [Fresh(o) EXCEPT !.pc = "send"] /\ last' = last
  BY DEF StartCommand
<1>3. CASE call' = [Fresh(o) EXCEPT !.pc = "send"] /\ last' = last
  BY <1>1, <1>3, SendStarts
<1>4. CASE /\ last' = [op |-> o, id |-> last.id + 1, ok |-> size # "bad",
                       sent |-> FALSE, took |-> {}, clean |-> clean]
           /\ call' = call
  <2>1. last.id + 1 \in Ids /\ o \in Ops
    BY <1>1, BoundAssumption DEF IInv, TypeOK, Ids, Ops
  <2>2. (size # "bad") \in BOOLEAN
    OBVIOUS
  <2>3. last' \in [op : Ops, id : Ids, ok : BOOLEAN, sent : BOOLEAN,
                   took : SUBSET Ids, clean : BOOLEAN]
    BY <1>4, <2>1, <2>2 DEF IInv, TypeOK
  <2>4. TypeOK'
    BY <1>1, <1>4, <2>3 DEF IInv, TypeOK
  <2>5. CallInv'
    BY <1>1, <1>4, CallStays DEF IInv, CallInv
  <2>6. StepInv'
    BY <1>1, <1>4, CallStays
       DEF IInv, StepInv, OnTheLine, Answered, Refused, Nothing, AllAre, InFlight
  <2>7. LogInv' /\ AnswerIsOwn'
    BY <1>1, <1>4 DEF IInv, LogInv, LogIsOfThisRun, AnswerIsOwn, At
  <2>8. QED
    BY <2>4, <2>5, <2>6, <2>7 DEF IInv
<1>5. QED
  BY <1>2, <1>3, <1>4

\* GET for the print of the version.
LEMMA StartGetStep ==
  ASSUME IInv, StartGet
  PROVE  IInv'
  BY SendStarts DEF StartGet, MaySend

\* A restart or an activation begins, whatever is going on at the other end.
LEMMA StartResetStep ==
  ASSUME IInv, StartReset
  PROVE  IInv'
<1>1. /\ ~ Calling /\ last.id < MaxCalls
      /\ UNCHANGED <<pipe, wire, line, stm, activated, last, clean, done,
                     unfinished, returned>>
  BY DEF StartReset
<1>2. PICK o \in Resets : call' = [Fresh(o) EXCEPT !.pc = "low"]
  BY DEF StartReset
<1>3. o \in Ops
  BY DEF Ops
<1>4. call' \in Calls
  BY <1>1, <1>2, <1>3, FreshIs DEF IInv
<1>5. call'.op = o /\ call'.pc = "low" /\ call'.i = 1 /\ call'.took = {}
  BY <1>1, <1>2, <1>3, FreshIs DEF IInv
<1>6. TypeOK'
  BY <1>1, <1>4 DEF IInv, TypeOK, Calls
<1>7. CallInv'
  BY <1>1, <1>5 DEF IInv, CallInv, At
<1>8. StepInv' /\ LogInv' /\ AnswerIsOwn'
  BY <1>1, <1>5 DEF IInv, StepInv, LogInv, LogIsOfThisRun, AnswerIsOwn, At
<1>9. QED
  BY <1>6, <1>7, <1>8 DEF IInv

\* The reset pin goes low: the STM32 forgets all, and all failures are over.
LEMMA PinLowStep ==
  ASSUME IInv, PinLow
  PROVE  IInv'
<1>1. /\ call.pc = "low" /\ line' = <<>> /\ clean' = TRUE /\ returned' = FALSE
      /\ stm' = [stm EXCEPT !.mode = "off"]
      /\ call' = [call EXCEPT !.pc = "sleep"]
      /\ UNCHANGED <<pipe, wire, activated, last, done, unfinished>>
  BY DEF PinLow, At
<1>2. /\ stm'.mode = "off" /\ stm' \in [mode : Modes, op : Ops, id : Ids]
      /\ call'.pc = "sleep" /\ call'.op = call.op /\ call'.i = call.i
      /\ call'.took = call.took
  BY <1>1 DEF IInv, TypeOK, Modes
<1>3. TypeOK'
  <2>1. call' \in Calls
    BY <1>1 DEF IInv, TypeOK, Calls
  <2>2. line' \in Seq(AllFrames)
    BY <1>1
  <2>3. clean' \in BOOLEAN /\ returned' \in BOOLEAN
    BY <1>1
  <2>4. QED
    BY <1>1, <1>2, <2>1, <2>2, <2>3 DEF IInv, TypeOK, Calls
<1>4. CallInv'
  BY <1>1, <1>2 DEF IInv, CallInv, At
<1>5. StepInv' /\ LogInv' /\ AnswerIsOwn'
  BY <1>1, <1>2 DEF IInv, StepInv, LogInv, LogIsOfThisRun, AnswerIsOwn, At
<1>6. QED
  BY <1>3, <1>4, <1>5 DEF IInv

\* The reset pin goes high when the last byte has arrived.
LEMMA PinHighStep ==
  ASSUME IInv, PinHigh
  PROVE  IInv'
<1>1. /\ call.pc = "sleep" /\ wire = <<>>
      /\ stm' = [mode |-> IF call.op = "activate" THEN "hello" ELSE "app",
                 op |-> call.op, id |-> call.id]
      /\ call' = [call EXCEPT !.pc = "clear"]
      /\ UNCHANGED <<pipe, wire, line, activated, last, clean, done, unfinished,
                     returned>>
  BY DEF PinHigh, At
<1>2. /\ call'.pc = "clear" /\ call'.op = call.op /\ call'.i = call.i
      /\ call'.took = call.took /\ call'.id = call.id
      /\ call.op \in Resets /\ call.i = 1 /\ call.took = {}
  BY <1>1 DEF IInv, TypeOK, CallInv, At
<1>3. stm' \in [mode : Modes, op : Ops, id : Ids]
  BY <1>1, <1>2, CallFields DEF IInv, Modes, LoaderModes, Ops
<1>4. TypeOK'
  BY <1>1, <1>2, <1>3 DEF IInv, TypeOK
<1>5. CallInv'
  BY <1>1, <1>2 DEF IInv, CallInv, At
<1>6. StepInv'
  <2>1. clean => line = <<>>
    BY <1>1 DEF IInv, StepInv, At
  <2>2. call.op = "activate" => stm'.mode = "hello"
    BY <1>1
  <2>3. call.op = "restart" => stm'.mode = "app"
    BY <1>1
  <2>4. wire' \in Seq(Prints')
    BY <1>1
  <2>5. QED
    BY <1>1, <1>2, <2>1, <2>2, <2>3, <2>4 DEF StepInv, At
<1>7. LogInv' /\ AnswerIsOwn'
  BY <1>1, <1>2 DEF IInv, LogInv, LogIsOfThisRun, AnswerIsOwn, At
<1>8. QED
  BY <1>4, <1>5, <1>6, <1>7 DEF IInv

\* The pipe is cleared: what is left of the time before the reset is gone.
LEMMA ClearPipeStep ==
  ASSUME IInv, ClearPipe
  PROVE  IInv'
<1>1. /\ call.pc = "clear" /\ pipe' = <<>>
      /\ UNCHANGED <<wire, line, stm, done, unfinished, returned>>
      /\ call.op \in Resets /\ call.i = 1 /\ call.took = {}
      /\ ~ returned
  BY DEF ClearPipe, Cleared, At, IInv, CallInv, LogInv
<1>2. pipe' \in Seq(AllBytes) /\ Len(pipe') <= Capacity
  BY <1>1, CapacityAssumption
<1>3. CASE call.op = "activate"
  <2>1. /\ call' = [call EXCEPT !.pc = "send"]
        /\ UNCHANGED <<activated, last, clean>>
    BY <1>3 DEF ClearPipe
  <2>2. /\ call'.pc = "send" /\ call'.op = "activate" /\ call'.i = 1
        /\ call'.took = {}
    BY <1>1, <1>3, <2>1 DEF IInv, TypeOK
  <2>3. "activate" \in Ops /\ 1 \in 1 .. Len(Frames("activate"))
        /\ Frames("activate")[1] = "hello"
    <3>1. "activate" \in Ops
      BY DEF Ops, Resets
    <3>2. QED
      BY <3>1, FramesAre
  <2>4. TypeOK'
    BY <1>1, <1>2, <2>1 DEF IInv, TypeOK
  <2>5. CallInv'
    BY <1>1, <2>1, <2>2, <2>3 DEF IInv, CallInv, At
  <2>6. StepInv'
    <3>1. clean => stm.mode = "hello" /\ line = <<>> /\ wire = <<>>
      BY <1>1, <1>3 DEF IInv, StepInv, At
    <3>2. clean => Nothing' /\ Awaits'
      BY <1>1, <2>2, <2>3, <3>1 DEF Nothing, Awaits, Frame
    <3>3. QED
      BY <2>1, <2>2, <3>2 DEF StepInv, At
  <2>7. LogInv' /\ AnswerIsOwn'
    BY <1>1, <2>1, <2>2 DEF IInv, LogInv, LogIsOfThisRun, AnswerIsOwn, At
  <2>8. QED
    BY <2>4, <2>5, <2>6, <2>7 DEF IInv
<1>4. CASE call.op = "restart"
  <2>1. /\ activated' = FALSE /\ call' = Idle
        /\ clean' = (clean /\ TRUE)
        /\ last' = [op |-> call.op, id |-> call.id, ok |-> TRUE, sent |-> TRUE,
                    took |-> {}, clean |-> clean]
    BY <1>4 DEF ClearPipe, Return
  <2>2. clean' = clean
    BY <2>1 DEF IInv, TypeOK
  <2>3. TypeOK'
    <3>1. call' \in [op : Ops \union {"none"}, id : Ids, i : 1 .. 3, short : BOOLEAN,
                     seen : 0 .. Capacity, took : SUBSET Ids,
                     pc : {"idle", "low", "sleep", "clear", "send", "print", "ack", "data"}]
      BY <2>1, BoundAssumption, CapacityAssumption DEF Idle, Ids
    <3>2. last' \in [op : Ops, id : Ids, ok : BOOLEAN, sent : BOOLEAN,
                     took : SUBSET Ids, clean : BOOLEAN]
      BY <1>1, <2>1, CallFields DEF IInv, TypeOK, Ops
    <3>3. activated' \in BOOLEAN
      BY <2>1
    <3>4. QED
      BY <1>1, <1>2, <2>2, <3>1, <3>2, <3>3 DEF IInv, TypeOK
  <2>4. CallInv'
    BY <1>1, <2>1 DEF IInv, CallInv, At, Idle
  <2>5. StepInv'
    <3>1. clean => stm.mode = "app" /\ line = <<>> /\ wire \in Seq(Prints)
      BY <1>1, <1>4 DEF IInv, StepInv, At
    <3>2. pipe' \in Seq(Prints') /\ Prints' = Prints
      BY <1>1 DEF Prints
    <3>3. QED
      BY <1>1, <2>1, <2>2, <3>1, <3>2 DEF StepInv, At, Idle, AllAre
  <2>6. LogInv' /\ AnswerIsOwn'
    BY <1>1, <1>4, <2>1 DEF IInv, LogInv, LogIsOfThisRun, AnswerIsOwn, At, Idle
  <2>7. QED
    BY <2>3, <2>4, <2>5, <2>6 DEF IInv
<1>5. QED
  BY <1>1, <1>3, <1>4 DEF Resets

\* A frame is sent; the STM32 waits for it, if no call has failed.
LEMMA SendStep ==
  ASSUME IInv, Send
  PROVE  IInv'
<1>1. /\ call.pc = "send"
      /\ line' = Append(line, Frame)
      /\ call' = [call EXCEPT !.pc = IF call.op = "get" THEN "print" ELSE "ack",
                              !.short = FALSE, !.seen = Len(pipe)]
      /\ UNCHANGED <<pipe, wire, stm, activated, last, clean, done, unfinished,
                     returned>>
  BY DEF Send, At, Frame
<1>2. /\ call'.pc = IF call.op = "get" THEN "print" ELSE "ack"
      /\ call'.op = call.op /\ call'.i = call.i /\ call'.took = call.took
      /\ call'.id = call.id
  BY <1>1 DEF IInv, TypeOK
<1>3. /\ Frame \in AllFrames /\ Frame.i \in 1 .. Len(Frames(Frame.op))
      /\ Frame.what = Frames(Frame.op)[Frame.i]
  BY <1>1, FrameFields DEF At
<1>4. /\ line' \in Seq(AllFrames)
      /\ Len(line) \in Nat /\ Len(line') = Len(line) + 1
      /\ line'[Len(line) + 1] = Frame
      /\ \A n \in 1 .. Len(line) : line'[n] = line[n]
  BY <1>1, <1>3, Appended DEF IInv, TypeOK
<1>5. TypeOK'
  <2>1. Len(pipe) \in 0 .. Capacity
    BY PipeHolds DEF IInv
  <2>2. call' \in Calls
    BY <1>1, <2>1 DEF IInv, TypeOK, Calls
  <2>3. QED
    BY <1>1, <1>4, <2>2 DEF IInv, TypeOK, Calls
<1>6. CallInv'
  <2>1. \A n \in 1 .. Len(line') :
          /\ line'[n].i \in 1 .. Len(Frames(line'[n].op))
          /\ line'[n].what = Frames(line'[n].op)[line'[n].i]
    <3> SUFFICES ASSUME NEW n \in 1 .. Len(line')
                 PROVE  /\ line'[n].i \in 1 .. Len(Frames(line'[n].op))
                        /\ line'[n].what = Frames(line'[n].op)[line'[n].i]
      OBVIOUS
    <3>1. CASE n = Len(line) + 1
      BY <1>3, <1>4, <3>1
    <3>2. CASE n \in 1 .. Len(line)
      BY <1>4, <3>2 DEF IInv, CallInv
    <3>3. QED
      BY <1>4, <3>1, <3>2
  <2>2. QED
    BY <1>1, <1>2, <2>1 DEF IInv, CallInv, At
<1>7. StepInv'
  <2> SUFFICES ASSUME clean PROVE StepInv'
    BY <1>1 DEF StepInv
  <2>1. Nothing /\ Awaits /\ call.took \subseteq {call.id}
    BY <1>1 DEF IInv, StepInv, At
  <2>2. Frame' = Frame
    BY <1>2 DEF Frame
  <2>3. line' = <<Frame>>
    BY <1>1, <2>1 DEF Nothing
  <2>4. OnTheLine'
    BY <1>1, <1>2, <2>1, <2>2, <2>3 DEF OnTheLine, Nothing, Awaits
  <2>5. QED
    BY <1>1, <1>2, <2>1, <2>4 DEF StepInv, At
<1>8. LogInv' /\ AnswerIsOwn'
  BY <1>1, <1>2 DEF IInv, LogInv, LogIsOfThisRun, AnswerIsOwn, At
<1>9. QED
  BY <1>5, <1>6, <1>7, <1>8 DEF IInv

\* The poll has found too little: the call remembers that or how much there
\* was, nothing else.
LEMMA PollShortStep ==
  ASSUME IInv, PollShort
  PROVE  IInv'
<1>1. /\ \/ call' = [call EXCEPT !.seen = Len(pipe), !.short = FALSE]
         \/ call' = [call EXCEPT !.short = TRUE]
      /\ UNCHANGED <<pipe, wire, line, stm, activated, last, clean, done,
                     unfinished, returned>>
      /\ call.pc \in {"ack", "data"}
  BY DEF PollShort, At
<1>2. /\ call'.pc = call.pc /\ call'.op = call.op /\ call'.i = call.i
      /\ call'.took = call.took /\ call'.id = call.id
      /\ call' \in Calls
  <2>1. Len(pipe) \in 0 .. Capacity
    BY PipeHolds DEF IInv
  <2>2. QED
    BY <1>1, <2>1 DEF IInv, TypeOK, Calls
<1>3. /\ Frame' = Frame /\ (Awaits' <=> Awaits) /\ (HasObeyed' <=> HasObeyed)
      /\ Own({"nack"})' = Own({"nack"})
      /\ Own({"ack", "data"})' = Own({"ack", "data"})
  <2>1. Frame' = Frame
    BY <1>2 DEF Frame
  <2>2. Awaits' <=> Awaits
    BY <1>1, <1>2, <2>1 DEF Awaits
  <2>3. HasObeyed' <=> HasObeyed
    BY <1>1, <1>2, <2>1 DEF HasObeyed, IsLast
  <2>4. QED
    BY <1>2, <2>1, <2>2, <2>3 DEF Own
<1>4. TypeOK'
  BY <1>1, <1>2 DEF IInv, TypeOK, Calls
<1>5. CallInv'
  BY <1>1, <1>2 DEF IInv, CallInv, At
<1>6. StepInv'
  <2>1. (OnTheLine \/ Answered \/ Refused) => (OnTheLine \/ Answered \/ Refused)'
    BY <1>1, <1>3 DEF OnTheLine, Answered, Refused, AllAre, InFlight
  <2>2. QED
    BY <1>1, <1>2, <1>3, <2>1 DEF IInv, StepInv, At, AllAre, InFlight
<1>7. LogInv' /\ AnswerIsOwn'
  BY <1>1, <1>2 DEF IInv, LogInv, LogIsOfThisRun, AnswerIsOwn, At
<1>8. QED
  BY <1>4, <1>5, <1>6, <1>7 DEF IInv

\* What a record of a call that has returned is.
LEMMA CallReturns ==
  ASSUME IInv, ~ At({"idle"}), call.op \in Ops, NEW ok \in BOOLEAN,
         NEW took \in SUBSET Ids, Return(ok, took)
  PROVE  /\ call' = Idle /\ call' \in Calls
         /\ last' \in [op : Ops, id : Ids, ok : BOOLEAN, sent : BOOLEAN,
                       took : SUBSET Ids, clean : BOOLEAN]
         /\ last'.op = call.op /\ last'.id = call.id /\ last'.ok = ok
         /\ last'.took = took /\ last'.clean = clean
         /\ clean' \in BOOLEAN /\ (clean' <=> clean /\ ok)
<1>1. /\ call' = Idle
      /\ last' = [op |-> call.op, id |-> call.id, ok |-> ok, sent |-> TRUE,
                  took |-> took, clean |-> clean]
      /\ clean' = (clean /\ ok)
  BY DEF Return
<1>2. call' \in Calls
  BY <1>1, BoundAssumption, CapacityAssumption DEF Idle, Calls, Ids
<1>3. clean \in BOOLEAN
  BY DEF IInv, TypeOK
<1>4. last' \in [op : Ops, id : Ids, ok : BOOLEAN, sent : BOOLEAN,
                 took : SUBSET Ids, clean : BOOLEAN]
  BY <1>1, <1>3, CallFields DEF IInv
<1>5. clean' \in BOOLEAN
  BY <1>1, <1>3
<1>6. QED
  BY <1>1, <1>2, <1>4, <1>5

\* A call that fails is forgotten; nothing is promised until the next reset.
LEMMA ReturnFails ==
  ASSUME IInv, ~ At({"idle"}), call.op \in Ops, NEW took \in SUBSET Ids,
         Return(FALSE, took), pipe' \in Seq(AllBytes), Len(pipe') <= Capacity,
         UNCHANGED <<wire, line, stm, activated, done, unfinished, returned>>
  PROVE  IInv'
<1>1. /\ call' = Idle /\ call' \in Calls
      /\ last' \in [op : Ops, id : Ids, ok : BOOLEAN, sent : BOOLEAN,
                    took : SUBSET Ids, clean : BOOLEAN]
      /\ last'.ok = FALSE /\ clean' = FALSE
  BY CallReturns
<1>2. TypeOK'
  BY <1>1 DEF IInv, TypeOK, Calls
<1>3. CallInv'
  BY <1>1 DEF IInv, CallInv, At, Idle
<1>4. StepInv' /\ LogInv' /\ AnswerIsOwn'
  BY <1>1 DEF StepInv, LogInv, LogIsOfThisRun, AnswerIsOwn, At, Idle
<1>5. QED
  BY <1>2, <1>3, <1>4 DEF IInv

\* GET has printed what there was; as a call it counts as failed.
LEMMA PrintReceivedStep ==
  ASSUME IInv, PrintReceived
  PROVE  IInv'
<1>1. /\ call.pc = "print" /\ pipe' = <<>> /\ Return(FALSE, {})
      /\ UNCHANGED <<wire, line, stm, activated, done, unfinished, returned>>
  BY DEF PrintReceived, At, Cleared
<1>2. call.op \in Ops /\ ~ At({"idle"})
  BY <1>1 DEF IInv, CallInv, At, Ops
<1>3. pipe' \in Seq(AllBytes) /\ Len(pipe') <= Capacity
  BY <1>1, CapacityAssumption
<1>4. QED
  BY <1>1, <1>2, <1>3, ReturnFails

\* The call gives up, although the answer may be on its way.
LEMMA TimeoutStep ==
  ASSUME IInv, Timeout
  PROVE  IInv'
<1>1. /\ call.pc \in {"ack", "data"} /\ Return(FALSE, call.took)
      /\ UNCHANGED <<pipe, wire, line, stm, activated, done, unfinished, returned>>
  BY DEF Timeout, At
<1>2. call.op \in Ops /\ ~ At({"idle"}) /\ call.took \in SUBSET Ids
  BY <1>1, CallFields DEF IInv, CallInv, At, Ops, Commands
<1>3. pipe' \in Seq(AllBytes) /\ Len(pipe') <= Capacity
  BY <1>1 DEF IInv, TypeOK
<1>4. QED
  BY <1>1, <1>2, <1>3, ReturnFails

\* A byte read as an acknowledgement, while no call has failed, is part of the
\* answer to the last frame of this call, which the STM32 has obeyed.
LEMMA AckIsOwn ==
  ASSUME IInv, clean, At({"ack"}), pipe # <<>>, Head(pipe).what # "nack"
  PROVE  /\ Answered /\ Head(pipe).id = call.id
         /\ Tail(pipe) \in Seq(Own({"ack", "data"}))
         /\ wire \in Seq(Own({"ack", "data"}))
         /\ Frame.what = "len" => Len(Tail(pipe)) + Len(wire) <= ReadSize
         /\ Frame.what # "len" => Tail(pipe) = <<>> /\ wire = <<>>
<1>1. ~ OnTheLine
  BY DEF OnTheLine
<1>2. ~ Refused
  <2> SUFFICES ASSUME Refused PROVE FALSE
    OBVIOUS
  <2>1. Head(pipe) \in Own({"nack"})
    BY Tailed DEF Refused, AllAre
  <2>2. QED
    BY <2>1 DEF Own
<1>3. Answered
  BY <1>1, <1>2 DEF IInv, StepInv
<1>4. /\ Head(pipe) \in Own({"ack", "data"})
      /\ Tail(pipe) \in Seq(Own({"ack", "data"}))
      /\ Len(pipe) \in Nat \ {0} /\ Len(Tail(pipe)) = Len(pipe) - 1
      /\ wire \in Seq(Own({"ack", "data"})) /\ Len(wire) \in Nat
  BY <1>3, Tailed DEF Answered, AllAre
<1>5. Len(pipe) + Len(wire) <= IF Frame.what = "len" THEN ReadSize + 1 ELSE 1
  BY <1>3 DEF Answered, InFlight
<1>6. Frame.what = "len" => Len(Tail(pipe)) + Len(wire) <= ReadSize
  BY <1>4, <1>5, CapacityAssumption
<1>7. Frame.what # "len" => Len(Tail(pipe)) = 0 /\ Len(wire) = 0
  BY <1>4, <1>5
<1>8. Frame.what # "len" => Tail(pipe) = <<>> /\ wire = <<>>
  BY <1>4, <1>7, EmptySeq
<1>9. Head(pipe).id = call.id
  BY <1>4 DEF Own
<1>10. QED
  BY <1>3, <1>4, <1>6, <1>8, <1>9

\* The byte that ends a wait: the call goes on, or it returns what it read.
LEMMA ReceiveAckStep ==
  ASSUME IInv, ReceiveAck
  PROVE  IInv'
<1> DEFINE took == call.took \union {Head(pipe).id}
           more == call.i < Len(Frames(call.op))
<1>1. /\ call.pc = "ack" /\ Enough /\ pipe' = Tail(pipe)
      /\ UNCHANGED <<wire, line, stm, done, unfinished, returned>>
  BY DEF ReceiveAck, At
<1>2. PICK ok \in ReadsAsAck(Head(pipe)) :
        IF ok /\ (more \/ DataFollows(call.op))
        THEN /\ call' = [call EXCEPT !.took = took, !.short = FALSE,
                           !.seen = Len(pipe) - 1,
                           !.i = IF more THEN call.i + 1 ELSE call.i,
                           !.pc = IF more THEN "send" ELSE "data"]
             /\ UNCHANGED <<activated, last, clean>>
        ELSE /\ Return(ok, took)
             /\ activated' = (activated \/ (ok /\ call.op = "activate"))
  BY DEF ReceiveAck
<1>3. ok \in BOOLEAN /\ (ok => Head(pipe).what # "nack")
  BY DEF ReadsAsAck
<1>4. pipe # <<>>
  <2>1. Len(pipe) >= 1
    BY <1>1 DEF Enough, Needed
  <2>2. QED
    BY <2>1
<1>5. /\ Head(pipe) \in AllBytes /\ Tail(pipe) \in Seq(AllBytes)
      /\ Len(Tail(pipe)) <= Capacity
  <2>1. pipe \in Seq(AllBytes) /\ Len(pipe) <= Capacity
    BY DEF IInv, TypeOK
  <2>2. QED
    BY <1>4, <2>1, Tailed, CapacityAssumption
<1>6. took \in SUBSET Ids /\ Len(pipe) - 1 \in 0 .. Capacity
  BY <1>4, <1>5, CallFields, PipeHolds DEF IInv, AllBytes
<1>7. At({"ack"}) /\ At({"send", "ack"}) /\ ~ At({"idle"})
  BY <1>1 DEF At
<1>8. /\ call.op \in Ops /\ call.op # "get"
      /\ call.i \in 1 .. Len(Frames(call.op)) /\ Len(Frames(call.op)) \in 0 .. 3
      /\ call.op # "activate" => activated
      /\ (clean => call.took \subseteq {call.id})
  BY <1>1, <1>7, FramesAre DEF IInv, CallInv, StepInv, At
<1>9. (clean /\ ok) =>
        /\ Answered
        /\ took \subseteq {call.id}
        /\ Tail(pipe) \in Seq(Own({"ack", "data"}))
        /\ wire \in Seq(Own({"ack", "data"}))
        /\ Frame.what = "len" => Len(Tail(pipe)) + Len(wire) <= ReadSize
        /\ Frame.what # "len" => Tail(pipe) = <<>> /\ wire = <<>>
  BY <1>3, <1>4, <1>7, <1>8, AckIsOwn
<1>10. /\ Frame.what = "len" <=> call.op = "read" /\ ~ more
       /\ IsLast(Frame) <=> ~ more
  BY <1>7, <1>8, FrameFields
<1>11. CASE ok /\ more
  <2>1. /\ call' = [call EXCEPT !.took = took, !.short = FALSE,
                       !.seen = Len(pipe) - 1, !.i = call.i + 1, !.pc = "send"]
        /\ UNCHANGED <<activated, last, clean>>
    BY <1>2, <1>11
  <2>2. call.i + 1 \in 1 .. Len(Frames(call.op)) /\ call.i + 1 \in 1 .. 3
        /\ call.i + 1 # 1
    <3>1. ASSUME NEW i \in Nat, NEW length \in 0 .. 3, i \in 1 .. length, i < length
          PROVE  i + 1 \in 1 .. length /\ i + 1 \in 1 .. 3 /\ i + 1 # 1
      BY <3>1
    <3>2. call.i \in Nat
      BY <1>8
    <3>3. QED
      BY <1>8, <1>11, <3>1, <3>2
  <2>3. /\ call'.pc = "send" /\ call'.i = call.i + 1 /\ call'.took = took
        /\ call'.op = call.op /\ call'.id = call.id
    BY <2>1 DEF IInv, TypeOK
  <2>4. call' \in Calls
    BY <1>6, <2>1, <2>2 DEF IInv, TypeOK, Calls
  <2>5. TypeOK'
    BY <1>1, <1>5, <2>1, <2>4 DEF IInv, TypeOK, Calls
  <2>6. CallInv'
    BY <1>1, <1>8, <2>1, <2>2, <2>3 DEF IInv, CallInv, At
  <2>7. StepInv'
    <3> SUFFICES ASSUME clean PROVE StepInv'
      BY <2>1 DEF StepInv
    <3>1. /\ Answered /\ took \subseteq {call.id} /\ pipe' = <<>> /\ wire = <<>>
      BY <1>1, <1>9, <1>10, <1>11
    <3>2. Nothing'
      BY <1>1, <3>1 DEF Nothing, Answered
    <3>3. stm.mode = Frames(call.op)[call.i + 1] /\ stm.op = call.op
      BY <1>10, <1>11, <3>1 DEF Answered, HasObeyed
    <3>4. Awaits'
      BY <1>1, <2>3, <3>3 DEF Awaits, Frame
    <3>5. QED
      BY <2>3, <3>1, <3>2, <3>4 DEF StepInv, At
  <2>8. LogInv' /\ AnswerIsOwn'
    BY <1>1, <2>1, <2>3 DEF IInv, LogInv, LogIsOfThisRun, AnswerIsOwn, At
  <2>9. QED
    BY <2>5, <2>6, <2>7, <2>8 DEF IInv
<1>12. CASE ok /\ ~ more /\ call.op = "read"
  <2>1. /\ call' = [call EXCEPT !.took = took, !.short = FALSE,
                       !.seen = Len(pipe) - 1, !.i = call.i, !.pc = "data"]
        /\ UNCHANGED <<activated, last, clean>>
    BY <1>2, <1>12 DEF DataFollows
  <2>2. /\ call'.pc = "data" /\ call'.took = took
        /\ call'.op = "read" /\ call'.id = call.id
    BY <1>12, <2>1 DEF IInv, TypeOK
  <2>3. call' \in Calls
    BY <1>6, <2>1 DEF IInv, TypeOK, Calls
  <2>4. TypeOK'
    BY <1>1, <1>5, <2>1, <2>3 DEF IInv, TypeOK, Calls
  <2>5. CallInv'
    BY <1>1, <1>8, <1>12, <2>1, <2>2 DEF IInv, CallInv, At
  <2>6. StepInv'
    <3> SUFFICES ASSUME clean PROVE StepInv'
      BY <2>1 DEF StepInv
    <3>1. /\ Answered /\ took \subseteq {call.id}
          /\ pipe' \in Seq(Own({"ack", "data"})) /\ wire \in Seq(Own({"ack", "data"}))
          /\ Len(pipe') + Len(wire) <= ReadSize
      BY <1>1, <1>9, <1>10, <1>12
    <3>2. line = <<>> /\ stm.mode = "cmd" /\ call.id \in done
      BY <1>10, <1>12, <3>1 DEF Answered, HasObeyed
    <3>3. Own({"ack", "data"})' = Own({"ack", "data"})
      BY <2>2 DEF Own
    <3>4. AllAre(Own({"ack", "data"}))' /\ InFlight' <= ReadSize
      BY <1>1, <3>1, <3>3 DEF AllAre, InFlight
    <3>5. QED
      BY <1>1, <2>2, <3>1, <3>2, <3>4 DEF StepInv, At
  <2>7. LogInv' /\ AnswerIsOwn'
    BY <1>1, <2>1, <2>2 DEF IInv, LogInv, LogIsOfThisRun, AnswerIsOwn, At
  <2>8. QED
    BY <2>4, <2>5, <2>6, <2>7 DEF IInv
<1>13. CASE ok /\ ~ more /\ call.op # "read"
  <2>1. Return(TRUE, took) /\ activated' = (activated \/ call.op = "activate")
    BY <1>2, <1>3, <1>13 DEF DataFollows
  <2>2. /\ call' = Idle /\ call' \in Calls
        /\ last' \in [op : Ops, id : Ids, ok : BOOLEAN, sent : BOOLEAN,
                      took : SUBSET Ids, clean : BOOLEAN]
        /\ last'.op = call.op /\ last'.id = call.id
        /\ last'.took = took /\ last'.clean = clean
        /\ clean' \in BOOLEAN /\ (clean' <=> clean)
    BY <1>6, <1>7, <1>8, <2>1, CallReturns
  <2>3. activated' \in BOOLEAN /\ activated'
    <3>1. activated \in BOOLEAN
      BY DEF IInv, TypeOK
    <3>2. QED
      BY <1>8, <2>1, <3>1
  <2>4. clean =>
          /\ took \subseteq {call.id} /\ pipe' = <<>> /\ wire = <<>>
          /\ line = <<>> /\ stm.mode = "cmd" /\ call.id \in done
    BY <1>1, <1>9, <1>10, <1>13 DEF Answered, HasObeyed
  <2>5. TypeOK'
    BY <1>1, <1>5, <2>2, <2>3 DEF IInv, TypeOK, Calls
  <2>6. CallInv'
    BY <1>1, <2>2 DEF IInv, CallInv, At, Idle
  <2>7. StepInv'
    BY <1>1, <2>2, <2>3, <2>4 DEF StepInv, At, Idle, Nothing
  <2>8. LogInv' /\ AnswerIsOwn'
    BY <1>1, <2>2, <2>4 DEF IInv, LogInv, LogIsOfThisRun, AnswerIsOwn, At, Idle
  <2>9. QED
    BY <2>5, <2>6, <2>7, <2>8 DEF IInv
<1>14. CASE ~ ok
  <2>1. Return(ok, took) /\ activated' = (activated \/ (ok /\ call.op = "activate"))
    BY <1>2, <1>14
  <2>2. Return(FALSE, took)
    BY <1>3, <1>14, <2>1
  <2>3. activated' = activated
    BY <1>14, <2>1 DEF IInv, TypeOK
  <2>4. QED
    BY <1>1, <1>5, <1>6, <1>7, <1>8, <2>2, <2>3, ReturnFails
<1>15. QED
  BY <1>3, <1>11, <1>12, <1>13, <1>14

\* The data of a read: all of them, and nothing is left behind.
LEMMA ReceiveDataStep ==
  ASSUME IInv, ReceiveData
  PROVE  IInv'
<1> DEFINE took == call.took \union {pipe[n].id : n \in 1 .. ReadSize}
<1>1. /\ call.pc = "data" /\ Enough
      /\ pipe' = SubSeq(pipe, ReadSize + 1, Len(pipe))
      /\ Return(TRUE, took)
      /\ UNCHANGED <<wire, line, stm, activated, done, unfinished, returned>>
  BY DEF ReceiveData, At
<1>2. /\ call.op = "read" /\ call.op \in Ops /\ ~ At({"idle"}) /\ activated
  BY <1>1 DEF IInv, CallInv, At, Ops, Commands
<1>3. /\ pipe \in Seq(AllBytes) /\ Len(pipe) \in Nat /\ Len(pipe) <= Capacity
      /\ Len(pipe) >= ReadSize
      /\ \A n \in 1 .. Len(pipe) : pipe[n] \in AllBytes
  BY <1>1 DEF IInv, TypeOK, Enough, Needed
<1>4. pipe' \in Seq(AllBytes) /\ Len(pipe') <= Capacity
  <2>1. \A n \in ReadSize + 1 .. Len(pipe) : pipe[n] \in AllBytes
    BY <1>3, CapacityAssumption
  <2>2. /\ pipe' \in Seq(AllBytes)
        /\ Len(pipe') = IF ReadSize + 1 <= Len(pipe)
                        THEN Len(pipe) - (ReadSize + 1) + 1 ELSE 0
    BY <1>1, <1>3, <2>1, CapacityAssumption, SubSeqProperties
  <2>3. QED
    BY <1>3, <2>2, CapacityAssumption
<1>5. took \in SUBSET Ids
  <2>1. \A n \in 1 .. ReadSize : pipe[n].id \in Ids
    BY <1>3, CapacityAssumption DEF AllBytes
  <2>2. QED
    BY <2>1, CallFields DEF IInv
<1>6. /\ call' = Idle /\ call' \in Calls
      /\ last' \in [op : Ops, id : Ids, ok : BOOLEAN, sent : BOOLEAN,
                    took : SUBSET Ids, clean : BOOLEAN]
      /\ last'.op = call.op /\ last'.id = call.id
      /\ last'.took = took /\ last'.clean = clean
      /\ clean' \in BOOLEAN /\ (clean' <=> clean)
  BY <1>1, <1>2, <1>5, CallReturns
<1>7. ASSUME clean
      PROVE  /\ took \subseteq {call.id} /\ pipe' = <<>> /\ wire = <<>>
             /\ line = <<>> /\ stm.mode = "cmd" /\ call.id \in done
  <2>1. /\ line = <<>> /\ stm.mode = "cmd" /\ call.id \in done
        /\ pipe \in Seq(Own({"ack", "data"})) /\ wire \in Seq(Own({"ack", "data"}))
        /\ Len(pipe) + Len(wire) <= ReadSize
        /\ call.took \subseteq {call.id}
    BY <1>1, <1>7 DEF IInv, StepInv, At, AllAre, InFlight
  <2>2. Len(wire) \in Nat
    BY <2>1
  <2>3. Len(wire) = 0 /\ Len(pipe) = ReadSize
    BY <1>3, <2>1, <2>2, CapacityAssumption
  <2>4. wire = <<>>
    BY <2>1, <2>3, EmptySeq
  <2>5. pipe' = <<>>
    <3>1. ReadSize + 1 \in Int /\ Len(pipe) \in Int /\ Len(pipe) < ReadSize + 1
      BY <2>3, CapacityAssumption
    <3>2. QED
      BY <1>1, <3>1, SubSeqEmpty
  <2>6. \A n \in 1 .. ReadSize : pipe[n].id = call.id
    <3>1. \A n \in 1 .. Len(pipe) : pipe[n] \in Own({"ack", "data"})
      BY <2>1
    <3>2. QED
      BY <2>3, <3>1 DEF Own
  <2>7. QED
    BY <2>1, <2>4, <2>5, <2>6
<1>8. TypeOK'
  BY <1>1, <1>4, <1>6 DEF IInv, TypeOK, Calls
<1>9. CallInv'
  BY <1>1, <1>6 DEF IInv, CallInv, At, Idle
<1>10. StepInv'
  BY <1>1, <1>2, <1>6, <1>7 DEF StepInv, At, Idle, Nothing
<1>11. LogInv' /\ AnswerIsOwn'
  BY <1>1, <1>6, <1>7 DEF IInv, LogInv, LogIsOfThisRun, AnswerIsOwn, At, Idle
<1>12. QED
  BY <1>8, <1>9, <1>10, <1>11 DEF IInv

\* A window of the pipe goes to the TBParse: text of the running program.
LEMMA LogReceiveStep ==
  ASSUME IInv, LogReceive
  PROVE  IInv'
<1>1. PICK n \in 1 .. Len(pipe) :
        /\ pipe' = SubSeq(pipe, n + 1, Len(pipe))
        /\ \/ /\ unfinished' = unfinished \union {pipe[j] : j \in 1 .. n}
              /\ returned' = returned
           \/ unfinished' = {} /\ returned' = TRUE
  BY DEF LogReceive
<1>2. /\ call.pc = "idle" /\ ~ activated
      /\ UNCHANGED <<wire, line, stm, call, activated, last, clean, done>>
  BY DEF LogReceive, Calling
<1>3. ASSUME NEW S, pipe \in Seq(S)
      PROVE  /\ pipe' \in Seq(S)
             /\ Len(pipe') \in Nat /\ Len(pipe') <= Len(pipe)
             /\ {pipe[j] : j \in 1 .. n} \subseteq S
  <2>1. Len(pipe) \in Nat /\ \A j \in 1 .. Len(pipe) : pipe[j] \in S
    BY <1>3
  <2>2. n \in Nat /\ n + 1 \in Int /\ Len(pipe) \in Int
    BY <2>1
  <2>3. \A j \in n + 1 .. Len(pipe) : pipe[j] \in S
    BY <2>1, <2>2
  <2>4. /\ pipe' \in Seq(S)
        /\ Len(pipe') = IF n + 1 <= Len(pipe) THEN Len(pipe) - (n + 1) + 1 ELSE 0
    BY <1>1, <2>2, <2>3, SubSeqProperties
  <2>5. \A j \in 1 .. n : pipe[j] \in S
    BY <2>1, <2>2
  <2>6. QED
    BY <2>1, <2>2, <2>4, <2>5
<1>4. TypeOK'
  <2>1. /\ pipe \in Seq(AllBytes) /\ Len(pipe) <= Capacity
        /\ unfinished \subseteq AllBytes /\ returned \in BOOLEAN
    BY DEF IInv, TypeOK
  <2>2. pipe' \in Seq(AllBytes) /\ Len(pipe') <= Capacity
    <3>1. /\ pipe' \in Seq(AllBytes) /\ Len(pipe') \in Nat
          /\ Len(pipe') <= Len(pipe)
      BY <1>3, <2>1
    <3>2. Len(pipe) \in Nat
      BY <2>1
    <3>3. QED
      BY <2>1, <3>1, <3>2, CapacityAssumption
  <2>3. unfinished' \subseteq AllBytes
    BY <1>1, <1>3, <2>1
  <2>4. returned' \in BOOLEAN
    BY <1>1, <2>1
  <2>5. QED
    BY <1>2, <2>2, <2>3, <2>4 DEF IInv, TypeOK
<1>5. CallInv'
  BY <1>2, CallStays DEF IInv, CallInv
<1>6. clean => /\ stm.mode = "app" /\ line = <<>>
               /\ pipe \in Seq(Prints) /\ wire \in Seq(Prints)
  BY <1>2 DEF IInv, StepInv, AllAre, At
<1>7. StepInv'
  BY <1>2, <1>3, <1>6, CallStays DEF StepInv, AllAre, At
<1>8. LogInv'
  <2>1. clean => {pipe[j] : j \in 1 .. n} \subseteq {Byte("text", stm.id)}
    BY <1>3, <1>6 DEF Prints
  <2>2. QED
    BY <1>1, <1>2, <2>1 DEF IInv, LogInv, LogIsOfThisRun, At
<1>9. AnswerIsOwn'
  BY <1>2 DEF IInv, AnswerIsOwn
<1>10. QED
  BY <1>4, <1>5, <1>7, <1>8, <1>9 DEF IInv

\* Every step of the line, the STM32 and the K210 keeps the invariant.
LEMMA NextIInv == IInv /\ [Next]_vars => IInv'
<1> SUFFICES ASSUME IInv, [Next]_vars PROVE IInv'
  OBVIOUS
<1>1. CASE Arrive \/ LoseByte \/ LoseFrame
  BY <1>1, ByteStep, LoseFrameStep
<1>2. CASE Obey \/ Refuse \/ Confuse \/ PrintText
  BY <1>2, ObeyStep, RefuseStep, ConfuseStep, PrintTextStep
<1>3. CASE StartCommand \/ StartGet \/ StartReset
  BY <1>3, StartCommandStep, StartGetStep, StartResetStep
<1>4. CASE K210Step \/ LogReceive
  BY <1>4, PinLowStep, PinHighStep, ClearPipeStep, SendStep, PrintReceivedStep,
     TimeoutStep, ReceiveAckStep, ReceiveDataStep, PollShortStep, LogReceiveStep
     DEF K210Step
<1>5. CASE UNCHANGED vars
  <2>1. UNCHANGED <<pipe, wire, line, stm, call, activated, last, clean, done,
                    unfinished, returned>>
    BY <1>5 DEF vars
  <2>2. TypeOK' /\ CallInv' /\ LogInv' /\ AnswerIsOwn'
    BY <2>1 DEF IInv, TypeOK, CallInv, LogInv, LogIsOfThisRun, AnswerIsOwn, At
  <2>3. StepInv'
    BY <2>1, CallStays
       DEF IInv, StepInv, OnTheLine, Answered, Refused, Nothing, AllAre, InFlight
  <2>4. QED
    BY <2>2, <2>3 DEF IInv
<1>6. QED
  BY <1>1, <1>2, <1>3, <1>4, <1>5 DEF Next

-----------------------------------------------------------------------------
(* What follows for every execution *)

\* The invariant holds whatever is lost, refused or late.
THEOREM InvariantHolds == Spec => []IInv
<1>1. Init => IInv
  BY InitIInv
<1>2. IInv /\ [Next]_vars => IInv'
  BY NextIInv
<1>3. QED
  BY <1>1, <1>2, PTL DEF Spec

\* Every variable keeps its type; the pipe is never overfilled.
THEOREM TypeCorrect == Spec => []TypeOK
<1>1. IInv => TypeOK
  BY DEF IInv
<1>2. QED
  BY <1>1, InvariantHolds, PTL

\* A call that returns true was answered itself and carried out, if none failed
\* since the reset.
THEOREM AnswersAreOwn == Spec => []AnswerIsOwn
<1>1. IInv => AnswerIsOwn
  BY DEF IInv
<1>2. QED
  BY <1>1, InvariantHolds, PTL

\* Between calls, with none failed, bootloader_activated is true exactly if the
\* boot loader runs, and it waits for a command with nothing in flight.
THEOREM EndsAreInStep == Spec => []InStep
<1>1. IInv => InStep
  <2> SUFFICES ASSUME IInv, clean, ~ Calling PROVE InStep
    BY DEF InStep
  <2>1. At({"idle"})
    BY DEF Calling, At
  <2>2. activated => stm.mode = "cmd" /\ Nothing
    BY <2>1 DEF IInv, StepInv
  <2>3. ~ activated => stm.mode = "app"
    BY <2>1 DEF IInv, StepInv
  <2>4. "cmd" \in LoaderModes /\ "app" \notin LoaderModes
    BY DEF LoaderModes
  <2>5. QED
    BY <2>2, <2>3, <2>4 DEF InStep, Nothing
<1>2. QED
  BY <1>1, InvariantHolds, PTL

\* After the first message, the log is of the program that runs now.
THEOREM LogIsCurrent == Spec => []LogIsOfThisRun
<1>1. IInv => LogIsOfThisRun
  BY DEF IInv, LogInv
<1>2. QED
  BY <1>1, InvariantHolds, PTL

=============================================================================
