-------------------------- MODULE MessageDebug_proofs --------------------------
(***************************************************************************)
(* Proofs about TBParse and MessageDebug for buffers of any size, any      *)
(* bytes and any number of them, as long as no timeout is in use.          *)
(*                                                                         *)
(* The parser cuts the stream where Append does and scans an unfinished    *)
(* message again and again; the streaming reference sees each byte once.   *)
(* The invariant says what links the two: a reference that starts anew at  *)
(* the start of the current message and goes on over all that is in the    *)
(* buffer gets to where the streaming reference is.                        *)
(***************************************************************************)
EXTENDS MessageDebug, TLAPS, SequenceTheorems, WellFoundedInduction

\* The value that every client leaves timeout_us at.
NoTimeout == TRUE \notin Expiry

-----------------------------------------------------------------------------
(* Steps of the reference                                                  *)

\* A set of numbers with 0 in it and with every number the next one too has
\* all of them.
LEMMA AllNumbers ==
  ASSUME NEW S, 0 \in S, \A n \in Nat : n \in S => n + 1 \in S
  PROVE  \A n \in Nat : n \in S
<1> DEFINE Missing == {n \in Nat : n \notin S}
<1>1. SUFFICES ASSUME Missing # {} PROVE FALSE
  OBVIOUS
<1>2. PICK m \in Missing : \A n \in Missing : ~ (<<n, m>> \in OpToRel(<, Nat))
  BY <1>1, NatLessThanWellFounded, WFMin
<1>3. m \in Nat /\ m \notin S /\ m - 1 \in Nat /\ m - 1 < m
  <2>1. m \in Nat /\ m \notin S
    OBVIOUS
  <2>2. m # 0
    BY <2>1, Zenon
  <2> QED
    BY <2>1, <2>2
<1>4. m - 1 \notin Missing
  BY <1>2, <1>3 DEF OpToRel
<1>5. m - 1 \in S /\ (m - 1) + 1 = m
  BY <1>3, <1>4
<1> QED
  BY <1>3, <1>5

\* f[i] is the reference after the first i bytes of s.
Steps(k, r, s, f) ==
  f = [i \in 0 .. Len(s) |-> IF i = 0 THEN r ELSE RefByte(k, f[i - 1], s[i])]

\* The same of the first n bytes.
StepsTo(k, r, s, n, f) ==
  f = [i \in 0 .. n |-> IF i = 0 THEN r ELSE RefByte(k, f[i - 1], s[i])]

\* There are such steps, for any number of bytes.
LEMMA StepsExist ==
  ASSUME NEW k, NEW r, NEW s
  PROVE  \A n \in Nat : \E f : StepsTo(k, r, s, n, f)
<1> DEFINE S == {n \in Nat : \E f : StepsTo(k, r, s, n, f)}
<1>1. 0 \in S
  <2> DEFINE f == [i \in 0 .. 0 |-> r]
  <2>1. f = [i \in 0 .. 0 |-> IF i = 0 THEN r ELSE RefByte(k, f[i - 1], s[i])]
    OBVIOUS
  <2>2. StepsTo(k, r, s, 0, f)
    BY <2>1 DEF StepsTo
  <2> QED
    BY <2>2
<1>2. ASSUME NEW n \in Nat, n \in S PROVE n + 1 \in S
  <2>1. PICK f : StepsTo(k, r, s, n, f)
    BY <1>2
  <2> DEFINE g == [i \in 0 .. n + 1 |-> IF i = n + 1 THEN RefByte(k, f[n], s[n + 1])
                                                     ELSE f[i]]
  <2>2. ASSUME NEW i \in 0 .. n + 1
        PROVE  g[i] = IF i = 0 THEN r ELSE RefByte(k, g[i - 1], s[i])
    <3>1. f = [j \in 0 .. n |-> IF j = 0 THEN r ELSE RefByte(k, f[j - 1], s[j])]
      BY <2>1 DEF StepsTo
    <3>2. CASE i = n + 1
      <4>1. i - 1 = n /\ n \in 0 .. n + 1 /\ n # n + 1 /\ i # 0
        BY <3>2
      <4>2. g[n] = f[n] /\ g[i] = RefByte(k, f[n], s[n + 1])
        BY <3>2, <4>1
      <4> QED
        BY <3>2, <4>1, <4>2
    <3>3. CASE i # n + 1 /\ i # 0
      <4>1. i \in 0 .. n /\ i - 1 \in 0 .. n + 1 /\ i - 1 # n + 1
        BY <3>3
      <4>2. g[i] = f[i] /\ g[i - 1] = f[i - 1]
        BY <3>3, <4>1
      <4>3. f[i] = RefByte(k, f[i - 1], s[i])
        BY <3>1, <3>3, <4>1
      <4> QED
        BY <3>3, <4>2, <4>3
    <3>4. CASE i # n + 1 /\ i = 0
      <4>1. g[i] = f[i] /\ 0 \in 0 .. n
        BY <3>4
      <4>2. f[0] = r
        BY <3>1, <4>1
      <4> QED
        BY <3>4, <4>1, <4>2
    <3> QED
      BY <3>2, <3>3, <3>4
  <2>3. g = [i \in 0 .. n + 1 |-> IF i = 0 THEN r ELSE RefByte(k, g[i - 1], s[i])]
    <3>1. g = [i \in 0 .. n + 1 |-> g[i]]
      OBVIOUS
    <3> HIDE DEF g
    <3> QED
      BY <2>2, <3>1
  <2>4. StepsTo(k, r, s, n + 1, g)
    BY <2>3 DEF StepsTo
  <2> QED
    BY <2>4
<1> HIDE DEF S
<1>3. \A n \in Nat : n \in S
  BY <1>1, <1>2, AllNumbers
<1> QED
  BY <1>3 DEF S

\* Any steps from r over s end in what RefBytes says.
LEMMA RefBytesIs ==
  ASSUME NEW k, NEW r, NEW s, Len(s) \in Nat, NEW f,
         f[0] = r, \A i \in 1 .. Len(s) : f[i] = RefByte(k, f[i - 1], s[i])
  PROVE  RefBytes(k, r, s) = f[Len(s)]
<1> DEFINE after[i \in 0 .. Len(s)] == IF i = 0 THEN r ELSE RefByte(k, after[i - 1], s[i])
<1>1. after = CHOOSE g : Steps(k, r, s, g)
  BY Zenon DEF Steps
<1>2. RefBytes(k, r, s) = after[Len(s)]
  BY Zenon DEF RefBytes
<1>3. \E g : Steps(k, r, s, g)
  <2>1. PICK g : StepsTo(k, r, s, Len(s), g)
    BY StepsExist
  <2> QED
    BY <2>1 DEF Steps, StepsTo
<1>4. Steps(k, r, s, after)
  BY <1>1, <1>3, Zenon
<1> HIDE DEF after
<1>5. after = [i \in 0 .. Len(s) |-> IF i = 0 THEN r ELSE RefByte(k, after[i - 1], s[i])]
  BY <1>4 DEF Steps
<1>6. after[0] = r /\ \A i \in 1 .. Len(s) : after[i] = RefByte(k, after[i - 1], s[i])
  <2>1. after[0] = r
    <3>1. 0 \in 0 .. Len(s)
      OBVIOUS
    <3> QED
      BY <1>5, <3>1
  <2>2. ASSUME NEW i \in 1 .. Len(s) PROVE after[i] = RefByte(k, after[i - 1], s[i])
    <3>1. i \in 0 .. Len(s) /\ i # 0
      OBVIOUS
    <3> QED
      BY <1>5, <3>1
  <2> QED
    BY <2>1, <2>2
<1> DEFINE S == {n \in Nat : n <= Len(s) => after[n] = f[n]}
<1>7. 0 \in S
  BY <1>6
<1>8. ASSUME NEW n \in Nat, n \in S PROVE n + 1 \in S
  <2>1. SUFFICES ASSUME n + 1 <= Len(s) PROVE after[n + 1] = f[n + 1]
    OBVIOUS
  <2>2. n + 1 \in 1 .. Len(s) /\ (n + 1) - 1 = n /\ after[n] = f[n]
    BY <1>8, <2>1
  <2>3. after[n + 1] = RefByte(k, after[(n + 1) - 1], s[n + 1])
    BY <1>6, <2>2
  <2>4. f[n + 1] = RefByte(k, f[(n + 1) - 1], s[n + 1])
    BY <2>2
  <2> QED
    BY <2>2, <2>3, <2>4
<1> HIDE DEF S
<1>9. \A n \in Nat : n \in S
  BY <1>7, <1>8, AllNumbers
<1>10. after[Len(s)] = f[Len(s)]
  BY <1>9 DEF S
<1> QED
  BY <1>2, <1>10

\* And there are such steps.
LEMMA RefBytesSteps ==
  ASSUME NEW k, NEW r, NEW s, Len(s) \in Nat
  PROVE  \E f : /\ f[0] = r /\ f[Len(s)] = RefBytes(k, r, s)
                /\ \A i \in 1 .. Len(s) : f[i] = RefByte(k, f[i - 1], s[i])
<1>1. PICK f : StepsTo(k, r, s, Len(s), f)
  BY StepsExist
<1>2. f = [i \in 0 .. Len(s) |-> IF i = 0 THEN r ELSE RefByte(k, f[i - 1], s[i])]
  BY <1>1 DEF StepsTo
<1>3. f[0] = r
  <2>1. 0 \in 0 .. Len(s)
    OBVIOUS
  <2> QED
    BY <1>2, <2>1
<1>4. ASSUME NEW i \in 1 .. Len(s) PROVE f[i] = RefByte(k, f[i - 1], s[i])
  <2>1. i \in 0 .. Len(s) /\ i # 0
    OBVIOUS
  <2> QED
    BY <1>2, <2>1
<1>5. RefBytes(k, r, s) = f[Len(s)]
  BY <1>3, <1>4, RefBytesIs
<1> QED
  BY <1>3, <1>4, <1>5

\* No bytes, no steps.
LEMMA RefBytesOfNone ==
  ASSUME NEW k, NEW r
  PROVE  RefBytes(k, r, <<>>) = r
<1> DEFINE f == [i \in 0 .. 0 |-> r]
<1>1. Len(<<>>) = 0 /\ f[0] = r /\ \A i \in 1 .. 0 : f[i] = RefByte(k, f[i - 1], <<>>[i])
  OBVIOUS
<1> HIDE DEF f
<1>2. RefBytes(k, r, <<>>) = f[Len(<<>>)]
  BY <1>1, RefBytesIs
<1> QED
  BY <1>1, <1>2

\* The reference goes on from where it is.
LEMMA RefBytesGoOn ==
  ASSUME NEW k, NEW r, NEW S, NEW s \in Seq(S), NEW t \in Seq(S)
  PROVE  RefBytes(k, r, s \o t) = RefBytes(k, RefBytes(k, r, s), t)
<1> DEFINE m == Len(s)
           n == Len(t)
           q == RefBytes(k, r, s)
<1>1. /\ m \in Nat /\ n \in Nat /\ Len(s \o t) = m + n
      /\ \A i \in 1 .. m : (s \o t)[i] = s[i]
      /\ \A i \in 1 .. n : (s \o t)[m + i] = t[i]
  OBVIOUS
<1>2. PICK f : /\ f[0] = r /\ f[m] = q
               /\ \A i \in 1 .. m : f[i] = RefByte(k, f[i - 1], s[i])
  <2>1. Len(s) \in Nat
    OBVIOUS
  <2> QED
    BY <2>1, RefBytesSteps
<1>3. PICK g : /\ g[0] = q /\ g[n] = RefBytes(k, q, t)
               /\ \A i \in 1 .. n : g[i] = RefByte(k, g[i - 1], t[i])
  BY <1>1, RefBytesSteps
<1> DEFINE h == [i \in 0 .. m + n |-> IF i <= m THEN f[i] ELSE g[i - m]]
<1> HIDE DEF m, n, q
<1>4. h[0] = r
  BY <1>1, <1>2
<1>5. ASSUME NEW i \in 1 .. m + n PROVE h[i] = RefByte(k, h[i - 1], (s \o t)[i])
  <2>1. i - 1 \in 0 .. m + n /\ i \in 0 .. m + n
    BY <1>1
  <2>2. CASE i <= m
    <3>1. i \in 1 .. m /\ i - 1 <= m
      BY <1>1, <2>2
    <3>2. h[i] = f[i] /\ h[i - 1] = f[i - 1]
      BY <2>1, <2>2, <3>1
    <3> HIDE DEF h
    <3> QED
      BY <1>1, <1>2, <3>1, <3>2
  <2>3. CASE i = m + 1
    <3>1. 1 \in 1 .. n /\ i - m = 1 /\ i - 1 = m /\ ~ (i <= m) /\ m <= m /\ 1 - 1 = 0
      BY <1>1, <2>3
    <3>2. h[i] = g[1] /\ h[i - 1] = f[m]
      BY <2>1, <3>1
    <3>3. (s \o t)[i] = t[1] /\ g[1] = RefByte(k, g[0], t[1])
      BY <1>1, <1>3, <2>3, <3>1
    <3> HIDE DEF h
    <3> QED
      BY <1>2, <1>3, <3>2, <3>3
  <2>4. CASE ~ (i <= m) /\ i # m + 1
    <3>1. i - m \in 1 .. n /\ (i - 1) - m = (i - m) - 1 /\ ~ (i - 1 <= m) /\ m + (i - m) = i
      BY <1>1, <2>4
    <3>2. h[i] = g[i - m] /\ h[i - 1] = g[(i - m) - 1]
      BY <2>1, <2>4, <3>1
    <3>3. (s \o t)[i] = t[i - m] /\ g[i - m] = RefByte(k, g[(i - m) - 1], t[i - m])
      BY <1>1, <1>3, <3>1
    <3> HIDE DEF h
    <3> QED
      BY <3>2, <3>3
  <2> QED
    BY <2>2, <2>3, <2>4
<1>6. h[m + n] = RefBytes(k, q, t)
  <2>1. m + n \in 0 .. m + n
    BY <1>1
  <2>2. CASE n = 0
    BY <1>1, <1>2, <1>3, <2>1, <2>2
  <2>3. CASE n # 0
    <3>1. ~ (m + n <= m) /\ (m + n) - m = n
      BY <1>1, <2>3
    <3> QED
      BY <1>3, <2>1, <3>1
  <2> QED
    BY <2>2, <2>3
<1> HIDE DEF h
<1>7. RefBytes(k, r, s \o t) = h[m + n]
  <2> DEFINE u == s \o t
  <2>1. Len(u) = m + n /\ Len(u) \in Nat
    BY <1>1
  <2>2. \A i \in 1 .. Len(u) : h[i] = RefByte(k, h[i - 1], u[i])
    BY <1>5, <2>1
  <2> HIDE DEF u
  <2>3. RefBytes(k, r, u) = h[Len(u)]
    BY <1>4, <2>1, <2>2, RefBytesIs
  <2> QED
    BY <2>1, <2>3 DEF u
<1> QED
  BY <1>6, <1>7 DEF q

\* One byte is one step.
LEMMA RefBytesOfOne ==
  ASSUME NEW k, NEW r, NEW c
  PROVE  RefBytes(k, r, <<c>>) = RefByte(k, r, c)
<1> DEFINE f == [i \in 0 .. 1 |-> IF i = 0 THEN r ELSE RefByte(k, r, c)]
<1>1. f[0] = r /\ f[1] = RefByte(k, r, c) /\ Len(<<c>>) = 1 /\ <<c>>[1] = c
  OBVIOUS
<1> DEFINE s == <<c>>
<1>2. Len(s) = 1 /\ Len(s) \in Nat /\ s[1] = c
  OBVIOUS
<1> HIDE DEF f, s
<1>3. ASSUME NEW i \in 1 .. Len(s) PROVE f[i] = RefByte(k, f[i - 1], s[i])
  <2>1. i = 1 /\ i - 1 = 0
    BY <1>2
  <2> QED
    BY <1>1, <1>2, <2>1
<1>4. RefBytes(k, r, s) = f[Len(s)]
  <2>1. \A i \in 1 .. Len(s) : f[i] = RefByte(k, f[i - 1], s[i])
    BY <1>3
  <2>2. f[0] = r
    BY <1>1
  <2>3. Len(s) \in Nat
    BY <1>2
  <2> QED
    BY ONLY <2>1, <2>2, <2>3, RefBytesIs
<1> QED
  BY <1>1, <1>2, <1>4 DEF s

-----------------------------------------------------------------------------
(* The states of the reference                                             *)

Bytes == 0 .. 255
Results == {"NotMatched", "PrefixMatched", "PrefixCompleted"}
Messages == [is_text : BOOLEAN, null : BOOLEAN, data : Seq(Bytes)]

\* A prefix of which only the high byte of the size is missing has the low one.
ParserStates ==
  {p \in [found_idx : 0 .. 3, data_size : Nat, result : Results] :
     p.data_size <= 65535 /\ (p.found_idx = 3 => p.data_size <= 255)}

RefStates ==
  [line : Seq(Bytes), p : ParserStates, need : Nat, bin : Seq(Bytes), out : Seq(Messages)]

\* Which records are states.
LEMMA ParserStateIs ==
  ASSUME NEW a \in 0 .. 3, NEW b \in Nat, b <= 65535, a = 3 => b <= 255, NEW d \in Results
  PROVE  [found_idx |-> a, data_size |-> b, result |-> d] \in ParserStates
<1> DEFINE q == [found_idx |-> a, data_size |-> b, result |-> d]
<1>1. q \in [found_idx : 0 .. 3, data_size : Nat, result : Results]
  OBVIOUS
<1>2. q.found_idx = a /\ q.data_size = b
  OBVIOUS
<1> QED
  BY <1>1, <1>2 DEF ParserStates

\* Parsing keeps the parsers' types.
LEMMA ParseType ==
  ASSUME NEW k \in Parsers, NEW p \in ParserStates, NEW c \in Bytes, NEW first \in BOOLEAN
  PROVE  Parse(k, p, c, first) \in ParserStates
<1>1. /\ p.found_idx \in 0 .. 3 /\ p.data_size \in Nat /\ p.data_size <= 65535
      /\ p.found_idx = 3 => p.data_size <= 255
      /\ c \in Nat /\ c <= 255
  BY DEF ParserStates, Bytes
<1>2. StandartParse(p, c, first) \in ParserStates
  <2> DEFINE found == IF first THEN 0 ELSE p.found_idx
             q == StandartParse(p, c, first)
  <2>1. found \in {0, 1, 2, 3} /\ (found = 3 => p.data_size <= 255)
    BY <1>1
  <2>2. /\ q.found_idx \in 0 .. 3 /\ q.data_size \in Nat /\ q.data_size <= 65535
        /\ q.found_idx = 3 => q.data_size <= 255
    BY <1>1, <2>1 DEF StandartParse
  <2>3. q.result \in Results
    BY DEF StandartParse, Results
  <2>4. PICK a, b, d : q = [found_idx |-> a, data_size |-> b, result |-> d]
    BY Zenon DEF StandartParse
  <2>5. a = q.found_idx /\ b = q.data_size /\ d = q.result
    BY <2>4
  <2> HIDE DEF q
  <2>6. a \in 0 .. 3 /\ b \in Nat /\ b <= 65535 /\ (a = 3 => b <= 255) /\ d \in Results
    BY <2>2, <2>3, <2>5
  <2> QED
    BY <2>4, <2>6, ParserStateIs DEF q
<1>3. ShortParse(p, c, first) \in ParserStates
  <2> DEFINE found == IF first THEN 0 ELSE p.found_idx
             size0 == IF first THEN 0 ELSE p.data_size
             sized == found = 1 /\ c \in 1 .. 127
             a == IF found = 0 /\ c = 254 THEN 1 ELSE 0
             b == IF sized THEN c ELSE IF found = 1 THEN 0 ELSE size0
             d == IF sized THEN "PrefixCompleted"
                  ELSE IF found = 0 /\ c = 254 THEN "PrefixMatched" ELSE "NotMatched"
  <2>1. ShortParse(p, c, first) = [found_idx |-> a, data_size |-> b, result |-> d]
    BY Zenon DEF ShortParse
  <2>2. a \in 0 .. 3 /\ b \in Nat /\ b <= 65535 /\ a # 3
    BY <1>1
  <2>3. d \in Results
    BY DEF Results
  <2> HIDE DEF a, b, d
  <2> QED
    BY <2>1, <2>2, <2>3, ParserStateIs
<1> QED
  BY <1>2, <1>3 DEF Parse

\* Two parsers that will give the same verdicts.
Similar(p, q) ==
  p.found_idx = q.found_idx /\ (p.found_idx = 3 => p.data_size = q.data_size)

\* At the first byte of a message what the parser was in before plays no part.
LEMMA ParseSimilar ==
  ASSUME NEW k \in Parsers, NEW p \in ParserStates, NEW q \in ParserStates,
         NEW c \in Bytes, NEW first \in BOOLEAN, first \/ Similar(p, q)
  PROVE  /\ Similar(Parse(k, p, c, first), Parse(k, q, c, first))
         /\ Parse(k, p, c, first).result = Parse(k, q, c, first).result
         /\ Parse(k, p, c, first).result = "PrefixCompleted" =>
              Parse(k, p, c, first).data_size = Parse(k, q, c, first).data_size
<1>1. /\ p.found_idx \in 0 .. 3 /\ p.data_size \in Nat
      /\ q.found_idx \in 0 .. 3 /\ q.data_size \in Nat /\ c \in Nat
  BY DEF ParserStates, Bytes
<1>2. CASE k = "standart"
  <2>1. (IF first THEN 0 ELSE p.found_idx) = (IF first THEN 0 ELSE q.found_idx)
    BY DEF Similar
  <2>2. ~ first /\ p.found_idx = 3 => p.data_size = q.data_size
    BY DEF Similar
  <2>3. (IF first THEN 0 ELSE p.found_idx) \in {0, 1, 2, 3}
    BY <1>1
  <2> QED
    BY <1>1, <1>2, <2>1, <2>2, <2>3 DEF Similar, Parse, StandartParse
<1>3. CASE k # "standart"
  <2>1. (IF first THEN 0 ELSE p.found_idx) = (IF first THEN 0 ELSE q.found_idx)
    BY DEF Similar
  <2> QED
    BY <1>1, <1>3, <2>1 DEF Similar, Parse, ShortParse
<1> QED
  BY <1>2, <1>3

\* A reference with messages o before those it has.
Behind(o, r) ==
  [line |-> r.line, p |-> r.p, need |-> r.need, bin |-> r.bin, out |-> o \o r.out]

\* A reference at the start of a message, o being the messages before it; need
\* is the size of the packet if the message is one whose prefix has been read.
Begun(o, need) ==
  [line |-> <<>>, p |-> ParserStart, need |-> need, bin |-> <<>>, out |-> o]

LEMMA RefStateIs ==
  ASSUME NEW r \in RefStates
  PROVE  /\ r.line \in Seq(Bytes) /\ r.p \in ParserStates /\ r.need \in Nat
         /\ r.bin \in Seq(Bytes) /\ r.out \in Seq(Messages)
         /\ r = [line |-> r.line, p |-> r.p, need |-> r.need, bin |-> r.bin, out |-> r.out]
BY DEF RefStates

LEMMA RefStartIs ==
  /\ ParserStart \in ParserStates
  /\ RefStart \in RefStates
  /\ \A o \in Seq(Messages), need \in Nat :
       Begun(o, need) \in RefStates
<1>1. ParserStart \in ParserStates
  <2>1. 0 \in 0 .. 3 /\ 0 \in Nat /\ 0 <= 65535 /\ 0 # 3 /\ "NotMatched" \in Results
    BY DEF Results
  <2> QED
    BY <2>1, ParserStateIs DEF ParserStart
<1>2. <<>> \in Seq(Bytes) /\ <<>> \in Seq(Messages)
  OBVIOUS
<1>3. RefStart \in RefStates
  BY <1>1, <1>2 DEF RefStart, RefStates
<1>4. ASSUME NEW o \in Seq(Messages), NEW need \in Nat
      PROVE  Begun(o, need) \in RefStates
  BY <1>1, <1>2 DEF Begun, RefStates
<1> QED
  BY <1>1, <1>3, <1>4

\* Messages.
LEMMA MessagesAre ==
  ASSUME NEW s \in Seq(Bytes)
  PROVE  Text(s) \in Messages /\ Binary(s) \in Messages
BY DEF Text, Binary, Messages

\* The parser after a byte of a line or a prefix.
LineParse(k, r, c) == Parse(k, r.p, c, r.line = <<>>)

\* The reference with a byte more in its line, and with the bytes b of its packet.
Longer(r, c, p) == [r EXCEPT !.line = Append(@, c), !.p = p]
Fuller(r, b) == [r EXCEPT !.bin = b]

\* What such a byte does to the reference.
LEMMA LineByteIs ==
  ASSUME NEW k \in Parsers, NEW r \in RefStates, NEW c \in Bytes, r.need = 0,
         NEW p, p = LineParse(k, r, c)
  PROVE  /\ p \in ParserStates
         /\ p.result = "PrefixCompleted" /\ p.data_size = 0 =>
              RefByte(k, r, c) = Begun(Append(r.out, Binary(<<>>)), 0)
         /\ p.result = "PrefixCompleted" /\ p.data_size > 0 =>
              RefByte(k, r, c) = Begun(r.out, p.data_size)
         /\ p.result = "NotMatched" /\ c \in EndOfLine /\ r.line = <<>> =>
              RefByte(k, r, c) = Begun(r.out, 0)
         /\ p.result = "NotMatched" /\ c \in EndOfLine /\ r.line # <<>> =>
              RefByte(k, r, c) = Begun(Append(r.out, Text(r.line)), 0)
         /\ p.result = "PrefixMatched" \/ (p.result = "NotMatched" /\ c \notin EndOfLine) =>
              RefByte(k, r, c) = Longer(r, c, p)
<1>1. r.p \in ParserStates
  BY DEF RefStates
<1>2. p \in ParserStates
  BY <1>1, ParseType DEF LineParse
<1>3. p.data_size \in Nat /\ p.result \in Results
  BY <1>2 DEF ParserStates
<1>4. RefByte(k, r, c) = RefLineByte(k, r, c)
  BY DEF RefByte
<1>5. CASE p.result = "PrefixCompleted" /\ p.data_size = 0
  <2>1. RefLineByte(k, r, c) = [RefStart EXCEPT !.out = Append(r.out, Binary(<<>>))]
    BY <1>5 DEF RefLineByte, LineParse
  <2>2. RefByte(k, r, c) = Begun(Append(r.out, Binary(<<>>)), 0)
    BY <1>4, <2>1 DEF Begun, RefStart
  <2> QED
    BY <1>2, <1>5, <2>2
<1>6. CASE p.result = "PrefixCompleted" /\ p.data_size > 0
  <2>1. RefLineByte(k, r, c) = [RefStart EXCEPT !.out = r.out, !.need = p.data_size]
    BY <1>3, <1>6 DEF RefLineByte, LineParse
  <2>2. RefByte(k, r, c) = Begun(r.out, p.data_size)
    BY <1>4, <2>1 DEF Begun, RefStart
  <2> QED
    BY <1>2, <1>3, <1>6, <2>2
<1>7. CASE p.result = "NotMatched" /\ c \in EndOfLine
  <2>1. RefLineByte(k, r, c) = [RefStart EXCEPT !.out = IF r.line = <<>> THEN r.out
                                                        ELSE Append(r.out, Text(r.line))]
    BY <1>7 DEF RefLineByte, LineParse
  <2> QED
    BY <1>2, <1>4, <1>7, <2>1 DEF Begun, RefStart
<1>8. CASE p.result = "PrefixMatched" \/ (p.result = "NotMatched" /\ c \notin EndOfLine)
  <2>1. RefLineByte(k, r, c) = Longer(r, c, p)
    BY <1>8 DEF RefLineByte, LineParse, Longer
  <2> QED
    BY <1>2, <1>4, <1>8, <2>1
<1>9. \/ p.result = "PrefixCompleted" /\ p.data_size = 0
      \/ p.result = "PrefixCompleted" /\ p.data_size > 0
      \/ p.result = "NotMatched" /\ c \in EndOfLine
      \/ p.result = "PrefixMatched" \/ (p.result = "NotMatched" /\ c \notin EndOfLine)
  BY <1>3 DEF Results
<1> QED
  BY <1>5, <1>6, <1>7, <1>8, <1>9

\* What a byte of a packet does to the reference.
LEMMA PacketByteIs ==
  ASSUME NEW k \in Parsers, NEW r \in RefStates, NEW c \in Bytes, r.need # 0
  PROVE  /\ Append(r.bin, c) \in Seq(Bytes)
         /\ Len(Append(r.bin, c)) = r.need =>
              RefByte(k, r, c) = Begun(Append(r.out, Binary(Append(r.bin, c))), 0)
         /\ Len(Append(r.bin, c)) # r.need =>
              RefByte(k, r, c) = Fuller(r, Append(r.bin, c))
<1>1. r.need \in Nat /\ r.need > 0 /\ r.bin \in Seq(Bytes)
  BY RefStateIs
<1>2. Append(r.bin, c) \in Seq(Bytes)
  BY <1>1
<1>3. RefByte(k, r, c) = RefPacketByte(r, c)
  BY <1>1 DEF RefByte
<1>4. CASE Len(Append(r.bin, c)) = r.need
  <2>1. RefPacketByte(r, c) =
          [RefStart EXCEPT !.out = Append(r.out, Binary(Append(r.bin, c)))]
    BY <1>4 DEF RefPacketByte
  <2>2. RefByte(k, r, c) = Begun(Append(r.out, Binary(Append(r.bin, c))), 0)
    BY <1>3, <2>1 DEF Begun, RefStart
  <2> QED
    BY <1>2, <1>4, <2>2
<1>5. CASE Len(Append(r.bin, c)) # r.need
  <2>1. RefPacketByte(r, c) = Fuller(r, Append(r.bin, c))
    BY <1>5 DEF RefPacketByte, Fuller
  <2> QED
    BY <1>2, <1>3, <1>5, <2>1
<1> QED
  BY <1>4, <1>5

\* Every byte keeps the types of the reference, and messages before its own
\* make no difference to it.
LEMMA RefByteBehind ==
  ASSUME NEW k \in Parsers, NEW r \in RefStates, NEW c \in Bytes, NEW o \in Seq(Messages)
  PROVE  /\ RefByte(k, r, c) \in RefStates
         /\ Behind(o, r) \in RefStates
         /\ RefByte(k, Behind(o, r), c) = Behind(o, RefByte(k, r, c))
<1> DEFINE q == Behind(o, r)
<1>1. /\ q \in RefStates /\ q.line = r.line /\ q.p = r.p /\ q.need = r.need
      /\ q.bin = r.bin /\ q.out = o \o r.out
      /\ r.line \in Seq(Bytes) /\ r.p \in ParserStates /\ r.need \in Nat
      /\ r.bin \in Seq(Bytes) /\ r.out \in Seq(Messages)
  <2>1. /\ r.line \in Seq(Bytes) /\ r.p \in ParserStates /\ r.need \in Nat
        /\ r.bin \in Seq(Bytes) /\ r.out \in Seq(Messages)
    BY RefStateIs
  <2>2. o \o r.out \in Seq(Messages)
    BY <2>1
  <2> QED
    BY <2>1, <2>2 DEF Behind, RefStates
<1>2. \A m \in Messages : /\ Append(r.out, m) \in Seq(Messages)
                          /\ Append(o \o r.out, m) = o \o Append(r.out, m)
  <2> SUFFICES ASSUME NEW m \in Messages
               PROVE  /\ Append(r.out, m) \in Seq(Messages)
                      /\ Append(o \o r.out, m) = o \o Append(r.out, m)
    OBVIOUS
  <2> DEFINE t == r.out
  <2>1. t \in Seq(Messages)
    BY <1>1
  <2> HIDE DEF t
  <2>2. Append(t, m) \in Seq(Messages) /\ Append(o \o t, m) = o \o Append(t, m)
    BY ONLY <2>1, o \in Seq(Messages), m \in Messages
  <2> QED
    BY <2>2 DEF t
<1>3. \A x \in Seq(Messages), n \in Nat : Begun(o \o x, n) = Behind(o, Begun(x, n))
  BY Zenon DEF Begun, Behind
<1>4. ASSUME NEW s \in Seq(Bytes), NEW m \in {Text(s), Binary(s)}
      PROVE  /\ Begun(Append(q.out, m), 0) = Behind(o, Begun(Append(r.out, m), 0))
             /\ Begun(Append(r.out, m), 0) \in RefStates
  <2> HIDE DEF q
  <2>1. m \in Messages
    BY MessagesAre
  <2>2. Append(q.out, m) = o \o Append(r.out, m) /\ Append(r.out, m) \in Seq(Messages)
    BY <1>1, <1>2, <2>1
  <2> QED
    BY <1>3, <2>2, RefStartIs
<1>7. <<>> \in Seq(Bytes)
  OBVIOUS
<1>5. CASE r.need = 0
  <2> DEFINE p == LineParse(k, r, c)
  <2>1. p \in ParserStates
    BY <1>1, ParseType DEF LineParse
  <2>2. p.data_size \in Nat /\ p.result \in Results
    BY <2>1 DEF ParserStates
  <2>8. p = LineParse(k, q, c)
    BY <1>1 DEF LineParse
  <2> HIDE DEF p, q
  <2>9. /\ p = LineParse(k, r, c)
        /\ q \in RefStates /\ q.need = 0 /\ r.need = 0
    BY <1>1, <1>5 DEF p
  <2>3. CASE p.result = "PrefixCompleted" /\ p.data_size = 0
    <3>1. /\ RefByte(k, r, c) = Begun(Append(r.out, Binary(<<>>)), 0)
          /\ RefByte(k, q, c) = Begun(Append(q.out, Binary(<<>>)), 0)
      BY <1>1, <1>5, <2>3, <2>8, <2>9, LineByteIs
    <3> QED
      BY <1>1, <1>4, <1>7, <3>1 DEF q
  <2>4. CASE p.result = "PrefixCompleted" /\ p.data_size > 0
    <3>1. /\ RefByte(k, r, c) = Begun(r.out, p.data_size)
          /\ RefByte(k, q, c) = Begun(q.out, p.data_size)
      BY <1>1, <1>5, <2>4, <2>8, <2>9, LineByteIs
    <3> QED
      BY <1>1, <1>3, <2>2, <3>1, RefStartIs DEF q
  <2>5. CASE p.result = "NotMatched" /\ c \in EndOfLine /\ r.line = <<>>
    <3>1. /\ RefByte(k, r, c) = Begun(r.out, 0)
          /\ RefByte(k, q, c) = Begun(q.out, 0)
      BY <1>1, <1>5, <2>5, <2>8, <2>9, LineByteIs
    <3> QED
      BY <1>1, <1>3, <3>1, RefStartIs DEF q
  <2>6. CASE p.result = "NotMatched" /\ c \in EndOfLine /\ r.line # <<>>
    <3>1. /\ RefByte(k, r, c) = Begun(Append(r.out, Text(r.line)), 0)
          /\ RefByte(k, q, c) = Begun(Append(q.out, Text(r.line)), 0)
      BY <1>1, <1>5, <2>6, <2>8, <2>9, LineByteIs
    <3> QED
      BY <1>1, <1>4, <3>1 DEF q
  <2>7. CASE p.result = "PrefixMatched" \/ (p.result = "NotMatched" /\ c \notin EndOfLine)
    <3>1. /\ RefByte(k, r, c) = Longer(r, c, p)
          /\ RefByte(k, q, c) = Longer(q, c, p)
      BY <1>1, <1>5, <2>7, <2>8, <2>9, LineByteIs
    <3>2. Append(r.line, c) \in Seq(Bytes)
      BY <1>1
    <3>3. RefByte(k, r, c) \in RefStates
      BY <2>1, <3>1, <3>2 DEF RefStates, Longer
    <3>4. RefByte(k, q, c) = Behind(o, RefByte(k, r, c))
      BY <3>1 DEF Behind, q, RefStates, Longer
    <3> QED
      BY <1>1, <3>3, <3>4 DEF q
  <2> QED
    BY <2>2, <2>3, <2>4, <2>5, <2>6, <2>7 DEF Results
<1>6. CASE r.need # 0
  <2> HIDE DEF q
  <2>1. Append(r.bin, c) \in Seq(Bytes)
    BY <1>1
  <2>2. CASE Len(Append(r.bin, c)) = r.need
    <3>1. /\ RefByte(k, r, c) = Begun(Append(r.out, Binary(Append(r.bin, c))), 0)
          /\ RefByte(k, q, c) = Begun(Append(q.out, Binary(Append(r.bin, c))), 0)
      BY <1>1, <1>6, <2>2, PacketByteIs
    <3> QED
      BY <1>1, <1>4, <2>1, <3>1 DEF q
  <2>3. CASE Len(Append(r.bin, c)) # r.need
    <3>1. /\ RefByte(k, r, c) = Fuller(r, Append(r.bin, c))
          /\ RefByte(k, q, c) = Fuller(q, Append(r.bin, c))
      BY <1>1, <1>6, <2>3, PacketByteIs
    <3>2. RefByte(k, r, c) \in RefStates
      BY <2>1, <3>1 DEF RefStates, Fuller
    <3>3. RefByte(k, q, c) = Behind(o, RefByte(k, r, c))
      BY <3>1 DEF Behind, q, RefStates, Fuller
    <3> QED
      BY <1>1, <3>2, <3>3 DEF q
  <2> QED
    BY <2>2, <2>3
<1> QED
  BY <1>5, <1>6

\* The same for any number of bytes.
LEMMA RefBytesBehind ==
  ASSUME NEW k \in Parsers, NEW r \in RefStates, NEW s \in Seq(Bytes),
         NEW o \in Seq(Messages)
  PROVE  /\ RefBytes(k, r, s) \in RefStates
         /\ RefBytes(k, Behind(o, r), s) = Behind(o, RefBytes(k, r, s))
<1>1. Len(s) \in Nat /\ \A i \in 1 .. Len(s) : s[i] \in Bytes
  OBVIOUS
<1>2. PICK f : /\ f[0] = r /\ f[Len(s)] = RefBytes(k, r, s)
               /\ \A i \in 1 .. Len(s) : f[i] = RefByte(k, f[i - 1], s[i])
  BY <1>1, RefBytesSteps
<1> DEFINE S == {n \in Nat : n <= Len(s) => f[n] \in RefStates}
<1>3. 0 \in S
  BY <1>2
<1>4. ASSUME NEW n \in Nat, n \in S PROVE n + 1 \in S
  <2>1. SUFFICES ASSUME n + 1 <= Len(s) PROVE f[n + 1] \in RefStates
    OBVIOUS
  <2>2. n + 1 \in 1 .. Len(s) /\ (n + 1) - 1 = n /\ f[n] \in RefStates
    BY <1>1, <1>4, <2>1
  <2>3. f[n + 1] = RefByte(k, f[n], s[n + 1]) /\ s[n + 1] \in Bytes
    BY <1>1, <1>2, <2>2
  <2> QED
    BY <2>2, <2>3, RefByteBehind
<1> HIDE DEF S
<1>5. \A n \in Nat : n \in S
  BY <1>3, <1>4, AllNumbers
<1>6. ASSUME NEW n \in 0 .. Len(s) PROVE f[n] \in RefStates
  BY <1>1, <1>5 DEF S
<1> DEFINE g == [i \in 0 .. Len(s) |-> Behind(o, f[i])]
<1>7. g[0] = Behind(o, r) /\ g[Len(s)] = Behind(o, RefBytes(k, r, s))
  BY <1>1, <1>2
<1>8. \A i \in 1 .. Len(s) : g[i] = RefByte(k, g[i - 1], s[i])
  <2> SUFFICES ASSUME NEW i \in 1 .. Len(s) PROVE g[i] = RefByte(k, g[i - 1], s[i])
    OBVIOUS
  <2>1. i \in 0 .. Len(s) /\ i - 1 \in 0 .. Len(s)
    BY <1>1
  <2>2. g[i] = Behind(o, f[i]) /\ g[i - 1] = Behind(o, f[i - 1])
    BY <2>1
  <2>3. f[i - 1] \in RefStates /\ s[i] \in Bytes /\ f[i] = RefByte(k, f[i - 1], s[i])
    BY <1>1, <1>2, <1>6, <2>1
  <2> HIDE DEF g
  <2> QED
    BY <2>2, <2>3, RefByteBehind
<1> HIDE DEF g
<1>9. RefBytes(k, Behind(o, r), s) = g[Len(s)]
  BY ONLY <1>1, <1>7, <1>8, RefBytesIs
<1>10. RefBytes(k, r, s) \in RefStates
  BY <1>1, <1>2, <1>6
<1> QED
  BY <1>7, <1>9, <1>10

\* A reference that has the bytes b of a packet.
Filled(o, need, b) ==
  [line |-> <<>>, p |-> ParserStart, need |-> need, bin |-> b, out |-> o]

\* The first i bytes of a sequence.
LEMMA Heads ==
  ASSUME NEW s \in Seq(Bytes), NEW i \in 1 .. Len(s)
  PROVE  /\ SubSeq(s, 1, 0) = <<>> /\ SubSeq(s, 1, Len(s)) = s
         /\ SubSeq(s, 1, i - 1) \in Seq(Bytes) /\ SubSeq(s, 1, i) \in Seq(Bytes)
         /\ Len(SubSeq(s, 1, i)) = i /\ s[i] \in Bytes
         /\ Append(SubSeq(s, 1, i - 1), s[i]) = SubSeq(s, 1, i)
<1>1. Len(s) \in Nat /\ i \in Nat /\ s[i] \in Bytes
  OBVIOUS
<1>2. SubSeq(s, 1, 0) = <<>> /\ SubSeq(s, 1, Len(s)) = s
  BY <1>1
<1>3. SubSeq(s, 1, i - 1) \in Seq(Bytes) /\ SubSeq(s, 1, i) \in Seq(Bytes)
      /\ Len(SubSeq(s, 1, i)) = i
  BY <1>1
<1>4. Append(SubSeq(s, 1, i - 1), s[i]) = SubSeq(s, 1, i)
  BY <1>1
<1> QED
  BY <1>1, <1>2, <1>3, <1>4

\* What the bytes of a packet do to a reference that has read its prefix.
LEMMA PacketBytes ==
  ASSUME NEW k \in Parsers, NEW o \in Seq(Messages), NEW n \in Nat, n > 0,
         NEW s \in Seq(Bytes)
  PROVE  /\ Len(s) < n => RefBytes(k, Begun(o, n), s) = Filled(o, n, s)
         /\ Len(s) = n => RefBytes(k, Begun(o, n), s) = Begun(Append(o, Binary(s)), 0)
<1> SUFFICES ASSUME Len(s) <= n
             PROVE  RefBytes(k, Begun(o, n), s) =
                      IF Len(s) < n THEN Filled(o, n, s)
                                    ELSE Begun(Append(o, Binary(s)), 0)
  OBVIOUS
<1> DEFINE At(i) == IF i < n THEN Filled(o, n, SubSeq(s, 1, i))
                             ELSE Begun(Append(o, Binary(SubSeq(s, 1, i))), 0)
           f == [i \in 0 .. Len(s) |-> At(i)]
<1>1. Len(s) \in Nat /\ Len(s) <= n
  OBVIOUS
<1>2. f[0] = Begun(o, n) /\ f[Len(s)] = At(Len(s))
  <2>1. SubSeq(s, 1, 0) = <<>> /\ 0 \in 0 .. Len(s) /\ Len(s) \in 0 .. Len(s)
    BY <1>1
  <2>2. At(0) = Begun(o, n)
    BY <2>1 DEF Filled, Begun
  <2> HIDE DEF At
  <2> QED
    BY <2>1, <2>2
<1>3. \A i \in 1 .. Len(s) : f[i] = RefByte(k, f[i - 1], s[i])
  <2> SUFFICES ASSUME NEW i \in 1 .. Len(s) PROVE f[i] = RefByte(k, f[i - 1], s[i])
    OBVIOUS
  <2>1. i \in 0 .. Len(s) /\ i - 1 \in 0 .. Len(s) /\ i - 1 < n /\ i <= n /\ i \in Nat
    BY <1>1
  <2> DEFINE r == Filled(o, n, SubSeq(s, 1, i - 1))
  <2>2. f[i] = At(i) /\ f[i - 1] = r
    BY <2>1
  <2>3. /\ r \in RefStates /\ r.need = n /\ r.bin = SubSeq(s, 1, i - 1) /\ r.out = o
        /\ s[i] \in Bytes /\ Append(r.bin, s[i]) = SubSeq(s, 1, i)
        /\ Len(SubSeq(s, 1, i)) = i
    <3>1. /\ SubSeq(s, 1, i - 1) \in Seq(Bytes) /\ s[i] \in Bytes
          /\ Append(SubSeq(s, 1, i - 1), s[i]) = SubSeq(s, 1, i)
          /\ Len(SubSeq(s, 1, i)) = i
      BY Heads
    <3>2. ParserStart \in ParserStates /\ <<>> \in Seq(Bytes)
      BY RefStartIs
    <3>3. r.need = n /\ r.bin = SubSeq(s, 1, i - 1) /\ r.out = o
      BY DEF Filled
    <3>4. r \in RefStates
      BY <3>1, <3>2 DEF Filled, RefStates
    <3> HIDE DEF r
    <3> QED
      BY <3>1, <3>3, <3>4
  <2> HIDE DEF f
  <2>4. CASE i = n
    <3>1. RefByte(k, r, s[i]) = Begun(Append(o, Binary(SubSeq(s, 1, i))), 0)
      <4> HIDE DEF r
      <4>1. r.need # 0 /\ Len(Append(r.bin, s[i])) = r.need
        BY <2>3, <2>4
      <4> QED
        BY <2>3, <4>1, PacketByteIs
    <3> QED
      BY <2>1, <2>2, <2>4, <3>1
  <2>5. CASE i # n
    <3>1. i < n
      BY <2>1, <2>5
    <3>2. RefByte(k, r, s[i]) = Fuller(r, SubSeq(s, 1, i))
      <4> HIDE DEF r
      <4>1. r.need # 0 /\ Len(Append(r.bin, s[i])) # r.need
        BY <2>3, <2>5
      <4> QED
        BY <2>3, <4>1, PacketByteIs
    <3>3. Fuller(r, SubSeq(s, 1, i)) = Filled(o, n, SubSeq(s, 1, i))
      <4>1. \A b, d : Fuller(Filled(o, n, b), d) = Filled(o, n, d)
        BY DEF Fuller, Filled
      <4> QED
        BY <4>1
    <3> QED
      BY <2>2, <3>1, <3>2, <3>3
  <2> QED
    BY <2>4, <2>5
<1> HIDE DEF f
<1>4. RefBytes(k, Begun(o, n), s) = f[Len(s)]
  BY ONLY <1>1, <1>2, <1>3, RefBytesIs
<1>5. SubSeq(s, 1, Len(s)) = s
  BY <1>1
<1> QED
  BY <1>2, <1>4, <1>5

-----------------------------------------------------------------------------
(* Parts of the buffer                                                     *)

\* A sequence from a place on, and between two places.
From(s, a) == SubSeq(s, a + 1, Len(s))
Between(s, a, b) == SubSeq(s, a + 1, b)

LEMMA PartsAre ==
  ASSUME NEW s \in Seq(Bytes), NEW a \in Nat, NEW b \in Nat, a <= b, b <= Len(s)
  PROVE  /\ Between(s, a, b) \in Seq(Bytes) /\ Len(Between(s, a, b)) = b - a
         /\ From(s, a) \in Seq(Bytes) /\ Len(From(s, a)) = Len(s) - a
         /\ From(s, a) = Between(s, a, b) \o From(s, b)
         /\ Between(s, a, a) = <<>>
         /\ From(s, 0) = s
<1>1. Len(s) \in Nat
  OBVIOUS
<1>2. /\ Between(s, a, b) \in Seq(Bytes) /\ Len(Between(s, a, b)) = b - a
      /\ From(s, a) \in Seq(Bytes) /\ Len(From(s, a)) = Len(s) - a
      /\ From(s, b) \in Seq(Bytes) /\ Len(From(s, b)) = Len(s) - b
  BY <1>1 DEF Between, From
<1>3. Between(s, a, a) = <<>> /\ From(s, 0) = s
  BY <1>1 DEF Between, From
<1> DEFINE t == From(s, a)
           u == Between(s, a, b)
           v == From(s, b)
<1>4. /\ \A i \in 1 .. Len(s) - a : t[i] = s[a + i]
      /\ \A i \in 1 .. b - a : u[i] = s[a + i]
      /\ \A i \in 1 .. Len(s) - b : v[i] = s[b + i]
  BY <1>1 DEF Between, From
<1>5. t \in Seq(Bytes) /\ u \in Seq(Bytes) /\ v \in Seq(Bytes)
      /\ Len(t) = Len(s) - a /\ Len(u) = b - a /\ Len(v) = Len(s) - b
  BY <1>2
<1> HIDE DEF t, u, v
<1>6. u \o v \in Seq(Bytes) /\ Len(u \o v) = Len(t)
  <2>1. u \o v \in Seq(Bytes) /\ Len(u \o v) = Len(u) + Len(v)
    BY ONLY <1>5
  <2>2. Len(u) + Len(v) = Len(t)
    BY <1>1, <1>5
  <2> QED
    BY <2>1, <2>2
<1>7. ASSUME NEW i \in 1 .. Len(t) PROVE t[i] = (u \o v)[i]
  <2>1. CASE i <= b - a
    <3>1. \A j \in 1 .. Len(u) : (u \o v)[j] = u[j]
      BY ONLY <1>5
    <3>2. i \in 1 .. Len(u) /\ i \in 1 .. b - a /\ i \in 1 .. Len(s) - a
      BY <1>1, <1>5, <2>1
    <3> QED
      BY <1>4, <3>1, <3>2
  <2>2. CASE ~ (i <= b - a)
    <3>1. i - (b - a) \in 1 .. Len(s) - b /\ b + (i - (b - a)) = a + i /\ i \in 1 .. Len(s) - a
      <4>1. Len(s) \in Nat /\ a \in Nat /\ b \in Nat /\ i \in 1 .. Len(s) - a /\ ~ (i <= b - a)
        BY <1>1, <1>5, <2>2
      <4> QED
        BY ONLY <4>1
    <3>2. (u \o v)[i] = v[i - (b - a)]
      <4>1. \A j \in 1 .. Len(v) : (u \o v)[Len(u) + j] = v[j]
        <5>1. u \in Seq(Bytes) /\ v \in Seq(Bytes)
          BY ONLY <1>5
        <5> QED
          BY ONLY <5>1
      <4>2. Len(u) = b - a /\ Len(v) = Len(s) - b
        BY ONLY <1>5
      <4>3. i - (b - a) \in 1 .. Len(v)
        BY ONLY <3>1, <4>2
      <4>4. a \in Nat /\ b \in Nat /\ i \in Nat
        BY ONLY <3>1, <1>1, a \in Nat, b \in Nat
      <4>5. Len(u) + (i - (b - a)) = i
        BY ONLY <4>2, <4>4
      <4> QED
        BY <4>1, <4>3, <4>5
    <3> QED
      BY <1>4, <3>1, <3>2
  <2> QED
    BY <2>1, <2>2
<1>8. t = u \o v
  BY <1>5, <1>6, <1>7, SeqEqual
<1> QED
  BY <1>2, <1>3, <1>8 DEF t, u, v

\* A part and the byte behind it.
LEMMA PartGrows ==
  ASSUME NEW s \in Seq(Bytes), NEW a \in Nat, NEW b \in Nat, a <= b, b < Len(s)
  PROVE  /\ s[b + 1] \in Bytes
         /\ Between(s, a, b + 1) = Between(s, a, b) \o <<s[b + 1]>>
         /\ Between(s, a, b + 1) = Append(Between(s, a, b), s[b + 1])
<1>1. Len(s) \in Nat /\ b + 1 \in 1 .. Len(s)
  OBVIOUS
<1>2. s[b + 1] \in Bytes
  BY <1>1
<1> DEFINE t == Between(s, a, b + 1)
           u == Between(s, a, b)
           c == s[b + 1]
<1>3. /\ t \in Seq(Bytes) /\ Len(t) = b + 1 - a
      /\ u \in Seq(Bytes) /\ Len(u) = b - a
      /\ \A i \in 1 .. b + 1 - a : t[i] = s[a + i]
      /\ \A i \in 1 .. b - a : u[i] = s[a + i]
  BY <1>1 DEF Between
<1> HIDE DEF t, u
<1>4. t = Append(u, c)
  <2>1. Append(u, c) \in Seq(Bytes) /\ Len(Append(u, c)) = Len(t)
    BY <1>2, <1>3
  <2>2. ASSUME NEW i \in 1 .. Len(t) PROVE t[i] = Append(u, c)[i]
    <3>1. CASE i <= b - a
      BY <1>3, <3>1
    <3>2. CASE ~ (i <= b - a)
      <4>1. i = b - a + 1 /\ a + i = b + 1 /\ i \in 1 .. b + 1 - a
        BY <1>3, <3>2
      <4>2. t[i] = s[b + 1]
        BY <1>3, <4>1
      <4>3. Append(u, c)[i] = c
        BY <1>3, <4>1
      <4> QED
        BY <4>2, <4>3
    <3> QED
      BY <3>1, <3>2
  <2> QED
    BY <1>3, <2>1, <2>2, SeqEqual
<1>5. Append(u, c) = u \o <<c>>
  BY ONLY <1>3, <1>2
<1> QED
  BY <1>2, <1>4, <1>5 DEF t, u

\* Overwriting a byte changes nothing behind it.
LEMMA PartBehind ==
  ASSUME NEW s \in Seq(Bytes), NEW b \in Nat, b < Len(s),
         NEW t, t = [s EXCEPT ![b + 1] = 0]
  PROVE  t \in Seq(Bytes) /\ Len(t) = Len(s) /\ From(t, b + 1) = From(s, b + 1)
<1>1. Len(s) \in Nat /\ b + 1 \in 1 .. Len(s) /\ 0 \in Bytes
  BY DEF Bytes
<1>2. t \in Seq(Bytes) /\ Len(t) = Len(s)
  BY <1>1
<1>3. \A i \in 1 .. Len(s) : i # b + 1 => t[i] = s[i]
  BY <1>1
<1> DEFINE u == From(t, b + 1)
           v == From(s, b + 1)
<1>4. /\ u \in Seq(Bytes) /\ Len(u) = Len(s) - (b + 1)
      /\ v \in Seq(Bytes) /\ Len(v) = Len(s) - (b + 1)
      /\ \A i \in 1 .. Len(s) - (b + 1) : u[i] = t[b + 1 + i]
      /\ \A i \in 1 .. Len(s) - (b + 1) : v[i] = s[b + 1 + i]
  <2>1. b \in Nat /\ b + 1 <= Len(s) /\ Len(s) \in Nat /\ s \in Seq(Bytes)
    BY <1>1
  <2>2. u \in Seq(Bytes) /\ Len(u) = Len(s) - (b + 1)
    BY ONLY <1>2, <2>1 DEF From
  <2>3. v \in Seq(Bytes) /\ Len(v) = Len(s) - (b + 1)
    BY ONLY <2>1 DEF From
  <2>4. \A i \in 1 .. Len(t) - (b + 1) : u[i] = t[b + 1 + i]
    BY ONLY <1>2, <2>1 DEF From
  <2>5. \A i \in 1 .. Len(s) - (b + 1) : v[i] = s[b + 1 + i]
    BY ONLY <2>1 DEF From
  <2> QED
    BY <1>2, <2>2, <2>3, <2>4, <2>5
<1> HIDE DEF u, v
<1>5. ASSUME NEW i \in 1 .. Len(u) PROVE u[i] = v[i]
  <2>1. i \in 1 .. Len(s) - (b + 1) /\ b + 1 + i \in 1 .. Len(s) /\ b + 1 + i # b + 1
    BY <1>1, <1>4
  <2> QED
    BY <1>3, <1>4, <2>1
<1>6. u = v
  BY <1>4, <1>5, SeqEqual
<1> QED
  BY <1>2, <1>6 DEF u, v

\* The reference over what is ahead, in two parts.
LEMMA RefBytesInParts ==
  ASSUME NEW k, NEW r, NEW s \in Seq(Bytes), NEW a \in Nat, NEW b \in Nat,
         a <= b, b <= Len(s)
  PROVE  RefBytes(k, r, From(s, a)) = RefBytes(k, RefBytes(k, r, Between(s, a, b)), From(s, b))
<1>1. /\ Between(s, a, b) \in Seq(Bytes)
      /\ From(s, a) = Between(s, a, b) \o From(s, b)
  BY PartsAre
<1>2. From(s, b) \in Seq(Bytes)
  BY PartsAre
<1> QED
  BY <1>1, <1>2, RefBytesGoOn

\* The reference over a part and the byte behind it.
LEMMA RefBytesNext ==
  ASSUME NEW k, NEW r, NEW s \in Seq(Bytes), NEW a \in Nat, NEW b \in Nat,
         a <= b, b < Len(s)
  PROVE  RefBytes(k, r, Between(s, a, b + 1)) =
           RefByte(k, RefBytes(k, r, Between(s, a, b)), s[b + 1])
<1>1. /\ s[b + 1] \in Bytes
      /\ Between(s, a, b + 1) = Between(s, a, b) \o <<s[b + 1]>>
  BY PartGrows
<1>2. Between(s, a, b) \in Seq(Bytes) /\ <<s[b + 1]>> \in Seq(Bytes)
  BY <1>1, PartsAre
<1> DEFINE t == <<s[b + 1]>>
<1>3. RefBytes(k, r, Between(s, a, b) \o t) = RefBytes(k, RefBytes(k, r, Between(s, a, b)), t)
  <2>1. t \in Seq(Bytes)
    BY <1>2
  <2> HIDE DEF t
  <2> QED
    BY <1>2, <2>1, RefBytesGoOn
<1> QED
  BY <1>1, <1>3, RefBytesOfOne

-----------------------------------------------------------------------------
(* The inductive invariant of the parser                                   *)

TypeInv ==
  /\ kind \in Parsers /\ parser \in ParserStates
  /\ buffer \in Seq(Bytes) /\ Len(buffer) <= BufferSize
  /\ message_start \in Nat /\ buffer_pos \in Nat
  /\ message_start <= buffer_pos /\ buffer_pos <= Len(buffer)
  /\ bin_message_size \in Nat /\ bin_message_size <= 65535
  /\ pc \in {"idle", "drain", "scan"}
  /\ pc = "scan" => bin_message_size = 0
  /\ message \in Messages /\ appended \in Nat
  /\ delivered \in Seq(Messages) /\ parsed \in Seq(Messages)
  /\ ref \in RefStates /\ ref.out = <<>>

\* Where the current message starts, or its bytes if its prefix has been read.
Start == IF pc = "scan" THEN message_start ELSE buffer_pos

\* A reference that starts anew there and goes through the buffer gets to where
\* the streaming reference is.
StreamInv ==
  RefBytes(kind, Begun(delivered, bin_message_size), From(buffer, Start)) =
    Behind(parsed, ref)

\* A reference that has the bytes of a line, or of a prefix.
Lined(o, p, s) == [line |-> s, p |-> p, need |-> 0, bin |-> <<>>, out |-> o]

\* Once it has gone through what the loop has read of the message it has just
\* these bytes, and its prefix parser is where the program's is.
Read == Between(buffer, message_start, buffer_pos)
LineInv ==
  pc = "scan" =>
    \E p \in ParserStates :
      /\ RefBytes(kind, Begun(delivered, 0), Read) = Lined(delivered, p, Read)
      /\ message_start < buffer_pos => Similar(p, parser)

\* What is so when NextMessage has returned nothing, or an empty packet.
QuietInv ==
  pc = "idle" =>
    IF message.null
    THEN /\ buffer_pos = 0 /\ delivered = parsed
         /\ buffer = IF bin_message_size > 0 THEN ref.bin ELSE ref.line
    ELSE Binary(<<>>) \in Range(delivered)

IInv == TypeInv /\ StreamInv /\ LineInv /\ QuietInv

LEMMA InitIInv == Init => IInv
<1> SUFFICES ASSUME Init PROVE IInv
  OBVIOUS
<1>1. /\ ParserStart \in ParserStates /\ RefStart \in RefStates
      /\ <<>> \in Seq(Bytes) /\ <<>> \in Seq(Messages) /\ Len(<<>>) = 0
  BY RefStartIs
<1>2. /\ RefStart.out = <<>> /\ RefStart.line = <<>>
  BY DEF RefStart
<1>3. NoMessage \in Messages /\ NoMessage.null
  BY <1>1 DEF NoMessage, Messages
<1>4. TypeInv
  BY <1>1, <1>2, <1>3, SizesAssumption DEF Init, TypeInv
<1>5. StreamInv
  <2>1. From(buffer, Start) = <<>>
    BY DEF Init, Start, From
  <2>2. Begun(<<>>, 0) = Behind(<<>>, RefStart)
    BY DEF Begun, Behind, RefStart
  <2> QED
    BY <2>1, <2>2, RefBytesOfNone DEF Init, StreamInv
<1>6. LineInv
  BY DEF Init, LineInv
<1>7. QuietInv
  BY <1>2, <1>3 DEF Init, QuietInv
<1> QED
  BY <1>4, <1>5, <1>6, <1>7 DEF IInv

\* What Behind and Begun hold.
LEMMA BehindIs ==
  ASSUME NEW o \in Seq(Messages), NEW r \in RefStates, r.out = <<>>
  PROVE  /\ Behind(o, r).line = r.line /\ Behind(o, r).bin = r.bin
         /\ Behind(o, r).need = r.need /\ Behind(o, r).out = o
<1>1. o \o <<>> = o
  OBVIOUS
<1> QED
  BY <1>1 DEF Behind

-----------------------------------------------------------------------------
(* Append                                                                  *)

\* The buffer with bytes behind it.
LEMMA FromGrows ==
  ASSUME NEW s \in Seq(Bytes), NEW t \in Seq(Bytes), NEW a \in Nat, a <= Len(s)
  PROVE  /\ s \o t \in Seq(Bytes) /\ Len(s \o t) = Len(s) + Len(t)
         /\ From(s \o t, a) = From(s, a) \o t
<1>1. Len(s) \in Nat /\ Len(t) \in Nat
  OBVIOUS
<1>2. s \o t \in Seq(Bytes) /\ Len(s \o t) = Len(s) + Len(t)
  BY <1>1
<1>3. /\ \A i \in 1 .. Len(s) : (s \o t)[i] = s[i]
      /\ \A i \in 1 .. Len(t) : (s \o t)[Len(s) + i] = t[i]
  BY <1>1
<1> DEFINE w == s \o t
<1> HIDE DEF w
<1>4. w \in Seq(Bytes) /\ Len(w) = Len(s) + Len(t)
  BY <1>2 DEF w
<1> DEFINE u == From(w, a)
           v == From(s, a)
<1>5. /\ u \in Seq(Bytes) /\ Len(u) = Len(s) + Len(t) - a
      /\ v \in Seq(Bytes) /\ Len(v) = Len(s) - a
  BY <1>1, <1>4 DEF From
<1>6. \A i \in 1 .. Len(s) + Len(t) - a : u[i] = w[a + i]
  BY <1>1, <1>4 DEF From
<1>7. \A i \in 1 .. Len(s) - a : v[i] = s[a + i]
  BY <1>1 DEF From
<1> HIDE DEF u, v
<1>8. v \o t \in Seq(Bytes) /\ Len(v \o t) = Len(u)
  BY <1>1, <1>5
<1>9. ASSUME NEW i \in 1 .. Len(u) PROVE u[i] = (v \o t)[i]
  <2>1. u[i] = w[a + i]
    BY <1>5, <1>6
  <2>2. CASE i <= Len(s) - a
    <3>1. i \in 1 .. Len(v) /\ i \in 1 .. Len(s) - a /\ a + i \in 1 .. Len(s)
      BY <1>1, <1>5, <2>2
    <3>2. (v \o t)[i] = v[i]
      BY <1>5, <3>1
    <3> QED
      BY <1>3, <1>7, <2>1, <3>1, <3>2 DEF w
  <2>3. CASE ~ (i <= Len(s) - a)
    <3> DEFINE j == i - (Len(s) - a)
    <3>1. j \in 1 .. Len(t) /\ Len(v) + j = i /\ Len(s) + j = a + i
      <4>1. /\ Len(s) \in Nat /\ Len(t) \in Nat /\ a \in Nat /\ Len(v) = Len(s) - a
            /\ i \in 1 .. Len(s) + Len(t) - a /\ ~ (i <= Len(s) - a)
        BY <1>1, <1>5, <2>3
      <4> QED
        BY ONLY <4>1
    <3>2. \A m \in 1 .. Len(t) : (v \o t)[Len(v) + m] = t[m]
      BY ONLY <1>5, t \in Seq(Bytes)
    <3> HIDE DEF j
    <3>3. (v \o t)[Len(v) + j] = t[j] /\ w[Len(s) + j] = t[j]
      BY <1>3, <3>1, <3>2 DEF w
    <3> QED
      BY <2>1, <3>1, <3>3
  <2> QED
    BY <2>2, <2>3
<1>10. u = v \o t
  BY <1>5, <1>8, <1>9, SeqEqual
<1> QED
  BY <1>2, <1>10 DEF u, v, w

\* What Append takes of a chunk.
LEMMA CutIs ==
  ASSUME NEW chunk \in Seq(Bytes), NEW room \in Nat
  PROVE  /\ Cut(chunk, room) \in Seq(Bytes) /\ Len(Cut(chunk, room)) <= room
         /\ Len(chunk) <= room => Len(Cut(chunk, room)) = Len(chunk)
BY DEF Cut

\* An Append without a timeout.
LEMMA AppendIInv ==
  ASSUME IInv, NEW chunk \in Seq(Bytes), AppendChunk(chunk, FALSE)
  PROVE  IInv'
<1> DEFINE new == Cut(chunk, BufferSize - Len(buffer))
           r == RefBytes(kind, ref, new)
<1>1. TypeInv /\ StreamInv /\ pc = "idle"
  BY DEF IInv, AppendChunk
<1>2. /\ buffer \in Seq(Bytes) /\ Len(buffer) <= BufferSize /\ Len(buffer) \in Nat
      /\ BufferSize \in Nat /\ buffer_pos \in Nat /\ buffer_pos <= Len(buffer)
      /\ appended \in Nat /\ kind \in Parsers /\ ref \in RefStates
      /\ delivered \in Seq(Messages) /\ parsed \in Seq(Messages) /\ bin_message_size \in Nat
  BY <1>1, SizesAssumption DEF TypeInv
<1>3. new \in Seq(Bytes) /\ Len(new) \in Nat /\ Len(new) <= BufferSize - Len(buffer)
  <2>1. BufferSize - Len(buffer) \in Nat
    BY <1>2
  <2>2. new \in Seq(Bytes) /\ Len(new) <= BufferSize - Len(buffer)
    BY <2>1, CutIs
  <2> HIDE DEF new
  <2> QED
    BY <2>2
<1>4. /\ buffer' = buffer \o new /\ appended' = appended + Len(new)
      /\ delivered' = delivered /\ parsed' = parsed \o r.out
      /\ ref' = [r EXCEPT !.out = <<>>] /\ pc' = "drain"
      /\ UNCHANGED <<kind, parser, buffer_pos, bin_message_size, message_start, message>>
  BY DEF AppendChunk
<1> HIDE DEF new, r
<1>5. r \in RefStates /\ RefBytes(kind, Behind(parsed, ref), new) = Behind(parsed, r)
  BY <1>2, <1>3, RefBytesBehind DEF r
<1>6. /\ r.out \in Seq(Messages) /\ ref' \in RefStates /\ ref'.out = <<>>
      /\ Behind(parsed', ref') = Behind(parsed, r)
  <2>1. /\ r.line \in Seq(Bytes) /\ r.p \in ParserStates /\ r.need \in Nat
        /\ r.bin \in Seq(Bytes) /\ r.out \in Seq(Messages)
        /\ r = [line |-> r.line, p |-> r.p, need |-> r.need, bin |-> r.bin, out |-> r.out]
    BY <1>5, RefStateIs
  <2>2. ref' = [line |-> r.line, p |-> r.p, need |-> r.need, bin |-> r.bin, out |-> <<>>]
    BY <1>4, <2>1
  <2>3. ref' \in RefStates
    <3>1. <<>> \in Seq(Messages)
      OBVIOUS
    <3> QED
      BY <2>1, <2>2, <3>1 DEF RefStates
  <2>4. (parsed \o r.out) \o <<>> = parsed \o r.out
    BY <1>2, <2>1
  <2>5. /\ ref'.line = r.line /\ ref'.p = r.p /\ ref'.need = r.need
        /\ ref'.bin = r.bin /\ ref'.out = <<>>
    BY <2>2
  <2> QED
    BY <1>4, <2>1, <2>3, <2>4, <2>5 DEF Behind
<1>7. /\ buffer' \in Seq(Bytes) /\ Len(buffer') = Len(buffer) + Len(new)
      /\ From(buffer', buffer_pos) = From(buffer, buffer_pos) \o new
  BY <1>2, <1>3, <1>4, FromGrows
<1>8. TypeInv'
  <2>1. parsed' \in Seq(Messages)
    BY <1>2, <1>4, <1>6
  <2>2. Len(buffer') <= BufferSize /\ buffer_pos <= Len(buffer')
    BY <1>2, <1>3, <1>7
  <2>3. appended' \in Nat
    BY <1>2, <1>3, <1>4
  <2> QED
    BY <1>1, <1>4, <1>6, <1>7, <2>1, <2>2, <2>3 DEF TypeInv
<1>9. StreamInv'
  <2>1. RefBytes(kind, Begun(delivered, bin_message_size), From(buffer, buffer_pos)) =
          Behind(parsed, ref)
    BY <1>1 DEF StreamInv, Start
  <2>2. From(buffer, buffer_pos) \in Seq(Bytes)
    BY <1>2, PartsAre
  <2>3. RefBytes(kind, Begun(delivered, bin_message_size), From(buffer', buffer_pos)) =
          RefBytes(kind, Behind(parsed, ref), new)
    BY <1>3, <1>7, <2>1, <2>2, RefBytesGoOn
  <2>4. Start' = buffer_pos
    BY <1>4 DEF Start
  <2> QED
    BY <1>4, <1>5, <1>6, <2>3, <2>4 DEF StreamInv
<1> QED
  BY <1>4, <1>8, <1>9 DEF IInv, LineInv, QuietInv

-----------------------------------------------------------------------------
(* NextMessage                                                             *)

\* No whole message from start on: a packet of size need is awaited, or the
\* reference has just the bytes of a line there.
LEMMA NothingReturned ==
  ASSUME IInv, NEW start \in Nat, start <= Len(buffer),
         NEW need \in Nat, need <= 65535, bin_message_size' = need,
         RefBytes(kind, Begun(delivered, need), From(buffer, start)) = Behind(parsed, ref),
         \/ need > 0 /\ Len(From(buffer, start)) < need
         \/ need = 0 /\ \E p \in ParserStates :
              RefBytes(kind, Begun(delivered, need), From(buffer, start)) =
                Lined(delivered, p, From(buffer, start)),
         parser' \in ParserStates, ReturnNothing(start)
  PROVE  IInv'
<1> DEFINE rest == From(buffer, start)
<1>1. TypeInv
  BY DEF IInv
<1>2. /\ buffer \in Seq(Bytes) /\ Len(buffer) \in Nat /\ Len(buffer) <= BufferSize
      /\ BufferSize \in Nat /\ kind \in Parsers /\ ref \in RefStates /\ ref.out = <<>>
      /\ delivered \in Seq(Messages) /\ parsed \in Seq(Messages)
  BY <1>1, SizesAssumption DEF TypeInv
<1>3. rest \in Seq(Bytes) /\ Len(rest) = Len(buffer) - start /\ Len(rest) \in Nat
  BY <1>2, PartsAre
<1>4. /\ buffer' = rest /\ buffer_pos' = 0 /\ message' = NoMessage /\ message_start' = 0
      /\ pc' = "idle" /\ bin_message_size' = need
      /\ UNCHANGED <<kind, appended, delivered, parsed, ref>>
  BY <1>2 DEF ReturnNothing, From
<1> HIDE DEF rest
<1>5. TypeInv'
  <2>1. Len(rest) <= BufferSize /\ NoMessage \in Messages
    BY <1>2, <1>3 DEF NoMessage, Messages
  <2> QED
    BY <1>1, <1>3, <1>4, <2>1 DEF TypeInv
<1>6. RefBytes(kind, Begun(delivered, need), rest) = Behind(parsed, ref)
  BY DEF rest
<1>7. StreamInv'
  <2>1. From(rest, 0) = rest
    BY <1>3, PartsAre
  <2>2. Start' = 0
    BY <1>4 DEF Start
  <2> QED
    BY <1>4, <1>6, <2>1, <2>2 DEF StreamInv
<1>8. delivered = parsed /\ rest = IF need > 0 THEN ref.bin ELSE ref.line
  <2>1. Behind(parsed, ref).out = parsed /\ Behind(parsed, ref).bin = ref.bin
        /\ Behind(parsed, ref).line = ref.line
    BY <1>2, BehindIs
  <2>2. CASE need > 0 /\ Len(From(buffer, start)) < need
    <3>1. RefBytes(kind, Begun(delivered, need), rest) = Filled(delivered, need, rest)
      BY <1>2, <1>3, <2>2, PacketBytes DEF rest
    <3>2. /\ Filled(delivered, need, rest).out = delivered
          /\ Filled(delivered, need, rest).bin = rest
      BY DEF Filled
    <3> QED
      BY <1>6, <2>1, <2>2, <3>1, <3>2
  <2>3. CASE need = 0 /\ \E p \in ParserStates :
               RefBytes(kind, Begun(delivered, need), From(buffer, start)) =
                 Lined(delivered, p, From(buffer, start))
    <3>1. PICK p \in ParserStates :
            RefBytes(kind, Begun(delivered, need), rest) = Lined(delivered, p, rest)
      BY <2>3 DEF rest
    <3>2. Lined(delivered, p, rest).out = delivered /\ Lined(delivered, p, rest).line = rest
      BY DEF Lined
    <3> QED
      BY <1>6, <2>1, <2>3, <3>1, <3>2
  <2> QED
    BY <2>2, <2>3
<1>9. QuietInv'
  <2>1. NoMessage.null
    BY DEF NoMessage
  <2>2. /\ message'.null /\ buffer_pos' = 0 /\ delivered' = parsed'
        /\ buffer' = IF bin_message_size' > 0 THEN ref'.bin ELSE ref'.line
    BY <1>4, <1>8, <2>1
  <2> QED
    BY <2>2 DEF QuietInv
<1>10. LineInv'
  BY <1>4 DEF LineInv
<1> QED
  BY <1>5, <1>7, <1>9, <1>10 DEF IInv

\* A packet from start on is returned.
LEMMA PacketReturned ==
  ASSUME IInv, NEW start \in Nat, NEW size \in Nat, start + size <= Len(buffer),
         RefBytes(kind, Begun(Append(delivered, Binary(Between(buffer, start, start + size))), 0),
                  From(buffer, start + size)) = Behind(parsed, ref),
         Return(Binary(SubSeq(buffer, start + 1, start + size))),
         buffer_pos' = start + size, bin_message_size' = 0, parser' \in ParserStates,
         UNCHANGED <<kind, buffer, appended, parsed, ref>>
  PROVE  IInv'
<1> DEFINE packet == Between(buffer, start, start + size)
           m == Binary(packet)
<1>1. TypeInv
  BY DEF IInv
<1>2. packet \in Seq(Bytes) /\ Len(packet) = size
  <2>1. start <= start + size /\ start + size \in Nat /\ (start + size) - start = size
    OBVIOUS
  <2>2. buffer \in Seq(Bytes)
    BY <1>1 DEF TypeInv
  <2> QED
    BY <2>1, <2>2, PartsAre
<1>3. Return(m)
  BY DEF Between
<1> HIDE DEF packet
<1>4. m \in Messages /\ m.data = packet /\ ~ m.null
  BY <1>2, MessagesAre DEF Binary
<1> HIDE DEF m
<1>5. /\ message' = m /\ delivered' = Append(delivered, m) /\ message_start' = 0
      /\ pc' = IF packet = <<>> THEN "idle" ELSE "drain"
  BY <1>3, <1>4 DEF Return
<1>6. TypeInv'
  <2>1. delivered' \in Seq(Messages)
    BY <1>1, <1>4, <1>5 DEF TypeInv
  <2>2. pc' \in {"idle", "drain"} /\ start + size \in Nat /\ 0 <= start + size
    BY <1>5
  <2>3. message' \in Messages /\ message_start' = 0
    BY <1>4, <1>5
  <2> QED
    BY <1>1, <2>1, <2>2, <2>3 DEF TypeInv
<1>7. StreamInv'
  <2>1. Start' = start + size
    BY <1>5 DEF Start
  <2> QED
    BY <1>5, <2>1 DEF StreamInv, m, packet
<1>8. QuietInv'
  <2>1. SUFFICES ASSUME pc' = "idle" PROVE Binary(<<>>) \in Range(delivered')
    BY <1>4, <1>5 DEF QuietInv
  <2>2. m = Binary(<<>>)
    BY <1>5, <2>1 DEF m
  <2>3. Len(delivered) + 1 \in DOMAIN delivered' /\ delivered'[Len(delivered) + 1] = m
    BY <1>1, <1>5 DEF TypeInv
  <2> QED
    BY <2>2, <2>3 DEF Range
<1>9. LineInv'
  BY <1>5 DEF LineInv
<1> QED
  BY <1>6, <1>7, <1>8, <1>9 DEF IInv

LEMMA ReturnAwaitedIInv == IInv /\ ReturnAwaited => IInv'
<1> SUFFICES ASSUME IInv, ReturnAwaited PROVE IInv'
  OBVIOUS
<1> DEFINE n == bin_message_size
           b == buffer_pos + n
           packet == Between(buffer, buffer_pos, b)
<1>1. TypeInv /\ StreamInv /\ pc = "drain"
  BY DEF IInv, ReturnAwaited
<1>2. /\ buffer \in Seq(Bytes) /\ Len(buffer) \in Nat /\ kind \in Parsers
      /\ buffer_pos \in Nat /\ n \in Nat /\ delivered \in Seq(Messages) /\ parser \in ParserStates
  BY <1>1 DEF TypeInv
<1>3. /\ n > 0 /\ b <= Len(buffer) /\ b \in Nat /\ buffer_pos <= b /\ b - buffer_pos = n
  BY <1>2 DEF ReturnAwaited, PacketReady
<1>4. packet \in Seq(Bytes) /\ Len(packet) = n
  BY <1>2, <1>3, PartsAre
<1> HIDE DEF packet, b, n
<1>5. RefBytes(kind, Begun(delivered, n), packet) = Begun(Append(delivered, Binary(packet)), 0)
  BY <1>2, <1>3, <1>4, PacketBytes
<1>6. RefBytes(kind, Begun(delivered, n), From(buffer, buffer_pos)) = Behind(parsed, ref)
  BY <1>1 DEF StreamInv, Start, n
<1>7. RefBytes(kind, Begun(Append(delivered, Binary(packet)), 0), From(buffer, b)) =
        Behind(parsed, ref)
  BY <1>2, <1>3, <1>5, <1>6, RefBytesInParts DEF packet
<1>8. /\ Return(Binary(SubSeq(buffer, buffer_pos + 1, b)))
      /\ buffer_pos' = b /\ bin_message_size' = 0 /\ parser' \in ParserStates
      /\ UNCHANGED <<kind, buffer, appended, parsed, ref>>
  BY <1>2 DEF ReturnAwaited, b, n
<1> QED
  BY <1>2, <1>3, <1>7, <1>8, PacketReturned DEF b, packet

LEMMA EnterLoopIInv == IInv /\ EnterLoop => IInv'
<1> SUFFICES ASSUME IInv, EnterLoop PROVE IInv'
  OBVIOUS
<1>1. TypeInv /\ StreamInv
  BY DEF IInv
<1>2. /\ pc = "drain" /\ bin_message_size = 0 /\ pc' = "scan" /\ message_start' = buffer_pos
      /\ UNCHANGED <<kind, parser, buffer, buffer_pos, bin_message_size>>
      /\ UNCHANGED <<message, appended, delivered, parsed, ref>>
  BY DEF EnterLoop, parse
<1>3. TypeInv'
  BY <1>1, <1>2 DEF TypeInv
<1>4. StreamInv'
  BY <1>1, <1>2 DEF StreamInv, Start
<1>5. LineInv'
  <2>1. Read' = <<>>
    BY <1>1, <1>2, PartsAre DEF Read, TypeInv
  <2>2. RefBytes(kind, Begun(delivered, 0), <<>>) = Lined(delivered, ParserStart, <<>>)
    BY RefBytesOfNone DEF Begun, Lined
  <2>3. ParserStart \in ParserStates /\ ~ (buffer_pos < buffer_pos)
    BY <1>1, RefStartIs DEF TypeInv
  <2> QED
    BY <1>2, <2>1, <2>2, <2>3 DEF LineInv
<1> QED
  BY <1>2, <1>3, <1>4, <1>5 DEF IInv, QuietInv

LEMMA StillAwaitedIInv == IInv /\ StillAwaited => IInv'
<1> SUFFICES ASSUME IInv, StillAwaited PROVE IInv'
  OBVIOUS
<1>1. TypeInv /\ StreamInv /\ pc = "drain"
  BY DEF IInv, StillAwaited
<1>2. /\ buffer \in Seq(Bytes) /\ Len(buffer) \in Nat /\ parser \in ParserStates
      /\ buffer_pos \in Nat /\ buffer_pos <= Len(buffer)
      /\ bin_message_size \in Nat /\ bin_message_size <= 65535
  BY <1>1 DEF TypeInv
<1>3. RefBytes(kind, Begun(delivered, bin_message_size), From(buffer, buffer_pos)) =
        Behind(parsed, ref)
  BY <1>1 DEF StreamInv, Start
<1>4. Len(From(buffer, buffer_pos)) = Len(buffer) - buffer_pos
  BY <1>2, PartsAre
<1>5. bin_message_size > 0 /\ Len(From(buffer, buffer_pos)) < bin_message_size
  BY <1>2, <1>4 DEF StillAwaited, PacketReady
<1>6. parser' \in ParserStates /\ ReturnNothing(buffer_pos) /\ bin_message_size' = bin_message_size
  BY <1>2 DEF StillAwaited
<1> QED
  BY <1>2, <1>3, <1>5, <1>6, NothingReturned

LEMMA LoopEndsIInv == IInv /\ LoopEnds => IInv'
<1> SUFFICES ASSUME IInv, LoopEnds PROVE IInv'
  OBVIOUS
<1>1. TypeInv /\ StreamInv /\ LineInv /\ pc = "scan"
  BY DEF IInv, LoopEnds
<1>2. /\ buffer \in Seq(Bytes) /\ Len(buffer) \in Nat /\ parser \in ParserStates
      /\ buffer_pos \in Nat /\ buffer_pos = Len(buffer) /\ bin_message_size = 0
      /\ message_start \in Nat /\ message_start <= Len(buffer)
  BY <1>1 DEF TypeInv, LoopEnds
<1>3. RefBytes(kind, Begun(delivered, 0), From(buffer, message_start)) = Behind(parsed, ref)
  BY <1>1, <1>2 DEF StreamInv, Start
<1>4. Read = From(buffer, message_start)
  BY <1>2 DEF Read, Between, From
<1>5. \E p \in ParserStates :
        RefBytes(kind, Begun(delivered, 0), From(buffer, message_start)) =
          Lined(delivered, p, From(buffer, message_start))
  BY <1>1, <1>4 DEF LineInv
<1>6. parser' \in ParserStates /\ ReturnNothing(message_start) /\ bin_message_size' = 0
  BY <1>2 DEF LoopEnds
<1> QED
  BY <1>2, <1>3, <1>5, <1>6, NothingReturned

\* What one iteration of the loop reads: r is the reference after the bytes
\* read before, q its prefix parser after this one, p the program's.
LEMMA ScanReads ==
  ASSUME IInv, pc = "scan", buffer_pos < Len(buffer),
         NEW c, c = buffer[buffer_pos + 1],
         NEW p, p = Parse(kind, parser, c, buffer_pos = message_start)
  PROVE  /\ p \in ParserStates
         /\ \E r \in RefStates, q \in ParserStates :
              /\ r.need = 0 /\ r.line = Read /\ r.out = delivered
              /\ r.bin = <<>> /\ q = LineParse(kind, r, c)
              /\ Similar(q, p) /\ q.result = p.result
              /\ q.result = "PrefixCompleted" => q.data_size = p.data_size
              /\ RefBytes(kind, Begun(delivered, 0), Between(buffer, message_start, buffer_pos + 1))
                   = RefByte(kind, r, c)
              /\ RefBytes(kind, RefByte(kind, r, c), From(buffer, buffer_pos + 1))
                   = Behind(parsed, ref)
<1>1. TypeInv /\ StreamInv /\ LineInv
  BY DEF IInv
<1>2. /\ buffer \in Seq(Bytes) /\ Len(buffer) \in Nat /\ kind \in Parsers
      /\ message_start \in Nat /\ buffer_pos \in Nat /\ message_start <= buffer_pos
      /\ bin_message_size = 0 /\ delivered \in Seq(Messages) /\ parser \in ParserStates
  BY <1>1 DEF TypeInv
<1>3. c \in Bytes
  BY <1>2, PartGrows
<1>4. PICK d \in ParserStates :
        /\ RefBytes(kind, Begun(delivered, 0), Read) = Lined(delivered, d, Read)
        /\ message_start < buffer_pos => Similar(d, parser)
  BY <1>1 DEF LineInv
<1> DEFINE r == Lined(delivered, d, Read)
           first == buffer_pos = message_start
           q == Parse(kind, d, c, first)
<1>5. Read \in Seq(Bytes) /\ Len(Read) = buffer_pos - message_start
  BY <1>2, PartsAre DEF Read
<1>6. /\ r \in RefStates /\ r.need = 0 /\ r.line = Read /\ r.out = delivered
      /\ r.bin = <<>> /\ r.p = d
  <2>1. <<>> \in Seq(Bytes)
    OBVIOUS
  <2>2. r.need = 0 /\ r.line = Read /\ r.out = delivered /\ r.bin = <<>> /\ r.p = d
    BY DEF Lined
  <2>3. r \in RefStates
    BY <1>2, <1>5, <2>1 DEF Lined, RefStates
  <2> QED
    BY <2>2, <2>3
<1> HIDE DEF r
<1>7. first \in BOOLEAN /\ (first <=> Read = <<>>) /\ (first \/ Similar(d, parser))
  <2>1. first <=> Read = <<>>
    BY <1>2, <1>5
  <2>2. first \/ message_start < buffer_pos
    BY <1>2
  <2> QED
    BY <1>4, <2>1, <2>2
<1>8. q = LineParse(kind, r, c)
  <2>1. LineParse(kind, r, c) = Parse(kind, d, c, Read = <<>>)
    BY <1>6 DEF LineParse
  <2>2. first = (Read = <<>>)
    BY <1>7, Zenon
  <2> HIDE DEF first
  <2> QED
    BY <2>1, <2>2
<1>9. p = Parse(kind, parser, c, first)
  OBVIOUS
<1> HIDE DEF first
<1>10. p \in ParserStates /\ q \in ParserStates
  BY <1>2, <1>3, <1>7, <1>9, ParseType
<1>11. /\ Similar(q, p) /\ q.result = p.result
       /\ q.result = "PrefixCompleted" => q.data_size = p.data_size
  BY <1>2, <1>3, <1>7, <1>9, ParseSimilar
<1> HIDE DEF q
<1>12. RefBytes(kind, Begun(delivered, 0), Between(buffer, message_start, buffer_pos + 1)) =
         RefByte(kind, r, c)
  BY <1>2, <1>4, RefBytesNext DEF Read, r
<1>13. RefBytes(kind, RefByte(kind, r, c), From(buffer, buffer_pos + 1)) = Behind(parsed, ref)
  <2>1. RefBytes(kind, Begun(delivered, 0), From(buffer, message_start)) = Behind(parsed, ref)
    BY <1>1, <1>2 DEF StreamInv, Start
  <2> DEFINE b == buffer_pos + 1
  <2>2. b \in Nat /\ message_start <= b /\ b <= Len(buffer)
    BY <1>2
  <2>3. RefBytes(kind, Begun(delivered, 0), Between(buffer, message_start, b)) =
          RefByte(kind, r, c)
    BY <1>12
  <2> HIDE DEF b
  <2>4. RefBytes(kind, RefByte(kind, r, c), From(buffer, b)) = Behind(parsed, ref)
    BY <1>2, <2>1, <2>2, <2>3, RefBytesInParts
  <2> QED
    BY <2>4 DEF b
<1> QED
  BY <1>6, <1>8, <1>10, <1>11, <1>12, <1>13

LEMMA ScanIInv == IInv /\ Scan => IInv'
<1> SUFFICES ASSUME IInv, Scan PROVE IInv'
  OBVIOUS
<1> DEFINE c == buffer[buffer_pos + 1]
           p == Parse(kind, parser, c, buffer_pos = message_start)
           b == buffer_pos + 1
<1>1. TypeInv /\ pc = "scan" /\ buffer_pos < Len(buffer)
  BY DEF IInv, Scan
<1>2. ScanPrefixEnd(p) \/ ScanLineEnd(p, c) \/ ScanOther(p, c)
  BY DEF Scan
<1>3. /\ p \in ParserStates
      /\ \E r \in RefStates, q \in ParserStates :
              /\ r.need = 0 /\ r.line = Read /\ r.out = delivered
              /\ r.bin = <<>> /\ q = LineParse(kind, r, c)
              /\ Similar(q, p) /\ q.result = p.result
              /\ q.result = "PrefixCompleted" => q.data_size = p.data_size
              /\ RefBytes(kind, Begun(delivered, 0), Between(buffer, message_start, b))
                   = RefByte(kind, r, c)
              /\ RefBytes(kind, RefByte(kind, r, c), From(buffer, b)) = Behind(parsed, ref)
  BY <1>1, ScanReads
<1>4. /\ buffer \in Seq(Bytes) /\ Len(buffer) \in Nat /\ Len(buffer) <= BufferSize
      /\ message_start \in Nat /\ buffer_pos \in Nat /\ message_start <= buffer_pos
      /\ b \in Nat /\ message_start <= b /\ b <= Len(buffer)
      /\ bin_message_size = 0 /\ delivered \in Seq(Messages) /\ kind \in Parsers
  BY <1>1 DEF TypeInv
<1>5. c \in Bytes
  BY <1>1, <1>4, PartGrows
<1> HIDE DEF p, c
<1>6. PICK r \in RefStates, q \in ParserStates :
              /\ r.need = 0 /\ r.line = Read /\ r.out = delivered
              /\ r.bin = <<>> /\ q = LineParse(kind, r, c)
              /\ Similar(q, p) /\ q.result = p.result
              /\ q.result = "PrefixCompleted" => q.data_size = p.data_size
              /\ RefBytes(kind, Begun(delivered, 0), Between(buffer, message_start, b))
                   = RefByte(kind, r, c)
              /\ RefBytes(kind, RefByte(kind, r, c), From(buffer, b)) = Behind(parsed, ref)
  BY <1>3
<1>7. /\ p.data_size \in Nat /\ p.data_size <= 65535
  BY <1>3 DEF ParserStates
<1>8. CASE ScanPrefixEnd(p)
  <2> DEFINE n == p.data_size
             e == b + n
             packet == Between(buffer, b, e)
  <2>1. p.result = "PrefixCompleted" /\ q.result = "PrefixCompleted" /\ q.data_size = n
    BY <1>6, <1>8 DEF ScanPrefixEnd
  <2>2. n \in Nat /\ n <= 65535 /\ e \in Nat /\ b <= e /\ e - b = n
    BY <1>4, <1>7
  <2>3. n > 0 => RefByte(kind, r, c) = Begun(delivered, n)
    BY <1>4, <1>5, <1>6, <2>1, LineByteIs
  <2>4. n = 0 => RefByte(kind, r, c) = Begun(Append(delivered, Binary(<<>>)), 0)
    BY <1>4, <1>5, <1>6, <2>1, LineByteIs
  <2> HIDE DEF n
  <2>5. CASE e <= Len(buffer)
    <3>1. /\ Return(Binary(SubSeq(buffer, b + 1, e)))
          /\ buffer_pos' = e /\ bin_message_size' = 0 /\ parser' = p
          /\ UNCHANGED <<kind, buffer, appended, parsed, ref>>
      BY <1>8, <2>5 DEF ScanPrefixEnd, n
    <3> HIDE DEF e
    <3>2. packet \in Seq(Bytes) /\ Len(packet) = n
      BY <1>4, <2>2, <2>5, PartsAre
    <3>3. RefBytes(kind, Begun(Append(delivered, Binary(packet)), 0), From(buffer, e)) =
            Behind(parsed, ref)
      <4>1. CASE n = 0
        <5>1. e = b /\ packet = <<>>
          BY <1>4, <2>2, <3>2, <4>1
        <5> QED
          BY <1>6, <2>4, <4>1, <5>1
      <4>2. CASE n # 0
        <5>1. n > 0
          BY <2>2, <4>2
        <5> HIDE DEF packet
        <5>2. RefBytes(kind, Begun(delivered, n), packet) =
                Begun(Append(delivered, Binary(packet)), 0)
          BY <1>4, <2>2, <3>2, <5>1, PacketBytes
        <5>3. RefBytes(kind, Begun(delivered, n), From(buffer, b)) = Behind(parsed, ref)
          BY <1>6, <2>3, <5>1
        <5> HIDE DEF b
        <5> QED
          BY <1>4, <2>2, <2>5, <5>2, <5>3, RefBytesInParts DEF packet
      <4> QED
        BY <4>1, <4>2
    <3> HIDE DEF b, packet
    <3> QED
      BY <1>3, <1>4, <2>2, <2>5, <3>1, <3>3, PacketReturned DEF e, packet
  <2>6. CASE ~ (e <= Len(buffer))
    <3>1. ReturnNothing(b) /\ bin_message_size' = n /\ parser' = p
      BY <1>8, <2>6 DEF ScanPrefixEnd, n
    <3>2. n > 0 /\ Len(From(buffer, b)) < n
      <4>1. Len(From(buffer, b)) = Len(buffer) - b
        BY <1>4, PartsAre
      <4> QED
        BY <1>4, <2>2, <2>6, <4>1
    <3>3. RefBytes(kind, Begun(delivered, n), From(buffer, b)) = Behind(parsed, ref)
      BY <1>6, <2>3, <3>2
    <3> HIDE DEF b, e
    <3> QED
      BY <1>3, <1>4, <2>2, <3>1, <3>2, <3>3, NothingReturned
  <2> QED
    BY <2>5, <2>6
<1>9. CASE ScanLineEnd(p, c)
  <2>1. /\ p.result = "NotMatched" /\ c \in EndOfLine /\ q.result = "NotMatched"
        /\ parser' = p /\ buffer' = [buffer EXCEPT ![b] = 0] /\ buffer_pos' = b
        /\ UNCHANGED <<kind, bin_message_size, appended, parsed, ref>>
    BY <1>6, <1>9 DEF ScanLineEnd
  <2>2. buffer' \in Seq(Bytes) /\ Len(buffer') = Len(buffer) /\ From(buffer', b) = From(buffer, b)
    BY <1>1, <1>4, <2>1, PartBehind
  <2>3. Read \in Seq(Bytes) /\ Len(Read) = buffer_pos - message_start
    BY <1>4, PartsAre, <1>1 DEF Read
  <2>4. CASE buffer_pos = message_start
    <3>1. message_start' = b /\ UNCHANGED <<pc, message, delivered>>
      BY <1>9, <2>4 DEF ScanLineEnd
    <3>2. Read = <<>>
      BY <1>4, <2>3, <2>4
    <3>3. RefByte(kind, r, c) = Begun(delivered, 0)
      BY <1>4, <1>5, <1>6, <2>1, <3>2, LineByteIs
    <3>4. StreamInv'
      <4>1. Start' = b
        BY <1>1, <3>1 DEF Start
      <4> QED
        BY <1>4, <1>6, <2>1, <2>2, <3>1, <3>3, <4>1 DEF StreamInv
    <3>5. TypeInv'
      BY <1>1, <1>3, <1>4, <2>1, <2>2, <3>1 DEF TypeInv
    <3>6. LineInv'
      <4>1. Read' = <<>>
        <5>1. Between(buffer', b, b) = <<>>
          BY <1>4, <2>2, PartsAre
        <5> QED
          BY <2>1, <3>1, <5>1 DEF Read
      <4>2. RefBytes(kind, Begun(delivered, 0), <<>>) = Lined(delivered, ParserStart, <<>>)
        BY RefBytesOfNone DEF Begun, Lined
      <4>3. ParserStart \in ParserStates /\ ~ (b < b)
        BY <1>4, RefStartIs
      <4> QED
        BY <2>1, <3>1, <4>1, <4>2, <4>3 DEF LineInv
    <3>7. QuietInv'
      BY <1>1, <3>1 DEF QuietInv
    <3> QED
      BY <3>4, <3>5, <3>6, <3>7 DEF IInv
  <2>5. CASE buffer_pos # message_start
    <3> DEFINE m == Text(Read)
    <3>1. Return(m)
      BY <1>9, <2>5 DEF ScanLineEnd, Read, Between
    <3>2. Read # <<>>
      BY <1>4, <2>3, <2>5
    <3>3. m \in Messages /\ m.data = Read /\ ~ m.null
      BY <2>3, MessagesAre DEF Text
    <3>4. RefByte(kind, r, c) = Begun(Append(delivered, m), 0)
      BY <1>4, <1>5, <1>6, <2>1, <3>2, LineByteIs
    <3> HIDE DEF m
    <3>5. /\ message' = m /\ delivered' = Append(delivered, m) /\ message_start' = 0
          /\ pc' = "drain"
      BY <3>1, <3>2, <3>3 DEF Return
    <3>6. TypeInv'
      <4>1. delivered' \in Seq(Messages)
        BY <1>4, <3>3, <3>5
      <4> QED
        BY <1>1, <1>3, <1>4, <2>1, <2>2, <3>3, <3>5, <4>1 DEF TypeInv
    <3>7. StreamInv'
      <4>1. Start' = b
        BY <2>1, <3>5 DEF Start
      <4> QED
        BY <1>4, <1>6, <2>1, <2>2, <3>4, <3>5, <4>1 DEF StreamInv
    <3> QED
      BY <3>5, <3>6, <3>7 DEF IInv, LineInv, QuietInv
  <2> QED
    BY <2>4, <2>5
<1>10. CASE ScanOther(p, c)
  <2>1. /\ p.result = "PrefixMatched" \/ (p.result = "NotMatched" /\ c \notin EndOfLine)
        /\ parser' = p /\ buffer_pos' = b
        /\ UNCHANGED <<kind, buffer, bin_message_size, message_start, pc, message,
                       appended, delivered, parsed, ref>>
    BY <1>10 DEF ScanOther
  <2>2. TypeInv'
    BY <1>1, <1>3, <1>4, <2>1 DEF TypeInv
  <2>3. StreamInv'
    <3>1. StreamInv
      BY DEF IInv
    <3>2. Start' = Start
      BY <1>1, <2>1 DEF Start
    <3> QED
      BY <2>1, <3>1, <3>2 DEF StreamInv
  <2>4. LineInv'
    <3> DEFINE s == Between(buffer, message_start, b)
    <3>1. s = Append(Read, c)
      BY <1>1, <1>4, PartGrows DEF Read, c
    <3> HIDE DEF s
    <3>2. RefByte(kind, r, c) = Longer(r, c, q)
      BY <1>4, <1>5, <1>6, <2>1, LineByteIs
    <3>3. Longer(r, c, q) = [line |-> Append(r.line, c), p |-> q, need |-> r.need,
                             bin |-> r.bin, out |-> r.out]
      <4> DEFINE x == Longer(r, c, q)
      <4>1. Append(r.line, c) \in Seq(Bytes) /\ r \in RefStates /\ q \in ParserStates
        BY <1>4, <1>5, <1>6, RefStateIs
      <4>2. x \in RefStates
        BY <4>1 DEF RefStates, Longer
      <4>3. /\ x.line = Append(r.line, c) /\ x.p = q /\ x.need = r.need
            /\ x.bin = r.bin /\ x.out = r.out
        BY <4>1 DEF RefStates, Longer
      <4> HIDE DEF x
      <4>4. x = [line |-> x.line, p |-> x.p, need |-> x.need, bin |-> x.bin, out |-> x.out]
        BY <4>2, RefStateIs
      <4> QED
        BY <4>3, <4>4 DEF x
    <3>4. Longer(r, c, q) = Lined(delivered, q, s)
      BY <1>6, <3>1, <3>3 DEF Lined
    <3>5. RefBytes(kind, Begun(delivered, 0), s) = Lined(delivered, q, s)
      BY <1>6, <3>2, <3>4 DEF s
    <3>6. Read' = s
      BY <2>1 DEF Read, s
    <3> QED
      BY <1>6, <2>1, <3>5, <3>6 DEF LineInv
  <2>5. QuietInv'
    BY <1>1, <2>1 DEF QuietInv
  <2> QED
    BY <2>2, <2>3, <2>4, <2>5 DEF IInv
<1> QED
  BY <1>2, <1>8, <1>9, <1>10

\* Every step of NextMessage keeps the invariant.
LEMMA NextMessageIInv == IInv /\ NextMessage => IInv'
BY ReturnAwaitedIInv, EnterLoopIInv, StillAwaitedIInv, LoopEndsIInv, ScanIInv DEF NextMessage

\* Steps that leave the parser alone do too.
LEMMA StutterIInv == IInv /\ UNCHANGED vars => IInv'
BY DEF vars, parse, IInv, TypeInv, StreamInv, Start, LineInv, Read, QuietInv

\* Chunks are bytes.
LEMMA ChunksAreBytes ==
  ASSUME NEW k \in Parsers, NEW chunk \in Chunks(k)
  PROVE  chunk \in Seq(Bytes)
<1>1. PICK n \in 0 .. MaxChunk : chunk \in [1 .. n -> BytesOf(k)]
  BY DEF Chunks
<1>2. n \in Nat
  BY SizesAssumption
<1>3. BytesOf(k) \subseteq Bytes
  BY ParsersAssumption DEF Bytes
<1> QED
  BY <1>1, <1>2, <1>3

LEMMA NextIInv ==
  ASSUME NoTimeout
  PROVE  IInv /\ [Next]_vars => IInv'
<1> SUFFICES ASSUME IInv, [Next]_vars PROVE IInv'
  OBVIOUS
<1>1. CASE NextMessage
  BY <1>1, NextMessageIInv
<1>2. ASSUME NEW chunk \in Chunks(kind), NEW expired \in Expiry, AppendChunk(chunk, expired)
      PROVE  IInv'
  <2>1. chunk \in Seq(Bytes)
    BY ChunksAreBytes DEF IInv, TypeInv
  <2>2. expired = FALSE
    BY ParsersAssumption DEF NoTimeout
  <2> QED
    BY <1>2, <2>1, <2>2, AppendIInv
<1>3. CASE UNCHANGED vars
  BY <1>3, StutterIInv
<1> QED
  BY <1>1, <1>2, <1>3 DEF Next

\* The messages returned are the first of those the reference has seen.
LEMMA IInvInOrder ==
  ASSUME IInv
  PROVE  /\ InOrder
         /\ Range(delivered) \subseteq Range(parsed)
<1>1. /\ kind \in Parsers /\ buffer \in Seq(Bytes) /\ ref \in RefStates /\ ref.out = <<>>
      /\ delivered \in Seq(Messages) /\ parsed \in Seq(Messages) /\ bin_message_size \in Nat
      /\ Start \in Nat /\ Start <= Len(buffer)
  BY DEF IInv, TypeInv, Start
<1> DEFINE r == RefBytes(kind, Begun(<<>>, bin_message_size), From(buffer, Start))
<1>2. From(buffer, Start) \in Seq(Bytes)
  BY <1>1, PartsAre
<1>3. /\ Begun(<<>>, bin_message_size) \in RefStates
      /\ Begun(delivered, bin_message_size) = Behind(delivered, Begun(<<>>, bin_message_size))
  <2>1. <<>> \in Seq(Messages) /\ delivered \o <<>> = delivered
    BY <1>1
  <2> QED
    BY <1>1, <2>1, RefStartIs DEF Begun, Behind
<1>4. /\ r \in RefStates
      /\ RefBytes(kind, Begun(delivered, bin_message_size), From(buffer, Start)) =
           Behind(delivered, r)
  BY <1>1, <1>2, <1>3, RefBytesBehind
<1>5. Behind(delivered, r) = Behind(parsed, ref)
  BY <1>4 DEF IInv, StreamInv
<1> DEFINE x == r.out
<1>6. x \in Seq(Messages) /\ parsed = delivered \o x
  <2>1. Behind(parsed, ref).out = parsed
    BY <1>1, BehindIs
  <2>2. Behind(delivered, r).out = delivered \o x
    BY DEF Behind
  <2> HIDE DEF r
  <2> QED
    BY <1>4, <1>5, <2>1, <2>2, RefStateIs
<1> HIDE DEF x, r
<1>7. Len(delivered) \in Nat /\ Len(parsed) = Len(delivered) + Len(x) /\ Len(x) \in Nat
  BY <1>1, <1>6
<1>8. \A i \in 1 .. Len(delivered) : parsed[i] = delivered[i]
  BY <1>1, <1>6
<1>9. SubSeq(delivered, 1, Len(delivered)) = SubSeq(parsed, 1, Len(delivered))
  BY <1>1, <1>7, <1>8
<1>10. DOMAIN delivered = 1 .. Len(delivered) /\ DOMAIN parsed = 1 .. Len(parsed)
  BY <1>1
<1>11. 1 .. Len(delivered) \subseteq 1 .. Len(parsed)
  BY <1>7
<1>12. Range(delivered) \subseteq Range(parsed)
  <2> SUFFICES ASSUME NEW i \in 1 .. Len(delivered) PROVE delivered[i] \in Range(parsed)
    BY <1>10 DEF Range
  <2> QED
    BY <1>8, <1>10, <1>11 DEF Range
<1> QED
  BY <1>7, <1>9, <1>12 DEF InOrder, IsPrefix

\* What the invariant says of the properties.
LEMMA IInvImplies == IInv => TypeOK /\ InOrder /\ DrainComplete /\ CompactedToOneFrame
<1> SUFFICES ASSUME IInv PROVE TypeOK /\ InOrder /\ DrainComplete /\ CompactedToOneFrame
  OBVIOUS
<1>1. TypeOK
  <2>1. TypeInv
    BY DEF IInv
  <2>2. /\ parser \in ParserStates /\ bin_message_size \in Nat /\ bin_message_size <= LargestSize
        /\ kind \in Parsers /\ buffer \in Seq(Bytes) /\ Len(buffer) <= BufferSize
        /\ message_start <= buffer_pos /\ buffer_pos <= Len(buffer)
        /\ pc \in {"idle", "drain", "scan"}
    BY <2>1 DEF TypeInv, LargestSize
  <2>3. /\ parser.found_idx \in 0 .. 3 /\ parser.data_size \in Nat
        /\ parser.data_size <= LargestSize
    BY ONLY <2>2 DEF ParserStates, LargestSize
  <2>4. LargestSize \in Nat
    BY DEF LargestSize
  <2>6. parser.data_size \in 0 .. LargestSize /\ bin_message_size \in 0 .. LargestSize
    BY ONLY <2>2, <2>3, <2>4
  <2>7. buffer \in Seq(0 .. 255)
    BY <2>2, Zenon DEF Bytes
  <2> QED
    BY ONLY <2>2, <2>3, <2>6, <2>7, Zenon DEF TypeOK
<1> QED
  BY <1>1, IInvInOrder DEF IInv, QuietInv, DrainComplete, CompactedToOneFrame

-----------------------------------------------------------------------------
(* The theorems about the parser                                           *)

\* The inductive invariant holds in every reachable state of the parser.
THEOREM ParserInvariantHolds == ASSUME NoTimeout PROVE Spec => []IInv
<1>1. IInv /\ [Next]_vars => IInv'
  BY NextIInv
<1> QED
  BY <1>1, InitIInv, PTL DEF Spec

\* The variables of the parser keep their types; the buffer is never overrun,
\* and NextMessage never moves more than it holds.
THEOREM TypeCorrect == ASSUME NoTimeout PROVE Spec => []TypeOK
  BY ParserInvariantHolds, IInvImplies, PTL

\* However Append cuts the stream, NextMessage returns the messages of the
\* stream, in order, none twice, none altered.
THEOREM MessagesInOrder == ASSUME NoTimeout PROVE Spec => []InOrder
  BY ParserInvariantHolds, IInvImplies, PTL

\* When NextMessage returns nothing, nothing complete is left in the buffer.
THEOREM DrainIsComplete == ASSUME NoTimeout PROVE Spec => []DrainComplete
  BY ParserInvariantHolds, IInvImplies, PTL

\* Then the buffer holds the bytes of the one unfinished message and no others.
THEOREM OneFrameIsKept == ASSUME NoTimeout PROVE Spec => []CompactedToOneFrame
  BY ParserInvariantHolds, IInvImplies, PTL

-----------------------------------------------------------------------------
(* The inductive invariant of the line                                     *)

LineTypeInv ==
  /\ pipe \in Seq(Bytes) /\ read_pos \in 0 .. BufferSize - 1
  /\ window = NoWindow \/ window \in 0 .. Len(pipe)
  /\ window # NoWindow => pc \in {"idle", "drain"}
  /\ received \in Nat /\ burst \in Nat
  /\ orderly \in BOOLEAN /\ lost \in BOOLEAN

\* Bytes that were in the pipe at the last ReadStart and still are.
Older == Len(pipe) - burst

\* What is left of a window that the end of the ring has cut is less than a
\* burst, and the next window starts at the start of the ring.
PipeInv ==
  IF window = NoWindow
  THEN Older <= IF read_pos = 0 THEN Burst - 1 ELSE 0
  ELSE /\ Older <= IF read_pos = 0 THEN 2 * Burst - 1 ELSE Burst
       /\ window = IF Older < BufferSize - read_pos THEN Older ELSE BufferSize - read_pos

\* As long as the line is orderly nothing is lost, and the unfinished message
\* is shorter than the longest.
OrderlyInv ==
  orderly =>
    /\ ~ lost
    /\ burst <= Burst /\ burst <= Len(pipe)
    /\ PipeInv
    /\ Len(ref.line) < Longest /\ Len(ref.bin) < Longest
    /\ Binary(<<>>) \notin Range(parsed)

IInvLine == IInv /\ LineTypeInv /\ OrderlyInv

\* The constants.
LEMMA LineNumbers ==
  /\ BufferSize \in Nat /\ BufferSize > 0 /\ Granule \in Nat /\ Granule > 0
  /\ Burst \in Nat /\ Burst > 0 /\ Longest \in Nat /\ Longest > 0
  /\ 3 * Burst - 1 <= BufferSize - Granule
  /\ Longest - 1 + 2 * Burst - 1 <= BufferSize
BY SizesAssumption, SizingAssumption

LEMMA InitIInvLine == InitLine => IInvLine
<1> SUFFICES ASSUME InitLine PROVE IInvLine
  OBVIOUS
<1>1. IInv
  BY InitIInv DEF InitLine
<1>2. LineTypeInv
  <2>1. /\ pipe = <<>> /\ read_pos \in StartPlaces /\ window = NoWindow
        /\ received = 0 /\ burst = 0 /\ orderly = TRUE /\ lost = FALSE
    BY DEF InitLine
  <2>2. read_pos \in 0 .. BufferSize - 1
    BY <2>1, SizingAssumption
  <2>3. pipe \in Seq(Bytes) /\ received \in Nat /\ burst \in Nat
    BY <2>1
  <2>4. orderly \in BOOLEAN /\ lost \in BOOLEAN
    BY <2>1
  <2> QED
    BY <2>1, <2>2, <2>3, <2>4, Zenon DEF LineTypeInv
<1>3. OrderlyInv
  <2>1. /\ ref.line = <<>> /\ ref.bin = <<>> /\ parsed = <<>>
    BY DEF InitLine, Init, RefStart
  <2>2. Range(<<>>) = {}
    BY DEF Range
  <2> QED
    BY <2>1, <2>2, LineNumbers DEF InitLine, OrderlyInv, PipeInv, Older
<1> QED
  BY <1>1, <1>2, <1>3 DEF IInvLine

\* The numbers the proofs are about.
LEMMA LineIs ==
  ASSUME IInvLine
  PROVE  /\ pipe \in Seq(Bytes) /\ Len(pipe) \in Nat
         /\ read_pos \in Nat /\ read_pos < BufferSize
         /\ burst \in Nat /\ received \in Nat /\ orderly \in BOOLEAN /\ lost \in BOOLEAN
         /\ window = NoWindow \/ (window \in Nat /\ window <= Len(pipe))
         /\ window # NoWindow => window \in Nat
         /\ Older \in Int
BY LineNumbers DEF IInvLine, LineTypeInv, Older

\* A byte of an orderly line finds room in the pipe.
LEMMA KeyboardIrqIInv ==
  ASSUME IInvLine, NEW c \in Bytes, KeyboardIrq(c)
  PROVE  IInvLine'
<1>1. /\ received' = received + 1 /\ burst' = burst + 1 /\ orderly' = (orderly /\ burst < Burst)
      /\ UNCHANGED <<vars, read_pos, window>>
  BY DEF KeyboardIrq
<1>2. IInv'
  BY <1>1, StutterIInv DEF IInvLine
<1>3. UNCHANGED <<pc, parsed, ref>>
  BY <1>1 DEF vars
<1>4. Append(pipe, c) \in Seq(Bytes) /\ Len(Append(pipe, c)) = Len(pipe) + 1
  BY LineIs
<1>5. \/ pipe' = Append(pipe, c) /\ lost' = lost
      \/ pipe' = pipe /\ lost' = TRUE /\ ~ PipeTakesByte
  BY DEF KeyboardIrq
<1>6. pipe' \in Seq(Bytes) /\ Len(pipe') \in Nat /\ Len(pipe) <= Len(pipe')
  BY <1>4, <1>5, LineIs
<1>7. LineTypeInv'
  <2>1. window = NoWindow \/ window \in 0 .. Len(pipe')
    BY <1>6, LineIs
  <2>2. lost' \in BOOLEAN /\ orderly' \in BOOLEAN
    <3>1. lost \in BOOLEAN /\ orderly \in BOOLEAN
      BY LineIs
    <3> QED
      BY <1>1, <1>5, <3>1, Zenon
  <2>3. received' \in Nat /\ burst' \in Nat
    BY <1>1, LineIs
  <2> QED
    BY <1>1, <1>3, <1>6, <2>1, <2>2, <2>3 DEF LineTypeInv, IInvLine
<1>8. OrderlyInv'
  <2>1. SUFFICES ASSUME orderly'
                 PROVE  /\ ~ lost' /\ burst' <= Burst /\ burst' <= Len(pipe') /\ PipeInv'
                        /\ Len(ref.line) < Longest /\ Len(ref.bin) < Longest
                        /\ Binary(<<>>) \notin Range(parsed)
    BY <1>3 DEF OrderlyInv
  <2>2. /\ orderly /\ burst < Burst /\ ~ lost /\ burst <= Len(pipe) /\ PipeInv
        /\ Len(ref.line) < Longest /\ Len(ref.bin) < Longest
        /\ Binary(<<>>) \notin Range(parsed)
    BY <1>1, <2>1 DEF IInvLine, OrderlyInv
  <2>3. Older <= 2 * Burst - 1
    BY <2>2, LineNumbers, LineIs DEF PipeInv
  <2>4. PipeTakesByte
    BY <2>2, <2>3, LineNumbers, LineIs DEF PipeTakesByte, Older
  <2>5. pipe' = Append(pipe, c) /\ ~ lost' /\ Len(pipe') = Len(pipe) + 1
    BY <1>4, <1>5, <2>2, <2>4
  <2>6. Older' = Older
    BY <1>1, <2>5, LineIs DEF Older
  <2>7. PipeInv'
    BY <1>1, <2>2, <2>6 DEF PipeInv, NoWindow
  <2> QED
    BY <1>1, <2>2, <2>5, <2>7, LineIs, LineNumbers
<1> QED
  BY <1>2, <1>7, <1>8 DEF IInvLine

LEMMA QuantReadStartIInv == IInvLine /\ QuantReadStart => IInvLine'
<1> SUFFICES ASSUME IInvLine, QuantReadStart PROVE IInvLine'
  OBVIOUS
<1>1. /\ pc = "idle" /\ window = NoWindow /\ window' = WindowSize /\ burst' = 0
      /\ UNCHANGED <<vars, pipe, read_pos, received, orderly, lost>>
  BY DEF QuantReadStart
<1>2. IInv'
  BY <1>1, StutterIInv DEF IInvLine
<1>3. UNCHANGED <<pc, parsed, ref>>
  BY <1>1 DEF vars
<1>4. WindowSize \in 0 .. Len(pipe)
  BY LineIs, LineNumbers DEF WindowSize
<1>5. LineTypeInv'
  BY <1>1, <1>3, <1>4 DEF IInvLine, LineTypeInv
<1>6. OrderlyInv'
  <2>1. SUFFICES ASSUME orderly PROVE PipeInv'
    BY <1>1, <1>3, LineIs, LineNumbers DEF IInvLine, OrderlyInv
  <2>2. PipeInv /\ burst <= Burst
    BY <2>1 DEF IInvLine, OrderlyInv
  <2>3. Older' = Len(pipe) /\ Len(pipe) = Older + burst
    BY <1>1, LineIs DEF Older
  <2>4. window' # NoWindow
    BY <1>1, <1>4, LineIs DEF NoWindow
  <2>5. Older' <= IF read_pos = 0 THEN 2 * Burst - 1 ELSE Burst
    BY <1>1, <2>2, <2>3, LineIs, LineNumbers DEF PipeInv
  <2>6. window' = IF Older' < BufferSize - read_pos THEN Older' ELSE BufferSize - read_pos
    BY <1>1, <2>3 DEF WindowSize
  <2> QED
    BY <1>1, <2>4, <2>5, <2>6 DEF PipeInv, NoWindow
<1> QED
  BY <1>2, <1>5, <1>6 DEF IInvLine

\* An orderly line's unfinished message leaves room for the whole window.
LEMMA QuantAppendIInv == IInvLine /\ QuantAppend => IInvLine'
<1> SUFFICES ASSUME IInvLine, QuantAppend PROVE IInvLine'
  OBVIOUS
<1> DEFINE chunk == SubSeq(pipe, 1, window)
           new == Cut(chunk, BufferSize - Len(buffer))
<1>1. /\ window # NoWindow /\ AppendChunk(chunk, FALSE)
      /\ lost' = (lost \/ appended' < appended + window)
      /\ orderly' = (/\ orderly
                     /\ Len(ref'.line) < Longest /\ Len(ref'.bin) < Longest
                     /\ Binary(<<>>) \notin Range(parsed'))
      /\ UNCHANGED <<pipe, read_pos, window, received, burst>>
  BY DEF QuantAppend, line
<1>2. window \in Nat /\ window <= Len(pipe)
  BY <1>1, LineIs
<1>3. chunk \in Seq(Bytes) /\ Len(chunk) = window
  BY <1>2, LineIs
<1>4. /\ pc = "idle" /\ pc' = "drain" /\ appended' = appended + Len(new)
  BY <1>1 DEF AppendChunk
<1> HIDE DEF chunk
<1>5. IInv'
  BY <1>1, <1>3, AppendIInv DEF IInvLine
<1>6. LineTypeInv'
  BY <1>1, <1>4 DEF IInvLine, LineTypeInv
<1>7. OrderlyInv'
  <2>1. SUFFICES ASSUME orderly' PROVE ~ lost' /\ burst <= Burst /\ burst <= Len(pipe) /\ PipeInv'
    BY <1>1 DEF OrderlyInv
  <2>2. /\ ~ lost /\ burst <= Burst /\ burst <= Len(pipe) /\ PipeInv
        /\ Len(ref.line) < Longest /\ Len(ref.bin) < Longest
        /\ Binary(<<>>) \notin Range(parsed)
    BY <1>1, <2>1 DEF IInvLine, OrderlyInv
  <2>3. PipeInv'
    BY <1>1, <2>2 DEF PipeInv, Older, NoWindow
  <2>4. window <= 2 * Burst - 1
    BY <1>1, <1>2, <2>2, LineIs, LineNumbers DEF PipeInv
  <2>5. /\ buffer \in Seq(Bytes) /\ Len(buffer) \in Nat /\ Len(buffer) <= BufferSize
        /\ appended \in Nat
    BY DEF IInvLine, IInv, TypeInv
  <2>6. Len(buffer) <= Longest - 1
    <3>1. message.null
      <4>1. IInv
        BY DEF IInvLine
      <4>2. Range(delivered) \subseteq Range(parsed)
        BY <4>1, IInvInOrder
      <4> QED
        BY <1>4, <2>2, <4>1, <4>2 DEF IInv, QuietInv
    <3>2. buffer = ref.bin \/ buffer = ref.line
      BY <1>4, <3>1 DEF IInvLine, IInv, QuietInv
    <3> QED
      BY <2>2, <2>5, <3>2, LineNumbers
  <2>7. BufferSize - Len(buffer) \in Nat /\ Len(chunk) <= BufferSize - Len(buffer)
    BY <1>2, <1>3, <2>4, <2>5, <2>6, LineNumbers
  <2>8. Len(new) = window
    BY <1>3, <2>7, CutIs
  <2>9. ~ (appended' < appended + window)
    BY <1>2, <1>4, <2>5, <2>8
  <2> QED
    BY <1>1, <2>2, <2>3, <2>9
<1> QED
  BY <1>5, <1>6, <1>7 DEF IInvLine

LEMMA QuantReadEndIInv == IInvLine /\ QuantReadEnd => IInvLine'
<1> SUFFICES ASSUME IInvLine, QuantReadEnd PROVE IInvLine'
  OBVIOUS
<1>1. /\ pc = "drain" /\ window # NoWindow /\ pipe' = SubSeq(pipe, window + 1, Len(pipe))
      /\ read_pos' = (read_pos + window) % BufferSize /\ window' = NoWindow
      /\ UNCHANGED <<vars, received, burst, orderly, lost>>
  BY DEF QuantReadEnd, lineHistory
<1>2. IInv'
  BY <1>1, StutterIInv DEF IInvLine
<1>3. UNCHANGED <<pc, parsed, ref>>
  BY <1>1 DEF vars
<1>4. window \in Nat /\ window <= Len(pipe) /\ Len(pipe) \in Nat
  BY <1>1, LineIs
<1>5. pipe' \in Seq(Bytes) /\ Len(pipe') = Len(pipe) - window
  BY <1>1, <1>4, LineIs
<1>6. read_pos' \in 0 .. BufferSize - 1
  BY <1>1, <1>4, LineIs, LineNumbers
<1>7. LineTypeInv'
  BY <1>1, <1>3, <1>5, <1>6 DEF IInvLine, LineTypeInv
<1>8. OrderlyInv'
  <2>1. SUFFICES ASSUME orderly PROVE burst <= Len(pipe') /\ PipeInv'
    BY <1>1, <1>3 DEF IInvLine, OrderlyInv
  <2>2. burst <= Len(pipe) /\ PipeInv
    BY <2>1 DEF IInvLine, OrderlyInv
  <2>3. Older' = Older - window
    BY <1>1, <1>4, <1>5, LineIs DEF Older
  <2>4. Older >= 0
    BY <2>2, LineIs DEF Older
  <2>5. /\ Older <= IF read_pos = 0 THEN 2 * Burst - 1 ELSE Burst
        /\ window = IF Older < BufferSize - read_pos THEN Older ELSE BufferSize - read_pos
    BY <1>1, <2>2 DEF PipeInv
  <2>6. CASE Older < BufferSize - read_pos
    <3>1. Older' = 0 /\ window = Older
      BY <2>3, <2>5, <2>6, LineIs
    <3>2. burst <= Len(pipe')
      BY <1>1, <1>5, <3>1, LineIs DEF Older
    <3>3. PipeInv'
      BY <1>1, <3>1, LineNumbers DEF PipeInv, NoWindow
    <3> QED
      BY <3>2, <3>3
  <2>7. CASE ~ (Older < BufferSize - read_pos)
    <3>1. read_pos # 0
      BY <2>5, <2>7, LineIs, LineNumbers
    <3>2. window = BufferSize - read_pos /\ window > 0 /\ Older <= Burst /\ window <= Older
      BY <2>5, <2>7, <3>1, LineIs, LineNumbers
    <3>3. read_pos' = 0
      <4>1. read_pos + window = BufferSize
        BY <3>2, LineIs, LineNumbers
      <4>2. BufferSize % BufferSize = 0
        BY LineNumbers
      <4> QED
        BY <1>1, <4>1, <4>2
    <3>4. Older' <= Burst - 1
      BY <2>3, <3>2, LineIs, LineNumbers
    <3>5. PipeInv'
      BY <1>1, <3>3, <3>4 DEF PipeInv, NoWindow
    <3>6. burst <= Len(pipe')
      BY <1>4, <1>5, <3>2, LineIs DEF Older
    <3> QED
      BY <3>5, <3>6
  <2> QED
    BY <2>6, <2>7
<1> QED
  BY <1>2, <1>7, <1>8 DEF IInvLine

LEMMA MessageDebugNextIInv == IInvLine /\ MessageDebugNext => IInvLine'
<1> SUFFICES ASSUME IInvLine, MessageDebugNext PROVE IInvLine'
  OBVIOUS
<1>1. /\ window = NoWindow /\ NextMessage
      /\ UNCHANGED <<pipe, read_pos, window, received, burst, orderly, lost>>
  BY DEF MessageDebugNext, line, lineHistory
<1>2. IInv'
  BY <1>1, NextMessageIInv DEF IInvLine
<1>3. UNCHANGED <<parsed, ref>>
  BY <1>1 DEF NextMessage, ReturnAwaited, EnterLoop, StillAwaited, LoopEnds, Scan,
     ScanPrefixEnd, ScanLineEnd, ScanOther, ReturnNothing
<1>4. LineTypeInv'
  BY <1>1 DEF IInvLine, LineTypeInv
<1>5. OrderlyInv'
  BY <1>1, <1>3 DEF IInvLine, OrderlyInv, PipeInv, Older
<1> QED
  BY <1>2, <1>4, <1>5 DEF IInvLine

LEMMA NextIInvLine == IInvLine /\ [NextLine]_allVars => IInvLine'
<1> SUFFICES ASSUME IInvLine, [NextLine]_allVars PROVE IInvLine'
  OBVIOUS
<1>1. ASSUME NEW c \in BytesOf(kind), KeyboardIrq(c) PROVE IInvLine'
  <2>1. kind \in Parsers
    BY DEF IInvLine, IInv, TypeInv
  <2>2. c \in Bytes
    BY <2>1, ParsersAssumption DEF Bytes
  <2> QED
    BY <1>1, <2>2, KeyboardIrqIInv
<1>2. CASE MessageDebugQuant
  BY <1>2, QuantReadStartIInv, QuantAppendIInv, QuantReadEndIInv DEF MessageDebugQuant
<1>3. CASE MessageDebugNext
  BY <1>3, MessageDebugNextIInv
<1>4. CASE UNCHANGED allVars
  <2>1. UNCHANGED vars /\ UNCHANGED <<pipe, read_pos, window, received, burst, orderly, lost>>
    BY <1>4 DEF allVars, line, lineHistory
  <2>2. UNCHANGED <<pc, parsed, ref>>
    BY <2>1 DEF vars
  <2>3. IInv'
    BY <2>1, StutterIInv DEF IInvLine
  <2> QED
    BY <2>1, <2>2, <2>3 DEF IInvLine, LineTypeInv, OrderlyInv, PipeInv, Older
<1> QED
  BY <1>1, <1>2, <1>3, <1>4 DEF NextLine

-----------------------------------------------------------------------------
(* The theorems about the line                                             *)

\* The inductive invariant of the line holds in every reachable state.
THEOREM LineInvariantHolds == SpecLine => []IInvLine
  BY InitIInvLine, NextIInvLine, PTL DEF SpecLine

\* A line that keeps to Burst and Longest loses no byte, neither in the pipe
\* nor in Append, wherever the end of the ring cuts the windows: the two
\* inequalities of SizingAssumption are room enough, for any sizes.
THEOREM NothingIsLost == SpecLine => []NothingLost
<1>1. IInvLine => NothingLost
  BY DEF IInvLine, OrderlyInv, NothingLost
<1> QED
  BY <1>1, LineInvariantHolds, PTL

\* What the parser promises holds behind the pipe too, of an orderly line or
\* another: MessageDebugQuant never lets the timeout expire.
THEOREM LineMessagesInOrder ==
  SpecLine => [](InOrder /\ DrainComplete /\ CompactedToOneFrame)
<1>1. IInvLine => InOrder /\ DrainComplete /\ CompactedToOneFrame
  BY IInvImplies DEF IInvLine
<1> QED
  BY <1>1, LineInvariantHolds, PTL
=============================================================================
