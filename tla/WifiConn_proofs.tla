--------------------------- MODULE WifiConn_proofs ---------------------------
(***************************************************************************)
(* Proofs about WifiConn for any set of networks and any number of calls,  *)
(* rounds of polling and connections: the stores of the event task and of  *)
(* the command task, in whatever order they come, leave the event bits and *)
(* _status with the truth, and connect_AP reports what it was asked for.   *)
(***************************************************************************)
EXTENDS WifiConn, TLAPS

USE DEF shared, command, eventTask, driver, k210, history

-----------------------------------------------------------------------------
(* Events on their way                                                     *)

LinkEvents == {"got_ip", "disconnected"}

\* No event about the link waits to be handled.
NoneQueued == \A i \in 1 .. Len(events) : events[i] \notin LinkEvents

\* None is being handled either.
Quiet == NoneQueued /\ handler \notin LinkEvents

\* The last event about the link that is not handled to the end is e.
Latest(e) ==
  \/ \E i \in 1 .. Len(events) :
       /\ events[i] = e
       /\ \A j \in 1 .. Len(events) : j > i => events[j] \notin LinkEvents
  \/ handler = e /\ NoneQueued

GotIpQueued == \E i \in 1 .. Len(events) : events[i] = "got_ip"
GotIpPending == handler = "got_ip" \/ GotIpQueued

\* There is one got_ip on its way at most.
OneGotIp ==
  /\ \A i, j \in 1 .. Len(events) :
       (events[i] = "got_ip" /\ events[j] = "got_ip") => i = j
  /\ handler = "got_ip" => ~ GotIpQueued

-----------------------------------------------------------------------------
(* The inductive invariant *)

Up == link.state = "up"

\* begin and beginAP until they have dropped the old connection, until they
\* have stored WL_CONNECTING, and until all their stores are done.
Dropping == {"bit", "clear", "drop"}
Preparing == Dropping \union {"mode", "ap"}
Starting == Preparing \union {"config", "connect", "apmode"}

\* Which command is where, and what the K210 is doing meanwhile.
TaskInv ==
  /\ kpc = "asked" <=> epc # "idle"
  /\ kpc = "asked" => result = "none"
  /\ epc \in {"ip", "netif"} => cmd = "ip"
  /\ epc \in Starting => cmd \in {"begin", "beginAP"}
  /\ epc \in {"scan", "started", "scanned"} => cmd = "scan"
  /\ epc = "leave" => cmd = "leave"
  /\ epc \in {"config", "connect"} => mode = "STA"
  /\ link.state # "down" => mode = "STA"
  /\ Up => link.no > 0
  /\ handler = "none" <=> step = 0
  /\ handler = "scan_done" => step = 1

\* The bits and _status tell of the link what the last event that was handled
\* said; what is not handled yet ends with an event that tells the truth.
BitInv ==
  /\ Up => Quiet \/ Latest("got_ip")
  /\ ~ Up => Quiet \/ Latest("disconnected")
  /\ Quiet =>
       /\ "CONNECTED" \in bits => Up
       /\ status = "CONNECTED" => Up
       /\ Up => "DISCONNECTED" \notin bits
       /\ (Up /\ epc # "drop") => "CONNECTED" \in bits
  /\ (NoneQueued /\ handler = "got_ip") =>
       /\ step > 1 => "DISCONNECTED" \notin bits
       /\ (step > 2 /\ epc # "drop") => "CONNECTED" \in bits
  /\ (NoneQueued /\ handler = "disconnected") =>
       (step > 1 => "CONNECTED" \notin bits)

\* A connection was asked for while nothing else was going on: then the link
\* comes up once at most, for this request, and what says so is of this link.
CalmInv ==
  asked.calm =>
    /\ link.no >= asked.from
    /\ link.state = "trying" => link.no = asked.from
    /\ epc \in Starting => link.no = asked.from /\ link.state # "trying"
    /\ (link.state = "trying" \/ link.no > asked.from) => link.net = asked.net
    /\ epc = "connect" => config = asked.net
    /\ OneGotIp
    /\ GotIpPending => link.no > asked.from /\ status # "CONNECTED"
    /\ (epc \notin Preparing /\ status = "CONNECTED") => link.no > asked.from
    /\ (epc \notin Dropping /\ Up) => link.no > asked.from
    /\ (epc \notin Dropping /\ Up /\ Quiet) => status = "CONNECTED"

\* What connect_AP and the address command have told the K210.
SeenInv ==
  /\ seen <= link.no
  /\ (asked.calm /\ result = "connected") => link.no > asked.from
  /\ (asked.calm /\ seen = link.no /\ Up) =>
       /\ Quiet
       /\ epc \notin Dropping
       /\ (result = "address" \/ (cmd = "ip" /\ epc = "reply")) => ipInfo = link.no

IInv == TypeOK /\ TaskInv /\ BitInv /\ CalmInv /\ SeenInv

-----------------------------------------------------------------------------
(* How the events on their way change                                      *)

Events == {"got_ip", "disconnected", "scan_done"}

\* The latest event is one, and Quiet says that there is none.
LEMMA LatestIsOne ==
  /\ ~ (Latest("got_ip") /\ Latest("disconnected"))
  /\ Quiet => ~ Latest("got_ip") /\ ~ Latest("disconnected")
  /\ Latest("got_ip") => GotIpPending
  /\ (NoneQueued /\ handler = "got_ip") => Latest("got_ip")
  /\ (NoneQueued /\ handler = "disconnected") => Latest("disconnected")
<1>1. ASSUME Latest("got_ip"), Latest("disconnected") PROVE FALSE
  <2>1. CASE NoneQueued
    BY <1>1, <2>1 DEF Latest, NoneQueued, LinkEvents
  <2>2. CASE ~ NoneQueued
    <3>1. PICK i \in 1 .. Len(events) :
            /\ events[i] = "got_ip"
            /\ \A j \in 1 .. Len(events) : j > i => events[j] \notin LinkEvents
      BY <1>1, <2>2 DEF Latest
    <3>2. PICK j \in 1 .. Len(events) :
            /\ events[j] = "disconnected"
            /\ \A k \in 1 .. Len(events) : k > j => events[k] \notin LinkEvents
      BY <1>1, <2>2 DEF Latest
    <3>3. i = j
      BY <3>1, <3>2 DEF LinkEvents
    <3>4. QED
      BY <3>1, <3>2, <3>3
  <2>3. QED
    BY <2>1, <2>2
<1>2. Quiet => ~ Latest("got_ip") /\ ~ Latest("disconnected")
  BY DEF Quiet, NoneQueued, Latest, LinkEvents
<1>3. /\ Latest("got_ip") => GotIpPending
      /\ (NoneQueued /\ handler = "got_ip") => Latest("got_ip")
      /\ (NoneQueued /\ handler = "disconnected") => Latest("disconnected")
  BY DEF Latest, GotIpPending, GotIpQueued
<1>4. QED
  BY <1>1, <1>2, <1>3

\* Nothing is posted and nothing handled.
LEMMA EventsStay ==
  ASSUME UNCHANGED <<events, handler>>
  PROVE  /\ NoneQueued' <=> NoneQueued
         /\ Quiet' <=> Quiet
         /\ \A e \in LinkEvents : Latest(e)' <=> Latest(e)
         /\ GotIpPending' <=> GotIpPending
         /\ OneGotIp' <=> OneGotIp
  BY DEF NoneQueued, Quiet, Latest, GotIpPending, GotIpQueued, OneGotIp

\* What Append does to a sequence, place by place.
LEMMA Appended ==
  ASSUME NEW S, NEW q \in Seq(S), NEW x \in S, NEW r, r = Append(q, x)
  PROVE  /\ Len(q) \in Nat /\ Len(r) = Len(q) + 1
         /\ r[Len(q) + 1] = x
         /\ \A i \in 1 .. Len(q) : r[i] = q[i]
         /\ r \in Seq(S)
  OBVIOUS

\* What Tail does.
LEMMA Tailed ==
  ASSUME NEW S, NEW q \in Seq(S), q # <<>>, NEW r, r = Tail(q)
  PROVE  /\ Len(q) \in Nat \ {0} /\ Len(r) = Len(q) - 1
         /\ \A i \in 1 .. Len(r) : r[i] = q[i + 1]
         /\ r \in Seq(S)
         /\ Head(q) = q[1] /\ Head(q) \in S
  OBVIOUS

\* An event about the link is posted: it is the latest now.
LEMMA LinkEventPosted ==
  ASSUME events \in Seq(Events), NEW x \in LinkEvents,
         events' = Append(events, x), handler' = handler
  PROVE  /\ ~ NoneQueued' /\ ~ Quiet'
         /\ Latest(x)'
         /\ GotIpPending' <=> (GotIpPending \/ x = "got_ip")
         /\ (OneGotIp /\ (x = "got_ip" => ~ GotIpPending)) => OneGotIp'
<1>1. /\ Len(events) \in Nat /\ Len(events') = Len(events) + 1
      /\ events'[Len(events) + 1] = x
      /\ \A i \in 1 .. Len(events) : events'[i] = events[i]
  BY Appended DEF Events, LinkEvents
<1>2. Len(events) + 1 \in 1 .. Len(events')
  BY <1>1
<1>3. ~ NoneQueued' /\ ~ Quiet'
  BY <1>1, <1>2 DEF NoneQueued, Quiet
<1>4. Latest(x)'
  BY <1>1, <1>2 DEF Latest
<1>5. GotIpQueued' <=> (GotIpQueued \/ x = "got_ip")
  BY <1>1, <1>2 DEF GotIpQueued
<1>6. GotIpPending' <=> (GotIpPending \/ x = "got_ip")
  BY <1>5 DEF GotIpPending
<1>7. ASSUME OneGotIp, x = "got_ip" => ~ GotIpPending PROVE OneGotIp'
  <2>1. handler' = "got_ip" => ~ GotIpQueued'
    BY <1>5, <1>7 DEF OneGotIp, GotIpPending
  <2>2. \A i, j \in 1 .. Len(events') :
          (events'[i] = "got_ip" /\ events'[j] = "got_ip") => i = j
    <3>1. CASE x = "got_ip"
      <4>1. \A i \in 1 .. Len(events) : events[i] # "got_ip"
        BY <1>7, <3>1 DEF GotIpPending, GotIpQueued
      <4>2. \A i \in 1 .. Len(events') : events'[i] = "got_ip" => i = Len(events) + 1
        BY <1>1, <4>1
      <4>3. QED
        BY <4>2
    <3>2. CASE x # "got_ip"
      BY <1>1, <1>7, <3>2 DEF OneGotIp
    <3>3. QED
      BY <3>1, <3>2
  <2>3. QED
    BY <2>1, <2>2 DEF OneGotIp
<1>8. QED
  BY <1>3, <1>4, <1>6, <1>7

\* The end of a scan says nothing about the link.
LEMMA ScanEventPosted ==
  ASSUME events \in Seq(Events), events' = Append(events, "scan_done"),
         handler' = handler
  PROVE  /\ NoneQueued' <=> NoneQueued
         /\ Quiet' <=> Quiet
         /\ \A e \in LinkEvents : Latest(e)' <=> Latest(e)
         /\ GotIpPending' <=> GotIpPending
         /\ OneGotIp => OneGotIp'
<1>1. /\ Len(events) \in Nat /\ Len(events') = Len(events) + 1
      /\ events'[Len(events) + 1] = "scan_done"
      /\ \A i \in 1 .. Len(events) : events'[i] = events[i]
  BY Appended DEF Events
<1>2. "scan_done" \notin LinkEvents /\ "scan_done" # "got_ip"
  BY DEF LinkEvents
<1>3. NoneQueued' <=> NoneQueued
  BY <1>1, <1>2 DEF NoneQueued
<1>4. \A e \in LinkEvents : Latest(e)' <=> Latest(e)
  <2> SUFFICES ASSUME NEW e \in LinkEvents PROVE Latest(e)' <=> Latest(e)
    OBVIOUS
  <2>1. ASSUME NEW i \in 1 .. Len(events), events[i] = e,
               \A j \in 1 .. Len(events) : j > i => events[j] \notin LinkEvents
        PROVE  Latest(e)'
    <3>1. i \in 1 .. Len(events') /\ events'[i] = e
      BY <1>1, <2>1
    <3>2. \A j \in 1 .. Len(events') : j > i => events'[j] \notin LinkEvents
      BY <1>1, <1>2, <2>1
    <3>3. QED
      BY <3>1, <3>2 DEF Latest
  <2>2. ASSUME NEW i \in 1 .. Len(events'), events'[i] = e,
               \A j \in 1 .. Len(events') : j > i => events'[j] \notin LinkEvents
        PROVE  Latest(e)
    <3>1. i \in 1 .. Len(events) /\ events[i] = e
      BY <1>1, <1>2, <2>2
    <3>2. \A j \in 1 .. Len(events) : j > i => events[j] \notin LinkEvents
      BY <1>1, <2>2
    <3>3. QED
      BY <3>1, <3>2 DEF Latest
  <2>3. QED
    BY <1>3, <2>1, <2>2 DEF Latest
<1>5. GotIpQueued' <=> GotIpQueued
  BY <1>1, <1>2 DEF GotIpQueued
<1>6. OneGotIp => OneGotIp'
  BY <1>1, <1>2, <1>5 DEF OneGotIp
<1>7. QED
  BY <1>3, <1>4, <1>5, <1>6 DEF Quiet, GotIpPending

\* The event task takes an event: it is still on its way.
LEMMA EventTaken ==
  ASSUME events \in Seq(Events), events # <<>>, handler = "none",
         handler' = Head(events), events' = Tail(events)
  PROVE  /\ Quiet' <=> Quiet
         /\ \A e \in LinkEvents : Latest(e)' <=> Latest(e)
         /\ GotIpPending' <=> GotIpPending
         /\ OneGotIp => OneGotIp'
<1>1. /\ Len(events) \in Nat \ {0} /\ Len(events') = Len(events) - 1
      /\ \A i \in 1 .. Len(events') : events'[i] = events[i + 1]
      /\ handler' = events[1]
  BY Tailed
<1>2. handler \notin LinkEvents
  BY DEF LinkEvents
<1>3. \A i \in 2 .. Len(events) : i - 1 \in 1 .. Len(events') /\ events'[i - 1] = events[i]
  BY <1>1
<1>4. NoneQueued' <=> \A i \in 2 .. Len(events) : events[i] \notin LinkEvents
  BY <1>1, <1>3 DEF NoneQueued
<1>5. NoneQueued <=> (handler' \notin LinkEvents /\ NoneQueued')
  BY <1>1, <1>4 DEF NoneQueued
<1>6. \A e \in LinkEvents : Latest(e)' <=> Latest(e)
  <2> SUFFICES ASSUME NEW e \in LinkEvents PROVE Latest(e)' <=> Latest(e)
    OBVIOUS
  <2>1. ASSUME NEW i \in 1 .. Len(events), events[i] = e,
               \A j \in 1 .. Len(events) : j > i => events[j] \notin LinkEvents
        PROVE  Latest(e)'
    <3>1. CASE i = 1
      <4>1. handler' = e /\ NoneQueued'
        BY <1>1, <1>4, <2>1, <3>1
      <4>2. QED
        BY <4>1 DEF Latest
    <3>2. CASE i # 1
      <4>1. i - 1 \in 1 .. Len(events') /\ events'[i - 1] = e
        BY <1>3, <2>1, <3>2
      <4>2. \A j \in 1 .. Len(events') : j > i - 1 => events'[j] \notin LinkEvents
        BY <1>1, <2>1
      <4>3. QED
        BY <4>1, <4>2 DEF Latest
    <3>3. QED
      BY <3>1, <3>2
  <2>2. ASSUME NEW i \in 1 .. Len(events'), events'[i] = e,
               \A j \in 1 .. Len(events') : j > i => events'[j] \notin LinkEvents
        PROVE  Latest(e)
    <3>1. i + 1 \in 1 .. Len(events) /\ events[i + 1] = e
      BY <1>1, <2>2
    <3>2. \A j \in 1 .. Len(events) : j > i + 1 => events[j] \notin LinkEvents
      BY <1>1, <1>3, <2>2
    <3>3. QED
      BY <3>1, <3>2 DEF Latest
  <2>3. ASSUME handler' = e, NoneQueued' PROVE Latest(e)
    <3>1. 1 \in 1 .. Len(events) /\ events[1] = e
      BY <1>1, <2>3
    <3>2. \A j \in 1 .. Len(events) : j > 1 => events[j] \notin LinkEvents
      BY <1>1, <1>4, <2>3
    <3>3. QED
      BY <3>1, <3>2 DEF Latest
  <2>4. QED
    BY <1>2, <2>1, <2>2, <2>3 DEF Latest
<1>7. GotIpQueued <=> (handler' = "got_ip" \/ GotIpQueued')
  <2>1. ASSUME NEW i \in 1 .. Len(events), events[i] = "got_ip"
        PROVE  handler' = "got_ip" \/ GotIpQueued'
    <3>1. CASE i = 1
      BY <1>1, <2>1, <3>1
    <3>2. CASE i # 1
      BY <1>3, <2>1, <3>2 DEF GotIpQueued
    <3>3. QED
      BY <3>1, <3>2
  <2>2. ASSUME handler' = "got_ip" \/ GotIpQueued' PROVE GotIpQueued
    <3>1. CASE handler' = "got_ip"
      BY <1>1, <3>1 DEF GotIpQueued
    <3>2. ASSUME NEW i \in 1 .. Len(events'), events'[i] = "got_ip"
          PROVE  GotIpQueued
      <4>1. i + 1 \in 1 .. Len(events) /\ events[i + 1] = "got_ip"
        BY <1>1, <3>2
      <4>2. QED
        BY <4>1 DEF GotIpQueued
    <3>3. QED
      BY <2>2, <3>1, <3>2 DEF GotIpQueued
  <2>3. QED
    BY <2>1, <2>2 DEF GotIpQueued
<1>8. OneGotIp => OneGotIp'
  <2> SUFFICES ASSUME OneGotIp PROVE OneGotIp'
    OBVIOUS
  <2>1. \A i, j \in 1 .. Len(events') :
          (events'[i] = "got_ip" /\ events'[j] = "got_ip") => i = j
    <3> SUFFICES ASSUME NEW i \in 1 .. Len(events'), NEW j \in 1 .. Len(events'),
                        events'[i] = "got_ip", events'[j] = "got_ip"
                 PROVE  i = j
      OBVIOUS
    <3>1. i + 1 \in 1 .. Len(events) /\ j + 1 \in 1 .. Len(events)
      BY <1>1
    <3>2. events[i + 1] = "got_ip" /\ events[j + 1] = "got_ip"
      BY <1>1
    <3>3. i + 1 = j + 1
      BY <3>1, <3>2 DEF OneGotIp
    <3>4. QED
      BY <3>3
  <2>2. handler' = "got_ip" => ~ GotIpQueued'
    <3> SUFFICES ASSUME handler' = "got_ip", NEW i \in 1 .. Len(events'),
                        events'[i] = "got_ip"
                 PROVE  FALSE
      BY DEF GotIpQueued
    <3>1. i + 1 \in 1 .. Len(events) /\ 1 \in 1 .. Len(events)
      BY <1>1
    <3>2. events[i + 1] = "got_ip" /\ events[1] = "got_ip"
      BY <1>1
    <3>3. i + 1 = 1
      BY <3>1, <3>2 DEF OneGotIp
    <3>4. QED
      BY <3>3
  <2>3. QED
    BY <2>1, <2>2 DEF OneGotIp
<1>9. QED
  BY <1>2, <1>5, <1>6, <1>7, <1>8 DEF Quiet, GotIpPending

\* A handler returns: its event is gone.
LEMMA EventHandled ==
  ASSUME handler # "none", handler' = "none", events' = events
  PROVE  /\ NoneQueued' <=> NoneQueued
         /\ Quiet' <=> NoneQueued
         /\ \A e \in LinkEvents : Latest(e)' <=> (Latest(e) /\ ~ NoneQueued)
         /\ GotIpPending' => GotIpPending
         /\ (OneGotIp /\ handler = "got_ip") => ~ GotIpPending'
         /\ OneGotIp => OneGotIp'
<1>1. /\ NoneQueued' <=> NoneQueued
      /\ GotIpQueued' <=> GotIpQueued
      /\ handler' \notin LinkEvents /\ handler' # "got_ip"
  BY DEF NoneQueued, GotIpQueued, LinkEvents
<1>2. \A e \in LinkEvents : Latest(e)' <=> (Latest(e) /\ ~ NoneQueued)
  BY <1>1 DEF Latest, NoneQueued
<1>3. QED
  BY <1>1, <1>2 DEF Quiet, GotIpPending, OneGotIp

-----------------------------------------------------------------------------
(* Every step keeps the invariant *)

\* The ESP32 has been started and nothing was asked for.
LEMMA InitIInv == Init => IInv
<1> SUFFICES ASSUME Init PROVE IInv
  OBVIOUS
<1> USE DEF Init
<1>1. TypeOK
  <2>1. 0 \in 0 .. AP /\ 0 \in 0 .. MaxLinks /\ 0 \in 0 .. RetryTimes /\ 0 \in 0 .. MaxCalls
    BY WifiAssumption DEF AP
  <2>2. events \in Seq({"got_ip", "disconnected", "scan_done"})
    OBVIOUS
  <2>3. /\ link \in [state : {"down", "trying", "up"},
                    net : Networks \union {"none"}, no : 0 .. MaxLinks]
        /\ asked \in [net : Networks \union {"none"}, calm : BOOLEAN,
                      from : 0 .. MaxLinks]
    BY <2>1 DEF Down
  <2>4. /\ status \in {"IDLE", "CONNECTING", "CONNECTED", "DISCONNECTED"}
        /\ bits \subseteq {"CONNECTED", "DISCONNECTED", "SCAN_DONE"}
        /\ scanning \in BOOLEAN
    OBVIOUS
  <2>5. /\ ipInfo \in 0 .. AP /\ tries \in 0 .. RetryTimes
        /\ seen \in 0 .. MaxLinks /\ calls \in 0 .. MaxCalls
        /\ step \in 0 .. 3
    BY <2>1
  <2>6. QED
    BY <2>2, <2>3, <2>4, <2>5 DEF TypeOK
<1>2. NoneQueued /\ Quiet /\ ~ GotIpPending /\ OneGotIp
  BY DEF NoneQueued, Quiet, GotIpPending, GotIpQueued, OneGotIp, LinkEvents
<1>3. ~ Up /\ link.no = 0
  BY DEF Up, Down
<1>4. TaskInv
  BY <1>3 DEF TaskInv, Starting, Preparing, Dropping, Down
<1>5. BitInv
  BY <1>2, <1>3 DEF BitInv
<1>6. CalmInv
  BY <1>2, <1>3 DEF CalmInv, Starting, Preparing, Dropping, Down
<1>7. SeenInv
  BY <1>3 DEF SeenInv
<1>8. QED
  BY <1>1, <1>4, <1>5, <1>6, <1>7 DEF IInv

\* What the state of the link and the numbers in it are made of.
LEMMA LinkFields ==
  ASSUME TypeOK
  PROVE  /\ link.state \in {"down", "trying", "up"}
         /\ link.net \in Networks \union {"none"}
         /\ link.no \in Nat /\ link.no \in 0 .. MaxLinks
         /\ link = [state |-> link.state, net |-> link.net, no |-> link.no]
         /\ asked.from \in Nat /\ asked.calm \in BOOLEAN
         /\ seen \in Nat
  BY WifiAssumption DEF TypeOK

\* The link is lost or given up: an event says so, unless it was down.
LEMMA LinkLost ==
  ASSUME TypeOK, BitInv, LoseLink, handler' = handler
  PROVE  /\ link' \in [state : {"down", "trying", "up"},
                       net : Networks \union {"none"}, no : 0 .. MaxLinks]
         /\ events' \in Seq({"got_ip", "disconnected", "scan_done"})
         /\ link'.state = "down" /\ ~ Up'
         /\ link'.no = link.no /\ link'.net = link.net
         /\ Quiet' => Quiet /\ ~ Up
         /\ Quiet' \/ Latest("disconnected")'
         /\ NoneQueued' => NoneQueued /\ ~ Up
         /\ GotIpPending' <=> GotIpPending
         /\ OneGotIp => OneGotIp'
<1>1. CASE link.state = "down"
  <2>1. UNCHANGED <<link, events, handler>> /\ ~ Up
    BY <1>1 DEF LoseLink, Up
  <2>2. QED
    BY <1>1, <2>1, EventsStay DEF TypeOK, BitInv, Up, LinkEvents
<1>2. CASE link.state # "down"
  <2>1. /\ link' = [link EXCEPT !.state = "down"]
        /\ events' = Append(events, "disconnected")
    BY <1>2 DEF LoseLink
  <2>2. events \in Seq(Events) /\ "disconnected" \in LinkEvents
    BY DEF TypeOK, Events, LinkEvents
  <2>3. /\ ~ NoneQueued' /\ ~ Quiet' /\ Latest("disconnected")'
        /\ GotIpPending' <=> GotIpPending
        /\ OneGotIp => OneGotIp'
    BY <2>1, <2>2, LinkEventPosted
  <2>4. events' \in Seq({"got_ip", "disconnected", "scan_done"})
    BY <2>1, <2>2, Appended DEF Events
  <2>5. QED
    BY <2>1, <2>3, <2>4 DEF TypeOK, Up
<1>3. QED
  BY <1>1, <1>2

\* The link comes up: the first time for this request, if it was calm.
LEMMA LinkComesUpStep ==
  ASSUME IInv, LinkComesUp
  PROVE  IInv'
<1>1. /\ link.state = "trying" /\ link.no < MaxLinks
      /\ link' = [link EXCEPT !.state = "up", !.no = link.no + 1]
      /\ events' = Append(events, "got_ip")
      /\ UNCHANGED <<status, bits, ipInfo, cmd, epc, handler, step, mode,
                     config, scanning, kpc, tries, result, asked, seen, calls>>
  BY DEF LinkComesUp
<1>2. /\ link'.state = "up" /\ link'.no = link.no + 1 /\ link'.net = link.net
      /\ Up' /\ ~ Up
  BY <1>1 DEF IInv, TypeOK, Up
<1>3. events \in Seq(Events) /\ "got_ip" \in LinkEvents
  BY DEF IInv, TypeOK, Events, LinkEvents
<1>4. /\ ~ NoneQueued' /\ ~ Quiet' /\ Latest("got_ip")'
      /\ GotIpPending'
      /\ (OneGotIp /\ ~ GotIpPending) => OneGotIp'
  BY <1>1, <1>3, LinkEventPosted
<1>5. TypeOK'
  <2>1. events' \in Seq({"got_ip", "disconnected", "scan_done"})
    BY <1>1, <1>3, Appended DEF Events
  <2>2. link.no + 1 \in 0 .. MaxLinks
    BY <1>1, WifiAssumption, LinkFields DEF IInv
  <2>3. link' \in [state : {"down", "trying", "up"},
                   net : Networks \union {"none"}, no : 0 .. MaxLinks]
    BY <1>1, <2>2 DEF IInv, TypeOK
  <2>4. QED
    BY <1>1, <2>1, <2>3 DEF IInv, TypeOK
<1>6. TaskInv'
  BY <1>1, <1>2, LinkFields DEF IInv, TaskInv
<1>7. BitInv'
  BY <1>1, <1>2, <1>4 DEF IInv, BitInv
<1>8. CalmInv'
  BY <1>1, <1>2, <1>4, LinkFields DEF IInv, CalmInv, Starting
<1>9. SeenInv'
  BY <1>1, <1>2, LinkFields DEF IInv, SeenInv
<1>10. QED
  BY <1>5, <1>6, <1>7, <1>8, <1>9 DEF IInv

\* The link goes down, or an attempt fails.
LEMMA LinkGoesDownStep ==
  ASSUME IInv, LinkGoesDown
  PROVE  IInv'
<1>1. /\ LoseLink
      /\ UNCHANGED <<status, bits, ipInfo, cmd, epc, handler, step, mode,
                     config, scanning, kpc, tries, result, asked, seen, calls>>
  BY DEF LinkGoesDown
<1>2. TypeOK'
  BY <1>1, LinkLost DEF IInv, TypeOK
<1>3. TaskInv'
  BY <1>1, LinkLost DEF IInv, TaskInv
<1>4. BitInv'
  BY <1>1, LinkLost DEF IInv, BitInv
<1>5. CalmInv'
  BY <1>1, LinkLost DEF IInv, CalmInv
<1>6. SeenInv'
  BY <1>1, LinkLost DEF IInv, SeenInv
<1>7. QED
  BY <1>2, <1>3, <1>4, <1>5, <1>6 DEF IInv

\* A scan ends.
LEMMA ScanEndsStep ==
  ASSUME IInv, ScanEnds
  PROVE  IInv'
<1>1. /\ events' = Append(events, "scan_done") /\ scanning' \in BOOLEAN
      /\ UNCHANGED <<status, bits, ipInfo, cmd, epc, handler, step, mode,
                     config, link, kpc, tries, result, asked, seen, calls>>
  BY DEF ScanEnds
<1>2. events \in Seq(Events)
  BY DEF IInv, TypeOK, Events
<1>3. /\ NoneQueued' <=> NoneQueued
      /\ Quiet' <=> Quiet
      /\ Latest("got_ip")' <=> Latest("got_ip")
      /\ Latest("disconnected")' <=> Latest("disconnected")
      /\ GotIpPending' <=> GotIpPending
      /\ OneGotIp => OneGotIp'
  BY <1>1, <1>2, ScanEventPosted DEF LinkEvents
<1>4. TypeOK'
  <2>1. events' \in Seq({"got_ip", "disconnected", "scan_done"})
    BY <1>1, <1>2, Appended DEF Events
  <2>2. QED
    BY <1>1, <2>1 DEF IInv, TypeOK
<1>5. TaskInv' /\ BitInv'
  BY <1>1, <1>3 DEF IInv, TaskInv, BitInv, Up
<1>6. CalmInv' /\ SeenInv'
  BY <1>1, <1>3 DEF IInv, CalmInv, SeenInv, Up
<1>7. QED
  BY <1>4, <1>5, <1>6 DEF IInv

\* The event task takes the next event.
LEMMA TakeEventStep ==
  ASSUME IInv, TakeEvent
  PROVE  IInv'
<1>1. /\ handler = "none" /\ events # <<>> /\ handler' = Head(events)
      /\ events' = Tail(events) /\ step' = 1
      /\ UNCHANGED <<status, bits, ipInfo, cmd, epc, mode, config, scanning,
                     link, kpc, tries, result, asked, seen, calls>>
  BY DEF TakeEvent
<1>2. events \in Seq(Events)
  BY DEF IInv, TypeOK, Events
<1>3. /\ Quiet' <=> Quiet
      /\ Latest("got_ip")' <=> Latest("got_ip")
      /\ Latest("disconnected")' <=> Latest("disconnected")
      /\ GotIpPending' <=> GotIpPending
      /\ OneGotIp => OneGotIp'
  BY <1>1, <1>2, EventTaken DEF LinkEvents
<1>4. handler' \in Events /\ events' \in Seq(Events)
  BY <1>1, <1>2, Tailed
<1>5. TypeOK'
  BY <1>1, <1>4 DEF IInv, TypeOK, Events
<1>6. TaskInv'
  BY <1>1, <1>4 DEF IInv, TaskInv, Events, Up
<1>7. BitInv'
  BY <1>1, <1>3 DEF IInv, BitInv, Up
<1>8. CalmInv' /\ SeenInv'
  BY <1>1, <1>3 DEF IInv, CalmInv, SeenInv, Up
<1>9. QED
  BY <1>5, <1>6, <1>7, <1>8 DEF IInv

\* A handler stores one of its bits.
LEMMA HandlerGoesOn ==
  ASSUME IInv, Handle, ~ (step = 3 \/ handler = "scan_done")
  PROVE  IInv'
<1>1. /\ handler' = handler /\ step' = step + 1
      /\ handler \in {"got_ip", "disconnected"} /\ step \in {1, 2}
      /\ handler = "got_ip" =>
           bits' = IF step = 1 THEN bits \ {"DISCONNECTED"} ELSE bits \union {"CONNECTED"}
      /\ handler = "disconnected" =>
           bits' = IF step = 1 THEN bits \ {"CONNECTED"} ELSE bits \union {"DISCONNECTED"}
      /\ UNCHANGED <<status, ipInfo, cmd, epc, events, mode, config, scanning,
                     link, kpc, tries, result, asked, seen, calls>>
  BY DEF Handle, GotIp, Disconnected, ScanDone
<1>2. /\ NoneQueued' <=> NoneQueued
      /\ Quiet' <=> Quiet
      /\ Latest("got_ip")' <=> Latest("got_ip")
      /\ Latest("disconnected")' <=> Latest("disconnected")
      /\ GotIpPending' <=> GotIpPending
      /\ OneGotIp' <=> OneGotIp
  BY <1>1, EventsStay DEF LinkEvents, Quiet
<1>3. ~ Quiet
  BY <1>1 DEF Quiet, LinkEvents
<1>4. TypeOK'
  <2>1. bits' \subseteq {"CONNECTED", "DISCONNECTED", "SCAN_DONE"}
    BY <1>1 DEF IInv, TypeOK
  <2>2. step' \in 0 .. 3
    BY <1>1
  <2>3. QED
    BY <1>1, <2>1, <2>2 DEF IInv, TypeOK
<1>5. TaskInv'
  BY <1>1 DEF IInv, TaskInv, Up
<1>6. BitInv'
  BY <1>1, <1>2, <1>3 DEF IInv, BitInv, Up
<1>7. CalmInv' /\ SeenInv'
  BY <1>1, <1>2 DEF IInv, CalmInv, SeenInv, Up
<1>8. QED
  BY <1>4, <1>5, <1>6, <1>7 DEF IInv

\* A handler stores _status, or the bit of the scan, and returns.
LEMMA HandlerReturns ==
  ASSUME IInv, Handle, step = 3 \/ handler = "scan_done"
  PROVE  IInv'
<1>1. /\ handler' = "none" /\ step' = 0
      /\ handler \in {"got_ip", "disconnected", "scan_done"}
      /\ handler = "got_ip" => step = 3 /\ status' = "CONNECTED" /\ bits' = bits
      /\ handler = "disconnected" => step = 3 /\ status' = "DISCONNECTED" /\ bits' = bits
      /\ handler = "scan_done" => status' = status /\ bits' = bits \union {"SCAN_DONE"}
      /\ UNCHANGED <<ipInfo, cmd, epc, events, mode, config, scanning,
                     link, kpc, tries, result, asked, seen, calls>>
  BY DEF Handle, GotIp, Disconnected, ScanDone
<1>2. /\ NoneQueued' <=> NoneQueued
      /\ Quiet' <=> NoneQueued
      /\ Latest("got_ip")' <=> (Latest("got_ip") /\ ~ NoneQueued)
      /\ Latest("disconnected")' <=> (Latest("disconnected") /\ ~ NoneQueued)
      /\ GotIpPending' => GotIpPending
      /\ (OneGotIp /\ handler = "got_ip") => ~ GotIpPending'
      /\ OneGotIp => OneGotIp'
  <2>1. handler # "none"
    BY <1>1
  <2>2. QED
    BY <1>1, <2>1, EventHandled DEF LinkEvents
<1>3. Quiet <=> (NoneQueued /\ handler = "scan_done")
  BY <1>1 DEF Quiet, LinkEvents
<1>4. handler = "got_ip" => GotIpPending
  BY DEF GotIpPending
<1>5. /\ (NoneQueued /\ handler = "got_ip") => Up
      /\ (NoneQueued /\ handler = "disconnected") => ~ Up
  BY LatestIsOne DEF IInv, BitInv
<1>6. TypeOK'
  <2>1. bits' \subseteq {"CONNECTED", "DISCONNECTED", "SCAN_DONE"}
    BY <1>1 DEF IInv, TypeOK
  <2>2. status' \in {"IDLE", "CONNECTING", "CONNECTED", "DISCONNECTED"}
    BY <1>1 DEF IInv, TypeOK
  <2>3. step' \in 0 .. 3
    BY <1>1
  <2>4. QED
    BY <1>1, <2>1, <2>2, <2>3 DEF IInv, TypeOK
<1>7. TaskInv'
  BY <1>1 DEF IInv, TaskInv, Up
<1>8. BitInv'
  BY <1>1, <1>2, <1>3, <1>5 DEF IInv, BitInv, Up
<1>9. CalmInv'
  BY <1>1, <1>2, <1>3, <1>4, <1>5 DEF IInv, CalmInv, Up, Starting
<1>10. SeenInv'
  BY <1>1, <1>2, <1>3 DEF IInv, SeenInv, Up
<1>11. QED
  BY <1>6, <1>7, <1>8, <1>9, <1>10 DEF IInv

\* Where begin or beginAP is before its connection, a calm request has found no
\* link, or is about to drop it.
LEMMA NoLinkWhileStarting ==
  ASSUME IInv, asked.calm, epc \in Starting, epc \notin Dropping
  PROVE  ~ Up /\ link.state = "down" /\ ~ GotIpPending
<1>1. ~ Up
  BY LinkFields DEF IInv, CalmInv
<1>2. link.state = "down"
  BY <1>1, LinkFields DEF IInv, CalmInv, Up
<1>3. QED
  BY <1>1, <1>2, LinkFields DEF IInv, CalmInv

\* No event and no change of the link: the view of both stays.
LEMMA LinkStays ==
  ASSUME UNCHANGED <<events, handler, link>>
  PROVE  /\ NoneQueued' <=> NoneQueued
         /\ Quiet' <=> Quiet
         /\ Latest("got_ip")' <=> Latest("got_ip")
         /\ Latest("disconnected")' <=> Latest("disconnected")
         /\ GotIpPending' <=> GotIpPending
         /\ OneGotIp' <=> OneGotIp
         /\ Up' <=> Up
  BY EventsStay DEF LinkEvents, Up

\* A calm request sees the bit of a connection that is up, and so will drop it.
LEMMA SeeBitStep ==
  ASSUME IInv, SeeBit
  PROVE  IInv'
<1>1. /\ epc = "bit"
      /\ epc' = IF "CONNECTED" \in bits THEN "clear"
                 ELSE IF cmd = "begin" THEN "mode" ELSE "ap"
      /\ UNCHANGED <<status, bits, ipInfo, cmd, events, handler, step,
                     mode, config, link, scanning, kpc, tries, result,
                     asked, seen, calls>>
  BY DEF SeeBit
<1>2. (asked.calm /\ "CONNECTED" \notin bits) => ~ Up
  BY <1>1, LatestIsOne, LinkFields DEF IInv, BitInv, CalmInv, Starting, Preparing, Dropping
<1>3. TypeOK'
  BY <1>1, <1>2 DEF IInv, TypeOK
<1>4. TaskInv'
  BY <1>1, <1>2, LinkStays DEF IInv, TaskInv, Starting, Preparing, Dropping
<1>5. BitInv'
  BY <1>1, <1>2, LinkStays DEF IInv, BitInv
<1>6. CalmInv'
  BY <1>1, <1>2, LinkStays, LinkFields DEF IInv, CalmInv, Starting, Preparing, Dropping
<1>7. SeenInv'
  BY <1>1, <1>2, LinkStays, LinkFields DEF IInv, SeenInv, Dropping
<1>8. QED
  BY <1>3, <1>4, <1>5, <1>6, <1>7 DEF IInv

\* The bit is cleared; the link is dropped next.
LEMMA ClearBitStep ==
  ASSUME IInv, ClearBit
  PROVE  IInv'
<1>1. /\ epc = "clear" /\ epc' = "drop"
      /\ bits' = bits \ {"CONNECTED"}
      /\ UNCHANGED <<status, ipInfo, cmd, events, handler, step, mode,
                     config, link, scanning, kpc, tries, result, asked,
                     seen, calls>>
  BY DEF ClearBit, Goto
<1>2. TypeOK'
  BY <1>1 DEF IInv, TypeOK
<1>3. TaskInv'
  BY <1>1, LinkStays DEF IInv, TaskInv, Starting, Preparing, Dropping
<1>4. BitInv'
  BY <1>1, LinkStays DEF IInv, BitInv
<1>5. CalmInv'
  BY <1>1, LinkStays DEF IInv, CalmInv, Starting, Preparing, Dropping
<1>6. SeenInv'
  BY <1>1, LinkStays DEF IInv, SeenInv, Dropping
<1>7. QED
  BY <1>2, <1>3, <1>4, <1>5, <1>6 DEF IInv

\* The old connection is dropped.
LEMMA DropLinkStep ==
  ASSUME IInv, DropLink
  PROVE  IInv'
<1>1. /\ epc = "drop"
      /\ epc' = IF cmd = "begin" THEN "mode" ELSE "ap"
      /\ LoseLink
      /\ UNCHANGED <<status, bits, ipInfo, cmd, handler, step, mode,
                     config, scanning, kpc, tries, result, asked, seen,
                     calls>>
  BY DEF DropLink
<1>2. TypeOK'
  BY <1>1, LinkLost DEF IInv, TypeOK
<1>3. TaskInv'
  BY <1>1, LinkLost DEF IInv, TaskInv, Starting, Preparing, Dropping
<1>4. BitInv'
  <2>1. NoneQueued' => NoneQueued /\ ~ Up
    BY <1>1, LinkLost DEF IInv
  <2>2. ~ (NoneQueued' /\ handler = "got_ip")
    BY <2>1, LatestIsOne DEF IInv, BitInv
  <2>3. /\ ~ Up' /\ (Quiet' => Quiet /\ ~ Up)
        /\ Quiet' \/ Latest("disconnected")'
    BY <1>1, LinkLost DEF IInv
  <2>4. QED
    BY <1>1, <2>1, <2>2, <2>3 DEF IInv, BitInv
<1>5. CalmInv'
  BY <1>1, LinkLost DEF IInv, CalmInv, Starting, Preparing, Dropping
<1>6. SeenInv'
  BY <1>1, LinkLost DEF IInv, SeenInv, Dropping
<1>7. QED
  BY <1>2, <1>3, <1>4, <1>5, <1>6 DEF IInv

\* WL_CONNECTING replaces what the status said of the old connection.
LEMMA StartStationStep ==
  ASSUME IInv, StartStation
  PROVE  IInv'
<1>1. /\ epc = "mode" /\ epc' = "config"
      /\ mode' = "STA" /\ status' = "CONNECTING"
      /\ UNCHANGED <<bits, ipInfo, cmd, events, handler, step, config,
                     link, scanning, kpc, tries, result, asked, seen,
                     calls>>
  BY DEF StartStation, Goto
<1>2. asked.calm => ~ Up /\ ~ GotIpPending
  BY <1>1, NoLinkWhileStarting DEF Starting, Preparing, Dropping
<1>3. TypeOK'
  BY <1>1, <1>2 DEF IInv, TypeOK
<1>4. TaskInv'
  BY <1>1, <1>2, LinkStays DEF IInv, TaskInv, Starting, Preparing, Dropping
<1>5. BitInv'
  BY <1>1, <1>2, LinkStays DEF IInv, BitInv
<1>6. CalmInv'
  BY <1>1, <1>2, LinkStays DEF IInv, CalmInv, Starting, Preparing, Dropping
<1>7. SeenInv'
  BY <1>1, <1>2, LinkStays DEF IInv, SeenInv, Dropping
<1>8. QED
  BY <1>3, <1>4, <1>5, <1>6, <1>7 DEF IInv

\* The same for the access point.
LEMMA StartAPStep ==
  ASSUME IInv, StartAP
  PROVE  IInv'
<1>1. /\ epc = "ap" /\ epc' = "apmode"
      /\ status' = "CONNECTING"
      /\ UNCHANGED <<bits, ipInfo, cmd, events, handler, step, mode,
                     config, link, scanning, kpc, tries, result, asked,
                     seen, calls>>
  BY DEF StartAP, Goto
<1>2. asked.calm => ~ Up /\ ~ GotIpPending
  BY <1>1, NoLinkWhileStarting DEF Starting, Preparing, Dropping
<1>3. TypeOK'
  BY <1>1, <1>2 DEF IInv, TypeOK
<1>4. TaskInv'
  BY <1>1, <1>2, LinkStays DEF IInv, TaskInv, Starting, Preparing, Dropping
<1>5. BitInv'
  BY <1>1, <1>2, LinkStays DEF IInv, BitInv
<1>6. CalmInv'
  BY <1>1, <1>2, LinkStays DEF IInv, CalmInv, Starting, Preparing, Dropping
<1>7. SeenInv'
  BY <1>1, <1>2, LinkStays DEF IInv, SeenInv, Dropping
<1>8. QED
  BY <1>3, <1>4, <1>5, <1>6, <1>7 DEF IInv

\* The configuration is that of the request, or begin gives up.
LEMMA ConfigureStep ==
  ASSUME IInv, Configure
  PROVE  IInv'
<1>1. /\ epc = "config"
      /\ \/ epc' = "connect" /\ config' = asked.net /\ status' = status
         \/ epc' = "reply" /\ status' = "DISCONNECTED" /\ config' = config
      /\ UNCHANGED <<bits, ipInfo, cmd, events, handler, step, mode, link,
                     scanning, kpc, tries, result, asked, seen, calls>>
  BY DEF Configure, Goto
<1>2. asked.calm => ~ Up /\ ~ GotIpPending
  BY <1>1, NoLinkWhileStarting DEF Starting, Preparing, Dropping
<1>3. TypeOK'
  BY <1>1, <1>2 DEF IInv, TypeOK
<1>4. TaskInv'
  BY <1>1, <1>2, LinkStays DEF IInv, TaskInv, Starting, Preparing, Dropping
<1>5. BitInv'
  BY <1>1, <1>2, LinkStays DEF IInv, BitInv
<1>6. CalmInv'
  BY <1>1, <1>2, LinkStays DEF IInv, CalmInv, Starting, Preparing, Dropping
<1>7. SeenInv'
  BY <1>1, <1>2, LinkStays DEF IInv, SeenInv, Dropping
<1>8. QED
  BY <1>3, <1>4, <1>5, <1>6, <1>7 DEF IInv

\* The attempt begins, with what was configured, or a link that there is stays.
LEMMA StartConnectStep ==
  ASSUME IInv, StartConnect
  PROVE  IInv'
<1>1. /\ epc = "connect" /\ epc' = "reply"
      /\ \/ /\ link.state = "down"
            /\ link' = [link EXCEPT !.state = "trying", !.net = config]
         \/ link' = link
      /\ UNCHANGED <<status, bits, ipInfo, cmd, events, handler, step, mode,
                     config, scanning, kpc, tries, result, asked, seen, calls>>
  BY DEF StartConnect, Goto
<1>2. /\ link'.no = link.no
      /\ link'.state \in {link.state, "trying"}
      /\ link'.state = "trying" =>
           link'.net = IF link.state = "down" THEN config ELSE link.net
      /\ link.state # "down" => link' = link
      /\ Up' <=> Up
  BY <1>1, LinkFields DEF IInv, TypeOK, Up
<1>3. /\ NoneQueued' <=> NoneQueued
      /\ Quiet' <=> Quiet
      /\ Latest("got_ip")' <=> Latest("got_ip")
      /\ Latest("disconnected")' <=> Latest("disconnected")
      /\ GotIpPending' <=> GotIpPending
      /\ OneGotIp' <=> OneGotIp
  BY <1>1, EventsStay DEF LinkEvents
<1>4. asked.calm => ~ Up /\ ~ GotIpPending /\ link.state = "down"
  BY <1>1, NoLinkWhileStarting DEF Starting, Preparing, Dropping
<1>5. TypeOK'
  <2>1. link' \in [state : {"down", "trying", "up"},
                   net : Networks \union {"none"}, no : 0 .. MaxLinks]
    BY <1>1 DEF IInv, TypeOK
  <2>2. QED
    BY <1>1, <2>1 DEF IInv, TypeOK
<1>6. TaskInv'
  BY <1>1, <1>2 DEF IInv, TaskInv, Starting, Preparing, Dropping
<1>7. BitInv'
  BY <1>1, <1>2, <1>3 DEF IInv, BitInv
<1>8. CalmInv'
  BY <1>1, <1>2, <1>3, <1>4, LinkFields
     DEF IInv, CalmInv, Starting, Preparing, Dropping
<1>9. SeenInv'
  <2>1. CASE asked.calm
    BY <1>1, <1>2, <1>3, <1>4, <2>1 DEF IInv, SeenInv
  <2>2. CASE ~ asked.calm
    BY <1>1, <1>2, <2>2 DEF IInv, SeenInv
  <2>3. QED
    BY <2>1, <2>2
<1>10. QED
  BY <1>5, <1>6, <1>7, <1>8, <1>9 DEF IInv

\* The station mode is left and with it the connection, or nothing works.
LEMMA EnterAPStep ==
  ASSUME IInv, EnterAP
  PROVE  IInv'
<1>1. /\ epc = "apmode" /\ epc' = "reply"
      /\ status' \in {status, "DISCONNECTED"}
      /\ \/ UNCHANGED <<mode, link, events>>
         \/ mode' = "AP" /\ LoseLink
      /\ UNCHANGED <<bits, ipInfo, cmd, handler, step, config, scanning,
                     kpc, tries, result, asked, seen, calls>>
  BY DEF EnterAP, Goto
<1>2. asked.calm => ~ Up /\ ~ GotIpPending
  BY <1>1, NoLinkWhileStarting DEF Starting, Preparing, Dropping
<1>3. status' \in {"IDLE", "CONNECTING", "CONNECTED", "DISCONNECTED"}
  BY <1>1 DEF IInv, TypeOK
<1>4. CASE UNCHANGED <<mode, link, events>>
  <2>1. TypeOK'
    BY <1>1, <1>3, <1>4 DEF IInv, TypeOK
  <2>2. TaskInv'
    BY <1>1, <1>4, LinkStays DEF IInv, TaskInv, Starting, Preparing, Dropping
  <2>3. BitInv'
    BY <1>1, <1>4, LinkStays DEF IInv, BitInv
  <2>4. CalmInv'
    BY <1>1, <1>2, <1>4, LinkStays
       DEF IInv, CalmInv, Starting, Preparing, Dropping
  <2>5. SeenInv'
    BY <1>1, <1>2, <1>4, LinkStays DEF IInv, SeenInv
  <2>6. QED
    BY <2>1, <2>2, <2>3, <2>4, <2>5 DEF IInv
<1>5. CASE mode' = "AP" /\ LoseLink
  <2>1. TypeOK'
    BY <1>1, <1>3, <1>5, LinkLost DEF IInv, TypeOK
  <2>2. TaskInv'
    BY <1>1, <1>5, LinkLost DEF IInv, TaskInv, Starting, Preparing, Dropping
  <2>3. BitInv'
    BY <1>1, <1>5, LinkLost DEF IInv, BitInv
  <2>4. CalmInv'
    BY <1>1, <1>2, <1>5, LinkLost
       DEF IInv, CalmInv, Starting, Preparing, Dropping
  <2>5. SeenInv'
    BY <1>1, <1>5, LinkLost DEF IInv, SeenInv
  <2>6. QED
    BY <2>1, <2>2, <2>3, <2>4, <2>5 DEF IInv
<1>6. QED
  BY <1>1, <1>4, <1>5

\* A scan uses its own bit and needs the station mode.
LEMMA ScanStep ==
  ASSUME IInv, Scan
  PROVE  IInv'
<1>1. /\ epc \in {"scan", "started", "scanned"} /\ epc' \in {"started", "scanned", "reply"}
      /\ mode' \in {mode, "STA"}
      /\ bits' \in {bits, bits \ {"SCAN_DONE"}}
      /\ scanning' \in {scanning, TRUE}
      /\ UNCHANGED <<status, ipInfo, cmd, events, handler, step, config,
                     link, kpc, tries, result, asked, seen, calls>>
  BY DEF Scan, Goto
<1>2. /\ "CONNECTED" \in bits' <=> "CONNECTED" \in bits
      /\ "DISCONNECTED" \in bits' <=> "DISCONNECTED" \in bits
      /\ bits' \subseteq bits
  BY <1>1
<1>3. cmd = "scan"
  BY <1>1, <1>2 DEF IInv, TaskInv
<1>4. TypeOK'
  <2>1. bits' \subseteq {"CONNECTED", "DISCONNECTED", "SCAN_DONE"}
    BY <1>2 DEF IInv, TypeOK
  <2>2. scanning' \in BOOLEAN
    BY <1>1 DEF IInv, TypeOK
  <2>3. QED
    BY <1>1, <2>1, <2>2 DEF IInv, TypeOK
<1>5. TaskInv'
  BY <1>1, <1>2, <1>3, LinkStays DEF IInv, TaskInv, Starting, Preparing, Dropping
<1>6. BitInv'
  BY <1>1, <1>2, <1>3, LinkStays DEF IInv, BitInv
<1>7. CalmInv'
  BY <1>1, <1>2, <1>3, LinkStays DEF IInv, CalmInv, Starting, Preparing, Dropping
<1>8. SeenInv'
  BY <1>1, <1>2, <1>3, LinkStays DEF IInv, SeenInv, Dropping
<1>9. QED
  BY <1>4, <1>5, <1>6, <1>7, <1>8 DEF IInv

\* The address of the connection there is, if the bit shows it.
LEMMA UpdateIpInfoStep ==
  ASSUME IInv, UpdateIpInfo
  PROVE  IInv'
<1>1. /\ epc \in {"ip", "netif"} /\ epc' \in {"netif", "reply"}
      /\ \/ /\ epc = "ip" /\ ipInfo' = ipInfo
            /\ epc' = IF mode = "STA" /\ "CONNECTED" \notin bits THEN "reply"
                       ELSE "netif"
         \/ epc = "netif" /\ epc' = "reply" /\ ipInfo' \in InterfaceAddress
      /\ UNCHANGED <<status, bits, cmd, events, handler, step, mode,
                     config, link, scanning, kpc, tries, result, asked,
                     seen, calls>>
  BY DEF UpdateIpInfo, Goto
<1>2. InterfaceAddress \subseteq 0 .. AP
  BY WifiAssumption, LinkFields DEF IInv, InterfaceAddress, AP
<1>3. Up => InterfaceAddress = {link.no}
  BY DEF IInv, TaskInv, Up, InterfaceAddress
<1>4. cmd = "ip" /\ kpc = "asked" /\ result = "none"
  BY <1>1, <1>2, <1>3 DEF IInv, TaskInv
<1>5. TypeOK'
  <2>1. ipInfo' \in 0 .. AP /\ AP' = AP
    BY <1>1, <1>2 DEF IInv, TypeOK, AP
  <2>2. QED
    BY <1>1, <2>1 DEF IInv, TypeOK
<1>6. TaskInv'
  BY <1>1, <1>2, <1>3, <1>4, LinkStays DEF IInv, TaskInv, Starting, Preparing, Dropping
<1>7. BitInv'
  BY <1>1, <1>2, <1>3, <1>4, LinkStays DEF IInv, BitInv
<1>8. CalmInv'
  BY <1>1, <1>2, <1>3, <1>4, LinkStays DEF IInv, CalmInv, Starting, Preparing, Dropping
<1>9. SeenInv'
  <2>1. (asked.calm /\ seen = link.no /\ Up) => "CONNECTED" \in bits
    BY <1>1 DEF IInv, SeenInv, BitInv
  <2>2. (asked.calm /\ seen = link.no /\ Up /\ epc' = "reply") => ipInfo' = link.no
    BY <1>1, <1>3, <2>1
  <2>3. QED
    BY <1>1, <1>4, <2>2, LinkStays DEF IInv, SeenInv, Dropping
<1>10. QED
  BY <1>5, <1>6, <1>7, <1>8, <1>9 DEF IInv

\* The connection is dropped on demand.
LEMMA LeaveStep ==
  ASSUME IInv, Leave
  PROVE  IInv'
<1>1. /\ epc = "leave" /\ epc' = "reply"
      /\ LoseLink
      /\ UNCHANGED <<status, bits, ipInfo, cmd, handler, step, mode,
                     config, scanning, kpc, tries, result, asked, seen,
                     calls>>
  BY DEF Leave, Goto
<1>2. TypeOK'
  BY <1>1, LinkLost DEF IInv, TypeOK
<1>3. TaskInv'
  BY <1>1, LinkLost DEF IInv, TaskInv, Starting, Preparing, Dropping
<1>4. BitInv'
  BY <1>1, LinkLost DEF IInv, BitInv
<1>5. CalmInv'
  BY <1>1, LinkLost DEF IInv, CalmInv, Starting, Preparing, Dropping
<1>6. SeenInv'
  BY <1>1, LinkLost DEF IInv, SeenInv, Dropping
<1>7. QED
  BY <1>2, <1>3, <1>4, <1>5, <1>6 DEF IInv

\* A connection is asked for; if nothing else goes on, it is the only one.
LEMMA AskConnectionStep ==
  ASSUME IInv, NEW c \in {"begin", "beginAP"}, NEW n \in Networks \union {"none"},
         AskConnection(c, n)
  PROVE  IInv'
<1>1. /\ kpc = "idle" /\ epc = "idle" /\ calls < MaxCalls /\ calls' = calls + 1
      /\ kpc' = "asked" /\ cmd' = c /\ epc' = "bit" /\ result' = "none"
      /\ asked' = [net |-> n, calm |-> Calm, from |-> link.no] /\ seen' = 0
      /\ UNCHANGED <<status, bits, ipInfo, events, handler, step, mode,
                     config, link, scanning, tries>>
  BY DEF AskConnection, Send
<1>2. /\ asked'.from = link.no /\ asked'.net = n
      /\ asked'.calm => events = <<>> /\ handler = "none" /\ link.state # "trying"
  BY <1>1 DEF Calm
<1>3. asked'.calm => ~ GotIpPending /\ OneGotIp
  BY <1>2 DEF GotIpPending, GotIpQueued, OneGotIp
<1>4. TypeOK'
  <2>1. calls' \in 0 .. MaxCalls /\ seen' \in 0 .. MaxLinks
    BY <1>1, WifiAssumption DEF IInv, TypeOK
  <2>2. Calm \in BOOLEAN
    BY DEF Calm
  <2>3. asked' \in [net : Networks \union {"none"}, calm : BOOLEAN,
                    from : 0 .. MaxLinks]
    BY <1>1, <2>2, LinkFields DEF IInv
  <2>4. QED
    BY <1>1, <2>1, <2>3 DEF IInv, TypeOK
<1>5. TaskInv'
  BY <1>1, LinkStays DEF IInv, TaskInv, Starting, Preparing, Dropping
<1>6. BitInv'
  BY <1>1, LinkStays DEF IInv, BitInv
<1>7. CalmInv'
  BY <1>1, <1>2, <1>3, LinkStays, LinkFields
     DEF IInv, CalmInv, Starting, Preparing, Dropping
<1>8. SeenInv'
  BY <1>1, LinkStays, LinkFields DEF IInv, SeenInv, TaskInv
<1>9. QED
  BY <1>4, <1>5, <1>6, <1>7, <1>8 DEF IInv

\* The other commands leave the request for a connection as it was.
LEMMA AskOtherStep ==
  ASSUME IInv, AskScan \/ AskAddress \/ AskLeave
  PROVE  IInv'
<1>1. /\ kpc = "idle" /\ epc = "idle" /\ calls < MaxCalls /\ calls' = calls + 1
      /\ kpc' = "asked" /\ result' = "none"
      /\ cmd' = epc' /\ epc' \in {"scan", "ip", "leave"}
      /\ UNCHANGED <<status, bits, ipInfo, events, handler, step, mode,
                     config, link, scanning, tries, asked, seen>>
  BY DEF AskScan, AskAddress, AskLeave, Send
<1>2. TypeOK'
  <2>1. calls' \in 0 .. MaxCalls
    BY <1>1, WifiAssumption DEF IInv, TypeOK
  <2>2. QED
    BY <1>1, <2>1 DEF IInv, TypeOK
<1>3. TaskInv'
  BY <1>1, LinkStays DEF IInv, TaskInv, Starting, Preparing, Dropping
<1>4. BitInv'
  BY <1>1, LinkStays DEF IInv, BitInv
<1>5. CalmInv'
  BY <1>1, LinkStays DEF IInv, CalmInv, Starting, Preparing, Dropping
<1>6. SeenInv'
  BY <1>1, LinkStays DEF IInv, SeenInv, Dropping
<1>7. QED
  BY <1>2, <1>3, <1>4, <1>5, <1>6 DEF IInv

\* The answer arrives or is lost.
LEMMA AnswerStep ==
  ASSUME IInv, Answer
  PROVE  IInv'
<1>1. /\ kpc = "asked" /\ epc = "reply" /\ epc' = "idle" /\ cmd' = "none"
      /\ kpc' \in {"idle", "poll"} /\ tries' \in {tries, RetryTimes}
      /\ result' \in {result, "failed", "ok", "address"}
      /\ result' = "address" => result = "address" \/ cmd = "ip"
      /\ UNCHANGED <<status, bits, ipInfo, events, handler, step, mode,
                     config, link, scanning, asked, seen, calls>>
  BY DEF Answer
<1>2. result = "none"
  BY <1>1 DEF IInv, TaskInv
<1>3. TypeOK'
  <2>1. tries' \in 0 .. RetryTimes
    BY <1>1, WifiAssumption DEF IInv, TypeOK
  <2>2. QED
    BY <1>1, <1>2, <2>1 DEF IInv, TypeOK
<1>4. TaskInv'
  BY <1>1, LinkStays DEF IInv, TaskInv, Starting, Preparing, Dropping
<1>5. BitInv'
  BY <1>1, LinkStays DEF IInv, BitInv
<1>6. CalmInv'
  BY <1>1, LinkStays DEF IInv, CalmInv, Starting, Preparing, Dropping
<1>7. SeenInv'
  BY <1>1, <1>2, LinkStays DEF IInv, SeenInv, Dropping
<1>8. QED
  BY <1>3, <1>4, <1>5, <1>6, <1>7 DEF IInv

\* connect_AP reads WL_CONNECTED: the event of this connection stored it, and
\* no other event is on its way while it lasts.
LEMMA PollStep ==
  ASSUME IInv, Poll
  PROVE  IInv'
<1>1. /\ kpc = "poll" /\ kpc' \in {"poll", "idle"}
      /\ tries' = tries \/ (tries > 0 /\ tries' = tries - 1)
      /\ \/ result' = "connected" /\ seen' = link.no /\ status = "CONNECTED"
         \/ result' \in {result, "failed"} /\ seen' = seen
      /\ UNCHANGED <<status, bits, ipInfo, cmd, epc, events, handler, step,
                     mode, config, link, scanning, asked, calls>>
  BY DEF Poll
<1>2. epc = "idle"
  BY <1>1 DEF IInv, TaskInv
<1>3. (asked.calm /\ status = "CONNECTED") =>
        link.no > asked.from /\ (Up => Quiet)
  BY <1>2, LatestIsOne DEF IInv, BitInv, CalmInv, Preparing, Dropping
<1>4. TypeOK'
  <2>1. tries' \in 0 .. RetryTimes
    BY <1>1, WifiAssumption DEF IInv, TypeOK
  <2>2. seen' \in 0 .. MaxLinks
    BY <1>1, LinkFields DEF IInv, TypeOK
  <2>3. QED
    BY <1>1, <2>1, <2>2 DEF IInv, TypeOK
<1>5. TaskInv'
  BY <1>1, LinkStays DEF IInv, TaskInv
<1>6. BitInv'
  BY <1>1, LinkStays DEF IInv, BitInv
<1>7. CalmInv'
  BY <1>1, LinkStays DEF IInv, CalmInv
<1>8. SeenInv'
  BY <1>1, <1>2, <1>3, LinkStays, LinkFields DEF IInv, SeenInv, Dropping
<1>9. QED
  BY <1>4, <1>5, <1>6, <1>7, <1>8 DEF IInv

\* The ESP32 starts afresh.
LEMMA ResetStep ==
  ASSUME IInv, Reset
  PROVE  IInv'
<1>1. /\ kpc = "idle" /\ epc = "idle" /\ calls < MaxCalls /\ calls' = calls + 1
      /\ status' = "IDLE" /\ bits' = {} /\ ipInfo' = 0
      /\ events' = <<>> /\ handler' = "none" /\ step' = 0
      /\ mode' = "NULL" /\ config' = "none" /\ scanning' = FALSE
      /\ link' = [link EXCEPT !.state = "down", !.net = "none"]
      /\ result' = "none" /\ seen' = 0
      /\ asked' = [net |-> "none", calm |-> TRUE, from |-> link.no]
      /\ UNCHANGED <<cmd, epc, kpc, tries>>
  BY DEF Reset
<1>2. link'.state = "down" /\ link'.no = link.no /\ ~ Up'
  BY <1>1, LinkFields DEF IInv, TypeOK, Up
<1>3. NoneQueued' /\ Quiet' /\ ~ GotIpPending' /\ OneGotIp'
  BY <1>1 DEF NoneQueued, Quiet, GotIpPending, GotIpQueued, OneGotIp, LinkEvents
<1>4. TypeOK'
  <2>1. /\ calls' \in 0 .. MaxCalls /\ seen' \in 0 .. MaxLinks
        /\ ipInfo' \in 0 .. AP /\ step' \in 0 .. 3
    BY <1>1, WifiAssumption DEF IInv, TypeOK, AP
  <2>2. /\ link' \in [state : {"down", "trying", "up"},
                      net : Networks \union {"none"}, no : 0 .. MaxLinks]
        /\ asked' \in [net : Networks \union {"none"}, calm : BOOLEAN,
                       from : 0 .. MaxLinks]
    BY <1>1, LinkFields DEF IInv
  <2>3. events' \in Seq({"got_ip", "disconnected", "scan_done"})
    BY <1>1
  <2>4. scanning' \in BOOLEAN
    BY <1>1
  <2>5. bits' \subseteq {"CONNECTED", "DISCONNECTED", "SCAN_DONE"}
    BY <1>1
  <2>6. QED
    BY <1>1, <2>1, <2>2, <2>3, <2>4, <2>5 DEF IInv, TypeOK
<1>5. TaskInv'
  BY <1>1, <1>2 DEF IInv, TaskInv, Starting, Preparing, Dropping
<1>6. BitInv'
  BY <1>1, <1>2, <1>3 DEF BitInv
<1>7. CalmInv'
  BY <1>1, <1>2, <1>3, LinkFields DEF IInv, CalmInv, Starting, Preparing, Dropping
<1>8. SeenInv'
  BY <1>1, <1>2, LinkFields DEF IInv, SeenInv
<1>9. QED
  BY <1>4, <1>5, <1>6, <1>7, <1>8 DEF IInv

\* Every step of either task, of the driver or of the K210 keeps the invariant.
LEMMA NextIInv == IInv /\ [Next]_vars => IInv'
<1> SUFFICES ASSUME IInv, [Next]_vars PROVE IInv'
  OBVIOUS
<1>1. CASE EventTask
  BY <1>1, TakeEventStep, HandlerGoesOn, HandlerReturns DEF EventTask
<1>2. CASE CommandTask
  BY <1>2, SeeBitStep, ClearBitStep, DropLinkStep, StartStationStep,
     ConfigureStep, StartConnectStep, StartAPStep, EnterAPStep, ScanStep,
     UpdateIpInfoStep, LeaveStep DEF CommandTask
<1>3. CASE Driver
  BY <1>3, LinkComesUpStep, LinkGoesDownStep, ScanEndsStep DEF Driver
<1>4. CASE Call
  BY <1>4, AskConnectionStep, AskOtherStep DEF Call
<1>5. CASE Answer \/ Poll \/ Reset
  BY <1>5, AnswerStep, PollStep, ResetStep
<1>6. CASE UNCHANGED vars
  <2>1. UNCHANGED <<status, bits, ipInfo, cmd, epc, events, handler, step,
                    mode, config, link, scanning, kpc, tries, result, asked,
                    seen, calls>>
    BY <1>6 DEF vars
  <2>2. TypeOK' /\ TaskInv' /\ BitInv'
    BY <2>1, LinkStays DEF IInv, TypeOK, TaskInv, BitInv
  <2>3. CalmInv' /\ SeenInv'
    BY <2>1, LinkStays DEF IInv, CalmInv, SeenInv
  <2>4. QED
    BY <2>2, <2>3 DEF IInv
<1>7. QED
  BY <1>1, <1>2, <1>3, <1>4, <1>5, <1>6 DEF Next, K210

-----------------------------------------------------------------------------
(* What follows for every execution *)

\* The invariant holds whatever the two tasks, the driver and the K210 do.
THEOREM InvariantHolds == Spec => []IInv
<1>1. Init => IInv
  BY InitIInv
<1>2. IInv /\ [Next]_vars => IInv'
  BY NextIInv
<1>3. QED
  BY <1>1, <1>2, PTL DEF Spec

\* Every variable keeps its type, the numbers of connections and calls too.
THEOREM TypeCorrect == Spec => []TypeOK
<1>1. IInv => TypeOK
  BY DEF IInv
<1>2. QED
  BY <1>1, InvariantHolds, PTL

\* A connect_AP that was called with nothing pending and returns true has a new
\* connection to the network it asked for: _status cannot show it the end of an
\* old one.
THEOREM ConnectIsSound == Spec => []ConnectSound
<1>1. IInv => ConnectSound
  BY DEF IInv, SeenInv, CalmInv, ConnectSound
<1>2. QED
  BY <1>1, InvariantHolds, PTL

\* When both tasks of the ESP32 have nothing left to do, the event bits and
\* _status tell of the connection as it is, in whatever order the stores of the
\* two tasks came.
THEOREM StatusIsTrueAtRest == Spec => []StatusSettles
<1>1. IInv => StatusSettles
  <2> SUFFICES ASSUME IInv, AtRest PROVE StatusSettles
    BY DEF StatusSettles
  <2>1. Quiet
    BY DEF AtRest, Quiet, NoneQueued, LinkEvents
  <2>2. link.state = "up" <=> Up
    BY DEF Up
  <2>3. ("CONNECTED" \in bits) <=> Up
    BY <2>1 DEF IInv, BitInv, AtRest
  <2>4. ("DISCONNECTED" \in bits) => link.state = "down"
    BY <2>1, <2>2, LinkFields DEF IInv, BitInv, AtRest
  <2>5. /\ status = "CONNECTED" => Up
        /\ (Up /\ asked.calm) => status = "CONNECTED"
    BY <2>1 DEF IInv, BitInv, CalmInv, AtRest, Dropping
  <2>6. QED
    BY <2>2, <2>3, <2>4, <2>5 DEF StatusSettles
<1>2. QED
  BY <1>1, InvariantHolds, PTL

\* While the connection that connect_AP reported lasts, the address answered is
\* the one it was given and not one kept from before.
THEOREM AddressIsCurrent == Spec => []AddressIsOfThisLink
<1>1. IInv => AddressIsOfThisLink
  BY DEF IInv, SeenInv, AddressIsOfThisLink, Up
<1>2. QED
  BY <1>1, InvariantHolds, PTL

=============================================================================
