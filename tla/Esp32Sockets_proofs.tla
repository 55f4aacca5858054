------------------------- MODULE Esp32Sockets_proofs -------------------------
(***************************************************************************)
(* Proofs about Esp32Sockets for any number of slots and descriptors, of   *)
(* connections and of lost transfers: every descriptor has one owner, no   *)
(* slot is lost except with a transfer, a number never turns into that of  *)
(* another connection, and a live connection ends only by its own close.   *)
(***************************************************************************)
EXTENDS Esp32Sockets, FiniteSetTheorems, WellFoundedInduction, TLAPS

USE DEF slots, net, client, NoFd, NoConn, ConnStates

-----------------------------------------------------------------------------
(* The inductive invariant *)

\* A slot keeps a descriptor only in the client of its type.
SlotInv ==
  \A s \in Slots :
    /\ socketTypes[s] # "TCP" => tcpClients[s] = NoFd
    /\ socketTypes[s] # "TLS" => tlsClients[s] = NoFd

\* A descriptor that is a connection belongs to one slot, the one that listens
\* to the server.
OwnInv ==
  /\ \A s \in Slots : FdOf(s) # NoFd => fds[FdOf(s)] \in Conns
  /\ \A s, t \in Slots : (FdOf(s) = FdOf(t) /\ FdOf(s) # NoFd) => s = t
  /\ \A f \in Fds : fds[f] \in Conns => \E s \in Slots : FdOf(s) = f
  /\ tcpServer # NoFd => fds[tcpServer] = Listening
  /\ \A f \in Fds : fds[f] = Listening => tcpServer = f

\* No more orphans than lost transfers.
OrphanInv == Cardinality(Orphans) <= lost

IInv == TypeOK /\ SlotInv /\ OwnInv /\ OrphanInv /\ HandleKeepsItsConnection

-----------------------------------------------------------------------------
(* Operators *)

\* A set of numbers that is not empty has a lowest member.
LEMMA LowestIsMember ==
  ASSUME NEW S \in SUBSET Nat, S # {}
  PROVE  Lowest(S) \in S
<1>1. PICK x \in S : \A y \in S : ~ (<<y, x>> \in OpToRel(<, Nat))
  BY NatLessThanWellFounded, WFMin
<1>2. \A y \in S : x <= y
  <2>1. ASSUME NEW y \in S, y < x PROVE FALSE
    <3>1. <<y, x>> \in Nat \X Nat /\ <<y, x>>[1] < <<y, x>>[2]
      BY <2>1
    <3>2. <<y, x>> \in OpToRel(<, Nat)
      BY <3>1, Zenon DEF OpToRel
    <3>3. QED
      BY <1>1, <3>2
  <2>2. QED
    BY <2>1
<1>3. QED
  BY <1>2 DEF Lowest

\* There are as many slots as MaxSockets says: a finite number.
LEMMA SlotsFinite == IsFiniteSet(Slots)
  BY BoundsAssumption, FS_Interval DEF Slots

\* The lowest empty slot, free descriptor, new or waiting connection.
LEMMA LowestOfEach ==
  /\ EmptySlots # {} => freeSocket \in EmptySlots
  /\ FreeFds # {} => Lowest(FreeFds) \in FreeFds
  /\ NewConns # {} => Lowest(NewConns) \in NewConns
  /\ Backlog # {} => Lowest(Backlog) \in Backlog
<1>1. /\ EmptySlots \in SUBSET Nat /\ FreeFds \in SUBSET Nat
      /\ NewConns \in SUBSET Nat /\ Backlog \in SUBSET Nat
  BY BoundsAssumption DEF EmptySlots, FreeFds, NewConns, Backlog, Slots, Fds, Conns
<1>2. QED
  BY <1>1, LowestIsMember DEF freeSocket

\* Neither "no connection" nor the mark of the server is a connection, and "no
\* descriptor" is not a descriptor.
LEMMA Marks ==
  /\ NoConn \notin Conns /\ Listening \notin Conns /\ NoConn # Listening
  /\ NoFd \notin Fds
  BY BoundsAssumption DEF Conns, Listening, Fds

\* What the commands on a slot use is a descriptor or nothing.
LEMMA FdOfType ==
  ASSUME TypeOK, NEW s \in Slots
  PROVE  FdOf(s) \in Fds \union {NoFd}
  BY DEF TypeOK, FdOf

\* So is what they talk to.
LEMMA ConnOfType ==
  ASSUME TypeOK, OwnInv, NEW s \in Slots
  PROVE  ConnOf(s) \in Conns \union {NoConn}
  BY FdOfType DEF OwnInv, ConnOf

-----------------------------------------------------------------------------
(* What may happen to the descriptors: one is taken into a slot, a slot gives *)
(* its own back, or only the server's change.                               *)

\* Slot s had none and takes the free descriptor f for connection c.
LEMMA TakeDescriptor ==
  ASSUME TypeOK, OwnInv,
         NEW s \in Slots, NEW f \in FreeFds, NEW c \in Conns,
         FdOf(s) = NoFd,
         \A t \in Slots : FdOf(t)' = IF t = s THEN f ELSE FdOf(t),
         fds' = [fds EXCEPT ![f] = c],
         tcpServer' = tcpServer
  PROVE  /\ OwnInv'
         /\ \A t \in Slots : ConnOf(t)' = IF t = s THEN c ELSE ConnOf(t)
<1>1. f \in Fds /\ fds[f] = NoConn /\ f # NoFd
  BY Marks DEF FreeFds
<1>2. /\ fds'[f] = c
      /\ \A g \in Fds : g # f => fds'[g] = fds[g]
  BY <1>1 DEF TypeOK
<1>3. \A t \in Slots : FdOf(t) # f /\ FdOf(t) \in Fds \union {NoFd}
  BY <1>1, Marks, FdOfType DEF OwnInv
<1>4. tcpServer # f /\ tcpServer \in Fds \union {NoFd}
  BY <1>1, Marks DEF OwnInv, TypeOK
<1>5. OwnInv'
  BY <1>1, <1>2, <1>3, <1>4, Marks DEF OwnInv
<1>6. \A t \in Slots : ConnOf(t)' = IF t = s THEN c ELSE ConnOf(t)
  BY <1>1, <1>2, <1>3 DEF ConnOf
<1>7. QED
  BY <1>5, <1>6

\* Slot s gives its descriptor back, if it has one.
LEMMA GiveBack ==
  ASSUME TypeOK, OwnInv,
         NEW s \in Slots,
         \A t \in Slots : FdOf(t)' = IF t = s THEN NoFd ELSE FdOf(t),
         fds' = [f \in Fds |-> IF f = FdOf(s) THEN NoConn ELSE fds[f]],
         tcpServer' = tcpServer
  PROVE  /\ OwnInv'
         /\ \A t \in Slots : ConnOf(t)' = IF t = s THEN NoConn ELSE ConnOf(t)
<1>1. \A t \in Slots : FdOf(t) \in Fds \union {NoFd}
  BY FdOfType
<1>2. \A f \in Fds : fds'[f] = IF f = FdOf(s) THEN NoConn ELSE fds[f]
  OBVIOUS
<1>3. tcpServer \in Fds => tcpServer # FdOf(s)
  BY Marks DEF OwnInv
<1>4. tcpServer \in Fds \union {NoFd}
  BY DEF TypeOK
<1>5. OwnInv'
  <2>1. \A t \in Slots : FdOf(t)' # NoFd => fds'[FdOf(t)'] \in Conns
    BY <1>1, <1>2 DEF OwnInv
  <2>2. \A t, u \in Slots : (FdOf(t)' = FdOf(u)' /\ FdOf(t)' # NoFd) => t = u
    BY DEF OwnInv
  <2>3. \A f \in Fds : fds'[f] \in Conns => \E t \in Slots : FdOf(t)' = f
    BY <1>2, Marks DEF OwnInv
  <2>4. tcpServer' # NoFd => fds'[tcpServer'] = Listening
    BY <1>2, <1>3, <1>4 DEF OwnInv
  <2>5. \A f \in Fds : fds'[f] = Listening => tcpServer' = f
    BY <1>2, Marks DEF OwnInv
  <2>6. QED
    BY <2>1, <2>2, <2>3, <2>4, <2>5 DEF OwnInv
<1>6. \A t \in Slots : ConnOf(t)' = IF t = s THEN NoConn ELSE ConnOf(t)
  BY <1>1, <1>2 DEF OwnInv, ConnOf
<1>7. QED
  BY <1>5, <1>6

\* The server gives its descriptor back, and may take one that is then free.
LEMMA ServerMoves ==
  ASSUME TypeOK, OwnInv, UNCHANGED slots,
         NEW f \in FreeFds \union {tcpServer, NoFd},
         tcpServer' = f,
         fds' = [g \in Fds |-> IF g = f THEN Listening
                               ELSE IF g = tcpServer THEN NoConn ELSE fds[g]]
  PROVE  /\ OwnInv'
         /\ \A t \in Slots : FdOf(t)' = FdOf(t) /\ ConnOf(t)' = ConnOf(t)
<1>1. \A t \in Slots : FdOf(t)' = FdOf(t) /\ FdOf(t) \in Fds \union {NoFd}
  BY FdOfType DEF FdOf
<1>2. \A g \in Fds : fds'[g] = IF g = f THEN Listening
                               ELSE IF g = tcpServer THEN NoConn ELSE fds[g]
  OBVIOUS
<1>3. f \in Fds \union {NoFd} /\ tcpServer \in Fds \union {NoFd}
  BY DEF TypeOK, FreeFds
<1>4. \A t \in Slots : FdOf(t) # NoFd => FdOf(t) # f /\ FdOf(t) # tcpServer
  BY Marks DEF OwnInv, FreeFds
<1>5. OwnInv'
  <2>1. \A t \in Slots : FdOf(t)' # NoFd => fds'[FdOf(t)'] \in Conns
    BY <1>1, <1>2, <1>4 DEF OwnInv
  <2>2. \A t, u \in Slots : (FdOf(t)' = FdOf(u)' /\ FdOf(t)' # NoFd) => t = u
    BY <1>1 DEF OwnInv
  <2>3. \A g \in Fds : fds'[g] \in Conns => \E t \in Slots : FdOf(t)' = g
    BY <1>1, <1>2, Marks DEF OwnInv
  <2>4. tcpServer' # NoFd => fds'[tcpServer'] = Listening
    BY <1>2, <1>3
  <2>5. \A g \in Fds : fds'[g] = Listening => tcpServer' = g
    BY <1>2, Marks DEF OwnInv
  <2>6. QED
    BY <2>1, <2>2, <2>3, <2>4, <2>5 DEF OwnInv
<1>6. \A t \in Slots : ConnOf(t)' = ConnOf(t)
  BY <1>1, <1>2, <1>4 DEF ConnOf
<1>7. QED
  BY <1>1, <1>5, <1>6

\* No slot and no descriptor is touched.
LEMMA NothingMoves ==
  ASSUME OwnInv, UNCHANGED <<slots, fds, tcpServer>>
  PROVE  /\ OwnInv'
         /\ \A t \in Slots : FdOf(t)' = FdOf(t) /\ ConnOf(t)' = ConnOf(t)
  BY DEF OwnInv, FdOf, ConnOf

-----------------------------------------------------------------------------
(* What may happen to the numbers the K210 holds                           *)

\* Orphans are slots, so there are finitely many.
LEMMA OrphansCount == IsFiniteSet(Orphans) /\ Cardinality(Orphans) \in Nat
<1>1. IsFiniteSet(Orphans)
  BY SlotsFinite, FS_Subset DEF Orphans
<1>2. QED
  BY <1>1, FS_CardinalityType

\* Where no slot becomes an orphan, the count still holds.
LEMMA NoNewOrphan ==
  ASSUME OrphanInv, Orphans' \subseteq Orphans, lost \in Nat,
         lost' \in {lost, lost + 1}
  PROVE  OrphanInv'
<1>1. Cardinality(Orphans') <= Cardinality(Orphans) /\ Cardinality(Orphans') \in Nat
  BY OrphansCount, FS_Subset, FS_CardinalityType
<1>2. QED
  BY <1>1, OrphansCount DEF OrphanInv

\* A lost transfer makes one orphan at most.
LEMMA OneNewOrphan ==
  ASSUME OrphanInv, NEW s, Orphans' \subseteq Orphans \union {s}, lost \in Nat,
         lost' = lost + 1
  PROVE  OrphanInv'
<1> DEFINE More == Orphans \union {s}
<1>1. IsFiniteSet(More) /\ Cardinality(More) <= Cardinality(Orphans) + 1
  BY OrphansCount, FS_AddElement
<1>2. Cardinality(Orphans') <= Cardinality(More) /\ Cardinality(Orphans') \in Nat
  BY <1>1, FS_Subset, FS_CardinalityType
<1>3. Cardinality(More) \in Nat
  BY <1>1, FS_CardinalityType
<1>4. QED
  BY <1>1, <1>2, <1>3, OrphansCount DEF OrphanInv

\* The types of what an answer, heard or not, leaves with the K210.
LEMMA AnswerType ==
  ASSUME TypeOK, NEW s \in Slots, NEW c \in Conns \union {NoConn}, Answer(s, c)
  PROVE  /\ held' \subseteq Slots
         /\ owner' \in [Slots -> Conns \union {NoConn}]
         /\ lost' \in 0 .. MaxLost
         /\ lost \in Nat /\ lost' \in {lost, lost + 1}
  BY BoundsAssumption DEF TypeOK, Answer, TransferFails

\* An empty slot is taken into use for c and the K210 is told, or not.
LEMMA SlotTaken ==
  ASSUME TypeOK, OrphanInv, HandleKeepsItsConnection,
         NEW s \in EmptySlots, NEW c \in Conns \union {NoConn},
         Answer(s, c), misled' = misled,
         socketTypes'[s] # "Empty",
         \A t \in Slots : t # s => socketTypes'[t] = socketTypes[t],
         \A t \in Slots : ConnOf(t)' = IF t = s THEN c ELSE ConnOf(t)
  PROVE  OrphanInv' /\ HandleKeepsItsConnection'
<1>1. s \in Slots /\ socketTypes[s] = "Empty"
  BY DEF EmptySlots
<1>2. held \subseteq Slots /\ owner \in [Slots -> Conns \union {NoConn}]
  BY DEF TypeOK
<1>3. lost \in Nat /\ lost' \in {lost, lost + 1}
  BY <1>1, AnswerType
<1>4. CASE held' = held \union {s} /\ owner' = [owner EXCEPT ![s] = c]
  <2>1. Orphans' \subseteq Orphans
    BY <1>1, <1>4 DEF Orphans
  <2>2. OrphanInv'
    BY <2>1, <1>3, NoNewOrphan
  <2>3. HandleKeepsItsConnection'
    BY <1>1, <1>2, <1>4 DEF HandleKeepsItsConnection
  <2>4. QED
    BY <2>2, <2>3
<1>5. CASE TransferFails /\ UNCHANGED <<held, owner>>
  <2>1. Orphans' \subseteq Orphans \union {s}
    BY <1>1, <1>5 DEF Orphans
  <2>2. OrphanInv'
    BY <2>1, <1>3, <1>5, OneNewOrphan DEF TransferFails
  <2>3. HandleKeepsItsConnection'
    BY <1>1, <1>2, <1>5 DEF HandleKeepsItsConnection
  <2>4. QED
    BY <2>2, <2>3
<1>6. QED
  BY <1>4, <1>5 DEF Answer

\* The K210's side and the types of the slots stay as they are, and a slot
\* keeps its connection or has none.
LEMMA HandlesKept ==
  ASSUME TypeOK, OrphanInv, HandleKeepsItsConnection,
         UNCHANGED <<client, socketTypes>>,
         \A t \in Slots : ConnOf(t)' \in {ConnOf(t), NoConn}
  PROVE  OrphanInv' /\ HandleKeepsItsConnection'
<1>1. Orphans' = Orphans /\ lost' = lost /\ lost \in Nat
  BY DEF Orphans, TypeOK
<1>2. OrphanInv'
  BY <1>1, NoNewOrphan
<1>3. HandleKeepsItsConnection'
  BY DEF HandleKeepsItsConnection, TypeOK
<1>4. QED
  BY <1>2, <1>3

-----------------------------------------------------------------------------
(* Every step keeps the invariant *)

\* Nothing is open and nothing is held.
LEMMA InitIInv == Init => IInv
<1> SUFFICES ASSUME Init PROVE IInv
  OBVIOUS
<1> USE DEF Init
<1>1. TypeOK
  <2>1. 0 \in 0 .. MaxUnread /\ 0 \in 0 .. MaxLost
    BY BoundsAssumption
  <2>2. QED
    BY <2>1 DEF TypeOK
<1>2. SlotInv /\ OwnInv
  BY Marks DEF SlotInv, OwnInv, FdOf
<1>3. OrphanInv
  <2>1. Orphans = {}
    BY DEF Orphans
  <2>2. QED
    BY <2>1, FS_EmptySet DEF OrphanInv
<1>4. HandleKeepsItsConnection
  BY DEF HandleKeepsItsConnection
<1>5. QED
  BY <1>1, <1>2, <1>3, <1>4 DEF IInv

\* A client connects: the slot and the descriptor were free.
LEMMA OpenSucceedsStep ==
  ASSUME IInv, NEW type, OpenSucceeds(type)
  PROVE  IInv'
<1> DEFINE s == freeSocket
           f == Lowest(FreeFds)
           c == Lowest(NewConns)
<1>1. s \in EmptySlots /\ f \in FreeFds /\ c \in NewConns
  BY LowestOfEach DEF OpenSucceeds
<1>2. /\ s \in Slots /\ socketTypes[s] = "Empty"
      /\ f \in Fds /\ c \in Conns /\ type \in {"TCP", "TLS"}
  BY <1>1 DEF EmptySlots, FreeFds, NewConns, OpenSucceeds
<1>3. TypeOK'
  BY <1>2, AnswerType DEF IInv, TypeOK, OpenSucceeds
<1>4. SlotInv'
  BY <1>2 DEF IInv, TypeOK, SlotInv, OpenSucceeds
<1>5. FdOf(s) = NoFd /\ \A t \in Slots : FdOf(t)' = IF t = s THEN f ELSE FdOf(t)
  BY <1>2 DEF IInv, TypeOK, FdOf, OpenSucceeds
<1>6. /\ OwnInv'
      /\ \A t \in Slots : ConnOf(t)' = IF t = s THEN c ELSE ConnOf(t)
  BY <1>1, <1>2, <1>5, TakeDescriptor DEF IInv, OpenSucceeds
<1>7. OrphanInv' /\ HandleKeepsItsConnection'
  <2>1. /\ socketTypes'[s] # "Empty"
        /\ \A t \in Slots : t # s => socketTypes'[t] = socketTypes[t]
    BY <1>2 DEF IInv, TypeOK, OpenSucceeds
  <2>2. Answer(s, c) /\ misled' = misled
    BY DEF OpenSucceeds
  <2>3. QED
    BY <1>1, <1>2, <1>6, <2>1, <2>2, SlotTaken DEF IInv
<1>8. QED
  BY <1>3, <1>4, <1>6, <1>7 DEF IInv

\* A TLS handshake fails: the slot is taken all the same, without a descriptor.
LEMMA OpenHandshakeFailsStep ==
  ASSUME IInv, OpenHandshakeFails
  PROVE  IInv'
<1> DEFINE s == freeSocket
<1>1. s \in EmptySlots /\ s \in Slots /\ socketTypes[s] = "Empty"
  BY LowestOfEach DEF OpenHandshakeFails, EmptySlots
<1>2. TypeOK'
  BY <1>1, AnswerType DEF IInv, TypeOK, OpenHandshakeFails
<1>3. SlotInv'
  BY <1>1 DEF IInv, TypeOK, SlotInv, OpenHandshakeFails
<1>4. \A t \in Slots : FdOf(t)' = FdOf(t)
  BY <1>1 DEF IInv, TypeOK, FdOf, OpenHandshakeFails
<1>5. OwnInv' /\ \A t \in Slots : ConnOf(t)' = ConnOf(t)
  BY <1>4 DEF IInv, OwnInv, ConnOf, OpenHandshakeFails
<1>6. OrphanInv' /\ HandleKeepsItsConnection'
  <2>1. /\ socketTypes'[s] # "Empty"
        /\ \A t \in Slots : t # s => socketTypes'[t] = socketTypes[t]
    BY <1>1 DEF IInv, TypeOK, OpenHandshakeFails
  <2>2. Answer(s, NoConn) /\ misled' = misled
    BY DEF OpenHandshakeFails
  <2>3. ConnOf(s) = NoConn
    BY <1>1 DEF ConnOf, FdOf
  <2>4. QED
    BY <1>1, <1>5, <2>1, <2>2, <2>3, SlotTaken DEF IInv
<1>7. QED
  BY <1>2, <1>3, <1>5, <1>6 DEF IInv

\* Nothing is opened: the slot stays empty, and the K210 that is told its
\* number is misled.
LEMMA OpenFailsStep ==
  ASSUME IInv, NEW type, OpenFails(type)
  PROVE  IInv'
<1> DEFINE s == freeSocket
<1>1. s \in Slots /\ socketTypes[s] = "Empty"
  BY LowestOfEach DEF OpenFails, EmptySlots
<1>2. UNCHANGED <<slots, tcpServer, net>>
  BY <1>1 DEF IInv, TypeOK, SlotInv, OpenFails
<1>3. misled' = (misled \/ s \in held') /\ Answer(s, NoConn)
  BY DEF OpenFails, Misleads
<1>4. TypeOK'
  <2>1. misled' \in BOOLEAN
    BY <1>3, Zenon
  <2>2. QED
    BY <1>1, <1>2, <1>3, <2>1, AnswerType DEF IInv, TypeOK
<1>5. SlotInv'
  BY <1>2 DEF IInv, SlotInv
<1>6. OwnInv' /\ \A t \in Slots : ConnOf(t)' = ConnOf(t)
  BY <1>2, NothingMoves DEF IInv
<1>7. OrphanInv'
  <2>1. lost \in Nat /\ lost' \in {lost, lost + 1}
    BY <1>1, <1>3, AnswerType DEF IInv
  <2>2. Orphans' \subseteq Orphans
    BY <1>2, <1>3 DEF Orphans, Answer
  <2>3. QED
    BY <2>1, <2>2, NoNewOrphan DEF IInv
<1>8. HandleKeepsItsConnection'
  <2>1. CASE s \in held'
    BY <2>1, <1>3 DEF HandleKeepsItsConnection
  <2>2. CASE s \notin held'
    <3>1. UNCHANGED <<held, owner, misled>>
      BY <1>3, <2>2 DEF Answer, IInv, TypeOK
    <3>2. QED
      BY <1>2, <1>6, <3>1 DEF IInv, TypeOK, HandleKeepsItsConnection
  <2>3. QED
    BY <2>1, <2>2
<1>9. QED
  BY <1>4, <1>5, <1>6, <1>7, <1>8 DEF IInv

\* What stop does to the clients and the descriptors.
LEMMA StopClientEffect ==
  ASSUME TypeOK, SlotInv, OwnInv, NEW s \in Slots, StopClient(s),
         UNCHANGED <<tcpServer, unread>>,
         socketTypes' \in {socketTypes, [socketTypes EXCEPT ![s] = "Empty"]}
  PROVE  /\ tcpClients' \in [Slots -> Fds \union {NoFd}]
         /\ tlsClients' \in [Slots -> Fds \union {NoFd}]
         /\ fds' \in [Fds -> Conns \union {NoConn, Listening}]
         /\ conn' \in [Conns -> ConnStates]
         /\ SlotInv'
         /\ OwnInv'
         /\ \A t \in Slots : ConnOf(t)' = IF t = s THEN NoConn ELSE ConnOf(t)
<1>1. /\ tcpClients' \in [Slots -> Fds \union {NoFd}]
      /\ tlsClients' \in [Slots -> Fds \union {NoFd}]
  BY DEF TypeOK, StopClient
<1>2. fds' \in [Fds -> Conns \union {NoConn, Listening}]
  BY DEF TypeOK, StopClient
<1>3. conn' \in [Conns -> ConnStates]
  BY DEF TypeOK, StopClient
<1>4. SlotInv'
  BY DEF TypeOK, SlotInv, StopClient
<1>5. \A t \in Slots : FdOf(t)' = IF t = s THEN NoFd ELSE FdOf(t)
  BY DEF TypeOK, SlotInv, FdOf, StopClient
<1>6. /\ OwnInv'
      /\ \A t \in Slots : ConnOf(t)' = IF t = s THEN NoConn ELSE ConnOf(t)
  BY <1>5, GiveBack DEF StopClient
<1>7. QED
  BY <1>1, <1>2, <1>3, <1>4, <1>6

\* The client of a slot notices that its connection is gone.
LEMMA DropStep ==
  ASSUME IInv, NEW s \in Slots, NoticeGone(s) \/ WriteFails(s)
  PROVE  IInv'
<1>1. /\ StopClient(s)
      /\ UNCHANGED <<socketTypes, tcpServer, unread, client>>
  BY DEF NoticeGone, WriteFails, Drop
<1>2. /\ tcpClients' \in [Slots -> Fds \union {NoFd}]
      /\ tlsClients' \in [Slots -> Fds \union {NoFd}]
      /\ fds' \in [Fds -> Conns \union {NoConn, Listening}]
      /\ conn' \in [Conns -> ConnStates]
      /\ SlotInv' /\ OwnInv'
      /\ \A t \in Slots : ConnOf(t)' = IF t = s THEN NoConn ELSE ConnOf(t)
  BY <1>1, StopClientEffect DEF IInv
<1>3. TypeOK'
  BY <1>1, <1>2 DEF IInv, TypeOK
<1>4. OrphanInv' /\ HandleKeepsItsConnection'
  BY <1>1, <1>2, HandlesKept DEF IInv
<1>5. QED
  BY <1>2, <1>3, <1>4 DEF IInv

\* The K210 reads.
LEMMA ReadBytesStep ==
  ASSUME IInv, NEW s \in Slots, ReadBytes(s)
  PROVE  IInv'
<1>1. UNCHANGED <<slots, tcpServer, fds, conn, client>>
  BY DEF ReadBytes
<1>2. TypeOK'
  <2>1. ConnOf(s) \in Conns
    BY ConnOfType DEF IInv, ReadBytes
  <2>2. unread' \in [Conns -> 0 .. MaxUnread]
    <3>1. PICK n \in 1 .. unread[ConnOf(s)] :
            unread' = [unread EXCEPT ![ConnOf(s)] = unread[ConnOf(s)] - n]
      BY DEF ReadBytes
    <3>2. unread \in [Conns -> 0 .. MaxUnread] /\ MaxUnread \in Nat
      BY BoundsAssumption DEF IInv, TypeOK
    <3>3. unread[ConnOf(s)] - n \in 0 .. MaxUnread
      BY <2>1, <3>1, <3>2
    <3>4. QED
      BY <2>1, <3>1, <3>2, <3>3
  <2>3. QED
    BY <1>1, <2>2 DEF IInv, TypeOK
<1>3. SlotInv' /\ OwnInv' /\ \A t \in Slots : ConnOf(t)' = ConnOf(t)
  BY <1>1, NothingMoves DEF IInv, SlotInv
<1>4. OrphanInv' /\ HandleKeepsItsConnection'
  BY <1>1, <1>3, HandlesKept DEF IInv
<1>5. QED
  BY <1>2, <1>3, <1>4 DEF IInv

\* The K210 closes a number and the slot is free.
LEMMA CloseStep ==
  ASSUME IInv, NEW s \in Slots, Close(s)
  PROVE  IInv'
<1>1. /\ StopClient(s)
      /\ socketTypes' = [socketTypes EXCEPT ![s] = "Empty"]
      /\ held' = held \ {s} /\ owner' = [owner EXCEPT ![s] = NoConn]
      /\ UNCHANGED <<tcpServer, unread, misled, lost>>
  BY DEF Close, Forget
<1>2. /\ tcpClients' \in [Slots -> Fds \union {NoFd}]
      /\ tlsClients' \in [Slots -> Fds \union {NoFd}]
      /\ fds' \in [Fds -> Conns \union {NoConn, Listening}]
      /\ conn' \in [Conns -> ConnStates]
      /\ SlotInv' /\ OwnInv'
      /\ \A t \in Slots : ConnOf(t)' = IF t = s THEN NoConn ELSE ConnOf(t)
  BY <1>1, StopClientEffect DEF IInv
<1>3. TypeOK'
  BY <1>1, <1>2 DEF IInv, TypeOK
<1>4. OrphanInv'
  <2>1. Orphans' \subseteq Orphans /\ lost' = lost /\ lost \in Nat
    BY <1>1 DEF IInv, TypeOK, Orphans
  <2>2. QED
    BY <2>1, NoNewOrphan DEF IInv
<1>5. HandleKeepsItsConnection'
  BY <1>1, <1>2 DEF IInv, TypeOK, HandleKeepsItsConnection
<1>6. QED
  BY <1>2, <1>3, <1>4, <1>5 DEF IInv

\* A close that is lost leaves one orphan, and costs one transfer.
LEMMA CloseUnheardStep ==
  ASSUME IInv, NEW s \in Slots, CloseUnheard(s)
  PROVE  IInv'
<1>1. /\ held' = held \ {s} /\ owner' = [owner EXCEPT ![s] = NoConn]
      /\ lost < MaxLost /\ lost' = lost + 1
      /\ UNCHANGED <<slots, tcpServer, net, misled>>
  BY DEF CloseUnheard, Forget, TransferFails
<1>2. TypeOK'
  BY <1>1, BoundsAssumption DEF IInv, TypeOK
<1>3. SlotInv' /\ OwnInv' /\ \A t \in Slots : ConnOf(t)' = ConnOf(t)
  BY <1>1, NothingMoves DEF IInv, SlotInv
<1>4. OrphanInv'
  <2>1. Orphans' \subseteq Orphans \union {s} /\ lost \in Nat
    BY <1>1 DEF IInv, TypeOK, Orphans
  <2>2. QED
    BY <1>1, <2>1, OneNewOrphan DEF IInv
<1>5. HandleKeepsItsConnection'
  BY <1>1, <1>3 DEF IInv, TypeOK, HandleKeepsItsConnection
<1>6. QED
  BY <1>2, <1>3, <1>4, <1>5 DEF IInv

\* The server is created, stopped, or stops when an accept fails.
LEMMA ServerStep ==
  ASSUME IInv, UNCHANGED <<slots, unread, client>>,
         NEW f \in FreeFds \union {tcpServer, NoFd},
         tcpServer' = f,
         fds' = [g \in Fds |-> IF g = f THEN Listening
                               ELSE IF g = tcpServer THEN NoConn ELSE fds[g]],
         conn' = [c \in Conns |-> IF c \in Backlog THEN "gone" ELSE conn[c]]
  PROVE  IInv'
<1>1. f \in Fds \union {NoFd}
  BY DEF IInv, TypeOK, FreeFds
<1>2. TypeOK'
  BY <1>1 DEF IInv, TypeOK
<1>3. OwnInv' /\ \A t \in Slots : ConnOf(t)' = ConnOf(t)
  BY ServerMoves DEF IInv
<1>4. SlotInv'
  BY DEF IInv, SlotInv
<1>5. OrphanInv' /\ HandleKeepsItsConnection'
  BY <1>3, HandlesKept DEF IInv
<1>6. QED
  BY <1>2, <1>3, <1>4, <1>5 DEF IInv

\* tcpServerCreate
LEMMA ServerCreateStep ==
  ASSUME IInv, ServerCreate
  PROVE  IInv'
<1> DEFINE freed == FreeFds \union ({tcpServer} \ {NoFd})
           f == Lowest(freed)
<1>1. freed \in SUBSET Nat /\ freed # {}
  BY BoundsAssumption DEF IInv, TypeOK, FreeFds, Fds, ServerCreate
<1>2. f \in FreeFds \union {tcpServer, NoFd}
  BY <1>1, LowestIsMember
<1>3. QED
  BY <1>2, ServerStep DEF ServerCreate

\* What closing the server does is what ServerStep is about.
LEMMA CloseServerStep ==
  ASSUME IInv, CloseServer, UNCHANGED <<slots, unread, client>>
  PROVE  IInv'
<1>1. fds' = [g \in Fds |-> IF g = NoFd THEN Listening
                            ELSE IF g = tcpServer THEN NoConn ELSE fds[g]]
  BY Marks DEF CloseServer
<1>2. QED
  BY <1>1, ServerStep DEF CloseServer

\* tcpServerAccept: the server closes, there is no slot, or a connection into a slot.
LEMMA ServerAcceptStep ==
  ASSUME IInv, ServerAccept
  PROVE  IInv'
<1>1. CASE AcceptFailed
  <2>1. UNCHANGED <<slots, unread, client>> /\ CloseServer
    BY <1>1 DEF ServerAccept, AcceptFailed
  <2>2. QED
    BY <2>1, CloseServerStep
<1>2. CASE Accepted /\ EmptySlots = {}
  <2>1. /\ UNCHANGED <<slots, tcpServer, fds, unread, client>>
        /\ conn' = [conn EXCEPT ![Lowest(Backlog)] = "gone"]
    BY <1>2 DEF ServerAccept, Accepted, NoSlot
  <2>2. TypeOK'
    BY <2>1 DEF IInv, TypeOK
  <2>3. SlotInv' /\ OwnInv' /\ \A t \in Slots : ConnOf(t)' = ConnOf(t)
    BY <2>1, NothingMoves DEF IInv, SlotInv
  <2>4. OrphanInv' /\ HandleKeepsItsConnection'
    BY <2>1, <2>3, HandlesKept DEF IInv
  <2>5. QED
    BY <2>2, <2>3, <2>4 DEF IInv
<1>3. CASE Accepted /\ EmptySlots # {}
  <2> DEFINE s == freeSocket
             f == Lowest(FreeFds)
             c == Lowest(Backlog)
  <2>1. /\ s \in EmptySlots /\ s \in Slots /\ socketTypes[s] = "Empty"
        /\ f \in FreeFds /\ f \in Fds /\ c \in Conns
    BY <1>3, LowestOfEach DEF Accepted, EmptySlots, FreeFds, Backlog
  <2>2. IntoSlot(s, f, c) /\ UNCHANGED <<tcpServer, unread, misled>>
    BY <1>3 DEF ServerAccept, Accepted
  <2>3. TypeOK'
    BY <2>1, <2>2, AnswerType DEF IInv, TypeOK, IntoSlot
  <2>4. SlotInv'
    BY <2>1, <2>2 DEF IInv, TypeOK, SlotInv, IntoSlot
  <2>5. FdOf(s) = NoFd /\ \A t \in Slots : FdOf(t)' = IF t = s THEN f ELSE FdOf(t)
    BY <2>1, <2>2 DEF IInv, TypeOK, FdOf, IntoSlot
  <2>6. /\ OwnInv'
        /\ \A t \in Slots : ConnOf(t)' = IF t = s THEN c ELSE ConnOf(t)
    BY <2>1, <2>2, <2>5, TakeDescriptor DEF IInv, IntoSlot
  <2>7. /\ socketTypes'[s] # "Empty"
        /\ \A t \in Slots : t # s => socketTypes'[t] = socketTypes[t]
    BY <2>1, <2>2 DEF IInv, TypeOK, IntoSlot
  <2>8. OrphanInv' /\ HandleKeepsItsConnection'
    BY <2>1, <2>2, <2>6, <2>7, SlotTaken DEF IInv, IntoSlot
  <2>9. QED
    BY <2>3, <2>4, <2>6, <2>8 DEF IInv
<1>4. QED
  BY <1>1, <1>2, <1>3 DEF ServerAccept

\* The network changes connections, not who holds them.
LEMMA NetworkStep ==
  ASSUME IInv, PeerConnects \/ \E c \in Conns : PeerSends(c) \/ PeerCloses(c) \/ PeerCuts(c) \/ PeerResets(c)
  PROVE  IInv'
<1>1. UNCHANGED <<slots, tcpServer, fds, client>>
  BY DEF PeerConnects, PeerSends, PeerCloses, PeerCuts, PeerResets
<1>2. conn' \in [Conns -> ConnStates]
  BY DEF IInv, TypeOK, PeerConnects, PeerSends, PeerCloses, PeerCuts, PeerResets
<1>3. unread' \in [Conns -> 0 .. MaxUnread]
  BY BoundsAssumption
     DEF IInv, TypeOK, PeerConnects, PeerSends, PeerCloses, PeerCuts, PeerResets
<1>4. TypeOK'
  BY <1>1, <1>2, <1>3 DEF IInv, TypeOK
<1>5. SlotInv' /\ OwnInv' /\ \A t \in Slots : ConnOf(t)' = ConnOf(t)
  BY <1>1, NothingMoves DEF IInv, SlotInv
<1>6. OrphanInv' /\ HandleKeepsItsConnection'
  BY <1>1, <1>5, HandlesKept DEF IInv
<1>7. QED
  BY <1>4, <1>5, <1>6 DEF IInv

\* IInv is inductive.
LEMMA NextIInv == IInv /\ [Next]_vars => IInv'
<1> SUFFICES ASSUME IInv, [Next]_vars PROVE IInv'
  OBVIOUS
<1>1. CASE \/ \E type \in {"TCP", "TLS"} : OpenSucceeds(type)
           \/ \E type \in {"TCP", "UDP", "TLS"} : OpenFails(type)
           \/ OpenHandshakeFails
  BY <1>1, OpenSucceedsStep, OpenFailsStep, OpenHandshakeFailsStep
<1>2. CASE \E s \in Slots : Poll(s) \/ WriteFails(s) \/ Close(s) \/ CloseUnheard(s)
  BY <1>2, ReadBytesStep, DropStep, CloseStep, CloseUnheardStep DEF Poll
<1>3. CASE ServerCreate
  BY <1>3, ServerCreateStep
<1>4. CASE ServerStop
  BY <1>4, CloseServerStep DEF ServerStop
<1>5. CASE ServerAccept
  BY <1>5, ServerAcceptStep
<1>6. CASE PeerConnects \/ \E c \in Conns : PeerSends(c) \/ PeerCloses(c) \/ PeerCuts(c) \/ PeerResets(c)
  BY <1>6, NetworkStep
<1>7. CASE UNCHANGED vars
  BY <1>7 DEF vars, IInv, TypeOK, SlotInv, OwnInv, OrphanInv, Orphans,
              HandleKeepsItsConnection, FdOf, ConnOf
<1>8. QED
  BY <1>1, <1>2, <1>3, <1>4, <1>5, <1>6, <1>7 DEF Next

-----------------------------------------------------------------------------
(* Theorems *)

\* The invariant holds in every reachable state.
THEOREM InvariantHolds == Spec => []IInv
<1>1. Init => IInv
  BY InitIInv
<1>2. IInv /\ [Next]_vars => IInv'
  BY NextIInv
<1>3. QED
  BY <1>1, <1>2, PTL DEF Spec

\* Every variable keeps its type.
THEOREM TypeCorrect == Spec => []TypeOK
<1>1. IInv => TypeOK
  BY DEF IInv
<1>2. QED
  BY <1>1, InvariantHolds, PTL

\* Who keeps a descriptor, seen from the invariant: nobody a free one, the slot
\* or the server it belongs to, and nobody else, one in use.
LEMMA KeepersKnown ==
  ASSUME IInv, NEW f \in Fds
  PROVE  /\ fds[f] = NoConn => Keepers(f) = {}
         /\ fds[f] # NoConn => \E k : Keepers(f) = {k}
<1>1. f # NoFd
  BY Marks
<1>2. \A s \in Slots : (tcpClients[s] = f \/ tlsClients[s] = f) <=> FdOf(s) = f
  BY <1>1 DEF IInv, TypeOK, SlotInv, FdOf
<1>3. CASE fds[f] = NoConn
  <2>1. tcpServer # f /\ \A s \in Slots : FdOf(s) # f
    BY <1>1, <1>3, Marks DEF IInv, OwnInv
  <2>2. QED
    BY <1>2, <1>3, <2>1 DEF Keepers
<1>4. CASE fds[f] = Listening
  <2>1. tcpServer = f /\ \A s \in Slots : FdOf(s) # f
    BY <1>1, <1>4, Marks DEF IInv, OwnInv
  <2>2. Keepers(f) = {<<"server", 0>>}
    BY <1>2, <2>1 DEF Keepers
  <2>3. QED
    BY <1>4, <2>2, Marks
<1>5. CASE fds[f] \in Conns
  <2>1. tcpServer # f
    BY <1>1, <1>5, Marks DEF IInv, OwnInv
  <2>2. PICK s \in Slots : FdOf(s) = f /\ \A t \in Slots : FdOf(t) = f => t = s
    BY <1>1, <1>5 DEF IInv, OwnInv
  <2>3. CASE tcpClients[s] = f
    <3>1. {t \in Slots : tcpClients[t] = f} = {s} /\ {t \in Slots : tlsClients[t] = f} = {}
      BY <1>1, <1>2, <2>2, <2>3 DEF IInv, SlotInv
    <3>2. Keepers(f) = {<<"TCP", s>>}
      BY <2>1, <3>1 DEF Keepers
    <3>3. QED
      BY <1>5, <3>2, Marks
  <2>4. CASE tlsClients[s] = f
    <3>1. {t \in Slots : tlsClients[t] = f} = {s} /\ {t \in Slots : tcpClients[t] = f} = {}
      BY <1>1, <1>2, <2>2, <2>4 DEF IInv, SlotInv
    <3>2. Keepers(f) = {<<"TLS", s>>}
      BY <2>1, <3>1 DEF Keepers
    <3>3. QED
      BY <1>5, <3>2, Marks
  <2>5. QED
    BY <1>2, <2>2, <2>3, <2>4
<1>6. QED
  BY <1>3, <1>4, <1>5 DEF IInv, TypeOK

\* No descriptor of lwIP is leaked, shared or closed twice.
THEOREM DescriptorsAreOwned == Spec => []FdsOwned
<1>1. IInv => FdsOwned
  <2> SUFFICES ASSUME IInv, NEW f \in Fds
               PROVE  Cardinality(Keepers(f)) = IF fds[f] = NoConn THEN 0 ELSE 1
    BY DEF FdsOwned
  <2>1. QED
    BY KeepersKnown, FS_EmptySet, FS_Singleton
<1>2. QED
  BY <1>1, InvariantHolds, PTL

\* Empty slots keep nothing, and no more slots are out of the K210's reach
\* than transfers were lost.
THEOREM SlotsAreAccountedFor == Spec => []SlotsAccountedFor
<1>1. IInv => SlotsAccountedFor
  BY DEF IInv, TypeOK, SlotInv, OrphanInv, SlotsAccountedFor, EmptySlots
<1>2. QED
  BY <1>1, InvariantHolds, PTL

\* A number the K210 holds never becomes that of another connection, unless it
\* was misled by the number of a failed open.
THEOREM HandlesAreStable == Spec => []HandleKeepsItsConnection
<1>1. IInv => HandleKeepsItsConnection
  BY DEF IInv
<1>2. QED
  BY <1>1, InvariantHolds, PTL

-----------------------------------------------------------------------------
(* Live connections                                                         *)

\* A reset throws away what was not read, so nothing is left to be lost.
ResetInv == \A c \in Conns : conn[c] = "reset" => unread[c] = 0

\* A connection that is reset loses its bytes in the same step, and none come
\* for it afterwards.
LEMMA ResetInvStep == IInv /\ ResetInv /\ [Next]_vars => ResetInv'
<1> SUFFICES ASSUME IInv, ResetInv, [Next]_vars, NEW c \in Conns, conn'[c] = "reset"
             PROVE  unread'[c] = 0
  BY DEF ResetInv
<1>1. CASE UNCHANGED unread /\ conn[c] = "reset"
  BY <1>1 DEF ResetInv
<1>2. CASE \E d \in Conns : PeerResets(d)
  BY <1>2 DEF IInv, TypeOK, ResetInv, PeerResets
<1>3. CASE \E d \in Conns : PeerSends(d)
  BY <1>3 DEF IInv, TypeOK, ResetInv, PeerSends
<1>4. CASE \E s \in Slots : ReadBytes(s)
  <2>1. PICK s \in Slots : ReadBytes(s)
    BY <1>4
  <2>2. conn[c] = "reset" /\ unread[c] = 0 /\ ConnOf(s) # c
    BY <2>1 DEF ResetInv, ReadBytes
  <2>3. QED
    BY <2>1, <2>2 DEF IInv, TypeOK, ReadBytes
<1>5. ASSUME ~ \E d \in Conns : PeerResets(d) \/ PeerSends(d),
             ~ \E s \in Slots : ReadBytes(s)
      PROVE  UNCHANGED unread /\ conn[c] = "reset"
  <2>1. CASE \E s \in Slots : NoticeGone(s) \/ WriteFails(s) \/ Close(s)
    BY <2>1 DEF NoticeGone, WriteFails, Close, Drop, StopClient
  <2>2. CASE ServerCreate \/ ServerStop
    BY <2>2 DEF ServerCreate, ServerStop, CloseServer
  <2>3. CASE ServerAccept /\ AcceptFailed
    BY <2>3 DEF ServerAccept, AcceptFailed, CloseServer
  <2>4. CASE ServerAccept /\ Accepted
    BY <2>4 DEF IInv, TypeOK, ServerAccept, Accepted, NoSlot, IntoSlot
  <2>5. CASE \E type \in {"TCP", "TLS"} : OpenSucceeds(type)
    BY <2>5 DEF IInv, TypeOK, OpenSucceeds
  <2>6. CASE PeerConnects \/ \E d \in Conns : PeerCloses(d) \/ PeerCuts(d)
    BY <2>6 DEF IInv, TypeOK, PeerConnects, PeerCloses, PeerCuts
  <2>7. CASE \/ \E type \in {"TCP", "UDP", "TLS"} : OpenFails(type)
             \/ OpenHandshakeFails
             \/ \E s \in Slots : CloseUnheard(s)
             \/ UNCHANGED vars
    BY <2>7 DEF OpenFails, OpenHandshakeFails, CloseUnheard, vars
  <2>8. QED
    BY <1>5, <2>1, <2>2, <2>3, <2>4, <2>5, <2>6, <2>7 DEF Next, Poll, ServerAccept
<1>6. QED
  BY <1>1, <1>2, <1>3, <1>4, <1>5

\* Whatever happens to the server, the connections in the slots stay.
LEMMA ServerKeepsConnections ==
  ASSUME IInv, NEW s \in Slots,
         ServerCreate \/ ServerStop \/ (ServerAccept /\ AcceptFailed)
  PROVE  ConnOf(s)' = ConnOf(s)
<1>1. CASE ServerCreate
  <2> DEFINE freed == FreeFds \union ({tcpServer} \ {NoFd})
             f == Lowest(freed)
  <2>1. freed \in SUBSET Nat /\ freed # {}
    BY <1>1, BoundsAssumption DEF IInv, TypeOK, FreeFds, Fds, ServerCreate
  <2>2. f \in FreeFds \union {tcpServer, NoFd}
    BY <2>1, LowestIsMember
  <2>3. QED
    BY <1>1, <2>2, ServerMoves DEF IInv, ServerCreate
<1>2. CASE ServerStop \/ (ServerAccept /\ AcceptFailed)
  <2>1. CloseServer /\ UNCHANGED slots
    BY <1>2 DEF ServerStop, AcceptFailed
  <2>2. fds' = [g \in Fds |-> IF g = NoFd THEN Listening
                              ELSE IF g = tcpServer THEN NoConn ELSE fds[g]]
    BY <2>1, Marks DEF CloseServer
  <2>3. QED
    BY <2>1, <2>2, ServerMoves DEF IInv, CloseServer
<1>3. QED
  BY <1>1, <1>2

\* Only the commands on a slot and those that take an empty one change what it is
\* connected to.
LEMMA ConnectionStays ==
  ASSUME IInv, [Next]_vars, NEW s \in held, ConnOf(s) # NoConn,
         ~ (NoticeGone(s) \/ WriteFails(s) \/ Close(s))
  PROVE  ConnOf(s)' = ConnOf(s)
<1>1. s \in Slots /\ socketTypes[s] # "Empty"
  BY DEF IInv, TypeOK, ConnOf, FdOf
<1>2. CASE UNCHANGED <<slots, fds, tcpServer>>
  BY <1>1, <1>2, NothingMoves DEF IInv
<1>3. CASE \E type \in {"TCP", "TLS"} : OpenSucceeds(type)
  <2>1. PICK type \in {"TCP", "TLS"} : OpenSucceeds(type)
    BY <1>3
  <2>2. /\ freeSocket \in Slots /\ freeSocket # s
        /\ Lowest(FreeFds) \in Fds /\ fds[Lowest(FreeFds)] = NoConn
    BY <1>1, <2>1, LowestOfEach DEF OpenSucceeds, EmptySlots, FreeFds
  <2>3. FdOf(s)' = FdOf(s)
    BY <1>1, <2>1, <2>2 DEF IInv, TypeOK, FdOf, OpenSucceeds
  <2>4. FdOf(s) # NoFd /\ FdOf(s) \in Fds /\ FdOf(s) # Lowest(FreeFds)
    BY <1>1, <2>2, FdOfType DEF IInv, ConnOf
  <2>5. QED
    BY <2>1, <2>3, <2>4 DEF IInv, TypeOK, ConnOf, OpenSucceeds
<1>4. CASE OpenHandshakeFails
  <2>1. freeSocket \in Slots /\ freeSocket # s
    BY <1>1, <1>4, LowestOfEach DEF OpenHandshakeFails, EmptySlots
  <2>2. FdOf(s)' = FdOf(s)
    BY <1>1, <1>4, <2>1 DEF IInv, TypeOK, FdOf, OpenHandshakeFails
  <2>3. QED
    BY <1>4, <2>2 DEF ConnOf, OpenHandshakeFails
<1>5. CASE \E type \in {"TCP", "UDP", "TLS"} : OpenFails(type)
  <2>1. PICK type \in {"TCP", "UDP", "TLS"} : OpenFails(type)
    BY <1>5
  <2>2. freeSocket \in Slots /\ freeSocket # s
    BY <1>1, <2>1, LowestOfEach DEF OpenFails, EmptySlots
  <2>3. FdOf(s)' = FdOf(s)
    BY <1>1, <2>1, <2>2 DEF IInv, TypeOK, FdOf, OpenFails
  <2>4. QED
    BY <2>1, <2>3 DEF ConnOf, OpenFails
<1>6. CASE \E t \in Slots : NoticeGone(t) \/ WriteFails(t) \/ Close(t)
  <2>1. PICK t \in Slots : NoticeGone(t) \/ WriteFails(t) \/ Close(t)
    BY <1>6
  <2>2. t # s
    BY <2>1
  <2>3. /\ StopClient(t)
        /\ UNCHANGED <<tcpServer, unread>>
        /\ socketTypes' \in {socketTypes, [socketTypes EXCEPT ![t] = "Empty"]}
    BY <2>1 DEF NoticeGone, WriteFails, Close, Drop
  <2>4. QED
    BY <1>1, <2>2, <2>3, StopClientEffect DEF IInv
<1>7. CASE ServerCreate \/ ServerStop \/ (ServerAccept /\ AcceptFailed)
  BY <1>1, <1>7, ServerKeepsConnections
<1>8. CASE ServerAccept /\ Accepted
  <2>1. CASE EmptySlots = {}
    BY <1>2, <1>8, <2>1 DEF ServerAccept, Accepted, NoSlot
  <2>2. CASE EmptySlots # {}
    <3>1. /\ freeSocket \in Slots /\ freeSocket # s
          /\ Lowest(FreeFds) \in Fds /\ fds[Lowest(FreeFds)] = NoConn
      BY <1>1, <1>8, <2>2, LowestOfEach DEF Accepted, EmptySlots, FreeFds
    <3>2. IntoSlot(freeSocket, Lowest(FreeFds), Lowest(Backlog))
      BY <1>8, <2>2 DEF Accepted
    <3>3. FdOf(s)' = FdOf(s)
      BY <1>1, <3>1, <3>2 DEF IInv, TypeOK, FdOf, IntoSlot
    <3>4. FdOf(s) # NoFd /\ FdOf(s) \in Fds /\ FdOf(s) # Lowest(FreeFds)
      BY <1>1, <3>1, FdOfType DEF IInv, ConnOf
    <3>5. QED
      BY <3>2, <3>3, <3>4 DEF IInv, TypeOK, ConnOf, IntoSlot
  <2>3. QED
    BY <2>1, <2>2
<1>9. QED
  <2>1. CASE \/ \E t \in Slots : ReadBytes(t) \/ CloseUnheard(t)
             \/ PeerConnects
             \/ \E c \in Conns : PeerSends(c) \/ PeerCloses(c) \/ PeerCuts(c) \/ PeerResets(c)
             \/ UNCHANGED vars
    BY <1>2, <2>1 DEF ReadBytes, CloseUnheard, PeerConnects, PeerSends, PeerCloses,
                      PeerCuts, PeerResets, vars
  <2>2. QED
    BY <1>3, <1>4, <1>5, <1>6, <1>7, <1>8, <2>1 DEF Next, Poll, ServerAccept

\* While the K210 holds a number, its live connection stays.
THEOREM LiveConnectionsAreKept == Spec => LiveConnectionsStay
<1>1. Init => ResetInv
  BY DEF Init, ResetInv
<1>2. ASSUME IInv, ResetInv, [Next]_vars, NEW s \in held,
             ConnOf(s) # NoConn, Live(ConnOf(s))
      PROVE  ConnOf(s)' = ConnOf(s) \/ s \notin held'
  <2>1. s \in Slots /\ ConnOf(s) \in Conns
    BY <1>2, ConnOfType DEF IInv, TypeOK
  <2>2. ~ (NoticeGone(s) \/ WriteFails(s))
    BY <1>2, <2>1 DEF IInv, TypeOK, ResetInv, Live, NoticeGone, PeerGone, WriteFails
  <2>3. CASE Close(s)
    BY <2>3 DEF Close, Forget
  <2>4. CASE ~ Close(s)
    BY <1>2, <2>2, <2>4, ConnectionStays
  <2>5. QED
    BY <2>3, <2>4
<1>3. IInv /\ ResetInv /\ [Next]_vars =>
        [\A s \in held : (ConnOf(s) # NoConn /\ Live(ConnOf(s))) =>
            (ConnOf(s)' = ConnOf(s) \/ s \notin held')]_vars
  BY <1>2
<1>4. QED
  BY <1>1, <1>3, ResetInvStep, InvariantHolds, PTL DEF Spec, LiveConnectionsStay
=============================================================================
